-------------------------- MODULE CallEngineProofs --------------------------
(***************************************************************************)
(* Theorems about the call engine, for any set of calls, price, maximum    *)
(* duration and bounds.                                                    *)
(***************************************************************************)
EXTENDS CallEngine, BillingProofs, FiniteSetTheorems

-----------------------------------------------------------------------------
(* Types of the operators the actions are built from.                      *)

EngineType == [s: Session, t: SUBSET Task]

\* Products of natural numbers, which SMT does not do among other facts.
LEMMA TimesNat ==
  ASSUME NEW a \in Nat, NEW b \in Nat
  PROVE  a * b \in Nat
  BY SMT

\* The reservation and every cost are natural numbers.
LEMMA ConstantTypes ==
  /\ Reservation \in Nat
  /\ \A secs \in Nat : CostOf(secs) \in Nat
  BY BillingAssumption, ReservationNat, CostNat DEF Reservation, CostOf

\* The types of the variables of one call.
LEMMA EngineParts ==
  ASSUME TypeOK, NEW c \in Calls
  PROVE  /\ session[c] \in Session
         /\ tasks[c] \subseteq Task
         /\ prov[c] \in Channel
         /\ elapsed[c] \in 0 .. MaxTicks
         /\ Engine(c) \in EngineType
         /\ \A t : Resuming(c, t) \in EngineType
  BY DEF TypeOK, Engine, Resuming, EngineType

\* The duration a handler bills is a natural number.
LEMMA DurationType ==
  ASSUME TypeOK, NEW c \in Calls
  PROVE  /\ DurationOf(session[c], c) \in Nat
         /\ elapsed[c] * TickSecs \in Nat
  <1>1. elapsed[c] \in Nat /\ TickSecs \in Nat
    BY EngineParts, BillingAssumption, BoundsAssumption, SMT
  <1>2. elapsed[c] * TickSecs \in Nat
    BY <1>1, TimesNat
  <1>3. QED
    BY <1>2 DEF DurationOf

\* Await keeps the type of a session and its tasks.
LEMMA AwaitType ==
  ASSUME NEW e \in EngineType, NEW t \in Task
  PROVE  Await(e, t) \in EngineType
  BY DEF Await, EngineType

\* terminateCall up to its first await keeps that type.
LEMMA TerminateCallType ==
  ASSUME NEW e \in EngineType, NEW status \in FinalStatus, NEW via \in Waiter
  PROVE  TerminateCall(e, status, via) \in EngineType
  <1>0. e.s \in Session /\ e.s.ends + 1 \in Nat
    BY DEF EngineType, Session
  <1>1. [e.s EXCEPT !.state = "TERMINATED", !.ends = @ + 1] \in Session
    BY <1>0 DEF Session
  <1>2. [k |-> "hangup", n |-> e.s.ends, status |-> status, via |-> via] \in Task
    BY DEF EngineType, Session, Task
  <1>3. QED
    BY <1>1, <1>2 DEF TerminateCall, EngineType

\* cleanupSession up to its first await keeps that type.
LEMMA CleanupSessionType ==
  ASSUME NEW e \in EngineType, NEW status \in FinalStatus, NEW secs \in Nat,
         NEW via \in Waiter
  PROVE  CleanupSession(e, status, secs, via) \in EngineType
  <1>0. e.s \in Session /\ e.s.ends + 1 \in Nat
    BY DEF EngineType, Session
  <1>1. [e.s EXCEPT !.state = "TERMINATED", !.max = FALSE, !.silence = FALSE,
                    !.ends = @ + 1] \in Session
    BY <1>0 DEF Session
  <1>2. [k |-> "cleanup", n |-> e.s.ends, status |-> status, secs |-> secs,
         via |-> via] \in Task
    BY DEF EngineType, Session, Task
  <1>3. QED
    BY <1>1, <1>2 DEF CleanupSession, EngineType

\* startSpeechListening handing over a turn keeps that type.
LEMMA StartTurnType ==
  ASSUME NEW e \in EngineType
  PROVE  StartTurn(e) \in EngineType
  <1>0. e.s \in Session /\ e.s.seq + 1 \in Nat
    BY DEF EngineType, Session
  <1>1. [e.s EXCEPT !.state = "PROCESSING_TURN", !.silence = FALSE,
                    !.seq = @ + 1] \in Session
    BY <1>0 DEF Session, LiveStates
  <1>2. [k |-> "turn", n |-> e.s.seq + 1] \in Task
    BY DEF EngineType, Session, Task
  <1>3. QED
    BY <1>1, <1>2 DEF StartTurn, EngineType

\* A handler whose result has the type keeps the type of both variables.
LEMMA BecomesType ==
  ASSUME TypeOK, NEW c \in Calls, NEW e \in EngineType, Becomes(c, e)
  PROVE  /\ session' \in [Calls -> Session]
         /\ tasks' \in [Calls -> SUBSET Task]
  BY DEF TypeOK, Becomes, EngineType

\* One or two messages are a sequence of messages.
LEMMA MessageSequences ==
  \A m, n \in Message : <<m>> \in Seq(Message) /\ <<m, n>> \in Seq(Message)
  OBVIOUS

\* Counting a failure keeps the type of the counters.
LEMMA FaultsType ==
  ASSUME TypeOK
  PROVE  /\ [faults EXCEPT !.write = @ + 1] \in [write: Nat, lost: Nat, crash: Nat]
         /\ [faults EXCEPT !.lost = @ + 1] \in [write: Nat, lost: Nat, crash: Nat]
         /\ [faults EXCEPT !.crash = @ + 1] \in [write: Nat, lost: Nat, crash: Nat]
         /\ [faults EXCEPT !.write = @ + 1, !.crash = @ + 1]
              \in [write: Nat, lost: Nat, crash: Nat]
  <1>1. /\ faults \in [write: Nat, lost: Nat, crash: Nat]
        /\ faults.write + 1 \in Nat
        /\ faults.lost + 1 \in Nat
        /\ faults.crash + 1 \in Nat
    BY DEF TypeOK
  <1>2. QED
    BY <1>1

\* A channel that drops is a channel.
LEMMA DroppedType ==
  ASSUME TypeOK, NEW c \in Calls, NEW p \in Dropped(c)
  PROVE  p \in Channel
  <1>1. prov[c] \in Channel
    BY EngineParts
  <1>2. \A b \in BOOLEAN : GoneMessages(b) \subseteq Seq(Message)
    <2>1. {"GONE", "END", "NO_ANSWER", "BUSY", "FAILURE"} \subseteq Message
      BY DEF Message
    <2>2. QED
      BY <2>1, MessageSequences DEF GoneMessages
  <1>3. CASE prov[c].chan \in Connected
    <2>1. PICK m \in GoneMessages(prov[c].chan \notin {"dialing", "ringing"}) :
            p = [prov[c] EXCEPT !.chan = "down", !.playing = 0, !.msgs = @ \o m]
      BY <1>3 DEF Dropped
    <2>2. m \in Seq(Message)
      BY <1>2, <2>1
    <2>3. prov[c].msgs \o m \in Seq(Message)
      BY <1>1, <2>2 DEF Channel
    <2>4. QED
      BY <1>1, <2>1, <2>3 DEF Channel
  <1>4. QED
    BY <1>1, <1>3 DEF Dropped

\* A channel that starts to play is a channel.
LEMMA PlayingType ==
  ASSUME TypeOK, NEW c \in Calls
  PROVE  Playing(c) \in [Calls -> Channel]
  <1>1. prov[c] \in Channel /\ prov[c].playing + 1 \in Nat
    BY EngineParts DEF Channel
  <1>2. QED
    BY <1>1 DEF Playing, TypeOK, Channel

\* Every case of handleEvent keeps the type of a session and its tasks.
LEMMA HandleType ==
  ASSUME TypeOK, NEW c \in Calls, NEW e \in EngineType, NEW m \in Message
  PROVE  Handle(e, m, c) \in EngineType
  <1>1. OnRinging(e) \in EngineType
    <2>1. [e EXCEPT !.s.state = "RINGING"] \in EngineType
      BY DEF EngineType, Session, LiveStates
    <2>2. [k |-> "ringing", n |-> IF e.s.answered THEN 1 ELSE 0] \in Task
      BY DEF Task
    <2>3. QED
      BY <2>1, <2>2, AwaitType DEF OnRinging
  <1>2. OnAnswered(e) \in EngineType
    <2>1. [e EXCEPT !.s.state = "IN_PROGRESS", !.s.answered = TRUE] \in EngineType
      BY DEF EngineType, Session, LiveStates
    <2>2. [k |-> "answered", n |-> 0] \in Task
      BY DEF Task
    <2>3. QED
      BY <2>1, <2>2, AwaitType DEF OnAnswered
  <1>3. OnPromptFinished(e) \in EngineType
    BY DEF OnPromptFinished, EngineType, Session, LiveStates
  <1>4. OnCallEnded(e, m, c) \in EngineType
    <2>1. StatusOf(m) \in FinalStatus /\ "event" \in Waiter
      BY DEF StatusOf, FinalStatus, Waiter
    <2>2. elapsed[c] * TickSecs \in Nat
      BY DurationType
    <2>3. QED
      BY <2>1, <2>2, CleanupSessionType DEF OnCallEnded
  <1>5. OnCallFailed(e) \in EngineType
    BY CleanupSessionType DEF OnCallFailed, FinalStatus, Waiter
  <1>6. QED
    BY <1>1, <1>2, <1>3, <1>4, <1>5 DEF Handle

\* Losing the memory of the process keeps the type.
LEMMA MemoryIsLostType ==
  ASSUME TypeOK, MemoryIsLost, faults' \in [write: Nat, lost: Nat, crash: Nat]
  PROVE  TypeOK'
  <1>1. session' \in [Calls -> Session]
    BY DEF MemoryIsLost, NoSession, Session, LiveStates
  <1>2. prov' \in [Calls -> Channel]
    <2>1. \A p \in Channel : [p EXCEPT !.known = FALSE] \in Channel
      BY DEF Channel
    <2>2. \A c \in Calls : prov[c] \in Channel
      BY DEF TypeOK
    <2>3. QED
      BY <2>1, <2>2 DEF MemoryIsLost
  <1>3. QED
    BY <1>1, <1>2 DEF TypeOK, MemoryIsLost

\* So does a crash.
LEMMA CrashType ==
  ASSUME TypeOK, Crash
  PROVE  TypeOK'
  <1>1. faults' \in [write: Nat, lost: Nat, crash: Nat]
    BY FaultsType DEF Crash
  <1>2. QED
    BY <1>1, MemoryIsLostType DEF Crash

-----------------------------------------------------------------------------
(* Type correctness: every action keeps every variable in its type.        *)

\* The steps of POST /calls and of the cancel route keep the type.
LEMMA TypeRoute ==
  ASSUME TypeOK, NEW c \in Calls, Route(c)
  PROVE  TypeOK'
  <1>1. CASE Reserve(c)
    BY <1>1, ConstantTypes DEF Reserve, TypeOK, NoFault, AfterReserve
  <1>2. CASE Refuse(c)
    BY <1>2 DEF Refuse, TypeOK, NoFault
  <1>3. CASE Dial(c)
    BY <1>3 DEF Dial, TypeOK, NoFault, Channel, Connected, ActiveStatus
  <1>4. CASE DialError(c)
    BY <1>4, ConstantTypes DEF DialError, TypeOK, CanFail, FinalStatus
  <1>5. CASE RegisterCall(c)
    BY <1>5 DEF RegisterCall, TypeOK, NoFault, NoSession, Session, LiveStates
  <1>6. CASE CancelRequest(c)
    <2>1. prov' \in [Calls -> Channel]
      BY <1>6, DroppedType DEF CancelRequest, TypeOK
    <2>2. QED
      BY <1>6, <2>1 DEF CancelRequest, TypeOK, NoFault
  <1>7. CASE CancelWrite(c)
    BY <1>7 DEF CancelWrite, TypeOK, NoFault, FinalStatus
  <1>8. CASE CreateFails(c)
    BY <1>8, FaultsType DEF CreateFails, TypeOK
  <1>9. QED
    BY <1>1, <1>2, <1>3, <1>4, <1>5, <1>6, <1>7, <1>8 DEF Route

\* The provider's steps keep the type.
LEMMA TypeTelephony ==
  ASSUME TypeOK, NEW c \in Calls, Telephony(c)
  PROVE  TypeOK'
  <1>0. prov[c] \in Channel
    BY EngineParts
  <1>1. CASE Ring(c)
    <2>1. Append(prov[c].msgs, "RINGING") \in Seq(Message)
      BY <1>0 DEF Channel, Message
    <2>2. prov' \in [Calls -> Channel]
      BY <1>0, <1>1, <2>1 DEF Ring, TypeOK, Channel, Connected
    <2>3. QED
      BY <1>1, <2>2 DEF Ring, TypeOK, NoFault, EngineUntouched
  <1>2. CASE Answer(c)
    <2>1. /\ <<"UP", "STASIS">> \in Seq(Message)
          /\ <<"UP">> \in Seq(Message)
      BY MessageSequences DEF Message
    <2>2. prov[c].msgs \o (IF provider = "asterisk" THEN <<"UP", "STASIS">>
                           ELSE <<"UP">>) \in Seq(Message)
      BY <1>0, <2>1 DEF Channel
    <2>3. prov' \in [Calls -> Channel]
      BY <1>0, <1>2, <2>2 DEF Answer, TypeOK, Channel, Connected
    <2>4. QED
      BY <1>2, <2>3 DEF Answer, TypeOK, NoFault, EngineUntouched
  <1>3. CASE RemoteHangup(c)
    <2>1. prov' \in [Calls -> Channel]
      BY <1>3, DroppedType DEF RemoteHangup, TypeOK
    <2>2. QED
      BY <1>3, <2>1 DEF RemoteHangup, TypeOK, NoFault, EngineUntouched
  <1>4. CASE PromptPlayed(c)
    <2>1. /\ Append(prov[c].msgs, "PLAYED") \in Seq(Message)
          /\ prov[c].playing - 1 \in Nat
      BY <1>0, <1>4 DEF Channel, Message, PromptPlayed
    <2>2. prov' \in [Calls -> Channel]
      BY <1>0, <1>4, <2>1 DEF PromptPlayed, TypeOK, Channel
    <2>3. QED
      BY <1>4, <2>2 DEF PromptPlayed, TypeOK, NoFault, EngineUntouched
  <1>5. CASE Tick(c)
    <2>1. elapsed[c] + 1 \in 0 .. MaxTicks
      BY <1>5, EngineParts, BoundsAssumption DEF Tick
    <2>2. QED
      BY <1>5, <2>1 DEF Tick, TypeOK, NoFault, EngineUntouched
  <1>6. CASE LoseEvent(c)
    <2>1. Tail(prov[c].msgs) \in Seq(Message)
      BY <1>0, <1>6 DEF Channel, LoseEvent
    <2>2. prov' \in [Calls -> Channel]
      BY <1>0, <1>6, <2>1 DEF LoseEvent, TypeOK, Channel
    <2>3. faults' \in [write: Nat, lost: Nat, crash: Nat]
      BY <1>6, FaultsType DEF LoseEvent
    <2>4. QED
      BY <1>6, <2>2, <2>3 DEF LoseEvent, TypeOK
  <1>7. QED
    BY <1>1, <1>2, <1>3, <1>4, <1>5, <1>6 DEF Telephony

\* A step that changes only one session keeps the type.
LEMMA BecomesTypeOK ==
  ASSUME TypeOK, NEW c \in Calls, NEW e \in EngineType, Becomes(c, e),
         prov' \in [Calls -> Channel],
         row' \in [Calls -> ActiveStatus \cup FinalStatus \cup {"NONE"}],
         cause' \in [Calls -> {"none", "lateTurn", "lateFailure", "lateProgress"}],
         faults' \in [write: Nat, lost: Nat, crash: Nat],
         UNCHANGED <<provider, place, cancel, elapsed, moves, wallet>>
  PROVE  TypeOK'
  BY BecomesType DEF TypeOK

\* Recording a cause keeps the type.
LEMMA CauseType ==
  ASSUME TypeOK, NEW c \in Calls,
         NEW why \in {"lateTurn", "lateFailure", "lateProgress"}
  PROVE  FirstCause(c, why)
           \in [Calls -> {"none", "lateTurn", "lateFailure", "lateProgress"}]
  BY DEF TypeOK, FirstCause

\* The fields of a session a handler sets, each in its type.
LEMMA SessionFieldTypes ==
  ASSUME NEW e \in EngineType
  PROVE  /\ ArmMaxTimer(e) \in EngineType
         /\ [e EXCEPT !.s.silence = FALSE] \in EngineType
         /\ [e EXCEPT !.s.max = FALSE] \in EngineType
         /\ [e EXCEPT !.s.state = "IN_PROGRESS"] \in EngineType
         /\ [e EXCEPT !.s.hangups = @ + 1] \in EngineType
         /\ e.s.hangups > 0 => [e EXCEPT !.s.hangups = @ - 1] \in EngineType
         /\ \A h \in {0, 1} :
              [e EXCEPT !.s.state = "IN_PROGRESS", !.s.hangups = @ + h] \in EngineType
         /\ [e EXCEPT !.s.inMap = FALSE] \in EngineType
  <1>1. /\ e.s \in Session
        /\ e.t \subseteq Task
        /\ \A h \in {0, 1} : e.s.hangups + h \in Nat
        /\ e.s.hangups + 1 \in Nat
        /\ e.s.hangups > 0 => e.s.hangups - 1 \in Nat
    BY DEF EngineType, Session
  <1>2. /\ ArmMaxTimer(e) \in EngineType
        /\ [e EXCEPT !.s.silence = FALSE] \in EngineType
        /\ [e EXCEPT !.s.max = FALSE] \in EngineType
        /\ [e EXCEPT !.s.state = "IN_PROGRESS"] \in EngineType
        /\ [e EXCEPT !.s.inMap = FALSE] \in EngineType
    BY <1>1 DEF EngineType, Session, LiveStates, ArmMaxTimer
  <1>3. [e EXCEPT !.s.hangups = @ + 1] \in EngineType
    BY <1>1 DEF EngineType, Session
  <1>4. e.s.hangups > 0 => [e EXCEPT !.s.hangups = @ - 1] \in EngineType
    BY <1>1 DEF EngineType, Session
  <1>5. ASSUME NEW h \in {0, 1}
        PROVE  [e EXCEPT !.s.state = "IN_PROGRESS", !.s.hangups = @ + h]
                 \in EngineType
    BY <1>1 DEF EngineType, Session, LiveStates
  <1>6. QED
    BY <1>2, <1>3, <1>4, <1>5

\* The steps of the event handlers, timers and turns keep the type.
LEMMA TypeHandlers ==
  ASSUME TypeOK, NEW c \in Calls, Handlers(c)
  PROVE  TypeOK'
  <1> USE DEF Kept, NoFault
  <1>0. /\ Engine(c) \in EngineType
        /\ \A t : Resuming(c, t) \in EngineType
        /\ tasks[c] \subseteq Task
        /\ Playing(c) \in [Calls -> Channel]
    BY EngineParts, PlayingType
  <1>1. CASE HandleEvent(c)
    <2> DEFINE m == Head(prov[c].msgs)
    <2>1. m \in Message /\ Tail(prov[c].msgs) \in Seq(Message)
      BY <1>1, EngineParts DEF HandleEvent, Channel
    <2>2. prov' \in [Calls -> Channel]
      <3>1. Consumed(c) \in [Calls -> Channel]
        <4>1. prov[c] \in Channel /\ prov \in [Calls -> Channel]
          BY EngineParts DEF TypeOK
        <4>2. /\ (m = "UP" \/ (prov[c].known /\ m # "GONE")) \in BOOLEAN
              /\ (prov[c].missed \/ place[c] = "dialled") \in BOOLEAN
          OBVIOUS
        <4>3. QED
          BY <2>1, <4>1, <4>2, Zenon DEF Consumed, Channel
      <3>2. QED
        BY <1>1, <3>1 DEF HandleEvent
    <2>3. cause' \in [Calls -> {"none", "lateTurn", "lateFailure", "lateProgress"}]
      BY <1>1, CauseType DEF HandleEvent, TypeOK
    <2>4. Handle(Engine(c), m, c) \in EngineType
      BY <1>0, <2>1, HandleType
    <2>5. CASE session[c].inMap
      BY <1>1, <2>2, <2>3, <2>4, <2>5, BecomesTypeOK DEF HandleEvent, TypeOK
    <2>6. CASE ~session[c].inMap
      BY <1>1, <2>2, <2>3, <2>6 DEF HandleEvent, TypeOK
    <2>7. QED
      BY <2>5, <2>6
  <1>2. CASE RingingWritten(c)
    <2>1. row' \in [Calls -> ActiveStatus \cup FinalStatus \cup {"NONE"}]
      BY <1>2 DEF RingingWritten, TypeOK, ActiveStatus
    <2>2. QED
      BY <1>0, <1>2, <2>1, BecomesTypeOK DEF RingingWritten, TypeOK
  <1>3. CASE AnsweredWritten(c)
    <2>1. PICK t \in TasksOf(c, "answered") :
            AnsweredWritten(c)!(t)
      BY <1>3 DEF AnsweredWritten
    <2> DEFINE e == ArmMaxTimer(Resuming(c, t))
               f == IF PlayThrows(c) THEN TerminateCall(e, "FAILED", "event") ELSE e
    <2>2. e \in EngineType
      BY <1>0, SessionFieldTypes
    <2>3. f \in EngineType
      BY <2>2, TerminateCallType DEF FinalStatus, Waiter
    <2>4. row' \in [Calls -> ActiveStatus \cup FinalStatus \cup {"NONE"}]
      BY <2>1 DEF TypeOK, ActiveStatus
    <2>5. Becomes(c, f)
      BY <2>1
    <2>6. QED
      BY <1>0, <2>1, <2>3, <2>4, <2>5, BecomesTypeOK DEF TypeOK
  <1>4. CASE EventWriteFails(c)
    <2>1. \A t : TerminateCall(Resuming(c, t), "FAILED", "event") \in EngineType
      BY <1>0, TerminateCallType DEF FinalStatus, Waiter
    <2>2. faults' \in [write: Nat, lost: Nat, crash: Nat]
      BY <1>4, FaultsType DEF EventWriteFails
    <2>3. QED
      BY <1>4, <2>1, <2>2, BecomesTypeOK DEF EventWriteFails, TypeOK
  <1>5. CASE SpeechEnds(c)
    BY <1>0, <1>5, StartTurnType, BecomesTypeOK DEF SpeechEnds, TypeOK
  <1>6. CASE TurnReplies(c)
    <2>1. PICK t \in TasksOf(c, "turn") :
            /\ Becomes(c, Await(Resuming(c, t), [k |-> "reply", n |-> t.n]))
            /\ prov' = Playing(c)
            /\ UNCHANGED row
            /\ Kept
      BY <1>6 DEF TurnReplies
    <2>2. [k |-> "reply", n |-> t.n] \in Task
      BY <1>0 DEF TasksOf, Task
    <2>3. QED
      BY <1>0, <2>1, <2>2, AwaitType, BecomesTypeOK DEF TypeOK
  <1>7. CASE TurnFails(c)
    BY <1>0, <1>7, BecomesTypeOK, CrashType DEF TurnFails, TypeOK
  <1>8. CASE TurnActs(c)
    <2>1. PICK t \in TasksOf(c, "reply") : TurnActs(c)!(t)
      BY <1>8 DEF TurnActs
    <2>2. \A k \in {"optOut", "escalate", "capture"} : [k |-> k, n |-> t.n] \in Task
      BY <1>0 DEF TasksOf, Task
    <2>3. cause' \in [Calls -> {"none", "lateTurn", "lateFailure", "lateProgress"}]
      BY <2>1, CauseType DEF TypeOK
    <2>4. ASSUME NEW k \in {"optOut", "escalate", "capture"},
                 Becomes(c, Await(Resuming(c, t), [k |-> k, n |-> t.n]))
          PROVE  TypeOK'
      BY <1>0, <2>1, <2>2, <2>3, <2>4, AwaitType, BecomesTypeOK DEF TypeOK
    <2>5. ASSUME NEW h \in {0, 1},
                 Becomes(c, [Resuming(c, t) EXCEPT !.s.state = "IN_PROGRESS",
                                                   !.s.hangups = @ + h])
          PROVE  TypeOK'
      BY <1>0, <2>1, <2>3, <2>5, SessionFieldTypes, BecomesTypeOK DEF TypeOK
    <2>6. QED
      BY <2>1, <2>4, <2>5
  <1>9. CASE OptOutStored(c)
    <2>1. \A t : TerminateCall(Resuming(c, t), "COMPLETED", "turn") \in EngineType
      BY <1>0, TerminateCallType DEF FinalStatus, Waiter
    <2>2. QED
      BY <1>9, <2>1, BecomesTypeOK DEF OptOutStored, TypeOK
  <1>10. CASE Escalate(c)
    <2>1. \A t : TerminateCall(Resuming(c, t), "ESCALATED", "turn") \in EngineType
      BY <1>0, TerminateCallType DEF FinalStatus, Waiter
    <2>2. prov' \in [Calls -> Channel]
      <3>1. [prov EXCEPT ![c].chan = "transferred", ![c].playing = 0]
              \in [Calls -> Channel]
        <4>1. prov[c] \in Channel /\ prov \in [Calls -> Channel]
          BY EngineParts DEF TypeOK
        <4>2. [prov[c] EXCEPT !.chan = "transferred", !.playing = 0] \in Channel
          BY <4>1 DEF Channel, Connected
        <4>3. QED
          BY <4>1, <4>2
      <3>2. QED
        BY <1>10, <3>1 DEF Escalate, TypeOK
    <2>3. QED
      BY <1>10, <2>1, <2>2, BecomesTypeOK DEF Escalate, TypeOK
  <1>11. CASE CaptureStored(c)
    <2>1. cause' \in [Calls -> {"none", "lateTurn", "lateFailure", "lateProgress"}]
      BY <1>11, CauseType DEF CaptureStored, TypeOK
    <2>2. QED
      BY <1>0, <1>11, <2>1, SessionFieldTypes, BecomesTypeOK
      DEF CaptureStored, TypeOK
  <1>12. QED
    BY <1>1, <1>2, <1>3, <1>4, <1>5, <1>6, <1>7, <1>8, <1>9, <1>10, <1>11
    DEF Handlers

\* Settling keeps the type of the wallet.
LEMMA SettledType ==
  ASSUME NEW w \in [balance: Int, opening: InitialBalances, charged: Nat, moves: Nat],
         NEW secs \in Nat
  PROVE  Settled(w, secs)
           \in [balance: Int, opening: InitialBalances, charged: Nat, moves: Nat]
  <1>1. /\ w.balance + (Reservation - CostOf(secs)) \in Int
        /\ w.charged + CostOf(secs) \in Nat
        /\ w.moves + 1 \in Nat
    BY ConstantTypes
  <1>2. QED
    BY <1>1 DEF Settled

\* The steps that end a call keep the type.
LEMMA TypeEndings ==
  ASSUME TypeOK, NEW c \in Calls, Endings(c)
  PROVE  TypeOK'
  <1> USE DEF Kept, NoFault
  <1>0. /\ Engine(c) \in EngineType
        /\ \A t : Resuming(c, t) \in EngineType
        /\ session[c] \in Session
        /\ tasks[c] \subseteq Task
        /\ Playing(c) \in [Calls -> Channel]
    BY EngineParts, PlayingType
  <1>1. CASE SilenceTimer(c)
    <2> DEFINE e == [Engine(c) EXCEPT !.s.silence = FALSE]
    <2>1. e \in EngineType /\ StartTurn(e) \in EngineType
      BY <1>0, SessionFieldTypes, StartTurnType
    <2>2. CASE session[c].state # "AWAITING_SPEECH"
      BY <1>1, <2>1, <2>2, BecomesTypeOK DEF SilenceTimer, TypeOK
    <2>3. CASE session[c].state = "AWAITING_SPEECH" /\ PlayThrows(c)
      BY <1>1, <2>3, CrashType DEF SilenceTimer
    <2>4. CASE session[c].state = "AWAITING_SPEECH" /\ ~PlayThrows(c)
      BY <1>0, <1>1, <2>1, <2>4, BecomesTypeOK DEF SilenceTimer, TypeOK
    <2>5. QED
      BY <2>2, <2>3, <2>4
  <1>2. CASE MaxTimer(c)
    <2> DEFINE e == [Engine(c) EXCEPT !.s.max = FALSE]
    <2>1. e \in EngineType /\ [e EXCEPT !.s.hangups = @ + 1] \in EngineType
      BY <1>0, SessionFieldTypes
    <2>2. CASE session[c].state = "TERMINATED"
      BY <1>2, <2>1, <2>2, BecomesTypeOK DEF MaxTimer, TypeOK
    <2>3. CASE session[c].state # "TERMINATED" /\ PlayThrows(c)
      BY <1>2, <2>3, CrashType DEF MaxTimer
    <2>4. CASE session[c].state # "TERMINATED" /\ ~PlayThrows(c)
      BY <1>0, <1>2, <2>1, <2>4, BecomesTypeOK DEF MaxTimer, TypeOK
    <2>5. QED
      BY <2>2, <2>3, <2>4
  <1>3. CASE HangupTimer(c)
    <2>1. Engine(c).s.hangups > 0
      BY <1>3 DEF HangupTimer, Engine
    <2>2. [Engine(c) EXCEPT !.s.hangups = @ - 1] \in EngineType
      BY <1>0, <2>1, SessionFieldTypes
    <2>3. TerminateCall([Engine(c) EXCEPT !.s.hangups = @ - 1], "COMPLETED", "timer")
            \in EngineType
      BY <2>2, TerminateCallType DEF FinalStatus, Waiter
    <2>4. QED
      BY <1>3, <2>3, BecomesTypeOK DEF HangupTimer, TypeOK
  <1>4. CASE HungUp(c)
    <2>1. PICK t \in TasksOf(c, "hangup") : HungUp(c)!(t)
      BY <1>4 DEF HungUp
    <2>2. t.status \in FinalStatus /\ t.via \in Waiter
      BY <1>0 DEF TasksOf, Task
    <2>3. CleanupSession(Resuming(c, t), t.status, DurationOf(session[c], c), t.via)
            \in EngineType
      BY <1>0, <2>2, CleanupSessionType, DurationType
    <2>4. prov' \in [Calls -> Channel]
      BY <2>1, DroppedType DEF TypeOK
    <2>5. faults' \in [write: Nat, lost: Nat, crash: Nat]
      BY <2>1, FaultsType DEF TypeOK
    <2>6. QED
      BY <2>1, <2>3, <2>4, <2>5, BecomesTypeOK DEF TypeOK
  <1>5. CASE RowClosed(c)
    <2>1. PICK t \in TasksOf(c, "cleanup") : RowClosed(c)!(t)
      BY <1>5 DEF RowClosed
    <2>2. /\ t.status \in FinalStatus
          /\ [k |-> "settle", n |-> t.n, secs |-> t.secs] \in Task
      BY <1>0 DEF TasksOf, Task
    <2> DEFINE e == [Resuming(c, t) EXCEPT !.s.inMap = FALSE]
    <2>3. /\ e \in EngineType
          /\ Await(e, [k |-> "settle", n |-> t.n, secs |-> t.secs]) \in EngineType
      BY <1>0, <2>2, SessionFieldTypes, AwaitType
    <2>4. row' \in [Calls -> ActiveStatus \cup FinalStatus \cup {"NONE"}]
      BY <2>1, <2>2 DEF TypeOK
    <2>5. QED
      BY <2>1, <2>3, <2>4, BecomesTypeOK DEF TypeOK
  <1>6. CASE RowCloseFails(c)
    <2>1. faults' \in [write: Nat, lost: Nat, crash: Nat]
      BY <1>6, FaultsType DEF RowCloseFails
    <2>2. CASE MemoryIsLost
      BY <2>1, <2>2, MemoryIsLostType
    <2>3. CASE ~MemoryIsLost
      <3>1. prov' \in [Calls -> Channel]
        BY <1>0, <1>6, <2>3 DEF RowCloseFails, TypeOK
      <3>2. QED
        BY <1>0, <1>6, <2>1, <2>3, <3>1, BecomesTypeOK DEF RowCloseFails, TypeOK
    <2>4. QED
      BY <2>2, <2>3
  <1>7. CASE SettleCall(c)
    <2>1. PICK t \in TasksOf(c, "settle") : SettleCall(c)!(t)
      BY <1>7 DEF SettleCall
    <2>2. t.secs \in Nat
      BY <1>0 DEF TasksOf, Task
    <2>3. wallet' \in [balance: Int, opening: InitialBalances, charged: Nat, moves: Nat]
      BY <2>1, <2>2, SettledType DEF TypeOK
    <2>4. moves' \in [Calls -> Nat] /\ tasks' \in [Calls -> SUBSET Task]
      BY <2>1 DEF TypeOK
    <2>5. QED
      BY <2>1, <2>3, <2>4 DEF TypeOK
  <1>8. CASE SettleFails(c)
    <2>1. faults' \in [write: Nat, lost: Nat, crash: Nat]
      BY <1>8, FaultsType DEF SettleFails
    <2>2. tasks' \in [Calls -> SUBSET Task]
      BY <1>8 DEF SettleFails, TypeOK
    <2>3. QED
      BY <1>8, <2>1, <2>2 DEF SettleFails, TypeOK
  <1>9. CASE ReconcileStale(c)
    BY <1>9 DEF ReconcileStale, TypeOK, FinalStatus
  <1>10. QED
    BY <1>1, <1>2, <1>3, <1>4, <1>5, <1>6, <1>7, <1>8, <1>9 DEF Endings

\* Every step keeps the type.
LEMMA TypeStep ==
  ASSUME TypeOK, [Next]_vars
  PROVE  TypeOK'
  <1>1. CASE UNCHANGED vars
    BY <1>1 DEF TypeOK, vars
  <1>2. CASE SpontaneousCrash
    BY <1>2, CrashType DEF SpontaneousCrash
  <1>3. ASSUME NEW c \in Calls, Route(c) \/ Telephony(c) \/ Handlers(c) \/ Endings(c)
        PROVE  TypeOK'
    BY <1>3, TypeRoute, TypeTelephony, TypeHandlers, TypeEndings
  <1>4. QED
    BY <1>1, <1>2, <1>3 DEF Next

\* Every variable of the engine stays in its type.
THEOREM TypeCorrect == Spec => []TypeOK
  <1>1. Init => TypeOK
    <2>1. <<>> \in Seq(Message)
      OBVIOUS
    <2>3. ASSUME Init PROVE prov \in [Calls -> Channel]
      BY <2>1, <2>3 DEF Init, Channel
    <2>4. ASSUME Init PROVE wallet \in [balance: Int, opening: InitialBalances,
                                       charged: Nat, moves: Nat]
      BY <2>4, BillingAssumption DEF Init
    <2>5. QED
      BY <2>3, <2>4, BoundsAssumption
      DEF Init, TypeOK, NoSession, Session
  <1>2. TypeOK /\ [Next]_vars => TypeOK'
    BY TypeStep
  <1>3. QED
    BY <1>1, <1>2, PTL DEF Spec

-----------------------------------------------------------------------------
(* Money.  Three actions touch the wallet; a fourth change of place would    *)
(* change which calls hold a reservation.                                    *)

\* The only steps that touch the wallet reserve, give back or settle.
LEMMA MoneySteps ==
  ASSUME TypeOK, [Next]_vars
  PROVE  \/ wallet' = wallet /\ Holding' = Holding
         \/ \E c \in Calls : Reserve(c) \/ DialError(c) \/ SettleCall(c)
  <1> USE DEF Kept, NoFault
  <1>1. CASE UNCHANGED vars
    BY <1>1 DEF vars, Holding
  <1>2. ASSUME MemoryIsLost PROVE wallet' = wallet /\ Holding' = Holding
    BY <1>2 DEF MemoryIsLost, Holding
  <1>3. CASE SpontaneousCrash
    BY <1>2, <1>3 DEF SpontaneousCrash, Crash
  <1>4. ASSUME NEW c \in Calls, Route(c)
        PROVE  \/ wallet' = wallet /\ Holding' = Holding
               \/ Reserve(c) \/ DialError(c)
    <2>1. CASE Refuse(c)
      BY <2>1 DEF Refuse, Holding, TypeOK
    <2>2. CASE Dial(c)
      BY <2>2 DEF Dial, Holding, TypeOK
    <2>3. CASE RegisterCall(c)
      BY <2>3 DEF RegisterCall, Holding, TypeOK
    <2>4. CASE CancelRequest(c) \/ CancelWrite(c)
      BY <2>4 DEF CancelRequest, CancelWrite, Holding
    <2>5. CASE CreateFails(c)
      BY <2>5 DEF CreateFails, Holding, TypeOK
    <2>6. QED
      BY <1>4, <2>1, <2>2, <2>3, <2>4, <2>5 DEF Route
  <1>5. ASSUME NEW c \in Calls, Telephony(c)
        PROVE  wallet' = wallet /\ Holding' = Holding
    BY <1>5 DEF Telephony, Ring, Answer, RemoteHangup, PromptPlayed, Tick,
                LoseEvent, EngineUntouched, Holding
  <1>6. ASSUME NEW c \in Calls, Handlers(c)
        PROVE  wallet' = wallet /\ Holding' = Holding
    <2>1. CASE TurnFails(c)
      BY <1>2, <2>1 DEF TurnFails, Crash, Holding
    <2>2. CASE ~TurnFails(c)
      BY <1>6, <2>2 DEF Handlers, HandleEvent, RingingWritten, AnsweredWritten,
         EventWriteFails, SpeechEnds, TurnReplies, TurnActs, OptOutStored, Escalate,
         CaptureStored, Holding
    <2>3. QED
      BY <2>1, <2>2
  <1>7. ASSUME NEW c \in Calls, Endings(c), ~SettleCall(c)
        PROVE  wallet' = wallet /\ Holding' = Holding
    <2>1. CASE SilenceTimer(c)
      BY <1>2, <2>1 DEF SilenceTimer, Crash, Holding
    <2>2. CASE MaxTimer(c)
      BY <1>2, <2>2 DEF MaxTimer, Crash, Holding
    <2>3. CASE RowCloseFails(c)
      BY <1>2, <2>3 DEF RowCloseFails, Holding
    <2>4. CASE HangupTimer(c) \/ HungUp(c) \/ RowClosed(c) \/ SettleFails(c)
                 \/ ReconcileStale(c)
      BY <2>4 DEF HangupTimer, HungUp, RowClosed, SettleFails, ReconcileStale, Holding
    <2>5. QED
      BY <1>7, <2>1, <2>2, <2>3, <2>4 DEF Endings
  <1>8. QED
    BY <1>1, <1>3, <1>4, <1>5, <1>6, <1>7 DEF Next

\* The calls that hold a reservation are finitely many.
LEMMA HoldingFinite ==
  /\ IsFiniteSet(Holding)
  /\ Cardinality(Holding) \in Nat
  <1>1. Holding \subseteq Calls
    BY DEF Holding
  <1>2. QED
    BY <1>1, BoundsAssumption, FS_Subset, FS_CardinalityType

\* A product when a factor grows or shrinks by one.
LEMMA TimesStep ==
  ASSUME NEW a \in Nat, NEW n \in Int
  PROVE  /\ a * (n + 1) = a * n + a
         /\ a * (n - 1) = a * n - a
         /\ a * n \in Int
  BY SMT

\* Every step keeps the account of the balance.
LEMMA BalanceStep ==
  ASSUME TypeOK, TypeOK', BalanceExplained, [Next]_vars
  PROVE  BalanceExplained'
  <1> DEFINE R == Reservation
             n == Cardinality(Holding)
  <1>1. /\ R \in Nat /\ n \in Nat
        /\ wallet.balance \in Int /\ wallet.opening \in Int
        /\ wallet.charged \in Nat /\ wallet.moves \in Nat
        /\ wallet.balance = wallet.opening - R * n + R * wallet.moves - wallet.charged
    BY ConstantTypes, HoldingFinite, BillingAssumption DEF TypeOK, BalanceExplained
  <1>2. CASE wallet' = wallet /\ Holding' = Holding
    BY <1>2 DEF BalanceExplained
  <1>3. ASSUME NEW c \in Calls, Reserve(c)
        PROVE  BalanceExplained'
    <2>1. c \notin Holding /\ Holding' = Holding \cup {c}
      BY <1>3 DEF Reserve, Holding, TypeOK
    <2>2. Cardinality(Holding') = n + 1
      BY <2>1, HoldingFinite, FS_AddElement
    <2>3. wallet' = [wallet EXCEPT !.balance = @ - R]
      BY <1>1, <1>3 DEF Reserve, AfterReserve, TypeOK
    <2>4. R * (n + 1) = R * n + R /\ R * n \in Int /\ R * wallet.moves \in Int
      BY <1>1, TimesStep
    <2>5. QED
      BY <1>1, <2>2, <2>3, <2>4 DEF BalanceExplained, TypeOK
  <1>4. ASSUME NEW c \in Calls, DialError(c)
        PROVE  BalanceExplained'
    <2>1. c \in Holding /\ Holding' = Holding \ {c}
      BY <1>4 DEF DialError, Holding, TypeOK
    <2>2. Cardinality(Holding') = n - 1
      BY <2>1, HoldingFinite, FS_RemoveElement
    <2>3. wallet' = [wallet EXCEPT !.balance = @ + R]
      BY <1>4 DEF DialError
    <2>4. R * (n - 1) = R * n - R /\ R * n \in Int /\ R * wallet.moves \in Int
      BY <1>1, TimesStep
    <2>5. QED
      BY <1>1, <2>2, <2>3, <2>4 DEF BalanceExplained, TypeOK
  <1>5. ASSUME NEW c \in Calls, SettleCall(c)
        PROVE  BalanceExplained'
    <2>1. PICK t \in TasksOf(c, "settle") : SettleCall(c)!(t)
      BY <1>5 DEF SettleCall
    <2>2. CostOf(t.secs) \in Nat
      BY ConstantTypes, EngineParts DEF TasksOf, Task
    <2>3. Holding' = Holding
      BY <2>1 DEF Holding
    <2>4. /\ wallet'.balance = wallet.balance + (R - CostOf(t.secs))
          /\ wallet'.charged = wallet.charged + CostOf(t.secs)
          /\ wallet'.moves = wallet.moves + 1
          /\ wallet'.opening = wallet.opening
      BY <2>1 DEF Settled, TypeOK
    <2>5. R * (wallet.moves + 1) = R * wallet.moves + R
            /\ R * n \in Int /\ R * wallet.moves \in Int
      BY <1>1, TimesStep
    <2>6. QED
      BY <1>1, <2>2, <2>3, <2>4, <2>5 DEF BalanceExplained
  <1>6. QED
    BY <1>2, <1>3, <1>4, <1>5, MoneySteps

\* No cent is made or lost: at any moment the balance is what it was before the
\* first call, less the reservations held, less what was charged, plus what the
\* settlements returned.
THEOREM BalanceIsExplained == Spec => []BalanceExplained
  <1>1. Init => BalanceExplained
    <2>1. ASSUME Init PROVE BalanceExplained
      <3>1. Holding = {}
        BY <2>1 DEF Init, Holding
      <3>2. Cardinality(Holding) = 0
        BY <3>1, FS_EmptySet
      <3>3. /\ wallet.balance = wallet.opening /\ wallet.opening \in Int
            /\ wallet.charged = 0 /\ wallet.moves = 0
        BY <2>1, BillingAssumption DEF Init
      <3>4. QED
        BY <3>2, <3>3, ConstantTypes DEF BalanceExplained
    <2>2. QED
      BY <2>1
  <1>2. TypeOK /\ TypeOK' /\ BalanceExplained /\ [Next]_vars => BalanceExplained'
    BY BalanceStep
  <1>3. QED
    BY <1>1, <1>2, TypeCorrect, PTL DEF Spec

-----------------------------------------------------------------------------
(* Settled at most once unless one of the unguarded handlers acted.  What is *)
(* invariant is that a session which is not over has nothing of an ending    *)
(* under way, and that an ended one has a single ending, in one stage of its *)
(* three: hang-up, clean-up, settlement.                                     *)

Ending(T) == {t \in T : t.k \in {"hangup", "cleanup", "settle"}}

OneEnding(s, T, m) ==
  \/ Ending(T) = {} /\ m = 0
  \/ s.state \in {"TERMINATED", "NONE"} /\ Ending(T) = {} /\ m <= 1
  \/ s.state = "TERMINATED" /\ m = 0 /\ \E t : Ending(T) = {t}

\* A call without a session has no continuation, and none was settled before it
\* was registered.
EndedOnce ==
  \A c \in Calls :
    /\ cause[c] = "none" => OneEnding(session[c], tasks[c], moves[c])
    /\ session[c].state = "NONE" => session[c] = NoSession /\ tasks[c] = {}
    /\ place[c] # "placed" => session[c] = NoSession /\ moves[c] = 0

\* The tasks that end a call, as tasks come and go.
LEMMA EndingGrows ==
  ASSUME NEW T, NEW t
  PROVE  /\ t.k \notin {"hangup", "cleanup", "settle"}
              => Ending(T \cup {t}) = Ending(T) /\ Ending(T \ {t}) = Ending(T)
         /\ t.k \in {"hangup", "cleanup", "settle"}
              => Ending(T \cup {t}) = Ending(T) \cup {t}
         /\ Ending(T \ {t}) = Ending(T) \ {t}
  BY DEF Ending

\* A handler that leaves the state and the endings alone.
LEMMA SameEnding ==
  ASSUME NEW s, NEW T, NEW s2, NEW T2, NEW m,
         OneEnding(s, T, m), s2.state = s.state, Ending(T2) = Ending(T)
  PROVE  OneEnding(s2, T2, m)
  BY DEF OneEnding

\* A handler that finds the session alive may give it any state.
LEMMA AliveHasNoEnding ==
  ASSUME NEW s, NEW T, NEW m, OneEnding(s, T, m),
         s.state \notin {"TERMINATED", "NONE"}
  PROVE  /\ Ending(T) = {} /\ m = 0
         /\ \A s2, T2 : Ending(T2) = {} => OneEnding(s2, T2, m)
  BY DEF OneEnding

\* A session that ends with one ending task is in order.
LEMMA OneEndingBegins ==
  ASSUME NEW s, NEW T, NEW t, s.state = "TERMINATED", Ending(T) = {t}
  PROVE  OneEnding(s, T, 0)
  BY DEF OneEnding

\* terminateCall never begins a second end of a session in order.
LEMMA TerminateOnce ==
  ASSUME NEW e \in EngineType, NEW m, NEW status, NEW via,
         OneEnding(e.s, e.t, m), e.s.state # "NONE"
  PROVE  LET f == TerminateCall(e, status, via)
         IN OneEnding(f.s, f.t, m) /\ f.s.state # "NONE"
  <1>1. CASE e.s.state = "TERMINATED"
    BY <1>1 DEF TerminateCall
  <1>2. CASE e.s.state # "TERMINATED"
    <2> DEFINE t == [k |-> "hangup", n |-> e.s.ends, status |-> status, via |-> via]
               f == TerminateCall(e, status, via)
    <2>1. f.t = e.t \cup {t} /\ f.s.state = "TERMINATED"
      BY <1>2 DEF TerminateCall, EngineType, Session
    <2>2. Ending(e.t) = {} /\ m = 0
      BY <1>2, AliveHasNoEnding
    <2>3. Ending(f.t) = {t}
      BY <2>1, <2>2 DEF Ending
    <2>4. QED
      BY <2>1, <2>2, <2>3, OneEndingBegins
  <1>3. QED
    BY <1>1, <1>2

\* Nor does cleanupSession, when no end has begun.
LEMMA CleanupOnce ==
  ASSUME NEW e \in EngineType, NEW status, NEW secs, NEW via, Ending(e.t) = {}
  PROVE  LET f == CleanupSession(e, status, secs, via)
         IN OneEnding(f.s, f.t, 0) /\ f.s.state # "NONE"
  <1> DEFINE t == [k |-> "cleanup", n |-> e.s.ends, status |-> status,
                   secs |-> secs, via |-> via]
             f == CleanupSession(e, status, secs, via)
  <1>1. f.t = e.t \cup {t} /\ f.s.state = "TERMINATED"
    BY DEF CleanupSession, EngineType, Session
  <1>2. Ending(f.t) = {t}
    BY <1>1 DEF Ending
  <1>3. QED
    BY <1>1, <1>2, OneEndingBegins

\* A call of which anything is left in memory has a session.
LEMMA SessionExists ==
  ASSUME EndedOnce, NEW c \in Calls,
         \/ session[c].inMap \/ session[c].max \/ session[c].silence
         \/ session[c].hangups > 0 \/ tasks[c] # {}
  PROVE  session[c].state # "NONE" /\ place[c] = "placed"
  BY DEF EndedOnce, NoSession

\* A step on one session keeps EndedOnce when its result does.
LEMMA EndedOnceBecomes ==
  ASSUME TypeOK, EndedOnce, NEW c \in Calls, NEW e, Becomes(c, e),
         UNCHANGED <<place, moves>>, place[c] = "placed", e.s.state # "NONE",
         \A d \in Calls \ {c} : cause'[d] = cause[d],
         cause'[c] = "none" => OneEnding(e.s, e.t, moves[c])
  PROVE  EndedOnce'
  <1>1. /\ session'[c] = e.s /\ tasks'[c] = e.t
        /\ \A d \in Calls \ {c} : session'[d] = session[d] /\ tasks'[d] = tasks[d]
    BY DEF Becomes, TypeOK
  <1>2. QED
    BY <1>1 DEF EndedOnce

\* Losing the memory of the process begins no end.
LEMMA EndedOnceMemoryIsLost ==
  ASSUME TypeOK, EndedOnce, MemoryIsLost
  PROVE  EndedOnce'
  <1>1. ASSUME NEW c \in Calls, cause[c] = "none"
        PROVE  OneEnding(NoSession, {}, moves[c])
    BY <1>1 DEF EndedOnce, OneEnding, Ending, NoSession, TypeOK
  <1>2. QED
    BY <1>1 DEF MemoryIsLost, EndedOnce, TypeOK

\* What each event handler leaves behind.
LEMMA HandlerResults ==
  ASSUME NEW e \in EngineType
  PROVE  /\ OnRinging(e).s.state = "RINGING"
         /\ Ending(OnRinging(e).t) = Ending(e.t)
         /\ OnAnswered(e).s.state = "IN_PROGRESS"
         /\ Ending(OnAnswered(e).t) = Ending(e.t)
         /\ e.s.state # "TERMINATED" =>
              /\ OnPromptFinished(e).s.state = "AWAITING_SPEECH"
              /\ OnPromptFinished(e).t = e.t
         /\ \A status, secs, via :
              CleanupSession(e, status, secs, via).s.state = "TERMINATED"
         /\ StartTurn(e).s.state = "PROCESSING_TURN"
         /\ Ending(StartTurn(e).t) = Ending(e.t)
         /\ ArmMaxTimer(e).s.state = e.s.state
         /\ ArmMaxTimer(e).t = e.t
         /\ \A t : Await(e, t).s = e.s /\ Await(e, t).t = e.t \cup {t}
  <1>1. e.s \in Session /\ e = [s |-> e.s, t |-> e.t]
    BY DEF EngineType
  <1>2. \A v : [e.s EXCEPT !.state = v].state = v
    BY <1>1 DEF Session
  <1>3. /\ OnRinging(e).s.state = "RINGING"
        /\ OnRinging(e).t
             = e.t \cup {[k |-> "ringing", n |-> IF e.s.answered THEN 1 ELSE 0]}
    BY <1>1, <1>2 DEF OnRinging, Await
  <1>4. /\ OnAnswered(e).s.state = "IN_PROGRESS"
        /\ OnAnswered(e).t = e.t \cup {[k |-> "answered", n |-> 0]}
    BY <1>1 DEF OnAnswered, Await, Session
  <1>5. /\ Ending(OnRinging(e).t) = Ending(e.t)
        /\ Ending(OnAnswered(e).t) = Ending(e.t)
    BY <1>3, <1>4 DEF Ending
  <1>6. e.s.state # "TERMINATED" =>
          /\ OnPromptFinished(e).s.state = "AWAITING_SPEECH"
          /\ OnPromptFinished(e).t = e.t
    BY <1>1 DEF OnPromptFinished, Session
  <1>7. \A status, secs, via :
          CleanupSession(e, status, secs, via).s.state = "TERMINATED"
    BY <1>1 DEF CleanupSession, Session
  <1>8. /\ StartTurn(e).s.state = "PROCESSING_TURN"
        /\ StartTurn(e).t = e.t \cup {[k |-> "turn", n |-> e.s.seq + 1]}
    BY <1>1 DEF StartTurn, Session
  <1>9. Ending(StartTurn(e).t) = Ending(e.t)
    BY <1>8 DEF Ending
  <1>10. /\ ArmMaxTimer(e).s.state = e.s.state
         /\ ArmMaxTimer(e).t = e.t
    BY <1>1 DEF ArmMaxTimer, Session
  <1>11. \A t : Await(e, t).s = e.s /\ Await(e, t).t = e.t \cup {t}
    BY <1>1 DEF Await
  <1>12. QED
    BY <1>3, <1>4, <1>5, <1>6, <1>7, <1>8, <1>9, <1>10, <1>11

\* The routes begin no end.
LEMMA EndedOnceRoute ==
  ASSUME TypeOK, EndedOnce, NEW c \in Calls, Route(c)
  PROVE  EndedOnce'
  <1> USE DEF NoFault
  <1>1. CASE RegisterCall(c)
    <2>1. place[c] # "placed" /\ moves[c] = 0 /\ tasks[c] = {}
      BY <1>1 DEF RegisterCall, EndedOnce, NoSession
    <2>2. OneEnding(session'[c], tasks'[c], moves'[c])
      BY <1>1, <2>1 DEF RegisterCall, OneEnding, Ending, TypeOK
    <2>3. session'[c].state = "DIALING" /\ place'[c] = "placed"
      BY <1>1 DEF RegisterCall, TypeOK, NoSession
    <2>4. QED
      BY <1>1, <2>2, <2>3 DEF RegisterCall, EndedOnce, TypeOK
  <1>2. CASE ~RegisterCall(c)
    <2>1. UNCHANGED <<session, tasks, moves, cause>>
      BY <1>2 DEF Route, Reserve, Refuse, CreateFails, Dial, DialError,
                  CancelRequest, CancelWrite
    <2>2. \A d \in Calls : place'[d] # "placed" => place[d] # "placed"
      BY <1>2 DEF Route, Reserve, Refuse, CreateFails, Dial, DialError,
                  CancelRequest, CancelWrite, TypeOK
    <2>3. QED
      BY <2>1, <2>2 DEF EndedOnce
  <1>3. QED
    BY <1>1, <1>2

\* The provider begins no end.
LEMMA EndedOnceTelephony ==
  ASSUME TypeOK, EndedOnce, NEW c \in Calls, Telephony(c)
  PROVE  EndedOnce'
  BY DEF Telephony, Ring, Answer, RemoteHangup, PromptPlayed, Tick, LoseEvent,
         EngineUntouched, NoFault, EndedOnce

\* The handlers begin a second end only with a cause.
LEMMA EndedOnceHandlers ==
  ASSUME TypeOK, EndedOnce, NEW c \in Calls, Handlers(c)
  PROVE  EndedOnce'
  <1> USE DEF Kept, NoFault
  <1>0. /\ Engine(c) \in EngineType
        /\ Engine(c).s = session[c] /\ Engine(c).t = tasks[c]
        /\ \A t : /\ Resuming(c, t) \in EngineType
                  /\ Resuming(c, t).s = session[c]
                  /\ Resuming(c, t).t = tasks[c] \ {t}
        /\ cause[c] = "none" => OneEnding(session[c], tasks[c], moves[c])
    BY EngineParts DEF Engine, Resuming, EndedOnce
  <1>1. CASE HandleEvent(c)
    <2> DEFINE m == Head(prov[c].msgs)
               f == Handle(Engine(c), m, c)
    <2>1. CASE ~session[c].inMap
      <3>1. UNCHANGED <<session, tasks, moves, cause, place>>
        BY <1>1, <2>1 DEF HandleEvent, Unguarded
      <3>2. QED
        BY <3>1 DEF EndedOnce
    <2>2. CASE session[c].inMap
      <3>1. session[c].state # "NONE" /\ place[c] = "placed"
        BY <2>2, SessionExists
      <3>2. /\ Becomes(c, f)
            /\ UNCHANGED <<place, moves>>
        BY <1>1, <2>2 DEF HandleEvent
      <3>3. /\ \A d \in Calls \ {c} : cause'[d] = cause[d]
            /\ cause'[c] = "none" => cause[c] = "none" /\ ~Unguarded(c, m)
        BY <1>1 DEF HandleEvent, FirstCause, TypeOK
      <3>4. /\ f.s.state # "NONE"
            /\ cause'[c] = "none" => OneEnding(f.s, f.t, moves[c])
        <4> DEFINE e == Engine(c)
        <4>1. CASE f = OnRinging(e) /\ EventOf(prov[c], m) = "CALL_RINGING"
          <5>1. /\ f.s.state = "RINGING"
                /\ Ending(f.t) = Ending(e.t)
            BY <1>0, <4>1, HandlerResults
          <5>2. cause'[c] = "none" => session[c].state # "TERMINATED"
            BY <2>2, <3>3, <4>1 DEF Unguarded
          <5>3. QED
            BY <1>0, <3>1, <3>3, <5>1, <5>2, AliveHasNoEnding
        <4>2. CASE f = OnAnswered(e) /\ EventOf(prov[c], m) = "CALL_ANSWERED"
          <5>1. /\ f.s.state = "IN_PROGRESS"
                /\ Ending(f.t) = Ending(e.t)
            BY <1>0, <4>2, HandlerResults
          <5>2. cause'[c] = "none" => session[c].state # "TERMINATED"
            BY <2>2, <3>3, <4>2 DEF Unguarded
          <5>3. QED
            BY <1>0, <3>1, <3>3, <5>1, <5>2, AliveHasNoEnding
        <4>3. CASE f = OnPromptFinished(e)
          <5>1. CASE session[c].state = "TERMINATED"
            BY <1>0, <3>1, <3>3, <4>3, <5>1 DEF OnPromptFinished
          <5>2. CASE session[c].state # "TERMINATED"
            <6>1. f.s.state = "AWAITING_SPEECH" /\ f.t = e.t
              BY <1>0, <4>3, <5>2, HandlerResults
            <6>2. QED
              BY <1>0, <3>1, <3>3, <5>2, <6>1, AliveHasNoEnding
          <5>3. QED
            BY <5>1, <5>2
        <4>4. CASE f = OnCallEnded(e, m, c)
          <5>1. CASE session[c].state = "TERMINATED"
            BY <1>0, <3>1, <3>3, <4>4, <5>1 DEF OnCallEnded
          <5>2. CASE session[c].state # "TERMINATED"
            <6>1. f = CleanupSession(e, StatusOf(m), elapsed[c] * TickSecs, "event")
              BY <1>0, <4>4, <5>2 DEF OnCallEnded
            <6>2. cause'[c] = "none" => Ending(e.t) = {} /\ moves[c] = 0
              BY <1>0, <3>1, <3>3, <5>2, AliveHasNoEnding
            <6>3. f.s.state = "TERMINATED"
              BY <1>0, <6>1, HandlerResults
            <6>4. QED
              BY <1>0, <6>1, <6>2, <6>3, CleanupOnce
          <5>3. QED
            BY <5>1, <5>2
        <4>5. CASE f = OnCallFailed(e) /\ EventOf(prov[c], m) = "CALL_FAILED"
          <5>1. cause'[c] = "none" => session[c].state # "TERMINATED"
            BY <2>2, <3>3, <4>5 DEF Unguarded
          <5>2. cause'[c] = "none" => Ending(e.t) = {} /\ moves[c] = 0
            BY <1>0, <3>1, <3>3, <5>1, AliveHasNoEnding
          <5>3. f.s.state = "TERMINATED"
            BY <1>0, <4>5, HandlerResults DEF OnCallFailed
          <5>4. QED
            BY <1>0, <4>5, <5>2, <5>3, CleanupOnce DEF OnCallFailed
        <4>6. EventOf(prov[c], m) \in {"CALL_RINGING", "CALL_ANSWERED",
                "PROMPT_FINISHED", "CALL_ENDED", "CALL_FAILED"}
          BY DEF EventOf
        <4>7. QED
          BY <4>1, <4>2, <4>3, <4>4, <4>5, <4>6 DEF Handle
      <3>5. QED
        BY <3>1, <3>2, <3>3, <3>4, EndedOnceBecomes
    <2>3. QED
      BY <2>1, <2>2
  <1>2. ASSUME tasks[c] # {} \/ session[c].inMap
        PROVE  session[c].state # "NONE" /\ place[c] = "placed"
    BY <1>2, SessionExists
  <1>3. CASE RingingWritten(c)
    <2>1. PICK t \in TasksOf(c, "ringing") : RingingWritten(c)!(t)
      BY <1>3 DEF RingingWritten
    <2>2. Ending(tasks[c] \ {t}) = Ending(tasks[c])
      BY EndingGrows DEF TasksOf
    <2>3. QED
      BY <1>0, <1>2, <2>1, <2>2, SameEnding, EndedOnceBecomes DEF TasksOf
  <1>4. CASE AnsweredWritten(c)
    <2>1. PICK t \in TasksOf(c, "answered") : AnsweredWritten(c)!(t)
      BY <1>4 DEF AnsweredWritten
    <2> DEFINE e == ArmMaxTimer(Resuming(c, t))
               f == TerminateCall(e, "FAILED", "event")
    <2>2. /\ e \in EngineType
          /\ e.s.state = session[c].state
          /\ e.t = tasks[c] \ {t}
      <3>1. Resuming(c, t) \in EngineType
        BY <1>0
      <3>2. e \in EngineType
        BY <3>1, SessionFieldTypes
      <3>3. /\ e.s.state = Resuming(c, t).s.state
            /\ e.t = Resuming(c, t).t
        BY <3>1, HandlerResults
      <3>4. QED
        BY <1>0, <3>2, <3>3
    <2>3. Ending(tasks[c] \ {t}) = Ending(tasks[c])
      BY EndingGrows DEF TasksOf
    <2>4. e.s.state # "NONE" /\ place[c] = "placed"
      BY <1>2, <2>2 DEF TasksOf
    <2>5. cause[c] = "none" => OneEnding(e.s, e.t, moves[c])
      <3> HIDE DEF e
      <3>1. Ending(e.t) = Ending(tasks[c])
        BY <2>2, <2>3
      <3>2. QED
        BY <1>0, <2>2, <3>1, SameEnding
    <2>6. /\ cause[c] = "none" => OneEnding(f.s, f.t, moves[c])
          /\ f.s.state # "NONE"
      <3>1. f.s.state # "NONE"
        BY <2>2, <2>4 DEF TerminateCall, EngineType, Session
      <3>2. QED
        BY <2>2, <2>4, <2>5, <3>1, TerminateOnce
    <2>7. \/ Becomes(c, e)
          \/ Becomes(c, f)
      BY <2>1
    <2>8. QED
      BY <2>1, <2>4, <2>5, <2>6, <2>7, EndedOnceBecomes
  <1>5. ASSUME NEW t, t.k \notin {"hangup", "cleanup", "settle"}, t \in tasks[c],
               NEW status, NEW via
        PROVE  LET f == TerminateCall(Resuming(c, t), status, via)
               IN /\ f.s.state # "NONE"
                  /\ cause[c] = "none" => OneEnding(f.s, f.t, moves[c])
                  /\ place[c] = "placed"
    <2> DEFINE e == Resuming(c, t)
               f == TerminateCall(e, status, via)
    <2>1. e \in EngineType /\ e.s.state # "NONE" /\ place[c] = "placed"
      BY <1>0, <1>2, <1>5
    <2>2. cause[c] = "none" => OneEnding(e.s, e.t, moves[c])
      BY <1>0, <1>5, EndingGrows, SameEnding
    <2>3. f.s.state # "NONE"
      BY <2>1 DEF TerminateCall, EngineType, Session
    <2>4. QED
      BY <2>1, <2>2, <2>3, TerminateOnce
  <1>6. CASE EventWriteFails(c)
    BY <1>5, <1>6, EndedOnceBecomes DEF EventWriteFails, TasksOf
  <1>7. CASE OptOutStored(c)
    BY <1>5, <1>7, EndedOnceBecomes DEF OptOutStored, TasksOf
  <1>8. CASE Escalate(c)
    BY <1>5, <1>8, EndedOnceBecomes DEF Escalate, TasksOf
  <1>9. CASE SpeechEnds(c)
    <2> DEFINE f == StartTurn(Engine(c))
    <2>1. f.s.state = "PROCESSING_TURN" /\ Ending(f.t) = Ending(tasks[c])
      BY <1>0, HandlerResults
    <2>2. Becomes(c, f) /\ session[c].inMap /\ session[c].state = "AWAITING_SPEECH"
            /\ UNCHANGED <<place, moves, cause>>
      BY <1>9 DEF SpeechEnds
    <2>3. cause[c] = "none" => OneEnding(f.s, f.t, moves[c])
      BY <1>0, <2>1, <2>2, AliveHasNoEnding
    <2>4. QED
      BY <1>2, <2>1, <2>2, <2>3, EndedOnceBecomes
  <1>10. CASE TurnReplies(c)
    <2>1. PICK t \in TasksOf(c, "turn") : TurnReplies(c)!(t)
      BY <1>10 DEF TurnReplies
    <2> DEFINE f == Await(Resuming(c, t), [k |-> "reply", n |-> t.n])
    <2>2. f.s = session[c] /\ Ending(f.t) = Ending(tasks[c])
      BY <1>0 DEF Await, EngineType, TasksOf, Ending
    <2>3. QED
      BY <1>0, <1>2, <2>1, <2>2, SameEnding, EndedOnceBecomes DEF TasksOf
  <1>11. CASE TurnFails(c)
    <2>1. CASE Crash
      BY <2>1, EndedOnceMemoryIsLost DEF Crash
    <2>2. CASE ~Crash
      <3>1. PICK t \in TurnTasks(c) : Becomes(c, Resuming(c, t)) /\ Kept
        BY <1>11, <2>2 DEF TurnFails
      <3>2. Ending(tasks[c] \ {t}) = Ending(tasks[c])
        BY EndingGrows DEF TurnTasks
      <3>3. QED
        BY <1>0, <1>2, <3>1, <3>2, SameEnding, EndedOnceBecomes DEF TurnTasks
    <2>3. QED
      BY <2>1, <2>2
  <1>12. CASE TurnActs(c)
    <2>1. PICK t \in TasksOf(c, "reply") : TurnActs(c)!(t)
      BY <1>12 DEF TurnActs
    <2>2. /\ Ending(tasks[c] \ {t}) = Ending(tasks[c])
          /\ session[c].state # "NONE" /\ place[c] = "placed"
      BY <1>2, EndingGrows DEF TasksOf
    <2>3. ASSUME NEW k \in {"optOut", "escalate", "capture"},
                 Becomes(c, Await(Resuming(c, t), [k |-> k, n |-> t.n])),
                 UNCHANGED cause
          PROVE  EndedOnce'
      <3> DEFINE f == Await(Resuming(c, t), [k |-> k, n |-> t.n])
      <3>1. f.s = session[c] /\ Ending(f.t) = Ending(tasks[c])
        BY <1>0, <2>2 DEF Await, EngineType, Ending
      <3>2. QED
        BY <1>0, <2>1, <2>2, <2>3, <3>1, SameEnding, EndedOnceBecomes
    <2>4. ASSUME NEW h \in {0, 1},
                 Becomes(c, [Resuming(c, t) EXCEPT !.s.state = "IN_PROGRESS",
                                                   !.s.hangups = @ + h]),
                 cause' = IF session[c].state = "TERMINATED"
                          THEN FirstCause(c, "lateTurn") ELSE cause
          PROVE  EndedOnce'
      <3> DEFINE f == [Resuming(c, t) EXCEPT !.s.state = "IN_PROGRESS",
                                             !.s.hangups = @ + h]
      <3>1. f.s.state = "IN_PROGRESS" /\ f.t = tasks[c] \ {t}
        BY <1>0 DEF EngineType, Session
      <3>2. /\ \A d \in Calls \ {c} : cause'[d] = cause[d]
            /\ cause'[c] = "none" => cause[c] = "none"
                                      /\ session[c].state # "TERMINATED"
        BY <2>4 DEF FirstCause, TypeOK
      <3>3. cause'[c] = "none" => OneEnding(f.s, f.t, moves[c])
        BY <1>0, <2>2, <3>1, <3>2, AliveHasNoEnding
      <3>4. QED
        BY <2>1, <2>2, <2>4, <3>1, <3>2, <3>3, EndedOnceBecomes
    <2>5. QED
      BY <2>1, <2>3, <2>4
  <1>13. CASE CaptureStored(c)
    <2>1. PICK t \in TasksOf(c, "capture") : CaptureStored(c)!(t)
      BY <1>13 DEF CaptureStored
    <2> DEFINE f == [Resuming(c, t) EXCEPT !.s.state = "IN_PROGRESS"]
    <2>2. /\ Ending(tasks[c] \ {t}) = Ending(tasks[c])
          /\ session[c].state # "NONE" /\ place[c] = "placed"
      BY <1>2, EndingGrows DEF TasksOf
    <2>3. f.s.state = "IN_PROGRESS" /\ f.t = tasks[c] \ {t}
      BY <1>0 DEF EngineType, Session
    <2>4. /\ \A d \in Calls \ {c} : cause'[d] = cause[d]
          /\ cause'[c] = "none" => cause[c] = "none"
                                    /\ session[c].state # "TERMINATED"
      BY <2>1 DEF FirstCause, TypeOK
    <2>5. cause'[c] = "none" => OneEnding(f.s, f.t, moves[c])
      BY <1>0, <2>2, <2>3, <2>4, AliveHasNoEnding
    <2>6. QED
      BY <2>1, <2>2, <2>3, <2>4, <2>5, EndedOnceBecomes
  <1>14. QED
    BY <1>1, <1>3, <1>4, <1>6, <1>7, <1>8, <1>9, <1>10, <1>11, <1>12, <1>13
    DEF Handlers

\* The stages of an ending: hang-up, then clean-up, then settlement.
LEMMA NextStage ==
  ASSUME NEW s, NEW T, NEW m, NEW t \in Ending(T), OneEnding(s, T, m)
  PROVE  /\ Ending(T) = {t} /\ m = 0
         /\ Ending(T \ {t}) = {}
         /\ s.state = "TERMINATED"
         /\ \A s2, u : s2.state = "TERMINATED" /\ u.k \in {"hangup", "cleanup", "settle"}
                         => OneEnding(s2, (T \ {t}) \cup {u}, m)
         /\ \A s2 : OneEnding(s2, T \ {t}, m)
  <1>1. Ending(T) = {t} /\ m = 0 /\ s.state = "TERMINATED"
    BY DEF OneEnding
  <1>2. Ending(T \ {t}) = {}
    BY <1>1 DEF Ending
  <1>3. \A s2 : OneEnding(s2, T \ {t}, m)
    BY <1>1, <1>2 DEF OneEnding
  <1>4. ASSUME NEW s2, NEW u, s2.state = "TERMINATED",
               u.k \in {"hangup", "cleanup", "settle"}
        PROVE  OneEnding(s2, (T \ {t}) \cup {u}, m)
    <2>1. Ending((T \ {t}) \cup {u}) = {u}
      BY <1>2, <1>4 DEF Ending
    <2>2. QED
      BY <1>1, <1>4, <2>1, OneEndingBegins
  <1>5. QED
    BY <1>1, <1>2, <1>3, <1>4

\* The steps that end a call go through the stages of one end.
LEMMA EndedOnceEndings ==
  ASSUME TypeOK, EndedOnce, NEW c \in Calls, Endings(c)
  PROVE  EndedOnce'
  <1> USE DEF Kept, NoFault
  <1>0. /\ Engine(c) \in EngineType
        /\ Engine(c).s = session[c] /\ Engine(c).t = tasks[c]
        /\ \A t : /\ Resuming(c, t) \in EngineType
                  /\ Resuming(c, t).s = session[c]
                  /\ Resuming(c, t).t = tasks[c] \ {t}
        /\ cause[c] = "none" => OneEnding(session[c], tasks[c], moves[c])
    BY EngineParts DEF Engine, Resuming, EndedOnce
  <1>1. ASSUME MemoryIsLost PROVE EndedOnce'
    BY <1>1, EndedOnceMemoryIsLost
  <1>2. CASE SilenceTimer(c)
    <2> DEFINE e == [Engine(c) EXCEPT !.s.silence = FALSE]
               f == StartTurn(e)
    <2>1. /\ e \in EngineType
          /\ e.s.state = session[c].state /\ e.t = tasks[c]
      <3>1. e \in EngineType
        BY <1>0, SessionFieldTypes
      <3>2. QED
        BY <1>0, <3>1 DEF EngineType, Session
    <2>2. session[c].state # "NONE" /\ place[c] = "placed"
      BY <1>2, SessionExists DEF SilenceTimer
    <2>3. cause[c] = "none" => OneEnding(e.s, e.t, moves[c])
      <3> HIDE DEF e
      <3>1. QED
        BY <1>0, <2>1, SameEnding
    <2>4. ASSUME session[c].state = "AWAITING_SPEECH"
          PROVE  /\ f.s.state = "PROCESSING_TURN"
                 /\ cause[c] = "none" => OneEnding(f.s, f.t, moves[c])
      <3> HIDE DEF e
      <3>1. f.s.state = "PROCESSING_TURN" /\ Ending(f.t) = Ending(tasks[c])
        BY <2>1, HandlerResults
      <3>2. QED
        BY <1>0, <2>4, <3>1, AliveHasNoEnding
    <2>5. CASE Crash
      BY <1>1, <2>5 DEF Crash
    <2>6. CASE ~Crash
      <3>1. /\ Becomes(c, e) \/ (session[c].state = "AWAITING_SPEECH" /\ Becomes(c, f))
            /\ UNCHANGED <<place, moves, cause>>
        BY <1>2, <2>6 DEF SilenceTimer
      <3>2. QED
        BY <2>1, <2>2, <2>3, <2>4, <3>1, EndedOnceBecomes
    <2>7. QED
      BY <2>5, <2>6
  <1>3. CASE MaxTimer(c)
    <2> DEFINE e == [Engine(c) EXCEPT !.s.max = FALSE]
               f == [e EXCEPT !.s.hangups = @ + 1]
    <2>1. /\ e.s.state = session[c].state /\ e.t = tasks[c]
          /\ f.s.state = session[c].state /\ f.t = tasks[c]
      <3>1. e \in EngineType /\ f \in EngineType
        BY <1>0, SessionFieldTypes
      <3>2. QED
        BY <1>0, <3>1 DEF EngineType, Session
    <2>2. session[c].state # "NONE" /\ place[c] = "placed"
      BY <1>3, SessionExists DEF MaxTimer
    <2>3. cause[c] = "none" => /\ OneEnding(e.s, e.t, moves[c])
                               /\ OneEnding(f.s, f.t, moves[c])
      <3> HIDE DEF e, f
      <3>1. QED
        BY <1>0, <2>1, SameEnding
    <2>4. CASE Crash
      BY <1>1, <2>4 DEF Crash
    <2>5. CASE ~Crash
      <3>1. /\ Becomes(c, e) \/ Becomes(c, f)
            /\ UNCHANGED <<place, moves, cause>>
        BY <1>3, <2>5 DEF MaxTimer
      <3>2. QED
        BY <2>1, <2>2, <2>3, <3>1, EndedOnceBecomes
    <2>6. QED
      BY <2>4, <2>5
  <1>4. CASE HangupTimer(c)
    <2> DEFINE e == [Engine(c) EXCEPT !.s.hangups = @ - 1]
               f == TerminateCall(e, "COMPLETED", "timer")
    <2>1. /\ e \in EngineType
          /\ e.s.state = session[c].state /\ e.t = tasks[c]
      <3>1. e \in EngineType
        BY <1>0, <1>4, SessionFieldTypes DEF HangupTimer
      <3>2. QED
        BY <1>0, <3>1 DEF EngineType, Session
    <2>2. session[c].state # "NONE" /\ place[c] = "placed"
      BY <1>4, SessionExists DEF HangupTimer
    <2>3. /\ cause[c] = "none" => OneEnding(f.s, f.t, moves[c])
          /\ f.s.state # "NONE"
      <3> HIDE DEF e
      <3>1. cause[c] = "none" => OneEnding(e.s, e.t, moves[c])
        BY <1>0, <2>1, SameEnding
      <3>2. f.s.state # "NONE"
        BY <2>1, <2>2 DEF TerminateCall, EngineType, Session
      <3>3. QED
        BY <2>1, <2>2, <3>1, <3>2, TerminateOnce
    <2>4. Becomes(c, f) /\ UNCHANGED <<place, moves, cause>>
      BY <1>4 DEF HangupTimer
    <2>5. QED
      BY <2>2, <2>3, <2>4, EndedOnceBecomes
  <1>5. CASE HungUp(c)
    <2>1. PICK t \in TasksOf(c, "hangup") : HungUp(c)!(t)
      BY <1>5 DEF HungUp
    <2> DEFINE e == Resuming(c, t)
               f == CleanupSession(e, t.status, DurationOf(session[c], c), t.via)
    <2>2. t \in Ending(tasks[c]) /\ place[c] = "placed"
      BY SessionExists DEF TasksOf, Ending
    <2>3. cause[c] = "none" => Ending(e.t) = {} /\ moves[c] = 0
      <3>1. cause[c] = "none" => Ending(tasks[c] \ {t}) = {} /\ moves[c] = 0
        BY <1>0, <2>2, NextStage
      <3>2. QED
        BY <1>0, <3>1
    <2>4. f.s.state = "TERMINATED"
      BY <1>0, HandlerResults
    <2>5. cause[c] = "none" => OneEnding(f.s, f.t, moves[c])
      BY <1>0, <2>3, CleanupOnce
    <2>6. QED
      BY <2>1, <2>2, <2>4, <2>5, EndedOnceBecomes
  <1>6. CASE RowClosed(c)
    <2>1. PICK t \in TasksOf(c, "cleanup") : RowClosed(c)!(t)
      BY <1>6 DEF RowClosed
    <2> DEFINE e == [Resuming(c, t) EXCEPT !.s.inMap = FALSE]
               u == [k |-> "settle", n |-> t.n, secs |-> t.secs]
               f == Await(e, u)
    <2>2. t \in Ending(tasks[c]) /\ place[c] = "placed" /\ session[c].state # "NONE"
      BY SessionExists DEF TasksOf, Ending
    <2>3. /\ e.s.state = session[c].state /\ e.t = tasks[c] \ {t}
          /\ f.s.state = session[c].state /\ f.t = (tasks[c] \ {t}) \cup {u}
      <3>1. e \in EngineType
        BY <1>0, SessionFieldTypes
      <3>2. e.s.state = session[c].state /\ e.t = tasks[c] \ {t}
        BY <1>0, <3>1 DEF EngineType, Session
      <3>3. f.s = e.s /\ f.t = e.t \cup {u}
        BY <3>1, HandlerResults
      <3>4. QED
        BY <3>2, <3>3
    <2>4. cause[c] = "none" => /\ OneEnding(e.s, e.t, moves[c])
                               /\ OneEnding(f.s, f.t, moves[c])
      <3>1. u.k = "settle"
        OBVIOUS
      <3> HIDE DEF e, f, u
      <3>2. cause[c] = "none" =>
              /\ session[c].state = "TERMINATED"
              /\ OneEnding(e.s, tasks[c] \ {t}, moves[c])
        BY <1>0, <2>2, NextStage
      <3>3. cause[c] = "none" => OneEnding(f.s, (tasks[c] \ {t}) \cup {u}, moves[c])
        BY <1>0, <2>2, <2>3, <3>1, <3>2, NextStage
      <3>4. QED
        BY <2>3, <3>2, <3>3
    <2>5. Becomes(c, f) \/ Becomes(c, e)
      BY <2>1
    <2>6. QED
      BY <2>1, <2>2, <2>3, <2>4, <2>5, EndedOnceBecomes
  <1>7. CASE RowCloseFails(c)
    <2>1. CASE MemoryIsLost
      BY <1>1, <2>1
    <2>2. CASE ~MemoryIsLost
      <3>1. PICK t \in TasksOf(c, "cleanup") :
              Becomes(c, Resuming(c, t)) /\ UNCHANGED <<place, moves, cause>>
        BY <1>7, <2>2 DEF RowCloseFails
      <3>2. t \in Ending(tasks[c]) /\ place[c] = "placed" /\ session[c].state # "NONE"
        BY SessionExists DEF TasksOf, Ending
      <3>3. cause[c] = "none" => OneEnding(session[c], tasks[c] \ {t}, moves[c])
        BY <1>0, <3>2, NextStage
      <3>4. QED
        BY <1>0, <3>1, <3>2, <3>3, EndedOnceBecomes
    <2>3. QED
      BY <2>1, <2>2
  <1>8. CASE SettleCall(c)
    <2>1. PICK t \in TasksOf(c, "settle") : SettleCall(c)!(t)
      BY <1>8 DEF SettleCall
    <2>2. t \in Ending(tasks[c]) /\ place[c] = "placed" /\ session[c].state # "NONE"
      BY SessionExists DEF TasksOf, Ending
    <2>3. /\ moves'[c] = moves[c] + 1 /\ tasks'[c] = tasks[c] \ {t}
          /\ \A d \in Calls \ {c} : moves'[d] = moves[d] /\ tasks'[d] = tasks[d]
          /\ UNCHANGED <<place, session, cause>>
      BY <2>1 DEF TypeOK
    <2>4. cause[c] = "none" => OneEnding(session[c], tasks'[c], moves'[c])
      <3>1. cause[c] = "none" => /\ Ending(tasks[c] \ {t}) = {} /\ moves[c] = 0
                                 /\ session[c].state = "TERMINATED"
        BY <1>0, <2>2, NextStage
      <3>2. QED
        BY <2>3, <3>1 DEF OneEnding
    <2>5. QED
      BY <2>2, <2>3, <2>4 DEF EndedOnce
  <1>9. CASE SettleFails(c)
    <2>1. PICK t \in TasksOf(c, "settle") : SettleFails(c)!(t)
      BY <1>9 DEF SettleFails
    <2>2. t \in Ending(tasks[c]) /\ place[c] = "placed" /\ session[c].state # "NONE"
      BY SessionExists DEF TasksOf, Ending
    <2>3. /\ tasks'[c] = tasks[c] \ {t}
          /\ \A d \in Calls \ {c} : tasks'[d] = tasks[d]
          /\ UNCHANGED <<place, session, cause, moves>>
      BY <2>1 DEF TypeOK
    <2>4. cause[c] = "none" => OneEnding(session[c], tasks[c] \ {t}, moves[c])
      BY <1>0, <2>2, NextStage
    <2>5. QED
      BY <2>2, <2>3, <2>4 DEF EndedOnce
  <1>10. CASE ReconcileStale(c)
    BY <1>10 DEF ReconcileStale, EndedOnce
  <1>11. QED
    BY <1>2, <1>3, <1>4, <1>5, <1>6, <1>7, <1>8, <1>9, <1>10 DEF Endings

\* Every step keeps EndedOnce.
LEMMA EndedOnceStep ==
  ASSUME TypeOK, EndedOnce, [Next]_vars
  PROVE  EndedOnce'
  <1>1. CASE UNCHANGED vars
    BY <1>1 DEF EndedOnce, vars
  <1>2. CASE SpontaneousCrash
    BY <1>2, EndedOnceMemoryIsLost DEF SpontaneousCrash, Crash
  <1>3. ASSUME NEW c \in Calls, Route(c) \/ Telephony(c) \/ Handlers(c) \/ Endings(c)
        PROVE  EndedOnce'
    BY <1>3, EndedOnceRoute, EndedOnceTelephony, EndedOnceHandlers, EndedOnceEndings
  <1>4. QED
    BY <1>1, <1>2, <1>3 DEF Next

\* A call is settled twice only if one of the three handlers that do not look at
\* the session's state acted on a session that had ended: no other interleaving
\* of events, timers, turns, cancellations, failed writes and crashes does it.
THEOREM SettledTwiceOnlyByACause == Spec => []SecondSettlementHasACause
  <1>1. Init => EndedOnce
    <2>1. ASSUME Init PROVE EndedOnce
      BY <2>1 DEF Init, EndedOnce, OneEnding, Ending, NoSession
    <2>2. QED
      BY <2>1
  <1>2. TypeOK /\ EndedOnce /\ [Next]_vars => EndedOnce'
    BY EndedOnceStep
  <1>3. TypeOK /\ EndedOnce => SecondSettlementHasACause
    BY DEF EndedOnce, OneEnding, SecondSettlementHasACause, TypeOK
  <1>4. QED
    BY <1>1, <1>2, <1>3, TypeCorrect, PTL DEF Spec

-----------------------------------------------------------------------------
(* Debt.  A settlement gives back at least the reservation less the worst    *)
(* overrun, because the seconds it bills were read from the call's clock.    *)

LongestCall == MaxTicks * TickSecs

Billable(T) ==
  \A t \in T : t.k \in {"cleanup", "settle"} => t.secs \in Nat /\ t.secs <= LongestCall

DurationsAreBounded == \A c \in Calls : Billable(tasks[c])

\* No duration a handler can bill exceeds the longest call.
LEMMA DurationBound ==
  ASSUME TypeOK, NEW c \in Calls
  PROVE  /\ elapsed[c] * TickSecs \in Nat /\ elapsed[c] * TickSecs <= LongestCall
         /\ DurationOf(session[c], c) \in Nat
         /\ DurationOf(session[c], c) <= LongestCall
         /\ LongestCall \in Nat
  <1>1. /\ elapsed[c] \in Nat /\ MaxTicks \in Nat /\ TickSecs \in Nat
        /\ elapsed[c] <= MaxTicks
    BY EngineParts, BillingAssumption, BoundsAssumption
  <1>2. /\ elapsed[c] * TickSecs \in Nat /\ elapsed[c] * TickSecs <= LongestCall
        /\ LongestCall \in Nat
    BY <1>1, TimesMonotone DEF LongestCall
  <1>3. QED
    BY <1>2 DEF DurationOf

\* The operators the handlers are built from bill the clock's duration.
LEMMA BillableOperators ==
  ASSUME NEW e \in EngineType, Billable(e.t)
  PROVE  /\ \A status, via : Billable(TerminateCall(e, status, via).t)
         /\ \A status, via : \A secs \in Nat : secs <= LongestCall
              => Billable(CleanupSession(e, status, secs, via).t)
         /\ Billable(StartTurn(e).t)
         /\ \A t : t.k \notin {"cleanup", "settle"} => Billable(Await(e, t).t)
         /\ Billable(OnRinging(e).t)
         /\ Billable(OnAnswered(e).t)
         /\ Billable(OnPromptFinished(e).t)
  <1>1. ASSUME NEW status, NEW via PROVE Billable(TerminateCall(e, status, via).t)
    BY DEF TerminateCall, Billable
  <1>2. ASSUME NEW status, NEW via, NEW secs \in Nat, secs <= LongestCall
        PROVE  Billable(CleanupSession(e, status, secs, via).t)
    BY <1>2 DEF CleanupSession, Billable
  <1>3. Billable(StartTurn(e).t)
    BY DEF StartTurn, Billable
  <1>4. ASSUME NEW t, t.k \notin {"cleanup", "settle"} PROVE Billable(Await(e, t).t)
    <2>1. Await(e, t).t = e.t \cup {t}
      BY HandlerResults
    <2>2. QED
      BY <1>4, <2>1 DEF Billable
  <1>5. Billable(OnPromptFinished(e).t)
    <2>1. OnPromptFinished(e).t = e.t
      BY DEF OnPromptFinished, EngineType
    <2>2. QED
      BY <2>1
  <1>6. Billable(OnRinging(e).t) /\ Billable(OnAnswered(e).t)
    <2>1. /\ OnRinging(e).t
               = e.t \cup {[k |-> "ringing", n |-> IF e.s.answered THEN 1 ELSE 0]}
          /\ OnAnswered(e).t = e.t \cup {[k |-> "answered", n |-> 0]}
      BY DEF OnRinging, OnAnswered, Await, EngineType
    <2>2. QED
      BY <2>1 DEF Billable
  <1>7. QED
    BY <1>1, <1>2, <1>3, <1>4, <1>5, <1>6

\* A step on one session keeps durations bounded when its result does.
LEMMA BillableBecomes ==
  ASSUME TypeOK, DurationsAreBounded, NEW c \in Calls, NEW e, Becomes(c, e),
         Billable(e.t)
  PROVE  DurationsAreBounded'
  BY DEF DurationsAreBounded, Becomes, TypeOK, Billable, LongestCall

\* Losing the memory of the process leaves no duration.
LEMMA BillableMemoryIsLost ==
  ASSUME MemoryIsLost
  PROVE  DurationsAreBounded'
  BY DEF DurationsAreBounded, MemoryIsLost, Billable

\* Every step keeps durations bounded.
LEMMA BillableStep ==
  ASSUME TypeOK, DurationsAreBounded, [Next]_vars
  PROVE  DurationsAreBounded'
  <1>1. ASSUME UNCHANGED tasks PROVE DurationsAreBounded'
    BY <1>1 DEF DurationsAreBounded, Billable, LongestCall
  <1>2. CASE UNCHANGED vars
    BY <1>1, <1>2 DEF vars
  <1>3. CASE SpontaneousCrash
    BY <1>3, BillableMemoryIsLost DEF SpontaneousCrash, Crash
  <1>4. ASSUME NEW c \in Calls, Route(c) \/ Telephony(c) PROVE DurationsAreBounded'
    BY <1>1, <1>4 DEF Route, Reserve, Refuse, CreateFails, Dial, DialError, RegisterCall,
       CancelRequest, CancelWrite, Telephony, Ring, Answer, RemoteHangup,
       PromptPlayed, Tick, LoseEvent, EngineUntouched, NoFault
  <1>5. ASSUME NEW c \in Calls
        PROVE  /\ Engine(c) \in EngineType /\ Engine(c).t = tasks[c]
               /\ Billable(Engine(c).t)
               /\ \A t : /\ Resuming(c, t) \in EngineType
                         /\ Resuming(c, t).t = tasks[c] \ {t}
                         /\ Billable(Resuming(c, t).t)
    BY EngineParts DEF Engine, Resuming, DurationsAreBounded, Billable
  <1>6. ASSUME NEW c \in Calls, Handlers(c) PROVE DurationsAreBounded'
    <2>1. CASE HandleEvent(c)
      <3> DEFINE m == Head(prov[c].msgs)
      <3>1. \A status, secs, via : secs \in {0, elapsed[c] * TickSecs}
              => Billable(CleanupSession(Engine(c), status, secs, via).t)
        BY <1>5, DurationBound, BillableOperators
      <3>2. /\ Billable(OnCallEnded(Engine(c), m, c).t)
            /\ Billable(OnCallFailed(Engine(c)).t)
        BY <1>5, <3>1 DEF OnCallEnded, OnCallFailed
      <3>3. Billable(Handle(Engine(c), m, c).t)
        BY <1>5, <3>2, BillableOperators DEF Handle
      <3>4. CASE Becomes(c, Handle(Engine(c), m, c))
        BY <3>3, <3>4, BillableBecomes
      <3>5. QED
        BY <1>1, <2>1, <3>4 DEF HandleEvent
    <2>2. CASE RingingWritten(c)
      BY <1>5, <2>2, BillableBecomes DEF RingingWritten
    <2>3. CASE AnsweredWritten(c)
      <3>1. PICK t \in TasksOf(c, "answered") : AnsweredWritten(c)!(t)
        BY <2>3 DEF AnsweredWritten
      <3> DEFINE e == ArmMaxTimer(Resuming(c, t))
      <3>2. e \in EngineType /\ Billable(e.t)
        <4>1. Resuming(c, t) \in EngineType
          BY <1>5
        <4>2. e \in EngineType /\ e.t = Resuming(c, t).t
          BY <4>1, SessionFieldTypes, HandlerResults
        <4>3. QED
          BY <1>5, <4>2
      <3>3. Billable(TerminateCall(e, "FAILED", "event").t)
        BY <3>2, BillableOperators
      <3>4. Becomes(c, e) \/ Becomes(c, TerminateCall(e, "FAILED", "event"))
        BY <3>1
      <3>5. QED
        BY <3>2, <3>3, <3>4, BillableBecomes
    <2>4. CASE EventWriteFails(c) \/ OptOutStored(c) \/ Escalate(c)
      <3>1. PICK t, status, via : Becomes(c, TerminateCall(Resuming(c, t), status, via))
        BY <2>4 DEF EventWriteFails, OptOutStored, Escalate
      <3>2. QED
        BY <1>5, <3>1, BillableOperators, BillableBecomes
    <2>5. CASE SpeechEnds(c)
      BY <1>5, <2>5, BillableOperators, BillableBecomes DEF SpeechEnds
    <2>6. CASE TurnReplies(c)
      <3>1. PICK t : Becomes(c, Await(Resuming(c, t), [k |-> "reply", n |-> t.n]))
        BY <2>6 DEF TurnReplies
      <3>2. QED
        BY <1>5, <3>1, BillableOperators, BillableBecomes
    <2>7. CASE TurnFails(c)
      BY <1>5, <2>7, BillableBecomes, BillableMemoryIsLost DEF TurnFails, Crash
    <2>8. CASE TurnActs(c) \/ CaptureStored(c)
      <3>1. PICK t : \/ \E k \in {"optOut", "escalate", "capture"} :
                           Becomes(c, Await(Resuming(c, t), [k |-> k, n |-> t.n]))
                     \/ \E h \in {0, 1} :
                           Becomes(c, [Resuming(c, t) EXCEPT !.s.state = "IN_PROGRESS",
                                                             !.s.hangups = @ + h])
                     \/ Becomes(c, [Resuming(c, t) EXCEPT !.s.state = "IN_PROGRESS"])
        BY <2>8 DEF TurnActs, CaptureStored
      <3>2. \A k \in {"optOut", "escalate", "capture"} :
              Billable(Await(Resuming(c, t), [k |-> k, n |-> t.n]).t)
        BY <1>5, BillableOperators
      <3>3. /\ [Resuming(c, t) EXCEPT !.s.state = "IN_PROGRESS"].t = Resuming(c, t).t
            /\ \A h : [Resuming(c, t) EXCEPT !.s.state = "IN_PROGRESS",
                                             !.s.hangups = @ + h].t = Resuming(c, t).t
        BY <1>5 DEF EngineType
      <3>4. QED
        BY <1>5, <3>1, <3>2, <3>3, BillableBecomes
    <2>9. QED
      BY <1>6, <2>1, <2>2, <2>3, <2>4, <2>5, <2>6, <2>7, <2>8 DEF Handlers
  <1>7. ASSUME NEW c \in Calls, Endings(c) PROVE DurationsAreBounded'
    <2>1. CASE SilenceTimer(c)
      <3> DEFINE e == [Engine(c) EXCEPT !.s.silence = FALSE]
      <3>1. e \in EngineType /\ e.t = tasks[c]
        BY <1>5, SessionFieldTypes DEF EngineType
      <3>2. Billable(e.t) /\ Billable(StartTurn(e).t)
        <4> HIDE DEF e
        <4>1. QED
          BY <1>5, <3>1, BillableOperators
      <3>3. \/ Becomes(c, e) \/ Becomes(c, StartTurn(e)) \/ Crash
        BY <2>1 DEF SilenceTimer
      <3>4. QED
        BY <3>2, <3>3, BillableBecomes, BillableMemoryIsLost DEF Crash
    <2>2. CASE MaxTimer(c)
      <3> DEFINE e == [Engine(c) EXCEPT !.s.max = FALSE]
                 f == [e EXCEPT !.s.hangups = @ + 1]
      <3>1. e.t = tasks[c] /\ f.t = tasks[c]
        BY <1>5 DEF EngineType
      <3>2. Becomes(c, e) \/ Becomes(c, f) \/ Crash
        BY <2>2 DEF MaxTimer
      <3>3. QED
        BY <1>5, <3>1, <3>2, BillableBecomes, BillableMemoryIsLost DEF Crash
    <2>3. CASE HangupTimer(c)
      <3> DEFINE e == [Engine(c) EXCEPT !.s.hangups = @ - 1]
      <3>1. e \in EngineType /\ e.t = tasks[c]
        BY <1>5, <2>3, SessionFieldTypes DEF EngineType, HangupTimer, Engine
      <3>2. Billable(TerminateCall(e, "COMPLETED", "timer").t)
        <4> HIDE DEF e
        <4>1. QED
          BY <1>5, <3>1, BillableOperators
      <3>3. QED
        BY <2>3, <3>2, BillableBecomes DEF HangupTimer
    <2>4. CASE HungUp(c)
      <3>1. PICK t \in TasksOf(c, "hangup") : HungUp(c)!(t)
        BY <2>4 DEF HungUp
      <3>2. Billable(CleanupSession(Resuming(c, t), t.status,
                                    DurationOf(session[c], c), t.via).t)
        BY <1>5, DurationBound, BillableOperators
      <3>3. QED
        BY <3>1, <3>2, BillableBecomes
    <2>5. CASE RowClosed(c)
      <3>1. PICK t \in TasksOf(c, "cleanup") : RowClosed(c)!(t)
        BY <2>5 DEF RowClosed
      <3> DEFINE e == [Resuming(c, t) EXCEPT !.s.inMap = FALSE]
                 u == [k |-> "settle", n |-> t.n, secs |-> t.secs]
      <3>2. t.secs \in Nat /\ t.secs <= LongestCall
        BY <1>5 DEF TasksOf, Billable
      <3>3. e \in EngineType /\ e.t = tasks[c] \ {t}
        BY <1>5, SessionFieldTypes DEF EngineType
      <3>4. Billable(e.t) /\ Billable(e.t \cup {u})
        BY <1>5, <3>2, <3>3 DEF Billable
      <3>5. Billable(Await(e, u).t)
        <4>1. Await(e, u).t = e.t \cup {u}
          BY <3>3, HandlerResults
        <4>2. QED
          BY <3>4, <4>1
      <3>6. Becomes(c, e) \/ Becomes(c, Await(e, u))
        BY <3>1
      <3>7. QED
        BY <3>4, <3>5, <3>6, BillableBecomes
    <2>6. CASE RowCloseFails(c)
      BY <1>5, <2>6, BillableBecomes, BillableMemoryIsLost DEF RowCloseFails
    <2>7. CASE SettleCall(c) \/ SettleFails(c)
      <3>1. PICK t : tasks' = [tasks EXCEPT ![c] = @ \ {t}]
        BY <2>7 DEF SettleCall, SettleFails
      <3>2. QED
        BY <3>1 DEF DurationsAreBounded, Billable, TypeOK, LongestCall
    <2>8. CASE ReconcileStale(c)
      BY <1>1, <2>8 DEF ReconcileStale
    <2>9. QED
      BY <1>7, <2>1, <2>2, <2>3, <2>4, <2>5, <2>6, <2>7, <2>8 DEF Endings
  <1>8. QED
    BY <1>2, <1>3, <1>4, <1>6, <1>7 DEF Next

\* The worst overrun covers what any call costs beyond its reservation.
LEMMA WorstOverrunCovers ==
  ASSUME NEW secs \in Nat, secs <= LongestCall
  PROVE  /\ WorstOverrun \in Nat
         /\ CostOf(secs) \in Nat
         /\ Reservation - CostOf(secs) + WorstOverrun >= 0
  <1>1. LongestCall \in Nat
    BY TimesNat, BillingAssumption, BoundsAssumption DEF LongestCall
  <1>2. /\ CostOf(secs) \in Nat /\ CostOf(LongestCall) \in Nat /\ Reservation \in Nat
        /\ CostOf(secs) <= CostOf(LongestCall)
    BY <1>1, ConstantTypes, CostMonotone, BillingAssumption DEF CostOf
  <1>3. QED
    BY <1>2 DEF WorstOverrun, LongestCall

\* Every step keeps the debt bounded.
LEMMA DebtStep ==
  ASSUME TypeOK, DurationsAreBounded, DebtIsBounded, [Next]_vars
  PROVE  DebtIsBounded'
  <1> DEFINE W == WorstOverrun
  <1>1. /\ wallet.balance \in Int /\ wallet.moves \in Nat
        /\ CreditLimit \in Nat /\ W \in Nat /\ Reservation \in Nat
        /\ wallet.balance + CreditLimit + wallet.moves * W >= 0
        /\ wallet.moves * W \in Nat
    <2>1. 0 <= LongestCall /\ W \in Nat
      BY WorstOverrunCovers, TimesNat, BillingAssumption, BoundsAssumption
      DEF LongestCall
    <2>2. wallet.moves \in Nat /\ wallet.moves * W \in Nat
      BY <2>1, TimesNat DEF TypeOK
    <2>3. QED
      BY <2>1, <2>2, ConstantTypes, BillingAssumption DEF TypeOK, DebtIsBounded
  <1>2. CASE wallet' = wallet
    BY <1>2 DEF DebtIsBounded, WorstOverrun
  <1>3. ASSUME NEW c \in Calls, Reserve(c)
        PROVE  DebtIsBounded'
    <2>1. /\ wallet'.moves = wallet.moves
          /\ Reservation <= 0 \/ wallet.balance + CreditLimit >= Reservation
          /\ wallet'.balance = IF Reservation <= 0 THEN wallet.balance
                               ELSE wallet.balance - Reservation
      BY <1>3 DEF Reserve, AfterReserve, CanReserve, TypeOK
    <2>2. wallet'.balance + CreditLimit + wallet.moves * W >= 0
      BY <1>1, <2>1
    <2>3. QED
      BY <2>1, <2>2 DEF DebtIsBounded, WorstOverrun
  <1>4. ASSUME NEW c \in Calls, DialError(c)
        PROVE  DebtIsBounded'
    <2>1. /\ wallet'.moves = wallet.moves
          /\ wallet'.balance = wallet.balance + Reservation
      BY <1>4 DEF DialError, TypeOK
    <2>2. wallet'.balance + CreditLimit + wallet.moves * W >= 0
      BY <1>1, <2>1
    <2>3. QED
      BY <2>1, <2>2 DEF DebtIsBounded, WorstOverrun
  <1>5. ASSUME NEW c \in Calls, SettleCall(c)
        PROVE  DebtIsBounded'
    <2>1. PICK t \in TasksOf(c, "settle") : SettleCall(c)!(t)
      BY <1>5 DEF SettleCall
    <2>2. t.secs \in Nat /\ t.secs <= LongestCall
      BY DEF TasksOf, DurationsAreBounded, Billable
    <2>3. /\ CostOf(t.secs) \in Nat
          /\ Reservation - CostOf(t.secs) + W >= 0
      BY <2>2, WorstOverrunCovers
    <2>4. /\ wallet'.balance = wallet.balance + (Reservation - CostOf(t.secs))
          /\ wallet'.moves = wallet.moves + 1
      BY <2>1 DEF Settled, TypeOK
    <2>5. (wallet.moves + 1) * W = wallet.moves * W + W
      BY <1>1, SMT
    <2>6. wallet'.balance + CreditLimit + (wallet.moves + 1) * W >= 0
      BY <1>1, <2>3, <2>4, <2>5
    <2>7. QED
      BY <2>4, <2>6 DEF DebtIsBounded, WorstOverrun
  <1>6. QED
    BY <1>2, <1>3, <1>4, <1>5, MoneySteps

\* A tenant's debt beyond its credit limit is only what its settled calls cost
\* beyond their reservations, each at most one worst overrun: reserving before
\* dialling keeps every call that has not been settled within the limit.
THEOREM DebtIsAlwaysBounded == Spec => []DebtIsBounded
  <1>1. Init => DurationsAreBounded /\ DebtIsBounded
    <2>1. ASSUME Init PROVE DebtIsBounded
      <3>1. 0 <= LongestCall /\ WorstOverrun \in Nat
        BY WorstOverrunCovers, TimesNat, BillingAssumption, BoundsAssumption
        DEF LongestCall
      <3>2. /\ wallet.balance \in Int /\ wallet.balance + CreditLimit >= 0
            /\ wallet.moves = 0
        BY <2>1, BillingAssumption DEF Init
      <3>3. QED
        BY <3>1, <3>2, BillingAssumption DEF DebtIsBounded
    <2>2. ASSUME Init PROVE DurationsAreBounded
      BY <2>2 DEF Init, DurationsAreBounded, Billable
    <2>3. QED
      BY <2>1, <2>2
  <1>2. TypeOK /\ DurationsAreBounded /\ [Next]_vars => DurationsAreBounded'
    BY BillableStep
  <1>3. TypeOK /\ DurationsAreBounded /\ DebtIsBounded /\ [Next]_vars
          => DebtIsBounded'
    BY DebtStep
  <1>4. QED
    BY <1>1, <1>2, <1>3, TypeCorrect, PTL DEF Spec

-----------------------------------------------------------------------------
(* Sound sessions.  A session that is in the map while its channel is down is *)
(* ended by something: a message of the provider still to be handled, or a    *)
(* hang-up or clean-up under way.                                             *)

GoneWords == {"GONE", "END", "NO_ANSWER", "BUSY", "FAILURE"}
Heard(q) == \A i \in 1 .. Len(q) : q[i] \notin GoneWords
Closes(T) == \E t \in T : t.k \in {"hangup", "cleanup"}
Down(c) == prov[c].chan = "down"

EndFits(c) ==
  /\ place[c] \in {"idle", "refused", "reserved"} => prov[c].chan = "none"
  /\ place[c] \in {"dialled", "placed"} => prov[c].chan # "none"
  /\ Heard(prov[c].msgs) \/ Down(c)
  /\ (moves[c] > 0 \/ \E t \in tasks[c] : t.k \in {"cleanup", "settle"})
       => Down(c) \/ faults.write > 0
  /\ session[c].inMap /\ session[c].state = "TERMINATED"
       => Closes(tasks[c]) \/ faults.write > 0
  /\ (session[c].inMap \/ place[c] = "dialled") /\ Down(c) /\ Heard(prov[c].msgs)
       => Closes(tasks[c]) \/ prov[c].missed \/ faults.lost > 0 \/ faults.write > 0

EndsFit == \A c \in Calls : EndFits(c)

\* The channel's messages, as they come and go.
LEMMA HeardFacts ==
  ASSUME NEW q \in Seq(Message)
  PROVE  /\ Heard(<<>>)
         /\ \A x \in Message : Heard(<<x>>) <=> x \notin GoneWords
         /\ \A x, y \in Message :
              Heard(<<x, y>>) <=> x \notin GoneWords /\ y \notin GoneWords
         /\ \A m \in Seq(Message) : Heard(q \o m) <=> Heard(q) /\ Heard(m)
         /\ \A x \in Message : Heard(Append(q, x)) <=> Heard(q) /\ x \notin GoneWords
         /\ q # <<>> => (Heard(q) <=> Head(q) \notin GoneWords /\ Heard(Tail(q)))
  <1>1. Heard(<<>>)
    BY DEF Heard
  <1>2. /\ \A x \in Message : Heard(<<x>>) <=> x \notin GoneWords
        /\ \A x, y \in Message :
              Heard(<<x, y>>) <=> x \notin GoneWords /\ y \notin GoneWords
    <2>1. ASSUME NEW x \in Message PROVE Heard(<<x>>) <=> x \notin GoneWords
      BY DEF Heard
    <2>2. ASSUME NEW x \in Message, NEW y \in Message
          PROVE  Heard(<<x, y>>) <=> x \notin GoneWords /\ y \notin GoneWords
      <3>1. /\ Len(<<x, y>>) = 2 /\ <<x, y>>[1] = x /\ <<x, y>>[2] = y
        OBVIOUS
      <3>2. \A i \in 1 .. 2 : i = 1 \/ i = 2
        OBVIOUS
      <3>3. 1 \in 1 .. 2 /\ 2 \in 1 .. 2
        OBVIOUS
      <3>4. QED
        BY <3>1, <3>2, <3>3, Zenon DEF Heard
    <2>3. QED
      BY <2>1, <2>2
  <1>3. ASSUME NEW m \in Seq(Message)
        PROVE  Heard(q \o m) <=> Heard(q) /\ Heard(m)
    <2>1. /\ Len(q) \in Nat /\ Len(m) \in Nat
          /\ Len(q \o m) = Len(q) + Len(m)
          /\ \A i \in 1 .. Len(q) : (q \o m)[i] = q[i]
          /\ \A i \in 1 .. Len(m) : (q \o m)[Len(q) + i] = m[i]
          /\ \A i \in 1 .. Len(q) + Len(m) :
               i \in 1 .. Len(q) \/ (i - Len(q) \in 1 .. Len(m)
                                       /\ i = Len(q) + (i - Len(q)))
      OBVIOUS
    <2>2. Heard(q \o m) => Heard(q) /\ Heard(m)
      BY <2>1 DEF Heard
    <2>3. Heard(q) /\ Heard(m) => Heard(q \o m)
      BY <2>1 DEF Heard
    <2>4. QED
      BY <2>2, <2>3
  <1>4. ASSUME NEW x \in Message
        PROVE  Heard(Append(q, x)) <=> Heard(q) /\ x \notin GoneWords
    BY DEF Heard
  <1>5. ASSUME q # <<>>
        PROVE  Heard(q) <=> Head(q) \notin GoneWords /\ Heard(Tail(q))
    <2>1. /\ Len(q) \in Nat /\ Len(q) >= 1
          /\ Head(q) = q[1]
          /\ Len(Tail(q)) = Len(q) - 1
          /\ \A i \in 1 .. Len(q) - 1 : Tail(q)[i] = q[i + 1] /\ i + 1 \in 1 .. Len(q)
          /\ \A i \in 1 .. Len(q) :
               i = 1 \/ (i - 1 \in 1 .. Len(q) - 1 /\ (i - 1) + 1 = i)
      BY <1>5
    <2>2. Heard(q) => Head(q) \notin GoneWords /\ Heard(Tail(q))
      BY <2>1 DEF Heard
    <2>3. Head(q) \notin GoneWords /\ Heard(Tail(q)) => Heard(q)
      BY <2>1 DEF Heard
    <2>4. QED
      BY <2>2, <2>3
  <1>6. QED
    BY <1>1, <1>2, <1>3, <1>4, <1>5

\* A step of the line that handles no message: nothing is heard of a channel
\* that is down but what was on its way, and one that goes down is reported.
LineMoves(c) ==
  /\ prov'[c].missed = prov[c].missed
  /\ prov'[c].chan = "none" <=> prov[c].chan = "none"
  /\ Down(c) => Down(c)' /\ (Heard(prov'[c].msgs) <=> Heard(prov[c].msgs))
  /\ ~Down(c) => (Down(c)' <=> ~Heard(prov'[c].msgs))

\* What a handler does to a session and its tasks when it ends neither.
Carries(e, f) ==
  /\ f.s.inMap = e.s.inMap
  /\ \A t \in e.t : t.k \in {"hangup", "cleanup"} => t \in f.t
  /\ \A t \in f.t : t.k \in {"cleanup", "settle"} => t \in e.t
  /\ f.s.state = "TERMINATED" => e.s.state = "TERMINATED" \/ Closes(f.t)

\* Failures are counted up.
Later == /\ faults.write > 0 => faults'.write > 0
         /\ faults.lost > 0 => faults'.lost > 0

\* Nothing but call c moved.
Elsewhere(c) ==
  \A d \in Calls \ {c} :
    /\ place'[d] = place[d] /\ prov'[d] = prov[d] /\ moves'[d] = moves[d]
    /\ session'[d] = session[d] /\ tasks'[d] = tasks[d]

\* A step of one call keeps the others fit.
LEMMA ElsewhereFits ==
  ASSUME EndsFit, NEW c \in Calls, Elsewhere(c), Later, EndFits(c)'
  PROVE  EndsFit'
  <1>1. ASSUME NEW d \in Calls \ {c} PROVE EndFits(d)'
    BY <1>1 DEF EndsFit, EndFits, Elsewhere, Later, Down
  <1>2. QED
    BY <1>1 DEF EndsFit

\* The session and tasks of a call after a handler.
LEMMA BecomesParts ==
  ASSUME TypeOK, NEW c \in Calls, NEW e, Becomes(c, e)
  PROVE  /\ session'[c] = e.s /\ tasks'[c] = e.t
         /\ \A d \in Calls \ {c} : session'[d] = session[d] /\ tasks'[d] = tasks[d]
  BY DEF Becomes, TypeOK

\* A handler that ends no session, and a line that moves as it may.
LEMMA CarriesFits ==
  ASSUME NEW c \in Calls, EndFits(c), NEW e,
         session'[c] = e.s, tasks'[c] = e.t, Carries(Engine(c), e),
         LineMoves(c), place'[c] = place[c], moves'[c] = moves[c], Later
  PROVE  EndFits(c)'
  <1>1. /\ e.s.inMap = session[c].inMap
        /\ \A t \in tasks[c] : t.k \in {"hangup", "cleanup"} => t \in tasks'[c]
        /\ \A t \in tasks'[c] : t.k \in {"cleanup", "settle"} => t \in tasks[c]
        /\ e.s.state = "TERMINATED" => session[c].state = "TERMINATED" \/ Closes(tasks'[c])
    BY DEF Carries, Engine
  <1>2. Closes(tasks[c]) => Closes(tasks'[c])
    BY <1>1 DEF Closes
  <1>3. /\ place'[c] \in {"idle", "refused", "reserved"} => prov'[c].chan = "none"
        /\ place'[c] \in {"dialled", "placed"} => prov'[c].chan # "none"
        /\ Heard(prov'[c].msgs) \/ Down(c)'
    BY DEF EndFits, LineMoves, Down
  <1>4. (moves'[c] > 0 \/ \E t \in tasks'[c] : t.k \in {"cleanup", "settle"})
           => Down(c)' \/ faults'.write > 0
    BY <1>1 DEF EndFits, LineMoves, Later
  <1>5. session'[c].inMap /\ session'[c].state = "TERMINATED"
           => Closes(tasks'[c]) \/ faults'.write > 0
    BY <1>1, <1>2 DEF EndFits, Later
  <1>6. (session'[c].inMap \/ place'[c] = "dialled") /\ Down(c)' /\ Heard(prov'[c].msgs)
           => \/ Closes(tasks'[c]) \/ prov'[c].missed
              \/ faults'.lost > 0 \/ faults'.write > 0
    BY <1>1, <1>2 DEF EndFits, LineMoves, Later
  <1>7. QED
    BY <1>3, <1>4, <1>5, <1>6 DEF EndFits, Down

\* Carrying a session through two handlers.
LEMMA CarriesOn ==
  ASSUME NEW e, NEW f, NEW g, Carries(e, f), Carries(f, g)
  PROVE  Carries(e, g)
  BY DEF Carries, Closes

\* The operators of the handlers end no session without a hang-up.
LEMMA CarriesOperators ==
  ASSUME NEW e \in EngineType
  PROVE  /\ Carries(e, e)
         /\ \A status, via : Carries(e, TerminateCall(e, status, via))
         /\ Carries(e, StartTurn(e))
         /\ \A t : t.k \notin {"cleanup", "settle"} => Carries(e, Await(e, t))
         /\ Carries(e, OnRinging(e))
         /\ Carries(e, OnAnswered(e))
         /\ Carries(e, OnPromptFinished(e))
  <1>0. e.s \in Session
    BY DEF EngineType
  <1>1. Carries(e, e)
    BY DEF Carries
  <1>2. ASSUME NEW status, NEW via PROVE Carries(e, TerminateCall(e, status, via))
    <2> DEFINE f == TerminateCall(e, status, via)
               t == [k |-> "hangup", n |-> e.s.ends, status |-> status, via |-> via]
    <2>1. CASE e.s.state = "TERMINATED"
      BY <1>1, <2>1 DEF TerminateCall
    <2>2. CASE e.s.state # "TERMINATED"
      <3>1. f.t = e.t \cup {t} /\ f.s.inMap = e.s.inMap /\ t.k = "hangup"
        BY <1>0, <2>2 DEF TerminateCall, Session
      <3>2. Carries(e, f)
        <4> HIDE DEF f, t
        <4>1. QED
          BY <3>1 DEF Carries, Closes
      <3>3. QED
        BY <3>2
    <2>3. QED
      BY <2>1, <2>2
  <1>3. Carries(e, StartTurn(e))
    <2> DEFINE f == StartTurn(e)
               t == [k |-> "turn", n |-> e.s.seq + 1]
    <2>1. /\ f.t = e.t \cup {t} /\ f.s.inMap = e.s.inMap /\ t.k = "turn"
          /\ f.s.state = "PROCESSING_TURN"
      BY <1>0 DEF StartTurn, Session
    <2>2. Carries(e, f)
      <3> HIDE DEF f, t
      <3>1. QED
        BY <2>1 DEF Carries
    <2>3. QED
      BY <2>2
  <1>4. ASSUME NEW t, t.k \notin {"cleanup", "settle"} PROVE Carries(e, Await(e, t))
    <2>1. Await(e, t).s = e.s /\ Await(e, t).t = e.t \cup {t}
      BY HandlerResults
    <2>2. QED
      BY <1>4, <2>1 DEF Carries
  <1>5. Carries(e, OnRinging(e))
    <2> DEFINE f == [e EXCEPT !.s.state = "RINGING"]
               t == [k |-> "ringing", n |-> IF e.s.answered THEN 1 ELSE 0]
    <2>1. f.t = e.t /\ f.s.inMap = e.s.inMap /\ f.s.state = "RINGING"
      BY <1>0 DEF EngineType, Session
    <2>2. f \in EngineType
      BY DEF EngineType, Session, LiveStates
    <2>3. t.k \notin {"cleanup", "settle"} /\ OnRinging(e) = Await(f, t)
      BY DEF OnRinging
    <2> HIDE DEF f, t
    <2>4. OnRinging(e).s = f.s /\ OnRinging(e).t = f.t \cup {t}
      BY <2>2, <2>3, HandlerResults
    <2>5. QED
      BY <2>1, <2>3, <2>4 DEF Carries
  <1>6. Carries(e, OnAnswered(e))
    <2> DEFINE f == [e EXCEPT !.s.state = "IN_PROGRESS", !.s.answered = TRUE]
               t == [k |-> "answered", n |-> 0]
    <2>1. f.t = e.t /\ f.s.inMap = e.s.inMap /\ f.s.state = "IN_PROGRESS"
      BY <1>0 DEF EngineType, Session
    <2>2. f \in EngineType
      BY DEF EngineType, Session, LiveStates
    <2>3. t.k \notin {"cleanup", "settle"} /\ OnAnswered(e) = Await(f, t)
      BY DEF OnAnswered
    <2> HIDE DEF f, t
    <2>4. OnAnswered(e).s = f.s /\ OnAnswered(e).t = f.t \cup {t}
      BY <2>2, <2>3, HandlerResults
    <2>5. QED
      BY <2>1, <2>3, <2>4 DEF Carries
  <1>7. Carries(e, OnPromptFinished(e))
    <2>1. CASE e.s.state = "TERMINATED"
      BY <1>1, <2>1 DEF OnPromptFinished
    <2>2. CASE e.s.state # "TERMINATED"
      <3> DEFINE f == OnPromptFinished(e)
      <3>1. f.t = e.t /\ f.s.inMap = e.s.inMap /\ f.s.state = "AWAITING_SPEECH"
        BY <1>0, <2>2 DEF OnPromptFinished, EngineType, Session
      <3>2. Carries(e, f)
        <4> HIDE DEF f
        <4>1. QED
          BY <3>1 DEF Carries
      <3>3. QED
        BY <3>2
    <2>3. QED
      BY <2>1, <2>2
  <1>8. QED
    BY <1>1, <1>2, <1>3, <1>4, <1>5, <1>6, <1>7

\* The fields a timer or a turn sets end no session.
LEMMA CarriesFields ==
  ASSUME NEW e \in EngineType
  PROVE  /\ Carries(e, ArmMaxTimer(e))
         /\ Carries(e, [e EXCEPT !.s.silence = FALSE])
         /\ Carries(e, [e EXCEPT !.s.max = FALSE])
         /\ Carries(e, [e EXCEPT !.s.state = "IN_PROGRESS"])
         /\ Carries(e, [e EXCEPT !.s.hangups = @ + 1])
         /\ Carries(e, [e EXCEPT !.s.hangups = @ - 1])
         /\ \A h : Carries(e, [e EXCEPT !.s.state = "IN_PROGRESS", !.s.hangups = @ + h])
  <1>0. e.s \in Session /\ e = [s |-> e.s, t |-> e.t]
    BY DEF EngineType
  <1>1. /\ ArmMaxTimer(e).t = e.t
        /\ ArmMaxTimer(e).s.inMap = e.s.inMap
        /\ ArmMaxTimer(e).s.state = e.s.state
    BY <1>0 DEF ArmMaxTimer, Session
  <1>2. LET f == [e EXCEPT !.s.silence = FALSE]
        IN f.t = e.t /\ f.s.inMap = e.s.inMap /\ f.s.state = e.s.state
    BY <1>0 DEF Session
  <1>3. LET f == [e EXCEPT !.s.max = FALSE]
        IN f.t = e.t /\ f.s.inMap = e.s.inMap /\ f.s.state = e.s.state
    BY <1>0 DEF Session
  <1>4. LET f == [e EXCEPT !.s.state = "IN_PROGRESS"]
        IN f.t = e.t /\ f.s.inMap = e.s.inMap /\ f.s.state # "TERMINATED"
    BY <1>0 DEF Session
  <1>5. LET f == [e EXCEPT !.s.hangups = @ + 1]
        IN f.t = e.t /\ f.s.inMap = e.s.inMap /\ f.s.state = e.s.state
    BY <1>0 DEF Session
  <1>6. LET f == [e EXCEPT !.s.hangups = @ - 1]
        IN f.t = e.t /\ f.s.inMap = e.s.inMap /\ f.s.state = e.s.state
    BY <1>0 DEF Session
  <1>7. ASSUME NEW f, f.t = e.t, f.s.inMap = e.s.inMap,
               f.s.state # "TERMINATED" \/ f.s.state = e.s.state
        PROVE  Carries(e, f)
    BY <1>7 DEF Carries
  <1>8. Carries(e, ArmMaxTimer(e))
    BY <1>1, <1>7
  <1>9. Carries(e, [e EXCEPT !.s.silence = FALSE])
    BY <1>2, <1>7
  <1>10. Carries(e, [e EXCEPT !.s.max = FALSE])
    BY <1>3, <1>7
  <1>11. Carries(e, [e EXCEPT !.s.state = "IN_PROGRESS"])
    BY <1>4, <1>7
  <1>12. Carries(e, [e EXCEPT !.s.hangups = @ + 1])
    BY <1>5, <1>7
  <1>13. Carries(e, [e EXCEPT !.s.hangups = @ - 1])
    BY <1>6, <1>7
  <1>14. ASSUME NEW h
         PROVE  Carries(e, [e EXCEPT !.s.state = "IN_PROGRESS", !.s.hangups = @ + h])
    <2> DEFINE f == [e EXCEPT !.s.state = "IN_PROGRESS", !.s.hangups = @ + h]
    <2>1. f.t = e.t /\ f.s.inMap = e.s.inMap /\ f.s.state # "TERMINATED"
      BY <1>0 DEF Session
    <2>2. Carries(e, f)
      <3> HIDE DEF f
      <3>1. QED
        BY <1>7, <2>1
    <2>3. QED
      BY <2>2
  <1>15. QED
    BY <1>8, <1>9, <1>10, <1>11, <1>12, <1>13, <1>14, Zenon

\* Resuming a continuation that ends nothing carries the session.
LEMMA CarriesResuming ==
  ASSUME NEW c \in Calls, NEW t, t.k \notin {"hangup", "cleanup"}
  PROVE  Carries(Engine(c), Resuming(c, t))
  BY DEF Carries, Engine, Resuming

\* The requests to the provider move the line as it may.
LEMMA LineFacts ==
  ASSUME TypeOK, NEW c \in Calls, EndFits(c)
  PROVE  /\ UNCHANGED prov => LineMoves(c)
         /\ prov' = Playing(c) => LineMoves(c)
         /\ \A p \in Dropped(c) : prov' = [prov EXCEPT ![c] = p] => LineMoves(c)
         /\ \A p \in Dropped(c) : prov[c].chan # "none" => p.chan = "down"
  <1>0. prov[c] \in Channel /\ prov \in [Calls -> Channel]
    BY DEF TypeOK
  <1>1. ASSUME prov'[c].chan = prov[c].chan, prov'[c].msgs = prov[c].msgs,
               prov'[c].missed = prov[c].missed
        PROVE  LineMoves(c)
    BY <1>1 DEF LineMoves, EndFits, Down
  <1>2. UNCHANGED prov => LineMoves(c)
    BY <1>1
  <1>3. ASSUME prov' = Playing(c) PROVE LineMoves(c)
    <2>1. /\ prov'[c].chan = prov[c].chan /\ prov'[c].msgs = prov[c].msgs
          /\ prov'[c].missed = prov[c].missed
      BY <1>0, <1>3 DEF Playing, Channel
    <2>2. QED
      BY <1>1, <2>1
  <1>4. ASSUME NEW p \in Dropped(c)
        PROVE  /\ prov' = [prov EXCEPT ![c] = p] => LineMoves(c)
               /\ prov[c].chan # "none" => p.chan = "down"
    <2>1. CASE prov[c].chan \in Connected
      <3>1. PICK m \in GoneMessages(prov[c].chan \notin {"dialing", "ringing"}) :
              p = [prov[c] EXCEPT !.chan = "down", !.playing = 0, !.msgs = @ \o m]
        BY <1>4, <2>1, Zenon DEF Dropped
      <3>2. m \in Seq(Message) /\ ~Heard(m)
        <4>1. {"GONE", "END", "NO_ANSWER", "BUSY", "FAILURE"} \subseteq Message
          BY DEF Message
        <4>2. \A b \in BOOLEAN : \A n \in GoneMessages(b) :
                \E x, y \in {"GONE", "END", "NO_ANSWER", "BUSY", "FAILURE"} :
                  n = <<x>> \/ n = <<x, y>>
          BY DEF GoneMessages
        <4>3. PICK x, y \in {"GONE", "END", "NO_ANSWER", "BUSY", "FAILURE"} :
                m = <<x>> \/ m = <<x, y>>
          BY <3>1, <4>2
        <4>4. x \in Message /\ y \in Message /\ x \in GoneWords /\ y \in GoneWords
          BY <4>1 DEF GoneWords
        <4>5. m \in Seq(Message)
          BY <4>3, <4>4, MessageSequences
        <4>6. ~Heard(m)
          BY <1>0, <4>3, <4>4, HeardFacts DEF Channel
        <4>7. QED
          BY <4>5, <4>6
      <3>3. prov[c].msgs \in Seq(Message) /\ prov[c].chan \notin {"none", "down"}
        BY <1>0, <2>1 DEF Channel, Connected
      <3>4. ~Heard(prov[c].msgs \o m)
        BY <3>2, <3>3, HeardFacts
      <3>5. /\ p.chan = "down" /\ p.msgs = prov[c].msgs \o m
            /\ p.missed = prov[c].missed
        BY <1>0, <3>1 DEF Channel
      <3>6. ASSUME prov' = [prov EXCEPT ![c] = p] PROVE LineMoves(c)
        <4>1. prov'[c] = p
          BY <1>0, <3>6
        <4>2. QED
          BY <3>3, <3>4, <3>5, <4>1 DEF LineMoves, Down
      <3>7. QED
        BY <3>5, <3>6
    <2>2. CASE prov[c].chan \notin Connected
      <3>1. p = prov[c] /\ prov[c].chan \in {"none", "down"}
        BY <1>0, <2>2 DEF Dropped, Channel
      <3>2. ASSUME prov' = [prov EXCEPT ![c] = p] PROVE LineMoves(c)
        <4>1. prov'[c] = prov[c]
          BY <1>0, <3>1, <3>2
        <4>2. QED
          BY <1>1, <4>1
      <3>3. QED
        BY <3>1, <3>2
    <2>3. QED
      BY <2>1, <2>2
  <1>5. QED
    BY <1>2, <1>3, <1>4

\* What each of those steps leaves alone.
LEMMA LineElsewhere ==
  ASSUME TypeOK, NEW c \in Calls,
         \/ UNCHANGED prov \/ prov' = Playing(c) \/ prov' = Consumed(c)
         \/ \E p : prov' = [prov EXCEPT ![c] = p]
  PROVE  \A d \in Calls \ {c} : prov'[d] = prov[d]
  BY DEF TypeOK, Playing, Consumed

\* The failures counted by a step.
LEMMA LaterFacts ==
  ASSUME TypeOK
  PROVE  /\ UNCHANGED faults => Later
         /\ faults' = [faults EXCEPT !.write = @ + 1] => Later /\ faults'.write > 0
         /\ faults' = [faults EXCEPT !.lost = @ + 1] => Later /\ faults'.lost > 0
         /\ faults' = [faults EXCEPT !.crash = @ + 1] => Later
         /\ faults' = [faults EXCEPT !.write = @ + 1, !.crash = @ + 1] => Later
  <1>1. faults \in [write: Nat, lost: Nat, crash: Nat]
    BY DEF TypeOK
  <1>2. ASSUME faults' = [faults EXCEPT !.write = @ + 1]
        PROVE  Later /\ faults'.write > 0
    BY <1>1, <1>2 DEF Later
  <1>3. ASSUME faults' = [faults EXCEPT !.lost = @ + 1]
        PROVE  Later /\ faults'.lost > 0
    BY <1>1, <1>3 DEF Later
  <1>4. ASSUME faults' = [faults EXCEPT !.crash = @ + 1] PROVE Later
    BY <1>1, <1>4 DEF Later
  <1>5. ASSUME faults' = [faults EXCEPT !.write = @ + 1, !.crash = @ + 1] PROVE Later
    <2>1. faults'.write = faults.write + 1 /\ faults'.lost = faults.lost
      BY <1>1, <1>5
    <2>2. QED
      BY <1>1, <2>1 DEF Later
  <1>6. UNCHANGED faults => Later
    BY DEF Later
  <1>7. QED
    BY <1>2, <1>3, <1>4, <1>5, <1>6

\* A handler that ends no session keeps every call fit.
LEMMA CarriesStep ==
  ASSUME TypeOK, EndsFit, NEW c \in Calls, NEW e, Becomes(c, e),
         Carries(Engine(c), e), LineMoves(c),
         \/ UNCHANGED prov \/ prov' = Playing(c) \/ prov' = Consumed(c)
         \/ \E p : prov' = [prov EXCEPT ![c] = p],
         UNCHANGED <<place, moves>>, Later
  PROVE  EndsFit'
  <1>1. EndFits(c)'
    BY BecomesParts, CarriesFits DEF EndsFit
  <1>2. Elsewhere(c)
    BY BecomesParts, LineElsewhere DEF Elsewhere
  <1>3. QED
    BY <1>1, <1>2, ElsewhereFits

\* So does a step of the line alone.
LEMMA LineStep ==
  ASSUME TypeOK, EndsFit, NEW c \in Calls, LineMoves(c),
         UNCHANGED prov \/ \E p : prov' = [prov EXCEPT ![c] = p],
         UNCHANGED <<place, moves, session, tasks>>, Later
  PROVE  EndsFit'
  <1>1. EndFits(c)'
    <2>1. Carries(Engine(c), Engine(c)) /\ Engine(c).s = session[c] /\ Engine(c).t = tasks[c]
      BY DEF Carries, Engine
    <2>2. QED
      BY <2>1, CarriesFits DEF EndsFit
  <1>2. Elsewhere(c)
    BY LineElsewhere DEF Elsewhere
  <1>3. QED
    BY <1>1, <1>2, ElsewhereFits

\* The routes keep every call fit.
LEMMA EndsRoute ==
  ASSUME TypeOK, EndedOnce, EndsFit, NEW c \in Calls, Route(c)
  PROVE  EndsFit'
  <1>0. /\ EndFits(c)
        /\ place \in [Calls -> {"idle", "refused", "reserved", "dialled", "placed",
                                "failed", "lost"}]
        /\ prov \in [Calls -> Channel] /\ prov[c] \in Channel
        /\ session \in [Calls -> Session]
        /\ place[c] # "placed" => ~session[c].inMap /\ moves[c] = 0 /\ tasks[c] = {}
    BY DEF EndsFit, TypeOK, EndedOnce, NoSession
  <1>1. CASE Reserve(c) \/ Refuse(c) \/ CreateFails(c) \/ DialError(c)
    <2>1. /\ UNCHANGED <<prov, session, tasks, moves>>
          /\ \A d \in Calls \ {c} : place'[d] = place[d]
          /\ \/ place[c] = "idle" /\ place'[c] \in {"reserved", "refused"}
             \/ place[c] \in {"reserved", "dialled"} /\ place'[c] \in {"lost", "failed"}
      BY <1>0, <1>1 DEF Reserve, Refuse, CreateFails, DialError, NoFault
    <2>2. Later
      BY <1>1, LaterFacts DEF Reserve, Refuse, CreateFails, DialError, NoFault
    <2>3. EndFits(c)'
      BY <1>0, <2>1, <2>2 DEF EndFits, Down, Later
    <2>4. Elsewhere(c)
      BY <2>1 DEF Elsewhere
    <2>5. QED
      BY <2>2, <2>3, <2>4, ElsewhereFits
  <1>2. CASE Dial(c)
    <2>1. /\ UNCHANGED <<session, tasks, moves>> /\ place[c] = "reserved"
          /\ place'[c] = "dialled" /\ prov'[c].chan = "dialing"
          /\ prov'[c].msgs = prov[c].msgs
          /\ \A d \in Calls \ {c} : place'[d] = place[d] /\ prov'[d] = prov[d]
      BY <1>0, <1>2 DEF Dial, Channel
    <2>2. Later
      BY <1>2, LaterFacts DEF Dial, NoFault
    <2>3. EndFits(c)'
      BY <1>0, <2>1, <2>2 DEF EndFits, Down, Later
    <2>4. Elsewhere(c)
      BY <2>1 DEF Elsewhere
    <2>5. QED
      BY <2>2, <2>3, <2>4, ElsewhereFits
  <1>3. CASE RegisterCall(c)
    <2>1. /\ UNCHANGED <<prov, tasks, moves>> /\ place[c] = "dialled"
          /\ place'[c] = "placed" /\ session'[c].state = "DIALING"
          /\ \A d \in Calls \ {c} : place'[d] = place[d] /\ session'[d] = session[d]
      BY <1>0, <1>3 DEF RegisterCall, NoSession
    <2>2. Later
      BY <1>3, LaterFacts DEF RegisterCall, NoFault
    <2>3. EndFits(c)'
      BY <1>0, <2>1, <2>2 DEF EndFits, Down, Later
    <2>4. Elsewhere(c)
      BY <2>1 DEF Elsewhere
    <2>5. QED
      BY <2>2, <2>3, <2>4, ElsewhereFits
  <1>4. CASE CancelRequest(c)
    <2>1. LineMoves(c)
      BY <1>0, <1>4, LineFacts DEF CancelRequest
    <2>2. Later
      BY <1>4, LaterFacts DEF CancelRequest, NoFault
    <2>3. QED
      BY <1>4, <2>1, <2>2, LineStep DEF CancelRequest
  <1>5. CASE CancelWrite(c)
    <2>1. Later
      BY <1>5, LaterFacts DEF CancelWrite, NoFault
    <2>2. QED
      BY <1>0, <1>5, <2>1, LineFacts, LineStep DEF CancelWrite
  <1>6. QED
    BY <1>1, <1>2, <1>3, <1>4, <1>5 DEF Route

\* What the provider does keeps every call fit.
LEMMA EndsTelephony ==
  ASSUME TypeOK, EndsFit, NEW c \in Calls, Telephony(c)
  PROVE  EndsFit'
  <1>0. /\ EndFits(c) /\ prov \in [Calls -> Channel] /\ prov[c] \in Channel
        /\ prov[c].msgs \in Seq(Message)
    BY DEF EndsFit, TypeOK, Channel
  <1>1. ASSUME NEW p, prov' = [prov EXCEPT ![c] = p], p.missed = prov[c].missed,
               p.chan \notin {"none", "down"}, Heard(p.msgs) <=> Heard(prov[c].msgs),
               prov[c].chan \notin {"none", "down"}, EngineUntouched
        PROVE  EndsFit'
    <2>1. prov'[c] = p
      BY <1>0, <1>1
    <2>2. Heard(prov[c].msgs)
      BY <1>0, <1>1 DEF EndFits, Down
    <2>3. LineMoves(c)
      BY <1>1, <2>1, <2>2 DEF LineMoves, Down
    <2>4. Later
      BY <1>1, LaterFacts DEF EngineUntouched, NoFault
    <2>5. QED
      BY <1>1, <2>3, <2>4, LineStep DEF EngineUntouched
  <1>2. CASE Ring(c)
    <2> DEFINE p == [prov[c] EXCEPT !.chan = "ringing", !.msgs = Append(@, "RINGING")]
    <2>1. prov' = [prov EXCEPT ![c] = p]
      BY <1>0, <1>2 DEF Ring
    <2>2. /\ p.missed = prov[c].missed /\ p.chan = "ringing"
          /\ p.msgs = Append(prov[c].msgs, "RINGING")
      BY <1>0 DEF Channel
    <2>3. Heard(p.msgs) <=> Heard(prov[c].msgs)
      BY <1>0, <2>2, HeardFacts DEF Message, GoneWords
    <2>4. prov[c].chan = "dialing" /\ EngineUntouched
      BY <1>2 DEF Ring
    <2> HIDE DEF p
    <2>5. QED
      BY <1>1, <2>1, <2>2, <2>3, <2>4
  <1>3. CASE Answer(c)
    <2> DEFINE m == IF provider = "asterisk" THEN <<"UP", "STASIS">> ELSE <<"UP">>
               p == [prov[c] EXCEPT !.chan = "up", !.msgs = @ \o m]
    <2>1. prov' = [prov EXCEPT ![c] = p]
      BY <1>0, <1>3 DEF Answer
    <2>2. /\ p.missed = prov[c].missed /\ p.chan = "up"
          /\ p.msgs = prov[c].msgs \o m
      BY <1>0 DEF Channel
    <2>3. m \in Seq(Message) /\ Heard(m)
      <3>1. /\ "UP" \in Message /\ "STASIS" \in Message
            /\ "UP" \notin GoneWords /\ "STASIS" \notin GoneWords
        BY DEF Message, GoneWords
      <3>2. /\ <<"UP", "STASIS">> \in Seq(Message) /\ Heard(<<"UP", "STASIS">>)
            /\ <<"UP">> \in Seq(Message) /\ Heard(<<"UP">>)
        BY <1>0, <3>1, MessageSequences, HeardFacts
      <3>3. QED
        BY <3>2
    <2>4. Heard(p.msgs) <=> Heard(prov[c].msgs)
      <3> HIDE DEF m
      <3>1. QED
        BY <1>0, <2>2, <2>3, HeardFacts
    <2>5. prov[c].chan \in {"dialing", "ringing"} /\ EngineUntouched
      BY <1>3 DEF Answer
    <2> HIDE DEF p
    <2>6. QED
      BY <1>1, <2>1, <2>2, <2>4, <2>5
  <1>4. CASE RemoteHangup(c)
    <2>1. LineMoves(c)
      BY <1>0, <1>4, LineFacts DEF RemoteHangup
    <2>2. Later
      BY <1>4, LaterFacts DEF RemoteHangup, EngineUntouched, NoFault
    <2>3. QED
      BY <1>4, <2>1, <2>2, LineStep DEF RemoteHangup, EngineUntouched
  <1>5. CASE PromptPlayed(c)
    <2> DEFINE p == [prov[c] EXCEPT !.playing = @ - 1, !.msgs = Append(@, "PLAYED")]
    <2>1. prov' = [prov EXCEPT ![c] = p]
      BY <1>0, <1>5 DEF PromptPlayed
    <2>2. /\ p.missed = prov[c].missed /\ p.chan = prov[c].chan
          /\ p.msgs = Append(prov[c].msgs, "PLAYED")
      BY <1>0 DEF Channel
    <2>3. Heard(p.msgs) <=> Heard(prov[c].msgs)
      BY <1>0, <2>2, HeardFacts DEF Message, GoneWords
    <2>4. prov[c].chan = "up" /\ EngineUntouched
      BY <1>5 DEF PromptPlayed, Up
    <2> HIDE DEF p
    <2>5. QED
      BY <1>1, <2>1, <2>2, <2>3, <2>4
  <1>6. CASE Tick(c)
    <2>1. Later
      BY <1>6, LaterFacts DEF Tick, EngineUntouched, NoFault
    <2>2. QED
      BY <1>0, <1>6, <2>1, LineFacts, LineStep DEF Tick, EngineUntouched
  <1>7. CASE LoseEvent(c)
    <2>1. /\ UNCHANGED <<place, session, tasks, moves>>
          /\ prov'[c].chan = prov[c].chan /\ prov'[c].msgs = Tail(prov[c].msgs)
          /\ \A d \in Calls \ {c} : prov'[d] = prov[d]
          /\ prov[c].msgs # <<>>
      BY <1>0, <1>7 DEF LoseEvent, Channel
    <2>2. Later /\ faults'.lost > 0
      BY <1>7, LaterFacts DEF LoseEvent
    <2>3. Heard(prov[c].msgs) => Heard(Tail(prov[c].msgs))
      BY <1>0, <2>1, HeardFacts
    <2>4. EndFits(c)'
      BY <1>0, <2>1, <2>2, <2>3 DEF EndFits, Down, Later
    <2>5. Elsewhere(c)
      BY <2>1 DEF Elsewhere
    <2>6. QED
      BY <2>2, <2>4, <2>5, ElsewhereFits
  <1>8. QED
    BY <1>2, <1>3, <1>4, <1>5, <1>6, <1>7 DEF Telephony

\* The memory of the process: nothing is left that could be stranded.
LEMMA EndsMemoryIsLost ==
  ASSUME TypeOK, EndsFit, MemoryIsLost, Later
  PROVE  EndsFit'
  <1>1. ASSUME NEW c \in Calls PROVE EndFits(c)'
    <2>1. /\ session'[c] = NoSession /\ tasks'[c] = {} /\ moves'[c] = moves[c]
          /\ prov'[c].chan = prov[c].chan /\ prov'[c].msgs = prov[c].msgs
          /\ place'[c] = place[c] \/ place'[c] = "lost"
          /\ place'[c] # "dialled"
      BY DEF MemoryIsLost, TypeOK, Channel
    <2>2. EndFits(c) /\ ~NoSession.inMap
      BY DEF EndsFit, NoSession
    <2>3. QED
      BY <2>1, <2>2 DEF EndFits, Down, Later
  <1>2. QED
    BY <1>1 DEF EndsFit

\* A message that ends no call, and one that does.
LEMMA EventKinds ==
  ASSUME NEW p, NEW m \in Message
  PROVE  /\ m \in GoneWords => EventOf(p, m) \in {"CALL_ENDED", "CALL_FAILED"}
         /\ m \notin GoneWords =>
              EventOf(p, m) \in {"CALL_RINGING", "CALL_ANSWERED", "PROMPT_FINISHED"}
  BY DEF EventOf, Message, GoneWords

\* cleanupSession up to its await: a clean-up is under way.
LEMMA CleanupBegins ==
  ASSUME NEW e \in EngineType, NEW status, NEW secs, NEW via
  PROVE  LET f == CleanupSession(e, status, secs, via)
         IN f.s.inMap = e.s.inMap /\ Closes(f.t)
  <1> DEFINE f == CleanupSession(e, status, secs, via)
             t == [k |-> "cleanup", n |-> e.s.ends, status |-> status,
                   secs |-> secs, via |-> via]
  <1>1. f.t = e.t \cup {t} /\ f.s.inMap = e.s.inMap /\ t.k = "cleanup"
    BY DEF CleanupSession, EngineType, Session
  <1>2. t \in f.t
    BY <1>1
  <1>3. Closes(f.t)
    BY <1>1, <1>2, Zenon DEF Closes
  <1>4. QED
    BY <1>1, <1>3

\* An event of the provider: a channel that is reported gone starts the clean-up
\* of its session, unless its end had begun.
LEMMA EndsEvent ==
  ASSUME TypeOK, EndedOnce, EndsFit, NEW c \in Calls, HandleEvent(c)
  PROVE  EndsFit'
  <1> DEFINE m == Head(prov[c].msgs)
             e == Engine(c)
  <1>0. /\ EndFits(c) /\ prov \in [Calls -> Channel] /\ prov[c] \in Channel
        /\ prov[c].msgs \in Seq(Message) /\ prov[c].msgs # <<>> /\ m \in Message
        /\ e \in EngineType /\ e.s = session[c] /\ e.t = tasks[c]
    BY EngineParts DEF EndsFit, TypeOK, Channel, HandleEvent, Engine
  <1>1. /\ prov' = Consumed(c)
        /\ prov'[c].chan = prov[c].chan /\ prov'[c].msgs = Tail(prov[c].msgs)
        /\ prov'[c].missed = (prov[c].missed \/ place[c] = "dialled")
        /\ UNCHANGED <<place, moves, faults>>
    <2>1. prov' = Consumed(c) /\ UNCHANGED <<place, moves, faults>>
      BY DEF HandleEvent
    <2>2. QED
      BY <1>0, <2>1 DEF Consumed, Channel
  <1>2. Heard(prov[c].msgs) <=> m \notin GoneWords /\ Heard(prov'[c].msgs)
    BY <1>0, <1>1, HeardFacts
  <1>3. Later
    BY <1>1, LaterFacts
  <1>4. \A d \in Calls \ {c} : prov'[d] = prov[d]
    BY <1>1, LineElsewhere
  <1>5. CASE ~session[c].inMap
    <2>1. UNCHANGED <<session, tasks>>
      BY <1>5 DEF HandleEvent
    <2>2. EndFits(c)'
      BY <1>0, <1>1, <1>2, <1>5, <2>1 DEF EndFits, Down
    <2>3. Elsewhere(c)
      BY <1>1, <1>4, <2>1 DEF Elsewhere
    <2>4. QED
      BY <1>3, <2>2, <2>3, ElsewhereFits
  <1>6. CASE session[c].inMap
    <2>1. Becomes(c, Handle(e, m, c)) /\ place[c] = "placed"
      BY <1>6, SessionExists DEF HandleEvent
    <2>2. /\ session'[c] = Handle(e, m, c).s /\ tasks'[c] = Handle(e, m, c).t
          /\ \A d \in Calls \ {c} : session'[d] = session[d] /\ tasks'[d] = tasks[d]
      BY <2>1, BecomesParts
    <2>3. Elsewhere(c)
      BY <1>1, <1>4, <2>2 DEF Elsewhere
    <2>4. CASE m \notin GoneWords
      <3>1. Carries(e, Handle(e, m, c))
        <4>1. EventOf(prov[c], m) \in {"CALL_RINGING", "CALL_ANSWERED", "PROMPT_FINISHED"}
          BY <1>0, <2>4, EventKinds
        <4>2. Handle(e, m, c) \in {OnRinging(e), OnAnswered(e), OnPromptFinished(e)}
          BY <4>1 DEF Handle
        <4>3. QED
          BY <1>0, <4>2, CarriesOperators
      <3>2. prov[c].missed \in BOOLEAN /\ prov'[c].missed = prov[c].missed
        BY <1>0, <1>1, <2>1 DEF Channel
      <3>3. LineMoves(c)
        BY <1>0, <1>1, <1>2, <2>4, <3>2 DEF LineMoves, EndFits, Down
      <3>4. QED
        BY <1>1, <1>3, <2>1, <3>1, <3>3, CarriesStep
    <2>5. CASE m \in GoneWords
      <3>1. Down(c)
        BY <1>0, <1>2, <2>5 DEF EndFits
      <3>2. \/ session[c].state = "TERMINATED" /\ Handle(e, m, c) = e
            \/ Closes(Handle(e, m, c).t)
        <4>1. EventOf(prov[c], m) \in {"CALL_ENDED", "CALL_FAILED"}
          BY <1>0, <2>5, EventKinds
        <4>2. Handle(e, m, c) \in {OnCallEnded(e, m, c), OnCallFailed(e)}
          BY <4>1 DEF Handle
        <4>3. \/ session[c].state = "TERMINATED" /\ OnCallEnded(e, m, c) = e
              \/ Closes(OnCallEnded(e, m, c).t)
          BY <1>0, CleanupBegins DEF OnCallEnded
        <4>4. Closes(OnCallFailed(e).t)
          BY <1>0, CleanupBegins DEF OnCallFailed
        <4>5. QED
          BY <4>2, <4>3, <4>4
      <3>3. Closes(tasks'[c]) \/ faults.write > 0
        BY <1>0, <1>6, <2>2, <3>2 DEF EndFits
      <3>4. EndFits(c)'
        BY <1>0, <1>1, <2>1, <3>1, <3>3 DEF EndFits, Down
      <3>5. QED
        BY <1>3, <2>3, <3>4, ElsewhereFits
    <2>6. QED
      BY <2>4, <2>5
  <1>7. QED
    BY <1>5, <1>6

\* The steps of the event handlers and turns keep every call fit.
LEMMA EndsHandlers ==
  ASSUME TypeOK, EndedOnce, EndsFit, NEW c \in Calls, Handlers(c)
  PROVE  EndsFit'
  <1>0. /\ EndFits(c) /\ Engine(c) \in EngineType
        /\ \A t : Resuming(c, t) \in EngineType
        /\ prov \in [Calls -> Channel] /\ prov[c] \in Channel
    BY EngineParts DEF EndsFit, TypeOK
  <1>1. ASSUME NEW t, t.k \notin {"hangup", "cleanup"}
        PROVE  /\ Carries(Engine(c), Resuming(c, t))
               /\ \A f : Carries(Resuming(c, t), f) => Carries(Engine(c), f)
    BY <1>1, CarriesResuming, CarriesOn
  <1>2. ASSUME NEW kind, NEW t \in TasksOf(c, kind) PROVE t.k = kind
    BY DEF TasksOf
  <1>3. ASSUME Crash PROVE EndsFit'
    <2>1. Later
      BY <1>3, LaterFacts DEF Crash
    <2>2. QED
      BY <1>3, <2>1, EndsMemoryIsLost DEF Crash
  <1>4. CASE HandleEvent(c)
    BY <1>4, EndsEvent
  <1>5. CASE RingingWritten(c)
    <2>1. PICK t \in TasksOf(c, "ringing") : RingingWritten(c)!(t)
      BY <1>5 DEF RingingWritten
    <2>2. Carries(Engine(c), Resuming(c, t))
      BY <1>1, <1>2
    <2>3. Later
      BY <2>1, LaterFacts DEF Kept, NoFault
    <2>4. QED
      BY <1>0, <2>1, <2>2, <2>3, LineFacts, CarriesStep DEF Kept
  <1>6. CASE AnsweredWritten(c)
    <2>1. PICK t \in TasksOf(c, "answered") : AnsweredWritten(c)!(t)
      BY <1>6 DEF AnsweredWritten
    <2> DEFINE e == ArmMaxTimer(Resuming(c, t))
    <2>2. Carries(Engine(c), e) /\ Carries(Engine(c), TerminateCall(e, "FAILED", "event"))
      <3>1. Resuming(c, t) \in EngineType /\ e \in EngineType
        BY <1>0, SessionFieldTypes, Zenon
      <3>2. Carries(Resuming(c, t), e) /\ Carries(e, TerminateCall(e, "FAILED", "event"))
        BY <3>1, CarriesFields, CarriesOperators, Zenon
      <3>3. Carries(Engine(c), Resuming(c, t))
        BY <1>1, <1>2
      <3> HIDE DEF e
      <3>4. QED
        BY <3>2, <3>3, CarriesOn
    <2>3. Becomes(c, e) \/ Becomes(c, TerminateCall(e, "FAILED", "event"))
      BY <2>1
    <2>4. Later
      BY <2>1, LaterFacts DEF Kept, NoFault
    <2>5. prov' = Playing(c) /\ UNCHANGED <<place, moves>>
      BY <2>1 DEF Kept
    <2>6. LineMoves(c)
      BY <1>0, <2>5, LineFacts
    <2> HIDE DEF e
    <2>7. QED
      BY <2>2, <2>3, <2>4, <2>5, <2>6, CarriesStep
  <1>7. CASE EventWriteFails(c)
    <2>1. PICK t \in TasksOf(c, "ringing") \cup TasksOf(c, "answered") :
            EventWriteFails(c)!(t)
      BY <1>7 DEF EventWriteFails
    <2> DEFINE e == TerminateCall(Resuming(c, t), "FAILED", "event")
    <2>2. Carries(Engine(c), e)
      BY <1>0, <1>1, <1>2, CarriesOperators
    <2>3. Later
      BY <2>1, LaterFacts
    <2>4. QED
      BY <1>0, <2>1, <2>2, <2>3, LineFacts, CarriesStep
  <1>8. CASE SpeechEnds(c)
    <2>1. Carries(Engine(c), StartTurn(Engine(c)))
      BY <1>0, CarriesOperators
    <2>2. Later
      BY <1>8, LaterFacts DEF SpeechEnds, Kept, NoFault
    <2>3. QED
      BY <1>0, <1>8, <2>1, <2>2, LineFacts, CarriesStep DEF SpeechEnds, Kept
  <1>9. CASE TurnReplies(c)
    <2>1. PICK t \in TasksOf(c, "turn") : TurnReplies(c)!(t)
      BY <1>9 DEF TurnReplies
    <2> DEFINE e == Await(Resuming(c, t), [k |-> "reply", n |-> t.n])
    <2>2. Carries(Engine(c), e)
      BY <1>0, <1>1, <1>2, CarriesOperators
    <2>3. Later
      BY <2>1, LaterFacts DEF Kept, NoFault
    <2>4. QED
      BY <1>0, <2>1, <2>2, <2>3, LineFacts, CarriesStep DEF Kept
  <1>10. CASE TurnFails(c)
    <2>1. CASE Crash
      BY <1>3, <2>1
    <2>2. CASE ~Crash
      <3>1. PICK t \in TurnTasks(c) :
              /\ Becomes(c, Resuming(c, t)) /\ prov' = Playing(c) /\ Kept
        BY <1>10, <2>2 DEF TurnFails
      <3>2. Carries(Engine(c), Resuming(c, t))
        BY <1>1 DEF TurnTasks
      <3>3. Later
        BY <3>1, LaterFacts DEF Kept, NoFault
      <3>4. QED
        BY <1>0, <3>1, <3>2, <3>3, LineFacts, CarriesStep DEF Kept
    <2>3. QED
      BY <2>1, <2>2
  <1>11. CASE TurnActs(c)
    <2>1. PICK t \in TasksOf(c, "reply") : TurnActs(c)!(t)
      BY <1>11, Zenon DEF TurnActs
    <2>2. PICK e : Becomes(c, e) /\ Carries(Resuming(c, t), e)
      <3>1. \A k \in {"optOut", "escalate", "capture"} :
              Carries(Resuming(c, t), Await(Resuming(c, t), [k |-> k, n |-> t.n]))
        BY <1>0, CarriesOperators
      <3>2. \A h : Carries(Resuming(c, t),
                           [Resuming(c, t) EXCEPT !.s.state = "IN_PROGRESS",
                                                  !.s.hangups = @ + h])
        BY <1>0, CarriesFields, Zenon
      <3>3. QED
        BY <2>1, <3>1, <3>2, Zenon
    <2>3. Carries(Engine(c), e)
      BY <1>1, <1>2, <2>2
    <2>4. Later /\ LineMoves(c)
      BY <1>0, <2>1, LaterFacts, LineFacts
    <2>5. QED
      BY <2>1, <2>2, <2>3, <2>4, CarriesStep
  <1>12. CASE OptOutStored(c)
    <2>1. PICK t \in TasksOf(c, "optOut") : OptOutStored(c)!(t)
      BY <1>12 DEF OptOutStored
    <2> DEFINE e == TerminateCall(Resuming(c, t), "COMPLETED", "turn")
    <2>2. Carries(Engine(c), e)
      BY <1>0, <1>1, <1>2, CarriesOperators
    <2>3. Later
      BY <2>1, LaterFacts DEF Kept, NoFault
    <2>4. QED
      BY <1>0, <2>1, <2>2, <2>3, LineFacts, CarriesStep DEF Kept
  <1>13. CASE Escalate(c)
    <2>1. PICK t \in TasksOf(c, "escalate") : Escalate(c)!(t)
      BY <1>13 DEF Escalate
    <2> DEFINE e == TerminateCall(Resuming(c, t), "ESCALATED", "turn")
               p == [prov[c] EXCEPT !.chan = "transferred", !.playing = 0]
    <2>2. Carries(Engine(c), e)
      BY <1>0, <1>1, <1>2, CarriesOperators
    <2>3. Later
      BY <2>1, LaterFacts DEF Kept, NoFault
    <2>4. \/ UNCHANGED prov
          \/ prov[c].chan = "up" /\ prov' = [prov EXCEPT ![c] = p]
      BY <1>0, <2>1 DEF Up
    <2>5. LineMoves(c)
      <3>1. CASE UNCHANGED prov
        BY <1>0, <3>1, LineFacts
      <3>2. CASE prov[c].chan = "up" /\ prov' = [prov EXCEPT ![c] = p]
        <4>1. /\ prov'[c].chan = "transferred" /\ prov'[c].msgs = prov[c].msgs
              /\ prov'[c].missed = prov[c].missed
          BY <1>0, <3>2 DEF Channel
        <4>2. QED
          BY <1>0, <3>2, <4>1 DEF LineMoves, EndFits, Down
      <3>3. QED
        BY <2>4, <3>1, <3>2
    <2>6. Becomes(c, e) /\ UNCHANGED <<place, moves>>
      BY <2>1 DEF Kept
    <2> HIDE DEF e, p
    <2>7. QED
      BY <2>2, <2>3, <2>4, <2>5, <2>6, CarriesStep
  <1>14. CASE CaptureStored(c)
    <2>1. PICK t \in TasksOf(c, "capture") : CaptureStored(c)!(t)
      BY <1>14 DEF CaptureStored
    <2> DEFINE e == [Resuming(c, t) EXCEPT !.s.state = "IN_PROGRESS"]
    <2>2. Carries(Engine(c), e)
      <3>1. Carries(Resuming(c, t), e)
        BY <1>0, CarriesFields, Zenon
      <3>2. QED
        BY <1>1, <1>2, <3>1
    <2>3. Later
      BY <2>1, LaterFacts
    <2>4. QED
      BY <1>0, <2>1, <2>2, <2>3, LineFacts, CarriesStep
  <1>15. QED
    BY <1>4, <1>5, <1>6, <1>7, <1>8, <1>9, <1>10, <1>11, <1>12, <1>13, <1>14
    DEF Handlers

\* The timers and the stages of an end keep every call fit.
LEMMA EndsEndings ==
  ASSUME TypeOK, EndedOnce, EndsFit, NEW c \in Calls, Endings(c)
  PROVE  EndsFit'
  <1>0. /\ EndFits(c) /\ Engine(c) \in EngineType
        /\ Engine(c).s = session[c] /\ Engine(c).t = tasks[c]
        /\ \A t : Resuming(c, t) \in EngineType
        /\ \A t : Resuming(c, t).s = session[c] /\ Resuming(c, t).t = tasks[c] \ {t}
        /\ prov \in [Calls -> Channel] /\ prov[c] \in Channel
    BY EngineParts DEF EndsFit, TypeOK, Engine, Resuming
  <1>1. ASSUME NEW kind, NEW t \in TasksOf(c, kind)
        PROVE  t.k = kind /\ t \in tasks[c] /\ place[c] = "placed"
    BY SessionExists DEF TasksOf
  <1>2. ASSUME Crash PROVE EndsFit'
    <2>1. Later
      BY <1>2, LaterFacts DEF Crash
    <2>2. QED
      BY <1>2, <2>1, EndsMemoryIsLost DEF Crash
  <1>3. ASSUME NEW e, Becomes(c, e), Carries(Engine(c), e),
               UNCHANGED prov \/ prov' = Playing(c), Kept
        PROVE  EndsFit'
    <2>1. Later /\ LineMoves(c) /\ UNCHANGED <<place, moves>>
      BY <1>0, <1>3, LaterFacts, LineFacts DEF Kept, NoFault
    <2>2. QED
      BY <1>3, <2>1, CarriesStep
  <1>4. CASE SilenceTimer(c)
    <2> DEFINE e == [Engine(c) EXCEPT !.s.silence = FALSE]
    <2>1. e \in EngineType /\ Carries(Engine(c), e)
      BY <1>0, SessionFieldTypes, CarriesFields, Zenon
    <2>2. Carries(Engine(c), StartTurn(e))
      <3> HIDE DEF e
      <3>1. QED
        BY <2>1, CarriesOperators, CarriesOn
    <2>3. \/ Crash
          \/ /\ Becomes(c, e) \/ Becomes(c, StartTurn(e))
             /\ UNCHANGED prov \/ prov' = Playing(c)
             /\ Kept
      BY <1>4 DEF SilenceTimer
    <2> HIDE DEF e
    <2>4. QED
      BY <1>2, <1>3, <2>1, <2>2, <2>3
  <1>5. CASE MaxTimer(c)
    <2> DEFINE e == [Engine(c) EXCEPT !.s.max = FALSE]
               f == [e EXCEPT !.s.hangups = @ + 1]
    <2>1. e \in EngineType /\ Carries(Engine(c), e)
      BY <1>0, SessionFieldTypes, CarriesFields, Zenon
    <2>2. Carries(Engine(c), f)
      <3> HIDE DEF e
      <3>1. Carries(e, f)
        BY <2>1, CarriesFields, Zenon
      <3>2. QED
        BY <2>1, <3>1, CarriesOn
    <2>3. \/ Crash
          \/ /\ Becomes(c, e) \/ Becomes(c, f)
             /\ UNCHANGED prov \/ prov' = Playing(c)
             /\ Kept
      BY <1>5 DEF MaxTimer
    <2> HIDE DEF e, f
    <2>4. QED
      BY <1>2, <1>3, <2>1, <2>2, <2>3
  <1>6. CASE HangupTimer(c)
    <2> DEFINE e == [Engine(c) EXCEPT !.s.hangups = @ - 1]
    <2>1. e \in EngineType /\ Carries(Engine(c), e)
      <3>1. Engine(c).s.hangups > 0
        BY <1>0, <1>6 DEF HangupTimer
      <3>2. QED
        BY <1>0, <3>1, SessionFieldTypes, CarriesFields, Zenon
    <2>2. Carries(Engine(c), TerminateCall(e, "COMPLETED", "timer"))
      <3> HIDE DEF e
      <3>1. QED
        BY <2>1, CarriesOperators, CarriesOn
    <2>3. Becomes(c, TerminateCall(e, "COMPLETED", "timer")) /\ UNCHANGED prov /\ Kept
      BY <1>6 DEF HangupTimer
    <2> HIDE DEF e
    <2>4. QED
      BY <1>3, <2>2, <2>3
  <1>7. CASE HungUp(c)
    <2>1. PICK t \in TasksOf(c, "hangup") : HungUp(c)!(t)
      BY <1>7 DEF HungUp
    <2> DEFINE e == CleanupSession(Resuming(c, t), t.status,
                                   DurationOf(session[c], c), t.via)
    <2>2. session'[c] = e.s /\ tasks'[c] = e.t /\ e.s.inMap = session[c].inMap /\ Closes(e.t)
      BY <1>0, <2>1, BecomesParts, CleanupBegins
    <2>3. \A d \in Calls \ {c} : session'[d] = session[d] /\ tasks'[d] = tasks[d]
      BY <2>1, BecomesParts
    <2> HIDE DEF e
    <2>4. place'[c] = "placed" /\ UNCHANGED <<place, moves>> /\ prov[c].chan # "none"
      BY <1>0, <1>1, <2>1 DEF EndFits
    <2>5. Later /\ LineMoves(c) /\ (Down(c)' \/ faults'.write > 0)
      <3>1. CASE \E p \in Dropped(c) : prov' = [prov EXCEPT ![c] = p] /\ UNCHANGED faults
        <4>1. PICK p \in Dropped(c) : prov' = [prov EXCEPT ![c] = p] /\ UNCHANGED faults
          BY <3>1
        <4>2. prov'[c] = p /\ p.chan = "down"
          BY <1>0, <2>4, <4>1, LineFacts
        <4>3. QED
          BY <1>0, <4>1, <4>2, LineFacts, LaterFacts DEF Down
      <3>2. CASE UNCHANGED prov /\ faults' = [faults EXCEPT !.write = @ + 1]
        BY <1>0, <3>2, LineFacts, LaterFacts
      <3>3. QED
        BY <2>1, <3>1, <3>2
    <2>6. EndFits(c)'
      BY <1>0, <2>2, <2>4, <2>5 DEF EndFits, LineMoves, Down, Later
    <2>7. Elsewhere(c)
      <3>1. \A d \in Calls \ {c} : prov'[d] = prov[d]
        BY <2>1, LineElsewhere
      <3>2. QED
        BY <2>3, <2>4, <3>1 DEF Elsewhere
    <2>8. QED
      BY <2>5, <2>6, <2>7, ElsewhereFits
  <1>8. CASE RowClosed(c)
    <2>1. PICK t \in TasksOf(c, "cleanup") : RowClosed(c)!(t)
      BY <1>8 DEF RowClosed
    <2> DEFINE e == [Resuming(c, t) EXCEPT !.s.inMap = FALSE]
               u == [k |-> "settle", n |-> t.n, secs |-> t.secs]
    <2>2. e \in EngineType /\ ~e.s.inMap
      <3>1. e \in EngineType
        BY <1>0, SessionFieldTypes, Zenon
      <3>2. ~e.s.inMap
        BY <1>0 DEF EngineType, Session
      <3>3. QED
        BY <3>1, <3>2
    <2>3. Await(e, u).s = e.s
      <3> HIDE DEF e, u
      <3>1. QED
        BY <2>2, HandlerResults
    <2>4. Becomes(c, e) \/ Becomes(c, Await(e, u))
      BY <2>1
    <2> HIDE DEF e, u
    <2>5. /\ ~session'[c].inMap
          /\ \A d \in Calls \ {c} : session'[d] = session[d] /\ tasks'[d] = tasks[d]
      BY <2>2, <2>3, <2>4, BecomesParts
    <2>6. UNCHANGED <<place, prov, moves>> /\ Later
      BY <2>1, LaterFacts DEF Kept, NoFault
    <2>7. /\ place[c] = "placed"
          /\ Down(c) \/ faults.write > 0
      <3>1. t \in tasks[c] /\ t.k \in {"cleanup", "settle"} /\ place[c] = "placed"
        BY <1>1
      <3>2. QED
        BY <1>0, <3>1 DEF EndFits
    <2>8. EndFits(c)'
      BY <1>0, <2>5, <2>6, <2>7 DEF EndFits, Down, Later
    <2>9. Elsewhere(c)
      BY <2>5, <2>6 DEF Elsewhere
    <2>10. QED
      BY <2>6, <2>8, <2>9, ElsewhereFits
  <1>9. CASE RowCloseFails(c)
    <2>1. PICK t \in TasksOf(c, "cleanup") : RowCloseFails(c)!(t)
      BY <1>9 DEF RowCloseFails
    <2>2. CASE /\ MemoryIsLost
               /\ faults' = [faults EXCEPT !.write = @ + 1, !.crash = @ + 1]
      BY <2>2, LaterFacts, EndsMemoryIsLost
    <2>3. CASE /\ Becomes(c, Resuming(c, t))
               /\ faults' = [faults EXCEPT !.write = @ + 1]
               /\ UNCHANGED prov \/ prov' = Playing(c)
               /\ UNCHANGED <<place, moves>>
      <3>1. /\ session'[c] = session[c]
            /\ \A d \in Calls \ {c} : session'[d] = session[d] /\ tasks'[d] = tasks[d]
        BY <1>0, <2>3, BecomesParts
      <3>2. Later /\ faults'.write > 0 /\ LineMoves(c)
        BY <1>0, <2>3, LaterFacts, LineFacts
      <3>3. EndFits(c)'
        BY <1>0, <2>3, <3>1, <3>2 DEF EndFits, LineMoves, Down, Later
      <3>4. Elsewhere(c)
        <4>1. \A d \in Calls \ {c} : prov'[d] = prov[d]
          BY <2>3, LineElsewhere
        <4>2. QED
          BY <2>3, <3>1, <4>1 DEF Elsewhere
      <3>5. QED
        BY <3>2, <3>3, <3>4, ElsewhereFits
    <2>4. QED
      BY <2>1, <2>2, <2>3
  <1>10. CASE SettleCall(c) \/ SettleFails(c)
    <2>1. PICK t \in TasksOf(c, "settle") :
            /\ tasks' = [tasks EXCEPT ![c] = @ \ {t}]
            /\ UNCHANGED <<place, prov, session>>
            /\ \A d \in Calls \ {c} : moves'[d] = moves[d]
      BY <1>10 DEF SettleCall, SettleFails, TypeOK
    <2>2. /\ tasks'[c] = tasks[c] \ {t}
          /\ \A d \in Calls \ {c} : tasks'[d] = tasks[d]
      BY <2>1 DEF TypeOK
    <2>3. Later
      BY <1>10, LaterFacts DEF SettleCall, SettleFails, NoFault
    <2>4. t \in tasks[c] /\ t.k = "settle"
      BY <1>1
    <2>5. Down(c) \/ faults.write > 0
      BY <1>0, <2>4 DEF EndFits
    <2>6. Closes(tasks[c]) => Closes(tasks'[c])
      BY <2>2, <2>4 DEF Closes
    <2>7. EndFits(c)'
      BY <1>0, <2>1, <2>2, <2>3, <2>5, <2>6 DEF EndFits, Down, Later
    <2>8. Elsewhere(c)
      BY <2>1, <2>2 DEF Elsewhere
    <2>9. QED
      BY <2>3, <2>7, <2>8, ElsewhereFits
  <1>11. CASE ReconcileStale(c)
    <2>1. Later
      BY <1>11, LaterFacts DEF ReconcileStale, NoFault
    <2>2. QED
      BY <1>0, <1>11, <2>1, LineFacts, LineStep DEF ReconcileStale
  <1>12. QED
    BY <1>4, <1>5, <1>6, <1>7, <1>8, <1>9, <1>10, <1>11 DEF Endings

\* Every step keeps every call fit.
LEMMA EndsStep ==
  ASSUME TypeOK, EndedOnce, EndsFit, [Next]_vars
  PROVE  EndsFit'
  <1>1. CASE UNCHANGED vars
    BY <1>1 DEF EndsFit, EndFits, Down, vars
  <1>2. CASE SpontaneousCrash
    <2>1. Later
      BY <1>2, LaterFacts DEF SpontaneousCrash, Crash
    <2>2. QED
      BY <1>2, <2>1, EndsMemoryIsLost DEF SpontaneousCrash, Crash
  <1>3. ASSUME NEW c \in Calls, Route(c) \/ Telephony(c) \/ Handlers(c) \/ Endings(c)
        PROVE  EndsFit'
    BY <1>3, EndsRoute, EndsTelephony, EndsHandlers, EndsEndings
  <1>4. QED
    BY <1>1, <1>2, <1>3 DEF Next

\* Whatever order the events, timers, turns, cancellations, failures and crashes
\* come in, money is settled only for a channel that is down, unless a write or a
\* hang-up failed; and a session whose channel is gone, with nothing left to run
\* for it, missed an event before it was registered, lost one, or had a write fail.
THEOREM SessionsStaySound == Spec => []SessionsAreSound
  <1>1. Init => EndedOnce /\ EndsFit
    <2>1. ASSUME Init PROVE EndedOnce
      BY <2>1 DEF Init, EndedOnce, OneEnding, Ending, NoSession
    <2>2. ASSUME Init PROVE EndsFit
      <3>1. ASSUME NEW c \in Calls PROVE EndFits(c)
        <4>1. /\ place[c] = "idle" /\ prov[c].chan = "none" /\ prov[c].msgs = <<>>
              /\ session[c] = NoSession /\ tasks[c] = {} /\ moves[c] = 0
          BY <2>2 DEF Init
        <4>2. ~NoSession.inMap /\ Heard(<<>>)
          BY DEF NoSession, Heard
        <4>3. QED
          BY <4>1, <4>2 DEF EndFits, Down
      <3>2. QED
        BY <3>1 DEF EndsFit
    <2>3. QED
      BY <2>1, <2>2
  <1>2. TypeOK /\ EndedOnce /\ [Next]_vars => EndedOnce'
    BY EndedOnceStep
  <1>3. TypeOK /\ EndedOnce /\ EndsFit /\ [Next]_vars => EndsFit'
    BY EndsStep
  <1>4. TypeOK /\ EndsFit => SessionsAreSound
    <2>1. ASSUME TypeOK, EndsFit PROVE NoSettlementOfALiveCall
      BY <2>1 DEF EndsFit, EndFits, NoSettlementOfALiveCall, Down
    <2>2. ASSUME TypeOK, EndsFit PROVE StrandedSessionHasACause
      <3>1. Heard(<<>>)
        BY DEF Heard
      <3>2. ASSUME NEW c \in Calls, Stranded(c)
            PROVE  prov[c].missed \/ faults.lost > 0 \/ faults.write > 0
        <4>1. ~Closes(tasks[c])
          BY <3>2 DEF Stranded, Closes
        <4>2. QED
          BY <2>2, <3>1, <3>2, <4>1 DEF EndsFit, EndFits, Stranded, Down
      <3>3. QED
        BY <3>2 DEF StrandedSessionHasACause
    <2>3. QED
      BY <2>1, <2>2 DEF SessionsAreSound
  <1>5. QED
    BY <1>1, <1>2, <1>3, <1>4, TypeCorrect, PTL DEF Spec
=============================================================================
