----------------------------- MODULE CallEngine -----------------------------
(***************************************************************************)
(* The AI call engine: POST /tenant/calls reserves money, dials and        *)
(* registers a session; CallEngineService turns provider events, timers    *)
(* and finished turns into session transitions; every end of a session     *)
(* writes the Call row and settles the reservation.                        *)
(*                                                                         *)
(* Node runs one handler at a time and lets others in at every await.  A   *)
(* handler is one action up to its await; what it resumes with is a        *)
(* record in tasks[c], and a later action runs the rest.  A database write *)
(* and the code it resumes are one step.                                   *)
(***************************************************************************)
EXTENDS Billing, Sequences, FiniteSets

CONSTANTS Calls,           \* calls a tenant may place
          Providers,       \* telephony adapters a deployment may run
          Price,           \* the tenant's PriceConfig
          MaxCallSeconds,  \* agent.maxCallSeconds
          TickSecs,        \* seconds per tick of a call's clock
          InitialBalances, \* what balanceCents may be before the first call
          CreditLimit,     \* creditLimitCents
          MaxTicks,        \* bound: ticks a call's clock may show
          MaxTurns,        \* bound: turns of one conversation
          MaxFaults        \* bound: failed writes, lost events and crashes

ASSUME BillingAssumption ==
  /\ Price \in PriceConfig
  /\ MaxCallSeconds \in Nat
  /\ TickSecs \in Nat
  /\ CreditLimit \in Nat
  /\ InitialBalances \subseteq {b \in Int : b + CreditLimit >= 0}

ASSUME BoundsAssumption ==
  /\ IsFiniteSet(Calls)
  /\ Providers \subseteq {"asterisk", "yeastar"}
  /\ MaxTicks \in Nat
  /\ MaxTurns \in Nat
  /\ MaxFaults \in Nat

VARIABLES
  provider, \* the adapter this deployment runs
  place,    \* progress of the request that places call c
  cancel,   \* progress of POST /tenant/calls/:id/cancel
  prov,     \* the channel, and the provider's messages not yet handled
  elapsed,  \* ticks since the call was answered
  session,  \* the in-memory CallSession
  tasks,    \* continuations of handlers that are awaiting
  row,      \* status of the Call row
  moves,    \* CALL_CHARGE rows whose reference is this call
  cause,    \* history: what first acted on a session that had ended
  wallet,   \* Tenant.balanceCents, what it was before the first call, and the
            \* sum and number of the CALL_CHARGE rows
  faults    \* history: failures of each kind so far

vars == <<provider, place, cancel, prov, elapsed, session, tasks, row, moves,
          cause, wallet, faults>>

Reservation == ComputeReservation(MaxCallSeconds, Price)
CostOf(secs) == ComputeCallCost(secs, Price)

-----------------------------------------------------------------------------
(* Sessions and the continuations of their handlers.                       *)

LiveStates == {"DIALING", "RINGING", "IN_PROGRESS", "AWAITING_SPEECH",
               "PROCESSING_TURN"}
FinalStatus == {"COMPLETED", "NO_ANSWER", "BUSY", "FAILED", "CANCELLED",
                "ESCALATED"}
ActiveStatus == {"DIALING", "RINGING", "IN_PROGRESS"}

\* state is meaningless until the session exists; inMap: the sessions map holds
\* it; max, silence: maxCallTimer and silenceTimer are armed; hangups: unnamed
\* setTimeouts that will end the call; ends numbers the ends begun.
NoSession == [state |-> "NONE", inMap |-> FALSE, answered |-> FALSE, seq |-> 0,
              max |-> FALSE, silence |-> FALSE, hangups |-> 0, ends |-> 0]

Session == [state: LiveStates \cup {"NONE", "TERMINATED"}, inMap: BOOLEAN,
            answered: BOOLEAN, seq: Nat, max: BOOLEAN, silence: BOOLEAN,
            hangups: Nat, ends: Nat]

\* Who waits for the handler decides what its exception does: handleEvent
\* catches, a turn apologises to the caller, a timer's is unhandled.
Waiter == {"event", "turn", "timer"}

Task ==
  [k: {"ringing", "answered"}, n: Nat]
    \cup [k: {"turn", "reply", "optOut", "escalate", "capture"}, n: Nat]
    \cup [k: {"hangup"}, n: Nat, status: FinalStatus, via: Waiter]
    \cup [k: {"cleanup"}, n: Nat, status: FinalStatus, secs: Nat, via: Waiter]
    \cup [k: {"settle"}, n: Nat, secs: Nat]

TasksOf(c, kind) == {t \in tasks[c] : t.k = kind}
TurnTasks(c) == {t \in tasks[c] : t.k \in {"turn", "reply", "optOut", "capture"}}

\* A session with its continuations: what a handler transforms.
Engine(c) == [s |-> session[c], t |-> tasks[c]]
Resuming(c, t) == [s |-> session[c], t |-> tasks[c] \ {t}]
Becomes(c, e) == /\ session' = [session EXCEPT ![c] = e.s]
                 /\ tasks' = [tasks EXCEPT ![c] = e.t]

Await(e, t) == [e EXCEPT !.t = @ \cup {t}]

DurationOf(s, c) == IF s.answered THEN elapsed[c] * TickSecs ELSE 0

\* terminateCall up to its await: the first caller marks the session and asks
\* the provider to hang up; a session already ended is left alone.
TerminateCall(e, status, via) ==
  IF e.s.state = "TERMINATED" THEN e
  ELSE [s |-> [e.s EXCEPT !.state = "TERMINATED", !.ends = @ + 1],
        t |-> e.t \cup {[k |-> "hangup", n |-> e.s.ends, status |-> status,
                         via |-> via]}]

\* cleanupSession up to its await.  No guard: each call starts another clean-up.
CleanupSession(e, status, secs, via) ==
  [s |-> [e.s EXCEPT !.state = "TERMINATED", !.max = FALSE, !.silence = FALSE,
                     !.ends = @ + 1],
   t |-> e.t \cup {[k |-> "cleanup", n |-> e.s.ends, status |-> status,
                    secs |-> secs, via |-> via]}]

\* A VAD callback or the silence timer hands the buffered audio to processTurn.
StartTurn(e) ==
  [s |-> [e.s EXCEPT !.state = "PROCESSING_TURN", !.silence = FALSE,
                     !.seq = @ + 1],
   t |-> e.t \cup {[k |-> "turn", n |-> e.s.seq + 1]}]

-----------------------------------------------------------------------------
(* The provider: one channel per call and its messages, in order.          *)

Connected == {"dialing", "ringing", "up", "transferred"}
Message == {"RINGING", "UP", "STASIS", "PLAYED", "GONE", "END", "NO_ANSWER",
            "BUSY", "FAILURE"}

\* known: the Asterisk adapter has an answer instant for the channel; playing:
\* prompts queued; missed: a message came before the session was registered.
Channel == [chan: Connected \cup {"none", "down"}, msgs: Seq(Message),
            known: BOOLEAN, playing: Nat, missed: BOOLEAN]
Up(c) == prov[c].chan = "up"

\* Messages the end of a channel produces.  Asterisk reports a channel that had
\* entered Stasis twice, StasisEnd and ChannelDestroyed; Yeastar reports once.
GoneMessages(answered) ==
  IF provider = "asterisk"
  THEN {IF answered THEN <<"GONE", "GONE">> ELSE <<"GONE">>}
  ELSE IF answered THEN {<<"END">>}
       ELSE {<<"NO_ANSWER">>, <<"BUSY">>, <<"FAILURE">>}

\* The channel goes down.  A hang-up of a channel that is already gone is
\* answered 404 and ignored.
Dropped(c) ==
  IF prov[c].chan \in Connected
  THEN {[prov[c] EXCEPT !.chan = "down", !.playing = 0, !.msgs = @ \o m] :
          m \in GoneMessages(prov[c].chan \notin {"dialing", "ringing"})}
  ELSE {prov[c]}

\* playPrompt: Asterisk answers 404 for a channel that is gone, and the adapter
\* throws; the other requests return once the provider has queued the audio.
PlayThrows(c) == provider = "asterisk" /\ ~Up(c)
Playing(c) == IF Up(c) THEN [prov EXCEPT ![c].playing = @ + 1] ELSE prov

\* onAriEvent and normalizeEvent: the engine's event for a raw message.  An
\* Asterisk channel is ENDED only while its answer instant is on record.
EventOf(p, m) ==
  CASE m \in {"RINGING", "STASIS"} -> "CALL_RINGING"
    [] m = "UP" -> "CALL_ANSWERED"
    [] m = "PLAYED" -> "PROMPT_FINISHED"
    [] m = "GONE" -> IF p.known THEN "CALL_ENDED" ELSE "CALL_FAILED"
    [] m = "FAILURE" -> "CALL_FAILED"
    [] OTHER -> "CALL_ENDED"

\* onCallEnded: the row's status for a hang-up cause.
StatusOf(m) == CASE m = "NO_ANSWER" -> "NO_ANSWER"
                 [] m = "BUSY" -> "BUSY"
                 [] OTHER -> "COMPLETED"

-----------------------------------------------------------------------------
(* Event handlers of CallEngineService.                                    *)

OnRinging(e) ==
  Await([e EXCEPT !.s.state = "RINGING"],
        [k |-> "ringing", n |-> IF e.s.answered THEN 1 ELSE 0])

OnAnswered(e) ==
  Await([e EXCEPT !.s.state = "IN_PROGRESS", !.s.answered = TRUE],
        [k |-> "answered", n |-> 0])

\* onPromptFinished and startSpeechListening.
OnPromptFinished(e) ==
  IF e.s.state = "TERMINATED" THEN e
  ELSE [e EXCEPT !.s.state = "AWAITING_SPEECH", !.s.silence = TRUE]

\* Mutant: an end is not checked against an end before it.
OnCallEndedUnguarded(e, m, c) ==
  CleanupSession(e, StatusOf(m), elapsed[c] * TickSecs, "event")

OnCallEnded(e, m, c) ==
  IF e.s.state = "TERMINATED" THEN e
  ELSE CleanupSession(e, StatusOf(m), elapsed[c] * TickSecs, "event")

\* Mutant: a failure before the first ringing is taken for noise.
OnCallFailedOnceRinging(e) ==
  IF e.s.state = "DIALING" THEN e ELSE CleanupSession(e, "FAILED", 0, "event")

OnCallFailed(e) == CleanupSession(e, "FAILED", 0, "event")

Handle(e, m, c) ==
  LET ev == EventOf(prov[c], m)
  IN CASE ev = "CALL_RINGING" -> OnRinging(e)
       [] ev = "CALL_ANSWERED" -> OnAnswered(e)
       [] ev = "PROMPT_FINISHED" -> OnPromptFinished(e)
       [] ev = "CALL_ENDED" -> OnCallEnded(e, m, c)
       [] OTHER -> OnCallFailed(e)

-----------------------------------------------------------------------------
Init ==
  /\ provider \in Providers
  /\ place = [c \in Calls |-> "idle"]
  /\ cancel = [c \in Calls |-> "none"]
  /\ prov = [c \in Calls |-> [chan |-> "none", msgs |-> <<>>, known |-> FALSE,
                              playing |-> 0, missed |-> FALSE]]
  /\ elapsed = [c \in Calls |-> 0]
  /\ session = [c \in Calls |-> NoSession]
  /\ tasks = [c \in Calls |-> {}]
  /\ row = [c \in Calls |-> "NONE"]
  /\ moves = [c \in Calls |-> 0]
  /\ cause = [c \in Calls |-> "none"]
  /\ \E b \in InitialBalances :
       wallet = [balance |-> b, opening |-> b, charged |-> 0, moves |-> 0]
  /\ faults = [write |-> 0, lost |-> 0, crash |-> 0]

NoFault == UNCHANGED <<provider, cause, faults>>
CanFail == faults.write + faults.lost + faults.crash < MaxFaults

-----------------------------------------------------------------------------
(* POST /tenant/calls: reserve, write the row, dial, register the session. *)

\* Mutant: the balance is read before and not in the UPDATE.
ReserveUnchecked(c) ==
  /\ place[c] = "idle"
  /\ wallet' = [wallet EXCEPT !.balance = AfterReserve(@, Reservation)]
  /\ place' = [place EXCEPT ![c] = "reserved"]
  /\ UNCHANGED <<cancel, prov, elapsed, session, tasks, row, moves>>
  /\ NoFault

Reserve(c) ==
  /\ place[c] = "idle"
  /\ CanReserve(wallet.balance, CreditLimit, Reservation)
  /\ wallet' = [wallet EXCEPT !.balance = AfterReserve(@, Reservation)]
  /\ place' = [place EXCEPT ![c] = "reserved"]
  /\ UNCHANGED <<cancel, prov, elapsed, session, tasks, row, moves>>
  /\ NoFault

Refuse(c) ==
  /\ place[c] = "idle"
  /\ ~CanReserve(wallet.balance, CreditLimit, Reservation)
  /\ place' = [place EXCEPT ![c] = "refused"]
  /\ UNCHANGED <<cancel, prov, elapsed, session, tasks, row, moves, wallet>>
  /\ NoFault

\* The row cannot be created, outside the route's try: the reservation is kept.
CreateFails(c) ==
  /\ place[c] = "reserved"
  /\ CanFail
  /\ faults' = [faults EXCEPT !.write = @ + 1]
  /\ place' = [place EXCEPT ![c] = "lost"]
  /\ UNCHANGED <<provider, cancel, prov, elapsed, session, tasks, row, moves, cause,
                 wallet>>

\* The row is created and the provider accepts the call: its messages may
\* arrive from here on, before the session exists.
Dial(c) ==
  /\ place[c] = "reserved"
  /\ place' = [place EXCEPT ![c] = "dialled"]
  /\ row' = [row EXCEPT ![c] = "DIALING"]
  /\ prov' = [prov EXCEPT ![c].chan = "dialing"]
  /\ UNCHANGED <<cancel, elapsed, session, tasks, moves, wallet>>
  /\ NoFault

\* The catch of the route: the reservation goes back and the row is FAILED,
\* when dial is refused and when the update that stores the channel id fails.
DialError(c) ==
  /\ place[c] \in {"reserved", "dialled"}
  /\ \/ place[c] = "reserved" /\ UNCHANGED faults
     \/ /\ place[c] = "dialled"
        /\ CanFail
        /\ faults' = [faults EXCEPT !.write = @ + 1]
  /\ place' = [place EXCEPT ![c] = "failed"]
  /\ row' = [row EXCEPT ![c] = "FAILED"]
  /\ wallet' = [wallet EXCEPT !.balance = @ + Reservation]
  /\ UNCHANGED <<provider, cancel, prov, elapsed, session, tasks, moves, cause>>

RegisterCall(c) ==
  /\ place[c] = "dialled"
  /\ place' = [place EXCEPT ![c] = "placed"]
  /\ session' = [session EXCEPT ![c] = [NoSession EXCEPT !.state = "DIALING",
                                                         !.inMap = TRUE]]
  /\ UNCHANGED <<cancel, prov, elapsed, tasks, row, moves, wallet>>
  /\ NoFault

(* POST /tenant/calls/:id/cancel: read the status, hang up, write CANCELLED. *)
(* Until the channel id is stored there is nothing to hang up.               *)

CancelRequest(c) ==
  /\ cancel[c] = "none"
  /\ row[c] \in ActiveStatus
  /\ cancel' = [cancel EXCEPT ![c] = "hungUp"]
  /\ \/ place[c] = "dialled" /\ UNCHANGED prov
     \/ \E p \in Dropped(c) : prov' = [prov EXCEPT ![c] = p]
  /\ UNCHANGED <<place, elapsed, session, tasks, row, moves, wallet>>
  /\ NoFault

CancelWrite(c) ==
  /\ cancel[c] = "hungUp"
  /\ cancel' = [cancel EXCEPT ![c] = "done"]
  /\ row' = [row EXCEPT ![c] = "CANCELLED"]
  /\ UNCHANGED <<place, prov, elapsed, session, tasks, moves, wallet>>
  /\ NoFault

-----------------------------------------------------------------------------
(* What the provider does.                                                 *)

EngineUntouched ==
  UNCHANGED <<place, cancel, session, tasks, row, moves, wallet>> /\ NoFault

Ring(c) ==
  /\ prov[c].chan = "dialing"
  /\ prov' = [prov EXCEPT ![c].chan = "ringing", ![c].msgs = Append(@, "RINGING")]
  /\ UNCHANGED elapsed /\ EngineUntouched

\* An originated Asterisk channel enters Stasis when it is answered.
Answer(c) ==
  /\ prov[c].chan \in {"dialing", "ringing"}
  /\ prov' = [prov EXCEPT ![c].chan = "up",
                          ![c].msgs = @ \o (IF provider = "asterisk"
                                            THEN <<"UP", "STASIS">>
                                            ELSE <<"UP">>)]
  /\ UNCHANGED elapsed /\ EngineUntouched

RemoteHangup(c) ==
  /\ prov[c].chan \in Connected
  /\ \E p \in Dropped(c) : prov' = [prov EXCEPT ![c] = p]
  /\ UNCHANGED elapsed /\ EngineUntouched

PromptPlayed(c) ==
  /\ Up(c) /\ prov[c].playing > 0
  /\ prov' = [prov EXCEPT ![c].playing = @ - 1, ![c].msgs = Append(@, "PLAYED")]
  /\ UNCHANGED elapsed /\ EngineUntouched

\* Nobody reads the clock of a call of which nothing is left in memory.
Tick(c) ==
  /\ session[c].answered
  /\ session[c].inMap \/ session[c].max \/ session[c].hangups > 0 \/ tasks[c] # {}
  /\ elapsed[c] < MaxTicks
  /\ elapsed' = [elapsed EXCEPT ![c] = @ + 1]
  /\ UNCHANGED prov /\ EngineUntouched

-----------------------------------------------------------------------------
(* handleEvent.  A call with no session in the map has its event dropped;   *)
(* missed remembers that this happened before the session was registered.   *)

Consumed(c) ==
  LET m == Head(prov[c].msgs)
  IN [prov EXCEPT ![c].msgs = Tail(@),
                  ![c].known = m = "UP" \/ (@ /\ m # "GONE"),
                  ![c].missed = @ \/ place[c] = "dialled"]

\* The event about to be handled finds a session that has ended, and its handler
\* does not look.
Unguarded(c, m) ==
  /\ session[c].inMap /\ session[c].state = "TERMINATED"
  /\ EventOf(prov[c], m) \in {"CALL_FAILED", "CALL_RINGING", "CALL_ANSWERED"}

FirstCause(c, why) == [cause EXCEPT ![c] = IF @ = "none" THEN why ELSE @]

HandleEvent(c) ==
  /\ prov[c].msgs # <<>>
  /\ prov' = Consumed(c)
  /\ LET m == Head(prov[c].msgs)
     IN /\ cause' = IF ~Unguarded(c, m) THEN cause
                   ELSE FirstCause(c, IF EventOf(prov[c], m) = "CALL_FAILED"
                                      THEN "lateFailure" ELSE "lateProgress")
        /\ IF session[c].inMap THEN Becomes(c, Handle(Engine(c), m, c))
                               ELSE UNCHANGED <<session, tasks>>
  /\ UNCHANGED <<provider, place, cancel, elapsed, row, moves, wallet, faults>>

\* The message is gone: the ARI web socket was reconnecting, or Yeastar's web
\* hook was not delivered.
LoseEvent(c) ==
  /\ prov[c].msgs # <<>>
  /\ CanFail
  /\ faults' = [faults EXCEPT !.lost = @ + 1]
  /\ prov' = [prov EXCEPT ![c].msgs = Tail(@)]
  /\ UNCHANGED <<provider, place, cancel, elapsed, session, tasks, row, moves,
                 cause, wallet>>

-----------------------------------------------------------------------------
(* The process goes down and Docker starts it again: sessions, timers,      *)
(* continuations and the adapter's answer instants are gone; the channels   *)
(* and the database stay.                                                   *)

MemoryIsLost ==
  /\ session' = [c \in Calls |-> NoSession]
  /\ tasks' = [c \in Calls |-> {}]
  /\ prov' = [c \in Calls |-> [prov[c] EXCEPT !.known = FALSE]]
  /\ place' = [c \in Calls |-> IF place[c] \in {"reserved", "dialled"}
                               THEN "lost" ELSE place[c]]
  /\ cancel' = [c \in Calls |-> IF cancel[c] = "hungUp" THEN "done"
                                ELSE cancel[c]]
  /\ UNCHANGED <<provider, elapsed, row, moves, cause, wallet>>

Crash == MemoryIsLost /\ faults' = [faults EXCEPT !.crash = @ + 1]

SpontaneousCrash == CanFail /\ Crash

-----------------------------------------------------------------------------
(* Continuations.                                                          *)

Kept == UNCHANGED <<place, cancel, elapsed, moves, wallet>> /\ NoFault

RingingWritten(c) ==
  \E t \in TasksOf(c, "ringing") :
    /\ row' = [row EXCEPT ![c] = "RINGING"]
    /\ Becomes(c, Resuming(c, t))
    /\ UNCHANGED prov
    /\ Kept

\* Mutant: the timer of maxCallSeconds is not set.
ForgetMaxTimer(e) == e
ArmMaxTimer(e) == [e EXCEPT !.s.max = TRUE]

\* The timer is armed even if the call ended while the row was being written.
AnsweredWritten(c) ==
  \E t \in TasksOf(c, "answered") :
    LET e == ArmMaxTimer(Resuming(c, t))
    IN /\ row' = [row EXCEPT ![c] = "IN_PROGRESS"]
       /\ Becomes(c, IF PlayThrows(c) THEN TerminateCall(e, "FAILED", "event")
                                      ELSE e)
       /\ prov' = Playing(c)
       /\ Kept

\* The update fails: handleEvent's catch ends the call.
EventWriteFails(c) ==
  \E t \in TasksOf(c, "ringing") \cup TasksOf(c, "answered") :
    /\ CanFail
    /\ faults' = [faults EXCEPT !.write = @ + 1]
    /\ Becomes(c, TerminateCall(Resuming(c, t), "FAILED", "event"))
    /\ UNCHANGED <<provider, place, cancel, prov, elapsed, row, moves, cause,
                   wallet>>

\* End of speech, or a full buffer: only the first of the two gets through.
SpeechEnds(c) ==
  /\ session[c].inMap /\ session[c].state = "AWAITING_SPEECH"
  /\ session[c].seq < MaxTurns
  /\ Becomes(c, StartTurn(Engine(c)))
  /\ UNCHANGED <<prov, row>>
  /\ Kept

\* TurnProcessor plays the reply, then stores the turn.
TurnReplies(c) ==
  \E t \in TasksOf(c, "turn") :
    /\ ~PlayThrows(c)
    /\ Becomes(c, Await(Resuming(c, t), [k |-> "reply", n |-> t.n]))
    /\ prov' = Playing(c)
    /\ UNCHANGED row
    /\ Kept

\* STT, TTS or a write fails, or the channel is gone: processTurn apologises.
\* When that prompt cannot be played either, nobody catches the rejection.
TurnFails(c) ==
  \E t \in TurnTasks(c) :
    \/ /\ ~PlayThrows(c)
       /\ Becomes(c, Resuming(c, t))
       /\ prov' = Playing(c)
       /\ UNCHANGED row
       /\ Kept
    \/ PlayThrows(c) /\ Crash

\* The reply is out and the turn is stored: act on what the model asked for.
\* The session may have ended in the meantime, and is not looked at again.
TurnActs(c) ==
  \E t \in TasksOf(c, "reply") :
    /\ LET e == Resuming(c, t)
           ended == session[c].state = "TERMINATED"
       IN \/ /\ \E k \in {"optOut", "escalate", "capture"} :
                  Becomes(c, Await(e, [k |-> k, n |-> t.n]))
             /\ UNCHANGED cause
          \/ /\ \E h \in {0, 1} :
                  Becomes(c, [e EXCEPT !.s.state = "IN_PROGRESS",
                                       !.s.hangups = @ + h])
             /\ cause' = IF ended THEN FirstCause(c, "lateTurn") ELSE cause
    /\ UNCHANGED <<provider, place, cancel, prov, elapsed, row, moves, wallet,
                   faults>>

OptOutStored(c) ==
  \E t \in TasksOf(c, "optOut") :
    /\ Becomes(c, TerminateCall(Resuming(c, t), "COMPLETED", "turn"))
    /\ UNCHANGED <<prov, row>>
    /\ Kept

\* transfer is best effort; the call is then terminated either way.
Escalate(c) ==
  \E t \in TasksOf(c, "escalate") :
    /\ Becomes(c, TerminateCall(Resuming(c, t), "ESCALATED", "turn"))
    /\ \/ UNCHANGED prov
       \/ Up(c) /\ prov' = [prov EXCEPT ![c].chan = "transferred",
                                        ![c].playing = 0]
    /\ UNCHANGED row
    /\ Kept

CaptureStored(c) ==
  \E t \in TasksOf(c, "capture") :
    /\ Becomes(c, [Resuming(c, t) EXCEPT !.s.state = "IN_PROGRESS"])
    /\ cause' = IF session[c].state = "TERMINATED"
                THEN FirstCause(c, "lateTurn") ELSE cause
    /\ UNCHANGED <<provider, place, cancel, prov, elapsed, row, moves, wallet,
                   faults>>

-----------------------------------------------------------------------------
(* Timers.                                                                 *)

\* Silence: what was heard, if anything, becomes a turn, and the apology is
\* played; a rejected play is unhandled.
SilenceTimer(c) ==
  /\ session[c].silence
  /\ LET e == [Engine(c) EXCEPT !.s.silence = FALSE]
     IN IF session[c].state # "AWAITING_SPEECH"
        THEN Becomes(c, e) /\ UNCHANGED <<prov, row>> /\ Kept
        ELSE IF PlayThrows(c) THEN Crash
        ELSE /\ \/ Becomes(c, e)
                \/ session[c].seq < MaxTurns /\ Becomes(c, StartTurn(e))
             /\ prov' = Playing(c)
             /\ UNCHANGED row
             /\ Kept

MaxTimer(c) ==
  /\ session[c].max
  /\ elapsed[c] * TickSecs >= MaxCallSeconds
  /\ LET e == [Engine(c) EXCEPT !.s.max = FALSE]
     IN IF session[c].state = "TERMINATED"
        THEN Becomes(c, e) /\ UNCHANGED <<prov, row>> /\ Kept
        ELSE IF PlayThrows(c) THEN Crash
        ELSE /\ Becomes(c, [e EXCEPT !.s.hangups = @ + 1])
             /\ prov' = Playing(c)
             /\ UNCHANGED row
             /\ Kept

HangupTimer(c) ==
  /\ session[c].hangups > 0
  /\ Becomes(c, TerminateCall([Engine(c) EXCEPT !.s.hangups = @ - 1],
                              "COMPLETED", "timer"))
  /\ UNCHANGED <<prov, row>>
  /\ Kept

-----------------------------------------------------------------------------
(* The end of a session: hang up, write the row, settle, forget.           *)

\* A hang-up that fails is swallowed.
HungUp(c) ==
  \E t \in TasksOf(c, "hangup") :
    /\ Becomes(c, CleanupSession(Resuming(c, t), t.status,
                                 DurationOf(session[c], c), t.via))
    /\ \/ /\ \E p \in Dropped(c) : prov' = [prov EXCEPT ![c] = p]
          /\ UNCHANGED faults
       \/ /\ CanFail
          /\ faults' = [faults EXCEPT !.write = @ + 1]
          /\ UNCHANGED prov
    /\ UNCHANGED <<provider, place, cancel, elapsed, row, moves, cause, wallet>>

\* settleCall is started, not awaited, and only if money was reserved.
RowClosed(c) ==
  \E t \in TasksOf(c, "cleanup") :
    /\ row' = [row EXCEPT ![c] = t.status]
    /\ LET e == [Resuming(c, t) EXCEPT !.s.inMap = FALSE]
       IN Becomes(c, IF Reservation > 0
                     THEN Await(e, [k |-> "settle", n |-> t.n, secs |-> t.secs])
                     ELSE e)
    /\ UNCHANGED prov
    /\ Kept

\* The last update fails.  From an event: terminateCall finds the session
\* already TERMINATED, which stays in the map with its reservation.  From a
\* turn: one more apology.  From a timer: the rejection is unhandled.
RowCloseFails(c) ==
  \E t \in TasksOf(c, "cleanup") :
    /\ CanFail
    /\ \/ /\ t.via = "timer" \/ (t.via = "turn" /\ PlayThrows(c))
          /\ MemoryIsLost
          /\ faults' = [faults EXCEPT !.write = @ + 1, !.crash = @ + 1]
       \/ /\ t.via = "event" \/ (t.via = "turn" /\ ~PlayThrows(c))
          /\ Becomes(c, Resuming(c, t))
          /\ faults' = [faults EXCEPT !.write = @ + 1]
          /\ prov' = IF t.via = "turn" THEN Playing(c) ELSE prov
          /\ UNCHANGED <<provider, place, cancel, elapsed, row, moves, cause,
                         wallet>>

\* Mutant: the cost is recorded and the reservation kept.
SettledWithoutRefund(w, secs) ==
  [w EXCEPT !.balance = @ - CostOf(secs), !.charged = @ + CostOf(secs),
            !.moves = @ + 1]

\* settleCall's transaction: the difference goes back to the balance and a
\* CALL_CHARGE row records the cost.
Settled(w, secs) ==
  [w EXCEPT !.balance = @ + (Reservation - CostOf(secs)),
            !.charged = @ + CostOf(secs), !.moves = @ + 1]

SettleCall(c) ==
  \E t \in TasksOf(c, "settle") :
    /\ wallet' = Settled(wallet, t.secs)
    /\ moves' = [moves EXCEPT ![c] = @ + 1]
    /\ tasks' = [tasks EXCEPT ![c] = @ \ {t}]
    /\ UNCHANGED <<place, cancel, prov, elapsed, session, row>>
    /\ NoFault

\* The transaction fails and is logged: nothing retries it.
SettleFails(c) ==
  \E t \in TasksOf(c, "settle") :
    /\ CanFail
    /\ faults' = [faults EXCEPT !.write = @ + 1]
    /\ tasks' = [tasks EXCEPT ![c] = @ \ {t}]
    /\ UNCHANGED <<provider, place, cancel, prov, elapsed, session, row, moves,
                   cause, wallet>>

(* reconcileStaleCalls: ten minutes without an update while dialling or     *)
(* ringing, six hours in progress.  Nothing of a call is then under way.    *)
ReconcileStale(c) ==
  /\ row[c] \in ActiveStatus
  /\ prov[c].chan = "down" /\ prov[c].msgs = <<>>
  /\ tasks[c] = {} /\ place[c] # "dialled" /\ cancel[c] # "hungUp"
  /\ ~session[c].max /\ session[c].hangups = 0
  /\ row' = [row EXCEPT ![c] = "FAILED"]
  /\ UNCHANGED <<place, cancel, prov, elapsed, session, tasks, moves, wallet>>
  /\ NoFault

-----------------------------------------------------------------------------
Route(c) == \/ Reserve(c) \/ Refuse(c) \/ CreateFails(c) \/ Dial(c)
            \/ DialError(c) \/ RegisterCall(c) \/ CancelRequest(c)
            \/ CancelWrite(c)

Telephony(c) == \/ Ring(c) \/ Answer(c) \/ RemoteHangup(c) \/ PromptPlayed(c)
                \/ Tick(c) \/ LoseEvent(c)

Handlers(c) == \/ HandleEvent(c) \/ RingingWritten(c) \/ AnsweredWritten(c)
               \/ EventWriteFails(c) \/ SpeechEnds(c) \/ TurnReplies(c)
               \/ TurnFails(c) \/ TurnActs(c) \/ OptOutStored(c) \/ Escalate(c)
               \/ CaptureStored(c)

Endings(c) == \/ SilenceTimer(c) \/ MaxTimer(c) \/ HangupTimer(c) \/ HungUp(c)
              \/ RowClosed(c) \/ RowCloseFails(c) \/ SettleCall(c)
              \/ SettleFails(c) \/ ReconcileStale(c)

Next == \/ \E c \in Calls : Route(c) \/ Telephony(c) \/ Handlers(c) \/ Endings(c)
        \/ SpontaneousCrash

Spec == Init /\ [][Next]_vars

\* Timers fire, started requests return, Node resumes every awaiting handler.
\* Nothing is assumed of the provider: its messages may never come.
Fairness ==
  \A c \in Calls :
    /\ WF_vars(AnsweredWritten(c)) /\ WF_vars(Tick(c)) /\ WF_vars(MaxTimer(c))
    /\ WF_vars(HangupTimer(c)) /\ WF_vars(HungUp(c)) /\ WF_vars(RowClosed(c))
    /\ WF_vars(SettleCall(c))

FairSpec == Spec /\ Fairness

-----------------------------------------------------------------------------
(* Correctness.                                                            *)

TypeOK ==
  /\ provider \in Providers
  /\ place \in [Calls -> {"idle", "refused", "reserved", "dialled", "placed",
                          "failed", "lost"}]
  /\ cancel \in [Calls -> {"none", "hungUp", "done"}]
  /\ prov \in [Calls -> Channel]
  /\ elapsed \in [Calls -> 0 .. MaxTicks]
  /\ session \in [Calls -> Session]
  /\ tasks \in [Calls -> SUBSET Task]
  /\ row \in [Calls -> ActiveStatus \cup FinalStatus \cup {"NONE"}]
  /\ moves \in [Calls -> Nat]
  /\ cause \in [Calls -> {"none", "lateTurn", "lateFailure", "lateProgress"}]
  /\ wallet \in [balance: Int, opening: InitialBalances, charged: Nat, moves: Nat]
  /\ faults \in [write: Nat, lost: Nat, crash: Nat]

\* Calls whose reservation was taken and not handed back by the route.
Holding == {c \in Calls : place[c] \in {"reserved", "dialled", "placed", "lost"}}

\* The balance is explained by the database's own records: every reservation
\* taken from it, every CALL_CHARGE row, and one reservation returned with each
\* such row.  (reserveBalance, the route's refund, settleCall.)
BalanceExplained ==
  wallet.balance = wallet.opening - Reservation * Cardinality(Holding)
                     + Reservation * wallet.moves - wallet.charged

\* A call is settled a second time only after one of the three things the
\* session does not check for: a turn that finishes after the end, a CALL_FAILED
\* or a CALL_RINGING/CALL_ANSWERED for a session that had ended.  No
\* interleaving of timers, hang-ups, cancellations and CALL_ENDED does it alone.
SecondSettlementHasACause == \A c \in Calls : moves[c] > 1 => cause[c] # "none"

\* Money is settled only for a channel that is down: terminateCall hangs up
\* before it cleans up.  A hang-up the provider refused is the exception.
NoSettlementOfALiveCall ==
  \A c \in Calls : moves[c] > 0 => prov[c].chan = "down" \/ faults.write > 0

\* Nothing sweeps the sessions map: a session whose channel is gone, with nothing
\* left to run for it, keeps its reservation for good.
Stranded(c) ==
  /\ session[c].inMap /\ ~session[c].max /\ ~session[c].silence
  /\ session[c].hangups = 0 /\ tasks[c] = {}
  /\ prov[c].chan = "down" /\ prov[c].msgs = <<>>

\* That happens only when an event came before registerCall, or was lost with
\* the web socket, or a database write failed; never by the order of the events,
\* timers and turns of a registered call.
StrandedSessionHasACause ==
  \A c \in Calls :
    Stranded(c) => prov[c].missed \/ faults.lost > 0 \/ faults.write > 0

\* Whatever order the events, timers, turns and hang-ups of a call come in, its
\* session is well formed, its money is settled only once its channel is down, and
\* it is not left behind: the three things that make a session of the engine sound.
SessionsAreSound == TypeOK /\ NoSettlementOfALiveCall /\ StrandedSessionHasACause

\* What a settled call can cost beyond its reservation: the seconds between the
\* maximum-duration timer and the hang-up.
WorstOverrun ==
  LET most == CostOf(MaxTicks * TickSecs)
  IN IF most > Reservation THEN most - Reservation ELSE 0

\* The tenant goes below the credit limit only by what settled calls overran.
DebtIsBounded == wallet.balance + CreditLimit + wallet.moves * WorstOverrun >= 0

\* A call that was answered is settled even if no other message of the provider
\* ever arrives: onAnswered arms the maximum-duration timer, which hangs up.  A
\* failed write or a crash loses it.
AnsweredCallSettles ==
  \A c \in Calls :
    session[c].answered
      ~> (moves[c] > 0 \/ faults.write > 0 \/ faults.crash > 0)

-----------------------------------------------------------------------------
(* What the documentation says and the code does not do.                   *)

\* docs/PLATAFORMA.md: escalation transfers the call to a human.
EscalatedCallIsNotHungUp ==
  [][\A c \in Calls :
       prov[c].chan = "transferred" /\ prov'[c].chan = "down"
         => TasksOf(c, "hangup") \subseteq tasks'[c]]_vars
=============================================================================
