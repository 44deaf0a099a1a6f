----------------------------- MODULE AdminCalls -----------------------------
(***************************************************************************)
(* The calls an administrator makes: a test call, whose events are applied *)
(* to its row by a handler of their own, and a simulated conversation,     *)
(* which has a row and no call (admin/test-call.ts,                        *)
(* admin/simulate-conversation.ts).  Rows left behind are closed by the    *)
(* reconciliation of packages/db/src/calls.ts.                             *)
(***************************************************************************)
EXTENDS Naturals, FiniteSets

CONSTANTS TestCalls,      \* test calls
          Simulations,    \* simulated conversations
          MaxUtterances,  \* what the person says in one, at most ten
          MaxMishaps      \* bound on failed writes, failed turns and restarts

ASSUME AdminCallsAssumption == MaxUtterances \in Nat /\ MaxMishaps \in Nat

VARIABLES tests,   \* [at, row, channel] of each test call
          tracked, \* pendingTestCalls
          writes,  \* the updates of handlers under way
          missed,  \* events no handler took, or whose update failed
          talks,   \* [at, row, turns, said] of each simulation
          mishaps

adminVars == <<tests, tracked, writes, missed, talks, mishaps>>

LiveStatus == {"DIALING", "RINGING", "IN_PROGRESS"}
NoTestCall == [at |-> "idle", row |-> "none", channel |-> "none"]
NoTalk == [at |-> "idle", row |-> "none", turns |-> 0, said |-> 0]

AdminInit ==
  /\ tests = [c \in TestCalls |-> NoTestCall] /\ tracked = {}
  /\ writes = [c \in TestCalls |-> {}] /\ missed = [c \in TestCalls |-> {}]
  /\ talks = [s \in Simulations |-> NoTalk] /\ mishaps = 0

OfTalks == UNCHANGED <<talks, mishaps>>
OfTests == UNCHANGED <<tests, tracked, writes, missed>>
Mishap == mishaps < MaxMishaps /\ mishaps' = mishaps + 1

----------------------------------------------------------------------------
(* The dial, then the row, then an audit line, and only then the tracking. *)
DialTest(c) ==
  /\ tests[c].at = "idle"
  /\ tests' = [tests EXCEPT ![c].at = "dialled", ![c].channel = "dialling"]
  /\ UNCHANGED <<tracked, writes, missed>> /\ OfTalks

CreateTestCall(c) ==
  /\ tests[c].at = "dialled"
  /\ tests' = [tests EXCEPT ![c].at = "created", ![c].row = "DIALING"]
  /\ UNCHANGED <<tracked, writes, missed>> /\ OfTalks

(* Tracking one forgets those that have been tracked for an hour. *)
TrackTestCall(c, old) ==
  /\ tests[c].at = "created"
  /\ tests' = [tests EXCEPT ![c].at = "tracked"]
  /\ tracked' = (tracked \ old) \cup {c}
  /\ UNCHANGED <<writes, missed>> /\ OfTalks

(* What the engine says of a channel, and what follows it. *)
ChannelMoves == {<<"dialling", "RINGING", "ringing">>, <<"ringing", "ANSWERED", "up">>,
                 <<"dialling", "FAILED", "over">>, <<"ringing", "FAILED", "over">>, <<"up", "ENDED", "over">>}

\* Mutant: a failed call is not an end.
TerminalAnsweredOnly == {"ENDED"}

Terminal == {"ENDED", "FAILED"}

(* The handler of all test calls, when it knows the channel. *)
TestEvent(c, move) ==
  /\ tests[c].channel = move[1]
  /\ tests' = [tests EXCEPT ![c].channel = move[3]]
  /\ IF c \in tracked /\ move[2] \in {"RINGING", "ANSWERED"} \cup Terminal
     THEN /\ writes' = [writes EXCEPT ![c] = @ \cup {move[2]}]
          /\ tracked' = IF move[2] \in Terminal THEN tracked \ {c} ELSE tracked
          /\ UNCHANGED missed
     ELSE /\ missed' = [missed EXCEPT ![c] = IF c \in tracked THEN @ ELSE @ \cup {move[2]}]
          /\ UNCHANGED <<writes, tracked>>
  /\ OfTalks

RowAfter(event) == CASE event = "RINGING" -> "RINGING"
                     [] event = "ANSWERED" -> "IN_PROGRESS"
                     [] event = "ENDED" -> "COMPLETED"
                     [] event = "FAILED" -> "FAILED"

(* Updates of one row under way at once are applied in any order; one that *)
(* is late is marked as such.                                              *)
ApplyTestEvent(c, event) ==
  /\ event \in writes[c]
  /\ writes' = [writes EXCEPT ![c] = @ \ {event}]
  /\ missed' = IF tests[c].row \in LiveStatus THEN missed ELSE [missed EXCEPT ![c] = @ \cup {"crossed"}]
  /\ tests' = [tests EXCEPT ![c].row = RowAfter(event)]
  /\ UNCHANGED tracked /\ OfTalks

TestUpdateFails(c, event) ==
  /\ event \in writes[c] /\ Mishap
  /\ writes' = [writes EXCEPT ![c] = @ \ {event}]
  /\ missed' = [missed EXCEPT ![c] = @ \cup {event}]
  /\ UNCHANGED <<tests, tracked, talks>>

(* A restart forgets what was tracked and what was being said. *)
RestartApi ==
  /\ Mishap /\ tracked' = {}
  /\ missed' = [c \in TestCalls |-> missed[c] \cup writes[c]]
  /\ writes' = [c \in TestCalls |-> {}]
  /\ tests' = [c \in TestCalls |-> IF tests[c].at \in {"dialled", "created"} THEN [tests[c] EXCEPT !.at = "lost"] ELSE tests[c]]
  /\ talks' = [s \in Simulations |-> IF talks[s].at = "talking" THEN [talks[s] EXCEPT !.at = "failed"] ELSE talks[s]]

----------------------------------------------------------------------------
(* The simulation: a row that looks like a call, a greeting, and a turn    *)
(* for each utterance until one ends the call.  A turn that fails leaves   *)
(* the row as it is.                                                       *)
StartTalk(s, said) ==
  /\ talks[s].at = "idle"
  /\ talks' = [talks EXCEPT ![s] = [at |-> "talking", row |-> "IN_PROGRESS", turns |-> 0, said |-> said]]
  /\ UNCHANGED mishaps /\ OfTests

TalkTurn(s) ==
  /\ talks[s].at = "talking" /\ talks[s].turns <= talks[s].said
  /\ talks' = [talks EXCEPT ![s].turns = @ + 1]
  /\ UNCHANGED mishaps /\ OfTests

EndTalk(s, status) ==
  /\ talks[s].at = "talking" /\ talks[s].turns > 0
  /\ talks[s].turns > talks[s].said \/ talks[s].turns > 1
  /\ status = "ESCALATED" => talks[s].turns > 1
  /\ talks' = [talks EXCEPT ![s].at = "done", ![s].row = status]
  /\ UNCHANGED mishaps /\ OfTests

TalkFails(s) ==
  /\ talks[s].at = "talking" /\ Mishap
  /\ talks' = [talks EXCEPT ![s].at = "failed"]
  /\ OfTests

(* Rows that nothing has written for long are closed. *)
ReconcileTest(c) ==
  /\ tests[c].row \in LiveStatus /\ tests[c].channel = "over" /\ writes[c] = {}
  /\ tests' = [tests EXCEPT ![c].row = "FAILED"]
  /\ UNCHANGED <<tracked, writes, missed>> /\ OfTalks

ReconcileTalk(s) ==
  /\ talks[s].row = "IN_PROGRESS" /\ talks[s].at = "failed"
  /\ talks' = [talks EXCEPT ![s].row = "FAILED"]
  /\ UNCHANGED mishaps /\ OfTests

AdminNext ==
  \/ \E c \in TestCalls :
       \/ DialTest(c) \/ CreateTestCall(c) \/ ReconcileTest(c)
       \/ \E old \in SUBSET tracked : TrackTestCall(c, old)
       \/ \E move \in ChannelMoves : TestEvent(c, move)
       \/ \E event \in writes[c] : ApplyTestEvent(c, event) \/ TestUpdateFails(c, event)
  \/ RestartApi
  \/ \E s \in Simulations :
       \/ \E said \in 1..MaxUtterances : StartTalk(s, said)
       \/ TalkTurn(s) \/ TalkFails(s) \/ ReconcileTalk(s)
       \/ \E status \in {"COMPLETED", "ESCALATED"} : EndTalk(s, status)

AdminSpec == AdminInit /\ [][AdminNext]_adminVars

----------------------------------------------------------------------------
(* Every part of the state has its type. *)
AdminTypeOK ==
  /\ tracked \subseteq {c \in TestCalls : tests[c].at = "tracked"}
  /\ \A c \in TestCalls : writes[c] \subseteq {"RINGING", "ANSWERED"} \cup Terminal

(***************************************************************************)
(* A row of a test call that is still live when its channel is over and no *)
(* update is under way has a cause: the end came before the call was       *)
(* tracked or after it was forgotten, its update failed, or an earlier one *)
(* landed after it.  A simulation leaves a live row only by failing        *)
(* (test-call.ts:36-64, 115-140, simulate-conversation.ts:33-125).         *)
(***************************************************************************)
LiveRowHasACause ==
  /\ \A c \in TestCalls :
       (/\ tests[c].row \in LiveStatus /\ tests[c].channel = "over"
        /\ writes[c] = {} /\ tests[c].at = "tracked")
       => missed[c] \cap {"ENDED", "FAILED", "crossed"} # {}
  /\ \A s \in Simulations : talks[s].row = "IN_PROGRESS" => talks[s].at \in {"talking", "failed"}
=============================================================================
