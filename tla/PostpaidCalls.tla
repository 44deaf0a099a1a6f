--------------------------- MODULE PostpaidCalls ---------------------------
(***************************************************************************)
(* Calls that are known only once they happen and are charged when they    *)
(* end: calls coming in from a trunk (services/inboundCallRouter) and calls *)
(* dialled on a phone, reported by the dial plan (services/webphoneCdr).   *)
(*                                                                         *)
(* The adapter does not wait for a handler, so the handlers of one call    *)
(* run side by side; tasks[c] holds what each is about to do after an      *)
(* await.  A database write and the code it resumes are one step.          *)
(***************************************************************************)
EXTENDS Billing, FiniteSets

CONSTANTS Inbound,         \* calls that come in from a trunk
          Phone,           \* calls dialled on a phone
          Price,           \* the tenant's PriceConfig
          Talks,           \* how long, in seconds, an answered call may last
          InitialBalances, \* what balanceCents may be before the first call
          CreditLimit,     \* creditLimitCents
          MaxFaults        \* bound: failed writes, lost events and crashes

Calls == Inbound \cup Phone

ASSUME PostpaidAssumption ==
  /\ Inbound \cap Phone = {}
  /\ Price \in PriceConfig
  /\ Talks \subseteq Nat \ {0}
  /\ InitialBalances \subseteq Int
  /\ CreditLimit \in Nat
  /\ MaxFaults \in Nat

VARIABLES
  chan,    \* the channel of call c
  ring,    \* the extensions that ring for it
  talk,    \* seconds between the answer and the end; negative: the end was first
  tasks,   \* handlers that are awaiting
  row,     \* the Call row
  stale,   \* rows reconcileStaleCalls has read and not yet written
  balance, \* Tenant.balanceCents
  taken,   \* history: cents taken from the balance for call c
  ledger,  \* CALL_CHARGE rows of call c and their sum
  history  \* what happened to call c that the properties excuse

vars == <<chan, ring, talk, tasks, row, stale, balance, taken, ledger, history>>

CostOf(secs) == ComputeCallCost(secs, Price)

Row == [status: {"NONE", "RINGING", "IN_PROGRESS", "COMPLETED", "NO_ANSWER",
                 "FAILED"},
        answered: BOOLEAN, billed: Nat]
OpenStatus == {"NONE", "RINGING", "IN_PROGRESS"}

\* n tells apart the two terminal events, or the two deliveries of a CDR; secs
\* and answered are what the handler has read so far.
Steps == {"open", "mark", "find", "claim", "cdr", "create", "reserve", "debit",
          "record"}
Task == [k: Steps, n: {1, 2}, secs: Nat, answered: BOOLEAN]
New(kind, n) == [k |-> kind, n |-> n, secs |-> 0, answered |-> FALSE]
TasksOf(c, kind) == {t \in tasks[c] : t.k = kind}

Closed == {c \in Calls : row[c].status \notin OpenStatus}
Faults == history.lost + history.writes + history.crashes

Init ==
  /\ chan = [c \in Calls |-> "none"]
  /\ ring = [c \in Calls |-> "none"]
  /\ talk = [c \in Calls |-> 0]
  /\ tasks = [c \in Calls |-> {}]
  /\ row = [c \in Calls |-> [status |-> "NONE", answered |-> FALSE, billed |-> 0]]
  /\ stale = {}
  /\ balance \in InitialBalances
  /\ taken = [c \in Calls |-> 0]
  /\ ledger = [c \in Calls |-> [rows |-> 0, sum |-> 0]]
  /\ history = [late |-> {}, reconciled |-> {}, lost |-> 0, writes |-> 0,
                crashes |-> 0]

Done(c, t) == tasks' = [tasks EXCEPT ![c] = @ \ {t}]
Then(c, t, u) == tasks' = [tasks EXCEPT ![c] = (@ \ {t}) \cup {u}]
Started(c, ts) == tasks' = [tasks EXCEPT ![c] = @ \cup ts]

MoneyKept == UNCHANGED <<balance, taken, ledger>>
World == UNCHANGED <<chan, ring, talk>>

-----------------------------------------------------------------------------
(* The trunk, the extensions and the phones.                               *)

TrunkStep == UNCHANGED <<row, stale, history>> /\ MoneyKept

\* StasisStart of a routed call, and perhaps the same event again.
CallComesIn(c) ==
  /\ c \in Inbound /\ chan[c] \in {"none", "up"}
  /\ New("open", 1) \notin tasks[c]
  /\ chan' = [chan EXCEPT ![c] = "up"]
  /\ Started(c, {New("open", 1)})
  /\ UNCHANGED <<ring, talk>> /\ TrunkStep

\* A leg of the ring group answers; the legs ring on after the caller is gone.
LegAnswers(c) ==
  /\ ring[c] = "ringing"
  /\ ring' = [ring EXCEPT ![c] = "answered"]
  /\ talk' = IF chan[c] = "gone" THEN [talk EXCEPT ![c] = -1] ELSE talk
  /\ Started(c, {New("mark", 1)})
  /\ UNCHANGED chan /\ TrunkStep

NobodyAnswers(c) ==
  /\ ring[c] = "ringing"
  /\ ring' = [ring EXCEPT ![c] = "failed"]
  /\ UNCHANGED <<chan, talk, tasks>> /\ TrunkStep

\* StasisEnd and ChannelDestroyed: two terminal events, handled side by side.
TrunkHangsUp(c) ==
  /\ c \in Inbound /\ chan[c] = "up"
  /\ chan' = [chan EXCEPT ![c] = "gone"]
  /\ \E s \in (IF ring[c] = "answered" THEN Talks ELSE {0}) :
       talk' = [talk EXCEPT ![c] = s]
  /\ Started(c, {New("find", 1), New("find", 2)})
  /\ UNCHANGED ring /\ TrunkStep

\* The dial plan's hang-up handler posts the CDR, and may deliver it twice.
PhoneHangsUp(c) ==
  /\ c \in Phone /\ chan[c] = "none"
  /\ chan' = [chan EXCEPT ![c] = "gone"]
  /\ \E s \in Talks \cup {0} : talk' = [talk EXCEPT ![c] = s]
  /\ Started(c, {New("cdr", 1)})
  /\ UNCHANGED ring /\ TrunkStep

CdrAgain(c) ==
  /\ c \in Phone /\ chan[c] = "gone"
  /\ chan' = [chan EXCEPT ![c] = "repeated"]
  /\ Started(c, {New("cdr", 2)})
  /\ UNCHANGED <<ring, talk>> /\ TrunkStep

-----------------------------------------------------------------------------
(* The record of an incoming call.                                         *)

\* Mutant: the upsert puts a row that exists back to its first state.
OpenRowAgain(c) ==
  \E t \in TasksOf(c, "open") :
    /\ row' = IF c \in Closed THEN row
              ELSE [row EXCEPT ![c].status = "RINGING", ![c].answered = FALSE]
    /\ ring' = IF chan[c] = "up" /\ ring[c] = "none"
               THEN [ring EXCEPT ![c] = "ringing"] ELSE ring
    /\ Done(c, t)
    /\ UNCHANGED <<chan, talk, stale, history>> /\ MoneyKept

\* openInboundCall's upsert; handleInboundCall then rings the extensions if the
\* channel is still there.
OpenRow(c) ==
  \E t \in TasksOf(c, "open") :
    /\ row' = IF row[c].status = "NONE"
              THEN [row EXCEPT ![c].status = "RINGING"] ELSE row
    /\ ring' = IF chan[c] = "up" /\ ring[c] = "none"
               THEN [ring EXCEPT ![c] = "ringing"] ELSE ring
    /\ Done(c, t)
    /\ UNCHANGED <<chan, talk, stale, history>> /\ MoneyKept

\* markInboundAnswered.  late: a terminal event had already been read.
MarkAnswered(c) ==
  \E t \in TasksOf(c, "mark") :
    /\ row' = IF row[c].status = "RINGING"
              THEN [row EXCEPT ![c].status = "IN_PROGRESS", ![c].answered = TRUE]
              ELSE row
    /\ history' = IF chan[c] = "gone"
                  THEN [history EXCEPT !.late = @ \cup {c}] ELSE history
    /\ Done(c, t)
    /\ UNCHANGED stale /\ World /\ MoneyKept

\* Mutant: the channel's own duration, which counts the ringing.
WholeDuration(c) == IF talk[c] > 0 THEN talk[c] ELSE 1

\* Math.max(0, Math.ceil(endedAt - answeredAt)), or nothing without an answer.
BilledSecs(c) == IF row[c].answered /\ talk[c] > 0 THEN talk[c] ELSE 0

\* closeInboundCall reads the row and works out the seconds to bill.
FindRow(c) ==
  \E t \in TasksOf(c, "find") :
    /\ IF row[c].status = "NONE" THEN Done(c, t)
       ELSE Then(c, t, [t EXCEPT !.k = "claim", !.answered = row[c].answered,
                                 !.secs = BilledSecs(c)])
    /\ UNCHANGED <<row, stale, history>> /\ World /\ MoneyKept

\* What comes after the row is final: the charge, unless there is none.
Charge(c, t) ==
  IF CostOf(t.secs) > 0 THEN Then(c, t, [t EXCEPT !.k = "reserve"]) ELSE Done(c, t)

Claimed(c, t) ==
  row' = [row EXCEPT ![c].status = IF t.answered THEN "COMPLETED" ELSE "NO_ANSWER",
                     ![c].billed = t.secs]

\* Mutant: the row is closed whatever its status is.
ClaimUnguarded(c) ==
  \E t \in TasksOf(c, "claim") :
    /\ Claimed(c, t) /\ Charge(c, t)
    /\ UNCHANGED <<stale, history>> /\ World /\ MoneyKept

\* The guarded updateMany: only the handler that closes the row charges.
Claim(c) ==
  \E t \in TasksOf(c, "claim") :
    /\ IF row[c].status \in OpenStatus THEN Claimed(c, t) /\ Charge(c, t)
       ELSE Done(c, t) /\ UNCHANGED row
    /\ UNCHANGED <<stale, history>> /\ World /\ MoneyKept

-----------------------------------------------------------------------------
(* The record of a phone call.                                             *)

\* The seconds of conversation in the CDR.
ReportedSecs(c) == IF talk[c] > 0 THEN talk[c] ELSE 0

FindCdr(c) ==
  \E t \in TasksOf(c, "cdr") :
    /\ IF row[c].status = "NONE"
       THEN Then(c, t, [t EXCEPT !.k = "create", !.secs = ReportedSecs(c),
                                 !.answered = ReportedSecs(c) > 0])
       ELSE Done(c, t)
    /\ UNCHANGED <<row, stale, history>> /\ World /\ MoneyKept

\* yeastarCallId is unique: of two creations one is refused, and throws.
CreateCdr(c) ==
  \E t \in TasksOf(c, "create") :
    /\ IF row[c].status = "NONE" THEN Claimed(c, t) /\ Charge(c, t)
       ELSE Done(c, t) /\ UNCHANGED row
    /\ UNCHANGED <<stale, history>> /\ World /\ MoneyKept

-----------------------------------------------------------------------------
(* The charge, the same in both files.                                     *)

TakeFrom(c, cents) ==
  /\ balance' = balance - cents
  /\ taken' = [taken EXCEPT ![c] = @ + cents]

\* Mutant: a balance that does not reach lets the charge go.
ReserveCostOrDrop(c) ==
  \E t \in TasksOf(c, "reserve") :
    /\ IF CanReserve(balance, CreditLimit, CostOf(t.secs))
       THEN TakeFrom(c, CostOf(t.secs)) /\ Then(c, t, [t EXCEPT !.k = "record"])
       ELSE UNCHANGED <<balance, taken>> /\ Done(c, t)
    /\ UNCHANGED <<row, stale, ledger, history>> /\ World

ReserveCost(c) ==
  \E t \in TasksOf(c, "reserve") :
    /\ IF CanReserve(balance, CreditLimit, CostOf(t.secs))
       THEN TakeFrom(c, CostOf(t.secs)) /\ Then(c, t, [t EXCEPT !.k = "record"])
       ELSE UNCHANGED <<balance, taken>> /\ Then(c, t, [t EXCEPT !.k = "debit"])
    /\ UNCHANGED <<row, stale, ledger, history>> /\ World

\* The call has happened: it is charged into the negative.
DebitCost(c) ==
  \E t \in TasksOf(c, "debit") :
    /\ TakeFrom(c, CostOf(t.secs))
    /\ Then(c, t, [t EXCEPT !.k = "record"])
    /\ UNCHANGED <<row, stale, ledger, history>> /\ World

RecordCharge(c) ==
  \E t \in TasksOf(c, "record") :
    /\ ledger' = [ledger EXCEPT ![c] = [rows |-> @.rows + 1,
                                        sum |-> @.sum + CostOf(t.secs)]]
    /\ Done(c, t)
    /\ UNCHANGED <<row, stale, balance, taken, history>> /\ World

-----------------------------------------------------------------------------
(* The worker and the failures.                                            *)

\* Mutant: only calls in progress are looked for.
ReadStaleInProgress(c) ==
  /\ c \in Inbound /\ c \notin stale /\ row[c].status = "IN_PROGRESS"
  /\ stale' = stale \cup {c}
  /\ history' = [history EXCEPT !.reconciled = @ \cup {c}]
  /\ UNCHANGED <<tasks, row>> /\ World /\ MoneyKept

\* reconcileStaleCalls reads rows that have been ringing for ten minutes, which
\* no ring group lasts, or in progress for six hours, and then closes them
\* whatever they are by then.
ReadStale(c) ==
  /\ c \in Inbound /\ c \notin stale
  /\ \/ /\ row[c].status = "RINGING" /\ tasks[c] = {}
        /\ chan[c] = "gone" \/ ring[c] # "ringing"
     \/ row[c].status = "IN_PROGRESS"
  /\ stale' = stale \cup {c}
  /\ history' = [history EXCEPT !.reconciled = @ \cup {c}]
  /\ UNCHANGED <<tasks, row>> /\ World /\ MoneyKept

WriteStale(c) ==
  /\ c \in stale
  /\ row' = [row EXCEPT ![c].status = "FAILED"]
  /\ stale' = stale \ {c}
  /\ UNCHANGED <<tasks, history>> /\ World /\ MoneyKept

\* A write or a read of the database fails: the handler logs and stops.
StepFails(c) ==
  /\ Faults < MaxFaults
  /\ \E t \in tasks[c] : Done(c, t)
  /\ history' = [history EXCEPT !.writes = @ + 1]
  /\ UNCHANGED <<row, stale>> /\ World /\ MoneyKept

\* The ARI web socket was down when the trunk hung up.
HangupIsMissed(c) ==
  /\ Faults < MaxFaults
  /\ c \in Inbound /\ chan[c] = "up"
  /\ chan' = [chan EXCEPT ![c] = "gone"]
  /\ history' = [history EXCEPT !.lost = @ + 1]
  /\ UNCHANGED <<ring, talk, tasks, row, stale>> /\ MoneyKept

Crash ==
  /\ Faults < MaxFaults
  /\ tasks' = [c \in Calls |-> {}]
  /\ ring' = [c \in Calls |-> IF ring[c] = "ringing" THEN "failed" ELSE ring[c]]
  /\ history' = [history EXCEPT !.crashes = @ + 1]
  /\ UNCHANGED <<chan, talk, row, stale>> /\ MoneyKept

-----------------------------------------------------------------------------
Environment(c) == \/ CallComesIn(c) \/ LegAnswers(c) \/ NobodyAnswers(c)
                  \/ TrunkHangsUp(c) \/ PhoneHangsUp(c) \/ CdrAgain(c)

Handler(c) == \/ OpenRow(c) \/ MarkAnswered(c) \/ FindRow(c) \/ Claim(c)
              \/ FindCdr(c) \/ CreateCdr(c) \/ ReserveCost(c) \/ DebitCost(c)
              \/ RecordCharge(c)

Next == \/ \E c \in Calls : \/ Environment(c) \/ Handler(c) \/ ReadStale(c)
                            \/ WriteStale(c) \/ StepFails(c) \/ HangupIsMissed(c)
        \/ Crash

Spec == Init /\ [][Next]_vars

\* Node resumes every handler and the worker runs every few minutes.  Nothing is
\* assumed of callers and phones.
Fairness == \A c \in Calls : /\ WF_vars(Handler(c))
                             /\ WF_vars(ReadStale(c)) /\ WF_vars(WriteStale(c))

FairSpec == Spec /\ Fairness

-----------------------------------------------------------------------------
(* Correctness.                                                            *)

TypeOK ==
  /\ chan \in [Calls -> {"none", "up", "gone", "repeated"}]
  /\ ring \in [Calls -> {"none", "ringing", "answered", "failed"}]
  /\ talk \in [Calls -> Int]
  /\ tasks \in [Calls -> SUBSET Task]
  /\ row \in [Calls -> Row]
  /\ stale \subseteq Inbound
  /\ balance \in Int
  /\ taken \in [Calls -> Nat]
  /\ ledger \in [Calls -> [rows: Nat, sum: Nat]]
  /\ history \in [late: SUBSET Calls, reconciled: SUBSET Calls, lost: Nat,
                  writes: Nat, crashes: Nat]

\* What the rows say the calls cost.
Bill == [c \in Calls |-> CostOf(row[c].billed)]

\* Both kinds of call are charged as PostpaidCharge promises, whatever is
\* delivered twice, runs side by side, fails or is interrupted by a restart: at
\* most once, for the bill the closed row states.
Promise == INSTANCE PostpaidCharge WITH closed <- Closed, bill <- Bill

ImplementsPromise == Promise!Spec

\* Only conversation is charged: not the ringing, not a call nobody answered.
OnlyConversationIsCharged ==
  \A c \in Calls : taken[c] > 0 => talk[c] > 0 /\ taken[c] = CostOf(talk[c])

\* An answered call that is closed is billed for its conversation, unless the
\* answer was written after the end had been read, the call was closed as stale,
\* or something failed.
AnsweredCallIsBilled ==
  \A c \in Closed :
    talk[c] > 0 =>
      \/ row[c].billed = talk[c]
      \/ TasksOf(c, "mark") # {} \/ c \in history.late \cup history.reconciled
      \/ Faults > 0

\* Money that left the balance has its CALL_CHARGE row, or soon will, unless the
\* handler failed or was interrupted between the two.
LedgerFollowsMoney ==
  \A c \in Calls :
    \/ ledger[c].sum = taken[c]
    \/ TasksOf(c, "record") # {}
    \/ history.writes + history.crashes > 0

\* The books of the postpaid calls agree: a record that closed has a bill, and what
\* left the balance is what the ledger says.
BillsAreSound == TypeOK /\ AnsweredCallIsBilled /\ LedgerFollowsMoney

\* The bill of a closed call is taken in the end.
BillIsTaken ==
  \A c \in Calls :
    c \in Closed /\ CostOf(row[c].billed) > 0 ~> taken[c] > 0 \/ Faults > 0

\* A call that is over does not stay open, though its hang-up may have come
\* before its row was written, or been lost.
EndedCallIsClosed ==
  \A c \in Inbound :
    chan[c] = "gone" /\ row[c].status # "NONE" ~> c \in Closed
=============================================================================
