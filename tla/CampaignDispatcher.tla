------------------------- MODULE CampaignDispatcher -------------------------
(***************************************************************************)
(* One campaign: the dispatcher's passes over it, the routes that start,   *)
(* pause and cancel it, and settleCampaignContact at the end of each call. *)
(*                                                                         *)
(* A pass is processCampaign, started by the 30-second timer or at once by *)
(* a route; nothing keeps two from running together.  pc names the await a *)
(* pass, a request or a call's end is at; each database write and the code *)
(* it resumes are one step.  The engine's side of a call is reduced to     *)
(* what the dispatcher sees of it: CallEngine has the detail.              *)
(***************************************************************************)
EXTENDS Billing, Sequences, FiniteSets

CONSTANTS Contacts,        \* contacts of the campaign
          Modes,           \* modes the campaign may have
          Plan,            \* the PriceConfig of tenant and plan
          MaxCallSeconds,  \* agent.maxCallSeconds
          MaxConcurrent,   \* tenant.maxConcurrent
          Throttle,        \* campaign.throttlePerMinute
          MaxAttempts,     \* retryPolicy.maxAttempts, 0 without a policy
          RetryOn,         \* retryPolicy.retryOn
          InitialBalances, \* what balanceCents may be before the first call
          CreditLimit,     \* creditLimitCents
          Outcomes,        \* bound: statuses a call may end with
          MayOptOut,       \* bound: contacts that may opt out meanwhile
          Passes,          \* bound: passes that may be under way together
          MaxCalls,        \* bound: calls the provider accepts
          MaxRequests,     \* bound: requests to the campaign's routes
          MaxFaults        \* bound: failed writes and crashes

ASSUME MoneyAssumption ==
  /\ Plan \in PriceConfig
  /\ MaxCallSeconds \in Nat
  /\ CreditLimit \in Nat
  /\ InitialBalances \subseteq {b \in Int : b + CreditLimit >= 0}

ASSUME DispatchAssumption ==
  /\ IsFiniteSet(Contacts) /\ IsFiniteSet(Passes)
  /\ Modes \subseteq {"VOICE_AI", "FIXED_SCRIPT"}
  /\ Outcomes \subseteq {"COMPLETED", "ESCALATED", "NO_ANSWER", "FAILED"}
  /\ MayOptOut \subseteq Contacts
  /\ MaxConcurrent \in Nat /\ Throttle \in Nat /\ MaxAttempts \in Nat
  /\ MaxCalls \in Nat /\ MaxRequests \in Nat /\ MaxFaults \in Nat

VARIABLES
  mode,     \* campaign.mode
  campaign, \* campaign.status
  contacts, \* the CampaignContact rows
  optedOut, \* Contact.optedOutAt is set
  calls,    \* the calls the provider accepted, in order
  balance,  \* Tenant.balanceCents
  passes,   \* processCampaign runs under way
  request,  \* the route handler under way
  history   \* what happened: passes that overlapped, retries, failures

vars == <<mode, campaign, contacts, optedOut, calls, balance, passes, request,
          history>>

-----------------------------------------------------------------------------
CampaignStatus == {"DRAFT", "RUNNING", "PAUSED", "DONE", "CANCELLED"}
ContactStatus == {"PENDING", "IN_PROGRESS", "COMPLETED", "FAILED"}
ActiveStatus == {"DIALING"}
Ops == {"start", "pause", "resume", "cancel", "retry"}

\* A script call is sold by the call, whatever the plan says.
Price == IF mode = "FIXED_SCRIPT"
         THEN [billingMode |-> "PER_CALL", pricePerMinuteCents |-> 0,
               pricePerCallCents |-> Plan.pricePerCallCents]
         ELSE Plan
EstimatedCost == ComputeReservation(MaxCallSeconds, Price)

\* call = 0 is a null callId; later: nextRetryAt is in the future.
Contact == [status: ContactStatus, call: Nat, attempts: Nat, later: BOOLEAN]

\* row is NONE until the Call row exists; session: what the engine has of it;
\* hook: how far settleCampaignContact is, or what it will write; returns: how often its
\* reservation was given back; charged: its CALL_CHARGE rows.
Call == [contact: Contacts,
         row: ActiveStatus \cup {"NONE", "COMPLETED", "ESCALATED", "NO_ANSWER",
                                 "FAILED"},
         session: {"none", "missed", "live", "stranded", "over"},
         hook: {"none", "find", "PENDING", "COMPLETED", "FAILED", "unmatched",
                "done"},
         returns: Nat, charged: Nat]

\* seen: the balance read with the campaign; slots: contacts it may take; todo:
\* those it read and has not come to, with their attempts; cur: the one it is
\* at; call: the call it made, an index of calls.
NoOne == [contact |-> "none", attempts |-> 0]
IdlePass == [pc |-> "idle", seen |-> 0, slots |-> 0, todo |-> {}, cur |-> NoOne,
             call |-> 0]
PassSteps == {"idle", "line", "count", "find", "next", "dial", "create",
              "register", "mark", "script", "scriptSettle", "scriptMark",
              "refund", "failMark", "remaining", "done", "pause"}
Pending == [contact: Contacts, attempts: Nat]
Pass == [pc: PassSteps, seen: Int, slots: Nat, todo: SUBSET Pending,
         cur: Pending \cup {NoOne}, call: Nat]

NoRequest == "none"
ActiveCalls == {i \in DOMAIN calls : calls[i].row \in ActiveStatus}
Open(c) == contacts[c].status \in {"PENDING", "IN_PROGRESS"}
LiveCallsOf(c) ==
  {i \in DOMAIN calls : calls[i].contact = c /\ calls[i].session = "live"}

CanFail == history.writes + history.crashes < MaxFaults

-----------------------------------------------------------------------------
Init ==
  /\ mode \in Modes
  /\ campaign \in {"DRAFT", "RUNNING"}
  /\ contacts = [c \in Contacts |-> [status |-> "PENDING", call |-> 0,
                                     attempts |-> 0, later |-> FALSE]]
  /\ optedOut = [c \in Contacts |-> FALSE]
  /\ calls = <<>>
  /\ balance \in InitialBalances
  /\ passes = [p \in Passes |-> IdlePass]
  /\ request = NoRequest
  /\ history = [requests |-> 0, overlap |-> FALSE, retried |-> FALSE,
                writes |-> 0, crashes |-> 0]

-----------------------------------------------------------------------------
(* processCampaign, up to the contacts it will call.                       *)

At(p, step) == passes[p].pc = step
Goto(p, step) == passes' = [passes EXCEPT ![p].pc = step]
GotoNext(p) == passes' = [passes EXCEPT ![p].pc = "next", ![p].cur = NoOne,
                                        ![p].call = 0]
Finish(p) == passes' = [passes EXCEPT ![p] = IdlePass]

\* tick and processNow read RUNNING campaigns with the tenant's balance.
StartPass(p) ==
  /\ At(p, "idle")
  /\ campaign = "RUNNING"
  /\ passes' = [passes EXCEPT ![p] = [IdlePass EXCEPT !.pc = "line",
                                                      !.seen = balance]]
  /\ history' = [history EXCEPT !.overlap =
                   @ \/ \E q \in Passes \ {p} : ~At(q, "idle")]
  /\ UNCHANGED <<mode, campaign, contacts, optedOut, calls, balance, request>>

Quiet == UNCHANGED <<mode, optedOut, request, history>>
OnlyPass == UNCHANGED <<campaign, contacts, calls, balance>> /\ Quiet

OutsideWindow(p) ==
  /\ At(p, "line")
  /\ Finish(p)
  /\ OnlyPass

\* Without a line, or with a balance too low for one call, the campaign is
\* paused.
CheckCampaign(p) ==
  /\ At(p, "line")
  /\ \/ passes' = [passes EXCEPT ![p].seen = 0, ![p].pc = "pause"]
     \/ passes' = [passes EXCEPT ![p].seen = 0, ![p].pc =
                     IF passes[p].seen + CreditLimit < EstimatedCost
                        /\ EstimatedCost > 0 THEN "pause" ELSE "count"]
  /\ OnlyPass

Pause(p) ==
  /\ At(p, "pause")
  /\ campaign' = "PAUSED"
  /\ Finish(p)
  /\ UNCHANGED <<contacts, calls, balance>> /\ Quiet

Smaller(a, b) == IF a < b THEN a ELSE b

CountActive(p) ==
  /\ At(p, "count")
  /\ LET active == Cardinality(ActiveCalls)
     IN IF active >= MaxConcurrent THEN Finish(p)
        ELSE passes' = [passes EXCEPT ![p].pc = "find",
               ![p].slots = Smaller(MaxConcurrent - active, Throttle)]
  /\ OnlyPass

\* Mutant: the query leaves only failed contacts out.
EligibleUnlessFailed == {c \in Contacts : /\ contacts[c].status # "FAILED"
                                          /\ ~contacts[c].later
                                          /\ ~optedOut[c]}

Eligible == {c \in Contacts : /\ contacts[c].status = "PENDING"
                              /\ ~contacts[c].later
                              /\ ~optedOut[c]}

Snapshot(S) == {[contact |-> c, attempts |-> contacts[c].attempts] : c \in S}

\* Mutant: the query takes every contact, not as many as there are slots.
FindPendingWithoutTake(p) ==
  /\ At(p, "find")
  /\ passes' = [passes EXCEPT ![p].pc = "next", ![p].slots = 0,
                              ![p].todo = Snapshot(Eligible)]
  /\ OnlyPass

\* The query takes as many as there are slots, in no order.  A script that
\* cannot be synthesised pauses the campaign.
FindPending(p) ==
  /\ At(p, "find")
  /\ \/ \E S \in SUBSET Eligible :
          /\ Cardinality(S) = Smaller(passes[p].slots, Cardinality(Eligible))
          /\ passes' = [passes EXCEPT ![p].pc = "next", ![p].slots = 0,
                                      ![p].todo = Snapshot(S)]
     \/ mode = "FIXED_SCRIPT" /\ Goto(p, "pause")
  /\ OnlyPass

-----------------------------------------------------------------------------
(* dispatchContact and dispatchFixedScript.  They look at optedOutAt as it  *)
(* was when the contacts were read, and find it null.                       *)

CurContact(p) == passes[p].cur.contact

\* Mutant: the balance is read before and not in the UPDATE.
ReserveUnchecked(p, t) ==
  /\ balance' = AfterReserve(balance, EstimatedCost)
  /\ passes' = [passes EXCEPT ![p].pc = "dial", ![p].todo = @ \ {t},
                              ![p].cur = t]

\* A contact whose reservation is refused is skipped.
Reserve(p, t) ==
  IF CanReserve(balance, CreditLimit, EstimatedCost)
  THEN /\ balance' = AfterReserve(balance, EstimatedCost)
       /\ passes' = [passes EXCEPT ![p].pc = "dial", ![p].todo = @ \ {t},
                                   ![p].cur = t]
  ELSE /\ passes' = [passes EXCEPT ![p].todo = @ \ {t}]
       /\ UNCHANGED balance

NextContact(p) ==
  /\ At(p, "next")
  /\ \/ \E t \in passes[p].todo : Reserve(p, t)
     \/ passes[p].todo = {} /\ Goto(p, "remaining") /\ UNCHANGED balance
  /\ UNCHANGED <<campaign, contacts, calls>> /\ Quiet

NewCall(c) == [contact |-> c, row |-> "NONE", session |-> "none",
               hook |-> "none", returns |-> 0, charged |-> 0]

Dial(p) ==
  /\ At(p, "dial")
  /\ \/ /\ Len(calls) < MaxCalls
        /\ calls' = Append(calls, NewCall(CurContact(p)))
        /\ passes' = [passes EXCEPT ![p].call = Len(calls) + 1,
              ![p].pc = IF mode = "FIXED_SCRIPT" THEN "script" ELSE "create"]
     \/ Goto(p, "refund") /\ UNCHANGED calls
  /\ UNCHANGED <<campaign, contacts, balance>> /\ Quiet

Current(p) == passes[p].call

CreateCall(p) ==
  /\ At(p, "create")
  /\ calls' = [calls EXCEPT ![Current(p)].row = "DIALING"]
  /\ Goto(p, "register")
  /\ UNCHANGED <<campaign, contacts, balance>> /\ Quiet

\* registerCall catches its own failures.  A call that ended before this point
\* had its events dropped: the session waits for events that will not come.
Register(p) ==
  /\ At(p, "register")
  /\ calls' = [calls EXCEPT ![Current(p)].session =
                 IF @ = "missed" THEN "stranded" ELSE "live"]
  /\ Goto(p, "mark")
  /\ UNCHANGED <<campaign, contacts, balance>> /\ Quiet

Dispatched(p, status) ==
  contacts' = [contacts EXCEPT ![CurContact(p)].status = status,
                               ![CurContact(p)].call = Current(p),
                               ![CurContact(p)].attempts = @ + 1]

Mark(p) ==
  /\ At(p, "mark")
  /\ Dispatched(p, "IN_PROGRESS")
  /\ GotoNext(p)
  /\ UNCHANGED <<campaign, calls, balance>> /\ Quiet

(* A script call gets its row, COMPLETED, and is settled on the spot for    *)
(* zero billed seconds.                                                     *)

\* Its yeastarCallId names the campaign and the contact, and is unique: the row
\* of a script the contact has already heard refuses a second one.
ScriptCall(p) ==
  /\ At(p, "script")
  /\ IF \E i \in DOMAIN calls : /\ calls[i].contact = CurContact(p)
                                /\ calls[i].row # "NONE"
     THEN Goto(p, "refund") /\ UNCHANGED calls
     ELSE /\ calls' = [calls EXCEPT ![Current(p)].row = "COMPLETED"]
          /\ Goto(p, "scriptSettle")
  /\ UNCHANGED <<campaign, contacts, balance>> /\ Quiet

CostOf(secs) == ComputeCallCost(secs, Price)
Settle(secs) == balance' = balance + (EstimatedCost - CostOf(secs))
SettledCall(k, secs) == [k EXCEPT !.returns = @ + 1, !.charged = @ + CostOf(secs)]

ScriptSettle(p) ==
  /\ At(p, "scriptSettle")
  /\ Settle(0)
  /\ calls' = [calls EXCEPT ![Current(p)] = SettledCall(@, 0)]
  /\ Goto(p, "scriptMark")
  /\ UNCHANGED <<campaign, contacts>> /\ Quiet

ScriptMark(p) ==
  /\ At(p, "scriptMark")
  /\ Dispatched(p, "COMPLETED")
  /\ GotoNext(p)
  /\ UNCHANGED <<campaign, calls, balance>> /\ Quiet

(* The catch of both: give the reservation back, then schedule a retry or   *)
(* give the contact up.                                                     *)

Refund(p) ==
  /\ At(p, "refund")
  /\ balance' = balance + EstimatedCost
  /\ calls' = IF Current(p) = 0 THEN calls
              ELSE [calls EXCEPT ![Current(p)].returns = @ + 1]
  /\ Goto(p, "failMark")
  /\ UNCHANGED <<campaign, contacts>> /\ Quiet

\* Mutant: a failed dial is not counted as an attempt.
FailMarkUncounted(p) ==
  /\ At(p, "failMark")
  /\ contacts' = [contacts EXCEPT ![CurContact(p)] =
                    [@ EXCEPT !.status = "PENDING", !.call = 0, !.later = TRUE]]
  /\ GotoNext(p)
  /\ UNCHANGED <<campaign, calls, balance>> /\ Quiet

FailMark(p) ==
  /\ At(p, "failMark")
  /\ LET tried == passes[p].cur.attempts + 1
     IN contacts' = [contacts EXCEPT ![CurContact(p)] =
          IF MaxAttempts > 0 /\ tried < MaxAttempts
          THEN [status |-> "PENDING", call |-> 0, attempts |-> tried,
                later |-> TRUE]
          ELSE [@ EXCEPT !.status = "FAILED", !.attempts = tried]]
  /\ GotoNext(p)
  /\ UNCHANGED <<campaign, calls, balance>> /\ Quiet

(* The end of a pass.                                                       *)

Remaining == {c \in Contacts : contacts[c].status \in {"PENDING", "IN_PROGRESS"}}

CountRemaining(p) ==
  /\ At(p, "remaining")
  /\ IF Remaining # {} THEN Finish(p) ELSE Goto(p, "done")
  /\ OnlyPass

Done(p) ==
  /\ At(p, "done")
  /\ campaign' = "DONE"
  /\ Finish(p)
  /\ UNCHANGED <<contacts, calls, balance>> /\ Quiet

\* A failed write of a contact's dispatch goes to its catch; any other ends the
\* pass.
WriteFails(p) ==
  /\ CanFail
  /\ \/ /\ passes[p].pc \in {"create", "mark", "script", "scriptSettle", "scriptMark"}
        /\ Goto(p, "refund")
     \/ /\ passes[p].pc \in {"refund", "failMark", "done", "pause"}
        /\ Finish(p)
  /\ history' = [history EXCEPT !.writes = @ + 1]
  /\ UNCHANGED <<mode, campaign, contacts, optedOut, calls, balance, request>>

-----------------------------------------------------------------------------
(* The calls, as the engine sees them.                                      *)

CallStep == UNCHANGED <<mode, campaign, optedOut, passes, request, history>>

\* The call ends before its session is registered.
EndUnregistered(i) ==
  /\ mode = "VOICE_AI" /\ calls[i].session = "none"
  /\ calls' = [calls EXCEPT ![i].session = "missed"]
  /\ UNCHANGED <<contacts, balance>> /\ CallStep

\* Mutant: a call that is over may be settled again.
EndCallAgain(i) ==
  /\ calls[i].session \in {"live", "over"} /\ calls[i].returns < 2
  /\ calls' = [calls EXCEPT ![i] =
                 [SettledCall(@, 0) EXCEPT !.session = "over", !.row = "FAILED",
                                           !.hook = "find"]]
  /\ Settle(0)
  /\ UNCHANGED contacts /\ CallStep

Answered(status) == status \in {"COMPLETED", "ESCALATED"}

\* cleanupSession and settleCall; onCallEnded then starts settleCampaignContact.
EndCall(i) ==
  /\ calls[i].session = "live"
  /\ \E status \in Outcomes :
       LET secs == IF Answered(status) THEN MaxCallSeconds ELSE 0
       IN /\ calls' = [calls EXCEPT ![i] =
                         [SettledCall(@, secs) EXCEPT !.session = "over",
                                           !.row = status, !.hook = "find"]]
          /\ Settle(secs)
  /\ UNCHANGED contacts /\ CallStep

ContactOf(i) == {c \in Contacts : contacts[c].call = i}

Outcome(i, c) ==
  IF contacts[c].attempts < MaxAttempts /\ calls[i].row \in RetryOn
  THEN "PENDING"
  ELSE IF Answered(calls[i].row) THEN "COMPLETED" ELSE "FAILED"

\* The contact is looked up by callId.
HookFind(i) ==
  /\ calls[i].hook = "find"
  /\ \/ /\ ContactOf(i) = {}
        /\ calls' = [calls EXCEPT ![i].hook = "unmatched"]
     \/ \E c \in ContactOf(i) :
          calls' = [calls EXCEPT ![i].hook = Outcome(i, c)]
  /\ UNCHANGED <<contacts, balance>> /\ CallStep

\* Mutant: only retries are written to the contact.
HookWriteRetriesOnly(i) ==
  /\ calls[i].hook \in ContactStatus
  /\ contacts' = IF calls[i].hook # "PENDING" THEN contacts
                 ELSE [contacts EXCEPT ![calls[i].contact] =
                         [@ EXCEPT !.status = "PENDING", !.call = 0, !.later = TRUE]]
  /\ calls' = [calls EXCEPT ![i].hook = "done"]
  /\ UNCHANGED balance /\ CallStep

HookWrite(i) ==
  /\ calls[i].hook \in ContactStatus
  /\ LET h == calls[i].hook
     IN contacts' = [contacts EXCEPT ![calls[i].contact] =
          IF h = "PENDING"
          THEN [@ EXCEPT !.status = h, !.call = 0, !.later = TRUE]
          ELSE [@ EXCEPT !.status = h]]
  /\ calls' = [calls EXCEPT ![i].hook = "done"]
  /\ UNCHANGED balance /\ CallStep

\* settleCampaignContact fails and is logged.
HookFails(i) ==
  /\ calls[i].hook \in {"find"} \cup ContactStatus
  /\ CanFail
  /\ calls' = [calls EXCEPT ![i].hook = "done"]
  /\ history' = [history EXCEPT !.writes = @ + 1]
  /\ UNCHANGED <<mode, campaign, contacts, optedOut, balance, passes, request>>

\* reconcileStaleCalls: a row that nothing will update any more.
ReconcileStale(i) ==
  /\ calls[i].row \in ActiveStatus
  /\ calls[i].session \in {"none", "missed", "stranded"}
  /\ \A p \in Passes : ~(Current(p) = i /\ At(p, "register"))
  /\ calls' = [calls EXCEPT ![i].row = "FAILED"]
  /\ UNCHANGED <<contacts, balance>> /\ CallStep

-----------------------------------------------------------------------------
(* Contacts and the campaign's routes.                                      *)

OptOut(c) ==
  /\ c \in MayOptOut /\ ~optedOut[c]
  /\ optedOut' = [optedOut EXCEPT ![c] = TRUE]
  /\ UNCHANGED <<mode, campaign, contacts, calls, balance, passes, request, history>>

\* nextRetryAt comes.
RetryDue(c) ==
  /\ contacts[c].later
  /\ contacts' = [contacts EXCEPT ![c].later = FALSE]
  /\ UNCHANGED <<mode, campaign, optedOut, calls, balance, passes, request, history>>

Allowed(op) ==
  CASE op = "start" -> /\ campaign \in {"DRAFT", "PAUSED"}
                       /\ \E c \in Contacts : contacts[c].status = "PENDING"
    [] op = "pause" -> campaign = "RUNNING"
    [] op = "resume" -> campaign = "PAUSED"
    [] op = "cancel" -> campaign \notin {"DONE", "CANCELLED"}
    [] op = "retry" -> campaign \in {"DONE", "CANCELLED"}

\* A route reads the campaign, awaits, and writes it whatever it is by then.
\* start is also launch, which calls processNow: a pass may start at any time.
RouteReads(op) ==
  /\ request = NoRequest
  /\ history.requests < MaxRequests
  /\ Allowed(op)
  /\ request' = op
  /\ history' = [history EXCEPT !.requests = @ + 1]
  /\ UNCHANGED <<mode, campaign, contacts, optedOut, calls, balance, passes>>

AllPending == [c \in Contacts |-> [contacts[c] EXCEPT !.status = "PENDING"]]

Cancelled ==
  [c \in Contacts |-> IF contacts[c].status = "PENDING"
                      THEN [contacts[c] EXCEPT !.status = "FAILED"]
                      ELSE contacts[c]]

RouteWrites ==
  /\ \/ /\ request \in {"start", "resume", "retryRun"}
        /\ campaign' = "RUNNING" /\ request' = NoRequest
        /\ UNCHANGED <<contacts, history>>
     \/ /\ request = "pause"
        /\ campaign' = "PAUSED" /\ request' = NoRequest
        /\ UNCHANGED <<contacts, history>>
     \/ /\ request = "cancel"
        /\ campaign' = "CANCELLED" /\ request' = NoRequest
        /\ contacts' = Cancelled
        /\ UNCHANGED history
     \/ /\ request = "retry"
        /\ contacts' = AllPending /\ request' = "retryRun"
        /\ history' = [history EXCEPT !.retried = TRUE]
        /\ UNCHANGED campaign
  /\ UNCHANGED <<mode, optedOut, calls, balance, passes>>

\* The API restarts: passes, sessions and requests are gone.
Crash ==
  /\ CanFail
  /\ passes' = [p \in Passes |-> IdlePass]
  /\ calls' = [i \in DOMAIN calls |->
                 [calls[i] EXCEPT !.session = IF @ = "over" THEN @ ELSE "missed",
                                  !.hook = IF @ \in {"none", "unmatched"} THEN @ ELSE "done"]]
  /\ request' = NoRequest
  /\ history' = [history EXCEPT !.crashes = @ + 1]
  /\ UNCHANGED <<mode, campaign, contacts, optedOut, balance>>

-----------------------------------------------------------------------------
PassStep(p) ==
  \/ StartPass(p) \/ OutsideWindow(p) \/ CheckCampaign(p) \/ Pause(p)
  \/ CountActive(p) \/ FindPending(p) \/ NextContact(p) \/ Dial(p)
  \/ CreateCall(p) \/ Register(p) \/ Mark(p) \/ ScriptCall(p)
  \/ ScriptSettle(p) \/ ScriptMark(p) \/ Refund(p) \/ FailMark(p)
  \/ CountRemaining(p) \/ Done(p) \/ WriteFails(p)

CallEvent(i) ==
  \/ EndUnregistered(i) \/ EndCall(i) \/ HookFind(i) \/ HookWrite(i)
  \/ HookFails(i) \/ ReconcileStale(i)

Next ==
  \/ \E p \in Passes : PassStep(p)
  \/ \E i \in DOMAIN calls : CallEvent(i)
  \/ \E c \in Contacts : OptOut(c) \/ RetryDue(c)
  \/ \E op \in Ops : RouteReads(op)
  \/ RouteWrites
  \/ Crash

Spec == Init /\ [][Next]_vars

\* The timer starts passes, the window opens again and again, Node resumes every
\* await, calls and retry delays end, and the worker reconciles stale rows.
Fairness ==
  /\ \A p \in Passes :
       /\ SF_vars(CheckCampaign(p))
       /\ WF_vars(PassStep(p))
  /\ \A i \in 1 .. MaxCalls :
       WF_vars(i \in DOMAIN calls /\ (EndCall(i) \/ HookFind(i) \/ HookWrite(i)
                                       \/ ReconcileStale(i)))
  /\ \A c \in Contacts : WF_vars(RetryDue(c))

FairSpec == Spec /\ Fairness

-----------------------------------------------------------------------------
(* Correctness.                                                             *)

TypeOK ==
  /\ mode \in Modes
  /\ campaign \in CampaignStatus
  /\ contacts \in [Contacts -> Contact]
  /\ optedOut \in [Contacts -> BOOLEAN]
  /\ calls \in Seq(Call)
  /\ balance \in Int
  /\ passes \in [Passes -> Pass]
  /\ request \in Ops \cup {NoRequest, "retryRun"}
  /\ history \in [requests: Nat, overlap: BOOLEAN, retried: BOOLEAN,
                  writes: Nat, crashes: Nat]

\* However many passes work from an old balance, the tenant never goes beyond its
\* credit: reserveBalance checks it in the UPDATE, and no call that ends in time
\* costs more than its reservation.
CreditLimitHolds == balance + CreditLimit >= 0

\* A reservation comes back once: from the catch of a dial, or from the call's
\* settlement.  Both happen only if a write failed after the provider had
\* accepted the call.
ReservationReturnsOnce ==
  \A i \in DOMAIN calls : calls[i].returns > 1 => history.writes > 0

\* The dials a pass will still make without counting the active calls again.
Committed ==
  UNION {{p} \X (passes[p].todo \cup (IF passes[p].pc \in {"dial", "create"}
                                      THEN {passes[p].cur} ELSE {})) : p \in Passes}

\* maxConcurrent is compared once per pass: passes under way together multiply
\* it, and nothing exceeds that, the dials they are committed to included.
ConcurrencyOverrunIsBounded ==
  Cardinality(ActiveCalls) + Cardinality(Committed)
    <= MaxConcurrent * Cardinality(Passes)

\* A contact is on two calls at once only if two passes overlapped, a campaign
\* was repeated while its calls went on, or a write failed after the dial.
DialledTwiceHasACause ==
  \A c \in Contacts :
    Cardinality(LiveCallsOf(c)) > 1
      => history.overlap \/ history.retried \/ history.writes > 0

\* A campaign that is DONE has nobody left to call, unless passes overlapped or it
\* is being repeated.
DoneMeansSettled ==
  campaign = "DONE" /\ (\E c \in Contacts : Open(c))
    => history.overlap \/ history.retried

\* What passes that overlap may do to a campaign and no more: exceed its
\* concurrency by one pass's worth each, and end it over a contact still open.
OverlapIsBounded == TypeOK /\ ConcurrencyOverrunIsBounded /\ DoneMeansSettled

\* The contact waits for a call of which nothing more will be heard.
Stuck(c) ==
  /\ contacts[c].status = "IN_PROGRESS"
  /\ LET call == calls[contacts[c].call]
     IN /\ call.session \in {"over", "missed", "stranded"}
        /\ call.hook \notin {"find"} \cup ContactStatus

\* That takes a call that ended before its callId was written to the contact, or
\* before its session was registered, or a failure.
StuckContactHasACause ==
  \A c \in Contacts :
    Stuck(c) => \/ calls[contacts[c].call].hook = "unmatched"
                \/ calls[contacts[c].call].session = "stranded"
                \/ history.writes + history.crashes > 0

\* The dispatcher and the settlement hook hand a contact over whole: it is on one
\* call at a time, and it is given back when the call ends, each with its few
\* exceptions.
ContactIsHandedOver == DialledTwiceHasACause /\ StuckContactHasACause

\* A running campaign comes to an end or is paused, unless a contact is stuck or
\* opted out before it was called: that one stays PENDING, is never read again,
\* and is counted as remaining.
CampaignComesToAnEnd ==
  campaign = "RUNNING"
    ~> \/ campaign # "RUNNING"
       \/ \E c \in Contacts : Stuck(c) \/ (optedOut[c] /\ Open(c))
       \/ history.writes + history.crashes > 0

-----------------------------------------------------------------------------
(* What the documentation says and the code does not do.                    *)

\* docs/PLATAFORMA.md: a contact that opted out gets no more campaign calls; the
\* dispatcher's comment promises to check again when it comes to the contact.
OptedOutIsNotCalled ==
  [][\A p \in Passes, c \in Contacts :
       CurContact(p) # c /\ CurContact(p)' = c => ~optedOut[c]]_vars

\* campaignDispatcher.ts: a script call is a flat debit from the reservation.
ScriptCallIsCharged ==
  \A c \in Contacts :
    mode = "FIXED_SCRIPT" /\ contacts[c].status = "COMPLETED"
      => calls[contacts[c].call].charged = Plan.pricePerCallCents
=============================================================================
