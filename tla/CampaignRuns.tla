---------------------------- MODULE CampaignRuns ----------------------------
(***************************************************************************)
(* One campaign as its page shows it: the counters that the routes, the    *)
(* dispatcher and the settlement write, the report that a language model   *)
(* writes once, and the retry policy as it is stored and as it is read     *)
(* (tenant/campaigns.ts, v1/campaigns.ts, campaignDispatcher.ts and        *)
(* callSettlement.service.ts).  How calls are dialled, and in what order,  *)
(* is CampaignDispatcher.                                                  *)
(***************************************************************************)
EXTENDS Naturals, FiniteSets

CONSTANTS Members,   \* the contacts of the campaign
          Screens,   \* requests about the campaign
          Policies,  \* retry policies a form asks for: [tries, on]
          Origins,   \* "crm" or "client": the route the campaign was made with
          MaxRuns, MaxTries \* bounds: runs from the start, calls to a contact

ASSUME CampaignRunsAssumption ==
  /\ IsFiniteSet(Members) /\ \A policy \in Policies : policy.tries \in Nat
  /\ MaxRuns \in Nat \ {0} /\ MaxTries \in Nat

VARIABLES asked, origin,  \* what its maker wanted, and through which route
          status, contacts, tries, endings,
          total, completed, failed,  \* the counters of the row
          owed,      \* settled contacts that are still to be counted
          finishing, \* a pass found no contact left and is to write DONE
          run, summary,  \* how often it was run; the run whose calls the summary tells
          screens,
          crossed    \* what two writers that crossed may have left wrong

runVars == <<asked, origin, status, contacts, tries, endings, total, completed, failed, owed,
             finishing, run, summary, screens, crossed>>

NoScreen == [kind |-> "none", at |-> "idle", pending |-> 0, run |-> 0]
Kinds == {"launch", "pause", "resume", "cancel", "retry", "report"}

RunsInit ==
  /\ asked \in Policies /\ origin \in Origins
  /\ status = "DRAFT" /\ contacts = [m \in Members |-> "PENDING"]
  /\ tries = [m \in Members |-> 0] /\ endings = [m \in Members |-> "none"]
  /\ total = 0 /\ completed = 0 /\ failed = 0 /\ owed = {} /\ finishing = FALSE
  /\ run = 1 /\ summary = 0
  /\ screens = [s \in Screens |-> NoScreen] /\ crossed = {}

In(states) == {m \in Members : contacts[m] \in states}
OpenContacts == In({"PENDING", "IN_PROGRESS"})
PendingCount == Cardinality(In({"PENDING"}))

OfRow == UNCHANGED <<asked, origin>>
OfCalls == UNCHANGED <<contacts, tries, endings, owed, finishing>>
OfCounts == UNCHANGED <<total, completed, failed>>
OfReport == UNCHANGED <<run, summary>>
Crossing(mark, when) == crossed' = IF when THEN crossed \cup {mark} ELSE crossed

----------------------------------------------------------------------------
(* A request reads the row, some count what is pending, and writes after.  *)
Allowed(kind) ==
  CASE kind = "launch" -> status \in {"DRAFT", "SCHEDULED", "PAUSED"} /\ PendingCount > 0
    [] kind = "pause"  -> status = "RUNNING"
    [] kind = "resume" -> status = "PAUSED"
    [] kind = "cancel" -> status \notin {"DONE", "CANCELLED"}
    [] kind = "retry"  -> status \in {"CANCELLED", "DONE"} /\ run < MaxRuns
    [] kind = "report" -> summary = 0 /\ \E m \in Members : tries[m] > 0

CheckRun(s, kind) ==
  /\ screens[s].at = "idle" /\ Allowed(kind)
  /\ screens' = [screens EXCEPT ![s] =
       [kind |-> kind, at |-> IF kind = "retry" THEN "reset" ELSE "write", pending |-> PendingCount, run |-> run]]
  /\ UNCHANGED <<status, crossed>> /\ OfRow /\ OfCalls /\ OfCounts /\ OfReport

Writes(s, kind) == /\ screens[s].kind = kind /\ screens[s].at = "write"
                   /\ screens' = [screens EXCEPT ![s] = NoScreen]

(* A launch counts the pending contacts only and leaves what was counted   *)
(* before: all the page offers for a paused campaign.                      *)
LaunchRun(s) ==
  /\ Writes(s, "launch")
  /\ status' = "RUNNING" /\ total' = screens[s].pending
  /\ Crossing("counts", \/ screens[s].pending # Cardinality(OpenContacts)
                         \/ completed + failed > 0 \/ owed # {} \/ status \in {"CANCELLED", "DONE"})
  /\ UNCHANGED <<completed, failed>> /\ OfRow /\ OfCalls /\ OfReport

PauseRun(s) ==
  /\ Writes(s, "pause") /\ status' = "PAUSED" /\ Crossing("counts", status = "CANCELLED")
  /\ OfRow /\ OfCalls /\ OfCounts /\ OfReport

ResumeRun(s) ==
  /\ Writes(s, "resume") /\ status' = "RUNNING" /\ Crossing("counts", status = "CANCELLED")
  /\ OfRow /\ OfCalls /\ OfCounts /\ OfReport

(* What is pending fails without being counted. *)
CancelRun(s) ==
  /\ Writes(s, "cancel") /\ status' = "CANCELLED"
  /\ contacts' = [m \in Members |-> IF contacts[m] = "PENDING" THEN "FAILED" ELSE contacts[m]]
  /\ endings' = [m \in Members |-> IF contacts[m] = "PENDING" THEN "none" ELSE endings[m]]
  /\ UNCHANGED <<tries, owed, finishing, crossed>> /\ OfRow /\ OfCounts /\ OfReport

(* A retry makes every contact pending, counts them, and starts over. *)
ResetContacts(s) ==
  /\ screens[s].kind = "retry" /\ screens[s].at = "reset"
  /\ contacts' = [m \in Members |-> "PENDING"]
  /\ screens' = [screens EXCEPT ![s].at = "write"]
  /\ Crossing("counts", \/ In({"IN_PROGRESS"}) # {} \/ owed # {} \/ finishing
                         \/ status \notin {"CANCELLED", "DONE"})
  /\ UNCHANGED <<status, tries, endings, owed, finishing>> /\ OfRow /\ OfCounts /\ OfReport

\* Mutant: the contacts that had completed stay counted.
RetryKeepingCount == [completed |-> completed, failed |-> 0, summary |-> 0]

Restart == [completed |-> 0, failed |-> 0, summary |-> 0]

RetryRun(s) ==
  /\ Writes(s, "retry") /\ run < MaxRuns
  /\ status' = "RUNNING" /\ run' = run + 1
  /\ total' = Cardinality(Members)
  /\ completed' = Restart.completed /\ failed' = Restart.failed /\ summary' = Restart.summary
  /\ Crossing("counts", PendingCount # Cardinality(Members) \/ owed # {})
  /\ OfRow /\ OfCalls

(* The report is written by a language model from what was read before it, *)
(* only when no summary was stored, and stored then for good.              *)
WriteReport(s) ==
  /\ Writes(s, "report")
  /\ summary' = screens[s].run /\ Crossing("summary", screens[s].run # run)
  /\ UNCHANGED <<status, run>> /\ OfRow /\ OfCalls /\ OfCounts

----------------------------------------------------------------------------
(* The policy as the routes store it: the CRM's schema keeps the attempts  *)
(* and an interval of another name, and drops the outcomes to be retried;  *)
(* the public API keeps what it was given.                                 *)
RetryPolicy == [tries |-> asked.tries, on |-> IF origin = "crm" THEN {} ELSE asked.on]

\* Mutant: the last of the tries asked for is not made.
RetriesCallOnceLess(m, ending) == tries[m] + 1 < RetryPolicy.tries /\ ending \in RetryPolicy.on

(* parseRetryPolicy: a policy without outcomes is no policy.  A dial that  *)
(* failed is tried again on the attempts alone.                            *)
RetriesCall(m, ending) == tries[m] < RetryPolicy.tries /\ ending \in RetryPolicy.on
RetriesDial(m) == tries[m] + 1 < RetryPolicy.tries

(* A pass of the dispatcher goes on after a pause. *)
TakeContact(m) ==
  /\ status \in {"RUNNING", "PAUSED"} /\ contacts[m] = "PENDING" /\ tries[m] < MaxTries
  /\ contacts' = [contacts EXCEPT ![m] = "IN_PROGRESS"]
  /\ tries' = [tries EXCEPT ![m] = @ + 1]
  /\ UNCHANGED <<status, endings, owed, finishing, screens, crossed>> /\ OfRow /\ OfCounts /\ OfReport

DialFails(m) ==
  /\ status \in {"RUNNING", "PAUSED"} /\ contacts[m] = "PENDING" /\ tries[m] < MaxTries
  /\ contacts' = [contacts EXCEPT ![m] = IF RetriesDial(m) THEN "PENDING" ELSE "FAILED"]
  /\ tries' = [tries EXCEPT ![m] = @ + 1]
  /\ endings' = [endings EXCEPT ![m] = "FAILED"]
  /\ owed' = IF RetriesDial(m) THEN owed ELSE owed \cup {m}
  /\ UNCHANGED <<status, finishing, screens, crossed>> /\ OfRow /\ OfCounts /\ OfReport

SettleContact(m, ending) ==
  /\ contacts[m] = "IN_PROGRESS"
  /\ endings' = [endings EXCEPT ![m] = ending]
  /\ IF RetriesCall(m, ending)
     THEN contacts' = [contacts EXCEPT ![m] = "PENDING"] /\ UNCHANGED owed
     ELSE /\ contacts' = [contacts EXCEPT ![m] = IF ending = "COMPLETED" THEN "COMPLETED" ELSE "FAILED"]
          /\ owed' = owed \cup {m}
  /\ UNCHANGED <<status, tries, finishing, screens, crossed>> /\ OfRow /\ OfCounts /\ OfReport

(* The counter goes up after the contact was written. *)
CountContact(m) ==
  /\ m \in owed /\ owed' = owed \ {m}
  /\ completed' = IF endings[m] = "COMPLETED" THEN completed + 1 ELSE completed
  /\ failed' = IF endings[m] = "COMPLETED" THEN failed ELSE failed + 1
  /\ UNCHANGED <<status, contacts, tries, endings, finishing, total, screens, crossed>> /\ OfRow /\ OfReport

(* The end of a pass: no contact is left, they are counted again, DONE. *)
FindNoneLeft ==
  /\ status = "RUNNING" /\ OpenContacts = {} /\ ~finishing /\ finishing' = TRUE
  /\ UNCHANGED <<status, contacts, tries, endings, owed, screens, crossed>> /\ OfRow /\ OfCounts /\ OfReport

WriteDone ==
  /\ finishing /\ finishing' = FALSE /\ status' = "DONE"
  /\ completed' = Cardinality(In({"COMPLETED"})) /\ failed' = Cardinality(In({"FAILED"}))
  /\ Crossing("counts", owed # {} \/ OpenContacts # {})
  /\ UNCHANGED <<contacts, tries, endings, owed, total, screens>> /\ OfRow /\ OfReport

RunsNext ==
  \/ \E s \in Screens :
       \/ \E kind \in Kinds : CheckRun(s, kind)
       \/ LaunchRun(s) \/ PauseRun(s) \/ ResumeRun(s) \/ CancelRun(s)
       \/ ResetContacts(s) \/ RetryRun(s) \/ WriteReport(s)
  \/ \E m \in Members :
       \/ TakeContact(m) \/ DialFails(m) \/ CountContact(m)
       \/ \E ending \in {"COMPLETED", "NO_ANSWER"} : SettleContact(m, ending)
  \/ FindNoneLeft \/ WriteDone

RunsSpec == RunsInit /\ [][RunsNext]_runVars

----------------------------------------------------------------------------
(* What the report answers, and what the page makes of it. *)
Reported == [status |-> status, completed |-> completed, failed |-> failed,
             pending |-> IF completed + failed <= total THEN total - completed - failed ELSE 0]

MapCampaign(raw) ==
  [raw EXCEPT !.status = CASE raw.status \in {"RUNNING", "SCHEDULED"} -> "ACTIVE"
                           [] raw.status = "DONE" -> "COMPLETED"
                           [] OTHER -> raw.status]

Shown == MapCampaign(Reported)
Progress == [value |-> Shown.completed + Shown.failed, max |-> total]

----------------------------------------------------------------------------
(* Every part of the state has its type. *)
RunsTypeOK ==
  /\ status \in {"DRAFT", "RUNNING", "PAUSED", "DONE", "CANCELLED"}
  /\ owed \subseteq Members /\ summary \in 0..MaxRuns /\ crossed \subseteq {"counts", "summary"}

(***************************************************************************)
(* What the page of a campaign shows is of the run under way: what is      *)
(* counted, what is about to be and what is left make up the total, unless *)
(* a paused campaign was launched again, a retry is under way or two       *)
(* writers crossed; and the summary is not of an earlier run, unless it    *)
(* was being written when the campaign was retried                         *)
(* (tenant/campaigns.ts:192-195, 328-351, 437-460,                         *)
(* campaignDispatcher.ts:273-290).                                         *)
(***************************************************************************)
PageTellsTheRun ==
  /\ (/\ Shown.status \in {"ACTIVE", "PAUSED", "COMPLETED"} /\ "counts" \notin crossed
      /\ \A s \in Screens : screens[s].kind = "retry" => screens[s].at = "reset")
      => /\ Shown.pending = Cardinality(owed) + Cardinality(OpenContacts)
         /\ Progress.value + Shown.pending = Progress.max
  /\ (summary # 0 /\ "summary" \notin crossed) => summary = run

(***************************************************************************)
(* A contact that did not answer is called as often as the campaign's      *)
(* maker asked before it fails, unless the campaign was made with the      *)
(* CRM's route, whose schema drops the outcomes to be retried              *)
(* (tenant/campaigns.ts:23-27, callSettlement.service.ts:13-17).           *)
(***************************************************************************)
LostRetryHasACause ==
  \A m \in Members :
    (contacts[m] = "FAILED" /\ endings[m] = "NO_ANSWER" /\ "NO_ANSWER" \in asked.on)
      => tries[m] >= asked.tries \/ origin = "crm"
=============================================================================
