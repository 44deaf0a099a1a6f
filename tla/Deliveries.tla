------------------------------ MODULE Deliveries ------------------------------
(***************************************************************************)
(* The webhook of a tenant: the end of a call puts a job on the queue      *)
(* (plugins/callEngine.ts), the worker posts it to the tenant's URL and    *)
(* files a dead letter when it gives up (worker/src/index.ts), and the     *)
(* tenant changes the URL meanwhile (tenant/settings.ts).  Retries and     *)
(* stalled jobs are BullMQ's.                                              *)
(***************************************************************************)
EXTENDS Naturals, FiniteSets

CONSTANTS WCalls,        \* calls whose end is announced
          Urls,          \* URLs the tenant may set
          Attempts,      \* attempts of a job
          MaxStalls,     \* times BullMQ takes back a job whose worker stopped
          MaxUrlChanges, \* bound on changes of the URL
          MaxCrashes     \* bound on stops of the worker and of the API

ASSUME DeliveriesAssumption == Attempts \in Nat \ {0} /\ MaxStalls \in Nat

VARIABLES url,        \* webhookUrl of the tenant
          jobs,       \* of each call, where its notice is
          received,   \* times each notice reached a receiver
          deadLetters, \* SystemEvent rows of source webhooks_out
          hidden,     \* notices received by a request that failed all the same
          excused,    \* notices that no write could be made for
          urlChanges, crashes

deliveryVars == <<url, jobs, received, deadLetters, hidden, excused, urlChanges, crashes>>

NoUrl == "none"
Places == {"live", "asking", "adding", "waiting", "active", "posting", "burying",
           "done", "failed", "skipped", "lost"}

DeliveriesInit ==
  /\ url \in Urls \cup {NoUrl} /\ urlChanges = 0 /\ crashes = 0
  /\ jobs = [c \in WCalls |-> [at |-> "live", made |-> 0, stalls |-> 0, url |-> NoUrl]]
  /\ received = [c \in WCalls |-> 0]
  /\ deadLetters = {} /\ hidden = {} /\ excused = {}

Move(c, from, to) == /\ jobs[c].at = from
                     /\ jobs' = [jobs EXCEPT ![c].at = to]

OfJobs == UNCHANGED <<url, received, deadLetters, hidden, excused, urlChanges, crashes>>

----------------------------------------------------------------------------
(* The API: the end of the call, the read of the tenant, the job.          *)
CallEnded(c) == Move(c, "live", "asking") /\ OfJobs

ReadTenant(c) == Move(c, "asking", IF url = NoUrl THEN "skipped" ELSE "adding") /\ OfJobs

EnqueueWebhook(c) == Move(c, "adding", "waiting") /\ OfJobs

(* A failed read or a failed add is logged, and nothing else. *)
EnqueueFailed(c) == /\ \E from \in {"asking", "adding"} : Move(c, from, "lost")
                    /\ OfJobs

CrashApi == /\ crashes < MaxCrashes /\ crashes' = crashes + 1
            /\ jobs' = [c \in WCalls |-> IF jobs[c].at \in {"asking", "adding"}
                                           THEN [jobs[c] EXCEPT !.at = "lost"] ELSE jobs[c]]
            /\ UNCHANGED <<url, received, deadLetters, hidden, excused, urlChanges>>

PatchWebhookUrl(u) == /\ u # url /\ urlChanges < MaxUrlChanges
                      /\ url' = u /\ urlChanges' = urlChanges + 1
                      /\ UNCHANGED <<jobs, received, deadLetters, hidden, excused, crashes>>

----------------------------------------------------------------------------
(* The worker. *)
TakeJob(c) == Move(c, "waiting", "active") /\ OfJobs

(* The URL is the one of the moment of the delivery: without one the job   *)
(* is done.                                                                *)
ReadDestination(c) ==
  /\ jobs[c].at = "active"
  /\ jobs' = [jobs EXCEPT ![c].at = IF url = NoUrl THEN "done" ELSE "posting", ![c].url = url]
  /\ OfJobs

(* BullMQ runs a failed job again until its attempts are used up. *)
\* Mutant: the handler of failed jobs waits for one failure more.
ExhaustedLate(job) == job.made > Attempts

Exhausted(job) == job.made >= Attempts

AfterFailure(job) ==
  LET counted == [job EXCEPT !.made = @ + 1] IN
  [counted EXCEPT !.at = CASE counted.made < Attempts -> "waiting"
                           [] Exhausted(counted) -> "burying"
                           [] OTHER -> "failed"]

Delivered(c) == /\ Move(c, "posting", "done")
                /\ received' = [received EXCEPT ![c] = @ + 1]
                /\ UNCHANGED <<url, deadLetters, hidden, excused, urlChanges, crashes>>

(* The receiver refuses, cannot be reached, or answers too late. *)
DeliveryFails(c) ==
  /\ jobs[c].at \in {"active", "posting"}
  /\ jobs' = [jobs EXCEPT ![c] = AfterFailure(@)]
  /\ \/ UNCHANGED <<received, hidden>>
     \/ /\ jobs[c].at = "posting"
        /\ received' = [received EXCEPT ![c] = @ + 1] /\ hidden' = hidden \cup {c}
  /\ UNCHANGED <<url, deadLetters, excused, urlChanges, crashes>>

WriteDeadLetter(c) ==
  /\ Move(c, "burying", "failed")
  /\ \/ deadLetters' = deadLetters \cup {c} /\ UNCHANGED excused
     \/ excused' = excused \cup {c} /\ UNCHANGED deadLetters
  /\ UNCHANGED <<url, received, hidden, urlChanges, crashes>>

(* A job whose worker stopped is taken back, but not for ever: then it is  *)
(* failed, and the handler sees fewer attempts than the job has.           *)
Stalled(job) ==
  LET again == [job EXCEPT !.stalls = @ + 1] IN
  [again EXCEPT !.at = IF again.stalls <= MaxStalls THEN "waiting"
                       ELSE IF Exhausted(again) THEN "burying" ELSE "failed"]

CrashWorker ==
  /\ crashes < MaxCrashes /\ crashes' = crashes + 1
  /\ \E reached \in SUBSET {c \in WCalls : jobs[c].at = "posting"} :
       /\ received' = [c \in WCalls |-> received[c] + IF c \in reached THEN 1 ELSE 0]
       /\ hidden' = hidden \cup reached
  /\ jobs' = [c \in WCalls |-> CASE jobs[c].at \in {"active", "posting"} -> Stalled(jobs[c])
                                 [] jobs[c].at = "burying" -> [jobs[c] EXCEPT !.at = "failed"]
                                 [] OTHER -> jobs[c]]
  /\ excused' = excused \cup {c \in WCalls : jobs[c].at = "burying"}
  /\ UNCHANGED <<url, deadLetters, urlChanges>>

DeliveriesNext ==
  \/ \E c \in WCalls : \/ CallEnded(c) \/ ReadTenant(c) \/ EnqueueWebhook(c) \/ EnqueueFailed(c)
                       \/ TakeJob(c) \/ ReadDestination(c) \/ Delivered(c) \/ DeliveryFails(c)
                       \/ WriteDeadLetter(c)
  \/ \E u \in Urls \cup {NoUrl} : PatchWebhookUrl(u)
  \/ CrashApi \/ CrashWorker

DeliveriesSpec == DeliveriesInit /\ [][DeliveriesNext]_deliveryVars

----------------------------------------------------------------------------
(* Every part of the state has its type. *)
DeliveriesTypeOK ==
  /\ url \in Urls \cup {NoUrl}
  /\ \A c \in WCalls : /\ jobs[c].at \in Places /\ jobs[c].made \in 0..Attempts
                       /\ jobs[c].stalls \in 0..(MaxStalls + 1)
                       /\ received[c] \in 0..(Attempts + MaxStalls + 1)
  /\ deadLetters \cup hidden \cup excused \subseteq WCalls

(***************************************************************************)
(* What became of a notice is known: one that was given up has its dead    *)
(* letter unless its write failed, was cut short, or the job stalled too   *)
(* often; one that is done was received, or the tenant had taken its URL   *)
(* away; and it was received twice only when a receipt had been taken for  *)
(* a failure (worker/src/index.ts:67-70, 93-118).                          *)
(***************************************************************************)
DeliveryIsAccountedFor ==
  \A c \in WCalls :
    /\ jobs[c].at = "failed" =>
         c \in deadLetters \cup excused \/ jobs[c].stalls > MaxStalls
    /\ jobs[c].at = "done" => received[c] > 0 \/ jobs[c].url = NoUrl
    /\ received[c] > 1 => c \in hidden
=============================================================================
