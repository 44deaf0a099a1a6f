--------------------------------- MODULE Sms ---------------------------------
(***************************************************************************)
(* SMS of one tenant: single messages, one bulk campaign, the gateway and  *)
(* its delivery reports.                                                   *)
(*                                                                         *)
(* A sender is a request that sends one message (sendSms) or one run of    *)
(* the loop startCampaign leaves behind.  pc names the await it is at;     *)
(* each database write and the code it resumes are one step.  The gateway  *)
(* calls each accepted message by an id of its own: here, its sender,      *)
(* which sends a message at most once.                                     *)
(***************************************************************************)
EXTENDS Account, FiniteSetsExt

CONSTANTS Singles,      \* bound: requests to send one message each
          Bulk,         \* messages of the campaign, one per contact
          Starts,       \* bound: requests to start the campaign
          MaxSenders,   \* bound: requests of either kind that are made
          Cost,         \* price of a message: segments by price per segment
          MaxSmsFaults  \* bound: failed writes, lost answers, crashes

ASSUME SmsAssumption ==
  /\ IsFiniteSet(Singles) /\ IsFiniteSet(Bulk) /\ IsFiniteSet(Starts)
  /\ Singles \cap Bulk = {} /\ Singles \cap Starts = {}
  /\ Cost \in Nat \ {0} /\ MaxSenders \in Nat /\ MaxSmsFaults \in Nat

Messages == Singles \cup Bulk
Senders == Singles \cup Starts
NoId == "no id"
NoMessage == "no message"

\* No message and no sender has the name of none.
ASSUME SmsNamesAssumption == NoId \notin Senders /\ NoMessage \notin Messages

VARIABLES
  smsConfig,   \* the plan includes SMS and the tenant has an API key
  sms,         \* the SmsMessage rows
  smsCampaign, \* SmsCampaign.status
  senders,     \* what each request or loop is at
  reports,     \* reports the gateway has still to post
  hooks,       \* webhook handlers that have read a row and will write it
  smsHistory   \* what happened: money, acceptances, faults, crossings

campaignVars == <<smsConfig, smsCampaign>>
reportVars == <<reports, hooks>>
smsVars == <<campaignVars, reportVars, sms, senders, smsHistory>>

-----------------------------------------------------------------------------
SmsStatus == {"NONE", "QUEUED", "SENT", "DELIVERED", "FAILED"}
ReportStatus == {"SENT", "DELIVERED", "FAILED"}
Report == [message: Messages, id: Senders, status: ReportStatus]
Hook == [message: Messages, id: Senders, read: SmsStatus, status: ReportStatus]

SenderSteps == {"idle", "create", "starting", "list", "next", "reserve", "send",
                "accepted", "refused", "finally", "closing", "over"}
Idle == [pc |-> "idle", msg |-> NoMessage, id |-> NoId, todo |-> {}]

SmsTypeOK ==
  /\ smsConfig \in BOOLEAN
  /\ sms \in [Messages -> [status: SmsStatus, id: Senders \cup {NoId}]]
  /\ smsCampaign \in {"DRAFT", "RUNNING", "DONE", "CANCELLED"}
  /\ senders \in [Senders -> [pc: SenderSteps, msg: Messages \cup {NoMessage},
                              id: Senders \cup {NoId}, todo: SUBSET Bulk]]
  /\ reports \subseteq Report /\ hooks \subseteq Hook
  /\ \A m \in Messages :
       /\ smsHistory.taken[m] \in 0..(Cost * Cardinality(Senders))
       /\ smsHistory.ledger[m] \in 0..Cardinality(Senders)
       /\ smsHistory.accepted[m] \subseteq Senders

SmsInit ==
  /\ smsConfig \in BOOLEAN
  /\ sms = [m \in Messages |-> [status |-> "NONE", id |-> NoId]]
  /\ smsCampaign = "DRAFT"
  /\ senders = [s \in Senders |-> Idle]
  /\ reports = {} /\ hooks = {}
  /\ smsHistory = [taken |-> [m \in Messages |-> 0],
                   ledger |-> [m \in Messages |-> 0],
                   accepted |-> [m \in Messages |-> {}],
                   hurt |-> {}, faults |-> 0, crashed |-> FALSE,
                   overlap |-> FALSE, crossed |-> {}]

-----------------------------------------------------------------------------
At(s, step) == senders[s].pc = step
Done == {"next", "finally", "over"}
Goto(s, step) ==
  senders' = [senders EXCEPT ![s].pc = step, ![s].id = NoId,
                             ![s].msg = IF step \in Done THEN NoMessage ELSE @]
Msg(s) == senders[s].msg
Requested(s) == /\ At(s, "idle")
                /\ Cardinality({q \in Senders : ~At(q, "idle")}) < MaxSenders
Looping(r) == senders[r].pc \notin {"idle", "starting", "over"}

\* What a message costs is gone when its sender cannot say so: the message is
\* marked, and the property that misses it says why.
Hurt(m) == smsHistory' = [smsHistory EXCEPT !.hurt = @ \cup {m},
                                            !.faults = @ + 1]
CanBreak == smsHistory.faults < MaxSmsFaults
Settle(m, money, rows) ==
  smsHistory' = [smsHistory EXCEPT !.taken[m] = @ + money,
                                   !.ledger[m] = @ + rows]

\* The sender of a single message is done; a loop writes the campaign's
\* counters, which nothing reads back, and goes on.
AfterSend(s) == IF s \in Starts THEN "next" ELSE "over"
\* An exception ends a request; in the loop it leads to the finally.
AfterThrow(s) == IF s \in Starts THEN "finally" ELSE "over"

-----------------------------------------------------------------------------
(* sendSms up to its row, and prepareRecipients.                           *)

\* The configuration is read, then the money is taken.
SendSms(m) ==
  /\ Requested(m) /\ smsConfig
  /\ \/ /\ Reserve(Cost)
        /\ senders' = [senders EXCEPT ![m] = [Idle EXCEPT !.pc = "create",
                                                          !.msg = m]]
        /\ Settle(m, Cost, 0)
     \/ /\ Refused(Cost)
        /\ Goto(m, "over")
        /\ UNCHANGED <<balance, smsHistory>>
  /\ UNCHANGED <<ledger, campaignVars, sms, reportVars>>

\* The row is created outside the try: when that fails, nothing gives the
\* money back.
CreateSms(m) ==
  /\ At(m, "create")
  /\ \/ /\ sms' = [sms EXCEPT ![m].status = "QUEUED"]
        /\ Goto(m, "send")
        /\ UNCHANGED smsHistory
     \/ /\ CanBreak /\ Hurt(m)
        /\ Goto(m, "over")
        /\ UNCHANGED sms
  /\ UNCHANGED <<accountVars, campaignVars, reportVars>>

\* Recipients may be added whatever the campaign's status is.
PrepareRecipients(m) ==
  /\ sms[m].status = "NONE"
  /\ sms' = [sms EXCEPT ![m].status = "QUEUED"]
  /\ UNCHANGED <<accountVars, campaignVars, senders, reportVars, smsHistory>>

-----------------------------------------------------------------------------
(* startCampaign and its loop.                                             *)

StartCampaign(r) ==
  /\ Requested(r)
  /\ Goto(r, IF smsCampaign = "RUNNING" THEN "over" ELSE "starting")
  /\ UNCHANGED <<accountVars, campaignVars, sms, reportVars, smsHistory>>

MarkRunning(r) ==
  /\ At(r, "starting")
  /\ Goto(r, "list")
  /\ smsCampaign' = "RUNNING"
  /\ smsHistory' = [smsHistory EXCEPT !.overlap =
                      @ \/ \E q \in Starts \ {r} : Looping(q)]
  /\ UNCHANGED <<accountVars, smsConfig, sms, reportVars>>

ListQueued(r) ==
  /\ At(r, "list")
  /\ senders' = [senders EXCEPT ![r].pc = "next", ![r].todo =
                   {m \in Bulk : sms[m].status = "QUEUED"}]
  /\ UNCHANGED <<accountVars, campaignVars, sms, reportVars, smsHistory>>

\* The status is read before each message, and the message's own row after.
NextQueued(r) ==
  /\ At(r, "next")
  /\ IF smsCampaign # "RUNNING" \/ senders[r].todo = {}
     THEN Goto(r, "finally")
     ELSE \E m \in senders[r].todo :
            senders' = [senders EXCEPT
              ![r].todo = @ \ {m}, ![r].msg = m,
              ![r].pc = IF sms[m].status = "QUEUED" THEN "reserve"
                        ELSE "next"]
  /\ UNCHANGED <<accountVars, campaignVars, sms, reportVars, smsHistory>>

\* dispatchQueuedMessage: no money, no message.
ReserveQueued(r) ==
  /\ At(r, "reserve")
  /\ \/ /\ Reserve(Cost)
        /\ Goto(r, "send")
        /\ Settle(Msg(r), Cost, 0)
        /\ UNCHANGED sms
     \/ /\ Refused(Cost)
        /\ sms' = [sms EXCEPT ![Msg(r)].status = "FAILED"]
        /\ Goto(r, "next")
        /\ UNCHANGED <<balance, smsHistory>>
  /\ UNCHANGED <<ledger, campaignVars, reportVars>>

\* A read or the write of the counters throws: the catch, then the finally.
LoopThrows(r) ==
  /\ senders[r].pc \in {"list", "next"} /\ CanBreak
  /\ Goto(r, "finally")
  /\ smsHistory' = [smsHistory EXCEPT !.faults = @ + 1]
  /\ UNCHANGED <<accountVars, campaignVars, sms, reportVars>>

\* Mutant: the loop ends without closing its campaign.
ReadStatusOnly(r) ==
  /\ At(r, "finally")
  /\ Goto(r, "over")
  /\ UNCHANGED <<accountVars, campaignVars, sms, reportVars, smsHistory>>

\* finally: the status is read, then written.
ReadStatus(r) ==
  /\ At(r, "finally")
  /\ Goto(r, IF smsCampaign = "RUNNING" THEN "closing" ELSE "over")
  /\ UNCHANGED <<accountVars, campaignVars, sms, reportVars, smsHistory>>
MarkDone(r) ==
  /\ At(r, "closing")
  /\ smsCampaign' = "DONE"
  /\ Goto(r, "over")
  /\ UNCHANGED <<accountVars, smsConfig, sms, reportVars, smsHistory>>

CancelCampaign ==
  /\ smsCampaign \in {"DRAFT", "RUNNING"}
  /\ smsCampaign' = "CANCELLED"
  /\ UNCHANGED <<accountVars, smsConfig, sms, senders, reportVars, smsHistory>>

-----------------------------------------------------------------------------
(* The gateway, and what sendSms and dispatchQueuedMessage make of it.     *)

\* Accepted: the gateway will report the submission and one final status.
Accept(s, id) ==
  \E final \in {"DELIVERED", "FAILED"} :
    /\ reports' = reports \cup {[message |-> Msg(s), id |-> s, status |-> st] :
                                  st \in {"SENT", final}}
    /\ senders' = [senders EXCEPT ![s].pc = "accepted", ![s].id = id]

Accepted(m, s) == [smsHistory EXCEPT !.accepted[m] = @ \cup {s}]

\* getTenantSms reads the configuration again inside the try.  The adapter
\* turns an error or a lost answer into "not accepted"; an answer may lack
\* the id.
SendToGateway(s) ==
  /\ At(s, "send")
  /\ \/ /\ smsConfig
        /\ \E id \in {s, NoId} : Accept(s, id)
        /\ smsHistory' = Accepted(Msg(s), s)
     \/ /\ Goto(s, "refused")
        /\ UNCHANGED <<reports, smsHistory>>
     \/ /\ smsConfig /\ CanBreak
        /\ reports' = reports \cup {[message |-> Msg(s), id |-> s,
                                     status |-> "DELIVERED"]}
        /\ Goto(s, "refused")
        /\ smsHistory' = [Accepted(Msg(s), s) EXCEPT
                            !.hurt = @ \cup {Msg(s)}, !.faults = @ + 1]
  /\ UNCHANGED <<accountVars, campaignVars, sms, hooks>>

\* One transaction: the row is SENT under the gateway's id and the charge is
\* in the ledger.  When it fails the money is gone and the row stays QUEUED.
ConfirmSms(s) ==
  /\ At(s, "accepted")
  /\ \/ /\ sms' = [sms EXCEPT ![Msg(s)] = [status |-> "SENT",
                                           id |-> senders[s].id]]
        /\ Goto(s, AfterSend(s))
        /\ Settle(Msg(s), 0, 1)
        /\ Write(-Cost)
     \/ /\ CanBreak /\ Hurt(Msg(s))
        /\ Goto(s, AfterThrow(s))
        /\ UNCHANGED <<ledger, sms>>
  /\ UNCHANGED <<balance, campaignVars, reportVars>>

\* Mutant: a refused message keeps what it reserved.
RefundSmsKeepingMoney(s) ==
  /\ At(s, "refused")
  /\ sms' = [sms EXCEPT ![Msg(s)].status = "FAILED"]
  /\ Goto(s, AfterSend(s))
  /\ UNCHANGED <<accountVars, campaignVars, reportVars, smsHistory>>

\* One transaction: the money is back and the row is FAILED.
RefundSms(s) ==
  /\ At(s, "refused")
  /\ \/ /\ GiveBack(Cost)
        /\ sms' = [sms EXCEPT ![Msg(s)].status = "FAILED"]
        /\ Goto(s, AfterSend(s))
        /\ Settle(Msg(s), -Cost, 0)
     \/ /\ CanBreak /\ Hurt(Msg(s))
        /\ Goto(s, AfterThrow(s))
        /\ UNCHANGED <<balance, sms>>
  /\ UNCHANGED <<ledger, campaignVars, reportVars>>

\* The configuration changes in the backoffice.
ConfigureSms ==
  /\ smsConfig' = ~smsConfig
  /\ UNCHANGED <<accountVars, sms, smsCampaign, senders, reportVars,
                 smsHistory>>

\* The process stops: requests and loops are lost, the database is not.
CrashSms ==
  /\ CanBreak
  /\ \E s \in Senders : senders[s].pc \notin {"idle", "over"}
  /\ senders' = [s \in Senders |-> IF At(s, "idle") THEN Idle
                                   ELSE [Idle EXCEPT !.pc = "over"]]
  /\ hooks' = {}
  /\ smsHistory' = [smsHistory EXCEPT
       !.faults = @ + 1, !.crashed = TRUE,
       !.hurt = @ \cup {Msg(s) : s \in {t \in Senders : Msg(t) # NoMessage}}]
  /\ UNCHANGED <<accountVars, campaignVars, sms, reports>>

-----------------------------------------------------------------------------
(* The webhook of delivery reports: the row is read, then written.         *)

\* Mutant: reports are taken in the order they come.
RegressesNever(read, status) == FALSE
Regresses(read, status) == read = "DELIVERED" /\ status = "SENT"

ReadReport(p) ==
  /\ p \in reports
  /\ reports' = reports \ {p}
  /\ LET row == sms[p.message]
     IN  IF row.id = p.id /\ ~Regresses(row.status, p.status)
         THEN /\ hooks' = hooks \cup {[message |-> p.message, id |-> p.id,
                                       read |-> row.status,
                                       status |-> p.status]}
              /\ smsHistory' = [smsHistory EXCEPT !.crossed =
                   IF \E h \in hooks : h.message = p.message
                   THEN @ \cup {p.message} ELSE @]
         ELSE UNCHANGED <<hooks, smsHistory>>
  /\ UNCHANGED <<accountVars, campaignVars, sms, senders>>

WriteReport(h) ==
  /\ h \in hooks
  /\ hooks' = hooks \ {h}
  /\ sms' = [sms EXCEPT ![h.message].status = h.status]
  /\ UNCHANGED <<accountVars, campaignVars, senders, reports, smsHistory>>

-----------------------------------------------------------------------------
SmsNext ==
  \/ \E m \in Singles : SendSms(m) \/ CreateSms(m)
  \/ \E m \in Bulk : PrepareRecipients(m)
  \/ \E r \in Starts : \/ StartCampaign(r) \/ MarkRunning(r) \/ ListQueued(r)
                       \/ NextQueued(r) \/ ReserveQueued(r) \/ LoopThrows(r)
                       \/ ReadStatus(r) \/ MarkDone(r)
  \/ \E s \in Senders : SendToGateway(s) \/ ConfirmSms(s) \/ RefundSms(s)
  \/ CancelCampaign \/ ConfigureSms \/ CrashSms
  \/ \E p \in reports : ReadReport(p)
  \/ \E h \in hooks : WriteReport(h)

\* A loop that runs goes on: its awaits return and its timer fires.
LoopStep(r) ==
  \/ MarkRunning(r) \/ ListQueued(r) \/ NextQueued(r) \/ ReserveQueued(r)
  \/ ReadStatus(r) \/ MarkDone(r)
  \/ SendToGateway(r) \/ ConfirmSms(r) \/ RefundSms(r)
SmsSpec ==
  /\ AccountInit /\ SmsInit
  /\ [][SmsNext]_<<accountVars, smsVars>>
  /\ \A r \in Starts : WF_<<accountVars, smsVars>>(LoopStep(r))

-----------------------------------------------------------------------------
AtIt(m) == \E s \in Senders :
             /\ Msg(s) = m
             /\ senders[s].pc \in {"create", "reserve", "send", "accepted",
                                   "refused"}

\* A message nobody is sending was paid once for each time the gateway took
\* it, and that is in the ledger; what the gateway refused was given back.
\* Only a failed write, a lost answer or a crash in between breaks it.  The
\* gateway takes a message twice only when two loops run at once (started,
\* cancelled, started again) or when the write that should have taken it from
\* QUEUED was lost (sendSms, dispatchQueuedMessage, startCampaign).
SmsIsPaidOnce ==
  \A m \in Messages :
    /\ ~AtIt(m) /\ m \notin smsHistory.hurt =>
         /\ smsHistory.ledger[m] = Cardinality(smsHistory.accepted[m])
         /\ smsHistory.taken[m] = Cost * smsHistory.ledger[m]
    /\ Cardinality(smsHistory.accepted[m]) > 1 =>
         smsHistory.overlap \/ m \in smsHistory.hurt

\* What messages under way hold of the balance, or a lost write has taken.
SmsHeld ==
  MapThenSumSet(LAMBDA m : smsHistory.taken[m] - Cost * smsHistory.ledger[m],
                Messages)

\* A message reported as delivered stays DELIVERED, in whatever order the
\* reports come, unless two of them are handled at once, two loops sent it or
\* a write about it was lost (the webhook's guard against out-of-order events, webhooks/sms.ts).
DeliveredIsFinal ==
  [][\A m \in Messages :
       sms[m].status = "DELIVERED" =>
         \/ sms'[m].status = "DELIVERED"
         \/ m \in smsHistory.crossed
         \/ smsHistory.overlap \/ m \in smsHistory.hurt]_<<accountVars, smsVars>>

\* A campaign that is RUNNING stops being so, whatever fails inside its loop;
\* only a crash leaves it RUNNING for ever (the finally of startCampaign).
SmsCampaignEnds ==
  smsCampaign = "RUNNING" ~> smsCampaign # "RUNNING" \/ smsHistory.crashed
=============================================================================
