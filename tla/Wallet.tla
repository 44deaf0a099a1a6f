------------------------------- MODULE Wallet -------------------------------
(***************************************************************************)
(* The wallet of one tenant: the monthly fee and its invoices, top-ups     *)
(* paid at ProxyPay, corrections by an administrator, calls that read out  *)
(* a one-time password, and the tenant's suspension.                       *)
(*                                                                         *)
(* Every handler is cut at its awaits; pc names the await it is at.        *)
(***************************************************************************)
EXTENDS Account, FiniteSets

CONSTANTS ProductType,    \* Plan.productType
          Billings,       \* bound: runs of chargeMonthlyInvoice
          Fee,            \* Plan.monthlyFeeCents
          MaxPeriod,      \* bound: months that pass
          TopUps,         \* bound: top-ups that are asked for
          Notices,        \* bound: notices of payment that are posted
          Amount,         \* what a top-up is worth
          Corrections,    \* bound: adjustments of the balance
          Otps,           \* bound: calls that read out a password
          OtpCost,        \* Plan.pricePerCallCents
          MaxTasks,       \* bound: handlers of any kind that are started
          MaxWalletFaults \* bound: failed writes and crashes

ASSUME WalletAssumption ==
  /\ ProductType \in {"CRM_BYO_PBX", "VOICE_AI"}
  /\ Fee \in Nat \ {0} /\ Amount \in Nat \ {0} /\ OtpCost \in Nat \ {0}
  /\ MaxPeriod \in Nat \ {0}
  /\ MaxTasks \in Nat /\ MaxWalletFaults \in Nat
  /\ IsFiniteSet(Billings \cup TopUps \cup Notices \cup Corrections \cup Otps)

Tasks == Billings \cup Notices \cup Corrections \cup Otps
Periods == 1..MaxPeriod
NoTopUp == "no top-up"

VARIABLES
  tenant,       \* Tenant.status
  period,       \* the current month
  invoices,     \* Invoice.status by period, NONE without a row
  topUps,       \* the references at ProxyPay, and whether Redis knows them
  credited,     \* references with a TOPUP row: proxypayRef is unique
  paused,       \* a campaign of the tenant is PAUSED
  tasks,        \* handlers under way
  walletHistory \* what happened, for the properties

billingVars == <<tenant, period, invoices>>
topUpVars == <<topUps, credited, paused>>
walletVars == <<billingVars, topUpVars, tasks, walletHistory>>

-----------------------------------------------------------------------------
TenantStatus == {"TRIAL", "ACTIVE", "SUSPENDED", "CLOSED"}
TaskSteps == {"idle", "invoice", "pay", "due", "overdue", "suspend",
              "check", "credit", "resume", "forget", "write",
              "telephony", "play", "record", "refund", "over"}
IdleTask == [pc |-> "idle", seen |-> 0, status |-> "ACTIVE", period |-> 0,
             topUp |-> NoTopUp]

WalletTypeOK ==
  /\ tenant \in TenantStatus /\ period \in Periods
  /\ invoices \in [Periods -> {"NONE", "DUE", "PAID"}]
  /\ topUps \in [TopUps -> [paid: BOOLEAN, asked: BOOLEAN, cached: BOOLEAN]]
  /\ credited \subseteq TopUps /\ paused \in BOOLEAN
  /\ tasks \in [Tasks -> [pc: TaskSteps, seen: Int, status: TenantStatus,
                          period: 0..MaxPeriod, topUp: TopUps \cup {NoTopUp}]]

WalletInit ==
  /\ tenant \in {"TRIAL", "ACTIVE"}
  /\ period = 1
  /\ invoices = [p \in Periods |-> "NONE"]
  /\ topUps = [t \in TopUps |-> [asked |-> FALSE, cached |-> FALSE,
                                 paid |-> FALSE]]
  /\ credited = {} /\ paused = FALSE
  /\ tasks = [t \in Tasks |-> IdleTask]
  /\ walletHistory = [first |-> balance, fees |-> [p \in Periods |-> 0],
                      credits |-> [t \in TopUps |-> 0],
                      faults |-> 0, overlap |-> FALSE, stale |-> FALSE,
                      beyond |-> FALSE, overwrote |-> FALSE, lost |-> 0,
                      crashed |-> FALSE]

-----------------------------------------------------------------------------
TaskAt(t, step) == tasks[t].pc = step
TaskTo(t, step) ==
  tasks' = [tasks EXCEPT ![t] = IF step = "over"
                                THEN [IdleTask EXCEPT !.pc = "over"]
                                ELSE [@ EXCEPT !.pc = step]]
MayBegin(t) ==
  /\ TaskAt(t, "idle")
  /\ Cardinality({u \in Tasks : ~TaskAt(u, "idle")}) < MaxTasks
UnderWay(t) == tasks[t].pc \notin {"idle", "over"}
CanFault == walletHistory.faults < MaxWalletFaults

-----------------------------------------------------------------------------
(* chargeMonthlyInvoice, from the monthly job (TRIAL and ACTIVE tenants)   *)
(* or from an administrator's request.                                     *)

ReadTenant(b) ==
  /\ MayBegin(b)
  /\ tenant # "CLOSED"
  /\ tasks' = [tasks EXCEPT ![b] = [IdleTask EXCEPT !.pc = "invoice",
                 !.seen = balance, !.status = tenant, !.period = period]]
  /\ walletHistory' = [walletHistory EXCEPT !.overlap =
                         @ \/ \E c \in Billings \ {b} : UnderWay(c)]
  /\ UNCHANGED <<accountVars, billingVars, topUpVars>>

\* Mutant: a fee is taken whatever the balance is.
CanPayAlways(b) == tasks[b].seen \in Int
\* Whether it can be paid is decided on the balance read before.
CanPay(b) == tasks[b].seen - Fee >= -CreditLimit

ReadInvoice(b) ==
  /\ TaskAt(b, "invoice")
  /\ TaskTo(b, IF invoices[tasks[b].period] = "PAID" THEN "over"
               ELSE IF CanPay(b) THEN "pay" ELSE "due")
  /\ UNCHANGED <<accountVars, billingVars, topUpVars, walletHistory>>

\* One transaction: the balance, the MONTHLY_FEE row and the invoice.
PayInvoice(b) ==
  /\ TaskAt(b, "pay")
  /\ GiveBack(-Fee)
  /\ Write(-Fee)
  /\ invoices' = [invoices EXCEPT ![tasks[b].period] = "PAID"]
  /\ walletHistory' = [walletHistory EXCEPT !.fees[tasks[b].period] = @ + 1,
                         !.stale = @ \/ balance # tasks[b].seen,
                         !.beyond = @ \/ balance - Fee < -CreditLimit]
  /\ TaskTo(b, "over")
  /\ UNCHANGED <<tenant, period, topUpVars>>

\* The upsert leaves the status of an existing invoice alone.
OweInvoice(b) ==
  /\ TaskAt(b, "due")
  /\ invoices' = [invoices EXCEPT ![tasks[b].period] =
                    IF @ = "NONE" THEN "DUE" ELSE @]
  /\ TaskTo(b, IF ProductType = "CRM_BYO_PBX" /\ tasks[b].status = "ACTIVE"
               THEN "overdue" ELSE "over")
  /\ UNCHANGED <<accountVars, tenant, period, topUpVars, walletHistory>>

\* An older invoice that is DUE suspends the tenant.
CountOverdue(b) ==
  /\ TaskAt(b, "overdue")
  /\ TaskTo(b, IF \E p \in 1..(tasks[b].period - 1) : invoices[p] = "DUE"
               THEN "suspend" ELSE "over")
  /\ UNCHANGED <<accountVars, billingVars, topUpVars, walletHistory>>
SuspendDebtor(b) ==
  /\ TaskAt(b, "suspend")
  /\ tenant' = "SUSPENDED"
  /\ TaskTo(b, "over")
  /\ UNCHANGED <<accountVars, period, invoices, topUpVars, walletHistory>>

NextMonth ==
  /\ period < MaxPeriod
  /\ period' = period + 1
  /\ UNCHANGED <<accountVars, tenant, invoices, topUpVars, tasks,
                 walletHistory>>

\* An administrator suspends or reactivates; a closed tenant stays closed.
SetTenantStatus ==
  /\ \/ tenant # "SUSPENDED" /\ tenant' = "SUSPENDED"
     \/ tenant \notin {"ACTIVE", "CLOSED"} /\ tenant' = "ACTIVE"
  /\ UNCHANGED <<accountVars, period, invoices, topUpVars, tasks,
                 walletHistory>>

-----------------------------------------------------------------------------
(* POST /tenant/wallet/topup and the notice of its payment.                *)

\* The reference exists at ProxyPay before Redis knows it.
AskTopUp(t) ==
  /\ ~topUps[t].asked
  /\ \/ /\ topUps' = [topUps EXCEPT ![t].asked = TRUE, ![t].cached = TRUE]
        /\ UNCHANGED walletHistory
     \/ /\ CanFault
        /\ topUps' = [topUps EXCEPT ![t].asked = TRUE]
        /\ walletHistory' = [walletHistory EXCEPT !.faults = @ + 1]
  /\ UNCHANGED <<accountVars, billingVars, credited, paused, tasks>>

PayTopUp(t) ==
  /\ topUps[t].asked /\ ~topUps[t].paid
  /\ topUps' = [topUps EXCEPT ![t].paid = TRUE]
  /\ UNCHANGED <<accountVars, billingVars, credited, paused, tasks,
                 walletHistory>>

\* A notice, the first or a repeated one.  Without an entry in Redis the
\* tenant is the one the notice names; a notice that names none is dropped.
ReceiveNotice(n, t) ==
  /\ MayBegin(n) /\ topUps[t].paid
  /\ \/ tasks' = [tasks EXCEPT ![n] = [IdleTask EXCEPT !.pc = "check",
                                                       !.topUp = t]]
     \/ ~topUps[t].cached /\ TaskTo(n, "over")
  /\ UNCHANGED <<accountVars, billingVars, topUpVars, walletHistory>>

CheckNotice(n) ==
  /\ TaskAt(n, "check")
  /\ TaskTo(n, IF tasks[n].topUp \in credited THEN "over" ELSE "credit")
  /\ UNCHANGED <<accountVars, billingVars, topUpVars, walletHistory>>

\* One transaction, which the unique proxypayRef undoes the second time.
CreditTopUp(n) ==
  /\ TaskAt(n, "credit")
  /\ LET t == tasks[n].topUp
     IN  IF t \in credited
         THEN /\ TaskTo(n, "over")
              /\ UNCHANGED <<accountVars, credited, walletHistory>>
         ELSE /\ GiveBack(Amount)
              /\ Write(Amount)
              /\ credited' = credited \cup {t}
              /\ walletHistory' = [walletHistory EXCEPT !.credits[t] = @ + 1]
              /\ TaskTo(n, "resume")
  /\ UNCHANGED <<billingVars, topUps, paused>>

\* Mutant: the credited tenant's campaigns are forgotten.
ResumeNoCampaign(n) ==
  /\ TaskAt(n, "resume")
  /\ TaskTo(n, "forget")
  /\ UNCHANGED <<accountVars, billingVars, topUpVars, walletHistory>>

\* Every PAUSED campaign of the tenant runs again, whoever paused it.
ResumeCampaigns(n) ==
  /\ TaskAt(n, "resume")
  /\ paused' = FALSE
  /\ TaskTo(n, "forget")
  /\ UNCHANGED <<accountVars, billingVars, topUps, credited, walletHistory>>

ForgetReference(n) ==
  /\ TaskAt(n, "forget")
  /\ topUps' = [topUps EXCEPT ![tasks[n].topUp].cached = FALSE]
  /\ TaskTo(n, "over")
  /\ UNCHANGED <<accountVars, billingVars, credited, paused, walletHistory>>

\* The dispatcher pauses a campaign its tenant cannot pay for, or a user does.
PauseCampaign ==
  /\ ~paused /\ paused' = TRUE
  /\ UNCHANGED <<accountVars, billingVars, topUps, credited, tasks,
                 walletHistory>>

-----------------------------------------------------------------------------
(* POST /admin/tenants/:id/adjust-balance: the balance is read, and later  *)
(* written whatever it has become.                                         *)

ReadBalance(c) ==
  /\ MayBegin(c)
  /\ tasks' = [tasks EXCEPT ![c] = [IdleTask EXCEPT !.pc = "write",
                                                    !.seen = balance]]
  /\ UNCHANGED <<accountVars, billingVars, topUpVars, walletHistory>>
WriteBalance(c) ==
  /\ TaskAt(c, "write")
  /\ \E cents \in {-Amount, Amount} :
       /\ balance' = tasks[c].seen + cents
       /\ Write(cents)
  /\ walletHistory' = [walletHistory EXCEPT !.overwrote =
                         @ \/ balance # tasks[c].seen]
  /\ TaskTo(c, "over")
  /\ UNCHANGED <<billingVars, topUpVars>>

-----------------------------------------------------------------------------
(* POST /v1/otp/call                                                       *)

ReserveOtp(o) ==
  /\ MayBegin(o)
  /\ \/ /\ Reserve(OtpCost)
        /\ tasks' = [tasks EXCEPT ![o].pc = "telephony"]
     \/ Refused(OtpCost) /\ TaskTo(o, "over") /\ UNCHANGED balance
  /\ UNCHANGED <<billingVars, topUpVars, ledger, walletHistory>>

\* Money that no ledger row explains and nothing gives back.
Lose(cents) == walletHistory' = [walletHistory EXCEPT !.lost = @ + cents,
                                                      !.faults = @ + 1]

\* getTenantTelephony is called outside the try.
GetOtpTelephony(o) ==
  /\ TaskAt(o, "telephony")
  /\ \/ TaskTo(o, "play") /\ UNCHANGED walletHistory
     \/ CanFault /\ TaskTo(o, "over") /\ Lose(OtpCost)
  /\ UNCHANGED <<accountVars, billingVars, topUpVars>>

PlayOtp(o) ==
  /\ TaskAt(o, "play")
  /\ \E step \in {"record", "refund"} : TaskTo(o, step)
  /\ UNCHANGED <<accountVars, billingVars, topUpVars, walletHistory>>

\* The balance is read inside the try, so that a failure refunds a call that
\* was placed; the failure of the row itself is caught.
RecordOtp(o) ==
  /\ TaskAt(o, "record")
  /\ \/ /\ Write(-OtpCost)
        /\ TaskTo(o, "over") /\ UNCHANGED walletHistory
     \/ /\ CanFault /\ TaskTo(o, "over") /\ Lose(OtpCost)
        /\ UNCHANGED ledger
     \/ /\ CanFault /\ TaskTo(o, "refund") /\ Lose(0)
        /\ UNCHANGED ledger
  /\ UNCHANGED <<balance, billingVars, topUpVars>>

\* Mutant: a call that was not placed is paid all the same.
RefundOtpForgotten(o) ==
  /\ TaskAt(o, "refund")
  /\ TaskTo(o, "over")
  /\ UNCHANGED <<accountVars, billingVars, topUpVars, walletHistory>>

RefundOtp(o) ==
  /\ TaskAt(o, "refund")
  /\ GiveBack(OtpCost)
  /\ TaskTo(o, "over")
  /\ UNCHANGED <<billingVars, topUpVars, ledger, walletHistory>>

-----------------------------------------------------------------------------
Holding == {o \in Otps : tasks[o].pc \in {"telephony", "play", "record",
                                          "refund"}}

\* The process stops: the database and Redis keep what they have.
CrashWallet ==
  /\ CanFault /\ \E t \in Tasks : UnderWay(t)
  /\ tasks' = [t \in Tasks |-> IF TaskAt(t, "idle") THEN IdleTask
                               ELSE [IdleTask EXCEPT !.pc = "over"]]
  /\ walletHistory' = [walletHistory EXCEPT
       !.crashed = TRUE, !.faults = @ + 1,
       !.lost = @ + OtpCost * Cardinality(Holding)]
  /\ UNCHANGED <<accountVars, billingVars, topUpVars>>

WalletNext ==
  \/ \E b \in Billings : \/ ReadTenant(b) \/ ReadInvoice(b) \/ PayInvoice(b)
                         \/ OweInvoice(b) \/ CountOverdue(b)
                         \/ SuspendDebtor(b)
  \/ \E t \in TopUps : AskTopUp(t) \/ PayTopUp(t)
  \/ \E n \in Notices : \/ \E t \in TopUps : ReceiveNotice(n, t)
                        \/ CheckNotice(n) \/ CreditTopUp(n)
                        \/ ResumeCampaigns(n) \/ ForgetReference(n)
  \/ \E c \in Corrections : ReadBalance(c) \/ WriteBalance(c)
  \/ \E o \in Otps : \/ ReserveOtp(o) \/ GetOtpTelephony(o) \/ PlayOtp(o)
                     \/ RecordOtp(o) \/ RefundOtp(o)
  \/ NextMonth \/ SetTenantStatus \/ PauseCampaign \/ CrashWallet

\* The handler of a notice goes on: its awaits return.
NoticeStep(n) ==
  CheckNotice(n) \/ CreditTopUp(n) \/ ResumeCampaigns(n) \/ ForgetReference(n)

WalletSpec ==
  /\ AccountInit /\ WalletInit
  /\ [][WalletNext]_<<accountVars, walletVars>>
  /\ \A n \in Notices : WF_<<accountVars, walletVars>>(NoticeStep(n))

-----------------------------------------------------------------------------
\* What calls being placed hold of the balance, or a failure has lost.
WalletHeld == walletHistory.lost + OtpCost * Cardinality(Holding)

\* The fee of a month is taken twice only by two runs at once, it takes the
\* balance beyond the credit limit only when the balance changed after it was
\* read, and a month is PAID exactly when its fee was taken; a payment that
\* is notified several times, even at once, is credited one time
\* (chargeMonthlyInvoice; the transaction of webhooks/proxypay.ts).
NothingIsTakenTwice ==
  /\ \A p \in Periods :
       /\ invoices[p] = "PAID" <=> walletHistory.fees[p] > 0
       /\ walletHistory.fees[p] > 1 => walletHistory.overlap
  /\ walletHistory.beyond => walletHistory.stale
  /\ \A t \in TopUps : walletHistory.credits[t] <= 1

\* Campaigns that wait for money when a payment is credited run again; only a
\* crash in between leaves them paused, and no later notice makes up for it.
TopUpResumesCampaigns ==
  (paused /\ \E n \in Notices : TaskAt(n, "resume"))
    ~> (~paused \/ walletHistory.crashed)
=============================================================================
