----------------------------- MODULE MoneyProofs -----------------------------
(***************************************************************************)
(* What is proved of Sms, of Wallet and of both together on one account    *)
(* (MCMoney), for every number of messages, of runs of a campaign, of      *)
(* requests, of months and of failures.                                    *)
(***************************************************************************)
EXTENDS MCMoney, FiniteSetTheorems, WellFoundedInduction, TLAPS

(* The inductive invariant of Sms.                                         *)

\* A step at which a sender has a message in hand.
Sending == {"create", "reserve", "send", "accepted", "refused"}
\* Those at which it holds money for it.
Holds == {"create", "send", "accepted", "refused"}
HasAt(s, m, steps) == Msg(s) = m /\ senders[s].pc \in steps
Those(m, steps) == {s \in Senders : HasAt(s, m, steps)}
Paying(m) == Those(m, Holds)
Unwritten(m) == Those(m, {"accepted"})

SmsHistoryType ==
  [taken: [Messages -> Int], ledger: [Messages -> Nat],
   accepted: [Messages -> SUBSET Senders], hurt: SUBSET Messages,
   faults: Nat, crashed: BOOLEAN, overlap: BOOLEAN,
   crossed: SUBSET Messages]
SenderType == [pc: SenderSteps, msg: Messages \cup {NoMessage},
               id: Senders \cup {NoId}, todo: SUBSET Bulk]
RowType == [status: SmsStatus, id: Senders \cup {NoId}]

SmsTyped ==
  /\ sms \in [Messages -> RowType]
  /\ senders \in [Senders -> SenderType]
  /\ reports \subseteq Report /\ hooks \subseteq Hook
  /\ smsHistory \in SmsHistoryType

\* A request for one message knows that one only, and the loop of a campaign
\* only the messages it has listed.
SenderFits(s) ==
  /\ senders[s].pc \in Sending =>
       Msg(s) \in Messages /\ Msg(s) \notin senders[s].todo
  /\ s \in Singles =>
       /\ senders[s].pc \in {"idle", "create", "send", "accepted",
                             "refused", "over"}
       /\ Msg(s) \in {s, NoMessage}
       /\ senders[s].pc \in {"idle", "create"} =>
            sms[s] = [status |-> "NONE", id |-> NoId]
  /\ s \in Starts => senders[s].pc # "create" /\ Msg(s) \notin Singles

\* Who has sent a message does not come back to it.
SentOnce(s) ==
  \A m \in Messages : s \in smsHistory.accepted[m] =>
    /\ senders[s].pc \notin {"idle", "create", "starting", "list"}
    /\ m \notin senders[s].todo
    /\ ~HasAt(s, m, {"reserve", "send"})
    /\ s \in Singles => m = s
    /\ s \in Starts => m \notin Singles

LoopsFit ==
  \A q, r \in Starts : Looping(q) /\ Looping(r) => q = r \/ smsHistory.overlap

\* The gateway reports what it accepted.
ReportsFit ==
  \A p \in reports \cup hooks : p.id \in smsHistory.accepted[p.message]

\* What the gateway accepted is in the ledger or about to be, and what was
\* taken is in the ledger or in the hands of a sender.
PaidFits(m) ==
  m \notin smsHistory.hurt =>
    /\ Cardinality(smsHistory.accepted[m])
         = smsHistory.ledger[m] + Cardinality(Unwritten(m))
    /\ smsHistory.taken[m]
         = Cost * (smsHistory.ledger[m] + Cardinality(Paying(m)))

\* Handlers of reports that do not cross write in the order they read.
HooksFit(m) ==
  m \notin smsHistory.crossed =>
    /\ \A g, h \in hooks : g.message = m /\ h.message = m => g = h
    /\ sms[m].status = "DELIVERED" =>
         \A h \in hooks : h.message = m => h.status # "SENT"

Clean(m) == ~smsHistory.overlap /\ m \notin smsHistory.hurt
Told(m, status) ==
  \E p \in reports \cup hooks : p.message = m /\ p.status = status

\* A row without an id is the one of a message the gateway never named.
RowFits(m) == sms[m].status \in {"NONE", "QUEUED"} => sms[m].id = NoId

\* While nothing went wrong with a message, its row, its sender and the
\* gateway agree on how far it is.
MessageFits(m) ==
  Clean(m) =>
    /\ \A s, t \in smsHistory.accepted[m] : s = t
    /\ \A s \in Senders :
         HasAt(s, m, Sending) =>
           /\ senders[s].pc # "accepted" => smsHistory.accepted[m] = {}
           /\ senders[s].pc # "create" => sms[m].status = "QUEUED"
           /\ sms[m].id = NoId
    /\ smsHistory.accepted[m] # {} =>
         /\ sms[m].status # "NONE"
         /\ sms[m].status = "QUEUED" =>
              \E s \in smsHistory.accepted[m] : HasAt(s, m, {"accepted"})
    /\ Told(m, "FAILED") =>
         ~Told(m, "DELIVERED") /\ sms[m].status # "DELIVERED"
    /\ \A h \in hooks : h.message = m => h.id = sms[m].id

SmsInv ==
  /\ SmsTyped /\ LoopsFit /\ ReportsFit
  /\ \A s \in Senders : SenderFits(s) /\ SentOnce(s)
  /\ \A m \in Messages :
       PaidFits(m) /\ HooksFit(m) /\ RowFits(m) /\ MessageFits(m)

(* The inductive invariant of Wallet.                                      *)

WalletHistoryType ==
  [first: Int, fees: [Periods -> Nat], credits: [TopUps -> Nat],
   faults: Nat, overlap: BOOLEAN, stale: BOOLEAN, beyond: BOOLEAN,
   overwrote: BOOLEAN, lost: Int, crashed: BOOLEAN]
TaskType == [pc: TaskSteps, seen: Int, status: TenantStatus,
             period: 0..MaxPeriod, topUp: TopUps \cup {NoTopUp}]

WalletTyped ==
  /\ balance \in Int /\ period \in Periods /\ tenant \in TenantStatus
  /\ invoices \in [Periods -> {"NONE", "DUE", "PAID"}]
  /\ credited \subseteq TopUps
  /\ tasks \in [Tasks -> TaskType]
  /\ walletHistory \in WalletHistoryType

BillingSteps == {"invoice", "pay", "due", "overdue", "suspend"}
\* A run of the monthly billing is for a month, saw a balance that pays for
\* it, and, alone, an invoice that was not paid.
BillingFits(b) ==
  /\ tasks[b].pc \in BillingSteps =>
       b \in Billings /\ tasks[b].period \in Periods
  /\ tasks[b].pc = "pay" =>
       /\ CanPay(b)
       /\ walletHistory.overlap \/ invoices[tasks[b].period] # "PAID"
BillingsFit ==
  \A b, c \in Tasks :
    tasks[b].pc \in BillingSteps /\ tasks[c].pc \in BillingSteps =>
      b = c \/ walletHistory.overlap
InvoicesFit ==
  \A p \in Periods :
    /\ invoices[p] = "PAID" <=> walletHistory.fees[p] > 0
    /\ walletHistory.fees[p] > 1 => walletHistory.overlap
CreditsFit ==
  \A t \in TopUps :
    walletHistory.credits[t] = IF t \in credited THEN 1 ELSE 0

\* The handlers of a notice know the top-up they are about.
NoticeFits(n) ==
  tasks[n].pc \in {"check", "credit"} => tasks[n].topUp \in TopUps

WalletInv ==
  /\ WalletTyped
  /\ \A b \in Tasks : BillingFits(b) /\ NoticeFits(b)
  /\ BillingsFit /\ InvoicesFit /\ CreditsFit
  /\ walletHistory.beyond => walletHistory.stale

-----------------------------------------------------------------------------
(* What the steps of Sms do, each named for what becomes of its message.   *)

Others(s) == \A q \in Senders : q # s => senders'[q] = senders[q]
MovesTo(s, pc, msg) ==
  /\ s \in Senders /\ Others(s)
  /\ senders'[s].pc = pc /\ senders'[s].msg = msg
TodoKept(s) == senders'[s].todo = senders[s].todo
RowTo(m, status, id) ==
  /\ m \in Messages /\ \A n \in Messages : n # m => sms'[n] = sms[n]
  /\ sms'[m].status = status /\ sms'[m].id = id
MoneyKept == /\ smsHistory'.taken = smsHistory.taken
             /\ smsHistory'.ledger = smsHistory.ledger
SentKept == smsHistory'.accepted = smsHistory.accepted
FlagsKept == /\ smsHistory'.hurt = smsHistory.hurt
             /\ smsHistory'.crossed = smsHistory.crossed
             /\ smsHistory'.overlap = smsHistory.overlap
HurtsOne(m) == /\ smsHistory'.hurt = smsHistory.hurt \cup {m}
               /\ smsHistory'.crossed = smsHistory.crossed
               /\ smsHistory'.overlap = smsHistory.overlap
Sends(m, s) == smsHistory'.accepted
                 = [smsHistory.accepted EXCEPT ![m] = @ \cup {s}]
Takes(m, money) ==
  /\ smsHistory'.taken = [smsHistory.taken EXCEPT ![m] = @ + money]
  /\ smsHistory'.ledger = smsHistory.ledger
MailKept == reports' = reports /\ hooks' = hooks

\* No sender moves.
Quietly == /\ senders' = senders /\ sms' = sms
           /\ reports' \subseteq reports /\ hooks' = hooks
           /\ MoneyKept /\ SentKept /\ FlagsKept
\* A sender without a message moves to a step without a message.
Wanders(s) ==
  /\ s \in Senders /\ Others(s)
  /\ senders[s].pc \notin Sending /\ senders'[s].pc \notin Sending
  /\ \/ senders'[s].pc \notin {"idle", "create", "starting", "list"}
     \/ senders[s].pc \in {"idle", "starting"}
  /\ senders'[s].todo \subseteq senders[s].todo \/ senders[s].pc = "list"
  /\ SenderFits(s)'
  /\ s \in Starts /\ Looping(s)' /\ ~Looping(s) =>
       smsHistory'.overlap \/ \A q \in Starts : Looping(q) => q = s
  /\ sms' = sms /\ MailKept /\ MoneyKept /\ SentKept
  /\ smsHistory'.hurt = smsHistory.hurt
  /\ smsHistory'.crossed = smsHistory.crossed
  /\ smsHistory.overlap => smsHistory'.overlap
\* The money of a single message is taken.
Orders(m) ==
  /\ m \in Singles /\ senders[m].pc = "idle" /\ MovesTo(m, "create", m)
  /\ sms' = sms /\ MailKept /\ Takes(m, Cost) /\ SentKept /\ FlagsKept
\* Its row is there.
Creates(m) ==
  /\ m \in Singles /\ senders[m].pc = "create" /\ MovesTo(m, "send", m)
  /\ TodoKept(m) /\ RowTo(m, "QUEUED", sms[m].id)
  /\ MailKept /\ MoneyKept /\ SentKept /\ FlagsKept
\* A loop turns to the next message.
Picks(r, m) ==
  /\ r \in Starts /\ senders[r].pc = "next" /\ m \in senders[r].todo
  /\ sms[m].status = "QUEUED" /\ MovesTo(r, "reserve", m)
  /\ senders'[r].todo = senders[r].todo \ {m}
  /\ sms' = sms /\ MailKept /\ MoneyKept /\ SentKept /\ FlagsKept
\* The money of a campaign's message is taken.
Pays(r) ==
  /\ r \in Starts /\ senders[r].pc = "reserve" /\ MovesTo(r, "send", Msg(r))
  /\ TodoKept(r) /\ sms' = sms /\ MailKept
  /\ Takes(Msg(r), Cost) /\ SentKept /\ FlagsKept
\* A message that cannot be paid or sent has failed, and holds no money.
Fails(s, step) ==
  /\ senders[s].pc \in {"reserve", "refused"} /\ step \in {"next", "over"}
  /\ s \in Singles => step = "over"
  /\ MovesTo(s, step, NoMessage) /\ TodoKept(s)
  /\ RowTo(Msg(s), "FAILED", sms[Msg(s)].id) /\ MailKept
  /\ senders[s].pc = "reserve" => MoneyKept
  /\ senders[s].pc = "refused" => Takes(Msg(s), -Cost)
  /\ SentKept /\ FlagsKept
\* The gateway takes a message, refuses it, or takes it and nobody hears.
IsTaken(s) ==
  /\ senders[s].pc = "send" /\ MovesTo(s, "accepted", Msg(s)) /\ TodoKept(s)
  /\ \E final \in {"DELIVERED", "FAILED"} :
       reports' = reports \cup {[message |-> Msg(s), id |-> s, status |-> st] :
                                  st \in {"SENT", final}}
  /\ sms' = sms /\ hooks' = hooks
  /\ MoneyKept /\ Sends(Msg(s), s) /\ FlagsKept
IsRefused(s) ==
  /\ senders[s].pc = "send" /\ MovesTo(s, "refused", Msg(s)) /\ TodoKept(s)
  /\ sms' = sms /\ MailKept /\ MoneyKept /\ SentKept /\ FlagsKept
IsLost(s) ==
  /\ senders[s].pc = "send" /\ MovesTo(s, "refused", Msg(s)) /\ TodoKept(s)
  /\ reports' = reports \cup {[message |-> Msg(s), id |-> s,
                               status |-> "DELIVERED"]}
  /\ sms' = sms /\ hooks' = hooks
  /\ MoneyKept /\ Sends(Msg(s), s) /\ HurtsOne(Msg(s))
\* What was taken is in the ledger.
IsWritten(s, step) ==
  /\ senders[s].pc = "accepted" /\ step \in {"next", "over"}
  /\ s \in Singles => step = "over"
  /\ MovesTo(s, step, NoMessage) /\ TodoKept(s)
  /\ \E id \in Senders \cup {NoId} : RowTo(Msg(s), "SENT", id)
  /\ MailKept /\ smsHistory'.taken = smsHistory.taken
  /\ smsHistory'.ledger = [smsHistory.ledger EXCEPT ![Msg(s)] = @ + 1]
  /\ SentKept /\ FlagsKept
\* A write is lost, and with it what the sender knew.
Breaks(s, step) ==
  /\ senders[s].pc \in {"create", "accepted", "refused"}
  /\ step \in {"finally", "over"}
  /\ s \in Singles => step = "over"
  /\ MovesTo(s, step, NoMessage) /\ TodoKept(s)
  /\ sms' = sms /\ MailKept /\ MoneyKept /\ SentKept /\ HurtsOne(Msg(s))
Stops ==
  /\ \A s \in Senders : /\ senders'[s].todo = {}
                        /\ senders'[s].msg = NoMessage
                        /\ senders'[s].pc = IF senders[s].pc = "idle"
                                            THEN "idle" ELSE "over"
  /\ sms' = sms /\ reports' = reports /\ hooks' = {}
  /\ MoneyKept /\ SentKept
  /\ smsHistory.hurt \subseteq smsHistory'.hurt
  /\ \A s \in Senders : Msg(s) # NoMessage => Msg(s) \in smsHistory'.hurt
  /\ smsHistory'.crossed = smsHistory.crossed
  /\ smsHistory'.overlap = smsHistory.overlap
Prepares(m) ==
  /\ m \in Bulk /\ sms[m].status = "NONE" /\ RowTo(m, "QUEUED", sms[m].id)
  /\ senders' = senders /\ MailKept /\ MoneyKept /\ SentKept /\ FlagsKept
\* A handler of a report has read the row that the report is about.
IsRead(p) ==
  /\ p \in reports /\ reports' = reports \ {p}
  /\ sms[p.message].id = p.id
  /\ ~Regresses(sms[p.message].status, p.status)
  /\ hooks' = hooks \cup {[message |-> p.message, id |-> p.id,
                           read |-> sms[p.message].status,
                           status |-> p.status]}
  /\ senders' = senders /\ sms' = sms /\ MoneyKept /\ SentKept
  /\ smsHistory'.crossed = IF \E h \in hooks : h.message = p.message
                           THEN smsHistory.crossed \cup {p.message}
                           ELSE smsHistory.crossed
  /\ smsHistory'.hurt = smsHistory.hurt
  /\ smsHistory'.overlap = smsHistory.overlap
IsReported(h) ==
  /\ h \in hooks /\ hooks' = hooks \ {h} /\ reports' = reports
  /\ RowTo(h.message, h.status, sms[h.message].id)
  /\ senders' = senders /\ MoneyKept /\ SentKept /\ FlagsKept

SmsEffect ==
  \/ Quietly \/ Stops
  \/ \E s \in Senders : Wanders(s) \/ IsTaken(s) \/ IsRefused(s) \/ IsLost(s)
  \/ \E s \in Senders, step \in SenderSteps :
       Fails(s, step) \/ IsWritten(s, step) \/ Breaks(s, step)
  \/ \E m \in Singles : Orders(m) \/ Creates(m)
  \/ \E r \in Starts : Pays(r) \/ \E m \in Bulk : Picks(r, m)
  \/ \E m \in Bulk : Prepares(m)
  \/ \E p \in reports : IsRead(p)
  \/ \E h \in hooks : IsReported(h)

-----------------------------------------------------------------------------
(* What the parts of a step do to a record.                                *)

USE DEF Sending, Holds

LEMMA SenderRange == Singles \subseteq Messages /\ Bulk \subseteq Messages
                     /\ Singles \subseteq Senders /\ Starts \subseteq Senders
                     /\ NoMessage \notin Messages /\ NoId \notin Senders
  BY SmsNamesAssumption DEF Messages, Senders

LEMMA GotoFacts ==
  ASSUME SmsTyped, NEW s \in Senders, NEW step \in SenderSteps, Goto(s, step)
  PROVE  /\ senders' \in [Senders -> SenderType]
         /\ MovesTo(s, step, IF step \in Done THEN NoMessage ELSE Msg(s))
         /\ TodoKept(s)
  <1> DEFINE new == [pc |-> step, id |-> NoId, todo |-> senders[s].todo,
                     msg |-> IF step \in Done THEN NoMessage ELSE senders[s].msg]
  <1>1. senders[s] \in SenderType
    BY DEF SmsTyped
  <1> DEFINE r == senders[s]
             r1 == [pc |-> step, msg |-> r.msg, id |-> r.id, todo |-> r.todo]
             r2 == [pc |-> step, msg |-> r.msg, id |-> NoId, todo |-> r.todo]
  <1>a. [r EXCEPT !.pc = step] = r1
    BY <1>1 DEF SenderType
  <1>b. [r1 EXCEPT !.id = NoId] = r2
    OBVIOUS
  <1>c. [r2 EXCEPT !.msg = IF step \in Done THEN NoMessage ELSE @] = new
    OBVIOUS
  <1>2. senders' = [senders EXCEPT ![s] = new]
    BY <1>a, <1>b, <1>c DEF Goto, SmsTyped
  <1>3. /\ new \in SenderType /\ new.pc = step /\ new.todo = senders[s].todo
        /\ new.msg = IF step \in Done THEN NoMessage ELSE Msg(s)
    BY <1>1 DEF SenderType, Msg
  <1> HIDE DEF new
  <1> QED
    BY <1>2, <1>3 DEF SmsTyped, MovesTo, Others, TodoKept

LEMMA RowFacts ==
  ASSUME SmsTyped, NEW m \in Messages, NEW status \in SmsStatus,
         sms' = [sms EXCEPT ![m].status = status]
  PROVE  sms' \in [Messages -> RowType] /\ RowTo(m, status, sms[m].id)
  <1> DEFINE new == [status |-> status, id |-> sms[m].id]
  <1>1. sms[m] \in RowType
    BY DEF SmsTyped
  <1>a. [sms[m] EXCEPT !.status = status] = new
    BY <1>1 DEF RowType
  <1>2. sms' = [sms EXCEPT ![m] = new]
    BY <1>a DEF SmsTyped
  <1>3. new \in RowType /\ new.status = status /\ new.id = sms[m].id
    BY <1>1 DEF RowType
  <1> HIDE DEF new
  <1> QED
    BY <1>2, <1>3 DEF SmsTyped, RowTo

\* A history that changes by its parts is one.
LEMMA HistoryFacts ==
  ASSUME SmsTyped,
         NEW taken \in [Messages -> Int], NEW rows \in [Messages -> Nat],
         NEW accepted \in [Messages -> SUBSET Senders],
         NEW hurt \in SUBSET Messages, NEW faults \in Nat,
         NEW crashed \in BOOLEAN, NEW overlap \in BOOLEAN,
         NEW crossed \in SUBSET Messages,
         smsHistory' = [taken |-> taken, ledger |-> rows,
                        accepted |-> accepted, hurt |-> hurt,
                        faults |-> faults, crashed |-> crashed,
                        overlap |-> overlap, crossed |-> crossed]
  PROVE  /\ smsHistory' \in SmsHistoryType
         /\ smsHistory'.taken = taken /\ smsHistory'.ledger = rows
         /\ smsHistory'.accepted = accepted /\ smsHistory'.hurt = hurt
         /\ smsHistory'.crossed = crossed /\ smsHistory'.overlap = overlap
  BY DEF SmsHistoryType

LEMMA HistoryParts ==
  ASSUME SmsTyped
  PROVE  /\ smsHistory.taken \in [Messages -> Int]
         /\ smsHistory.ledger \in [Messages -> Nat]
         /\ smsHistory.accepted \in [Messages -> SUBSET Senders]
         /\ smsHistory.hurt \in SUBSET Messages /\ smsHistory.faults \in Nat
         /\ smsHistory.crashed \in BOOLEAN /\ smsHistory.overlap \in BOOLEAN
         /\ smsHistory.crossed \in SUBSET Messages
  BY DEF SmsTyped, SmsHistoryType

LEMMA HistoryStays ==
  ASSUME SmsTyped, UNCHANGED smsHistory
  PROVE  MoneyKept /\ SentKept /\ FlagsKept /\ smsHistory' \in SmsHistoryType
  BY DEF SmsTyped, MoneyKept, SentKept, FlagsKept

LEMMA HurtFacts ==
  ASSUME SmsTyped, NEW m \in Messages, Hurt(m)
  PROVE  /\ MoneyKept /\ SentKept /\ HurtsOne(m)
         /\ smsHistory' \in SmsHistoryType
  <1> DEFINE h == smsHistory
  <1>1. smsHistory' = [taken |-> h.taken, ledger |-> h.ledger,
                       accepted |-> h.accepted, hurt |-> h.hurt \cup {m},
                       faults |-> h.faults + 1, crashed |-> h.crashed,
                       overlap |-> h.overlap, crossed |-> h.crossed]
    BY DEF SmsTyped, SmsHistoryType, Hurt
  <1>2. h.hurt \cup {m} \in SUBSET Messages /\ h.faults + 1 \in Nat
    BY HistoryParts
  <1> QED
    BY <1>1, <1>2, HistoryParts, HistoryFacts
       DEF MoneyKept, SentKept, HurtsOne

LEMMA SettleFacts ==
  ASSUME SmsTyped, NEW m \in Messages, NEW money \in Int, NEW rows \in Nat,
         Settle(m, money, rows)
  PROVE  /\ smsHistory'.taken = [smsHistory.taken EXCEPT ![m] = @ + money]
         /\ smsHistory'.ledger = [smsHistory.ledger EXCEPT ![m] = @ + rows]
         /\ SentKept /\ FlagsKept /\ smsHistory' \in SmsHistoryType
  <1> DEFINE h == smsHistory
             t == [h.taken EXCEPT ![m] = @ + money]
             l == [h.ledger EXCEPT ![m] = @ + rows]
  <1>1. smsHistory' = [taken |-> t, ledger |-> l,
                       accepted |-> h.accepted, hurt |-> h.hurt,
                       faults |-> h.faults, crashed |-> h.crashed,
                       overlap |-> h.overlap, crossed |-> h.crossed]
    BY DEF SmsTyped, SmsHistoryType, Settle
  <1>2. t \in [Messages -> Int] /\ l \in [Messages -> Nat]
    BY HistoryParts
  <1> HIDE DEF t, l
  <1>3. /\ smsHistory'.taken = t /\ smsHistory'.ledger = l
        /\ smsHistory' \in SmsHistoryType
        /\ smsHistory'.accepted = h.accepted /\ smsHistory'.hurt = h.hurt
        /\ smsHistory'.crossed = h.crossed /\ smsHistory'.overlap = h.overlap
    BY <1>1, <1>2, HistoryParts, HistoryFacts
  <1> QED
    BY <1>3 DEF t, l, SentKept, FlagsKept

\* Nothing written and nothing taken.
LEMMA SettleNothing ==
  ASSUME SmsTyped, NEW m \in Messages, NEW money \in Int,
         Settle(m, money, 0)
  PROVE  /\ Takes(m, money) /\ SentKept /\ FlagsKept
         /\ smsHistory' \in SmsHistoryType
  <1>1. [smsHistory.ledger EXCEPT ![m] = @ + 0] = smsHistory.ledger
    BY HistoryParts
  <1> QED
    BY <1>1, SettleFacts DEF Takes

LEMMA SettleRow ==
  ASSUME SmsTyped, NEW m \in Messages, Settle(m, 0, 1)
  PROVE  /\ smsHistory'.taken = smsHistory.taken
         /\ smsHistory'.ledger = [smsHistory.ledger EXCEPT ![m] = @ + 1]
         /\ SentKept /\ FlagsKept /\ smsHistory' \in SmsHistoryType
  <1>1. [smsHistory.taken EXCEPT ![m] = @ + 0] = smsHistory.taken
    BY HistoryParts
  <1> QED
    BY <1>1, SettleFacts

HearsOf(m, s, hurt, faults) ==
  smsHistory' = [Accepted(m, s) EXCEPT !.hurt = hurt, !.faults = faults]

LEMMA SentFacts ==
  ASSUME SmsTyped, NEW m \in Messages, NEW s \in Senders,
         NEW hurt \in SUBSET Messages, NEW faults \in Nat,
         HearsOf(m, s, hurt, faults)
  PROVE  /\ Sends(m, s) /\ MoneyKept /\ smsHistory' \in SmsHistoryType
         /\ smsHistory'.hurt = hurt
         /\ smsHistory'.crossed = smsHistory.crossed
         /\ smsHistory'.overlap = smsHistory.overlap
  <1> DEFINE h == smsHistory
             a == [h.accepted EXCEPT ![m] = @ \cup {s}]
  <1>1. smsHistory' = [taken |-> h.taken, ledger |-> h.ledger,
                       accepted |-> a, hurt |-> hurt,
                       faults |-> faults, crashed |-> h.crashed,
                       overlap |-> h.overlap, crossed |-> h.crossed]
    BY DEF SmsTyped, SmsHistoryType, Accepted, HearsOf
  <1>2. a \in [Messages -> SUBSET Senders]
    BY HistoryParts
  <1> HIDE DEF a
  <1>3. /\ smsHistory'.taken = h.taken /\ smsHistory'.ledger = h.ledger
        /\ smsHistory'.accepted = a /\ smsHistory'.hurt = hurt
        /\ smsHistory'.crossed = h.crossed /\ smsHistory'.overlap = h.overlap
        /\ smsHistory' \in SmsHistoryType
    BY <1>1, <1>2, HistoryParts, HistoryFacts
  <1> QED
    BY <1>3 DEF a, Sends, MoneyKept

-----------------------------------------------------------------------------
(* Every action has one of the effects, and keeps the types.               *)

\* What does not change keeps its type.
LEMMA TypesStay ==
  ASSUME SmsTyped
  PROVE  /\ UNCHANGED sms => sms' \in [Messages -> RowType]
         /\ UNCHANGED senders => senders' \in [Senders -> SenderType]
         /\ UNCHANGED reportVars => /\ reports' \subseteq Report
                                    /\ hooks' \subseteq Hook /\ MailKept
  BY DEF SmsTyped, reportVars, MailKept

LEMMA TypesBack ==
  ASSUME sms' \in [Messages -> RowType], senders' \in [Senders -> SenderType],
         reports' \subseteq Report, hooks' \subseteq Hook,
         smsHistory' \in SmsHistoryType
  PROVE  SmsTyped'
  BY DEF SmsTyped

LEMMA SenderParts ==
  ASSUME SmsTyped, NEW s \in Senders
  PROVE  /\ senders[s].pc \in SenderSteps /\ senders[s].todo \in SUBSET Bulk
         /\ Msg(s) \in Messages \cup {NoMessage} /\ senders[s].msg = Msg(s)
         /\ senders[s].id \in Senders \cup {NoId}
         /\ senders[s] \in SenderType
  BY DEF SmsTyped, SenderType, Msg

LEMMA SendSmsEffect ==
  ASSUME SmsTyped, NEW m \in Singles, SenderFits(m), SendSms(m)
  PROVE  SmsTyped' /\ (Orders(m) \/ Wanders(m))
  <1>0. /\ m \in Senders /\ m \in Messages /\ senders[m].pc = "idle"
        /\ m \notin Starts
    BY SenderRange, SmsAssumption DEF SendSms, Requested, At
  <1>1. UNCHANGED sms /\ UNCHANGED reportVars
    BY DEF SendSms
  <1>2. CASE senders' = [senders EXCEPT ![m] = [Idle EXCEPT !.pc = "create",
                                                            !.msg = m]]
             /\ Settle(m, Cost, 0)
    <2> DEFINE new == [Idle EXCEPT !.pc = "create", !.msg = m]
    <2> DEFINE r1 == [pc |-> "create", msg |-> NoMessage, id |-> NoId,
                      todo |-> {}]
    <2>a. [Idle EXCEPT !.pc = "create"] = r1
      BY DEF Idle
    <2>b. [r1 EXCEPT !.msg = m]
            = [pc |-> "create", msg |-> m, id |-> NoId, todo |-> {}]
      OBVIOUS
    <2>1. new = [pc |-> "create", msg |-> m, id |-> NoId, todo |-> {}]
      BY <2>a, <2>b
    <2>2. /\ new \in SenderType /\ new.pc = "create" /\ new.msg = m
          /\ new.todo = {}
      BY <2>1, <1>0 DEF SenderType, SenderSteps
    <2> HIDE DEF new
    <2>c. senders' = [senders EXCEPT ![m] = new]
      BY <1>2 DEF new
    <2>3. /\ senders' \in [Senders -> SenderType]
          /\ MovesTo(m, "create", m)
      BY <2>c, <1>0, <2>2 DEF SmsTyped, MovesTo, Others
    <2>4. /\ Takes(m, Cost) /\ SentKept /\ FlagsKept
          /\ smsHistory' \in SmsHistoryType
      BY <1>2, <1>0, SettleNothing, SmsAssumption
    <2> QED
      BY <1>0, <1>1, <2>3, <2>4, TypesStay, TypesBack DEF Orders
  <1>3. CASE Goto(m, "over") /\ UNCHANGED smsHistory
    <2>1. /\ senders' \in [Senders -> SenderType]
          /\ MovesTo(m, "over", NoMessage) /\ TodoKept(m)
      BY <1>0, <1>3, GotoFacts DEF SenderSteps, Done
    <2>2. SenderFits(m)'
      BY <1>0, <2>1 DEF MovesTo, SenderFits, Msg
    <2> QED
      BY <1>0, <1>1, <1>3, <2>1, <2>2, HistoryStays, TypesStay, TypesBack
         DEF Wanders, MovesTo, TodoKept, FlagsKept
  <1> QED
    BY <1>2, <1>3 DEF SendSms

LEMMA CreateSmsEffect ==
  ASSUME SmsTyped, NEW m \in Singles, SenderFits(m), CreateSms(m)
  PROVE  SmsTyped' /\ (Creates(m) \/ Breaks(m, "over"))
  <1>0. /\ m \in Senders /\ m \in Messages /\ senders[m].pc = "create"
        /\ Msg(m) = m
    BY SenderRange DEF CreateSms, At, SenderFits
  <1>1. UNCHANGED reportVars
    BY DEF CreateSms
  <1>2. CASE /\ sms' = [sms EXCEPT ![m].status = "QUEUED"]
             /\ Goto(m, "send") /\ UNCHANGED smsHistory
    <2>1. /\ senders' \in [Senders -> SenderType]
          /\ MovesTo(m, "send", m) /\ TodoKept(m)
      BY <1>0, <1>2, GotoFacts DEF SenderSteps, Done
    <2>2. sms' \in [Messages -> RowType] /\ RowTo(m, "QUEUED", sms[m].id)
      BY <1>0, <1>2, RowFacts DEF SmsStatus
    <2> QED
      BY <1>0, <1>1, <1>2, <2>1, <2>2, HistoryStays, TypesStay, TypesBack
         DEF Creates
  <1>3. CASE Hurt(m) /\ Goto(m, "over") /\ UNCHANGED sms
    <2>1. /\ senders' \in [Senders -> SenderType]
          /\ MovesTo(m, "over", NoMessage) /\ TodoKept(m)
      BY <1>0, <1>3, GotoFacts DEF SenderSteps, Done
    <2> QED
      BY <1>0, <1>1, <1>3, <2>1, HurtFacts, TypesStay, TypesBack DEF Breaks
  <1> QED
    BY <1>2, <1>3 DEF CreateSms

LEMMA PrepareEffect ==
  ASSUME SmsTyped, NEW m \in Bulk, PrepareRecipients(m)
  PROVE  SmsTyped' /\ Prepares(m)
  <1>1. sms' \in [Messages -> RowType] /\ RowTo(m, "QUEUED", sms[m].id)
    BY RowFacts, SenderRange DEF PrepareRecipients, SmsStatus
  <1> QED
    BY <1>1, HistoryStays, TypesStay, TypesBack
       DEF PrepareRecipients, Prepares

\* A loop goes to a step at which it has no message in hand.
LEMMA LoopGoes ==
  ASSUME SmsTyped, NEW r \in Starts, SenderFits(r),
         NEW step \in SenderSteps \ Sending, Goto(r, step)
  PROVE  /\ senders' \in [Senders -> SenderType] /\ Others(r) /\ TodoKept(r)
         /\ senders'[r].pc = step /\ SenderFits(r)'
         /\ r \in Senders /\ r \notin Singles
  <1>0. r \in Senders /\ r \notin Singles /\ NoMessage \notin Singles
    BY SenderRange, SmsAssumption
  <1>1. /\ senders' \in [Senders -> SenderType] /\ TodoKept(r)
        /\ MovesTo(r, step, IF step \in Done THEN NoMessage ELSE Msg(r))
    BY <1>0, GotoFacts
  <1> QED
    BY <1>0, <1>1 DEF SenderFits, Msg, MovesTo

LEMMA StartEffect ==
  ASSUME SmsTyped, NEW r \in Starts, SenderFits(r), StartCampaign(r)
  PROVE  SmsTyped' /\ Wanders(r)
  <1>0. senders[r].pc = "idle"
    BY DEF StartCampaign, Requested, At
  <1>1. PICK step \in {"over", "starting"} : Goto(r, step)
    BY DEF StartCampaign
  <1>2. /\ senders' \in [Senders -> SenderType] /\ TodoKept(r) /\ Others(r)
        /\ senders'[r].pc = step /\ SenderFits(r)' /\ r \in Senders
    BY <1>1, LoopGoes DEF SenderSteps
  <1>3. ~Looping(r)'
    BY <1>2 DEF Looping
  <1> QED
    BY <1>0, <1>2, <1>3, HistoryStays, TypesStay, TypesBack
       DEF StartCampaign, Wanders, FlagsKept, TodoKept

LEMMA MarkRunningEffect ==
  ASSUME SmsTyped, NEW r \in Starts, SenderFits(r), MarkRunning(r)
  PROVE  SmsTyped' /\ Wanders(r)
  <1> DEFINE h == smsHistory
             o == h.overlap \/ \E q \in Starts \ {r} : Looping(q)
  <1>1. /\ senders' \in [Senders -> SenderType] /\ TodoKept(r) /\ Others(r)
        /\ senders'[r].pc = "list" /\ SenderFits(r)' /\ r \in Senders
    BY LoopGoes DEF SenderSteps, MarkRunning
  <1>2. smsHistory' = [taken |-> h.taken, ledger |-> h.ledger,
                       accepted |-> h.accepted, hurt |-> h.hurt,
                       faults |-> h.faults, crashed |-> h.crashed,
                       overlap |-> o, crossed |-> h.crossed]
    BY DEF SmsTyped, SmsHistoryType, MarkRunning
  <1>3. o \in BOOLEAN
    BY HistoryParts
  <1>4. (h.overlap => o) /\ (o \/ \A q \in Starts : Looping(q) => q = r)
    BY <1>3
  <1> HIDE DEF o
  <1>5. /\ smsHistory' \in SmsHistoryType /\ smsHistory'.overlap = o
        /\ MoneyKept /\ SentKept /\ smsHistory'.hurt = h.hurt
        /\ smsHistory'.crossed = h.crossed
    BY <1>2, <1>3, HistoryParts, HistoryFacts DEF MoneyKept, SentKept
  <1>6. senders[r].pc = "starting" /\ UNCHANGED sms /\ UNCHANGED reportVars
    BY DEF MarkRunning, At
  <1> QED
    BY <1>1, <1>4, <1>5, <1>6, TypesStay, TypesBack
       DEF Wanders, TodoKept

\* A step of a loop that stays in its part of the work.
LEMMA StaysInLoop ==
  ASSUME SmsTyped, NEW r \in Starts, SenderFits(r),
         NEW step \in {"next", "finally", "closing", "over"}, Goto(r, step),
         senders[r].pc \in {"list", "next", "finally", "closing"},
         UNCHANGED sms, UNCHANGED reportVars, MoneyKept, SentKept, FlagsKept,
         smsHistory' \in SmsHistoryType
  PROVE  SmsTyped' /\ Wanders(r)
  <1>1. /\ senders' \in [Senders -> SenderType] /\ TodoKept(r) /\ Others(r)
        /\ senders'[r].pc = step /\ SenderFits(r)' /\ r \in Senders
    BY LoopGoes DEF SenderSteps
  <1>2. Looping(r)
    BY DEF Looping
  <1> QED
    BY <1>1, <1>2, TypesStay, TypesBack DEF Wanders, FlagsKept, TodoKept

LEMMA NewTodo ==
  ASSUME NEW pc, NEW msg, NEW id, NEW old, NEW todo
  PROVE  [[pc |-> pc, msg |-> msg, id |-> id, todo |-> old]
            EXCEPT !.todo = todo]
           = [pc |-> pc, msg |-> msg, id |-> id, todo |-> todo]
  OBVIOUS

LEMMA ListEffect ==
  ASSUME SmsTyped, NEW r \in Starts, SenderFits(r), ListQueued(r)
  PROVE  SmsTyped' /\ Wanders(r)
  <1> DEFINE queued == {m \in Bulk : sms[m].status = "QUEUED"}
             new == [pc |-> "next", msg |-> Msg(r), id |-> senders[r].id,
                     todo |-> queued]
  <1>0. r \in Senders /\ r \notin Singles /\ senders[r].pc = "list"
    BY SenderRange, SmsAssumption DEF ListQueued, At
  <1>a. [senders[r] EXCEPT !.pc = "next"]
          = [pc |-> "next", msg |-> Msg(r), id |-> senders[r].id,
             todo |-> senders[r].todo]
    BY <1>0, SenderParts DEF SenderType
  <1>q. queued \in SUBSET Bulk
    OBVIOUS
  <1>r. senders' = [senders EXCEPT ![r].pc = "next", ![r].todo = queued]
    BY DEF ListQueued
  <1> HIDE DEF queued
  <1>b. [[pc |-> "next", msg |-> Msg(r), id |-> senders[r].id,
          todo |-> senders[r].todo] EXCEPT !.todo = queued] = new
    BY NewTodo
  <1>1. senders' = [senders EXCEPT ![r] = new]
    BY <1>0, <1>a, <1>b, <1>r DEF SmsTyped
  <1>2. /\ new \in SenderType /\ new.pc = "next" /\ new.msg = Msg(r)
    BY <1>0, <1>q, SenderParts DEF SenderType, SenderSteps
  <1> HIDE DEF new
  <1>3. /\ senders' \in [Senders -> SenderType] /\ Others(r)
        /\ senders'[r].pc = "next" /\ senders'[r].msg = Msg(r)
    BY <1>0, <1>1, <1>2 DEF SmsTyped, Others
  <1>4. SenderFits(r)' /\ Looping(r)
    BY <1>0, <1>3 DEF SenderFits, Looping, Msg
  <1> QED
    BY <1>0, <1>3, <1>4, HistoryStays, TypesStay, TypesBack
       DEF ListQueued, Wanders, FlagsKept

LEMMA NextEffect ==
  ASSUME SmsTyped, NEW r \in Starts, SenderFits(r), NextQueued(r)
  PROVE  SmsTyped' /\ (Wanders(r) \/ \E m \in Bulk : Picks(r, m))
  <1>0. /\ r \in Senders /\ r \notin Singles /\ senders[r].pc = "next"
        /\ Looping(r) /\ UNCHANGED sms /\ UNCHANGED reportVars
        /\ UNCHANGED smsHistory
    BY SenderRange, SmsAssumption DEF NextQueued, At, Looping
  <1>1. CASE Goto(r, "finally")
    BY <1>0, <1>1, HistoryStays, StaysInLoop
  <1>2. ASSUME NEW m \in senders[r].todo,
               NEW step \in {"reserve", "next"},
               step = "reserve" => sms[m].status = "QUEUED",
               senders' = [senders EXCEPT ![r].todo = @ \ {m}, ![r].msg = m,
                                          ![r].pc = step]
        PROVE  SmsTyped' /\ (Wanders(r) \/ Picks(r, m)) /\ m \in Bulk
    <2> DEFINE r0 == senders[r]
               left == r0.todo \ {m}
               r1 == [pc |-> r0.pc, msg |-> r0.msg, id |-> r0.id, todo |-> left]
               r2 == [pc |-> r0.pc, msg |-> m, id |-> r0.id, todo |-> left]
               new == [pc |-> step, msg |-> m, id |-> r0.id, todo |-> left]
    <2>0. m \in Bulk /\ m \in Messages /\ m \notin Singles
      BY <1>0, SenderParts, SenderRange, SmsAssumption
    <2>d. r0 = [pc |-> r0.pc, msg |-> r0.msg, id |-> r0.id, todo |-> r0.todo]
      BY <1>0, SenderParts DEF SenderType
    <2>e. [[pc |-> r0.pc, msg |-> r0.msg, id |-> r0.id, todo |-> r0.todo]
             EXCEPT !.todo = left] = r1
      BY NewTodo
    <2>a. [r0 EXCEPT !.todo = left] = r1
      BY <2>d, <2>e
    <2>b. [r1 EXCEPT !.msg = m] = r2
      OBVIOUS
    <2>c. [r2 EXCEPT !.pc = step] = new
      OBVIOUS
    <2>1. senders' = [senders EXCEPT ![r] = new]
      BY <1>0, <1>2, <2>a, <2>b, <2>c DEF SmsTyped
    <2>2. /\ new \in SenderType /\ new.pc = step /\ new.msg = m
          /\ new.todo = left
      BY <1>0, <2>0, SenderParts DEF SenderType, SenderSteps
    <2> HIDE DEF new
    <2>3. /\ senders' \in [Senders -> SenderType] /\ MovesTo(r, step, m)
          /\ senders'[r].todo = left
      BY <1>0, <2>1, <2>2 DEF SmsTyped, MovesTo, Others
    <2>4. SenderFits(r)'
      BY <1>0, <2>0, <2>3 DEF SenderFits, MovesTo, Msg
    <2>5. /\ smsHistory' \in SmsHistoryType /\ MailKept /\ MoneyKept
          /\ SentKept /\ FlagsKept /\ SmsTyped'
      BY <1>0, <2>3, HistoryStays, TypesStay, TypesBack
    <2>6. CASE step = "next"
      BY <1>0, <2>0, <2>3, <2>4, <2>5, <2>6 DEF Wanders, MovesTo, FlagsKept
    <2>7. CASE step = "reserve"
      BY <1>0, <1>2, <2>0, <2>3, <2>5, <2>7 DEF Picks
    <2> QED
      BY <2>0, <2>5, <2>6, <2>7
  <1>3. CASE \E m \in senders[r].todo :
               senders' = [senders EXCEPT
                 ![r].todo = @ \ {m}, ![r].msg = m,
                 ![r].pc = IF sms[m].status = "QUEUED" THEN "reserve"
                           ELSE "next"]
    <2>1. PICK m \in senders[r].todo :
               senders' = [senders EXCEPT
                 ![r].todo = @ \ {m}, ![r].msg = m,
                 ![r].pc = IF sms[m].status = "QUEUED" THEN "reserve"
                           ELSE "next"]
      BY <1>3
    <2>2. PICK step \in {"reserve", "next"} :
               step = IF sms[m].status = "QUEUED" THEN "reserve" ELSE "next"
      OBVIOUS
    <2> QED
      BY <1>2, <2>1, <2>2
  <1> QED
    BY <1>1, <1>3 DEF NextQueued

LEMMA ReserveQueuedEffect ==
  ASSUME SmsTyped, NEW r \in Starts, SenderFits(r), ReserveQueued(r)
  PROVE  SmsTyped' /\ (Pays(r) \/ Fails(r, "next"))
  <1>0. /\ r \in Senders /\ r \notin Singles /\ senders[r].pc = "reserve"
        /\ Msg(r) \in Messages /\ UNCHANGED reportVars
    BY SenderRange, SmsAssumption DEF ReserveQueued, At, SenderFits
  <1>1. CASE Goto(r, "send") /\ Settle(Msg(r), Cost, 0) /\ UNCHANGED sms
    <2>1. /\ senders' \in [Senders -> SenderType] /\ TodoKept(r)
          /\ MovesTo(r, "send", Msg(r))
      BY <1>0, <1>1, GotoFacts DEF SenderSteps, Done
    <2>2. PICK m \in Messages : m = Msg(r)
      BY <1>0
    <2>3. /\ Takes(m, Cost) /\ SentKept /\ FlagsKept
          /\ smsHistory' \in SmsHistoryType
      BY <1>1, <2>2, SettleNothing, SmsAssumption
    <2> QED
      BY <1>0, <1>1, <2>1, <2>2, <2>3, TypesStay, TypesBack DEF Pays
  <1>2. CASE /\ sms' = [sms EXCEPT ![Msg(r)].status = "FAILED"]
             /\ Goto(r, "next") /\ UNCHANGED smsHistory
    <2>1. /\ senders' \in [Senders -> SenderType] /\ TodoKept(r)
          /\ MovesTo(r, "next", NoMessage)
      BY <1>0, <1>2, GotoFacts DEF SenderSteps, Done
    <2>2. PICK m \in Messages : m = Msg(r)
      BY <1>0
    <2>3. /\ sms' \in [Messages -> RowType]
          /\ RowTo(m, "FAILED", sms[m].id)
      BY <1>2, <2>2, RowFacts DEF SmsStatus
    <2> QED
      BY <1>0, <1>2, <2>1, <2>2, <2>3, HistoryStays, TypesStay, TypesBack
         DEF Fails
  <1> QED
    BY <1>1, <1>2 DEF ReserveQueued

OneFault == smsHistory' = [smsHistory EXCEPT !.faults = @ + 1]
LEMMA FaultCounts ==
  ASSUME SmsTyped, OneFault
  PROVE  /\ MoneyKept /\ SentKept /\ FlagsKept
         /\ smsHistory' \in SmsHistoryType
  <1> DEFINE h == smsHistory
  <1>1. smsHistory' = [taken |-> h.taken, ledger |-> h.ledger,
                       accepted |-> h.accepted, hurt |-> h.hurt,
                       faults |-> h.faults + 1, crashed |-> h.crashed,
                       overlap |-> h.overlap, crossed |-> h.crossed]
    BY DEF SmsTyped, SmsHistoryType, OneFault
  <1>2. h.faults + 1 \in Nat
    BY HistoryParts
  <1> QED
    BY <1>1, <1>2, HistoryParts, HistoryFacts
       DEF MoneyKept, SentKept, FlagsKept

LEMMA LoopEndEffect ==
  ASSUME SmsTyped, NEW r \in Starts, SenderFits(r),
         LoopThrows(r) \/ ReadStatus(r) \/ MarkDone(r)
  PROVE  SmsTyped' /\ Wanders(r)
  <1>1. CASE LoopThrows(r)
    BY <1>1, FaultCounts, StaysInLoop DEF LoopThrows, OneFault
  <1>2. CASE ReadStatus(r)
    <2>1. PICK step \in {"closing", "over"} : Goto(r, step)
      BY <1>2 DEF ReadStatus
    <2> QED
      BY <1>2, <2>1, HistoryStays, StaysInLoop DEF ReadStatus, At
  <1>3. CASE MarkDone(r)
    BY <1>3, HistoryStays, StaysInLoop DEF MarkDone, At
  <1> QED
    BY <1>1, <1>2, <1>3

LEMMA QuietEffect ==
  ASSUME SmsTyped, CancelCampaign \/ ConfigureSms
  PROVE  SmsTyped' /\ Quietly
  <1>1. /\ UNCHANGED sms /\ UNCHANGED senders /\ UNCHANGED reportVars
        /\ UNCHANGED smsHistory
    BY DEF CancelCampaign, ConfigureSms
  <1> QED
    BY <1>1, HistoryStays, TypesStay, TypesBack DEF Quietly, MailKept

LEMMA GatewayEffect ==
  ASSUME SmsTyped, NEW s \in Senders, SenderFits(s), SendToGateway(s)
  PROVE  SmsTyped' /\ (IsTaken(s) \/ IsRefused(s) \/ IsLost(s))
  <1>0. /\ senders[s].pc = "send" /\ Msg(s) \in Messages
        /\ UNCHANGED sms /\ UNCHANGED hooks
    BY DEF SendToGateway, At, SenderFits
  <1>1. PICK m \in Messages : m = Msg(s)
    BY <1>0
  <1>h. hooks' \subseteq Hook
    BY <1>0 DEF SmsTyped
  <1>2. CASE /\ \E id \in {s, NoId} : Accept(s, id)
             /\ smsHistory' = Accepted(Msg(s), s)
    <2>1. PICK id \in {s, NoId} : Accept(s, id)
      BY <1>2
    <2>2. PICK final \in {"DELIVERED", "FAILED"} :
             reports' = reports \cup {[message |-> m, id |-> s, status |-> st] :
                                        st \in {"SENT", final}}
      BY <1>1, <2>1 DEF Accept
    <2>3. reports' \subseteq Report
      BY <2>2 DEF Report, ReportStatus, SmsTyped
    <2> DEFINE r0 == senders[s]
               r1 == [pc |-> "accepted", msg |-> r0.msg, id |-> r0.id,
                      todo |-> r0.todo]
               new == [pc |-> "accepted", msg |-> r0.msg, id |-> id,
                       todo |-> r0.todo]
    <2>a. [r0 EXCEPT !.pc = "accepted"] = r1
      BY SenderParts DEF SenderType
    <2>b. [r1 EXCEPT !.id = id] = new
      OBVIOUS
    <2>4. senders' = [senders EXCEPT ![s] = new]
      BY <2>1, <2>a, <2>b DEF Accept, SmsTyped
    <2>5. /\ new \in SenderType /\ new.pc = "accepted" /\ new.msg = Msg(s)
          /\ new.todo = senders[s].todo
      BY SenderParts DEF SenderType, SenderSteps
    <2> HIDE DEF new
    <2>6. /\ senders' \in [Senders -> SenderType] /\ TodoKept(s)
          /\ MovesTo(s, "accepted", Msg(s))
      BY <2>4, <2>5 DEF SmsTyped, MovesTo, Others, TodoKept
    <2>7. HearsOf(m, s, smsHistory.hurt, smsHistory.faults)
      BY <1>1, <1>2, HistoryParts DEF HearsOf, Accepted, SmsTyped,
                                      SmsHistoryType
    <2>8. /\ Sends(m, s) /\ MoneyKept /\ smsHistory' \in SmsHistoryType
          /\ FlagsKept
      BY <2>7, HistoryParts, SentFacts DEF FlagsKept
    <2>9. SmsTyped'
      BY <1>0, <1>h, <2>3, <2>6, <2>8, TypesStay, TypesBack
    <2> QED
      BY <1>0, <1>1, <2>2, <2>6, <2>8, <2>9 DEF IsTaken
  <1>3. CASE Goto(s, "refused") /\ UNCHANGED <<reports, smsHistory>>
    <2>1. /\ senders' \in [Senders -> SenderType] /\ TodoKept(s)
          /\ MovesTo(s, "refused", Msg(s))
      BY <1>3, GotoFacts DEF SenderSteps, Done
    <2>2. UNCHANGED reportVars
      BY <1>0, <1>3 DEF reportVars
    <2> QED
      BY <1>0, <1>3, <2>1, <2>2, HistoryStays, TypesStay, TypesBack
         DEF IsRefused
  <1>4. CASE /\ reports' = reports \cup {[message |-> Msg(s), id |-> s,
                                          status |-> "DELIVERED"]}
             /\ Goto(s, "refused")
             /\ smsHistory' = [Accepted(Msg(s), s) EXCEPT
                  !.hurt = @ \cup {Msg(s)}, !.faults = @ + 1]
    <2>1. /\ senders' \in [Senders -> SenderType] /\ TodoKept(s)
          /\ MovesTo(s, "refused", Msg(s))
      BY <1>4, GotoFacts DEF SenderSteps, Done
    <2>2. reports' \subseteq Report
      BY <1>1, <1>4 DEF Report, ReportStatus, SmsTyped
    <2> DEFINE hurt == smsHistory.hurt \cup {m}
               faults == smsHistory.faults + 1
    <2>3. hurt \in SUBSET Messages /\ faults \in Nat
      BY HistoryParts
    <2>4. /\ Accepted(m, s).hurt = smsHistory.hurt
          /\ Accepted(m, s).faults = smsHistory.faults
      BY DEF Accepted, SmsTyped, SmsHistoryType
    <2>5. HearsOf(m, s, hurt, faults)
      BY <1>1, <1>4, <2>4 DEF HearsOf
    <2>6. /\ Sends(m, s) /\ MoneyKept /\ smsHistory' \in SmsHistoryType
          /\ HurtsOne(m)
      BY <2>3, <2>5, SentFacts DEF HurtsOne
    <2>7. SmsTyped'
      BY <1>0, <1>h, <2>1, <2>2, <2>6, TypesStay, TypesBack
    <2> QED
      BY <1>0, <1>1, <1>4, <2>1, <2>6, <2>7 DEF IsLost
  <1> QED
    BY <1>2, <1>3, <1>4 DEF SendToGateway

LEMMA AfterFacts ==
  ASSUME NEW s \in Senders
  PROVE  /\ AfterSend(s) \in {"next", "over"}
         /\ AfterThrow(s) \in {"finally", "over"}
         /\ s \in Singles => AfterSend(s) = "over" /\ AfterThrow(s) = "over"
         /\ AfterSend(s) \in SenderSteps \cap Done
         /\ AfterThrow(s) \in SenderSteps \cap Done
  BY SmsAssumption DEF AfterSend, AfterThrow, SenderSteps, Done

\* A sender is done with its message, whatever became of it.
LEMMA LeavesMessage ==
  ASSUME SmsTyped, NEW s \in Senders, NEW step \in SenderSteps \cap Done,
         Goto(s, step)
  PROVE  /\ senders' \in [Senders -> SenderType] /\ TodoKept(s)
         /\ MovesTo(s, step, NoMessage)
  BY GotoFacts

LEMMA ConfirmEffect ==
  ASSUME SmsTyped, NEW s \in Senders, SenderFits(s), ConfirmSms(s)
  PROVE  SmsTyped' /\ \E step \in SenderSteps :
                        IsWritten(s, step) \/ Breaks(s, step)
  <1>0. /\ senders[s].pc = "accepted" /\ Msg(s) \in Messages
        /\ UNCHANGED reportVars
    BY DEF ConfirmSms, At, SenderFits
  <1>1. PICK m \in Messages : m = Msg(s)
    BY <1>0
  <1>2. CASE /\ sms' = [sms EXCEPT ![Msg(s)] = [status |-> "SENT",
                                                id |-> senders[s].id]]
             /\ Goto(s, AfterSend(s)) /\ Settle(Msg(s), 0, 1)
    <2>1. PICK step \in SenderSteps \cap Done : step = AfterSend(s)
      BY AfterFacts
    <2>2. /\ senders' \in [Senders -> SenderType] /\ TodoKept(s)
          /\ MovesTo(s, step, NoMessage)
      BY <1>2, <2>1, LeavesMessage
    <2>3. PICK id \in Senders \cup {NoId} : id = senders[s].id
      BY SenderParts
    <2>4. sms' \in [Messages -> RowType] /\ RowTo(m, "SENT", id)
      BY <1>1, <1>2, <2>3 DEF SmsTyped, RowType, SmsStatus, RowTo
    <2>5. /\ smsHistory'.taken = smsHistory.taken
          /\ smsHistory'.ledger = [smsHistory.ledger EXCEPT ![m] = @ + 1]
          /\ SentKept /\ FlagsKept /\ smsHistory' \in SmsHistoryType
      BY <1>1, <1>2, SettleRow
    <2>6. SmsTyped' /\ MailKept
      BY <1>0, <2>2, <2>4, <2>5, TypesStay, TypesBack
    <2> QED
      BY <1>0, <1>1, <2>1, <2>2, <2>4, <2>5, <2>6, AfterFacts DEF IsWritten
  <1>3. CASE Hurt(Msg(s)) /\ Goto(s, AfterThrow(s)) /\ UNCHANGED sms
    <2>1. PICK step \in SenderSteps \cap Done : step = AfterThrow(s)
      BY AfterFacts
    <2>2. /\ senders' \in [Senders -> SenderType] /\ TodoKept(s)
          /\ MovesTo(s, step, NoMessage)
      BY <1>3, <2>1, LeavesMessage
    <2>3. /\ MoneyKept /\ SentKept /\ HurtsOne(m)
          /\ smsHistory' \in SmsHistoryType
      BY <1>1, <1>3, HurtFacts
    <2> QED
      BY <1>0, <1>1, <1>3, <2>1, <2>2, <2>3, AfterFacts, TypesStay, TypesBack
         DEF Breaks
  <1> QED
    BY <1>2, <1>3 DEF ConfirmSms

LEMMA RefundEffect ==
  ASSUME SmsTyped, NEW s \in Senders, SenderFits(s), RefundSms(s)
  PROVE  SmsTyped' /\ \E step \in SenderSteps :
                        Fails(s, step) \/ Breaks(s, step)
  <1>0. /\ senders[s].pc = "refused" /\ Msg(s) \in Messages
        /\ UNCHANGED reportVars
    BY DEF RefundSms, At, SenderFits
  <1>1. PICK m \in Messages : m = Msg(s)
    BY <1>0
  <1>2. CASE /\ sms' = [sms EXCEPT ![Msg(s)].status = "FAILED"]
             /\ Goto(s, AfterSend(s)) /\ Settle(Msg(s), -Cost, 0)
    <2>1. PICK step \in SenderSteps \cap Done : step = AfterSend(s)
      BY AfterFacts
    <2>2. /\ senders' \in [Senders -> SenderType] /\ TodoKept(s)
          /\ MovesTo(s, step, NoMessage)
      BY <1>2, <2>1, LeavesMessage
    <2>3. sms' \in [Messages -> RowType] /\ RowTo(m, "FAILED", sms[m].id)
      BY <1>1, <1>2, RowFacts DEF SmsStatus
    <2>4. -Cost \in Int
      BY SmsAssumption
    <2>5. /\ Takes(m, -Cost) /\ SentKept /\ FlagsKept
          /\ smsHistory' \in SmsHistoryType
      BY <1>1, <1>2, <2>4, SettleNothing
    <2>6. SmsTyped' /\ MailKept
      BY <1>0, <2>2, <2>3, <2>5, TypesStay, TypesBack
    <2> QED
      BY <1>0, <1>1, <2>1, <2>2, <2>3, <2>5, <2>6, AfterFacts DEF Fails
  <1>3. CASE Hurt(Msg(s)) /\ Goto(s, AfterThrow(s)) /\ UNCHANGED sms
    <2>1. PICK step \in SenderSteps \cap Done : step = AfterThrow(s)
      BY AfterFacts
    <2>2. /\ senders' \in [Senders -> SenderType] /\ TodoKept(s)
          /\ MovesTo(s, step, NoMessage)
      BY <1>3, <2>1, LeavesMessage
    <2>3. /\ MoneyKept /\ SentKept /\ HurtsOne(m)
          /\ smsHistory' \in SmsHistoryType
      BY <1>1, <1>3, HurtFacts
    <2> QED
      BY <1>0, <1>1, <1>3, <2>1, <2>2, <2>3, AfterFacts, TypesStay, TypesBack
         DEF Breaks
  <1> QED
    BY <1>2, <1>3 DEF RefundSms

LEMMA CrashEffect ==
  ASSUME SmsTyped, CrashSms
  PROVE  SmsTyped' /\ Stops
  <1> DEFINE h == smsHistory
             hurt == h.hurt \cup {Msg(s) : s \in {t \in Senders :
                                                    Msg(t) # NoMessage}}
  <1>1. smsHistory' = [taken |-> h.taken, ledger |-> h.ledger,
                       accepted |-> h.accepted, hurt |-> hurt,
                       faults |-> h.faults + 1, crashed |-> TRUE,
                       overlap |-> h.overlap, crossed |-> h.crossed]
    BY DEF SmsTyped, SmsHistoryType, CrashSms
  <1>2. /\ h.faults + 1 \in Nat /\ hurt \in SUBSET Messages
        /\ h.hurt \subseteq hurt
        /\ \A s \in Senders : Msg(s) # NoMessage => Msg(s) \in hurt
    BY HistoryParts, SenderParts
  <1> HIDE DEF hurt
  <1>3. /\ smsHistory' \in SmsHistoryType /\ MoneyKept /\ SentKept
        /\ smsHistory'.hurt = hurt /\ smsHistory'.crossed = h.crossed
        /\ smsHistory'.overlap = h.overlap
    BY <1>1, <1>2, HistoryParts, HistoryFacts DEF MoneyKept, SentKept
  <1>4. /\ Idle \in SenderType /\ Idle.pc = "idle" /\ Idle.todo = {}
        /\ Idle.msg = NoMessage
    BY DEF Idle, SenderType, SenderSteps
  <1>5. [Idle EXCEPT !.pc = "over"]
          = [pc |-> "over", msg |-> NoMessage, id |-> NoId, todo |-> {}]
    BY DEF Idle
  <1>6. PICK off \in SenderType :
          /\ off = [Idle EXCEPT !.pc = "over"]
          /\ off.pc = "over" /\ off.todo = {} /\ off.msg = NoMessage
    BY <1>5 DEF SenderType, SenderSteps
  <1>7. senders' = [s \in Senders |-> IF senders[s].pc = "idle" THEN Idle
                                      ELSE off]
    BY <1>6 DEF CrashSms, At
  <1>8. /\ senders' \in [Senders -> SenderType]
        /\ \A s \in Senders :
             /\ senders'[s].todo = {} /\ senders'[s].msg = NoMessage
             /\ senders'[s].pc = IF senders[s].pc = "idle" THEN "idle"
                                 ELSE "over"
    BY <1>4, <1>6, <1>7
  <1>9. /\ UNCHANGED sms /\ reports' = reports /\ hooks' = {}
    BY DEF CrashSms
  <1>10. SmsTyped'
    BY <1>3, <1>8, <1>9 DEF SmsTyped
  <1> QED
    BY <1>2, <1>3, <1>8, <1>9, <1>10 DEF Stops

LEMMA ReadReportEffect ==
  ASSUME SmsTyped, NEW p \in reports, ReadReport(p)
  PROVE  SmsTyped' /\ (IsRead(p) \/ Quietly)
  <1> DEFINE h == smsHistory
             row == sms[p.message]
             g == [message |-> p.message, id |-> p.id, read |-> row.status,
                   status |-> p.status]
             crossed == IF \E k \in hooks : k.message = p.message
                        THEN h.crossed \cup {p.message} ELSE h.crossed
  <1>0. /\ reports' = reports \ {p} /\ UNCHANGED sms /\ UNCHANGED senders
        /\ p \in Report /\ reports' \subseteq Report
    BY DEF ReadReport, SmsTyped
  <1>t. p.message \in Messages /\ p.id \in Senders
    BY <1>0 DEF Report
  <1>1. CASE /\ row.id = p.id /\ ~Regresses(row.status, p.status)
             /\ hooks' = hooks \cup {g}
             /\ smsHistory' = [smsHistory EXCEPT !.crossed =
                   IF \E k \in hooks : k.message = p.message
                   THEN @ \cup {p.message} ELSE @]
    <2>1. g \in Hook
      BY <1>0, <1>t DEF Report, Hook, SmsTyped, RowType
    <2>2. hooks' \subseteq Hook
      BY <1>1, <2>1 DEF SmsTyped
    <2>3. smsHistory' = [taken |-> h.taken, ledger |-> h.ledger,
                         accepted |-> h.accepted, hurt |-> h.hurt,
                         faults |-> h.faults, crashed |-> h.crashed,
                         overlap |-> h.overlap, crossed |-> crossed]
      BY <1>1 DEF SmsTyped, SmsHistoryType
    <2>4. crossed \in SUBSET Messages
      BY <1>t, HistoryParts
    <2> HIDE DEF crossed
    <2>5. /\ smsHistory' \in SmsHistoryType /\ MoneyKept /\ SentKept
          /\ smsHistory'.hurt = h.hurt /\ smsHistory'.crossed = crossed
          /\ smsHistory'.overlap = h.overlap
      BY <2>3, <2>4, HistoryParts, HistoryFacts DEF MoneyKept, SentKept
    <2>6. SmsTyped'
      BY <1>0, <2>2, <2>5 DEF SmsTyped
    <2> QED
      BY <1>0, <1>1, <2>5, <2>6 DEF IsRead, crossed
  <1>2. CASE UNCHANGED <<hooks, smsHistory>>
    BY <1>0, <1>2, HistoryStays DEF SmsTyped, Quietly
  <1> QED
    BY <1>1, <1>2 DEF ReadReport

LEMMA WriteReportEffect ==
  ASSUME SmsTyped, NEW h \in hooks, WriteReport(h)
  PROVE  SmsTyped' /\ IsReported(h)
  <1>1. h.message \in Messages /\ h.status \in SmsStatus
    BY DEF SmsTyped, Hook, ReportStatus, SmsStatus
  <1>2. PICK m \in Messages, st \in SmsStatus : m = h.message /\ st = h.status
    BY <1>1
  <1>3. sms' \in [Messages -> RowType] /\ RowTo(m, st, sms[m].id)
    BY <1>2, RowFacts DEF WriteReport
  <1>4. /\ hooks' = hooks \ {h} /\ reports' = reports /\ UNCHANGED senders
        /\ UNCHANGED smsHistory
    BY DEF WriteReport
  <1> QED
    BY <1>2, <1>3, <1>4, HistoryStays DEF SmsTyped, IsReported

\* The steps of Sms, by what they do.
LEMMA SplitSmsNext ==
  ASSUME SmsTyped, \A s \in Senders : SenderFits(s), SmsNext
  PROVE  SmsTyped' /\ SmsEffect
  <1>0. /\ \A m \in Singles : m \in Senders /\ SenderFits(m)
        /\ \A r \in Starts : r \in Senders /\ SenderFits(r)
        /\ {"over", "next"} \subseteq SenderSteps
    BY SenderRange DEF SenderSteps
  <1>1. CASE \E m \in Singles : SendSms(m) \/ CreateSms(m)
    BY <1>0, <1>1, SendSmsEffect, CreateSmsEffect DEF SmsEffect
  <1>2. CASE \E m \in Bulk : PrepareRecipients(m)
    BY <1>2, PrepareEffect DEF SmsEffect
  <1>3. ASSUME NEW r \in Starts,
               \/ StartCampaign(r) \/ MarkRunning(r) \/ ListQueued(r)
               \/ NextQueued(r) \/ ReserveQueued(r) \/ LoopThrows(r)
               \/ ReadStatus(r) \/ MarkDone(r)
        PROVE  SmsTyped' /\ SmsEffect
    <2>1. \/ SmsTyped' /\ Wanders(r)
          \/ SmsTyped' /\ \E m \in Bulk : Picks(r, m)
          \/ SmsTyped' /\ (Pays(r) \/ Fails(r, "next"))
      BY <1>0, <1>3, StartEffect, MarkRunningEffect, ListEffect, NextEffect,
         ReserveQueuedEffect, LoopEndEffect
    <2> QED
      BY <1>0, <2>1 DEF SmsEffect
  <1>4. CASE \E s \in Senders :
               SendToGateway(s) \/ ConfirmSms(s) \/ RefundSms(s)
    BY <1>4, GatewayEffect, ConfirmEffect, RefundEffect DEF SmsEffect
  <1>5. CASE CancelCampaign \/ ConfigureSms \/ CrashSms
    BY <1>5, QuietEffect, CrashEffect DEF SmsEffect
  <1>6. CASE \E p \in reports : ReadReport(p)
    BY <1>6, ReadReportEffect DEF SmsEffect
  <1>7. CASE \E h \in hooks : WriteReport(h)
    BY <1>7, WriteReportEffect DEF SmsEffect
  <1> QED
    BY <1>1, <1>2, <1>3, <1>4, <1>5, <1>6, <1>7 DEF SmsNext

-----------------------------------------------------------------------------
(* The invariants of Sms, one by one.                                      *)

\* Only the sender that moves changes.
LEMMA OthersStay ==
  ASSUME NEW s \in Senders, Others(s)
  PROVE  \A q \in Senders : q # s =>
           senders'[q] = senders[q] /\ Msg(q)' = Msg(q)
  BY DEF Others, Msg

LEMMA MoveFacts ==
  ASSUME NEW s, NEW pc, NEW msg, MovesTo(s, pc, msg)
  PROVE  /\ s \in Senders /\ Others(s)
         /\ senders'[s].pc = pc /\ Msg(s)' = msg
  BY DEF MovesTo, Msg

\* SenderFits: a sender's own steps, and the writes to a row by others.
SenderMoves(s) ==
  \/ Wanders(s) \/ IsTaken(s) \/ IsRefused(s) \/ IsLost(s)
  \/ \E step \in SenderSteps :
       Fails(s, step) \/ IsWritten(s, step) \/ Breaks(s, step)
  \/ s \in Singles /\ (Orders(s) \/ Creates(s))
  \/ s \in Starts /\ (Pays(s) \/ \E m \in Bulk : Picks(s, m))

LEMMA EffectOfOne ==
  ASSUME SmsEffect
  PROVE  \/ Quietly \/ Stops \/ \E s \in Senders : SenderMoves(s)
         \/ \E m \in Bulk : Prepares(m)
         \/ \E p \in reports : IsRead(p)
         \/ \E h \in hooks : IsReported(h)
  BY SenderRange DEF SmsEffect, SenderMoves

LEMMA SenderMovesFacts ==
  ASSUME NEW s \in Senders, SenderMoves(s)
  PROVE  Others(s) /\ hooks' = hooks
  BY DEF SenderMoves, Wanders, IsTaken, IsRefused, IsLost, Fails, IsWritten,
         Breaks, Orders, Creates, Pays, Picks, MovesTo, MailKept

LEMMA SenderOwnFits ==
  ASSUME SmsTyped, SmsTyped', NEW s \in Senders, SenderFits(s),
         SenderMoves(s)
  PROVE  SenderFits(s)'
  <1>0. /\ senders[s].todo \in SUBSET Bulk /\ NoMessage \notin Messages
        /\ Singles \cap Bulk = {} /\ Singles \cap Starts = {}
        /\ Singles \subseteq Messages /\ Bulk \subseteq Messages
    BY SenderParts, SenderRange, SmsAssumption
  <1>1. CASE Wanders(s)
    BY <1>1 DEF Wanders
  <1>2. CASE IsTaken(s) \/ IsRefused(s) \/ IsLost(s)
    BY <1>0, <1>2, MoveFacts
       DEF IsTaken, IsRefused, IsLost, SenderFits, TodoKept, MovesTo, Msg
  <1>3. CASE \E step \in SenderSteps :
               Fails(s, step) \/ IsWritten(s, step) \/ Breaks(s, step)
    BY <1>0, <1>3
       DEF Fails, IsWritten, Breaks, SenderFits, TodoKept, MovesTo, Msg
  <1>4. CASE s \in Singles /\ Orders(s)
    <2>1. senders'[s].todo \subseteq Bulk
      BY DEF SmsTyped, SenderType
    <2> QED
      BY <1>0, <1>4, <2>1 DEF Orders, SenderFits, MovesTo, Msg
  <1>5. CASE s \in Singles /\ Creates(s)
    BY <1>0, <1>5 DEF Creates, SenderFits, MovesTo, Msg, TodoKept
  <1>6. CASE s \in Starts /\ (Pays(s) \/ \E m \in Bulk : Picks(s, m))
    BY <1>0, <1>6 DEF Pays, Picks, SenderFits, MovesTo, Msg, TodoKept
  <1> QED
    BY <1>1, <1>2, <1>3, <1>4, <1>5, <1>6 DEF SenderMoves

\* Who moves without the message in hand, before or after, changes nothing
\* of it.
LEMMA NotAboutIt ==
  ASSUME SmsTyped, NEW s \in Senders, SenderFits(s), SenderFits(s)',
         SenderMoves(s), NEW m \in Messages,
         ~HasAt(s, m, Sending), ~HasAt(s, m, Sending)'
  PROVE  /\ sms'[m] = sms[m]
         /\ smsHistory'.taken[m] = smsHistory.taken[m]
         /\ smsHistory'.ledger[m] = smsHistory.ledger[m]
         /\ smsHistory'.accepted[m] = smsHistory.accepted[m]
         /\ m \in smsHistory'.hurt <=> m \in smsHistory.hurt
         /\ \A p \in reports' : p.message = m => p \in reports
  <1>0. /\ senders[s].pc \in Sending => Msg(s) \in Messages /\ Msg(s) # m
        /\ senders'[s].pc \in Sending => Msg(s)' # m
    BY DEF HasAt, SenderFits
  <1>1. CASE Wanders(s)
    BY <1>1 DEF Wanders, MoneyKept, SentKept, MailKept
  <1>2. CASE IsTaken(s) \/ IsLost(s)
    <2>1. /\ Msg(s) # m /\ Msg(s) \in Messages /\ sms' = sms /\ MoneyKept
          /\ Sends(Msg(s), s) /\ (FlagsKept \/ HurtsOne(Msg(s)))
      BY <1>0, <1>2 DEF IsTaken, IsLost
    <2>2. \A p \in reports' : p \in reports \/ p.message = Msg(s)
      BY <1>2 DEF IsTaken, IsLost
    <2> QED
      BY <2>1, <2>2, HistoryParts DEF MoneyKept, Sends, FlagsKept, HurtsOne
  <1>3. CASE IsRefused(s)
    BY <1>3 DEF IsRefused, MoneyKept, SentKept, FlagsKept, MailKept
  <1>4. ASSUME NEW step \in SenderSteps, Fails(s, step)
        PROVE  /\ sms'[m] = sms[m]
               /\ smsHistory'.taken[m] = smsHistory.taken[m]
               /\ smsHistory'.ledger[m] = smsHistory.ledger[m]
               /\ smsHistory'.accepted[m] = smsHistory.accepted[m]
               /\ m \in smsHistory'.hurt <=> m \in smsHistory.hurt
               /\ \A p \in reports' : p.message = m => p \in reports
    BY <1>0, <1>4, HistoryParts
       DEF Fails, RowTo, MailKept, MoneyKept, Takes, SentKept, FlagsKept
  <1>5. ASSUME NEW step \in SenderSteps, IsWritten(s, step)
        PROVE  /\ sms'[m] = sms[m]
               /\ smsHistory'.taken[m] = smsHistory.taken[m]
               /\ smsHistory'.ledger[m] = smsHistory.ledger[m]
               /\ smsHistory'.accepted[m] = smsHistory.accepted[m]
               /\ m \in smsHistory'.hurt <=> m \in smsHistory.hurt
               /\ \A p \in reports' : p.message = m => p \in reports
    BY <1>0, <1>5, HistoryParts
       DEF IsWritten, RowTo, MailKept, SentKept, FlagsKept
  <1>6. ASSUME NEW step \in SenderSteps, Breaks(s, step)
        PROVE  /\ sms'[m] = sms[m]
               /\ smsHistory'.taken[m] = smsHistory.taken[m]
               /\ smsHistory'.ledger[m] = smsHistory.ledger[m]
               /\ smsHistory'.accepted[m] = smsHistory.accepted[m]
               /\ m \in smsHistory'.hurt <=> m \in smsHistory.hurt
               /\ \A p \in reports' : p.message = m => p \in reports
    BY <1>0, <1>6 DEF Breaks, MailKept, MoneyKept, SentKept, HurtsOne
  <1>7. CASE s \in Singles /\ (Orders(s) \/ Creates(s))
    <2>1. Msg(s)' = s /\ senders'[s].pc \in Sending
      BY <1>7 DEF Orders, Creates, MovesTo, Msg
    <2> QED
      BY <1>0, <1>7, <2>1, HistoryParts
         DEF Orders, Creates, RowTo, MailKept, MoneyKept, Takes, SentKept,
             FlagsKept
  <1>8. CASE s \in Starts /\ (Pays(s) \/ \E n \in Bulk : Picks(s, n))
    BY <1>0, <1>8, HistoryParts
       DEF Pays, Picks, MailKept, MoneyKept, Takes, SentKept, FlagsKept
  <1> QED
    BY <1>1, <1>2, <1>3, <1>4, <1>5, <1>6, <1>7, <1>8 DEF SenderMoves

\* A single message is in the hands of its own request only.
LEMMA OnlyItsRequest ==
  ASSUME NEW s \in Senders, SenderFits(s), NEW m \in Singles,
         HasAt(s, m, Sending)
  PROVE  s = m
  BY SenderRange DEF HasAt, SenderFits, Senders

LEMMA SenderFitsStays ==
  ASSUME SmsInv, SmsTyped', SmsEffect, NEW s \in Senders
  PROVE  SenderFits(s)'
  <1>0. SmsTyped /\ SenderFits(s)
    BY DEF SmsInv
  <1>1. ASSUME senders'[s] = senders[s], s \in Singles => sms'[s] = sms[s]
        PROVE  SenderFits(s)'
    BY <1>0, <1>1 DEF SenderFits, Msg
  <1>2. CASE Quietly
    BY <1>1, <1>2 DEF Quietly
  <1>3. CASE Stops
    BY <1>0, <1>3, SenderRange, SmsAssumption DEF Stops, SenderFits, Msg
  <1>4. ASSUME NEW q \in Senders, SenderMoves(q)
        PROVE  SenderFits(s)'
    <2>1. CASE q = s
      BY <1>0, <1>4, <2>1, SenderOwnFits
    <2>2. CASE q # s
      <3>1. senders'[s] = senders[s]
        BY <1>4, <2>2, SenderMovesFacts, OthersStay
      <3>2. SenderFits(q) /\ SenderFits(q)'
        BY <1>0, <1>4, SenderOwnFits DEF SmsInv
      <3>3. ASSUME s \in Singles
            PROVE  sms'[s] = sms[s]
        <4>1. s \in Messages /\ ~HasAt(q, s, Sending) /\ ~HasAt(q, s, Sending)'
          BY <2>2, <3>2, <3>3, OnlyItsRequest, SenderRange
             DEF HasAt, SenderFits, Senders
        <4> QED
          BY <1>0, <1>4, <3>2, <4>1, NotAboutIt
      <3> QED
        BY <1>1, <3>1, <3>3
    <2> QED
      BY <2>1, <2>2
  <1>5. CASE \E m \in Bulk : Prepares(m)
    BY <1>1, <1>5, SmsAssumption, SenderRange DEF Prepares, RowTo
  <1>6. CASE \E p \in reports : IsRead(p)
    BY <1>1, <1>6 DEF IsRead
  <1>7. ASSUME NEW h \in hooks, IsReported(h)
        PROVE  SenderFits(s)'
    <2>1. /\ h.id \in smsHistory.accepted[h.message] /\ h.message \in Messages
          /\ h.id \in Senders
      BY DEF SmsInv, ReportsFit, SmsTyped, Hook
    <2>2. CASE s \in Singles /\ h.message = s
      <3>1. SentOnce(h.id)
        BY <2>1 DEF SmsInv
      <3>2. h.id = s
        BY <2>1, <2>2, <3>1 DEF SentOnce, Senders
      <3>3. senders[s].pc \notin {"idle", "create"}
        BY <2>1, <2>2, <3>1, <3>2 DEF SentOnce
      <3> QED
        BY <1>0, <1>7, <3>3 DEF IsReported, SenderFits, Msg
    <2>3. CASE ~(s \in Singles /\ h.message = s)
      BY <1>1, <1>7, <2>3, SenderRange DEF IsReported, RowTo
    <2> QED
      BY <2>2, <2>3
  <1> QED
    BY <1>2, <1>3, <1>4, <1>5, <1>6, <1>7, EffectOfOne

\* The gateway takes a message from the sender that has it in hand.
LEMMA AcceptedGrows ==
  ASSUME SmsTyped, SmsEffect, NEW m \in Messages
  PROVE  /\ smsHistory.accepted[m] \subseteq smsHistory'.accepted[m]
         /\ \A t \in smsHistory'.accepted[m] :
              \/ t \in smsHistory.accepted[m]
              \/ /\ t \in Senders /\ m = Msg(t)
                 /\ (IsTaken(t) \/ IsLost(t))
  <1>1. CASE SentKept
    BY <1>1 DEF SentKept
  <1>2. ASSUME NEW s \in Senders, IsTaken(s) \/ IsLost(s)
        PROVE  /\ smsHistory.accepted[m] \subseteq smsHistory'.accepted[m]
               /\ \A t \in smsHistory'.accepted[m] :
                    t \in smsHistory.accepted[m] \/ (t = s /\ m = Msg(s))
    <2>1. Sends(Msg(s), s)
      BY <1>2 DEF IsTaken, IsLost
    <2> QED
      BY <2>1, HistoryParts DEF Sends
  <1>3. SentKept \/ \E s \in Senders : IsTaken(s) \/ IsLost(s)
    BY DEF SmsEffect, Quietly, Stops, Wanders, IsRefused, Fails, IsWritten,
           Breaks, Orders, Creates, Pays, Picks, Prepares, IsRead, IsReported
  <1> QED
    BY <1>1, <1>2, <1>3

LEMMA SentOnceOwn ==
  ASSUME SmsTyped, SmsTyped', NEW s \in Senders, SenderFits(s), SentOnce(s),
         SenderMoves(s), SmsEffect
  PROVE  SentOnce(s)'
  <1> SUFFICES ASSUME NEW m \in Messages, s \in smsHistory'.accepted[m]
               PROVE  /\ senders'[s].pc
                           \notin {"idle", "create", "starting", "list"}
                      /\ m \notin senders'[s].todo
                      /\ ~HasAt(s, m, {"reserve", "send"})'
                      /\ s \in Singles => m = s
                      /\ s \in Starts => m \notin Singles
    BY DEF SentOnce
  <1>1. CASE IsTaken(s) \/ IsLost(s)
    <2>1. /\ senders'[s].pc \in {"accepted", "refused"}
          /\ senders'[s].todo = senders[s].todo /\ senders[s].pc = "send"
      BY <1>1 DEF IsTaken, IsLost, MovesTo, TodoKept
    <2>2. /\ Msg(s) \in Messages /\ Msg(s) \notin senders[s].todo
          /\ s \in Singles => Msg(s) = s
          /\ s \in Starts => Msg(s) \notin Singles
      BY <2>1, SenderRange DEF SenderFits
    <2>3. CASE s \in smsHistory.accepted[m]
      BY <2>1, <2>3 DEF SentOnce, HasAt
    <2>4. CASE s \notin smsHistory.accepted[m]
      <3>1. m = Msg(s)
        BY <2>4, AcceptedGrows
      <3> QED
        BY <2>1, <2>2, <3>1 DEF HasAt
    <2> QED
      BY <2>3, <2>4
  <1>2. CASE ~(IsTaken(s) \/ IsLost(s))
    <2>0. s \in smsHistory.accepted[m]
      BY <1>2, AcceptedGrows
    <2>1. /\ senders[s].pc \notin {"idle", "create", "starting", "list"}
          /\ m \notin senders[s].todo /\ ~HasAt(s, m, {"reserve", "send"})
          /\ s \in Singles => m = s
          /\ s \in Starts => m \notin Singles
      BY <2>0 DEF SentOnce
    <2>2. CASE Wanders(s)
      BY <2>1, <2>2 DEF Wanders, HasAt
    <2>3. CASE IsRefused(s)
      BY <2>1, <2>3 DEF IsRefused, MovesTo, HasAt, TodoKept
    <2>4. CASE \E step \in SenderSteps :
                 Fails(s, step) \/ IsWritten(s, step) \/ Breaks(s, step)
      BY <2>1, <2>4 DEF Fails, IsWritten, Breaks, MovesTo, HasAt, TodoKept
    <2>5. CASE s \in Singles /\ (Orders(s) \/ Creates(s))
      BY <2>1, <2>5 DEF Orders, Creates
    <2>6. CASE s \in Starts /\ (Pays(s) \/ \E n \in Bulk : Picks(s, n))
      BY <2>1, <2>6 DEF Pays, Picks, MovesTo, HasAt, TodoKept, Msg
    <2> QED
      BY <1>2, <2>1, <2>2, <2>3, <2>4, <2>5, <2>6 DEF SenderMoves
  <1> QED
    BY <1>1, <1>2

LEMMA SentOnceStays ==
  ASSUME SmsInv, SmsTyped', SmsEffect, NEW s \in Senders
  PROVE  SentOnce(s)'
  <1>0. SmsTyped /\ SenderFits(s) /\ SentOnce(s)
    BY DEF SmsInv
  <1>1. ASSUME senders'[s] = senders[s], ~IsTaken(s), ~IsLost(s)
        PROVE  SentOnce(s)'
    <2>1. \A m \in Messages : s \in smsHistory'.accepted[m] =>
                                s \in smsHistory.accepted[m]
      BY <1>0, <1>1, AcceptedGrows
    <2> QED
      BY <1>0, <1>1, <2>1 DEF SentOnce, HasAt, Msg
  <1>2. ASSUME senders' = senders
        PROVE  SentOnce(s)'
    BY <1>1, <1>2 DEF IsTaken, IsLost, MovesTo
  <1>3. CASE Stops
    <2>1. \A m \in Messages : s \in smsHistory'.accepted[m] =>
                                s \in smsHistory.accepted[m]
      BY <1>3 DEF Stops, SentKept
    <2> QED
      BY <1>0, <1>3, <2>1 DEF Stops, SentOnce, HasAt, Msg
  <1>4. ASSUME NEW q \in Senders, SenderMoves(q)
        PROVE  SentOnce(s)'
    <2>1. CASE q = s
      BY <1>0, <1>4, <2>1, SentOnceOwn
    <2>2. CASE q # s
      <3>1. senders'[s] = senders[s]
        BY <1>4, <2>2, SenderMovesFacts, OthersStay
      <3>2. ~IsTaken(s) /\ ~IsLost(s)
        BY <3>1 DEF IsTaken, IsLost, MovesTo
      <3> QED
        BY <1>1, <3>1, <3>2
    <2> QED
      BY <2>1, <2>2
  <1> QED
    BY <1>2, <1>3, <1>4, EffectOfOne
       DEF Quietly, Prepares, IsRead, IsReported

LEMMA OverlapStays ==
  ASSUME SmsEffect, smsHistory.overlap
  PROVE  smsHistory'.overlap
  BY DEF SmsEffect, Quietly, Stops, Wanders, IsTaken, IsRefused, IsLost, Fails,
         IsWritten, Breaks, Orders, Creates, Pays, Picks, Prepares, IsRead,
         IsReported, FlagsKept, HurtsOne

\* A loop begins in one place.
LEMMA LoopingMoves ==
  ASSUME SmsTyped, NEW s \in Starts, SenderMoves(s), ~Wanders(s)
  PROVE  Looping(s)' => Looping(s)
  BY SmsAssumption
     DEF SenderMoves, IsTaken, IsRefused, IsLost, Fails, IsWritten, Breaks,
         Pays, Picks, Looping

LEMMA LoopsFitStay ==
  ASSUME SmsInv, SmsEffect
  PROVE  LoopsFit'
  <1>0. SmsTyped /\ LoopsFit /\ (smsHistory.overlap => smsHistory'.overlap)
    BY OverlapStays DEF SmsInv
  <1>1. ASSUME \A q \in Starts : Looping(q)' => Looping(q)
        PROVE  LoopsFit'
    BY <1>0, <1>1 DEF LoopsFit
  <1>2. CASE senders' = senders
    BY <1>1, <1>2 DEF Looping
  <1>3. CASE Stops
    BY <1>1, <1>3, SenderRange DEF Stops, Looping
  <1>4. ASSUME NEW s \in Senders, SenderMoves(s)
        PROVE  LoopsFit'
    <2>1. \A q \in Starts : q # s => (Looping(q)' <=> Looping(q))
      BY <1>4, SenderMovesFacts, OthersStay, SenderRange DEF Looping
    <2>2. CASE s \in Starts /\ Wanders(s)
      <3>1. CASE Looping(s)' /\ ~Looping(s)
        <4>1. \/ smsHistory'.overlap
              \/ \A q \in Starts : Looping(q) => q = s
          BY <2>2, <3>1 DEF Wanders
        <4> QED
          BY <2>1, <4>1 DEF LoopsFit
      <3>2. CASE ~(Looping(s)' /\ ~Looping(s))
        BY <1>1, <2>1, <3>2
      <3> QED
        BY <3>1, <3>2
    <2>3. CASE s \in Starts /\ ~Wanders(s)
      BY <1>0, <1>1, <1>4, <2>1, <2>3, LoopingMoves
    <2>4. CASE s \notin Starts
      BY <1>1, <2>1, <2>4
    <2> QED
      BY <2>2, <2>3, <2>4
  <1> QED
    BY <1>2, <1>3, <1>4, EffectOfOne
       DEF Quietly, Prepares, IsRead, IsReported

LEMMA ReportsFitStay ==
  ASSUME SmsInv, SmsEffect
  PROVE  ReportsFit'
  <1>0. /\ SmsTyped
        /\ \A p \in reports \cup hooks : /\ p.id \in smsHistory.accepted[p.message]
                                         /\ p.message \in Messages
    BY DEF SmsInv, ReportsFit, SmsTyped, Report, Hook
  <1>1. \A p \in reports \cup hooks : p.id \in smsHistory'.accepted[p.message]
    BY <1>0, AcceptedGrows
  <1>2. ASSUME NEW p \in reports' \cup hooks', p \notin reports \cup hooks
        PROVE  p.id \in smsHistory'.accepted[p.message]
    <2>1. CASE \E s \in Senders : IsTaken(s) \/ IsLost(s)
      <3>1. PICK s \in Senders : IsTaken(s) \/ IsLost(s)
        BY <2>1
      <3>2. p.message = Msg(s) /\ p.id = s
        BY <1>2, <3>1 DEF IsTaken, IsLost
      <3>3. Msg(s) \in Messages
        BY <3>1 DEF SmsInv, SenderFits, IsTaken, IsLost
      <3>4. s \in smsHistory'.accepted[Msg(s)]
        BY <1>0, <3>1, <3>3, HistoryParts DEF IsTaken, IsLost, Sends
      <3> QED
        BY <3>2, <3>4
    <2>2. CASE \E q \in reports : IsRead(q)
      <3>1. PICK q \in reports : IsRead(q)
        BY <2>2
      <3>2. p.message = q.message /\ p.id = q.id
        BY <1>2, <3>1 DEF IsRead
      <3> QED
        BY <1>1, <3>1, <3>2
    <2>3. \/ \E s \in Senders : IsTaken(s) \/ IsLost(s)
          \/ \E q \in reports : IsRead(q)
      BY <1>2
         DEF SmsEffect, Quietly, Stops, Wanders, IsRefused, Fails, IsWritten,
             Breaks, Orders, Creates, Pays, Picks, Prepares, IsReported,
             MailKept
    <2> QED
      BY <2>1, <2>2, <2>3
  <1> QED
    BY <1>1, <1>2 DEF ReportsFit

\* How a sender writes a row: it never names one without an answer, and it
\* never delivers one.
LEMMA RowsBySender ==
  ASSUME SmsTyped, NEW s \in Senders, SenderFits(s), SenderMoves(s),
         NEW m \in Messages
  PROVE  \/ sms'[m] = sms[m]
         \/ /\ m \in Singles /\ s = m /\ Creates(m) /\ sms'[m].id = NoId
            /\ sms'[m].status = "QUEUED"
         \/ /\ HasAt(s, m, Sending) /\ sms'[m].status = "FAILED"
            /\ sms'[m].id = sms[m].id /\ \E step \in SenderSteps : Fails(s, step)
         \/ /\ HasAt(s, m, Sending) /\ sms'[m].status = "SENT"
            /\ \E step \in SenderSteps : IsWritten(s, step)
  <1>1. CASE sms' = sms
    BY <1>1
  <1>2. CASE s \in Singles /\ Creates(s)
    BY <1>2, SenderRange DEF Creates, RowTo, SenderFits
  <1>3. ASSUME NEW step \in SenderSteps, Fails(s, step), m = Msg(s)
        PROVE  /\ HasAt(s, m, Sending) /\ sms'[m].status = "FAILED"
               /\ sms'[m].id = sms[m].id
    BY <1>3 DEF Fails, RowTo, HasAt
  <1>4. ASSUME NEW step \in SenderSteps, IsWritten(s, step), m = Msg(s)
        PROVE  HasAt(s, m, Sending) /\ sms'[m].status = "SENT"
    BY <1>4 DEF IsWritten, RowTo, HasAt
  <1>5. ASSUME NEW step \in SenderSteps, m # Msg(s),
               Fails(s, step) \/ IsWritten(s, step)
        PROVE  sms'[m] = sms[m]
    BY <1>5 DEF Fails, IsWritten, RowTo
  <1>6. \/ sms' = sms \/ (s \in Singles /\ Creates(s))
        \/ \E step \in SenderSteps : Fails(s, step) \/ IsWritten(s, step)
    BY DEF SenderMoves, Wanders, IsTaken, IsRefused, IsLost, Breaks, Orders,
           Pays, Picks
  <1> QED
    BY <1>1, <1>2, <1>3, <1>4, <1>5, <1>6

LEMMA RowFitsStays ==
  ASSUME SmsInv, SmsEffect, NEW m \in Messages
  PROVE  RowFits(m)'
  <1>0. SmsTyped /\ RowFits(m)
    BY DEF SmsInv
  <1>1. CASE sms'[m] = sms[m]
    BY <1>0, <1>1 DEF RowFits
  <1>2. ASSUME NEW s \in Senders, SenderMoves(s)
        PROVE  RowFits(m)'
    <2>1. SenderFits(s)
      BY DEF SmsInv
    <2> QED
      BY <1>0, <1>1, <1>2, <2>1, RowsBySender DEF RowFits
  <1>3. CASE \E n \in Bulk : Prepares(n)
    BY <1>0, <1>1, <1>3 DEF Prepares, RowTo, RowFits
  <1>4. ASSUME NEW h \in hooks, IsReported(h)
        PROVE  RowFits(m)'
    <2>1. h.status \notin {"NONE", "QUEUED"}
      BY <1>0 DEF SmsTyped, Hook, ReportStatus
    <2> QED
      BY <1>1, <1>4, <2>1 DEF IsReported, RowTo, RowFits
  <1>5. CASE Quietly \/ Stops \/ \E p \in reports : IsRead(p)
    BY <1>1, <1>5 DEF Quietly, Stops, IsRead
  <1> QED
    BY <1>2, <1>3, <1>4, <1>5, EffectOfOne

LEMMA HooksFitStays ==
  ASSUME SmsInv, SmsEffect, NEW m \in Messages
  PROVE  HooksFit(m)'
  <1>0. SmsTyped /\ HooksFit(m)
    BY DEF SmsInv
  <1>1. ASSUME m \in smsHistory'.crossed => m \in smsHistory.crossed,
               m \in smsHistory.crossed => m \in smsHistory'.crossed,
               hooks' \subseteq hooks,
               sms'[m].status = "DELIVERED" => sms[m].status = "DELIVERED"
        PROVE  HooksFit(m)'
    BY <1>0, <1>1 DEF HooksFit
  <1>2. ASSUME NEW s \in Senders, SenderMoves(s)
        PROVE  HooksFit(m)'
    <2>1. hooks' = hooks /\ smsHistory'.crossed = smsHistory.crossed
      BY <1>2
         DEF SenderMoves, Wanders, IsTaken, IsRefused, IsLost, Fails,
             IsWritten, Breaks, Orders, Creates, Pays, Picks, MailKept,
             FlagsKept, HurtsOne
    <2>2. SenderFits(s)
      BY DEF SmsInv
    <2>3. sms'[m].status = "DELIVERED" => sms[m].status = "DELIVERED"
      BY <1>0, <1>2, <2>2, RowsBySender
    <2> QED
      BY <1>1, <2>1, <2>3
  <1>3. CASE \E n \in Bulk : Prepares(n)
    BY <1>1, <1>3 DEF Prepares, RowTo, MailKept, FlagsKept
  <1>4. ASSUME NEW h \in hooks, IsReported(h)
        PROVE  HooksFit(m)'
    <2>1. /\ hooks' = hooks \ {h} /\ h.message \in Messages
          /\ smsHistory'.crossed = smsHistory.crossed
      BY <1>0, <1>4 DEF IsReported, FlagsKept, SmsTyped, Hook
    <2>2. CASE h.message = m
      BY <1>0, <2>1, <2>2 DEF HooksFit
    <2>3. CASE h.message # m
      BY <1>1, <1>4, <2>1, <2>3 DEF IsReported, RowTo
    <2> QED
      BY <2>2, <2>3
  <1>5. ASSUME NEW p \in reports, IsRead(p)
        PROVE  HooksFit(m)'
    <2> DEFINE g == [message |-> p.message, id |-> p.id,
                     read |-> sms[p.message].status, status |-> p.status]
    <2>0. /\ hooks' = hooks \cup {g} /\ g.message = p.message
          /\ g.status = p.status /\ sms' = sms
          /\ ~(sms[p.message].status = "DELIVERED" /\ p.status = "SENT")
          /\ smsHistory'.crossed = IF \E h \in hooks : h.message = p.message
                                   THEN smsHistory.crossed \cup {p.message}
                                   ELSE smsHistory.crossed
      BY <1>5 DEF IsRead, Regresses
    <2> HIDE DEF g
    <2>1. CASE p.message # m
      BY <1>0, <2>0, <2>1 DEF HooksFit
    <2>2. CASE p.message = m /\ \E h \in hooks : h.message = m
      BY <2>0, <2>2 DEF HooksFit
    <2>3. CASE p.message = m /\ ~\E h \in hooks : h.message = m
      BY <2>0, <2>3 DEF HooksFit
    <2> QED
      BY <2>1, <2>2, <2>3
  <1>6. CASE Quietly \/ Stops
    BY <1>1, <1>6 DEF Quietly, Stops, FlagsKept
  <1> QED
    BY <1>2, <1>3, <1>4, <1>5, <1>6, EffectOfOne

-----------------------------------------------------------------------------
(* The money of a message.                                                 *)

LEMMA SendersAreFinite == IsFiniteSet(Senders)
  BY SmsAssumption, FS_Union DEF Senders

LEMMA ThoseCount ==
  ASSUME NEW m, NEW steps
  PROVE  /\ IsFiniteSet(Those(m, steps)) /\ Cardinality(Those(m, steps)) \in Nat
         /\ Those(m, steps) = {} => Cardinality(Those(m, steps)) = 0
  BY SendersAreFinite, FS_Subset, FS_CardinalityType, FS_EmptySet DEF Those

\* What a move of one sender does to a count of senders.
LEMMA CountMoves ==
  ASSUME SmsTyped, NEW s \in Senders, Others(s), NEW m, NEW steps
  PROVE  /\ (HasAt(s, m, steps)' <=> HasAt(s, m, steps)) =>
              Those(m, steps)' = Those(m, steps)
         /\ HasAt(s, m, steps)' /\ ~HasAt(s, m, steps) =>
              Cardinality(Those(m, steps)')
                = Cardinality(Those(m, steps)) + 1
         /\ ~HasAt(s, m, steps)' /\ HasAt(s, m, steps) =>
              Cardinality(Those(m, steps)')
                = Cardinality(Those(m, steps)) - 1
  <1>0. \A q \in Senders : q # s =>
          (HasAt(q, m, steps)' <=> HasAt(q, m, steps))
    BY OthersStay DEF HasAt
  <1>1. IsFiniteSet(Those(m, steps)) /\ Cardinality(Those(m, steps)) \in Nat
    BY ThoseCount
  <1>2. ASSUME HasAt(s, m, steps)' <=> HasAt(s, m, steps)
        PROVE  Those(m, steps)' = Those(m, steps)
    BY <1>0, <1>2 DEF Those
  <1>3. ASSUME HasAt(s, m, steps)', ~HasAt(s, m, steps)
        PROVE  Cardinality(Those(m, steps)') = Cardinality(Those(m, steps)) + 1
    <2>1. /\ Those(m, steps)' = Those(m, steps) \cup {s}
          /\ s \notin Those(m, steps)
      BY <1>0, <1>3 DEF Those
    <2> QED
      BY <1>1, <2>1, FS_AddElement
  <1>4. ASSUME ~HasAt(s, m, steps)', HasAt(s, m, steps)
        PROVE  Cardinality(Those(m, steps)') = Cardinality(Those(m, steps)) - 1
    <2>1. /\ Those(m, steps)' = Those(m, steps) \ {s}
          /\ s \in Those(m, steps)
      BY <1>0, <1>4 DEF Those
    <2> QED
      BY <1>1, <2>1, FS_RemoveElement
  <1> QED
    BY <1>2, <1>3, <1>4

LEMMA CostFacts ==
  ASSUME NEW n \in Int
  PROVE  /\ Cost * (n + 1) = Cost * n + Cost
         /\ Cost * (n - 1) = Cost * n - Cost
         /\ Cost * n \in Int
  BY SmsAssumption

LEMMA Distributes ==
  ASSUME NEW c \in Int, NEW x \in Int, NEW y \in Int
  PROVE  c * (x + y) = c * x + c * y
  OBVIOUS

\* An account that grows by its parts balances as it did.
LEMMA AccountAdds ==
  ASSUME NEW A \in Int, NEW L \in Int, NEW U \in Int, NEW T \in Int,
         NEW P \in Int, NEW a \in Int, NEW l \in Int, NEW u \in Int,
         NEW p \in Int, A = L + U, T = Cost * (L + P), a = l + u
  PROVE  /\ A + a = (L + l) + (U + u)
         /\ T + Cost * (l + p) = Cost * ((L + l) + (P + p))
  <1>1. Cost * ((L + P) + (l + p)) = Cost * (L + P) + Cost * (l + p)
    BY Distributes, SmsAssumption
  <1>2. (L + P) + (l + p) = (L + l) + (P + p)
    OBVIOUS
  <1> QED
    BY <1>1, <1>2

\* A message the step is not about keeps its account.
LEMMA PaidFitsIfKept ==
  ASSUME SmsTyped, NEW m \in Messages, PaidFits(m),
         smsHistory'.taken[m] = smsHistory.taken[m],
         smsHistory'.ledger[m] = smsHistory.ledger[m],
         smsHistory'.accepted[m] = smsHistory.accepted[m],
         m \in smsHistory.hurt => m \in smsHistory'.hurt,
         Paying(m)' = Paying(m), Unwritten(m)' = Unwritten(m)
  PROVE  PaidFits(m)'
  BY DEF PaidFits

LEMMA HurtStays ==
  ASSUME NEW s \in Senders, SenderMoves(s)
  PROVE  smsHistory.hurt \subseteq smsHistory'.hurt
  BY DEF SenderMoves, Wanders, IsTaken, IsRefused, IsLost, Fails, IsWritten,
         Breaks, Orders, Creates, Pays, Picks, FlagsKept, HurtsOne

LEMMA PaidFitsOwn ==
  ASSUME SmsTyped, SmsTyped', NEW s \in Senders, SenderFits(s), SenderFits(s)',
         SentOnce(s), SenderMoves(s), NEW m \in Messages, PaidFits(m)
  PROVE  PaidFits(m)'
  <1> DEFINE h == smsHistory
             U == Cardinality(Unwritten(m))
             P == Cardinality(Paying(m))
             A == Cardinality(h.accepted[m])
             L == h.ledger[m]
             T == h.taken[m]
  <1>0. /\ Others(s) /\ U \in Nat /\ P \in Nat /\ L \in Nat /\ T \in Int
        /\ IsFiniteSet(h.accepted[m]) /\ A \in Nat /\ Cost \in Nat
    BY SenderMovesFacts, ThoseCount, HistoryParts, SendersAreFinite, FS_Subset,
       FS_CardinalityType, SmsAssumption DEF Unwritten, Paying
  <1>1. CASE ~HasAt(s, m, Sending) /\ ~HasAt(s, m, Sending)'
    <2>1. /\ Paying(m)' = Paying(m) /\ Unwritten(m)' = Unwritten(m)
      BY <1>0, <1>1, CountMoves DEF HasAt, Paying, Unwritten
    <2> QED
      BY <1>1, <2>1, NotAboutIt, PaidFitsIfKept
  <1> HIDE DEF U, P, A, L, T
  <1>b. m \notin smsHistory.hurt => A = L + U /\ T = Cost * (L + P)
    BY DEF PaidFits, U, P, A, L, T
  <1>h. m \in smsHistory.hurt => m \in smsHistory'.hurt
    BY HurtStays
  <1>2. ASSUME NEW u \in {-1, 0, 1}, NEW p \in {-1, 0, 1},
               NEW a \in {0, 1}, NEW l \in {0, 1}, a = l + u,
               Cardinality(Unwritten(m)') = U + u,
               Cardinality(Paying(m)') = P + p,
               Cardinality(smsHistory'.accepted[m]) = A + a,
               smsHistory'.ledger[m] = L + l,
               smsHistory'.taken[m] = T + Cost * (l + p)
        PROVE  PaidFits(m)'
    <2>1. ASSUME m \notin smsHistory.hurt
          PROVE  /\ A + a = (L + l) + (U + u)
                 /\ T + Cost * (l + p) = Cost * ((L + l) + (P + p))
      BY <1>0, <1>2, <1>b, <2>1, AccountAdds
    <2> QED
      BY <1>2, <1>h, <2>1 DEF PaidFits
  <1>c. /\ HasAt(s, m, {"accepted"})' /\ ~HasAt(s, m, {"accepted"}) =>
             Cardinality(Unwritten(m)') = U + 1
        /\ ~HasAt(s, m, {"accepted"})' /\ HasAt(s, m, {"accepted"}) =>
             Cardinality(Unwritten(m)') = U + -1
        /\ (HasAt(s, m, {"accepted"})' <=> HasAt(s, m, {"accepted"})) =>
             Cardinality(Unwritten(m)') = U + 0
        /\ HasAt(s, m, Holds)' /\ ~HasAt(s, m, Holds) =>
             Cardinality(Paying(m)') = P + 1
        /\ ~HasAt(s, m, Holds)' /\ HasAt(s, m, Holds) =>
             Cardinality(Paying(m)') = P + -1
        /\ (HasAt(s, m, Holds)' <=> HasAt(s, m, Holds)) =>
             Cardinality(Paying(m)') = P + 0
    <2>1. U \in Int /\ P \in Int /\ Others(s)
      BY <1>0
    <2>2. /\ HasAt(s, m, {"accepted"})' /\ ~HasAt(s, m, {"accepted"}) =>
               Cardinality(Unwritten(m)') = U + 1
          /\ ~HasAt(s, m, {"accepted"})' /\ HasAt(s, m, {"accepted"}) =>
               Cardinality(Unwritten(m)') = U - 1
          /\ (HasAt(s, m, {"accepted"})' <=> HasAt(s, m, {"accepted"})) =>
               Cardinality(Unwritten(m)') = U
      BY <2>1, CountMoves DEF Unwritten, U
    <2>3. /\ HasAt(s, m, Holds)' /\ ~HasAt(s, m, Holds) =>
               Cardinality(Paying(m)') = P + 1
          /\ ~HasAt(s, m, Holds)' /\ HasAt(s, m, Holds) =>
               Cardinality(Paying(m)') = P - 1
          /\ (HasAt(s, m, Holds)' <=> HasAt(s, m, Holds)) =>
               Cardinality(Paying(m)') = P
      BY <2>1, CountMoves DEF Paying, P
    <2> QED
      BY <2>1, <2>2, <2>3
  <1>m. SentKept => Cardinality(smsHistory'.accepted[m]) = A + 0
    BY <1>0 DEF SentKept, A
  <1>t. /\ T \in Int /\ Cost \in Int /\ L + 0 = L /\ T + Cost * (0 + 0) = T
        /\ T + Cost * (0 + 1) = T + Cost /\ T + Cost * (1 + -1) = T
        /\ T + Cost * (0 + -1) = T + -Cost
    BY <1>0
  <1>k. MoneyKept => smsHistory'.ledger[m] = L /\ smsHistory'.taken[m] = T
    BY DEF MoneyKept, L, T
  <1>p. ASSUME NEW money, Takes(m, money)
        PROVE  smsHistory'.ledger[m] = L /\ smsHistory'.taken[m] = T + money
    BY <1>p, HistoryParts DEF Takes, L, T
  <1>3. ASSUME IsTaken(s), m = Msg(s)
        PROVE  PaidFits(m)'
    <2>1. s \notin smsHistory.accepted[m]
      BY <1>3 DEF SentOnce, IsTaken, HasAt
    <2>2. smsHistory'.accepted[m] = smsHistory.accepted[m] \cup {s}
      BY <1>3, HistoryParts DEF IsTaken, Sends
    <2>3. Cardinality(smsHistory'.accepted[m]) = A + 1
      BY <1>0, <2>1, <2>2, FS_AddElement DEF A
    <2>4. /\ HasAt(s, m, {"accepted"})' /\ ~HasAt(s, m, {"accepted"})
          /\ HasAt(s, m, Holds)' <=> HasAt(s, m, Holds)
      BY <1>3 DEF IsTaken, MovesTo, HasAt, Msg
    <2>5. MoneyKept
      BY <1>3 DEF IsTaken
    <2>6. /\ Cardinality(Unwritten(m)') = U + 1
          /\ Cardinality(Paying(m)') = P + 0
          /\ smsHistory'.ledger[m] = L + 0
          /\ smsHistory'.taken[m] = T + Cost * (0 + 0)
      BY <1>c, <1>t, <1>k, <2>4, <2>5
    <2> QED
      BY <1>2, <2>3, <2>6
  <1>4. ASSUME SentKept, MoneyKept,
               HasAt(s, m, {"accepted"})' <=> HasAt(s, m, {"accepted"}),
               HasAt(s, m, Holds)' <=> HasAt(s, m, Holds)
        PROVE  PaidFits(m)'
    <2>1. /\ Cardinality(Unwritten(m)') = U + 0
          /\ Cardinality(Paying(m)') = P + 0
          /\ Cardinality(smsHistory'.accepted[m]) = A + 0
          /\ smsHistory'.ledger[m] = L + 0
          /\ smsHistory'.taken[m] = T + Cost * (0 + 0)
      BY <1>c, <1>t, <1>k, <1>m, <1>4
    <2> QED
      BY <1>2, <2>1
  <1>5. ASSUME SentKept, Takes(m, Cost),
               HasAt(s, m, {"accepted"})' <=> HasAt(s, m, {"accepted"}),
               HasAt(s, m, Holds)', ~HasAt(s, m, Holds)
        PROVE  PaidFits(m)'
    <2>1. /\ Cardinality(Unwritten(m)') = U + 0
          /\ Cardinality(Paying(m)') = P + 1
          /\ Cardinality(smsHistory'.accepted[m]) = A + 0
          /\ smsHistory'.ledger[m] = L + 0
          /\ smsHistory'.taken[m] = T + Cost * (0 + 1)
      BY <1>c, <1>t, <1>p, <1>m, <1>5
    <2> QED
      BY <1>2, <2>1
  <1>6. ASSUME SentKept, Takes(m, -Cost),
               HasAt(s, m, {"accepted"})' <=> HasAt(s, m, {"accepted"}),
               ~HasAt(s, m, Holds)', HasAt(s, m, Holds)
        PROVE  PaidFits(m)'
    <2>1. /\ Cardinality(Unwritten(m)') = U + 0
          /\ Cardinality(Paying(m)') = P + -1
          /\ Cardinality(smsHistory'.accepted[m]) = A + 0
          /\ smsHistory'.ledger[m] = L + 0
          /\ smsHistory'.taken[m] = T + Cost * (0 + -1)
      BY <1>c, <1>t, <1>p, <1>m, <1>6
    <2> QED
      BY <1>2, <2>1
  <1>7. ASSUME NEW step \in SenderSteps, IsWritten(s, step), m = Msg(s)
        PROVE  PaidFits(m)'
    <2>1. /\ ~HasAt(s, m, {"accepted"})' /\ HasAt(s, m, {"accepted"})
          /\ ~HasAt(s, m, Holds)' /\ HasAt(s, m, Holds)
      BY <1>7 DEF IsWritten, MovesTo, HasAt
    <2>2. SentKept /\ smsHistory'.ledger[m] = L + 1 /\ smsHistory'.taken[m] = T
      BY <1>7, HistoryParts DEF IsWritten, L, T
    <2>3. /\ Cardinality(Unwritten(m)') = U + -1
          /\ Cardinality(Paying(m)') = P + -1
          /\ Cardinality(smsHistory'.accepted[m]) = A + 0
          /\ smsHistory'.taken[m] = T + Cost * (1 + -1)
      BY <1>c, <1>t, <1>m, <2>1, <2>2
    <2> QED
      BY <1>2, <2>2, <2>3
  <1>8. ASSUME NEW step \in SenderSteps, m = Msg(s),
               Breaks(s, step) \/ IsLost(s)
        PROVE  PaidFits(m)'
    BY <1>8 DEF Breaks, IsLost, HurtsOne, PaidFits
  <1>9. ASSUME NEW step \in SenderSteps, m = Msg(s), Fails(s, step)
        PROVE  PaidFits(m)'
    <2>1. /\ ~HasAt(s, m, {"accepted"})' /\ ~HasAt(s, m, {"accepted"})
          /\ ~HasAt(s, m, Holds)'
          /\ HasAt(s, m, Holds) <=> senders[s].pc = "refused"
      BY <1>9 DEF Fails, MovesTo, HasAt
    <2> QED
      BY <1>4, <1>6, <1>9, <2>1 DEF Fails
  <1>10. CASE HasAt(s, m, Sending) \/ HasAt(s, m, Sending)'
    <2>1. CASE IsTaken(s) \/ IsLost(s)
      <3>1. m = Msg(s)
        BY <1>10, <2>1 DEF IsTaken, IsLost, MovesTo, HasAt, Msg
      <3>2. "over" \in SenderSteps
        BY DEF SenderSteps
      <3> QED
        BY <1>3, <1>8, <2>1, <3>1, <3>2
    <2>2. CASE IsRefused(s)
      BY <1>4, <2>2 DEF IsRefused, MovesTo, HasAt, Msg
    <2>3. ASSUME NEW step \in SenderSteps,
                 Fails(s, step) \/ IsWritten(s, step) \/ Breaks(s, step)
          PROVE  PaidFits(m)'
      <3>1. m = Msg(s)
        BY <1>10, <2>3 DEF Fails, IsWritten, Breaks, MovesTo, HasAt
      <3> QED
        BY <1>7, <1>8, <1>9, <2>3, <3>1
    <2>4. CASE s \in Singles /\ Orders(s)
      <3>1. /\ m = s /\ SentKept /\ Takes(m, Cost)
            /\ ~HasAt(s, m, {"accepted"})' /\ ~HasAt(s, m, {"accepted"})
            /\ HasAt(s, m, Holds)' /\ ~HasAt(s, m, Holds)
        BY <1>10, <2>4 DEF Orders, MovesTo, HasAt, Msg
      <3> QED
        BY <1>5, <3>1
    <2>5. CASE s \in Singles /\ Creates(s)
      <3>1. /\ SentKept /\ MoneyKept
            /\ ~HasAt(s, m, {"accepted"})' /\ ~HasAt(s, m, {"accepted"})
            /\ HasAt(s, m, Holds)' <=> HasAt(s, m, Holds)
        BY <2>5, SenderRange DEF Creates, MovesTo, HasAt, Msg, SenderFits
      <3> QED
        BY <1>4, <3>1
    <2>6. CASE s \in Starts /\ Pays(s)
      <3>1. /\ m = Msg(s) /\ SentKept /\ Takes(m, Cost)
            /\ ~HasAt(s, m, {"accepted"})' /\ ~HasAt(s, m, {"accepted"})
            /\ HasAt(s, m, Holds)' /\ ~HasAt(s, m, Holds)
        BY <1>10, <2>6 DEF Pays, MovesTo, HasAt, Msg
      <3> QED
        BY <1>5, <3>1
    <2>7. CASE s \in Starts /\ \E n \in Bulk : Picks(s, n)
      <3>1. /\ SentKept /\ MoneyKept
            /\ ~HasAt(s, m, {"accepted"})' /\ ~HasAt(s, m, {"accepted"})
            /\ ~HasAt(s, m, Holds)' /\ ~HasAt(s, m, Holds)
        BY <2>7 DEF Picks, MovesTo, HasAt, Msg
      <3> QED
        BY <1>4, <3>1
    <2>8. CASE Wanders(s)
      BY <1>10, <2>8 DEF Wanders, HasAt
    <2> QED
      BY <2>1, <2>2, <2>3, <2>4, <2>5, <2>6, <2>7, <2>8 DEF SenderMoves
  <1> QED
    BY <1>1, <1>10

LEMMA PaidFitsStays ==
  ASSUME SmsInv, SmsTyped', SmsEffect, NEW m \in Messages
  PROVE  PaidFits(m)'
  <1>0. SmsTyped /\ PaidFits(m)
    BY DEF SmsInv
  <1>1. ASSUME UNCHANGED senders, MoneyKept, SentKept,
               smsHistory.hurt \subseteq smsHistory'.hurt
        PROVE  PaidFits(m)'
    <2>1. Paying(m)' = Paying(m) /\ Unwritten(m)' = Unwritten(m)
      BY <1>1 DEF Paying, Unwritten, Those, HasAt, Msg
    <2> QED
      BY <1>0, <1>1, <2>1, PaidFitsIfKept DEF MoneyKept, SentKept
  <1>2. CASE Stops
    <2>1. ASSUME m \notin smsHistory'.hurt
          PROVE  /\ m \notin smsHistory.hurt
                 /\ Paying(m)' = Paying(m) /\ Unwritten(m)' = Unwritten(m)
      BY <1>2, <2>1, SenderRange DEF Stops, Paying, Unwritten, Those, HasAt, Msg
    <2> QED
      BY <1>0, <1>2, <2>1 DEF Stops, PaidFits, MoneyKept, SentKept
  <1>3. ASSUME NEW s \in Senders, SenderMoves(s)
        PROVE  PaidFits(m)'
    <2>1. SenderFits(s) /\ SentOnce(s) /\ SenderFits(s)'
      BY <1>0, <1>3, SenderFitsStays DEF SmsInv
    <2> QED
      BY <1>0, <1>3, <2>1, PaidFitsOwn
  <1> QED
    BY <1>1, <1>2, <1>3, EffectOfOne
       DEF Quietly, Prepares, IsRead, IsReported, FlagsKept

-----------------------------------------------------------------------------
(* A message, its row, its sender and its reports.                         *)

LEMMA CleanWas ==
  ASSUME SmsEffect, NEW m \in Messages, Clean(m)'
  PROVE  Clean(m)
  <1>1. smsHistory.overlap => smsHistory'.overlap
    BY OverlapStays
  <1>2. smsHistory.hurt \subseteq smsHistory'.hurt
    <2>1. CASE \E s \in Senders : SenderMoves(s)
      BY <2>1, HurtStays
    <2>2. CASE ~\E s \in Senders : SenderMoves(s)
      BY <2>2, EffectOfOne
         DEF Quietly, Stops, Prepares, IsRead, IsReported, FlagsKept
    <2> QED
      BY <2>1, <2>2
  <1> QED
    BY <1>1, <1>2 DEF Clean

\* Without an overlap a message is in the hands of one sender.
LEMMA OneSender ==
  ASSUME SmsInv, NEW m \in Messages, ~smsHistory.overlap,
         NEW s \in Senders, NEW t \in Senders, HasAt(s, m, Sending),
         HasAt(t, m, Sending)
  PROVE  s = t
  <1>0. SenderFits(s) /\ SenderFits(t)
    BY DEF SmsInv
  <1>1. CASE m \in Singles
    BY <1>0, <1>1, OnlyItsRequest
  <1>2. CASE m \notin Singles
    <2>1. s \in Starts /\ t \in Starts
      BY <1>0, <1>2, SenderRange DEF HasAt, SenderFits, Senders, Messages
    <2>2. Looping(s) /\ Looping(t)
      BY DEF HasAt, Looping
    <2> QED
      BY <2>1, <2>2 DEF SmsInv, LoopsFit
  <1> QED
    BY <1>1, <1>2

\* The parts of MessageFits.
OneAcceptance(m) ==
  \A s, t \in smsHistory.accepted[m] : s = t
SendersAgree(m) ==
  \A s \in Senders :
    HasAt(s, m, Sending) =>
      /\ senders[s].pc # "accepted" => smsHistory.accepted[m] = {}
      /\ senders[s].pc # "create" => sms[m].status = "QUEUED"
      /\ sms[m].id = NoId
RowAgrees(m) ==
  smsHistory.accepted[m] # {} =>
    /\ sms[m].status # "NONE"
    /\ sms[m].status = "QUEUED" =>
         \E s \in smsHistory.accepted[m] : HasAt(s, m, {"accepted"})
ReportsAgree(m) ==
  Told(m, "FAILED") => ~Told(m, "DELIVERED") /\ sms[m].status # "DELIVERED"
HooksAgree(m) == \A h \in hooks : h.message = m => h.id = sms[m].id
Agrees(m) == /\ OneAcceptance(m) /\ SendersAgree(m) /\ RowAgrees(m)
             /\ ReportsAgree(m) /\ HooksAgree(m)

LEMMA MessageFitsParts ==
  ASSUME NEW m
  PROVE  MessageFits(m) <=> (Clean(m) => Agrees(m))
  BY DEF MessageFits, Agrees, OneAcceptance, SendersAgree, RowAgrees,
         ReportsAgree, HooksAgree

\* What the gateway never took is not reported.
LEMMA NoReportBefore ==
  ASSUME SmsInv, NEW m \in Messages, smsHistory.accepted[m] = {}
  PROVE  \A p \in reports \cup hooks : p.message # m
  BY DEF SmsInv, ReportsFit

LEMMA AgreesAside ==
  ASSUME SmsInv, SmsTyped', SmsEffect, NEW m \in Messages, Agrees(m),
         NEW s \in Senders, SenderMoves(s),
         ~HasAt(s, m, Sending), ~HasAt(s, m, Sending)'
  PROVE  Agrees(m)'
  <1>0. SmsTyped /\ SenderFits(s) /\ SenderFits(s)'
    BY SenderFitsStays DEF SmsInv
  <1>1. /\ sms'[m] = sms[m]
        /\ smsHistory'.accepted[m] = smsHistory.accepted[m]
        /\ \A p \in reports' : p.message = m => p \in reports
        /\ hooks' = hooks /\ Others(s)
    BY <1>0, NotAboutIt, SenderMovesFacts
  <1>2. \A q \in Senders :
          /\ HasAt(q, m, Sending)' <=> HasAt(q, m, Sending)
          /\ HasAt(q, m, {"accepted"})' <=> HasAt(q, m, {"accepted"})
          /\ HasAt(q, m, Sending) => senders'[q].pc = senders[q].pc
    BY <1>1, OthersStay DEF HasAt
  <1>3. smsHistory.accepted[m] \subseteq Senders
    BY <1>0, HistoryParts
  <1>4. OneAcceptance(m)' /\ SendersAgree(m)'
    BY <1>1, <1>2 DEF Agrees, OneAcceptance, SendersAgree
  <1>5. RowAgrees(m)'
    BY <1>1, <1>2, <1>3 DEF Agrees, RowAgrees
  <1>6. ReportsAgree(m)' /\ HooksAgree(m)'
    BY <1>1 DEF Agrees, ReportsAgree, HooksAgree, Told
  <1> QED
    BY <1>4, <1>5, <1>6 DEF Agrees

\* A sender that moves with the message is the only one there.
LEMMA AgreesAlong ==
  ASSUME SmsInv, SmsTyped', SmsEffect, NEW m \in Messages, Agrees(m),
         Clean(m), Clean(m)', NEW s \in Senders, SenderMoves(s),
         HasAt(s, m, Sending) \/ HasAt(s, m, Sending)'
  PROVE  Agrees(m)'
  <1>0. /\ SmsTyped /\ SenderFits(s) /\ SenderFits(s)' /\ SentOnce(s)
        /\ RowFits(m) /\ ~smsHistory.overlap /\ Others(s) /\ hooks' = hooks
    BY SenderFitsStays, SenderMovesFacts DEF SmsInv, Clean
  <1>1. ASSUME NEW q \in Senders, q # s
        PROVE  ~HasAt(q, m, Sending) /\ ~HasAt(q, m, Sending)'
    <2>1. HasAt(q, m, Sending)' <=> HasAt(q, m, Sending)
      BY <1>0, <1>1, OthersStay DEF HasAt
    <2>2. SenderFits(q)
      BY DEF SmsInv
    <2>3. CASE HasAt(s, m, Sending)
      BY <1>0, <1>1, <2>1, <2>3, OneSender
    <2>4. CASE m \in Singles /\ HasAt(s, m, Sending)'
      <3>1. s = m
        BY <1>0, <2>4, SenderRange DEF HasAt, SenderFits, Senders
      <3> QED
        BY <1>1, <2>1, <2>2, <2>4, <3>1, OnlyItsRequest
    <2>5. CASE m \notin Singles /\ HasAt(s, m, Sending)' /\ ~HasAt(s, m, Sending)
      <3>1. s \in Starts /\ \E n \in Bulk : Picks(s, n)
        BY <1>0, <2>5
           DEF SenderMoves, Wanders, IsTaken, IsRefused, IsLost, Fails,
               IsWritten, Breaks, Orders, Creates, Pays, MovesTo, HasAt, Msg
      <3>2. Looping(s)
        BY <3>1 DEF Picks, Looping
      <3>3. HasAt(q, m, Sending) => q \in Starts /\ Looping(q)
        BY <2>2, <2>5, SenderRange
           DEF HasAt, SenderFits, Senders, Messages, Looping
      <3> QED
        BY <1>0, <1>1, <2>1, <3>1, <3>2, <3>3 DEF SmsInv, LoopsFit
    <2> QED
      BY <2>3, <2>4, <2>5
  <1>a. OneAcceptance(m) /\ RowAgrees(m) /\ ReportsAgree(m) /\ HooksAgree(m)
    BY DEF Agrees
  <1>b. HasAt(s, m, Sending) =>
          /\ senders[s].pc # "accepted" => smsHistory.accepted[m] = {}
          /\ senders[s].pc # "create" => sms[m].status = "QUEUED"
          /\ sms[m].id = NoId
    BY DEF Agrees, SendersAgree
  <1>c. smsHistory.accepted[m] \subseteq Senders
    BY <1>0, HistoryParts
  \* A message the gateway has not had, before and after.
  <1>2. ASSUME smsHistory.accepted[m] = {}, SentKept, reports' = reports,
               \/ ~HasAt(s, m, Sending)' /\ sms'[m].status # "DELIVERED"
               \/ /\ sms'[m].id = NoId
                  /\ \/ senders'[s].pc = "create"
                     \/ sms'[m].status = "QUEUED"
        PROVE  Agrees(m)'
    <2>1. smsHistory'.accepted[m] = {}
      BY <1>2 DEF SentKept
    <2>2. \A p \in reports \cup hooks : p.message # m
      BY <1>2, NoReportBefore
    <2>3. OneAcceptance(m)' /\ RowAgrees(m)'
      BY <2>1 DEF OneAcceptance, RowAgrees
    <2>4. ReportsAgree(m)' /\ HooksAgree(m)'
      BY <1>0, <1>2, <2>2 DEF ReportsAgree, HooksAgree, Told
    <2>5. SendersAgree(m)'
      BY <1>1, <1>2, <2>1 DEF SendersAgree
    <2> QED
      BY <2>3, <2>4, <2>5 DEF Agrees
  <1>3. CASE Wanders(s)
    BY <1>3 DEF Wanders, HasAt
  <1>4. CASE IsTaken(s)
    <2>1. /\ m = Msg(s) /\ senders[s].pc = "send" /\ HasAt(s, m, Sending)
          /\ senders'[s].pc = "accepted" /\ HasAt(s, m, {"accepted"})'
          /\ sms' = sms
      BY <1>4 DEF IsTaken, MovesTo, HasAt, Msg
    <2>2. /\ smsHistory.accepted[m] = {} /\ sms[m].status = "QUEUED"
          /\ sms[m].id = NoId
      BY <1>b, <2>1
    <2>3. smsHistory'.accepted[m] = {s}
      BY <1>0, <1>4, <2>1, <2>2, HistoryParts DEF IsTaken, Sends
    <2>4. \A p \in reports \cup hooks : p.message # m
      BY <2>2, NoReportBefore
    <2>5. OneAcceptance(m)' /\ RowAgrees(m)' /\ SendersAgree(m)'
      BY <1>1, <2>1, <2>2, <2>3 DEF OneAcceptance, RowAgrees, SendersAgree
    <2>6. PICK final \in {"DELIVERED", "FAILED"} :
            reports' = reports \cup {[message |-> Msg(s), id |-> s,
                                      status |-> st] : st \in {"SENT", final}}
      BY <1>4 DEF IsTaken
    <2>7. \A p \in reports' \cup hooks' :
            p.message = m => p.status \in {"SENT", final}
      BY <1>0, <2>4, <2>6
    <2>8. ReportsAgree(m)' /\ HooksAgree(m)'
      BY <1>0, <2>1, <2>2, <2>4, <2>7 DEF ReportsAgree, HooksAgree, Told
    <2> QED
      BY <2>5, <2>8 DEF Agrees
  <1>5. CASE IsRefused(s)
    <2>1. /\ HasAt(s, m, Sending) /\ senders[s].pc = "send" /\ sms' = sms
          /\ SentKept /\ reports' = reports
      BY <1>5 DEF IsRefused, MovesTo, HasAt, Msg, MailKept
    <2> QED
      BY <1>2, <1>b, <2>1
  <1>6. ASSUME NEW step \in SenderSteps, m = Msg(s),
               IsLost(s) \/ Breaks(s, step)
        PROVE  FALSE
    BY <1>6 DEF IsLost, Breaks, HurtsOne, Clean
  <1>7. ASSUME NEW step \in SenderSteps, Fails(s, step)
        PROVE  Agrees(m)'
    <2>1. /\ ~HasAt(s, m, Sending)' /\ m = Msg(s)
          /\ senders[s].pc \in {"reserve", "refused"}
          /\ SentKept /\ reports' = reports
          /\ sms'[m].status = "FAILED"
      BY <1>7 DEF Fails, MovesTo, HasAt, MailKept, RowTo
    <2>2. smsHistory.accepted[m] = {}
      BY <1>b, <2>1 DEF HasAt
    <2> QED
      BY <1>2, <2>1, <2>2
  <1>8. ASSUME NEW step \in SenderSteps, IsWritten(s, step)
        PROVE  Agrees(m)'
    <2>1. /\ ~HasAt(s, m, Sending)' /\ HasAt(s, m, Sending)
          /\ SentKept /\ reports' = reports
          /\ sms'[m].status = "SENT"
      BY <1>8 DEF IsWritten, MovesTo, HasAt, MailKept, RowTo
    <2>2. \A h \in hooks : h.message # m
      BY <1>0, <1>a, <1>b, <2>1, SenderRange
         DEF HooksAgree, SmsTyped, Hook
    <2>3. OneAcceptance(m)' /\ RowAgrees(m)' /\ SendersAgree(m)'
      BY <1>1, <1>a, <2>1 DEF OneAcceptance, RowAgrees, SendersAgree, SentKept
    <2>4. ReportsAgree(m)' /\ HooksAgree(m)'
      BY <1>0, <1>a, <2>1, <2>2 DEF ReportsAgree, HooksAgree, Told
    <2> QED
      BY <2>3, <2>4 DEF Agrees
  <1>9. CASE s \in Singles /\ (Orders(s) \/ Creates(s))
    <2>1. m = s
      BY <1>9, <1>0, SenderRange
         DEF Orders, Creates, MovesTo, HasAt, Msg, SenderFits
    <2>2. sms[m] = [status |-> "NONE", id |-> NoId]
      BY <1>0, <1>9, <2>1 DEF Orders, Creates, SenderFits
    <2>3. smsHistory.accepted[m] = {}
      BY <1>a, <2>2 DEF RowAgrees
    <2> QED
      BY <1>2, <1>9, <2>1, <2>2, <2>3
         DEF Orders, Creates, MovesTo, RowTo, MailKept
  <1>10. CASE s \in Starts /\ Pays(s)
    <2>1. /\ HasAt(s, m, Sending) /\ senders[s].pc = "reserve" /\ sms' = sms
          /\ SentKept /\ reports' = reports
      BY <1>10 DEF Pays, MovesTo, HasAt, Msg, MailKept
    <2> QED
      BY <1>2, <1>b, <2>1
  <1>11. CASE s \in Starts /\ \E n \in Bulk : Picks(s, n)
    <2>1. /\ senders[s].pc = "next" /\ Picks(s, m) /\ m \in Bulk
          /\ sms[m].status = "QUEUED" /\ sms' = sms /\ SentKept
          /\ reports' = reports
      BY <1>11 DEF Picks, MovesTo, HasAt, Msg, MailKept
    <2>2. sms[m].id = NoId
      BY <1>0, <2>1 DEF RowFits
    <2>3. \A q \in Senders : ~HasAt(q, m, {"accepted"})
      BY <1>1, <2>1 DEF HasAt
    <2>4. smsHistory.accepted[m] = {}
      BY <1>a, <1>c, <2>1, <2>3 DEF RowAgrees
    <2> QED
      BY <1>2, <2>1, <2>2, <2>4
  <1>12. CASE IsLost(s) \/ \E step \in SenderSteps : Breaks(s, step)
    <2>1. m = Msg(s)
      BY <1>12 DEF IsLost, Breaks, MovesTo, HasAt, Msg
    <2>2. "over" \in SenderSteps
      BY DEF SenderSteps
    <2> QED
      BY <1>6, <1>12, <2>1, <2>2
  <1> QED
    BY <1>3, <1>4, <1>5, <1>7, <1>8, <1>9, <1>10, <1>11, <1>12
       DEF SenderMoves

LEMMA MessageFitsStays ==
  ASSUME SmsInv, SmsTyped', SmsEffect, NEW m \in Messages
  PROVE  MessageFits(m)'
  <1> SUFFICES ASSUME Clean(m)'
               PROVE  Agrees(m)'
    BY DEF MessageFits, Agrees, OneAcceptance, SendersAgree, RowAgrees,
           ReportsAgree, HooksAgree
  <1>0. SmsTyped /\ Clean(m) /\ Agrees(m)
    BY CleanWas, MessageFitsParts DEF SmsInv
  <1>a. /\ OneAcceptance(m) /\ SendersAgree(m) /\ RowAgrees(m)
        /\ ReportsAgree(m) /\ HooksAgree(m)
    BY <1>0 DEF Agrees
  <1>c. smsHistory.accepted[m] \subseteq Senders
    BY <1>0, HistoryParts
  <1>1. CASE Quietly
    <2>1. /\ senders' = senders /\ sms' = sms /\ reports' \subseteq reports
          /\ hooks' = hooks /\ smsHistory'.accepted = smsHistory.accepted
      BY <1>1 DEF Quietly, SentKept
    <2>2. OneAcceptance(m)' /\ SendersAgree(m)' /\ RowAgrees(m)'
      BY <1>a, <2>1 DEF OneAcceptance, SendersAgree, RowAgrees, HasAt, Msg
    <2>3. ReportsAgree(m)' /\ HooksAgree(m)'
      BY <1>a, <2>1 DEF ReportsAgree, HooksAgree, Told
    <2> QED
      BY <2>2, <2>3 DEF Agrees
  <1>2. CASE Stops
    <2>1. /\ sms' = sms /\ reports' = reports /\ hooks' = {}
          /\ smsHistory'.accepted = smsHistory.accepted
          /\ \A s \in Senders : ~HasAt(s, m, Sending)'
          /\ \A s \in Senders : ~HasAt(s, m, {"accepted"})
      BY <1>2, SenderRange DEF Stops, SentKept, HasAt, Clean
    <2>2. OneAcceptance(m)' /\ SendersAgree(m)'
      BY <1>a, <2>1 DEF OneAcceptance, SendersAgree
    <2>3. RowAgrees(m)'
      BY <1>a, <1>c, <2>1 DEF RowAgrees
    <2>4. ReportsAgree(m)' /\ HooksAgree(m)'
      BY <1>a, <2>1 DEF ReportsAgree, HooksAgree, Told
    <2> QED
      BY <2>2, <2>3, <2>4 DEF Agrees
  <1>3. ASSUME NEW s \in Senders, SenderMoves(s)
        PROVE  Agrees(m)'
    BY <1>0, <1>3, AgreesAside, AgreesAlong
  <1>4. ASSUME NEW n \in Bulk, Prepares(n)
        PROVE  Agrees(m)'
    <2>1. /\ senders' = senders /\ reports' = reports /\ hooks' = hooks
          /\ smsHistory'.accepted = smsHistory.accepted
          /\ sms'[m].id = sms[m].id
          /\ \/ sms'[m] = sms[m]
             \/ sms[m].status = "NONE" /\ sms'[m].status = "QUEUED"
      BY <1>4 DEF Prepares, RowTo, MailKept, SentKept
    <2>2. CASE sms'[m] = sms[m]
      <3>1. OneAcceptance(m)' /\ SendersAgree(m)' /\ RowAgrees(m)'
        BY <1>a, <2>1, <2>2 DEF OneAcceptance, SendersAgree, RowAgrees, HasAt, Msg
      <3>2. ReportsAgree(m)' /\ HooksAgree(m)'
        BY <1>a, <2>1, <2>2 DEF ReportsAgree, HooksAgree, Told
      <3> QED
        BY <3>1, <3>2 DEF Agrees
    <2>3. CASE sms[m].status = "NONE" /\ sms'[m].status = "QUEUED"
      <3>1. smsHistory.accepted[m] = {}
        BY <1>a, <2>3 DEF RowAgrees
      <3>2. OneAcceptance(m)' /\ SendersAgree(m)' /\ RowAgrees(m)'
        BY <1>a, <2>1, <2>3, <3>1
           DEF OneAcceptance, SendersAgree, RowAgrees, HasAt, Msg
      <3>3. ReportsAgree(m)' /\ HooksAgree(m)'
        BY <1>a, <2>1, <2>3 DEF ReportsAgree, HooksAgree, Told
      <3> QED
        BY <3>2, <3>3 DEF Agrees
    <2> QED
      BY <2>1, <2>2, <2>3
  <1>5. ASSUME NEW p \in reports, IsRead(p)
        PROVE  Agrees(m)'
    <2> DEFINE g == [message |-> p.message, id |-> p.id,
                     read |-> sms[p.message].status, status |-> p.status]
    <2>1. /\ senders' = senders /\ sms' = sms /\ reports' = reports \ {p}
          /\ smsHistory'.accepted = smsHistory.accepted
          /\ hooks' = hooks \cup {g} /\ sms[p.message].id = p.id
          /\ g.message = p.message /\ g.id = p.id /\ g.status = p.status
      BY <1>5 DEF IsRead, SentKept
    <2> HIDE DEF g
    <2>2. OneAcceptance(m)' /\ SendersAgree(m)' /\ RowAgrees(m)'
      BY <1>a, <2>1 DEF OneAcceptance, SendersAgree, RowAgrees, HasAt, Msg
    <2>3. \A st : Told(m, st)' => Told(m, st)
      BY <2>1 DEF Told
    <2>4. ReportsAgree(m)'
      BY <1>a, <2>1, <2>3 DEF ReportsAgree
    <2>5. HooksAgree(m)'
      BY <1>a, <2>1 DEF HooksAgree
    <2> QED
      BY <2>2, <2>4, <2>5 DEF Agrees
  <1>6. ASSUME NEW h \in hooks, IsReported(h)
        PROVE  Agrees(m)'
    <2>1. /\ senders' = senders /\ reports' = reports /\ hooks' = hooks \ {h}
          /\ smsHistory'.accepted = smsHistory.accepted
          /\ sms'[m].id = sms[m].id
          /\ h.message # m => sms'[m] = sms[m]
          /\ h.message = m => sms'[m].status = h.status
          /\ h.status \in {"SENT", "DELIVERED", "FAILED"} /\ h.id \in Senders
      BY <1>0, <1>6
         DEF IsReported, RowTo, SentKept, SmsTyped, Hook, ReportStatus
    <2>2. \A st : Told(m, st)' => Told(m, st)
      BY <2>1 DEF Told
    <2>3. OneAcceptance(m)' /\ HooksAgree(m)'
      BY <1>a, <2>1 DEF OneAcceptance, HooksAgree
    <2>4. CASE h.message # m
      <3>1. SendersAgree(m)' /\ RowAgrees(m)'
        BY <1>a, <2>1, <2>4 DEF SendersAgree, RowAgrees, HasAt, Msg
      <3>2. ReportsAgree(m)'
        BY <1>a, <2>1, <2>2, <2>4 DEF ReportsAgree
      <3> QED
        BY <2>3, <3>1, <3>2 DEF Agrees
    <2>5. CASE h.message = m
      <3>1. sms[m].id # NoId
        BY <1>a, <2>1, <2>5, SenderRange DEF HooksAgree
      <3>2. \A s \in Senders : ~HasAt(s, m, Sending)
        BY <1>a, <3>1 DEF SendersAgree
      <3>3. SendersAgree(m)'
        BY <2>1, <3>2 DEF SendersAgree, HasAt, Msg
      <3>4. RowAgrees(m)'
        BY <2>1, <2>5 DEF RowAgrees
      <3>5. Told(m, h.status)
        BY <2>5 DEF Told
      <3>6. ReportsAgree(m)'
        BY <1>a, <2>1, <2>2, <2>5, <3>5 DEF ReportsAgree
      <3> QED
        BY <2>3, <3>3, <3>4, <3>6 DEF Agrees
    <2> QED
      BY <2>4, <2>5
  <1> QED
    BY <1>1, <1>2, <1>3, <1>4, <1>5, <1>6, EffectOfOne

-----------------------------------------------------------------------------
(* The theorems about Sms.                                                 *)

smsSpecVars == <<accountVars, smsVars>>

LEMMA SmsInvInit ==
  ASSUME SmsInit
  PROVE  SmsInv
  <1>1. /\ Idle \in SenderType /\ Idle.pc = "idle" /\ Idle.msg = NoMessage
        /\ Idle.todo = {}
    BY DEF Idle, SenderType, SenderSteps
  <1>2. /\ senders = [s \in Senders |-> Idle] /\ reports = {} /\ hooks = {}
        /\ sms = [m \in Messages |-> [status |-> "NONE", id |-> NoId]]
        /\ smsHistory.taken = [m \in Messages |-> 0]
        /\ smsHistory.ledger = [m \in Messages |-> 0]
        /\ smsHistory.accepted = [m \in Messages |-> {}]
        /\ smsHistory.overlap = FALSE
        /\ smsHistory \in SmsHistoryType
    BY DEF SmsInit, SmsHistoryType
  <1>3. /\ SmsTyped /\ LoopsFit /\ ReportsFit
    BY <1>1, <1>2, SenderRange
       DEF SmsTyped, RowType, SmsStatus, LoopsFit, ReportsFit, Looping
  <1>4. \A s \in Senders : SenderFits(s) /\ SentOnce(s)
    BY <1>1, <1>2, SenderRange DEF SenderFits, SentOnce, Msg
  <1>5. \A m \in Messages : HooksFit(m) /\ RowFits(m) /\ MessageFits(m)
    BY <1>1, <1>2
       DEF HooksFit, RowFits, MessageFits, HasAt, Told, Clean, Msg
  <1>6. ASSUME NEW m \in Messages
        PROVE  PaidFits(m)
    <2>1. /\ Paying(m) = {} /\ Unwritten(m) = {}
          /\ smsHistory.accepted[m] = {}
      BY <1>1, <1>2 DEF Paying, Unwritten, Those, HasAt
    <2>2. Cost * (0 + 0) = 0
      BY SmsAssumption
    <2> QED
      BY <1>2, <2>1, <2>2, FS_EmptySet DEF PaidFits
  <1> QED
    BY <1>3, <1>4, <1>5, <1>6 DEF SmsInv

LEMMA SmsInvStays ==
  ASSUME SmsInv, SmsNext
  PROVE  SmsInv' /\ SmsEffect
  <1>1. SmsTyped' /\ SmsEffect
    BY SplitSmsNext DEF SmsInv
  <1>2. LoopsFit' /\ ReportsFit'
    BY <1>1, LoopsFitStay, ReportsFitStay
  <1>3. \A s \in Senders : SenderFits(s)' /\ SentOnce(s)'
    BY <1>1, SenderFitsStays, SentOnceStays
  <1>4. \A m \in Messages :
          PaidFits(m)' /\ HooksFit(m)' /\ RowFits(m)' /\ MessageFits(m)'
    BY <1>1, PaidFitsStays, HooksFitStays, RowFitsStays, MessageFitsStays
  <1> QED
    BY <1>1, <1>2, <1>3, <1>4 DEF SmsInv

LEMMA SmsInvStutters ==
  ASSUME SmsInv, UNCHANGED smsVars
  PROVE  SmsInv'
  <1>1. /\ sms' = sms /\ senders' = senders /\ reports' = reports
        /\ hooks' = hooks /\ smsHistory' = smsHistory
    BY DEF smsVars, reportVars
  <1>2. SmsTyped' /\ LoopsFit' /\ ReportsFit'
    BY <1>1 DEF SmsInv, SmsTyped, LoopsFit, ReportsFit, Looping
  <1>3. ASSUME NEW s \in Senders
        PROVE  SenderFits(s)' /\ SentOnce(s)'
    BY <1>1 DEF SmsInv, SenderFits, SentOnce, HasAt, Msg
  <1>4. ASSUME NEW m \in Messages
        PROVE  PaidFits(m)' /\ HooksFit(m)' /\ RowFits(m)' /\ MessageFits(m)'
    <2>1. /\ SmsTyped /\ PaidFits(m) /\ HooksFit(m) /\ RowFits(m)
          /\ MessageFits(m)
      BY DEF SmsInv
    <2>2. Paying(m)' = Paying(m) /\ Unwritten(m)' = Unwritten(m)
      BY <1>1 DEF Paying, Unwritten, Those, HasAt, Msg
    <2>3. PaidFits(m)'
      BY <1>1, <2>1, <2>2, PaidFitsIfKept
    <2>4. HooksFit(m)' /\ RowFits(m)'
      BY <1>1, <2>1 DEF HooksFit, RowFits
    <2>5. MessageFits(m)'
      <3>1. OneAcceptance(m)' = OneAcceptance(m)
        BY <1>1 DEF OneAcceptance
      <3>2. SendersAgree(m)' = SendersAgree(m) /\ RowAgrees(m)' = RowAgrees(m)
        BY <1>1 DEF SendersAgree, RowAgrees, HasAt, Msg
      <3>3. ReportsAgree(m)' = ReportsAgree(m) /\ HooksAgree(m)' = HooksAgree(m)
        BY <1>1 DEF ReportsAgree, HooksAgree, Told
      <3>4. Clean(m)' = Clean(m)
        BY <1>1 DEF Clean
      <3> QED
        BY <2>1, <3>1, <3>2, <3>3, <3>4
           DEF MessageFits, OneAcceptance, SendersAgree, RowAgrees,
               ReportsAgree, HooksAgree
    <2> QED
      BY <2>3, <2>4, <2>5
  <1> QED
    BY <1>2, <1>3, <1>4 DEF SmsInv

LEMMA SmsPaid ==
  ASSUME SmsInv
  PROVE  SmsIsPaidOnce
  <1> SUFFICES ASSUME NEW m \in Messages
               PROVE  /\ ~AtIt(m) /\ m \notin smsHistory.hurt =>
                           /\ smsHistory.ledger[m]
                                = Cardinality(smsHistory.accepted[m])
                           /\ smsHistory.taken[m]
                                = Cost * smsHistory.ledger[m]
                      /\ Cardinality(smsHistory.accepted[m]) > 1 =>
                           smsHistory.overlap \/ m \in smsHistory.hurt
    BY DEF SmsIsPaidOnce
  <1>0. /\ SmsTyped /\ PaidFits(m) /\ MessageFits(m)
        /\ smsHistory.ledger[m] \in Nat
        /\ smsHistory.accepted[m] \subseteq Senders
    BY HistoryParts DEF SmsInv
  <1>1. ASSUME ~AtIt(m), m \notin smsHistory.hurt
        PROVE  /\ smsHistory.ledger[m] = Cardinality(smsHistory.accepted[m])
               /\ smsHistory.taken[m] = Cost * smsHistory.ledger[m]
    <2>1. Paying(m) = {} /\ Unwritten(m) = {}
      BY <1>1 DEF AtIt, Paying, Unwritten, Those, HasAt
    <2>2. Cardinality(Paying(m)) = 0 /\ Cardinality(Unwritten(m)) = 0
      BY <2>1, FS_EmptySet
    <2>3. smsHistory.ledger[m] + 0 = smsHistory.ledger[m]
      BY <1>0
    <2> QED
      BY <1>0, <1>1, <2>2, <2>3 DEF PaidFits
  <1>2. ASSUME Clean(m)
        PROVE  ~(Cardinality(smsHistory.accepted[m]) > 1)
    <2>1. \A s, t \in smsHistory.accepted[m] : s = t
      BY <1>0, <1>2 DEF MessageFits
    <2>2. CASE smsHistory.accepted[m] = {}
      BY <2>2, FS_EmptySet
    <2>3. CASE smsHistory.accepted[m] # {}
      <3>1. PICK s \in smsHistory.accepted[m] : TRUE
        BY <2>3
      <3>2. smsHistory.accepted[m] = {s}
        BY <2>1, <3>1
      <3> QED
        BY <3>2, FS_Singleton
    <2> QED
      BY <2>2, <2>3
  <1> QED
    BY <1>1, <1>2 DEF Clean

\* The status of a delivered message is written by a report only.
LEMMA DeliveredStays ==
  ASSUME SmsInv, SmsEffect, NEW m \in Messages, sms[m].status = "DELIVERED",
         m \notin smsHistory.crossed, Clean(m)
  PROVE  sms'[m].status = "DELIVERED"
  <1>0. SmsTyped /\ HooksFit(m) /\ MessageFits(m)
    BY DEF SmsInv
  <1>1. CASE sms'[m] = sms[m]
    BY <1>1
  <1>2. ASSUME NEW s \in Senders, SenderMoves(s)
        PROVE  sms'[m].status = "DELIVERED"
    <2>1. SenderFits(s)
      BY DEF SmsInv
    <2>2. ASSUME HasAt(s, m, Sending)
          PROVE  senders[s].pc = "create"
      BY <1>0, <2>2 DEF MessageFits
    <2>3. CASE m \in Singles /\ s = m /\ Creates(m)
      BY <2>1, <2>3 DEF Creates, SenderFits
    <2>4. ASSUME HasAt(s, m, Sending), NEW step \in SenderSteps,
                 Fails(s, step) \/ IsWritten(s, step)
          PROVE  FALSE
      BY <2>2, <2>4 DEF Fails, IsWritten
    <2> QED
      BY <1>0, <1>1, <1>2, <2>1, <2>3, <2>4, RowsBySender
  <1>3. CASE \E n \in Bulk : Prepares(n)
    BY <1>3 DEF Prepares, RowTo
  <1>4. ASSUME NEW h \in hooks, IsReported(h), h.message = m
        PROVE  sms'[m].status = "DELIVERED"
    <2>1. h.status \in ReportStatus /\ sms'[m].status = h.status
      BY <1>0, <1>4 DEF IsReported, RowTo, SmsTyped, Hook
    <2>2. h.status # "SENT"
      BY <1>0, <1>4 DEF HooksFit
    <2>3. h.status = "FAILED" => Told(m, "FAILED")
      BY <1>4 DEF Told
    <2>4. ~Told(m, "FAILED")
      BY <1>0 DEF MessageFits
    <2> QED
      BY <2>1, <2>2, <2>3, <2>4 DEF ReportStatus
  <1>5. ASSUME NEW h \in hooks, IsReported(h), h.message # m
        PROVE  sms'[m].status = "DELIVERED"
    BY <1>5 DEF IsReported, RowTo
  <1>6. CASE Quietly \/ Stops \/ \E p \in reports : IsRead(p)
    BY <1>6 DEF Quietly, Stops, IsRead
  <1> QED
    BY <1>2, <1>3, <1>4, <1>5, <1>6, EffectOfOne

\* Whatever is sent, retried, cancelled or lost: the gateway's acceptances of
\* a message, its rows in the ledger and the money taken for it agree, and
\* only overlapping loops or a lost write make the gateway take it twice.
THEOREM MessagesArePaidOnce == SmsSpec => []SmsIsPaidOnce
  <1>1. AccountInit /\ SmsInit => SmsInv
    BY SmsInvInit
  <1>2. SmsInv /\ [SmsNext]_smsSpecVars => SmsInv'
    BY SmsInvStays, SmsInvStutters DEF smsSpecVars
  <1>3. SmsInv => SmsIsPaidOnce
    BY SmsPaid
  <1> QED
    BY <1>1, <1>2, <1>3, PTL DEF SmsSpec, smsSpecVars

\* A delivered message stays so, in whatever order its reports come.
THEOREM DeliveredStaysDelivered == SmsSpec => DeliveredIsFinal
  <1> DEFINE Final ==
        \A m \in Messages :
          sms[m].status = "DELIVERED" =>
            \/ sms'[m].status = "DELIVERED"
            \/ m \in smsHistory.crossed
            \/ smsHistory.overlap \/ m \in smsHistory.hurt
  <1>1. AccountInit /\ SmsInit => SmsInv
    BY SmsInvInit
  <1>2. SmsInv /\ [SmsNext]_smsSpecVars => SmsInv'
    BY SmsInvStays, SmsInvStutters DEF smsSpecVars
  <1>3. ASSUME SmsInv, [SmsNext]_smsSpecVars
        PROVE  [Final]_smsSpecVars
    <2>1. CASE SmsNext
      BY <1>3, <2>1, SmsInvStays, DeliveredStays DEF Clean
    <2>2. CASE UNCHANGED smsSpecVars
      BY <2>2
    <2> QED
      BY <1>3, <2>1, <2>2
  <1> QED
    BY <1>1, <1>2, <1>3, PTL DEF SmsSpec, smsSpecVars, DeliveredIsFinal

-----------------------------------------------------------------------------
(* Wallet.  What its steps do to the invoices, the fees and the credits.   *)

LEMMA WalletParts ==
  ASSUME WalletTyped
  PROVE  /\ walletHistory.fees \in [Periods -> Nat]
         /\ walletHistory.credits \in [TopUps -> Nat]
         /\ walletHistory.overlap \in BOOLEAN /\ walletHistory.stale \in BOOLEAN
         /\ walletHistory.beyond \in BOOLEAN /\ walletHistory.first \in Int
         /\ walletHistory.overwrote \in BOOLEAN /\ walletHistory.lost \in Int
         /\ walletHistory.crashed \in BOOLEAN /\ walletHistory.faults \in Nat
  BY DEF WalletTyped, WalletHistoryType

LEMMA TaskParts ==
  ASSUME WalletTyped, NEW t \in Tasks
  PROVE  /\ tasks[t] \in TaskType /\ tasks[t].pc \in TaskSteps
         /\ tasks[t].seen \in Int /\ tasks[t].period \in 0..MaxPeriod
         /\ tasks[t].status \in TenantStatus
         /\ tasks[t].topUp \in TopUps \cup {NoTopUp}
  BY DEF WalletTyped, TaskType

LEMMA TaskNames ==
  /\ Billings \subseteq Tasks /\ Notices \subseteq Tasks
  /\ Corrections \subseteq Tasks /\ Otps \subseteq Tasks
  /\ IdleTask \in TaskType /\ IdleTask.pc = "idle"
  BY WalletAssumption
     DEF Tasks, IdleTask, TaskType, TaskSteps, TenantStatus

\* A handler that is over remembers nothing.
LEMMA OverTask ==
  [IdleTask EXCEPT !.pc = "over"]
    = [pc |-> "over", seen |-> 0, status |-> "ACTIVE", period |-> 0,
       topUp |-> NoTopUp]
  BY DEF IdleTask

LEMMA OverTaskFits ==
  /\ [IdleTask EXCEPT !.pc = "over"] \in TaskType
  /\ [IdleTask EXCEPT !.pc = "over"].pc = "over"
  BY OverTask, WalletAssumption DEF TaskType, TaskSteps, TenantStatus

OtherTasks(t) == \A u \in Tasks : u # t => tasks'[u] = tasks[u]
\* A handler goes on to another step, with what it has read.
GoesOn(t, step) ==
  /\ OtherTasks(t) /\ tasks'[t].pc = step
  /\ step # "over" =>
       /\ tasks'[t].seen = tasks[t].seen
       /\ tasks'[t].period = tasks[t].period
       /\ tasks'[t].topUp = tasks[t].topUp

LEMMA NewStep ==
  ASSUME WalletTyped, NEW t \in Tasks, NEW step \in TaskSteps
  PROVE  /\ [tasks[t] EXCEPT !.pc = step] \in TaskType
         /\ [tasks[t] EXCEPT !.pc = step].pc = step
         /\ [tasks[t] EXCEPT !.pc = step].seen = tasks[t].seen
         /\ [tasks[t] EXCEPT !.pc = step].period = tasks[t].period
         /\ [tasks[t] EXCEPT !.pc = step].topUp = tasks[t].topUp
  BY TaskParts DEF TaskType

LEMMA TaskToFacts ==
  ASSUME WalletTyped, NEW t \in Tasks, NEW step \in TaskSteps, TaskTo(t, step)
  PROVE  tasks' \in [Tasks -> TaskType] /\ GoesOn(t, step)
  <1>1. CASE step = "over"
    <2>1. PICK off \in TaskType :
            off = [IdleTask EXCEPT !.pc = "over"] /\ off.pc = "over"
      BY OverTaskFits
    <2>2. tasks' = [tasks EXCEPT ![t] = off]
      BY <1>1, <2>1 DEF TaskTo
    <2> QED
      BY <1>1, <2>1, <2>2 DEF WalletTyped, GoesOn, OtherTasks
  <1>2. CASE step # "over"
    <2>1. PICK new \in TaskType :
            /\ new = [tasks[t] EXCEPT !.pc = step] /\ new.pc = step
            /\ new.seen = tasks[t].seen /\ new.period = tasks[t].period
            /\ new.topUp = tasks[t].topUp
      BY NewStep
    <2>2. tasks' = [tasks EXCEPT ![t] = new]
      BY <1>2, <2>1 DEF TaskTo, WalletTyped
    <2> QED
      BY <2>1, <2>2 DEF WalletTyped, GoesOn, OtherTasks
  <1> QED
    BY <1>1, <1>2

\* A handler that is at the first of its steps.
Began(t, step) == OtherTasks(t) /\ tasks'[t].pc = step

FeesKept == /\ invoices' = invoices
            /\ walletHistory'.fees = walletHistory.fees
            /\ walletHistory'.beyond = walletHistory.beyond
            /\ walletHistory'.stale = walletHistory.stale
CreditsKept == /\ credited' = credited
               /\ walletHistory'.credits = walletHistory.credits
OverlapKept == walletHistory'.overlap = walletHistory.overlap
NotBilling == {"idle", "check", "credit", "resume", "forget", "write",
               "telephony", "play", "record", "refund", "over"}

\* A step that is about neither fees nor credits, of a handler or of none.
WalletQuiet ==
  /\ FeesKept /\ CreditsKept /\ OverlapKept
  /\ \/ tasks' = tasks
     \/ \A t \in Tasks : tasks'[t].pc \in {"idle", "over"}
     \/ \E t \in Tasks :
          /\ OtherTasks(t)
          /\ \/ tasks'[t].pc \in NotBilling \ {"check", "credit"}
             \/ /\ tasks'[t].pc \in {"check", "credit"}
                /\ tasks'[t].topUp \in TopUps
             \/ /\ tasks[t].pc \in BillingSteps /\ tasks'[t].pc \in BillingSteps
                /\ tasks'[t].pc # "pay"
                /\ tasks'[t].period = tasks[t].period
Begins(b) ==
  /\ FeesKept /\ CreditsKept /\ Began(b, "invoice")
  /\ tasks'[b].period = period
  /\ walletHistory'.overlap = (walletHistory.overlap \/
                                 \E c \in Billings \ {b} : UnderWay(c))
WillPay(b) ==
  /\ FeesKept /\ CreditsKept /\ OverlapKept /\ tasks[b].pc = "invoice"
  /\ invoices[tasks[b].period] # "PAID" /\ CanPay(b) /\ GoesOn(b, "pay")
HasPaid(b) ==
  /\ tasks[b].pc = "pay" /\ GoesOn(b, "over") /\ CreditsKept /\ OverlapKept
  /\ invoices' = [invoices EXCEPT ![tasks[b].period] = "PAID"]
  /\ walletHistory'.fees
       = [walletHistory.fees EXCEPT ![tasks[b].period] = @ + 1]
  /\ walletHistory'.stale = (walletHistory.stale \/ balance # tasks[b].seen)
  /\ walletHistory'.beyond
       = (walletHistory.beyond \/ balance - Fee < -CreditLimit)
Owes(b) ==
  /\ tasks[b].pc = "due" /\ CreditsKept /\ OverlapKept
  /\ GoesOn(b, "overdue") \/ GoesOn(b, "over")
  /\ invoices' = [invoices EXCEPT ![tasks[b].period] =
                    IF @ = "NONE" THEN "DUE" ELSE @]
  /\ walletHistory'.fees = walletHistory.fees
  /\ walletHistory'.beyond = walletHistory.beyond
  /\ walletHistory'.stale = walletHistory.stale
Credits(n) ==
  LET t == tasks[n].topUp
  IN  /\ tasks[n].pc = "credit" /\ t \notin credited
      /\ FeesKept /\ OverlapKept /\ GoesOn(n, "resume")
      /\ credited' = credited \cup {t}
      /\ walletHistory'.credits = [walletHistory.credits EXCEPT ![t] = @ + 1]

WalletEffect ==
  \/ WalletQuiet
  \/ \E b \in Billings : Begins(b) \/ WillPay(b) \/ HasPaid(b) \/ Owes(b)
  \/ \E n \in Notices : Credits(n)

LEMMA WalletHistoryFacts ==
  ASSUME NEW first \in Int, NEW fees \in [Periods -> Nat],
         NEW credits \in [TopUps -> Nat], NEW faults \in Nat,
         NEW overlap \in BOOLEAN, NEW stale \in BOOLEAN, NEW beyond \in BOOLEAN,
         NEW overwrote \in BOOLEAN, NEW lost \in Int, NEW crashed \in BOOLEAN,
         walletHistory' = [first |-> first, fees |-> fees,
                           credits |-> credits, faults |-> faults,
                           overlap |-> overlap, stale |-> stale,
                           beyond |-> beyond, overwrote |-> overwrote,
                           lost |-> lost, crashed |-> crashed]
  PROVE  /\ walletHistory' \in WalletHistoryType
         /\ walletHistory'.fees = fees /\ walletHistory'.credits = credits
         /\ walletHistory'.overlap = overlap /\ walletHistory'.stale = stale
         /\ walletHistory'.beyond = beyond
  BY DEF WalletHistoryType


WalletTypesStay ==
  /\ balance' \in Int /\ period' \in Periods /\ tenant' \in TenantStatus
  /\ invoices' \in [Periods -> {"NONE", "DUE", "PAID"}]
  /\ credited' \subseteq TopUps

LEMMA WalletTypesBack ==
  ASSUME WalletTypesStay, tasks' \in [Tasks -> TaskType],
         walletHistory' \in WalletHistoryType
  PROVE  WalletTyped'
  BY DEF WalletTypesStay, WalletTyped

LEMMA WalletTypesKept ==
  ASSUME WalletTyped
  PROVE  /\ UNCHANGED accountVars => balance' \in Int /\ balance' = balance
         /\ UNCHANGED billingVars =>
              /\ period' \in Periods /\ tenant' \in TenantStatus
              /\ invoices' \in [Periods -> {"NONE", "DUE", "PAID"}]
              /\ invoices' = invoices
         /\ UNCHANGED topUpVars =>
              credited' \subseteq TopUps /\ credited' = credited
         /\ UNCHANGED walletHistory =>
              /\ walletHistory' \in WalletHistoryType
              /\ walletHistory'.fees = walletHistory.fees
              /\ walletHistory'.credits = walletHistory.credits
              /\ walletHistory'.overlap = walletHistory.overlap
              /\ walletHistory'.stale = walletHistory.stale
              /\ walletHistory'.beyond = walletHistory.beyond
         /\ UNCHANGED tasks => tasks' \in [Tasks -> TaskType]
  BY DEF WalletTyped, accountVars, billingVars, topUpVars

\* A step that changes the history in these parts.
Recalls(fees, credits, faults, overlap, stale, beyond, overwrote, lost,
        crashed) ==
  walletHistory' = [first |-> walletHistory.first, fees |-> fees,
                    credits |-> credits, faults |-> faults,
                    overlap |-> overlap, stale |-> stale,
                    beyond |-> beyond, overwrote |-> overwrote,
                    lost |-> lost, crashed |-> crashed]

LEMMA RecallsFacts ==
  ASSUME WalletTyped, NEW fees \in [Periods -> Nat],
         NEW credits \in [TopUps -> Nat], NEW faults \in Nat,
         NEW overlap \in BOOLEAN, NEW stale \in BOOLEAN, NEW beyond \in BOOLEAN,
         NEW overwrote \in BOOLEAN, NEW lost \in Int, NEW crashed \in BOOLEAN,
         Recalls(fees, credits, faults, overlap, stale, beyond, overwrote,
                 lost, crashed)
  PROVE  /\ walletHistory' \in WalletHistoryType
         /\ walletHistory'.fees = fees /\ walletHistory'.credits = credits
         /\ walletHistory'.overlap = overlap /\ walletHistory'.stale = stale
         /\ walletHistory'.beyond = beyond
  BY WalletParts DEF Recalls, WalletHistoryType

\* A step that only counts a fault, an overwritten balance or lost money.
Counts(faults, overwrote, lost, crashed) ==
  Recalls(walletHistory.fees, walletHistory.credits, faults,
          walletHistory.overlap, walletHistory.stale, walletHistory.beyond,
          overwrote, lost, crashed)
HistoryFits == /\ walletHistory' \in WalletHistoryType
               /\ walletHistory'.fees = walletHistory.fees
               /\ walletHistory'.credits = walletHistory.credits
               /\ walletHistory'.overlap = walletHistory.overlap
               /\ walletHistory'.stale = walletHistory.stale
               /\ walletHistory'.beyond = walletHistory.beyond

LEMMA CountsFacts ==
  ASSUME WalletTyped, NEW faults \in Nat, NEW overwrote \in BOOLEAN,
         NEW lost \in Int, NEW crashed \in BOOLEAN,
         Counts(faults, overwrote, lost, crashed)
  PROVE  HistoryFits
  <1> DEFINE h == walletHistory
  <1>1. Recalls(h.fees, h.credits, faults, h.overlap, h.stale, h.beyond,
                overwrote, lost, crashed)
    BY DEF Counts
  <1>2. /\ walletHistory' \in WalletHistoryType
        /\ walletHistory'.fees = h.fees /\ walletHistory'.credits = h.credits
        /\ walletHistory'.overlap = h.overlap
        /\ walletHistory'.stale = h.stale
        /\ walletHistory'.beyond = h.beyond
    BY <1>1, WalletParts, RecallsFacts
  <1> QED
    BY <1>2 DEF HistoryFits

LEMMA LoseFacts ==
  ASSUME WalletTyped, NEW cents \in Int, Lose(cents)
  PROVE  HistoryFits
  <1>1. Counts(walletHistory.faults + 1, walletHistory.overwrote,
               walletHistory.lost + cents, walletHistory.crashed)
    BY DEF Lose, Counts, Recalls, WalletTyped, WalletHistoryType
  <1>2. walletHistory.faults + 1 \in Nat /\ walletHistory.lost + cents \in Int
    BY WalletParts
  <1> QED
    BY <1>1, <1>2, WalletParts, CountsFacts

\* What a step that leaves the fees and credits alone has to show.
LEMMA QuietStep ==
  ASSUME WalletTyped, balance' \in Int, UNCHANGED billingVars,
         UNCHANGED credited, HistoryFits,
         NEW t \in Tasks, tasks' \in [Tasks -> TaskType], OtherTasks(t),
         \/ tasks'[t].pc \in NotBilling \ {"check", "credit"}
         \/ /\ tasks'[t].pc \in {"check", "credit"}
            /\ tasks'[t].topUp \in TopUps
         \/ /\ tasks[t].pc \in BillingSteps /\ tasks'[t].pc \in BillingSteps
            /\ tasks'[t].pc # "pay" /\ tasks'[t].period = tasks[t].period
  PROVE  WalletTyped' /\ WalletQuiet
  <1>1. WalletTyped'
    BY WalletTypesKept, WalletTypesBack
       DEF WalletTypesStay, HistoryFits, WalletTyped
  <1>2. FeesKept /\ CreditsKept /\ OverlapKept
    BY DEF FeesKept, CreditsKept, OverlapKept, HistoryFits, billingVars
  <1> QED
    BY <1>1, <1>2 DEF WalletQuiet

LEMMA SameHistory ==
  ASSUME WalletTyped, UNCHANGED walletHistory
  PROVE  HistoryFits
  BY DEF WalletTyped, HistoryFits

LEMMA SameBalance ==
  ASSUME WalletTyped, UNCHANGED accountVars
  PROVE  balance' \in Int
  BY DEF WalletTyped, accountVars

LEMMA ReadTenantEffect ==
  ASSUME WalletTyped, NEW b \in Billings, ReadTenant(b)
  PROVE  WalletTyped' /\ Begins(b)
  <1> DEFINE h == walletHistory
             o == h.overlap \/ \E c \in Billings \ {b} : UnderWay(c)
             new == [IdleTask EXCEPT !.pc = "invoice", !.seen = balance,
                                     !.status = tenant, !.period = period]
  <1>0. b \in Tasks /\ period \in 0..MaxPeriod
    BY TaskNames, WalletAssumption DEF WalletTyped, Periods
  <1>a. [IdleTask EXCEPT !.pc = "invoice"]
          = [pc |-> "invoice", seen |-> 0, status |-> "ACTIVE", period |-> 0,
             topUp |-> NoTopUp]
    BY DEF IdleTask
  <1>b. [[pc |-> "invoice", seen |-> 0, status |-> "ACTIVE", period |-> 0,
          topUp |-> NoTopUp] EXCEPT !.seen = balance]
          = [pc |-> "invoice", seen |-> balance, status |-> "ACTIVE",
             period |-> 0, topUp |-> NoTopUp]
    OBVIOUS
  <1>c. [[pc |-> "invoice", seen |-> balance, status |-> "ACTIVE",
          period |-> 0, topUp |-> NoTopUp] EXCEPT !.status = tenant]
          = [pc |-> "invoice", seen |-> balance, status |-> tenant,
             period |-> 0, topUp |-> NoTopUp]
    OBVIOUS
  <1>d. [[pc |-> "invoice", seen |-> balance, status |-> tenant,
          period |-> 0, topUp |-> NoTopUp] EXCEPT !.period = period]
          = [pc |-> "invoice", seen |-> balance, status |-> tenant,
             period |-> period, topUp |-> NoTopUp]
    OBVIOUS
  <1>1. new = [pc |-> "invoice", seen |-> balance, status |-> tenant,
               period |-> period, topUp |-> NoTopUp]
    BY <1>a, <1>b, <1>c, <1>d
  <1>2. new \in TaskType /\ new.pc = "invoice" /\ new.period = period
    BY <1>0, <1>1 DEF TaskType, TaskSteps, WalletTyped
  <1>3. tasks' = [tasks EXCEPT ![b] = new]
    BY DEF ReadTenant
  <1> HIDE DEF new
  <1>4. /\ tasks' \in [Tasks -> TaskType] /\ Began(b, "invoice")
        /\ tasks'[b].period = period
    BY <1>0, <1>2, <1>3 DEF WalletTyped, Began, OtherTasks
  <1>5. Recalls(h.fees, h.credits, h.faults, o, h.stale, h.beyond,
                h.overwrote, h.lost, h.crashed)
    BY DEF ReadTenant, Recalls, WalletTyped, WalletHistoryType
  <1>6. o \in BOOLEAN
    BY WalletParts
  <1>7. o = (walletHistory.overlap \/ \E c \in Billings \ {b} : UnderWay(c))
    OBVIOUS
  <1> HIDE DEF o
  <1>8. /\ walletHistory' \in WalletHistoryType
        /\ walletHistory'.fees = h.fees /\ walletHistory'.credits = h.credits
        /\ walletHistory'.overlap = o /\ walletHistory'.stale = h.stale
        /\ walletHistory'.beyond = h.beyond
    BY <1>5, <1>6, WalletParts, RecallsFacts
  <1>9. WalletTypesStay /\ invoices' = invoices /\ credited' = credited
    BY WalletTypesKept DEF ReadTenant, WalletTypesStay
  <1>10. WalletTyped'
    BY <1>4, <1>8, <1>9, WalletTypesBack
  <1>11. FeesKept /\ CreditsKept
    BY <1>8, <1>9 DEF FeesKept, CreditsKept
  <1> QED
    BY <1>4, <1>7, <1>8, <1>10, <1>11 DEF Begins

LEMMA ReadInvoiceEffect ==
  ASSUME WalletTyped, NEW b \in Billings, ReadInvoice(b)
  PROVE  WalletTyped' /\ (WillPay(b) \/ WalletQuiet)
  <1>0. b \in Tasks /\ tasks[b].pc = "invoice"
    BY TaskNames DEF ReadInvoice, TaskAt
  <1>1. /\ UNCHANGED billingVars /\ UNCHANGED credited /\ balance' \in Int
        /\ HistoryFits
    BY SameHistory, SameBalance DEF ReadInvoice, topUpVars
  <1>2. PICK step \in {"over", "pay", "due"} :
          /\ TaskTo(b, step)
          /\ step = "pay" => invoices[tasks[b].period] # "PAID" /\ CanPay(b)
    BY DEF ReadInvoice
  <1>3. tasks' \in [Tasks -> TaskType] /\ GoesOn(b, step)
    BY <1>0, <1>2, TaskToFacts DEF TaskSteps
  <1>4. CASE step \in {"over", "due"}
    BY <1>0, <1>1, <1>3, <1>4, QuietStep DEF GoesOn, NotBilling, BillingSteps
  <1>5. CASE step = "pay"
    <2>1. WalletTyped'
      BY <1>1, <1>3, WalletTypesKept, WalletTypesBack
         DEF WalletTypesStay, HistoryFits, WalletTyped
    <2>2. FeesKept /\ CreditsKept /\ OverlapKept
      BY <1>1 DEF FeesKept, CreditsKept, OverlapKept, HistoryFits, billingVars
    <2> QED
      BY <1>0, <1>2, <1>3, <1>5, <2>1, <2>2 DEF WillPay
  <1> QED
    BY <1>4, <1>5

LEMMA PayInvoiceEffect ==
  ASSUME WalletTyped, NEW b \in Billings, BillingFits(b), PayInvoice(b)
  PROVE  WalletTyped' /\ HasPaid(b)
  <1> DEFINE h == walletHistory
             p == tasks[b].period
             fees == [h.fees EXCEPT ![p] = @ + 1]
             stale == h.stale \/ balance # tasks[b].seen
             beyond == h.beyond \/ balance - Fee < -CreditLimit
  <1>0. b \in Tasks /\ tasks[b].pc = "pay" /\ p \in Periods
    BY TaskNames DEF PayInvoice, TaskAt, BillingFits, BillingSteps
  <1>1. tasks' \in [Tasks -> TaskType] /\ GoesOn(b, "over")
    BY <1>0, TaskToFacts DEF PayInvoice, TaskSteps
  <1>2. Recalls(fees, h.credits, h.faults, h.overlap, stale, beyond,
                h.overwrote, h.lost, h.crashed)
    BY DEF PayInvoice, Recalls, WalletTyped, WalletHistoryType
  <1>3. /\ fees \in [Periods -> Nat] /\ stale \in BOOLEAN
        /\ beyond \in BOOLEAN
    BY <1>0, WalletParts
  <1>4. /\ fees = [walletHistory.fees EXCEPT ![tasks[b].period] = @ + 1]
        /\ stale = (walletHistory.stale \/ balance # tasks[b].seen)
        /\ beyond = (walletHistory.beyond \/ balance - Fee < -CreditLimit)
    OBVIOUS
  <1> HIDE DEF fees, stale, beyond
  <1>5. /\ walletHistory' \in WalletHistoryType
        /\ walletHistory'.fees = fees /\ walletHistory'.credits = h.credits
        /\ walletHistory'.overlap = h.overlap /\ walletHistory'.stale = stale
        /\ walletHistory'.beyond = beyond
    BY <1>2, <1>3, WalletParts, RecallsFacts
  <1>6. /\ balance' \in Int /\ period' \in Periods /\ tenant' \in TenantStatus
        /\ invoices' = [invoices EXCEPT ![p] = "PAID"]
        /\ credited' = credited /\ credited' \subseteq TopUps
    BY WalletAssumption
       DEF PayInvoice, GiveBack, WalletTyped, topUpVars
  <1>7. invoices' \in [Periods -> {"NONE", "DUE", "PAID"}]
    BY <1>6 DEF WalletTyped
  <1>8. WalletTyped'
    BY <1>1, <1>5, <1>6, <1>7, WalletTypesBack DEF WalletTypesStay
  <1> QED
    BY <1>0, <1>1, <1>4, <1>5, <1>6, <1>8
       DEF HasPaid, CreditsKept, OverlapKept

LEMMA OweInvoiceEffect ==
  ASSUME WalletTyped, NEW b \in Billings, OweInvoice(b)
  PROVE  WalletTyped' /\ Owes(b)
  <1>0. b \in Tasks /\ tasks[b].pc = "due"
    BY TaskNames DEF OweInvoice, TaskAt
  <1>1. PICK step \in {"overdue", "over"} : TaskTo(b, step)
    BY DEF OweInvoice
  <1>2. tasks' \in [Tasks -> TaskType] /\ GoesOn(b, step)
    BY <1>0, <1>1, TaskToFacts DEF TaskSteps
  <1>3. /\ balance' \in Int /\ period' \in Periods /\ tenant' \in TenantStatus
        /\ invoices' = [invoices EXCEPT ![tasks[b].period] =
                          IF @ = "NONE" THEN "DUE" ELSE @]
        /\ credited' = credited /\ credited' \subseteq TopUps
        /\ HistoryFits
    BY SameHistory, SameBalance DEF OweInvoice, WalletTyped, topUpVars
  <1>4. invoices' \in [Periods -> {"NONE", "DUE", "PAID"}]
    BY <1>3 DEF WalletTyped
  <1>5. WalletTyped'
    BY <1>2, <1>3, <1>4, WalletTypesBack DEF WalletTypesStay, HistoryFits
  <1> QED
    BY <1>0, <1>2, <1>3, <1>5
       DEF Owes, CreditsKept, OverlapKept, HistoryFits

LEMMA OverdueEffect ==
  ASSUME WalletTyped, NEW b \in Billings, CountOverdue(b) \/ SuspendDebtor(b)
  PROVE  WalletTyped' /\ WalletQuiet
  <1>0. b \in Tasks
    BY TaskNames
  <1>1. CASE CountOverdue(b)
    <2>1. PICK step \in {"suspend", "over"} : TaskTo(b, step)
      BY <1>1 DEF CountOverdue
    <2>2. tasks' \in [Tasks -> TaskType] /\ GoesOn(b, step)
      BY <1>0, <2>1, TaskToFacts DEF TaskSteps
    <2>3. /\ UNCHANGED billingVars /\ UNCHANGED credited /\ balance' \in Int
          /\ HistoryFits /\ tasks[b].pc = "overdue"
      BY <1>1, SameHistory, SameBalance DEF CountOverdue, topUpVars, TaskAt
    <2> QED
      BY <1>0, <2>1, <2>2, <2>3, QuietStep DEF GoesOn, NotBilling, BillingSteps
  <1>2. CASE SuspendDebtor(b)
    <2>1. tasks' \in [Tasks -> TaskType] /\ GoesOn(b, "over")
      BY <1>0, <1>2, TaskToFacts DEF TaskSteps, SuspendDebtor
    <2>2. /\ balance' \in Int /\ period' \in Periods /\ tenant' \in TenantStatus
          /\ invoices' = invoices /\ credited' = credited
          /\ HistoryFits
      BY <1>2, SameHistory, SameBalance
         DEF SuspendDebtor, WalletTyped, topUpVars, TenantStatus
    <2>3. WalletTyped'
      BY <2>1, <2>2, WalletTypesBack
         DEF WalletTypesStay, HistoryFits, WalletTyped
    <2>4. FeesKept /\ CreditsKept /\ OverlapKept
      BY <2>2 DEF FeesKept, CreditsKept, OverlapKept, HistoryFits
    <2> QED
      BY <1>0, <2>1, <2>3, <2>4 DEF WalletQuiet, GoesOn, NotBilling
  <1> QED
    BY <1>1, <1>2

\* A step of no handler.
LEMMA IdleStep ==
  ASSUME WalletTyped, UNCHANGED tasks, balance' \in Int, HistoryFits,
         UNCHANGED invoices, UNCHANGED credited, period' \in Periods,
         tenant' \in TenantStatus
  PROVE  WalletTyped' /\ WalletQuiet
  BY DEF WalletTyped, WalletQuiet, FeesKept, CreditsKept, OverlapKept,
         HistoryFits

LEMMA WorldEffect ==
  ASSUME WalletTyped,
         \/ NextMonth \/ SetTenantStatus \/ PauseCampaign
         \/ \E t \in TopUps : AskTopUp(t) \/ PayTopUp(t)
  PROVE  WalletTyped' /\ WalletQuiet
  <1>0. period \in Periods /\ tenant \in TenantStatus
    BY DEF WalletTyped
  <1>1. CASE NextMonth
    <2>1. period' \in Periods
      BY <1>0, <1>1, WalletAssumption DEF NextMonth, Periods
    <2> QED
      BY <1>0, <1>1, <2>1, IdleStep, SameHistory, SameBalance
         DEF NextMonth, topUpVars
  <1>2. CASE SetTenantStatus
    <2>1. tenant' \in TenantStatus
      BY <1>2 DEF SetTenantStatus, TenantStatus
    <2> QED
      BY <1>0, <1>2, <2>1, IdleStep, SameHistory, SameBalance
         DEF SetTenantStatus, topUpVars
  <1>3. CASE PauseCampaign
    BY <1>0, <1>3, IdleStep, SameHistory, SameBalance
       DEF PauseCampaign, billingVars
  <1>4. ASSUME NEW t \in TopUps, AskTopUp(t)
        PROVE  WalletTyped' /\ WalletQuiet
    <2>1. CASE UNCHANGED walletHistory
      BY <1>0, <1>4, <2>1, IdleStep, SameHistory, SameBalance
         DEF AskTopUp, billingVars
    <2>2. CASE walletHistory' = [walletHistory EXCEPT !.faults = @ + 1]
      <3>1. Counts(walletHistory.faults + 1, walletHistory.overwrote,
                   walletHistory.lost, walletHistory.crashed)
        BY <2>2 DEF Counts, Recalls, WalletTyped, WalletHistoryType
      <3>2. walletHistory.faults + 1 \in Nat
        BY WalletParts
      <3>3. HistoryFits
        BY <3>1, <3>2, WalletParts, CountsFacts
      <3> QED
        BY <1>0, <1>4, <3>3, IdleStep, SameBalance DEF AskTopUp, billingVars
    <2> QED
      BY <1>4, <2>1, <2>2 DEF AskTopUp
  <1>5. ASSUME NEW t \in TopUps, PayTopUp(t)
        PROVE  WalletTyped' /\ WalletQuiet
    BY <1>0, <1>5, IdleStep, SameHistory, SameBalance
       DEF PayTopUp, billingVars
  <1> QED
    BY <1>1, <1>2, <1>3, <1>4, <1>5

LEMMA ReceiveNoticeEffect ==
  ASSUME WalletTyped, NEW n \in Notices, NEW t \in TopUps, ReceiveNotice(n, t)
  PROVE  WalletTyped' /\ WalletQuiet
  <1>0. n \in Tasks
    BY TaskNames
  <1>1. /\ UNCHANGED billingVars /\ UNCHANGED credited /\ balance' \in Int
        /\ HistoryFits
    BY SameHistory, SameBalance DEF ReceiveNotice, topUpVars
  <1>2. CASE tasks' = [tasks EXCEPT ![n] = [IdleTask EXCEPT !.pc = "check",
                                                            !.topUp = t]]
    <2> DEFINE new == [IdleTask EXCEPT !.pc = "check", !.topUp = t]
    <2>a. [IdleTask EXCEPT !.pc = "check"]
            = [pc |-> "check", seen |-> 0, status |-> "ACTIVE", period |-> 0,
               topUp |-> NoTopUp]
      BY DEF IdleTask
    <2>b. [[pc |-> "check", seen |-> 0, status |-> "ACTIVE", period |-> 0,
            topUp |-> NoTopUp] EXCEPT !.topUp = t]
            = [pc |-> "check", seen |-> 0, status |-> "ACTIVE", period |-> 0,
               topUp |-> t]
      OBVIOUS
    <2>1. new = [pc |-> "check", seen |-> 0, status |-> "ACTIVE", period |-> 0,
                 topUp |-> t]
      BY <2>a, <2>b
    <2>2. new \in TaskType /\ new.pc = "check" /\ new.topUp = t
      <3>1. /\ "check" \in TaskSteps /\ "ACTIVE" \in TenantStatus
            /\ 0 \in 0..MaxPeriod
        BY WalletAssumption DEF TaskSteps, TenantStatus
      <3>2. [pc |-> "check", seen |-> 0, status |-> "ACTIVE", period |-> 0,
             topUp |-> t] \in TaskType
        BY <3>1 DEF TaskType
      <3> QED
        BY <2>1, <3>2
    <2>c. tasks' = [tasks EXCEPT ![n] = new]
      BY <1>2
    <2> HIDE DEF new
    <2>3. /\ tasks' \in [Tasks -> TaskType] /\ OtherTasks(n)
          /\ tasks'[n].pc = "check" /\ tasks'[n].topUp \in TopUps
      BY <1>0, <2>2, <2>c DEF WalletTyped, OtherTasks
    <2> QED
      BY <1>0, <1>1, <2>3, QuietStep
  <1>3. CASE TaskTo(n, "over")
    <2>1. tasks' \in [Tasks -> TaskType] /\ GoesOn(n, "over")
      BY <1>0, <1>3, TaskToFacts DEF TaskSteps
    <2> QED
      BY <1>0, <1>1, <2>1, QuietStep DEF GoesOn, NotBilling
  <1> QED
    BY <1>2, <1>3 DEF ReceiveNotice

LEMMA NoticeEffect ==
  ASSUME WalletTyped, NEW n \in Notices, NoticeFits(n),
         CheckNotice(n) \/ ResumeCampaigns(n) \/ ForgetReference(n)
  PROVE  WalletTyped' /\ WalletQuiet
  <1>0. n \in Tasks
    BY TaskNames
  <1>1. /\ UNCHANGED billingVars /\ UNCHANGED credited /\ balance' \in Int
        /\ HistoryFits
    BY SameHistory, SameBalance
       DEF CheckNotice, ResumeCampaigns, ForgetReference, topUpVars
  <1>2. PICK step \in {"over", "credit", "forget"} :
          /\ TaskTo(n, step)
          /\ step = "credit" => tasks[n].pc = "check"
    BY DEF CheckNotice, ResumeCampaigns, ForgetReference, TaskAt
  <1>3. tasks' \in [Tasks -> TaskType] /\ GoesOn(n, step)
    BY <1>0, <1>2, TaskToFacts DEF TaskSteps
  <1>4. step = "credit" => tasks'[n].topUp \in TopUps
    BY <1>2, <1>3 DEF GoesOn, NoticeFits
  <1> QED
    BY <1>0, <1>1, <1>3, <1>4, QuietStep DEF GoesOn, NotBilling

LEMMA CreditTopUpEffect ==
  ASSUME WalletTyped, NEW n \in Notices, NoticeFits(n), CreditTopUp(n)
  PROVE  WalletTyped' /\ (Credits(n) \/ WalletQuiet)
  <1> DEFINE h == walletHistory
             t == tasks[n].topUp
             credits == [h.credits EXCEPT ![t] = @ + 1]
  <1>0. n \in Tasks /\ tasks[n].pc = "credit" /\ t \in TopUps
    BY TaskNames DEF CreditTopUp, TaskAt, NoticeFits
  <1>1. CASE t \in credited
    <2>1. /\ UNCHANGED billingVars /\ UNCHANGED credited /\ balance' \in Int
          /\ HistoryFits /\ TaskTo(n, "over")
      BY <1>1, SameHistory, SameBalance DEF CreditTopUp
    <2>2. tasks' \in [Tasks -> TaskType] /\ GoesOn(n, "over")
      BY <1>0, <2>1, TaskToFacts DEF TaskSteps
    <2> QED
      BY <1>0, <2>1, <2>2, QuietStep DEF GoesOn, NotBilling
  <1>2. CASE t \notin credited
    <2>1. /\ UNCHANGED billingVars /\ credited' = credited \cup {t}
          /\ GiveBack(Amount) /\ TaskTo(n, "resume")
          /\ walletHistory' = [walletHistory EXCEPT !.credits[t] = @ + 1]
      BY <1>2 DEF CreditTopUp
    <2>2. tasks' \in [Tasks -> TaskType] /\ GoesOn(n, "resume")
      BY <1>0, <2>1, TaskToFacts DEF TaskSteps
    <2>3. balance' \in Int
      BY <2>1, WalletAssumption DEF GiveBack, WalletTyped
    <2>4. Recalls(h.fees, credits, h.faults, h.overlap, h.stale, h.beyond,
                  h.overwrote, h.lost, h.crashed)
      BY <2>1 DEF Recalls, WalletTyped, WalletHistoryType
    <2>5. /\ credits \in [TopUps -> Nat]
          /\ credits = [walletHistory.credits EXCEPT ![tasks[n].topUp] = @ + 1]
      BY <1>0, WalletParts
    <2> HIDE DEF credits
    <2>6. /\ walletHistory' \in WalletHistoryType
          /\ walletHistory'.fees = h.fees /\ walletHistory'.credits = credits
          /\ walletHistory'.overlap = h.overlap
          /\ walletHistory'.stale = h.stale
          /\ walletHistory'.beyond = h.beyond
      BY <2>4, <2>5, WalletParts, RecallsFacts
    <2>7. WalletTyped'
      BY <1>0, <2>1, <2>2, <2>3, <2>6 DEF WalletTyped, billingVars
    <2>8. FeesKept /\ OverlapKept
      BY <2>1, <2>6 DEF FeesKept, OverlapKept, billingVars
    <2> QED
      BY <1>0, <1>2, <2>1, <2>2, <2>5, <2>6, <2>7, <2>8 DEF Credits
  <1> QED
    BY <1>1, <1>2

LEMMA CorrectionEffect ==
  ASSUME WalletTyped, NEW c \in Corrections, ReadBalance(c) \/ WriteBalance(c)
  PROVE  WalletTyped' /\ WalletQuiet
  <1>0. c \in Tasks
    BY TaskNames
  <1>1. CASE ReadBalance(c)
    <2> DEFINE new == [IdleTask EXCEPT !.pc = "write", !.seen = balance]
    <2>a. [IdleTask EXCEPT !.pc = "write"]
            = [pc |-> "write", seen |-> 0, status |-> "ACTIVE", period |-> 0,
               topUp |-> NoTopUp]
      BY DEF IdleTask
    <2>b. [[pc |-> "write", seen |-> 0, status |-> "ACTIVE", period |-> 0,
            topUp |-> NoTopUp] EXCEPT !.seen = balance]
            = [pc |-> "write", seen |-> balance, status |-> "ACTIVE",
               period |-> 0, topUp |-> NoTopUp]
      OBVIOUS
    <2>1. new = [pc |-> "write", seen |-> balance, status |-> "ACTIVE",
                 period |-> 0, topUp |-> NoTopUp]
      BY <2>a, <2>b
    <2>2. new \in TaskType /\ new.pc = "write"
      <3>1. /\ "write" \in TaskSteps /\ "ACTIVE" \in TenantStatus
            /\ 0 \in 0..MaxPeriod /\ balance \in Int
        BY WalletAssumption DEF TaskSteps, TenantStatus, WalletTyped
      <3>2. [pc |-> "write", seen |-> balance, status |-> "ACTIVE",
             period |-> 0, topUp |-> NoTopUp] \in TaskType
        BY <3>1 DEF TaskType
      <3> QED
        BY <2>1, <3>2
    <2>c. tasks' = [tasks EXCEPT ![c] = new]
      BY <1>1 DEF ReadBalance
    <2> HIDE DEF new
    <2>3. /\ tasks' \in [Tasks -> TaskType] /\ OtherTasks(c)
          /\ tasks'[c].pc = "write"
      BY <1>0, <2>2, <2>c DEF WalletTyped, OtherTasks
    <2>4. /\ UNCHANGED billingVars /\ UNCHANGED credited /\ balance' \in Int
          /\ HistoryFits
      BY <1>1, SameHistory, SameBalance DEF ReadBalance, topUpVars
    <2> QED
      BY <1>0, <2>3, <2>4, QuietStep DEF NotBilling
  <1>2. CASE WriteBalance(c)
    <2> DEFINE o == walletHistory.overwrote \/ balance # tasks[c].seen
    <2>1. /\ UNCHANGED billingVars /\ UNCHANGED credited
          /\ TaskTo(c, "over")
          /\ walletHistory' = [walletHistory EXCEPT !.overwrote = o]
          /\ \E cents \in {-Amount, Amount} : balance' = tasks[c].seen + cents
      BY <1>2 DEF WriteBalance, topUpVars
    <2>2. tasks' \in [Tasks -> TaskType] /\ GoesOn(c, "over")
      BY <1>0, <2>1, TaskToFacts DEF TaskSteps
    <2>3. balance' \in Int
      BY <1>0, <2>1, TaskParts, WalletAssumption
    <2>4. Counts(walletHistory.faults, o, walletHistory.lost,
                 walletHistory.crashed)
      BY <2>1 DEF Counts, Recalls, WalletTyped, WalletHistoryType
    <2>5. o \in BOOLEAN
      BY WalletParts
    <2> HIDE DEF o
    <2>6. HistoryFits
      BY <2>4, <2>5, WalletParts, CountsFacts
    <2> QED
      BY <1>0, <2>1, <2>2, <2>3, <2>6, QuietStep DEF GoesOn, NotBilling
  <1> QED
    BY <1>1, <1>2

LEMMA ReserveOtpEffect ==
  ASSUME WalletTyped, NEW o \in Otps, ReserveOtp(o)
  PROVE  WalletTyped' /\ WalletQuiet
  <1>0. o \in Tasks
    BY TaskNames
  <1>1. /\ UNCHANGED billingVars /\ UNCHANGED credited
        /\ HistoryFits
    BY SameHistory DEF ReserveOtp, topUpVars
  <1>2. balance' \in Int
    BY WalletAssumption DEF ReserveOtp, Reserve, AfterReserve, WalletTyped
  <1>3. CASE tasks' = [tasks EXCEPT ![o].pc = "telephony"]
    <2>1. PICK new \in TaskType :
            new = [tasks[o] EXCEPT !.pc = "telephony"] /\ new.pc = "telephony"
      BY <1>0, NewStep DEF TaskSteps
    <2>2. tasks' = [tasks EXCEPT ![o] = new]
      BY <1>0, <1>3, <2>1 DEF WalletTyped
    <2>3. /\ tasks' \in [Tasks -> TaskType] /\ OtherTasks(o)
          /\ tasks'[o].pc = "telephony"
      BY <1>0, <2>1, <2>2 DEF WalletTyped, OtherTasks
    <2> QED
      BY <1>0, <1>1, <1>2, <2>3, QuietStep DEF NotBilling
  <1>4. CASE TaskTo(o, "over")
    <2>1. tasks' \in [Tasks -> TaskType] /\ GoesOn(o, "over")
      BY <1>0, <1>4, TaskToFacts DEF TaskSteps
    <2> QED
      BY <1>0, <1>1, <1>2, <2>1, QuietStep DEF GoesOn, NotBilling
  <1> QED
    BY <1>3, <1>4 DEF ReserveOtp

LEMMA OtpEffect ==
  ASSUME WalletTyped, NEW o \in Otps,
         GetOtpTelephony(o) \/ PlayOtp(o) \/ RecordOtp(o) \/ RefundOtp(o)
  PROVE  WalletTyped' /\ WalletQuiet
  <1>0. o \in Tasks /\ OtpCost \in Int /\ 0 \in Int
    BY TaskNames, WalletAssumption
  <1>1. UNCHANGED billingVars /\ UNCHANGED credited
    BY DEF GetOtpTelephony, PlayOtp, RecordOtp, RefundOtp, topUpVars
  <1>2. balance' \in Int
    BY <1>0 DEF GetOtpTelephony, PlayOtp, RecordOtp, RefundOtp, WalletTyped,
                accountVars, GiveBack
  <1>3. UNCHANGED walletHistory \/ Lose(OtpCost) \/ Lose(0)
    BY DEF GetOtpTelephony, PlayOtp, RecordOtp, RefundOtp
  <1>4. HistoryFits
    BY <1>0, <1>3, SameHistory, LoseFacts
  <1>5. PICK step \in {"play", "over", "record", "refund"} : TaskTo(o, step)
    BY DEF GetOtpTelephony, PlayOtp, RecordOtp, RefundOtp
  <1>6. tasks' \in [Tasks -> TaskType] /\ GoesOn(o, step)
    BY <1>0, <1>5, TaskToFacts DEF TaskSteps
  <1> QED
    BY <1>0, <1>1, <1>2, <1>4, <1>6, QuietStep DEF GoesOn, NotBilling

LEMMA CrashWalletEffect ==
  ASSUME WalletTyped, CrashWallet
  PROVE  WalletTyped' /\ WalletQuiet
  <1> DEFINE lost == walletHistory.lost + OtpCost * Cardinality(Holding)
  <1>1. Counts(walletHistory.faults + 1, walletHistory.overwrote, lost, TRUE)
    BY DEF CrashWallet, Counts, Recalls, WalletTyped, WalletHistoryType
  <1>2. walletHistory.faults + 1 \in Nat /\ lost \in Int
    <2>1. IsFiniteSet(Holding)
      BY WalletAssumption, FS_Subset DEF Holding
    <2>2. Cardinality(Holding) \in Nat
      BY <2>1, FS_CardinalityType
    <2> QED
      BY <2>2, WalletParts, WalletAssumption
  <1> HIDE DEF lost
  <1>3. HistoryFits
    BY <1>1, <1>2, WalletParts, CountsFacts
  <1>4. PICK off \in TaskType :
          off = [IdleTask EXCEPT !.pc = "over"] /\ off.pc = "over"
    BY OverTaskFits
  <1>5. tasks' = [t \in Tasks |-> IF TaskAt(t, "idle") THEN IdleTask ELSE off]
    BY <1>4 DEF CrashWallet
  <1>6. /\ tasks' \in [Tasks -> TaskType]
        /\ \A t \in Tasks : tasks'[t].pc \in {"idle", "over"}
    BY <1>4, <1>5, TaskNames
  <1>7. WalletTypesStay /\ FeesKept /\ CreditsKept /\ OverlapKept
    BY <1>3, WalletTypesKept
       DEF CrashWallet, WalletTypesStay, FeesKept, CreditsKept, OverlapKept,
           HistoryFits
  <1> QED
    BY <1>3, <1>6, <1>7, WalletTypesBack DEF WalletQuiet, HistoryFits

LEMMA SplitWalletNext ==
  ASSUME WalletTyped, \A t \in Tasks : BillingFits(t) /\ NoticeFits(t),
         WalletNext
  PROVE  WalletTyped' /\ WalletEffect
  <1>0. /\ \A b \in Billings : BillingFits(b)
        /\ \A n \in Notices : NoticeFits(n)
    BY TaskNames
  <1>1. ASSUME NEW b \in Billings,
               \/ ReadTenant(b) \/ ReadInvoice(b) \/ PayInvoice(b)
               \/ OweInvoice(b) \/ CountOverdue(b) \/ SuspendDebtor(b)
        PROVE  WalletTyped' /\ WalletEffect
    <2>1. \/ WalletTyped' /\ (Begins(b) \/ WillPay(b) \/ HasPaid(b) \/ Owes(b))
          \/ WalletTyped' /\ WalletQuiet
      BY <1>0, <1>1, ReadTenantEffect, ReadInvoiceEffect, PayInvoiceEffect,
         OweInvoiceEffect, OverdueEffect
    <2> QED
      BY <2>1 DEF WalletEffect
  <1>2. ASSUME NEW n \in Notices,
               \/ \E t \in TopUps : ReceiveNotice(n, t)
               \/ CheckNotice(n) \/ CreditTopUp(n) \/ ResumeCampaigns(n)
               \/ ForgetReference(n)
        PROVE  WalletTyped' /\ WalletEffect
    <2>1. \/ WalletTyped' /\ Credits(n)
          \/ WalletTyped' /\ WalletQuiet
      BY <1>0, <1>2, ReceiveNoticeEffect, NoticeEffect, CreditTopUpEffect
    <2> QED
      BY <2>1 DEF WalletEffect
  <1>3. CASE \E c \in Corrections : ReadBalance(c) \/ WriteBalance(c)
    BY <1>3, CorrectionEffect DEF WalletEffect
  <1>4. CASE \E o \in Otps : \/ ReserveOtp(o) \/ GetOtpTelephony(o)
                             \/ PlayOtp(o) \/ RecordOtp(o) \/ RefundOtp(o)
    BY <1>4, ReserveOtpEffect, OtpEffect DEF WalletEffect
  <1>5. CASE \/ NextMonth \/ SetTenantStatus \/ PauseCampaign
             \/ \E t \in TopUps : AskTopUp(t) \/ PayTopUp(t)
    BY <1>5, WorldEffect DEF WalletEffect
  <1>6. CASE CrashWallet
    BY <1>6, CrashWalletEffect DEF WalletEffect
  <1> QED
    BY <1>1, <1>2, <1>3, <1>4, <1>5, <1>6 DEF WalletNext

-----------------------------------------------------------------------------
(* The invariant of Wallet.                                                *)

LEMMA FeesHold ==
  ASSUME WalletInv, NEW b \in Billings, HasPaid(b)
  PROVE  InvoicesFit' /\ (walletHistory'.beyond => walletHistory'.stale)
  <1> DEFINE p == tasks[b].period
  <1>0. /\ WalletTyped /\ InvoicesFit /\ BillingFits(b) /\ b \in Tasks
        /\ walletHistory.beyond => walletHistory.stale
    BY TaskNames DEF WalletInv
  <1>1. /\ p \in Periods /\ CanPay(b)
        /\ walletHistory.overlap \/ invoices[p] # "PAID"
    BY <1>0 DEF HasPaid, BillingFits, BillingSteps
  <1>2. \A q \in Periods :
          /\ invoices'[q] = IF q = p THEN "PAID" ELSE invoices[q]
          /\ walletHistory'.fees[q] = IF q = p THEN walletHistory.fees[q] + 1
                                      ELSE walletHistory.fees[q]
          /\ walletHistory.fees[q] \in Nat
    BY <1>0, <1>1, WalletParts DEF HasPaid, WalletTyped
  <1>3. walletHistory'.overlap = walletHistory.overlap
    BY DEF HasPaid, OverlapKept
  <1>4. InvoicesFit'
    BY <1>0, <1>1, <1>2, <1>3 DEF InvoicesFit
  <1>5. ASSUME balance = tasks[b].seen
        PROVE  ~(balance - Fee < -CreditLimit)
    BY <1>0, <1>1, <1>5, TaskParts, WalletAssumption, AccountAssumption
       DEF CanPay
  <1> QED
    BY <1>0, <1>4, <1>5 DEF HasPaid

LEMMA WalletInvHolds ==
  ASSUME WalletInv, WalletTyped', WalletEffect
  PROVE  WalletInv'
  <1>0. /\ WalletTyped /\ InvoicesFit /\ BillingsFit /\ CreditsFit
        /\ \A t \in Tasks : BillingFits(t) /\ NoticeFits(t)
        /\ walletHistory.beyond => walletHistory.stale
    BY DEF WalletInv
  <1>a. FeesKept /\ (walletHistory.overlap => walletHistory'.overlap) =>
          InvoicesFit' /\ (walletHistory'.beyond => walletHistory'.stale)
    BY <1>0 DEF FeesKept, InvoicesFit
  <1>b. CreditsKept => CreditsFit'
    BY <1>0 DEF CreditsKept, CreditsFit
  \* The handlers that do not move.
  <1>c. ASSUME NEW t \in Tasks, tasks'[t] = tasks[t], invoices' = invoices,
               walletHistory.overlap => walletHistory'.overlap
        PROVE  BillingFits(t)' /\ NoticeFits(t)'
    BY <1>0, <1>c DEF BillingFits, NoticeFits, CanPay
  \* One handler moves, and the invoices stay.
  <1>d. ASSUME NEW t \in Tasks, OtherTasks(t), invoices' = invoices,
               walletHistory.overlap => walletHistory'.overlap,
               BillingFits(t)', NoticeFits(t)',
               tasks'[t].pc \in BillingSteps => tasks[t].pc \in BillingSteps
        PROVE  /\ \A u \in Tasks : BillingFits(u)' /\ NoticeFits(u)'
               /\ BillingsFit'
    <2>1. \A u \in Tasks : BillingFits(u)' /\ NoticeFits(u)'
      BY <1>c, <1>d DEF OtherTasks
    <2>2. \A u \in Tasks : tasks'[u].pc \in BillingSteps =>
                             tasks[u].pc \in BillingSteps
      BY <1>d DEF OtherTasks
    <2> QED
      BY <1>0, <1>d, <2>1, <2>2 DEF BillingsFit
  <1>1. CASE WalletQuiet
    <2>1. InvoicesFit' /\ CreditsFit' /\ invoices' = invoices
          /\ (walletHistory'.beyond => walletHistory'.stale)
          /\ (walletHistory.overlap => walletHistory'.overlap)
      BY <1>1, <1>a, <1>b DEF WalletQuiet, OverlapKept, FeesKept
    <2>2. CASE tasks' = tasks
      <3>1. \A u \in Tasks : BillingFits(u)' /\ NoticeFits(u)'
        BY <1>c, <2>1, <2>2
      <3>2. BillingsFit'
        BY <1>0, <2>1, <2>2 DEF BillingsFit
      <3> QED
        BY <2>1, <3>1, <3>2 DEF WalletInv
    <2>3. CASE \A t \in Tasks : tasks'[t].pc \in {"idle", "over"}
      <3>1. /\ \A u \in Tasks : BillingFits(u)' /\ NoticeFits(u)'
            /\ BillingsFit'
        BY <2>3 DEF BillingFits, NoticeFits, BillingsFit, BillingSteps
      <3> QED
        BY <2>1, <3>1 DEF WalletInv
    <2>4. ASSUME NEW t \in Tasks, OtherTasks(t),
                 \/ tasks'[t].pc \in NotBilling \ {"check", "credit"}
                 \/ /\ tasks'[t].pc \in {"check", "credit"}
                    /\ tasks'[t].topUp \in TopUps
                 \/ /\ tasks[t].pc \in BillingSteps
                    /\ tasks'[t].pc \in BillingSteps
                    /\ tasks'[t].pc # "pay"
                    /\ tasks'[t].period = tasks[t].period
          PROVE  WalletInv'
      <3>1. /\ BillingFits(t)' /\ NoticeFits(t)'
            /\ tasks'[t].pc \in BillingSteps => tasks[t].pc \in BillingSteps
        BY <1>0, <2>4 DEF BillingFits, NoticeFits, NotBilling, BillingSteps
      <3> QED
        BY <1>d, <2>1, <2>4, <3>1 DEF WalletInv
    <2> QED
      BY <1>1, <2>2, <2>3, <2>4 DEF WalletQuiet
  <1>2. ASSUME NEW b \in Billings, Begins(b)
        PROVE  WalletInv'
    <2>0. /\ b \in Tasks /\ OtherTasks(b) /\ tasks'[b].pc = "invoice"
          /\ tasks'[b].period = period /\ period \in Periods
          /\ invoices' = invoices
          /\ walletHistory.overlap => walletHistory'.overlap
      BY <1>0, <1>2, TaskNames DEF Begins, Began, FeesKept, WalletTyped
    <2>1. BillingFits(b)' /\ NoticeFits(b)'
      BY <2>0 DEF BillingFits, NoticeFits
    <2>2. \A u \in Tasks : BillingFits(u)' /\ NoticeFits(u)'
      BY <1>c, <2>0, <2>1 DEF OtherTasks
    <2>3. BillingsFit'
      <3>1. ASSUME NEW u \in Tasks, u # b, tasks'[u].pc \in BillingSteps
            PROVE  walletHistory'.overlap
        <4>1. tasks[u].pc \in BillingSteps
          BY <2>0, <3>1 DEF OtherTasks
        <4>2. u \in Billings \ {b} /\ UnderWay(u)
          BY <1>0, <3>1, <4>1 DEF BillingFits, BillingSteps, UnderWay
        <4> QED
          BY <1>2, <4>2 DEF Begins
      <3>2. ASSUME NEW u \in Tasks, NEW v \in Tasks, u # b, v # b,
                   tasks'[u].pc \in BillingSteps,
                   tasks'[v].pc \in BillingSteps
            PROVE  u = v \/ walletHistory'.overlap
        BY <3>1, <3>2
      <3> QED
        BY <3>1, <3>2 DEF BillingsFit
    <2> QED
      BY <1>2, <1>a, <1>b, <2>0, <2>2, <2>3 DEF Begins, WalletInv
  <1>3. ASSUME NEW b \in Billings, WillPay(b)
        PROVE  WalletInv'
    <2>0. /\ b \in Tasks /\ OtherTasks(b) /\ tasks'[b].pc = "pay"
          /\ tasks'[b].period = tasks[b].period
          /\ tasks'[b].seen = tasks[b].seen /\ CanPay(b)
          /\ invoices' = invoices /\ tasks[b].pc \in BillingSteps
          /\ invoices[tasks[b].period] # "PAID"
          /\ walletHistory.overlap => walletHistory'.overlap
      BY <1>3, TaskNames
         DEF WillPay, GoesOn, FeesKept, OverlapKept, BillingSteps
    <2>1. BillingFits(b)' /\ NoticeFits(b)'
      BY <1>0, <2>0 DEF BillingFits, NoticeFits, CanPay
    <2> QED
      BY <1>3, <1>a, <1>b, <1>d, <2>0, <2>1 DEF WillPay, WalletInv
  <1>4. ASSUME NEW b \in Billings, HasPaid(b)
        PROVE  WalletInv'
    <2>0. /\ b \in Tasks /\ OtherTasks(b) /\ tasks'[b].pc = "over"
          /\ tasks[b].pc = "pay" /\ tasks[b].pc \in BillingSteps
          /\ walletHistory'.overlap = walletHistory.overlap
          /\ invoices' = [invoices EXCEPT ![tasks[b].period] = "PAID"]
      BY <1>4, TaskNames DEF HasPaid, GoesOn, OverlapKept, BillingSteps
    <2>1. \A u \in Tasks : u # b => tasks'[u] = tasks[u]
      BY <2>0 DEF OtherTasks
    <2>2. ASSUME NEW u \in Tasks
          PROVE  BillingFits(u)' /\ NoticeFits(u)'
      <3>1. CASE u = b
        BY <2>0, <3>1 DEF BillingFits, NoticeFits, BillingSteps
      <3>2. CASE u # b
        <4>1. tasks[u].pc = "pay" => walletHistory.overlap
          BY <1>0, <2>0, <3>2 DEF BillingsFit, BillingSteps
        <4> QED
          BY <1>0, <2>0, <2>1, <3>2, <4>1 DEF BillingFits, NoticeFits, CanPay
      <3> QED
        BY <3>1, <3>2
    <2>3. BillingsFit'
      BY <1>0, <2>0, <2>1 DEF BillingsFit
    <2>4. CreditsFit'
      BY <1>4, <1>b DEF HasPaid
    <2> QED
      BY <1>4, <2>2, <2>3, <2>4, FeesHold DEF WalletInv
  <1>5. ASSUME NEW b \in Billings, Owes(b)
        PROVE  WalletInv'
    <2>0. /\ b \in Tasks /\ OtherTasks(b)
          /\ tasks'[b].pc \in {"overdue", "over"}
          /\ tasks[b].pc = "due" /\ tasks[b].pc \in BillingSteps
          /\ tasks'[b].pc # "over" => tasks'[b].period = tasks[b].period
          /\ walletHistory'.overlap = walletHistory.overlap
          /\ walletHistory'.fees = walletHistory.fees
          /\ walletHistory'.beyond = walletHistory.beyond
          /\ walletHistory'.stale = walletHistory.stale
      BY <1>5, TaskNames DEF Owes, GoesOn, OverlapKept, BillingSteps
    <2>1. \A q \in Periods : invoices'[q] = "PAID" <=> invoices[q] = "PAID"
      BY <1>0, <1>5 DEF Owes, WalletTyped
    <2>2. InvoicesFit' /\ CreditsFit'
      BY <1>0, <1>5, <1>b, <2>0, <2>1 DEF InvoicesFit, Owes
    <2>3. ASSUME NEW u \in Tasks
          PROVE  BillingFits(u)' /\ NoticeFits(u)'
      <3>1. CASE u = b
        BY <1>0, <2>0, <3>1 DEF BillingFits, NoticeFits, BillingSteps
      <3>2. CASE u # b
        BY <1>0, <2>0, <2>1, <3>2
           DEF OtherTasks, BillingFits, NoticeFits, CanPay, BillingSteps
      <3> QED
        BY <3>1, <3>2
    <2>4. BillingsFit'
      <3>1. \A u \in Tasks : tasks'[u].pc \in BillingSteps =>
                               tasks[u].pc \in BillingSteps
        BY <2>0 DEF OtherTasks
      <3> QED
        BY <1>0, <2>0, <3>1 DEF BillingsFit
    <2> QED
      BY <1>0, <2>0, <2>2, <2>3, <2>4 DEF WalletInv
  <1>6. ASSUME NEW n \in Notices, Credits(n)
        PROVE  WalletInv'
    <2>0. /\ n \in Tasks /\ OtherTasks(n) /\ tasks'[n].pc = "resume"
          /\ invoices' = invoices /\ tasks[n].topUp \in TopUps
          /\ walletHistory.overlap => walletHistory'.overlap
      BY <1>0, <1>6, TaskNames
         DEF Credits, GoesOn, FeesKept, OverlapKept, NoticeFits
    <2>1. /\ BillingFits(n)' /\ NoticeFits(n)'
          /\ tasks'[n].pc \notin BillingSteps
      BY <2>0 DEF BillingFits, NoticeFits, BillingSteps
    <2>2. CreditsFit'
      <3>1. /\ tasks[n].topUp \notin credited
            /\ credited' = credited \cup {tasks[n].topUp}
            /\ walletHistory'.credits
                 = [walletHistory.credits EXCEPT ![tasks[n].topUp] = @ + 1]
        BY <1>6 DEF Credits
      <3>2. walletHistory.credits[tasks[n].topUp] = 0
        BY <1>0, <2>0, <3>1 DEF CreditsFit
      <3> QED
        BY <1>0, <2>0, <3>1, <3>2, WalletParts DEF CreditsFit
    <2> QED
      BY <1>6, <1>a, <1>d, <2>0, <2>1, <2>2 DEF Credits, WalletInv
  <1> QED
    BY <1>1, <1>2, <1>3, <1>4, <1>5, <1>6 DEF WalletEffect

walletSpecVars == <<accountVars, walletVars>>

LEMMA WalletInvInit ==
  ASSUME AccountInit, WalletInit
  PROVE  WalletInv
  <1>1. /\ IdleTask \in TaskType /\ IdleTask.pc = "idle"
        /\ tasks = [t \in Tasks |-> IdleTask] /\ balance \in Int
        /\ credited = {} /\ invoices = [p \in Periods |-> "NONE"]
        /\ period \in Periods /\ tenant \in TenantStatus
    BY TaskNames, WalletAssumption, AccountAssumption
       DEF WalletInit, AccountInit, Periods, TenantStatus
  <1>2. /\ walletHistory \in WalletHistoryType
        /\ walletHistory.fees = [p \in Periods |-> 0]
        /\ walletHistory.credits = [t \in TopUps |-> 0]
        /\ walletHistory.beyond = FALSE
    BY <1>1 DEF WalletInit, WalletHistoryType
  <1>3. WalletTyped
    BY <1>1, <1>2 DEF WalletTyped
  <1>4. \A b \in Tasks : BillingFits(b) /\ NoticeFits(b)
    BY <1>1 DEF BillingFits, NoticeFits, BillingSteps
  <1>5. BillingsFit /\ InvoicesFit /\ CreditsFit
    BY <1>1, <1>2 DEF BillingsFit, InvoicesFit, CreditsFit, BillingSteps
  <1> QED
    BY <1>2, <1>3, <1>4, <1>5 DEF WalletInv

LEMMA WalletInvStutters ==
  ASSUME WalletInv, UNCHANGED walletSpecVars
  PROVE  WalletInv'
  BY DEF walletSpecVars, walletVars, billingVars, topUpVars, accountVars,
         WalletInv, WalletTyped, BillingFits, NoticeFits, BillingsFit,
         InvoicesFit, CreditsFit, CanPay

\* Whatever is billed, paid, notified or corrected: the fee of a month is
\* taken twice only by runs that overlap, takes the balance beyond the limit
\* only when it changed in between, and a top-up is credited once.
THEOREM NothingTakenTwice == WalletSpec => []NothingIsTakenTwice
  <1>1. AccountInit /\ WalletInit => WalletInv
    BY WalletInvInit
  <1>2. WalletInv /\ [WalletNext]_walletSpecVars => WalletInv'
    <2>1. ASSUME WalletInv, WalletNext
          PROVE  WalletInv'
      <3>1. WalletTyped' /\ WalletEffect
        BY <2>1, SplitWalletNext DEF WalletInv
      <3> QED
        BY <2>1, <3>1, WalletInvHolds
    <2> QED
      BY <2>1, WalletInvStutters
  <1>3. WalletInv => NothingIsTakenTwice
    BY DEF WalletInv, NothingIsTakenTwice, InvoicesFit, CreditsFit
  <1> QED
    BY <1>1, <1>2, <1>3, PTL DEF WalletSpec, walletSpecVars

-----------------------------------------------------------------------------
(* Sums over the messages.  A sum is a function of the subsets that adds   *)
(* the weight of a member; there is one for every finite set, for else a   *)
(* smallest set without one would have a subset without one.               *)

\* A set of numbers has a least.
LEMMA LeastNumber ==
  ASSUME NEW T, T \subseteq Nat, T # {}
  PROVE  \E n \in T : \A m \in T : n <= m
  <1>1. PICK x \in T : \A y \in T : ~ (<<y, x>> \in OpToRel(<, Nat))
    BY NatLessThanWellFounded, WFMin, Zenon
  <1>2. \A y \in T : ~ (y < x)
    BY <1>1 DEF OpToRel
  <1>3. QED
    BY <1>2

\* G adds up the weights w of the members of a subset of R.
Additive(G, w, R) ==
  /\ G \in [SUBSET R -> Int] /\ G[{}] = 0
  /\ \A s \in SUBSET R : \A x \in s : G[s] = w[x] + G[s \ {x}]

\* One more element.
LEMMA OneMore ==
  ASSUME NEW S, NEW w \in [S -> Int], NEW R \in SUBSET S, NEW y \in S,
         y \notin R, NEW G, Additive(G, w, R)
  PROVE  \E H : Additive(H, w, R \cup {y})
  <1> DEFINE H == [s \in SUBSET (R \cup {y}) |->
                     IF y \in s THEN w[y] + G[s \ {y}] ELSE G[s]]
  <1>0. /\ G \in [SUBSET R -> Int] /\ G[{}] = 0
        /\ \A s \in SUBSET R : \A x \in s : G[s] = w[x] + G[s \ {x}]
    BY DEF Additive
  <1>1. H \in [SUBSET (R \cup {y}) -> Int] /\ H[{}] = 0
    <2>1. ASSUME NEW s \in SUBSET (R \cup {y})
          PROVE  (IF y \in s THEN w[y] + G[s \ {y}] ELSE G[s]) \in Int
      <3>1. s \ {y} \in SUBSET R /\ (y \notin s => s \in SUBSET R)
        OBVIOUS
      <3> QED
        BY <1>0, <3>1
    <2> QED
      BY <1>0, <2>1
  <1>2. ASSUME NEW s \in SUBSET (R \cup {y}), NEW x \in s
        PROVE  H[s] = w[x] + H[s \ {x}]
    <2>0. s \ {x} \in SUBSET (R \cup {y})
      OBVIOUS
    <2>1. CASE x = y
      BY <2>0, <2>1
    <2>2. CASE x # y /\ y \in s
      <3>1. /\ s \ {y} \in SUBSET R /\ x \in s \ {y}
            /\ (s \ {y}) \ {x} = (s \ {x}) \ {y}
            /\ (s \ {x}) \ {y} \in SUBSET R
        BY <2>2
      <3>2. H[s] = w[y] + G[s \ {y}]
        BY <2>2
      <3>3. H[s \ {x}] = w[y] + G[(s \ {x}) \ {y}]
        BY <2>0, <2>2
      <3>a. G[s \ {y}] = w[x] + G[(s \ {y}) \ {x}]
        BY <1>0, <3>1
      <3>4. G[s \ {y}] = w[x] + G[(s \ {x}) \ {y}]
        BY <3>a, <3>1
      <3>5. G[(s \ {x}) \ {y}] \in Int /\ w[x] \in Int /\ w[y] \in Int
        BY <1>0, <3>1, <2>2
      <3> HIDE DEF H
      <3> QED
        BY <3>2, <3>3, <3>4, <3>5
    <2>3. CASE y \notin s
      BY <1>0, <2>0, <2>3
    <2> QED
      BY <2>1, <2>2, <2>3
  <1> HIDE DEF H
  <1> QED
    BY <1>1, <1>2 DEF Additive

\* Every finite set has a sum.
LEMMA SumExists ==
  ASSUME NEW S, IsFiniteSet(S), NEW w \in [S -> Int]
  PROVE  \E G : Additive(G, w, S)
  <1> DEFINE Bad(n) == \E R \in SUBSET S : /\ Cardinality(R) = n
                                          /\ ~\E G : Additive(G, w, R)
             T == {n \in Nat : Bad(n)}
  <1>1. SUFFICES ASSUME T # {} PROVE FALSE
    <2>1. Cardinality(S) \in Nat
      BY FS_CardinalityType
    <2> QED
      BY <1>1, <2>1
  <1>2. PICK n \in T : \A k \in T : n <= k
    BY <1>1, LeastNumber
  <1>3. PICK R \in SUBSET S : Cardinality(R) = n /\ ~\E G : Additive(G, w, R)
    BY <1>2
  <1>4. IsFiniteSet(R)
    BY FS_Subset
  <1>5. R # {}
    <2>1. SUFFICES ASSUME R = {} PROVE FALSE
      OBVIOUS
    <2>2. Additive([s \in SUBSET {} |-> 0], w, {})
      BY DEF Additive
    <2> QED
      BY <1>3, <2>1, <2>2
  <1>6. PICK y \in R : TRUE
    BY <1>5
  <1>7. /\ IsFiniteSet(R \ {y}) /\ Cardinality(R \ {y}) = n - 1
        /\ Cardinality(R \ {y}) \in Nat
    BY <1>3, <1>4, FS_RemoveElement, FS_CardinalityType
  <1>8. \E G : Additive(G, w, R \ {y})
    <2>1. CASE Cardinality(R \ {y}) \in T
      BY <1>2, <1>7, <2>1
    <2>2. CASE Cardinality(R \ {y}) \notin T
      BY <1>7, <2>2
    <2> QED
      BY <2>1, <2>2
  <1>9. PICK G : Additive(G, w, R \ {y})
    BY <1>8
  <1>10. R \ {y} \in SUBSET S /\ y \notin R \ {y} /\ (R \ {y}) \cup {y} = R
         /\ y \in S
    OBVIOUS
  <1>11. \E H : Additive(H, w, (R \ {y}) \cup {y})
    BY <1>9, <1>10, OneMore
  <1> QED
    BY <1>3, <1>10, <1>11

-----------------------------------------------------------------------------
(* What the messages hold of the balance.                                  *)

\* There are finitely many messages.
LEMMA MessagesAreFinite == IsFiniteSet(Messages)
  BY SmsAssumption, FS_Union DEF Messages

\* SmsHeld as a function of the two counts it adds up, and the function that
\* the fold of the library walks through.
Held(taken, rows) ==
  MapThenSumSet(LAMBDA m : taken[m] - Cost * rows[m], Messages)
\* SmsHeld is that sum over the books of Sms, before and after a step.
LEMMA HeldNow ==
  /\ SmsHeld = Held(smsHistory.taken, smsHistory.ledger)
  /\ SmsHeld' = Held(smsHistory'.taken, smsHistory'.ledger)
  BY Zenon DEF SmsHeld, Held, MapThenSumSet, MapThenFoldSet

First(s) == CHOOSE x \in s : TRUE
WalkStep(F, taken, rows, s) ==
  IF s = {} THEN 0
  ELSE (taken[First(s)] - Cost * rows[First(s)]) + F[s \ {First(s)}]
Walk(taken, rows) ==
  CHOOSE F : F = [s \in SUBSET Messages |-> WalkStep(F, taken, rows, s)]
\* What the fold of the library computes is a walk.
LEMMA HeldIsWalked ==
  ASSUME NEW taken, NEW rows
  PROVE  Held(taken, rows) = Walk(taken, rows)[Messages]
  BY Zenon DEF Held, MapThenSumSet, MapThenFoldSet, Walk, First, WalkStep

\* The walk computes what any additive function does.
LEMMA HeldIsSum ==
  ASSUME NEW taken, NEW rows, NEW w, NEW G,
         Additive(G, w, Messages),
         \A m \in Messages : w[m] = taken[m] - Cost * rows[m]
  PROVE  Held(taken, rows) = G[Messages]
  <1> DEFINE F == Walk(taken, rows)
  <1>0. /\ G \in [SUBSET Messages -> Int] /\ G[{}] = 0
        /\ \A s \in SUBSET Messages : \A x \in s : G[s] = w[x] + G[s \ {x}]
    BY DEF Additive
  <1>a. \A s \in SUBSET Messages : s # {} => First(s) \in s
    BY DEF First
  <1>1. \A s \in SUBSET Messages : G[s] = WalkStep(G, taken, rows, s)
    BY <1>0, <1>a DEF WalkStep
  <1>2. G = [s \in SUBSET Messages |-> WalkStep(G, taken, rows, s)]
    BY <1>0, <1>1
  <1>3. F = [s \in SUBSET Messages |-> WalkStep(F, taken, rows, s)]
    BY <1>2, Zenon DEF Walk
  <1> HIDE DEF F
  <1>4. \A s \in SUBSET Messages : F[s] = WalkStep(F, taken, rows, s)
    BY <1>3, Zenon
  <1> DEFINE Bad(n) == \E s \in SUBSET Messages :
                         Cardinality(s) = n /\ F[s] # G[s]
             T == {n \in Nat : Bad(n)}
  <1>5. SUFFICES ASSUME T # {} PROVE FALSE
    <2>1. Cardinality(Messages) \in Nat
      BY FS_CardinalityType, MessagesAreFinite
    <2>2. F[Messages] = G[Messages]
      BY <1>5, <2>1
    <2> QED
      BY <2>2, HeldIsWalked DEF F
  <1>6. PICK n \in T : \A k \in T : n <= k
    BY <1>5, LeastNumber
  <1>7. PICK s \in SUBSET Messages : Cardinality(s) = n /\ F[s] # G[s]
    BY <1>6
  <1>8. s # {}
    BY <1>0, <1>4, <1>7 DEF WalkStep
  <1>9. First(s) \in s
    BY <1>a, <1>8
  <1> DEFINE r == s \ {First(s)}
  <1>10. IsFiniteSet(s)
    BY FS_Subset, MessagesAreFinite
  <1>11. /\ r \in SUBSET Messages /\ Cardinality(r) = n - 1
         /\ Cardinality(r) \in Nat
    BY <1>7, <1>9, <1>10, FS_RemoveElement, FS_CardinalityType, FS_Subset
  <1> HIDE DEF r
  <1>12. F[r] = G[r]
    <2>1. CASE Cardinality(r) \in T
      BY <1>6, <1>11, <2>1
    <2>2. CASE Cardinality(r) \notin T
      BY <1>11, <2>2
    <2> QED
      BY <2>1, <2>2
  <1>13. F[s] = (taken[First(s)] - Cost * rows[First(s)]) + F[r]
    BY <1>4, <1>8 DEF WalkStep, r
  <1>14. G[s] = w[First(s)] + G[r]
    BY <1>0, <1>9 DEF r
  <1> QED
    BY <1>7, <1>9, <1>12, <1>13, <1>14

\* What is held changes by what one message changes.
LEMMA HeldChanges ==
  ASSUME NEW taken, NEW rows, NEW taken2, NEW rows2,
         NEW m \in Messages,
         \A n \in Messages : taken[n] - Cost * rows[n] \in Int,
         \A n \in Messages \ {m} :
           taken2[n] - Cost * rows2[n] = taken[n] - Cost * rows[n],
         taken2[m] - Cost * rows2[m] \in Int
  PROVE  Held(taken2, rows2)
           = Held(taken, rows) + ((taken2[m] - Cost * rows2[m])
                                    - (taken[m] - Cost * rows[m]))
  <1> DEFINE d == (taken2[m] - Cost * rows2[m]) - (taken[m] - Cost * rows[m])
             w == [n \in Messages |-> taken[n] - Cost * rows[n]]
             v == [n \in Messages |-> taken2[n] - Cost * rows2[n]]
  <1>0. /\ w \in [Messages -> Int] /\ d \in Int
        /\ v[m] = w[m] + d /\ \A n \in Messages : n # m => v[n] = w[n]
        /\ \A n \in Messages : w[n] = taken[n] - Cost * rows[n]
        /\ \A n \in Messages : v[n] = taken2[n] - Cost * rows2[n]
    OBVIOUS
  <1>d. d = (taken2[m] - Cost * rows2[m]) - (taken[m] - Cost * rows[m])
    OBVIOUS
  <1> HIDE DEF w, v, d
  <1>1. PICK G : Additive(G, w, Messages)
    BY <1>0, SumExists, MessagesAreFinite
  <1>2. /\ G \in [SUBSET Messages -> Int] /\ G[{}] = 0
        /\ \A s \in SUBSET Messages : \A x \in s : G[s] = w[x] + G[s \ {x}]
    BY <1>1 DEF Additive
  <1> DEFINE H == [s \in SUBSET Messages |-> IF m \in s THEN G[s] + d ELSE G[s]]
  <1>3. Additive(H, v, Messages)
    <2>1. H \in [SUBSET Messages -> Int] /\ H[{}] = 0
      BY <1>0, <1>2
    <2>2. ASSUME NEW s \in SUBSET Messages, NEW x \in s
          PROVE  H[s] = v[x] + H[s \ {x}]
      <3>1. /\ s \ {x} \in SUBSET Messages /\ G[s] = w[x] + G[s \ {x}]
            /\ G[s \ {x}] \in Int /\ w[x] \in Int /\ G[s] \in Int
        BY <1>0, <1>2
      <3>2. CASE x = m
        BY <1>0, <3>1, <3>2
      <3>3. CASE x # m /\ m \in s
        <4>1. H[s] = G[s] + d /\ H[s \ {x}] = G[s \ {x}] + d /\ v[x] = w[x]
          BY <1>0, <3>1, <3>3
        <4> HIDE DEF H
        <4> QED
          BY <1>0, <3>1, <4>1
      <3>4. CASE m \notin s
        BY <1>0, <3>1, <3>4
      <3> QED
        BY <3>2, <3>3, <3>4
    <2> HIDE DEF H
    <2> QED
      BY <2>1, <2>2 DEF Additive
  <1>4. H[Messages] = G[Messages] + d
    BY <1>2
  <1> HIDE DEF H
  <1>5. Held(taken, rows) = G[Messages]
    BY <1>0, <1>1, HeldIsSum
  <1>6. Held(taken2, rows2) = H[Messages]
    BY <1>0, <1>3, HeldIsSum
  <1> QED
    BY <1>d, <1>4, <1>5, <1>6

\* A sum of integers is one.
LEMMA HeldType ==
  ASSUME NEW taken, NEW rows,
         \A n \in Messages : taken[n] - Cost * rows[n] \in Int
  PROVE  Held(taken, rows) \in Int
  <1> DEFINE w == [n \in Messages |-> taken[n] - Cost * rows[n]]
  <1>0. /\ w \in [Messages -> Int]
        /\ \A n \in Messages : w[n] = taken[n] - Cost * rows[n]
    OBVIOUS
  <1> HIDE DEF w
  <1>1. PICK G : Additive(G, w, Messages)
    BY <1>0, SumExists, MessagesAreFinite
  <1>2. Held(taken, rows) = G[Messages]
    BY <1>0, <1>1, HeldIsSum
  <1> QED
    BY <1>1, <1>2 DEF Additive

\* A sum of zeroes is zero.
LEMMA NothingHeld ==
  ASSUME NEW taken, NEW rows,
         \A n \in Messages : taken[n] - Cost * rows[n] = 0
  PROVE  Held(taken, rows) = 0
  <1> DEFINE G == [s \in SUBSET Messages |-> 0]
             w == [n \in Messages |-> 0]
  <1>1. Additive(G, w, Messages)
    BY DEF Additive
  <1>2. G[Messages] = 0 /\ \A n \in Messages : w[n] = taken[n] - Cost * rows[n]
    OBVIOUS
  <1> HIDE DEF G, w
  <1> QED
    BY <1>1, <1>2, HeldIsSum

-----------------------------------------------------------------------------
(* How often the money of a message is taken.                              *)

\* A sender that may still take the money of a message.
AbleTo(s, m) ==
  \/ s = m /\ senders[s].pc = "idle"
  \/ /\ s \in Starts /\ m \in Bulk
     /\ senders[s].pc \in {"idle", "starting", "list"}
  \/ s \in Starts /\ m \in senders[s].todo
  \/ HasAt(s, m, {"reserve"})
Able(m) == {s \in Senders : AbleTo(s, m)}

\* A message was paid for a whole number of times, at least once for each row
\* and each sender that holds its money, at most once for each that no longer
\* can.
TallyFits(m) ==
  \E n \in Nat :
    /\ smsHistory.taken[m] = Cost * n
    /\ smsHistory.ledger[m] + Cardinality(Paying(m)) <= n
    /\ n + Cardinality(Able(m)) <= Cardinality(Senders)

\* The senders that may still take money are finitely many.
LEMMA AbleCount ==
  ASSUME NEW m
  PROVE  /\ IsFiniteSet(Able(m)) /\ Cardinality(Able(m)) \in Nat
         /\ Cardinality(Able(m)) <= Cardinality(Senders)
         /\ Cardinality(Senders) \in Nat
  <1>1. Able(m) \subseteq Senders
    BY DEF Able
  <1> QED
    BY <1>1, SendersAreFinite, FS_Subset, FS_CardinalityType

\* Nobody becomes able; who takes the money no longer is.
LEMMA AbleShrinks ==
  ASSUME NEW m, Able(m)' \subseteq Able(m)
  PROVE  /\ Cardinality(Able(m)') \in Nat
         /\ Cardinality(Able(m)') <= Cardinality(Able(m))
         /\ \A s \in Able(m) : s \notin Able(m)' =>
              Cardinality(Able(m)') <= Cardinality(Able(m)) - 1
  <1>1. IsFiniteSet(Able(m)) /\ Cardinality(Able(m)) \in Nat
    BY AbleCount
  <1>2. /\ IsFiniteSet(Able(m)') /\ Cardinality(Able(m)') \in Nat
        /\ Cardinality(Able(m)') <= Cardinality(Able(m))
    BY <1>1, FS_Subset, FS_CardinalityType
  <1>3. ASSUME NEW s \in Able(m), s \notin Able(m)'
        PROVE  Cardinality(Able(m)') <= Cardinality(Able(m)) - 1
    <2>1. /\ IsFiniteSet(Able(m) \ {s})
          /\ Cardinality(Able(m) \ {s}) = Cardinality(Able(m)) - 1
      BY <1>1, FS_RemoveElement
    <2>2. Able(m)' \subseteq Able(m) \ {s}
      BY <1>3
    <2> QED
      BY <2>1, <2>2, FS_Subset
  <1> QED
    BY <1>2, <1>3

\* A sender that stops being able is one less of them.
LEMMA AbleMoves ==
  ASSUME SmsTyped, SmsTyped', NEW s \in Senders, SenderFits(s), SenderMoves(s),
         NEW m \in Messages
  PROVE  Able(m)' \subseteq Able(m)
  <1>1. \A q \in Senders : q # s => (AbleTo(q, m)' <=> AbleTo(q, m))
    BY SenderMovesFacts, OthersStay DEF AbleTo, HasAt
  <1>2. AbleTo(s, m)' => AbleTo(s, m)
    <2>0. /\ senders'[s].todo \subseteq Bulk /\ Singles \cap Starts = {}
          /\ Singles \cap Bulk = {}
      BY SmsAssumption DEF SmsTyped, SenderType
    <2>1. CASE Wanders(s)
      <3>1. CASE s \in Singles
        BY <2>0, <2>1, <3>1 DEF Wanders, AbleTo, HasAt, SenderFits
      <3>2. CASE s \in Starts
        BY <2>0, <2>1, <3>2 DEF Wanders, AbleTo, HasAt, Messages
      <3> QED
        BY <3>1, <3>2 DEF Senders
    <2>2. CASE IsTaken(s) \/ IsRefused(s) \/ IsLost(s)
      BY <2>2 DEF IsTaken, IsRefused, IsLost, MovesTo, TodoKept, AbleTo, HasAt
    <2>3. CASE \E step \in SenderSteps :
                 Fails(s, step) \/ IsWritten(s, step) \/ Breaks(s, step)
      BY <2>3 DEF Fails, IsWritten, Breaks, MovesTo, TodoKept, AbleTo, HasAt
    <2>4. CASE s \in Singles /\ (Orders(s) \/ Creates(s))
      BY <2>0, <2>4 DEF Orders, Creates, MovesTo, TodoKept, AbleTo, HasAt
    <2>5. CASE s \in Starts /\ Pays(s)
      BY <2>5 DEF Pays, MovesTo, TodoKept, AbleTo, HasAt
    <2>6. CASE s \in Starts /\ \E n \in Bulk : Picks(s, n)
      BY <2>6 DEF Picks, MovesTo, AbleTo, HasAt, Msg
    <2> QED
      BY <2>1, <2>2, <2>3, <2>4, <2>5, <2>6 DEF SenderMoves
  <1> QED
    BY <1>1, <1>2 DEF Able

\* Who takes the money was able to and is not any more.
LEMMA TakerIsDone ==
  ASSUME SmsTyped, NEW s \in Senders, SenderFits(s), NEW m \in Messages,
         \/ s \in Singles /\ Orders(s) /\ m = s
         \/ s \in Starts /\ Pays(s) /\ m = Msg(s)
  PROVE  s \in Able(m) /\ s \notin Able(m)'
  <1>0. Singles \cap Starts = {}
    BY SmsAssumption
  <1>1. CASE s \in Singles /\ Orders(s) /\ m = s
    BY <1>0, <1>1 DEF Orders, MovesTo, Able, AbleTo, HasAt
  <1>2. CASE s \in Starts /\ Pays(s) /\ m = Msg(s)
    <2>1. m \notin senders[s].todo
      BY <1>2 DEF Pays, SenderFits
    <2> QED
      BY <1>2, <2>1 DEF Pays, MovesTo, TodoKept, Able, AbleTo, HasAt
  <1> QED
    BY <1>1, <1>2

\* The tally moves by d, the rows by l, the holders by p, the able by a.
LEMMA TallyMoves ==
  ASSUME SmsTyped, NEW m \in Messages, TallyFits(m),
         NEW d \in {-1, 0, 1}, NEW l \in {0, 1}, NEW p \in {-1, 0, 1},
         l + p <= d,
         smsHistory'.taken[m] = smsHistory.taken[m] + Cost * d,
         smsHistory'.ledger[m] = smsHistory.ledger[m] + l,
         Cardinality(Paying(m)') = Cardinality(Paying(m)) + p,
         Cardinality(Able(m)') \in Nat,
         Cardinality(Able(m)') + d <= Cardinality(Able(m))
  PROVE  TallyFits(m)'
  <1>1. PICK n \in Nat :
          /\ smsHistory.taken[m] = Cost * n
          /\ smsHistory.ledger[m] + Cardinality(Paying(m)) <= n
          /\ n + Cardinality(Able(m)) <= Cardinality(Senders)
    BY DEF TallyFits
  <1>2. /\ smsHistory.ledger[m] \in Nat /\ Cardinality(Paying(m)) \in Nat
        /\ smsHistory.ledger[m] + l \in Nat
        /\ Cardinality(Able(m)) \in Nat /\ Cardinality(Senders) \in Nat
        /\ Cardinality(Paying(m)') \in Nat
    <2>1. /\ smsHistory.ledger[m] \in Nat /\ Cardinality(Paying(m)) \in Nat
          /\ Cardinality(Able(m)) \in Nat /\ Cardinality(Senders) \in Nat
      BY HistoryParts, ThoseCount, AbleCount DEF Paying
    <2>2. Cardinality(Paying(m)') \in Nat
      <3>1. Paying(m)' \subseteq Senders
        BY DEF Paying, Those
      <3> QED
        BY <3>1, SendersAreFinite, FS_Subset, FS_CardinalityType
    <2> QED
      BY <2>1, <2>2
  <1> DEFINE k == n + d
  <1>3. /\ smsHistory'.ledger[m] + Cardinality(Paying(m)') <= k
        /\ k + Cardinality(Able(m)') <= Cardinality(Senders)
        /\ k \in Nat
    BY <1>1, <1>2
  <1>4. Cost * (n + d) = Cost * n + Cost * d
    BY Distributes, SmsAssumption
  <1>5. smsHistory'.taken[m] = Cost * k
    BY <1>1, <1>4
  <1> HIDE DEF k
  <1>6. \E j \in Nat : /\ smsHistory'.taken[m] = Cost * j
                       /\ smsHistory'.ledger[m] + Cardinality(Paying(m)') <= j
                       /\ j + Cardinality(Able(m)') <= Cardinality(Senders)
    BY <1>3, <1>5
  <1>7. (Cardinality(Senders))' = Cardinality(Senders) /\ Cost' = Cost
    OBVIOUS
  <1> QED
    BY <1>6, <1>7 DEF TallyFits

\* TallyFits, for the message that a sender works on.
LEMMA TallyOwn ==
  ASSUME SmsTyped, SmsTyped', NEW s \in Senders, SenderFits(s), SenderFits(s)',
         SenderMoves(s), NEW m \in Messages, TallyFits(m)
  PROVE  TallyFits(m)'
  <1>0. /\ Others(s) /\ Able(m)' \subseteq Able(m)
        /\ smsHistory.ledger[m] \in Nat /\ smsHistory.taken[m] \in Int
        /\ Cardinality(Paying(m)) \in Nat /\ Cost \in Nat
    BY SenderMovesFacts, AbleMoves, HistoryParts, ThoseCount, SmsAssumption
       DEF Paying
  <1>a. /\ Cardinality(Able(m)') \in Nat /\ Cardinality(Able(m)) \in Nat
        /\ Cardinality(Able(m)') <= Cardinality(Able(m))
        /\ s \in Able(m) /\ s \notin Able(m)' =>
             Cardinality(Able(m)') + 1 <= Cardinality(Able(m))
    BY <1>0, AbleShrinks, AbleCount
  <1>t. /\ Cost * 0 = 0 /\ Cost * 1 = Cost /\ Cost * (-1) = -Cost
        /\ smsHistory.taken[m] + 0 = smsHistory.taken[m]
        /\ smsHistory.ledger[m] + 0 = smsHistory.ledger[m]
        /\ Cardinality(Paying(m)) + 0 = Cardinality(Paying(m))
        /\ Cardinality(Paying(m)) + -1 = Cardinality(Paying(m)) - 1
    BY <1>0
  <1>c. /\ HasAt(s, m, Holds)' /\ ~HasAt(s, m, Holds) =>
             Cardinality(Paying(m)') = Cardinality(Paying(m)) + 1
        /\ ~HasAt(s, m, Holds)' /\ HasAt(s, m, Holds) =>
             Cardinality(Paying(m)') = Cardinality(Paying(m)) - 1
        /\ (HasAt(s, m, Holds)' <=> HasAt(s, m, Holds)) =>
             Cardinality(Paying(m)') = Cardinality(Paying(m))
    BY <1>0, CountMoves DEF Paying
  <1>p. ASSUME NEW money, Takes(m, money)
        PROVE  /\ smsHistory'.ledger[m] = smsHistory.ledger[m]
               /\ smsHistory'.taken[m] = smsHistory.taken[m] + money
    BY <1>p, HistoryParts DEF Takes
  \* Nothing of it changes but who holds it, less and less.
  <1>1. ASSUME smsHistory'.taken[m] = smsHistory.taken[m],
               smsHistory'.ledger[m] = smsHistory.ledger[m],
               HasAt(s, m, Holds)' => HasAt(s, m, Holds)
        PROVE  TallyFits(m)'
    <2>1. CASE HasAt(s, m, Holds)' <=> HasAt(s, m, Holds)
      <3>1. Cardinality(Paying(m)') = Cardinality(Paying(m)) + 0
        BY <1>c, <1>t, <2>1
      <3> QED
        BY <1>0, <1>1, <1>a, <1>t, <3>1, TallyMoves
    <2>2. CASE ~HasAt(s, m, Holds)' /\ HasAt(s, m, Holds)
      <3>1. Cardinality(Paying(m)') = Cardinality(Paying(m)) + -1
        BY <1>c, <1>t, <2>2
      <3> QED
        BY <1>0, <1>1, <1>a, <1>t, <3>1, TallyMoves
    <2> QED
      BY <1>1, <2>1, <2>2
  <1>2. ASSUME Takes(m, Cost), HasAt(s, m, Holds)', ~HasAt(s, m, Holds),
               s \in Able(m), s \notin Able(m)'
        PROVE  TallyFits(m)'
    <2>1. /\ smsHistory'.ledger[m] = smsHistory.ledger[m] + 0
          /\ smsHistory'.taken[m] = smsHistory.taken[m] + Cost * 1
          /\ Cardinality(Paying(m)') = Cardinality(Paying(m)) + 1
      BY <1>2, <1>c, <1>p, <1>t
    <2> QED
      BY <1>2, <1>a, <2>1, TallyMoves
  <1>3. ASSUME Takes(m, -Cost), ~HasAt(s, m, Holds)', HasAt(s, m, Holds)
        PROVE  TallyFits(m)'
    <2>1. /\ smsHistory'.ledger[m] = smsHistory.ledger[m] + 0
          /\ smsHistory'.taken[m] = smsHistory.taken[m] + Cost * (-1)
          /\ Cardinality(Paying(m)') = Cardinality(Paying(m)) + -1
      BY <1>3, <1>c, <1>p, <1>t
    <2> QED
      BY <1>a, <2>1, TallyMoves
  <1>4. ASSUME NEW step \in SenderSteps, IsWritten(s, step), m = Msg(s)
        PROVE  TallyFits(m)'
    <2>1. ~HasAt(s, m, Holds)' /\ HasAt(s, m, Holds)
      BY <1>4 DEF IsWritten, MovesTo, HasAt
    <2>2. /\ smsHistory'.ledger[m] = smsHistory.ledger[m] + 1
          /\ smsHistory'.taken[m] = smsHistory.taken[m]
      BY <1>4, HistoryParts DEF IsWritten
    <2>3. /\ smsHistory'.taken[m] = smsHistory.taken[m] + Cost * 0
          /\ Cardinality(Paying(m)') = Cardinality(Paying(m)) + -1
      BY <1>c, <1>t, <2>1, <2>2
    <2> QED
      BY <1>a, <2>2, <2>3, TallyMoves
  <1>5. ASSUME MoneyKept, HasAt(s, m, Holds)' => HasAt(s, m, Holds)
        PROVE  TallyFits(m)'
    BY <1>1, <1>5 DEF MoneyKept
  <1>6. CASE ~HasAt(s, m, Sending) /\ ~HasAt(s, m, Sending)'
    <2>1. /\ smsHistory'.taken[m] = smsHistory.taken[m]
          /\ smsHistory'.ledger[m] = smsHistory.ledger[m]
      BY <1>6, NotAboutIt
    <2> QED
      BY <1>1, <1>6, <2>1 DEF HasAt
  <1>7. CASE HasAt(s, m, Sending) \/ HasAt(s, m, Sending)'
    <2>1. CASE IsTaken(s) \/ IsRefused(s) \/ IsLost(s)
      BY <1>5, <2>1 DEF IsTaken, IsRefused, IsLost, MovesTo, HasAt, Msg
    <2>2. ASSUME NEW step \in SenderSteps,
                 Fails(s, step) \/ IsWritten(s, step) \/ Breaks(s, step)
          PROVE  TallyFits(m)'
      <3>1. /\ m = Msg(s) /\ ~HasAt(s, m, Holds)'
            /\ HasAt(s, m, Holds) <=> senders[s].pc \in Holds
        BY <1>7, <2>2 DEF Fails, IsWritten, Breaks, MovesTo, HasAt
      <3>2. CASE Fails(s, step)
        BY <1>3, <1>5, <3>1, <3>2 DEF Fails
      <3>3. CASE IsWritten(s, step)
        BY <1>4, <3>1, <3>3
      <3>4. CASE Breaks(s, step)
        BY <1>5, <3>1, <3>4 DEF Breaks
      <3> QED
        BY <2>2, <3>2, <3>3, <3>4
    <2>3. CASE s \in Singles /\ Orders(s)
      <3>1. /\ m = s /\ Takes(m, Cost)
            /\ HasAt(s, m, Holds)' /\ ~HasAt(s, m, Holds)
        BY <1>7, <2>3 DEF Orders, MovesTo, HasAt, Msg
      <3> QED
        BY <1>2, <2>3, <3>1, TakerIsDone
    <2>4. CASE s \in Singles /\ Creates(s)
      BY <1>5, <2>4, SenderRange DEF Creates, MovesTo, HasAt, Msg, SenderFits
    <2>5. CASE s \in Starts /\ Pays(s)
      <3>1. /\ m = Msg(s) /\ Takes(m, Cost)
            /\ HasAt(s, m, Holds)' /\ ~HasAt(s, m, Holds)
        BY <1>7, <2>5 DEF Pays, MovesTo, HasAt, Msg
      <3> QED
        BY <1>2, <2>5, <3>1, TakerIsDone
    <2>6. CASE s \in Starts /\ \E n \in Bulk : Picks(s, n)
      BY <1>5, <2>6 DEF Picks, MovesTo, HasAt
    <2>7. CASE Wanders(s)
      BY <1>5, <2>7 DEF Wanders, HasAt
    <2> QED
      BY <2>1, <2>2, <2>3, <2>4, <2>5, <2>6, <2>7 DEF SenderMoves
  <1> QED
    BY <1>6, <1>7

\* Every step of Sms keeps TallyFits.
LEMMA TallyStays ==
  ASSUME SmsInv, SmsTyped', SmsEffect, NEW m \in Messages, TallyFits(m)
  PROVE  TallyFits(m)'
  <1>0. SmsTyped
    BY DEF SmsInv
  <1>1. ASSUME MoneyKept, Paying(m)' \subseteq Paying(m),
               Able(m)' \subseteq Able(m)
        PROVE  TallyFits(m)'
    <2>1. PICK n \in Nat :
            /\ smsHistory.taken[m] = Cost * n
            /\ smsHistory.ledger[m] + Cardinality(Paying(m)) <= n
            /\ n + Cardinality(Able(m)) <= Cardinality(Senders)
      BY DEF TallyFits
    <2>2. /\ Cardinality(Paying(m)') \in Nat /\ Cardinality(Paying(m)) \in Nat
          /\ Cardinality(Paying(m)') <= Cardinality(Paying(m))
      BY <1>1, ThoseCount, FS_Subset, FS_CardinalityType DEF Paying
    <2>3. /\ Cardinality(Able(m)') \in Nat /\ Cardinality(Able(m)) \in Nat
          /\ Cardinality(Able(m)') <= Cardinality(Able(m))
          /\ Cardinality(Senders) \in Nat
      BY <1>1, AbleShrinks, AbleCount
    <2>4. /\ smsHistory'.ledger[m] = smsHistory.ledger[m]
          /\ smsHistory'.taken[m] = smsHistory.taken[m]
          /\ smsHistory.ledger[m] \in Nat
      BY <1>0, <1>1, HistoryParts DEF MoneyKept
    <2>5. /\ smsHistory'.taken[m] = Cost * n
          /\ smsHistory'.ledger[m] + Cardinality(Paying(m)') <= n
          /\ n + Cardinality(Able(m)') <= Cardinality(Senders)
      BY <2>1, <2>2, <2>3, <2>4
    <2>6. (Cardinality(Senders))' = Cardinality(Senders) /\ Cost' = Cost
      OBVIOUS
    <2> QED
      BY <2>5, <2>6 DEF TallyFits
  <1>2. ASSUME UNCHANGED senders, MoneyKept
        PROVE  TallyFits(m)'
    <2>1. Paying(m)' = Paying(m) /\ Able(m)' = Able(m)
      BY <1>2 DEF Paying, Those, HasAt, Msg, Able, AbleTo
    <2> QED
      BY <1>1, <1>2, <2>1
  <1>3. CASE Stops
    <2>1. Paying(m)' = {}
      BY <1>3 DEF Stops, Paying, Those, HasAt
    <2>2. \A s \in Senders : AbleTo(s, m)' => AbleTo(s, m)
      BY <1>3 DEF Stops, AbleTo, HasAt
    <2>3. Able(m)' \subseteq Able(m)
      BY <2>2 DEF Able
    <2> QED
      BY <1>1, <1>3, <2>1, <2>3 DEF Stops
  <1>4. ASSUME NEW s \in Senders, SenderMoves(s)
        PROVE  TallyFits(m)'
    <2>1. SenderFits(s) /\ SenderFits(s)'
      BY <1>0, <1>4, SenderFitsStays DEF SmsInv
    <2> QED
      BY <1>0, <1>4, <2>1, TallyOwn
  <1> QED
    BY <1>2, <1>3, <1>4, EffectOfOne DEF Quietly, Prepares, IsRead, IsReported

\* TallyFits holds at first.
LEMMA TallyFirst ==
  ASSUME SmsInit, NEW m \in Messages
  PROVE  TallyFits(m)
  <1>1. /\ smsHistory.taken[m] = 0 /\ smsHistory.ledger[m] = 0
        /\ Paying(m) = {}
    BY DEF SmsInit, Idle, Paying, Those, HasAt
  <1>2. Cost * 0 = 0 /\ 0 + Cardinality(Paying(m)) = 0
    BY <1>1, FS_EmptySet, SmsAssumption
  <1>3. 0 + Cardinality(Able(m)) <= Cardinality(Senders)
    BY AbleCount
  <1> QED
    BY <1>1, <1>2, <1>3 DEF TallyFits

-----------------------------------------------------------------------------
(* The types of MCMoney.                                                   *)

\* What neither invariant needs.
SmsRest == /\ smsConfig \in BOOLEAN
           /\ smsCampaign \in {"DRAFT", "RUNNING", "DONE", "CANCELLED"}
WalletRest ==
  /\ topUps \in [TopUps -> [paid: BOOLEAN, asked: BOOLEAN, cached: BOOLEAN]]
  /\ paused \in BOOLEAN

\* Every step of Sms keeps the types SmsInv does not name.
LEMMA SmsRestStays ==
  ASSUME SmsRest, SmsNext
  PROVE  SmsRest'
  <1>0. UNCHANGED campaignVars => SmsRest'
    BY DEF SmsRest, campaignVars
  <1>1. ASSUME NEW m \in Messages,
               SendSms(m) \/ CreateSms(m) \/ PrepareRecipients(m)
        PROVE  UNCHANGED campaignVars
    BY <1>1 DEF SendSms, CreateSms, PrepareRecipients
  <1>2. ASSUME NEW r \in Starts,
               \/ StartCampaign(r) \/ ListQueued(r) \/ NextQueued(r)
               \/ ReserveQueued(r) \/ LoopThrows(r) \/ ReadStatus(r)
        PROVE  UNCHANGED campaignVars
    BY <1>2, Zenon DEF StartCampaign, ListQueued, NextQueued, ReserveQueued,
                       LoopThrows, ReadStatus
  <1>3. ASSUME NEW r \in Starts, MarkRunning(r) \/ MarkDone(r)
        PROVE  SmsRest'
    BY <1>3 DEF MarkRunning, MarkDone, SmsRest
  <1>4. ASSUME NEW s \in Senders,
               SendToGateway(s) \/ ConfirmSms(s) \/ RefundSms(s)
        PROVE  UNCHANGED campaignVars
    BY <1>4 DEF SendToGateway, ConfirmSms, RefundSms
  <1>5. CASE CancelCampaign \/ ConfigureSms
    BY <1>5 DEF CancelCampaign, ConfigureSms, SmsRest
  <1>6. ASSUME CrashSms \/ (\E p \in reports : ReadReport(p))
                 \/ (\E h \in hooks : WriteReport(h))
        PROVE  UNCHANGED campaignVars
    BY <1>6 DEF CrashSms, ReadReport, WriteReport
  <1> QED
    BY <1>0, <1>1, <1>2, <1>3, <1>4, <1>5, <1>6, SenderRange DEF SmsNext

\* So does every step of Wallet.
LEMMA WalletRestStays ==
  ASSUME WalletRest, WalletInv, WalletNext
  PROVE  WalletRest'
  <1>1. ASSUME UNCHANGED topUps, UNCHANGED paused \/ paused' \in BOOLEAN
        PROVE  WalletRest'
    BY <1>1 DEF WalletRest
  <1>2. ASSUME NEW t \in TopUps, AskTopUp(t) \/ PayTopUp(t)
        PROVE  WalletRest'
    <2>1. CASE topUps' = [topUps EXCEPT ![t].asked = TRUE, ![t].cached = TRUE]
               /\ UNCHANGED paused
      BY <2>1 DEF WalletRest
    <2>2. CASE topUps' = [topUps EXCEPT ![t].asked = TRUE] /\ UNCHANGED paused
      BY <2>2 DEF WalletRest
    <2>3. CASE topUps' = [topUps EXCEPT ![t].paid = TRUE] /\ UNCHANGED paused
      BY <2>3 DEF WalletRest
    <2> QED
      BY <1>2, <2>1, <2>2, <2>3 DEF AskTopUp, PayTopUp
  <1>3. ASSUME NEW n \in Notices, ForgetReference(n)
        PROVE  WalletRest'
    BY <1>3 DEF ForgetReference, WalletRest
  <1>4. ASSUME NEW n \in Notices,
               \/ \E t \in TopUps : ReceiveNotice(n, t)
               \/ CheckNotice(n) \/ CreditTopUp(n) \/ ResumeCampaigns(n)
        PROVE  WalletRest'
    <2>1. CASE (\E t \in TopUps : ReceiveNotice(n, t)) \/ CheckNotice(n)
      <3>1. UNCHANGED topUpVars
        BY <2>1, Zenon DEF ReceiveNotice, CheckNotice
      <3> QED
        BY <1>1, <3>1 DEF topUpVars
    <2>2. CASE CreditTopUp(n)
      BY <1>1, <2>2 DEF CreditTopUp
    <2>3. CASE ResumeCampaigns(n)
      BY <1>1, <2>3 DEF ResumeCampaigns
    <2> QED
      BY <1>4, <2>1, <2>2, <2>3
  <1>5. ASSUME NEW b \in Billings,
               \/ ReadTenant(b) \/ ReadInvoice(b) \/ PayInvoice(b)
               \/ OweInvoice(b) \/ CountOverdue(b) \/ SuspendDebtor(b)
        PROVE  WalletRest'
    BY <1>1, <1>5 DEF ReadTenant, ReadInvoice, PayInvoice, OweInvoice,
                      CountOverdue, SuspendDebtor, topUpVars
  <1>6. ASSUME NEW c \in Corrections, ReadBalance(c) \/ WriteBalance(c)
        PROVE  WalletRest'
    BY <1>1, <1>6 DEF ReadBalance, WriteBalance, topUpVars
  <1>7. ASSUME NEW o \in Otps,
               \/ ReserveOtp(o) \/ GetOtpTelephony(o)
               \/ PlayOtp(o) \/ RecordOtp(o) \/ RefundOtp(o)
        PROVE  WalletRest'
    BY <1>1, <1>7 DEF ReserveOtp, GetOtpTelephony, PlayOtp, RecordOtp,
                      RefundOtp, topUpVars
  <1>8. CASE NextMonth \/ SetTenantStatus \/ PauseCampaign \/ CrashWallet
    BY <1>1, <1>8 DEF NextMonth, SetTenantStatus, PauseCampaign, CrashWallet,
                      topUpVars
  <1> QED
    BY <1>2, <1>3, <1>4, <1>5, <1>6, <1>7, <1>8 DEF WalletNext

\* With the tally, the types of MCMoney follow from the invariants.
LEMMA MoneyTypes ==
  ASSUME SmsInv, WalletInv, SmsRest, WalletRest, ledger \in Int,
         \A m \in Messages : TallyFits(m)
  PROVE  TypeOK
  <1>0. SmsTyped /\ WalletTyped
    BY DEF SmsInv, WalletInv
  <1>1. ASSUME NEW m \in Messages
        PROVE  /\ smsHistory.taken[m] \in 0..(Cost * Cardinality(Senders))
               /\ smsHistory.ledger[m] \in 0..Cardinality(Senders)
               /\ smsHistory.accepted[m] \subseteq Senders
    <2>1. PICK n \in Nat :
            /\ smsHistory.taken[m] = Cost * n
            /\ smsHistory.ledger[m] + Cardinality(Paying(m)) <= n
            /\ n + Cardinality(Able(m)) <= Cardinality(Senders)
      BY DEF TallyFits
    <2>2. /\ smsHistory.ledger[m] \in Nat /\ Cardinality(Paying(m)) \in Nat
          /\ Cardinality(Able(m)) \in Nat /\ Cardinality(Senders) \in Nat
          /\ Cost \in Nat /\ smsHistory.accepted[m] \subseteq Senders
      BY <1>0, HistoryParts, ThoseCount, AbleCount, SmsAssumption DEF Paying
    <2> DEFINE k == Cardinality(Senders) - n
    <2>3. k \in Nat /\ Cardinality(Senders) = n + k
      BY <2>1, <2>2
    <2>4. /\ Cost * (n + k) = Cost * n + Cost * k
          /\ Cost * n \in Nat /\ Cost * k \in Nat
      BY <2>2, <2>3, Distributes
    <2> QED
      BY <2>1, <2>2, <2>3, <2>4
  <1>2. SmsTypeOK
    BY <1>0, <1>1 DEF SmsTypeOK, SmsTyped, SmsRest, RowType, SenderType
  <1>3. WalletTypeOK
    BY <1>0 DEF WalletTypeOK, WalletTyped, WalletRest, TaskType
  <1> QED
    BY <1>0, <1>2, <1>3 DEF TypeOK, WalletTyped

-----------------------------------------------------------------------------
(* What the steps do to the balance and to the ledger.                     *)

\* A step of Sms takes the money of a message or gives it back, writes a row
\* or does neither.
SmsMoney ==
  \/ UNCHANGED accountVars /\ MoneyKept
  \/ \E m \in Messages, cents \in {Cost, -Cost} :
       balance' = balance - cents /\ ledger' = ledger /\ Takes(m, cents)
  \/ \E m \in Messages :
       /\ balance' = balance /\ ledger' = ledger - Cost
       /\ smsHistory'.taken = smsHistory.taken
       /\ smsHistory'.ledger = [smsHistory.ledger EXCEPT ![m] = @ + 1]

\* Money taken for a message, or given back, is taken from the balance.
LEMMA TakesMoney ==
  ASSUME SmsInv, balance \in Int, NEW m \in Messages, NEW cents \in {Cost, -Cost},
         \/ cents = Cost /\ Reserve(Cost)
         \/ cents = -Cost /\ GiveBack(Cost),
         Settle(m, cents, 0), UNCHANGED ledger
  PROVE  SmsMoney
  <1>1. balance' = balance - cents
    BY SmsAssumption DEF Reserve, AfterReserve, GiveBack
  <1>2. Takes(m, cents)
    BY SettleNothing, SmsAssumption DEF SmsInv
  <1> QED
    BY <1>1, <1>2 DEF SmsMoney

\* Every step of Sms is one of those.
LEMMA SmsMoneyMoves ==
  ASSUME SmsInv, balance \in Int, ledger \in Int, SmsNext
  PROVE  SmsMoney
  <1>0. /\ SmsTyped
        /\ \A s \in Senders : SenderFits(s)
        /\ \A m \in Singles : m \in Senders /\ m \in Messages /\ SenderFits(m)
        /\ \A r \in Starts : r \in Senders /\ SenderFits(r)
    BY SenderRange DEF SmsInv
  <1>a. UNCHANGED accountVars /\ MoneyKept => SmsMoney
    BY DEF SmsMoney
  <1>b. UNCHANGED smsHistory => MoneyKept
    BY DEF MoneyKept
  <1>1. ASSUME NEW m \in Singles, SendSms(m)
        PROVE  SmsMoney
    <2>1. CASE Reserve(Cost) /\ Settle(m, Cost, 0) /\ UNCHANGED ledger
      BY <1>0, <2>1, TakesMoney
    <2>2. CASE UNCHANGED <<balance, smsHistory>> /\ UNCHANGED ledger
      BY <1>a, <1>b, <2>2 DEF accountVars
    <2> QED
      BY <1>1, <2>1, <2>2 DEF SendSms
  <1>2. ASSUME NEW m \in Singles, CreateSms(m)
        PROVE  SmsMoney
    <2>1. UNCHANGED accountVars /\ (UNCHANGED smsHistory \/ Hurt(m))
      BY <1>2 DEF CreateSms
    <2> QED
      BY <1>0, <1>a, <1>b, <2>1, HurtFacts
  <1>3. ASSUME NEW r \in Starts, ReserveQueued(r)
        PROVE  SmsMoney
    <2>0. Msg(r) \in Messages
      BY <1>0, <1>3 DEF ReserveQueued, At, SenderFits
    <2>1. CASE Reserve(Cost) /\ Settle(Msg(r), Cost, 0) /\ UNCHANGED ledger
      BY <2>0, <2>1, TakesMoney
    <2>2. CASE UNCHANGED <<balance, smsHistory>> /\ UNCHANGED ledger
      BY <1>a, <1>b, <2>2 DEF accountVars
    <2> QED
      BY <1>3, <2>1, <2>2 DEF ReserveQueued
  <1>4. ASSUME NEW r \in Starts,
               \/ StartCampaign(r) \/ MarkRunning(r) \/ ListQueued(r)
               \/ NextQueued(r) \/ LoopThrows(r) \/ ReadStatus(r) \/ MarkDone(r)
        PROVE  SmsMoney
    <2>1. UNCHANGED accountVars
      <3>1. CASE StartCampaign(r) \/ MarkRunning(r)
        BY <3>1 DEF StartCampaign, MarkRunning
      <3>2. CASE ListQueued(r) \/ NextQueued(r)
        BY <3>2, Zenon DEF ListQueued, NextQueued
      <3>3. CASE LoopThrows(r) \/ ReadStatus(r) \/ MarkDone(r)
        BY <3>3 DEF LoopThrows, ReadStatus, MarkDone
      <3> QED
        BY <1>4, <3>1, <3>2, <3>3
    <2>2. Wanders(r) \/ \E m \in Bulk : Picks(r, m)
      BY <1>0, <1>4, StartEffect, MarkRunningEffect, ListEffect, NextEffect,
         LoopEndEffect
    <2> QED
      BY <1>a, <2>1, <2>2 DEF Wanders, Picks
  <1>5. ASSUME NEW s \in Senders, SendToGateway(s)
        PROVE  SmsMoney
    <2>1. UNCHANGED accountVars
      BY <1>5 DEF SendToGateway
    <2>2. IsTaken(s) \/ IsRefused(s) \/ IsLost(s)
      BY <1>0, <1>5, GatewayEffect
    <2> QED
      BY <1>a, <2>1, <2>2 DEF IsTaken, IsRefused, IsLost
  <1>6. ASSUME NEW s \in Senders, ConfirmSms(s)
        PROVE  SmsMoney
    <2>0. Msg(s) \in Messages /\ Cost \in Int
      BY <1>0, <1>6, SmsAssumption DEF ConfirmSms, At, SenderFits
    <2>1. CASE Settle(Msg(s), 0, 1) /\ Write(-Cost) /\ UNCHANGED balance
      <3>1. /\ smsHistory'.taken = smsHistory.taken
            /\ smsHistory'.ledger
                 = [smsHistory.ledger EXCEPT ![Msg(s)] = @ + 1]
        BY <1>0, <2>0, <2>1, SettleRow
      <3>2. ledger' = ledger - Cost
        BY <2>0, <2>1 DEF Write
      <3> QED
        BY <2>0, <2>1, <3>1, <3>2 DEF SmsMoney
    <2>2. CASE Hurt(Msg(s)) /\ UNCHANGED <<ledger, sms>> /\ UNCHANGED balance
      BY <1>0, <1>a, <2>0, <2>2, HurtFacts DEF accountVars
    <2> QED
      BY <1>6, <2>1, <2>2 DEF ConfirmSms
  <1>7. ASSUME NEW s \in Senders, RefundSms(s)
        PROVE  SmsMoney
    <2>0. Msg(s) \in Messages
      BY <1>0, <1>7 DEF RefundSms, At, SenderFits
    <2>1. CASE GiveBack(Cost) /\ Settle(Msg(s), -Cost, 0) /\ UNCHANGED ledger
      BY <2>0, <2>1, TakesMoney
    <2>2. CASE Hurt(Msg(s)) /\ UNCHANGED <<balance, sms>> /\ UNCHANGED ledger
      BY <1>0, <1>a, <2>0, <2>2, HurtFacts DEF accountVars
    <2> QED
      BY <1>7, <2>1, <2>2 DEF RefundSms
  <1>8. CASE CancelCampaign \/ ConfigureSms \/ CrashSms
             \/ \E m \in Bulk : PrepareRecipients(m)
    <2>1. UNCHANGED accountVars
      BY <1>8 DEF CancelCampaign, ConfigureSms, CrashSms, PrepareRecipients
    <2>2. Quietly \/ Stops \/ \E m \in Bulk : Prepares(m)
      BY <1>0, <1>8, QuietEffect, CrashEffect, PrepareEffect
    <2> QED
      BY <1>a, <2>1, <2>2 DEF Quietly, Stops, Prepares
  <1>9. ASSUME NEW p \in reports, ReadReport(p)
        PROVE  SmsMoney
    <2>1. UNCHANGED accountVars
      BY <1>9 DEF ReadReport
    <2>2. IsRead(p) \/ Quietly
      BY <1>0, <1>9, ReadReportEffect
    <2> QED
      BY <1>a, <2>1, <2>2 DEF IsRead, Quietly
  <1>10. ASSUME NEW h \in hooks, WriteReport(h)
         PROVE  SmsMoney
    BY <1>10, <1>a, <1>b DEF WriteReport
  <1> QED
    BY <1>1, <1>2, <1>3, <1>4, <1>5, <1>6, <1>7, <1>8, <1>9, <1>10 DEF SmsNext

\* The messages hold what the balance has lost and the ledger does not say.
LEMMA SmsKeepsTheBooks ==
  ASSUME SmsInv, balance \in Int, ledger \in Int, SmsMoney
  PROVE  /\ balance' \in Int /\ ledger' \in Int
         /\ SmsHeld \in Int /\ SmsHeld' \in Int
         /\ balance' - ledger' + SmsHeld' = balance - ledger + SmsHeld
  <1> DEFINE t == smsHistory.taken
             l == smsHistory.ledger
             u == smsHistory'.taken
             k == smsHistory'.ledger
  <1>0. /\ \A m \in Messages : t[m] \in Int /\ l[m] \in Nat
        /\ t \in [Messages -> Int] /\ l \in [Messages -> Nat]
        /\ Cost \in Int /\ SmsHeld = Held(t, l) /\ SmsHeld' = Held(u, k)
    BY HistoryParts, HeldNow, SmsAssumption DEF SmsInv
  <1>1. \A m \in Messages : t[m] - Cost * l[m] \in Int
    BY <1>0
  <1>2. Held(t, l) \in Int
    BY <1>1, HeldType
  <1> HIDE DEF t, l, u, k
  <1>3. CASE UNCHANGED accountVars /\ MoneyKept
    <2>1. u = t /\ k = l
      BY <1>3 DEF MoneyKept, t, l, u, k
    <2> QED
      BY <1>0, <1>2, <1>3, <2>1 DEF accountVars
  <1>4. ASSUME NEW m \in Messages, NEW cents \in {Cost, -Cost},
               balance' = balance - cents, ledger' = ledger, Takes(m, cents)
        PROVE  /\ balance' \in Int /\ ledger' \in Int /\ Held(u, k) \in Int
               /\ balance' - ledger' + Held(u, k)
                    = balance - ledger + Held(t, l)
    <2>1. k = l /\ u = [t EXCEPT ![m] = @ + cents] /\ cents \in Int
      BY <1>0, <1>4 DEF Takes, t, l, u, k
    <2>2. /\ u[m] = t[m] + cents
          /\ \A n \in Messages \ {m} : u[n] = t[n]
      BY <1>0, <2>1
    <2>3. u[m] - Cost * k[m] = (t[m] - Cost * l[m]) + cents
      <3>1. Cost * l[m] \in Int
        BY <1>0
      <3> QED
        BY <1>0, <2>1, <2>2, <3>1
    <2>4. \A n \in Messages \ {m} :
            u[n] - Cost * k[n] = t[n] - Cost * l[n]
      BY <2>1, <2>2
    <2>a. u[m] - Cost * k[m] \in Int /\ t[m] - Cost * l[m] \in Int
      BY <1>1, <2>1, <2>3
    <2>b. Held(u, k) = Held(t, l) + ((u[m] - Cost * k[m]) - (t[m] - Cost * l[m]))
      BY <1>1, <2>4, <2>a, HeldChanges
    <2>5. Held(u, k) = Held(t, l) + cents
      BY <1>2, <2>1, <2>3, <2>a, <2>b
    <2> QED
      BY <1>2, <1>4, <2>1, <2>5
  <1>5. ASSUME NEW m \in Messages, balance' = balance, ledger' = ledger - Cost,
               smsHistory'.taken = smsHistory.taken,
               smsHistory'.ledger = [smsHistory.ledger EXCEPT ![m] = @ + 1]
        PROVE  /\ balance' \in Int /\ ledger' \in Int /\ Held(u, k) \in Int
               /\ balance' - ledger' + Held(u, k)
                    = balance - ledger + Held(t, l)
    <2>1. u = t /\ k = [l EXCEPT ![m] = @ + 1] /\ -Cost \in Int
      BY <1>0, <1>5 DEF t, l, u, k
    <2>2. /\ k[m] = l[m] + 1
          /\ \A n \in Messages \ {m} : k[n] = l[n]
      BY <1>0, <2>1
    <2>3. u[m] - Cost * k[m] = (t[m] - Cost * l[m]) + -Cost
      <3>1. Cost * (l[m] + 1) = Cost * l[m] + Cost /\ Cost * l[m] \in Int
        BY <1>0, CostFacts
      <3> QED
        BY <1>0, <2>1, <2>2, <3>1
    <2>4. \A n \in Messages \ {m} :
            u[n] - Cost * k[n] = t[n] - Cost * l[n]
      BY <2>1, <2>2
    <2>a. u[m] - Cost * k[m] \in Int /\ t[m] - Cost * l[m] \in Int
      BY <1>1, <2>1, <2>3
    <2>b. Held(u, k) = Held(t, l) + ((u[m] - Cost * k[m]) - (t[m] - Cost * l[m]))
      BY <1>1, <2>4, <2>a, HeldChanges
    <2>5. Held(u, k) = Held(t, l) + -Cost
      BY <1>2, <2>1, <2>3, <2>a, <2>b
    <2> QED
      BY <1>0, <1>2, <1>5, <2>5
  <1>6. CASE \E m \in Messages, cents \in {Cost, -Cost} :
               balance' = balance - cents /\ ledger' = ledger /\ Takes(m, cents)
    BY <1>0, <1>2, <1>4, <1>6
  <1>7. CASE \E m \in Messages :
               /\ balance' = balance /\ ledger' = ledger - Cost
               /\ smsHistory'.taken = smsHistory.taken
               /\ smsHistory'.ledger = [smsHistory.ledger EXCEPT ![m] = @ + 1]
    BY <1>0, <1>2, <1>5, <1>7
  <1> QED
    BY <1>3, <1>6, <1>7 DEF SmsMoney

\* The calls that hold money, and what a step of one handler does to them.
OtpSteps == {"telephony", "play", "record", "refund"}
HoldsOtp(t) == t \in Otps /\ tasks[t].pc \in OtpSteps

\* The calls that hold money, and that they are finitely many.
LEMMA HoldingIs ==
  /\ Holding = {o \in Otps : HoldsOtp(o)}
  /\ IsFiniteSet(Holding) /\ Cardinality(Holding) \in Nat
  <1>1. Holding = {o \in Otps : HoldsOtp(o)}
    BY DEF Holding, HoldsOtp, OtpSteps
  <1>2. IsFiniteSet(Holding)
    BY WalletAssumption, FS_Subset DEF Holding
  <1> QED
    BY <1>1, <1>2, FS_CardinalityType

\* One handler moves: they stay, or are one more or one less.
LEMMA HoldingMoves ==
  ASSUME NEW t \in Tasks, OtherTasks(t)
  PROVE  /\ (HoldsOtp(t)' <=> HoldsOtp(t)) => Holding' = Holding
         /\ HoldsOtp(t)' /\ ~HoldsOtp(t) =>
              Cardinality(Holding') = Cardinality(Holding) + 1
         /\ ~HoldsOtp(t)' /\ HoldsOtp(t) =>
              Cardinality(Holding') = Cardinality(Holding) - 1
  <1>0. \A o \in Otps : o # t => (HoldsOtp(o)' <=> HoldsOtp(o))
    BY TaskNames DEF OtherTasks, HoldsOtp
  <1>a. /\ \A o \in Otps : o \in Holding <=> HoldsOtp(o)
        /\ \A o \in Otps : o \in Holding' <=> HoldsOtp(o)'
        /\ Holding \subseteq Otps /\ Holding' \subseteq Otps
        /\ HoldsOtp(t) => t \in Otps
        /\ HoldsOtp(t)' => t \in Otps
    BY DEF Holding, HoldsOtp, OtpSteps
  <1>b. IsFiniteSet(Holding) /\ Cardinality(Holding) \in Nat
    BY HoldingIs
  <1>1. ASSUME HoldsOtp(t)' <=> HoldsOtp(t)
        PROVE  Holding' = Holding
    BY <1>0, <1>1, <1>a
  <1>2. ASSUME HoldsOtp(t)', ~HoldsOtp(t)
        PROVE  Cardinality(Holding') = Cardinality(Holding) + 1
    <2>1. Holding' = Holding \cup {t} /\ t \notin Holding
      BY <1>0, <1>2, <1>a
    <2> QED
      BY <1>b, <2>1, FS_AddElement
  <1>3. ASSUME ~HoldsOtp(t)', HoldsOtp(t)
        PROVE  Cardinality(Holding') = Cardinality(Holding) - 1
    <2>1. Holding' = Holding \ {t} /\ t \in Holding
      BY <1>0, <1>3, <1>a
    <2> QED
      BY <1>b, <2>1, FS_RemoveElement
  <1> QED
    BY <1>1, <1>2, <1>3

\* What is recalled of money stays, but for what is lost.
PurseKept(lost) ==
  /\ walletHistory'.first = walletHistory.first
  /\ walletHistory'.overwrote = walletHistory.overwrote
  /\ walletHistory'.lost = walletHistory.lost + lost

\* A step that keeps the books, or a correction that overwrites the balance.
WalletMoney ==
  /\ balance' \in Int /\ ledger' \in Int
  /\ WalletHeld \in Int /\ WalletHeld' \in Int
  /\ walletHistory'.first = walletHistory.first
  /\ walletHistory.overwrote => walletHistory'.overwrote
  /\ \/ walletHistory'.overwrote
     \/ balance' - ledger' + WalletHeld' = balance - ledger + WalletHeld

\* The cost of a number of calls.
LEMMA OtpCounts ==
  ASSUME NEW n \in Int
  PROVE  /\ OtpCost * (n + 1) = OtpCost * n + OtpCost
         /\ OtpCost * (n - 1) = OtpCost * n - OtpCost
         /\ OtpCost * (n + 0) = OtpCost * n
         /\ OtpCost * n \in Int /\ OtpCost \in Int
  BY WalletAssumption

\* The balance moves by b, the ledger by l, the lost money by x, the calls
\* that hold money by h.
LEMMA BooksKept ==
  ASSUME WalletTyped, ledger \in Int, NEW b \in Int, NEW l \in Int, NEW x \in Int,
         NEW h \in {-1, 0, 1}, balance' = balance + b, ledger' = ledger + l,
         PurseKept(x), Cardinality(Holding') = Cardinality(Holding) + h,
         b - l + x + OtpCost * h = 0
  PROVE  WalletMoney
  <1> DEFINE c == Cardinality(Holding)
  <1>0. /\ c \in Int /\ balance \in Int /\ walletHistory.lost \in Int
        /\ OtpCost \in Int
    BY HoldingIs, WalletParts, WalletAssumption DEF WalletTyped
  <1>1. /\ OtpCost * (c + h) = OtpCost * c + OtpCost * h
        /\ OtpCost * c \in Int /\ OtpCost * h \in Int
    BY <1>0, Distributes
  <1>2. /\ WalletHeld = walletHistory.lost + OtpCost * c
        /\ WalletHeld' = walletHistory.lost + x + OtpCost * (c + h)
    BY DEF WalletHeld, PurseKept
  <1> HIDE DEF c
  <1> QED
    BY <1>0, <1>1, <1>2 DEF WalletMoney, PurseKept

\* The usual step: nothing about calls.
LEMMA PlainStep ==
  ASSUME WalletTyped, ledger \in Int, NEW b \in Int, balance' = balance + b,
         ledger' = ledger + b, PurseKept(0), Holding' = Holding
  PROVE  WalletMoney
  <1>1. /\ Cardinality(Holding') = Cardinality(Holding) + 0
        /\ b - b + 0 + OtpCost * 0 = 0
    BY HoldingIs, WalletAssumption
  <1> QED
    BY <1>1, BooksKept

\* Without a record, nothing is lost.
LEMMA PurseStays ==
  ASSUME WalletTyped, UNCHANGED walletHistory
  PROVE  PurseKept(0)
  BY WalletParts DEF PurseKept

\* An account that rests moves by nothing.
LEMMA AccountStays ==
  ASSUME WalletTyped, ledger \in Int, UNCHANGED accountVars
  PROVE  balance' = balance + 0 /\ ledger' = ledger + 0
  BY DEF WalletTyped, accountVars

\* A handler that goes from a step to another.
LEMMA HandlerMoves ==
  ASSUME WalletTyped, NEW t \in Tasks, OtherTasks(t),
         tasks[t].pc \notin OtpSteps, tasks'[t].pc \notin OtpSteps
  PROVE  Holding' = Holding
  BY HoldingMoves DEF HoldsOtp

\* A handler is given a new record.
LEMMA HandlerSet ==
  ASSUME WalletTyped, NEW t \in Tasks, NEW new,
         tasks' = [tasks EXCEPT ![t] = new]
  PROVE  OtherTasks(t) /\ tasks'[t] = new
  BY DEF WalletTyped, OtherTasks

\* The steps of chargeMonthlyInvoice.
LEMMA BillingKeepsTheBooks ==
  ASSUME WalletTyped, ledger \in Int, NEW b \in Billings,
         \/ ReadTenant(b) \/ ReadInvoice(b) \/ PayInvoice(b)
         \/ OweInvoice(b) \/ CountOverdue(b) \/ SuspendDebtor(b)
  PROVE  WalletMoney
  <1>0. b \in Tasks
    BY TaskNames
  <1>1. CASE ReadTenant(b)
    <2> DEFINE new == [IdleTask EXCEPT !.pc = "invoice", !.seen = balance,
                                       !.status = tenant, !.period = period]
    <2>1. new.pc = "invoice" /\ tasks[b].pc = "idle"
      BY <1>1 DEF IdleTask, ReadTenant, MayBegin, TaskAt
    <2>2. tasks' = [tasks EXCEPT ![b] = new]
      BY <1>1 DEF ReadTenant
    <2> HIDE DEF new
    <2>3. Holding' = Holding
      BY <1>0, <2>1, <2>2, HandlerSet, HandlerMoves DEF OtpSteps
    <2>4. PurseKept(0)
      BY <1>1, WalletParts DEF ReadTenant, PurseKept, WalletTyped, WalletHistoryType
    <2>5. UNCHANGED accountVars
      BY <1>1, Zenon DEF ReadTenant
    <2> QED
      BY <2>3, <2>4, <2>5, AccountStays, PlainStep
  <1>2. CASE PayInvoice(b)
    <2>1. TaskTo(b, "over") /\ tasks[b].pc = "pay"
      BY <1>2 DEF PayInvoice, TaskAt
    <2>2. Holding' = Holding
      BY <1>0, <2>1, TaskToFacts, HandlerMoves DEF OtpSteps, TaskSteps, GoesOn
    <2>3. PurseKept(0)
      BY <1>2, WalletParts DEF PayInvoice, PurseKept, WalletTyped, WalletHistoryType
    <2>4. balance' = balance + -Fee /\ ledger' = ledger + -Fee /\ -Fee \in Int
      BY <1>2, WalletAssumption DEF PayInvoice, GiveBack, Write
    <2> QED
      BY <2>2, <2>3, <2>4, PlainStep
  <1>3. CASE \/ ReadInvoice(b) \/ OweInvoice(b) \/ CountOverdue(b)
             \/ SuspendDebtor(b)
    <2>1. /\ UNCHANGED accountVars /\ UNCHANGED walletHistory
          /\ tasks[b].pc \in {"invoice", "due", "overdue", "suspend"}
      BY <1>3 DEF ReadInvoice, OweInvoice, CountOverdue, SuspendDebtor, TaskAt
    <2>2. PICK step \in {"over", "pay", "due", "overdue", "suspend"} :
            TaskTo(b, step)
      BY <1>3, Zenon DEF ReadInvoice, OweInvoice, CountOverdue, SuspendDebtor
    <2>3. Holding' = Holding
      BY <1>0, <2>1, <2>2, TaskToFacts, HandlerMoves
         DEF OtpSteps, TaskSteps, GoesOn
    <2> QED
      BY <2>1, <2>3, PurseStays, AccountStays, PlainStep
  <1> QED
    BY <1>1, <1>2, <1>3

\* The steps of the ProxyPay webhook.
LEMMA NoticeKeepsTheBooks ==
  ASSUME WalletTyped, ledger \in Int, NEW n \in Notices,
         \/ \E t \in TopUps : ReceiveNotice(n, t)
         \/ CheckNotice(n) \/ CreditTopUp(n) \/ ResumeCampaigns(n)
         \/ ForgetReference(n)
  PROVE  WalletMoney
  <1>0. n \in Tasks
    BY TaskNames
  <1>1. ASSUME NEW step \in TaskSteps, TaskTo(n, step), step \notin OtpSteps,
               tasks[n].pc \notin OtpSteps
        PROVE  Holding' = Holding
    BY <1>0, <1>1, TaskToFacts, HandlerMoves DEF GoesOn
  <1>2. ASSUME NEW t \in TopUps, ReceiveNotice(n, t)
        PROVE  WalletMoney
    <2> DEFINE new == [IdleTask EXCEPT !.pc = "check", !.topUp = t]
    <2>0. /\ UNCHANGED accountVars /\ UNCHANGED walletHistory
          /\ tasks[n].pc = "idle"
      BY <1>2, Zenon DEF ReceiveNotice, MayBegin, TaskAt
    <2>1. new.pc = "check"
      BY DEF IdleTask
    <2>2. tasks' = [tasks EXCEPT ![n] = new] \/ TaskTo(n, "over")
      BY <1>2, Zenon DEF ReceiveNotice
    <2> HIDE DEF new
    <2>3. Holding' = Holding
      <3>1. CASE tasks' = [tasks EXCEPT ![n] = new]
        BY <1>0, <2>0, <2>1, <3>1, HandlerSet, HandlerMoves DEF OtpSteps
      <3>2. CASE TaskTo(n, "over")
        BY <1>1, <2>0, <3>2 DEF OtpSteps, TaskSteps
      <3> QED
        BY <2>2, <3>1, <3>2
    <2> QED
      BY <2>0, <2>3, PurseStays, AccountStays, PlainStep
  <1>3. CASE CheckNotice(n) \/ ResumeCampaigns(n) \/ ForgetReference(n)
    <2>1. /\ UNCHANGED accountVars /\ UNCHANGED walletHistory
          /\ tasks[n].pc \in {"check", "resume", "forget"}
          /\ TaskTo(n, "over") \/ TaskTo(n, "credit") \/ TaskTo(n, "forget")
      BY <1>3 DEF CheckNotice, ResumeCampaigns, ForgetReference, TaskAt
    <2>2. Holding' = Holding
      BY <1>1, <2>1 DEF OtpSteps, TaskSteps
    <2> QED
      BY <2>1, <2>2, PurseStays, AccountStays, PlainStep
  <1>4. CASE CreditTopUp(n)
    <2>1. tasks[n].pc = "credit" /\ (TaskTo(n, "over") \/ TaskTo(n, "resume"))
      BY <1>4 DEF CreditTopUp, TaskAt
    <2>2. Holding' = Holding
      BY <1>1, <2>1 DEF OtpSteps, TaskSteps
    <2>3. CASE UNCHANGED <<accountVars, credited, walletHistory>>
      BY <2>2, <2>3, PurseStays, AccountStays, PlainStep
    <2>4. CASE /\ GiveBack(Amount) /\ Write(Amount)
               /\ walletHistory' = [walletHistory EXCEPT
                                      !.credits[tasks[n].topUp] = @ + 1]
      <3>1. PurseKept(0)
        BY <2>4, WalletParts DEF PurseKept, WalletTyped, WalletHistoryType
      <3>2. /\ balance' = balance + Amount /\ ledger' = ledger + Amount
            /\ Amount \in Int
        BY <2>4, WalletAssumption DEF GiveBack, Write
      <3> QED
        BY <2>2, <3>1, <3>2, PlainStep
    <2> QED
      BY <1>4, <2>3, <2>4 DEF CreditTopUp
  <1> QED
    BY <1>2, <1>3, <1>4

\* The steps of adjust-balance, which may overwrite the balance.
LEMMA CorrectionKeepsTheBooks ==
  ASSUME WalletTyped, ledger \in Int, NEW c \in Corrections,
         ReadBalance(c) \/ WriteBalance(c)
  PROVE  WalletMoney
  <1>0. c \in Tasks
    BY TaskNames
  <1>1. CASE ReadBalance(c)
    <2> DEFINE new == [IdleTask EXCEPT !.pc = "write", !.seen = balance]
    <2>0. /\ UNCHANGED accountVars /\ UNCHANGED walletHistory
          /\ tasks[c].pc = "idle" /\ tasks' = [tasks EXCEPT ![c] = new]
      BY <1>1, Zenon DEF ReadBalance, MayBegin, TaskAt
    <2>1. new.pc = "write"
      BY DEF IdleTask
    <2> HIDE DEF new
    <2>2. Holding' = Holding
      BY <1>0, <2>0, <2>1, HandlerSet, HandlerMoves DEF OtpSteps
    <2> QED
      BY <2>0, <2>2, PurseStays, AccountStays, PlainStep
  <1>2. CASE WriteBalance(c)
    <2>1. TaskTo(c, "over") /\ tasks[c].pc = "write"
      BY <1>2 DEF WriteBalance, TaskAt
    <2>2. Holding' = Holding
      BY <1>0, <2>1, TaskToFacts, HandlerMoves DEF OtpSteps, TaskSteps, GoesOn
    <2>3. PICK cents \in {-Amount, Amount} :
            balance' = tasks[c].seen + cents /\ ledger' = ledger + cents
      BY <1>2 DEF WriteBalance, Write
    <2>4. cents \in Int /\ tasks[c].seen \in Int /\ balance \in Int
      BY <1>0, TaskParts, WalletAssumption DEF WalletTyped
    <2>5. walletHistory' = [walletHistory EXCEPT
                              !.overwrote = @ \/ balance # tasks[c].seen]
      BY <1>2 DEF WriteBalance
    <2>6. /\ walletHistory'.first = walletHistory.first
          /\ walletHistory'.lost = walletHistory.lost
          /\ walletHistory'.overwrote
               = (walletHistory.overwrote \/ balance # tasks[c].seen)
      BY <2>5 DEF WalletTyped, WalletHistoryType
    <2>7. CASE balance = tasks[c].seen
      <3>1. PurseKept(0)
        BY <2>6, <2>7, WalletParts DEF PurseKept
      <3> QED
        BY <2>2, <2>3, <2>4, <2>7, <3>1, PlainStep
    <2>8. CASE balance # tasks[c].seen
      <3>1. WalletHeld \in Int /\ WalletHeld' = WalletHeld
        <4>1. /\ OtpCost * Cardinality(Holding) \in Int
              /\ walletHistory.lost \in Int
          BY HoldingIs, WalletParts, OtpCounts
        <4> QED
          BY <2>2, <2>6, <4>1 DEF WalletHeld
      <3>2. balance' \in Int /\ ledger' \in Int
        BY <2>3, <2>4
      <3>3. walletHistory'.overwrote
        BY <2>6, <2>8, Zenon
      <3> QED
        BY <2>6, <3>1, <3>2, <3>3, Zenon DEF WalletMoney
    <2> QED
      BY <2>7, <2>8
  <1> QED
    BY <1>1, <1>2

\* Money that is lost.
LEMMA LostFacts ==
  ASSUME WalletTyped, NEW cents \in Int, Lose(cents)
  PROVE  PurseKept(cents)
  BY DEF Lose, PurseKept, WalletTyped, WalletHistoryType

\* A call that goes from a step to another, both of the calls that hold money
\* or neither, keeps the books; so does one that begins to hold it, or ends.
LEMMA OtpGoesOn ==
  ASSUME WalletTyped, NEW o \in Otps, NEW step \in TaskSteps, TaskTo(o, step)
  PROVE  /\ step \in OtpSteps /\ tasks[o].pc \in OtpSteps =>
              Cardinality(Holding') = Cardinality(Holding) + 0
         /\ step \notin OtpSteps /\ tasks[o].pc \in OtpSteps =>
              Cardinality(Holding') = Cardinality(Holding) + -1
         /\ step \notin OtpSteps /\ tasks[o].pc \notin OtpSteps =>
              Holding' = Holding
  <1>0. o \in Tasks
    BY TaskNames
  <1>1. OtherTasks(o) /\ tasks'[o].pc = step
    BY <1>0, TaskToFacts DEF GoesOn
  <1>2. Cardinality(Holding) \in Nat
    BY HoldingIs
  <1> QED
    BY <1>0, <1>1, <1>2, HoldingMoves DEF HoldsOtp

\* A call begins: what it reserves, it holds.
LEMMA ReserveKeepsTheBooks ==
  ASSUME WalletTyped, ledger \in Int, NEW o \in Otps, ReserveOtp(o)
  PROVE  WalletMoney
  <1>a. o \in Tasks
    BY TaskNames
  <1>0. /\ o \in Tasks /\ tasks[o].pc = "idle" /\ UNCHANGED walletHistory
        /\ balance \in Int /\ OtpCost \in Nat \ {0}
    BY TaskNames, WalletAssumption DEF ReserveOtp, MayBegin, TaskAt, WalletTyped
  <1>1. CASE Reserve(OtpCost) /\ tasks' = [tasks EXCEPT ![o].pc = "telephony"]
             /\ ledger' = ledger
    <2> DEFINE new == [tasks[o] EXCEPT !.pc = "telephony"]
    <2>1. new.pc = "telephony"
      <3>1. "telephony" \in TaskSteps
        BY DEF TaskSteps
      <3> QED
        BY <1>a, <3>1, NewStep, Zenon
    <2>2. tasks' = [tasks EXCEPT ![o] = new]
      BY <1>a, <1>1 DEF WalletTyped
    <2> HIDE DEF new
    <2>3. OtherTasks(o) /\ tasks'[o].pc = "telephony"
      BY <1>0, <2>1, <2>2, HandlerSet
    <2>4. Cardinality(Holding') = Cardinality(Holding) + 1
      BY <1>0, <2>3, HoldingMoves DEF HoldsOtp, OtpSteps
    <2>5. balance' = balance + -OtpCost /\ ledger' = ledger + 0
      BY <1>0, <1>1 DEF Reserve, AfterReserve
    <2>6. -OtpCost \in Int /\ -OtpCost - 0 + 0 + OtpCost * 1 = 0
      BY <1>0
    <2>7. PurseKept(0) /\ OtpCost \in Int
      BY <1>0, PurseStays
    <2> QED
      BY <2>4, <2>5, <2>6, <2>7, BooksKept
  <1>2. CASE TaskTo(o, "over") /\ UNCHANGED accountVars
    <2>1. Holding' = Holding
      BY <1>0, <1>2, OtpGoesOn DEF TaskSteps, OtpSteps
    <2> QED
      BY <1>0, <1>2, <2>1, PurseStays, AccountStays, PlainStep
  <1> QED
    BY <1>1, <1>2 DEF ReserveOtp, accountVars

\* A call goes on, or ends with its money paid, given back or lost.
LEMMA OtpKeepsTheBooks ==
  ASSUME WalletTyped, ledger \in Int, NEW o \in Otps,
         GetOtpTelephony(o) \/ PlayOtp(o) \/ RecordOtp(o) \/ RefundOtp(o)
  PROVE  WalletMoney
  <1>0. /\ tasks[o].pc \in OtpSteps
        /\ balance \in Int /\ OtpCost \in Int /\ -OtpCost \in Int
        /\ OtpCost * 0 = 0 /\ OtpCost * (-1) = -OtpCost
    BY WalletAssumption
       DEF GetOtpTelephony, PlayOtp, RecordOtp, RefundOtp, TaskAt, WalletTyped,
           OtpSteps
  \* The call goes on, and nothing is paid.
  <1>1. ASSUME NEW step \in OtpSteps, TaskTo(o, step), UNCHANGED accountVars,
               UNCHANGED walletHistory \/ Lose(0)
        PROVE  WalletMoney
    <2>1. Cardinality(Holding') = Cardinality(Holding) + 0
      BY <1>0, <1>1, OtpGoesOn DEF TaskSteps, OtpSteps
    <2>2. 0 - 0 + 0 + OtpCost * 0 = 0
      BY <1>0
    <2> QED
      BY <1>1, <2>1, <2>2, PurseStays, LostFacts, AccountStays, BooksKept
  \* The call is over: its money is given back, written down or lost.
  <1>2. ASSUME TaskTo(o, "over"), NEW b \in Int, NEW l \in Int, NEW x \in Int,
               balance' = balance + b, ledger' = ledger + l, PurseKept(x),
               b - l + x = OtpCost
        PROVE  WalletMoney
    <2>1. Cardinality(Holding') = Cardinality(Holding) + -1
      BY <1>0, <1>2, OtpGoesOn DEF TaskSteps, OtpSteps
    <2>2. b - l + x + OtpCost * (-1) = 0
      BY <1>0, <1>2
    <2> QED
      BY <1>2, <2>1, <2>2, BooksKept
  <1>3. CASE UNCHANGED accountVars /\ TaskTo(o, "over") /\ Lose(OtpCost)
    <2>1. 0 - 0 + OtpCost = OtpCost
      BY <1>0
    <2> QED
      BY <1>0, <1>2, <1>3, <2>1, AccountStays, LostFacts
  <1>4. CASE GetOtpTelephony(o)
    BY <1>1, <1>3, <1>4 DEF GetOtpTelephony, OtpSteps
  <1>5. CASE PlayOtp(o)
    BY <1>1, <1>5 DEF PlayOtp, OtpSteps
  <1>6. CASE RecordOtp(o)
    <2>1. CASE Write(-OtpCost) /\ TaskTo(o, "over") /\ UNCHANGED walletHistory
               /\ UNCHANGED balance
      <3>1. /\ balance' = balance + 0 /\ ledger' = ledger + -OtpCost
            /\ 0 - (-OtpCost) + 0 = OtpCost
        BY <1>0, <2>1 DEF Write
      <3> QED
        BY <1>0, <1>2, <2>1, <3>1, PurseStays
    <2> QED
      BY <1>1, <1>3, <1>6, <2>1 DEF RecordOtp, OtpSteps, accountVars
  <1>7. CASE RefundOtp(o)
    <2>1. /\ balance' = balance + OtpCost /\ ledger' = ledger + 0
          /\ OtpCost - 0 + 0 = OtpCost /\ UNCHANGED walletHistory
          /\ TaskTo(o, "over")
      BY <1>0, <1>7 DEF RefundOtp, GiveBack
    <2> QED
      BY <1>0, <1>2, <2>1, PurseStays
  <1> QED
    BY <1>4, <1>5, <1>6, <1>7

\* A crash loses what the calls held.
LEMMA CrashKeepsTheBooks ==
  ASSUME WalletTyped, ledger \in Int, CrashWallet
  PROVE  WalletMoney
  <1>1. UNCHANGED accountVars
    BY DEF CrashWallet
  <1>2. /\ walletHistory'.first = walletHistory.first
        /\ walletHistory'.overwrote = walletHistory.overwrote
        /\ walletHistory'.lost
             = walletHistory.lost + OtpCost * Cardinality(Holding)
    BY DEF CrashWallet, WalletTyped, WalletHistoryType
  <1>3. Holding' = {}
    <2>1. \A t \in Tasks : tasks'[t].pc \in {"idle", "over"}
      BY OverTask DEF CrashWallet, IdleTask
    <2> QED
      BY <2>1, TaskNames DEF Holding
  <1>4. /\ OtpCost * Cardinality(Holding) \in Int /\ walletHistory.lost \in Int
        /\ OtpCost * Cardinality(Holding') = 0 /\ balance \in Int
    BY <1>3, HoldingIs, OtpCounts, WalletParts, WalletAssumption, FS_EmptySet
       DEF WalletTyped
  <1> QED
    BY <1>1, <1>2, <1>4 DEF WalletMoney, WalletHeld, accountVars

\* What the users and the clock do touches no money.
LEMMA WorldKeepsTheBooks ==
  ASSUME WalletTyped, ledger \in Int,
         \/ \E t \in TopUps : AskTopUp(t) \/ PayTopUp(t)
         \/ NextMonth \/ SetTenantStatus \/ PauseCampaign
  PROVE  WalletMoney
  <1>1. UNCHANGED accountVars /\ UNCHANGED tasks
    BY Zenon DEF AskTopUp, PayTopUp, NextMonth, SetTenantStatus, PauseCampaign
  <1>2. Holding' = Holding
    BY <1>1 DEF Holding
  <1>3. \/ UNCHANGED walletHistory
        \/ walletHistory' = [walletHistory EXCEPT !.faults = @ + 1]
    BY Zenon DEF AskTopUp, PayTopUp, NextMonth, SetTenantStatus, PauseCampaign
  <1>4. PurseKept(0)
    BY <1>3, WalletParts DEF PurseKept, WalletTyped, WalletHistoryType
  <1> QED
    BY <1>1, <1>2, <1>4, AccountStays, PlainStep

\* Every step of Wallet keeps the books.
LEMMA WalletMoneyMoves ==
  ASSUME WalletTyped, ledger \in Int, WalletNext
  PROVE  WalletMoney
  BY BillingKeepsTheBooks, NoticeKeepsTheBooks, CorrectionKeepsTheBooks,
     ReserveKeepsTheBooks, OtpKeepsTheBooks, WorldKeepsTheBooks,
     CrashKeepsTheBooks
     DEF WalletNext

-----------------------------------------------------------------------------
(* The books of Sms and Wallet together.                                   *)

\* Both parts work on the account, step by step and in any order.
bookVars == <<accountVars, smsVars, walletVars>>
BookStep == \/ SmsNext /\ UNCHANGED walletVars
            \/ WalletNext /\ UNCHANGED smsVars
Together == AccountInit /\ SmsInit /\ WalletInit /\ [][BookStep]_bookVars

Books == \/ walletHistory.overwrote
         \/ balance = walletHistory.first + ledger - WalletHeld - SmsHeld
LedgerInv ==
  /\ SmsInv /\ WalletInv /\ SmsRest /\ WalletRest /\ ledger \in Int
  /\ \A m \in Messages : TallyFits(m)
  /\ Books

\* The invariant holds at first.
LEMMA LedgerInvInit ==
  ASSUME AccountInit, SmsInit, WalletInit
  PROVE  LedgerInv
  <1>1. AccountInit /\ SmsInit /\ WalletInit
    OBVIOUS
  <1>2. SmsInv /\ WalletInv /\ \A m \in Messages : TallyFits(m)
    BY <1>1, SmsInvInit, WalletInvInit, TallyFirst
  <1>3. SmsRest /\ WalletRest
    <2>1. SmsRest
      BY DEF SmsInit, SmsRest
    <2>2. WalletRest
      BY DEF WalletInit, WalletRest
    <2> QED
      BY <2>1, <2>2
  <1>4. /\ balance \in Int /\ ledger = 0 /\ walletHistory.first = balance
        /\ walletHistory.lost = 0
    BY <1>1, AccountAssumption DEF AccountInit, WalletInit
  <1>5. WalletHeld = 0
    <2>1. Holding = {}
      BY <1>1, TaskNames DEF WalletInit, Holding
    <2> QED
      BY <1>4, <2>1, FS_EmptySet, OtpCounts, WalletAssumption DEF WalletHeld
  <1>6. SmsHeld = 0
    <2>1. \A m \in Messages :
            smsHistory.taken[m] - Cost * smsHistory.ledger[m] = 0
      BY <1>1, SmsAssumption DEF SmsInit
    <2> QED
      BY <2>1, HeldNow, NothingHeld
  <1> QED
    BY <1>2, <1>3, <1>4, <1>5, <1>6 DEF LedgerInv, Books

\* What the messages hold is a number.
LEMMA SmsHeldType ==
  ASSUME SmsInv
  PROVE  SmsHeld \in Int
  <1>1. \A m \in Messages :
          smsHistory.taken[m] - Cost * smsHistory.ledger[m] \in Int
    BY HistoryParts, SmsAssumption DEF SmsInv
  <1> QED
    BY <1>1, HeldType, HeldNow

\* What the calls hold, or failures have lost, is a number.
LEMMA WalletHeldType ==
  ASSUME WalletTyped
  PROVE  WalletHeld \in Int
  <1>1. /\ OtpCost * Cardinality(Holding) \in Int
        /\ walletHistory.lost \in Int
    BY HoldingIs, OtpCounts, WalletParts
  <1> QED
    BY <1>1 DEF WalletHeld

\* A step of Sms, at which the wallet rests but for the account.
LEMMA SmsKeepsLedgerInv ==
  ASSUME LedgerInv, SmsNext, UNCHANGED walletVars
  PROVE  LedgerInv'
  <1>0. /\ SmsInv /\ WalletInv /\ WalletTyped /\ SmsRest /\ WalletRest
        /\ ledger \in Int /\ \A m \in Messages : TallyFits(m)
        /\ Books /\ balance \in Int
    BY DEF LedgerInv, WalletInv, WalletTyped
  <1>1. SmsInv' /\ SmsEffect /\ SmsTyped'
    BY <1>0, SmsInvStays DEF SmsInv
  <1>2. \A m \in Messages : TallyFits(m)'
    BY <1>0, <1>1, TallyStays
  <1>3. SmsRest'
    BY <1>0, SmsRestStays
  <1>4. /\ balance' \in Int /\ ledger' \in Int
        /\ SmsHeld \in Int /\ SmsHeld' \in Int
        /\ balance' - ledger' + SmsHeld' = balance - ledger + SmsHeld
    <2>1. SmsMoney
      BY <1>0, SmsMoneyMoves
    <2> QED
      BY <1>0, <2>1, SmsKeepsTheBooks
  <1>5. /\ walletHistory' = walletHistory /\ tasks' = tasks
        /\ invoices' = invoices /\ period' = period /\ tenant' = tenant
        /\ credited' = credited /\ topUps' = topUps /\ paused' = paused
    BY DEF walletVars, billingVars, topUpVars
  <1>6. WalletInv' /\ WalletRest'
    BY <1>0, <1>4, <1>5
       DEF WalletInv, WalletTyped, BillingFits, NoticeFits, BillingsFit,
           InvoicesFit, CreditsFit, CanPay, WalletRest
  <1>7. Books'
    <2>1. WalletHeld' = WalletHeld
      BY <1>5 DEF WalletHeld, Holding
    <2>2. WalletHeld \in Int /\ walletHistory.first \in Int
      BY <1>0, WalletHeldType, WalletParts
    <2>3. CASE walletHistory.overwrote
      BY <1>5, <2>3 DEF Books
    <2>4. CASE balance = walletHistory.first + ledger - WalletHeld - SmsHeld
      BY <1>0, <1>4, <1>5, <2>1, <2>2, <2>4 DEF Books
    <2> QED
      BY <1>0, <2>3, <2>4 DEF Books
  <1> QED
    BY <1>1, <1>2, <1>3, <1>4, <1>6, <1>7 DEF LedgerInv

\* A step of Wallet, at which the messages rest.
LEMMA WalletKeepsLedgerInv ==
  ASSUME LedgerInv, WalletNext, UNCHANGED smsVars
  PROVE  LedgerInv'
  <1>0. /\ SmsInv /\ WalletInv /\ WalletTyped /\ SmsRest /\ WalletRest
        /\ ledger \in Int /\ \A m \in Messages : TallyFits(m)
        /\ Books /\ balance \in Int
    BY DEF LedgerInv, WalletInv, WalletTyped
  <1>1. WalletInv'
    <2>1. WalletTyped' /\ WalletEffect
      BY <1>0, SplitWalletNext DEF WalletInv
    <2> QED
      BY <1>0, <2>1, WalletInvHolds
  <1>2. WalletRest'
    BY <1>0, WalletRestStays
  <1>3. WalletMoney
    BY <1>0, WalletMoneyMoves
  <1>4. /\ smsHistory' = smsHistory /\ senders' = senders /\ sms' = sms
        /\ smsConfig' = smsConfig /\ smsCampaign' = smsCampaign
    BY DEF smsVars, campaignVars
  <1>5. SmsInv'
    BY <1>0, SmsInvStutters
  <1>6. SmsRest' /\ SmsHeld' = SmsHeld
    BY <1>0, <1>4, HeldNow DEF SmsRest
  <1>7. \A m \in Messages : TallyFits(m)'
    BY <1>0, <1>4
       DEF TallyFits, Able, AbleTo, Paying, Those, HasAt, Msg
  <1>8. Books'
    <2>1. SmsHeld \in Int /\ walletHistory.first \in Int
      BY <1>0, SmsHeldType, WalletParts
    <2>2. CASE walletHistory'.overwrote
      BY <2>2 DEF Books
    <2>3. CASE /\ balance = walletHistory.first + ledger - WalletHeld - SmsHeld
               /\ balance' - ledger' + WalletHeld' = balance - ledger + WalletHeld
      BY <1>0, <1>3, <1>6, <2>1, <2>3 DEF Books, WalletMoney
    <2> QED
      BY <1>0, <1>3, <2>2, <2>3 DEF Books, WalletMoney
  <1> QED
    BY <1>1, <1>2, <1>3, <1>5, <1>6, <1>7, <1>8 DEF LedgerInv, WalletMoney

\* Nothing changes.
LEMMA LedgerInvStutters ==
  ASSUME LedgerInv, UNCHANGED bookVars
  PROVE  LedgerInv'
  <1>0. /\ SmsInv /\ WalletInv /\ SmsRest /\ WalletRest
        /\ ledger \in Int /\ \A m \in Messages : TallyFits(m)
        /\ Books
    BY DEF LedgerInv
  <1>1. /\ UNCHANGED smsVars /\ UNCHANGED walletVars /\ UNCHANGED accountVars
        /\ balance' = balance /\ ledger' = ledger
        /\ smsHistory' = smsHistory /\ senders' = senders /\ sms' = sms
        /\ smsConfig' = smsConfig /\ smsCampaign' = smsCampaign
        /\ walletHistory' = walletHistory /\ tasks' = tasks
        /\ topUps' = topUps /\ paused' = paused
    BY DEF bookVars, smsVars, campaignVars, walletVars, billingVars, topUpVars,
           accountVars
  <1>2. SmsInv' /\ WalletInv'
    BY <1>0, <1>1, SmsInvStutters, WalletInvStutters DEF walletSpecVars
  <1>3. SmsRest' /\ WalletRest'
    BY <1>0, <1>1 DEF SmsRest, WalletRest
  <1>4. \A m \in Messages : TallyFits(m)'
    BY <1>0, <1>1
       DEF TallyFits, Able, AbleTo, Paying, Those, HasAt, Msg
  <1>5. SmsHeld' = SmsHeld /\ WalletHeld' = WalletHeld
    BY <1>1, HeldNow DEF WalletHeld, Holding
  <1>6. Books'
    BY <1>0, <1>1, <1>5 DEF Books
  <1> QED
    BY <1>0, <1>1, <1>2, <1>3, <1>4, <1>6 DEF LedgerInv

\* The invariant says more than LedgerExplainsBalance.
LEMMA LedgerInvExplains ==
  ASSUME LedgerInv
  PROVE  LedgerExplainsBalance
  <1>1. TypeOK /\ Books
    BY MoneyTypes DEF LedgerInv
  <1> QED
    BY <1>1 DEF LedgerExplainsBalance, Books

\* Whatever is sent, called, billed, paid, lost or stopped, messages and wallet
\* in any order: the balance is what it was at first, moved by the rows of the
\* ledger, less what messages and calls under way hold and failures have lost;
\* only a correction that writes a sum computed from an older balance makes
\* the two part.
THEOREM LedgerExplainsTogether == Together => []LedgerExplainsBalance
  <1>1. AccountInit /\ SmsInit /\ WalletInit => LedgerInv
    BY LedgerInvInit
  <1>2. LedgerInv /\ [BookStep]_bookVars => LedgerInv'
    BY SmsKeepsLedgerInv, WalletKeepsLedgerInv, LedgerInvStutters DEF BookStep
  <1>3. LedgerInv => LedgerExplainsBalance
    BY LedgerInvExplains
  <1> QED
    BY <1>1, <1>2, <1>3, PTL DEF Together

\* In particular when one of the two parts rests, as TLC checks it.
THEOREM LedgerAlwaysExplains == Spec => []LedgerExplainsBalance
  <1>1. Init => LedgerInv
    BY LedgerInvInit DEF Init
  <1>2. LedgerInv /\ [Next]_moneyVars => LedgerInv'
    <2>1. [Next]_moneyVars => [BookStep]_bookVars
      BY DEF Next, BookStep, moneyVars, bookVars
    <2> QED
      BY <2>1, SmsKeepsLedgerInv, WalletKeepsLedgerInv, LedgerInvStutters
         DEF BookStep
  <1>3. LedgerInv => LedgerExplainsBalance
    BY LedgerInvExplains
  <1> QED
    BY <1>1, <1>2, <1>3, PTL DEF Spec
=============================================================================
