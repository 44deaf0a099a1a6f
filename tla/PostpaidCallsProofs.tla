------------------------ MODULE PostpaidCallsProofs ------------------------
(***************************************************************************)
(* Theorems about calls charged after they happen, for any calls, price,   *)
(* durations and bound on the failures.                                    *)
(***************************************************************************)
EXTENDS PostpaidCalls, BillingProofs

-----------------------------------------------------------------------------
(* Types.                                                                  *)

\* The cost of a duration is a number of cents; no conversation costs nothing.
LEMMA CostOfType ==
  /\ \A secs \in Nat : CostOf(secs) \in Nat
  /\ CostOf(0) = 0
  <1>1. Price \in PriceConfig /\ Price.pricePerMinuteCents \in Nat
    BY PostpaidAssumption DEF PriceConfig
  <1>2. CeilDiv(0, 60) = 0 /\ RoundDiv(0, 60) = 0
    BY SMT DEF CeilDiv, RoundDiv
  <1>3. 0 * Price.pricePerMinuteCents = 0
    BY <1>1, SMT
  <1>4. CostOf(0) = 0
    BY <1>2, <1>3 DEF CostOf, ComputeCallCost
  <1>5. QED
    BY <1>1, <1>4, CostNat DEF CostOf

\* Replacing, ending or starting tasks keeps their type.
LEMMA TaskTypes ==
  ASSUME TypeOK, NEW c \in Calls
  PROVE  /\ \A t : Done(c, t) => tasks' \in [Calls -> SUBSET Task]
         /\ \A t, u : u \in Task /\ Then(c, t, u)
                      => tasks' \in [Calls -> SUBSET Task]
         /\ \A ts : ts \subseteq Task /\ Started(c, ts)
                      => tasks' \in [Calls -> SUBSET Task]
         /\ \A k \in Steps : New(k, 1) \in Task /\ New(k, 2) \in Task
         /\ \A t \in Task, k \in Steps : [t EXCEPT !.k = k] \in Task
  <1>1. tasks \in [Calls -> SUBSET Task]
    BY DEF TypeOK
  <1>2. \A t : Done(c, t) => tasks' \in [Calls -> SUBSET Task]
    BY <1>1 DEF Done
  <1>3. \A t, u : u \in Task /\ Then(c, t, u) => tasks' \in [Calls -> SUBSET Task]
    BY <1>1 DEF Then
  <1>4. \A ts : ts \subseteq Task /\ Started(c, ts)
               => tasks' \in [Calls -> SUBSET Task]
    BY <1>1 DEF Started
  <1>5. \A k \in Steps : New(k, 1) \in Task /\ New(k, 2) \in Task
    BY DEF New, Task
  <1>6. \A t \in Task, k \in Steps : [t EXCEPT !.k = k] \in Task
    BY DEF Task
  <1>7. QED
    BY <1>2, <1>3, <1>4, <1>5, <1>6

\* A closed row is a row.
LEMMA ClaimedType ==
  ASSUME TypeOK, NEW c \in Calls, NEW t \in Task, Claimed(c, t)
  PROVE  row' \in [Calls -> Row]
  <1>1. row[c] \in Row /\ t.secs \in Nat
    BY DEF TypeOK, Task
  <1>2. QED
    BY <1>1 DEF TypeOK, Claimed, Row

\* Going on to the charge keeps the type of the tasks.
LEMMA ChargeType ==
  ASSUME TypeOK, NEW c \in Calls, NEW t \in Task, Charge(c, t)
  PROVE  tasks' \in [Calls -> SUBSET Task]
  <1>1. [t EXCEPT !.k = "reserve"] \in Task
    BY TaskTypes DEF Steps
  <1>2. QED
    BY <1>1, TaskTypes DEF Charge

\* Taking a cost keeps the types of the balance and of what was taken.
LEMMA TakeFromType ==
  ASSUME TypeOK, NEW c \in Calls, NEW t \in Task, TakeFrom(c, CostOf(t.secs))
  PROVE  balance' \in Int /\ taken' \in [Calls -> Nat]
  <1>1. CostOf(t.secs) \in Nat
    BY CostOfType DEF Task
  <1>2. balance \in Int /\ taken[c] + CostOf(t.secs) \in Nat
    BY <1>1 DEF TypeOK
  <1>3. QED
    BY <1>1, <1>2 DEF TypeOK, TakeFrom

HistoryType == [late: SUBSET Calls, reconciled: SUBSET Calls, lost: Nat,
                writes: Nat, crashes: Nat]

\* Every note in the history keeps its type.
LEMMA HistoryTypes ==
  ASSUME TypeOK, NEW c \in Calls
  PROVE  /\ history \in HistoryType
         /\ [history EXCEPT !.late = @ \cup {c}] \in HistoryType
         /\ [history EXCEPT !.reconciled = @ \cup {c}] \in HistoryType
         /\ [history EXCEPT !.writes = @ + 1] \in HistoryType
         /\ [history EXCEPT !.lost = @ + 1] \in HistoryType
  BY DEF TypeOK, HistoryType

\* The steps of trunk, extensions and phones keep the type.
LEMMA TypeEnvironment ==
  ASSUME TypeOK, NEW c \in Calls, Environment(c)
  PROVE  TypeOK'
  <1> USE DEF TrunkStep, MoneyKept
  <1>1. CASE CallComesIn(c)
    BY <1>1, TaskTypes DEF CallComesIn, TypeOK, Steps
  <1>2. CASE LegAnswers(c)
    <2>1. tasks' \in [Calls -> SUBSET Task]
      BY <1>2, TaskTypes DEF LegAnswers, Steps
    <2>2. talk' \in [Calls -> Int]
      BY <1>2 DEF LegAnswers, TypeOK
    <2>3. QED
      BY <1>2, <2>1, <2>2 DEF LegAnswers, TypeOK
  <1>3. CASE NobodyAnswers(c)
    BY <1>3 DEF NobodyAnswers, TypeOK
  <1>4. CASE TrunkHangsUp(c)
    <2>1. \A s \in Talks \cup {0} : s \in Int
      BY PostpaidAssumption
    <2>2. tasks' \in [Calls -> SUBSET Task]
      BY <1>4, TaskTypes DEF TrunkHangsUp, Steps
    <2>3. QED
      BY <1>4, <2>1, <2>2 DEF TrunkHangsUp, TypeOK
  <1>5. CASE PhoneHangsUp(c)
    <2>1. \A s \in Talks \cup {0} : s \in Int
      BY PostpaidAssumption
    <2>2. tasks' \in [Calls -> SUBSET Task]
      BY <1>5, TaskTypes DEF PhoneHangsUp, Steps
    <2>3. QED
      BY <1>5, <2>1, <2>2 DEF PhoneHangsUp, TypeOK
  <1>6. CASE CdrAgain(c)
    BY <1>6, TaskTypes DEF CdrAgain, TypeOK, Steps
  <1>7. QED
    BY <1>1, <1>2, <1>3, <1>4, <1>5, <1>6 DEF Environment

\* The steps that open and close a row keep the type.
LEMMA TypeRecords ==
  ASSUME TypeOK, NEW c \in Calls,
         OpenRow(c) \/ MarkAnswered(c) \/ FindRow(c) \/ Claim(c) \/ FindCdr(c)
           \/ CreateCdr(c)
  PROVE  TypeOK'
  <1> USE DEF MoneyKept, World
  <1>0. /\ \A k : TasksOf(c, k) \subseteq Task
        /\ row[c] \in Row
    BY DEF TypeOK, TasksOf
  <1>1. CASE OpenRow(c)
    <2>1. [row EXCEPT ![c].status = "RINGING"] \in [Calls -> Row]
      BY <1>0 DEF TypeOK, Row
    <2>2. tasks' \in [Calls -> SUBSET Task]
      BY <1>1, TaskTypes DEF OpenRow
    <2>3. QED
      BY <1>1, <2>1, <2>2 DEF OpenRow, TypeOK
  <1>2. CASE MarkAnswered(c)
    <2>1. [row EXCEPT ![c].status = "IN_PROGRESS", ![c].answered = TRUE]
            \in [Calls -> Row]
      BY <1>0 DEF TypeOK, Row
    <2>2. tasks' \in [Calls -> SUBSET Task]
      BY <1>2, TaskTypes DEF MarkAnswered
    <2>3. history' \in HistoryType
      BY <1>2, HistoryTypes DEF MarkAnswered
    <2>4. QED
      BY <1>2, <2>1, <2>2, <2>3 DEF MarkAnswered, TypeOK, HistoryType
  <1>3. CASE FindRow(c)
    <2>1. PICK t \in TasksOf(c, "find") : FindRow(c)!(t)
      BY <1>3 DEF FindRow
    <2>2. BilledSecs(c) \in Nat /\ row[c].answered \in BOOLEAN /\ t \in Task
      BY <1>0 DEF BilledSecs, TypeOK, Row
    <2>3. [t EXCEPT !.k = "claim", !.answered = row[c].answered,
                    !.secs = BilledSecs(c)] \in Task
      BY <2>2 DEF Task, Steps
    <2>4. tasks' \in [Calls -> SUBSET Task]
      BY <2>1, <2>3, TaskTypes
    <2>5. QED
      BY <2>1, <2>4 DEF TypeOK
  <1>4. CASE Claim(c)
    <2>1. PICK t \in TasksOf(c, "claim") : Claim(c)!(t)
      BY <1>4 DEF Claim
    <2>2. row' \in [Calls -> Row] /\ tasks' \in [Calls -> SUBSET Task]
      BY <1>0, <2>1, ClaimedType, ChargeType, TaskTypes DEF TypeOK
    <2>3. QED
      BY <2>1, <2>2 DEF TypeOK
  <1>5. CASE FindCdr(c)
    <2>1. PICK t \in TasksOf(c, "cdr") : FindCdr(c)!(t)
      BY <1>5 DEF FindCdr
    <2>2. /\ ReportedSecs(c) \in Nat /\ t \in Task
          /\ (ReportedSecs(c) > 0) \in BOOLEAN
      BY <1>0 DEF TypeOK, ReportedSecs
    <2>3. [t EXCEPT !.k = "create", !.secs = ReportedSecs(c),
                    !.answered = ReportedSecs(c) > 0] \in Task
      BY <2>2 DEF Task, Steps
    <2>4. tasks' \in [Calls -> SUBSET Task]
      BY <2>1, <2>3, TaskTypes
    <2>5. QED
      BY <2>1, <2>4 DEF TypeOK
  <1>6. CASE CreateCdr(c)
    <2>1. PICK t \in TasksOf(c, "create") : CreateCdr(c)!(t)
      BY <1>6 DEF CreateCdr
    <2>2. row' \in [Calls -> Row] /\ tasks' \in [Calls -> SUBSET Task]
      BY <1>0, <2>1, ClaimedType, ChargeType, TaskTypes DEF TypeOK
    <2>3. QED
      BY <2>1, <2>2 DEF TypeOK
  <1>7. QED
    BY <1>1, <1>2, <1>3, <1>4, <1>5, <1>6

\* The steps of the charge keep the type.
LEMMA TypeCharge ==
  ASSUME TypeOK, NEW c \in Calls, ReserveCost(c) \/ DebitCost(c) \/ RecordCharge(c)
  PROVE  TypeOK'
  <1> USE DEF World
  <1>0. \A k : TasksOf(c, k) \subseteq Task
    BY DEF TypeOK, TasksOf
  <1>1. CASE ReserveCost(c)
    <2>1. PICK t \in TasksOf(c, "reserve") : ReserveCost(c)!(t)
      BY <1>1 DEF ReserveCost
    <2>2. t \in Task /\ [t EXCEPT !.k = "record"] \in Task
                     /\ [t EXCEPT !.k = "debit"] \in Task
      BY <1>0, TaskTypes DEF Steps
    <2>3. tasks' \in [Calls -> SUBSET Task]
      BY <2>1, <2>2, TaskTypes
    <2>4. balance' \in Int /\ taken' \in [Calls -> Nat]
      BY <2>1, <2>2, TakeFromType DEF TypeOK
    <2>5. QED
      BY <2>1, <2>3, <2>4 DEF TypeOK
  <1>2. CASE DebitCost(c)
    <2>1. PICK t \in TasksOf(c, "debit") : DebitCost(c)!(t)
      BY <1>2 DEF DebitCost
    <2>2. t \in Task /\ [t EXCEPT !.k = "record"] \in Task
      BY <1>0, TaskTypes DEF Steps
    <2>3. tasks' \in [Calls -> SUBSET Task]
      BY <2>1, <2>2, TaskTypes
    <2>4. balance' \in Int /\ taken' \in [Calls -> Nat]
      BY <2>1, <2>2, TakeFromType
    <2>5. QED
      BY <2>1, <2>3, <2>4 DEF TypeOK
  <1>3. CASE RecordCharge(c)
    <2>1. PICK t \in TasksOf(c, "record") : RecordCharge(c)!(t)
      BY <1>3 DEF RecordCharge
    <2>2. CostOf(t.secs) \in Nat
      BY <1>0, CostOfType DEF Task
    <2>3. ledger[c].rows + 1 \in Nat /\ ledger[c].sum + CostOf(t.secs) \in Nat
      BY <2>2 DEF TypeOK
    <2>4. ledger' \in [Calls -> [rows: Nat, sum: Nat]]
      BY <2>1, <2>3 DEF TypeOK
    <2>5. tasks' \in [Calls -> SUBSET Task]
      BY <2>1, TaskTypes
    <2>6. QED
      BY <2>1, <2>4, <2>5 DEF TypeOK
  <1>4. QED
    BY <1>1, <1>2, <1>3

\* The worker and the failures of one call keep the type.
LEMMA TypeFailures ==
  ASSUME TypeOK, NEW c \in Calls,
         ReadStale(c) \/ WriteStale(c) \/ StepFails(c) \/ HangupIsMissed(c)
  PROVE  TypeOK'
  <1> USE DEF MoneyKept, World
  <1>1. CASE ReadStale(c)
    BY <1>1, HistoryTypes DEF ReadStale, TypeOK, HistoryType
  <1>2. CASE WriteStale(c)
    <2>1. [row EXCEPT ![c].status = "FAILED"] \in [Calls -> Row]
      BY DEF TypeOK, Row
    <2>2. QED
      BY <1>2, <2>1 DEF WriteStale, TypeOK
  <1>3. CASE StepFails(c)
    <2>1. tasks' \in [Calls -> SUBSET Task]
      BY <1>3, TaskTypes DEF StepFails
    <2>2. QED
      BY <1>3, <2>1, HistoryTypes DEF StepFails, TypeOK, HistoryType
  <1>4. CASE HangupIsMissed(c)
    BY <1>4, HistoryTypes DEF HangupIsMissed, TypeOK, HistoryType
  <1>5. QED
    BY <1>1, <1>2, <1>3, <1>4

\* Every step keeps the type.
LEMMA TypeStep ==
  ASSUME TypeOK, [Next]_vars
  PROVE  TypeOK'
  <1>1. ASSUME NEW c \in Calls, Handler(c) PROVE TypeOK'
    BY <1>1, TypeRecords, TypeCharge DEF Handler
  <1>2. CASE Crash
    <2>1. history.crashes + 1 \in Nat
      BY DEF TypeOK
    <2>2. QED
      BY <1>2, <2>1 DEF Crash, MoneyKept, TypeOK
  <1>3. CASE UNCHANGED vars
    BY <1>3 DEF vars, TypeOK
  <1>4. QED
    BY <1>1, <1>2, <1>3, TypeEnvironment, TypeFailures DEF Next

\* Every variable keeps its type.
THEOREM PostpaidTypeCorrect == Spec => []TypeOK
  <1>1. Init => TypeOK
    BY PostpaidAssumption DEF Init, TypeOK, Row
  <1>2. TypeOK /\ [Next]_vars => TypeOK'
    BY TypeStep
  <1>3. QED
    BY <1>1, <1>2, PTL DEF Spec

-----------------------------------------------------------------------------
(* Charging once: the inductive invariant.                                 *)

Paying(c) == {t \in tasks[c] : t.k \in {"reserve", "debit"}}

\* At most one handler is about to pay for a call, only once its row is final
\* and nothing was taken for it, and it pays what the row says.
ChargedByOne ==
  \A c \in Calls :
    /\ \A t \in Paying(c) : /\ c \in Closed /\ taken[c] = 0
                            /\ t.secs = row[c].billed /\ CostOf(t.secs) > 0
    /\ \A t, u \in Paying(c) : t = u
    /\ c \notin Closed => taken[c] = 0

\* What the task operators do to the payers of each call.
LEMMA PayingAfter ==
  ASSUME TypeOK, NEW c \in Calls, NEW d \in Calls
  PROVE  /\ \A t : Done(c, t) => Paying(d)' \subseteq Paying(d)
         /\ \A t, u : Then(c, t, u) =>
              /\ d # c => Paying(d)' = Paying(d)
              /\ d = c => Paying(d)' \subseteq (Paying(d) \ {t}) \cup {u}
              /\ u.k \notin {"reserve", "debit"} => Paying(d)' \subseteq Paying(d)
              /\ d = c /\ u.k \notin {"reserve", "debit"}
                   => Paying(d)' \subseteq Paying(d) \ {t}
         /\ \A k, n : k \in Steps \ {"reserve", "debit"} =>
              /\ Started(c, {New(k, n)}) => Paying(d)' \subseteq Paying(d)
              /\ Started(c, {New(k, 1), New(k, 2)}) => Paying(d)' \subseteq Paying(d)
  <1>1. tasks \in [Calls -> SUBSET Task]
    BY DEF TypeOK
  <1>2. \A t : Done(c, t) => Paying(d)' \subseteq Paying(d)
    BY <1>1 DEF Done, Paying
  <1>3. \A t, u : Then(c, t, u) =>
          /\ d # c => Paying(d)' = Paying(d)
          /\ d = c => Paying(d)' \subseteq (Paying(d) \ {t}) \cup {u}
          /\ u.k \notin {"reserve", "debit"} => Paying(d)' \subseteq Paying(d)
          /\ d = c /\ u.k \notin {"reserve", "debit"}
               => Paying(d)' \subseteq Paying(d) \ {t}
    BY <1>1 DEF Then, Paying
  <1>4. \A k, n : k \in Steps \ {"reserve", "debit"} =>
          /\ Started(c, {New(k, n)}) => Paying(d)' \subseteq Paying(d)
          /\ Started(c, {New(k, 1), New(k, 2)}) => Paying(d)' \subseteq Paying(d)
    BY <1>1 DEF Started, New, Paying
  <1>5. QED
    BY <1>2, <1>3, <1>4

\* The payers cannot grow, the open calls stay unpaid, and the final rows stay.
LEMMA ChargedByOneKept ==
  ASSUME TypeOK, ChargedByOne, taken' = taken,
         \A c \in Calls : Paying(c)' \subseteq Paying(c),
         \A c \in Calls : row'[c].billed = row[c].billed,
         Closed \subseteq Closed'
  PROVE  ChargedByOne'
  BY DEF ChargedByOne

\* Rows that stay leave what is closed and what it costs.
LEMMA RowKept ==
  ASSUME row' = row
  PROVE  Closed' = Closed /\ Bill' = Bill
  BY DEF Closed, Bill

\* A row that moves from one open status to another is neither closed nor billed.
LEMMA RowStaysOpen ==
  ASSUME TypeOK, NEW c \in Calls, row[c].status \in OpenStatus,
         row' \in [Calls -> Row], row'[c].status \in OpenStatus,
         row'[c].billed = row[c].billed,
         \A d \in Calls \ {c} : row'[d] = row[d]
  PROVE  Closed' = Closed /\ Bill' = Bill
  BY DEF TypeOK, Closed, Bill

\* Opening a row and marking its answer close and bill nothing.
LEMMA OpenAndMarkKeepRows ==
  ASSUME TypeOK, NEW c \in Calls, OpenRow(c) \/ MarkAnswered(c)
  PROVE  /\ Closed' = Closed /\ Bill' = Bill
         /\ \A d \in Calls : row'[d].billed = row[d].billed
  <1>1. row[c] \in Row /\ row \in [Calls -> Row]
    BY DEF TypeOK
  <1>2. row' \in [Calls -> Row]
    BY TypeRecords DEF TypeOK
  <1>3. CASE row' = row
    BY <1>3, RowKept
  <1>4. CASE row' # row
    <2>1. /\ row[c].status \in {"NONE", "RINGING"}
          /\ row'[c].status \in {"RINGING", "IN_PROGRESS"}
          /\ row'[c].billed = row[c].billed
          /\ \A d \in Calls \ {c} : row'[d] = row[d]
      BY <1>1, <1>4 DEF OpenRow, MarkAnswered, Row
    <2>2. QED
      BY <1>2, <2>1, RowStaysOpen DEF OpenStatus
  <1>5. QED
    BY <1>3, <1>4

\* Closing a row that is open is PostpaidCharge's Close.
LEMMA RowCloses ==
  ASSUME TypeOK, TypeOK', NEW c \in Calls, row[c].status \in OpenStatus,
         row'[c].status \notin OpenStatus,
         \A d \in Calls \ {c} : row'[d] = row[d]
  PROVE  /\ c \notin Closed
         /\ Closed' = Closed \cup {c}
         /\ Bill' \in [Calls -> Nat]
         /\ \A d \in Calls \ {c} : Bill'[d] = Bill[d]
  <1>1. \A d \in Calls : row'[d].billed \in Nat
    BY DEF TypeOK, Row
  <1>2. Bill' \in [Calls -> Nat]
    BY <1>1, CostOfType DEF Bill
  <1>3. QED
    BY <1>2 DEF Closed, Bill

\* The guarded update closes the row with the seconds of the handler.
LEMMA ClaimedCloses ==
  ASSUME TypeOK, NEW c \in Calls, NEW t \in Task, Claimed(c, t)
  PROVE  /\ row'[c].status \notin OpenStatus /\ row'[c].billed = t.secs
         /\ \A d \in Calls \ {c} : row'[d] = row[d]
  <1>1. row \in [Calls -> Row] /\ row[c] \in Row
    BY DEF TypeOK
  <1>2. QED
    BY <1>1 DEF Claimed, OpenStatus, Row

\* The handler that closes a row is the first and only one to pay.
LEMMA CloserPays ==
  ASSUME TypeOK, TypeOK', ChargedByOne, NEW c \in Calls, NEW t \in Task,
         row[c].status \in OpenStatus, Claimed(c, t), Charge(c, t), taken' = taken
  PROVE  ChargedByOne'
  <1> DEFINE u == [t EXCEPT !.k = "reserve"]
  <1>1. /\ c \notin Closed /\ Closed' = Closed \cup {c}
        /\ row'[c].billed = t.secs
        /\ \A d \in Calls \ {c} : row'[d] = row[d]
    BY ClaimedCloses, RowCloses
  <1>2. Paying(c) = {} /\ taken[c] = 0
    BY <1>1 DEF ChargedByOne
  <1>3. u.k = "reserve" /\ u.secs = t.secs
    BY DEF Task
  <1>4. CASE CostOf(t.secs) > 0
    <2>1. Then(c, t, u)
      BY <1>4 DEF Charge
    <2>2. Paying(c)' \subseteq {u} /\ \A d \in Calls \ {c} : Paying(d)' = Paying(d)
      BY <1>2, <2>1, PayingAfter
    <2>3. \A v \in Paying(c)' : v.secs = row'[c].billed /\ CostOf(v.secs) > 0
      BY <1>1, <1>3, <1>4, <2>2
    <2>4. \A v, w \in Paying(c)' : v = w
      BY <2>2
    <2>5. c \in Closed' /\ taken'[c] = 0
      BY <1>1, <1>2
    <2>6. ASSUME NEW d \in Calls, d # c
          PROVE  /\ \A v \in Paying(d)' : /\ d \in Closed' /\ taken'[d] = 0
                                          /\ v.secs = row'[d].billed
                                          /\ CostOf(v.secs) > 0
                 /\ \A v, w \in Paying(d)' : v = w
                 /\ d \notin Closed' => taken'[d] = 0
      BY <1>1, <2>2, <2>6 DEF ChargedByOne
    <2>7. QED
      BY <2>3, <2>4, <2>5, <2>6 DEF ChargedByOne
  <1>5. CASE ~(CostOf(t.secs) > 0)
    <2>1. Done(c, t)
      BY <1>5 DEF Charge
    <2>2. \A d \in Calls : Paying(d)' \subseteq Paying(d)
      BY <2>1, PayingAfter
    <2>3. QED
      BY <1>1, <1>2, <2>2 DEF ChargedByOne
  <1>6. QED
    BY <1>4, <1>5

\* Paying a call is PostpaidCharge's Take.
LEMMA PayerTakes ==
  ASSUME TypeOK, ChargedByOne, NEW c \in Calls, NEW t \in Paying(c),
         TakeFrom(c, CostOf(t.secs)), Then(c, t, [t EXCEPT !.k = "record"]),
         row' = row
  PROVE  /\ Promise!Take(c)
         /\ ChargedByOne'
  <1> DEFINE u == [t EXCEPT !.k = "record"]
  <1>1. /\ c \in Closed /\ taken[c] = 0
        /\ CostOf(t.secs) = CostOf(row[c].billed) /\ CostOf(t.secs) > 0
        /\ t \in Task /\ CostOf(t.secs) \in Nat /\ Paying(c) = {t}
    <2>1. t \in Task
      BY DEF TypeOK, Paying
    <2>2. QED
      BY <2>1, CostOfType DEF ChargedByOne, Task
  <1>2. Closed' = Closed /\ Bill' = Bill
    BY RowKept
  <1>3. taken' = [taken EXCEPT ![c] = Bill[c]]
    <2>1. taken' = [taken EXCEPT ![c] = taken[c] + CostOf(t.secs)]
      BY DEF TakeFrom
    <2>2. taken[c] + CostOf(t.secs) = CostOf(t.secs) /\ CostOf(t.secs) = Bill[c]
      BY <1>1 DEF Bill
    <2>3. QED
      BY <2>1, <2>2
  <1>4. Promise!Take(c)
    BY <1>1, <1>2, <1>3 DEF Promise!Take, Bill
  <1>5. u.k = "record"
    BY <1>1 DEF Task
  <1>6. Paying(c)' = {} /\ \A d \in Calls \ {c} : Paying(d)' = Paying(d)
    <2>1. Then(c, t, u) /\ u.k \notin {"reserve", "debit"}
      BY <1>5
    <2>2. Paying(c)' \subseteq Paying(c) \ {t}
      <3>1. \A v : Then(c, t, v) /\ v.k \notin {"reserve", "debit"} =>
              Paying(c)' \subseteq Paying(c) \ {t}
        BY PayingAfter
      <3>2. QED
        BY <2>1, <3>1
    <2>3. \A d \in Calls \ {c} : Paying(d)' = Paying(d)
      BY <2>1, PayingAfter
    <2>4. QED
      BY <1>1, <2>2, <2>3
  <1>7. \A d \in Calls \ {c} : taken'[d] = taken[d]
    BY DEF TakeFrom, TypeOK
  <1>8. ASSUME NEW d \in Calls, d # c
        PROVE  /\ \A v \in Paying(d)' : /\ d \in Closed' /\ taken'[d] = 0
                                        /\ v.secs = row'[d].billed
                                        /\ CostOf(v.secs) > 0
               /\ \A v, w \in Paying(d)' : v = w
               /\ d \notin Closed' => taken'[d] = 0
    BY <1>2, <1>6, <1>7, <1>8 DEF ChargedByOne
  <1>9. QED
    BY <1>1, <1>2, <1>4, <1>6, <1>8 DEF ChargedByOne

\* A payer that is refused goes on to the debit.
LEMMA PayerIsRefused ==
  ASSUME TypeOK, ChargedByOne, NEW c \in Calls, NEW t \in Paying(c),
         Then(c, t, [t EXCEPT !.k = "debit"]), row' = row, taken' = taken
  PROVE  ChargedByOne'
  <1> DEFINE u == [t EXCEPT !.k = "debit"]
  <1>1. t \in Task /\ u.secs = t.secs /\ Paying(c) = {t}
    <2>1. t \in Task
      BY DEF TypeOK, Paying
    <2>2. QED
      BY <2>1 DEF ChargedByOne, Task
  <1>2. Paying(c)' \subseteq {u} /\ \A d \in Calls \ {c} : Paying(d)' = Paying(d)
    BY <1>1, PayingAfter
  <1>3. Closed' = Closed
    BY RowKept
  <1>4. ASSUME NEW d \in Calls
        PROVE  /\ \A v \in Paying(d)' : /\ d \in Closed' /\ taken'[d] = 0
                                        /\ v.secs = row'[d].billed
                                        /\ CostOf(v.secs) > 0
               /\ \A v, w \in Paying(d)' : v = w
               /\ d \notin Closed' => taken'[d] = 0
    <2>1. CASE d = c
      <3>1. \A v \in Paying(c)' : v.secs = t.secs
        BY <1>1, <1>2
      <3>2. /\ c \in Closed /\ taken[c] = 0
            /\ t.secs = row[c].billed /\ CostOf(t.secs) > 0
        BY DEF ChargedByOne
      <3>3. QED
        BY <1>2, <1>3, <2>1, <3>1, <3>2
    <2>2. CASE d # c
      BY <1>2, <1>3, <2>2 DEF ChargedByOne
    <2>3. QED
      BY <2>1, <2>2
  <1>5. QED
    BY <1>4 DEF ChargedByOne

Stutter == UNCHANGED <<Closed, Bill, taken>>
Allowed == Stutter \/ \E c \in Calls : Promise!Close(c) \/ Promise!Take(c)

\* The world pays for nothing.
LEMMA ChargedEnvironment ==
  ASSUME TypeOK, ChargedByOne, NEW c \in Calls, Environment(c)
  PROVE  ChargedByOne' /\ Allowed
  <1>1. row' = row /\ taken' = taken
    BY DEF Environment, CallComesIn, LegAnswers, NobodyAnswers, TrunkHangsUp,
           PhoneHangsUp, CdrAgain, TrunkStep, MoneyKept
  <1>2. \A d \in Calls : Paying(d)' \subseteq Paying(d)
    <2>1. \/ Started(c, {New("open", 1)}) \/ Started(c, {New("mark", 1)})
          \/ Started(c, {New("find", 1), New("find", 2)})
          \/ Started(c, {New("cdr", 1)}) \/ Started(c, {New("cdr", 2)})
          \/ tasks' = tasks
      BY DEF Environment, CallComesIn, LegAnswers, NobodyAnswers, TrunkHangsUp,
             PhoneHangsUp, CdrAgain
    <2>2. CASE tasks' = tasks
      BY <2>2 DEF Paying
    <2>3. {"open", "mark", "find", "cdr"} \subseteq Steps \ {"reserve", "debit"}
      BY DEF Steps
    <2>4. ASSUME NEW d \in Calls PROVE Paying(d)' \subseteq Paying(d)
      <3>1. \A k, n : k \in Steps \ {"reserve", "debit"} =>
              /\ Started(c, {New(k, n)}) => Paying(d)' \subseteq Paying(d)
              /\ Started(c, {New(k, 1), New(k, 2)}) => Paying(d)' \subseteq Paying(d)
        BY PayingAfter
      <3>2. QED
        BY <2>1, <2>2, <2>3, <3>1
    <2>5. QED
      BY <2>4
  <1>3. Closed' = Closed /\ Bill' = Bill
    BY <1>1, RowKept
  <1>4. QED
    BY <1>1, <1>2, <1>3, ChargedByOneKept DEF Allowed, Stutter

\* Every handler step is one PostpaidCharge allows.
LEMMA ChargedHandler ==
  ASSUME TypeOK, TypeOK', ChargedByOne, NEW c \in Calls, Handler(c)
  PROVE  ChargedByOne' /\ Allowed
  <1> USE DEF MoneyKept, World
  <1>0. \A k : /\ TasksOf(c, k) \subseteq Task
               /\ k \in {"reserve", "debit"} => TasksOf(c, k) \subseteq Paying(c)
    BY DEF TypeOK, TasksOf, Paying
  <1>1. ASSUME UNCHANGED <<row, taken>>,
               \A d \in Calls : Paying(d)' \subseteq Paying(d)
        PROVE  ChargedByOne' /\ Allowed
    BY <1>1, RowKept, ChargedByOneKept DEF Allowed, Stutter
  <1>2. CASE OpenRow(c) \/ MarkAnswered(c)
    <2>1. \A d \in Calls : Paying(d)' \subseteq Paying(d)
      BY <1>2, PayingAfter DEF OpenRow, MarkAnswered
    <2>2. taken' = taken
      BY <1>2 DEF OpenRow, MarkAnswered
    <2>3. QED
      BY <1>2, <2>1, <2>2, OpenAndMarkKeepRows, ChargedByOneKept
      DEF Allowed, Stutter
  <1>3. CASE FindRow(c) \/ FindCdr(c)
    <2>1. PICK t, u :
            /\ Done(c, t) \/ Then(c, t, u)
            /\ u.k \in {"claim", "create"}
      <3>1. CASE FindRow(c)
        <4>1. PICK t \in TasksOf(c, "find") : FindRow(c)!(t)
          BY <3>1 DEF FindRow
        <4> DEFINE u == [t EXCEPT !.k = "claim", !.answered = row[c].answered,
                                  !.secs = BilledSecs(c)]
        <4>2. t \in Task /\ u.k = "claim"
          BY <1>0 DEF Task
        <4>3. Done(c, t) \/ Then(c, t, u)
          BY <4>1
        <4>4. QED
          BY <4>2, <4>3
      <3>2. CASE FindCdr(c)
        <4>1. PICK t \in TasksOf(c, "cdr") : FindCdr(c)!(t)
          BY <3>2 DEF FindCdr
        <4> DEFINE u == [t EXCEPT !.k = "create", !.secs = ReportedSecs(c),
                                  !.answered = ReportedSecs(c) > 0]
        <4>2. t \in Task /\ u.k = "create"
          BY <1>0 DEF Task
        <4>3. Done(c, t) \/ Then(c, t, u)
          BY <4>1
        <4>4. QED
          BY <4>2, <4>3
      <3>3. QED
        BY <1>3, <3>1, <3>2
    <2>2. \A d \in Calls : Paying(d)' \subseteq Paying(d)
      BY <2>1, PayingAfter
    <2>3. UNCHANGED <<row, taken>>
      BY <1>3 DEF FindRow, FindCdr
    <2>4. QED
      BY <1>1, <2>2, <2>3
  <1>4. CASE Claim(c) \/ CreateCdr(c)
    <2>1. PICK t \in Task :
            /\ \/ /\ row[c].status \in OpenStatus
                  /\ Claimed(c, t) /\ Charge(c, t)
               \/ Done(c, t) /\ row' = row
            /\ taken' = taken
      BY <1>0, <1>4 DEF Claim, CreateCdr, OpenStatus
    <2>2. CASE Done(c, t) /\ row' = row
      BY <1>1, <2>1, <2>2, PayingAfter
    <2>3. CASE /\ row[c].status \in OpenStatus
               /\ Claimed(c, t) /\ Charge(c, t)
      <3>1. ChargedByOne'
        BY <2>1, <2>3, CloserPays
      <3>2. Promise!Close(c)
        BY <2>1, <2>3, ClaimedCloses, RowCloses DEF Promise!Close
      <3>3. QED
        BY <3>1, <3>2 DEF Allowed
    <2>4. QED
      BY <2>1, <2>2, <2>3
  <1>5. CASE ReserveCost(c)
    <2>1. PICK t \in TasksOf(c, "reserve") : ReserveCost(c)!(t)
      BY <1>5 DEF ReserveCost
    <2>2. t \in Paying(c) /\ row' = row
      BY <1>0, <2>1
    <2>3. CASE CanReserve(balance, CreditLimit, CostOf(t.secs))
      BY <2>1, <2>2, <2>3, PayerTakes DEF Allowed
    <2>4. CASE ~CanReserve(balance, CreditLimit, CostOf(t.secs))
      <3>1. taken' = taken /\ Then(c, t, [t EXCEPT !.k = "debit"])
        BY <2>1, <2>4
      <3>2. QED
        BY <2>2, <3>1, PayerIsRefused, RowKept DEF Allowed, Stutter
    <2>5. QED
      BY <2>3, <2>4
  <1>6. CASE DebitCost(c)
    <2>1. PICK t \in TasksOf(c, "debit") : DebitCost(c)!(t)
      BY <1>6 DEF DebitCost
    <2>2. t \in Paying(c) /\ row' = row
      BY <1>0, <2>1
    <2>3. QED
      BY <2>1, <2>2, PayerTakes DEF Allowed
  <1>7. CASE RecordCharge(c)
    BY <1>1, <1>7, PayingAfter DEF RecordCharge
  <1>8. QED
    BY <1>2, <1>3, <1>4, <1>5, <1>6, <1>7 DEF Handler

\* The worker closes rows without a bill, and failures only lose payers.
LEMMA ChargedFailures ==
  ASSUME TypeOK, TypeOK', ChargedByOne, NEW c \in Calls,
         ReadStale(c) \/ WriteStale(c) \/ StepFails(c) \/ HangupIsMissed(c)
  PROVE  ChargedByOne' /\ Allowed
  <1> USE DEF MoneyKept, World
  <1>1. CASE ReadStale(c) \/ StepFails(c) \/ HangupIsMissed(c)
    <2>1. UNCHANGED <<row, taken>>
      BY <1>1 DEF ReadStale, StepFails, HangupIsMissed
    <2>2. tasks' = tasks \/ \E t : Done(c, t)
      BY <1>1 DEF ReadStale, StepFails, HangupIsMissed
    <2>3. \A d \in Calls : Paying(d)' \subseteq Paying(d)
      BY <2>2, PayingAfter DEF Paying
    <2>4. QED
      BY <2>1, <2>3, RowKept, ChargedByOneKept DEF Allowed, Stutter
  <1>2. CASE WriteStale(c)
    <2>1. /\ row \in [Calls -> Row] /\ taken' = taken /\ tasks' = tasks
          /\ row' = [row EXCEPT ![c].status = "FAILED"]
      BY <1>2 DEF WriteStale, TypeOK
    <2>2. /\ row'[c].status \notin OpenStatus
          /\ \A d \in Calls \ {c} : row'[d] = row[d]
          /\ \A d \in Calls : row'[d].billed = row[d].billed
      BY <2>1 DEF OpenStatus, Row
    <2>3. \A d \in Calls : Paying(d)' = Paying(d)
      BY <2>1 DEF Paying
    <2>4. Closed' = Closed \cup {c} /\ Bill' = Bill
      BY <2>2 DEF Closed, Bill
    <2>5. ChargedByOne'
      BY <2>1, <2>2, <2>3, <2>4, ChargedByOneKept
    <2>6. CASE c \in Closed
      BY <2>1, <2>4, <2>5, <2>6 DEF Allowed, Stutter
    <2>7. CASE c \notin Closed
      <3>1. row[c].status \in OpenStatus
        BY <2>7 DEF Closed
      <3>2. Promise!Close(c)
        BY <2>1, <2>2, <3>1, RowCloses DEF Promise!Close
      <3>3. QED
        BY <2>5, <3>2 DEF Allowed
    <2>8. QED
      BY <2>6, <2>7
  <1>3. QED
    BY <1>1, <1>2

\* Every step keeps ChargedByOne and is one PostpaidCharge allows.
LEMMA ChargedStep ==
  ASSUME TypeOK, TypeOK', ChargedByOne, [Next]_vars
  PROVE  ChargedByOne' /\ Allowed
  <1>1. CASE Crash
    <2>1. row' = row /\ taken' = taken /\ \A d \in Calls : Paying(d)' = {}
      BY <1>1 DEF Crash, MoneyKept, Paying
    <2>2. QED
      BY <2>1, RowKept, ChargedByOneKept DEF Allowed, Stutter
  <1>2. CASE UNCHANGED vars
    <2>1. row' = row /\ taken' = taken /\ \A d \in Calls : Paying(d)' = Paying(d)
      BY <1>2 DEF vars, Paying
    <2>2. QED
      BY <2>1, RowKept, ChargedByOneKept DEF Allowed, Stutter
  <1>3. QED
    BY <1>1, <1>2, ChargedEnvironment, ChargedHandler, ChargedFailures DEF Next

\* Calls charged after they happen keep PostpaidCharge's promise: whatever events
\* are delivered twice, handled side by side, lost or interrupted, a call is
\* closed once and its bill, the one its final row states, is taken at most once.
THEOREM ChargesAsPromised == Spec => ImplementsPromise
  <1>1. Init => ChargedByOne /\ Promise!Init
    <2>1. ASSUME Init PROVE ChargedByOne
      BY <2>1 DEF Init, ChargedByOne, Paying
    <2>2. ASSUME Init PROVE Promise!Init
      BY <2>2, CostOfType DEF Init, Promise!Init, Closed, Bill, OpenStatus
    <2>3. QED
      BY <2>1, <2>2
  <1>2. TypeOK /\ TypeOK' /\ ChargedByOne /\ [Next]_vars => ChargedByOne' /\ Allowed
    BY ChargedStep
  <1>3. Allowed => [Promise!Next]_(Promise!vars)
    BY DEF Allowed, Stutter, Promise!Next, Promise!vars
  <1>4. QED
    BY <1>1, <1>2, <1>3, PostpaidTypeCorrect, PTL
    DEF Spec, ImplementsPromise, Promise!Spec

-----------------------------------------------------------------------------
(* What is charged is conversation.                                        *)

Timed == {"claim", "create", "reserve", "debit"}

\* A handler that has worked out a duration holds the length of the conversation
\* or nothing, and that length is settled before any handler reads it.
Spoken(c) ==
  /\ chan[c] \in {"none", "up"} => talk[c] = 0
  /\ ring[c] = "ringing" => chan[c] # "none" /\ talk[c] <= 0
  /\ \A t \in tasks[c] : t.k \in Timed => t.secs = 0 \/ t.secs = talk[c]
  /\ taken[c] > 0 => talk[c] > 0 /\ taken[c] = CostOf(talk[c])

SpokenOnly == \A c \in Calls : Spoken(c)

\* What the task operators do to the tasks of each call.
LEMMA TasksAfter ==
  ASSUME TypeOK, NEW c \in Calls, NEW d \in Calls
  PROVE  /\ \A t : Done(c, t) => tasks'[d] \subseteq tasks[d]
         /\ \A ts : Started(c, ts) => tasks'[d] \subseteq tasks[d] \cup ts
  BY DEF TypeOK, Done, Started

\* The tasks after one is replaced.
LEMMA TasksThen ==
  ASSUME TypeOK, NEW c \in Calls, NEW d \in Calls, NEW t, NEW u, Then(c, t, u)
  PROVE  /\ tasks'[d] \subseteq tasks[d] \cup {u}
         /\ d # c => tasks'[d] = tasks[d]
  BY DEF TypeOK, Then

\* A step that times nothing new keeps Spoken.
LEMMA SpokenKept ==
  ASSUME NEW d \in Calls, Spoken(d), UNCHANGED <<chan, ring, talk, taken>>,
         \A t \in tasks'[d] : \/ t \in tasks[d] \/ t.k \notin Timed
                              \/ t.secs = 0 \/ t.secs = talk[d]
  PROVE  Spoken(d)'
  BY DEF Spoken

\* So does a handler that goes on with what it has timed.
LEMMA SpokenMoves ==
  ASSUME TypeOK, NEW c \in Calls, NEW d \in Calls, Spoken(d), NEW t, NEW u,
         Then(c, t, u), u.k \notin Timed \/ u.secs = 0 \/ u.secs = talk[c],
         UNCHANGED <<chan, ring, talk, taken>>
  PROVE  Spoken(d)'
  <1>1. /\ tasks'[d] \subseteq tasks[d] \cup {u}
        /\ d # c => tasks'[d] = tasks[d]
    BY TasksThen
  <1>2. \A v \in tasks'[d] : \/ v \in tasks[d] \/ v.k \notin Timed
                             \/ v.secs = 0 \/ v.secs = talk[d]
    BY <1>1
  <1>3. QED
    BY <1>2, SpokenKept

\* The seconds of the world move on only for calls nobody has timed yet.
LEMMA SpokenEnvironment ==
  ASSUME TypeOK, TypeOK', SpokenOnly, NEW c \in Calls, Environment(c),
         NEW d \in Calls
  PROVE  Spoken(d)'
  <1> USE DEF TrunkStep, MoneyKept
  <1>1. /\ chan \in [Calls -> {"none", "up", "gone", "repeated"}]
        /\ ring \in [Calls -> {"none", "ringing", "answered", "failed"}]
        /\ talk \in [Calls -> Int] /\ talk' \in [Calls -> Int]
        /\ taken \in [Calls -> Nat] /\ taken' = taken
    BY DEF TypeOK, Environment, CallComesIn, LegAnswers, NobodyAnswers,
           TrunkHangsUp, PhoneHangsUp, CdrAgain
  <1>2. Spoken(d) /\ \A t \in tasks[d] : t.secs \in Nat
    BY DEF SpokenOnly, TypeOK, Task
  <1>3. \A t \in tasks'[d] : t \in tasks[d] \/ t.secs = 0
    <2>1. \E ts : /\ Started(c, ts) \/ tasks' = tasks
                 /\ \A t \in ts : t.secs = 0
      <3>1. \A k, n : New(k, n).secs = 0
        BY DEF New
      <3>2. \/ Started(c, {New("open", 1)}) \/ Started(c, {New("mark", 1)})
            \/ Started(c, {New("find", 1), New("find", 2)})
            \/ Started(c, {New("cdr", 1)}) \/ Started(c, {New("cdr", 2)})
            \/ tasks' = tasks
        BY DEF Environment, CallComesIn, LegAnswers, NobodyAnswers, TrunkHangsUp,
               PhoneHangsUp, CdrAgain
      <3>3. \A k, n : \A t \in {New(k, n)} : t.secs = 0
        BY <3>1
      <3>4. \A k, m, n : \A t \in {New(k, m), New(k, n)} : t.secs = 0
        BY <3>1
      <3>5. QED
        BY <3>2, <3>3, <3>4
    <2>2. QED
      BY <2>1, TasksAfter
  <1>4. CASE UNCHANGED <<ring, talk>> /\ \A e \in Calls :
               \/ chan'[e] = chan[e]
               \/ chan[e] = "none" /\ chan'[e] = "up"
               \/ chan[e] = "gone" /\ chan'[e] = "repeated"
    BY <1>1, <1>2, <1>3, <1>4 DEF Spoken
  <1>5. CASE CallComesIn(c) \/ CdrAgain(c)
    <2>1. UNCHANGED <<ring, talk>>
      BY <1>5 DEF CallComesIn, CdrAgain
    <2>2. \/ chan[c] \in {"none", "up"} /\ chan' = [chan EXCEPT ![c] = "up"]
          \/ chan[c] = "gone" /\ chan' = [chan EXCEPT ![c] = "repeated"]
      BY <1>5 DEF CallComesIn, CdrAgain
    <2>3. \A e \in Calls :
               \/ chan'[e] = chan[e]
               \/ chan[e] = "none" /\ chan'[e] = "up"
               \/ chan[e] = "gone" /\ chan'[e] = "repeated"
      BY <1>1, <2>2
    <2>4. QED
      BY <1>4, <2>1, <2>3
  <1>6. CASE NobodyAnswers(c)
    <2>1. UNCHANGED <<chan, talk>> /\ ring'[d] \in {ring[d], "failed"}
      BY <1>1, <1>6 DEF NobodyAnswers
    <2>2. QED
      BY <1>1, <1>2, <1>3, <2>1 DEF Spoken
  <1>7. CASE LegAnswers(c)
    <2>1. /\ chan' = chan
          /\ \/ ring'[d] = ring[d] /\ talk'[d] = talk[d]
             \/ /\ ring[d] = "ringing" /\ ring'[d] = "answered"
                /\ talk'[d] = talk[d] \/ (chan[d] = "gone" /\ talk'[d] = -1)
      <3>1. /\ ring[c] = "ringing" /\ ring' = [ring EXCEPT ![c] = "answered"]
            /\ talk' = IF chan[c] = "gone" THEN [talk EXCEPT ![c] = -1] ELSE talk
            /\ chan' = chan
        BY <1>7 DEF LegAnswers
      <3>2. CASE d # c
        BY <1>1, <3>1, <3>2
      <3>3. CASE d = c
        BY <1>1, <3>1, <3>3
      <3>4. QED
        BY <3>2, <3>3
    <2>2. CASE talk'[d] = talk[d]
      BY <1>1, <1>2, <1>3, <2>1, <2>2 DEF Spoken
    <2>3. CASE /\ ring[d] = "ringing" /\ ring'[d] = "answered"
               /\ chan[d] = "gone" /\ talk'[d] = -1
      <3>1. talk[d] <= 0 /\ \A t \in tasks[d] : t.k \in Timed => t.secs = 0
        BY <1>1, <1>2, <2>3 DEF Spoken
      <3>2. ~(taken[d] > 0)
        BY <1>1, <1>2, <3>1 DEF Spoken
      <3>3. QED
        BY <1>1, <1>3, <2>1, <2>3, <3>1, <3>2 DEF Spoken
    <2>4. QED
      BY <2>1, <2>2, <2>3
  <1>8. CASE TrunkHangsUp(c) \/ PhoneHangsUp(c)
    <2>1. /\ ring' = ring
          /\ d # c => chan'[d] = chan[d] /\ talk'[d] = talk[d]
          /\ d = c => chan[d] \in {"none", "up"} /\ chan'[d] = "gone"
          /\ d = c /\ ring[d] = "ringing" /\ chan[d] = "up" => talk'[d] = 0
      <3>1. CASE TrunkHangsUp(c)
        BY <1>1, <3>1 DEF TrunkHangsUp
      <3>2. CASE PhoneHangsUp(c)
        BY <1>1, <3>2 DEF PhoneHangsUp
      <3>3. QED
        BY <1>8, <3>1, <3>2
    <2>2. CASE d # c
      <3>1. UNCHANGED <<ring, taken>> /\ chan'[d] = chan[d] /\ talk'[d] = talk[d]
        BY <1>1, <2>1, <2>2
      <3>2. QED
        BY <1>2, <1>3, <3>1 DEF Spoken
    <2>3. CASE d = c
      <3>0. /\ chan[d] \in {"none", "up"} /\ chan'[d] = "gone" /\ ring' = ring
            /\ ring[d] = "ringing" /\ chan[d] = "up" => talk'[d] = 0
        BY <2>1, <2>3
      <3>1. talk[d] = 0 /\ \A t \in tasks[d] : t.k \in Timed => t.secs = 0
        BY <1>2, <3>0 DEF Spoken
      <3>2. ~(taken[d] > 0)
        BY <1>1, <1>2, <3>1 DEF Spoken
      <3>3. ring[d] = "ringing" => talk'[d] = 0
        BY <1>2, <3>0 DEF Spoken
      <3>4. QED
        BY <1>1, <1>3, <3>0, <3>1, <3>2, <3>3 DEF Spoken
    <2>4. QED
      BY <2>2, <2>3
  <1>9. QED
    BY <1>5, <1>6, <1>7, <1>8 DEF Environment

\* The handler of a closed call takes the price of its conversation.
LEMMA SpokenTaken ==
  ASSUME TypeOK, ChargedByOne, SpokenOnly, NEW c \in Calls, NEW t \in Paying(c),
         TakeFrom(c, CostOf(t.secs)), Then(c, t, [t EXCEPT !.k = "record"]),
         UNCHANGED <<chan, ring, talk>>, NEW d \in Calls
  PROVE  Spoken(d)'
  <1>1. t \in Task /\ t \in tasks[c] /\ t.k \in Timed
    BY DEF TypeOK, Paying, Timed
  <1> DEFINE u == [t EXCEPT !.k = "record"]
  <1>2. u.k \notin Timed /\ Then(c, t, u)
    BY <1>1 DEF Task, Timed
  <1>3. \A v \in tasks'[d] : v \in tasks[d] \/ v.k \notin Timed
    <2>1. tasks'[d] \subseteq tasks[d] \cup {u}
      BY <1>2, TasksThen
    <2>2. QED
      BY <1>2, <2>1
  <1>4. /\ d # c => taken'[d] = taken[d]
        /\ d = c => taken'[d] = taken[d] + CostOf(t.secs)
    BY DEF TakeFrom, TypeOK
  <1>5. Spoken(d)
    BY DEF SpokenOnly
  <1>6. CASE d # c
    BY <1>3, <1>4, <1>5, <1>6 DEF Spoken
  <1>7. CASE d = c
    <2>1. taken[c] = 0 /\ CostOf(t.secs) > 0 /\ CostOf(t.secs) \in Nat
      BY <1>1, CostOfType DEF ChargedByOne, Task
    <2>2. t.secs = talk[c] /\ t.secs > 0
      <3>1. t.secs # 0 /\ t.secs \in Nat
        BY <1>1, <2>1, CostOfType DEF Task
      <3>2. t.secs = 0 \/ t.secs = talk[c]
        BY <1>1, <1>5, <1>7 DEF Spoken
      <3>3. QED
        BY <3>1, <3>2
    <2>3. taken'[c] = CostOf(talk[c]) /\ talk[c] > 0
      BY <1>4, <1>7, <2>1, <2>2
    <2>4. QED
      BY <1>3, <1>5, <1>7, <2>3 DEF Spoken
  <1>8. QED
    BY <1>6, <1>7

\* The handlers keep Spoken.
LEMMA SpokenHandler ==
  ASSUME TypeOK, ChargedByOne, SpokenOnly, NEW c \in Calls, Handler(c),
         NEW d \in Calls
  PROVE  Spoken(d)'
  <1> USE DEF MoneyKept, World
  <1>0. /\ Spoken(d) /\ Spoken(c) /\ talk \in [Calls -> Int]
        /\ \A k : /\ TasksOf(c, k) \subseteq Task
                  /\ TasksOf(c, k) \subseteq tasks[c]
                  /\ \A t \in TasksOf(c, k) : t.k = k
                  /\ k \in {"reserve", "debit"} => TasksOf(c, k) \subseteq Paying(c)
    BY DEF SpokenOnly, TypeOK, TasksOf, Paying
  <1>1. CASE OpenRow(c)
    <2>1. /\ UNCHANGED <<chan, talk, taken>>
          /\ ring'[d] = ring[d] \/ chan[d] = "up"
          /\ \A t \in tasks'[d] : t \in tasks[d]
      BY <1>1, TasksAfter DEF OpenRow, TypeOK
    <2>2. chan[d] = "up" => talk[d] = 0
      BY <1>0 DEF Spoken
    <2>3. QED
      BY <1>0, <2>1, <2>2 DEF Spoken
  <1>2. CASE MarkAnswered(c) \/ RecordCharge(c)
    <2>1. /\ UNCHANGED <<chan, ring, talk, taken>>
          /\ \A t \in tasks'[d] : t \in tasks[d]
      BY <1>2, TasksAfter DEF MarkAnswered, RecordCharge
    <2>2. QED
      BY <1>0, <2>1, SpokenKept
  <1>3. CASE FindRow(c) \/ FindCdr(c)
    <2>1. UNCHANGED <<chan, ring, talk, taken>>
      BY <1>3 DEF FindRow, FindCdr
    <2>2. PICK t, u : /\ Done(c, t) \/ Then(c, t, u)
                      /\ u.secs = 0 \/ u.secs = talk[c]
      <3>1. CASE FindRow(c)
        <4>1. PICK t \in TasksOf(c, "find") : FindRow(c)!(t)
          BY <3>1 DEF FindRow
        <4> DEFINE u == [t EXCEPT !.k = "claim", !.answered = row[c].answered,
                                  !.secs = BilledSecs(c)]
        <4>2. u.secs = BilledSecs(c) /\ t \in Task
          BY <1>0 DEF Task
        <4>3. QED
          BY <4>1, <4>2 DEF BilledSecs
      <3>2. CASE FindCdr(c)
        <4>1. PICK t \in TasksOf(c, "cdr") : FindCdr(c)!(t)
          BY <3>2 DEF FindCdr
        <4> DEFINE u == [t EXCEPT !.k = "create", !.secs = ReportedSecs(c),
                                  !.answered = ReportedSecs(c) > 0]
        <4>2. u.secs = ReportedSecs(c) /\ t \in Task
          BY <1>0 DEF Task
        <4>3. QED
          BY <4>1, <4>2 DEF ReportedSecs
      <3>3. QED
        BY <1>3, <3>1, <3>2
    <2>3. CASE Done(c, t)
      <3>1. tasks'[d] \subseteq tasks[d]
        BY <2>3, TasksAfter
      <3>2. QED
        BY <1>0, <2>1, <3>1, SpokenKept
    <2>4. CASE Then(c, t, u)
      BY <1>0, <2>1, <2>2, <2>4, SpokenMoves
    <2>5. QED
      BY <2>2, <2>3, <2>4
  <1>4. CASE Claim(c) \/ CreateCdr(c)
    <2>1. PICK t \in Task :
            /\ t \in tasks[c] /\ t.k \in Timed
            /\ Charge(c, t) \/ Done(c, t)
            /\ UNCHANGED <<chan, ring, talk, taken>>
      BY <1>0, <1>4 DEF Claim, CreateCdr, Timed
    <2> DEFINE u == [t EXCEPT !.k = "reserve"]
    <2>2. u.secs = 0 \/ u.secs = talk[c]
      BY <1>0, <2>1 DEF Task, Spoken
    <2>3. CASE Done(c, t)
      BY <1>0, <2>1, <2>3, TasksAfter, SpokenKept
    <2>4. CASE Then(c, t, u)
      BY <1>0, <2>1, <2>2, <2>4, SpokenMoves
    <2>5. QED
      BY <2>1, <2>3, <2>4 DEF Charge
  <1>5. CASE ReserveCost(c)
    <2>1. PICK t \in TasksOf(c, "reserve") : ReserveCost(c)!(t)
      BY <1>5 DEF ReserveCost
    <2>2. t \in Paying(c) /\ t \in tasks[c] /\ t \in Task /\ t.k \in Timed
      BY <1>0, <2>1 DEF Timed
    <2>3. CASE CanReserve(balance, CreditLimit, CostOf(t.secs))
      BY <2>1, <2>2, <2>3, SpokenTaken
    <2>4. CASE ~CanReserve(balance, CreditLimit, CostOf(t.secs))
      <3> DEFINE u == [t EXCEPT !.k = "debit"]
      <3>1. u.secs = 0 \/ u.secs = talk[c]
        BY <1>0, <2>2 DEF Task, Spoken
      <3>2. Then(c, t, u) /\ UNCHANGED <<chan, ring, talk, taken>>
        BY <2>1, <2>4
      <3>3. QED
        BY <1>0, <3>1, <3>2, SpokenMoves
    <2>5. QED
      BY <2>3, <2>4
  <1>6. CASE DebitCost(c)
    <2>1. PICK t \in TasksOf(c, "debit") : DebitCost(c)!(t)
      BY <1>6 DEF DebitCost
    <2>2. QED
      BY <1>0, <2>1, SpokenTaken
  <1>7. QED
    BY <1>1, <1>2, <1>3, <1>4, <1>5, <1>6 DEF Handler

\* Every step keeps Spoken.
LEMMA SpokenStep ==
  ASSUME TypeOK, TypeOK', ChargedByOne, SpokenOnly, [Next]_vars
  PROVE  SpokenOnly'
  <1> USE DEF MoneyKept, World
  <1> SUFFICES ASSUME NEW d \in Calls PROVE Spoken(d)'
    BY DEF SpokenOnly
  <1>0. /\ Spoken(d) /\ chan \in [Calls -> {"none", "up", "gone", "repeated"}]
        /\ ring \in [Calls -> {"none", "ringing", "answered", "failed"}]
    BY DEF SpokenOnly, TypeOK
  <1>1. ASSUME NEW c \in Calls, ReadStale(c) \/ WriteStale(c) \/ StepFails(c)
        PROVE  Spoken(d)'
    <2>1. UNCHANGED <<chan, ring, talk, taken>>
      BY <1>1 DEF ReadStale, WriteStale, StepFails
    <2>2. \A t \in tasks'[d] : t \in tasks[d]
      BY <1>1, TasksAfter DEF ReadStale, WriteStale, StepFails
    <2>3. QED
      BY <1>0, <2>1, <2>2, SpokenKept
  <1>2. ASSUME NEW c \in Calls, HangupIsMissed(c)
        PROVE  Spoken(d)'
    BY <1>0, <1>2 DEF HangupIsMissed, Spoken
  <1>3. CASE Crash
    <2>1. /\ UNCHANGED <<chan, talk, taken>> /\ tasks'[d] = {}
          /\ ring'[d] \in {ring[d], "failed"}
      BY <1>3 DEF Crash
    <2>2. QED
      BY <1>0, <2>1 DEF Spoken
  <1>4. CASE UNCHANGED vars
    BY <1>0, <1>4 DEF vars, Spoken
  <1>5. QED
    BY <1>1, <1>2, <1>3, <1>4, SpokenEnvironment, SpokenHandler DEF Next

\* Nothing is ever taken for a call nobody answered, nor for its ringing: what is
\* taken is the price of the seconds between the answer and the end.
THEOREM ConversationIsCharged == Spec => []OnlyConversationIsCharged
  <1>1. Init => ChargedByOne /\ SpokenOnly
    BY DEF Init, ChargedByOne, Paying, SpokenOnly, Spoken
  <1>2. /\ TypeOK /\ TypeOK' /\ ChargedByOne /\ SpokenOnly /\ [Next]_vars
        => ChargedByOne' /\ SpokenOnly'
    BY ChargedStep, SpokenStep
  <1>3. SpokenOnly => OnlyConversationIsCharged
    BY DEF SpokenOnly, Spoken, OnlyConversationIsCharged
  <1>4. QED
    BY <1>1, <1>2, <1>3, PostpaidTypeCorrect, PTL DEF Spec

-----------------------------------------------------------------------------
(* The books: an answered call is billed, and the ledger follows the money. *)

Opening == {"open", "mark", "find", "claim"}
Reported == {"cdr", "create"}
Over(c) == chan[c] \in {"gone", "repeated"}

\* Which handlers a call has at which point of its life.
CallFits(c) ==
  /\ \A t \in tasks[c] : /\ t.k \in Opening => c \in Inbound
                         /\ t.k \in Reported => c \in Phone
                         /\ t.k \in {"find", "claim"} \cup Reported => Over(c)
  /\ chan[c] = "repeated" => c \in Phone
  /\ ring[c] # "none" => row[c].status # "NONE" /\ c \in Inbound
  /\ row[c].status = "IN_PROGRESS" => row[c].answered
  /\ c \in stale => c \in history.reconciled
  /\ row[c].status \notin OpenStatus => Over(c) \/ c \in history.reconciled
  /\ talk[c] > 0 => ring[c] = "answered" \/ c \in Phone

\* What excuses an answered call that is not billed for its conversation.
Excused(c) == \/ \E t \in tasks[c] : t.k = "mark"
              \/ c \in history.late \cup history.reconciled
              \/ Faults > 0

\* The answer is on its way to the bill.
BilledFits(c) ==
  /\ ring[c] = "answered" => row[c].answered \/ Excused(c)
  /\ talk[c] > 0 =>
       /\ \A t \in tasks[c] :
            t.k \in {"claim", "create"} => t.secs = talk[c] \/ Excused(c)
       /\ row[c].status \notin OpenStatus => row[c].billed = talk[c] \/ Excused(c)

\* What a step leaves of a call it is not about.
Untouched(c) ==
  /\ chan'[c] = chan[c] /\ ring'[c] = ring[c] /\ talk'[c] = talk[c]
  /\ tasks'[c] = tasks[c] /\ row'[c] = row[c]
  /\ taken'[c] = taken[c] /\ ledger'[c] = ledger[c]
  /\ c \in stale' => c \in stale

\* What happened is not forgotten.
Remembers(c) ==
  /\ c \in history.late => c \in history'.late
  /\ c \in history.reconciled => c \in history'.reconciled
  /\ Faults > 0 => Faults' > 0
  /\ history.writes + history.crashes > 0 => history'.writes + history'.crashes > 0

LEMMA HistoryFields ==
  ASSUME TypeOK
  PROVE  /\ history.late \subseteq Calls /\ history.reconciled \subseteq Calls
         /\ history.lost \in Nat /\ history.writes \in Nat /\ history.crashes \in Nat
  BY DEF TypeOK

\* The history is only ever added to.
LEMMA HistoryGrows ==
  ASSUME TypeOK, NEW c \in Calls,
         \/ history' = history
         \/ history' = [history EXCEPT !.late = @ \cup {c}]
         \/ history' = [history EXCEPT !.reconciled = @ \cup {c}]
         \/ history' = [history EXCEPT !.writes = @ + 1]
         \/ history' = [history EXCEPT !.lost = @ + 1]
         \/ history' = [history EXCEPT !.crashes = @ + 1]
  PROVE  \A d \in Calls : Remembers(d)
  <1>1. history \in HistoryType
    BY DEF TypeOK, HistoryType
  <1>2. /\ \A x : [history EXCEPT !.late = x] = [late |-> x, reconciled |-> history.reconciled,
             lost |-> history.lost, writes |-> history.writes, crashes |-> history.crashes]
        /\ \A x : [history EXCEPT !.reconciled = x] = [late |-> history.late, reconciled |-> x,
             lost |-> history.lost, writes |-> history.writes, crashes |-> history.crashes]
        /\ \A x : [history EXCEPT !.lost = x] = [late |-> history.late,
             reconciled |-> history.reconciled,
             lost |-> x, writes |-> history.writes, crashes |-> history.crashes]
        /\ \A x : [history EXCEPT !.writes = x] = [late |-> history.late,
             reconciled |-> history.reconciled,
             lost |-> history.lost, writes |-> x, crashes |-> history.crashes]
        /\ \A x : [history EXCEPT !.crashes = x] = [late |-> history.late,
             reconciled |-> history.reconciled,
             lost |-> history.lost, writes |-> history.writes, crashes |-> x]
    BY <1>1 DEF HistoryType
  <1>3. /\ history.late \subseteq history'.late
        /\ history.reconciled \subseteq history'.reconciled
        /\ history'.lost \in {history.lost, history.lost + 1}
        /\ history'.writes \in {history.writes, history.writes + 1}
        /\ history'.crashes \in {history.crashes, history.crashes + 1}
    BY <1>2
  <1>4. QED
    BY <1>3, HistoryFields DEF Remembers, Faults

\* A call that nothing happens to fits as before.
LEMMA UntouchedFits ==
  ASSUME NEW d \in Calls, Untouched(d), Remembers(d), CallFits(d), BilledFits(d)
  PROVE  CallFits(d)' /\ BilledFits(d)'
  <1>1. Excused(d) => Excused(d)'
    BY DEF Untouched, Remembers, Excused
  <1>2. Over(d)' <=> Over(d)
    BY DEF Untouched, Over
  <1>3. CallFits(d)'
    BY <1>2 DEF CallFits, Untouched, Remembers
  <1>4. BilledFits(d)'
    BY <1>1 DEF BilledFits, Untouched
  <1>5. QED
    BY <1>3, <1>4

\* What the task operators do, call by call.
LEMMA TasksExactly ==
  ASSUME TypeOK, NEW c \in Calls, NEW d \in Calls
  PROVE  /\ \A t : Done(c, t) => tasks'[d] = IF d = c THEN tasks[d] \ {t} ELSE tasks[d]
         /\ \A t, u : Then(c, t, u) =>
              tasks'[d] = IF d = c THEN (tasks[d] \ {t}) \cup {u} ELSE tasks[d]
         /\ \A ts : Started(c, ts) => tasks'[d] = IF d = c THEN tasks[d] \cup ts ELSE tasks[d]
  BY DEF TypeOK, Done, Then, Started

\* Each step is about one call.
LEMMA EnvironmentTouchesOne ==
  ASSUME TypeOK, NEW c \in Calls, Environment(c), NEW d \in Calls
  PROVE  Remembers(d) /\ (d # c => Untouched(d))
  <1> USE DEF TrunkStep, MoneyKept
  <1>1. history' = history
    BY DEF Environment, CallComesIn, LegAnswers, NobodyAnswers, TrunkHangsUp,
           PhoneHangsUp, CdrAgain
  <1>2. Remembers(d)
    BY <1>1, HistoryGrows
  <1>3. ASSUME d # c PROVE Untouched(d)
    <2>1. tasks'[d] = tasks[d]
      BY <1>3, TasksExactly DEF Environment, CallComesIn, LegAnswers, NobodyAnswers,
           TrunkHangsUp, PhoneHangsUp, CdrAgain
    <2>2. UNCHANGED <<row, stale, taken, ledger>>
      BY DEF Environment, CallComesIn, LegAnswers, NobodyAnswers, TrunkHangsUp,
             PhoneHangsUp, CdrAgain
    <2>3. chan'[d] = chan[d] /\ ring'[d] = ring[d] /\ talk'[d] = talk[d]
      BY <1>3 DEF TypeOK, Environment, CallComesIn, LegAnswers, NobodyAnswers,
             TrunkHangsUp, PhoneHangsUp, CdrAgain
    <2>4. QED
      BY <2>1, <2>2, <2>3 DEF Untouched
  <1>4. QED
    BY <1>2, <1>3

LEMMA HandlerTouchesOne ==
  ASSUME TypeOK, NEW c \in Calls, Handler(c), NEW d \in Calls
  PROVE  Remembers(d) /\ (d # c => Untouched(d))
  <1> USE DEF MoneyKept, World
  <1>1. history' = history \/ history' = [history EXCEPT !.late = @ \cup {c}]
    BY DEF Handler, OpenRow, MarkAnswered, FindRow, Claim, FindCdr, CreateCdr,
           ReserveCost, DebitCost, RecordCharge
  <1>2. Remembers(d)
    BY <1>1, HistoryGrows
  <1>3. ASSUME d # c PROVE Untouched(d)
    <2>1. tasks'[d] = tasks[d]
      <3>1. \E t, u : Done(c, t) \/ Then(c, t, u)
        BY DEF Handler, OpenRow, MarkAnswered, FindRow, Claim, FindCdr,
               CreateCdr, ReserveCost, DebitCost, RecordCharge, Charge
      <3>2. QED
        BY <1>3, <3>1, TasksExactly
    <2>2. stale' = stale /\ chan' = chan /\ talk' = talk
      BY DEF Handler, OpenRow, MarkAnswered, FindRow, Claim, FindCdr,
           CreateCdr, ReserveCost, DebitCost, RecordCharge
    <2>3. ring'[d] = ring[d] /\ row'[d] = row[d]
      BY <1>3 DEF TypeOK, Handler, OpenRow, MarkAnswered, FindRow, Claim, FindCdr,
           CreateCdr, ReserveCost, DebitCost, RecordCharge, Claimed
    <2>4. taken'[d] = taken[d] /\ ledger'[d] = ledger[d]
      BY <1>3 DEF TypeOK, Handler, OpenRow, MarkAnswered, FindRow, Claim, FindCdr,
           CreateCdr, ReserveCost, DebitCost, RecordCharge, TakeFrom
    <2>5. QED
      BY <2>1, <2>2, <2>3, <2>4 DEF Untouched
  <1>4. QED
    BY <1>2, <1>3

LEMMA FailureTouchesOne ==
  ASSUME TypeOK, NEW c \in Calls,
         ReadStale(c) \/ WriteStale(c) \/ StepFails(c) \/ HangupIsMissed(c),
         NEW d \in Calls
  PROVE  Remembers(d) /\ (d # c => Untouched(d))
  <1> USE DEF MoneyKept, World
  <1>1. \/ history' = history
        \/ history' = [history EXCEPT !.reconciled = @ \cup {c}]
        \/ history' = [history EXCEPT !.writes = @ + 1]
        \/ history' = [history EXCEPT !.lost = @ + 1]
    BY DEF ReadStale, WriteStale, StepFails, HangupIsMissed
  <1>2. Remembers(d)
    BY <1>1, HistoryGrows
  <1>3. ASSUME d # c PROVE Untouched(d)
    <2>1. tasks'[d] = tasks[d]
      BY <1>3, TasksExactly DEF ReadStale, WriteStale, StepFails, HangupIsMissed
    <2>2. /\ chan'[d] = chan[d] /\ row'[d] = row[d] /\ (d \in stale' => d \in stale)
          /\ UNCHANGED <<ring, talk, taken, ledger>>
      BY <1>3 DEF TypeOK, ReadStale, WriteStale, StepFails, HangupIsMissed
    <2>3. QED
      BY <2>1, <2>2 DEF Untouched
  <1>4. QED
    BY <1>2, <1>3

\* The steps of trunk, extensions and phones keep a call in order.
LEMMA EnvironmentFits ==
  ASSUME TypeOK, NEW c \in Calls, Environment(c), CallFits(c), BilledFits(c), Remembers(c)
  PROVE  CallFits(c)' /\ BilledFits(c)'
  <1> USE DEF TrunkStep, MoneyKept
  <1>0. /\ chan \in [Calls -> {"none", "up", "gone", "repeated"}]
        /\ ring \in [Calls -> {"none", "ringing", "answered", "failed"}]
        /\ talk \in [Calls -> Int] /\ Inbound \cap Phone = {}
        /\ \A k, n : New(k, n).k = k
    BY PostpaidAssumption DEF TypeOK, New
  <1>1. CASE CallComesIn(c)
    <2>1. /\ c \in Inbound /\ chan[c] \in {"none", "up"} /\ chan'[c] = "up"
          /\ tasks'[c] = tasks[c] \cup {New("open", 1)}
          /\ UNCHANGED <<ring, talk, row, stale, history>>
      BY <1>0, <1>1, TasksExactly DEF CallComesIn
    <2>2. Excused(c) => Excused(c)'
      BY <2>1 DEF Excused, Faults
    <2>3. CallFits(c)'
      BY <1>0, <2>1 DEF CallFits, Over, Opening, Reported
    <2>4. BilledFits(c)'
      BY <1>0, <2>1, <2>2 DEF BilledFits
    <2>5. QED
      BY <2>3, <2>4
  <1>2. CASE LegAnswers(c)
    <2>1. /\ ring[c] = "ringing" /\ ring'[c] = "answered" /\ talk'[c] \in {talk[c], -1}
          /\ tasks'[c] = tasks[c] \cup {New("mark", 1)}
          /\ UNCHANGED <<chan, row, stale, history>>
      BY <1>0, <1>2, TasksExactly DEF LegAnswers
    <2>2. Excused(c)'
      BY <1>0, <2>1 DEF Excused
    <2>3. CallFits(c)'
      BY <1>0, <2>1 DEF CallFits, Over, Opening, Reported
    <2>4. QED
      BY <2>2, <2>3 DEF BilledFits
  <1>3. CASE NobodyAnswers(c)
    <2>1. /\ ring[c] = "ringing" /\ ring'[c] = "failed"
          /\ UNCHANGED <<chan, talk, tasks, row, stale, history>>
      BY <1>0, <1>3 DEF NobodyAnswers
    <2>2. Excused(c) => Excused(c)'
      BY <2>1 DEF Excused, Faults
    <2>3. CallFits(c)'
      BY <1>0, <2>1 DEF CallFits, Over, Opening, Reported
    <2>4. QED
      BY <2>1, <2>2, <2>3 DEF BilledFits
  <1>4. CASE TrunkHangsUp(c)
    <2>1. /\ c \in Inbound /\ chan[c] = "up" /\ chan'[c] = "gone"
          /\ talk'[c] > 0 => ring[c] = "answered"
          /\ tasks'[c] = tasks[c] \cup {New("find", 1), New("find", 2)}
          /\ UNCHANGED <<ring, row, stale, history>>
      <3>1. PICK s \in (IF ring[c] = "answered" THEN Talks ELSE {0}) :
              talk' = [talk EXCEPT ![c] = s]
        BY <1>4 DEF TrunkHangsUp
      <3>2. talk'[c] = s /\ (s # 0 => ring[c] = "answered")
        BY <1>0, <3>1
      <3>3. tasks'[c] = tasks[c] \cup {New("find", 1), New("find", 2)}
        BY <1>4, TasksExactly DEF TrunkHangsUp
      <3>4. QED
        BY <1>0, <1>4, <3>2, <3>3 DEF TrunkHangsUp
    <2>2. Excused(c) => Excused(c)'
      BY <2>1 DEF Excused, Faults
    <2>3. CallFits(c)'
      BY <1>0, <2>1 DEF CallFits, Over, Opening, Reported
    <2>4. /\ \A t \in tasks'[c] : t.k \notin {"claim", "create"}
          /\ row[c].status \notin OpenStatus => Excused(c)
      BY <1>0, <2>1 DEF CallFits, Over, Reported, Excused
    <2>5. BilledFits(c)'
      BY <2>1, <2>2, <2>4 DEF BilledFits
    <2>6. QED
      BY <2>3, <2>5
  <1>5. CASE PhoneHangsUp(c)
    <2>1. /\ c \in Phone /\ chan[c] = "none" /\ chan'[c] = "gone"
          /\ tasks'[c] = tasks[c] \cup {New("cdr", 1)}
          /\ UNCHANGED <<ring, row, stale, history>>
      BY <1>0, <1>5, TasksExactly DEF PhoneHangsUp
    <2>2. Excused(c) => Excused(c)'
      BY <2>1 DEF Excused, Faults
    <2>3. CallFits(c)'
      BY <1>0, <2>1 DEF CallFits, Over, Opening, Reported
    <2>4. /\ \A t \in tasks'[c] : t.k \notin {"claim", "create"}
          /\ row[c].status \notin OpenStatus => Excused(c)
      BY <1>0, <2>1 DEF CallFits, Over, Reported, Excused
    <2>5. BilledFits(c)'
      BY <2>1, <2>2, <2>4 DEF BilledFits
    <2>6. QED
      BY <2>3, <2>5
  <1>6. CASE CdrAgain(c)
    <2>1. /\ c \in Phone /\ chan[c] = "gone" /\ chan'[c] = "repeated"
          /\ tasks'[c] = tasks[c] \cup {New("cdr", 2)}
          /\ UNCHANGED <<ring, talk, row, stale, history>>
      BY <1>0, <1>6, TasksExactly DEF CdrAgain
    <2>2. Excused(c) => Excused(c)'
      BY <2>1 DEF Excused, Faults
    <2>3. CallFits(c)'
      BY <1>0, <2>1 DEF CallFits, Over, Opening, Reported
    <2>4. BilledFits(c)'
      BY <1>0, <2>1, <2>2 DEF BilledFits
    <2>5. QED
      BY <2>3, <2>4
  <1>7. QED
    BY <1>1, <1>2, <1>3, <1>4, <1>5, <1>6 DEF Environment

\* A handler that ends, or goes on to something that is not a bill, changes
\* neither the row nor what the call waits for.
LEMMA HandlerPasses ==
  ASSUME TypeOK, NEW c \in Calls, CallFits(c), BilledFits(c), Remembers(c),
         UNCHANGED <<chan, ring, talk, row, stale>>,
         NEW t \in tasks[c], t.k # "mark",
         \A u \in tasks'[c] : u \in tasks[c] \/ u.k \in {"reserve", "debit", "record"},
         \A u \in tasks[c] : u = t \/ u \in tasks'[c]
  PROVE  CallFits(c)' /\ BilledFits(c)'
  <1>1. Excused(c) => Excused(c)'
    BY DEF Excused, Remembers
  <1>2. CallFits(c)'
    BY DEF CallFits, Over, Opening, Reported, Remembers
  <1>3. BilledFits(c)'
    BY <1>1 DEF BilledFits
  <1>4. QED
    BY <1>2, <1>3

\* What a handler of the given kind is.
LEMMA HandlerTasks ==
  ASSUME TypeOK, NEW c \in Calls, NEW k, NEW t \in TasksOf(c, k)
  PROVE  t \in tasks[c] /\ t.k = k /\ t \in Task /\ t.secs \in Nat /\ t.n \in {1, 2}
  BY DEF TypeOK, TasksOf, Task

\* A handler that is done, or takes another step with what it holds.
LEMMA HandlerGoesOn ==
  ASSUME NEW t \in Task, NEW k
  PROVE  [t EXCEPT !.k = k].k = k /\ [t EXCEPT !.k = k].secs = t.secs
  BY DEF Task

\* The row of a call.
LEMMA RowFields ==
  ASSUME TypeOK, NEW c \in Calls
  PROVE  /\ row[c].billed \in Nat /\ row[c].answered \in BOOLEAN
         /\ \A s, b : LET r == [row EXCEPT ![c].status = s, ![c].billed = b] IN
              r[c].status = s /\ r[c].billed = b /\ r[c].answered = row[c].answered
         /\ \A s, a : LET r == [row EXCEPT ![c].status = s, ![c].answered = a] IN
              r[c].status = s /\ r[c].answered = a /\ r[c].billed = row[c].billed
         /\ \A s : LET r == [row EXCEPT ![c].status = s] IN
              r[c].status = s /\ r[c].answered = row[c].answered
                /\ r[c].billed = row[c].billed
  <1>1. row[c] \in Row /\ c \in DOMAIN row
    BY DEF TypeOK
  <1>2. QED
    BY <1>1 DEF Row

\* The handler that closes a row bills it for what the handler had worked out.
LEMMA ClosingFits ==
  ASSUME TypeOK, NEW c \in Calls, CallFits(c), BilledFits(c), Remembers(c),
         UNCHANGED <<chan, ring, talk, stale, history>>,
         NEW t \in tasks[c], t \in Task, t.k \in {"claim", "create"},
         Claimed(c, t), Charge(c, t)
  PROVE  CallFits(c)' /\ BilledFits(c)'
  <1>1. /\ row'[c].status \in {"COMPLETED", "NO_ANSWER"}
        /\ row'[c].answered = row[c].answered /\ row'[c].billed = t.secs
    BY RowFields DEF Claimed
  <1>2. /\ \A u \in tasks'[c] : u \in tasks[c] \/ u.k = "reserve"
        /\ \A u \in tasks[c] : u = t \/ u \in tasks'[c]
    <2> DEFINE v == [t EXCEPT !.k = "reserve"]
    <2>1. v.k = "reserve"
      BY HandlerGoesOn
    <2>2. Done(c, t) \/ Then(c, t, v)
      BY DEF Charge
    <2> HIDE DEF v
    <2>3. tasks'[c] = tasks[c] \ {t} \/ tasks'[c] = (tasks[c] \ {t}) \cup {v}
      BY <2>2, TasksExactly
    <2>4. QED
      BY <2>1, <2>3
  <1>3. Excused(c) => Excused(c)'
    BY <1>2 DEF Excused, Faults
  <1>4. Over(c)' /\ Over(c)
    BY DEF CallFits, Over, Reported
  <1>5. CallFits(c)'
    BY <1>1, <1>2, <1>4 DEF CallFits, Over, Opening, Reported
  <1>6. talk[c] > 0 => t.secs = talk[c] \/ Excused(c)
    BY DEF BilledFits
  <1>7. BilledFits(c)'
    BY <1>1, <1>2, <1>3, <1>6 DEF BilledFits
  <1>8. QED
    BY <1>5, <1>7

\* The handler of an answer answers the row, unless the end was there first.
LEMMA MarkFits ==
  ASSUME TypeOK, NEW c \in Calls, CallFits(c), BilledFits(c), Remembers(c), MarkAnswered(c)
  PROVE  CallFits(c)' /\ BilledFits(c)'
  <1>1. PICK t \in TasksOf(c, "mark") : MarkAnswered(c)!(t)
    BY DEF MarkAnswered
  <1>2. t \in tasks[c] /\ t.k = "mark" /\ c \in Inbound /\ c \notin Phone
    BY HandlerTasks, PostpaidAssumption DEF CallFits, Opening
  <1>3. UNCHANGED <<chan, ring, talk, stale>> /\ tasks'[c] = tasks[c] \ {t}
    BY <1>1, TasksExactly DEF World
  <1>4. /\ row[c].status = "RINGING" =>
             row'[c].status = "IN_PROGRESS" /\ row'[c].answered
        /\ row[c].status # "RINGING" => row'[c] = row[c]
        /\ row'[c].billed = row[c].billed
    BY <1>1, RowFields
  <1>5. chan[c] = "gone" => c \in history'.late
    BY <1>1 DEF TypeOK
  <1>6. CallFits(c)'
    BY <1>2, <1>3, <1>4 DEF CallFits, Over, Opening, Reported, OpenStatus, Remembers
  <1>7. CASE Over(c)
    <2>1. chan[c] = "gone"
      BY <1>2, <1>7 DEF Over, CallFits
    <2>2. Excused(c)'
      BY <1>5, <2>1 DEF Excused
    <2>3. BilledFits(c)'
      BY <2>2 DEF BilledFits
    <2>4. QED
      BY <1>6, <2>3
  <1>8. CASE ~Over(c)
    <2>1. c \in history.reconciled => Excused(c)'
      BY DEF Excused, Remembers
    <2>2. \A u \in tasks'[c] : u.k \notin {"claim", "create"}
      BY <1>3, <1>8 DEF CallFits, Reported
    <2>3. row'[c].status \notin OpenStatus => Excused(c)'
      BY <1>4, <1>8, <2>1 DEF CallFits, OpenStatus
    <2>4. ring[c] = "answered" => row'[c].answered \/ Excused(c)'
      <3>1. ring[c] = "answered" => row[c].status # "NONE"
        BY DEF CallFits
      <3>2. CASE row[c].status \in {"RINGING", "IN_PROGRESS"}
        BY <1>4, <3>2 DEF CallFits
      <3>3. CASE row[c].status \notin OpenStatus
        BY <1>8, <2>1, <3>3 DEF CallFits
      <3>4. QED
        BY <3>1, <3>2, <3>3 DEF OpenStatus
    <2>5. BilledFits(c)'
      BY <1>3, <2>2, <2>3, <2>4 DEF BilledFits
    <2>6. QED
      BY <1>6, <2>5
  <1>9. QED
    BY <1>7, <1>8

\* A handler that reads the row works out what its call talked, unless the
\* answer is still to be written.
LEMMA ReadingFits ==
  ASSUME TypeOK, NEW c \in Calls, CallFits(c), BilledFits(c), Remembers(c),
         FindRow(c) \/ FindCdr(c)
  PROVE  CallFits(c)' /\ BilledFits(c)'
  <1>1. UNCHANGED <<chan, ring, talk, row, stale, history>>
    BY DEF FindRow, FindCdr, World
  <1>2. PICK t, u :
          /\ t \in tasks[c]
          /\ t.k \in {"find", "cdr"}
          /\ Done(c, t) \/ Then(c, t, u)
          /\ u.k = IF t.k = "find" THEN "claim" ELSE "create"
          /\ u.secs = IF t.k = "find" THEN BilledSecs(c) ELSE ReportedSecs(c)
    <2>1. CASE FindRow(c)
      <3>1. PICK t \in TasksOf(c, "find") : FindRow(c)!(t)
        BY <2>1 DEF FindRow
      <3> DEFINE u == [t EXCEPT !.k = "claim", !.answered = row[c].answered,
                                !.secs = BilledSecs(c)]
      <3>2. t \in tasks[c] /\ t.k = "find" /\ u.k = "claim" /\ u.secs = BilledSecs(c)
        BY HandlerTasks DEF Task
      <3>3. Done(c, t) \/ Then(c, t, u)
        BY <3>1
      <3> HIDE DEF u
      <3>4. QED
        BY <3>2, <3>3
    <2>2. CASE FindCdr(c)
      <3>1. PICK t \in TasksOf(c, "cdr") : FindCdr(c)!(t)
        BY <2>2 DEF FindCdr
      <3> DEFINE u == [t EXCEPT !.k = "create", !.secs = ReportedSecs(c),
                                !.answered = ReportedSecs(c) > 0]
      <3>2. t \in tasks[c] /\ t.k = "cdr" /\ u.k = "create" /\ u.secs = ReportedSecs(c)
        BY HandlerTasks DEF Task
      <3>3. Done(c, t) \/ Then(c, t, u)
        BY <3>1
      <3> HIDE DEF u
      <3>4. QED
        BY <3>2, <3>3
    <2>3. QED
      BY <2>1, <2>2
  <1>3. \/ tasks'[c] = tasks[c] \ {t}
        \/ tasks'[c] = (tasks[c] \ {t}) \cup {u}
    BY <1>2, TasksExactly
  <1>4. Excused(c) => Excused(c)'
    BY <1>1, <1>2, <1>3 DEF Excused, Faults
  <1>5. Over(c) /\ (t.k = "find" => c \in Inbound) /\ (t.k = "cdr" => c \in Phone)
    BY <1>2 DEF CallFits, Opening, Reported
  <1>6. CallFits(c)'
    BY <1>1, <1>2, <1>3, <1>5 DEF CallFits, Over, Opening, Reported
  <1>7. talk[c] > 0 => u.secs = talk[c] \/ Excused(c)
    BY <1>2, <1>5, PostpaidAssumption DEF CallFits, BilledFits, BilledSecs, ReportedSecs
  <1>8. BilledFits(c)'
    BY <1>1, <1>3, <1>4, <1>7 DEF BilledFits
  <1>9. QED
    BY <1>6, <1>8

\* The handlers keep a call in order.
LEMMA HandlerFits ==
  ASSUME TypeOK, NEW c \in Calls, Handler(c), CallFits(c), BilledFits(c), Remembers(c)
  PROVE  CallFits(c)' /\ BilledFits(c)'
  <1> USE DEF MoneyKept, World
  <1>1. CASE OpenRow(c)
    <2>1. PICK t \in TasksOf(c, "open") : OpenRow(c)!(t)
      BY <1>1 DEF OpenRow
    <2>2. t \in tasks[c] /\ t.k = "open" /\ c \in Inbound
      BY HandlerTasks DEF CallFits, Opening
    <2>3. /\ tasks'[c] = tasks[c] \ {t} /\ UNCHANGED <<chan, talk, stale, history>>
          /\ ring'[c] = ring[c] \/ (ring[c] = "none" /\ ring'[c] = "ringing")
      BY <2>1, TasksExactly DEF TypeOK
    <2>4. /\ row[c].status = "NONE" => row'[c].status = "RINGING"
          /\ row[c].status # "NONE" => row'[c].status = row[c].status
          /\ row'[c].answered = row[c].answered /\ row'[c].billed = row[c].billed
      BY <2>1, RowFields
    <2>5. Excused(c) => Excused(c)'
      BY <2>2, <2>3 DEF Excused, Faults
    <2>6. CallFits(c)'
      BY <2>2, <2>3, <2>4 DEF CallFits, Over, Opening, Reported, OpenStatus
    <2>7. BilledFits(c)'
      BY <2>3, <2>4, <2>5 DEF BilledFits, OpenStatus
    <2>8. QED
      BY <2>6, <2>7
  <1>2. CASE MarkAnswered(c)
    BY <1>2, MarkFits
  <1>3. CASE FindRow(c) \/ FindCdr(c)
    BY <1>3, ReadingFits
  <1>4. CASE Claim(c) \/ CreateCdr(c)
    <2>1. PICK t \in tasks[c] :
            /\ t.k \in {"claim", "create"} /\ t \in Task
            /\ \/ Claimed(c, t) /\ Charge(c, t)
               \/ Done(c, t) /\ UNCHANGED row
            /\ UNCHANGED <<chan, ring, talk, stale, history>>
      BY <1>4, HandlerTasks DEF Claim, CreateCdr
    <2>2. CASE Claimed(c, t) /\ Charge(c, t)
      BY <2>1, <2>2, ClosingFits
    <2>3. CASE Done(c, t) /\ UNCHANGED row
      BY <2>1, <2>3, TasksExactly, HandlerPasses
    <2>4. QED
      BY <2>1, <2>2, <2>3
  <1>5. CASE ReserveCost(c) \/ DebitCost(c) \/ RecordCharge(c)
    <2>1. PICK t, u :
            /\ t \in tasks[c]
            /\ t.k # "mark" /\ u.k \in {"debit", "record"}
            /\ Done(c, t) \/ Then(c, t, u)
      <3>1. PICK t \in UNION {TasksOf(c, k) : k \in {"reserve", "debit", "record"}} :
              \/ Done(c, t) \/ Then(c, t, [t EXCEPT !.k = "record"])
              \/ Then(c, t, [t EXCEPT !.k = "debit"])
        BY <1>5 DEF ReserveCost, DebitCost, RecordCharge
      <3>2. /\ t \in tasks[c] /\ t.k # "mark" /\ [t EXCEPT !.k = "record"].k = "record"
            /\ [t EXCEPT !.k = "debit"].k = "debit"
        BY HandlerTasks, HandlerGoesOn
      <3>3. QED
        BY <3>1, <3>2
    <2>2. UNCHANGED <<chan, ring, talk, row, stale>>
      BY <1>5 DEF ReserveCost, DebitCost, RecordCharge
    <2>3. tasks'[c] = tasks[c] \ {t} \/ tasks'[c] = (tasks[c] \ {t}) \cup {u}
      BY <2>1, TasksExactly
    <2>4. QED
      BY <2>1, <2>2, <2>3, HandlerPasses
  <1>6. QED
    BY <1>1, <1>2, <1>3, <1>4, <1>5 DEF Handler

\* So do the reconciliation and the failures, which are excuses of their own.
LEMMA FailureFits ==
  ASSUME TypeOK, NEW c \in Calls,
         ReadStale(c) \/ WriteStale(c) \/ StepFails(c) \/ HangupIsMissed(c),
         CallFits(c), BilledFits(c), Remembers(c)
  PROVE  CallFits(c)' /\ BilledFits(c)'
  <1> USE DEF MoneyKept, World
  <1>0. c \in DOMAIN chan /\ Inbound \cap Phone = {}
    BY PostpaidAssumption DEF TypeOK
  <1>1. CASE ReadStale(c)
    <2>1. /\ UNCHANGED <<chan, ring, talk, tasks, row>> /\ c \in history'.reconciled
      BY <1>1 DEF ReadStale, TypeOK
    <2>2. Excused(c)'
      BY <2>1 DEF Excused
    <2>3. CallFits(c)'
      BY <2>1 DEF CallFits, Over, Opening, Reported
    <2>4. QED
      BY <2>2, <2>3 DEF BilledFits
  <1>2. CASE WriteStale(c)
    <2>1. /\ UNCHANGED <<chan, ring, talk, tasks, history>> /\ row'[c].status = "FAILED"
          /\ c \in history.reconciled
      BY <1>2, RowFields DEF WriteStale, CallFits
    <2>2. Excused(c)'
      BY <2>1 DEF Excused
    <2>3. CallFits(c)'
      BY <2>1 DEF CallFits, Over, Opening, Reported
    <2>4. QED
      BY <2>2, <2>3 DEF BilledFits
  <1>3. CASE StepFails(c)
    <2>1. /\ UNCHANGED <<chan, ring, talk, row, stale>> /\ tasks'[c] \subseteq tasks[c]
      BY <1>3, TasksExactly DEF StepFails
    <2>2. history'.writes > 0 /\ Faults' > 0
      <3>1. history' = [history EXCEPT !.writes = @ + 1] /\ history \in HistoryType
        BY <1>3 DEF StepFails, TypeOK, HistoryType
      <3>2. history'.writes = history.writes + 1 /\ history'.lost = history.lost
            /\ history'.crashes = history.crashes
        BY <3>1 DEF HistoryType
      <3>3. QED
        BY <3>2, HistoryFields DEF Faults
    <2>3. Excused(c)'
      BY <2>2 DEF Excused
    <2>4. CallFits(c)'
      BY <2>1 DEF CallFits, Over, Opening, Reported, Remembers
    <2>5. QED
      BY <2>3, <2>4 DEF BilledFits
  <1>4. CASE HangupIsMissed(c)
    <2>1. /\ UNCHANGED <<ring, talk, tasks, row, stale>> /\ chan'[c] = "gone"
      BY <1>0, <1>4 DEF HangupIsMissed
    <2>2. Faults' > 0
      <3>1. history' = [history EXCEPT !.lost = @ + 1] /\ history \in HistoryType
        BY <1>4 DEF HangupIsMissed, TypeOK, HistoryType
      <3>2. history'.lost = history.lost + 1 /\ history'.writes = history.writes
            /\ history'.crashes = history.crashes
        BY <3>1 DEF HistoryType
      <3>3. QED
        BY <3>2, HistoryFields DEF Faults
    <2>3. Excused(c)'
      BY <2>2 DEF Excused
    <2>4. CallFits(c)'
      BY <2>1 DEF CallFits, Over, Opening, Reported, Remembers
    <2>5. QED
      BY <2>3, <2>4 DEF BilledFits
  <1>5. QED
    BY <1>1, <1>2, <1>3, <1>4

CallsFit == \A c \in Calls : CallFits(c) /\ BilledFits(c)

\* A restart forgets the handlers, and is an excuse.
LEMMA CrashFits ==
  ASSUME TypeOK, Crash, NEW d \in Calls, CallFits(d)
  PROVE  CallFits(d)' /\ BilledFits(d)'
  <1>1. /\ UNCHANGED <<chan, talk, row, stale>> /\ tasks'[d] = {}
        /\ ring'[d] = ring[d] \/ (ring[d] = "ringing" /\ ring'[d] = "failed")
    BY DEF Crash
  <1>2. /\ history'.crashes > 0 /\ Faults' > 0
        /\ history'.late = history.late /\ history'.reconciled = history.reconciled
    <2>1. history' = [history EXCEPT !.crashes = @ + 1] /\ history \in HistoryType
      BY DEF Crash, TypeOK, HistoryType
    <2>2. /\ history'.crashes = history.crashes + 1 /\ history'.writes = history.writes
          /\ history'.lost = history.lost
          /\ history'.late = history.late /\ history'.reconciled = history.reconciled
      BY <2>1 DEF HistoryType
    <2>3. QED
      BY <2>2, HistoryFields DEF Faults
  <1>3. Excused(d)'
    BY <1>2 DEF Excused
  <1>4. CallFits(d)'
    BY <1>1, <1>2 DEF CallFits, Over, Opening, Reported
  <1>5. QED
    BY <1>3, <1>4 DEF BilledFits

\* Every step keeps the calls in order.
LEMMA CallsFitStep ==
  ASSUME TypeOK, CallsFit, [Next]_vars
  PROVE  CallsFit'
  <1> SUFFICES ASSUME NEW d \in Calls PROVE CallFits(d)' /\ BilledFits(d)'
    BY DEF CallsFit
  <1>0. CallFits(d) /\ BilledFits(d)
    BY DEF CallsFit
  <1>1. ASSUME NEW c \in Calls, Environment(c) PROVE CallFits(d)' /\ BilledFits(d)'
    BY <1>0, <1>1, EnvironmentTouchesOne, EnvironmentFits, UntouchedFits
  <1>2. ASSUME NEW c \in Calls, Handler(c) PROVE CallFits(d)' /\ BilledFits(d)'
    BY <1>0, <1>2, HandlerTouchesOne, HandlerFits, UntouchedFits
  <1>3. ASSUME NEW c \in Calls,
               ReadStale(c) \/ WriteStale(c) \/ StepFails(c) \/ HangupIsMissed(c)
        PROVE  CallFits(d)' /\ BilledFits(d)'
    BY <1>0, <1>3, FailureTouchesOne, FailureFits, UntouchedFits
  <1>4. CASE Crash
    BY <1>0, <1>4, CrashFits
  <1>5. CASE UNCHANGED vars
    BY <1>0, <1>5, HistoryGrows, UntouchedFits DEF vars, Untouched
  <1>6. QED
    BY <1>1, <1>2, <1>3, <1>4, <1>5 DEF Next

-----------------------------------------------------------------------------
(* The ledger.                                                             *)

Due(c) == TasksOf(c, "record")

\* What was taken is in the ledger, or in the hands of the one handler that is
\* about to write it there.
LedgerFits(c) ==
  history.writes + history.crashes = 0 =>
    /\ \A t, u \in Due(c) : t = u
    /\ Due(c) = {} => ledger[c].sum = taken[c]
    /\ \A t \in Due(c) : /\ ledger[c].sum = 0 /\ taken[c] > 0
                         /\ taken[c] = CostOf(t.secs)

LedgersFit == \A c \in Calls : LedgerFits(c)

\* Nothing was taken or written.
LEMMA LedgerKept ==
  ASSUME NEW d \in Calls, LedgerFits(d), Remembers(d), TypeOK, TypeOK',
         taken'[d] = taken[d], ledger'[d] = ledger[d], Due(d)' = Due(d)
  PROVE  LedgerFits(d)'
  <1>1. history'.writes + history'.crashes = 0 => history.writes + history.crashes = 0
    <2>1. /\ history.writes \in Nat /\ history.crashes \in Nat
          /\ history'.writes \in Nat /\ history'.crashes \in Nat
      BY DEF TypeOK
    <2>2. QED
      BY <2>1 DEF Remembers
  <1>2. QED
    BY <1>1 DEF LedgerFits

\* Money moves from the balance into the hands of a handler.
LEMMA LedgerTakes ==
  ASSUME TypeOK, ChargedByOne, NEW c \in Calls, LedgerFits(c), NEW t \in Paying(c),
         TakeFrom(c, CostOf(t.secs)), Then(c, t, [t EXCEPT !.k = "record"]),
         UNCHANGED <<ledger, history>>
  PROVE  LedgerFits(c)'
  <1>1. t \in Task /\ t \in tasks[c] /\ t.k # "record" /\ t.secs \in Nat
    BY DEF TypeOK, Paying, Task
  <1>2. taken[c] = 0 /\ CostOf(t.secs) > 0 /\ CostOf(t.secs) \in Nat
    BY <1>1, CostOfType DEF ChargedByOne
  <1>3. taken'[c] = CostOf(t.secs)
    BY <1>2 DEF TakeFrom, TypeOK
  <1> DEFINE u == [t EXCEPT !.k = "record"]
  <1>4. u.k = "record" /\ u.secs = t.secs
    BY <1>1, HandlerGoesOn
  <1>5. tasks'[c] = (tasks[c] \ {t}) \cup {u}
    BY TasksExactly
  <1> HIDE DEF u
  <1>6. ASSUME history.writes + history.crashes = 0 PROVE Due(c)' = {u} /\ ledger[c].sum = 0
    <2>1. Due(c) = {} /\ ledger[c].sum = 0
      BY <1>2, <1>6 DEF LedgerFits
    <2>2. QED
      BY <1>1, <1>4, <1>5, <2>1 DEF Due, TasksOf
  <1>7. QED
    BY <1>2, <1>3, <1>4, <1>6 DEF LedgerFits

\* The tasks a step leaves, as far as the ledger is concerned.
LEMMA DueAfter ==
  ASSUME TypeOK, NEW c \in Calls, NEW d \in Calls
  PROVE  /\ \A t \in tasks[c] : t.k # "record" /\ Done(c, t) => Due(d)' = Due(d)
         /\ \A t \in tasks[c] : \A u : t.k # "record" /\ u.k # "record" /\ Then(c, t, u)
              => Due(d)' = Due(d)
         /\ \A ts : (\A t \in ts : t.k # "record") /\ Started(c, ts) => Due(d)' = Due(d)
  <1>0. ASSUME \A u : u \in tasks'[d] /\ u.k = "record" <=> u \in tasks[d] /\ u.k = "record"
        PROVE  Due(d)' = Due(d)
    <2>1. Due(d) = {u \in tasks[d] : u.k = "record"}
          /\ Due(d)' = {u \in tasks'[d] : u.k = "record"}
      BY DEF Due, TasksOf
    <2> HIDE DEF Due
    <2>2. QED
      BY <1>0, <2>1, Zenon
  <1>1. ASSUME NEW t \in tasks[c], t.k # "record", Done(c, t) PROVE Due(d)' = Due(d)
    <2>1. tasks'[d] = IF d = c THEN tasks[d] \ {t} ELSE tasks[d]
      BY <1>1, TasksExactly
    <2>2. QED
      BY <1>0, <1>1, <2>1
  <1>2. ASSUME NEW t \in tasks[c], NEW u, t.k # "record", u.k # "record", Then(c, t, u)
        PROVE  Due(d)' = Due(d)
    <2>1. tasks'[d] = IF d = c THEN (tasks[d] \ {t}) \cup {u} ELSE tasks[d]
      BY <1>2, TasksExactly
    <2>2. QED
      BY <1>0, <1>2, <2>1
  <1>3. ASSUME NEW ts, \A t \in ts : t.k # "record", Started(c, ts) PROVE Due(d)' = Due(d)
    <2>1. tasks'[d] = IF d = c THEN tasks[d] \cup ts ELSE tasks[d]
      BY <1>3, TasksExactly
    <2>2. QED
      BY <1>0, <1>3, <2>1
  <1>4. QED
    BY <1>1, <1>2, <1>3

\* Every handler keeps the ledger in order.
LEMMA LedgerHandler ==
  ASSUME TypeOK, TypeOK', ChargedByOne, NEW c \in Calls, LedgerFits(c), Handler(c)
  PROVE  LedgerFits(c)'
  <1> USE DEF MoneyKept, World
  <1>0. Remembers(c)
    BY HandlerTouchesOne
  <1>1. CASE OpenRow(c) \/ MarkAnswered(c) \/ FindRow(c) \/ Claim(c) \/ FindCdr(c) \/ CreateCdr(c)
    <2>1. UNCHANGED <<taken, ledger>>
      BY <1>1 DEF OpenRow, MarkAnswered, FindRow, Claim, FindCdr, CreateCdr
    <2>2. PICK t, u : /\ t \in tasks[c] /\ t.k # "record" /\ u.k # "record"
                      /\ Done(c, t) \/ Then(c, t, u)
      <3>1. CASE OpenRow(c) \/ MarkAnswered(c)
        <4>1. PICK t \in tasks[c] : t.k # "record" /\ Done(c, t)
          BY <3>1, HandlerTasks DEF OpenRow, MarkAnswered
        <4>2. New("open", 1).k # "record"
          BY DEF New
        <4>3. QED
          BY <4>1, <4>2
      <3>2. CASE FindRow(c)
        <4>1. PICK t \in TasksOf(c, "find") : FindRow(c)!(t)
          BY <3>2 DEF FindRow
        <4> DEFINE u == [t EXCEPT !.k = "claim", !.answered = row[c].answered,
                                  !.secs = BilledSecs(c)]
        <4>2. t \in tasks[c] /\ t.k # "record" /\ u.k # "record"
          BY HandlerTasks DEF Task
        <4>3. Done(c, t) \/ Then(c, t, u)
          BY <4>1
        <4> HIDE DEF u
        <4>4. QED
          BY <4>2, <4>3
      <3>3. CASE FindCdr(c)
        <4>1. PICK t \in TasksOf(c, "cdr") : FindCdr(c)!(t)
          BY <3>3 DEF FindCdr
        <4> DEFINE u == [t EXCEPT !.k = "create", !.secs = ReportedSecs(c),
                                  !.answered = ReportedSecs(c) > 0]
        <4>2. t \in tasks[c] /\ t.k # "record" /\ u.k # "record"
          BY HandlerTasks DEF Task
        <4>3. Done(c, t) \/ Then(c, t, u)
          BY <4>1
        <4> HIDE DEF u
        <4>4. QED
          BY <4>2, <4>3
      <3>4. CASE Claim(c) \/ CreateCdr(c)
        <4>1. PICK t \in UNION {TasksOf(c, k) : k \in {"claim", "create"}} :
                Done(c, t) \/ Then(c, t, [t EXCEPT !.k = "reserve"])
          BY <3>4 DEF Claim, CreateCdr, Charge
        <4>2. /\ t \in tasks[c] /\ t.k # "record"
              /\ [t EXCEPT !.k = "reserve"].k # "record"
          BY HandlerTasks, HandlerGoesOn
        <4>3. QED
          BY <4>1, <4>2
      <3>5. QED
        BY <1>1, <3>1, <3>2, <3>3, <3>4
    <2>3. Due(c)' = Due(c)
      BY <2>2, DueAfter
    <2>4. QED
      BY <1>0, <2>1, <2>3, LedgerKept
  <1>2. CASE ReserveCost(c)
    <2>1. PICK t \in TasksOf(c, "reserve") : ReserveCost(c)!(t)
      BY <1>2 DEF ReserveCost
    <2>2. t \in Paying(c) /\ t \in tasks[c] /\ t \in Task /\ t.k # "record"
      BY HandlerTasks DEF Paying
    <2>3. CASE CanReserve(balance, CreditLimit, CostOf(t.secs))
      BY <2>1, <2>2, <2>3, LedgerTakes
    <2>4. CASE ~CanReserve(balance, CreditLimit, CostOf(t.secs))
      <3>1. [t EXCEPT !.k = "debit"].k # "record"
        BY <2>2, HandlerGoesOn
      <3>2. Due(c)' = Due(c)
        BY <2>1, <2>2, <2>4, <3>1, DueAfter
      <3>3. QED
        BY <1>0, <2>1, <2>4, <3>2, LedgerKept
    <2>5. QED
      BY <2>3, <2>4
  <1>3. CASE DebitCost(c)
    <2>1. PICK t \in TasksOf(c, "debit") : DebitCost(c)!(t)
      BY <1>3 DEF DebitCost
    <2>2. t \in Paying(c)
      BY HandlerTasks DEF Paying
    <2>3. QED
      BY <2>1, <2>2, LedgerTakes
  <1>4. CASE RecordCharge(c)
    <2>1. PICK t \in TasksOf(c, "record") : RecordCharge(c)!(t)
      BY <1>4 DEF RecordCharge
    <2>2. /\ taken' = taken /\ history' = history
          /\ ledger'[c].sum = ledger[c].sum + CostOf(t.secs)
      <3>1. ledger' = [ledger EXCEPT ![c] = [rows |-> ledger[c].rows + 1,
                                             sum |-> ledger[c].sum + CostOf(t.secs)]]
        BY <2>1
      <3>2. ledger'[c] = [rows |-> ledger[c].rows + 1, sum |-> ledger[c].sum + CostOf(t.secs)]
        BY <3>1 DEF TypeOK
      <3>3. QED
        BY <2>1, <3>2
    <2>3. t \in Due(c) /\ CostOf(t.secs) \in Nat
      BY HandlerTasks, CostOfType DEF Due
    <2>4. tasks'[c] = tasks[c] \ {t}
      BY <2>1, TasksExactly
    <2>5. ASSUME history.writes + history.crashes = 0
          PROVE  Due(c)' = {} /\ ledger'[c].sum = taken[c]
      <3>1. /\ \A u \in Due(c) : u = t
            /\ ledger[c].sum = 0 /\ taken[c] = CostOf(t.secs)
        BY <2>3, <2>5 DEF LedgerFits
      <3>2. Due(c)' = {}
        BY <2>4, <3>1 DEF Due, TasksOf
      <3>3. QED
        BY <2>2, <2>3, <3>1, <3>2
    <2>6. QED
      BY <2>2, <2>5 DEF LedgerFits
  <1>5. QED
    BY <1>1, <1>2, <1>3, <1>4 DEF Handler

\* Every step keeps the ledger in order.
LEMMA LedgersFitStep ==
  ASSUME TypeOK, TypeOK', ChargedByOne, LedgersFit, [Next]_vars
  PROVE  LedgersFit'
  <1> USE DEF MoneyKept, World
  <1> SUFFICES ASSUME NEW d \in Calls PROVE LedgerFits(d)'
    BY DEF LedgersFit
  <1>0. LedgerFits(d)
    BY DEF LedgersFit
  <1>1. ASSUME Untouched(d), Remembers(d) PROVE LedgerFits(d)'
    BY <1>0, <1>1, LedgerKept DEF Untouched, Due, TasksOf
  <1>2. ASSUME NEW c \in Calls, Handler(c) PROVE LedgerFits(d)'
    BY <1>0, <1>1, <1>2, HandlerTouchesOne, LedgerHandler
  <1>3. ASSUME NEW c \in Calls, Environment(c) PROVE LedgerFits(d)'
    <2>1. /\ UNCHANGED <<taken, ledger>>
          /\ \/ \E ts : (\A t \in ts : t.k # "record") /\ Started(c, ts)
             \/ tasks' = tasks
      <3>1. \A k, m, n : k # "record" =>
              /\ \A t \in {New(k, n)} : t.k # "record"
              /\ \A t \in {New(k, m), New(k, n)} : t.k # "record"
        BY DEF New
      <3>2. \/ Started(c, {New("open", 1)}) \/ Started(c, {New("mark", 1)})
            \/ Started(c, {New("find", 1), New("find", 2)})
            \/ Started(c, {New("cdr", 1)}) \/ Started(c, {New("cdr", 2)})
            \/ tasks' = tasks
        BY <1>3 DEF Environment, CallComesIn, LegAnswers, NobodyAnswers, TrunkHangsUp,
               PhoneHangsUp, CdrAgain
      <3>3. UNCHANGED <<taken, ledger>>
        BY <1>3 DEF Environment, CallComesIn, LegAnswers, NobodyAnswers, TrunkHangsUp,
               PhoneHangsUp, CdrAgain, TrunkStep
      <3>4. QED
        BY <3>1, <3>2, <3>3
    <2>2. Due(d)' = Due(d)
      BY <2>1, DueAfter DEF Due, TasksOf
    <2>3. QED
      BY <1>0, <1>3, <2>1, <2>2, EnvironmentTouchesOne, LedgerKept
  <1>4. ASSUME NEW c \in Calls, ReadStale(c) \/ WriteStale(c) \/ HangupIsMissed(c)
        PROVE  LedgerFits(d)'
    <2>1. UNCHANGED <<taken, ledger, tasks>>
      BY <1>4 DEF ReadStale, WriteStale, HangupIsMissed
    <2>2. QED
      BY <1>0, <1>4, <2>1, FailureTouchesOne, LedgerKept DEF Due, TasksOf
  <1>5. ASSUME history'.writes + history'.crashes > 0 PROVE LedgerFits(d)'
    <2>1. history'.writes + history'.crashes \in Nat
      BY DEF TypeOK
    <2>2. QED
      BY <1>5, <2>1 DEF LedgerFits
  <1>6. ASSUME NEW c \in Calls, StepFails(c) PROVE LedgerFits(d)'
    <2>1. history' = [history EXCEPT !.writes = @ + 1] /\ history \in HistoryType
      BY <1>6 DEF StepFails, TypeOK, HistoryType
    <2>2. history'.writes = history.writes + 1 /\ history'.crashes = history.crashes
      BY <2>1 DEF HistoryType
    <2>3. QED
      BY <1>5, <2>2, HistoryFields
  <1>7. CASE Crash
    <2>1. history' = [history EXCEPT !.crashes = @ + 1] /\ history \in HistoryType
      BY <1>7 DEF Crash, TypeOK, HistoryType
    <2>2. history'.crashes = history.crashes + 1 /\ history'.writes = history.writes
      BY <2>1 DEF HistoryType
    <2>3. QED
      BY <1>5, <2>2, HistoryFields
  <1>8. CASE UNCHANGED vars
    BY <1>1, <1>8, HistoryGrows DEF vars, Untouched
  <1>9. QED
    BY <1>2, <1>3, <1>4, <1>6, <1>7, <1>8 DEF Next

\* The books agree: an answered call that is closed is billed for its whole
\* conversation, and the ledger explains what was taken, but for the named causes.
THEOREM BooksAreSound == Spec => []BillsAreSound
  <1>1. Init => ChargedByOne /\ CallsFit /\ LedgersFit
    <2> SUFFICES ASSUME Init PROVE ChargedByOne /\ CallsFit /\ LedgersFit
      OBVIOUS
    <2>1. ChargedByOne
      BY DEF Init, ChargedByOne, Paying
    <2>2. CallsFit
      BY DEF Init, CallsFit, CallFits, BilledFits, OpenStatus, Opening, Reported
    <2>3. LedgersFit
      BY DEF Init, LedgersFit, LedgerFits, Due, TasksOf
    <2>4. QED
      BY <2>1, <2>2, <2>3
  <1>2. /\ TypeOK /\ TypeOK' /\ ChargedByOne /\ CallsFit /\ LedgersFit /\ [Next]_vars
        => ChargedByOne' /\ CallsFit' /\ LedgersFit'
    BY ChargedStep, CallsFitStep, LedgersFitStep
  <1>3. CallsFit => AnsweredCallIsBilled
    BY DEF CallsFit, BilledFits, Excused, AnsweredCallIsBilled, Closed, TasksOf
  <1>4. TypeOK /\ LedgersFit => LedgerFollowsMoney
    <2>1. TypeOK => history.writes + history.crashes \in Nat
      BY DEF TypeOK
    <2>2. QED
      BY <2>1 DEF LedgersFit, LedgerFits, Due, LedgerFollowsMoney
  <1>5. TypeOK /\ CallsFit /\ LedgersFit => BillsAreSound
    BY <1>3, <1>4 DEF BillsAreSound
  <1>6. QED
    BY <1>1, <1>2, <1>5, PostpaidTypeCorrect, PTL DEF Spec
=============================================================================
