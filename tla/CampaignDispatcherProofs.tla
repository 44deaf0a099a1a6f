----------------------- MODULE CampaignDispatcherProofs -----------------------
(***************************************************************************)
(* Theorems about the campaign dispatcher, for any number of contacts and  *)
(* passes, any prices, any concurrency and any bounds.                     *)
(***************************************************************************)
EXTENDS CampaignDispatcher, BillingProofs, FiniteSetTheorems, SequenceTheorems

-----------------------------------------------------------------------------
(* Types.                                                                  *)

History == [requests: Nat, overlap: BOOLEAN, retried: BOOLEAN, writes: Nat, crashes: Nat]

\* The parts of a pass that is changed keep their types.
LEMMA PassParts ==
  ASSUME TypeOK, NEW p \in Passes
  PROVE  /\ passes[p] \in Pass
         /\ passes[p].pc \in PassSteps
         /\ passes[p].seen \in Int
         /\ passes[p].slots \in Nat
         /\ passes[p].todo \subseteq Pending
         /\ passes[p].cur \in Pending \cup {NoOne}
         /\ passes[p].cur.attempts \in Nat
         /\ passes[p].call \in Nat
  BY DEF TypeOK, Pass, Pending, NoOne

\* A sequence one element of which is replaced.
LEMMA Replaced ==
  ASSUME NEW S, NEW s \in Seq(S), NEW i, NEW x, i \in DOMAIN s => x \in S
  PROVE  /\ [s EXCEPT ![i] = x] \in Seq(S)
         /\ DOMAIN [s EXCEPT ![i] = x] = DOMAIN s
         /\ Len([s EXCEPT ![i] = x]) = Len(s)
         /\ \A j \in DOMAIN s : [s EXCEPT ![i] = x][j] = IF j = i THEN x ELSE s[j]
  <1>1. s \in [1 .. Len(s) -> S] /\ Len(s) \in Nat /\ DOMAIN s = 1 .. Len(s)
    OBVIOUS
  <1>2. [s EXCEPT ![i] = x] \in [1 .. Len(s) -> S]
    BY <1>1
  <1>3. QED
    BY <1>1, <1>2

\* The price of the campaign is one, whatever its mode.
LEMMA PriceIsOne ==
  ASSUME mode \in Modes
  PROVE  /\ Price \in PriceConfig
         /\ EstimatedCost \in Nat
         /\ \A secs \in Nat : CostOf(secs) \in Nat
         /\ \A secs \in Nat : secs <= MaxCallSeconds => CostOf(secs) <= EstimatedCost
  <1>1. Price \in PriceConfig
    BY MoneyAssumption, PriceType DEF Price, PriceConfig, BillingModes
  <1>2. MaxCallSeconds \in Nat
    BY MoneyAssumption
  <1>3. QED
    BY <1>1, <1>2, ReservationNat, CostNat, ReservationCoversCall DEF EstimatedCost, CostOf

\* A call of the sequence has its type.
LEMMA CallParts ==
  ASSUME TypeOK
  PROVE  /\ Len(calls) \in Nat /\ DOMAIN calls = 1 .. Len(calls)
         /\ \A i \in DOMAIN calls : /\ calls[i] \in Call
                                    /\ i \in Nat /\ i # 0 /\ i <= Len(calls)
                                    /\ calls[i].contact \in Contacts
                                    /\ calls[i].returns \in Nat
                                    /\ calls[i].charged \in Nat
  <1>1. Len(calls) \in Nat /\ DOMAIN calls = 1 .. Len(calls) /\ \A i \in DOMAIN calls : calls[i] \in Call
    BY DEF TypeOK
  <1>2. QED
    BY <1>1 DEF Call

\* The active calls are finitely many.
LEMMA ActiveFinite ==
  ASSUME TypeOK
  PROVE  IsFiniteSet(ActiveCalls) /\ Cardinality(ActiveCalls) \in Nat
  <1>1. DOMAIN calls = 1 .. Len(calls) /\ Len(calls) \in Nat
    BY DEF TypeOK
  <1>2. IsFiniteSet(DOMAIN calls) /\ ActiveCalls \subseteq DOMAIN calls
    BY <1>1, FS_Interval DEF ActiveCalls
  <1>3. QED
    BY <1>2, FS_Subset, FS_CardinalityType

-----------------------------------------------------------------------------
(* What each action does, field by field.                                  *)

PassOnly(p) == \A q \in Passes : q # p => passes'[q] = passes[q]
CallOnly(i) == DOMAIN calls' = DOMAIN calls /\ \A j \in DOMAIN calls : j # i => calls'[j] = calls[j]
ContactOnly(c) == \A d \in Contacts : d # c => contacts'[d] = contacts[d]

\* A pass whose record is replaced.
LEMMA PassReplaced ==
  ASSUME TypeOK, NEW p \in Passes, NEW s \in Pass, passes' = [passes EXCEPT ![p] = s]
  PROVE  passes' \in [Passes -> Pass] /\ passes'[p] = s /\ PassOnly(p)
  BY DEF TypeOK, PassOnly

Holds(p, s) == /\ passes'[p].todo = s.todo /\ passes'[p].slots = s.slots
               /\ passes'[p].cur = s.cur /\ passes'[p].call = s.call

\* A pass that goes to a step keeps what it holds.
LEMMA GotoEffect ==
  ASSUME TypeOK, NEW p \in Passes, NEW step \in PassSteps, Goto(p, step)
  PROVE  /\ passes' \in [Passes -> Pass] /\ PassOnly(p)
         /\ passes'[p].pc = step /\ Holds(p, passes[p])
  <1> DEFINE s == [passes[p] EXCEPT !.pc = step]
  <1>1. passes[p] \in Pass
    BY PassParts
  <1>2. s \in Pass
    BY <1>1 DEF Pass
  <1>3. passes' = [passes EXCEPT ![p] = s]
    BY DEF Goto
  <1>4. s.pc = step /\ s.todo = passes[p].todo /\ s.slots = passes[p].slots
        /\ s.cur = passes[p].cur /\ s.call = passes[p].call
    BY <1>1 DEF Pass
  <1> HIDE DEF s
  <1>5. QED
    BY <1>2, <1>3, <1>4, PassReplaced DEF Holds

\* A pass that turns to its next contact lets go of the last.
LEMMA GotoNextEffect ==
  ASSUME TypeOK, NEW p \in Passes, GotoNext(p)
  PROVE  /\ passes' \in [Passes -> Pass] /\ PassOnly(p)
         /\ passes'[p].pc = "next" /\ passes'[p].todo = passes[p].todo
         /\ passes'[p].slots = passes[p].slots /\ passes'[p].call = 0
  <1> DEFINE s == [[[passes[p] EXCEPT !.pc = "next"] EXCEPT !.cur = NoOne] EXCEPT !.call = 0]
  <1>1. passes[p] \in Pass
    BY PassParts
  <1>2. s \in Pass
    BY <1>1 DEF Pass, PassSteps
  <1>3. passes' = [passes EXCEPT ![p] = s]
    BY DEF GotoNext
  <1>4. s.pc = "next" /\ s.todo = passes[p].todo /\ s.slots = passes[p].slots /\ s.call = 0
    BY <1>1 DEF Pass
  <1> HIDE DEF s
  <1>5. QED
    BY <1>2, <1>3, <1>4, PassReplaced

\* A pass that ends holds nothing.
LEMMA FinishEffect ==
  ASSUME TypeOK, NEW p \in Passes, Finish(p)
  PROVE  /\ passes' \in [Passes -> Pass] /\ PassOnly(p)
         /\ passes'[p].pc = "idle" /\ Holds(p, IdlePass)
  <1>1. IdlePass \in Pass
    BY DEF IdlePass, Pass, PassSteps
  <1>2. passes' \in [Passes -> Pass] /\ passes'[p] = IdlePass /\ PassOnly(p)
    BY <1>1, PassReplaced DEF Finish
  <1>3. QED
    BY <1>2 DEF IdlePass, Holds
-----------------------------------------------------------------------------
(* The inductive invariant.                                                *)

VoiceSteps == {"create", "register", "mark"}
ScriptSteps == {"script", "scriptSettle", "scriptMark"}
CallSteps == VoiceSteps \cup ScriptSteps
CurSteps == {"dial", "refund", "failMark"} \cup CallSteps

\* What a pass holds: the contact it is at, and the call it made of it, which no
\* other pass has.
PassFits(p) ==
  LET s == passes[p] IN
  /\ s.pc \in CurSteps => s.cur \in Pending
  /\ s.pc \in CallSteps => s.call # 0
  /\ s.pc \notin CallSteps \cup {"refund", "failMark"} => s.call = 0
  /\ s.call # 0 => /\ s.call \in DOMAIN calls
                   /\ calls[s.call].contact = s.cur.contact
                   /\ \A q \in Passes \ {p} : passes[q].call # s.call
  /\ s.pc \in VoiceSteps => mode = "VOICE_AI"
  /\ s.pc \in ScriptSteps => mode = "FIXED_SCRIPT"

PassesFit == \A p \in Passes : PassFits(p)

\* The states a call, its contact and the pass that made it go through.
CallFits(i) ==
  LET k == calls[i] IN
  /\ mode = "FIXED_SCRIPT" => k.session \in {"none", "missed"} /\ k.hook = "none"
  /\ k.session = "over" => k.hook # "none"
  /\ k.session \in {"none", "live"} => k.hook = "none"

ContactFits(c) ==
  /\ contacts[c].status = "IN_PROGRESS" => contacts[c].call # 0
  /\ contacts[c].call # 0 => /\ contacts[c].call \in DOMAIN calls
                             /\ calls[contacts[c].call].contact = c

DialFits(p) ==
  /\ passes[p].pc \in {"create", "register"}
       => calls[Current(p)].session \in {"none", "missed"}
  /\ passes[p].pc = "mark"
       => calls[Current(p)].session \in {"live", "over", "stranded"}

CallsFit == /\ \A i \in DOMAIN calls : CallFits(i)
            /\ \A c \in Contacts : ContactFits(c)
            /\ \A p \in Passes : DialFits(p)

\* Without a failed write, a reservation returns once.
ReturnFits(i) ==
  /\ calls[i].returns \in {0, 1}
  /\ mode = "VOICE_AI" /\ calls[i].session # "over" => calls[i].returns = 0

RefundFits(p) ==
  /\ passes[p].pc \in {"script", "scriptSettle"} => calls[Current(p)].returns = 0
  /\ passes[p].pc = "refund" /\ Current(p) # 0
       => mode = "FIXED_SCRIPT" /\ calls[Current(p)].returns = 0

ReturnsFit == history.writes = 0 => /\ \A i \in DOMAIN calls : ReturnFits(i)
                                    /\ \A p \in Passes : RefundFits(p)

\* What a pass may still add to the active calls.
ClaimsIn(s) == s.todo \cup (IF s.pc \in {"dial", "create"} THEN {s.cur} ELSE {})
                      \cup (1 .. s.slots)
Claims(p) == ClaimsIn(passes[p])

Working(p) == passes[p].todo \cup (IF passes[p].pc \in CurSteps THEN {passes[p].cur} ELSE {})
Calm == ~history.overlap /\ ~history.retried

\* With one pass at a time and no repeat, a contact is on one call or with one
\* pass.
Alone ==
  ~history.overlap =>
    /\ \A p, q \in Passes : p # q => At(p, "idle") \/ At(q, "idle")
    /\ campaign = "DONE" => \A p \in Passes : At(p, "idle")

WorkFits(p) ==
  /\ At(p, "done") => \A c \in Contacts : ~Open(c)
  /\ \A t \in Working(p) : /\ contacts[t.contact].call = 0
                           /\ contacts[t.contact].status \in {"PENDING", "FAILED"}
  /\ \A t, u \in Working(p) : t.contact = u.contact => t = u
  /\ passes[p].pc \in CurSteps => passes[p].cur \notin passes[p].todo

AwaitedHooks == {"none", "find"} \cup ContactStatus

ContactHeld(c) ==
  /\ contacts[c].status = "PENDING" => contacts[c].call = 0
  /\ contacts[c].call # 0 /\ mode = "VOICE_AI" /\ calls[contacts[c].call].hook \in AwaitedHooks
       => contacts[c].status = "IN_PROGRESS"

HookHeld(i) == calls[i].hook \in ContactStatus => contacts[calls[i].contact].call = i

LiveHeld(i) ==
  calls[i].session = "live" => \/ contacts[calls[i].contact].call = i
                              \/ \E p \in Passes : At(p, "mark") /\ Current(p) = i

HandOver ==
  /\ Alone
  /\ Calm => /\ \A p \in Passes : WorkFits(p)
             /\ campaign = "DONE" => \A c \in Contacts : ~Open(c)
             /\ \A c \in Contacts : ContactHeld(c)
             /\ \A i \in DOMAIN calls : HookHeld(i)
  /\ Calm /\ history.writes = 0 => \A i \in DOMAIN calls : LiveHeld(i)

\* Without a fault, a contact in progress waits for a call that will be heard of.
MarkAwaits(p) ==
  passes[p].pc \in VoiceSteps =>
    /\ \A c \in Contacts : contacts[c].call # Current(p)
    /\ calls[Current(p)].hook \in {"none", "find", "unmatched"}

ContactAwaits(c) ==
  contacts[c].status = "IN_PROGRESS" =>
    /\ calls[contacts[c].call].session \in {"live", "over", "stranded"}
    /\ calls[contacts[c].call].hook # "done"

Waiting ==
  history.writes = 0 /\ history.crashes = 0 =>
    /\ \A p \in Passes : MarkAwaits(p)
    /\ \A c \in Contacts : ContactAwaits(c)

Pairs(P, f) == UNION {{p} \X f[p] : p \in P}
ClaimsOf == [p \in Passes |-> Claims(p)]

ClaimFits(p) ==
  /\ IsFiniteSet(passes[p].todo) /\ Cardinality(Claims(p)) <= MaxConcurrent
  /\ passes[p].pc \notin {"next"} \cup CurSteps => passes[p].todo = {}
  /\ passes[p].pc \in {"dial", "create"} => passes[p].cur \notin passes[p].todo
  /\ passes[p].slots > 0 => passes[p].pc \in {"find", "pause"}

Overrun ==
  /\ \A p \in Passes : ClaimFits(p)
  /\ Cardinality(ActiveCalls) + Cardinality(Pairs(Passes, ClaimsOf))
       <= MaxConcurrent * Cardinality(Passes)

\* Counting a failure, a crash or a request keeps the type of the history.
LEMMA HistoryEffect ==
  ASSUME TypeOK
  PROVE  /\ \A b \in BOOLEAN : [history EXCEPT !.overlap = b] \in History
                               /\ [history EXCEPT !.overlap = b].overlap = b
                               /\ [history EXCEPT !.overlap = b].retried = history.retried
                               /\ [history EXCEPT !.overlap = b].writes = history.writes
                               /\ [history EXCEPT !.overlap = b].crashes = history.crashes
         /\ LET h == [history EXCEPT !.writes = @ + 1] IN
              h \in History /\ h.writes > 0 /\ h.overlap = history.overlap /\ h.retried = history.retried
         /\ LET h == [history EXCEPT !.crashes = @ + 1] IN
              h \in History /\ h.crashes > 0 /\ h.overlap = history.overlap
                /\ h.retried = history.retried /\ h.writes = history.writes
         /\ LET h == [history EXCEPT !.requests = @ + 1] IN
              h \in History /\ h.overlap = history.overlap /\ h.retried = history.retried
                /\ h.writes = history.writes /\ h.crashes = history.crashes
         /\ LET h == [history EXCEPT !.retried = TRUE] IN
              h \in History /\ h.overlap = history.overlap /\ h.retried
                /\ h.writes = history.writes /\ h.crashes = history.crashes
  <1>1. history \in [requests: Nat, overlap: BOOLEAN, retried: BOOLEAN, writes: Nat, crashes: Nat]
    BY DEF TypeOK
  <1>2. history.writes + 1 \in Nat /\ history.crashes + 1 \in Nat /\ history.requests + 1 \in Nat
        /\ history.writes + 1 > 0 /\ history.crashes + 1 > 0
    BY <1>1
  <1>3. QED
    BY <1>1, <1>2, Zenon DEF History

AtRest == UNCHANGED <<mode, optedOut, request, history>>

\* A pass begins.
LEMMA StartPassEffect ==
  ASSUME TypeOK, NEW p \in Passes, StartPass(p)
  PROVE  /\ TypeOK' /\ PassOnly(p)
         /\ passes[p].pc = "idle" /\ passes'[p].pc = "line" /\ Holds(p, IdlePass)
         /\ history'.overlap = (history.overlap \/ \E q \in Passes \ {p} : ~At(q, "idle"))
         /\ history'.retried = history.retried /\ history'.writes = history.writes
         /\ history'.crashes = history.crashes
         /\ campaign = "RUNNING"
         /\ UNCHANGED <<mode, campaign, contacts, optedOut, calls, balance, request>>
  <1> DEFINE s == [IdlePass EXCEPT !.pc = "line", !.seen = balance]
             b == history.overlap \/ \E q \in Passes \ {p} : ~At(q, "idle")
  <1>1. s \in Pass
    BY DEF TypeOK, IdlePass, Pass, PassSteps
  <1>2. s.pc = "line" /\ s.todo = IdlePass.todo /\ s.slots = IdlePass.slots
        /\ s.cur = IdlePass.cur /\ s.call = IdlePass.call
    BY DEF IdlePass
  <1>3. passes' = [passes EXCEPT ![p] = s]
    BY DEF StartPass
  <1>4. b \in BOOLEAN /\ history' = [history EXCEPT !.overlap = b]
    BY DEF StartPass, TypeOK
  <1> HIDE DEF s, b
  <1>5. /\ history' \in History /\ history'.overlap = b /\ history'.retried = history.retried
        /\ history'.writes = history.writes /\ history'.crashes = history.crashes
    BY <1>4, HistoryEffect, Zenon
  <1>6. /\ passes' \in [Passes -> Pass] /\ PassOnly(p) /\ passes'[p].pc = "line"
        /\ Holds(p, IdlePass)
    BY <1>1, <1>2, <1>3, PassReplaced DEF Holds
  <1>7. /\ passes[p].pc = "idle" /\ campaign = "RUNNING"
        /\ UNCHANGED <<mode, campaign, contacts, optedOut, calls, balance, request>>
    BY DEF StartPass, At
  <1>8. TypeOK'
    BY <1>5, <1>6, <1>7 DEF TypeOK, History
  <1>9. QED
    BY <1>5, <1>6, <1>7, <1>8 DEF b

\* The line and the balance are looked at: the pass goes on, pauses the campaign
\* or ends.
LEMMA CheckEffect ==
  ASSUME TypeOK, NEW p \in Passes, OutsideWindow(p) \/ CheckCampaign(p)
  PROVE  /\ TypeOK' /\ PassOnly(p)
         /\ passes[p].pc = "line"
         /\ \/ passes'[p].pc = "idle" /\ Holds(p, IdlePass)
            \/ passes'[p].pc \in {"pause", "count"} /\ Holds(p, passes[p])
         /\ UNCHANGED <<campaign, contacts, calls, balance>> /\ AtRest
  <1>1. /\ passes[p].pc = "line"
        /\ UNCHANGED <<campaign, contacts, calls, balance>> /\ AtRest
    BY DEF OutsideWindow, CheckCampaign, At, OnlyPass, Quiet, AtRest
  <1>2. /\ passes' \in [Passes -> Pass] /\ PassOnly(p)
        /\ \/ passes'[p].pc = "idle" /\ Holds(p, IdlePass)
           \/ passes'[p].pc \in {"pause", "count"} /\ Holds(p, passes[p])
    <2>1. CASE OutsideWindow(p)
      BY <2>1, FinishEffect DEF OutsideWindow
    <2>2. CASE CheckCampaign(p)
      <3> DEFINE r == [passes[p] EXCEPT !.seen = 0]
                 s(step) == [r EXCEPT !.pc = step]
      <3>1. passes[p] \in Pass
        BY PassParts
      <3>2. ASSUME NEW step \in PassSteps
            PROVE  /\ s(step) \in Pass /\ s(step).pc = step /\ s(step).todo = passes[p].todo
                   /\ s(step).slots = passes[p].slots
                   /\ s(step).cur = passes[p].cur /\ s(step).call = passes[p].call
        <4>1. /\ r \in Pass /\ r.todo = passes[p].todo /\ r.slots = passes[p].slots
              /\ r.cur = passes[p].cur /\ r.call = passes[p].call
          BY <3>1 DEF Pass
        <4> HIDE DEF r
        <4>2. QED
          BY <3>2, <4>1 DEF Pass
      <3>3. PICK step \in {"pause", "count"} : passes' = [passes EXCEPT ![p] = s(step)]
        BY <2>2 DEF CheckCampaign
      <3> HIDE DEF s
      <3>4. step \in PassSteps
        BY DEF PassSteps
      <3>5. QED
        BY <3>2, <3>3, <3>4, PassReplaced DEF Holds
    <2>3. QED
      BY <2>1, <2>2
  <1>3. QED
    BY <1>1, <1>2 DEF TypeOK, AtRest

\* The campaign is paused, and the pass ends.
LEMMA PauseEffect ==
  ASSUME TypeOK, NEW p \in Passes, Pause(p)
  PROVE  /\ TypeOK' /\ PassOnly(p)
         /\ passes[p].pc = "pause" /\ passes'[p].pc = "idle" /\ Holds(p, IdlePass)
         /\ campaign' = "PAUSED"
         /\ UNCHANGED <<contacts, calls, balance>> /\ AtRest
  <1>1. /\ passes[p].pc = "pause" /\ campaign' = "PAUSED" /\ Finish(p)
        /\ UNCHANGED <<contacts, calls, balance>> /\ AtRest
    BY DEF Pause, At, Quiet, AtRest
  <1>2. QED
    BY <1>1, FinishEffect DEF TypeOK, AtRest, CampaignStatus

\* The active calls are counted, once: the pass gets what they leave.
LEMMA CountEffect ==
  ASSUME TypeOK, NEW p \in Passes, CountActive(p)
  PROVE  /\ TypeOK' /\ PassOnly(p)
         /\ passes[p].pc = "count"
         /\ \/ passes'[p].pc = "idle" /\ Holds(p, IdlePass)
            \/ /\ passes'[p].pc = "find" /\ passes'[p].todo = passes[p].todo
               /\ passes'[p].cur = passes[p].cur /\ passes'[p].call = passes[p].call
               /\ Cardinality(ActiveCalls) + passes'[p].slots <= MaxConcurrent
         /\ UNCHANGED <<campaign, contacts, calls, balance>> /\ AtRest
  <1>1. /\ passes[p].pc = "count"
        /\ UNCHANGED <<campaign, contacts, calls, balance>> /\ AtRest
    BY DEF CountActive, At, OnlyPass, Quiet, AtRest
  <1> DEFINE active == Cardinality(ActiveCalls)
             n == Smaller(MaxConcurrent - active, Throttle)
             s == [[passes[p] EXCEPT !.pc = "find"] EXCEPT !.slots = n]
  <1>2. active \in Nat /\ MaxConcurrent \in Nat /\ Throttle \in Nat
    BY ActiveFinite, DispatchAssumption
  <1>3. IF active >= MaxConcurrent THEN Finish(p) ELSE passes' = [passes EXCEPT ![p] = s]
    BY DEF CountActive
  <1>4. active < MaxConcurrent => n \in Nat /\ active + n <= MaxConcurrent
    <2> HIDE DEF active
    <2>1. QED
      BY <1>2 DEF Smaller
  <1> HIDE DEF active, n
  <1>5. ASSUME n \in Nat
        PROVE  /\ s \in Pass /\ s.pc = "find" /\ s.slots = n /\ s.todo = passes[p].todo
               /\ s.cur = passes[p].cur /\ s.call = passes[p].call
    BY <1>5, PassParts DEF Pass, PassSteps
  <1> HIDE DEF s
  <1>6. /\ passes' \in [Passes -> Pass] /\ PassOnly(p)
        /\ \/ passes'[p].pc = "idle" /\ Holds(p, IdlePass)
           \/ /\ passes'[p].pc = "find" /\ passes'[p].todo = passes[p].todo
              /\ passes'[p].cur = passes[p].cur /\ passes'[p].call = passes[p].call
              /\ active + passes'[p].slots <= MaxConcurrent
    <2>1. CASE active >= MaxConcurrent
      BY <2>1, <1>3, FinishEffect
    <2>2. CASE active < MaxConcurrent
      BY <2>2, <1>2, <1>3, <1>4, <1>5, PassReplaced
    <2>3. QED
      BY <1>2, <2>1, <2>2
  <1>7. QED
    BY <1>1, <1>6 DEF TypeOK, AtRest, active

\* The contacts that may be called are taken, no more of them than slots.
LEMMA FindEffect ==
  ASSUME TypeOK, NEW p \in Passes, FindPending(p)
  PROVE  /\ TypeOK' /\ PassOnly(p)
         /\ passes[p].pc = "find"
         /\ \/ /\ passes'[p].pc = "next" /\ passes'[p].slots = 0
               /\ passes'[p].cur = passes[p].cur /\ passes'[p].call = passes[p].call
               /\ \E S \in SUBSET Eligible : /\ passes'[p].todo = Snapshot(S)
                                             /\ Cardinality(S) <= passes[p].slots
            \/ passes'[p].pc = "pause" /\ Holds(p, passes[p])
         /\ UNCHANGED <<campaign, contacts, calls, balance>> /\ AtRest
  <1>1. /\ passes[p].pc = "find"
        /\ UNCHANGED <<campaign, contacts, calls, balance>> /\ AtRest
    BY DEF FindPending, At, OnlyPass, Quiet, AtRest
  <1>2. /\ passes' \in [Passes -> Pass] /\ PassOnly(p)
        /\ \/ /\ passes'[p].pc = "next" /\ passes'[p].slots = 0
              /\ passes'[p].cur = passes[p].cur /\ passes'[p].call = passes[p].call
              /\ \E S \in SUBSET Eligible : /\ passes'[p].todo = Snapshot(S)
                                            /\ Cardinality(S) <= passes[p].slots
           \/ passes'[p].pc = "pause" /\ Holds(p, passes[p])
    <2>1. CASE Goto(p, "pause")
      <3>1. "pause" \in PassSteps
        BY DEF PassSteps
      <3>2. QED
        BY <2>1, <3>1, GotoEffect
    <2>2. CASE \E S \in SUBSET Eligible :
                 /\ Cardinality(S) = Smaller(passes[p].slots, Cardinality(Eligible))
                 /\ passes' = [passes EXCEPT ![p].pc = "next", ![p].slots = 0,
                                             ![p].todo = Snapshot(S)]
      <3>1. PICK S \in SUBSET Eligible :
                 /\ Cardinality(S) = Smaller(passes[p].slots, Cardinality(Eligible))
                 /\ passes' = [passes EXCEPT ![p].pc = "next", ![p].slots = 0,
                                             ![p].todo = Snapshot(S)]
        BY <2>2
      <3> DEFINE s == [[[passes[p] EXCEPT !.pc = "next"] EXCEPT !.slots = 0] EXCEPT !.todo = Snapshot(S)]
      <3>2. Snapshot(S) \subseteq Pending
        BY DEF Snapshot, Pending, TypeOK, Contact, Eligible
      <3>3. /\ s \in Pass /\ s.pc = "next" /\ s.slots = 0 /\ s.todo = Snapshot(S)
            /\ s.cur = passes[p].cur /\ s.call = passes[p].call
        BY <3>2, PassParts DEF Pass, PassSteps
      <3>4. passes' = [passes EXCEPT ![p] = s]
        BY <3>1
      <3> HIDE DEF s
      <3>5. Cardinality(S) <= passes[p].slots
        <4>1. Eligible \subseteq Contacts /\ IsFiniteSet(Contacts)
          BY DispatchAssumption DEF Eligible
        <4>2. Cardinality(Eligible) \in Nat /\ passes[p].slots \in Nat
          BY <4>1, FS_Subset, FS_CardinalityType, PassParts
        <4>3. QED
          BY <3>1, <4>2 DEF Smaller
      <3>6. QED
        BY <3>3, <3>4, <3>5, PassReplaced
    <2>3. QED
      BY <2>1, <2>2 DEF FindPending
  <1>3. QED
    BY <1>1, <1>2 DEF TypeOK, AtRest

\* The next contact is reserved for, skipped, or there is none left.
LEMMA NextEffect ==
  ASSUME TypeOK, NEW p \in Passes, NextContact(p)
  PROVE  /\ TypeOK' /\ PassOnly(p)
         /\ passes[p].pc = "next"
         /\ passes'[p].slots = passes[p].slots /\ passes'[p].call = passes[p].call
         /\ \/ /\ passes'[p].pc = "dial" /\ passes'[p].cur \in passes[p].todo
               /\ passes'[p].todo = passes[p].todo \ {passes'[p].cur}
               /\ CanReserve(balance, CreditLimit, EstimatedCost)
               /\ balance' = AfterReserve(balance, EstimatedCost)
            \/ /\ passes'[p].pc = "next" /\ passes'[p].cur = passes[p].cur
               /\ passes'[p].todo \subseteq passes[p].todo /\ UNCHANGED balance
            \/ /\ passes'[p].pc = "remaining" /\ Holds(p, passes[p])
               /\ passes[p].todo = {} /\ UNCHANGED balance
         /\ UNCHANGED <<campaign, contacts, calls>> /\ AtRest
  <1>1. /\ passes[p].pc = "next"
        /\ UNCHANGED <<campaign, contacts, calls>> /\ AtRest
    BY DEF NextContact, At, Quiet, AtRest
  <1>2. /\ passes' \in [Passes -> Pass] /\ PassOnly(p)
        /\ passes'[p].slots = passes[p].slots /\ passes'[p].call = passes[p].call
        /\ \/ /\ passes'[p].pc = "dial" /\ passes'[p].cur \in passes[p].todo
              /\ passes'[p].todo = passes[p].todo \ {passes'[p].cur}
              /\ CanReserve(balance, CreditLimit, EstimatedCost)
              /\ balance' = AfterReserve(balance, EstimatedCost)
           \/ /\ passes'[p].pc = "next" /\ passes'[p].cur = passes[p].cur
              /\ passes'[p].todo \subseteq passes[p].todo /\ UNCHANGED balance
           \/ /\ passes'[p].pc = "remaining" /\ Holds(p, passes[p])
              /\ passes[p].todo = {} /\ UNCHANGED balance
    <2>1. CASE passes[p].todo = {} /\ Goto(p, "remaining") /\ UNCHANGED balance
      <3>1. "remaining" \in PassSteps
        BY DEF PassSteps
      <3>2. QED
        BY <2>1, <3>1, GotoEffect DEF Holds
    <2>2. ASSUME NEW t \in passes[p].todo, Reserve(p, t),
                 CanReserve(balance, CreditLimit, EstimatedCost)
          PROVE  /\ passes' \in [Passes -> Pass] /\ PassOnly(p)
                 /\ passes'[p].slots = passes[p].slots /\ passes'[p].call = passes[p].call
                 /\ passes'[p].pc = "dial" /\ passes'[p].cur = t
                 /\ passes'[p].todo = passes[p].todo \ {t}
                 /\ balance' = AfterReserve(balance, EstimatedCost)
      <3> DEFINE s == [[[passes[p] EXCEPT !.pc = "dial"] EXCEPT !.todo = @ \ {t}] EXCEPT !.cur = t]
      <3>1. /\ s \in Pass /\ s.pc = "dial" /\ s.slots = passes[p].slots /\ s.cur = t
            /\ s.todo = passes[p].todo \ {t} /\ s.call = passes[p].call
        BY PassParts DEF Pass, PassSteps
      <3>2. passes' = [passes EXCEPT ![p] = s] /\ balance' = AfterReserve(balance, EstimatedCost)
        BY <2>2 DEF Reserve
      <3> HIDE DEF s
      <3>3. QED
        BY <3>1, <3>2, PassReplaced
    <2>3. ASSUME NEW t \in passes[p].todo, Reserve(p, t),
                 ~CanReserve(balance, CreditLimit, EstimatedCost)
          PROVE  /\ passes' \in [Passes -> Pass] /\ PassOnly(p)
                 /\ passes'[p].slots = passes[p].slots /\ passes'[p].call = passes[p].call
                 /\ passes'[p].pc = "next" /\ passes'[p].cur = passes[p].cur
                 /\ passes'[p].todo \subseteq passes[p].todo /\ UNCHANGED balance
      <3> DEFINE s == [passes[p] EXCEPT !.todo = @ \ {t}]
      <3>1. /\ s \in Pass /\ s.pc = passes[p].pc /\ s.slots = passes[p].slots
            /\ s.cur = passes[p].cur /\ s.todo = passes[p].todo \ {t} /\ s.call = passes[p].call
        BY PassParts DEF Pass
      <3>2. passes' = [passes EXCEPT ![p] = s] /\ UNCHANGED balance
        BY <2>3 DEF Reserve
      <3> HIDE DEF s
      <3>3. QED
        BY <1>1, <3>1, <3>2, PassReplaced
    <2>4. QED
      BY <2>1, <2>2, <2>3 DEF NextContact
  <1>3. balance' \in Int
    <2>1. balance \in Int /\ EstimatedCost \in Nat
      BY PriceIsOne DEF TypeOK
    <2>2. QED
      BY <1>2, <2>1 DEF AfterReserve
  <1>4. QED
    BY <1>1, <1>2, <1>3 DEF TypeOK, AtRest

\* The contacts left are counted, or the campaign is written DONE.
LEMMA EndEffect ==
  ASSUME TypeOK, NEW p \in Passes, CountRemaining(p) \/ Done(p)
  PROVE  /\ TypeOK' /\ PassOnly(p)
         /\ \/ /\ passes[p].pc = "remaining" /\ UNCHANGED campaign
               /\ \/ passes'[p].pc = "idle" /\ Holds(p, IdlePass)
                  \/ passes'[p].pc = "done" /\ Holds(p, passes[p]) /\ Remaining = {}
            \/ /\ passes[p].pc = "done" /\ passes'[p].pc = "idle" /\ Holds(p, IdlePass)
               /\ campaign' = "DONE"
         /\ UNCHANGED <<contacts, calls, balance>> /\ AtRest
  <1>1. CASE CountRemaining(p)
    <2>1. /\ passes[p].pc = "remaining"
          /\ IF Remaining # {} THEN Finish(p) ELSE Goto(p, "done")
          /\ UNCHANGED <<campaign, contacts, calls, balance>> /\ AtRest
      BY <1>1 DEF CountRemaining, At, OnlyPass, Quiet, AtRest
    <2>2. "done" \in PassSteps
      BY DEF PassSteps
    <2>3. QED
      BY <2>1, <2>2, FinishEffect, GotoEffect DEF TypeOK, AtRest
  <1>2. CASE Done(p)
    <2>1. /\ passes[p].pc = "done" /\ campaign' = "DONE" /\ Finish(p)
          /\ UNCHANGED <<contacts, calls, balance>> /\ AtRest
      BY <1>2 DEF Done, At, Quiet, AtRest
    <2>2. QED
      BY <2>1, FinishEffect DEF TypeOK, AtRest, CampaignStatus
  <1>3. QED
    BY <1>1, <1>2

\* A write fails: to the catch, or to the end of the pass.
LEMMA WriteFailsEffect ==
  ASSUME TypeOK, NEW p \in Passes, WriteFails(p)
  PROVE  /\ TypeOK' /\ PassOnly(p)
         /\ \/ /\ passes[p].pc \in {"create", "mark", "script", "scriptSettle", "scriptMark"}
               /\ passes'[p].pc = "refund" /\ Holds(p, passes[p])
            \/ /\ passes[p].pc \in {"refund", "failMark", "done", "pause"}
               /\ passes'[p].pc = "idle" /\ Holds(p, IdlePass)
         /\ history'.writes > 0 /\ history'.overlap = history.overlap
         /\ history'.retried = history.retried
         /\ UNCHANGED <<mode, campaign, contacts, optedOut, calls, balance, request>>
  <1>1. /\ history' = [history EXCEPT !.writes = @ + 1]
        /\ UNCHANGED <<mode, campaign, contacts, optedOut, calls, balance, request>>
        /\ \/ /\ passes[p].pc \in {"create", "mark", "script", "scriptSettle", "scriptMark"}
              /\ Goto(p, "refund")
           \/ /\ passes[p].pc \in {"refund", "failMark", "done", "pause"}
              /\ Finish(p)
    BY DEF WriteFails
  <1>2. /\ history' \in History /\ history'.writes > 0 /\ history'.overlap = history.overlap
        /\ history'.retried = history.retried
    BY <1>1, HistoryEffect, Zenon
  <1>3. "refund" \in PassSteps
    BY DEF PassSteps
  <1>4. QED
    BY <1>1, <1>2, <1>3, FinishEffect, GotoEffect DEF TypeOK, History

\* A call whose record is replaced.
LEMMA CallReplaced ==
  ASSUME TypeOK, NEW i \in DOMAIN calls, NEW k \in Call, calls' = [calls EXCEPT ![i] = k]
  PROVE  calls' \in Seq(Call) /\ calls'[i] = k /\ CallOnly(i)
  <1>1. calls \in Seq(Call)
    BY DEF TypeOK
  <1>2. QED
    BY <1>1, Replaced DEF CallOnly

\* A contact whose record is replaced.
LEMMA ContactReplaced ==
  ASSUME TypeOK, NEW c \in Contacts, NEW r \in Contact, contacts' = [contacts EXCEPT ![c] = r]
  PROVE  contacts' \in [Contacts -> Contact] /\ contacts'[c] = r /\ ContactOnly(c)
  BY DEF TypeOK, ContactOnly

\* What a pass that dials is at: a contact, and the call it made of it.
LEMMA CurrentParts ==
  ASSUME TypeOK, PassesFit, NEW p \in Passes
  PROVE  /\ passes[p].pc \in CurSteps => /\ passes[p].cur \in Pending
                                         /\ CurContact(p) \in Contacts
         /\ passes[p].call # 0 => /\ Current(p) \in DOMAIN calls
                                  /\ calls[Current(p)].contact = CurContact(p)
         /\ passes[p].pc \in CallSteps => passes[p].call # 0
  BY DEF PassesFit, PassFits, CurContact, Current, Pending

\* The provider accepts the call, or the dial fails.
LEMMA DialEffect ==
  ASSUME TypeOK, PassesFit, NEW p \in Passes, Dial(p)
  PROVE  /\ TypeOK' /\ PassOnly(p)
         /\ passes[p].pc = "dial" /\ passes'[p].todo = passes[p].todo
         /\ passes'[p].slots = passes[p].slots /\ passes'[p].cur = passes[p].cur
         /\ \/ /\ passes'[p].pc = IF mode = "FIXED_SCRIPT" THEN "script" ELSE "create"
               /\ passes'[p].call = Len(calls) + 1
               /\ DOMAIN calls' = DOMAIN calls \cup {Len(calls) + 1}
               /\ \A j \in DOMAIN calls : calls'[j] = calls[j]
               /\ calls'[Len(calls) + 1] = NewCall(CurContact(p))
            \/ /\ passes'[p].pc = "refund" /\ passes'[p].call = passes[p].call
               /\ UNCHANGED calls
         /\ UNCHANGED <<campaign, contacts, balance>> /\ AtRest
  <1>1. /\ passes[p].pc = "dial"
        /\ UNCHANGED <<campaign, contacts, balance>> /\ AtRest
    BY DEF Dial, At, Quiet, AtRest
  <1>2. CurContact(p) \in Contacts
    BY <1>1, CurrentParts DEF CurSteps
  <1>3. CASE Goto(p, "refund") /\ UNCHANGED calls
    <2>1. "refund" \in PassSteps
      BY DEF PassSteps
    <2>2. QED
      BY <1>1, <1>3, <2>1, GotoEffect DEF Holds, TypeOK, AtRest
  <1>4. ASSUME calls' = Append(calls, NewCall(CurContact(p))),
               passes' = [passes EXCEPT ![p].call = Len(calls) + 1,
                            ![p].pc = IF mode = "FIXED_SCRIPT" THEN "script" ELSE "create"]
        PROVE  /\ passes' \in [Passes -> Pass] /\ calls' \in Seq(Call) /\ PassOnly(p)
               /\ passes'[p].todo = passes[p].todo
               /\ passes'[p].slots = passes[p].slots /\ passes'[p].cur = passes[p].cur
               /\ passes'[p].pc = IF mode = "FIXED_SCRIPT" THEN "script" ELSE "create"
               /\ passes'[p].call = Len(calls) + 1
               /\ DOMAIN calls' = DOMAIN calls \cup {Len(calls) + 1}
               /\ \A j \in DOMAIN calls : calls'[j] = calls[j]
               /\ calls'[Len(calls) + 1] = NewCall(CurContact(p))
    <2> DEFINE step == IF mode = "FIXED_SCRIPT" THEN "script" ELSE "create"
               n == Len(calls) + 1
               r == [passes[p] EXCEPT !.call = n]
               s == [r EXCEPT !.pc = step]
    <2>1. step \in PassSteps /\ passes' = [passes EXCEPT ![p] = s]
      BY <1>4 DEF PassSteps
    <2>2. Len(calls) \in Nat /\ calls \in Seq(Call) /\ n \in Nat
      BY DEF TypeOK
    <2> HIDE DEF step, n
    <2>a. /\ r \in Pass /\ r.call = n /\ r.slots = passes[p].slots
          /\ r.todo = passes[p].todo /\ r.cur = passes[p].cur
      BY <2>2, PassParts DEF Pass
    <2> HIDE DEF r
    <2>3. /\ s \in Pass /\ s.pc = step /\ s.call = n /\ s.slots = passes[p].slots
          /\ s.todo = passes[p].todo /\ s.cur = passes[p].cur
      BY <2>1, <2>a DEF Pass
    <2> HIDE DEF s
    <2>4. NewCall(CurContact(p)) \in Call
      BY <1>2 DEF NewCall, Call
    <2>5. /\ calls' \in Seq(Call) /\ DOMAIN calls' = DOMAIN calls \cup {Len(calls) + 1}
          /\ \A j \in DOMAIN calls : calls'[j] = calls[j]
          /\ calls'[Len(calls) + 1] = NewCall(CurContact(p))
      <3> DEFINE k == NewCall(CurContact(p))
      <3> HIDE DEF k
      <3>1. k \in Call /\ calls' = Append(calls, k)
        BY <1>4, <2>4 DEF k
      <3>2. /\ calls' \in Seq(Call) /\ Len(calls') = Len(calls) + 1
            /\ \A j \in 1 .. Len(calls) : calls'[j] = calls[j]
            /\ calls'[Len(calls) + 1] = k
        BY <3>1, <2>2, AppendProperties
      <3>3. QED
        BY <3>2, <2>2 DEF k
    <2>6. QED
      BY <2>1, <2>3, <2>5, PassReplaced DEF step, n
  <1>5. QED
    BY <1>1, <1>3, <1>4 DEF Dial, TypeOK, AtRest

\* A call's row is written.
LEMMA CreateCallEffect ==
  ASSUME TypeOK, PassesFit, NEW p \in Passes, CreateCall(p)
  PROVE  LET i == Current(p) IN
         /\ TypeOK' /\ PassOnly(p) /\ CallOnly(i)
         /\ passes[p].pc = "create" /\ passes'[p].pc = "register" /\ Holds(p, passes[p])
         /\ i # 0 /\ i \in DOMAIN calls /\ calls'[i].row = "DIALING"
         /\ calls'[i].contact = calls[i].contact /\ calls'[i].session = calls[i].session
         /\ calls'[i].hook = calls[i].hook /\ calls'[i].returns = calls[i].returns
         /\ UNCHANGED <<campaign, contacts, balance>> /\ AtRest
  <1> DEFINE i == Current(p)
             k == [calls[i] EXCEPT !.row = "DIALING"]
  <1>1. /\ passes[p].pc = "create" /\ Goto(p, "register")
        /\ calls' = [calls EXCEPT ![i] = k]
        /\ UNCHANGED <<campaign, contacts, balance>> /\ AtRest
    BY DEF CreateCall, At, Quiet, AtRest
  <1>2. i # 0 /\ i \in DOMAIN calls
    BY <1>1, CurrentParts DEF CallSteps, VoiceSteps, Current
  <1> HIDE DEF i
  <1>3. /\ k \in Call /\ k.row = "DIALING" /\ k.contact = calls[i].contact
        /\ k.session = calls[i].session /\ k.hook = calls[i].hook
        /\ k.returns = calls[i].returns
    BY <1>2, CallParts DEF Call, ActiveStatus
  <1> HIDE DEF k
  <1>4. calls' \in Seq(Call) /\ calls'[i] = k /\ CallOnly(i)
    BY <1>1, <1>2, <1>3, CallReplaced
  <1>5. "register" \in PassSteps
    BY DEF PassSteps
  <1>6. QED
    BY <1>1, <1>2, <1>3, <1>4, <1>5, GotoEffect DEF TypeOK, AtRest, i

\* The engine takes the call, or waits for events that will not come.
LEMMA RegisterEffect ==
  ASSUME TypeOK, PassesFit, NEW p \in Passes, Register(p)
  PROVE  LET i == Current(p) IN
         /\ TypeOK' /\ PassOnly(p) /\ CallOnly(i)
         /\ passes[p].pc = "register" /\ passes'[p].pc = "mark" /\ Holds(p, passes[p])
         /\ i # 0 /\ i \in DOMAIN calls /\ calls'[i].row = calls[i].row
         /\ calls'[i].session = IF calls[i].session = "missed" THEN "stranded" ELSE "live"
         /\ calls'[i].contact = calls[i].contact
         /\ calls'[i].hook = calls[i].hook /\ calls'[i].returns = calls[i].returns
         /\ UNCHANGED <<campaign, contacts, balance>> /\ AtRest
  <1> DEFINE i == Current(p)
             k == [calls[i] EXCEPT !.session = IF @ = "missed" THEN "stranded" ELSE "live"]
  <1>1. /\ passes[p].pc = "register" /\ Goto(p, "mark")
        /\ calls' = [calls EXCEPT ![i] = k]
        /\ UNCHANGED <<campaign, contacts, balance>> /\ AtRest
    BY DEF Register, At, Quiet, AtRest
  <1>2. i # 0 /\ i \in DOMAIN calls
    BY <1>1, CurrentParts DEF CallSteps, VoiceSteps, Current
  <1> HIDE DEF i
  <1>3. /\ k \in Call /\ k.row = calls[i].row /\ k.contact = calls[i].contact
        /\ k.session = IF calls[i].session = "missed" THEN "stranded" ELSE "live"
        /\ k.hook = calls[i].hook /\ k.returns = calls[i].returns
    BY <1>2, CallParts DEF Call
  <1> HIDE DEF k
  <1>4. calls' \in Seq(Call) /\ calls'[i] = k /\ CallOnly(i)
    BY <1>1, <1>2, <1>3, CallReplaced
  <1>5. "mark" \in PassSteps
    BY DEF PassSteps
  <1>6. QED
    BY <1>1, <1>2, <1>3, <1>4, <1>5, GotoEffect DEF TypeOK, AtRest, i

\* A script call gets its row, unless its contact has one.
LEMMA ScriptCallEffect ==
  ASSUME TypeOK, PassesFit, NEW p \in Passes, ScriptCall(p)
  PROVE  LET i == Current(p) IN
         /\ TypeOK' /\ PassOnly(p) /\ CallOnly(i) /\ Holds(p, passes[p])
         /\ passes[p].pc = "script" /\ i # 0 /\ i \in DOMAIN calls
         /\ \/ passes'[p].pc = "refund" /\ UNCHANGED calls
            \/ /\ passes'[p].pc = "scriptSettle" /\ calls'[i].row = "COMPLETED"
               /\ calls'[i].contact = calls[i].contact
               /\ calls'[i].session = calls[i].session
               /\ calls'[i].hook = calls[i].hook /\ calls'[i].returns = calls[i].returns
         /\ UNCHANGED <<campaign, contacts, balance>> /\ AtRest
  <1> DEFINE i == Current(p)
             k == [calls[i] EXCEPT !.row = "COMPLETED"]
  <1>1. /\ passes[p].pc = "script"
        /\ \/ Goto(p, "refund") /\ UNCHANGED calls
           \/ calls' = [calls EXCEPT ![i] = k] /\ Goto(p, "scriptSettle")
        /\ UNCHANGED <<campaign, contacts, balance>> /\ AtRest
    BY DEF ScriptCall, At, Quiet, AtRest
  <1>2. i # 0 /\ i \in DOMAIN calls
    BY <1>1, CurrentParts DEF CallSteps, ScriptSteps, Current
  <1> HIDE DEF i
  <1>3. /\ k \in Call /\ k.row = "COMPLETED" /\ k.contact = calls[i].contact
        /\ k.session = calls[i].session /\ k.hook = calls[i].hook
        /\ k.returns = calls[i].returns
    BY <1>2, CallParts DEF Call
  <1> HIDE DEF k
  <1>4. calls' = [calls EXCEPT ![i] = k] => calls' \in Seq(Call) /\ calls'[i] = k /\ CallOnly(i)
    BY <1>2, <1>3, CallReplaced
  <1>5. "refund" \in PassSteps /\ "scriptSettle" \in PassSteps /\ (UNCHANGED calls => CallOnly(i))
    BY DEF PassSteps, CallOnly
  <1>6. CASE Goto(p, "refund") /\ UNCHANGED calls
    BY <1>1, <1>2, <1>5, <1>6, GotoEffect DEF TypeOK, AtRest, i
  <1>7. CASE calls' = [calls EXCEPT ![i] = k] /\ Goto(p, "scriptSettle")
    BY <1>1, <1>2, <1>3, <1>4, <1>5, <1>7, GotoEffect DEF TypeOK, AtRest, i
  <1>8. QED
    BY <1>1, <1>6, <1>7

\* A script call is settled on the spot.
LEMMA ScriptSettleEffect ==
  ASSUME TypeOK, PassesFit, NEW p \in Passes, ScriptSettle(p)
  PROVE  LET i == Current(p) IN
         /\ TypeOK' /\ PassOnly(p) /\ CallOnly(i) /\ Holds(p, passes[p])
         /\ passes[p].pc = "scriptSettle" /\ passes'[p].pc = "scriptMark"
         /\ i # 0 /\ i \in DOMAIN calls
         /\ calls'[i].row = calls[i].row /\ calls'[i].contact = calls[i].contact
         /\ calls'[i].session = calls[i].session /\ calls'[i].hook = calls[i].hook
         /\ calls'[i].returns = calls[i].returns + 1
         /\ balance' = balance + (EstimatedCost - CostOf(0))
         /\ UNCHANGED <<campaign, contacts>> /\ AtRest
  <1> DEFINE i == Current(p)
             r == [calls[i] EXCEPT !.returns = @ + 1]
             k == [r EXCEPT !.charged = @ + CostOf(0)]
  <1>1. /\ passes[p].pc = "scriptSettle" /\ Goto(p, "scriptMark")
        /\ calls' = [calls EXCEPT ![i] = k] /\ balance' = balance + (EstimatedCost - CostOf(0))
        /\ UNCHANGED <<campaign, contacts>> /\ AtRest
    BY DEF ScriptSettle, SettledCall, Settle, At, Quiet, AtRest
  <1>2. i # 0 /\ i \in DOMAIN calls
    BY <1>1, CurrentParts DEF CallSteps, ScriptSteps, Current
  <1> HIDE DEF i
  <1>3. CostOf(0) \in Nat /\ EstimatedCost \in Nat /\ balance \in Int
    BY PriceIsOne DEF TypeOK
  <1>4. calls[i] \in Call /\ calls[i].returns + 1 \in Nat /\ calls[i].charged + CostOf(0) \in Nat
    BY <1>2, <1>3, CallParts
  <1>5. /\ r \in Call /\ r.row = calls[i].row /\ r.contact = calls[i].contact
        /\ r.session = calls[i].session /\ r.hook = calls[i].hook
        /\ r.returns = calls[i].returns + 1 /\ r.charged = calls[i].charged
    BY <1>4 DEF Call
  <1> HIDE DEF r
  <1>6. /\ k \in Call /\ k.row = calls[i].row /\ k.contact = calls[i].contact
        /\ k.session = calls[i].session /\ k.hook = calls[i].hook
        /\ k.returns = calls[i].returns + 1
    BY <1>4, <1>5 DEF Call
  <1> HIDE DEF k
  <1>7. calls' \in Seq(Call) /\ calls'[i] = k /\ CallOnly(i)
    BY <1>1, <1>2, <1>6, CallReplaced
  <1>8. "scriptMark" \in PassSteps /\ balance' \in Int
    BY <1>1, <1>3 DEF PassSteps
  <1>9. QED
    BY <1>1, <1>2, <1>6, <1>7, <1>8, GotoEffect DEF TypeOK, AtRest, i

\* The contact gets the call, and is in progress or, after a script, done.
LEMMA MarkEffect ==
  ASSUME TypeOK, PassesFit, NEW p \in Passes, Mark(p) \/ ScriptMark(p)
  PROVE  LET c == CurContact(p) IN
         /\ TypeOK' /\ PassOnly(p) /\ ContactOnly(c)
         /\ passes'[p].pc = "next" /\ passes'[p].todo = passes[p].todo
         /\ passes'[p].slots = passes[p].slots /\ passes'[p].call = 0
         /\ c \in Contacts /\ Current(p) # 0
         /\ contacts'[c].call = Current(p)
         /\ \/ passes[p].pc = "mark" /\ contacts'[c].status = "IN_PROGRESS"
            \/ passes[p].pc = "scriptMark" /\ contacts'[c].status = "COMPLETED"
         /\ UNCHANGED <<campaign, calls, balance>> /\ AtRest
  <1> DEFINE c == CurContact(p)
             r(status) == [contacts[c] EXCEPT !.status = status, !.call = Current(p),
                                              !.attempts = @ + 1]
  <1>1. /\ GotoNext(p) /\ UNCHANGED <<campaign, calls, balance>> /\ AtRest
        /\ \/ /\ passes[p].pc = "mark"
              /\ contacts' = [contacts EXCEPT ![c] = r("IN_PROGRESS")]
           \/ /\ passes[p].pc = "scriptMark"
              /\ contacts' = [contacts EXCEPT ![c] = r("COMPLETED")]
    BY DEF Mark, ScriptMark, Dispatched, At, Quiet, AtRest
  <1>2. c \in Contacts /\ Current(p) # 0
    BY <1>1, CurrentParts DEF CallSteps, ScriptSteps, VoiceSteps, CurSteps, Current
  <1>3. Current(p) \in Nat
    BY PassParts DEF Current
  <1> HIDE DEF c
  <1>4. contacts[c] \in Contact /\ contacts[c].attempts + 1 \in Nat
    BY <1>2 DEF TypeOK, Contact
  <1>5. ASSUME NEW status \in {"IN_PROGRESS", "COMPLETED"}
        PROVE  /\ r(status) \in Contact /\ r(status).status = status
               /\ r(status).call = Current(p)
    BY <1>3, <1>4 DEF Contact, ContactStatus
  <1>6. \A status \in {"IN_PROGRESS", "COMPLETED"} :
          contacts' = [contacts EXCEPT ![c] = r(status)]
            => /\ contacts' \in [Contacts -> Contact] /\ ContactOnly(c)
               /\ contacts'[c].status = status /\ contacts'[c].call = Current(p)
    <2> HIDE DEF r
    <2>1. QED
      BY <1>2, <1>5, ContactReplaced
  <1> HIDE DEF r
  <1>7. QED
    BY <1>1, <1>2, <1>6, GotoNextEffect DEF TypeOK, AtRest, c

\* The catch gives the reservation back.
LEMMA RefundEffect ==
  ASSUME TypeOK, PassesFit, NEW p \in Passes, Refund(p)
  PROVE  LET i == Current(p) IN
         /\ TypeOK' /\ PassOnly(p) /\ Holds(p, passes[p])
         /\ passes[p].pc = "refund" /\ passes'[p].pc = "failMark"
         /\ balance' = balance + EstimatedCost
         /\ \/ i = 0 /\ UNCHANGED calls
            \/ /\ i # 0 /\ i \in DOMAIN calls /\ CallOnly(i)
               /\ calls'[i].row = calls[i].row /\ calls'[i].contact = calls[i].contact
               /\ calls'[i].session = calls[i].session /\ calls'[i].hook = calls[i].hook
               /\ calls'[i].returns = calls[i].returns + 1
         /\ UNCHANGED <<campaign, contacts>> /\ AtRest
  <1> DEFINE i == Current(p)
             k == [calls[i] EXCEPT !.returns = @ + 1]
  <1>1. /\ passes[p].pc = "refund" /\ Goto(p, "failMark")
        /\ balance' = balance + EstimatedCost
        /\ calls' = IF i = 0 THEN calls ELSE [calls EXCEPT ![i] = k]
        /\ UNCHANGED <<campaign, contacts>> /\ AtRest
    BY DEF Refund, At, Quiet, AtRest
  <1>2. i # 0 => i \in DOMAIN calls
    BY CurrentParts DEF Current
  <1> HIDE DEF i
  <1>3. EstimatedCost \in Nat /\ balance \in Int
    BY PriceIsOne DEF TypeOK
  <1>4. balance' \in Int /\ "failMark" \in PassSteps
    BY <1>1, <1>3 DEF PassSteps
  <1>5. i # 0 => /\ k \in Call /\ k.row = calls[i].row /\ k.contact = calls[i].contact
                 /\ k.session = calls[i].session /\ k.hook = calls[i].hook
                 /\ k.returns = calls[i].returns + 1
    BY <1>2, CallParts DEF Call
  <1> HIDE DEF k
  <1>6. i # 0 => calls' \in Seq(Call) /\ calls'[i] = k /\ CallOnly(i)
    BY <1>1, <1>2, <1>5, CallReplaced
  <1>7. CASE i = 0
    BY <1>1, <1>4, <1>7, GotoEffect DEF TypeOK, AtRest, i
  <1>8. CASE i # 0
    BY <1>1, <1>2, <1>4, <1>5, <1>6, <1>8, GotoEffect DEF TypeOK, AtRest, i
  <1>9. QED
    BY <1>7, <1>8

\* The contact is tried again later, or given up.
LEMMA FailMarkEffect ==
  ASSUME TypeOK, PassesFit, NEW p \in Passes, FailMark(p)
  PROVE  LET c == CurContact(p) IN
         /\ TypeOK' /\ PassOnly(p) /\ ContactOnly(c)
         /\ passes[p].pc = "failMark"
         /\ passes'[p].pc = "next" /\ passes'[p].todo = passes[p].todo
         /\ passes'[p].slots = passes[p].slots /\ passes'[p].call = 0
         /\ c \in Contacts
         /\ \/ contacts'[c].status = "PENDING" /\ contacts'[c].call = 0
            \/ contacts'[c].status = "FAILED" /\ contacts'[c].call = contacts[c].call
         /\ UNCHANGED <<campaign, calls, balance>> /\ AtRest
  <1> DEFINE c == CurContact(p)
             tried == passes[p].cur.attempts + 1
             again == [status |-> "PENDING", call |-> 0, attempts |-> tried, later |-> TRUE]
             lost == [contacts[c] EXCEPT !.status = "FAILED", !.attempts = tried]
  <1>1. /\ passes[p].pc = "failMark" /\ GotoNext(p)
        /\ UNCHANGED <<campaign, calls, balance>> /\ AtRest
        /\ \/ contacts' = [contacts EXCEPT ![c] = again]
           \/ contacts' = [contacts EXCEPT ![c] = lost]
    BY DEF FailMark, At, Quiet, AtRest
  <1>2. c \in Contacts /\ tried \in Nat
    BY <1>1, CurrentParts, PassParts DEF CurSteps
  <1> HIDE DEF c, tried
  <1>3. /\ again \in Contact /\ again.status = "PENDING" /\ again.call = 0
        /\ lost \in Contact /\ lost.status = "FAILED" /\ lost.call = contacts[c].call
    BY <1>2 DEF TypeOK, Contact, ContactStatus
  <1> HIDE DEF again, lost
  <1>4. /\ contacts' \in [Contacts -> Contact] /\ ContactOnly(c)
        /\ \/ contacts'[c].status = "PENDING" /\ contacts'[c].call = 0
           \/ contacts'[c].status = "FAILED" /\ contacts'[c].call = contacts[c].call
    BY <1>1, <1>2, <1>3, ContactReplaced
  <1>5. QED
    BY <1>1, <1>2, <1>4, GotoNextEffect DEF TypeOK, AtRest, c

\* The call ends before its session is registered.
LEMMA EndUnregisteredEffect ==
  ASSUME TypeOK, NEW i \in DOMAIN calls, EndUnregistered(i)
  PROVE  /\ TypeOK' /\ CallOnly(i)
         /\ mode = "VOICE_AI"
         /\ calls[i].session = "none" /\ calls'[i].session = "missed"
         /\ calls'[i].row = calls[i].row /\ calls'[i].contact = calls[i].contact
         /\ calls'[i].hook = calls[i].hook /\ calls'[i].returns = calls[i].returns
         /\ UNCHANGED <<mode, campaign, contacts, optedOut, balance, passes, request, history>>
  <1> DEFINE k == [calls[i] EXCEPT !.session = "missed"]
  <1>1. /\ mode = "VOICE_AI" /\ calls[i].session = "none"
        /\ calls' = [calls EXCEPT ![i] = k]
        /\ UNCHANGED <<mode, campaign, contacts, optedOut, balance, passes, request, history>>
    BY DEF EndUnregistered, CallStep
  <1>2. /\ k \in Call /\ k.row = calls[i].row /\ k.contact = calls[i].contact
        /\ k.session = "missed" /\ k.hook = calls[i].hook /\ k.returns = calls[i].returns
    BY CallParts DEF Call
  <1> HIDE DEF k
  <1>3. calls' \in Seq(Call) /\ calls'[i] = k /\ CallOnly(i)
    BY <1>1, <1>2, CallReplaced
  <1>4. QED
    BY <1>1, <1>2, <1>3 DEF TypeOK

\* The call ends, is settled for no more than was reserved, and its contact is
\* to be found.
LEMMA EndCallEffect ==
  ASSUME TypeOK, NEW i \in DOMAIN calls, EndCall(i)
  PROVE  /\ TypeOK' /\ CallOnly(i)
         /\ calls[i].session = "live" /\ calls'[i].session = "over"
         /\ calls'[i].row \notin ActiveStatus /\ calls'[i].contact = calls[i].contact
         /\ calls'[i].hook = "find" /\ calls'[i].returns = calls[i].returns + 1
         /\ balance' \in Int /\ balance' >= balance
         /\ UNCHANGED <<mode, campaign, contacts, optedOut, passes, request, history>>
  <1> DEFINE r(secs) == [calls[i] EXCEPT !.returns = @ + 1, !.charged = @ + CostOf(secs)]
             k(secs, status) == [r(secs) EXCEPT !.session = "over", !.row = status, !.hook = "find"]
  <1>1. /\ calls[i].session = "live"
        /\ UNCHANGED <<mode, campaign, contacts, optedOut, passes, request, history>>
        /\ \E status \in Outcomes, secs \in {MaxCallSeconds, 0} :
             /\ calls' = [calls EXCEPT ![i] = k(secs, status)]
             /\ balance' = balance + (EstimatedCost - CostOf(secs))
    BY DEF EndCall, CallStep, Settle, SettledCall
  <1>2. PICK status \in Outcomes, secs \in {MaxCallSeconds, 0} :
             /\ calls' = [calls EXCEPT ![i] = k(secs, status)]
             /\ balance' = balance + (EstimatedCost - CostOf(secs))
    BY <1>1
  <1> DEFINE cost == CostOf(secs)
  <1>3. EstimatedCost \in Nat /\ cost \in Nat /\ cost <= EstimatedCost /\ balance \in Int
    <2>1. mode \in Modes /\ balance \in Int
      BY DEF TypeOK
    <2>2. secs \in Nat /\ secs <= MaxCallSeconds
      BY MoneyAssumption
    <2>3. QED
      BY <2>1, <2>2, PriceIsOne
  <1>4. balance' = balance + (EstimatedCost - cost)
    BY <1>2
  <1> DEFINE s == r(secs)
             t == [s EXCEPT !.session = "over", !.row = status, !.hook = "find"]
  <1>5. calls' = [calls EXCEPT ![i] = t]
    BY <1>2
  <1> HIDE DEF cost
  <1>6. calls[i] \in Call /\ calls[i].returns + 1 \in Nat /\ calls[i].charged + cost \in Nat
    BY <1>3, CallParts
  <1>7. s = [calls[i] EXCEPT !.returns = @ + 1, !.charged = @ + cost]
    BY DEF cost
  <1> HIDE DEF s
  <1>8. /\ s \in Call /\ s.contact = calls[i].contact /\ s.returns = calls[i].returns + 1
    BY <1>6, <1>7 DEF Call
  <1>9. status \in {"COMPLETED", "ESCALATED", "NO_ANSWER", "FAILED"}
    BY DispatchAssumption
  <1>10. /\ t \in Call /\ t.contact = calls[i].contact /\ t.returns = calls[i].returns + 1
         /\ t.session = "over" /\ t.hook = "find" /\ t.row = status
    BY <1>8, <1>9 DEF Call
  <1> HIDE DEF t
  <1>11. calls' \in Seq(Call) /\ calls'[i] = t /\ CallOnly(i)
    BY <1>5, <1>10, CallReplaced
  <1>12. balance' \in Int /\ balance' >= balance
    BY <1>3, <1>4
  <1>13. status \notin ActiveStatus
    BY <1>9 DEF ActiveStatus
  <1>14. QED
    BY <1>1, <1>10, <1>11, <1>12, <1>13 DEF TypeOK

\* The contact of a call that is over is found by the call, or is not.
LEMMA HookFindEffect ==
  ASSUME TypeOK, NEW i \in DOMAIN calls, HookFind(i)
  PROVE  /\ TypeOK' /\ CallOnly(i)
         /\ calls[i].hook = "find"
         /\ \/ calls'[i].hook = "unmatched"
            \/ /\ calls'[i].hook \in ContactStatus
               /\ \E c \in Contacts : contacts[c].call = i
         /\ calls'[i].row = calls[i].row /\ calls'[i].contact = calls[i].contact
         /\ calls'[i].session = calls[i].session /\ calls'[i].returns = calls[i].returns
         /\ UNCHANGED <<mode, campaign, contacts, optedOut, balance, passes, request, history>>
  <1> DEFINE k(h) == [calls[i] EXCEPT !.hook = h]
  <1>1. /\ calls[i].hook = "find"
        /\ UNCHANGED <<mode, campaign, contacts, optedOut, balance, passes, request, history>>
        /\ \/ calls' = [calls EXCEPT ![i] = k("unmatched")]
           \/ \E c \in ContactOf(i) : calls' = [calls EXCEPT ![i] = k(Outcome(i, c))]
    BY DEF HookFind, CallStep
  <1>2. PICK h \in {"unmatched", "PENDING", "COMPLETED", "FAILED"} :
          /\ calls' = [calls EXCEPT ![i] = k(h)]
          /\ h # "unmatched" => \E c \in Contacts : contacts[c].call = i
    <2>1. \A c : Outcome(i, c) \in {"PENDING", "COMPLETED", "FAILED"}
      BY DEF Outcome
    <2>2. \A c \in ContactOf(i) : c \in Contacts /\ contacts[c].call = i
      BY DEF ContactOf
    <2> HIDE DEF k
    <2>3. QED
      BY <1>1, <2>1, <2>2
  <1>3. /\ k(h) \in Call /\ k(h).row = calls[i].row /\ k(h).contact = calls[i].contact
        /\ k(h).session = calls[i].session /\ k(h).hook = h /\ k(h).returns = calls[i].returns
    BY CallParts DEF Call
  <1> HIDE DEF k
  <1>4. calls' \in Seq(Call) /\ calls'[i] = k(h) /\ CallOnly(i)
    BY <1>2, <1>3, CallReplaced
  <1>5. h \in ContactStatus \/ h = "unmatched"
    BY DEF ContactStatus
  <1>6. QED
    BY <1>1, <1>2, <1>3, <1>4, <1>5 DEF TypeOK

\* What came of the call is written to its contact.
LEMMA HookWriteEffect ==
  ASSUME TypeOK, NEW i \in DOMAIN calls, HookWrite(i)
  PROVE  LET c == calls[i].contact IN
         /\ TypeOK' /\ CallOnly(i) /\ ContactOnly(c)
         /\ calls[i].hook \in ContactStatus /\ calls'[i].hook = "done"
         /\ calls'[i].row = calls[i].row /\ calls'[i].contact = c
         /\ calls'[i].session = calls[i].session /\ calls'[i].returns = calls[i].returns
         /\ c \in Contacts
         /\ \/ contacts'[c].status = "PENDING" /\ contacts'[c].call = 0
            \/ contacts'[c].status \in {"COMPLETED", "FAILED"} /\ contacts'[c].call = contacts[c].call
         /\ UNCHANGED <<mode, campaign, optedOut, balance, passes, request, history>>
  <1> DEFINE c == calls[i].contact
             h == calls[i].hook
             k == [calls[i] EXCEPT !.hook = "done"]
             again == [contacts[c] EXCEPT !.status = h, !.call = 0, !.later = TRUE]
             over == [contacts[c] EXCEPT !.status = h]
  <1>1. /\ h \in ContactStatus
        /\ calls' = [calls EXCEPT ![i] = k]
        /\ UNCHANGED <<mode, campaign, optedOut, balance, passes, request, history>>
    BY DEF HookWrite, CallStep
  <1>2. contacts' = [contacts EXCEPT ![c] = IF h = "PENDING" THEN again ELSE over]
    BY DEF HookWrite
  <1>3. /\ k \in Call /\ k.row = calls[i].row /\ k.contact = c
        /\ k.session = calls[i].session /\ k.hook = "done" /\ k.returns = calls[i].returns
    BY CallParts DEF Call
  <1>4. h \in {"PENDING", "COMPLETED", "FAILED"} /\ c \in Contacts /\ contacts[c] \in Contact
    <2>1. calls[i] \in Call
      BY CallParts
    <2>2. h \in {"none", "find", "PENDING", "COMPLETED", "FAILED", "unmatched", "done"}
          /\ c \in Contacts
      BY <2>1 DEF Call
    <2>3. QED
      BY <1>1, <2>2 DEF ContactStatus, TypeOK
  <1> HIDE DEF k, c, h
  <1>5. /\ again \in Contact /\ again.status = h /\ again.call = 0
        /\ over \in Contact /\ over.status = h /\ over.call = contacts[c].call
    BY <1>4 DEF Contact, ContactStatus
  <1> HIDE DEF again, over
  <1>6. /\ contacts' \in [Contacts -> Contact] /\ ContactOnly(c)
        /\ \/ contacts'[c].status = "PENDING" /\ contacts'[c].call = 0
           \/ contacts'[c].status \in {"COMPLETED", "FAILED"} /\ contacts'[c].call = contacts[c].call
    BY <1>2, <1>4, <1>5, ContactReplaced
  <1>7. calls' \in Seq(Call) /\ calls'[i] = k /\ CallOnly(i)
    BY <1>1, <1>3, CallReplaced
  <1>8. QED
    BY <1>1, <1>3, <1>4, <1>6, <1>7 DEF TypeOK, c, h

\* The hook fails, and nobody tries it again.
LEMMA HookFailsEffect ==
  ASSUME TypeOK, NEW i \in DOMAIN calls, HookFails(i)
  PROVE  /\ TypeOK' /\ CallOnly(i)
         /\ calls[i].hook \in {"find"} \cup ContactStatus /\ calls'[i].hook = "done"
         /\ calls'[i].row = calls[i].row /\ calls'[i].contact = calls[i].contact
         /\ calls'[i].session = calls[i].session /\ calls'[i].returns = calls[i].returns
         /\ history'.writes > 0 /\ history'.overlap = history.overlap
         /\ history'.retried = history.retried
         /\ UNCHANGED <<mode, campaign, contacts, optedOut, balance, passes, request>>
  <1> DEFINE k == [calls[i] EXCEPT !.hook = "done"]
  <1>1. /\ calls[i].hook \in {"find"} \cup ContactStatus
        /\ calls' = [calls EXCEPT ![i] = k]
        /\ history' = [history EXCEPT !.writes = @ + 1]
        /\ UNCHANGED <<mode, campaign, contacts, optedOut, balance, passes, request>>
    BY DEF HookFails
  <1>2. /\ history' \in History /\ history'.writes > 0 /\ history'.overlap = history.overlap
        /\ history'.retried = history.retried
    BY <1>1, HistoryEffect, Zenon
  <1>3. /\ k \in Call /\ k.row = calls[i].row /\ k.contact = calls[i].contact
        /\ k.session = calls[i].session /\ k.hook = "done" /\ k.returns = calls[i].returns
    BY CallParts DEF Call
  <1> HIDE DEF k
  <1>4. calls' \in Seq(Call) /\ calls'[i] = k /\ CallOnly(i)
    BY <1>1, <1>3, CallReplaced
  <1>5. QED
    BY <1>1, <1>2, <1>3, <1>4 DEF TypeOK, History

\* The worker writes off a row that nothing will update.
LEMMA ReconcileEffect ==
  ASSUME TypeOK, NEW i \in DOMAIN calls, ReconcileStale(i)
  PROVE  /\ TypeOK' /\ CallOnly(i)
         /\ calls'[i].row \notin ActiveStatus /\ calls'[i].contact = calls[i].contact
         /\ calls'[i].session = calls[i].session /\ calls'[i].hook = calls[i].hook
         /\ calls'[i].returns = calls[i].returns
         /\ UNCHANGED <<mode, campaign, contacts, optedOut, balance, passes, request, history>>
  <1> DEFINE k == [calls[i] EXCEPT !.row = "FAILED"]
  <1>1. /\ calls' = [calls EXCEPT ![i] = k]
        /\ UNCHANGED <<mode, campaign, contacts, optedOut, balance, passes, request, history>>
    BY DEF ReconcileStale, CallStep
  <1>2. /\ k \in Call /\ k.row = "FAILED" /\ k.contact = calls[i].contact
        /\ k.session = calls[i].session /\ k.hook = calls[i].hook /\ k.returns = calls[i].returns
    BY CallParts DEF Call
  <1> HIDE DEF k
  <1>3. calls' \in Seq(Call) /\ calls'[i] = k /\ CallOnly(i)
    BY <1>1, <1>2, CallReplaced
  <1>4. QED
    BY <1>1, <1>2, <1>3 DEF TypeOK, ActiveStatus

\* A contact opts out, or becomes due again.
LEMMA ContactEffect ==
  ASSUME TypeOK, NEW c \in Contacts, OptOut(c) \/ RetryDue(c)
  PROVE  /\ TypeOK'
         /\ \A d \in Contacts : /\ contacts'[d].status = contacts[d].status
                                /\ contacts'[d].call = contacts[d].call
         /\ UNCHANGED <<mode, campaign, calls, balance, passes, request, history>>
  <1>1. CASE OptOut(c)
    BY <1>1 DEF OptOut, TypeOK
  <1>2. CASE RetryDue(c)
    <2> DEFINE r == [contacts[c] EXCEPT !.later = FALSE]
    <2>1. /\ contacts' = [contacts EXCEPT ![c] = r]
          /\ UNCHANGED <<mode, campaign, optedOut, calls, balance, passes, request, history>>
      BY <1>2 DEF RetryDue
    <2>2. r \in Contact /\ r.status = contacts[c].status /\ r.call = contacts[c].call
      BY DEF TypeOK, Contact
    <2> HIDE DEF r
    <2>3. contacts' \in [Contacts -> Contact] /\ contacts'[c] = r /\ ContactOnly(c)
      BY <2>1, <2>2, ContactReplaced
    <2>4. QED
      BY <2>1, <2>2, <2>3 DEF TypeOK, ContactOnly
  <1>3. QED
    BY <1>1, <1>2

\* A route reads the campaign.
LEMMA RouteReadsEffect ==
  ASSUME TypeOK, NEW op \in Ops, RouteReads(op)
  PROVE  /\ TypeOK'
         /\ history'.overlap = history.overlap /\ history'.retried = history.retried
         /\ history'.writes = history.writes /\ history'.crashes = history.crashes
         /\ UNCHANGED <<mode, campaign, contacts, optedOut, calls, balance, passes>>
  <1>1. /\ history' = [history EXCEPT !.requests = @ + 1] /\ request' = op
        /\ UNCHANGED <<mode, campaign, contacts, optedOut, calls, balance, passes>>
    BY DEF RouteReads
  <1>2. /\ history' \in History
        /\ history'.overlap = history.overlap /\ history'.retried = history.retried
        /\ history'.writes = history.writes /\ history'.crashes = history.crashes
    BY <1>1, HistoryEffect, Zenon
  <1>3. QED
    BY <1>1, <1>2 DEF TypeOK, History

\* A route writes the campaign, and with it perhaps every contact.
LEMMA RouteWritesEffect ==
  ASSUME TypeOK, RouteWrites
  PROVE  /\ TypeOK'
         /\ \A c \in Contacts : contacts'[c].call = contacts[c].call
         /\ \/ campaign' \in {"RUNNING", "PAUSED"} /\ UNCHANGED <<contacts, history>>
            \/ /\ campaign' = "CANCELLED" /\ UNCHANGED history
               /\ \A c \in Contacts :
                    contacts'[c].status = IF contacts[c].status = "PENDING" THEN "FAILED"
                                          ELSE contacts[c].status
            \/ /\ UNCHANGED campaign /\ history'.retried /\ history'.overlap = history.overlap
               /\ history'.writes = history.writes /\ history'.crashes = history.crashes
               /\ \A c \in Contacts : contacts'[c].status = "PENDING"
         /\ UNCHANGED <<mode, optedOut, calls, balance, passes>>
  <1>1. UNCHANGED <<mode, optedOut, calls, balance, passes>>
    BY DEF RouteWrites
  <1>2. CASE /\ campaign' \in {"RUNNING", "PAUSED"} /\ request' = NoRequest
             /\ UNCHANGED <<contacts, history>>
    BY <1>1, <1>2 DEF TypeOK, CampaignStatus
  <1>3. CASE /\ campaign' = "CANCELLED" /\ request' = NoRequest /\ contacts' = Cancelled
             /\ UNCHANGED history
    <2>1. ASSUME NEW c \in Contacts
          PROVE  /\ Cancelled[c] \in Contact /\ Cancelled[c].call = contacts[c].call
                 /\ Cancelled[c].status = IF contacts[c].status = "PENDING" THEN "FAILED"
                                          ELSE contacts[c].status
      <3>1. contacts[c] \in Contact
        BY DEF TypeOK
      <3> DEFINE r == [contacts[c] EXCEPT !.status = "FAILED"]
      <3>2. r \in Contact /\ r.status = "FAILED" /\ r.call = contacts[c].call
        BY <3>1 DEF Contact, ContactStatus
      <3>3. Cancelled[c] = IF contacts[c].status = "PENDING" THEN r ELSE contacts[c]
        BY DEF Cancelled
      <3> HIDE DEF r
      <3>4. QED
        BY <3>1, <3>2, <3>3
    <2>2. contacts' \in [Contacts -> Contact]
      BY <1>3, <2>1 DEF Cancelled
    <2>3. QED
      BY <1>1, <1>3, <2>1, <2>2 DEF TypeOK, CampaignStatus
  <1>4. CASE /\ contacts' = AllPending /\ request' = "retryRun"
             /\ history' = [history EXCEPT !.retried = TRUE] /\ UNCHANGED campaign
    <2>1. ASSUME NEW c \in Contacts
          PROVE  /\ AllPending[c] \in Contact /\ AllPending[c].call = contacts[c].call
                 /\ AllPending[c].status = "PENDING"
      BY DEF TypeOK, AllPending, Contact, ContactStatus
    <2>2. contacts' \in [Contacts -> Contact]
      BY <1>4, <2>1 DEF AllPending
    <2>3. /\ history' \in History /\ history'.retried /\ history'.overlap = history.overlap
          /\ history'.writes = history.writes /\ history'.crashes = history.crashes
      BY <1>4, HistoryEffect, Zenon
    <2>4. QED
      BY <1>1, <1>4, <2>1, <2>2, <2>3 DEF TypeOK, History
  <1>5. QED
    BY <1>2, <1>3, <1>4 DEF RouteWrites

\* The API restarts: nobody is at work on the campaign, and no call that was under
\* way will be heard of.
LEMMA CrashEffect ==
  ASSUME TypeOK, Crash
  PROVE  /\ TypeOK'
         /\ \A p \in Passes : passes'[p] = IdlePass
         /\ DOMAIN calls' = DOMAIN calls
         /\ \A i \in DOMAIN calls :
              /\ calls'[i].row = calls[i].row /\ calls'[i].contact = calls[i].contact
              /\ calls'[i].returns = calls[i].returns
              /\ calls'[i].session = IF calls[i].session = "over" THEN "over" ELSE "missed"
              /\ calls'[i].hook = IF calls[i].hook \in {"none", "unmatched"} THEN calls[i].hook
                                  ELSE "done"
         /\ history'.overlap = history.overlap /\ history'.retried = history.retried
         /\ history'.writes = history.writes /\ history'.crashes > 0
         /\ UNCHANGED <<mode, campaign, contacts, optedOut, balance>>
  <1> DEFINE r(i) == [calls[i] EXCEPT !.session = IF @ = "over" THEN @ ELSE "missed"]
             k(i) == [r(i) EXCEPT !.hook = IF @ \in {"none", "unmatched"} THEN @ ELSE "done"]
  <1>1. /\ passes' = [p \in Passes |-> IdlePass]
        /\ calls' = [i \in DOMAIN calls |-> k(i)]
        /\ request' = NoRequest
        /\ history' = [history EXCEPT !.crashes = @ + 1]
        /\ UNCHANGED <<mode, campaign, contacts, optedOut, balance>>
    BY DEF Crash
  <1>2. ASSUME NEW i \in DOMAIN calls
        PROVE  /\ k(i) \in Call /\ k(i).row = calls[i].row /\ k(i).contact = calls[i].contact
               /\ k(i).returns = calls[i].returns
               /\ k(i).session = IF calls[i].session = "over" THEN "over" ELSE "missed"
               /\ k(i).hook = IF calls[i].hook \in {"none", "unmatched"} THEN calls[i].hook
                              ELSE "done"
    <2>1. /\ r(i) \in Call /\ r(i).row = calls[i].row /\ r(i).contact = calls[i].contact
          /\ r(i).returns = calls[i].returns /\ r(i).hook = calls[i].hook
          /\ r(i).session = IF calls[i].session = "over" THEN "over" ELSE "missed"
      BY CallParts DEF Call
    <2> HIDE DEF r
    <2>2. QED
      BY <2>1 DEF Call
  <1> HIDE DEF k
  <1>3. DOMAIN calls = 1 .. Len(calls) /\ Len(calls) \in Nat
    BY CallParts
  <1>4. calls' \in [1 .. Len(calls) -> Call] /\ DOMAIN calls' = DOMAIN calls
    BY <1>1, <1>2, <1>3
  <1>5. calls' \in Seq(Call)
    BY <1>3, <1>4
  <1>6. IdlePass \in Pass
    BY DEF IdlePass, Pass, PassSteps
  <1>7. /\ history' \in History /\ history'.overlap = history.overlap
        /\ history'.retried = history.retried
        /\ history'.writes = history.writes /\ history'.crashes > 0
    BY <1>1, HistoryEffect, Zenon
  <1>8. \A i \in DOMAIN calls : calls'[i] = k(i)
    BY <1>1
  <1>9. QED
    BY <1>1, <1>2, <1>4, <1>5, <1>6, <1>7, <1>8 DEF TypeOK, History

-----------------------------------------------------------------------------
(* Each part of the invariant is kept by every step.                       *)

KeepCalls == \A j \in DOMAIN calls : j \in DOMAIN calls' /\ calls'[j].contact = calls[j].contact

LEMMA CallOnlyKeeps ==
  ASSUME NEW i \in DOMAIN calls, CallOnly(i), calls'[i].contact = calls[i].contact
  PROVE  KeepCalls
  BY DEF CallOnly, KeepCalls

\* A pass's step keeps what the other passes hold.
LEMMA PassesFitOf ==
  ASSUME TypeOK, PassesFit, NEW p \in Passes, PassOnly(p), KeepCalls, UNCHANGED mode,
         passes'[p].call \in {passes[p].call, 0, Len(calls) + 1},
         PassFits(p)'
  PROVE  PassesFit'
  <1> SUFFICES ASSUME NEW q \in Passes, q # p PROVE PassFits(q)'
    BY DEF PassesFit
  <1>1. passes'[q] = passes[q] /\ PassFits(q)
    BY DEF PassOnly, PassesFit
  <1>2. passes[q].call # 0 => passes[q].call \in DOMAIN calls /\ passes[q].call <= Len(calls)
    BY <1>1, CallParts DEF PassFits
  <1>3. Len(calls) \in Nat /\ passes[q].call \in Nat
    BY CallParts, PassParts
  <1>4. passes[q].call # 0 => passes[q].call # passes'[p].call
    BY <1>1, <1>2, <1>3 DEF PassFits
  <1>5. \A r \in Passes \ {p} : passes'[r].call = passes[r].call
    BY DEF PassOnly
  <1>6. QED
    BY <1>1, <1>2, <1>4, <1>5 DEF PassFits, KeepCalls

\* A pass fits that keeps its call and its contact.
LEMMA PassFitsKept ==
  ASSUME PassesFit, NEW p \in Passes, PassOnly(p), KeepCalls, UNCHANGED mode,
         passes'[p].cur = passes[p].cur, passes'[p].call = passes[p].call,
         passes'[p].pc \in CurSteps => passes[p].pc \in CurSteps,
         passes'[p].pc \in CallSteps => passes[p].call # 0,
         passes'[p].pc \notin CallSteps \cup {"refund", "failMark"} => passes[p].call = 0,
         passes'[p].pc \in VoiceSteps => mode = "VOICE_AI",
         passes'[p].pc \in ScriptSteps => mode = "FIXED_SCRIPT"
  PROVE  PassFits(p)'
  <1>1. PassFits(p)
    BY DEF PassesFit
  <1>2. \A r \in Passes \ {p} : passes'[r].call = passes[r].call
    BY DEF PassOnly
  <1>3. QED
    BY <1>1, <1>2 DEF PassFits, KeepCalls

\* A pass fits that holds no contact and no call.
LEMMA PassFitsFree ==
  ASSUME NEW p \in Passes, passes'[p].call = 0, passes'[p].pc \notin CurSteps
  PROVE  PassFits(p)'
  BY DEF PassFits, CurSteps, CallSteps, VoiceSteps, ScriptSteps

Parts == TypeOK /\ PassesFit

\* What a pass and its call have in common survives each step of a pass.
LEMMA PassesFitPass ==
  ASSUME Parts, NEW p \in Passes, PassStep(p)
  PROVE  TypeOK' /\ PassesFit'
  <1> USE DEF Parts
  <1> USE DEF CurSteps, CallSteps, VoiceSteps, ScriptSteps
  <1>1. UNCHANGED calls => KeepCalls
    BY DEF KeepCalls
  <1>2. PassFits(p)
    BY DEF PassesFit
  <1>3. Holds(p, IdlePass) => passes'[p].call = 0
    BY DEF Holds, IdlePass
  <1>4. Holds(p, passes[p]) => passes'[p].call = passes[p].call /\ passes'[p].cur = passes[p].cur
    BY DEF Holds
  <1>5. CASE StartPass(p)
    <2>1. /\ TypeOK' /\ PassOnly(p) /\ KeepCalls /\ UNCHANGED mode
          /\ passes'[p].pc = "line" /\ passes'[p].call = 0
      BY <1>1, <1>3, <1>5, StartPassEffect
    <2>2. QED
      BY <2>1, PassFitsFree, PassesFitOf
  <1>6. CASE OutsideWindow(p) \/ CheckCampaign(p)
    <2>1. /\ TypeOK' /\ PassOnly(p) /\ KeepCalls /\ UNCHANGED mode
          /\ passes[p].pc = "line" /\ passes'[p].pc \in {"idle", "pause", "count"}
          /\ passes'[p].call \in {passes[p].call, 0}
      BY <1>1, <1>3, <1>4, <1>6, CheckEffect DEF AtRest
    <2>2. passes'[p].call = 0
      BY <1>2, <2>1 DEF PassFits
    <2>3. QED
      BY <2>1, <2>2, PassFitsFree, PassesFitOf
  <1>7. CASE Pause(p)
    <2>1. /\ TypeOK' /\ PassOnly(p) /\ KeepCalls /\ UNCHANGED mode
          /\ passes'[p].pc = "idle" /\ passes'[p].call = 0
      BY <1>1, <1>3, <1>7, PauseEffect DEF AtRest
    <2>2. QED
      BY <2>1, PassFitsFree, PassesFitOf
  <1>8. CASE CountActive(p)
    <2>1. /\ TypeOK' /\ PassOnly(p) /\ KeepCalls /\ UNCHANGED mode
          /\ passes[p].pc = "count" /\ passes'[p].pc \in {"idle", "find"}
          /\ passes'[p].call \in {passes[p].call, 0}
      BY <1>1, <1>3, <1>8, CountEffect DEF AtRest
    <2>2. passes'[p].call = 0
      BY <1>2, <2>1 DEF PassFits
    <2>3. QED
      BY <2>1, <2>2, PassFitsFree, PassesFitOf
  <1>9. CASE FindPending(p)
    <2>1. /\ TypeOK' /\ PassOnly(p) /\ KeepCalls /\ UNCHANGED mode
          /\ passes[p].pc = "find" /\ passes'[p].pc \in {"next", "pause"}
          /\ passes'[p].call = passes[p].call
      BY <1>1, <1>4, <1>9, FindEffect DEF AtRest
    <2>2. passes'[p].call = 0
      BY <1>2, <2>1 DEF PassFits
    <2>3. QED
      BY <2>1, <2>2, PassFitsFree, PassesFitOf
  <1>10. CASE NextContact(p)
    <2>1. /\ TypeOK' /\ PassOnly(p) /\ KeepCalls /\ UNCHANGED mode
          /\ passes[p].pc = "next" /\ passes'[p].pc \in {"dial", "next", "remaining"}
          /\ passes'[p].call = passes[p].call
          /\ passes'[p].pc = "dial" => passes'[p].cur \in passes[p].todo
      BY <1>1, <1>10, NextEffect DEF AtRest
    <2>2. passes'[p].call = 0 /\ (passes'[p].pc = "dial" => passes'[p].cur \in Pending)
      BY <1>2, <2>1, PassParts DEF PassFits
    <2>3. PassFits(p)'
      BY <2>1, <2>2 DEF PassFits
    <2>4. QED
      BY <2>1, <2>3, PassesFitOf
  <1>11. CASE Dial(p)
    <2>1. /\ TypeOK' /\ PassOnly(p) /\ UNCHANGED mode
          /\ passes[p].pc = "dial" /\ passes'[p].cur = passes[p].cur
          /\ \/ /\ passes'[p].pc = IF mode = "FIXED_SCRIPT" THEN "script" ELSE "create"
                /\ passes'[p].call = Len(calls) + 1
                /\ DOMAIN calls' = DOMAIN calls \cup {Len(calls) + 1}
                /\ \A j \in DOMAIN calls : calls'[j] = calls[j]
                /\ calls'[Len(calls) + 1] = NewCall(CurContact(p))
             \/ /\ passes'[p].pc = "refund" /\ passes'[p].call = passes[p].call
                /\ UNCHANGED calls
      BY <1>11, DialEffect DEF AtRest
    <2>2. KeepCalls
      BY <2>1 DEF KeepCalls
    <2>3. CASE passes'[p].pc = "refund"
      <3>1. passes'[p].call = 0
        BY <1>2, <2>1, <2>3 DEF PassFits
      <3>2. PassFits(p)'
        BY <1>2, <2>1, <2>3, <3>1 DEF PassFits
      <3>3. QED
        BY <2>1, <2>2, <3>1, <3>2, PassesFitOf
    <2>4. CASE passes'[p].pc # "refund"
      <3>1. mode \in {"VOICE_AI", "FIXED_SCRIPT"}
        BY DispatchAssumption DEF TypeOK
      <3> DEFINE n == Len(calls) + 1
      <3>2. /\ passes'[p].call = n /\ n # 0 /\ n \in DOMAIN calls'
            /\ calls'[n].contact = passes'[p].cur.contact
            /\ passes'[p].pc = IF mode = "FIXED_SCRIPT" THEN "script" ELSE "create"
        BY <2>1, <2>4, CallParts DEF NewCall, CurContact
      <3>3. \A q \in Passes \ {p} : passes'[q].call # n
        <4>1. ASSUME NEW q \in Passes \ {p} PROVE passes[q].call # n
          <5>1. passes[q].call # 0 => passes[q].call \in DOMAIN calls
            BY DEF PassesFit, PassFits
          <5>2. Len(calls) \in Nat /\ passes[q].call \in Nat
            BY CallParts, PassParts
          <5>3. passes[q].call # 0 => passes[q].call <= Len(calls)
            BY <5>1, CallParts
          <5>4. QED
            BY <5>2, <5>3
        <4>2. QED
          BY <2>1, <4>1 DEF PassOnly
      <3> HIDE DEF n
      <3>4. PassFits(p)'
        BY <1>2, <2>1, <3>1, <3>2, <3>3 DEF PassFits
      <3>5. QED
        BY <2>1, <2>2, <3>2, <3>4, PassesFitOf DEF n
    <2>5. QED
      BY <2>3, <2>4
  <1>12. CASE CreateCall(p)
    <2>1. /\ TypeOK' /\ PassOnly(p) /\ UNCHANGED mode
          /\ passes[p].pc = "create" /\ passes'[p].pc = "register"
          /\ passes'[p].call = passes[p].call /\ passes'[p].cur = passes[p].cur
      BY <1>4, <1>12, CreateCallEffect DEF AtRest
    <2>2. KeepCalls
      BY <1>12, CreateCallEffect, CallOnlyKeeps
    <2>3. PassFits(p)'
      BY <1>2, <2>1, <2>2, PassFitsKept DEF PassFits
    <2>4. QED
      BY <2>1, <2>2, <2>3, PassesFitOf
  <1>13. CASE Register(p)
    <2>1. /\ TypeOK' /\ PassOnly(p) /\ UNCHANGED mode
          /\ passes[p].pc = "register" /\ passes'[p].pc = "mark"
          /\ passes'[p].call = passes[p].call /\ passes'[p].cur = passes[p].cur
      BY <1>4, <1>13, RegisterEffect DEF AtRest
    <2>2. KeepCalls
      BY <1>13, RegisterEffect, CallOnlyKeeps
    <2>3. PassFits(p)'
      BY <1>2, <2>1, <2>2, PassFitsKept DEF PassFits
    <2>4. QED
      BY <2>1, <2>2, <2>3, PassesFitOf
  <1>14. CASE ScriptCall(p)
    <2>1. /\ TypeOK' /\ PassOnly(p) /\ UNCHANGED mode
          /\ passes[p].pc = "script" /\ passes'[p].pc \in {"refund", "scriptSettle"}
          /\ passes'[p].call = passes[p].call /\ passes'[p].cur = passes[p].cur
      BY <1>4, <1>14, ScriptCallEffect DEF AtRest
    <2>2. KeepCalls
      BY <1>1, <1>14, ScriptCallEffect, CallOnlyKeeps
    <2>3. PassFits(p)'
      BY <1>2, <2>1, <2>2, PassFitsKept DEF PassFits
    <2>4. QED
      BY <2>1, <2>2, <2>3, PassesFitOf
  <1>15. CASE ScriptSettle(p)
    <2>1. /\ TypeOK' /\ PassOnly(p) /\ UNCHANGED mode
          /\ passes[p].pc = "scriptSettle" /\ passes'[p].pc = "scriptMark"
          /\ passes'[p].call = passes[p].call /\ passes'[p].cur = passes[p].cur
      BY <1>4, <1>15, ScriptSettleEffect DEF AtRest
    <2>2. KeepCalls
      BY <1>15, ScriptSettleEffect, CallOnlyKeeps
    <2>3. PassFits(p)'
      BY <1>2, <2>1, <2>2, PassFitsKept DEF PassFits
    <2>4. QED
      BY <2>1, <2>2, <2>3, PassesFitOf
  <1>16. CASE Mark(p) \/ ScriptMark(p)
    <2>1. /\ TypeOK' /\ PassOnly(p) /\ KeepCalls /\ UNCHANGED mode
          /\ passes'[p].pc = "next" /\ passes'[p].call = 0
      BY <1>1, <1>16, MarkEffect DEF AtRest
    <2>2. QED
      BY <2>1, PassFitsFree, PassesFitOf
  <1>17. CASE Refund(p)
    <2>1. /\ TypeOK' /\ PassOnly(p) /\ UNCHANGED mode
          /\ passes[p].pc = "refund" /\ passes'[p].pc = "failMark"
          /\ passes'[p].call = passes[p].call /\ passes'[p].cur = passes[p].cur
      BY <1>4, <1>17, RefundEffect DEF AtRest
    <2>2. KeepCalls
      BY <1>1, <1>17, RefundEffect, CallOnlyKeeps
    <2>3. PassFits(p)'
      BY <1>2, <2>1, <2>2, PassFitsKept DEF PassFits
    <2>4. QED
      BY <2>1, <2>2, <2>3, PassesFitOf
  <1>18. CASE FailMark(p)
    <2>1. /\ TypeOK' /\ PassOnly(p) /\ KeepCalls /\ UNCHANGED mode
          /\ passes'[p].pc = "next" /\ passes'[p].call = 0
      BY <1>1, <1>18, FailMarkEffect DEF AtRest
    <2>2. QED
      BY <2>1, PassFitsFree, PassesFitOf
  <1>19. CASE CountRemaining(p) \/ Done(p)
    <2>1. /\ TypeOK' /\ PassOnly(p) /\ KeepCalls /\ UNCHANGED mode
          /\ passes[p].pc \in {"remaining", "done"} /\ passes'[p].pc \in {"idle", "done"}
          /\ passes'[p].call \in {passes[p].call, 0}
      BY <1>1, <1>3, <1>4, <1>19, EndEffect DEF AtRest
    <2>2. passes'[p].call = 0
      BY <1>2, <2>1 DEF PassFits
    <2>3. QED
      BY <2>1, <2>2, PassFitsFree, PassesFitOf
  <1>20. CASE WriteFails(p)
    <2>1. /\ TypeOK' /\ PassOnly(p) /\ KeepCalls /\ UNCHANGED mode
          /\ \/ /\ passes[p].pc \in {"create", "mark", "script", "scriptSettle", "scriptMark"}
                /\ passes'[p].pc = "refund"
                /\ passes'[p].call = passes[p].call /\ passes'[p].cur = passes[p].cur
             \/ passes'[p].pc = "idle" /\ passes'[p].call = 0
      BY <1>1, <1>3, <1>4, <1>20, WriteFailsEffect
    <2>2. PassFits(p)'
      BY <1>2, <2>1, PassFitsKept, PassFitsFree DEF PassFits
    <2>3. QED
      BY <2>1, <2>2, PassesFitOf
  <1>21. QED
    BY <1>5, <1>6, <1>7, <1>8, <1>9, <1>10, <1>11, <1>12, <1>13, <1>14, <1>15, <1>16,
       <1>17, <1>18, <1>19, <1>20 DEF PassStep

\* An event of a call leaves the passes and whom the calls are to alone.
LEMMA EventKeeps ==
  ASSUME TypeOK, NEW i \in DOMAIN calls, CallEvent(i)
  PROVE  /\ TypeOK' /\ CallOnly(i) /\ KeepCalls
         /\ UNCHANGED <<mode, campaign, optedOut, passes, request>>
  <1>1. CASE EndUnregistered(i)
    BY <1>1, EndUnregisteredEffect, CallOnlyKeeps
  <1>2. CASE EndCall(i)
    BY <1>2, EndCallEffect, CallOnlyKeeps
  <1>3. CASE HookFind(i)
    BY <1>3, HookFindEffect, CallOnlyKeeps
  <1>4. CASE HookWrite(i)
    BY <1>4, HookWriteEffect, CallOnlyKeeps
  <1>5. CASE HookFails(i)
    BY <1>5, HookFailsEffect, CallOnlyKeeps
  <1>6. CASE ReconcileStale(i)
    BY <1>6, ReconcileEffect, CallOnlyKeeps
  <1>7. QED
    BY <1>1, <1>2, <1>3, <1>4, <1>5, <1>6 DEF CallEvent

Others == \/ \E c \in Contacts : OptOut(c) \/ RetryDue(c)
          \/ \E op \in Ops : RouteReads(op)
          \/ RouteWrites

\* The contacts' and the routes' steps leave passes, calls and money alone.
LEMMA OthersKeep ==
  ASSUME TypeOK, Others
  PROVE  TypeOK' /\ UNCHANGED <<mode, calls, balance, passes>>
  BY ContactEffect, RouteReadsEffect, RouteWritesEffect DEF Others

LEMMA SplitNext ==
  ASSUME Next
  PROVE  \/ \E p \in Passes : PassStep(p)
         \/ \E i \in DOMAIN calls : CallEvent(i)
         \/ Others
         \/ Crash
  BY DEF Next, Others

\* What passes hold fits at every step.
LEMMA PartsNext ==
  ASSUME Parts, [Next]_vars
  PROVE  Parts'
  <1>1. CASE UNCHANGED vars
    BY <1>1 DEF Parts, vars, TypeOK, PassesFit, PassFits
  <1>2. CASE \E p \in Passes : PassStep(p)
    BY <1>2, PassesFitPass DEF Parts
  <1>3. CASE \E i \in DOMAIN calls : CallEvent(i)
    <2>1. PICK i \in DOMAIN calls : CallEvent(i)
      BY <1>3
    <2>2. TypeOK' /\ KeepCalls /\ UNCHANGED <<mode, passes>>
      BY <2>1, EventKeeps DEF Parts
    <2>3. PassesFit'
      BY <2>2 DEF Parts, PassesFit, PassFits, KeepCalls
    <2>4. QED
      BY <2>2, <2>3 DEF Parts
  <1>4. CASE Others
    <2>1. TypeOK' /\ UNCHANGED <<mode, calls, passes>>
      BY <1>4, OthersKeep DEF Parts
    <2>2. QED
      BY <2>1 DEF Parts, PassesFit, PassFits
  <1>5. CASE Crash
    <2>1. TypeOK' /\ \A p \in Passes : passes'[p] = IdlePass
      BY <1>5, CrashEffect DEF Parts
    <2>2. ASSUME NEW p \in Passes PROVE PassFits(p)'
      <3>1. passes'[p].call = 0 /\ passes'[p].pc = "idle"
        BY <2>1 DEF IdlePass
      <3>2. QED
        BY <3>1, PassFitsFree DEF CurSteps, CallSteps, VoiceSteps, ScriptSteps
    <2>3. QED
      BY <2>1, <2>2 DEF Parts, PassesFit
  <1>6. QED
    BY <1>1, <1>2, <1>3, <1>4, <1>5, SplitNext

-----------------------------------------------------------------------------
(* Money.                                                                  *)

\* The balance grows, or falls by a reservation that the credit allows.
LEMMA BalanceMoves ==
  ASSUME Parts, [Next]_vars
  PROVE  \/ balance' >= balance
         \/ /\ CanReserve(balance, CreditLimit, EstimatedCost)
            /\ balance' = AfterReserve(balance, EstimatedCost)
  <1> USE DEF Parts
  <1>1. EstimatedCost \in Nat /\ CostOf(0) \in Nat /\ CostOf(0) <= EstimatedCost /\ balance \in Int
    <2>1. MaxCallSeconds \in Nat
      BY MoneyAssumption
    <2>2. QED
      BY <2>1, PriceIsOne DEF TypeOK
  <1>2. UNCHANGED balance => balance' >= balance
    BY <1>1
  <1>3. CASE UNCHANGED vars
    BY <1>2, <1>3 DEF vars
  <1>4. ASSUME NEW p \in Passes, PassStep(p) 
        PROVE  \/ balance' >= balance
               \/ /\ CanReserve(balance, CreditLimit, EstimatedCost)
                  /\ balance' = AfterReserve(balance, EstimatedCost)
    <2>1. CASE NextContact(p)
      BY <1>2, <2>1, NextEffect
    <2>2. CASE ScriptSettle(p)
      <3>1. balance' = balance + (EstimatedCost - CostOf(0))
        BY <2>2, ScriptSettleEffect
      <3>2. QED
        BY <1>1, <3>1
    <2>3. CASE Refund(p)
      <3>1. balance' = balance + EstimatedCost
        BY <2>3, RefundEffect
      <3>2. QED
        BY <1>1, <3>1
    <2>4. CASE ~NextContact(p) /\ ~ScriptSettle(p) /\ ~Refund(p)
      <3>1. UNCHANGED balance
        BY <1>4, <2>4, StartPassEffect, CheckEffect, PauseEffect, CountEffect, FindEffect,
           DialEffect, CreateCallEffect, RegisterEffect, ScriptCallEffect, MarkEffect,
           FailMarkEffect, EndEffect, WriteFailsEffect DEF PassStep
      <3>2. QED
        BY <1>2, <3>1
    <2>5. QED
      BY <2>1, <2>2, <2>3, <2>4
  <1>5. ASSUME NEW i \in DOMAIN calls, CallEvent(i) PROVE balance' >= balance
    <2>1. CASE EndCall(i)
      BY <2>1, EndCallEffect
    <2>2. CASE ~EndCall(i)
      BY <1>2, <1>5, <2>2, EndUnregisteredEffect, HookFindEffect, HookWriteEffect,
         HookFailsEffect, ReconcileEffect DEF CallEvent
    <2>3. QED
      BY <2>1, <2>2
  <1>6. CASE Others \/ Crash
    BY <1>2, <1>6, OthersKeep, CrashEffect
  <1>7. QED
    BY <1>3, <1>4, <1>5, <1>6, SplitNext

\* Whatever is reserved and returned, the credit limit is kept.
LEMMA CreditNext ==
  ASSUME Parts, CreditLimitHolds, [Next]_vars
  PROVE  CreditLimitHolds'
  <1>1. balance \in Int /\ balance' \in Int /\ EstimatedCost \in Nat /\ CreditLimit \in Nat
    BY PartsNext, PriceIsOne, MoneyAssumption DEF Parts, TypeOK
  <1>2. CASE balance' >= balance
    <2> DEFINE a == balance
               b == balance'
               n == CreditLimit
    <2>1. a \in Int /\ b \in Int /\ n \in Int /\ b >= a /\ a + n >= 0
      BY <1>1, <1>2 DEF CreditLimitHolds
    <2> HIDE DEF a, b, n
    <2>2. b + n >= 0
      BY <2>1
    <2>3. QED
      BY <2>2 DEF CreditLimitHolds, a, b, n
  <1>3. CASE /\ CanReserve(balance, CreditLimit, EstimatedCost)
             /\ balance' = AfterReserve(balance, EstimatedCost)
    BY <1>1, <1>3 DEF CreditLimitHolds, CanReserve, AfterReserve
  <1>4. QED
    BY <1>2, <1>3, BalanceMoves

-----------------------------------------------------------------------------
(* Calls and their contacts.                                               *)

\* What a pass's step does to the calls: a new one nobody has heard of, or a
\* session for the one it is at.
LEMMA PassCalls ==
  ASSUME Parts, NEW p \in Passes, PassStep(p)
  PROVE  /\ KeepCalls /\ PassOnly(p) /\ UNCHANGED mode
         /\ \A j \in DOMAIN calls' : j \notin DOMAIN calls =>
              /\ calls'[j].session = "none" /\ calls'[j].hook = "none" /\ calls'[j].returns = 0
              /\ j = Len(calls) + 1 /\ Dial(p)
         /\ \A j \in DOMAIN calls :
              /\ calls'[j].hook = calls[j].hook
              /\ \/ calls'[j].session = calls[j].session
                 \/ Register(p) /\ j = Current(p)
              /\ \/ calls'[j].returns = calls[j].returns
                 \/ (ScriptSettle(p) \/ Refund(p)) /\ j = Current(p)
                    /\ calls'[j].returns = calls[j].returns + 1
         /\ history.overlap => history'.overlap
         /\ history'.retried = history.retried
         /\ \/ history'.writes = history.writes /\ history'.crashes = history.crashes
            \/ WriteFails(p) /\ history'.writes > 0
  <1> USE DEF Parts
  <1>1. CASE Dial(p)
    <2>1. /\ PassOnly(p) /\ UNCHANGED <<mode, history>>
          /\ \/ /\ DOMAIN calls' = DOMAIN calls \cup {Len(calls) + 1}
                /\ \A j \in DOMAIN calls : calls'[j] = calls[j]
                /\ calls'[Len(calls) + 1] = NewCall(CurContact(p))
             \/ UNCHANGED calls
      BY <1>1, DialEffect DEF AtRest
    <2>2. LET k == NewCall(CurContact(p)) IN
            k.session = "none" /\ k.hook = "none" /\ k.returns = 0
      BY DEF NewCall
    <2>3. QED
      BY <1>1, <2>1, <2>2 DEF KeepCalls
  <1>2. CASE CreateCall(p)
    BY <1>2, CreateCallEffect, CallOnlyKeeps DEF AtRest, CallOnly
  <1>3. CASE Register(p)
    BY <1>3, RegisterEffect, CallOnlyKeeps DEF AtRest, CallOnly
  <1>4. CASE ScriptCall(p)
    BY <1>4, ScriptCallEffect, CallOnlyKeeps DEF AtRest, CallOnly, KeepCalls
  <1>5. CASE ScriptSettle(p)
    BY <1>5, ScriptSettleEffect, CallOnlyKeeps DEF AtRest, CallOnly
  <1>6. CASE Refund(p)
    <2>1. PassOnly(p) /\ UNCHANGED <<mode, history>>
      BY <1>6, RefundEffect DEF AtRest
    <2>2. CASE UNCHANGED calls
      BY <2>1, <2>2 DEF KeepCalls
    <2>3. CASE /\ Current(p) \in DOMAIN calls /\ CallOnly(Current(p))
               /\ calls'[Current(p)].contact = calls[Current(p)].contact
               /\ calls'[Current(p)].session = calls[Current(p)].session
               /\ calls'[Current(p)].hook = calls[Current(p)].hook
               /\ calls'[Current(p)].returns = calls[Current(p)].returns + 1
      BY <1>6, <2>1, <2>3, CallOnlyKeeps DEF CallOnly
    <2>4. QED
      BY <1>6, <2>2, <2>3, RefundEffect
  <1>7. UNCHANGED calls =>
          /\ KeepCalls
          /\ \A j \in DOMAIN calls' : j \in DOMAIN calls
          /\ \A j \in DOMAIN calls : calls'[j].hook = calls[j].hook
                                     /\ calls'[j].session = calls[j].session
                                     /\ calls'[j].returns = calls[j].returns
    BY DEF KeepCalls
  <1>8. CASE StartPass(p)
    BY <1>7, <1>8, StartPassEffect
  <1>9. CASE OutsideWindow(p) \/ CheckCampaign(p) \/ Pause(p) \/ CountActive(p)
    BY <1>7, <1>9, CheckEffect, PauseEffect, CountEffect DEF AtRest
  <1>10. CASE FindPending(p) \/ NextContact(p) \/ CountRemaining(p) \/ Done(p)
    BY <1>7, <1>10, FindEffect, NextEffect, EndEffect DEF AtRest
  <1>11. CASE Mark(p) \/ ScriptMark(p) \/ FailMark(p)
    BY <1>7, <1>11, MarkEffect, FailMarkEffect DEF AtRest
  <1>12. CASE WriteFails(p)
    BY <1>7, <1>12, WriteFailsEffect
  <1>13. QED
    BY <1>1, <1>2, <1>3, <1>4, <1>5, <1>6, <1>8, <1>9, <1>10, <1>11, <1>12 DEF PassStep

\* What a pass's step does to the contacts: only its dispatch writes one.
LEMMA PassContacts ==
  ASSUME Parts, NEW p \in Passes, PassStep(p), ~Mark(p), ~ScriptMark(p), ~FailMark(p)
  PROVE  UNCHANGED contacts
  BY StartPassEffect, CheckEffect, PauseEffect, CountEffect, FindEffect, NextEffect,
     DialEffect, CreateCallEffect, RegisterEffect, ScriptCallEffect, ScriptSettleEffect,
     RefundEffect, EndEffect, WriteFailsEffect DEF PassStep, Parts

\* Which step leads a pass to the ones after a dial.
LEMMA PassMoves ==
  ASSUME Parts, NEW p \in Passes, PassStep(p)
  PROVE  /\ passes'[p].pc \in {"create", "script"} => Dial(p)
         /\ passes'[p].pc = "register" => CreateCall(p)
         /\ passes'[p].pc = "mark" => Register(p)
         /\ passes'[p].pc = "scriptSettle" => ScriptCall(p)
         /\ passes'[p].pc = "scriptMark" => ScriptSettle(p)
         /\ passes'[p].pc = "failMark" => Refund(p)
         /\ passes'[p].pc = "dial" => NextContact(p)
         /\ passes'[p].pc = "refund" => Dial(p) \/ ScriptCall(p) \/ WriteFails(p)
         /\ passes'[p].pc = "done" => CountRemaining(p) \/ Done(p)
  <1> USE DEF Parts
  <1>1. CASE StartPass(p)
    BY <1>1, StartPassEffect
  <1>2. CASE OutsideWindow(p) \/ CheckCampaign(p)
    BY <1>2, CheckEffect
  <1>3. CASE Pause(p)
    BY <1>3, PauseEffect
  <1>4. CASE CountActive(p)
    BY <1>4, CountEffect
  <1>5. CASE FindPending(p)
    BY <1>5, FindEffect
  <1>6. CASE NextContact(p)
    BY <1>6, NextEffect
  <1>7. CASE Dial(p)
    BY <1>7, DialEffect
  <1>8. CASE CreateCall(p)
    BY <1>8, CreateCallEffect
  <1>9. CASE Register(p)
    BY <1>9, RegisterEffect
  <1>10. CASE Mark(p) \/ ScriptMark(p)
    BY <1>10, MarkEffect
  <1>11. CASE ScriptCall(p)
    BY <1>11, ScriptCallEffect
  <1>12. CASE ScriptSettle(p)
    BY <1>12, ScriptSettleEffect
  <1>13. CASE Refund(p)
    BY <1>13, RefundEffect
  <1>14. CASE FailMark(p)
    BY <1>14, FailMarkEffect
  <1>15. CASE CountRemaining(p) \/ Done(p)
    BY <1>15, EndEffect
  <1>16. CASE WriteFails(p)
    BY <1>16, WriteFailsEffect
  <1>17. QED
    BY <1>1, <1>2, <1>3, <1>4, <1>5, <1>6, <1>7, <1>8, <1>9, <1>10, <1>11, <1>12, <1>13,
       <1>14, <1>15, <1>16 DEF PassStep

\* The call of a pass that has one is no other pass's.
LEMMA PassCallsDiffer ==
  ASSUME Parts, NEW p \in Passes, NEW q \in Passes, p # q,
         passes[q].pc \in CallSteps \/ passes[q].call # 0
  PROVE  Current(q) \in DOMAIN calls /\ Current(q) # Current(p) /\ Current(q) # 0
  BY DEF Parts, PassesFit, PassFits, Current

\* A call's row, session and hook fit after a pass's step.
LEMMA CallsFitPass ==
  ASSUME Parts, CallsFit, NEW p \in Passes, PassStep(p)
  PROVE  CallsFit'
  <1> USE DEF Parts
  <1>1. ASSUME NEW i \in DOMAIN calls' PROVE CallFits(i)'
    <2>1. UNCHANGED mode
      BY PassCalls
    <2>2. CASE i \notin DOMAIN calls
      <3>1. calls'[i].session = "none" /\ calls'[i].hook = "none"
        BY <1>1, <2>2, PassCalls
      <3>2. QED
        BY <3>1 DEF CallFits
    <2>3. CASE i \in DOMAIN calls /\ calls'[i].session = calls[i].session
      <3>1. calls'[i].hook = calls[i].hook /\ CallFits(i)
        BY <2>3, PassCalls DEF CallsFit
      <3>2. QED
        BY <2>1, <2>3, <3>1 DEF CallFits
    <2>4. CASE i \in DOMAIN calls /\ Register(p) /\ i = Current(p)
      <3>1. /\ passes[p].pc = "register" /\ calls'[i].hook = calls[i].hook
            /\ calls'[i].session = IF calls[i].session = "missed" THEN "stranded" ELSE "live"
        BY <2>4, RegisterEffect
      <3>2. calls[i].session \in {"none", "missed"} /\ CallFits(i)
        BY <2>4, <3>1 DEF CallsFit, DialFits
      <3>3. mode = "VOICE_AI"
        BY <3>1 DEF PassesFit, PassFits, VoiceSteps
      <3>4. QED
        BY <2>1, <3>1, <3>2, <3>3 DEF CallFits
    <2>5. QED
      BY <1>1, <2>2, <2>3, <2>4, PassCalls
  <1>2. ASSUME NEW c \in Contacts PROVE ContactFits(c)'
    <2>1. KeepCalls /\ ContactFits(c)
      BY PassCalls DEF CallsFit
    <2>2. CASE contacts'[c] = contacts[c]
      BY <2>1, <2>2 DEF ContactFits, KeepCalls
    <2>3. CASE Mark(p) \/ ScriptMark(p)
      <3>1. ContactOnly(CurContact(p)) /\ contacts'[CurContact(p)].call = Current(p) /\ Current(p) # 0
        BY <2>3, MarkEffect
      <3>2. Current(p) \in DOMAIN calls /\ calls[Current(p)].contact = CurContact(p)
        BY <3>1, CurrentParts DEF Current
      <3>3. QED
        BY <2>1, <2>2, <3>1, <3>2 DEF ContactOnly, ContactFits, KeepCalls
    <2>4. CASE FailMark(p)
      <3>1. /\ ContactOnly(CurContact(p)) /\ contacts'[CurContact(p)].status # "IN_PROGRESS"
            /\ contacts'[CurContact(p)].call \in {0, contacts[CurContact(p)].call}
        BY <2>4, FailMarkEffect
      <3>2. QED
        BY <2>1, <2>2, <3>1 DEF ContactOnly, ContactFits, KeepCalls
    <2>5. QED
      BY <2>2, <2>3, <2>4, PassContacts
  <1>3. ASSUME NEW q \in Passes PROVE DialFits(q)'
    <2>1. CASE q # p
      <3>1. passes'[q] = passes[q] /\ DialFits(q)
        BY <2>1, PassCalls DEF CallsFit, PassOnly
      <3>2. passes[q].pc \in CallSteps =>
              /\ Current(q) \in DOMAIN calls /\ calls'[Current(q)].session = calls[Current(q)].session
        BY <2>1, PassCalls, PassCallsDiffer
      <3>3. QED
        BY <3>1, <3>2 DEF DialFits, Current, CallSteps, VoiceSteps
    <2>2. CASE q = p /\ passes'[p].pc = "create"
      <3>1. Dial(p)
        BY <2>2, PassMoves
      <3>2. passes'[p].call = Len(calls) + 1 /\ calls'[Len(calls) + 1] = NewCall(CurContact(p))
        BY <2>2, <3>1, DialEffect
      <3>3. calls'[passes'[p].call].session = "none"
        BY <3>2 DEF NewCall
      <3>4. QED
        BY <2>2, <3>3 DEF DialFits, Current
    <2>3. CASE q = p /\ passes'[p].pc = "register"
      <3>1. CreateCall(p)
        BY <2>3, PassMoves
      <3>2. /\ passes[p].pc = "create" /\ passes'[p].call = passes[p].call
            /\ calls'[Current(p)].session = calls[Current(p)].session
        BY <3>1, CreateCallEffect DEF Holds
      <3>3. QED
        BY <2>3, <3>2 DEF CallsFit, DialFits, Current
    <2>4. CASE q = p /\ passes'[p].pc = "mark"
      <3>1. Register(p)
        BY <2>4, PassMoves
      <3>2. /\ passes'[p].call = passes[p].call
            /\ calls'[Current(p)].session \in {"live", "stranded"}
        BY <3>1, RegisterEffect DEF Holds
      <3>3. QED
        BY <2>4, <3>2 DEF DialFits, Current
    <2>5. CASE q = p /\ passes'[p].pc \notin {"create", "register", "mark"}
      BY <2>5 DEF DialFits
    <2>6. QED
      BY <2>1, <2>2, <2>3, <2>4, <2>5
  <1>4. QED
    BY <1>1, <1>2, <1>3 DEF CallsFit

\* What an event of a call does to its session and its hook.
LEMMA EventCalls ==
  ASSUME Parts, CallsFit, NEW i \in DOMAIN calls, CallEvent(i)
  PROVE  /\ \/ calls'[i].session = calls[i].session
            \/ EndUnregistered(i) /\ calls[i].session = "none" /\ calls'[i].session = "missed"
            \/ EndCall(i) /\ calls[i].session = "live" /\ calls'[i].session = "over"
         /\ CallFits(i)'
         /\ \/ calls'[i].returns = calls[i].returns
            \/ EndCall(i) /\ calls'[i].returns = calls[i].returns + 1
         /\ \/ UNCHANGED contacts
            \/ HookWrite(i)
         /\ \/ UNCHANGED history
            \/ HookFails(i)
  <1> USE DEF Parts
  <1>1. CallFits(i) /\ UNCHANGED mode
    BY EventKeeps DEF CallsFit
  <1>2. CASE EndUnregistered(i)
    BY <1>1, <1>2, EndUnregisteredEffect DEF CallFits
  <1>3. CASE EndCall(i)
    BY <1>1, <1>3, EndCallEffect DEF CallFits
  <1>4. CASE HookFind(i)
    BY <1>1, <1>4, HookFindEffect DEF CallFits, ContactStatus
  <1>5. CASE HookWrite(i)
    BY <1>1, <1>5, HookWriteEffect DEF CallFits, ContactStatus
  <1>6. CASE HookFails(i)
    BY <1>1, <1>6, HookFailsEffect DEF CallFits, ContactStatus
  <1>7. CASE ReconcileStale(i)
    BY <1>1, <1>7, ReconcileEffect DEF CallFits
  <1>8. QED
    BY <1>2, <1>3, <1>4, <1>5, <1>6, <1>7 DEF CallEvent

\* It fits after an event of a call.
LEMMA CallsFitEvent ==
  ASSUME Parts, CallsFit, NEW i \in DOMAIN calls, CallEvent(i)
  PROVE  CallsFit'
  <1> USE DEF Parts
  <1>1. /\ TypeOK' /\ CallOnly(i) /\ KeepCalls
        /\ UNCHANGED <<mode, passes>>
    BY EventKeeps
  <1>2. ASSUME NEW j \in DOMAIN calls' PROVE CallFits(j)'
    <2>1. CASE j = i
      BY <2>1, EventCalls
    <2>2. CASE j # i
      <3>1. j \in DOMAIN calls /\ calls'[j] = calls[j]
        BY <1>1, <1>2, <2>2 DEF CallOnly
      <3>2. CallFits(j)
        BY <3>1 DEF CallsFit
      <3>3. QED
        BY <1>1, <3>1, <3>2 DEF CallFits
    <2>3. QED
      BY <2>1, <2>2
  <1>3. ASSUME NEW c \in Contacts PROVE ContactFits(c)'
    <2>1. ContactFits(c)
      BY DEF CallsFit
    <2>2. CASE contacts'[c] = contacts[c]
      BY <1>1, <2>1, <2>2 DEF ContactFits, KeepCalls
    <2>3. CASE HookWrite(i) /\ c = calls[i].contact
      <3>1. contacts'[c].status # "IN_PROGRESS" /\ contacts'[c].call \in {0, contacts[c].call}
        BY <2>3, HookWriteEffect
      <3>2. QED
        BY <1>1, <2>1, <3>1 DEF ContactFits, KeepCalls
    <2>4. QED
      BY <2>2, <2>3, EventCalls, HookWriteEffect DEF ContactOnly
  <1>4. ASSUME NEW p \in Passes PROVE DialFits(p)'
    <2>1. DialFits(p) /\ passes'[p] = passes[p]
      BY <1>1 DEF CallsFit
    <2>2. passes[p].pc \in CallSteps => Current(p) \in DOMAIN calls
      BY CurrentParts DEF Current
    <2>3. CASE Current(p) # i
      BY <1>1, <2>1, <2>2, <2>3 DEF DialFits, Current, CallOnly, CallSteps, VoiceSteps
    <2>4. CASE Current(p) = i
      <3>1. \/ calls'[i].session = calls[i].session
            \/ calls[i].session = "none" /\ calls'[i].session = "missed"
            \/ calls[i].session = "live" /\ calls'[i].session = "over"
        BY EventCalls
      <3>2. QED
        BY <2>1, <2>4, <3>1 DEF DialFits, Current
    <2>5. QED
      BY <2>3, <2>4
  <1>5. QED
    BY <1>2, <1>3, <1>4 DEF CallsFit

Fit == Parts /\ CallsFit

\* Calls and contacts fit at every step.
LEMMA FitNext ==
  ASSUME Fit, [Next]_vars
  PROVE  Fit'
  <1> USE DEF Fit
  <1>1. Parts'
    BY PartsNext
  <1>2. CASE UNCHANGED vars
    BY <1>1, <1>2 DEF vars, CallsFit, CallFits, ContactFits, DialFits, Current
  <1>3. CASE \E p \in Passes : PassStep(p)
    BY <1>1, <1>3, CallsFitPass
  <1>4. CASE \E i \in DOMAIN calls : CallEvent(i)
    BY <1>1, <1>4, CallsFitEvent
  <1>5. CASE Others
    <2>1. UNCHANGED <<mode, calls, passes>>
      BY <1>5, OthersKeep DEF Parts
    <2>2. ASSUME NEW c \in Contacts
          PROVE  /\ contacts'[c].call = contacts[c].call
                 /\ contacts'[c].status = "IN_PROGRESS" => contacts[c].status = "IN_PROGRESS"
      BY <1>5, ContactEffect, RouteReadsEffect, RouteWritesEffect DEF Others, Parts
    <2>3. QED
      BY <1>1, <2>1, <2>2 DEF CallsFit, CallFits, ContactFits, DialFits, Current
  <1>6. CASE Crash
    <2>1. TypeOK /\ UNCHANGED <<mode, contacts>> /\ DOMAIN calls' = DOMAIN calls
      BY <1>6, CrashEffect DEF Parts
    <2>2. ASSUME NEW i \in DOMAIN calls PROVE CallFits(i)'
      BY <1>6, <2>1, CrashEffect DEF CallsFit, CallFits
    <2>3. ASSUME NEW c \in Contacts PROVE ContactFits(c)'
      BY <1>6, <2>1, CrashEffect DEF CallsFit, ContactFits
    <2>4. ASSUME NEW p \in Passes PROVE DialFits(p)'
      <3>1. passes'[p].pc = "idle"
        BY <1>6, <2>1, CrashEffect DEF IdlePass
      <3>2. QED
        BY <3>1 DEF DialFits
    <2>5. QED
      BY <1>1, <2>1, <2>2, <2>3, <2>4 DEF CallsFit
  <1>7. QED
    BY <1>2, <1>3, <1>4, <1>5, <1>6, SplitNext

-----------------------------------------------------------------------------
(* Reservations.                                                           *)

\* Without a failed write, a pass's step returns nothing twice.
LEMMA ReturnsFitPass ==
  ASSUME Fit, ReturnsFit, NEW p \in Passes, PassStep(p)
  PROVE  ReturnsFit'
  <1> USE DEF Fit, Parts
  <1> SUFFICES ASSUME history'.writes = 0
               PROVE  /\ \A i \in DOMAIN calls' : ReturnFits(i)'
                      /\ \A q \in Passes : RefundFits(q)'
    BY DEF ReturnsFit
  <1>1. /\ history.writes = 0 /\ ~WriteFails(p) /\ UNCHANGED mode
        /\ \A i \in DOMAIN calls : ReturnFits(i)
        /\ \A q \in Passes : RefundFits(q)
    BY PassCalls, WriteFailsEffect DEF ReturnsFit
  <1>2. ASSUME NEW i \in DOMAIN calls' PROVE ReturnFits(i)'
    <2>1. CASE i \notin DOMAIN calls
      <3>1. calls'[i].returns = 0
        BY <1>2, <2>1, PassCalls
      <3>2. QED
        BY <3>1 DEF ReturnFits
    <2>2. CASE i \in DOMAIN calls /\ calls'[i].returns = calls[i].returns
      <3>1. ReturnFits(i)
        BY <1>1, <2>2
      <3>2. CASE calls'[i].session = calls[i].session
        BY <1>1, <2>2, <3>1, <3>2 DEF ReturnFits
      <3>3. CASE Register(p) /\ i = Current(p)
        <4>1. calls[i].session # "over"
          BY <3>3, RegisterEffect DEF CallsFit, DialFits
        <4>2. QED
          BY <1>1, <2>2, <3>1, <4>1 DEF ReturnFits
      <3>4. QED
        BY <2>2, <3>2, <3>3, PassCalls
    <2>3. CASE ScriptSettle(p) /\ i = Current(p)
      <3>1. passes[p].pc = "scriptSettle" /\ calls'[i].returns = calls[i].returns + 1
        BY <2>3, ScriptSettleEffect
      <3>2. mode = "FIXED_SCRIPT"
        BY <3>1 DEF PassesFit, PassFits, ScriptSteps
      <3>3. calls'[i].returns = 1
        BY <1>1, <2>3, <3>1 DEF RefundFits
      <3>4. QED
        BY <1>1, <3>2, <3>3 DEF ReturnFits
    <2>4. CASE Refund(p) /\ i = Current(p) /\ i \in DOMAIN calls
      <3>1. i # 0 /\ passes[p].pc = "refund" /\ calls'[i].returns = calls[i].returns + 1
        BY <2>4, RefundEffect, CallParts
      <3>2. mode = "FIXED_SCRIPT" /\ calls'[i].returns = 1
        BY <1>1, <2>4, <3>1 DEF RefundFits
      <3>3. QED
        BY <1>1, <3>2 DEF ReturnFits
    <2>5. QED
      BY <2>1, <2>2, <2>3, <2>4, PassCalls
  <1>3. ASSUME NEW q \in Passes PROVE RefundFits(q)'
    <2>1. CASE q # p
      <3>1. passes'[q] = passes[q] /\ RefundFits(q)
        BY <1>1, <2>1, PassCalls DEF PassOnly
      <3>2. passes[q].pc \in CallSteps \/ passes[q].call # 0 =>
              /\ Current(q) \in DOMAIN calls /\ calls'[Current(q)].returns = calls[Current(q)].returns
        BY <2>1, PassCalls, PassCallsDiffer
      <3>3. QED
        BY <1>1, <3>1, <3>2 DEF RefundFits, Current, CallSteps, ScriptSteps
    <2>2. CASE q = p /\ passes'[p].pc = "script"
      <3>1. Dial(p)
        BY <2>2, PassMoves
      <3>2. passes'[p].call = Len(calls) + 1 /\ calls'[Len(calls) + 1] = NewCall(CurContact(p))
        BY <2>2, <3>1, DialEffect
      <3>3. calls'[passes'[p].call].returns = 0
        BY <3>2 DEF NewCall
      <3>4. QED
        BY <2>2, <3>3 DEF RefundFits, Current
    <2>3. CASE q = p /\ passes'[p].pc = "scriptSettle"
      <3>1. ScriptCall(p)
        BY <2>3, PassMoves
      <3>2. /\ passes[p].pc = "script" /\ passes'[p].call = passes[p].call
            /\ calls'[Current(p)].returns = calls[Current(p)].returns
        BY <3>1, ScriptCallEffect DEF Holds
      <3>3. QED
        BY <1>1, <2>3, <3>2 DEF RefundFits, Current
    <2>4. CASE q = p /\ passes'[p].pc = "refund"
      <3>1. CASE Dial(p)
        <4>1. passes[p].pc = "dial" /\ passes'[p].call = passes[p].call
          BY <2>4, <3>1, DialEffect
        <4>2. passes[p].call = 0
          BY <4>1 DEF PassesFit, PassFits, CallSteps, VoiceSteps, ScriptSteps
        <4>3. QED
          BY <2>4, <4>1, <4>2 DEF RefundFits, Current
      <3>2. CASE ScriptCall(p)
        <4>1. /\ passes[p].pc = "script" /\ passes'[p].call = passes[p].call
              /\ calls'[Current(p)].returns = calls[Current(p)].returns
          BY <3>2, ScriptCallEffect DEF Holds
        <4>2. mode = "FIXED_SCRIPT"
          BY <4>1 DEF PassesFit, PassFits, ScriptSteps
        <4>3. QED
          BY <1>1, <2>4, <4>1, <4>2 DEF RefundFits, Current
      <3>3. QED
        BY <1>1, <2>4, <3>1, <3>2, PassMoves
    <2>5. CASE q = p /\ passes'[p].pc \notin {"script", "scriptSettle", "refund"}
      BY <2>5 DEF RefundFits
    <2>6. QED
      BY <2>1, <2>2, <2>3, <2>4, <2>5
  <1>4. QED
    BY <1>2, <1>3

\* Nor does an event of a call.
LEMMA ReturnsFitEvent ==
  ASSUME Fit, ReturnsFit, NEW i \in DOMAIN calls, CallEvent(i)
  PROVE  ReturnsFit'
  <1> USE DEF Fit, Parts
  <1>1. /\ CallOnly(i) /\ UNCHANGED <<mode, passes>>
        /\ DOMAIN calls' = DOMAIN calls
    BY EventKeeps DEF CallOnly
  <1> SUFFICES ASSUME history'.writes = 0
               PROVE  /\ \A j \in DOMAIN calls : ReturnFits(j)'
                      /\ \A p \in Passes : RefundFits(p)'
    BY <1>1 DEF ReturnsFit
  <1>2. /\ history.writes = 0
        /\ \A j \in DOMAIN calls : ReturnFits(j)
        /\ \A p \in Passes : RefundFits(p)
    <2>1. UNCHANGED history
      BY EventCalls, HookFailsEffect
    <2>2. QED
      BY <2>1 DEF ReturnsFit
  <1>3. CASE EndCall(i)
    <2>1. calls[i].session = "live" /\ calls'[i].session = "over" /\ calls'[i].returns = calls[i].returns + 1
      BY <1>3, EndCallEffect
    <2>2. mode = "VOICE_AI"
      BY <2>1, DispatchAssumption DEF CallsFit, CallFits, TypeOK
    <2>3. calls'[i].returns = 1
      BY <1>2, <2>1, <2>2 DEF ReturnFits
    <2>4. ASSUME NEW j \in DOMAIN calls PROVE ReturnFits(j)'
      BY <1>1, <1>2, <2>1, <2>3 DEF ReturnFits, CallOnly
    <2>5. ASSUME NEW p \in Passes PROVE RefundFits(p)'
      BY <1>1, <1>2, <2>2 DEF RefundFits, Current, PassesFit, PassFits, ScriptSteps
    <2>6. QED
      BY <2>4, <2>5
  <1>4. CASE ~EndCall(i)
    <2>1. /\ calls'[i].returns = calls[i].returns
          /\ \/ calls'[i].session = calls[i].session
             \/ calls'[i].session = "missed" /\ calls[i].session = "none"
      <3>1. \/ calls'[i].returns = calls[i].returns
            \/ EndCall(i)
        BY EventCalls, Zenon
      <3>2. \/ calls'[i].session = calls[i].session
            \/ calls[i].session = "none" /\ calls'[i].session = "missed"
            \/ EndCall(i)
        BY EventCalls, Zenon
      <3>3. QED
        BY <1>4, <3>1, <3>2
    <2>2. ASSUME NEW j \in DOMAIN calls PROVE ReturnFits(j)'
      BY <1>1, <1>2, <2>1 DEF ReturnFits, CallOnly
    <2>3. ASSUME NEW p \in Passes PROVE RefundFits(p)'
      <3>1. Current(p) # 0 \/ passes[p].pc \in CallSteps => Current(p) \in DOMAIN calls
        BY CurrentParts DEF Current
      <3>2. Current(p) \in DOMAIN calls => calls'[Current(p)].returns = calls[Current(p)].returns
        BY <1>1, <2>1 DEF CallOnly
      <3>3. QED
        BY <1>1, <1>2, <3>1, <3>2 DEF RefundFits, Current, CallSteps, ScriptSteps
    <2>4. QED
      BY <2>2, <2>3
  <1>5. QED
    BY <1>3, <1>4

\* Reservations return once at every step.
LEMMA ReturnsNext ==
  ASSUME Fit, ReturnsFit, [Next]_vars
  PROVE  ReturnsFit'
  <1> USE DEF Fit, Parts
  <1>1. CASE UNCHANGED vars
    BY <1>1 DEF vars, ReturnsFit, ReturnFits, RefundFits, Current
  <1>2. CASE Others
    <2>1. UNCHANGED <<mode, calls, passes>>
      BY <1>2, OthersKeep
    <2>2. history'.writes = history.writes
      BY <1>2, ContactEffect, RouteReadsEffect, RouteWritesEffect DEF Others
    <2>3. QED
      BY <2>1, <2>2 DEF ReturnsFit, ReturnFits, RefundFits, Current
  <1>3. CASE Crash
    <2>1. /\ UNCHANGED mode /\ DOMAIN calls' = DOMAIN calls /\ history'.writes = history.writes
          /\ \A p \in Passes : passes'[p] = IdlePass
      BY <1>3, CrashEffect
    <2>2. \A p \in Passes : passes'[p].pc = "idle"
      BY <2>1 DEF IdlePass
    <2>3. \A i \in DOMAIN calls : calls'[i].returns = calls[i].returns
                                  /\ (calls[i].session = "over" => calls'[i].session = "over")
      BY <1>3, CrashEffect
    <2>4. QED
      BY <2>1, <2>2, <2>3 DEF ReturnsFit, ReturnFits, RefundFits
  <1>4. QED
    BY <1>1, <1>2, <1>3, ReturnsFitPass, ReturnsFitEvent, SplitNext

-----------------------------------------------------------------------------
(* Concurrency.                                                            *)

\* Pairs of an index and a member of its set: how many there are.
LEMMA PairsSplit ==
  ASSUME NEW P, IsFiniteSet(P), NEW p \in P, NEW f, \A q \in P : IsFiniteSet(f[q])
  PROVE  /\ IsFiniteSet(Pairs(P, f)) /\ IsFiniteSet(Pairs(P \ {p}, f))
         /\ Cardinality(Pairs(P, f)) = Cardinality(Pairs(P \ {p}, f)) + Cardinality(f[p])
  <1> DEFINE all == UNION {f[q] : q \in P}
             rest == Pairs(P \ {p}, f)
             mine == {p} \X f[p]
  <1>1. IsFiniteSet(all)
    <2> DEFINE g == [q \in P |-> f[q]]
               F == {f[q] : q \in P}
    <2>1. g \in Surjection(P, F)
      BY DEF Surjection
    <2>2. IsFiniteSet(F) /\ \A T \in F : IsFiniteSet(T)
      BY <2>1, FS_Surjection
    <2>3. QED
      BY <2>2, FS_UNION
  <1>2. IsFiniteSet(P \X all) /\ Pairs(P, f) \subseteq P \X all /\ rest \subseteq P \X all
    <2>1. Pairs(P, f) \subseteq P \X all /\ rest \subseteq P \X all
      BY DEF Pairs
    <2> HIDE DEF all, rest
    <2>2. IsFiniteSet(P \X all)
      BY <1>1, FS_Product, Zenon
    <2>3. QED
      BY <2>1, <2>2
  <1>3. IsFiniteSet(Pairs(P, f)) /\ IsFiniteSet(rest)
    BY <1>2, FS_Subset
  <1>4. IsFiniteSet(mine) /\ Cardinality(mine) = 1 * Cardinality(f[p])
    <2>1. IsFiniteSet({p}) /\ Cardinality({p}) = 1
      BY FS_Singleton
    <2>2. IsFiniteSet(mine) /\ Cardinality(mine) = Cardinality({p}) * Cardinality(f[p])
      BY <2>1, FS_Product, Zenon
    <2>3. QED
      BY <2>1, <2>2
  <1>5. Pairs(P, f) = rest \cup mine /\ rest \cap mine = {}
    BY DEF Pairs
  <1>6. Cardinality(rest \cup mine)
          = Cardinality(rest) + Cardinality(mine) - Cardinality(rest \cap mine)
    BY <1>3, <1>4, FS_Union
  <1>7. Cardinality(rest) \in Nat /\ Cardinality(f[p]) \in Nat /\ Cardinality({}) = 0
    BY <1>3, FS_CardinalityType, FS_EmptySet
  <1> HIDE DEF rest, mine
  <1>8. Cardinality(Pairs(P, f)) = Cardinality(rest) + Cardinality(mine) - Cardinality({})
    BY <1>5, <1>6
  <1>9. Cardinality(Pairs(P, f)) = Cardinality(rest) + Cardinality(f[p])
    BY <1>4, <1>7, <1>8
  <1>10. QED
    BY <1>3, <1>9 DEF rest

\* If no set has more than m members, there are at most m pairs for each index.
LEMMA PairsBound ==
  ASSUME NEW P, IsFiniteSet(P), NEW m \in Nat, NEW f,
         \A q \in P : IsFiniteSet(f[q]) /\ Cardinality(f[q]) <= m
  PROVE  Cardinality(Pairs(P, f)) <= m * Cardinality(P)
  <1> DEFINE inj(q) == CHOOSE g : g \in Injection(f[q], 1 .. m)
             h == [x \in Pairs(P, f) |-> <<x[1], inj(x[1])[x[2]]>>]
  <1>1. ASSUME NEW q \in P PROVE inj(q) \in Injection(f[q], 1 .. m)
    <2> DEFINE n == Cardinality(f[q])
    <2>1. n \in Nat /\ n <= m /\ ExistsBijection(1 .. n, f[q])
      BY FS_CardinalityType
    <2> HIDE DEF n
    <2>2. PICK b : b \in Bijection(1 .. n, f[q])
      BY <2>1 DEF ExistsBijection
    <2> DEFINE back == [y \in f[q] |-> CHOOSE i \in 1 .. n : b[i] = y]
    <2>3. \A y \in f[q] : back[y] \in 1 .. n /\ b[back[y]] = y
      BY <2>2 DEF Bijection, Surjection
    <2>4. 1 .. n \subseteq 1 .. m
      BY <2>1
    <2>5. \A y \in f[q] : back[y] \in 1 .. m
      BY <2>3, <2>4
    <2>6. back = [y \in f[q] |-> back[y]]
      OBVIOUS
    <2> HIDE DEF back
    <2>7. back \in [f[q] -> 1 .. m]
      BY <2>5, <2>6
    <2>8. back \in Injection(f[q], 1 .. m)
      BY <2>3, <2>7 DEF Injection, IsInjective
    <2>9. QED
      BY <2>8
  <1> HIDE DEF inj
  <1>2. \A x \in Pairs(P, f) : x = <<x[1], x[2]>> /\ x[1] \in P /\ x[2] \in f[x[1]]
    BY DEF Pairs
  <1>3. \A x \in Pairs(P, f) : inj(x[1])[x[2]] \in 1 .. m
    BY <1>1, <1>2 DEF Injection
  <1>4. h \in [Pairs(P, f) -> P \X (1 .. m)]
    <2>1. \A x \in Pairs(P, f) : <<x[1], inj(x[1])[x[2]]>> \in P \X (1 .. m)
      BY <1>2, <1>3
    <2>2. QED
      BY <2>1
  <1>5. ASSUME NEW x \in Pairs(P, f), NEW y \in Pairs(P, f), h[x] = h[y] PROVE x = y
    <2>1. x[1] = y[1] /\ inj(x[1])[x[2]] = inj(y[1])[y[2]]
      BY <1>5
    <2>2. x[2] = y[2]
      BY <1>1, <1>2, <2>1 DEF Injection, IsInjective
    <2>3. QED
      BY <1>2, <2>1, <2>2
  <1> HIDE DEF h
  <1>6. h \in Injection(Pairs(P, f), P \X (1 .. m))
    BY <1>4, <1>5 DEF Injection, IsInjective
  <1>7. /\ IsFiniteSet(P \X (1 .. m))
        /\ Cardinality(P \X (1 .. m)) = Cardinality(P) * Cardinality(1 .. m)
    <2>1. IsFiniteSet(1 .. m)
      <3>1. 1 \in Int /\ m \in Int
        OBVIOUS
      <3>2. QED
        BY <3>1, FS_Interval
    <2>2. QED
      BY <2>1, FS_Product, Zenon
  <1>8. Cardinality(1 .. m) = m /\ Cardinality(P) \in Nat
    BY FS_Interval, FS_CardinalityType
  <1>9. Cardinality(Pairs(P, f)) <= Cardinality(P) * m
    BY <1>6, <1>7, <1>8, FS_Injection
  <1>10. Cardinality(P) * m = m * Cardinality(P)
    BY <1>8
  <1>11. QED
    BY <1>9, <1>10

LEMMA ClaimsFinite ==
  ASSUME NEW s \in Pass, IsFiniteSet(s.todo)
  PROVE  IsFiniteSet(ClaimsIn(s)) /\ Cardinality(ClaimsIn(s)) \in Nat
  <1> DEFINE one == IF s.pc \in {"dial", "create"} THEN {s.cur} ELSE {}
             slots == 1 .. s.slots
  <1>1. IsFiniteSet(one)
    BY FS_Singleton, FS_EmptySet
  <1>2. IsFiniteSet(slots)
    <2>1. 1 \in Int /\ s.slots \in Int
      BY DEF Pass
    <2>2. QED
      BY <2>1, FS_Interval
  <1>3. ClaimsIn(s) = (s.todo \cup one) \cup slots
    BY DEF ClaimsIn
  <1> HIDE DEF one, slots
  <1>4. IsFiniteSet(s.todo \cup one)
    BY <1>1, FS_Union
  <1>5. IsFiniteSet((s.todo \cup one) \cup slots)
    BY <1>2, <1>4, FS_Union
  <1>6. QED
    BY <1>3, <1>5, FS_CardinalityType

\* When one pass moves, what the others may add stays what it was.
LEMMA LoadSplit ==
  ASSUME TypeOK, TypeOK', Overrun, NEW p \in Passes, PassOnly(p), IsFiniteSet(passes'[p].todo)
  PROVE  \E r \in Nat :
           /\ Cardinality(Pairs(Passes, ClaimsOf)) = r + Cardinality(Claims(p))
           /\ Cardinality(Pairs(Passes, ClaimsOf))' = r + Cardinality(Claims(p)')
           /\ r + MaxConcurrent <= MaxConcurrent * Cardinality(Passes)
  <1> DEFINE f == ClaimsOf
             g == ClaimsOf'
             others == Passes \ {p}
             r == Cardinality(Pairs(others, f))
  <1>1. IsFiniteSet(Passes) /\ MaxConcurrent \in Nat
    BY DispatchAssumption
  <1>2. ASSUME NEW q \in Passes
        PROVE  /\ f[q] = Claims(q) /\ g[q] = Claims(q)'
               /\ IsFiniteSet(f[q]) /\ Cardinality(f[q]) <= MaxConcurrent
               /\ IsFiniteSet(g[q])
               /\ q # p => g[q] = f[q]
    <2>1. f[q] = ClaimsIn(passes[q]) /\ g[q] = ClaimsIn(passes'[q]) /\ Claims(q) = ClaimsIn(passes[q])
          /\ Claims(q)' = ClaimsIn(passes'[q])
      BY DEF ClaimsOf, Claims
    <2>2. passes[q] \in Pass /\ passes'[q] \in Pass
      BY DEF TypeOK
    <2>3. IsFiniteSet(passes[q].todo) /\ Cardinality(Claims(q)) <= MaxConcurrent
      BY DEF Overrun, ClaimFits
    <2>4. IsFiniteSet(passes'[q].todo)
      BY <2>3 DEF PassOnly
    <2>5. IsFiniteSet(f[q]) /\ IsFiniteSet(g[q])
      BY <2>1, <2>2, <2>3, <2>4, ClaimsFinite
    <2>6. q # p => g[q] = f[q]
      BY <2>1 DEF PassOnly
    <2>7. QED
      BY <2>1, <2>3, <2>5, <2>6
  <1> HIDE DEF f, g
  <1>3. /\ Cardinality(Pairs(Passes, f)) = Cardinality(Pairs(others, f)) + Cardinality(f[p])
        /\ IsFiniteSet(Pairs(others, f))
    BY <1>1, <1>2, PairsSplit
  <1>4. Cardinality(Pairs(Passes, g)) = Cardinality(Pairs(others, g)) + Cardinality(g[p])
    BY <1>1, <1>2, PairsSplit
  <1>5. Pairs(others, g) = Pairs(others, f)
    <2>1. \A q \in others : {q} \X g[q] = {q} \X f[q]
      BY <1>2
    <2>2. QED
      BY <2>1 DEF Pairs
  <1>6. r \in Nat
    BY <1>3, FS_CardinalityType
  <1>7. IsFiniteSet(others) /\ Cardinality(others) = Cardinality(Passes) - 1
    BY <1>1, FS_RemoveElement
  <1>8. r <= MaxConcurrent * Cardinality(others)
    BY <1>1, <1>2, <1>7, PairsBound
  <1>9. r + MaxConcurrent <= MaxConcurrent * Cardinality(Passes)
    <2> DEFINE n == Cardinality(Passes)
    <2>1. n \in Nat
      BY <1>1, FS_CardinalityType
    <2>2. r <= MaxConcurrent * (n - 1)
      BY <1>7, <1>8
    <2> HIDE DEF n, r
    <2>3. MaxConcurrent * (n - 1) = MaxConcurrent * n - MaxConcurrent
      BY <1>1, <2>1
    <2>4. QED
      BY <1>1, <1>6, <2>1, <2>2, <2>3 DEF n
  <1>10. Pairs(Passes, ClaimsOf)' = Pairs(Passes, g)
    BY DEF Pairs, g
  <1>11. QED
    BY <1>2, <1>3, <1>4, <1>5, <1>6, <1>9, <1>10 DEF f

\* Fewer claims, and fewer active calls.
LEMMA ClaimsShrink ==
  ASSUME TypeOK, TypeOK', NEW p \in Passes, ClaimFits(p),
         passes'[p].todo \subseteq passes[p].todo
  PROVE  /\ IsFiniteSet(passes'[p].todo)
         /\ Cardinality(Claims(p)') \in Nat /\ Cardinality(Claims(p)) \in Nat
         /\ Claims(p)' \subseteq Claims(p) => Cardinality(Claims(p)') <= Cardinality(Claims(p))
  <1>1. passes[p] \in Pass /\ passes'[p] \in Pass
    BY DEF TypeOK
  <1>2. IsFiniteSet(passes[p].todo) /\ IsFiniteSet(passes'[p].todo)
    BY FS_Subset DEF ClaimFits
  <1>3. /\ IsFiniteSet(ClaimsIn(passes[p])) /\ Cardinality(ClaimsIn(passes[p])) \in Nat
        /\ Cardinality(ClaimsIn(passes'[p])) \in Nat
    BY <1>1, <1>2, ClaimsFinite
  <1>4. QED
    BY <1>2, <1>3, FS_Subset DEF Claims

LEMMA ActiveShrinks ==
  ASSUME TypeOK, TypeOK',
         \A j \in DOMAIN calls' : calls'[j].row \in ActiveStatus
           => j \in DOMAIN calls /\ calls[j].row \in ActiveStatus
  PROVE  /\ Cardinality(ActiveCalls') \in Nat /\ Cardinality(ActiveCalls) \in Nat
         /\ Cardinality(ActiveCalls') <= Cardinality(ActiveCalls)
  <1>1. ActiveCalls' \subseteq ActiveCalls
    BY DEF ActiveCalls
  <1>2. QED
    BY <1>1, ActiveFinite, FS_Subset, FS_CardinalityType

\* A pass that takes nothing new still fits.
LEMMA ShrinkFits ==
  ASSUME TypeOK, TypeOK', Overrun, NEW p \in Passes,
         passes'[p].todo \subseteq passes[p].todo,
         passes'[p].slots \in {0, passes[p].slots},
         passes'[p].pc \in {"dial", "create"}
           => passes'[p].cur \in Claims(p) /\ passes'[p].cur \notin passes'[p].todo,
         passes'[p].pc \notin {"next"} \cup CurSteps => passes'[p].todo = {},
         passes'[p].slots > 0 => passes'[p].pc \in {"find", "pause"}
  PROVE  /\ ClaimFits(p)'
         /\ Cardinality(Claims(p)') \in Nat /\ Cardinality(Claims(p)) \in Nat
         /\ Cardinality(Claims(p)') <= Cardinality(Claims(p))
  <1>1. ClaimFits(p) /\ MaxConcurrent \in Nat
    BY DispatchAssumption DEF Overrun
  <1>2. passes[p].todo \subseteq Claims(p)
    BY DEF Claims, ClaimsIn
  <1>3. 1 .. passes'[p].slots \subseteq Claims(p)
    <2>1. 1 .. passes[p].slots \subseteq Claims(p)
      BY DEF Claims, ClaimsIn
    <2>2. 1 .. 0 = {}
      OBVIOUS
    <2>3. QED
      BY <2>1, <2>2
  <1>4. Claims(p)' \subseteq Claims(p)
    <2>1. Claims(p)' = ClaimsIn(passes'[p])
      BY DEF Claims
    <2> HIDE DEF Claims
    <2>2. QED
      BY <1>2, <1>3, <2>1 DEF ClaimsIn
  <1>5. /\ IsFiniteSet(passes'[p].todo)
        /\ Cardinality(Claims(p)') \in Nat /\ Cardinality(Claims(p)) \in Nat
        /\ Cardinality(Claims(p)') <= Cardinality(Claims(p))
    BY <1>1, <1>4, ClaimsShrink
  <1>6. Cardinality(Claims(p)') <= MaxConcurrent
    BY <1>1, <1>5 DEF ClaimFits
  <1>7. QED
    BY <1>5, <1>6 DEF ClaimFits

\* What a pass claims and what is active grow by no more than the pass was given.
ClaimsMove(p) ==
  /\ ClaimFits(p)' /\ PassOnly(p) /\ TypeOK'
  /\ Cardinality(Claims(p)') \in Nat /\ Cardinality(Claims(p)) \in Nat
  /\ Cardinality(ActiveCalls') \in Nat /\ Cardinality(ActiveCalls) \in Nat
  /\ \/ Cardinality(Claims(p)') + Cardinality(ActiveCalls')
          <= Cardinality(Claims(p)) + Cardinality(ActiveCalls)
     \/ Cardinality(Claims(p)') + Cardinality(ActiveCalls') <= MaxConcurrent

LEMMA CountClaims ==
  ASSUME Fit, Overrun, NEW p \in Passes, CountActive(p)
  PROVE  ClaimsMove(p)
  <1> USE DEF Fit, Parts
  <1>1. /\ TypeOK' /\ PassOnly(p) /\ UNCHANGED calls /\ passes[p].pc = "count"
        /\ \/ passes'[p].pc = "idle" /\ Holds(p, IdlePass)
           \/ /\ passes'[p].pc = "find" /\ passes'[p].todo = passes[p].todo
              /\ Cardinality(ActiveCalls) + passes'[p].slots <= MaxConcurrent
    BY CountEffect
  <1>2. ClaimFits(p) /\ MaxConcurrent \in Nat
    BY DispatchAssumption DEF Overrun
  <1>3. passes[p].todo = {}
    BY <1>1, <1>2 DEF ClaimFits, CurSteps, CallSteps, VoiceSteps, ScriptSteps
  <1>4. ActiveCalls' = ActiveCalls /\ Cardinality(ActiveCalls) \in Nat
    BY <1>1, ActiveFinite DEF ActiveCalls
  <1>5. CASE passes'[p].pc = "idle" /\ Holds(p, IdlePass)
    <2>1. passes'[p].todo = {} /\ passes'[p].slots = 0
      BY <1>5 DEF Holds, IdlePass
    <2>2. /\ ClaimFits(p)' /\ Cardinality(Claims(p)') \in Nat /\ Cardinality(Claims(p)) \in Nat
          /\ Cardinality(Claims(p)') <= Cardinality(Claims(p))
      BY <1>1, <1>5, <2>1, ShrinkFits
    <2>3. QED
      BY <1>1, <1>4, <2>2 DEF ClaimsMove
  <1>6. CASE /\ passes'[p].pc = "find" /\ passes'[p].todo = passes[p].todo
             /\ Cardinality(ActiveCalls) + passes'[p].slots <= MaxConcurrent
    <2> DEFINE n == passes'[p].slots
    <2>1. n \in Nat
      BY <1>1 DEF TypeOK, Pass
    <2>2. Claims(p)' = 1 .. n
      BY <1>3, <1>6 DEF Claims, ClaimsIn
    <2>3. Cardinality(1 .. n) = n
      <3>1. 1 \in Int /\ n \in Int
        BY <2>1
      <3>2. QED
        BY <2>1, <3>1, FS_Interval
    <2>4. Cardinality(Claims(p)') = n
      BY <2>2, <2>3
    <2>5. IsFiniteSet({}) /\ passes'[p].todo = {}
      BY <1>3, <1>6, FS_EmptySet
    <2>6. Cardinality(Claims(p)) \in Nat
      BY <1>1, <1>2, <1>6, ClaimsShrink
    <2> HIDE DEF n
    <2>7. n <= MaxConcurrent /\ n + Cardinality(ActiveCalls) <= MaxConcurrent
      BY <1>2, <1>4, <1>6, <2>1 DEF n
    <2>8. ClaimFits(p)'
      BY <1>6, <2>4, <2>5, <2>7 DEF ClaimFits
    <2>9. QED
      BY <1>1, <1>4, <2>1, <2>4, <2>6, <2>7, <2>8 DEF ClaimsMove
  <1>7. QED
    BY <1>1, <1>5, <1>6

\* A snapshot holds no more than was taken.
LEMMA SnapshotSize ==
  ASSUME NEW S, IsFiniteSet(S)
  PROVE  IsFiniteSet(Snapshot(S)) /\ Cardinality(Snapshot(S)) <= Cardinality(S)
  <1> DEFINE f == [c \in S |-> [contact |-> c, attempts |-> contacts[c].attempts]]
  <1>1. f \in Surjection(S, Snapshot(S))
    BY DEF Surjection, Snapshot
  <1> HIDE DEF f
  <1>2. QED
    BY <1>1, FS_Surjection

LEMMA FindClaims ==
  ASSUME Fit, Overrun, NEW p \in Passes, FindPending(p)
  PROVE  ClaimsMove(p)
  <1> USE DEF Fit, Parts
  <1>1. /\ TypeOK' /\ PassOnly(p) /\ UNCHANGED calls /\ passes[p].pc = "find"
        /\ \/ /\ passes'[p].pc = "next" /\ passes'[p].slots = 0
              /\ \E S \in SUBSET Eligible : /\ passes'[p].todo = Snapshot(S)
                                            /\ Cardinality(S) <= passes[p].slots
           \/ passes'[p].pc = "pause" /\ Holds(p, passes[p])
    BY FindEffect
  <1>2. ClaimFits(p) /\ MaxConcurrent \in Nat
    BY DispatchAssumption DEF Overrun
  <1>3. passes[p].todo = {}
    BY <1>1, <1>2 DEF ClaimFits, CurSteps, CallSteps, VoiceSteps, ScriptSteps
  <1>4. ActiveCalls' = ActiveCalls /\ Cardinality(ActiveCalls) \in Nat
    BY <1>1, ActiveFinite DEF ActiveCalls
  <1>5. CASE passes'[p].pc = "pause" /\ Holds(p, passes[p])
    <2>1. /\ ClaimFits(p)' /\ Cardinality(Claims(p)') \in Nat /\ Cardinality(Claims(p)) \in Nat
          /\ Cardinality(Claims(p)') <= Cardinality(Claims(p))
      BY <1>1, <1>3, <1>5, ShrinkFits DEF Holds
    <2>2. QED
      BY <1>1, <1>4, <2>1 DEF ClaimsMove
  <1>6. CASE /\ passes'[p].pc = "next" /\ passes'[p].slots = 0
             /\ \E S \in SUBSET Eligible : /\ passes'[p].todo = Snapshot(S)
                                           /\ Cardinality(S) <= passes[p].slots
    <2>1. PICK S \in SUBSET Eligible : /\ passes'[p].todo = Snapshot(S)
                                       /\ Cardinality(S) <= passes[p].slots
      BY <1>6
    <2>2. IsFiniteSet(S)
      BY DispatchAssumption, FS_Subset DEF Eligible
    <2> DEFINE n == passes[p].slots
               T == Snapshot(S)
    <2>3. /\ IsFiniteSet(T) /\ Cardinality(T) <= Cardinality(S)
          /\ Cardinality(T) \in Nat /\ Cardinality(S) \in Nat
      BY <2>2, SnapshotSize, FS_CardinalityType
    <2>4. Claims(p) = 1 .. n /\ n \in Nat
      <3>1. Claims(p) = 1 .. n
        BY <1>1, <1>3 DEF Claims, ClaimsIn
      <3>2. QED
        BY <3>1, PassParts
    <2>5. Cardinality(1 .. n) = n
      <3>1. 1 \in Int /\ n \in Int
        BY <2>4
      <3>2. QED
        BY <2>4, <3>1, FS_Interval
    <2>6. Claims(p)' = T
      BY <1>6, <2>1 DEF Claims, ClaimsIn
    <2>7. Cardinality(Claims(p)) = n /\ Cardinality(S) <= n
      BY <2>1, <2>4, <2>5
    <2> HIDE DEF n, T
    <2>8. /\ Cardinality(Claims(p)') \in Nat /\ Cardinality(Claims(p)) \in Nat
          /\ Cardinality(Claims(p)') <= Cardinality(Claims(p))
      BY <2>3, <2>4, <2>6, <2>7
    <2>9. Cardinality(Claims(p)') <= MaxConcurrent
      BY <1>2, <2>8 DEF ClaimFits
    <2>10. ClaimFits(p)'
      <3>1. passes'[p].todo = T
        BY <2>1 DEF T
      <3>2. QED
        BY <1>6, <2>3, <2>9, <3>1 DEF ClaimFits
    <2>11. QED
      BY <1>1, <1>4, <2>8, <2>10 DEF ClaimsMove
  <1>7. QED
    BY <1>1, <1>5, <1>6

\* A call that gets its row was claimed.
LEMMA CreateClaims ==
  ASSUME Fit, Overrun, NEW p \in Passes, CreateCall(p)
  PROVE  ClaimsMove(p)
  <1> USE DEF Fit, Parts
  <1> DEFINE i == Current(p)
             x == passes[p].cur
  <1>1. /\ TypeOK' /\ PassOnly(p) /\ CallOnly(i) /\ i \in DOMAIN calls
        /\ passes[p].pc = "create" /\ passes'[p].pc = "register" /\ Holds(p, passes[p])
    BY CreateCallEffect
  <1>2. ClaimFits(p) /\ MaxConcurrent \in Nat
    BY DispatchAssumption DEF Overrun
  <1>3. passes[p].slots = 0 /\ x \notin passes[p].todo
    BY <1>1, <1>2, PassParts DEF ClaimFits
  <1>4. Claims(p) = passes[p].todo \cup {x} /\ Claims(p)' = passes[p].todo
    BY <1>1, <1>3 DEF Claims, ClaimsIn, Holds
  <1>5. /\ ClaimFits(p)' /\ Cardinality(Claims(p)') \in Nat /\ Cardinality(Claims(p)) \in Nat
    BY <1>1, <1>3, ShrinkFits DEF Holds, CurSteps, CallSteps, VoiceSteps
  <1>6. IsFiniteSet(passes[p].todo)
    BY <1>2 DEF ClaimFits
  <1>7. Cardinality(Claims(p)) = Cardinality(Claims(p)') + 1
    BY <1>3, <1>4, <1>6, FS_AddElement
  <1>8. ActiveCalls' \subseteq ActiveCalls \cup {i}
    BY <1>1 DEF ActiveCalls, CallOnly
  <1>9. /\ IsFiniteSet(ActiveCalls) /\ Cardinality(ActiveCalls) \in Nat
    BY ActiveFinite
  <1> HIDE DEF i, x
  <1>10. /\ IsFiniteSet(ActiveCalls \cup {i})
         /\ Cardinality(ActiveCalls \cup {i}) <= Cardinality(ActiveCalls) + 1
    BY <1>9, FS_AddElement
  <1>11. Cardinality(ActiveCalls') \in Nat /\ Cardinality(ActiveCalls \cup {i}) \in Nat
         /\ Cardinality(ActiveCalls') <= Cardinality(ActiveCalls \cup {i})
    BY <1>8, <1>10, FS_Subset, FS_CardinalityType
  <1>12. QED
    BY <1>1, <1>5, <1>7, <1>9, <1>10, <1>11 DEF ClaimsMove

\* No other step of a pass makes a call active.
LEMMA ActiveKept ==
  ASSUME Fit, NEW p \in Passes, PassStep(p), ~CreateCall(p)
  PROVE  \A j \in DOMAIN calls' : calls'[j].row \in ActiveStatus
           => j \in DOMAIN calls /\ calls[j].row \in ActiveStatus
  <1> USE DEF Fit, Parts
  <1>1. CASE Dial(p)
    <2>1. NewCall(CurContact(p)).row \notin ActiveStatus
      BY DEF NewCall, ActiveStatus
    <2>2. QED
      BY <1>1, <2>1, DialEffect
  <1>2. CASE Register(p)
    BY <1>2, RegisterEffect DEF CallOnly
  <1>3. CASE ScriptCall(p)
    BY <1>3, ScriptCallEffect DEF CallOnly, ActiveStatus
  <1>4. CASE ScriptSettle(p)
    BY <1>4, ScriptSettleEffect DEF CallOnly
  <1>5. CASE Refund(p)
    BY <1>5, RefundEffect DEF CallOnly
  <1>6. CASE ~Dial(p) /\ ~Register(p) /\ ~ScriptCall(p) /\ ~ScriptSettle(p) /\ ~Refund(p)
    <2>1. UNCHANGED calls
      BY <1>6, StartPassEffect, CheckEffect, PauseEffect, CountEffect, FindEffect,
         NextEffect, MarkEffect, FailMarkEffect, EndEffect, WriteFailsEffect DEF PassStep
    <2>2. QED
      BY <2>1
  <1>7. QED
    BY <1>1, <1>2, <1>3, <1>4, <1>5, <1>6

LEMMA OtherClaims ==
  ASSUME Fit, Overrun, NEW p \in Passes, PassStep(p),
         ~CountActive(p), ~FindPending(p), ~CreateCall(p)
  PROVE  ClaimsMove(p)
  <1> USE DEF Fit, Parts
  <1> USE DEF CurSteps, CallSteps, VoiceSteps, ScriptSteps
  <1>1. ClaimFits(p) /\ passes[p].slots \in Nat
    BY PassParts DEF Overrun
  <1>2. TypeOK' /\ PassOnly(p)
    BY PassesFitPass, PassCalls
  <1>3. /\ Cardinality(ActiveCalls') \in Nat /\ Cardinality(ActiveCalls) \in Nat
        /\ Cardinality(ActiveCalls') <= Cardinality(ActiveCalls)
    BY <1>2, ActiveKept, ActiveShrinks
  <1> DEFINE Shrinks ==
        /\ passes'[p].todo \subseteq passes[p].todo
        /\ passes'[p].slots \in {0, passes[p].slots}
        /\ passes'[p].pc \in {"dial", "create"}
             => passes'[p].cur \in Claims(p) /\ passes'[p].cur \notin passes'[p].todo
        /\ passes'[p].pc \notin {"next"} \cup CurSteps => passes'[p].todo = {}
        /\ passes'[p].slots > 0 => passes'[p].pc \in {"find", "pause"}
  <1>4. Shrinks
    <2>1. IdlePass.todo = {} /\ IdlePass.slots = 0
      BY DEF IdlePass
    <2>2. Holds(p, IdlePass) /\ passes'[p].pc \notin {"dial", "create"} => Shrinks
      BY <2>1 DEF Holds
    <2>3. CASE StartPass(p)
      BY <2>2, <2>3, StartPassEffect
    <2>4. CASE OutsideWindow(p) \/ CheckCampaign(p)
      <3>1. CASE passes'[p].pc = "idle" /\ Holds(p, IdlePass)
        BY <2>2, <3>1
      <3>2. CASE passes[p].pc = "line" /\ passes'[p].pc \in {"pause", "count"} /\ Holds(p, passes[p])
        BY <1>1, <3>2 DEF Holds, ClaimFits
      <3>3. QED
        BY <2>4, <3>1, <3>2, CheckEffect
    <2>5. CASE Pause(p)
      BY <2>2, <2>5, PauseEffect
    <2>6. CASE NextContact(p)
      <3>1. /\ passes[p].pc = "next" /\ passes'[p].slots = passes[p].slots
            /\ \/ /\ passes'[p].pc = "dial" /\ passes'[p].cur \in passes[p].todo
                  /\ passes'[p].todo = passes[p].todo \ {passes'[p].cur}
               \/ passes'[p].pc = "next" /\ passes'[p].todo \subseteq passes[p].todo
               \/ /\ passes'[p].pc = "remaining" /\ passes'[p].todo = passes[p].todo
                  /\ passes[p].todo = {}
        BY <2>6, NextEffect DEF Holds
      <3>2. passes[p].todo \subseteq Claims(p)
        BY DEF Claims, ClaimsIn
      <3>3. QED
        BY <1>1, <3>1, <3>2 DEF ClaimFits
    <2>7. CASE Dial(p)
      <3>1. /\ passes[p].pc = "dial" /\ passes'[p].slots = passes[p].slots
            /\ passes'[p].todo = passes[p].todo /\ passes'[p].cur = passes[p].cur
            /\ passes'[p].pc \in {"script", "create", "refund"}
        BY <2>7, DialEffect
      <3>2. passes[p].cur \in Claims(p)
        BY <3>1 DEF Claims, ClaimsIn
      <3>3. QED
        BY <1>1, <3>1, <3>2 DEF ClaimFits
    <2>8. ASSUME /\ passes[p].pc \in {"next"} \cup CurSteps
                  /\ passes'[p].pc \in {"next", "mark", "scriptSettle", "scriptMark", "refund",
                                        "failMark"}
                  /\ passes'[p].todo = passes[p].todo /\ passes'[p].slots = passes[p].slots
           PROVE  Shrinks
      BY <1>1, <2>8 DEF ClaimFits
    <2>9. CASE Register(p)
      BY <2>8, <2>9, RegisterEffect DEF Holds
    <2>10. CASE Mark(p) \/ ScriptMark(p)
      BY <2>8, <2>10, MarkEffect
    <2>11. CASE ScriptCall(p)
      BY <2>8, <2>11, ScriptCallEffect DEF Holds
    <2>12. CASE ScriptSettle(p)
      BY <2>8, <2>12, ScriptSettleEffect DEF Holds
    <2>13. CASE Refund(p)
      BY <2>8, <2>13, RefundEffect DEF Holds
    <2>14. CASE FailMark(p)
      BY <2>8, <2>14, FailMarkEffect
    <2>15. CASE CountRemaining(p) \/ Done(p)
      <3>1. CASE passes'[p].pc = "idle" /\ Holds(p, IdlePass)
        BY <2>2, <3>1
      <3>2. CASE passes[p].pc = "remaining" /\ passes'[p].pc = "done" /\ Holds(p, passes[p])
        BY <1>1, <3>2 DEF Holds, ClaimFits
      <3>3. QED
        BY <2>15, <3>1, <3>2, EndEffect
    <2>16. CASE WriteFails(p)
      <3>1. CASE passes'[p].pc = "idle" /\ Holds(p, IdlePass)
        BY <2>2, <3>1
      <3>2. CASE /\ passes[p].pc \in CurSteps /\ passes'[p].pc = "refund" /\ Holds(p, passes[p])
        BY <2>8, <3>2 DEF Holds
      <3>3. QED
        BY <2>16, <3>1, <3>2, WriteFailsEffect
    <2>17. QED
      BY <2>3, <2>4, <2>5, <2>6, <2>7, <2>9, <2>10, <2>11, <2>12, <2>13, <2>14, <2>15, <2>16
         DEF PassStep
  <1>5. /\ ClaimFits(p)' /\ Cardinality(Claims(p)') \in Nat /\ Cardinality(Claims(p)) \in Nat
         /\ Cardinality(Claims(p)') <= Cardinality(Claims(p))
    BY <1>2, <1>4, ShrinkFits
  <1>6. QED
    BY <1>2, <1>3, <1>5 DEF ClaimsMove

\* What passes may still make is finite.
LEMMA LoadFinite ==
  ASSUME TypeOK, Overrun
  PROVE  /\ IsFiniteSet(Pairs(Passes, ClaimsOf))
         /\ Cardinality(Pairs(Passes, ClaimsOf)) \in Nat
         /\ MaxConcurrent * Cardinality(Passes) \in Nat
  <1>1. \A q \in Passes : ClaimsOf[q] = ClaimsIn(passes[q]) /\ passes[q] \in Pass
                          /\ IsFiniteSet(passes[q].todo)
    BY DEF Overrun, ClaimFits, Claims, ClaimsOf, TypeOK
  <1>2. \A q \in Passes : IsFiniteSet(ClaimsOf[q])
    BY <1>1, ClaimsFinite
  <1>3. IsFiniteSet(Passes) /\ Cardinality(Passes) \in Nat /\ MaxConcurrent \in Nat
    BY DispatchAssumption, FS_CardinalityType
  <1>4. IsFiniteSet(Pairs(Passes, ClaimsOf))
    <2>1. CASE Passes = {}
      <3>1. Pairs(Passes, ClaimsOf) = {}
        BY <2>1 DEF Pairs
      <3>2. QED
        BY <3>1, FS_EmptySet
    <2>2. CASE Passes # {}
      BY <1>2, <1>3, <2>2, PairsSplit
    <2>3. QED
      BY <2>1, <2>2
  <1>5. QED
    BY <1>3, <1>4, FS_CardinalityType

\* The calls that are active and those the passes may still make stay within what
\* the passes were given.
LEMMA OverrunNext ==
  ASSUME Fit, Overrun, [Next]_vars
  PROVE  Overrun'
  <1> USE DEF Fit, Parts
  <1>1. TypeOK' /\ MaxConcurrent \in Nat
    BY PartsNext, DispatchAssumption
  <1>2. ASSUME NEW p \in Passes, PassStep(p) PROVE Overrun'
    <2>1. ClaimsMove(p)
      BY <1>2, CountClaims, FindClaims, CreateClaims, OtherClaims
    <2>2. IsFiniteSet(passes'[p].todo)
      BY <2>1 DEF ClaimsMove, ClaimFits
    <2>3. PICK r \in Nat :
           /\ Cardinality(Pairs(Passes, ClaimsOf)) = r + Cardinality(Claims(p))
           /\ Cardinality(Pairs(Passes, ClaimsOf))' = r + Cardinality(Claims(p)')
           /\ r + MaxConcurrent <= MaxConcurrent * Cardinality(Passes)
      BY <1>1, <2>1, <2>2, LoadSplit DEF ClaimsMove
    <2> DEFINE a == Cardinality(ActiveCalls)
               a1 == Cardinality(ActiveCalls')
               c == Cardinality(Claims(p))
               c1 == Cardinality(Claims(p)')
               most == MaxConcurrent * Cardinality(Passes)
    <2>4. /\ a \in Nat /\ a1 \in Nat /\ c \in Nat /\ c1 \in Nat
          /\ c1 + a1 <= c + a \/ c1 + a1 <= MaxConcurrent
      BY <2>1 DEF ClaimsMove
    <2>5. a + (r + c) <= most /\ r + MaxConcurrent <= most /\ most \in Nat
      <3>1. a + Cardinality(Pairs(Passes, ClaimsOf)) <= most
        BY DEF Overrun
      <3>2. Cardinality(Passes) \in Nat
        BY DispatchAssumption, FS_CardinalityType
      <3>3. QED
        BY <1>1, <2>3, <3>1, <3>2
    <2> HIDE DEF a, a1, c, c1, most
    <2>6. a1 + (r + c1) <= most
      BY <1>1, <2>4, <2>5
    <2>7. (Cardinality(ActiveCalls) + Cardinality(Pairs(Passes, ClaimsOf))
             <= MaxConcurrent * Cardinality(Passes))'
      BY <2>3, <2>6 DEF a1, c1, most
    <2>8. ASSUME NEW q \in Passes PROVE ClaimFits(q)'
      <3>1. CASE q = p
        BY <2>1, <3>1 DEF ClaimsMove
      <3>2. CASE q # p
        <4>1. passes'[q] = passes[q] /\ ClaimFits(q)
          BY <2>1, <3>2 DEF ClaimsMove, PassOnly, Overrun
        <4>2. QED
          BY <4>1 DEF ClaimFits, Claims
      <3>3. QED
        BY <3>1, <3>2
    <2>9. QED
      BY <2>7, <2>8 DEF Overrun
  <1>3. ASSUME UNCHANGED passes,
               \A j \in DOMAIN calls' : calls'[j].row \in ActiveStatus
                 => j \in DOMAIN calls /\ calls[j].row \in ActiveStatus
        PROVE  Overrun'
    <2>1. /\ Cardinality(ActiveCalls') \in Nat /\ Cardinality(ActiveCalls) \in Nat
          /\ Cardinality(ActiveCalls') <= Cardinality(ActiveCalls)
      BY <1>1, <1>3, ActiveShrinks
    <2>2. ClaimsOf' = ClaimsOf /\ \A p \in Passes : ClaimFits(p)'
      BY <1>3 DEF Overrun, ClaimFits, Claims, ClaimsOf
    <2> DEFINE n == Cardinality(Pairs(Passes, ClaimsOf))
               most == MaxConcurrent * Cardinality(Passes)
    <2>3. n \in Nat /\ most \in Nat /\ Cardinality(ActiveCalls) + n <= most
      BY LoadFinite DEF Overrun
    <2>4. n' = n
      BY <2>2 DEF Pairs
    <2>5. Cardinality(ActiveCalls') + n' <= most
      <3> HIDE DEF n, most
      <3>1. QED
        BY <2>1, <2>3, <2>4
    <2>6. QED
      BY <2>2, <2>5 DEF Overrun
  <1>4. CASE UNCHANGED vars
    BY <1>3, <1>4 DEF vars
  <1>5. CASE \E i \in DOMAIN calls : CallEvent(i)
    <2>1. PICK i \in DOMAIN calls : CallEvent(i)
      BY <1>5
    <2>2. UNCHANGED passes /\ CallOnly(i)
      BY <2>1, EventKeeps
    <2>3. calls'[i].row \in ActiveStatus => calls[i].row \in ActiveStatus
      BY <2>1, EndUnregisteredEffect, EndCallEffect, HookFindEffect, HookWriteEffect,
         HookFailsEffect, ReconcileEffect DEF CallEvent
    <2>4. QED
      BY <1>3, <2>2, <2>3 DEF CallOnly
  <1>6. CASE Others
    BY <1>3, <1>6, OthersKeep
  <1>7. CASE Crash
    <2>1. \A p \in Passes : passes'[p] = IdlePass
      BY <1>7, CrashEffect
    <2>2. \A j \in DOMAIN calls' : calls'[j].row \in ActiveStatus
                 => j \in DOMAIN calls /\ calls[j].row \in ActiveStatus
      BY <1>7, CrashEffect
    <2>3. /\ Cardinality(ActiveCalls') \in Nat /\ Cardinality(ActiveCalls) \in Nat
          /\ Cardinality(ActiveCalls') <= Cardinality(ActiveCalls)
      BY <1>1, <2>2, ActiveShrinks
    <2>4. ClaimsIn(IdlePass) = {}
      BY DEF ClaimsIn, IdlePass
    <2>5. \A p \in Passes : Claims(p)' = {}
      BY <2>1, <2>4 DEF Claims
    <2>6. Pairs(Passes, ClaimsOf)' = {}
      BY <2>5 DEF Pairs, ClaimsOf
    <2>7. Cardinality({}) = 0 /\ IsFiniteSet({})
      BY FS_EmptySet
    <2>8. ASSUME NEW p \in Passes PROVE ClaimFits(p)'
      <3>1. passes'[p].todo = {} /\ passes'[p].pc = "idle" /\ passes'[p].slots = 0
        BY <2>1 DEF IdlePass
      <3>2. Cardinality(Claims(p)') = 0
        BY <2>5, <2>7
      <3>3. QED
        BY <1>1, <2>7, <3>1, <3>2 DEF ClaimFits
    <2>9. Cardinality(ActiveCalls') <= MaxConcurrent * Cardinality(Passes)
      <3> DEFINE a == Cardinality(ActiveCalls)
                 n == Cardinality(Pairs(Passes, ClaimsOf))
                 most == MaxConcurrent * Cardinality(Passes)
      <3>1. a + n <= most
        BY DEF Overrun
      <3>2. n \in Nat /\ most \in Nat
        BY LoadFinite
      <3> HIDE DEF n, most
      <3>3. Cardinality(ActiveCalls') <= most
        BY <2>3, <3>1, <3>2
      <3>4. QED
        BY <3>3 DEF most
    <2>10. Cardinality(Pairs(Passes, ClaimsOf))' = 0
      BY <2>6, <2>7
    <2>11. QED
      BY <2>3, <2>8, <2>9, <2>10 DEF Overrun
  <1>8. QED
    BY <1>2, <1>4, <1>5, <1>6, <1>7, SplitNext

-----------------------------------------------------------------------------
(* Waiting for a call.                                                     *)

\* What a dispatch writes to its contact, whichever step it is.
LEMMA MarkContacts ==
  ASSUME Fit, NEW p \in Passes, PassStep(p)
  PROVE  /\ \A c \in Contacts : contacts'[c] # contacts[c] => c = CurContact(p)
         /\ \/ UNCHANGED contacts
            \/ /\ Mark(p) /\ passes[p].pc = "mark" /\ CurContact(p) \in Contacts
               /\ contacts'[CurContact(p)].call = Current(p)
               /\ contacts'[CurContact(p)].status = "IN_PROGRESS"
            \/ /\ ScriptMark(p) /\ passes[p].pc = "scriptMark" /\ CurContact(p) \in Contacts
               /\ contacts'[CurContact(p)].status = "COMPLETED"
               /\ contacts'[CurContact(p)].call = Current(p)
            \/ /\ FailMark(p) /\ passes[p].pc = "failMark" /\ CurContact(p) \in Contacts
               /\ \/ /\ contacts'[CurContact(p)].status = "PENDING"
                     /\ contacts'[CurContact(p)].call = 0
                  \/ /\ contacts'[CurContact(p)].status = "FAILED"
                     /\ contacts'[CurContact(p)].call = contacts[CurContact(p)].call
  <1> USE DEF Fit, Parts
  <1>1. CASE Mark(p)
    <2>1. passes[p].pc = "mark"
      BY <1>1 DEF Mark, At
    <2>2. QED
      BY <1>1, <2>1, MarkEffect DEF ContactOnly
  <1>2. CASE ScriptMark(p)
    <2>1. passes[p].pc = "scriptMark"
      BY <1>2 DEF ScriptMark, At
    <2>2. QED
      BY <1>2, <2>1, MarkEffect DEF ContactOnly
  <1>3. CASE FailMark(p)
    BY <1>3, FailMarkEffect DEF ContactOnly
  <1>4. CASE ~Mark(p) /\ ~ScriptMark(p) /\ ~FailMark(p)
    BY <1>4, PassContacts
  <1>5. QED
    BY <1>1, <1>2, <1>3, <1>4

LEMMA WaitingPass ==
  ASSUME Fit, Waiting, NEW p \in Passes, PassStep(p)
  PROVE  Waiting'
  <1> USE DEF Fit, Parts
  <1> SUFFICES ASSUME history'.writes = 0, history'.crashes = 0
               PROVE  /\ \A q \in Passes : MarkAwaits(q)'
                      /\ \A c \in Contacts : ContactAwaits(c)'
    BY DEF Waiting
  <1>1. /\ history.writes = 0 /\ history.crashes = 0
        /\ \A q \in Passes : MarkAwaits(q)
        /\ \A c \in Contacts : ContactAwaits(c)
    BY PassCalls DEF Waiting
  <1>2. PassOnly(p) /\ KeepCalls
    BY PassCalls
  <1>3. ASSUME NEW q \in Passes PROVE MarkAwaits(q)'
    <2>1. CASE q # p
      <3>1. passes'[q] = passes[q] /\ MarkAwaits(q)
        BY <1>1, <1>2, <2>1 DEF PassOnly
      <3>2. CASE passes[q].pc \in VoiceSteps
        <4>1. Current(q) \in DOMAIN calls /\ Current(q) # Current(p) /\ Current(q) # 0
          BY <2>1, <3>2, PassCallsDiffer DEF CallSteps
        <4>2. calls'[Current(q)].hook = calls[Current(q)].hook
          BY <4>1, PassCalls
        <4>3. \A c \in Contacts : contacts'[c].call # Current(q)
          BY <3>1, <3>2, <4>1, MarkContacts DEF MarkAwaits
        <4>4. QED
          BY <3>1, <3>2, <4>2, <4>3 DEF MarkAwaits, Current
      <3>3. CASE passes[q].pc \notin VoiceSteps
        BY <3>1, <3>3 DEF MarkAwaits
      <3>4. QED
        BY <3>2, <3>3
    <2>2. CASE q = p /\ passes'[p].pc = "create"
      <3>1. Dial(p)
        BY <2>2, PassMoves
      <3>2. /\ UNCHANGED contacts
            /\ passes'[p].call = Len(calls) + 1 /\ calls'[Len(calls) + 1] = NewCall(CurContact(p))
        BY <2>2, <3>1, DialEffect
      <3>3. calls'[passes'[p].call].hook = "none"
        BY <3>2 DEF NewCall
      <3>4. ASSUME NEW c \in Contacts PROVE contacts'[c].call # passes'[p].call
        <4>1. contacts[c].call # 0 => contacts[c].call \in DOMAIN calls
          BY DEF CallsFit, ContactFits
        <4>2. Len(calls) \in Nat /\ (contacts[c].call # 0 => contacts[c].call <= Len(calls))
          BY <4>1, CallParts
        <4>3. contacts[c].call \in Nat
          BY DEF TypeOK, Contact
        <4>4. QED
          BY <3>2, <4>2, <4>3
      <3>5. QED
        BY <2>2, <3>3, <3>4 DEF MarkAwaits, Current
    <2>3. CASE q = p /\ passes'[p].pc \in {"register", "mark"}
      <3>1. CreateCall(p) \/ Register(p)
        BY <2>3, PassMoves
      <3>2. /\ UNCHANGED contacts /\ passes[p].pc \in VoiceSteps
            /\ passes'[p].call = passes[p].call
            /\ calls'[Current(p)].hook = calls[Current(p)].hook
        BY <3>1, CreateCallEffect, RegisterEffect DEF Holds, VoiceSteps
      <3>3. QED
        BY <1>1, <2>3, <3>2 DEF MarkAwaits, Current
    <2>4. CASE q = p /\ passes'[p].pc \notin VoiceSteps
      BY <2>4 DEF MarkAwaits
    <2>5. QED
      BY <2>1, <2>2, <2>3, <2>4 DEF VoiceSteps
  <1>4. ASSUME NEW c \in Contacts PROVE ContactAwaits(c)'
    <2> SUFFICES ASSUME contacts'[c].status = "IN_PROGRESS"
                 PROVE  /\ calls'[contacts'[c].call].session \in {"live", "over", "stranded"}
                        /\ calls'[contacts'[c].call].hook # "done"
      BY DEF ContactAwaits
    <2>1. CASE contacts'[c] = contacts[c]
      <3> DEFINE i == contacts[c].call
      <3>1. /\ i \in DOMAIN calls /\ calls[i].session \in {"live", "over", "stranded"}
            /\ calls[i].hook # "done"
        BY <1>1, <2>1 DEF ContactAwaits, CallsFit, ContactFits
      <3>2. calls'[i].hook = calls[i].hook
        BY <3>1, PassCalls
      <3>3. calls'[i].session = calls[i].session
        <4>1. CASE Register(p) /\ i = Current(p)
          <5>1. calls[Current(p)].session \in {"none", "missed"}
            BY <4>1, RegisterEffect DEF CallsFit, DialFits
          <5>2. QED
            BY <3>1, <4>1, <5>1
        <4>2. QED
          BY <3>1, <4>1, PassCalls
      <3>4. QED
        BY <2>1, <3>1, <3>2, <3>3
    <2>2. CASE contacts'[c] # contacts[c]
      <3>1. /\ c = CurContact(p) /\ passes[p].pc = "mark" /\ contacts'[c].call = Current(p)
            /\ Mark(p)
        BY <2>2, MarkContacts
      <3>2. UNCHANGED calls
        BY <3>1, MarkEffect
      <3>3. /\ calls[Current(p)].session \in {"live", "over", "stranded"}
            /\ calls[Current(p)].hook \in {"none", "find", "unmatched"}
        BY <1>1, <3>1 DEF CallsFit, DialFits, MarkAwaits, VoiceSteps
      <3>4. QED
        BY <3>1, <3>2, <3>3
    <2>3. QED
      BY <2>1, <2>2
  <1>5. QED
    BY <1>3, <1>4

LEMMA WaitingEvent ==
  ASSUME Fit, Waiting, NEW i \in DOMAIN calls, CallEvent(i)
  PROVE  Waiting'
  <1> USE DEF Fit, Parts
  <1> SUFFICES ASSUME history'.writes = 0, history'.crashes = 0
               PROVE  /\ \A q \in Passes : MarkAwaits(q)'
                      /\ \A c \in Contacts : ContactAwaits(c)'
    BY DEF Waiting
  <1>1. /\ ~HookFails(i) /\ UNCHANGED history
    BY EventCalls, HookFailsEffect
  <1>2. /\ \A q \in Passes : MarkAwaits(q)
        /\ \A c \in Contacts : ContactAwaits(c)
    BY <1>1 DEF Waiting
  <1>3. CallOnly(i) /\ UNCHANGED passes
    BY EventKeeps
  <1>4. \A c \in Contacts : contacts'[c].call \in {0, contacts[c].call}
                            /\ (contacts'[c].status = "IN_PROGRESS" => contacts'[c] = contacts[c])
    <2>1. CASE HookWrite(i)
      BY <2>1, HookWriteEffect DEF ContactOnly
    <2>2. QED
      BY <2>1, EventCalls
  <1>5. ASSUME NEW p \in Passes PROVE MarkAwaits(p)'
    <2> SUFFICES ASSUME passes[p].pc \in VoiceSteps
                 PROVE  /\ \A c \in Contacts : contacts'[c].call # Current(p)
                        /\ calls'[Current(p)].hook \in {"none", "find", "unmatched"}
      BY <1>3 DEF MarkAwaits, Current
    <2>1. /\ \A c \in Contacts : contacts[c].call # Current(p)
          /\ calls[Current(p)].hook \in {"none", "find", "unmatched"}
          /\ Current(p) \in DOMAIN calls /\ Current(p) # 0
      BY <1>2, CurrentParts DEF MarkAwaits, CallSteps, Current
    <2>2. CASE Current(p) # i
      BY <1>3, <1>4, <2>1, <2>2 DEF CallOnly
    <2>3. CASE Current(p) = i
      <3>1. calls[i].hook \notin ContactStatus /\ calls[i].hook # "done"
        BY <2>1, <2>3 DEF ContactStatus
      <3>2. calls'[i].hook = calls[i].hook \/ calls'[i].hook \in {"find", "unmatched"}
        BY <1>1, <2>1, <2>3, <3>1, EndUnregisteredEffect, EndCallEffect, HookFindEffect,
           HookWriteEffect, ReconcileEffect DEF CallEvent
      <3>3. QED
        BY <1>4, <2>1, <2>3, <3>2
    <2>4. QED
      BY <2>2, <2>3
  <1>6. ASSUME NEW c \in Contacts PROVE ContactAwaits(c)'
    <2> SUFFICES ASSUME contacts'[c].status = "IN_PROGRESS"
                 PROVE  /\ calls'[contacts'[c].call].session \in {"live", "over", "stranded"}
                        /\ calls'[contacts'[c].call].hook # "done"
      BY DEF ContactAwaits
    <2> DEFINE j == contacts[c].call
    <2>1. /\ contacts'[c] = contacts[c]
          /\ j \in DOMAIN calls /\ calls[j].session \in {"live", "over", "stranded"}
          /\ calls[j].hook # "done" /\ calls[j].contact = c
      BY <1>2, <1>4 DEF ContactAwaits, CallsFit, ContactFits
    <2>2. CASE j # i
      BY <1>3, <2>1, <2>2 DEF CallOnly
    <2>3. CASE j = i
      <3>1. calls'[i].session \in {"live", "over", "stranded"}
        BY <2>1, <2>3, EventCalls
      <3>2. ~HookWrite(i)
        <4>1. HookWrite(i) => contacts'[c].status # "IN_PROGRESS"
          BY <2>1, <2>3, HookWriteEffect
        <4>2. QED
          BY <4>1
      <3>3. calls'[i].hook # "done"
        BY <1>1, <2>1, <2>3, <3>2, EndUnregisteredEffect, EndCallEffect, HookFindEffect,
           ReconcileEffect DEF CallEvent, ContactStatus
      <3>4. QED
        BY <2>1, <2>3, <3>1, <3>3
    <2>4. QED
      BY <2>2, <2>3
  <1>7. QED
    BY <1>5, <1>6

\* What contacts and routes do leaves a contact's call, and puts none in progress.
LEMMA OthersContacts ==
  ASSUME TypeOK, Others
  PROVE  /\ \A c \in Contacts :
              /\ contacts'[c].call = contacts[c].call
              /\ \/ contacts'[c].status = contacts[c].status
                 \/ contacts[c].status = "PENDING" /\ contacts'[c].status = "FAILED"
                 \/ history'.retried /\ contacts'[c].status = "PENDING"
         /\ history'.overlap = history.overlap /\ (history.retried => history'.retried)
         /\ history'.writes = history.writes /\ history'.crashes = history.crashes
         /\ campaign' = "DONE" => campaign = "DONE"
  BY ContactEffect, RouteReadsEffect, RouteWritesEffect DEF Others

\* Nobody waits for a call that will not be heard of.
LEMMA WaitingNext ==
  ASSUME Fit, Waiting, [Next]_vars
  PROVE  Waiting'
  <1> USE DEF Fit, Parts
  <1>1. CASE UNCHANGED vars
    BY <1>1 DEF vars, Waiting, MarkAwaits, ContactAwaits, Current
  <1>2. CASE Others
    <2>1. UNCHANGED <<calls, passes>>
      BY <1>2, OthersKeep
    <2>2. /\ history'.writes = history.writes /\ history'.crashes = history.crashes
          /\ \A c \in Contacts : contacts'[c].call = contacts[c].call
               /\ (contacts'[c].status = "IN_PROGRESS" => contacts[c].status = "IN_PROGRESS")
      BY <1>2, OthersContacts
    <2>3. QED
      BY <2>1, <2>2 DEF Waiting, MarkAwaits, ContactAwaits, Current
  <1>3. CASE Crash
    BY <1>3, CrashEffect DEF Waiting
  <1>4. QED
    BY <1>1, <1>2, <1>3, WaitingPass, WaitingEvent, SplitNext

-----------------------------------------------------------------------------
(* Handing contacts over.                                                  *)

\* A step of a pass that is not its first is of a pass under way.
LEMMA PassBusy ==
  ASSUME Parts, NEW p \in Passes, PassStep(p)
  PROVE  /\ StartPass(p) \/ passes[p].pc # "idle"
         /\ passes[p].pc = "mark" => Mark(p) \/ WriteFails(p)
         /\ campaign' = "DONE" => campaign = "DONE" \/ (Done(p) /\ passes[p].pc = "done")
  <1> USE DEF Parts
  <1>1. CASE StartPass(p)
    BY <1>1, StartPassEffect
  <1>2. CASE OutsideWindow(p) \/ CheckCampaign(p)
    BY <1>2, CheckEffect
  <1>3. CASE Pause(p)
    BY <1>3, PauseEffect
  <1>4. CASE CountActive(p)
    BY <1>4, CountEffect
  <1>5. CASE FindPending(p)
    BY <1>5, FindEffect
  <1>6. CASE NextContact(p)
    BY <1>6, NextEffect
  <1>7. CASE Dial(p)
    BY <1>7, DialEffect
  <1>8. CASE CreateCall(p)
    BY <1>8, CreateCallEffect
  <1>9. CASE Register(p)
    BY <1>9, RegisterEffect
  <1>10. CASE Mark(p)
    BY <1>10, MarkEffect
  <1>11. CASE ScriptMark(p)
    <2>1. passes[p].pc = "scriptMark"
      BY <1>11 DEF ScriptMark, At
    <2>2. QED
      BY <1>11, <2>1, MarkEffect
  <1>12. CASE ScriptCall(p)
    BY <1>12, ScriptCallEffect
  <1>13. CASE ScriptSettle(p)
    BY <1>13, ScriptSettleEffect
  <1>14. CASE Refund(p)
    BY <1>14, RefundEffect
  <1>15. CASE FailMark(p)
    BY <1>15, FailMarkEffect
  <1>16. CASE CountRemaining(p)
    <2>1. passes[p].pc = "remaining" /\ UNCHANGED campaign
      BY <1>16 DEF CountRemaining, At, OnlyPass
    <2>2. QED
      BY <2>1
  <1>17. CASE Done(p)
    <2>1. passes[p].pc = "done"
      BY <1>17 DEF Done, At
    <2>2. QED
      BY <1>17, <2>1
  <1>18. CASE WriteFails(p)
    BY <1>18, WriteFailsEffect
  <1>19. QED
    BY <1>1, <1>2, <1>3, <1>4, <1>5, <1>6, <1>7, <1>8, <1>9, <1>10, <1>11, <1>12, <1>13,
       <1>14, <1>15, <1>16, <1>17, <1>18 DEF PassStep

\* One pass at a time, unless they overlap.
LEMMA AlonePass ==
  ASSUME Parts, Alone, NEW p \in Passes, PassStep(p), ~history'.overlap
  PROVE  /\ ~history.overlap /\ Alone'
         /\ \A q \in Passes \ {p} : passes[q].pc = "idle" /\ passes'[q] = passes[q]
         /\ campaign # "DONE"
  <1>1. PassOnly(p) /\ ~history.overlap
    BY PassCalls
  <1>2. \A q \in Passes \ {p} : passes[q].pc = "idle" /\ passes'[q] = passes[q]
    <2>1. CASE StartPass(p)
      <3>1. history'.overlap = (history.overlap \/ \E q \in Passes \ {p} : ~At(q, "idle"))
        BY <2>1, StartPassEffect DEF Parts
      <3>2. \A q \in Passes \ {p} : At(q, "idle")
        BY <3>1
      <3>3. QED
        BY <1>1, <3>2 DEF At, PassOnly
    <2>2. CASE ~StartPass(p)
      BY <1>1, <2>2, PassBusy DEF At, PassOnly, Alone
    <2>3. QED
      BY <2>1, <2>2
  <1>3. campaign # "DONE"
    <2>1. CASE StartPass(p)
      BY <2>1, StartPassEffect DEF Parts
    <2>2. CASE ~StartPass(p)
      BY <1>1, <2>2, PassBusy DEF At, Alone
    <2>3. QED
      BY <2>1, <2>2
  <1>4. campaign' = "DONE" => passes'[p].pc = "idle"
    <2>1. CASE Done(p) /\ passes[p].pc = "done"
      BY <2>1, EndEffect DEF Parts
    <2>2. QED
      BY <1>3, <2>1, PassBusy
  <1>5. QED
    BY <1>1, <1>2, <1>3, <1>4 DEF Alone, At

HeldTogether ==
  /\ \A p \in Passes : WorkFits(p)
  /\ campaign = "DONE" => \A c \in Contacts : ~Open(c)
  /\ \A c \in Contacts : ContactHeld(c)
  /\ \A i \in DOMAIN calls : HookHeld(i)

\* What a pass works on, and what it is at.
LEMMA WorkPass ==
  ASSUME Fit, Overrun, Overrun', NEW p \in Passes, PassStep(p), HeldTogether
  PROVE  WorkFits(p)'
  <1> USE DEF Fit, Parts
  <1>1. WorkFits(p) /\ ClaimFits(p)
    BY DEF HeldTogether, Overrun
  <1>2. CASE passes'[p].pc \notin {"next"} \cup CurSteps
    <2>1. passes'[p].todo = {}
      BY <1>2 DEF Overrun, ClaimFits
    <2>2. Working(p)' = {}
      BY <1>2, <2>1 DEF Working
    <2>3. passes'[p].pc = "done" => \A c \in Contacts : ~Open(c)'
      <3>1. ASSUME passes'[p].pc = "done"
            PROVE  UNCHANGED contacts /\ Remaining = {}
        <4>1. CountRemaining(p) \/ Done(p)
          BY <3>1, PassMoves
        <4>2. QED
          BY <3>1, <4>1, EndEffect
      <3>2. QED
        BY <3>1 DEF Open, Remaining
    <2>4. QED
      BY <1>2, <2>2, <2>3 DEF WorkFits, At
  <1>3. ASSUME UNCHANGED contacts, Working(p)' \subseteq Working(p),
               passes'[p].pc \in {"next"} \cup CurSteps,
               passes'[p].pc \in CurSteps => passes'[p].cur \notin passes'[p].todo
        PROVE  WorkFits(p)'
    <2>1. passes'[p].pc # "done"
      BY <1>3 DEF CurSteps, CallSteps, VoiceSteps, ScriptSteps
    <2>2. QED
      BY <1>1, <1>3, <2>1 DEF WorkFits, At
  <1>4. CASE FindPending(p) /\ passes'[p].pc = "next"
    <2>1. UNCHANGED contacts /\ \E S \in SUBSET Eligible : passes'[p].todo = Snapshot(S)
      BY <1>4, FindEffect
    <2>2. PICK S \in SUBSET Eligible : passes'[p].todo = Snapshot(S)
      BY <2>1
    <2>3. "next" \notin CurSteps /\ "next" # "done"
      BY DEF CurSteps, CallSteps, VoiceSteps, ScriptSteps
    <2>4. Working(p)' = Snapshot(S)
      BY <1>4, <2>2, <2>3 DEF Working
    <2>5. ASSUME NEW t \in Snapshot(S)
          PROVE  /\ t.contact \in Eligible
                 /\ t = [contact |-> t.contact, attempts |-> contacts[t.contact].attempts]
      BY DEF Snapshot
    <2>6. ASSUME NEW c \in Eligible PROVE contacts[c].status = "PENDING" /\ contacts[c].call = 0
      BY DEF Eligible, HeldTogether, ContactHeld
    <2>7. ASSUME NEW t \in Snapshot(S), NEW u \in Snapshot(S), t.contact = u.contact
          PROVE  t = u
      BY <2>5, <2>7
    <2>8. QED
      BY <1>4, <2>1, <2>3, <2>4, <2>5, <2>6, <2>7 DEF WorkFits, At
  <1>5. CASE NextContact(p)
    <2>1. /\ UNCHANGED contacts /\ passes[p].pc = "next"
          /\ \/ /\ passes'[p].pc = "dial" /\ passes'[p].cur \in passes[p].todo
                /\ passes'[p].todo = passes[p].todo \ {passes'[p].cur}
             \/ passes'[p].pc = "next" /\ passes'[p].todo \subseteq passes[p].todo
             \/ passes'[p].pc = "remaining"
      BY <1>5, NextEffect
    <2>2. QED
      BY <1>2, <1>3, <2>1 DEF Working, CurSteps, CallSteps, VoiceSteps, ScriptSteps
  <1>6. ASSUME UNCHANGED contacts, passes[p].pc \in CurSteps, passes'[p].pc \in CurSteps,
               passes'[p].cur = passes[p].cur, passes'[p].todo = passes[p].todo
        PROVE  WorkFits(p)'
    BY <1>1, <1>3, <1>6 DEF Working, WorkFits
  <1> DEFINE Kept == /\ UNCHANGED contacts /\ passes[p].pc \in CurSteps /\ passes'[p].pc \in CurSteps
                     /\ passes'[p].cur = passes[p].cur /\ passes'[p].todo = passes[p].todo
  <1>7. CASE Dial(p)
    <2>1. Kept
      BY <1>7, DialEffect DEF CurSteps, CallSteps, VoiceSteps, ScriptSteps
    <2>2. QED
      BY <1>6, <2>1
  <1>8. CASE CreateCall(p) \/ Register(p)
    <2>1. Kept
      BY <1>8, CreateCallEffect, RegisterEffect DEF Holds, CurSteps, CallSteps, VoiceSteps
    <2>2. QED
      BY <1>6, <2>1
  <1>9. CASE ScriptCall(p) \/ ScriptSettle(p)
    <2>1. Kept
      BY <1>9, ScriptCallEffect, ScriptSettleEffect DEF Holds, CurSteps, CallSteps, ScriptSteps
    <2>2. QED
      BY <1>6, <2>1
  <1>10. CASE Refund(p)
    <2>1. Kept
      BY <1>10, RefundEffect DEF Holds, CurSteps
    <2>2. QED
      BY <1>6, <2>1
  <1>11. CASE WriteFails(p) /\ passes'[p].pc = "refund"
    <2>1. Kept
      BY <1>11, WriteFailsEffect DEF Holds, CurSteps, CallSteps, VoiceSteps, ScriptSteps
    <2>2. QED
      BY <1>6, <2>1
  <1>12. CASE Mark(p) \/ ScriptMark(p) \/ FailMark(p)
    <2>1. /\ passes[p].pc \in CurSteps /\ passes'[p].pc = "next"
          /\ passes'[p].todo = passes[p].todo
          /\ \A c \in Contacts : c # CurContact(p) => contacts'[c] = contacts[c]
      BY <1>12, MarkEffect, FailMarkEffect DEF ContactOnly, CurSteps, CallSteps, VoiceSteps, ScriptSteps
    <2>2. "next" \notin CurSteps /\ "next" # "done"
      BY DEF CurSteps, CallSteps, VoiceSteps, ScriptSteps
    <2>3. Working(p)' = passes[p].todo /\ Working(p) = passes[p].todo \cup {passes[p].cur}
      BY <2>1, <2>2 DEF Working
    <2>4. passes[p].cur \notin passes[p].todo
      BY <1>1, <2>1 DEF WorkFits
    <2>5. ASSUME NEW t \in passes[p].todo
          PROVE  contacts'[t.contact] = contacts[t.contact]
      <3>1. t.contact # CurContact(p)
        BY <1>1, <2>3, <2>4 DEF WorkFits, CurContact
      <3>2. t.contact \in Contacts
        BY PassParts DEF Pending
      <3>3. QED
        BY <2>1, <3>1, <3>2
    <2>6. QED
      BY <1>1, <2>1, <2>2, <2>3, <2>5 DEF WorkFits, At
  <1>13. CASE ~(Mark(p) \/ ScriptMark(p) \/ FailMark(p)) /\ passes'[p].pc \in {"next"} \cup CurSteps
    <2>1. passes'[p].pc = "next" => NextContact(p) \/ FindPending(p)
      BY <1>13, StartPassEffect, CheckEffect, PauseEffect, CountEffect, DialEffect,
         CreateCallEffect, RegisterEffect, ScriptCallEffect, ScriptSettleEffect,
         RefundEffect, EndEffect, WriteFailsEffect DEF PassStep
    <2>2. QED
      BY <1>4, <1>5, <1>7, <1>8, <1>9, <1>10, <1>11, <1>13, <2>1, PassMoves
         DEF CurSteps, CallSteps, VoiceSteps, ScriptSteps
  <1>14. QED
    BY <1>2, <1>12, <1>13

\* A dispatch writes a contact no call has yet.
LEMMA MarkFresh ==
  ASSUME Fit, HeldTogether, NEW p \in Passes, PassStep(p),
         NEW c \in Contacts, contacts'[c] # contacts[c]
  PROVE  contacts[c].call = 0
  <1>1. c = CurContact(p) /\ passes[p].pc \in CurSteps
    BY MarkContacts DEF CurSteps, CallSteps, VoiceSteps, ScriptSteps
  <1>2. passes[p].cur \in Working(p)
    BY <1>1 DEF Working
  <1>3. QED
    BY <1>1, <1>2 DEF HeldTogether, WorkFits, CurContact

LEMMA HandOverPass ==
  ASSUME Fit, Overrun, HandOver, NEW p \in Passes, PassStep(p)
  PROVE  HandOver'
  <1> USE DEF Fit, Parts
  <1>1. Overrun' /\ TypeOK' /\ KeepCalls
    BY OverrunNext, PassesFitPass, PassCalls DEF Next
  <1>2. Alone'
    BY AlonePass DEF HandOver, Alone
  <1>3. ASSUME Calm'
        PROVE  /\ HeldTogether /\ (history'.writes = 0 => history.writes = 0)
               /\ \A q \in Passes \ {p} : passes[q].pc = "idle" /\ passes'[q] = passes[q]
               /\ campaign # "DONE"
               /\ Calm
    <2>1. ~history'.overlap /\ ~history'.retried
      BY <1>3 DEF Calm
    <2>2. /\ ~history.overlap /\ campaign # "DONE"
          /\ \A q \in Passes \ {p} : passes[q].pc = "idle" /\ passes'[q] = passes[q]
      BY <2>1, AlonePass DEF HandOver
    <2>3. ~history.retried /\ (history'.writes = 0 => history.writes = 0)
      BY <2>1, PassCalls
    <2>4. Calm
      BY <2>2, <2>3 DEF Calm
    <2>5. QED
      BY <2>2, <2>3, <2>4 DEF HandOver, HeldTogether
  <1>4. ASSUME Calm', NEW q \in Passes PROVE WorkFits(q)'
    <2>1. CASE q = p
      BY <1>1, <1>3, <1>4, <2>1, WorkPass
    <2>2. CASE q # p
      <3>1. passes'[q].pc = "idle" /\ passes[q].todo = {} /\ passes'[q] = passes[q]
        BY <1>3, <1>4, <2>2 DEF Overrun, ClaimFits, CurSteps, CallSteps, VoiceSteps, ScriptSteps
      <3>2. Working(q)' = {}
        BY <3>1 DEF Working, CurSteps, CallSteps, VoiceSteps, ScriptSteps
      <3>3. QED
        BY <3>1, <3>2 DEF WorkFits, At, CurSteps, CallSteps, VoiceSteps, ScriptSteps
    <2>3. QED
      BY <2>1, <2>2
  <1>5. ASSUME Calm', campaign' = "DONE", NEW c \in Contacts PROVE ~Open(c)'
    <2>1. Done(p) /\ passes[p].pc = "done" /\ UNCHANGED contacts
      BY <1>3, <1>5, PassBusy, EndEffect
    <2>2. ~Open(c)
      BY <1>3, <1>5, <2>1 DEF HeldTogether, WorkFits, At
    <2>3. QED
      BY <2>1, <2>2 DEF Open
  <1>6. ASSUME Calm', NEW c \in Contacts PROVE ContactHeld(c)'
    <2>1. HeldTogether /\ ContactHeld(c) /\ UNCHANGED mode
      BY <1>3, <1>6, PassCalls DEF HeldTogether
    <2>2. CASE contacts'[c] = contacts[c]
      <3>1. contacts[c].call # 0 => contacts[c].call \in DOMAIN calls
        BY DEF CallsFit, ContactFits
      <3>2. contacts[c].call # 0 => calls'[contacts[c].call].hook = calls[contacts[c].call].hook
        BY <3>1, PassCalls
      <3>3. QED
        BY <2>1, <2>2, <3>2 DEF ContactHeld
    <2>3. CASE contacts'[c] # contacts[c]
      <3>1. contacts[c].call = 0
        BY <2>1, <2>3, MarkFresh
      <3>2. passes[p].pc = "scriptMark" => mode = "FIXED_SCRIPT"
        BY DEF PassesFit, PassFits, ScriptSteps
      <3>3. c = CurContact(p)
        BY <2>3, MarkContacts
      <3>4. \/ contacts'[c].status = "IN_PROGRESS"
            \/ contacts'[c].status = "COMPLETED" /\ mode = "FIXED_SCRIPT"
            \/ contacts'[c].status \in {"PENDING", "FAILED"} /\ contacts'[c].call = 0
        BY <2>3, <3>1, <3>2, <3>3, MarkContacts
      <3>5. QED
        BY <2>1, <3>4 DEF ContactHeld
    <2>4. QED
      BY <2>2, <2>3
  <1>7. ASSUME Calm', NEW i \in DOMAIN calls'
        PROVE  /\ HookHeld(i)'
               /\ history'.writes = 0 => LiveHeld(i)'
    <2> DEFINE c == calls[i].contact
    <2>1. HeldTogether
      BY <1>3, <1>7
    <2>2. CASE i \notin DOMAIN calls
      <3>1. calls'[i].hook = "none" /\ calls'[i].session = "none"
        BY <1>7, <2>2, PassCalls
      <3>2. QED
        BY <3>1 DEF HookHeld, LiveHeld, ContactStatus
    <2>3. CASE i \in DOMAIN calls
      <3>1. /\ c \in Contacts /\ i # 0 /\ calls'[i].contact = c
            /\ calls'[i].hook = calls[i].hook
        BY <1>1, <2>3, CallParts, PassCalls DEF KeepCalls
      <3>2. contacts[c].call = i => contacts'[c] = contacts[c]
        BY <2>1, <3>1, MarkFresh
      <3>3. HookHeld(i)'
        BY <2>1, <2>3, <3>1, <3>2 DEF HeldTogether, HookHeld
      <3>4. ASSUME history'.writes = 0, calls'[i].session = "live"
            PROVE  \/ contacts'[c].call = i
                   \/ \E q \in Passes : At(q, "mark")' /\ Current(q)' = i
        <4>1. CASE Register(p) /\ i = Current(p)
          <5>1. passes'[p].pc = "mark" /\ passes'[p].call = passes[p].call
            BY <4>1, RegisterEffect DEF Holds
          <5>2. QED
            BY <4>1, <5>1 DEF At, Current
        <4>2. CASE calls[i].session = "live"
          <5>1. \/ contacts[c].call = i
                \/ \E q \in Passes : At(q, "mark") /\ Current(q) = i
            BY <1>3, <1>7, <2>3, <3>4, <4>2 DEF HandOver, LiveHeld
          <5>2. CASE \E q \in Passes : At(q, "mark") /\ Current(q) = i
            <6>1. At(p, "mark") /\ Current(p) = i
              BY <1>3, <1>7, <5>2 DEF At
            <6>2. ~WriteFails(p)
              BY <3>4, WriteFailsEffect
            <6>3. Mark(p)
              BY <6>1, <6>2, PassBusy DEF At
            <6>4. c = CurContact(p)
              BY <3>1, <6>1, CurrentParts DEF Current
            <6>5. QED
              BY <6>1, <6>3, <6>4, MarkEffect
          <5>3. QED
            BY <3>2, <5>1, <5>2
        <4>3. QED
          BY <2>3, <3>4, <4>1, <4>2, PassCalls
      <3>5. QED
        BY <3>1, <3>3, <3>4 DEF LiveHeld
    <2>4. QED
      BY <2>2, <2>3
  <1>8. QED
    BY <1>2, <1>4, <1>5, <1>6, <1>7 DEF HandOver

LEMMA HandOverEvent ==
  ASSUME Fit, HandOver, NEW i \in DOMAIN calls, CallEvent(i)
  PROVE  HandOver'
  <1> USE DEF Fit, Parts
  <1> DEFINE e == calls[i].contact
  <1>1. /\ CallOnly(i) /\ DOMAIN calls' = DOMAIN calls /\ KeepCalls
        /\ UNCHANGED <<mode, campaign, passes>>
        /\ e \in Contacts /\ i # 0
    BY EventKeeps, CallParts DEF CallOnly
  <1>2. history'.overlap = history.overlap /\ history'.retried = history.retried
        /\ (history'.writes = 0 => history.writes = 0 /\ ~HookFails(i))
    BY EventCalls, HookFailsEffect
  <1>3. Alone'
    BY <1>1, <1>2 DEF HandOver, Alone, At
  <1>4. Calm' => HeldTogether /\ Calm
    BY <1>2 DEF Calm, HandOver, HeldTogether
  <1>5. ASSUME HookWrite(i), HeldTogether
        PROVE  /\ ContactOnly(e) /\ contacts[e].call = i
               /\ contacts[e].status = "IN_PROGRESS"
               /\ \/ contacts'[e].status = "PENDING" /\ contacts'[e].call = 0
                  \/ contacts'[e].status \in {"COMPLETED", "FAILED"} /\ contacts'[e].call = contacts[e].call
               /\ calls'[i].hook = "done"
    <2>1. calls[i].hook \in ContactStatus
      BY <1>5, HookWriteEffect
    <2>2. contacts[e].call = i
      BY <1>5, <2>1 DEF HeldTogether, HookHeld
    <2>3. mode = "VOICE_AI"
      <3>1. mode = "VOICE_AI" \/ mode = "FIXED_SCRIPT"
        BY DispatchAssumption DEF TypeOK
      <3>2. calls[i].hook # "none"
        BY <2>1 DEF ContactStatus
      <3>3. QED
        BY <3>1, <3>2 DEF CallsFit, CallFits
    <2>4. contacts[e].status = "IN_PROGRESS"
      BY <1>1, <1>5, <2>1, <2>2, <2>3 DEF HeldTogether, ContactHeld, AwaitedHooks
    <2>5. QED
      BY <1>5, <2>2, <2>4, HookWriteEffect
  <1>6. ASSUME HeldTogether, NEW c \in Contacts, contacts'[c] # contacts[c]
        PROVE  HookWrite(i) /\ c = e
    BY <1>5, <1>6, EventCalls DEF ContactOnly
  <1>7. ASSUME Calm', NEW p \in Passes PROVE WorkFits(p)'
    <2>1. HeldTogether /\ WorkFits(p)
      BY <1>4, <1>7 DEF HeldTogether
    <2>2. Working(p)' = Working(p)
      BY <1>1 DEF Working
    <2>3. ASSUME NEW t \in Working(p) PROVE contacts'[t.contact] = contacts[t.contact]
      <3>1. t.contact \in Contacts
        <4>1. t \in Pending
          BY PassParts DEF Working, PassesFit, PassFits
        <4>2. QED
          BY <4>1 DEF Pending
      <3>2. contacts[t.contact].call = 0
        BY <2>1 DEF WorkFits
      <3>3. QED
        BY <1>1, <1>5, <1>6, <2>1, <3>1, <3>2
    <2>4. ASSUME At(p, "done"), NEW c \in Contacts PROVE ~Open(c)'
      <3>1. ~Open(c)
        BY <2>1, <2>4 DEF WorkFits
      <3>2. contacts'[c] = contacts[c]
        BY <1>5, <1>6, <2>1, <3>1 DEF Open
      <3>3. QED
        BY <3>1, <3>2 DEF Open
    <2>5. At(p, "done")' = At(p, "done")
      BY <1>1 DEF At
    <2>6. QED
      BY <1>1, <2>1, <2>2, <2>3, <2>4, <2>5 DEF WorkFits
  <1>8. ASSUME Calm', campaign' = "DONE", NEW c \in Contacts PROVE ~Open(c)'
    <2>1. HeldTogether /\ ~Open(c)
      BY <1>1, <1>4, <1>8 DEF HeldTogether
    <2>2. contacts'[c] = contacts[c]
      BY <1>5, <1>6, <2>1 DEF Open
    <2>3. QED
      BY <2>1, <2>2 DEF Open
  <1>9. ASSUME Calm', NEW c \in Contacts PROVE ContactHeld(c)'
    <2>1. HeldTogether /\ ContactHeld(c)
      BY <1>4, <1>9 DEF HeldTogether
    <2>2. CASE contacts'[c] # contacts[c]
      <3>1. HookWrite(i) /\ c = e
        BY <1>6, <2>1, <2>2
      <3>2. /\ contacts[c].call = i /\ calls'[i].hook = "done"
            /\ \/ contacts'[c].status = "PENDING" /\ contacts'[c].call = 0
               \/ contacts'[c].status \in {"COMPLETED", "FAILED"} /\ contacts'[c].call = i
        BY <1>5, <2>1, <3>1
      <3>3. "done" \notin AwaitedHooks
        BY DEF AwaitedHooks, ContactStatus
      <3>4. QED
        BY <3>2, <3>3 DEF ContactHeld
    <2>3. CASE contacts'[c] = contacts[c]
      <3> DEFINE j == contacts[c].call
      <3>1. j # 0 => j \in DOMAIN calls
        BY DEF CallsFit, ContactFits
      <3>2. ASSUME j # 0, calls'[j].hook \in AwaitedHooks PROVE calls[j].hook \in AwaitedHooks
        <4>1. CASE j # i
          BY <1>1, <3>1, <3>2, <4>1 DEF CallOnly
        <4>2. CASE j = i
          <5>1. CallFits(i)
            BY DEF CallsFit
          <5>2. \/ calls[i].hook = calls'[i].hook
                \/ calls[i].hook \in {"find"} \cup ContactStatus
                \/ calls[i].session = "live"
            BY EndUnregisteredEffect, EndCallEffect, HookFindEffect, HookWriteEffect,
               HookFailsEffect, ReconcileEffect DEF CallEvent
          <5>3. QED
            BY <3>2, <4>2, <5>1, <5>2 DEF CallFits, AwaitedHooks
        <4>3. QED
          BY <4>1, <4>2
      <3>3. QED
        BY <1>1, <2>1, <2>3, <3>2 DEF ContactHeld
    <2>4. QED
      BY <2>2, <2>3
  <1>10. ASSUME Calm', NEW j \in DOMAIN calls
         PROVE  /\ HookHeld(j)'
                /\ history'.writes = 0 => LiveHeld(j)'
    <2> DEFINE c == calls[j].contact
    <2>1. HeldTogether /\ HookHeld(j) /\ (history'.writes = 0 => LiveHeld(j))
      BY <1>2, <1>4, <1>10 DEF HeldTogether, HandOver
    <2>2. c \in Contacts /\ calls'[j].contact = c
      BY <1>1, CallParts DEF KeepCalls
    <2>3. CASE j # i
      <3>1. calls'[j] = calls[j]
        BY <1>1, <2>3 DEF CallOnly
      <3>2. contacts[c].call = j => contacts'[c] = contacts[c]
        BY <1>5, <1>6, <2>1, <2>2, <2>3
      <3>3. QED
        BY <1>1, <2>1, <3>1, <3>2 DEF HookHeld, LiveHeld, At, Current
    <2>4. CASE j = i
      <3>1. CASE HookWrite(i)
        <4>1. calls'[i].hook = "done" /\ calls'[i].session = calls[i].session
              /\ calls[i].hook \in ContactStatus
          BY <3>1, HookWriteEffect
        <4>2. calls[i].session # "live"
          BY <4>1 DEF CallsFit, CallFits, ContactStatus
        <4>3. QED
          BY <2>4, <4>1, <4>2 DEF HookHeld, LiveHeld, ContactStatus
      <3>2. CASE ~HookWrite(i)
        <4>1. UNCHANGED contacts
          BY <3>2, EventCalls
        <4>2. HookHeld(i)'
          <5>1. CASE HookFind(i)
            <6>1. calls'[i].hook \in ContactStatus => \E d \in Contacts : contacts[d].call = i
              BY <5>1, HookFindEffect DEF ContactStatus
            <6>2. \A d \in Contacts : contacts[d].call = i => e = d
              BY <1>1 DEF CallsFit, ContactFits
            <6>3. QED
              BY <2>2, <2>4, <4>1, <6>1, <6>2 DEF HookHeld
          <5>2. CASE ~HookFind(i)
            <6>1. calls'[i].hook = calls[i].hook \/ calls'[i].hook \in {"find", "done"}
              BY <3>2, <5>2, EndUnregisteredEffect, EndCallEffect,
                 HookFailsEffect, ReconcileEffect DEF CallEvent
            <6>2. QED
              BY <2>1, <2>2, <2>4, <4>1, <6>1 DEF HookHeld, ContactStatus
          <5>3. QED
            BY <5>1, <5>2
        <4>3. calls'[i].session = "live" => calls[i].session = "live"
          BY EventCalls
        <4>4. QED
          BY <1>1, <2>1, <2>2, <2>4, <4>1, <4>2, <4>3 DEF LiveHeld, At, Current
      <3>3. QED
        BY <3>1, <3>2
    <2>5. QED
      BY <2>3, <2>4
  <1>11. QED
    BY <1>1, <1>3, <1>7, <1>8, <1>9, <1>10 DEF HandOver

\* A contact is handed over whole at every step.
LEMMA HandOverNext ==
  ASSUME Fit, Overrun, HandOver, [Next]_vars
  PROVE  HandOver'
  <1> USE DEF Fit, Parts
  <1>1. CASE UNCHANGED vars
    BY <1>1 DEF vars, HandOver, Alone, Calm, At, Open, WorkFits, Working, ContactHeld, HookHeld,
                LiveHeld, Current
  <1>2. CASE Others
    <2>1. UNCHANGED <<mode, calls, passes>>
      BY <1>2, OthersKeep
    <2>2. /\ history'.overlap = history.overlap /\ (history.retried => history'.retried)
          /\ history'.writes = history.writes
          /\ campaign' = "DONE" => campaign = "DONE"
      BY <1>2, OthersContacts
    <2>3. Alone'
      BY <2>1, <2>2 DEF HandOver, Alone, At
    <2>4. Calm' => HeldTogether /\ Calm
      BY <2>2 DEF Calm, HandOver, HeldTogether
    <2>5. ASSUME Calm', NEW c \in Contacts
          PROVE  /\ contacts'[c].call = contacts[c].call
                 /\ \/ contacts'[c].status = contacts[c].status
                    \/ contacts[c].status = "PENDING" /\ contacts'[c].status = "FAILED"
      BY <1>2, <2>5, OthersContacts DEF Calm
    <2>6. ASSUME Calm', NEW p \in Passes PROVE WorkFits(p)'
      <3>1. WorkFits(p) /\ Working(p)' = Working(p) /\ At(p, "done")' = At(p, "done")
        BY <2>1, <2>4, <2>6 DEF HeldTogether, Working, At
      <3>2. \A t \in Working(p) : t.contact \in Contacts
        <4>1. \A t \in Working(p) : t \in Pending
          BY PassParts DEF Working, PassesFit, PassFits
        <4>2. QED
          BY <4>1 DEF Pending
      <3>3. \A t \in Working(p) : /\ contacts'[t.contact].call = 0
                                  /\ contacts'[t.contact].status \in {"PENDING", "FAILED"}
        BY <2>5, <2>6, <3>1, <3>2 DEF WorkFits
      <3>4. At(p, "done") => \A c \in Contacts : ~Open(c)'
        BY <2>5, <2>6, <3>1 DEF WorkFits, Open
      <3>5. QED
        BY <2>1, <3>1, <3>3, <3>4 DEF WorkFits
    <2>7. ASSUME Calm', campaign' = "DONE", NEW c \in Contacts PROVE ~Open(c)'
      BY <2>2, <2>4, <2>5, <2>7 DEF HeldTogether, Open
    <2>8. ASSUME Calm', NEW c \in Contacts PROVE ContactHeld(c)'
      BY <2>1, <2>4, <2>5, <2>8 DEF HeldTogether, ContactHeld
    <2>9. ASSUME Calm', NEW i \in DOMAIN calls
          PROVE  HookHeld(i)' /\ (history'.writes = 0 => LiveHeld(i)')
      <3>1. calls[i].contact \in Contacts
        BY CallParts
      <3>2. HookHeld(i) /\ (history'.writes = 0 => LiveHeld(i))
        BY <2>2, <2>4, <2>9 DEF HeldTogether, HandOver
      <3>3. QED
        BY <2>1, <2>5, <2>9, <3>1, <3>2 DEF HookHeld, LiveHeld, At, Current
    <2>10. QED
      BY <2>1, <2>3, <2>6, <2>7, <2>8, <2>9 DEF HandOver
  <1>3. CASE Crash
    <2>1. /\ UNCHANGED <<mode, campaign, contacts>> /\ DOMAIN calls' = DOMAIN calls
          /\ history'.overlap = history.overlap /\ history'.retried = history.retried
          /\ history'.writes = history.writes
          /\ \A p \in Passes : passes'[p] = IdlePass
      BY <1>3, CrashEffect
    <2>2. \A p \in Passes : passes'[p].pc = "idle" /\ passes'[p].todo = {}
      BY <2>1 DEF IdlePass
    <2>3. \A p \in Passes : Working(p)' = {} /\ WorkFits(p)'
      BY <2>2 DEF Working, WorkFits, At, CurSteps, CallSteps, VoiceSteps, ScriptSteps
    <2>4. Alone'
      BY <2>2 DEF Alone, At
    <2>5. Calm' => HeldTogether
      BY <2>1 DEF Calm, HandOver, HeldTogether
    <2>6. ASSUME NEW i \in DOMAIN calls
          PROVE  /\ calls'[i].session # "live" /\ calls'[i].contact = calls[i].contact
                 /\ \/ calls'[i].hook = calls[i].hook /\ calls[i].hook \in {"none", "unmatched"}
                    \/ calls'[i].hook = "done"
      BY <1>3, CrashEffect
    <2>7. ASSUME NEW i \in DOMAIN calls PROVE HookHeld(i)' /\ LiveHeld(i)'
      BY <2>6 DEF HookHeld, LiveHeld, ContactStatus
    <2>8. ASSUME Calm', NEW c \in Contacts PROVE ContactHeld(c)'
      <3>1. ContactHeld(c)
        BY <2>5, <2>8 DEF HeldTogether
      <3>2. contacts[c].call # 0 => contacts[c].call \in DOMAIN calls
        BY DEF CallsFit, ContactFits
      <3>3. ASSUME contacts[c].call # 0, calls'[contacts[c].call].hook \in AwaitedHooks
            PROVE  calls[contacts[c].call].hook \in AwaitedHooks
        BY <2>6, <3>2, <3>3 DEF AwaitedHooks, ContactStatus
      <3>4. QED
        BY <2>1, <3>1, <3>3 DEF ContactHeld
    <2>9. ASSUME Calm', campaign' = "DONE", NEW c \in Contacts PROVE ~Open(c)'
      BY <2>1, <2>5, <2>9 DEF HeldTogether, Open
    <2>10. QED
      BY <2>1, <2>3, <2>4, <2>7, <2>8, <2>9 DEF HandOver
  <1>4. QED
    BY <1>1, <1>2, <1>3, HandOverPass, HandOverEvent, SplitNext

-----------------------------------------------------------------------------
(* The initial states.                                                     *)

LEMMA InitFit ==
  ASSUME Init
  PROVE  Fit /\ ReturnsFit /\ Waiting /\ HandOver
  <1>1. \A p \in Passes : /\ passes[p] = IdlePass /\ passes[p].pc = "idle" /\ passes[p].seen = 0
                          /\ passes[p].slots = 0 /\ passes[p].todo = {} /\ passes[p].call = 0
                          /\ passes[p].cur = NoOne
    BY DEF Init, IdlePass
  <1>2. \A c \in Contacts : contacts[c].call = 0 /\ contacts[c].status = "PENDING"
    BY DEF Init
  <1>3. calls = <<>> /\ DOMAIN calls = {}
    BY DEF Init
  <1>4. TypeOK
    <2>1. IdlePass \in Pass
      BY DEF IdlePass, Pass, PassSteps
    <2>2. passes \in [Passes -> Pass]
      BY <2>1 DEF Init
    <2>3. contacts \in [Contacts -> Contact]
      BY DEF Init, Contact, ContactStatus
    <2>4. balance \in Int
      BY MoneyAssumption DEF Init
    <2>5. history \in History /\ calls \in Seq(Call) /\ request \in {NoRequest}
          /\ optedOut \in [Contacts -> BOOLEAN] /\ campaign \in CampaignStatus /\ mode \in Modes
      BY DEF Init, History, CampaignStatus
    <2>6. QED
      BY <2>2, <2>3, <2>4, <2>5 DEF TypeOK, History
  <1>5. PassesFit
    BY <1>1 DEF PassesFit, PassFits, CurSteps, CallSteps, VoiceSteps, ScriptSteps
  <1>6. CallsFit
    BY <1>1, <1>2, <1>3 DEF CallsFit, ContactFits, DialFits
  <1>7. ReturnsFit
    BY <1>1, <1>3 DEF ReturnsFit, RefundFits
  <1>8. Waiting
    BY <1>1, <1>2 DEF Waiting, MarkAwaits, ContactAwaits, VoiceSteps
  <1>9. HandOver
    <2>1. Alone
      BY <1>1 DEF Alone, At
    <2>2. \A p \in Passes : WorkFits(p)
      BY <1>1 DEF WorkFits, Working, At, CurSteps, CallSteps, VoiceSteps, ScriptSteps
    <2>3. campaign # "DONE"
      BY DEF Init
    <2>4. QED
      BY <1>2, <1>3, <2>1, <2>2, <2>3 DEF HandOver, ContactHeld
  <1>10. QED
    BY <1>4, <1>5, <1>6, <1>7, <1>8, <1>9 DEF Fit, Parts

LEMMA InitOverrun ==
  ASSUME Init
  PROVE  Overrun
  <1>1. \A p \in Passes : /\ passes[p].pc = "idle" /\ passes[p].slots = 0 /\ passes[p].todo = {}
    BY DEF Init, IdlePass
  <1>2. \A p \in Passes : Claims(p) = {}
    BY <1>1 DEF Claims, ClaimsIn
  <1>3. Cardinality({}) = 0 /\ IsFiniteSet({}) /\ MaxConcurrent \in Nat
    BY FS_EmptySet, DispatchAssumption
  <1>4. \A p \in Passes : ClaimFits(p)
    BY <1>1, <1>2, <1>3 DEF ClaimFits
  <1>5. Pairs(Passes, ClaimsOf) = {} /\ ActiveCalls = {}
    BY <1>2 DEF Pairs, ClaimsOf, ActiveCalls, Init
  <1>6. MaxConcurrent * Cardinality(Passes) \in Nat
    <2>1. Cardinality(Passes) \in Nat
      BY DispatchAssumption, FS_CardinalityType
    <2>2. QED
      BY <1>3, <2>1
  <1>7. QED
    BY <1>3, <1>4, <1>5, <1>6 DEF Overrun

-----------------------------------------------------------------------------
(* The theorems.                                                           *)

\* Every variable keeps its type, and every pass holds a contact and a call of its
\* own from the dial on: what the handlers write by an index is there to be written.
THEOREM DispatcherTypeCorrect == Spec => [](TypeOK /\ Fit)
  <1>1. Init => Fit
    BY InitFit
  <1>2. Fit /\ [Next]_vars => Fit'
    BY FitNext
  <1>3. Fit => TypeOK
    BY DEF Fit, Parts
  <1>4. QED
    BY <1>1, <1>2, <1>3, PTL DEF Spec

\* The tenant is never beyond its credit, whatever passes read the balance before:
\* reserveBalance compares it in the UPDATE, a settlement gives back what was set
\* aside less a cost that is no larger, and every other movement is a refund.
THEOREM CreditLimitAlwaysHolds == Spec => []CreditLimitHolds
  <1>1. Init => CreditLimitHolds
    BY MoneyAssumption DEF Init, CreditLimitHolds
  <1>2. Fit /\ CreditLimitHolds /\ [Next]_vars => CreditLimitHolds'
    BY CreditNext DEF Fit
  <1>3. QED
    BY <1>1, <1>2, DispatcherTypeCorrect, PTL DEF Spec

\* The reservation of a call comes back once, from its settlement or from the catch of
\* its dial, unless a write failed after the provider had taken the call.
THEOREM ReservationsReturnOnce == Spec => []ReservationReturnsOnce
  <1>1. Init => ReturnsFit
    BY InitFit
  <1>2. Fit /\ ReturnsFit /\ [Next]_vars => ReturnsFit'
    BY ReturnsNext
  <1>3. TypeOK /\ ReturnsFit => ReservationReturnsOnce
    <2>1. ASSUME TypeOK, ReturnsFit, NEW i \in DOMAIN calls, calls[i].returns > 1
          PROVE  history.writes > 0
      <3>1. history.writes \in Nat
        BY <2>1 DEF TypeOK
      <3>2. calls[i].returns \notin {0, 1}
        BY <2>1
      <3>3. history.writes # 0
        BY <2>1, <3>2 DEF ReturnsFit, ReturnFits
      <3>4. QED
        BY <3>1, <3>3
    <2>2. QED
      BY <2>1 DEF ReservationReturnsOnce
  <1>4. QED
    BY <1>1, <1>2, <1>3, DispatcherTypeCorrect, PTL DEF Spec

\* What the calls and the passes hold stays within maxConcurrent for each pass.
LEMMA OverrunAlways == Spec => []Overrun
  <1>1. Init => Overrun
    BY InitOverrun
  <1>2. Fit /\ Overrun /\ [Next]_vars => Overrun'
    BY OverrunNext
  <1>3. QED
    BY <1>1, <1>2, DispatcherTypeCorrect, PTL DEF Spec

\* A contact is with one pass, on one call, or neither, as long as passes do not
\* overlap and no run is repeated.
LEMMA HandOverAlways == Spec => []HandOver
  <1>1. Init => HandOver
    BY InitFit
  <1>2. Fit /\ Overrun /\ HandOver /\ [Next]_vars => HandOver'
    BY HandOverNext
  <1>3. QED
    BY <1>1, <1>2, DispatcherTypeCorrect, OverrunAlways, PTL DEF Spec

\* Passes that overlap exceed the campaign's concurrency by one pass's worth each and
\* no more, counting the dials they have yet to make; and a campaign is DONE over a
\* contact still open only because passes overlapped or it is being repeated.
THEOREM PassesOverlapBounded == Spec => []OverlapIsBounded
  <1>1. TypeOK /\ Overrun => ConcurrencyOverrunIsBounded
    <2> SUFFICES ASSUME TypeOK, Overrun PROVE ConcurrencyOverrunIsBounded
      OBVIOUS
    <2> DEFINE load == Pairs(Passes, ClaimsOf)
    <2>1. IsFiniteSet(load) /\ Cardinality(load) \in Nat /\ MaxConcurrent * Cardinality(Passes) \in Nat
      BY LoadFinite
    <2>2. \A p \in Passes :
            passes[p].todo \cup (IF passes[p].pc \in {"dial", "create"} THEN {passes[p].cur} ELSE {})
              \subseteq ClaimsOf[p]
      BY DEF ClaimsOf, Claims, ClaimsIn
    <2>3. Committed \subseteq load
      BY <2>2 DEF Committed, Pairs
    <2>4. Cardinality(ActiveCalls) + Cardinality(load) <= MaxConcurrent * Cardinality(Passes)
      BY DEF Overrun
    <2> HIDE DEF load
    <2>5. IsFiniteSet(Committed) /\ Cardinality(Committed) <= Cardinality(load)
      BY <2>1, <2>3, FS_Subset
    <2>6. Cardinality(Committed) \in Nat /\ Cardinality(ActiveCalls) \in Nat
      BY <2>5, FS_CardinalityType, ActiveFinite
    <2>7. QED
      BY <2>1, <2>4, <2>5, <2>6 DEF ConcurrencyOverrunIsBounded
  <1>2. TypeOK /\ HandOver => DoneMeansSettled
    BY DEF HandOver, Calm, DoneMeansSettled
  <1>3. TypeOK /\ Overrun /\ HandOver => OverlapIsBounded
    BY <1>1, <1>2 DEF OverlapIsBounded
  <1>4. QED
    BY <1>3, DispatcherTypeCorrect, OverrunAlways, HandOverAlways, PTL

\* Two calls of one contact that are live together are held by nobody in common.
LEMMA OneLiveCall ==
  ASSUME Fit, HandOver, Calm, history.writes = 0, NEW c \in Contacts,
         NEW i \in LiveCallsOf(c), NEW j \in LiveCallsOf(c)
  PROVE  i = j
  <1> DEFINE Marked(k) == \E p \in Passes : At(p, "mark") /\ Current(p) = k
  <1>1. /\ i \in DOMAIN calls /\ calls[i].contact = c /\ calls[i].session = "live"
        /\ j \in DOMAIN calls /\ calls[j].contact = c /\ calls[j].session = "live"
    BY DEF LiveCallsOf
  <1>2. contacts[c].call = i \/ Marked(i)
    BY <1>1 DEF HandOver, LiveHeld
  <1>3. contacts[c].call = j \/ Marked(j)
    BY <1>1 DEF HandOver, LiveHeld
  <1>4. ASSUME NEW k \in DOMAIN calls, calls[k].contact = c, Marked(k)
        PROVE  contacts[c].call = 0
    <2>1. PICK p \in Passes : At(p, "mark") /\ Current(p) = k
      BY <1>4
    <2>2. PassFits(p) /\ WorkFits(p) /\ k # 0
      BY <1>4, CallParts DEF Fit, Parts, PassesFit, HandOver
    <2>3. passes[p].cur.contact = c
      BY <1>4, <2>1, <2>2 DEF PassFits, Current
    <2>4. passes[p].cur \in Working(p)
      BY <2>1 DEF Working, At, CurSteps, CallSteps, VoiceSteps
    <2>5. QED
      BY <2>2, <2>3, <2>4 DEF WorkFits
  <1>5. i # 0 /\ j # 0
    BY <1>1, CallParts DEF Fit, Parts
  <1>6. CASE Marked(i) /\ Marked(j)
    <2>1. PICK p \in Passes, q \in Passes : /\ At(p, "mark") /\ Current(p) = i
                                            /\ At(q, "mark") /\ Current(q) = j
      BY <1>6
    <2>2. p = q
      BY <2>1 DEF HandOver, Alone, Calm, At
    <2>3. QED
      BY <2>1, <2>2
  <1>7. CASE contacts[c].call = i /\ contacts[c].call = j
    BY <1>7
  <1>8. QED
    BY <1>1, <1>2, <1>3, <1>4, <1>5, <1>6, <1>7

\* Without a failure, a contact in progress whose call is over and whose hook has
\* nothing left to do was looked for before the dispatcher wrote its callId, or its
\* session was registered after the call had ended.
LEMMA StuckHasCause ==
  ASSUME Fit, Waiting
  PROVE  StuckContactHasACause
  <1> SUFFICES ASSUME NEW c \in Contacts, Stuck(c), ~(history.writes + history.crashes > 0)
               PROVE  \/ calls[contacts[c].call].hook = "unmatched"
                      \/ calls[contacts[c].call].session = "stranded"
    BY DEF StuckContactHasACause
  <1> DEFINE i == contacts[c].call
  <1>1. history.writes = 0 /\ history.crashes = 0
    <2>1. history.writes \in Nat /\ history.crashes \in Nat
      BY DEF Fit, Parts, TypeOK
    <2>2. QED
      BY <2>1
  <1>2. calls[i].session \in {"live", "over", "stranded"} /\ calls[i].hook # "done"
    BY <1>1 DEF Waiting, ContactAwaits, Stuck
  <1>3. /\ calls[i].session \in {"over", "missed", "stranded"}
        /\ calls[i].hook \notin {"find"} \cup ContactStatus
    BY DEF Stuck
  <1>4. i \in DOMAIN calls
    BY DEF Stuck, Fit, CallsFit, ContactFits
  <1>5. calls[i].session = "over" => calls[i].hook # "none"
    BY <1>4 DEF Fit, CallsFit, CallFits
  <1>6. calls[i].hook \in {"none", "find", "PENDING", "COMPLETED", "FAILED", "unmatched", "done"}
    <2>1. calls[i] \in Call
      BY <1>4, CallParts DEF Fit, Parts
    <2>2. QED
      BY <2>1 DEF Call
  <1>7. QED
    BY <1>2, <1>3, <1>5, <1>6 DEF ContactStatus

\* A contact is on one call at a time and is given back when the call ends, but for
\* passes that overlap, a run repeated while its calls go on, a failed write, a crash, and
\* the two races of a call's end with the dispatcher's own writes.
THEOREM ContactsAreHandedOver == Spec => []ContactIsHandedOver
  <1>1. Init => Waiting
    BY InitFit
  <1>2. Fit /\ Waiting /\ [Next]_vars => Waiting'
    BY WaitingNext
  <1>3. Fit /\ HandOver => DialledTwiceHasACause
    <2>1. ASSUME Fit, HandOver, NEW c \in Contacts, Cardinality(LiveCallsOf(c)) > 1,
                 Calm, ~(history.writes > 0)
          PROVE  FALSE
      <3>1. history.writes = 0
        BY <2>1 DEF Fit, Parts, TypeOK
      <3>2. \A i, j \in LiveCallsOf(c) : i = j
        BY <2>1, <3>1, OneLiveCall
      <3>3. CASE LiveCallsOf(c) = {}
        BY <2>1, <3>3, FS_EmptySet
      <3>4. CASE LiveCallsOf(c) # {}
        <4>1. PICK i \in LiveCallsOf(c) : TRUE
          BY <3>4
        <4>2. LiveCallsOf(c) = {i}
          BY <3>2
        <4>3. Cardinality(LiveCallsOf(c)) = 1
          BY <4>2, FS_Singleton
        <4>4. QED
          BY <2>1, <4>3
      <3>5. QED
        BY <3>3, <3>4
    <2>2. QED
      BY <2>1 DEF DialledTwiceHasACause, Calm
  <1>4. Fit /\ HandOver /\ Waiting => ContactIsHandedOver
    BY <1>3, StuckHasCause DEF ContactIsHandedOver
  <1>5. QED
    BY <1>1, <1>2, <1>4, DispatcherTypeCorrect, HandOverAlways, PTL DEF Spec
=============================================================================
