--------------------------- MODULE TelephonyProofs ---------------------------
(***************************************************************************)
(* What is proved of the modules around a call (MCTelephony), for any      *)
(* number of trunks, lines, calls, handlers and failures: that the SIP     *)
(* engine runs the rows, that the client's PBX is mirrored, that a call    *)
(* leaves by a line of its client, that nothing escapes the pages of the   *)
(* CRM, and that a row left live has a cause.                              *)
(***************************************************************************)
EXTENDS MCTelephony, FiniteSetTheorems, WellFoundedInduction, TLAPS

(* Calls of administrators.                                                *)

TestCall == [at: {"idle", "dialled", "created", "tracked", "lost"},
             row: {"none", "COMPLETED", "FAILED"} \cup LiveStatus,
             channel: {"none", "dialling", "ringing", "up", "over"}]
TestEvents == {"RINGING", "ANSWERED"} \cup Terminal
Talk == [at: {"idle", "talking", "done", "failed"},
         row: {"none", "IN_PROGRESS", "COMPLETED", "ESCALATED", "FAILED"},
         turns: Nat, said: Nat]
AdminTyped ==
  /\ tests \in [TestCalls -> TestCall] /\ tracked \subseteq TestCalls
  /\ writes \in [TestCalls -> SUBSET TestEvents]
  /\ missed \in [TestCalls -> SUBSET (TestEvents \cup {"crossed"})]
  /\ talks \in [Simulations -> Talk]

\* Nothing is written of a call before it is tracked; the end of a channel is
\* being written, was missed or crossed, or is in the row.
TestFits(c) ==
  /\ tests[c].at \in {"idle", "dialled"} => tests[c].row = "none"
  /\ tests[c].at \in {"idle", "dialled", "created"} =>
       c \notin tracked /\ writes[c] = {}
  /\ c \in tracked => tests[c].at = "tracked"
  /\ tests[c].channel = "over" =>
       \/ writes[c] \cap Terminal # {}
       \/ missed[c] \cap {"ENDED", "FAILED", "crossed"} # {}
       \/ tests[c].row \in {"COMPLETED", "FAILED"}
TalkFits(s) ==
  talks[s].row = "IN_PROGRESS" => talks[s].at \in {"talking", "failed"}
AdminInv == /\ AdminTyped
            /\ \A c \in TestCalls : TestFits(c)
            /\ \A s \in Simulations : TalkFits(s)

\* A step about one call leaves the others and the talks as they are.
OneTest(c) ==
  /\ tests' \in [TestCalls -> TestCall] /\ tracked' \subseteq TestCalls
  /\ writes' \in [TestCalls -> SUBSET TestEvents]
  /\ missed' \in [TestCalls -> SUBSET (TestEvents \cup {"crossed"})]
  /\ talks' = talks
  /\ \A d \in TestCalls \ {c} :
       /\ tests'[d] = tests[d] /\ writes'[d] = writes[d]
       /\ missed'[d] = missed[d] /\ (d \in tracked' => d \in tracked)

\* The others fit as they did.
LEMMA OneTestFits ==
  ASSUME AdminInv, NEW c \in TestCalls, OneTest(c), TestFits(c)'
  PROVE  AdminInv'
  <1>1. AdminTyped' /\ \A s \in Simulations : TalkFits(s)'
    BY DEF AdminInv, AdminTyped, OneTest, TalkFits
  <1>2. ASSUME NEW d \in TestCalls \ {c}
        PROVE  TestFits(d)'
    BY <1>2 DEF AdminInv, OneTest, TestFits
  <1> QED
    BY <1>1, <1>2 DEF AdminInv

\* A test call is dialled, gets its row and is tracked.
LEMMA TestSteps ==
  ASSUME AdminInv, NEW c \in TestCalls,
         \/ DialTest(c) \/ CreateTestCall(c) \/ ReconcileTest(c)
         \/ \E old \in SUBSET tracked : TrackTestCall(c, old)
  PROVE  AdminInv'
  <1>0. AdminTyped /\ TestFits(c)
    BY DEF AdminInv
  <1>1. CASE DialTest(c)
    <2>1. OneTest(c)
      BY <1>0, <1>1 DEF DialTest, OfTalks, OneTest, AdminTyped, TestCall
    <2>2. TestFits(c)'
      BY <1>0, <1>1 DEF DialTest, AdminTyped, TestCall, TestFits
    <2> QED
      BY <2>1, <2>2, OneTestFits
  <1>2. CASE CreateTestCall(c)
    <2>1. OneTest(c)
      BY <1>0, <1>2 DEF CreateTestCall, OfTalks, OneTest, AdminTyped, TestCall,
                        LiveStatus
    <2>2. TestFits(c)'
      BY <1>0, <1>2 DEF CreateTestCall, AdminTyped, TestCall, TestFits
    <2> QED
      BY <2>1, <2>2, OneTestFits
  <1>3. CASE ReconcileTest(c)
    <2>1. OneTest(c)
      BY <1>0, <1>3 DEF ReconcileTest, OfTalks, OneTest, AdminTyped, TestCall
    <2>2. TestFits(c)'
      BY <1>0, <1>3 DEF ReconcileTest, AdminTyped, TestCall, TestFits, LiveStatus
    <2> QED
      BY <2>1, <2>2, OneTestFits
  <1>4. ASSUME NEW old \in SUBSET tracked, TrackTestCall(c, old)
        PROVE  AdminInv'
    <2>1. OneTest(c)
      BY <1>0, <1>4 DEF TrackTestCall, OfTalks, OneTest, AdminTyped, TestCall
    <2>2. TestFits(c)'
      BY <1>0, <1>4 DEF TrackTestCall, AdminTyped, TestCall, TestFits
    <2> QED
      BY <2>1, <2>2, OneTestFits
  <1> QED
    BY <1>1, <1>2, <1>3, <1>4

\* The engine tells of a channel.
LEMMA TestEventStep ==
  ASSUME AdminInv, NEW c \in TestCalls, NEW move \in ChannelMoves,
         TestEvent(c, move)
  PROVE  AdminInv'
  <1>0. AdminTyped /\ TestFits(c)
    BY DEF AdminInv
  <1>1. /\ move[2] \in TestEvents
        /\ move[3] \in {"ringing", "up", "over"}
        /\ move[3] = "over" => move[2] \in Terminal
    BY DEF ChannelMoves, TestEvents, Terminal
  <1>2. /\ tests[c].channel = move[1] /\ talks' = talks
        /\ tests' = [tests EXCEPT ![c].channel = move[3]]
    BY DEF TestEvent, OfTalks
  <1>3. /\ tests' \in [TestCalls -> TestCall]
        /\ \A d \in TestCalls \ {c} : tests'[d] = tests[d]
        /\ tests'[c].at = tests[c].at /\ tests'[c].row = tests[c].row
        /\ tests'[c].channel = move[3]
    BY <1>0, <1>1, <1>2 DEF AdminTyped, TestCall
  <1>4. CASE c \in tracked
    <2>1. /\ writes' = [writes EXCEPT ![c] = @ \cup {move[2]}]
          /\ tracked' = tracked \/ tracked' = tracked \ {c}
          /\ UNCHANGED missed
      BY <1>1, <1>4 DEF TestEvent, TestEvents
    <2>2. OneTest(c)
      BY <1>0, <1>1, <1>2, <1>3, <2>1 DEF OneTest, AdminTyped
    <2>3. writes'[c] = writes[c] \cup {move[2]}
      BY <1>0, <2>1 DEF AdminTyped
    <2>4. TestFits(c)'
      BY <1>0, <1>1, <1>3, <1>4, <2>1, <2>3 DEF TestFits
    <2> QED
      BY <2>2, <2>4, OneTestFits
  <1>5. CASE c \notin tracked
    <2>1. /\ missed' = [missed EXCEPT ![c] = @ \cup {move[2]}]
          /\ UNCHANGED <<writes, tracked>>
      BY <1>5 DEF TestEvent
    <2>2. OneTest(c)
      BY <1>0, <1>1, <1>2, <1>3, <2>1 DEF OneTest, AdminTyped
    <2>3. missed'[c] = missed[c] \cup {move[2]}
      BY <1>0, <2>1 DEF AdminTyped
    <2>4. TestFits(c)'
      BY <1>0, <1>1, <1>3, <1>5, <2>1, <2>3 DEF TestFits, Terminal
    <2> QED
      BY <2>2, <2>4, OneTestFits
  <1> QED
    BY <1>4, <1>5

\* An update is written or fails.
LEMMA TestUpdate ==
  ASSUME AdminInv, NEW c \in TestCalls, NEW event \in writes[c],
         ApplyTestEvent(c, event) \/ TestUpdateFails(c, event)
  PROVE  AdminInv'
  <1>0. AdminTyped /\ TestFits(c) /\ event \in TestEvents
    BY DEF AdminInv, AdminTyped
  <1>1. CASE ApplyTestEvent(c, event)
    <2>0. /\ RowAfter(event) \in {"RINGING", "IN_PROGRESS", "COMPLETED", "FAILED"}
          /\ event \in Terminal => RowAfter(event) \in {"COMPLETED", "FAILED"}
      BY <1>0 DEF RowAfter, TestEvents, Terminal
    <2>1. /\ writes' = [writes EXCEPT ![c] = @ \ {event}]
          /\ tests' = [tests EXCEPT ![c].row = RowAfter(event)]
          /\ tracked' = tracked /\ talks' = talks
      BY <1>1 DEF ApplyTestEvent, OfTalks
    <2>m. \/ tests[c].row \in LiveStatus /\ missed' = missed
          \/ missed' = [missed EXCEPT ![c] = @ \cup {"crossed"}]
      <3>1. missed' = IF tests[c].row \in LiveStatus THEN missed
                      ELSE [missed EXCEPT ![c] = @ \cup {"crossed"}]
        BY <1>1, Zenon DEF ApplyTestEvent
      <3> QED
        BY <3>1, Zenon
    <2>2. /\ tests' \in [TestCalls -> TestCall]
          /\ \A d \in TestCalls \ {c} : tests'[d] = tests[d]
          /\ tests'[c].at = tests[c].at /\ tests'[c].row = RowAfter(event)
          /\ tests'[c].channel = tests[c].channel
      BY <1>0, <2>0, <2>1 DEF AdminTyped, TestCall, LiveStatus
    <2>3. /\ writes'[c] = writes[c] \ {event}
          /\ \/ tests[c].row \in LiveStatus /\ missed'[c] = missed[c]
             \/ missed'[c] = missed[c] \cup {"crossed"}
      BY <1>0, <2>1, <2>m DEF AdminTyped
    <2>4. OneTest(c)
      BY <1>0, <2>1, <2>m, <2>2 DEF OneTest, AdminTyped
    <2>5. TestFits(c)'
      BY <1>0, <2>0, <2>1, <2>2, <2>3 DEF TestFits, LiveStatus
    <2> QED
      BY <2>4, <2>5, OneTestFits
  <1>2. CASE TestUpdateFails(c, event)
    <2>1. /\ writes' = [writes EXCEPT ![c] = @ \ {event}]
          /\ missed' = [missed EXCEPT ![c] = @ \cup {event}]
          /\ tracked' = tracked /\ talks' = talks /\ tests' = tests
      BY <1>2 DEF TestUpdateFails
    <2>2. /\ writes'[c] = writes[c] \ {event}
          /\ missed'[c] = missed[c] \cup {event}
      BY <1>0, <2>1 DEF AdminTyped
    <2>3. OneTest(c)
      BY <1>0, <2>1 DEF OneTest, AdminTyped
    <2>4. TestFits(c)'
      BY <1>0, <2>1, <2>2 DEF TestFits, Terminal
    <2> QED
      BY <2>3, <2>4, OneTestFits
  <1> QED
    BY <1>1, <1>2

\* A restart forgets the calls, and what was to be written is missed.
LEMMA RestartStep ==
  ASSUME AdminInv, RestartApi
  PROVE  AdminInv'
  <1>0. AdminTyped
    BY DEF AdminInv
  <1>1. /\ tracked' = {}
        /\ missed' = [c \in TestCalls |-> missed[c] \cup writes[c]]
        /\ writes' = [c \in TestCalls |-> {}]
        /\ tests' = [c \in TestCalls |->
                       IF tests[c].at \in {"dialled", "created"}
                       THEN [tests[c] EXCEPT !.at = "lost"] ELSE tests[c]]
        /\ talks' = [s \in Simulations |->
                       IF talks[s].at = "talking"
                       THEN [talks[s] EXCEPT !.at = "failed"] ELSE talks[s]]
    BY DEF RestartApi
  <1>2. ASSUME NEW c \in TestCalls
        PROVE  /\ tests'[c] \in TestCall
               /\ tests'[c].row = tests[c].row
               /\ tests'[c].channel = tests[c].channel
               /\ tests'[c].at = tests[c].at \/ tests'[c].at = "lost"
               /\ missed'[c] = missed[c] \cup writes[c] /\ writes'[c] = {}
    BY <1>0, <1>1 DEF AdminTyped, TestCall
  <1>3. ASSUME NEW s \in Simulations
        PROVE  talks'[s] \in Talk /\ TalkFits(s)'
    BY <1>0, <1>1 DEF AdminInv, AdminTyped, Talk, TalkFits
  <1>4. AdminTyped'
    BY <1>0, <1>1, <1>2, <1>3 DEF AdminTyped
  <1>5. ASSUME NEW c \in TestCalls
        PROVE  TestFits(c)'
    <2>1. TestFits(c)
      BY DEF AdminInv
    <2> QED
      BY <1>1, <1>2, <2>1 DEF TestFits, Terminal
  <1> QED
    BY <1>3, <1>4, <1>5 DEF AdminInv

\* A simulation goes on.
LEMMA TalkSteps ==
  ASSUME AdminInv, NEW s \in Simulations,
         \/ \E said \in 1..MaxUtterances : StartTalk(s, said)
         \/ TalkTurn(s) \/ TalkFails(s) \/ ReconcileTalk(s)
         \/ \E status \in {"COMPLETED", "ESCALATED"} : EndTalk(s, status)
  PROVE  AdminInv'
  <1>0. AdminTyped /\ TalkFits(s) /\ talks[s] \in Talk
    BY DEF AdminInv, AdminTyped
  <1>1. UNCHANGED <<tests, tracked, writes, missed>>
    BY DEF StartTalk, TalkTurn, TalkFails, ReconcileTalk, EndTalk, OfTests
  <1>2. PICK new \in Talk :
          /\ talks' = [talks EXCEPT ![s] = new]
          /\ new.row = "IN_PROGRESS" => new.at \in {"talking", "failed"}
    <2>1. ASSUME NEW said \in 1..MaxUtterances, StartTalk(s, said)
          PROVE  \E new \in Talk :
                   /\ talks' = [talks EXCEPT ![s] = new]
                   /\ new.row = "IN_PROGRESS" => new.at \in {"talking", "failed"}
      <3> DEFINE new == [at |-> "talking", row |-> "IN_PROGRESS", turns |-> 0,
                         said |-> said]
      <3>1. new \in Talk /\ new.at = "talking"
        BY AdminCallsAssumption DEF Talk
      <3>2. talks' = [talks EXCEPT ![s] = new]
        BY <2>1 DEF StartTalk
      <3> HIDE DEF new
      <3> QED
        BY <3>1, <3>2
    <2>2. CASE TalkTurn(s)
      <3> DEFINE new == [talks[s] EXCEPT !.turns = @ + 1]
      <3>1. /\ new \in Talk /\ new.at = talks[s].at /\ new.row = talks[s].row
            /\ talks[s].at = "talking"
        BY <1>0, <2>2 DEF Talk, TalkTurn
      <3>2. talks' = [talks EXCEPT ![s] = new]
        BY <1>0, <2>2 DEF TalkTurn, AdminTyped
      <3> HIDE DEF new
      <3> QED
        BY <3>1, <3>2
    <2>3. CASE TalkFails(s)
      <3> DEFINE new == [talks[s] EXCEPT !.at = "failed"]
      <3>1. new \in Talk /\ new.at = "failed"
        BY <1>0 DEF Talk
      <3>2. talks' = [talks EXCEPT ![s] = new]
        BY <1>0, <2>3 DEF TalkFails, AdminTyped
      <3> HIDE DEF new
      <3> QED
        BY <3>1, <3>2
    <2>4. CASE ReconcileTalk(s)
      <3> DEFINE new == [talks[s] EXCEPT !.row = "FAILED"]
      <3>1. new \in Talk /\ new.row = "FAILED"
        BY <1>0 DEF Talk
      <3>2. talks' = [talks EXCEPT ![s] = new]
        BY <1>0, <2>4 DEF ReconcileTalk, AdminTyped
      <3> HIDE DEF new
      <3> QED
        BY <3>1, <3>2
    <2>5. ASSUME NEW status \in {"COMPLETED", "ESCALATED"}, EndTalk(s, status)
          PROVE  \E new \in Talk :
                   /\ talks' = [talks EXCEPT ![s] = new]
                   /\ new.row = "IN_PROGRESS" => new.at \in {"talking", "failed"}
      <3> DEFINE new == [talks[s] EXCEPT !.at = "done", !.row = status]
      <3>1. new \in Talk /\ new.row = status
        BY <1>0 DEF Talk
      <3>2. talks' = [talks EXCEPT ![s] = new]
        BY <1>0, <2>5, Zenon DEF EndTalk, AdminTyped
      <3> HIDE DEF new
      <3> QED
        BY <3>1, <3>2
    <2> QED
      BY <2>1, <2>2, <2>3, <2>4, <2>5
  <1>3. AdminTyped' /\ \A u \in Simulations : TalkFits(u)'
    BY <1>0, <1>1, <1>2 DEF AdminInv, AdminTyped, TalkFits
  <1>4. \A c \in TestCalls : TestFits(c)'
    BY <1>1 DEF AdminInv, TestFits
  <1> QED
    BY <1>3, <1>4 DEF AdminInv

LEMMA AdminInvInit ==
  ASSUME AdminInit
  PROVE  AdminInv
  BY DEF AdminInit, AdminInv, AdminTyped, TestFits, TalkFits, TestCall, Talk,
         NoTestCall, NoTalk

LEMMA AdminInvStays ==
  ASSUME AdminInv, AdminNext
  PROVE  AdminInv'
  BY TestSteps, TestEventStep, TestUpdate, RestartStep, TalkSteps DEF AdminNext

LEMMA AdminInvStutters ==
  ASSUME AdminInv, UNCHANGED adminVars
  PROVE  AdminInv'
  BY DEF AdminInv, AdminTyped, TestFits, TalkFits, adminVars

LEMMA AdminInvExplains ==
  ASSUME AdminInv
  PROVE  AdminTypeOK /\ LiveRowHasACause
  <1>1. AdminTypeOK
    BY DEF AdminInv, AdminTyped, AdminTypeOK, TestFits, TestEvents
  <1>2. LiveRowHasACause
    BY DEF AdminInv, TestFits, TalkFits, LiveRowHasACause, LiveStatus
  <1> QED
    BY <1>1, <1>2

\* An administrator's call whose row is left live has a cause: its end was
\* missed, its update failed or another landed after it, for any calls,
\* talks and restarts (AdminCalls.tla).
THEOREM LiveRowsHaveCauses == AdminSpec => []LiveRowHasACause
  <1>1. AdminInv /\ [AdminNext]_adminVars => AdminInv'
    BY AdminInvStays, AdminInvStutters
  <1> QED
    BY <1>1, AdminInvInit, AdminInvExplains, PTL DEF AdminSpec

(***************************************************************************)
(* The page of direct calls.                                               *)

PageState == [shown : PageCalls \cup {NoPageCall}, dial : PageCalls \cup {NoPageCall},
              hangup : PageCalls \cup {NoPageCall}]
Asked == [of : PageCalls, says : {"asked", "active", "over"}]
PageTyped ==
  /\ pcalls \in [PageCalls -> {"free", "asked", "live", "over"}]
  /\ page \in PageState /\ polls \subseteq Asked /\ forgotten \subseteq PageCalls
  /\ causes \in [PageCalls -> SUBSET Causes]

\* Any call of the page but this one has a cause.
OnlyOfPage(of) ==
  \A c \in PageCalls : c \in {page.shown, page.dial} /\ c # of => causes[c] # {}

\* A dial is answered before its call is shown, and a call is placed before.
\* Whoever asks to hang up, or whether a call goes on, asks for the page's call.
PageFits ==
  /\ page.dial # NoPageCall =>
       page.shown = NoPageCall /\ pcalls[page.dial] \in {"asked", "live", "over"}
  /\ page.shown # NoPageCall => pcalls[page.shown] \in {"live", "over"}
  /\ page.hangup # NoPageCall =>
       pcalls[page.hangup] \in {"live", "over"} /\ OnlyOfPage(page.hangup)
PollFits(p) ==
  /\ pcalls[p.of] \in {"live", "over"} /\ OnlyOfPage(p.of)
  /\ p.says = "over" => pcalls[p.of] = "over" \/ causes[p.of] # {}
PageCallFits(c) ==
  /\ c \in forgotten => causes[c] # {}
  /\ pcalls[c] \in {"asked", "live"} /\ causes[c] = {} => c \in {page.shown, page.dial}
PageInv == /\ PageTyped /\ PageFits
           /\ \A p \in polls : PollFits(p)
           /\ \A c \in PageCalls : PageCallFits(c)

\* An excuse is added to those of the calls it is for.
LEMMA Excuses ==
  ASSUME PageTyped, NEW why \in Causes, NEW calls, Excuse(why, calls)
  PROVE  /\ causes' \in [PageCalls -> SUBSET Causes]
         /\ \A c \in PageCalls : c \in calls => causes'[c] # {}
         /\ \A c \in PageCalls : c \notin calls => causes'[c] = causes[c]
         /\ \A c \in PageCalls : causes[c] # {} => causes'[c] # {}
  BY DEF PageTyped, Excuse

LEMMA CausesAre ==
  /\ "left" \in Causes /\ "lost" \in Causes /\ "hangup" \in Causes
  /\ "unseen" \in Causes /\ "crossed" \in Causes
  BY DEF Causes

\* The record of the page, field by field.
LEMMA PageRecord ==
  ASSUME PageTyped, NEW c \in PageCalls
  PROVE  /\ [page EXCEPT !.dial = c] \in PageState
         /\ [page EXCEPT !.dial = c].dial = c
         /\ [page EXCEPT !.dial = c].shown = page.shown
         /\ [page EXCEPT !.dial = c].hangup = page.hangup
  BY DEF PageTyped, PageState

\* A call is asked for.
LEMMA DialStep ==
  ASSUME PageInv, NEW c \in PageCalls, HandleDial(c)
  PROVE  PageInv'
  <1>0. PageTyped /\ PageFits /\ c # NoPageCall
    BY NoPageCallAssumption DEF PageInv
  <1>1. /\ pcalls[c] = "free" /\ page.shown = NoPageCall /\ page.dial = NoPageCall
        /\ pcalls' = [pcalls EXCEPT ![c] = "asked"]
        /\ page' = [page EXCEPT !.dial = c]
        /\ polls' = polls /\ forgotten' = forgotten
    BY DEF HandleDial
  <1>2. /\ pcalls' \in [PageCalls -> {"free", "asked", "live", "over"}]
        /\ pcalls'[c] = "asked" /\ \A d \in PageCalls \ {c} : pcalls'[d] = pcalls[d]
    BY <1>0, <1>1 DEF PageTyped
  <1>3. /\ page' \in PageState /\ page'.dial = c /\ page'.shown = NoPageCall
        /\ page'.hangup = page.hangup
    BY <1>0, <1>1 DEF PageTyped, PageState
  <1>4. /\ causes' \in [PageCalls -> SUBSET Causes]
        /\ \A d \in PageCalls \ {c} : causes'[d] = causes[d]
        /\ causes[c] # {} => causes'[c] # {}
        /\ polls # {} \/ page.hangup # NoPageCall => causes'[c] # {}
    <2>1. CASE polls = {} /\ page.hangup = NoPageCall
      BY <1>0, <2>1 DEF HandleDial, PageTyped
    <2>2. CASE ~(polls = {} /\ page.hangup = NoPageCall)
      <3>1. Excuse("crossed", {c})
        BY <2>2 DEF HandleDial
      <3> QED
        BY <1>0, <3>1, Excuses, CausesAre
    <2> QED
      BY <2>1, <2>2
  <1>5. PageTyped' /\ PageFits'
    BY <1>0, <1>1, <1>2, <1>3, <1>4 DEF PageTyped, PageState, PageFits, OnlyOfPage
  <1>6. ASSUME NEW p \in polls'
        PROVE  PollFits(p)'
    <2>1. PollFits(p) /\ p.of \in PageCalls
      BY <1>1 DEF PageInv, PageTyped, Asked
    <2> QED
      BY <1>1, <1>2, <1>3, <1>4, <2>1 DEF PollFits, OnlyOfPage
  <1>7. ASSUME NEW d \in PageCalls
        PROVE  PageCallFits(d)'
    BY <1>1, <1>2, <1>3, <1>4 DEF PageInv, PageCallFits
  <1> QED
    BY <1>5, <1>6, <1>7 DEF PageInv

\* A call is placed, refused or ends; nothing is asked of the page.
LEMMA CallSteps ==
  ASSUME PageInv, NEW c \in PageCalls,
         PlaceDirectCall(c) \/ RefuseDirectCall(c) \/ PartyEnds(c)
  PROVE  PageInv'
  <1>0. PageTyped /\ PageFits /\ c # NoPageCall /\ PageCallFits(c)
    BY NoPageCallAssumption DEF PageInv
  <1>1. polls' = polls /\ forgotten' = forgotten /\ causes' = causes
    BY DEF PlaceDirectCall, RefuseDirectCall, PartyEnds
  <1>2. PICK v \in {"live", "over"} :
          /\ pcalls' = [pcalls EXCEPT ![c] = v]
          /\ pcalls[c] = "asked" \/ (pcalls[c] = "live" /\ v = "over")
          /\ page' = page \/ (v = "over" /\ page.dial = c /\ page' = [page EXCEPT !.dial = NoPageCall])
    <2>1. CASE PlaceDirectCall(c) \/ PartyEnds(c)
      BY <2>1 DEF PlaceDirectCall, PartyEnds
    <2>2. CASE RefuseDirectCall(c)
      <3>1. page' = IF page.dial = c THEN [page EXCEPT !.dial = NoPageCall] ELSE page
        BY <2>2 DEF RefuseDirectCall
      <3> QED
        BY <2>2, <3>1 DEF RefuseDirectCall
    <2> QED
      BY <2>1, <2>2
  <1>3. /\ pcalls' \in [PageCalls -> {"free", "asked", "live", "over"}]
        /\ pcalls'[c] = v /\ \A d \in PageCalls \ {c} : pcalls'[d] = pcalls[d]
    BY <1>0, <1>2 DEF PageTyped
  <1>4. /\ page' \in PageState /\ page'.shown = page.shown /\ page'.hangup = page.hangup
        /\ page'.dial = page.dial \/ (v = "over" /\ page.dial = c /\ page'.dial = NoPageCall)
    BY <1>0, <1>2 DEF PageTyped, PageState
  <1>5. PageTyped'
    BY <1>0, <1>1, <1>3, <1>4 DEF PageTyped
  <1>6. PageFits'
    BY <1>0, <1>1, <1>2, <1>3, <1>4, NoPageCallAssumption
       DEF PageTyped, PageState, PageFits, OnlyOfPage
  <1>7. ASSUME NEW p \in polls'
        PROVE  PollFits(p)'
    <2>1. PollFits(p) /\ p.of \in PageCalls
      BY <1>1 DEF PageInv, PageTyped, Asked
    <2> QED
      BY <1>1, <1>2, <1>3, <1>4, <2>1, NoPageCallAssumption DEF PollFits, OnlyOfPage
  <1>8. ASSUME NEW d \in PageCalls
        PROVE  PageCallFits(d)'
    <2>1. PageCallFits(d)
      BY DEF PageInv
    <2> QED
      BY <1>0, <1>1, <1>2, <1>3, <1>4, <2>1 DEF PageCallFits
  <1> QED
    BY <1>5, <1>6, <1>7, <1>8 DEF PageInv

\* The page hears of a dial, or asks for what it shows.
LEMMA PageSteps ==
  ASSUME PageInv,
         \/ \E c \in PageCalls : DialSucceeds(c) \/ DialIsLost(c)
         \/ HandleHangup \/ HangupIsRefused
  PROVE  PageInv'
  <1>0. PageTyped /\ PageFits
    BY DEF PageInv
  <1>1. pcalls' = pcalls /\ polls' = polls /\ forgotten' = forgotten
    <2>1. CASE \E c \in PageCalls : DialSucceeds(c) \/ DialIsLost(c)
      BY <2>1, Zenon DEF DialSucceeds, DialIsLost
    <2>2. CASE HandleHangup \/ HangupIsRefused
      BY <2>2, Zenon DEF HandleHangup, HangupIsRefused
    <2> QED
      BY <2>1, <2>2
  <1>2. /\ causes' \in [PageCalls -> SUBSET Causes]
        /\ \A c \in PageCalls : causes[c] # {} => causes'[c] # {}
    <2>1. CASE causes' = causes
      BY <1>0, <2>1 DEF PageTyped
    <2>2. CASE \E c \in PageCalls : Excuse("lost", {c})
      BY <1>0, <2>2, Excuses, CausesAre
    <2>3. CASE \E c \in PageCalls : DialSucceeds(c) \/ DialIsLost(c)
      BY <2>1, <2>2, <2>3, Zenon DEF DialSucceeds, DialIsLost
    <2>4. CASE HandleHangup \/ HangupIsRefused
      BY <2>1, <2>4, Zenon DEF HandleHangup, HangupIsRefused
    <2> QED
      BY <2>3, <2>4
  <1>3. /\ page' \in PageState
        /\ \/ \* the call is shown
              /\ page.dial # NoPageCall /\ pcalls[page.dial] \in {"live", "over"}
              /\ page'.shown = page.dial /\ page'.dial = NoPageCall
              /\ page'.hangup = page.hangup
           \/ \* or its dial lost
              /\ page.dial # NoPageCall => causes'[page.dial] # {}
              /\ page'.shown = page.shown /\ page'.dial = NoPageCall
              /\ page'.hangup = page.hangup
           \/ \* or to be hung up, or not
              /\ page'.shown = page.shown /\ page'.dial = page.dial
              /\ \/ page'.hangup = NoPageCall
                 \/ page.shown # NoPageCall /\ page'.hangup = page.shown
    <2>1. ASSUME NEW c \in PageCalls, DialSucceeds(c)
          PROVE  /\ page.dial # NoPageCall /\ pcalls[page.dial] \in {"live", "over"}
                 /\ page'.shown = page.dial /\ page'.dial = NoPageCall
                 /\ page'.hangup = page.hangup /\ page' \in PageState
      <3>1. /\ page.dial = c /\ pcalls[c] \in {"live", "over"}
            /\ page' = [page EXCEPT !.shown = c, !.dial = NoPageCall]
        BY <2>1, Zenon DEF DialSucceeds
      <3>2. c # NoPageCall
        BY NoPageCallAssumption
      <3> QED
        BY <1>0, <3>1, <3>2 DEF PageTyped, PageState
    <2>2. ASSUME NEW c \in PageCalls, DialIsLost(c)
          PROVE  /\ causes'[page.dial] # {}
                 /\ page'.shown = page.shown /\ page'.dial = NoPageCall
                 /\ page'.hangup = page.hangup /\ page' \in PageState
      <3>1. /\ page.dial = c /\ Excuse("lost", {c})
            /\ page' = [page EXCEPT !.dial = NoPageCall]
        BY <2>2, Zenon DEF DialIsLost
      <3>2. causes'[c] # {}
        BY <1>0, <3>1, Excuses, CausesAre
      <3> QED
        BY <1>0, <3>1, <3>2 DEF PageTyped, PageState
    <2>3. CASE HandleHangup
      BY <1>0, <2>3 DEF HandleHangup, PageTyped, PageState
    <2>4. CASE HangupIsRefused
      BY <1>0, <2>4 DEF HangupIsRefused, AfterRefusedHangup, PageTyped, PageState
    <2> QED
      BY <2>1, <2>2, <2>3, <2>4
  <1>5. PageTyped'
    BY <1>0, <1>1, <1>2, <1>3 DEF PageTyped
  <1>6. PageFits'
    BY <1>0, <1>1, <1>2, <1>3, NoPageCallAssumption
       DEF PageTyped, PageState, PageFits, OnlyOfPage
  <1>7. ASSUME NEW p \in polls'
        PROVE  PollFits(p)'
    <2>1. PollFits(p) /\ p.of \in PageCalls
      BY <1>1 DEF PageInv, PageTyped, Asked
    <2> QED
      BY <1>1, <1>2, <1>3, <2>1, NoPageCallAssumption DEF PollFits, OnlyOfPage
  <1>8. ASSUME NEW d \in PageCalls
        PROVE  PageCallFits(d)'
    <2>1. PageCallFits(d) /\ d # NoPageCall
      BY NoPageCallAssumption DEF PageInv
    <2> QED
      BY <1>0, <1>1, <1>2, <1>3, <2>1 DEF PageCallFits, PageFits
  <1> QED
    BY <1>5, <1>6, <1>7, <1>8 DEF PageInv

\* A hang-up is answered: the page forgets what it shows.
LEMMA HangupStep ==
  ASSUME PageInv, HangupSucceeds
  PROVE  PageInv'
  <1> DEFINE h == page.hangup
  <1>0. PageTyped /\ PageFits /\ h \in PageCalls
    <2>1. h # NoPageCall
      BY Zenon DEF HangupSucceeds
    <2> QED
      BY <2>1 DEF PageInv, PageTyped, PageState
  <1>1. /\ polls' = polls /\ forgotten' = forgotten /\ h # NoPageCall
        /\ page' = [page EXCEPT !.shown = NoPageCall, !.hangup = NoPageCall]
    BY Zenon DEF HangupSucceeds
  <1>2. /\ page' \in PageState /\ page'.shown = NoPageCall /\ page'.hangup = NoPageCall
        /\ page'.dial = page.dial
    BY <1>0, <1>1 DEF PageTyped, PageState
  <1>3. /\ pcalls' \in [PageCalls -> {"free", "asked", "live", "over"}]
        /\ causes' \in [PageCalls -> SUBSET Causes]
        /\ \A c \in PageCalls : causes[c] # {} => causes'[c] # {}
        /\ \A c \in PageCalls \ {h} : pcalls'[c] = pcalls[c]
        /\ pcalls'[h] = "over" \/ (pcalls'[h] = pcalls[h] /\ causes'[h] # {})
    <2>1. CASE pcalls' = [pcalls EXCEPT ![page.hangup] = "over"] /\ causes' = causes
      BY <1>0, <2>1 DEF PageTyped
    <2>2. CASE Excuse("hangup", {page.hangup}) /\ pcalls' = pcalls
      BY <1>0, <2>2, Excuses, CausesAre DEF PageTyped
    <2> QED
      BY <2>1, <2>2, Zenon DEF HangupSucceeds
  <1>4. pcalls[h] \in {"live", "over"} /\ OnlyOfPage(h)
    BY <1>0, <1>1 DEF PageFits
  <1> HIDE DEF h
  <1>5. PageTyped'
    BY <1>0, <1>1, <1>2, <1>3 DEF PageTyped
  <1>6. PageFits'
    BY <1>0, <1>2, <1>3, <1>4, NoPageCallAssumption DEF PageTyped, PageState, PageFits, OnlyOfPage
  <1>7. ASSUME NEW p \in polls'
        PROVE  PollFits(p)'
    <2>1. PollFits(p) /\ p.of \in PageCalls
      BY <1>1 DEF PageInv, PageTyped, Asked
    <2> QED
      BY <1>2, <1>3, <1>4, <2>1, NoPageCallAssumption DEF PollFits, OnlyOfPage
  <1>8. ASSUME NEW d \in PageCalls
        PROVE  PageCallFits(d)'
    <2>1. PageCallFits(d) /\ d # NoPageCall
      BY NoPageCallAssumption DEF PageInv
    <2> QED
      BY <1>0, <1>1, <1>2, <1>3, <1>4, <2>1 DEF PageCallFits, OnlyOfPage
  <1> QED
    BY <1>5, <1>6, <1>7, <1>8 DEF PageInv

\* The page asks about its call, and is told.
LEMMA PollSteps ==
  ASSUME PageInv,
         \/ PollStatus
         \/ \E p \in polls : DirectStatus(p) \/ StatusFails(p)
  PROVE  PageInv'
  <1>0. PageTyped /\ PageFits
    BY DEF PageInv
  <1>1. pcalls' = pcalls /\ page' = page /\ forgotten' = forgotten
    BY DEF PollStatus, DirectStatus, StatusFails
  <1>2. /\ causes' \in [PageCalls -> SUBSET Causes]
        /\ \A c \in PageCalls : causes[c] # {} => causes'[c] # {}
    <2>1. CASE causes' = causes
      BY <1>0, <2>1 DEF PageTyped
    <2>2. CASE \E p \in polls : Excuse("unseen", {p.of})
      BY <1>0, <2>2, Excuses, CausesAre
    <2> QED
      BY <2>1, <2>2 DEF PollStatus, DirectStatus, StatusFails
  <1>3. ASSUME NEW p \in polls
        PROVE  PollFits(p)' /\ p \in Asked
    <2>1. PollFits(p) /\ p.of \in PageCalls /\ p \in Asked
      BY DEF PageInv, PageTyped, Asked
    <2> QED
      BY <1>1, <1>2, <2>1 DEF PollFits, OnlyOfPage
  <1>4. ASSUME NEW q \in polls', q \notin polls
        PROVE  PollFits(q)' /\ q \in Asked
    <2>1. CASE PollStatus
      <3>1. page.shown # NoPageCall /\ polls' = polls \cup {Question(page.shown)}
        BY <2>1 DEF PollStatus
      <3>2. q = [of |-> page.shown, says |-> "asked"] /\ page.shown \in PageCalls
        BY <1>0, <1>4, <3>1 DEF Question, PageTyped, PageState
      <3>3. q \in Asked /\ q.of = page.shown /\ q.says = "asked"
        BY <3>2 DEF Asked
      <3> QED
        BY <1>0, <1>1, <3>1, <3>3, NoPageCallAssumption DEF PollFits, OnlyOfPage, PageFits
    <2>2. ASSUME NEW p \in polls, DirectStatus(p)
          PROVE  PollFits(q)' /\ q \in Asked
      <3>0. PollFits(p) /\ p \in Asked /\ p.of \in PageCalls
        BY DEF PageInv, PageTyped, Asked
      <3>1. PICK says \in {"active", "over"} :
              /\ polls' = (polls \ {p}) \cup {[p EXCEPT !.says = says]}
              /\ says = "over" => \/ ~(pcalls[p.of] = "live" /\ p.of \notin forgotten)
                                  \/ Excuse("unseen", {p.of})
        BY <2>2 DEF DirectStatus
      <3>2. q = [p EXCEPT !.says = says]
        BY <1>4, <3>1
      <3>3. q \in Asked /\ q.of = p.of /\ q.says = says
        BY <3>0, <3>2 DEF Asked
      <3>4. says = "over" => pcalls[p.of] = "over" \/ causes'[p.of] # {}
        <4>1. CASE Excuse("unseen", {p.of})
          BY <1>0, <3>0, <4>1, Excuses, CausesAre
        <4>2. PageCallFits(p.of)
          BY <3>0 DEF PageInv
        <4> QED
          BY <1>2, <3>0, <3>1, <4>1, <4>2 DEF PollFits, PageCallFits
      <3>5. PollFits(p)'
        BY <1>3
      <3> QED
        BY <1>1, <3>3, <3>4, <3>5 DEF PollFits, OnlyOfPage
    <2>3. ASSUME NEW p \in polls, StatusFails(p)
          PROVE  FALSE
      BY <1>4, <2>3 DEF StatusFails
    <2> QED
      BY <2>1, <2>2, <2>3
  <1>5. PageTyped' /\ \A p \in polls' : PollFits(p)'
    BY <1>0, <1>1, <1>2, <1>3, <1>4 DEF PageTyped
  <1>6. PageFits'
    BY <1>0, <1>1, <1>2 DEF PageFits, OnlyOfPage
  <1>7. \A c \in PageCalls : PageCallFits(c)'
    BY <1>1, <1>2 DEF PageInv, PageCallFits
  <1> QED
    BY <1>5, <1>6, <1>7 DEF PageInv

\* An answer that the call is over takes it from the page.
LEMMA AnswerStep ==
  ASSUME PageInv, NEW p \in polls, StatusArrives(p)
  PROVE  PageInv'
  <1>0. PageTyped /\ PageFits /\ PollFits(p) /\ p.of \in PageCalls
    BY DEF PageInv, PageTyped, Asked
  <1>1. /\ pcalls' = pcalls /\ forgotten' = forgotten /\ causes' = causes
        /\ polls' = polls \ {p}
    BY DEF StatusArrives
  <1>2. /\ page' \in PageState /\ page'.dial = page.dial /\ page'.hangup = page.hangup
        /\ page'.shown = page.shown \/ (p.says = "over" /\ page'.shown = NoPageCall)
    BY <1>0 DEF StatusArrives, PageTyped, PageState
  <1>3. PageTyped' /\ PageFits'
    BY <1>0, <1>1, <1>2, NoPageCallAssumption
       DEF PageTyped, PageState, PageFits, OnlyOfPage
  <1>4. ASSUME NEW q \in polls'
        PROVE  PollFits(q)'
    <2>1. PollFits(q) /\ q.of \in PageCalls
      BY <1>1 DEF PageInv, PageTyped, Asked
    <2> QED
      BY <1>1, <1>2, <2>1, NoPageCallAssumption DEF PollFits, OnlyOfPage
  <1>5. ASSUME NEW c \in PageCalls
        PROVE  PageCallFits(c)'
    <2>1. PageCallFits(c) /\ c # NoPageCall
      BY NoPageCallAssumption DEF PageInv
    <2>2. CASE page'.shown = page.shown
      BY <1>1, <1>2, <2>1, <2>2 DEF PageCallFits
    <2>3. CASE p.says = "over"
      <3>1. pcalls[p.of] = "over" \/ causes[p.of] # {}
        BY <1>0, <2>3 DEF PollFits
      <3> QED
        BY <1>0, <1>1, <1>2, <2>1, <3>1 DEF PollFits, OnlyOfPage, PageCallFits, PageFits
    <2> QED
      BY <1>2, <2>2, <2>3
  <1> QED
    BY <1>3, <1>4, <1>5 DEF PageInv

\* A restart takes what was asked, and the engine's calls from its view.
LEMMA ApiStep ==
  ASSUME PageInv, RestartOfApi
  PROVE  PageInv'
  <1>0. PageTyped /\ PageFits
    BY DEF PageInv
  <1>1. polls' = polls /\ pcalls' = pcalls
    BY DEF RestartOfApi
  <1>2. /\ causes' \in [PageCalls -> SUBSET Causes]
        /\ \A c \in PageCalls : causes[c] # {} => causes'[c] # {}
        /\ \A c \in PageCalls : pcalls[c] = "asked" => causes'[c] # {}
        /\ \A c \in PageCalls : pcalls[c] = "live" /\ motor = "asterisk" => causes'[c] # {}
    <2>1. causes' = [c \in PageCalls |->
                       causes[c] \cup (IF c \in {d \in PageCalls : pcalls[d] = "asked"}
                                       THEN {"lost"} ELSE {})
                         \cup (IF c \in {d \in PageCalls : pcalls[d] = "live"} /\ motor = "asterisk"
                               THEN {"unseen"} ELSE {})]
      BY DEF RestartOfApi
    <2>2. ASSUME NEW c \in PageCalls
          PROVE  /\ causes'[c] \subseteq Causes /\ causes[c] \subseteq causes'[c]
                 /\ pcalls[c] = "asked" => "lost" \in causes'[c]
                 /\ pcalls[c] = "live" /\ motor = "asterisk" => "unseen" \in causes'[c]
      <3>1. causes[c] \subseteq Causes
        BY <1>0 DEF PageTyped
      <3>2. causes'[c] = causes[c] \cup (IF pcalls[c] = "asked" THEN {"lost"} ELSE {})
                           \cup (IF pcalls[c] = "live" /\ motor = "asterisk"
                                 THEN {"unseen"} ELSE {})
        BY <2>1, Zenon
      <3> QED
        BY <3>1, <3>2, CausesAre
    <2>3. causes' = [c \in PageCalls |-> causes'[c]]
      BY <2>1
    <2>4. causes' \in [PageCalls -> SUBSET Causes]
      BY <2>2, <2>3
    <2> QED
      BY <2>2, <2>4
  <1>3. /\ page' \in PageState /\ page'.shown = page.shown /\ page'.hangup = page.hangup
        /\ \/ page'.dial = page.dial
           \/ page'.dial = NoPageCall /\ (page.dial \in PageCalls => pcalls[page.dial] = "asked")
    <2>1. page' = IF page.dial \in {c \in PageCalls : pcalls[c] = "asked"}
                  THEN [page EXCEPT !.dial = NoPageCall] ELSE page
      BY DEF RestartOfApi
    <2> QED
      BY <1>0, <2>1 DEF PageTyped, PageState
  <1>4. /\ forgotten' \subseteq PageCalls
        /\ \A c \in forgotten' : \/ c \in forgotten
                                 \/ pcalls[c] = "asked"
                                 \/ pcalls[c] = "live" /\ motor = "asterisk"
    BY <1>0 DEF RestartOfApi, PageTyped
  <1>5. PageTyped' /\ PageFits'
    BY <1>0, <1>1, <1>2, <1>3, <1>4, NoPageCallAssumption
       DEF PageTyped, PageState, PageFits, OnlyOfPage
  <1>6. ASSUME NEW p \in polls'
        PROVE  PollFits(p)'
    <2>1. PollFits(p) /\ p.of \in PageCalls
      BY <1>1 DEF PageInv, PageTyped, Asked
    <2> QED
      BY <1>1, <1>2, <1>3, <2>1, NoPageCallAssumption DEF PollFits, OnlyOfPage
  <1>7. ASSUME NEW c \in PageCalls
        PROVE  PageCallFits(c)'
    <2>1. PageCallFits(c) /\ c # NoPageCall
      BY NoPageCallAssumption DEF PageInv
    <2> QED
      BY <1>1, <1>2, <1>3, <1>4, <2>1 DEF PageCallFits
  <1> QED
    BY <1>5, <1>6, <1>7 DEF PageInv

\* A page that is left takes nothing with it but excuses.
LEMMA LeaveStep ==
  ASSUME PageInv, LeaveCallPage
  PROVE  PageInv'
  <1>0. PageTyped
    BY DEF PageInv
  <1>1. /\ pcalls' = pcalls /\ forgotten' = forgotten /\ polls' = {}
        /\ page' = EmptyPage
        /\ Excuse("left", {c \in PageCalls : pcalls[c] \in {"asked", "live"}})
    BY DEF LeaveCallPage
  <1>2. /\ causes' \in [PageCalls -> SUBSET Causes]
        /\ \A c \in PageCalls : pcalls[c] \in {"asked", "live"} => causes'[c] # {}
        /\ \A c \in PageCalls : causes[c] # {} => causes'[c] # {}
    BY <1>0, <1>1, Excuses, CausesAre
  <1>3. /\ page' \in PageState /\ page'.shown = NoPageCall /\ page'.dial = NoPageCall
        /\ page'.hangup = NoPageCall
    BY <1>1 DEF EmptyPage, PageState
  <1>4. PageTyped' /\ PageFits'
    BY <1>0, <1>1, <1>2, <1>3 DEF PageTyped, PageFits
  <1>5. \A c \in PageCalls : PageCallFits(c)'
    BY <1>1, <1>2 DEF PageInv, PageCallFits
  <1> QED
    BY <1>1, <1>4, <1>5 DEF PageInv

LEMMA PageInvInit ==
  ASSUME PageInit
  PROVE  PageInv
  <1>1. PageTyped
    BY DEF PageInit, PageTyped, PageState, EmptyPage
  <1>2. PageFits /\ (\A p \in polls : PollFits(p)) /\ \A c \in PageCalls : PageCallFits(c)
    BY DEF PageInit, PageFits, PollFits, PageCallFits, EmptyPage
  <1> QED
    BY <1>1, <1>2 DEF PageInv

LEMMA PageInvStays ==
  ASSUME PageInv, PageNext
  PROVE  PageInv'
  BY DialStep, CallSteps, PageSteps, HangupStep, PollSteps, AnswerStep, ApiStep, LeaveStep
     DEF PageNext

LEMMA PageInvStutters ==
  ASSUME PageInv, UNCHANGED pageVars
  PROVE  PageInv'
  BY DEF PageInv, PageTyped, PageFits, PollFits, PageCallFits, OnlyOfPage, pageVars

LEMMA PageInvExplains ==
  ASSUME PageInv
  PROVE  PageTypeOK /\ LiveCallHasItsButton
  <1>1. PageTypeOK
    BY DEF PageInv, PageTyped, PageState, Asked, PageTypeOK
  <1>2. LiveCallHasItsButton
    BY DEF PageInv, PageCallFits, LiveCallHasItsButton
  <1> QED
    BY <1>1, <1>2

(***************************************************************************)
(* The webphone.                                                           *)

AgentStates == {"free", "fetching", "starting", "registered", "leaving", "stopped"}
CallStates == {"idle", "calling", "ringing", "incoming", "in-call", "ended"}
Shown == [line : WLines \cup {NoWLine}, call : CallStates,
          registration : {"unregistered", "registering", "registered", "failed"}]
Agent == [line : WLines \cup {NoWLine}, at : AgentStates]
PhoneSession == [agent : Selections \cup {NoSelection},
                 at : {"free", "new", "up", "over"}, out : BOOLEAN]
PhoneTyped ==
  /\ shown \in Shown /\ agents \in [Selections -> Agent]
  /\ sessions \in [WSessions -> PhoneSession]
  /\ current \in Selections \cup {NoSelection} /\ held \in WSessions \cup {NoWSession}
  /\ raced \subseteq Selections /\ crowded \subseteq WSessions

\* The user agent the page holds runs.  A pick that met no other is the only
\* one under way, of the line shown, and finds nothing running; a user agent
\* of such a pick is the one held, while nothing is picked.
CurrentFits == current # NoSelection => current \in Running
PickFits(s) ==
  s \in Fetching \ raced =>
    /\ \A t \in Fetching : t = s
    /\ agents[s].line = shown.line /\ \A t \in Running : t \in raced
RunFits(s) ==
  s \in Running \ raced =>
    Fetching = {} /\ s = current /\ agents[s].line = shown.line
SessionFits(c) ==
  c \in LiveSessions \ crowded =>
    \/ sessions[c].agent \in raced
    \/ c = held /\ sessions[c].agent = current /\ current # NoSelection
PhoneInv == /\ PhoneTyped /\ CurrentFits
            /\ \A s \in Selections : PickFits(s) /\ RunFits(s)
            /\ \A c \in WSessions : SessionFits(c)

\* A pick: what the page holds is torn down.
LEMMA PickStep ==
  ASSUME PhoneInv, NEW s \in Selections, NEW number \in WLines,
         SelectExtension(s, number)
  PROVE  PhoneInv'
  <1>0. /\ PhoneTyped /\ CurrentFits /\ agents[s].at = "free"
        /\ s # current /\ NoSelection \notin Selections
    BY WebphoneAssumption
       DEF PhoneInv, SelectExtension, CurrentFits, Running, PhoneTyped
  <1>1. /\ current' = NoSelection /\ held' = NoWSession /\ crowded' = crowded
        /\ shown' = [line |-> number, registration |-> "registering", call |-> "idle"]
        /\ raced' = IF Fetching = {} THEN raced ELSE raced \cup Fetching \cup {s}
    BY Zenon DEF SelectExtension
  <1>2. shown' \in Shown /\ shown'.line = number
    BY <1>1 DEF Shown, CallStates
  <1>3. /\ agents' \in [Selections -> Agent]
        /\ agents'[s].line = number /\ agents'[s].at = "fetching"
        /\ \A t \in Selections \ {s} :
             /\ agents'[t].line = agents[t].line
             /\ t = current => agents'[t].at \in {"leaving", "stopped"}
             /\ t # current => agents'[t].at = agents[t].at
    <2> DEFINE torn == TeardownUa
    <2>1. agents' = [torn EXCEPT ![s] = [line |-> number, at |-> "fetching"]]
      BY Zenon DEF SelectExtension
    <2>2. torn \in [Selections -> Agent]
      BY <1>0 DEF TeardownUa, PhoneTyped, Agent, AgentStates
    <2>3. ASSUME NEW t \in Selections
          PROVE  /\ torn[t].line = agents[t].line
                 /\ t = current => torn[t].at \in {"leaving", "stopped"}
                 /\ t # current => torn[t].at = agents[t].at
      BY <1>0 DEF TeardownUa, PhoneTyped, Agent, AgentStates
    <2>4. [line |-> number, at |-> "fetching"] \in Agent
      BY DEF Agent, AgentStates
    <2> HIDE DEF torn
    <2> QED
      BY <2>1, <2>2, <2>3, <2>4
  <1>4. /\ sessions' \in [WSessions -> PhoneSession]
        /\ \A c \in WSessions :
             /\ sessions'[c].agent = sessions[c].agent
             /\ sessions'[c].at = sessions[c].at \/ sessions'[c].at = "over"
             /\ c \in LiveSessions /\ sessions[c].agent = current /\ current # NoSelection
                  => sessions'[c].at = "over"
    <2>1. sessions' = [c \in WSessions |->
                         IF current # NoSelection /\ c \in Of(current)
                         THEN [sessions[c] EXCEPT !.at = "over"] ELSE sessions[c]]
      BY Zenon DEF SelectExtension
    <2> QED
      BY <1>0, <2>1 DEF PhoneTyped, PhoneSession, Of
  <1>5. raced' \subseteq Selections /\ raced \subseteq raced'
        /\ (Fetching # {} => s \in raced' /\ Fetching \subseteq raced')
        /\ (Fetching = {} => raced' = raced)
    BY <1>0, <1>1 DEF PhoneTyped, Fetching
  <1>6. PhoneTyped' /\ CurrentFits'
    BY <1>0, <1>1, <1>2, <1>3, <1>4, <1>5 DEF PhoneTyped, CurrentFits
  <1>7. \A t \in Selections : t \in Running' => t \in raced /\ t # s
    <2>1. SUFFICES ASSUME NEW t \in Selections, t \in Running'
                   PROVE  t \in raced /\ t # s
      OBVIOUS
    <2>2. t # s /\ t # current /\ t \in Running
      BY <1>3, <2>1 DEF Running
    <2>3. RunFits(t)
      BY DEF PhoneInv
    <2> QED
      BY <2>2, <2>3 DEF RunFits
  <1>8. ASSUME NEW t \in Selections
        PROVE  PickFits(t)' /\ RunFits(t)'
    <2>1. RunFits(t)'
      BY <1>5, <1>7 DEF RunFits
    <2>4. PickFits(t)
      BY DEF PhoneInv
    <2>2. CASE t = s
      <3>1. CASE Fetching # {}
        BY <1>5, <2>1, <2>2, <3>1 DEF PickFits
      <3>2. CASE Fetching = {}
        <4>1. \A u \in Selections : u \in Fetching' => u = s
          <5>1. SUFFICES ASSUME NEW u \in Selections, u \in Fetching', u # s
                         PROVE  FALSE
            OBVIOUS
          <5>2. agents'[u].at = "fetching" /\ u # current
            BY <1>3, <5>1 DEF Fetching
          <5> QED
            BY <1>3, <3>2, <5>1, <5>2 DEF Fetching
        <4>2. Fetching' \subseteq Selections /\ Running' \subseteq Selections
          BY DEF Fetching, Running
        <4> QED
          BY <1>2, <1>3, <1>5, <1>7, <2>1, <2>2, <4>1, <4>2 DEF PickFits
      <3> QED
        BY <3>1, <3>2
    <2>3. CASE t # s
      <3>1. t \in Fetching' => t \in Fetching
        BY <1>3, <2>3 DEF Fetching
      <3> QED
        BY <1>5, <2>1, <3>1, <2>4 DEF PickFits
    <2> QED
      BY <2>1, <2>2, <2>3
  <1>9. ASSUME NEW c \in WSessions
        PROVE  SessionFits(c)'
    <2>1. SessionFits(c)
      BY DEF PhoneInv
    <2>2. c \in LiveSessions' => c \in LiveSessions /\ sessions'[c].at # "over"
      BY <1>4 DEF LiveSessions
    <2> QED
      BY <1>1, <1>4, <1>5, <2>1, <2>2 DEF SessionFits
  <1> QED
    BY <1>6, <1>8, <1>9 DEF PhoneInv

\* The credentials of a pick arrive or fail.
LEMMA CredentialsStep ==
  ASSUME PhoneInv, NEW s \in Selections, CredentialsArrive(s) \/ CredentialsFail(s)
  PROVE  PhoneInv'
  <1>0. /\ PhoneTyped /\ CurrentFits /\ s \in Fetching /\ s # NoSelection
        /\ PickFits(s) /\ agents[s] \in Agent
    BY WebphoneAssumption
       DEF PhoneInv, CredentialsArrive, CredentialsFail, Fetching, PhoneTyped
  <1>1. UNCHANGED <<held, sessions, raced, crowded>>
    BY Zenon DEF CredentialsArrive, CredentialsFail
  <1>2. PICK at \in {"starting", "stopped"} :
          /\ agents' = [agents EXCEPT ![s].at = at]
          /\ at = "starting" => current' = s
          /\ at = "stopped" => current' = current
    BY Zenon DEF CredentialsArrive, CredentialsFail
  <1>3. shown' \in Shown /\ shown'.line = shown.line
    <2>1. shown' = shown \/ shown' = [shown EXCEPT !.registration = "failed"]
      BY Zenon DEF CredentialsArrive, CredentialsFail
    <2> QED
      BY <1>0, <2>1 DEF PhoneTyped, Shown
  <1>4. /\ agents' \in [Selections -> Agent]
        /\ agents'[s].at = at
        /\ \A t \in Selections : agents'[t].line = agents[t].line
        /\ \A t \in Selections \ {s} : agents'[t].at = agents[t].at
    BY <1>0, <1>2 DEF PhoneTyped, Agent, AgentStates
  <1>5. /\ Fetching' = Fetching \ {s}
        /\ Running' = IF at = "starting" THEN Running \cup {s} ELSE Running
        /\ s \notin Running
    BY <1>0, <1>4 DEF Fetching, Running
  <1>6. PhoneTyped' /\ CurrentFits'
    BY <1>0, <1>1, <1>2, <1>3, <1>4, <1>5 DEF PhoneTyped, CurrentFits
  <1>7. ASSUME NEW t \in Selections
        PROVE  PickFits(t)' /\ RunFits(t)'
    <2>1. PickFits(t) /\ RunFits(t)
      BY DEF PhoneInv
    <2>2. PickFits(t)'
      BY <1>0, <1>1, <1>3, <1>4, <1>5, <2>1 DEF PickFits
    <2>3. RunFits(t)'
      BY <1>0, <1>1, <1>2, <1>3, <1>4, <1>5, <2>1 DEF PickFits, RunFits
    <2> QED
      BY <2>2, <2>3
  <1>8. ASSUME NEW c \in WSessions
        PROVE  SessionFits(c)'
    <2>1. SessionFits(c) /\ LiveSessions' = LiveSessions
      BY <1>1 DEF PhoneInv, LiveSessions
    <2>2. CASE current' = current
      BY <1>1, <2>1, <2>2 DEF SessionFits
    <2>3. CASE current = NoSelection
      BY <1>1, <2>1, <2>3 DEF SessionFits
    <2>4. CASE current # NoSelection
      <3>1. current \in Selections /\ current \in Running /\ RunFits(current)
        BY <1>0, <2>4 DEF PhoneInv, PhoneTyped, CurrentFits
      <3>2. current \in raced
        BY <1>0, <3>1 DEF RunFits
      <3> QED
        BY <1>1, <2>1, <3>2 DEF SessionFits
    <2> QED
      BY <2>2, <2>3, <2>4
  <1> QED
    BY <1>6, <1>7, <1>8 DEF PhoneInv

\* A user agent reports.
LEMMA RegistrationStep ==
  ASSUME PhoneInv, NEW s \in Selections,
         Registered(s) \/ RegistrationFailed(s) \/ Unregistered(s)
  PROVE  PhoneInv'
  <1>0. PhoneTyped /\ CurrentFits
    BY DEF PhoneInv
  <1>1. PICK at \in {"starting", "registered", "stopped"},
             told \in {"registered", "failed", "unregistered"} :
          /\ Registration(s, at, told)
          /\ \/ s \in Running /\ at # "stopped"
             \/ agents[s].at = "leaving" /\ at = "stopped"
    BY DEF Registered, RegistrationFailed, Unregistered, Running
  <1>2. /\ agents' = [agents EXCEPT ![s].at = at]
        /\ shown' = [shown EXCEPT !.registration = told]
        /\ UNCHANGED <<current, held, sessions, raced, crowded>>
    BY <1>1, Zenon DEF Registration
  <1>3. shown' \in Shown /\ shown'.line = shown.line
    BY <1>0, <1>2 DEF PhoneTyped, Shown
  <1>4. /\ agents' \in [Selections -> Agent]
        /\ agents'[s].at = at
        /\ \A t \in Selections : agents'[t].line = agents[t].line
        /\ \A t \in Selections \ {s} : agents'[t].at = agents[t].at
    BY <1>0, <1>2 DEF PhoneTyped, Agent, AgentStates
  <1>5. Fetching' = Fetching /\ Running' = Running
    BY <1>1, <1>4 DEF Fetching, Running
  <1>6. PhoneTyped' /\ CurrentFits'
    BY <1>0, <1>2, <1>3, <1>4, <1>5 DEF PhoneTyped, CurrentFits
  <1>7. \A t \in Selections : PickFits(t)' /\ RunFits(t)'
    BY <1>2, <1>3, <1>4, <1>5 DEF PhoneInv, PickFits, RunFits
  <1>8. \A c \in WSessions : SessionFits(c)'
    BY <1>2 DEF PhoneInv, SessionFits, LiveSessions
  <1> QED
    BY <1>6, <1>7, <1>8 DEF PhoneInv

\* What leaves the user agents as they are leaves the picks so too.
PicksStay == /\ agents' = agents /\ current' = current /\ raced' = raced
             /\ shown' \in Shown /\ shown'.line = shown.line
LEMMA PicksFit ==
  ASSUME PhoneInv, PicksStay,
         sessions' \in [WSessions -> PhoneSession],
         held' \in WSessions \cup {NoWSession}, crowded' \subseteq WSessions,
         \A c \in WSessions : SessionFits(c)'
  PROVE  PhoneInv'
  <1>1. Fetching' = Fetching /\ Running' = Running
    BY DEF PicksStay, Fetching, Running
  <1>2. PhoneTyped' /\ CurrentFits'
    BY <1>1 DEF PicksStay, PhoneInv, PhoneTyped, CurrentFits
  <1>3. \A t \in Selections : PickFits(t)' /\ RunFits(t)'
    BY <1>1 DEF PicksStay, PhoneInv, PickFits, RunFits
  <1> QED
    BY <1>2, <1>3 DEF PhoneInv

\* A session begins.
LEMMA AttachStep ==
  ASSUME PhoneInv, NEW c \in WSessions,
         Call(c) \/ \E s \in Selections : IncomingCall(s, c)
  PROVE  PhoneInv'
  <1>0. PhoneTyped /\ CurrentFits /\ NoSelection \notin Selections
    BY WebphoneAssumption DEF PhoneInv
  <1>1. PICK s \in Selections, state \in {"incoming", "calling"} :
          AttachSession(c, s, state) /\ (s = current \/ s \in raced)
    <2>1. CASE Call(c)
      <3>1. current # NoSelection /\ AttachSession(c, current, "calling")
        BY <2>1, Zenon DEF Call
      <3> QED
        BY <1>0, <3>1 DEF PhoneTyped
    <2>2. ASSUME NEW s \in Selections, IncomingCall(s, c)
          PROVE  AttachSession(c, s, "incoming") /\ (s = current \/ s \in raced)
      BY <2>2 DEF IncomingCall, PhoneInv, RunFits, Running
    <2> QED
      BY <2>1, <2>2
  <1>2. /\ sessions' = [sessions EXCEPT ![c] = [agent |-> s, at |-> "new", out |-> state = "calling"]]
        /\ held' = c /\ shown' = [shown EXCEPT !.call = state]
        /\ crowded' = IF LiveSessions = {} THEN crowded ELSE crowded \cup LiveSessions \cup {c}
        /\ UNCHANGED <<current, agents, raced>>
    BY <1>1, Zenon DEF AttachSession
  <1>3. /\ sessions' \in [WSessions -> PhoneSession]
        /\ sessions'[c].agent = s
        /\ \A d \in WSessions \ {c} : sessions'[d] = sessions[d]
    <2> DEFINE new == [agent |-> s, at |-> "new", out |-> state = "calling"]
    <2>1. new \in PhoneSession /\ new.agent = s
      BY DEF PhoneSession
    <2>2. sessions' = [sessions EXCEPT ![c] = new]
      BY <1>2
    <2> HIDE DEF new
    <2> QED
      BY <1>0, <2>1, <2>2 DEF PhoneTyped
  <1>4. PicksStay
    BY <1>0, <1>2 DEF PicksStay, PhoneTyped, Shown, CallStates
  <1>5. crowded' \subseteq WSessions
    BY <1>0, <1>2 DEF PhoneTyped, LiveSessions
  <1>6. ASSUME NEW d \in WSessions
        PROVE  SessionFits(d)'
    <2>1. CASE d = c
      BY <1>0, <1>1, <1>2, <1>3, <2>1 DEF SessionFits
    <2>2. CASE d # c
      <3>1. d \in LiveSessions' => d \in LiveSessions
        BY <1>3, <2>2 DEF LiveSessions
      <3> QED
        BY <1>2, <3>1 DEF SessionFits
    <2> QED
      BY <2>1, <2>2
  <1> QED
    BY <1>2, <1>3, <1>4, <1>5, <1>6, PicksFit

\* A session goes on, or the page shows that it is over.
LEMMA ProgressStep ==
  ASSUME PhoneInv,
         \/ \E c \in WSessions : Progress(c) \/ PeerAccepts(c)
         \/ Answer \/ BecomeIdle
  PROVE  PhoneInv'
  <1>0. PhoneTyped
    BY DEF PhoneInv
  <1>1. UNCHANGED <<current, held, agents, raced, crowded>>
    BY Zenon DEF Progress, PeerAccepts, Answer, Up, BecomeIdle
  <1>2. PICK told \in CallStates : shown' = [shown EXCEPT !.call = told]
    <2>1. ASSUME NEW c \in WSessions, Progress(c)
          PROVE  \E told \in CallStates : shown' = [shown EXCEPT !.call = told]
      BY <1>0, <2>1 DEF Progress, CallStates, PhoneTyped, Shown
    <2>2. ASSUME NEW c, Up(c)
          PROVE  \E told \in CallStates : shown' = [shown EXCEPT !.call = told]
      BY <2>2 DEF Up, CallStates
    <2>3. CASE BecomeIdle
      BY <2>3 DEF BecomeIdle, CallStates
    <2> QED
      BY <2>1, <2>2, <2>3 DEF PeerAccepts, Answer
  <1>3. PicksStay
    BY <1>0, <1>1, <1>2 DEF PicksStay, PhoneTyped, Shown
  <1>4. /\ sessions' \in [WSessions -> PhoneSession]
        /\ \A c \in WSessions : /\ sessions'[c].agent = sessions[c].agent
                                /\ c \in LiveSessions' => c \in LiveSessions
    <2>1. CASE sessions' = sessions
      BY <1>0, <2>1 DEF PhoneTyped, LiveSessions
    <2>2. ASSUME NEW c \in WSessions, Up(c)
          PROVE  <1>4!1 /\ <1>4!2
      <3>1. sessions[c].at = "new" /\ sessions' = [sessions EXCEPT ![c].at = "up"]
        BY <2>2, Zenon DEF Up
      <3> QED
        BY <1>0, <3>1 DEF PhoneTyped, PhoneSession, LiveSessions
    <2>3. ASSUME Answer
          PROVE  held \in WSessions /\ Up(held)
      BY <1>0, <2>3 DEF Answer, PhoneTyped
    <2> QED
      BY <2>1, <2>2, <2>3 DEF Progress, PeerAccepts, BecomeIdle
  <1>5. \A c \in WSessions : SessionFits(c)'
    BY <1>1, <1>4 DEF PhoneInv, SessionFits
  <1> QED
    BY <1>0, <1>1, <1>3, <1>4, <1>5, PicksFit DEF PhoneTyped

\* A session ends.
LEMMA SessionEnds ==
  ASSUME PhoneInv, NEW c \in WSessions, EndSession(c)
  PROVE  PhoneInv'
  <1>0. PhoneTyped
    BY DEF PhoneInv
  <1>1. /\ c \in LiveSessions /\ held' = NoWSession
        /\ sessions' = [sessions EXCEPT ![c].at = "over"]
        /\ shown' = [shown EXCEPT !.call = "ended"]
        /\ crowded' = IF LiveSessions = {c} THEN crowded ELSE crowded \cup LiveSessions
        /\ UNCHANGED <<current, agents, raced>>
    BY Zenon DEF EndSession
  <1>2. /\ sessions' \in [WSessions -> PhoneSession] /\ sessions'[c].at = "over"
        /\ \A d \in WSessions \ {c} : sessions'[d] = sessions[d]
    BY <1>0, <1>1 DEF PhoneTyped, PhoneSession
  <1>3. PicksStay
    BY <1>0, <1>1 DEF PicksStay, PhoneTyped, Shown, CallStates
  <1>4. crowded' \subseteq WSessions
    BY <1>0, <1>1 DEF PhoneTyped, LiveSessions
  <1>5. ASSUME NEW d \in WSessions
        PROVE  SessionFits(d)'
    <2>1. d \in LiveSessions' => d \in LiveSessions /\ d # c
      BY <1>2 DEF LiveSessions
    <2> QED
      BY <1>1, <2>1 DEF SessionFits
  <1> QED
    BY <1>1, <1>2, <1>3, <1>4, <1>5, PicksFit

LEMMA PhoneInvInit ==
  ASSUME WebphoneInit
  PROVE  PhoneInv
  <1>1. PhoneTyped
    BY DEF WebphoneInit, PhoneTyped, Shown, CallStates, Agent, AgentStates, PhoneSession
  <1>2. CurrentFits /\ (\A s \in Selections : PickFits(s) /\ RunFits(s))
        /\ \A c \in WSessions : SessionFits(c)
    BY DEF WebphoneInit, CurrentFits, PickFits, RunFits, SessionFits, Fetching, Running,
           LiveSessions
  <1> QED
    BY <1>1, <1>2 DEF PhoneInv

LEMMA PhoneInvStays ==
  ASSUME PhoneInv, WebphoneNext
  PROVE  PhoneInv'
  <1>1. ASSUME Hangup
        PROVE  held \in WSessions /\ EndSession(held)
    BY <1>1 DEF Hangup, PhoneInv, PhoneTyped
  <1> QED
    BY <1>1, PickStep, CredentialsStep, RegistrationStep, AttachStep, ProgressStep,
       SessionEnds DEF WebphoneNext, Ended

LEMMA PhoneInvStutters ==
  ASSUME PhoneInv, UNCHANGED webphoneVars
  PROVE  PhoneInv'
  BY DEF PhoneInv, PhoneTyped, CurrentFits, PickFits, RunFits, SessionFits, Fetching,
         Running, LiveSessions, webphoneVars

LEMMA PhoneInvExplains ==
  ASSUME PhoneInv
  PROVE  WebphoneTypeOK /\ PhoneStaysInThePage
  <1>1. WebphoneTypeOK
    BY DEF PhoneInv, PhoneTyped, Shown, CallStates, Agent, AgentStates, WebphoneTypeOK
  <1>2. PhoneStaysInThePage
    BY DEF PhoneInv, RunFits, SessionFits, PhoneStaysInThePage, Running, LiveSessions
  <1> QED
    BY <1>1, <1>2

(***************************************************************************)
(* The lines of a client.                                                  *)

\* A set of numbers has a least.
LEMMA LeastNumber ==
  ASSUME NEW T, T \subseteq Nat, T # {}
  PROVE  \E n \in T : \A m \in T : n <= m
  <1>1. PICK x \in T : \A y \in T : ~ (<<y, x>> \in OpToRel(<, Nat))
    BY NatLessThanWellFounded, WFMin, Zenon
  <1>2. \A y \in T : ~ (y < x)
    BY <1>1 DEF OpToRel
  <1> QED
    BY <1>2

LEMMA OldestIsOne ==
  ASSUME NEW T, T \subseteq Nat, T # {}
  PROVE  Oldest(T) \in T /\ OldestLane(T) \in T
  <1>1. \E n \in T : \A m \in T : n <= m
    BY LeastNumber
  <1> QED
    BY <1>1, Zenon DEF Oldest, OldestLane

\* What the transaction of a write is to touch, of the rows as they are.
Touched(op) == IF op.op = "delete" THEN Promoted(op) ELSE Cleared(op)

\* A write that no other has crossed has seen the rows as they are; and one
\* line at most is the default when no write crossed the choice of it.
OpFits(op) ==
  /\ op.at = "idle" => op = IdleLineOp
  /\ op.at # "idle" => op.op # "none"
  /\ op.op = "add" => op.line = 0
  /\ op.at = "seen" /\ ~op.crossed => op.seen = Touched(op)
  /\ op.op = "delete" /\ ~op.crossed =>
       (op.line \in Defaults <=> op.isDefault = "on")
OneDefault == ~crossed => \A i, j \in Defaults : i = j
LinesInv == LinesTypeOK /\ OneDefault /\ \A o \in LineOps : OpFits(lineOps[o])

LEMMA TouchedLines ==
  ASSUME LinesTypeOK, NEW op
  PROVE  Touched(op) \subseteq LineIds
  <1>1. There \ {op.line} \subseteq Nat /\ There \subseteq LineIds
    BY LinesAssumption DEF There, LineIds
  <1>2. There \ {op.line} # {} => Oldest(There \ {op.line}) \in There \ {op.line}
    BY <1>1, OldestIsOne
  <1> QED
    BY <1>1, <1>2 DEF Touched, Promoted, Cleared

\* A write is asked for.
LEMMA AskStep ==
  ASSUME LinesInv, NEW o \in LineOps,
         \/ AskAdd(o) \/ AskFirst(o)
         \/ \E i \in LineIds : AskPatch(o, i) \/ AskDelete(o, i)
  PROVE  LinesInv'
  <1>1. PICK op \in LineOp :
          /\ Ask(o, op) /\ op.at = "read" /\ op.op # "none"
          /\ op.op = "add" => op.line = 0
          /\ op.op = "delete" => (op.line \in Defaults <=> op.isDefault = "on")
    <2>0. IdleLineOp \in LineOp
      BY LinesAssumption DEF IdleLineOp, LineOp, Flag
    <2>1. ASSUME NEW isDefault \in {"on", "off"}, NEW isActive \in {"on", "off"},
                 NEW op, op = [IdleLineOp EXCEPT !.op = "add", !.at = "read",
                                   !.isDefault = isDefault, !.isActive = isActive]
          PROVE  op \in LineOp /\ op.at = "read" /\ op.op = "add" /\ op.line = 0
      BY <2>0, <2>1 DEF LineOp, Flag, IdleLineOp
    <2>2. CASE AskAdd(o)
      <3>1. PICK isDefault, isActive \in {"on", "off"} :
              Ask(o, [IdleLineOp EXCEPT !.op = "add", !.at = "read",
                                        !.isDefault = isDefault, !.isActive = isActive])
        BY <2>2 DEF AskAdd
      <3> QED
        BY <2>1, <3>1
    <2>3. CASE AskFirst(o)
      <3>1. PICK isDefault \in {"on", "off"} :
              Ask(o, [IdleLineOp EXCEPT !.op = "add", !.at = "read", !.isActive = "on",
                                        !.isDefault = isDefault])
        BY <2>3 DEF AskFirst
      <3> DEFINE op == [IdleLineOp EXCEPT !.op = "add", !.at = "read", !.isActive = "on",
                                          !.isDefault = isDefault]
      <3>2. op \in LineOp /\ op.at = "read" /\ op.op = "add" /\ op.line = 0
        BY <2>0 DEF LineOp, Flag, IdleLineOp
      <3>3. Ask(o, op)
        BY <3>1
      <3> HIDE DEF op
      <3> QED
        BY <3>2, <3>3
    <2>4. ASSUME NEW i \in LineIds, AskPatch(o, i)
          PROVE  \E op \in LineOp : Ask(o, op) /\ op.at = "read" /\ op.op = "patch"
      <3>1. PICK isDefault, isActive \in Flag :
              Ask(o, [IdleLineOp EXCEPT !.op = "patch", !.at = "read", !.line = i,
                                        !.isDefault = isDefault, !.isActive = isActive])
        BY <2>4, Zenon DEF AskPatch
      <3> DEFINE op == [IdleLineOp EXCEPT !.op = "patch", !.at = "read", !.line = i,
                                          !.isDefault = isDefault, !.isActive = isActive]
      <3>2. op \in LineOp /\ op.at = "read" /\ op.op = "patch"
        <4>1. i \in 0..MaxLines
          BY LinesAssumption DEF LineIds
        <4>2. isDefault \in Flag /\ isActive \in Flag
          OBVIOUS
        <4> QED
          BY <2>0, <4>1, <4>2 DEF LineOp
      <3>3. Ask(o, op)
        BY <3>1
      <3> HIDE DEF op
      <3> QED
        BY <3>2, <3>3
    <2>5. ASSUME NEW i \in LineIds, AskDelete(o, i)
          PROVE  \E op \in LineOp : /\ Ask(o, op) /\ op.at = "read" /\ op.op = "delete"
                                    /\ op.line \in Defaults <=> op.isDefault = "on"
      <3> DEFINE isDefault == IF lines[i].isDefault THEN "on" ELSE "off"
                 op == [IdleLineOp EXCEPT !.op = "delete", !.at = "read", !.line = i,
                                          !.isDefault = isDefault]
      <3>1. i \in There /\ Ask(o, op)
        BY <2>5, Zenon DEF AskDelete
      <3>2. isDefault \in {"on", "off"} /\ (isDefault = "on" <=> i \in Defaults)
        BY <3>1 DEF Defaults
      <3> HIDE DEF isDefault
      <3>3. /\ op \in LineOp /\ op.at = "read" /\ op.op = "delete"
            /\ op.line = i /\ op.isDefault = isDefault
        <4>1. i \in 0..MaxLines
          BY LinesAssumption DEF LineIds
        <4>2. isDefault \in Flag
          BY <3>2 DEF Flag
        <4> QED
          BY <2>0, <4>1, <4>2 DEF LineOp
      <3> HIDE DEF op
      <3> QED
        BY <3>1, <3>2, <3>3
    <2> QED
      BY <2>2, <2>3, <2>4, <2>5
  <1>2. /\ lineOps[o] = IdleLineOp /\ lineOps' = [lineOps EXCEPT ![o] = op]
        /\ UNCHANGED <<lines, created, crossed>>
    BY <1>1 DEF Ask
  <1>3. LinesTypeOK'
    BY <1>2 DEF LinesInv, LinesTypeOK
  <1>4. /\ Defaults' = Defaults /\ There' = There
        /\ \A p \in LineOps \ {o} : lineOps'[p] = lineOps[p]
        /\ lineOps'[o] = op
    BY <1>2 DEF Defaults, There, LinesInv, LinesTypeOK
  <1>5. ASSUME NEW p \in LineOps
        PROVE  OpFits(lineOps[p])'
    <2>1. CASE p = o
      <3>1. OpFits(op)'
        BY <1>1, <1>4 DEF OpFits
      <3> QED
        BY <1>4, <2>1, <3>1 DEF OpFits
    <2>2. CASE p # o
      <3>1. OpFits(lineOps[p]) /\ lineOps'[p] = lineOps[p]
        BY <1>4, <2>2 DEF LinesInv
      <3> QED
        BY <1>4, <3>1 DEF OpFits, Touched, Promoted, Cleared
    <2> QED
      BY <2>1, <2>2
  <1> QED
    BY <1>2, <1>3, <1>4, <1>5 DEF LinesInv, OneDefault

\* A transaction begins: it sees the rows as they are.
LEMMA BeginStep ==
  ASSUME LinesInv, NEW o \in LineOps, BeginLine(o) \/ Abort(o)
  PROVE  LinesInv'
  <1> DEFINE op == lineOps[o]
  <1>0. LinesTypeOK /\ op \in LineOp /\ OpFits(op)
    BY DEF LinesInv, LinesTypeOK
  <1>1. UNCHANGED <<lines, created, crossed>>
    BY Zenon DEF BeginLine, Abort
  <1>2. PICK new \in LineOp :
          /\ lineOps' = [lineOps EXCEPT ![o] = new]
          /\ \/ new = IdleLineOp
             \/ /\ op.at = "read" /\ new.at = "seen" /\ new.seen = Touched(op)
                /\ new.op = op.op /\ new.line = op.line /\ new.isDefault = op.isDefault
                /\ new.crossed = op.crossed
    <2>1. CASE BeginLine(o)
      <3> DEFINE new == [op EXCEPT !.at = "seen", !.seen = Touched(op)]
      <3>0. Touched(op) \subseteq LineIds
        BY <1>0, TouchedLines
      <3>1. /\ new \in LineOp /\ new.at = "seen" /\ new.seen = Touched(op)
            /\ new.op = op.op /\ new.line = op.line /\ new.isDefault = op.isDefault
            /\ new.crossed = op.crossed
        BY <1>0, <3>0 DEF LineOp
      <3>2. /\ op.at = "read"
            /\ lineOps' = [lineOps EXCEPT ![o].at = "seen",
                 ![o].seen = IF lineOps[o].op = "delete" THEN Promoted(lineOps[o])
                             ELSE Cleared(lineOps[o])]
        BY <2>1, Zenon DEF BeginLine
      <3>3. lineOps' = [lineOps EXCEPT ![o] = new]
        BY <1>0, <3>2, Zenon DEF LinesTypeOK, Touched
      <3> HIDE DEF new
      <3> QED
        BY <3>1, <3>2, <3>3
    <2>2. CASE Abort(o)
      <3>1. lineOps' = [lineOps EXCEPT ![o] = IdleLineOp]
        BY <2>2, Zenon DEF Abort
      <3>2. IdleLineOp \in LineOp
        BY LinesAssumption DEF IdleLineOp, LineOp, Flag
      <3> QED
        BY <3>1, <3>2
    <2> QED
      BY <2>1, <2>2
  <1>3. LinesTypeOK'
    BY <1>0, <1>1, <1>2 DEF LinesTypeOK
  <1>4. /\ Defaults' = Defaults /\ There' = There
        /\ \A p \in LineOps \ {o} : lineOps'[p] = lineOps[p]
        /\ lineOps'[o] = new
    BY <1>0, <1>1, <1>2 DEF Defaults, There, LinesTypeOK
  <1>5. OpFits(new)'
    <2>1. CASE new = IdleLineOp
      BY <2>1 DEF OpFits, IdleLineOp
    <2>2. CASE new # IdleLineOp
      <3>1. Touched(new)' = Touched(op)
        BY <1>2, <1>4, <2>2 DEF Touched, Promoted, Cleared
      <3> QED
        BY <1>0, <1>2, <1>4, <2>2, <3>1 DEF OpFits
    <2> QED
      BY <2>1, <2>2
  <1>6. ASSUME NEW p \in LineOps \ {o}
        PROVE  OpFits(lineOps[p])'
    BY <1>1, <1>4 DEF LinesInv, OpFits, Touched, Promoted, Cleared
  <1>7. ASSUME NEW p \in LineOps
        PROVE  OpFits(lineOps[p])'
    BY <1>4, <1>5, <1>6 DEF OpFits
  <1> QED
    BY <1>1, <1>3, <1>4, <1>7 DEF LinesInv, OneDefault

\* The others that are under way have been crossed by the one that ends.
LEMMA OthersAreCrossed ==
  ASSUME LinesInv, NEW o \in LineOps, FinishLine(o)
  PROVE  /\ lineOps' \in [LineOps -> LineOp]
         /\ \A p \in LineOps : OpFits(lineOps[p])'
  <1>0. lineOps \in [LineOps -> LineOp] /\ \A p \in LineOps : OpFits(lineOps[p])
    BY DEF LinesInv, LinesTypeOK
  <1>1. ASSUME NEW p \in LineOps
        PROVE  lineOps'[p] \in LineOp /\ OpFits(lineOps[p])'
    <2>1. lineOps[p] \in LineOp /\ OpFits(lineOps[p])
      BY <1>0
    <2>2. CASE p = o \/ lineOps[p] = IdleLineOp
      <3>1. lineOps'[p] = IdleLineOp
        <4>1. CASE p = o
          BY <4>1 DEF FinishLine
        <4>2. CASE p # o /\ lineOps[p] = IdleLineOp
          <5>1. lineOps'[p] = [IdleLineOp EXCEPT !.crossed = FALSE]
            BY <4>2 DEF FinishLine
          <5> QED
            BY <5>1 DEF IdleLineOp
        <4> QED
          BY <2>2, <4>1, <4>2
      <3>2. IdleLineOp \in LineOp
        BY LinesAssumption DEF IdleLineOp, LineOp, Flag
      <3> QED
        BY <3>1, <3>2 DEF OpFits, IdleLineOp
    <2>3. CASE p # o /\ lineOps[p] # IdleLineOp
      <3>1. lineOps'[p] = [lineOps[p] EXCEPT !.crossed = TRUE]
        <4>1. lineOps'[p] = [lineOps[p] EXCEPT !.crossed = lineOps[p] # IdleLineOp]
          BY <2>3 DEF FinishLine
        <4>2. (lineOps[p] # IdleLineOp) = TRUE
          BY <2>3
        <4> QED
          BY <4>1, <4>2
      <3>2. /\ lineOps'[p] \in LineOp /\ lineOps'[p].crossed = TRUE
            /\ lineOps'[p].at = lineOps[p].at /\ lineOps'[p].op = lineOps[p].op
            /\ lineOps'[p].line = lineOps[p].line
        BY <2>1, <3>1 DEF LineOp
      <3> QED
        BY <2>1, <2>3, <3>2 DEF OpFits
    <2> QED
      BY <2>2, <2>3
  <1>2. lineOps' = [p \in LineOps |-> lineOps'[p]]
    BY DEF FinishLine
  <1> QED
    BY <1>1, <1>2

\* A write is committed: the choice of the default holds if nothing crossed it.
LEMMA CommitStep ==
  ASSUME LinesInv, NEW o \in LineOps,
         CommitAdd(o) \/ CommitPatch(o) \/ CommitDelete(o)
  PROVE  LinesInv'
  <1> DEFINE op == lineOps[o]
  <1>0. /\ LinesTypeOK /\ op \in LineOp /\ OpFits(op) /\ OneDefault
        /\ op.at = "seen" /\ FinishLine(o) /\ crossed' = Chosen(op)
        /\ created' \in 0..MaxLines
    BY LinesAssumption DEF LinesInv, LinesTypeOK, CommitAdd, CommitPatch, CommitDelete
  <1>1. crossed' \in BOOLEAN
    BY <1>0 DEF Chosen, LinesTypeOK, LineOp
  <1>2. ~crossed' => ~op.crossed /\ (op.op = "delete" \/ op.isDefault # "on" => ~crossed)
    BY <1>0 DEF Chosen
  <1>3. /\ lines' \in [LineIds -> Line]
        /\ ~crossed' => \A i, j \in LineIds :
             (/\ lines'[i].there /\ lines'[i].isDefault
              /\ lines'[j].there /\ lines'[j].isDefault) => i = j
    <2>w. ASSUME NEW S
          PROVE  /\ WithoutDefault(S) \in [LineIds -> Line]
                 /\ \A i \in LineIds : /\ WithoutDefault(S)[i].there = lines[i].there
                                       /\ i \in S => WithoutDefault(S)[i].isDefault = FALSE
                                       /\ i \notin S => WithoutDefault(S)[i] = lines[i]
      BY <1>0 DEF WithoutDefault, LinesTypeOK, Line
    <2>1. CASE CommitAdd(o)
      <3> DEFINE n == created + 1
                 new == [there |-> TRUE, isDefault |-> op.isDefault = "on",
                         isActive |-> op.isActive = "on"]
                 base == WithoutDefault(op.seen)
      <3>1. /\ op.op = "add" /\ n \in LineIds /\ lines' = [base EXCEPT ![n] = new]
        BY <1>0, <2>1, LinesAssumption DEF CommitAdd, LinesTypeOK, LineIds
      <3>2. new \in Line /\ (new.isDefault <=> op.isDefault = "on")
        BY DEF Line
      <3>3. /\ base \in [LineIds -> Line]
            /\ \A i \in LineIds : /\ base[i].there = lines[i].there
                                  /\ i \in op.seen => base[i].isDefault = FALSE
                                  /\ i \notin op.seen => base[i] = lines[i]
        BY <2>w
      <3> HIDE DEF base, new, n
      <3>4. /\ lines' \in [LineIds -> Line] /\ lines'[n] = new
            /\ \A i \in LineIds \ {n} : lines'[i] = base[i]
        BY <3>1, <3>2, <3>3
      <3>5. ~crossed' => op.seen = IF op.isDefault = "on" THEN There \ {op.line} ELSE {}
        BY <1>0, <1>2, <3>1 DEF OpFits, Touched, Cleared
      <3>6. op.line \notin There
        BY <1>0, <3>1, LinesAssumption DEF OpFits, There, LineIds
      <3>7. ASSUME ~crossed', NEW i \in LineIds, NEW j \in LineIds,
                   lines'[i].there, lines'[i].isDefault,
                   lines'[j].there, lines'[j].isDefault
            PROVE  i = j
        <4>1. CASE op.isDefault = "on"
          <5>1. \A l \in LineIds \ {n} : lines[l].there => ~lines'[l].isDefault
            BY <3>3, <3>4, <3>5, <3>6, <3>7, <4>1 DEF There
          <5>2. \A l \in LineIds \ {n} : lines'[l].there => lines[l].there
            BY <3>3, <3>4
          <5> QED
            BY <3>7, <5>1, <5>2
        <4>2. CASE op.isDefault # "on"
          <5>1. i # n /\ j # n /\ ~crossed /\ op.seen = {}
            BY <1>2, <3>2, <3>4, <3>5, <3>7, <4>2
          <5>2. i \in Defaults /\ j \in Defaults
            BY <3>3, <3>4, <3>7, <5>1 DEF Defaults, There
          <5> QED
            BY <1>0, <5>1, <5>2 DEF OneDefault
        <4> QED
          BY <4>1, <4>2
      <3> QED
        BY <3>4, <3>7
    <2>2. CASE CommitPatch(o)
      <3> DEFINE base == WithoutDefault(op.seen)
      <3>1. /\ op.op = "patch" /\ op.line \in There
            /\ lines' = [base EXCEPT ![op.line].isDefault = Set(@, op.isDefault),
                                     ![op.line].isActive = Set(@, op.isActive)]
        BY <2>2, Zenon DEF CommitPatch
      <3>2. op.line \in LineIds
        BY <3>1 DEF There
      <3>3. /\ base \in [LineIds -> Line]
            /\ \A i \in LineIds : /\ base[i].there = lines[i].there
                                  /\ i \in op.seen => base[i].isDefault = FALSE
                                  /\ i \notin op.seen => base[i] = lines[i]
        BY <2>w
      <3> HIDE DEF base
      <3>4. /\ lines' \in [LineIds -> Line]
            /\ lines'[op.line].isDefault = Set(base[op.line].isDefault, op.isDefault)
            /\ \A i \in LineIds \ {op.line} : lines'[i] = base[i]
        <4> DEFINE new == [base[op.line] EXCEPT !.isDefault = Set(@, op.isDefault),
                                                !.isActive = Set(@, op.isActive)]
        <4>1. lines' = [base EXCEPT ![op.line] = new]
          BY <3>1, <3>2, <3>3, Zenon
        <4>2. /\ Set(base[op.line].isDefault, op.isDefault) \in BOOLEAN
              /\ Set(base[op.line].isActive, op.isActive) \in BOOLEAN
          BY <3>2, <3>3 DEF Line, Set
        <4>3. new \in Line /\ new.isDefault = Set(base[op.line].isDefault, op.isDefault)
          BY <3>2, <3>3, <4>2 DEF Line
        <4> HIDE DEF new
        <4> QED
          BY <3>2, <3>3, <4>1, <4>3
      <3>5. ~crossed' => op.seen = IF op.isDefault = "on" THEN There \ {op.line} ELSE {}
        BY <1>0, <1>2, <3>1 DEF OpFits, Touched, Cleared
      <3>6. ASSUME ~crossed', NEW i \in LineIds, NEW j \in LineIds,
                   lines'[i].there, lines'[i].isDefault,
                   lines'[j].there, lines'[j].isDefault
            PROVE  i = j
        <4>1. CASE op.isDefault = "on"
          <5>1. \A l \in LineIds \ {op.line} : lines[l].there => ~lines'[l].isDefault
            BY <3>3, <3>4, <3>5, <3>6, <4>1 DEF There
          <5>2. \A l \in LineIds \ {op.line} : lines'[l].there => lines[l].there
            BY <3>3, <3>4
          <5> QED
            BY <3>6, <5>1, <5>2
        <4>2. CASE op.isDefault # "on"
          <5>1. ~crossed /\ op.seen = {}
            BY <1>2, <3>5, <3>6, <4>2
          <5>2. \A l \in LineIds : lines'[l].isDefault => lines[l].isDefault
            <6>1. \A l \in LineIds \ {op.line} : lines'[l] = lines[l]
              BY <3>3, <3>4, <5>1
            <6>2. lines'[op.line].isDefault => lines[op.line].isDefault
              BY <3>2, <3>3, <3>4, <4>2, <5>1 DEF Set
            <6> QED
              BY <6>1, <6>2
          <5>3. \A l \in LineIds : lines'[l].there => lines[l].there
            BY <3>1, <3>3, <3>4, <5>1 DEF There
          <5>4. i \in Defaults /\ j \in Defaults
            BY <3>6, <5>2, <5>3 DEF Defaults, There
          <5> QED
            BY <1>0, <5>1, <5>4 DEF OneDefault
        <4> QED
          BY <4>1, <4>2
      <3> QED
        BY <3>4, <3>6
    <2>3. CASE CommitDelete(o)
      <3>1. /\ op.op = "delete" /\ op.line \in There /\ op.seen \subseteq There
            /\ lines' = [i \in LineIds |->
                 IF i = op.line THEN NoLine
                 ELSE IF i \in op.seen THEN [lines[i] EXCEPT !.isDefault = TRUE]
                 ELSE lines[i]]
        BY <2>3, Zenon DEF CommitDelete
      <3>2. NoLine \in Line /\ NoLine.there = FALSE
        BY DEF NoLine, Line
      <3>3. /\ lines' \in [LineIds -> Line]
            /\ op.line \in LineIds => lines'[op.line].there = FALSE
            /\ \A i \in LineIds : i \notin op.seen /\ i # op.line => lines'[i] = lines[i]
        BY <1>0, <3>1, <3>2 DEF LinesTypeOK, Line
      <3>4. ~crossed' => /\ op.seen = Promoted(op)
                         /\ op.line \in Defaults <=> op.isDefault = "on"
        BY <1>0, <1>2, <3>1 DEF OpFits, Touched
      <3>5. \A i, j \in Promoted(op) : i = j
        BY DEF Promoted
      <3>6. op.isDefault # "on" => Promoted(op) = {}
        BY DEF Promoted
      <3>7. ASSUME ~crossed', NEW i \in LineIds, NEW j \in LineIds,
                   lines'[i].there, lines'[i].isDefault,
                   lines'[j].there, lines'[j].isDefault
            PROVE  i = j
        <4>1. /\ i # op.line /\ j # op.line /\ ~crossed
              /\ \A k, l \in Defaults : k = l
          BY <1>0, <1>2, <3>1, <3>3, <3>7 DEF OneDefault
        <4>2. /\ i \in Promoted(op) \/ i \in Defaults
              /\ j \in Promoted(op) \/ j \in Defaults
          BY <3>3, <3>4, <3>7, <4>1 DEF Defaults, There
        <4>3. CASE op.isDefault = "on"
          BY <3>4, <3>5, <3>7, <4>1, <4>2, <4>3
        <4>4. CASE op.isDefault # "on"
          BY <3>6, <4>1, <4>2, <4>4
        <4> QED
          BY <4>3, <4>4
      <3> QED
        BY <3>3, <3>7
    <2> QED
      BY <2>1, <2>2, <2>3
  <1>4. LinesTypeOK' /\ \A p \in LineOps : OpFits(lineOps[p])'
    BY <1>0, <1>1, <1>3, OthersAreCrossed DEF LinesTypeOK
  <1>5. OneDefault'
    BY <1>3 DEF OneDefault, Defaults, There
  <1> QED
    BY <1>4, <1>5 DEF LinesInv

LEMMA LinesInvInit ==
  ASSUME LinesInit
  PROVE  LinesInv
  <1>1. IdleLineOp \in LineOp
    BY LinesAssumption DEF IdleLineOp, LineOp, Flag
  <1>2. LinesTypeOK
    <2>1. NoLine \in Line /\ 0 \in 0..MaxLines
      BY LinesAssumption DEF NoLine, Line
    <2> QED
      BY <1>1, <2>1 DEF LinesInit, LinesTypeOK
  <1>3. OneDefault
    BY DEF LinesInit, OneDefault, Defaults, There, NoLine
  <1>4. \A o \in LineOps : OpFits(lineOps[o])
    BY DEF LinesInit, OpFits, IdleLineOp
  <1> QED
    BY <1>2, <1>3, <1>4 DEF LinesInv

LEMMA LinesInvStays ==
  ASSUME LinesInv, LinesNext
  PROVE  LinesInv'
  BY AskStep, BeginStep, CommitStep DEF LinesNext

LEMMA LinesInvStutters ==
  ASSUME LinesInv, UNCHANGED linesVars
  PROVE  LinesInv'
  <1>1. There' = There /\ Defaults' = Defaults
    BY DEF linesVars, There, Defaults
  <1>2. LinesTypeOK' /\ OneDefault'
    BY <1>1 DEF LinesInv, LinesTypeOK, OneDefault, linesVars
  <1>3. ASSUME NEW o \in LineOps
        PROVE  OpFits(lineOps[o])'
    <2>1. OpFits(lineOps[o]) /\ lineOps' = lineOps
      BY DEF LinesInv, linesVars
    <2> QED
      BY <1>1, <2>1 DEF OpFits, Touched, Promoted, Cleared
  <1> QED
    BY <1>2, <1>3 DEF LinesInv

LEMMA LinesInvExplains ==
  ASSUME LinesInv
  PROVE  LinesTypeOK /\ OneOutgoingLine
  <1>1. LinesTypeOK
    BY DEF LinesInv
  <1>2. ASSUME ~crossed
        PROVE  \E x : Outgoing = {x}
    <2>1. CASE Active \cap Defaults # {}
      <3>1. PICK i : i \in Active \cap Defaults
        BY <2>1
      <3>2. Active \cap Defaults = {i}
        BY <1>2, <3>1 DEF LinesInv, OneDefault
      <3> QED
        BY <2>1, <3>2 DEF Outgoing
    <2>2. CASE Active \cap Defaults = {}
      BY <2>2 DEF Outgoing
    <2> QED
      BY <2>1, <2>2
  <1>3. ASSUME ~crossed
        PROVE  Cardinality(Outgoing) = 1
    BY <1>2, <1>3, FS_Singleton
  <1> QED
    BY <1>1, <1>3 DEF OneOutgoingLine

(***************************************************************************)
(* The trunk a call leaves by.                                             *)

Owners == Clients \cup {SharedLane}
Lane == [owner : Owners, enabled : BOOLEAN]
Kept == [lane : Lanes \cup {NoLane}, at : {"absent", "fresh", "stale"}]
Dial == [client : CacheKeys, at : {"idle", "asking", "read", "dialled"},
         lane : Lanes \cup {NoLane}]
TrunkTyped ==
  /\ lanes \in [Lanes -> Lane] /\ owned \in [Lanes -> SUBSET Owners]
  /\ cache \in [CacheKeys -> Kept] /\ dials \in [Dials -> Dial]
  /\ laneWrites \in Nat /\ readFaults \in Nat

\* What was read was the client's or shared; and it still is what would be
\* read while nobody writes a trunk and no read fails.
Belongs(l, client) == l # NoLane => owned[l] \cap {client, SharedLane} # {}
Untouched == laneWrites = 0 /\ readFaults = 0
OwnerFits(l) == lanes[l].owner \in owned[l]
KeptFits(k) ==
  /\ Belongs(cache[k].lane, k)
  /\ Untouched /\ cache[k].at # "absent" => cache[k].lane = ResolveTrunk(k)
DialFits(d) ==
  /\ Belongs(dials[d].lane, dials[d].client)
  /\ Untouched /\ dials[d].at \in {"read", "dialled"} =>
       dials[d].lane = ResolveTrunk(dials[d].client)
TrunkInv == /\ TrunkTyped
            /\ \A l \in Lanes : OwnerFits(l)
            /\ \A k \in CacheKeys : KeptFits(k)
            /\ \A d \in Dials : DialFits(d)

\* What is read is a trunk of the client, if it has one, or a shared one.
LEMMA Resolved ==
  ASSUME TrunkTyped, NEW client \in CacheKeys
  PROVE  /\ ResolveTrunk(client) \in Lanes \cup {NoLane}
         /\ client # NoClient /\ OfOwner(client) # {} =>
              ResolveTrunk(client) \in OfOwner(client)
         /\ ResolveTrunk(client) # NoLane =>
              ResolveTrunk(client) \in OfOwner(client) \cup OfOwner(SharedLane)
  <1>1. ASSUME NEW owner
        PROVE  /\ OfOwner(owner) \subseteq Lanes
               /\ OfOwner(owner) # {} => OldestLane(OfOwner(owner)) \in OfOwner(owner)
    <2>1. OfOwner(owner) \subseteq Lanes /\ OfOwner(owner) \subseteq Nat
      BY TrunkChoiceAssumption DEF OfOwner
    <2> QED
      BY <2>1, OldestIsOne
  <1> QED
    BY <1>1 DEF ResolveTrunk

\* A trunk is written.
LEMMA WriteTrunkStep ==
  ASSUME TrunkInv, NEW l \in Lanes, NEW owner \in Owners, NEW enabled \in BOOLEAN,
         WriteTrunk(l, owner, enabled)
  PROVE  TrunkInv'
  <1>0. TrunkTyped
    BY DEF TrunkInv
  <1>1. /\ laneWrites' = laneWrites + 1
        /\ lanes' = [lanes EXCEPT ![l] = [owner |-> owner, enabled |-> enabled]]
        /\ owned' = [owned EXCEPT ![l] = @ \cup {owner}]
        /\ UNCHANGED <<cache, dials, readFaults>>
    BY Zenon DEF WriteTrunk
  <1>2. /\ lanes' \in [Lanes -> Lane] /\ lanes'[l].owner = owner
        /\ \A m \in Lanes \ {l} : lanes'[m] = lanes[m]
    BY <1>0, <1>1 DEF TrunkTyped, Lane
  <1>3. /\ owned' \in [Lanes -> SUBSET Owners] /\ owner \in owned'[l]
        /\ \A m \in Lanes : owned[m] \subseteq owned'[m]
    BY <1>0, <1>1 DEF TrunkTyped
  <1>4. ~Untouched' /\ laneWrites' \in Nat
    BY <1>0, <1>1 DEF TrunkTyped, Untouched
  <1>5. TrunkTyped'
    BY <1>0, <1>1, <1>2, <1>3, <1>4 DEF TrunkTyped
  <1>6. \A m \in Lanes : OwnerFits(m)'
    BY <1>2, <1>3 DEF TrunkInv, OwnerFits
  <1>7. ASSUME NEW k \in CacheKeys
        PROVE  KeptFits(k)'
    <2>1. KeptFits(k) /\ cache[k].lane \in Lanes \cup {NoLane}
      BY DEF TrunkInv, TrunkTyped, Kept
    <2> QED
      BY <1>1, <1>3, <1>4, <2>1 DEF KeptFits, Belongs
  <1>8. ASSUME NEW d \in Dials
        PROVE  DialFits(d)'
    <2>1. DialFits(d) /\ dials[d].lane \in Lanes \cup {NoLane}
      BY DEF TrunkInv, TrunkTyped, Dial
    <2> QED
      BY <1>1, <1>3, <1>4, <2>1 DEF DialFits, Belongs
  <1> QED
    BY <1>5, <1>6, <1>7, <1>8 DEF TrunkInv

\* Any other step leaves the rows, and says what becomes of one entry of the
\* cache or of one dial.
RowsRest == lanes' = lanes /\ owned' = owned /\ laneWrites' = laneWrites
LEMMA RowsRestFits ==
  ASSUME TrunkInv, RowsRest, readFaults' \in Nat, readFaults' = 0 => readFaults = 0,
         cache' \in [CacheKeys -> Kept], dials' \in [Dials -> Dial],
         \A k \in CacheKeys : KeptFits(k)', \A d \in Dials : DialFits(d)'
  PROVE  TrunkInv'
  BY DEF TrunkInv, TrunkTyped, RowsRest, OwnerFits

LEMMA ResolvesAlike ==
  ASSUME RowsRest
  PROVE  \A client : ResolveTrunk(client)' = ResolveTrunk(client)
  <1>1. \A owner : OfOwner(owner)' = OfOwner(owner)
    BY DEF OfOwner, RowsRest
  <1> QED
    BY <1>1 DEF ResolveTrunk

\* The entries, and the dials, that are as they were still fit.
LEMMA SameKept ==
  ASSUME TrunkInv, RowsRest, readFaults' = 0 => readFaults = 0, NEW k \in CacheKeys,
         cache'[k].lane = cache[k].lane, cache'[k].at # "absent" => cache[k].at # "absent"
  PROVE  KeptFits(k)'
  <1>1. ResolveTrunk(k)' = ResolveTrunk(k)
    BY ResolvesAlike
  <1>2. KeptFits(k)
    BY DEF TrunkInv
  <1> QED
    BY <1>1, <1>2 DEF KeptFits, Belongs, Untouched, RowsRest

LEMMA SameDial ==
  ASSUME TrunkInv, RowsRest, readFaults' = 0 => readFaults = 0, NEW d \in Dials,
         NEW client \in CacheKeys,
         dials'[d].client = client, Belongs(dials'[d].lane, client),
         Untouched' /\ dials'[d].at \in {"read", "dialled"} =>
           dials'[d].lane = ResolveTrunk(client)
  PROVE  DialFits(d)'
  <1>1. ResolveTrunk(client)' = ResolveTrunk(client)
    BY ResolvesAlike
  <1>2. ResolveTrunk(dials[d].client)' = ResolveTrunk(client)
    BY <1>1 DEF ResolveTrunk, OfOwner
  <1> QED
    BY <1>2 DEF DialFits, Belongs, Untouched, RowsRest

\* What is kept grows old.
LEMMA ExpireStep ==
  ASSUME TrunkInv, NEW k \in CacheKeys, TrunkExpires(k)
  PROVE  TrunkInv'
  <1>0. TrunkTyped
    BY DEF TrunkInv
  <1>1. /\ RowsRest /\ readFaults' = readFaults /\ dials' = dials
        /\ cache[k].at = "fresh" /\ cache' = [cache EXCEPT ![k].at = "stale"]
    BY Zenon DEF TrunkExpires, RowsRest
  <1>2. /\ cache' \in [CacheKeys -> Kept]
        /\ \A m \in CacheKeys : /\ cache'[m].lane = cache[m].lane
                                /\ cache'[m].at # "absent" => cache[m].at # "absent"
    BY <1>0, <1>1 DEF TrunkTyped, Kept
  <1>3. \A m \in CacheKeys : KeptFits(m)'
    BY <1>1, <1>2, SameKept
  <1>4. ASSUME NEW d \in Dials
        PROVE  DialFits(d)'
    <2>1. DialFits(d) /\ dials[d].client \in CacheKeys
      BY DEF TrunkInv, TrunkTyped, Dial
    <2> QED
      BY <1>1, <2>1, SameDial DEF DialFits, Untouched, RowsRest
  <1> QED
    BY <1>0, <1>1, <1>2, <1>3, <1>4, RowsRestFits DEF TrunkTyped

\* A dial takes a trunk, reads one, keeps it or ends.
LEMMA DialSteps ==
  ASSUME TrunkInv, NEW d \in Dials,
         \/ \E client \in CacheKeys : FindTrunkKept(d, client) \/ AskForTrunk(d, client)
         \/ ReadTrunk(d) \/ KeepTrunk(d) \/ ReadTrunkFails(d) \/ HangUpDial(d)
  PROVE  TrunkInv'
  <1>0. TrunkTyped /\ DialFits(d) /\ dials[d] \in Dial
    BY DEF TrunkInv, TrunkTyped
  <1>1. RowsRest
    <2>1. CASE \E client \in CacheKeys : FindTrunkKept(d, client) \/ AskForTrunk(d, client)
      BY <2>1, Zenon DEF FindTrunkKept, AskForTrunk, RowsRest
    <2>2. CASE ReadTrunk(d) \/ KeepTrunk(d) \/ ReadTrunkFails(d) \/ HangUpDial(d)
      BY <2>2, Zenon DEF ReadTrunk, KeepTrunk, ReadTrunkFails, HangUpDial, RowsRest
    <2> QED
      BY <2>1, <2>2
  <1>2. PICK new \in Dial :
          /\ dials' = [dials EXCEPT ![d] = new]
          /\ readFaults' = readFaults
             \/ (readFaults' = readFaults + 1 /\ new.at = "dialled")
          /\ Belongs(new.lane, new.client)
          /\ readFaults' = readFaults /\ Untouched /\ new.at \in {"read", "dialled"} =>
               new.lane = ResolveTrunk(new.client)
          /\ \/ cache' = cache
             \/ /\ new.at = "dialled" /\ readFaults' = readFaults
                /\ cache' = [cache EXCEPT ![new.client] = [lane |-> new.lane, at |-> "fresh"]]
    <2>1. ASSUME NEW client \in CacheKeys,
                 FindTrunkKept(d, client) \/ AskForTrunk(d, client)
          PROVE  \E new \in Dial :
                   /\ dials' = [dials EXCEPT ![d] = new]
                   /\ readFaults' = readFaults /\ cache' = cache
                   /\ Belongs(new.lane, new.client)
                   /\ Untouched /\ new.at \in {"read", "dialled"} =>
                        new.lane = ResolveTrunk(new.client)
      <3>1. PICK at \in {"dialled", "asking"} :
              /\ dials' = [dials EXCEPT ![d] =
                             [client |-> client, at |-> at, lane |-> cache[client].lane]]
              /\ readFaults' = readFaults /\ cache' = cache
              /\ at = "dialled" => cache[client].at = "fresh"
        BY <2>1, Zenon DEF FindTrunkKept, AskForTrunk, CacheKey
      <3> DEFINE new == [client |-> client, at |-> at, lane |-> cache[client].lane]
      <3>2. KeptFits(client) /\ cache[client] \in Kept
        BY DEF TrunkInv, TrunkTyped
      <3>3. /\ new \in Dial /\ new.lane = cache[client].lane
            /\ new.client = client /\ new.at = at
        BY <3>2 DEF Dial, Kept
      <3>4. dials' = [dials EXCEPT ![d] = new]
        BY <3>1
      <3> HIDE DEF new
      <3> QED
        BY <3>1, <3>2, <3>3, <3>4 DEF KeptFits
    <2>2. CASE ReadTrunk(d)
      <3> DEFINE client == dials[d].client
                 new == [dials[d] EXCEPT !.lane = ResolveTrunk(client), !.at = "read"]
      <3>1. /\ dials' = [dials EXCEPT ![d].lane = ResolveTrunk(client), ![d].at = "read"]
            /\ readFaults' = readFaults /\ cache' = cache
        BY <2>2, Zenon DEF ReadTrunk
      <3>2. dials' = [dials EXCEPT ![d] = new]
        BY <1>0, <3>1, Zenon DEF TrunkTyped
      <3>3. client \in CacheKeys
        BY <1>0 DEF Dial
      <3>4. ResolveTrunk(client) \in Lanes \cup {NoLane}
        BY <1>0, <3>3, Resolved
      <3>5. new \in Dial /\ new.lane = ResolveTrunk(client) /\ new.client = client
        BY <1>0, <3>4 DEF Dial
      <3>6. Belongs(ResolveTrunk(client), client)
        <4>1. ASSUME ResolveTrunk(client) # NoLane
              PROVE  /\ ResolveTrunk(client) \in Lanes
                     /\ lanes[ResolveTrunk(client)].owner \in {client, SharedLane}
          BY <1>0, <3>3, <4>1, Resolved DEF OfOwner
        <4> QED
          BY <4>1 DEF Belongs, TrunkInv, OwnerFits
      <3> HIDE DEF new
      <3> QED
        BY <3>1, <3>2, <3>5, <3>6
    <2>3. CASE KeepTrunk(d)
      <3> DEFINE new == [dials[d] EXCEPT !.at = "dialled"]
      <3>1. /\ dials' = [dials EXCEPT ![d].at = "dialled"] /\ dials[d].at = "read"
            /\ readFaults' = readFaults
            /\ cache' = [cache EXCEPT ![dials[d].client] =
                                        [lane |-> dials[d].lane, at |-> "fresh"]]
        BY <2>3, Zenon DEF KeepTrunk, CacheKey
      <3>2. dials' = [dials EXCEPT ![d] = new]
        BY <1>0, <3>1, Zenon DEF TrunkTyped
      <3>3. /\ new \in Dial /\ new.at = "dialled" /\ new.lane = dials[d].lane
            /\ new.client = dials[d].client
        BY <1>0 DEF Dial
      <3> HIDE DEF new
      <3> QED
        BY <1>0, <3>1, <3>2, <3>3 DEF DialFits
    <2>4. CASE ReadTrunkFails(d)
      <3> DEFINE new == [dials[d] EXCEPT !.at = "dialled"]
      <3>1. /\ dials' = [dials EXCEPT ![d].at = "dialled"]
            /\ readFaults' = readFaults + 1 /\ cache' = cache
        BY <2>4, Zenon DEF ReadTrunkFails
      <3>2. dials' = [dials EXCEPT ![d] = new]
        BY <1>0, <3>1, Zenon DEF TrunkTyped
      <3>3. /\ new \in Dial /\ new.at = "dialled" /\ new.lane = dials[d].lane
            /\ new.client = dials[d].client
        BY <1>0 DEF Dial
      <3>4. readFaults' # readFaults
        BY <1>0, <3>1 DEF TrunkTyped
      <3> HIDE DEF new
      <3> QED
        BY <1>0, <3>1, <3>2, <3>3, <3>4 DEF DialFits
    <2>5. CASE HangUpDial(d)
      <3>1. dials' = [dials EXCEPT ![d] = NoDial] /\ readFaults' = readFaults /\ cache' = cache
        BY <2>5, Zenon DEF HangUpDial
      <3>2. NoDial \in Dial /\ NoDial.at = "idle" /\ NoDial.lane = NoLane
        BY DEF NoDial, Dial, CacheKeys
      <3> QED
        BY <3>1, <3>2 DEF Belongs
    <2> QED
      BY <2>1, <2>2, <2>3, <2>4, <2>5
  <1>3. /\ dials' \in [Dials -> Dial] /\ dials'[d] = new
        /\ \A e \in Dials \ {d} : dials'[e] = dials[e]
    BY <1>0, <1>2 DEF TrunkTyped
  <1>4. readFaults' \in Nat /\ (readFaults' = 0 => readFaults' = readFaults)
    BY <1>0, <1>2 DEF TrunkTyped
  <1>5. Untouched' => Untouched /\ readFaults' = readFaults
    BY <1>1, <1>4 DEF Untouched, RowsRest
  <1>6. new.client \in CacheKeys /\ new.lane \in Lanes \cup {NoLane}
    BY DEF Dial
  <1>7. ASSUME NEW e \in Dials
        PROVE  DialFits(e)'
    <2>1. CASE e = d
      BY <1>1, <1>2, <1>3, <1>4, <1>5, <1>6, <2>1, SameDial
    <2>2. CASE e # d
      <3>1. DialFits(e) /\ dials[e].client \in CacheKeys
        BY DEF TrunkInv, TrunkTyped, Dial
      <3> QED
        BY <1>1, <1>3, <1>4, <1>5, <2>2, <3>1, SameDial DEF DialFits
    <2> QED
      BY <2>1, <2>2
  <1>8. cache' \in [CacheKeys -> Kept] /\ \A k \in CacheKeys : KeptFits(k)'
    <2>1. CASE cache' = cache
      BY <1>0, <1>1, <1>4, <2>1, SameKept DEF TrunkTyped
    <2>2. CASE /\ new.at = "dialled" /\ readFaults' = readFaults
               /\ cache' = [cache EXCEPT ![new.client] = [lane |-> new.lane, at |-> "fresh"]]
      <3>1. [lane |-> new.lane, at |-> "fresh"] \in Kept
        BY <1>6 DEF Kept
      <3>2. /\ cache' \in [CacheKeys -> Kept] /\ cache'[new.client].lane = new.lane
            /\ \A k \in CacheKeys \ {new.client} : cache'[k] = cache[k]
        BY <1>0, <1>6, <2>2, <3>1 DEF TrunkTyped
      <3>3. \A k \in CacheKeys \ {new.client} : KeptFits(k)'
        BY <1>1, <1>4, <3>2, SameKept
      <3>4. ASSUME NEW k, k = new.client
            PROVE  KeptFits(k)'
        <4>1. ResolveTrunk(k)' = ResolveTrunk(k)
          BY <1>1, ResolvesAlike
        <4> QED
          BY <1>1, <1>2, <1>5, <2>2, <3>2, <3>4, <4>1 DEF KeptFits, Belongs, RowsRest
      <3> QED
        BY <3>2, <3>3, <3>4
    <2> QED
      BY <1>2, <2>1, <2>2
  <1> QED
    BY <1>1, <1>3, <1>4, <1>7, <1>8, RowsRestFits

LEMMA TrunkInvInit ==
  ASSUME TrunkInit
  PROVE  TrunkInv
  <1>1. TrunkTyped
    <2>1. lanes \in [Lanes -> Lane]
      BY DEF TrunkInit, Lane, Owners
    <2>2. owned \in [Lanes -> SUBSET Owners]
      BY <2>1 DEF TrunkInit, Lane
    <2> QED
      BY <2>1, <2>2 DEF TrunkInit, TrunkTyped, Kept, Dial, NoDial, CacheKeys
  <1>2. /\ \A l \in Lanes : OwnerFits(l)
        /\ \A k \in CacheKeys : KeptFits(k)
        /\ \A d \in Dials : DialFits(d)
    BY DEF TrunkInit, OwnerFits, KeptFits, DialFits, Belongs, NoDial
  <1> QED
    BY <1>1, <1>2 DEF TrunkInv

LEMMA TrunkInvStays ==
  ASSUME TrunkInv, TrunkNext
  PROVE  TrunkInv'
  BY WriteTrunkStep, ExpireStep, DialSteps DEF TrunkNext, Owners

LEMMA TrunkInvStutters ==
  ASSUME TrunkInv, UNCHANGED trunkVars
  PROVE  TrunkInv'
  <1>1. /\ RowsRest /\ readFaults' = readFaults /\ cache' = cache /\ dials' = dials
        /\ TrunkTyped
    BY DEF trunkVars, RowsRest, TrunkInv
  <1>2. \A k \in CacheKeys : KeptFits(k)'
    BY <1>1, SameKept
  <1>3. ASSUME NEW d \in Dials
        PROVE  DialFits(d)'
    <2>1. DialFits(d) /\ dials[d].client \in CacheKeys
      BY DEF TrunkInv, TrunkTyped, Dial
    <2> QED
      BY <1>1, <2>1, SameDial DEF DialFits, Untouched, RowsRest
  <1> QED
    BY <1>1, <1>2, <1>3, RowsRestFits DEF TrunkTyped

\* Numbers of one subscriber are dialled alike.
LEMMA DialledAlike ==
  ASSUME NEW d \in Dials, NEW e \in Dials, Callee[e].subscriber = Callee[d].subscriber
  PROVE  FormatDialNumber(Callee[d]) = FormatDialNumber(Callee[e])
  <1> DEFINE x == Callee[d]
             y == Callee[e]
             Formatted(s) == [plus |-> Format = "e164",
                              code |-> IF Format = "national" THEN "" ELSE "244",
                              subscriber |-> s]
  <1>1. /\ x \in [plus : BOOLEAN, code : STRING, subscriber : STRING]
        /\ y \in [plus : BOOLEAN, code : STRING, subscriber : STRING]
        /\ y.subscriber = x.subscriber
        /\ x.code = y.code \/ {x.code, y.code} \subseteq AngolanCodes
    BY CallsAssumption
  <1> HIDE DEF x, y
  <1>2. ASSUME NEW z, z.code \in AngolanCodes
        PROVE  FormatDialNumber(z) = Formatted(z.subscriber)
    BY <1>2, Zenon DEF FormatDialNumber
  <1>3. ASSUME NEW z, z.code \notin AngolanCodes
        PROVE  FormatDialNumber(z) = [z EXCEPT !.plus = FALSE]
    BY <1>3, Zenon DEF FormatDialNumber
  <1>4. ASSUME x.code \in AngolanCodes, y.code \in AngolanCodes
        PROVE  FormatDialNumber(x) = FormatDialNumber(y)
    <2> HIDE DEF Formatted
    <2> QED
      BY <1>1, <1>2, <1>4
  <1>5. ASSUME x.code = y.code, x.code \notin AngolanCodes
        PROVE  FormatDialNumber(x) = FormatDialNumber(y)
    <2>1. [x EXCEPT !.plus = FALSE] = [y EXCEPT !.plus = FALSE]
      BY <1>1, <1>5
    <2>2. FormatDialNumber(x) = [x EXCEPT !.plus = FALSE]
      BY <1>3, <1>5, Zenon
    <2>3. FormatDialNumber(y) = [y EXCEPT !.plus = FALSE]
      BY <1>3, <1>5, Zenon
    <2> QED
      BY <2>1, <2>2, <2>3, Zenon
  <1>6. FormatDialNumber(x) = FormatDialNumber(y)
    <2>1. \/ x.code \in AngolanCodes /\ y.code \in AngolanCodes
          \/ x.code = y.code /\ x.code \notin AngolanCodes
      BY <1>1
    <2> QED
      BY <1>4, <1>5, <2>1
  <1> QED
    BY <1>6 DEF x, y

LEMMA TrunkInvExplains ==
  ASSUME TrunkInv
  PROVE  TrunkTypeOK /\ CallLeavesByItsTrunk
  <1>1. TrunkTypeOK
    BY DEF TrunkInv, TrunkTyped, OwnerFits, Kept, Dial, TrunkTypeOK
  <1>2. ASSUME NEW d \in Dials, dials[d].at = "dialled"
        PROVE  /\ dials[d].lane # NoLane =>
                    owned[dials[d].lane] \cap {dials[d].client, SharedLane} # {}
               /\ (laneWrites = 0 /\ readFaults = 0 /\ OfOwner(dials[d].client) # {}) =>
                    lanes[dials[d].lane].owner = dials[d].client
    <2>1. DialFits(d) /\ TrunkTyped /\ dials[d].client \in CacheKeys
      BY DEF TrunkInv, TrunkTyped, Dial
    <2>2. ASSUME OfOwner(dials[d].client) # {}
          PROVE  dials[d].client # NoClient
      BY <2>1, <2>2, CallsAssumption DEF OfOwner, TrunkTyped, Lane, Owners, NoClient, SharedLane
    <2>3. ASSUME OfOwner(dials[d].client) # {}
          PROVE  lanes[ResolveTrunk(dials[d].client)].owner = dials[d].client
      <3>1. ResolveTrunk(dials[d].client) \in OfOwner(dials[d].client)
        BY <2>1, <2>2, <2>3, Resolved
      <3> QED
        BY <3>1 DEF OfOwner
    <2> QED
      BY <1>2, <2>1, <2>3 DEF DialFits, Belongs, Untouched
  <1>3. ASSUME NEW d \in Dials, NEW e \in Dials,
               Callee[e].subscriber = Callee[d].subscriber,
               dials[d].lane # NoLane, dials[e].lane # NoLane
        PROVE  Dialled(d) = Dialled(e)
    BY <1>3, DialledAlike DEF Dialled
  <1>4. CallLeavesByItsTrunk
    BY <1>2, <1>3, Zenon DEF CallLeavesByItsTrunk
  <1> QED
    BY <1>1, <1>4

(***************************************************************************)
(* The connection to a PBX of the client's own.                            *)

\* A token is of credentials its PBX accepts: the one in Redis, those that
\* timers will refresh, and the one a test was answered with.
TokenFits == /\ token \in Token /\ timers \subseteq Timer
             /\ token.of # None => token.of \in Accepted
             /\ \A r \in timers : r.of \in Accepted
TestHolds(t) ==
  /\ ptests[t].pc # "idle" => ptests[t].by \in Credentials
  /\ ptests[t].pc \in {"ask", "write"} => ptests[t].with \in Accepted
ConnectionTyped ==
  /\ saved \in Credentials \cup {None} /\ connected \in BOOLEAN
  /\ adapter \in Credentials \cup {None} /\ ptests \in [PTests -> Test]
  /\ doubts \in [crossed : BOOLEAN, kept : BOOLEAN]
ConnectionInv == /\ ConnectionTyped /\ TokenFits /\ ConnectedMeansAccepted
                 /\ \A t \in PTests : TestHolds(t)

\* What is stored is of accepted credentials.
LEMMA TokenIsStored ==
  ASSUME TokenFits, NEW by \in Credentials, NEW of \in Accepted, Store(by, of)
  PROVE  TokenFits' /\ token'.of = of
  <1>1. of \in Credentials /\ [by |-> by, of |-> of] \in Timer
    BY PbxConnectionAssumption DEF Timer
  <1>2. token' = [of |-> of, expiring |-> FALSE]
    BY DEF Store
  <1>3. token' \in Token /\ token'.of = of
    BY <1>1, <1>2 DEF Token
  <1>4. /\ timers' \subseteq Timer
        /\ \A r \in timers' : r.of \in Accepted
    <2>1. timers' = {r \in timers : r.by # by} \cup {[by |-> by, of |-> of]}
      BY DEF Store
    <2> QED
      BY <1>1, <2>1 DEF TokenFits
  <1> QED
    BY <1>3, <1>4 DEF TokenFits

LEMMA Refreshed ==
  ASSUME TokenFits, NEW by \in Credentials, NEW of \in Accepted, RefreshToken(by, of)
  PROVE  TokenFits' /\ token'.of \in Accepted
  <1>1. CASE Store(by, of)
    BY <1>1, TokenIsStored
  <1>2. CASE FetchNewToken(by)
    BY <1>2, TokenIsStored DEF FetchNewToken
  <1> QED
    BY <1>1, <1>2 DEF RefreshToken

LEMMA Got ==
  ASSUME TokenFits, NEW by \in Credentials, NEW of \in Credentials, GetToken(by, of)
  PROVE  TokenFits' /\ of \in Accepted
  <1>1. CASE token.of # None /\ of = token.of /\ UNCHANGED <<token, timers>>
    BY <1>1 DEF TokenFits
  <1>2. CASE token.of # None /\ RefreshToken(by, token.of) /\ of = token'.of
    <2>1. token.of \in Accepted
      BY <1>2 DEF TokenFits
    <2> QED
      BY <1>2, <2>1, Refreshed
  <1>3. CASE FetchNewToken(by) /\ of = by
    BY <1>3, TokenIsStored DEF FetchNewToken
  <1> QED
    BY <1>1, <1>2, <1>3 DEF GetToken

\* The token moves, the tests and what was saved do not.
LEMMA TokenSteps ==
  ASSUME ConnectionInv,
         \/ \E r \in Timer : ProactiveRefresh(r)
         \/ TokenAges \/ UseConnection
  PROVE  ConnectionInv'
  <1>0. ConnectionTyped /\ TokenFits
    BY DEF ConnectionInv
  <1>1. UNCHANGED <<saved, connected, ptests, doubts>>
    BY DEF ProactiveRefresh, TokenAges, UseConnection
  <1>2. adapter' \in Credentials \cup {None}
    BY <1>0 DEF ProactiveRefresh, TokenAges, UseConnection, ConnectionTyped
  <1>3. TokenFits'
    <2>1. ASSUME NEW r \in Timer, ProactiveRefresh(r)
          PROVE  TokenFits'
      <3>1. r \in timers /\ r.by \in Credentials /\ r.of \in Accepted
        BY <1>0, <2>1 DEF ProactiveRefresh, Timer, TokenFits
      <3>2. CASE RefreshToken(r.by, r.of)
        BY <1>0, <3>1, <3>2, Refreshed
      <3>3. CASE timers' = timers \ {r} /\ token' = token
        BY <1>0, <3>3 DEF TokenFits
      <3> QED
        BY <2>1, <3>2, <3>3 DEF ProactiveRefresh
    <2>2. CASE TokenAges
      <3>1. /\ timers' = timers
            /\ token' = NoToken \/ token' = [token EXCEPT !.expiring = TRUE]
        BY <2>2 DEF TokenAges
      <3>2. NoToken \in Token /\ NoToken.of = None
        BY DEF NoToken, Token
      <3>3. token' \in Token /\ (token'.of # None => token'.of = token.of)
        BY <1>0, <3>1, <3>2 DEF TokenFits, Token
      <3> QED
        BY <1>0, <3>1, <3>3 DEF TokenFits
    <2>3. CASE UseConnection
      <3>1. PICK of \in Credentials : GetToken(saved, of)
        BY <2>3 DEF UseConnection
      <3>2. saved \in Credentials
        BY <1>0, <2>3 DEF UseConnection, ConnectionTyped
      <3> QED
        BY <1>0, <3>1, <3>2, Got
    <2> QED
      BY <2>1, <2>2, <2>3
  <1> QED
    BY <1>0, <1>1, <1>2, <1>3
       DEF ConnectionInv, ConnectionTyped, ConnectedMeansAccepted, TestHolds

\* Credentials are saved, or the process starts again.
LEMMA SaveSteps ==
  ASSUME ConnectionInv,
         RestartConnection \/ \E new \in Credentials : SavePbx(new)
  PROVE  ConnectionInv'
  <1>0. ConnectionTyped /\ TokenFits
    BY DEF ConnectionInv
  <1>1. token' = token /\ doubts' = doubts /\ adapter' = None
    BY DEF RestartConnection, SavePbx
  <1>2. CASE RestartConnection
    <2>1. /\ saved' = saved /\ connected' = connected /\ timers' = {}
          /\ ptests' = [t \in PTests |-> NoTest]
      BY <1>2 DEF RestartConnection
    <2>2. NoTest \in Test /\ NoTest.pc = "idle"
      BY DEF NoTest, Test
    <2> QED
      BY <1>0, <1>1, <2>1, <2>2
         DEF ConnectionInv, ConnectionTyped, ConnectedMeansAccepted, TestHolds, TokenFits
  <1>3. ASSUME NEW new \in Credentials, SavePbx(new)
        PROVE  ConnectionInv'
    <2>1. saved' = new /\ connected' = FALSE /\ timers' = timers /\ ptests' = ptests
      BY <1>3 DEF SavePbx
    <2> QED
      BY <1>0, <1>1, <2>1
         DEF ConnectionInv, ConnectionTyped, ConnectedMeansAccepted, TestHolds, TokenFits
  <1> QED
    BY <1>2, <1>3

\* A test goes on: it passes only with a token of accepted credentials.
LEMMA PTestSteps ==
  ASSUME ConnectionInv, NEW t \in PTests,
         StartTest(t) \/ TakeToken(t) \/ AskPbx(t) \/ TestPasses(t) \/ TestFails(t)
  PROVE  ConnectionInv'
  <1>0. ConnectionTyped /\ TokenFits /\ TestHolds(t) /\ ptests[t] \in Test
    BY DEF ConnectionInv, ConnectionTyped
  <1>n. NoTest \in Test /\ NoTest.pc = "idle"
    BY DEF NoTest, Test
  <1>1. saved' = saved /\ adapter' \in Credentials \cup {None}
    <2>1. saved' = saved /\ (adapter' = adapter \/ adapter' = saved)
      BY Zenon DEF StartTest, TakeToken, AskPbx, TestPasses, TestFails
    <2> QED
      BY <1>0, <2>1 DEF ConnectionTyped
  <1>2. PICK new \in Test :
          /\ ptests' = [ptests EXCEPT ![t] = new]
          /\ new.pc # "idle" => new.by \in Credentials
          /\ new.pc \in {"ask", "write"} => new.with \in Accepted
    <2>1. CASE StartTest(t)
      <3> DEFINE new == [NoTest EXCEPT !.pc = "token", !.by = saved]
      <3>1. saved # None /\ ptests' = [ptests EXCEPT ![t] = new]
        BY <2>1, Zenon DEF StartTest
      <3>2. saved \in Credentials
        BY <1>0, <3>1 DEF ConnectionTyped
      <3>3. new \in Test /\ new.by = saved /\ new.pc = "token"
        BY <1>n, <3>2 DEF Test
      <3> HIDE DEF new
      <3> QED
        BY <3>1, <3>2, <3>3
    <2>2. CASE TakeToken(t)
      <3>1. PICK of \in Credentials :
              /\ GetToken(ptests[t].by, of)
              /\ ptests' = [ptests EXCEPT ![t].pc = "ask", ![t].with = of]
        BY <2>2, Zenon DEF TakeToken
      <3>2. ptests[t].by \in Credentials
        BY <1>0, <2>2 DEF TakeToken, TestHolds
      <3>3. of \in Accepted
        BY <1>0, <3>1, <3>2, Got
      <3> DEFINE new == [ptests[t] EXCEPT !.pc = "ask", !.with = of]
      <3>4. new \in Test /\ new.by = ptests[t].by /\ new.with = of
        BY <1>0 DEF Test
      <3>5. ptests' = [ptests EXCEPT ![t] = new]
        BY <1>0, <3>1, Zenon DEF ConnectionTyped
      <3> HIDE DEF new
      <3> QED
        BY <3>2, <3>3, <3>4, <3>5
    <2>3. CASE AskPbx(t)
      <3> DEFINE new == [ptests[t] EXCEPT !.pc = "write"]
      <3>1. ptests[t].pc = "ask" /\ ptests' = [ptests EXCEPT ![t].pc = "write"]
        BY <2>3, Zenon DEF AskPbx
      <3>2. new \in Test /\ new.by = ptests[t].by /\ new.with = ptests[t].with
        BY <1>0 DEF Test
      <3>3. ptests' = [ptests EXCEPT ![t] = new]
        BY <1>0, <3>1, Zenon DEF ConnectionTyped
      <3> HIDE DEF new
      <3> QED
        BY <1>0, <3>1, <3>2, <3>3 DEF TestHolds
    <2>4. CASE TestPasses(t) \/ TestFails(t)
      <3>1. ptests' = [ptests EXCEPT ![t] = NoTest]
        BY <2>4, Zenon DEF TestPasses, TestFails
      <3> QED
        BY <1>n, <3>1
    <2> QED
      BY <2>1, <2>2, <2>3, <2>4
  <1>3. /\ ptests' \in [PTests -> Test] /\ ptests'[t] = new
        /\ \A u \in PTests \ {t} : ptests'[u] = ptests[u]
    BY <1>0, <1>2 DEF ConnectionTyped
  <1>4. \A u \in PTests : TestHolds(u)'
    BY <1>2, <1>3 DEF ConnectionInv, TestHolds
  <1>5. TokenFits'
    <2>1. CASE TakeToken(t)
      <3>1. PICK of \in Credentials : GetToken(ptests[t].by, of)
        BY <2>1, Zenon DEF TakeToken
      <3>2. ptests[t].by \in Credentials
        BY <1>0, <2>1 DEF TakeToken, TestHolds
      <3> QED
        BY <1>0, <3>1, <3>2, Got
    <2>2. CASE UNCHANGED <<token, timers>>
      BY <1>0, <2>2 DEF TokenFits
    <2> QED
      BY <2>1, <2>2, Zenon DEF StartTest, AskPbx, TestPasses, TestFails
  <1>6. /\ connected' \in BOOLEAN /\ doubts' \in [crossed : BOOLEAN, kept : BOOLEAN]
        /\ ConnectedMeansAccepted'
    <2>1. CASE TestPasses(t)
      <3>1. /\ connected' = TRUE /\ ptests[t].pc = "write"
            /\ doubts' = [crossed |-> doubts.crossed \/ ptests[t].by # saved,
                          kept |-> doubts.kept \/ ptests[t].with # ptests[t].by]
        BY <2>1, Zenon DEF TestPasses
      <3>2. doubts' \in [crossed : BOOLEAN, kept : BOOLEAN]
        BY <3>1
      <3>3. /\ doubts'.crossed = (doubts.crossed \/ ptests[t].by # saved)
            /\ doubts'.kept = (doubts.kept \/ ptests[t].with # ptests[t].by)
        BY <3>1
      <3>4. ptests[t].with \in Accepted
        BY <1>0, <3>1 DEF TestHolds
      <3>5. ConnectedMeansAccepted'
        BY <1>1, <3>3, <3>4 DEF ConnectedMeansAccepted
      <3> QED
        BY <3>1, <3>2, <3>5
    <2>2. CASE doubts' = doubts /\ (connected' = connected \/ connected' = FALSE)
      <3>1. connected' \in BOOLEAN /\ doubts' \in [crossed : BOOLEAN, kept : BOOLEAN]
        BY <1>0, <2>2 DEF ConnectionTyped
      <3>2. ConnectedMeansAccepted
        BY DEF ConnectionInv
      <3>3. ConnectedMeansAccepted'
        <4>1. CASE connected' = connected
          BY <1>1, <2>2, <3>2, <4>1 DEF ConnectedMeansAccepted
        <4>2. CASE connected' = FALSE
          BY <4>2 DEF ConnectedMeansAccepted
        <4> QED
          BY <2>2, <4>1, <4>2
      <3> QED
        BY <3>1, <3>3
    <2> QED
      BY <2>1, <2>2, Zenon DEF StartTest, TakeToken, AskPbx, TestFails
  <1> QED
    BY <1>0, <1>1, <1>3, <1>4, <1>5, <1>6 DEF ConnectionInv, ConnectionTyped

LEMMA ConnectionInvInit ==
  ASSUME ConnectionInit
  PROVE  ConnectionInv
  <1>1. ConnectionTyped /\ TokenFits
    BY DEF ConnectionInit, ConnectionTyped, TokenFits, NoToken, Token, NoTest, Test
  <1>2. ConnectedMeansAccepted /\ \A t \in PTests : TestHolds(t)
    BY DEF ConnectionInit, ConnectedMeansAccepted, TestHolds, NoTest
  <1> QED
    BY <1>1, <1>2 DEF ConnectionInv

LEMMA ConnectionInvStays ==
  ASSUME ConnectionInv, ConnectionNext
  PROVE  ConnectionInv'
  BY TokenSteps, SaveSteps, PTestSteps DEF ConnectionNext

LEMMA ConnectionInvStutters ==
  ASSUME ConnectionInv, UNCHANGED connectionVars
  PROVE  ConnectionInv'
  BY DEF ConnectionInv, ConnectionTyped, TokenFits, ConnectedMeansAccepted, TestHolds,
         connectionVars

LEMMA ConnectionInvExplains ==
  ASSUME ConnectionInv
  PROVE  ConnectionTypeOK /\ ConnectedMeansAccepted
  BY DEF ConnectionInv, ConnectionTyped, TokenFits, ConnectionTypeOK

(***************************************************************************)
(* Calls of a PBX.                                                         *)

Trace == [lost : BOOLEAN, closed : BOOLEAN, late : BOOLEAN, covered : BOOLEAN]
PLine == [kind : Kinds, leg : {"none", "ringing", "up", "over"}]
PbxTyped == PbxTypeOK /\ traced \in [PCalls -> Trace]

\* A call whose end was handled is not live unless its ring came late; a row
\* goes only after its end, and covered by a record that is stored.
CloseFits(c) ==
  /\ (/\ line[c].kind = "INBOUND" /\ line[c].leg = "over"
      /\ ~EndPending(c) /\ ~traced[c].lost)
     => traced[c].closed /\ (rows[c].status \notin Live \/ traced[c].late)
  /\ traced[c].late => traced[c].closed
  /\ line[c].kind = "INBOUND" /\ rows[c].status \in Over => traced[c].closed
CoverFits(c) == traced[c].covered => own /\ c \in stored
SyncFits(s) ==
  /\ syncs[s].pc # "idle" => own
  /\ syncs[s].pc \in {"remove", "stamp"} => syncs[s].got \subseteq stored
PbxInv == /\ PbxTyped
          /\ \A c \in PCalls : CloseFits(c) /\ CoverFits(c)
          /\ \A s \in Syncs : SyncFits(s)

\* What is about one call leaves the others, and the synchronisations.
OneCall(c) ==
  /\ own' = own /\ stored' = stored /\ syncs' = syncs /\ spared' = spared
  /\ cdr' \subseteq PCalls /\ line' \in [PCalls -> PLine]
  /\ events' \in [PCalls -> SUBSET CallState] /\ rows' \in [PCalls -> Row]
  /\ ending' \in [PCalls -> SUBSET BOOLEAN] /\ traced' \in [PCalls -> Trace]
  /\ traced'[c].covered = traced[c].covered
  /\ \A d \in PCalls \ {c} :
       /\ line'[d] = line[d] /\ events'[d] = events[d] /\ rows'[d] = rows[d]
       /\ ending'[d] = ending[d] /\ traced'[d] = traced[d]

LEMMA OneCallFits ==
  ASSUME PbxInv, NEW c \in PCalls, OneCall(c), CloseFits(c)'
  PROVE  PbxInv'
  <1>1. PbxTyped'
    BY DEF PbxInv, PbxTyped, PbxTypeOK, OneCall, PLine
  <1>2. ASSUME NEW d \in PCalls
        PROVE  CloseFits(d)' /\ CoverFits(d)'
    <2>1. CloseFits(d) /\ CoverFits(d)
      BY DEF PbxInv
    <2>2. CASE d = c
      BY <2>1, <2>2 DEF OneCall, CoverFits
    <2>3. CASE d # c
      BY <2>1, <2>3 DEF OneCall, CloseFits, CoverFits, EndPending
    <2> QED
      BY <2>2, <2>3
  <1>3. \A s \in Syncs : SyncFits(s)'
    BY DEF PbxInv, SyncFits, OneCall
  <1> QED
    BY <1>1, <1>2, <1>3 DEF PbxInv

\* The types, as the cases below use them.
LEMMA PbxTypes ==
  ASSUME PbxInv, NEW c \in PCalls
  PROVE  /\ line \in [PCalls -> PLine] /\ cdr \subseteq PCalls
         /\ events \in [PCalls -> SUBSET CallState] /\ rows \in [PCalls -> Row]
         /\ ending \in [PCalls -> SUBSET BOOLEAN] /\ traced \in [PCalls -> Trace]
         /\ CloseFits(c)
  BY DEF PbxInv, PbxTyped, PbxTypeOK, PLine

\* The PBX goes on.
LEMMA LineSteps ==
  ASSUME PbxInv, NEW c \in PCalls, Ring(c) \/ PickUp(c) \/ Finish(c) \/ Record(c)
  PROVE  PbxInv'
  <1>0. /\ line \in [PCalls -> PLine] /\ cdr \subseteq PCalls
        /\ events \in [PCalls -> SUBSET CallState] /\ rows \in [PCalls -> Row]
        /\ ending \in [PCalls -> SUBSET BOOLEAN] /\ traced \in [PCalls -> Trace]
        /\ CloseFits(c)
    BY PbxTypes
  <1>1. CASE Record(c)
    <2>1. OneCall(c)
      BY <1>0, <1>1 DEF Record, OneCall
    <2>2. CloseFits(c)'
      BY <1>0, <1>1 DEF Record, CloseFits, EndPending
    <2> QED
      BY <2>1, <2>2, OneCallFits
  <1>2. CASE Ring(c) \/ PickUp(c) \/ Finish(c)
    <2>1. PICK leg \in {"ringing", "up", "over"}, event \in CallState :
            /\ line[c].leg # "over" /\ (leg = "over" => event \in {"ENDED", "FAILED"})
            /\ line' = [line EXCEPT ![c].leg = leg]
            /\ events' = [events EXCEPT ![c] = @ \cup {event}]
            /\ UNCHANGED <<own, cdr, rows, ending, stored, syncs, spared, traced>>
      <3>1. CASE Ring(c)
        BY <3>1 DEF Ring, CallState
      <3>2. CASE PickUp(c)
        BY <3>2 DEF PickUp, CallState
      <3>3. CASE Finish(c)
        BY <3>3 DEF Finish, CallState
      <3> QED
        BY <1>2, <3>1, <3>2, <3>3
    <2>2. /\ line' \in [PCalls -> PLine] /\ line'[c].leg = leg
          /\ line'[c].kind = line[c].kind
          /\ \A d \in PCalls \ {c} : line'[d] = line[d]
      BY <1>0, <2>1 DEF PLine
    <2>3. /\ events' \in [PCalls -> SUBSET CallState]
          /\ events'[c] = events[c] \cup {event}
          /\ \A d \in PCalls \ {c} : events'[d] = events[d]
      BY <1>0, <2>1
    <2>4. OneCall(c)
      BY <1>0, <2>1, <2>2, <2>3 DEF OneCall
    <2>5. CloseFits(c)'
      BY <1>0, <2>1, <2>2, <2>3 DEF CloseFits, EndPending
    <2> QED
      BY <2>4, <2>5, OneCallFits
  <1> QED
    BY <1>1, <1>2

\* What is left to handle of a call.
LEMMA HandledLeaves ==
  ASSUME PbxInv, NEW c \in PCalls, NEW event \in CallState, Handled(c, event)
  PROVE  /\ events' \in [PCalls -> SUBSET CallState]
         /\ events[c] \ {event} \subseteq events'[c] /\ events'[c] \subseteq events[c]
         /\ \A d \in PCalls \ {c} : events'[d] = events[d]
  <1>1. events \in [PCalls -> SUBSET CallState]
    BY PbxTypes
  <1> QED
    BY <1>1 DEF Handled

\* A ring and an answer are handled.
LEMMA RingAnswer ==
  ASSUME PbxInv, NEW c \in PCalls, OnRinging(c) \/ OnAnswered(c)
  PROVE  PbxInv'
  <1>0. /\ line \in [PCalls -> PLine] /\ cdr \subseteq PCalls
        /\ events \in [PCalls -> SUBSET CallState] /\ rows \in [PCalls -> Row]
        /\ ending \in [PCalls -> SUBSET BOOLEAN] /\ traced \in [PCalls -> Trace]
        /\ CloseFits(c)
    BY PbxTypes
  <1>1. CASE OnRinging(c)
    <2>1. Handled(c, "RINGING") /\ UNCHANGED <<lineVars, ending, stored, syncs, spared>>
      BY <1>1, Zenon DEF OnRinging
    <2>2. /\ events' \in [PCalls -> SUBSET CallState]
          /\ events[c] \ {"RINGING"} \subseteq events'[c] /\ events'[c] \subseteq events[c]
          /\ \A d \in PCalls \ {c} : events'[d] = events[d]
      BY <2>1, HandledLeaves DEF CallState
    <2>3. CASE line[c].kind = "INBOUND" /\ rows[c] = NoRow
      <3>1. /\ rows' = [rows EXCEPT ![c] = [status |-> "RINGING", answered |-> FALSE]]
            /\ traced' = [traced EXCEPT ![c].late = traced[c].closed]
        BY <1>1, <2>3, Zenon DEF OnRinging
      <3>2. [status |-> "RINGING", answered |-> FALSE] \in Row
        BY DEF Row, Live
      <3>3. /\ rows' \in [PCalls -> Row] /\ rows'[c].status = "RINGING"
            /\ \A d \in PCalls \ {c} : rows'[d] = rows[d]
        BY <1>0, <3>1, <3>2
      <3>4. /\ traced' \in [PCalls -> Trace] /\ traced'[c].late = traced[c].closed
            /\ traced'[c].closed = traced[c].closed /\ traced'[c].lost = traced[c].lost
            /\ traced'[c].covered = traced[c].covered
            /\ \A d \in PCalls \ {c} : traced'[d] = traced[d]
        BY <1>0, <3>1 DEF Trace
      <3>5. OneCall(c)
        BY <1>0, <2>1, <2>2, <3>3, <3>4 DEF OneCall, lineVars
      <3>6. CloseFits(c)'
        BY <1>0, <2>1, <2>2, <3>3, <3>4 DEF CloseFits, EndPending, lineVars, Live, Over
      <3> QED
        BY <3>5, <3>6, OneCallFits
    <2>4. CASE ~(line[c].kind = "INBOUND" /\ rows[c] = NoRow)
      <3>1. rows' = rows /\ traced' = traced
        BY <1>1, <2>4, Zenon DEF OnRinging
      <3>2. OneCall(c)
        BY <1>0, <2>1, <2>2, <3>1 DEF OneCall, lineVars
      <3>3. CloseFits(c)'
        BY <1>0, <2>1, <2>2, <3>1 DEF CloseFits, EndPending, lineVars
      <3> QED
        BY <3>2, <3>3, OneCallFits
    <2> QED
      BY <2>3, <2>4
  <1>2. CASE OnAnswered(c)
    <2>1. /\ Handled(c, "ANSWERED")
          /\ UNCHANGED <<lineVars, ending, stored, syncs, spared, traced>>
      BY <1>2, Zenon DEF OnAnswered
    <2>2. /\ events' \in [PCalls -> SUBSET CallState]
          /\ events[c] \ {"ANSWERED"} \subseteq events'[c] /\ events'[c] \subseteq events[c]
          /\ \A d \in PCalls \ {c} : events'[d] = events[d]
      BY <2>1, HandledLeaves DEF CallState
    <2>3. /\ rows' \in [PCalls -> Row]
          /\ rows'[c] = rows[c] \/ (rows[c].status = "RINGING" /\ rows'[c].status = "IN_PROGRESS")
          /\ \A d \in PCalls \ {c} : rows'[d] = rows[d]
      <3>1. [status |-> "IN_PROGRESS", answered |-> TRUE] \in Row
        BY DEF Row, Live
      <3>2. CASE line[c].kind = "INBOUND" /\ rows[c].status = "RINGING"
        <4>1. rows' = [rows EXCEPT ![c] = [status |-> "IN_PROGRESS", answered |-> TRUE]]
          BY <1>2, <3>2, Zenon DEF OnAnswered, MayAnswer
        <4> QED
          BY <1>0, <3>1, <3>2, <4>1
      <3>3. CASE ~(line[c].kind = "INBOUND" /\ rows[c].status = "RINGING")
        <4>1. rows' = rows
          BY <1>2, <3>3, Zenon DEF OnAnswered, MayAnswer
        <4> QED
          BY <1>0, <4>1
      <3> QED
        BY <3>2, <3>3
    <2>4. OneCall(c)
      BY <1>0, <2>1, <2>2, <2>3 DEF OneCall, lineVars
    <2>5. CloseFits(c)'
      BY <1>0, <2>1, <2>2, <2>3 DEF CloseFits, EndPending, lineVars, Live, Over
    <2> QED
      BY <2>4, <2>5, OneCallFits
  <1> QED
    BY <1>1, <1>2

\* An end is handled, or an event is lost.
LEMMA EndSteps ==
  ASSUME PbxInv, NEW c \in PCalls,
         OnEnded(c) \/ EndedUpdate(c) \/ OnFailed(c) \/ LoseEvent(c)
  PROVE  PbxInv'
  <1>0. /\ line \in [PCalls -> PLine] /\ cdr \subseteq PCalls
        /\ events \in [PCalls -> SUBSET CallState] /\ rows \in [PCalls -> Row]
        /\ ending \in [PCalls -> SUBSET BOOLEAN] /\ traced \in [PCalls -> Trace]
        /\ CloseFits(c)
    BY PbxTypes
  <1>c. /\ [traced EXCEPT ![c].closed = TRUE] \in [PCalls -> Trace]
        /\ [traced EXCEPT ![c].closed = TRUE][c].closed = TRUE
        /\ [traced EXCEPT ![c].closed = TRUE][c].lost = traced[c].lost
        /\ [traced EXCEPT ![c].closed = TRUE][c].late = traced[c].late
        /\ [traced EXCEPT ![c].closed = TRUE][c].covered = traced[c].covered
        /\ \A d \in PCalls \ {c} : [traced EXCEPT ![c].closed = TRUE][d] = traced[d]
    BY <1>0 DEF Trace
  <1>1. CASE OnEnded(c)
    <2>1. Handled(c, "ENDED") /\ UNCHANGED <<lineVars, rows, stored, syncs, spared>>
      BY <1>1, Zenon DEF OnEnded
    <2>2. /\ events' \in [PCalls -> SUBSET CallState]
          /\ events[c] \ {"ENDED"} \subseteq events'[c] /\ events'[c] \subseteq events[c]
          /\ \A d \in PCalls \ {c} : events'[d] = events[d]
      BY <2>1, HandledLeaves DEF CallState
    <2>3. CASE rows[c] = NoRow
      <3>1. traced' = [traced EXCEPT ![c].closed = TRUE] /\ ending' = ending
        BY <1>1, <2>3, Zenon DEF OnEnded
      <3>2. rows[c].status = "none"
        BY <2>3 DEF NoRow
      <3>3. OneCall(c)
        BY <1>0, <1>c, <2>1, <2>2, <3>1 DEF OneCall, lineVars
      <3>4. CloseFits(c)'
        BY <1>0, <1>c, <2>1, <2>2, <3>1, <3>2 DEF CloseFits, lineVars, Live, Over
      <3> QED
        BY <3>3, <3>4, OneCallFits
    <2>4. CASE rows[c] # NoRow
      <3>1. /\ ending' = [ending EXCEPT ![c] = @ \cup {rows[c].answered}]
            /\ traced' = traced
        BY <1>1, <2>4, Zenon DEF OnEnded
      <3>2. /\ ending' \in [PCalls -> SUBSET BOOLEAN] /\ ending'[c] # {}
            /\ \A d \in PCalls \ {c} : ending'[d] = ending[d]
        BY <1>0, <3>1 DEF Row
      <3>3. OneCall(c)
        BY <1>0, <2>1, <2>2, <3>1, <3>2 DEF OneCall, lineVars
      <3>4. CloseFits(c)'
        BY <1>0, <2>1, <2>2, <3>1, <3>2 DEF CloseFits, EndPending, lineVars
      <3> QED
        BY <3>3, <3>4, OneCallFits
    <2> QED
      BY <2>3, <2>4
  <1>2. CASE EndedUpdate(c)
    <2>1. PICK answered \in ending[c] :
            /\ rows' = [rows EXCEPT ![c] = [rows[c] EXCEPT
                 !.status = IF answered THEN "COMPLETED" ELSE "NO_ANSWER"]]
            /\ traced' = [traced EXCEPT ![c].closed = TRUE]
            /\ ending' = [ending EXCEPT ![c] = @ \ {answered}]
            /\ UNCHANGED <<lineVars, events, stored, syncs, spared>>
      BY <1>2, Zenon DEF EndedUpdate, Close
    <2>2. /\ rows' \in [PCalls -> Row] /\ rows'[c].status \in Over
          /\ \A d \in PCalls \ {c} : rows'[d] = rows[d]
      BY <1>0, <2>1 DEF Row, Over
    <2>3. /\ ending' \in [PCalls -> SUBSET BOOLEAN]
          /\ \A d \in PCalls \ {c} : ending'[d] = ending[d]
      BY <1>0, <2>1
    <2>4. OneCall(c)
      BY <1>0, <1>c, <2>1, <2>2, <2>3 DEF OneCall, lineVars
    <2>5. CloseFits(c)'
      BY <1>0, <1>c, <2>1, <2>2, <2>3 DEF CloseFits, lineVars, Live, Over
    <2> QED
      BY <2>4, <2>5, OneCallFits
  <1>3. CASE OnFailed(c)
    <2>1. Handled(c, "FAILED") /\ UNCHANGED <<lineVars, ending, stored, syncs, spared>>
      BY <1>3, Zenon DEF OnFailed
    <2>2. /\ events' \in [PCalls -> SUBSET CallState]
          /\ \A d \in PCalls \ {c} : events'[d] = events[d]
      BY <2>1, HandledLeaves DEF CallState
    <2>3. traced' = [traced EXCEPT ![c].closed = TRUE]
      BY <1>3, Zenon DEF OnFailed, Close
    <2>4. /\ rows' \in [PCalls -> Row]
          /\ rows'[c].status \in Over \/ line[c].kind # "INBOUND" \/ rows'[c] = NoRow
          /\ \A d \in PCalls \ {c} : rows'[d] = rows[d]
      <3>1. CASE line[c].kind = "INBOUND" /\ rows[c] # NoRow
        <4>1. rows' = [rows EXCEPT ![c] = [rows[c] EXCEPT !.status = "NO_ANSWER"]]
          BY <1>3, <3>1, Zenon DEF OnFailed, Close
        <4> QED
          BY <1>0, <4>1 DEF Row, Over
      <3>2. CASE ~(line[c].kind = "INBOUND" /\ rows[c] # NoRow)
        <4>1. rows' = rows
          BY <1>3, <3>2, Zenon DEF OnFailed
        <4> QED
          BY <1>0, <3>2, <4>1
      <3> QED
        BY <3>1, <3>2
    <2>5. OneCall(c)
      BY <1>0, <1>c, <2>1, <2>2, <2>3, <2>4 DEF OneCall, lineVars
    <2>6. CloseFits(c)'
      BY <1>0, <1>c, <2>1, <2>3, <2>4 DEF CloseFits, lineVars, Live, Over, NoRow
    <2> QED
      BY <2>5, <2>6, OneCallFits
  <1>4. CASE LoseEvent(c)
    <2>1. PICK event \in events[c] :
            /\ events' = [events EXCEPT ![c] = @ \ {event}]
            /\ traced' = [traced EXCEPT ![c].lost = TRUE]
            /\ UNCHANGED <<lineVars, rows, ending, stored, syncs, spared>>
      BY <1>4, Zenon DEF LoseEvent
    <2>2. /\ events' \in [PCalls -> SUBSET CallState]
          /\ \A d \in PCalls \ {c} : events'[d] = events[d]
      BY <1>0, <2>1
    <2>3. /\ traced' \in [PCalls -> Trace] /\ traced'[c].late = traced[c].late
          /\ traced'[c].closed = traced[c].closed /\ traced'[c].lost = TRUE
          /\ traced'[c].covered = traced[c].covered
          /\ \A d \in PCalls \ {c} : traced'[d] = traced[d]
      BY <1>0, <2>1 DEF Trace
    <2>4. OneCall(c)
      BY <1>0, <2>1, <2>2, <2>3 DEF OneCall, lineVars
    <2>5. CloseFits(c)'
      BY <1>0, <2>1, <2>3 DEF CloseFits, lineVars
    <2> QED
      BY <2>4, <2>5, OneCallFits
  <1> QED
    BY <1>1, <1>2, <1>3, <1>4

\* The engine closes a call of the platform.
LEMMA EngineClosesStep ==
  ASSUME PbxInv, NEW c \in PCalls, EngineCloses(c)
  PROVE  PbxInv'
  <1>0. /\ line \in [PCalls -> PLine] /\ cdr \subseteq PCalls
        /\ events \in [PCalls -> SUBSET CallState] /\ rows \in [PCalls -> Row]
        /\ ending \in [PCalls -> SUBSET BOOLEAN] /\ traced \in [PCalls -> Trace]
        /\ CloseFits(c)
    BY PbxTypes
  <1>1. /\ line[c].kind = "PLATFORM"
        /\ rows' = [rows EXCEPT ![c].status = "ESCALATED"]
        /\ UNCHANGED <<lineVars, events, ending, stored, syncs, spared, traced>>
    BY Zenon DEF EngineCloses
  <1>2. rows' \in [PCalls -> Row] /\ \A d \in PCalls \ {c} : rows'[d] = rows[d]
    BY <1>0, <1>1 DEF Row, Over
  <1>3. OneCall(c)
    BY <1>0, <1>1, <1>2 DEF OneCall, lineVars
  <1>4. CloseFits(c)'
    BY <1>0, <1>1 DEF CloseFits, lineVars
  <1> QED
    BY <1>3, <1>4, OneCallFits

\* What is about one synchronisation leaves the calls, but what it stores.
OneSync(s) ==
  /\ own' = own /\ cdr' = cdr /\ line' = line /\ events' = events
  /\ stored \subseteq stored' /\ stored' \subseteq PCalls
  /\ syncs' \in [Syncs -> Sync] /\ \A r \in Syncs \ {s} : syncs'[r] = syncs[r]
  /\ spared' \in [Triggers -> BOOLEAN]
LEMMA OneSyncFits ==
  ASSUME PbxInv, NEW s \in Syncs, OneSync(s), SyncFits(s)',
         rows' \in [PCalls -> Row], ending' \in [PCalls -> SUBSET BOOLEAN],
         traced' \in [PCalls -> Trace],
         \A c \in PCalls : CloseFits(c)' /\ CoverFits(c)'
  PROVE  PbxInv'
  <1>1. PbxTyped'
    BY DEF PbxInv, PbxTyped, PbxTypeOK, OneSync
  <1>2. ASSUME NEW r \in Syncs
        PROVE  SyncFits(r)'
    <2>1. SyncFits(r)
      BY DEF PbxInv
    <2>2. CASE r = s
      BY <2>2
    <2>3. CASE r # s
      BY <2>1, <2>3 DEF SyncFits, OneSync
    <2> QED
      BY <2>2, <2>3
  <1> QED
    BY <1>1, <1>2 DEF PbxInv

\* The calls fit as they did when only records are stored.
LEMMA CallsRest ==
  ASSUME PbxInv, NEW s \in Syncs, OneSync(s), SyncFits(s)',
         rows' = rows, ending' = ending, traced' = traced
  PROVE  PbxInv'
  <1>1. \A c \in PCalls : CloseFits(c)' /\ CoverFits(c)'
    BY DEF PbxInv, CloseFits, CoverFits, EndPending, OneSync
  <1> QED
    BY <1>1, OneSyncFits DEF PbxInv, PbxTyped, PbxTypeOK

\* A synchronisation begins, reads, stores, ends or fails.
LEMMA SyncSteps ==
  ASSUME PbxInv, NEW s \in Syncs,
         \/ EnsureCdrSynced(s) \/ SyncCdrOnWebhook(s) \/ FetchCdr(s)
         \/ UpsertRecords(s) \/ StampSync(s) \/ SyncFails(s)
  PROVE  PbxInv'
  <1>0. /\ PbxTypeOK /\ SyncFits(s) /\ syncs[s] \in Sync
        /\ syncs \in [Syncs -> Sync] /\ spared \in [Triggers -> BOOLEAN]
        /\ stored \subseteq PCalls
    BY DEF PbxInv, PbxTyped, PbxTypeOK
  <1>1. rows' = rows /\ ending' = ending /\ traced' = traced
        /\ own' = own /\ cdr' = cdr /\ line' = line /\ events' = events
    <2>1. CASE EnsureCdrSynced(s) \/ SyncCdrOnWebhook(s)
      BY <2>1, Zenon DEF EnsureCdrSynced, SyncCdrOnWebhook, lineVars
    <2>2. CASE FetchCdr(s) \/ UpsertRecords(s)
      BY <2>2, Zenon DEF FetchCdr, UpsertRecords, lineVars
    <2>3. CASE StampSync(s) \/ SyncFails(s)
      BY <2>3, Zenon DEF StampSync, SyncFails, lineVars
    <2> QED
      BY <2>1, <2>2, <2>3
  <1>2. spared' \in [Triggers -> BOOLEAN]
    <2>1. spared' = spared \/ \E t : spared' = [spared EXCEPT ![t] = TRUE]
      <3>1. CASE EnsureCdrSynced(s) \/ SyncCdrOnWebhook(s)
        BY <3>1, Zenon DEF EnsureCdrSynced, SyncCdrOnWebhook
      <3>2. CASE FetchCdr(s) \/ UpsertRecords(s)
        BY <3>2, Zenon DEF FetchCdr, UpsertRecords
      <3>3. CASE StampSync(s) \/ SyncFails(s)
        BY <3>3, Zenon DEF StampSync, SyncFails
      <3> QED
        BY <3>1, <3>2, <3>3
    <2> QED
      BY <1>0, <2>1
  <1>3. PICK new \in Sync :
          /\ syncs' = [syncs EXCEPT ![s] = new]
          /\ stored \subseteq stored' /\ stored' \subseteq PCalls
          /\ new.pc # "idle" => own
          /\ new.pc \in {"remove", "stamp"} => new.got \subseteq stored'
    <2>n. NoSync \in Sync /\ NoSync.pc = "idle"
      BY DEF NoSync, Sync, Triggers
    <2>1. CASE EnsureCdrSynced(s)
      <3> DEFINE new == [NoSync EXCEPT !.pc = "fetch"]
      <3>1. own /\ syncs' = [syncs EXCEPT ![s] = new] /\ stored' = stored
        BY <2>1, Zenon DEF EnsureCdrSynced
      <3>2. new \in Sync /\ new.pc = "fetch"
        BY <2>n DEF Sync
      <3> HIDE DEF new
      <3> QED
        BY <1>0, <3>1, <3>2
    <2>2. CASE SyncCdrOnWebhook(s)
      <3> DEFINE new == [pc |-> "fetch", by |-> "webhook", got |-> {}]
      <3>1. own /\ syncs' = [syncs EXCEPT ![s] = new] /\ stored' = stored
        BY <2>2, Zenon DEF SyncCdrOnWebhook
      <3>2. new \in Sync /\ new.pc = "fetch"
        BY DEF Sync, Triggers
      <3> HIDE DEF new
      <3> QED
        BY <1>0, <3>1, <3>2
    <2>3. CASE FetchCdr(s)
      <3>1. PICK found \in SUBSET cdr :
              syncs' = [syncs EXCEPT ![s].pc = NextStep(@), ![s].got = found]
        BY <2>3, Zenon DEF FetchCdr, Advance
      <3>2. syncs[s].pc = "fetch" /\ stored' = stored /\ found \subseteq PCalls
        BY <1>0, <2>3, Zenon DEF FetchCdr, PbxTypeOK
      <3>3. NextStep(syncs[s].pc) = "upsert"
        BY <3>2 DEF NextStep
      <3> DEFINE new == [syncs[s] EXCEPT !.pc = "upsert", !.got = found]
      <3>4. new \in Sync /\ new.pc = "upsert"
        BY <1>0, <3>2 DEF Sync
      <3>5. syncs' = [syncs EXCEPT ![s] = new]
        BY <1>0, <3>1, <3>3, Zenon
      <3>6. own
        BY <1>0, <3>2 DEF SyncFits
      <3> HIDE DEF new
      <3> QED
        BY <1>0, <3>2, <3>4, <3>5, <3>6
    <2>4. CASE UpsertRecords(s)
      <3> DEFINE got == syncs[s].got
      <3>1. /\ syncs[s].pc = "upsert" /\ stored' = stored \cup got
            /\ syncs' = [syncs EXCEPT ![s].pc = NextStep(@), ![s].got = got]
        BY <2>4, Zenon DEF UpsertRecords, Advance
      <3>2. NextStep(syncs[s].pc) = "remove" /\ got \subseteq PCalls
        BY <1>0, <3>1 DEF NextStep, Sync
      <3> DEFINE new == [syncs[s] EXCEPT !.pc = "remove", !.got = got]
      <3>3. new \in Sync /\ new.got = got
        BY <1>0, <3>2 DEF Sync
      <3>4. syncs' = [syncs EXCEPT ![s] = new]
        BY <1>0, <3>1, <3>2, Zenon
      <3>5. own
        BY <1>0, <3>1 DEF SyncFits
      <3> HIDE DEF new
      <3> QED
        BY <1>0, <3>1, <3>2, <3>3, <3>4, <3>5
    <2>5. CASE StampSync(s)
      <3>1. syncs' = [syncs EXCEPT ![s] = NoSync] /\ stored' = stored
        BY <2>5, Zenon DEF StampSync
      <3> QED
        BY <1>0, <2>n, <3>1
    <2>6. CASE SyncFails(s)
      <3>1. PICK some \in SUBSET syncs[s].got :
              stored' = IF syncs[s].pc = "upsert" THEN stored \cup some ELSE stored
        BY <2>6, Zenon DEF SyncFails
      <3>2. syncs' = [syncs EXCEPT ![s] = NoSync] /\ some \subseteq PCalls
        BY <1>0, <2>6 DEF SyncFails, Sync
      <3> QED
        BY <1>0, <2>n, <3>1, <3>2
    <2> QED
      BY <2>1, <2>2, <2>3, <2>4, <2>5, <2>6
  <1>4. /\ syncs' \in [Syncs -> Sync] /\ syncs'[s] = new
        /\ \A r \in Syncs \ {s} : syncs'[r] = syncs[r]
    BY <1>0, <1>3
  <1>5. OneSync(s)
    BY <1>1, <1>2, <1>3, <1>4 DEF OneSync
  <1>6. SyncFits(s)'
    BY <1>1, <1>3, <1>4 DEF SyncFits
  <1> QED
    BY <1>1, <1>5, <1>6, CallsRest

\* The rows that are over go.
LEMMA DeleteStep ==
  ASSUME PbxInv, NEW s \in Syncs, DeleteFinished(s)
  PROVE  PbxInv'
  <1> DEFINE got == syncs[s].got
  <1>0. /\ PbxTypeOK /\ SyncFits(s) /\ syncs[s] \in Sync
        /\ syncs \in [Syncs -> Sync] /\ spared \in [Triggers -> BOOLEAN]
        /\ stored \subseteq PCalls /\ traced \in [PCalls -> Trace]
        /\ rows \in [PCalls -> Row] /\ ending \in [PCalls -> SUBSET BOOLEAN]
    BY DEF PbxInv, PbxTyped, PbxTypeOK
  <1>1. /\ syncs[s].pc = "remove"
        /\ rows' = [c \in PCalls |-> IF Finished(c) THEN NoRow ELSE rows[c]]
        /\ ending' = [c \in PCalls |-> IF Finished(c) THEN {} ELSE ending[c]]
        /\ traced' = [c \in PCalls |->
             [traced[c] EXCEPT !.covered = @ \/ (Finished(c) /\ c \in got)]]
        /\ syncs' = [syncs EXCEPT ![s].pc = NextStep(@), ![s].got = got]
        /\ UNCHANGED <<lineVars, events, stored, spared>>
    BY Zenon DEF DeleteFinished, Advance
  <1>2. own /\ got \subseteq stored /\ got \subseteq PCalls
    BY <1>0, <1>1 DEF SyncFits, Sync
  <1>3. /\ syncs' \in [Syncs -> Sync] /\ syncs'[s].got = got
        /\ \A r \in Syncs \ {s} : syncs'[r] = syncs[r]
    <2>1. NextStep(syncs[s].pc) = "stamp"
      BY <1>1 DEF NextStep
    <2> DEFINE new == [syncs[s] EXCEPT !.pc = "stamp", !.got = got]
    <2>2. new \in Sync /\ new.got = got
      BY <1>0, <1>2 DEF Sync
    <2>3. syncs' = [syncs EXCEPT ![s] = new]
      BY <1>0, <1>1, <2>1, Zenon
    <2> HIDE DEF new
    <2> QED
      BY <1>0, <2>2, <2>3
  <1> HIDE DEF got
  <1>4. OneSync(s) /\ SyncFits(s)'
    BY <1>0, <1>1, <1>2, <1>3 DEF OneSync, SyncFits, lineVars
  <1>5. NoRow \in Row /\ NoRow.status = "none"
    BY DEF NoRow, Row
  <1>6. ASSUME NEW c \in PCalls
        PROVE  /\ traced'[c] \in Trace /\ traced'[c].closed = traced[c].closed
               /\ traced'[c].lost = traced[c].lost /\ traced'[c].late = traced[c].late
               /\ traced'[c].covered => traced[c].covered \/ c \in got
    <2>1. traced[c] \in Trace
      BY <1>0
    <2>2. (traced[c].covered \/ (Finished(c) /\ c \in got)) \in BOOLEAN
      BY <2>1 DEF Trace
    <2>3. traced'[c] = [traced[c] EXCEPT
                          !.covered = traced[c].covered \/ (Finished(c) /\ c \in got)]
      BY <1>1
    <2> QED
      BY <2>1, <2>2, <2>3 DEF Trace
  <1>7. traced' \in [PCalls -> Trace]
    <2>1. traced' = [c \in PCalls |-> traced'[c]]
      BY <1>1
    <2> QED
      BY <1>6, <2>1
  <1>8. /\ rows' \in [PCalls -> Row] /\ ending' \in [PCalls -> SUBSET BOOLEAN]
        /\ \A c \in PCalls : IF Finished(c) THEN rows'[c] = NoRow
                             ELSE rows'[c] = rows[c] /\ ending'[c] = ending[c]
    BY <1>0, <1>1, <1>5
  <1>9. ASSUME NEW c \in PCalls
        PROVE  CloseFits(c)' /\ CoverFits(c)'
    <2>1. CloseFits(c) /\ CoverFits(c)
      BY DEF PbxInv
    <2>2. CoverFits(c)'
      BY <1>1, <1>2, <1>6, <2>1 DEF CoverFits, lineVars
    <2>3. CASE Finished(c)
      BY <1>1, <1>5, <1>6, <1>8, <2>1, <2>2, <2>3
         DEF CloseFits, Finished, lineVars, Live, Over
    <2>4. CASE ~Finished(c)
      BY <1>1, <1>6, <1>8, <2>1, <2>2, <2>4 DEF CloseFits, EndPending, lineVars
    <2> QED
      BY <2>3, <2>4
  <1> QED
    BY <1>4, <1>7, <1>8, <1>9, OneSyncFits

LEMMA PbxInvInit ==
  ASSUME PbxInit
  PROVE  PbxInv
  <1>1. PbxTyped
    <2>1. line \in [PCalls -> PLine] /\ syncs \in [Syncs -> Sync]
      BY DEF PbxInit, PLine, NoSync, Sync, Triggers
    <2>2. rows \in [PCalls -> Row]
      <3>1. NoRow \in Row /\ [status |-> "IN_PROGRESS", answered |-> TRUE] \in Row
        BY DEF NoRow, Row, Live
      <3> QED
        BY <3>1 DEF PbxInit
    <2>3. traced \in [PCalls -> Trace]
      BY DEF PbxInit, Trace
    <2> QED
      BY <2>1, <2>2, <2>3 DEF PbxInit, PbxTyped, PbxTypeOK, PLine
  <1>2. ASSUME NEW c \in PCalls
        PROVE  CloseFits(c) /\ CoverFits(c)
    <2>1. /\ line[c].leg = "none"
          /\ line[c].kind = "INBOUND" => rows[c].status = "none"
      BY DEF PbxInit, NoRow
    <2>2. traced[c] = [lost |-> FALSE, closed |-> FALSE, late |-> FALSE, covered |-> FALSE]
      BY DEF PbxInit
    <2> QED
      BY <2>1, <2>2 DEF CloseFits, CoverFits, Over
  <1>3. \A s \in Syncs : SyncFits(s)
    BY DEF PbxInit, SyncFits, NoSync
  <1> QED
    BY <1>1, <1>2, <1>3 DEF PbxInv

LEMMA PbxInvStutters ==
  ASSUME PbxInv, UNCHANGED pbxVars
  PROVE  PbxInv'
  <1>1. PbxTyped'
    BY DEF PbxInv, PbxTyped, PbxTypeOK, pbxVars, lineVars
  <1>2. \A c \in PCalls : CloseFits(c)' /\ CoverFits(c)'
    BY DEF PbxInv, CloseFits, CoverFits, EndPending, pbxVars, lineVars
  <1>3. \A s \in Syncs : SyncFits(s)'
    BY DEF PbxInv, SyncFits, pbxVars, lineVars
  <1> QED
    BY <1>1, <1>2, <1>3 DEF PbxInv

LEMMA PbxInvStays ==
  ASSUME PbxInv, PbxNext
  PROVE  PbxInv'
  <1>1. ASSUME NEW t \in Triggers, WaitABit(t)
        PROVE  PbxInv'
    <2>1. /\ spared' = [spared EXCEPT ![t] = FALSE]
          /\ UNCHANGED <<lineVars, events, rows, ending, stored, syncs, traced>>
      BY <1>1 DEF WaitABit
    <2>2. PbxTyped'
      BY <2>1 DEF PbxInv, PbxTyped, PbxTypeOK, lineVars
    <2>3. \A c \in PCalls : CloseFits(c)' /\ CoverFits(c)'
      BY <2>1 DEF PbxInv, CloseFits, CoverFits, EndPending, lineVars
    <2>4. \A s \in Syncs : SyncFits(s)'
      BY <2>1 DEF PbxInv, SyncFits, lineVars
    <2> QED
      BY <2>2, <2>3, <2>4 DEF PbxInv
  <1> QED
    BY <1>1, LineSteps, RingAnswer, EndSteps, EngineClosesStep, SyncSteps, DeleteStep
       DEF PbxNext

LEMMA PbxInvExplains ==
  ASSUME PbxInv
  PROVE  PbxTypeOK /\ OverIsNotLive /\ RemovedCallIsListed
  <1>1. OverIsNotLive
    BY DEF PbxInv, CloseFits, OverIsNotLive, ActiveInboundCalls
  <1>2. RemovedCallIsListed
    BY DEF PbxInv, CoverFits, RemovedCallIsListed, Listed
  <1> QED
    BY <1>1, <1>2 DEF PbxInv, PbxTyped


(***************************************************************************)
(* The engine and its files.                                               *)

RunFields == {"at", "unread", "trunks", "extensions", "alone"}
Reloads == [module : {"res_pjsip", "res_pjsip_outbound_registration", "pbx_config"}, loaded : BOOLEAN]

\* A run reads before it takes its first step.
SyncRunFits(run) == /\ DOMAIN run = RunFields /\ run.at \in 0..9 /\ run.alone \in BOOLEAN
                    /\ run.unread \subseteq {"trunks", "extensions"}
                    /\ run.unread # {} => run.at = 1
RunsFit == /\ DOMAIN runs = Runs
           /\ \A r \in Runs : SyncRunFits(runs[r])
FilesTyped == /\ DOMAIN files = FileNames
              /\ DOMAIN engine = {"endpoints", "registrations", "globals", "extensions"}
              /\ reloading \in Reloads \cup {Ready}
EngineTyped == EngineTypeOK /\ owed <= changes /\ RunsFit /\ FilesTyped

\* No run has a step before the n-th to take.
Past(n) == \A r \in Runs : runs[r].at = 0 \/ runs[r].at >= n

\* Without a cause at most one run is under way, no other writes with it, and
\* the reload the engine is busy with is the last the run asked for.
ReloadFits(run) ==
  /\ run.at \in 1..7 => reloading = Ready
  /\ run.at = 8 => reloading.module \in {"none", "res_pjsip"}
  /\ run.at = 9 => reloading.module \in {"none", "res_pjsip_outbound_registration"}
AloneFits ==
  /\ \A r, x \in Runs : runs[r].at > 0 /\ runs[x].at > 0 => r = x
  /\ \A r \in Runs : /\ runs[r].at \in {2, 4, 6} => runs[r].alone
                     /\ ReloadFits(runs[r])
  /\ Past(10) => reloading.module \in {"none", "pbx_config"}

\* With every change scheduled too, each step leaves the rows as they are in
\* what it read, wrote or had loaded, or will have loaded at the reload the
\* engine has accepted.
ReadFits(run) == run.at \in 1..6 => /\ "trunks" \in run.unread \/ run.trunks = trunks
                                    /\ "extensions" \in run.unread \/ run.extensions = extensions
Awaited(m) == reloading = [module |-> m, loaded |-> FALSE]
FilesFit ==
  /\ Past(3) => files["pjsip"] = {PjsipFile(trunks, extensions)}
  /\ Past(5) => \E c \in GlobalsChoices(trunks) : files["globals"] = {c}
  /\ Past(7) => files["extensions"] = {DialplanFile(trunks)}
LoadedFits ==
  /\ Past(8) => Awaited("res_pjsip") \/ engine.endpoints = files["pjsip"]
  /\ Past(9) => \/ Awaited("res_pjsip_outbound_registration")
                \/ engine.registrations = {Registrations(c) : c \in files["pjsip"]}
  /\ Past(10) => \/ Awaited("pbx_config")
                 \/ engine.globals = files["globals"] /\ engine.extensions = files["extensions"]
RowsFollow == FilesFit /\ LoadedFits /\ \A r \in Runs : ReadFits(runs[r])

EngineInv == /\ EngineTyped
             /\ cause = {} => AloneFits
             /\ cause = {} /\ owed = 0 => RowsFollow

LEMMA PlanIs ==
  /\ Len(Plan) = 9
  /\ Plan[1] = <<"open", "pjsip">> /\ Plan[2] = <<"close", "pjsip">>
  /\ Plan[3] = <<"open", "globals">> /\ Plan[4] = <<"close", "globals">>
  /\ Plan[5] = <<"open", "extensions">> /\ Plan[6] = <<"close", "extensions">>
  /\ Plan[7] = <<"reload", "res_pjsip">>
  /\ Plan[8] = <<"reload", "res_pjsip_outbound_registration">>
  /\ Plan[9] = <<"reload", "pbx_config">>
  BY DEF Plan, Steps

\* What a run is doing tells how far it is.
DoingFits(doing, at) ==
  /\ \A f \in FileNames : doing = <<"open", f>> => /\ at \in {1, 3, 5}
                                                   /\ f = "pjsip" <=> at = 1
                                                   /\ f = "globals" <=> at = 3
                                                   /\ f = "extensions" <=> at = 5
  /\ \A f \in FileNames : doing = <<"close", f>> => /\ at \in {2, 4, 6}
                                                    /\ f = "pjsip" <=> at = 2
                                                    /\ f = "globals" <=> at = 4
                                                    /\ f = "extensions" <=> at = 6
  /\ doing[1] = "reload" => at \in {7, 8, 9}
  /\ \A m \in {"res_pjsip", "res_pjsip_outbound_registration", "pbx_config"} :
       doing = <<"reload", m>> => /\ at \in {7, 8, 9}
                                  /\ m = "res_pjsip" <=> at = 7
                                  /\ m = "res_pjsip_outbound_registration" <=> at = 8
                                  /\ m = "pbx_config" <=> at = 9

LEMMA StepOfPlan ==
  ASSUME NEW i \in 1..9
  PROVE  DoingFits(Plan[i], i)
  <1>1. CASE i = 1
    BY <1>1, PlanIs DEF DoingFits, FileNames
  <1>2. CASE i = 2
    BY <1>2, PlanIs DEF DoingFits, FileNames
  <1>3. CASE i = 3
    BY <1>3, PlanIs DEF DoingFits, FileNames
  <1>4. CASE i = 4
    BY <1>4, PlanIs DEF DoingFits, FileNames
  <1>5. CASE i = 5
    BY <1>5, PlanIs DEF DoingFits, FileNames
  <1>6. CASE i = 6
    BY <1>6, PlanIs DEF DoingFits, FileNames
  <1>7. CASE i = 7
    BY <1>7, PlanIs DEF DoingFits, FileNames
  <1>8. CASE i = 8
    BY <1>8, PlanIs DEF DoingFits, FileNames
  <1>9. CASE i = 9
    BY <1>9, PlanIs DEF DoingFits, FileNames
  <1> QED
    BY <1>1, <1>2, <1>3, <1>4, <1>5, <1>6, <1>7, <1>8, <1>9

LEMMA Doings ==
  ASSUME RunsFit, NEW r \in Runs
  PROVE  /\ DoingFits(Doing(r), runs[r].at)
         /\ Doing(r) # <<"none", "none">> => runs[r].at \in 1..9 /\ runs[r].unread = {}
  <1>1. CASE runs[r].at > 0 /\ runs[r].unread = {}
    <2>1. runs[r].at \in 1..9
      <3>1. SyncRunFits(runs[r])
        BY DEF RunsFit
      <3>2. runs[r].at \in 0..9
        BY <3>1 DEF SyncRunFits
      <3> QED
        BY <1>1, <3>2
    <2>2. Doing(r) = Plan[runs[r].at]
      BY <1>1 DEF Doing
    <2> QED
      BY <1>1, <2>1, <2>2, StepOfPlan
  <1>2. CASE ~(runs[r].at > 0 /\ runs[r].unread = {})
    <2>1. Doing(r) = <<"none", "none">>
      BY <1>2 DEF Doing
    <2> QED
      BY <2>1 DEF DoingFits
  <1> QED
    BY <1>1, <1>2

\* The next step: what was read is kept as long as there is a file to write.
LEMMA MovedIs ==
  ASSUME NEW run, SyncRunFits(run), run.at \in 1..9, run.unread = {}
  PROVE  /\ SyncRunFits(Moved(run)) /\ Moved(run).unread = {}
         /\ Moved(run).at = IF run.at = 9 THEN 0 ELSE run.at + 1
         /\ run.at <= 5 => /\ Moved(run).trunks = run.trunks
                           /\ Moved(run).extensions = run.extensions
  <1>1. CASE run.at = 9
    <2>1. Moved(run) = NoRun
      BY <1>1, PlanIs DEF Moved
    <2> QED
      BY <1>1, <2>1 DEF NoRun, SyncRunFits, RunFields
  <1>2. CASE run.at \in 6..8
    <2>1. \A i \in (run.at + 1)..Len(Plan) : Plan[i][1] = "reload"
      <3> SUFFICES ASSUME NEW i \in (run.at + 1)..Len(Plan)
                   PROVE  Plan[i][1] = "reload"
        OBVIOUS
      <3>1. i \in {7, 8, 9}
        BY <1>2, PlanIs
      <3> QED
        BY <3>1, PlanIs
    <2>2. Moved(run) = [NoRun EXCEPT !.at = run.at + 1]
      BY <1>2, <2>1, PlanIs DEF Moved
    <2> QED
      BY <1>2, <2>2 DEF NoRun, SyncRunFits, RunFields
  <1>3. CASE run.at \in 1..5
    <2>1. 6 \in (run.at + 1)..Len(Plan) /\ Plan[6][1] # "reload"
      BY <1>3, PlanIs
    <2>2. Moved(run) = [run EXCEPT !.at = @ + 1]
      BY <1>3, <2>1, PlanIs DEF Moved
    <2>3. DOMAIN run = RunFields
      BY DEF SyncRunFits
    <2>4. /\ DOMAIN Moved(run) = RunFields /\ Moved(run).at = run.at + 1
          /\ Moved(run).unread = run.unread /\ Moved(run).alone = run.alone
          /\ Moved(run).trunks = run.trunks /\ Moved(run).extensions = run.extensions
      BY <2>2, <2>3 DEF RunFields
    <2> QED
      BY <1>3, <2>4 DEF SyncRunFits
  <1> QED
    BY <1>1, <1>2, <1>3

RowsTyped == /\ DOMAIN trunks \subseteq Trunks /\ DOMAIN extensions \subseteq Extensions
             /\ routes \subseteq {"outbound", "inbound"} \X Trunks

\* Sixteen routes change a row: each leaves a change that waits to be scheduled.
LEMMA TrunkStored ==
  ASSUME RowsTyped, NEW t \in Trunks, NEW data, StoreTrunk(t, data)
  PROVE  RowsTyped' /\ Commit
  <1>1. DOMAIN trunks' = DOMAIN trunks \cup {t}
    BY DEF StoreTrunk
  <1> QED
    BY <1>1 DEF StoreTrunk, RowsTyped

LEMMA TrunkRemoved ==
  ASSUME RowsTyped, NEW t \in Trunks, RemoveTrunk(t)
  PROVE  RowsTyped' /\ Commit
  <1>1. DOMAIN trunks' = DOMAIN trunks \ {t}
    BY DEF RemoveTrunk
  <1> QED
    BY <1>1 DEF RemoveTrunk, RowsTyped

LEMMA RouteChanged ==
  ASSUME RowsTyped, NEW kind \in {"outbound", "inbound"},
         CreateRoute(kind) \/ UpdateRoute(kind) \/ DeleteRoute(kind)
  PROVE  RowsTyped' /\ Commit
  <1>1. CASE CreateRoute(kind)
    BY <1>1 DEF CreateRoute, RowsTyped
  <1>2. CASE UpdateRoute(kind)
    BY <1>2 DEF UpdateRoute, RowsTyped
  <1>3. CASE DeleteRoute(kind)
    BY <1>3 DEF DeleteRoute, RowsTyped
  <1> QED
    BY <1>1, <1>2, <1>3

ExtensionChanges == CreateExtension \/ UpdateExtension \/ ResetSip \/ DeleteExtension

LEMMA ExtensionChanged ==
  ASSUME RowsTyped, ExtensionChanges
  PROVE  RowsTyped' /\ Commit
  <1>1. DOMAIN extensions' \subseteq Extensions
    <2>1. CASE CreateExtension
      BY <2>1 DEF CreateExtension, RowsTyped
    <2>2. CASE UpdateExtension
      BY <2>2 DEF UpdateExtension, RowsTyped
    <2>3. CASE ResetSip
      BY <2>3 DEF ResetSip, RowsTyped
    <2>4. CASE DeleteExtension
      BY <2>4 DEF DeleteExtension, RowsTyped
    <2> QED
      BY <2>1, <2>2, <2>3, <2>4 DEF ExtensionChanges
  <1>2. Commit /\ UNCHANGED <<trunks, routes>>
    BY DEF ExtensionChanges, CreateExtension, UpdateExtension, ResetSip, DeleteExtension
  <1> QED
    BY <1>1, <1>2 DEF RowsTyped

TrunkChanges == \/ CreateTrunk \/ UpdateTrunk \/ DeleteTrunk
                \/ CreateOwnTrunk \/ UpdateOwnTrunk \/ DeleteOwnTrunk

LEMMA TrunkChanged ==
  ASSUME RowsTyped, TrunkChanges
  PROVE  RowsTyped' /\ Commit
  <1>1. CASE CreateTrunk
    BY <1>1, TrunkStored DEF CreateTrunk
  <1>2. CASE UpdateTrunk
    BY <1>2, TrunkStored DEF UpdateTrunk, RowsTyped
  <1>3. CASE DeleteTrunk
    BY <1>3, TrunkRemoved DEF DeleteTrunk, RowsTyped
  <1>4. CASE CreateOwnTrunk
    BY <1>4, TrunkStored DEF CreateOwnTrunk
  <1>5. CASE UpdateOwnTrunk
    BY <1>5, TrunkStored DEF UpdateOwnTrunk, RowsTyped
  <1>6. CASE DeleteOwnTrunk
    BY <1>6, TrunkRemoved DEF DeleteOwnTrunk, RowsTyped
  <1> QED
    BY <1>1, <1>2, <1>3, <1>4, <1>5, <1>6 DEF TrunkChanges

RouteChanges == \/ CreateOutboundRoute \/ UpdateOutboundRoute \/ DeleteOutboundRoute
                \/ CreateInboundRoute \/ UpdateInboundRoute \/ DeleteInboundRoute

LEMMA RouteChangeds ==
  ASSUME RowsTyped, RouteChanges
  PROVE  RowsTyped' /\ Commit
  BY RouteChanged DEF RouteChanges, CreateOutboundRoute, UpdateOutboundRoute,
     DeleteOutboundRoute, CreateInboundRoute, UpdateInboundRoute, DeleteInboundRoute

\* What a commit leaves alone is all but the rows; it owes a synchronisation.
LEMMA CommitKeeps ==
  ASSUME EngineInv, RowsTyped', Commit
  PROVE  EngineInv'
  <1>1. /\ changes < MaxChanges /\ changes' = changes + 1 /\ owed' = owed + 1
        /\ UNCHANGED <<runs, files, engine, reloading, cause, faults>>
    BY DEF Commit
  <1>2. EngineTyped'
    <2>1. /\ EngineTypeOK /\ owed <= changes
      BY DEF EngineInv, EngineTyped
    <2>2. EngineTypeOK' /\ (owed <= changes)'
      BY <1>1, <2>1, EngineAssumption DEF EngineTypeOK, RowsTyped
    <2> QED
      BY <1>1, <2>2 DEF EngineInv, EngineTyped, RunsFit, FilesTyped
  <1>3. owed' # 0
    BY <1>1 DEF EngineInv, EngineTyped, EngineTypeOK
  <1>4. AloneFits' <=> AloneFits
    BY <1>1 DEF AloneFits, ReloadFits, Past
  <1> QED
    BY <1>1, <1>2, <1>3, <1>4 DEF EngineInv

SyncCauses == {"crossed", "failed", "discarded", "unscheduled"}

LEMMA TypedAfter ==
  ASSUME RunsFit', FilesTyped', RowsTyped', changes' \in 0..MaxChanges, owed' \in 0..MaxChanges,
         owed' <= changes', faults' \in 0..MaxFaults, cause' \subseteq SyncCauses
  PROVE  EngineTyped'
  BY PlanIs DEF EngineTyped, EngineTypeOK, RowsTyped, RunsFit, SyncRunFits, SyncCauses

LEMMA TypedNow ==
  ASSUME EngineTyped
  PROVE  /\ RunsFit /\ FilesTyped /\ RowsTyped /\ changes \in 0..MaxChanges
         /\ owed \in 0..MaxChanges /\ owed <= changes /\ faults \in 0..MaxFaults
         /\ cause \subseteq SyncCauses
  BY DEF EngineTyped, EngineTypeOK, RowsTyped, SyncCauses

LEMMA PastNow ==
  ASSUME RunsFit, NEW n \in Nat \ {0}, NEW r \in Runs, \A x \in Runs \ {r} : runs[x].at = 0
  PROVE  Past(n) <=> runs[r].at = 0 \/ runs[r].at >= n
  BY DEF Past

LEMMA PastNext ==
  ASSUME RunsFit', NEW n \in Nat \ {0}, NEW r \in Runs, \A x \in Runs \ {r} : runs'[x].at = 0
  PROVE  Past(n)' <=> runs'[r].at = 0 \/ runs'[r].at >= n
  BY DEF Past

\* Only one run is under way: what is to be shown of that run and of the reload.
LEMMA AloneAfter ==
  ASSUME RunsFit', NEW r \in Runs, \A x \in Runs \ {r} : runs'[x].at = 0,
         runs'[r].at \in {2, 4, 6} => runs'[r].alone,
         ReloadFits(runs[r])',
         runs'[r].at = 0 => reloading'.module \in {"none", "pbx_config"}
  PROVE  AloneFits'
  <1>1. Past(10)' => runs'[r].at = 0
    BY PastNext DEF RunsFit, SyncRunFits
  <1>2. \A x \in Runs : (runs'[x].at \in {2, 4, 6} => runs'[x].alone) /\ ReloadFits(runs[x])'
    BY DEF ReloadFits
  <1>3. \A x, y \in Runs : runs'[x].at > 0 /\ runs'[y].at > 0 => x = y
    BY DEF RunsFit, SyncRunFits
  <1> QED
    BY <1>1, <1>2, <1>3 DEF AloneFits

\* A run that has just begun, with no other and no reload.
LEMMA FirstRun ==
  ASSUME RunsFit', NEW r \in Runs, runs'[r] = Begun, \A x \in Runs \ {r} : runs'[x].at = 0,
         reloading' = Ready
  PROVE  AloneFits' /\ RowsFollow'
  <1>1. runs'[r].at = 1 /\ runs'[r].unread = {"trunks", "extensions"}
    BY DEF Begun, NoRun
  <1>2. AloneFits'
    BY <1>1, AloneAfter DEF ReloadFits
  <1>3. /\ ~Past(3)' /\ ~Past(5)' /\ ~Past(7)'
        /\ ~Past(8)' /\ ~Past(9)' /\ ~Past(10)'
    BY <1>1, PastNext
  <1>4. \A x \in Runs : ReadFits(runs[x])'
    BY <1>1 DEF ReadFits
  <1> QED
    BY <1>2, <1>3, <1>4 DEF RowsFollow, FilesFit, LoadedFits

LEMMA BegunFits == SyncRunFits(Begun) /\ SyncRunFits(NoRun) /\ Begun.at = 1 /\ NoRun.at = 0
  BY DEF Begun, NoRun, SyncRunFits, RunFields

LEMMA ScheduleStays ==
  ASSUME EngineInv, Schedule
  PROVE  EngineInv'
  <1> DEFINE crossing == IF UnderWay = {} /\ reloading = Ready THEN {} ELSE cause \cup {"crossed"}
  <1>1. PICK r \in Runs : /\ runs[r].at = 0 /\ runs' = [runs EXCEPT ![r] = Begun]
                          /\ cause' = crossing
    BY DEF Schedule, Begin
  <1>2. /\ owed > 0 /\ owed' = owed - 1
        /\ UNCHANGED <<trunks, extensions, routes, changes, files, engine, reloading, faults>>
    BY DEF Schedule
  <1>3. RunsFit' /\ runs'[r] = Begun /\ \A x \in Runs \ {r} : runs'[x] = runs[x]
    BY <1>1, BegunFits DEF EngineInv, EngineTyped, RunsFit
  <1>4. EngineTyped'
    <2>1. RowsTyped' /\ FilesTyped'
      BY <1>2, TypedNow DEF EngineInv, RowsTyped, FilesTyped
    <2>2. cause' \subseteq SyncCauses
      BY <1>1, TypedNow DEF EngineInv, SyncCauses
    <2>3. /\ changes' \in 0..MaxChanges /\ owed' \in 0..MaxChanges
          /\ owed' <= changes' /\ faults' \in 0..MaxFaults
      BY <1>2, TypedNow, EngineAssumption DEF EngineInv
    <2> QED
      BY <1>3, <2>1, <2>2, <2>3, TypedAfter
  <1>5. ASSUME cause' = {}
        PROVE  AloneFits' /\ RowsFollow'
    <2>1. UnderWay = {} /\ reloading = Ready
      BY <1>1, <1>5
    <2>2. \A x \in Runs \ {r} : runs'[x].at = 0
      BY <1>3, <2>1 DEF UnderWay, EngineInv, EngineTyped, RunsFit, SyncRunFits
    <2> QED
      BY <1>2, <1>3, <2>1, <2>2, FirstRun
  <1> QED
    BY <1>4, <1>5 DEF EngineInv

LEMMA RestartStays ==
  ASSUME EngineInv, Restart
  PROVE  EngineInv'
  <1>1. PICK r \in Runs : runs' = [x \in Runs |-> IF x = r THEN Begun ELSE NoRun]
    BY DEF Restart
  <1>2. /\ owed' = 0 /\ faults < MaxFaults /\ faults' = faults + 1
        /\ cause' = IF reloading = Ready THEN {} ELSE cause \cup {"crossed"}
        /\ UNCHANGED <<trunks, extensions, routes, changes, files, engine, reloading>>
    BY DEF Restart, Fault
  <1>3. RunsFit' /\ runs'[r] = Begun /\ \A x \in Runs \ {r} : runs'[x].at = 0
    BY <1>1, BegunFits DEF RunsFit
  <1>4. EngineTyped'
    <2>1. RowsTyped' /\ FilesTyped'
      BY <1>2, TypedNow DEF EngineInv, RowsTyped, FilesTyped
    <2>2. cause' \subseteq SyncCauses
      BY <1>2, TypedNow DEF EngineInv, SyncCauses
    <2>3. /\ changes' \in 0..MaxChanges /\ owed' \in 0..MaxChanges
          /\ owed' <= changes' /\ faults' \in 0..MaxFaults
      BY <1>2, TypedNow, EngineAssumption DEF EngineInv
    <2> QED
      BY <1>3, <2>1, <2>2, <2>3, TypedAfter
  <1>5. ASSUME cause' = {}
        PROVE  AloneFits' /\ RowsFollow'
    <2>1. reloading = Ready
      BY <1>2, <1>5
    <2> QED
      BY <1>2, <1>3, <2>1, FirstRun
  <1> QED
    BY <1>4, <1>5 DEF EngineInv

LEMMA AuditFailsStays ==
  ASSUME EngineInv, AuditFails
  PROVE  EngineInv'
  <1>1. /\ owed > 0 /\ owed' = owed - 1 /\ faults < MaxFaults /\ faults' = faults + 1
        /\ cause' = cause \cup {"unscheduled"}
        /\ UNCHANGED <<trunks, extensions, routes, changes, runs, files, engine, reloading>>
    BY DEF AuditFails, Fault
  <1>2. EngineTyped'
    BY <1>1, EngineAssumption DEF EngineInv, EngineTyped, EngineTypeOK, RunsFit, FilesTyped
  <1> QED
    BY <1>1, <1>2 DEF EngineInv

\* A step of a run leaves the rows alone.
LEMMA TypedStep ==
  ASSUME EngineTyped, RunsFit', FilesTyped', UNCHANGED rowVars, cause' \subseteq SyncCauses,
         faults' \in 0..MaxFaults
  PROVE  EngineTyped'
  <1>1. /\ RowsTyped /\ changes \in 0..MaxChanges
        /\ owed \in 0..MaxChanges /\ owed <= changes
    BY TypedNow
  <1>2. UNCHANGED <<trunks, extensions, routes, changes, owed>>
    BY DEF rowVars
  <1>3. RowsTyped'
    BY <1>1, <1>2 DEF RowsTyped
  <1> QED
    BY <1>1, <1>2, <1>3, TypedAfter

OthersRest(r) == \A x \in Runs \ {r} : runs[x].at = 0

LEMMA RunIsAlone ==
  ASSUME EngineInv, cause = {}, NEW r \in Runs, runs[r].at > 0
  PROVE  OthersRest(r)
  BY DEF OthersRest, EngineInv, EngineTyped, RunsFit, SyncRunFits, AloneFits

\* What one run does to its own record: the others have theirs.
OnlyRun(r) == \A x \in Runs \ {r} : runs'[x] = runs[x]

LEMMA OnlyRunFits ==
  ASSUME RunsFit, NEW r \in Runs, OnlyRun(r), SyncRunFits(runs'[r]), DOMAIN runs' = Runs
  PROVE  /\ RunsFit'
         /\ OthersRest(r) => \A x \in Runs \ {r} : runs'[x].at = 0
  BY DEF RunsFit, OnlyRun, OthersRest, SyncRunFits

\* A query that is answered.
LEMMA ReadEffect ==
  ASSUME EngineTyped, NEW r \in Runs, ReadTrunks(r) \/ ReadExtensions(r)
  PROVE  /\ runs[r].at = 1 /\ runs'[r].at = 1 /\ OnlyRun(r) /\ RunsFit'
         /\ \/ /\ runs'[r].unread = runs[r].unread \ {"trunks"}
               /\ runs'[r].trunks = trunks /\ runs'[r].extensions = runs[r].extensions
            \/ /\ runs'[r].unread = runs[r].unread \ {"extensions"}
               /\ runs'[r].extensions = extensions /\ runs'[r].trunks = runs[r].trunks
         /\ UNCHANGED <<rowVars, files, engine, reloading, cause, faults>>
  <1>1. RunsFit /\ SyncRunFits(runs[r])
    BY DEF EngineTyped, RunsFit
  <1>2. CASE ReadTrunks(r)
    <2> DEFINE new == [runs[r] EXCEPT !.unread = @ \ {"trunks"}, !.trunks = trunks]
    <2>1. /\ "trunks" \in runs[r].unread
          /\ runs' = [runs EXCEPT ![r] = new]
          /\ UNCHANGED <<rowVars, files, engine, reloading, cause, faults>>
      BY <1>2, Zenon DEF ReadTrunks
    <2>2. /\ DOMAIN new = RunFields /\ new.at = runs[r].at /\ new.alone = runs[r].alone
          /\ new.unread = runs[r].unread \ {"trunks"}
          /\ new.trunks = trunks /\ new.extensions = runs[r].extensions
      BY <1>1 DEF SyncRunFits, RunFields
    <2> HIDE DEF new
    <2>3. runs'[r] = new /\ OnlyRun(r) /\ DOMAIN runs' = Runs
      BY <1>1, <2>1 DEF RunsFit, OnlyRun
    <2>4. runs[r].at = 1 /\ SyncRunFits(new)
      BY <1>1, <2>1, <2>2 DEF SyncRunFits
    <2> QED
      BY <1>1, <2>1, <2>2, <2>3, <2>4, OnlyRunFits
  <1>3. CASE ReadExtensions(r)
    <2> DEFINE new == [runs[r] EXCEPT !.unread = @ \ {"extensions"}, !.extensions = extensions]
    <2>1. /\ "extensions" \in runs[r].unread
          /\ runs' = [runs EXCEPT ![r] = new]
          /\ UNCHANGED <<rowVars, files, engine, reloading, cause, faults>>
      BY <1>3, Zenon DEF ReadExtensions
    <2>2. /\ DOMAIN new = RunFields /\ new.at = runs[r].at /\ new.alone = runs[r].alone
          /\ new.unread = runs[r].unread \ {"extensions"}
          /\ new.trunks = runs[r].trunks /\ new.extensions = extensions
      BY <1>1 DEF SyncRunFits, RunFields
    <2> HIDE DEF new
    <2>3. runs'[r] = new /\ OnlyRun(r) /\ DOMAIN runs' = Runs
      BY <1>1, <2>1 DEF RunsFit, OnlyRun
    <2>4. runs[r].at = 1 /\ SyncRunFits(new)
      BY <1>1, <2>1, <2>2 DEF SyncRunFits
    <2> QED
      BY <1>1, <2>1, <2>2, <2>3, <2>4, OnlyRunFits
  <1> QED
    BY <1>2, <1>3

LEMMA ReadStays ==
  ASSUME EngineInv, NEW r \in Runs, ReadTrunks(r) \/ ReadExtensions(r)
  PROVE  EngineInv'
  <1>1. EngineTyped /\ RunsFit /\ FilesTyped
    BY DEF EngineInv, EngineTyped
  <1>2. /\ runs[r].at = 1 /\ runs'[r].at = 1 /\ OnlyRun(r) /\ RunsFit'
        /\ \/ /\ runs'[r].unread = runs[r].unread \ {"trunks"}
              /\ runs'[r].trunks = trunks /\ runs'[r].extensions = runs[r].extensions
           \/ /\ runs'[r].unread = runs[r].unread \ {"extensions"}
              /\ runs'[r].extensions = extensions /\ runs'[r].trunks = runs[r].trunks
        /\ UNCHANGED <<rowVars, files, engine, reloading, cause, faults>>
    BY <1>1, ReadEffect
  <1>3. EngineTyped'
    <2>1. FilesTyped' /\ cause' \subseteq SyncCauses /\ faults' \in 0..MaxFaults
      BY <1>1, <1>2, TypedNow DEF FilesTyped
    <2> QED
      BY <1>1, <1>2, <2>1, TypedStep
  <1>4. ASSUME cause' = {}
        PROVE  AloneFits' /\ (owed' = 0 => RowsFollow')
    <2>1. OthersRest(r) /\ AloneFits
      BY <1>2, <1>4, RunIsAlone DEF EngineInv
    <2>2. \A x \in Runs \ {r} : runs'[x].at = 0
      BY <1>2, <2>1 DEF OnlyRun, OthersRest
    <2>3. reloading' = Ready
      BY <1>2, <2>1 DEF AloneFits, ReloadFits
    <2>4. AloneFits'
      BY <1>2, <2>2, <2>3, AloneAfter DEF ReloadFits
    <2>5. ASSUME owed' = 0
          PROVE  RowsFollow'
      <3>1. RowsFollow /\ UNCHANGED <<trunks, extensions>>
        BY <1>2, <1>4, <2>5 DEF EngineInv, rowVars
      <3>2. /\ ~Past(3)' /\ ~Past(5)' /\ ~Past(7)'
            /\ ~Past(8)' /\ ~Past(9)' /\ ~Past(10)'
        BY <1>2, <2>2, PastNext
      <3>3. \A x \in Runs : ReadFits(runs[x])'
        BY <1>2, <2>2, <3>1 DEF RowsFollow, ReadFits
      <3> QED
        BY <3>2, <3>3 DEF RowsFollow, FilesFit, LoadedFits
    <2> QED
      BY <2>4, <2>5
  <1> QED
    BY <1>3, <1>4 DEF EngineInv

LEMMA OthersWriteNothing ==
  ASSUME RunsFit, NEW r \in Runs, OthersRest(r), NEW f, Doing(r) = <<"open", f>>
  PROVE  Writing(f) = {}
  <1> SUFFICES ASSUME NEW x \in Writing(f)
               PROVE  FALSE
    OBVIOUS
  <1>1. x \in Runs /\ Doing(x) = <<"close", f>>
    BY DEF Writing
  <1>2. <<"close", f>> # <<"none", "none">> /\ <<"close", f>> # <<"open", f>>
    OBVIOUS
  <1>3. x # r /\ Doing(x) # <<"none", "none">>
    BY <1>1, <1>2
  <1>4. runs[x].at \in 1..9
    BY <1>1, <1>3, Doings
  <1> QED
    BY <1>1, <1>3, <1>4 DEF OthersRest

\* A file is opened: the run goes on to write it, alone if no other does.
LEMMA OpenEffect ==
  ASSUME EngineTyped, NEW r \in Runs, OpenFile(r)
  PROVE  /\ \E f \in FileNames : DoingFits(<<"open", f>>, runs[r].at) /\ files' = [files EXCEPT ![f] = Torn]
         /\ runs[r].at \in {1, 3, 5} /\ runs[r].unread = {}
         /\ runs'[r].at = runs[r].at + 1 /\ runs'[r].unread = {} /\ RunsFit'
         /\ runs'[r].trunks = runs[r].trunks /\ runs'[r].extensions = runs[r].extensions
         /\ OthersRest(r) => runs'[r].alone /\ \A x \in Runs \ {r} : runs'[x].at = 0
         /\ UNCHANGED <<rowVars, engine, reloading, cause, faults>>
  <1> DEFINE run == runs[r]
             moved(f) == [Moved(runs[r]) EXCEPT !.alone = Writing(f) = {}]
             other(f, x) == IF x \in Writing(f) THEN [runs[x] EXCEPT !.alone = FALSE] ELSE runs[x]
  <1>1. PICK f \in FileNames : /\ Doing(r) = <<"open", f>> /\ files' = [files EXCEPT ![f] = Torn]
                               /\ runs' = [x \in Runs |-> IF x = r THEN moved(f) ELSE other(f, x)]
                               /\ UNCHANGED <<rowVars, engine, reloading, cause, faults>>
    BY Zenon DEF OpenFile
  <1>2. RunsFit /\ SyncRunFits(runs[r])
    BY DEF EngineTyped, RunsFit
  <1>3. DoingFits(<<"open", f>>, runs[r].at) /\ runs[r].at \in {1, 3, 5} /\ runs[r].unread = {}
    <2>1. Doing(r) # <<"none", "none">>
      BY <1>1
    <2> QED
      BY <1>1, <1>2, <2>1, Doings DEF DoingFits
  <1>4. /\ SyncRunFits(Moved(runs[r])) /\ Moved(runs[r]).unread = {}
        /\ Moved(runs[r]).at = runs[r].at + 1
        /\ Moved(runs[r]).trunks = runs[r].trunks
        /\ Moved(runs[r]).extensions = runs[r].extensions
    <2>1. runs[r].at \in 1..9 /\ runs[r].at # 9 /\ runs[r].at <= 5
      BY <1>3
    <2> QED
      BY <1>2, <1>3, <2>1, MovedIs
  <1>5. /\ SyncRunFits(moved(f)) /\ moved(f).unread = {} /\ moved(f).at = runs[r].at + 1
        /\ moved(f).trunks = runs[r].trunks /\ moved(f).extensions = runs[r].extensions
        /\ Writing(f) = {} => moved(f).alone
    <2> DEFINE before == Moved(runs[r])
    <2> HIDE DEF before
    <2>1. moved(f) = [before EXCEPT !.alone = Writing(f) = {}]
      BY Zenon DEF before
    <2>2. /\ DOMAIN before = RunFields /\ before.at = runs[r].at + 1 /\ before.unread = {}
          /\ before.trunks = runs[r].trunks /\ before.extensions = runs[r].extensions
      BY <1>4 DEF before, SyncRunFits
    <2> HIDE DEF moved
    <2>3. /\ DOMAIN moved(f) = RunFields /\ moved(f).at = before.at /\ moved(f).unread = before.unread
          /\ moved(f).trunks = before.trunks /\ moved(f).extensions = before.extensions
          /\ moved(f).alone = (Writing(f) = {})
      BY <2>1, <2>2 DEF RunFields
    <2>4. moved(f).at \in 0..9
      BY <1>4, <2>2, <2>3 DEF SyncRunFits, before
    <2> QED
      BY <2>2, <2>3, <2>4 DEF SyncRunFits
  <1>6. \A x \in Runs \ {r} : SyncRunFits(other(f, x)) /\ other(f, x).at = runs[x].at
    <2> SUFFICES ASSUME NEW x \in Runs \ {r}
                 PROVE  SyncRunFits(other(f, x)) /\ other(f, x).at = runs[x].at
      OBVIOUS
    <2>1. SyncRunFits(runs[x])
      BY <1>2 DEF RunsFit
    <2>2. CASE x \in Writing(f)
      <3>1. other(f, x) = [runs[x] EXCEPT !.alone = FALSE]
        BY <2>2
      <3> HIDE DEF other
      <3> QED
        BY <2>1, <3>1 DEF SyncRunFits, RunFields
    <2>3. CASE x \notin Writing(f)
      BY <2>1, <2>3
    <2> QED
      BY <2>2, <2>3
  <1> HIDE DEF moved, other
  <1>7. RunsFit' /\ runs'[r] = moved(f) /\ \A x \in Runs \ {r} : runs'[x].at = runs[x].at
    BY <1>1, <1>5, <1>6 DEF RunsFit
  <1>8. OthersRest(r) => Writing(f) = {}
    BY <1>1, <1>2, OthersWriteNothing
  <1> QED
    BY <1>1, <1>3, <1>5, <1>7, <1>8 DEF OthersRest

LEMMA OpenStays ==
  ASSUME EngineInv, NEW r \in Runs, OpenFile(r)
  PROVE  EngineInv'
  <1>1. EngineTyped /\ RunsFit /\ FilesTyped
    BY DEF EngineInv, EngineTyped
  <1>2. PICK f \in FileNames : DoingFits(<<"open", f>>, runs[r].at) /\ files' = [files EXCEPT ![f] = Torn]
    BY <1>1, OpenEffect
  <1>3. /\ runs[r].at \in {1, 3, 5} /\ runs[r].unread = {}
        /\ runs'[r].at = runs[r].at + 1 /\ runs'[r].unread = {} /\ RunsFit'
        /\ runs'[r].trunks = runs[r].trunks /\ runs'[r].extensions = runs[r].extensions
        /\ OthersRest(r) => runs'[r].alone /\ \A x \in Runs \ {r} : runs'[x].at = 0
        /\ UNCHANGED <<rowVars, engine, reloading, cause, faults>>
    BY <1>1, OpenEffect
  <1>4. EngineTyped'
    <2>1. FilesTyped' /\ cause' \subseteq SyncCauses /\ faults' \in 0..MaxFaults
      BY <1>1, <1>2, <1>3, TypedNow DEF FilesTyped
    <2> QED
      BY <1>1, <1>3, <2>1, TypedStep
  <1>5. ASSUME cause' = {}
        PROVE  AloneFits' /\ (owed' = 0 => RowsFollow')
    <2>1. OthersRest(r) /\ AloneFits
      BY <1>3, <1>5, RunIsAlone DEF EngineInv
    <2>2. \A x \in Runs \ {r} : runs'[x].at = 0
      BY <1>3, <2>1
    <2>3. reloading' = Ready
      BY <1>3, <2>1 DEF AloneFits, ReloadFits
    <2>4. AloneFits'
      <3>1. ReloadFits(runs[r])'
        BY <1>3, <2>3 DEF ReloadFits
      <3>2. runs'[r].at # 0 /\ runs'[r].alone
        BY <1>3, <2>1
      <3> QED
        BY <1>3, <2>2, <3>1, <3>2, AloneAfter
    <2>5. ASSUME owed' = 0
          PROVE  RowsFollow'
      <3>1. RowsFollow /\ UNCHANGED <<trunks, extensions>>
        BY <1>3, <1>5, <2>5 DEF EngineInv, rowVars
      <3>2. \A g \in FileNames : g # f => files'[g] = files[g]
        BY <1>1, <1>2 DEF FilesTyped
      <3>3. /\ f = "pjsip" <=> runs[r].at = 1
            /\ f = "globals" <=> runs[r].at = 3
            /\ f = "extensions" <=> runs[r].at = 5
        BY <1>2 DEF DoingFits
      <3>4. /\ Past(3)' => Past(3) /\ f # "pjsip"
            /\ Past(5)' => Past(5) /\ f # "globals"
            /\ ~Past(7)' /\ ~Past(8)' /\ ~Past(9)' /\ ~Past(10)'
        <4>1. /\ Past(3)' <=> runs'[r].at = 0 \/ runs'[r].at >= 3
              /\ Past(5)' <=> runs'[r].at = 0 \/ runs'[r].at >= 5
              /\ Past(7)' <=> runs'[r].at = 0 \/ runs'[r].at >= 7
              /\ Past(8)' <=> runs'[r].at = 0 \/ runs'[r].at >= 8
              /\ Past(9)' <=> runs'[r].at = 0 \/ runs'[r].at >= 9
              /\ Past(10)' <=> runs'[r].at = 0 \/ runs'[r].at >= 10
          BY <1>3, <2>2, PastNext
        <4>2. /\ Past(3) <=> runs[r].at = 0 \/ runs[r].at >= 3
              /\ Past(5) <=> runs[r].at = 0 \/ runs[r].at >= 5
          BY <1>1, <2>1, PastNow DEF OthersRest
        <4> QED
          BY <1>3, <3>3, <4>1, <4>2
      <3>5. FilesFit'
        BY <3>1, <3>2, <3>4 DEF RowsFollow, FilesFit, FileNames
      <3>6. \A x \in Runs : ReadFits(runs[x])'
        BY <1>3, <2>2, <3>1 DEF RowsFollow, ReadFits
      <3> QED
        BY <3>4, <3>5, <3>6 DEF RowsFollow, LoadedFits
    <2> QED
      BY <2>4, <2>5
  <1> QED
    BY <1>4, <1>5 DEF EngineInv

LEMMA MoveEffect ==
  ASSUME RunsFit, NEW r \in Runs, runs' = [runs EXCEPT ![r] = Moved(@)],
         runs[r].at \in 1..9, runs[r].unread = {}
  PROVE  /\ runs'[r].at = IF runs[r].at = 9 THEN 0 ELSE runs[r].at + 1
         /\ runs'[r].unread = {} /\ RunsFit' /\ OnlyRun(r)
         /\ runs[r].at <= 5 => /\ runs'[r].trunks = runs[r].trunks
                               /\ runs'[r].extensions = runs[r].extensions
         /\ OthersRest(r) => \A x \in Runs \ {r} : runs'[x].at = 0
  <1>1. SyncRunFits(runs[r])
    BY DEF RunsFit
  <1>2. /\ SyncRunFits(Moved(runs[r])) /\ Moved(runs[r]).unread = {}
        /\ Moved(runs[r]).at = IF runs[r].at = 9 THEN 0 ELSE runs[r].at + 1
        /\ runs[r].at <= 5 => /\ Moved(runs[r]).trunks = runs[r].trunks
                              /\ Moved(runs[r]).extensions = runs[r].extensions
    BY <1>1, MovedIs
  <1>3. runs'[r] = Moved(runs[r]) /\ OnlyRun(r) /\ DOMAIN runs' = Runs
    BY DEF RunsFit, OnlyRun
  <1> QED
    BY <1>2, <1>3, OnlyRunFits

\* A file is written: what two writers left of it, if the run was not alone.
LEMMA CloseEffect ==
  ASSUME EngineTyped, NEW r \in Runs, CloseFile(r)
  PROVE  /\ \E f \in FileNames : /\ DoingFits(<<"close", f>>, runs[r].at)
                                 /\ \E c : /\ runs[r].alone => c \in Contents(f, runs[r])
                                           /\ files' = [files EXCEPT ![f] = c]
         /\ runs[r].at \in {2, 4, 6} /\ runs[r].unread = {}
         /\ runs' = [runs EXCEPT ![r] = Moved(@)]
         /\ UNCHANGED <<rowVars, engine, reloading, cause, faults>>
  <1>1. PICK f \in FileNames :
          /\ Doing(r) = <<"close", f>>
          /\ \E c \in Contents(f, runs[r]) \cup (IF runs[r].alone THEN {} ELSE {Torn}) :
               files' = [files EXCEPT ![f] = c]
          /\ runs' = [runs EXCEPT ![r] = Moved(@)]
          /\ UNCHANGED <<rowVars, engine, reloading, cause, faults>>
    BY Zenon DEF CloseFile
  <1>2. RunsFit
    BY DEF EngineTyped
  <1>3. DoingFits(<<"close", f>>, runs[r].at) /\ runs[r].at \in {2, 4, 6} /\ runs[r].unread = {}
    <2>1. Doing(r) # <<"none", "none">>
      BY <1>1
    <2> QED
      BY <1>1, <1>2, <2>1, Doings DEF DoingFits
  <1>4. PICK c \in Contents(f, runs[r]) \cup (IF runs[r].alone THEN {} ELSE {Torn}) :
          files' = [files EXCEPT ![f] = c]
    BY <1>1
  <1>5. runs[r].alone => c \in Contents(f, runs[r])
    BY <1>4
  <1> QED
    BY <1>1, <1>3, <1>4, <1>5

LEMMA CloseStays ==
  ASSUME EngineInv, NEW r \in Runs, CloseFile(r)
  PROVE  EngineInv'
  <1>1. EngineTyped /\ RunsFit /\ FilesTyped
    BY DEF EngineInv, EngineTyped
  <1>2. PICK f \in FileNames : /\ DoingFits(<<"close", f>>, runs[r].at)
                               /\ \E c : /\ runs[r].alone => c \in Contents(f, runs[r])
                                         /\ files' = [files EXCEPT ![f] = c]
    BY <1>1, CloseEffect
  <1>3. PICK c : /\ runs[r].alone => c \in Contents(f, runs[r])
                 /\ files' = [files EXCEPT ![f] = c]
    BY <1>2
  <1>4. /\ runs[r].at \in {2, 4, 6} /\ runs[r].unread = {}
        /\ runs' = [runs EXCEPT ![r] = Moved(@)]
        /\ UNCHANGED <<rowVars, engine, reloading, cause, faults>>
    BY <1>1, CloseEffect
  <1>5. /\ runs'[r].at = runs[r].at + 1
        /\ runs'[r].unread = {} /\ RunsFit'
        /\ runs[r].at <= 5 => /\ runs'[r].trunks = runs[r].trunks
                              /\ runs'[r].extensions = runs[r].extensions
        /\ OthersRest(r) => \A x \in Runs \ {r} : runs'[x].at = 0
    <2>1. runs[r].at \in 1..9 /\ runs[r].at # 9
      BY <1>4
    <2> QED
      BY <1>1, <1>4, <2>1, MoveEffect
  <1>6. EngineTyped'
    <2>1. FilesTyped' /\ cause' \subseteq SyncCauses /\ faults' \in 0..MaxFaults
      BY <1>1, <1>3, <1>4, TypedNow DEF FilesTyped
    <2> QED
      BY <1>1, <1>4, <1>5, <2>1, TypedStep
  <1>7. ASSUME cause' = {}
        PROVE  AloneFits' /\ (owed' = 0 => RowsFollow')
    <2>1. OthersRest(r) /\ AloneFits
      BY <1>4, <1>7, RunIsAlone DEF EngineInv
    <2>2. \A x \in Runs \ {r} : runs'[x].at = 0
      BY <1>5, <2>1
    <2>3. reloading' = Ready
      BY <1>4, <2>1 DEF AloneFits, ReloadFits
    <2>4. AloneFits'
      <3>1. ReloadFits(runs[r])' /\ runs'[r].at \in {3, 5, 7}
        BY <1>4, <1>5, <2>3 DEF ReloadFits
      <3> QED
        BY <1>5, <2>2, <3>1, AloneAfter
    <2>5. ASSUME owed' = 0
          PROVE  RowsFollow'
      <3>1. RowsFollow /\ UNCHANGED <<trunks, extensions>>
        BY <1>4, <1>7, <2>5 DEF EngineInv, rowVars
      <3>2. files'[f] = c /\ \A g \in FileNames : g # f => files'[g] = files[g]
        BY <1>1, <1>3 DEF FilesTyped
      <3>3. /\ f = "pjsip" <=> runs[r].at = 2
            /\ f = "globals" <=> runs[r].at = 4
            /\ f = "extensions" <=> runs[r].at = 6
        BY <1>2 DEF DoingFits
      <3>4. runs[r].trunks = trunks /\ runs[r].extensions = extensions
        BY <1>4, <3>1 DEF RowsFollow, ReadFits
      <3>5. c \in Contents(f, runs[r])
        BY <1>3, <1>4, <2>1 DEF AloneFits
      <3>6. /\ Past(3)' => Past(3) \/ f = "pjsip"
            /\ Past(5)' => (Past(5) \/ f = "globals") /\ f # "pjsip"
            /\ Past(7)' => f = "extensions"
            /\ ~Past(8)' /\ ~Past(9)' /\ ~Past(10)'
        <4>1. /\ Past(3)' <=> runs'[r].at = 0 \/ runs'[r].at >= 3
              /\ Past(5)' <=> runs'[r].at = 0 \/ runs'[r].at >= 5
              /\ Past(7)' <=> runs'[r].at = 0 \/ runs'[r].at >= 7
              /\ Past(8)' <=> runs'[r].at = 0 \/ runs'[r].at >= 8
              /\ Past(9)' <=> runs'[r].at = 0 \/ runs'[r].at >= 9
              /\ Past(10)' <=> runs'[r].at = 0 \/ runs'[r].at >= 10
          BY <1>5, <2>2, PastNext
        <4>2. /\ Past(3) <=> runs[r].at = 0 \/ runs[r].at >= 3
              /\ Past(5) <=> runs[r].at = 0 \/ runs[r].at >= 5
          BY <1>1, <2>1, PastNow DEF OthersRest
        <4> QED
          BY <1>4, <1>5, <3>3, <4>1, <4>2
      <3>7. FilesFit'
        <4>1. ASSUME Past(3)'
              PROVE  files'["pjsip"] = {PjsipFile(trunks, extensions)}
          <5>1. CASE f = "pjsip"
            <6>1. c \in {{PjsipFile(runs[r].trunks, runs[r].extensions)}}
              BY <3>5, <5>1 DEF Contents
            <6> QED
              BY <3>2, <3>4, <5>1, <6>1
          <5>2. CASE f # "pjsip"
            BY <3>1, <3>2, <3>6, <4>1, <5>2 DEF RowsFollow, FilesFit, FileNames
          <5> QED
            BY <5>1, <5>2
        <4>2. ASSUME Past(5)'
              PROVE  \E g \in GlobalsChoices(trunks) : files'["globals"] = {g}
          <5>1. CASE f = "globals"
            <6>1. c \in {{g} : g \in GlobalsChoices(runs[r].trunks)}
              BY <3>5, <5>1 DEF Contents
            <6> QED
              BY <3>2, <3>4, <5>1, <6>1
          <5>2. CASE f # "globals"
            BY <3>1, <3>2, <3>6, <4>2, <5>2 DEF RowsFollow, FilesFit, FileNames
          <5> QED
            BY <5>1, <5>2
        <4>3. ASSUME Past(7)'
              PROVE  files'["extensions"] = {DialplanFile(trunks)}
          <5>1. f = "extensions"
            BY <3>6, <4>3
          <5>2. c \in {{DialplanFile(runs[r].trunks)}}
            BY <3>5, <5>1 DEF Contents
          <5> QED
            BY <3>2, <3>4, <5>1, <5>2
        <4> QED
          BY <3>1, <4>1, <4>2, <4>3 DEF FilesFit
      <3>8. \A x \in Runs : ReadFits(runs[x])'
        <4>1. ReadFits(runs[r])'
          BY <1>4, <1>5, <3>1, <3>4 DEF ReadFits
        <4> QED
          BY <2>2, <4>1 DEF ReadFits
      <3> QED
        BY <3>6, <3>7, <3>8 DEF RowsFollow, LoadedFits
    <2> QED
      BY <2>4, <2>5
  <1> QED
    BY <1>6, <1>7 DEF EngineInv

LEMMA ReadyIs ==
  /\ Ready.module = "none" /\ ~Ready.loaded
  /\ \A m \in {"res_pjsip", "res_pjsip_outbound_registration", "pbx_config"} :
       Ready # [module |-> m, loaded |-> FALSE]
  BY DEF Ready

\* A reload the engine accepts or discards: it answers the same.
LEMMA ReloadEffect ==
  ASSUME EngineTyped, NEW r \in Runs, Reload(r)
  PROVE  /\ \E m \in {"res_pjsip", "res_pjsip_outbound_registration", "pbx_config"} :
              /\ m = "res_pjsip" <=> runs[r].at = 7
              /\ m = "res_pjsip_outbound_registration" <=> runs[r].at = 8
              /\ m = "pbx_config" <=> runs[r].at = 9
              /\ \/ reloading = Ready /\ reloading' = [module |-> m, loaded |-> FALSE] /\ cause' = cause
                 \/ cause' = cause \cup {"discarded"} /\ reloading' = reloading
         /\ runs[r].at \in {7, 8, 9} /\ runs[r].unread = {}
         /\ runs' = [runs EXCEPT ![r] = Moved(@)]
         /\ UNCHANGED <<rowVars, files, engine, faults>>
  <1>1. PICK m \in {"res_pjsip", "res_pjsip_outbound_registration", "pbx_config"} :
          /\ Doing(r) = <<"reload", m>>
          /\ runs' = [runs EXCEPT ![r] = Moved(@)]
          /\ \/ reloading = Ready /\ reloading' = [module |-> m, loaded |-> FALSE] /\ cause' = cause
             \/ cause' = cause \cup {"discarded"} /\ reloading' = reloading
          /\ UNCHANGED <<rowVars, files, engine, faults>>
    BY Zenon DEF Reload
  <1>2. RunsFit
    BY DEF EngineTyped
  <1>3. Doing(r) # <<"none", "none">>
    BY <1>1
  <1>4. DoingFits(<<"reload", m>>, runs[r].at) /\ runs[r].unread = {}
    BY <1>1, <1>2, <1>3, Doings
  <1>5. /\ runs[r].at \in {7, 8, 9}
        /\ m = "res_pjsip" <=> runs[r].at = 7
        /\ m = "res_pjsip_outbound_registration" <=> runs[r].at = 8
        /\ m = "pbx_config" <=> runs[r].at = 9
    BY <1>4 DEF DoingFits
  <1> QED
    BY <1>1, <1>4, <1>5

LEMMA ReloadStays ==
  ASSUME EngineInv, NEW r \in Runs, Reload(r)
  PROVE  EngineInv'
  <1>1. EngineTyped /\ RunsFit /\ FilesTyped
    BY DEF EngineInv, EngineTyped
  <1>2. PICK m \in {"res_pjsip", "res_pjsip_outbound_registration", "pbx_config"} :
          /\ m = "res_pjsip" <=> runs[r].at = 7
          /\ m = "res_pjsip_outbound_registration" <=> runs[r].at = 8
          /\ m = "pbx_config" <=> runs[r].at = 9
          /\ \/ reloading = Ready /\ reloading' = [module |-> m, loaded |-> FALSE] /\ cause' = cause
             \/ cause' = cause \cup {"discarded"} /\ reloading' = reloading
    BY <1>1, ReloadEffect
  <1>3. /\ runs[r].at \in {7, 8, 9} /\ runs[r].unread = {}
        /\ runs' = [runs EXCEPT ![r] = Moved(@)]
        /\ UNCHANGED <<rowVars, files, engine, faults>>
    BY <1>1, ReloadEffect
  <1>4. /\ runs'[r].at = IF runs[r].at = 9 THEN 0 ELSE runs[r].at + 1
        /\ runs'[r].unread = {} /\ RunsFit'
        /\ OthersRest(r) => \A x \in Runs \ {r} : runs'[x].at = 0
    <2>1. runs[r].at \in 1..9
      BY <1>3
    <2> QED
      BY <1>1, <1>3, <2>1, MoveEffect
  <1>5. EngineTyped'
    <2>1. cause' \subseteq SyncCauses /\ faults' \in 0..MaxFaults
      BY <1>1, <1>2, <1>3, TypedNow DEF SyncCauses
    <2>2. reloading' \in Reloads \cup {Ready}
      <3>1. [module |-> m, loaded |-> FALSE] \in Reloads
        BY DEF Reloads
      <3>2. reloading \in Reloads \cup {Ready}
        BY <1>1 DEF FilesTyped
      <3> QED
        BY <1>2, <3>1, <3>2
    <2>3. FilesTyped'
      BY <1>1, <1>3, <2>2 DEF FilesTyped
    <2> QED
      BY <1>1, <1>3, <1>4, <2>1, <2>3, TypedStep
  <1>6. ASSUME cause' = {}
        PROVE  AloneFits' /\ (owed' = 0 => RowsFollow')
    <2>1. cause = {} /\ reloading = Ready /\ reloading' = [module |-> m, loaded |-> FALSE]
      BY <1>2, <1>6
    <2>2. OthersRest(r)
      BY <1>3, <2>1, RunIsAlone
    <2>3. \A x \in Runs \ {r} : runs'[x].at = 0
      BY <1>4, <2>2
    <2>4. AloneFits'
      <3>1. reloading'.module = m
        BY <2>1
      <3>2. ReloadFits(runs[r])' /\ runs'[r].at \in {8, 9, 0}
        BY <1>2, <1>3, <1>4, <3>1 DEF ReloadFits
      <3>3. runs'[r].at = 0 => m = "pbx_config"
        BY <1>2, <1>3, <1>4
      <3> QED
        BY <1>4, <2>3, <3>1, <3>2, <3>3, AloneAfter
    <2>5. ASSUME owed' = 0
          PROVE  RowsFollow'
      <3>1. RowsFollow /\ UNCHANGED <<trunks, extensions>>
        BY <1>3, <2>1, <2>5 DEF EngineInv, rowVars
      <3>2. /\ Past(8)' <=> runs'[r].at = 0 \/ runs'[r].at >= 8
            /\ Past(9)' <=> runs'[r].at = 0 \/ runs'[r].at >= 9
            /\ Past(10)' <=> runs'[r].at = 0 \/ runs'[r].at >= 10
        BY <1>4, <2>3, PastNext
      <3>3. /\ Past(3) <=> runs[r].at = 0 \/ runs[r].at >= 3
            /\ Past(5) <=> runs[r].at = 0 \/ runs[r].at >= 5
            /\ Past(7) <=> runs[r].at = 0 \/ runs[r].at >= 7
            /\ Past(8) <=> runs[r].at = 0 \/ runs[r].at >= 8
            /\ Past(9) <=> runs[r].at = 0 \/ runs[r].at >= 9
        BY <1>1, <2>2, PastNow DEF OthersRest
      <3>4. /\ Past(3) /\ Past(5) /\ Past(7)
            /\ Past(8)' => Past(8) \/ m = "res_pjsip"
            /\ Past(9)' => Past(9) \/ m = "res_pjsip_outbound_registration"
            /\ Past(10)' => m = "pbx_config"
        BY <1>2, <1>3, <1>4, <3>2, <3>3
      <3>5. FilesFit'
        BY <1>3, <3>1, <3>4 DEF RowsFollow, FilesFit
      <3>6. /\ ~Awaited("res_pjsip") /\ ~Awaited("res_pjsip_outbound_registration")
            /\ Awaited(m)'
        BY <2>1, ReadyIs DEF Awaited
      <3>7. LoadedFits'
        BY <1>3, <3>1, <3>4, <3>6 DEF RowsFollow, LoadedFits
      <3>8. \A x \in Runs : ReadFits(runs[x])'
        BY <1>3, <1>4, <2>3 DEF ReadFits
      <3> QED
        BY <3>5, <3>7, <3>8 DEF RowsFollow
    <2> QED
      BY <2>4, <2>5
  <1> QED
    BY <1>5, <1>6 DEF EngineInv

\* A step that fails is a cause of its own.
LEMMA FailureStays ==
  ASSUME EngineInv, NEW r \in Runs, ReloadRefused(r) \/ RunFails(r)
  PROVE  EngineInv'
  <1>1. EngineTyped /\ RunsFit /\ FilesTyped
    BY DEF EngineInv, EngineTyped
  <1>2. /\ cause' = cause \cup {"failed"} /\ faults < MaxFaults /\ faults' = faults + 1
        /\ UNCHANGED <<rowVars, files, engine, reloading>>
    BY DEF ReloadRefused, RunFails, Fault
  <1>3. RunsFit'
    <2>1. CASE ReloadRefused(r)
      <3>1. Doing(r)[1] = "reload" /\ runs' = [runs EXCEPT ![r] = Moved(@)]
        BY <2>1 DEF ReloadRefused
      <3>2. Doing(r) # <<"none", "none">>
        BY <3>1
      <3> QED
        BY <1>1, <3>1, <3>2, Doings, MoveEffect
    <2>2. CASE RunFails(r)
      BY <1>1, <2>2, BegunFits DEF RunFails, RunsFit
    <2> QED
      BY <2>1, <2>2
  <1>4. EngineTyped'
    <2>1. FilesTyped' /\ cause' \subseteq SyncCauses /\ faults' \in 0..MaxFaults
      BY <1>1, <1>2, TypedNow, EngineAssumption DEF FilesTyped, SyncCauses
    <2> QED
      BY <1>1, <1>2, <1>3, <2>1, TypedStep
  <1> QED
    BY <1>2, <1>4 DEF EngineInv

LEMMA LoadStays ==
  ASSUME EngineInv, Load
  PROVE  EngineInv'
  <1>1. EngineTyped /\ RunsFit /\ FilesTyped
    BY DEF EngineInv, EngineTyped
  <1>2. /\ reloading # Ready /\ ~reloading.loaded
        /\ reloading' = [reloading EXCEPT !.loaded = TRUE]
        /\ UNCHANGED <<rowVars, runs, files, cause, faults>>
    BY Zenon DEF Load
  <1>3. /\ reloading.module = "res_pjsip" => engine' = [engine EXCEPT !.endpoints = files.pjsip]
        /\ reloading.module = "pbx_config" =>
             engine' = [engine EXCEPT !.globals = files.globals, !.extensions = files.extensions]
        /\ reloading.module = "res_pjsip_outbound_registration" =>
             engine' = [engine EXCEPT !.registrations = {Registrations(c) : c \in files.pjsip}]
    BY DEF Load
  <1>4. reloading \in Reloads
    BY <1>1, <1>2 DEF FilesTyped
  <1>5. reloading' \in Reloads /\ reloading'.module = reloading.module /\ reloading'.loaded
    BY <1>2, <1>4 DEF Reloads
  <1>6. /\ DOMAIN engine' = DOMAIN engine
        /\ engine'.endpoints = IF reloading.module = "res_pjsip" THEN files.pjsip ELSE engine.endpoints
        /\ engine'.registrations = IF reloading.module = "res_pjsip_outbound_registration"
                                     THEN {Registrations(c) : c \in files.pjsip} ELSE engine.registrations
        /\ engine'.globals = IF reloading.module = "pbx_config" THEN files.globals ELSE engine.globals
        /\ engine'.extensions = IF reloading.module = "pbx_config" THEN files.extensions ELSE engine.extensions
    <2>1. reloading.module \in {"res_pjsip", "res_pjsip_outbound_registration", "pbx_config"}
      BY <1>4 DEF Reloads
    <2>2. CASE reloading.module = "res_pjsip"
      BY <1>1, <1>3, <2>2 DEF FilesTyped
    <2>3. CASE reloading.module = "pbx_config"
      BY <1>1, <1>3, <2>3 DEF FilesTyped
    <2>4. CASE reloading.module = "res_pjsip_outbound_registration"
      BY <1>1, <1>3, <2>4 DEF FilesTyped
    <2> QED
      BY <2>1, <2>2, <2>3, <2>4
  <1>7. EngineTyped'
    <2>1. FilesTyped' /\ cause' \subseteq SyncCauses /\ faults' \in 0..MaxFaults
      BY <1>1, <1>2, <1>5, <1>6, TypedNow DEF FilesTyped
    <2>2. RunsFit'
      BY <1>1, <1>2 DEF RunsFit
    <2> QED
      BY <1>1, <1>2, <2>1, <2>2, TypedStep
  <1>8. AloneFits => AloneFits'
    BY <1>2, <1>5 DEF AloneFits, ReloadFits, Past
  <1>9. ASSUME RowsFollow
        PROVE  RowsFollow'
    <2>1. UNCHANGED <<trunks, extensions>> /\ \A x \in Runs : ReadFits(runs[x])'
      BY <1>2, <1>9 DEF RowsFollow, ReadFits, rowVars
    <2>2. FilesFit'
      BY <1>2, <1>9, <2>1 DEF RowsFollow, FilesFit, Past
    <2>3. /\ Past(8)' = Past(8) /\ Past(9)' = Past(9) /\ Past(10)' = Past(10)
      BY <1>2 DEF Past
    <2>4. LoadedFits'
      <3>1. /\ Awaited("res_pjsip") => reloading.module = "res_pjsip"
            /\ Awaited("pbx_config") => reloading.module = "pbx_config"
            /\ Awaited("res_pjsip_outbound_registration") =>
                 reloading.module = "res_pjsip_outbound_registration"
        BY DEF Awaited
      <3> QED
        BY <1>2, <1>6, <1>9, <2>3, <3>1 DEF RowsFollow, LoadedFits
    <2> QED
      BY <2>1, <2>2, <2>4 DEF RowsFollow
  <1> QED
    BY <1>2, <1>7, <1>8, <1>9 DEF EngineInv, rowVars

LEMMA ReloadEndsStays ==
  ASSUME EngineInv, ReloadEnds
  PROVE  EngineInv'
  <1>1. EngineTyped /\ RunsFit /\ FilesTyped
    BY DEF EngineInv, EngineTyped
  <1>2. /\ reloading.loaded /\ reloading' = Ready
        /\ UNCHANGED <<rowVars, runs, files, engine, cause, faults>>
    BY DEF ReloadEnds
  <1>3. EngineTyped'
    <2>1. FilesTyped' /\ cause' \subseteq SyncCauses /\ faults' \in 0..MaxFaults
      BY <1>1, <1>2, TypedNow DEF FilesTyped
    <2>2. RunsFit'
      BY <1>1, <1>2 DEF RunsFit
    <2> QED
      BY <1>1, <1>2, <2>1, <2>2, TypedStep
  <1>4. AloneFits => AloneFits'
    BY <1>2, ReadyIs DEF AloneFits, ReloadFits, Past
  <1>5. ASSUME RowsFollow
        PROVE  RowsFollow'
    <2>1. UNCHANGED <<trunks, extensions>> /\ \A x \in Runs : ReadFits(runs[x])'
      BY <1>2, <1>5 DEF RowsFollow, ReadFits, rowVars
    <2>2. FilesFit'
      BY <1>2, <1>5, <2>1 DEF RowsFollow, FilesFit, Past
    <2>3. /\ Past(8)' = Past(8) /\ Past(9)' = Past(9) /\ Past(10)' = Past(10)
      BY <1>2 DEF Past
    <2>4. /\ ~Awaited("res_pjsip") /\ ~Awaited("pbx_config")
          /\ ~Awaited("res_pjsip_outbound_registration")
      BY <1>2 DEF Awaited
    <2>5. LoadedFits'
      BY <1>2, <1>5, <2>3, <2>4 DEF RowsFollow, LoadedFits
    <2> QED
      BY <2>1, <2>2, <2>5 DEF RowsFollow
  <1> QED
    BY <1>2, <1>3, <1>4, <1>5 DEF EngineInv, rowVars

LEMMA EngineInvInit == EngineInit => EngineInv
  <1> SUFFICES ASSUME EngineInit
               PROVE  EngineInv
    OBVIOUS
  <1>1. PICK found \in Stored : trunks = found.trunks /\ extensions = found.extensions /\ routes = found.routes
    BY DEF EngineInit
  <1>2. PICK r \in Runs : runs = [x \in Runs |-> IF x = r THEN Begun ELSE NoRun]
    BY DEF EngineInit
  <1>3. /\ changes = 0 /\ owed = 0 /\ reloading = Ready /\ cause = {} /\ faults = 0
        /\ files = [f \in FileNames |-> Torn]
        /\ engine = [endpoints |-> Torn, registrations |-> Torn, globals |-> Torn, extensions |-> Torn]
    BY DEF EngineInit
  <1>4. /\ RunsFit /\ runs[r].at = 1 /\ runs[r].unread = {"trunks", "extensions"}
        /\ \A x \in Runs \ {r} : runs[x].at = 0
    <2>1. Begun.unread = {"trunks", "extensions"}
      BY DEF Begun, NoRun
    <2> QED
      BY <1>2, <2>1, BegunFits DEF RunsFit
  <1>5. EngineTyped
    <2>1. FilesTyped
      BY <1>3 DEF FilesTyped
    <2>2. RowsTyped
      BY <1>1, EngineAssumption DEF RowsTyped
    <2>3. /\ changes \in 0..MaxChanges /\ owed \in 0..MaxChanges /\ owed <= changes
          /\ faults \in 0..MaxFaults
      BY <1>3, EngineAssumption
    <2> QED
      BY <1>3, <1>4, <2>1, <2>2, <2>3, PlanIs DEF EngineTyped, EngineTypeOK, RowsTyped, RunsFit, SyncRunFits
  <1>6. /\ ~Past(3) /\ ~Past(5) /\ ~Past(7)
        /\ ~Past(8) /\ ~Past(9) /\ ~Past(10)
    BY <1>4, PastNow
  <1>7. AloneFits
    <2>1. \A x \in Runs : (runs[x].at \in {2, 4, 6} => runs[x].alone) /\ ReloadFits(runs[x])
      BY <1>3, <1>4 DEF ReloadFits
    <2>2. \A x, y \in Runs : runs[x].at > 0 /\ runs[y].at > 0 => x = y
      BY <1>4 DEF RunsFit, SyncRunFits
    <2> QED
      BY <1>6, <2>1, <2>2 DEF AloneFits
  <1>8. \A x \in Runs : ReadFits(runs[x])
    BY <1>4 DEF ReadFits
  <1>9. RowsFollow
    BY <1>6, <1>8 DEF RowsFollow, FilesFit, LoadedFits
  <1> QED
    BY <1>5, <1>7, <1>9 DEF EngineInv

LEMMA EngineInvStutters == EngineInv /\ UNCHANGED engineVars => EngineInv'
  <1> SUFFICES ASSUME EngineInv, UNCHANGED engineVars
               PROVE  EngineInv'
    OBVIOUS
  <1>1. UNCHANGED <<trunks, extensions, routes, changes, owed, runs, files, engine, reloading, cause, faults>>
    BY DEF engineVars, rowVars
  <1>2. EngineTyped' <=> EngineTyped
    BY <1>1 DEF EngineTyped, EngineTypeOK, RunsFit, FilesTyped
  <1>3. AloneFits' <=> AloneFits
    BY <1>1 DEF AloneFits, ReloadFits, Past
  <1>4. FilesFit' <=> FilesFit
    BY <1>1 DEF FilesFit, Past
  <1>5. LoadedFits' <=> LoadedFits
    BY <1>1 DEF LoadedFits, Awaited, Past
  <1>6. RowsFollow' <=> RowsFollow
    BY <1>1, <1>4, <1>5 DEF RowsFollow, ReadFits
  <1> QED
    BY <1>1, <1>2, <1>3, <1>6 DEF EngineInv

LEMMA EngineInvStays == EngineInv /\ EngineNext => EngineInv'
  <1> SUFFICES ASSUME EngineInv, EngineNext
               PROVE  EngineInv'
    OBVIOUS
  <1>1. RowsTyped
    BY TypedNow DEF EngineInv
  <1>2. CASE TrunkChanges \/ ExtensionChanges \/ RouteChanges
    <2>1. RowsTyped' /\ Commit
      BY <1>1, <1>2, TrunkChanged, ExtensionChanged, RouteChangeds
    <2> QED
      BY <2>1, CommitKeeps
  <1>3. CASE Schedule \/ AuditFails \/ Restart
    BY <1>3, ScheduleStays, AuditFailsStays, RestartStays
  <1>4. ASSUME NEW r \in Runs,
               \/ ReadTrunks(r) \/ ReadExtensions(r) \/ OpenFile(r) \/ CloseFile(r)
               \/ Reload(r) \/ ReloadRefused(r) \/ RunFails(r)
        PROVE  EngineInv'
    BY <1>4, ReadStays, OpenStays, CloseStays, ReloadStays, FailureStays
  <1>5. CASE Load \/ ReloadEnds
    BY <1>5, LoadStays, ReloadEndsStays
  <1> QED
    BY <1>2, <1>3, <1>4, <1>5 DEF EngineNext, TrunkChanges, ExtensionChanges, RouteChanges

LEMMA EngineInvExplains == EngineInv => EngineTypeOK /\ EngineRunsTheRows
  <1> SUFFICES ASSUME EngineInv
               PROVE  EngineTypeOK /\ EngineRunsTheRows
    OBVIOUS
  <1>1. EngineTypeOK /\ RunsFit
    BY DEF EngineInv, EngineTyped
  <1>2. ASSUME owed = 0, UnderWay = {}, reloading = Ready, cause = {}
        PROVE  /\ engine.endpoints = {PjsipFile(trunks, extensions)}
               /\ engine.registrations = {Registrations(PjsipFile(trunks, extensions))}
               /\ \E c \in GlobalsChoices(trunks) : engine.globals = {c}
               /\ engine.extensions = {DialplanFile(trunks)}
    <2>1. RowsFollow
      BY <1>2 DEF EngineInv
    <2>2. \A r \in Runs : runs[r].at = 0
      BY <1>1, <1>2 DEF UnderWay, RunsFit, SyncRunFits
    <2>3. Past(3) /\ Past(5) /\ Past(7) /\ Past(8) /\ Past(9) /\ Past(10)
      BY <2>2 DEF Past
    <2>4. /\ ~Awaited("res_pjsip") /\ ~Awaited("pbx_config")
          /\ ~Awaited("res_pjsip_outbound_registration")
      BY <1>2, ReadyIs DEF Awaited
    <2>5. /\ files["pjsip"] = {PjsipFile(trunks, extensions)}
          /\ \E c \in GlobalsChoices(trunks) : files["globals"] = {c}
          /\ files["extensions"] = {DialplanFile(trunks)}
      BY <2>1, <2>3 DEF RowsFollow, FilesFit
    <2>6. /\ engine.endpoints = files["pjsip"]
          /\ engine.registrations = {Registrations(c) : c \in files["pjsip"]}
          /\ engine.globals = files["globals"] /\ engine.extensions = files["extensions"]
      BY <2>1, <2>3, <2>4 DEF RowsFollow, LoadedFits
    <2> QED
      BY <2>5, <2>6
  <1> QED
    BY <1>1, <1>2 DEF EngineRunsTheRows

(***************************************************************************)
(* The parts, each by itself and then as they are checked together: a step *)
(* of the whole is a step of one part, and leaves the others alone.        *)

\* Once every change is scheduled and every run and reload is over, the SIP
\* engine runs what the rows of trunks and extensions say, unless a run
\* failed, crossed another or had a reload discarded, for any number of
\* changes, runs, failures and restarts (pbxSync.service.ts,
\* asteriskRuntime.service.ts).
THEOREM EngineAlwaysRunsTheRows == EngineSpec => []EngineRunsTheRows
  <1>1. EngineInv /\ [EngineNext]_engineVars => EngineInv'
    BY EngineInvStays, EngineInvStutters
  <1>2. EngineInv => EngineRunsTheRows
    BY EngineInvExplains
  <1> QED
    BY <1>1, <1>2, EngineInvInit, PTL DEF EngineSpec

telephonyVars == <<engineVars, linesVars, trunkVars, pbxVars, connectionVars,
                   webphoneVars, pageVars, adminVars, part>>

Parts == {"engine", "pbx", "connection", "lines", "trunk", "webphone", "page", "admin"}

TelephonyInv == /\ EngineInv /\ LinesInv /\ TrunkInv
                /\ PbxInv /\ ConnectionInv /\ PhoneInv /\ PageInv /\ AdminInv
                /\ part \in Parts

LEMMA TelephonyInvInit == Init => TelephonyInv
  <1> SUFFICES ASSUME Init
               PROVE  TelephonyInv
    OBVIOUS
  <1>1. /\ EngineInit /\ PbxInit /\ ConnectionInit /\ LinesInit /\ TrunkInit /\ WebphoneInit
        /\ PageInit /\ AdminInit /\ part \in Parts
    BY DEF Init, Parts
  <1> QED
    BY <1>1, EngineInvInit, LinesInvInit, TrunkInvInit, PbxInvInit, ConnectionInvInit,
       PhoneInvInit, PageInvInit, AdminInvInit DEF TelephonyInv

\* A part moves by its own actions or not at all.
LEMMA PartsMove ==
  ASSUME [Next]_telephonyVars
  PROVE  /\ EngineNext \/ UNCHANGED engineVars
         /\ LinesNext \/ UNCHANGED linesVars
         /\ TrunkNext \/ UNCHANGED trunkVars
         /\ PbxNext \/ UNCHANGED pbxVars
         /\ ConnectionNext \/ UNCHANGED connectionVars
         /\ WebphoneNext \/ UNCHANGED webphoneVars
         /\ PageNext \/ UNCHANGED pageVars
         /\ AdminNext \/ UNCHANGED adminVars
         /\ UNCHANGED part
  <1>1. CASE UNCHANGED telephonyVars
    BY <1>1, Zenon DEF telephonyVars
  <1>2. CASE Next
    BY <1>2, Zenon DEF Next, OfClient, OfSystem
  <1> QED
    BY <1>1, <1>2

LEMMA TelephonyInvStays == TelephonyInv /\ [Next]_telephonyVars => TelephonyInv'
  <1> SUFFICES ASSUME TelephonyInv, [Next]_telephonyVars
               PROVE  TelephonyInv'
    OBVIOUS
  <1>1. EngineInv' /\ LinesInv' /\ TrunkInv'
    BY PartsMove, EngineInvStays, EngineInvStutters, LinesInvStays, LinesInvStutters,
       TrunkInvStays, TrunkInvStutters DEF TelephonyInv
  <1>2. PbxInv' /\ ConnectionInv'
    BY PartsMove, PbxInvStays, PbxInvStutters, ConnectionInvStays, ConnectionInvStutters DEF TelephonyInv
  <1>3. PhoneInv' /\ PageInv' /\ AdminInv'
    BY PartsMove, PhoneInvStays, PhoneInvStutters, PageInvStays, PageInvStutters,
       AdminInvStays, AdminInvStutters DEF TelephonyInv
  <1> QED
    BY <1>1, <1>2, <1>3, PartsMove DEF TelephonyInv

LEMMA TelephonyInvHolds == Spec => []TelephonyInv
  BY TelephonyInvInit, TelephonyInvStays, PTL DEF Spec, telephonyVars

\* What Falai keeps of the client's PBX is what the PBX says, but for the
\* causes each part names: a call that is over is not shown as live, a call
\* the PBX removed is not listed, and a connection said to be on uses
\* credentials the PBX accepts, for any calls, events lost or late, crossed
\* synchronisations, tests and expired tokens (incomingCalls.service.ts,
\* pbxCdr.service.ts, tenant/pbx.ts, YeastarAdapter.ts); and the part of the
\* state that moves has its type.
THEOREM PbxIsAlwaysMirrored == Spec => []PbxIsMirrored
  <1>1. TelephonyInv => PbxIsMirrored
    <2> SUFFICES ASSUME TelephonyInv
                 PROVE  PbxIsMirrored
      OBVIOUS
    <2>1. /\ EngineTypeOK /\ LinesTypeOK /\ TrunkTypeOK /\ PbxTypeOK
          /\ ConnectionTypeOK /\ WebphoneTypeOK /\ PageTypeOK /\ AdminTypeOK
      BY EngineInvExplains, LinesInvExplains, TrunkInvExplains, PbxInvExplains,
         ConnectionInvExplains, PhoneInvExplains, PageInvExplains, AdminInvExplains DEF TelephonyInv
    <2>2. TypeOK
      <3>1. CASE part = "engine"
        BY <2>1, <3>1, Zenon DEF TypeOK
      <3>2. CASE part = "pbx"
        BY <2>1, <3>2, Zenon DEF TypeOK
      <3>3. CASE part = "connection"
        BY <2>1, <3>3, Zenon DEF TypeOK
      <3>4. CASE part = "lines"
        BY <2>1, <3>4, Zenon DEF TypeOK
      <3>5. CASE part = "trunk"
        BY <2>1, <3>5, Zenon DEF TypeOK
      <3>6. CASE part = "webphone"
        BY <2>1, <3>6, Zenon DEF TypeOK
      <3>7. CASE part = "page"
        BY <2>1, <3>7, Zenon DEF TypeOK
      <3>8. CASE part = "admin"
        BY <2>1, <3>8, Zenon DEF TypeOK
      <3> QED
        BY <3>1, <3>2, <3>3, <3>4, <3>5, <3>6, <3>7, <3>8 DEF TelephonyInv, Parts
    <2>3. OverIsNotLive /\ RemovedCallIsListed /\ ConnectedMeansAccepted
      BY PbxInvExplains, ConnectionInvExplains DEF TelephonyInv
    <2> QED
      BY <2>2, <2>3 DEF PbxIsMirrored
  <1> QED
    BY <1>1, TelephonyInvHolds, PTL

\* A call leaves by a line of its own client: at most one of its lines is the
\* outgoing one, and the trunk and number of a call are its client's or
\* shared, but for the causes each part names, for any clients, lines,
\* handlers and stale caches (admin/tenants.ts lines, AsteriskAdapter.ts
\* trunk cache).
THEOREM CallsAlwaysLeaveByTheirLine == Spec => []CallsLeaveByTheirLine
  <1>1. TelephonyInv => CallsLeaveByTheirLine
    BY LinesInvExplains, TrunkInvExplains DEF TelephonyInv, CallsLeaveByTheirLine
  <1> QED
    BY <1>1, TelephonyInvHolds, PTL

\* What runs of the webphone is what its page holds, and a direct call that
\* goes on is the one its page hangs up, but for the causes each part names,
\* for any clicks, calls, polls and failures (WebphoneContext.tsx,
\* DirectCallPage.tsx).
THEOREM NothingEverEscapesThePage == Spec => []NothingEscapesThePage
  <1>1. TelephonyInv => NothingEscapesThePage
    BY PhoneInvExplains, PageInvExplains DEF TelephonyInv, NothingEscapesThePage
  <1> QED
    BY <1>1, TelephonyInvHolds, PTL
=============================================================================
