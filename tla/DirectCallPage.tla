---------------------------- MODULE DirectCallPage ----------------------------
(***************************************************************************)
(* The page that places direct calls (DirectCallPage.tsx) and the routes   *)
(* it asks: it holds the id of one call, for the button that hangs up, and *)
(* asks every four seconds whether that call is still there.  The timer    *)
(* does not wait for an answer, nor does stopping it take one back.  What  *)
(* the SIP engine does for a call is DirectCalls.                          *)
(***************************************************************************)
EXTENDS Naturals, FiniteSets

CONSTANTS PageCalls,     \* bound: calls placed from the page
          MaxPageFaults  \* bound: lost answers, failed requests, restarts

ASSUME DirectCallPageAssumption == IsFiniteSet(PageCalls) /\ MaxPageFaults \in Nat

VARIABLES
  motor,   \* what carries the tenant's calls: "asterisk" or "yeastar"
  pcalls,  \* what became of each call
  page,    \* shown: activeCallId; dial, hangup: the mutations under way
  polls,   \* questions about a call, and what they found
  forgotten, \* calls from before a restart of the API
  causes,  \* history: what may have taken a call from the page
  pageFaults

pageVars == <<motor, pcalls, page, polls, forgotten, causes, pageFaults>>

NoPageCall == "no call"
ASSUME NoPageCallAssumption == NoPageCall \notin PageCalls
EmptyPage == [shown |-> NoPageCall, dial |-> NoPageCall, hangup |-> NoPageCall]
Causes == {"left", "lost", "hangup", "unseen", "crossed"}

PageInit ==
  /\ motor \in {"asterisk", "yeastar"}
  /\ pcalls = [c \in PageCalls |-> "free"]
  /\ page = EmptyPage /\ polls = {} /\ forgotten = {}
  /\ causes = [c \in PageCalls |-> {}]
  /\ pageFaults = 0

PageFault == pageFaults < MaxPageFaults /\ pageFaults' = pageFaults + 1
Excuse(cause, calls) ==
  causes' = [c \in PageCalls |-> IF c \in calls THEN causes[c] \cup {cause} ELSE causes[c]]

-----------------------------------------------------------------------------
(* The button calls while no call is shown and no dial is under way; an    *)
(* answer about an earlier call may still be.                              *)
HandleDial(c) ==
  /\ pcalls[c] = "free" /\ page.shown = NoPageCall /\ page.dial = NoPageCall
  /\ pcalls' = [pcalls EXCEPT ![c] = "asked"]
  /\ page' = [page EXCEPT !.dial = c]
  /\ IF polls = {} /\ page.hangup = NoPageCall THEN UNCHANGED causes ELSE Excuse("crossed", {c})
  /\ UNCHANGED <<motor, polls, forgotten, pageFaults>>

PlaceDirectCall(c) ==
  /\ pcalls[c] = "asked"
  /\ pcalls' = [pcalls EXCEPT ![c] = "live"]
  /\ UNCHANGED <<motor, page, polls, forgotten, causes, pageFaults>>

(* Not a line of this client, no phone registered, or the PBX refuses. *)
RefuseDirectCall(c) ==
  /\ pcalls[c] = "asked"
  /\ pcalls' = [pcalls EXCEPT ![c] = "over"]
  /\ page' = IF page.dial = c THEN [page EXCEPT !.dial = NoPageCall] ELSE page
  /\ UNCHANGED <<motor, polls, forgotten, causes, pageFaults>>

DialSucceeds(c) ==
  /\ page.dial = c /\ pcalls[c] \in {"live", "over"}
  /\ page' = [page EXCEPT !.shown = c, !.dial = NoPageCall]
  /\ UNCHANGED <<motor, pcalls, polls, forgotten, causes, pageFaults>>

DialIsLost(c) ==
  /\ page.dial = c /\ PageFault
  /\ page' = [page EXCEPT !.dial = NoPageCall]
  /\ Excuse("lost", {c})
  /\ UNCHANGED <<motor, pcalls, polls, forgotten>>

\* A party hangs up, or nobody answers.
PartyEnds(c) ==
  /\ pcalls[c] = "live"
  /\ pcalls' = [pcalls EXCEPT ![c] = "over"]
  /\ UNCHANGED <<motor, page, polls, forgotten, causes, pageFaults>>

-----------------------------------------------------------------------------
HandleHangup ==
  /\ page.shown # NoPageCall /\ page.hangup = NoPageCall
  /\ page' = [page EXCEPT !.hangup = page.shown]
  /\ UNCHANGED <<motor, pcalls, polls, forgotten, causes, pageFaults>>

(* The page forgets whatever call it shows when the answer comes.  The     *)
(* engine's requests to hang up are not waited for: one may fail unseen.   *)
HangupSucceeds ==
  /\ page.hangup # NoPageCall
  /\ \/ /\ pcalls' = [pcalls EXCEPT ![page.hangup] = "over"]
        /\ UNCHANGED <<causes, pageFaults>>
     \/ /\ motor = "asterisk" /\ PageFault
        /\ Excuse("hangup", {page.hangup})
        /\ UNCHANGED pcalls
  /\ page' = [page EXCEPT !.shown = NoPageCall, !.hangup = NoPageCall]
  /\ UNCHANGED <<motor, polls, forgotten>>

\* Mutant: the page forgets the call whatever is answered.
AfterRefusedHangupForgotten == [page EXCEPT !.shown = NoPageCall, !.hangup = NoPageCall]
AfterRefusedHangup == [page EXCEPT !.hangup = NoPageCall]

HangupIsRefused ==
  /\ page.hangup # NoPageCall /\ PageFault
  /\ page' = AfterRefusedHangup
  /\ UNCHANGED <<motor, pcalls, polls, forgotten, causes>>

-----------------------------------------------------------------------------
Question(c) == [of |-> c, says |-> "asked"]

PollStatus ==
  /\ page.shown # NoPageCall
  /\ polls' = polls \cup {Question(page.shown)}
  /\ UNCHANGED <<motor, pcalls, page, forgotten, causes, pageFaults>>

(* The engine knows the calls of this process; the PBX is asked, and a     *)
(* question that fails is taken for a call that is over.                   *)
DirectStatus(p) ==
  LET active == pcalls[p.of] = "live" /\ p.of \notin forgotten
      Found(says) == polls' = (polls \ {p}) \cup {[p EXCEPT !.says = says]} IN
  /\ p.says = "asked"
  /\ \/ Found(IF active THEN "active" ELSE "over") /\ UNCHANGED <<causes, pageFaults>>
     \/ motor = "yeastar" /\ PageFault /\ Found("over") /\ Excuse("unseen", {p.of})
  /\ UNCHANGED <<motor, pcalls, page, forgotten>>

StatusArrives(p) ==
  /\ p.says # "asked"
  /\ polls' = polls \ {p}
  /\ page' = IF p.says = "over" THEN [page EXCEPT !.shown = NoPageCall] ELSE page
  /\ UNCHANGED <<motor, pcalls, forgotten, causes, pageFaults>>

(* An error of the network is ignored. *)
StatusFails(p) ==
  /\ PageFault /\ polls' = polls \ {p}
  /\ UNCHANGED <<motor, pcalls, page, forgotten, causes>>

(* The engine's sessions end with the process, and its requests with it; *)
(* the channels do not.                                                  *)
RestartOfApi ==
  LET asked == {c \in PageCalls : pcalls[c] = "asked"}
      live == {c \in PageCalls : pcalls[c] = "live"} IN
  /\ PageFault
  /\ page' = IF page.dial \in asked THEN [page EXCEPT !.dial = NoPageCall] ELSE page
  /\ forgotten' = IF motor = "asterisk" THEN forgotten \cup asked \cup live ELSE forgotten
  /\ causes' = [c \in PageCalls |-> causes[c] \cup (IF c \in asked THEN {"lost"} ELSE {})
                  \cup (IF c \in live /\ motor = "asterisk" THEN {"unseen"} ELSE {})]
  /\ UNCHANGED <<motor, pcalls, polls>>

(* A page that is opened again knows nothing of the calls it had placed;   *)
(* answers to the one that was left change nothing.                        *)
LeaveCallPage ==
  /\ page # EmptyPage
  /\ page' = EmptyPage /\ polls' = {}
  /\ Excuse("left", {c \in PageCalls : pcalls[c] \in {"asked", "live"}})
  /\ UNCHANGED <<motor, pcalls, forgotten, pageFaults>>

PageNext ==
  \/ \E c \in PageCalls : HandleDial(c) \/ PlaceDirectCall(c) \/ RefuseDirectCall(c)
                          \/ DialSucceeds(c) \/ DialIsLost(c) \/ PartyEnds(c)
  \/ HandleHangup \/ HangupSucceeds \/ HangupIsRefused
  \/ PollStatus \/ \E p \in polls : DirectStatus(p) \/ StatusArrives(p) \/ StatusFails(p)
  \/ RestartOfApi \/ LeaveCallPage

PageSpec == PageInit /\ [][PageNext]_pageVars

-----------------------------------------------------------------------------
(* Every part of the state has its type. *)
PageTypeOK ==
  /\ \A c \in PageCalls : pcalls[c] \in {"free", "asked", "live", "over"} /\ causes[c] \subseteq Causes
  /\ page \in [{"shown", "dial", "hangup"} -> PageCalls \cup {NoPageCall}]
  /\ polls \subseteq [of : PageCalls, says : {"asked", "active", "over"}]
  /\ forgotten \subseteq PageCalls

(***************************************************************************)
(* A call that goes on is the one the page's button hangs up, unless the   *)
(* page was left, the answer to its dial was lost, its hang-up failed      *)
(* unseen, a question about it failed or met a new process, or the answer  *)
(* about an earlier call came when this one had been placed                *)
(* (DirectCallPage.tsx:40-73: setActiveCallId(null) asks for no call).     *)
(***************************************************************************)
LiveCallHasItsButton ==
  \A c \in PageCalls :
    pcalls[c] = "live" /\ causes[c] = {} => c \in {page.shown, page.dial}
=============================================================================
