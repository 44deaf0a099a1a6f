---------------------------- MODULE DirectCalls ----------------------------
(***************************************************************************)
(* One click-to-call on the platform's own Asterisk: POST /calls/direct and *)
(* services/directCall.service.ts, over the ring groups of AsteriskAdapter. *)
(* The phones of an extension ring together; the first to answer enters a  *)
(* bridge, the others are hung up, and only then is the destination         *)
(* dialled.  Calls share nothing but the maps their channel ids key.       *)
(*                                                                         *)
(* The web socket's events are handled one at a time and in order; requests *)
(* to Asterisk and to the database return later.                           *)
(***************************************************************************)
EXTENDS Naturals, Sequences, FiniteSets

CONSTANTS Legs,     \* channels of the extension: desk phone and web phone
          Out,      \* the channel of the destination
          MaxFaults \* bound: failed requests, lost events and crashes

ASSUME DirectAssumption ==
  /\ IsFiniteSet(Legs) /\ Legs # {} /\ Out \notin Legs
  /\ MaxFaults \in Nat

VARIABLES
  request, \* the route handler that places the call
  chan,    \* Asterisk's channels
  bridge,  \* the ARI bridge
  events,  \* events on the web socket
  drops,   \* hang-up requests under way
  adapter, \* AsteriskAdapter: ring groups and answer instants
  session, \* the Session object; index: its keys in the sessions map
  pickup,  \* the asynchronous part of the ring group's onAnswer
  writes,  \* database writes under way
  row,     \* status of the Call row
  old,     \* SESSION_MAX_MS have passed
  history  \* what happened: its end, a late dial, failures

vars == <<request, chan, bridge, events, drops, adapter, session, pickup, writes,
          row, old, history>>

Chans == Legs \cup {Out}
Groups == {"extension", "destination"}
Live(x) == chan[x] \in {"ringing", "up"}
Closing == {"COMPLETED", "NO_ANSWER"}
CanFail == history.faults < MaxFaults

Init ==
  /\ request = "idle"
  /\ chan = [x \in Chans |-> "none"]
  /\ bridge = "none"
  /\ events = <<>>
  /\ drops = {}
  /\ adapter = [group |-> [x \in Chans |-> "none"],
                remaining |-> [g \in Groups |-> {}],
                settled |-> [g \in Groups |-> FALSE], answeredAt |-> {}]
  /\ session = [channels |-> {}, all |-> {}, index |-> {}, first |-> Out]
  /\ pickup = [step |-> "none", leg |-> Out]
  /\ writes = {}
  /\ row = "NONE"
  /\ old = FALSE
  /\ history = [ended |-> FALSE, lateDial |-> FALSE,
                crashed |-> FALSE, faults |-> 0]

-----------------------------------------------------------------------------
(* Asterisk and the people on the phones.                                  *)

World == UNCHANGED <<request, bridge, adapter, session, pickup, writes, row, old>>

\* An answered channel was in Stasis and is reported twice, StasisEnd and
\* ChannelDestroyed.
Down(x) ==
  /\ chan' = [chan EXCEPT ![x] = "gone"]
  /\ events' = events \o (IF chan[x] = "up" THEN <<<<"end", x>>, <<"end", x>>>>
                                           ELSE <<<<"end", x>>>>)

Answers(x) ==
  /\ chan[x] = "ringing"
  /\ chan' = [chan EXCEPT ![x] = "up"]
  /\ events' = Append(events, <<"up", x>>)
  /\ UNCHANGED <<drops, history>> /\ World

\* Nobody answers in time, or the phone refuses.
RingsOut(x) ==
  /\ chan[x] = "ringing"
  /\ Down(x)
  /\ history' = IF x = Out THEN [history EXCEPT !.ended = TRUE] ELSE history
  /\ UNCHANGED drops /\ World

PartyHangsUp(x) ==
  /\ chan[x] = "up"
  /\ Down(x)
  /\ history' = [history EXCEPT !.ended = TRUE]
  /\ UNCHANGED drops /\ World

\* A channel that is gone answers 404, which is no error.
HangupArrives(x) ==
  /\ x \in drops
  /\ drops' = drops \ {x}
  /\ IF Live(x) THEN Down(x) ELSE UNCHANGED <<chan, events>>
  /\ UNCHANGED history /\ World

\* Every caller of hangup swallows its failure.
HangupFails(x) ==
  /\ x \in drops /\ CanFail
  /\ drops' = drops \ {x}
  /\ history' = [history EXCEPT !.faults = @ + 1]
  /\ UNCHANGED <<chan, events>> /\ World

LoseEvent ==
  /\ events # <<>> /\ CanFail
  /\ events' = Tail(events)
  /\ history' = [history EXCEPT !.faults = @ + 1]
  /\ UNCHANGED <<chan, drops>> /\ World

-----------------------------------------------------------------------------
(* cleanup: hang up, forget the session, release the bridge, close the row.  *)
(* Asterisk is taken to destroy the bridge it is asked to destroy.          *)

Cleanup(closing) ==
  /\ drops' = drops \cup session.channels
  /\ session' = [session EXCEPT !.channels = {}, !.index = @ \ session.all]
  /\ bridge' = IF bridge = "up" THEN "gone" ELSE bridge
  /\ writes' = writes \cup closing

Nothing == UNCHANGED <<drops, session, bridge, writes>>

-----------------------------------------------------------------------------
(* startAsteriskDirectCall: a bridge, the legs, the session, the ring group. *)

CreateBridge ==
  /\ request = "idle"
  /\ request' = "originating"
  /\ bridge' = "up"
  /\ UNCHANGED <<chan, events, drops, adapter, session, pickup, writes, row, old,
                 history>>

\* Asterisk creates the channel, or refuses: the phone is not registered.
OriginateLeg(x) ==
  /\ request = "originating" /\ x \in Legs /\ chan[x] = "none"
  /\ \E made \in {"ringing", "refused"} : chan' = [chan EXCEPT ![x] = made]
  /\ UNCHANGED <<request, bridge, events, drops, adapter, session, pickup, writes,
                 row, old, history>>

\* AsteriskAdapter.registerRingGroup.
RegisterRingGroup(g, ids) ==
  adapter' = [adapter EXCEPT
                !.group = [x \in Chans |-> IF x \in ids THEN g ELSE @[x]],
                !.remaining[g] = ids]

Made == {x \in Legs : chan[x] # "refused"}

\* Every request to ring a leg has returned.  A leg may have been answered, or
\* have gone, before the ring group exists.
Ring ==
  /\ request = "originating"
  /\ \A x \in Legs : chan[x] # "none"
  /\ IF Made = {}
     THEN /\ request' = "refused" /\ bridge' = "gone"
          /\ UNCHANGED <<adapter, session, writes>>
     ELSE /\ request' = "placed"
          /\ \E f \in Made : session' = [channels |-> Made, all |-> Made,
                                         index |-> Made, first |-> f]
          /\ RegisterRingGroup("extension", Made)
          /\ writes' = writes \cup {"create"}
          /\ UNCHANGED bridge
  /\ UNCHANGED <<chan, events, drops, pickup, row, old, history>>

-----------------------------------------------------------------------------
(* The ring groups' callbacks.                                             *)

\* The phone x answered first.
ExtensionAnswers(x) ==
  LET losers == session.all \ {x, Out}
  IN /\ drops' = drops \cup losers
     /\ session' = [session EXCEPT !.channels = @ \ losers]
     /\ pickup' = [step |-> "bridge", leg |-> x]
     /\ UNCHANGED <<bridge, writes>>

\* The destination joins the bridge, if there still is one: nothing here changes.
DestinationAnswers == Nothing /\ UNCHANGED pickup

\* onAriEvent, ChannelStateChange to Up.  A leg of a ring group leaves no answer
\* instant.
HandleUp(x) ==
  LET g == adapter.group[x]
  IN IF g # "none" /\ ~adapter.settled[g]
     THEN /\ adapter' = [adapter EXCEPT
                !.settled[g] = TRUE,
                !.group = [y \in Chans |-> IF y \in adapter.remaining[g]
                                           THEN "none" ELSE @[y]]]
          /\ IF g = "extension" THEN ExtensionAnswers(x) ELSE DestinationAnswers
     ELSE /\ adapter' = [adapter EXCEPT !.answeredAt = @ \cup {x}]
          /\ Nothing /\ UNCHANGED pickup

LegFalls(x, g) ==
  LET left == adapter.remaining[g] \ {x}
      lost == left = {} /\ ~adapter.settled[g]
  IN /\ adapter' = [adapter EXCEPT !.group[x] = "none", !.remaining[g] = left,
                                   !.settled[g] = @ \/ lost]
     /\ IF lost THEN Cleanup({"NO_ANSWER"}) ELSE Nothing

\* Mutant: CALL_FAILED is left to the ring groups.
RemoteEndIfAnswered(x) ==
  IF x \in session.index /\ x \in adapter.answeredAt
  THEN Cleanup({"COMPLETED"}) ELSE Nothing

\* registerDirectCallEvents: CALL_ENDED, or CALL_FAILED without an answer instant.
RemoteEnd(x) ==
  IF x \in session.index
  THEN Cleanup({IF x \in adapter.answeredAt THEN "COMPLETED" ELSE "NO_ANSWER"})
  ELSE Nothing

\* onAriEvent, StasisEnd and ChannelDestroyed.
HandleEnd(x) ==
  /\ IF adapter.group[x] # "none"
     THEN LegFalls(x, adapter.group[x])
     ELSE /\ adapter' = [adapter EXCEPT !.answeredAt = @ \ {x}]
          /\ RemoteEnd(x)
  /\ UNCHANGED pickup

HandleEvent ==
  /\ events # <<>>
  /\ events' = Tail(events)
  /\ LET e == Head(events)
     IN IF e[1] = "up" THEN HandleUp(e[2]) ELSE HandleEnd(e[2])
  /\ UNCHANGED <<request, chan, row, old, history>>

(* onAnswer goes on: it joins the bridge, dials, and registers the channel. *)

Picked == UNCHANGED <<request, events, row, old>>

JoinBridge ==
  /\ pickup.step = "bridge"
  /\ LET joins == bridge = "up" /\ chan[pickup.leg] = "up"
     IN \/ /\ joins
           /\ pickup' = [pickup EXCEPT !.step = "dial"]
           /\ Nothing /\ UNCHANGED history
        \/ /\ ~joins \/ CanFail
           /\ pickup' = [pickup EXCEPT !.step = "over"]
           /\ Cleanup({"COMPLETED"})
           /\ history' = IF joins THEN [history EXCEPT !.faults = @ + 1] ELSE history
  /\ UNCHANGED <<chan, adapter>> /\ Picked

\* Nobody asks whether the call is still wanted.
Dial ==
  /\ pickup.step = "dial"
  /\ \/ /\ chan' = [chan EXCEPT ![Out] = "ringing"]
        /\ pickup' = [pickup EXCEPT !.step = "dialled"]
        /\ Nothing /\ UNCHANGED history
     \/ /\ pickup' = [pickup EXCEPT !.step = "over"]
        /\ Cleanup({"COMPLETED"})
        /\ history' = [history EXCEPT !.ended = TRUE]
        /\ UNCHANGED chan
  /\ UNCHANGED adapter /\ Picked

\* Mutant: the session does not take the destination's channel.
DialReturnsUntracked ==
  /\ pickup.step = "dialled"
  /\ pickup' = [pickup EXCEPT !.step = "over"]
  /\ session' = [session EXCEPT !.index = @ \cup {Out}]
  /\ RegisterRingGroup("destination", {Out})
  /\ history' = [history EXCEPT !.lateDial = session.index = {}]
  /\ UNCHANGED <<chan, bridge, drops, writes>> /\ Picked

\* The session takes the channel even if it has been cleaned up meanwhile.
DialReturns ==
  /\ pickup.step = "dialled"
  /\ pickup' = [pickup EXCEPT !.step = "over"]
  /\ session' = [session EXCEPT !.channels = @ \cup {Out}, !.all = @ \cup {Out},
                                !.index = @ \cup {Out}]
  /\ RegisterRingGroup("destination", {Out})
  /\ history' = [history EXCEPT !.lateDial = session.index = {}]
  /\ UNCHANGED <<chan, bridge, drops, writes>> /\ Picked

-----------------------------------------------------------------------------
(* The button, the database and the sweeper.                               *)

\* POST /calls/direct/hangup.  Without a session only the channel the CRM knows is
\* hung up; either way the row is closed.
HangupRequest ==
  /\ request = "placed"
  /\ request' = "hungUp"
  /\ history' = [history EXCEPT !.ended = TRUE]
  /\ IF session.first \in session.index
     THEN Cleanup({"COMPLETED"})
     ELSE /\ drops' = drops \cup {session.first}
          /\ writes' = writes \cup {"COMPLETED"}
          /\ UNCHANGED <<session, bridge>>
  /\ UNCHANGED <<chan, events, adapter, pickup, row, old>>

Database == UNCHANGED <<request, chan, bridge, events, drops, adapter, session,
                        pickup, old>>

\* The row is created without anybody waiting for it.
CreateRow ==
  /\ "create" \in writes
  /\ row' = "IN_PROGRESS"
  /\ writes' = writes \ {"create"}
  /\ UNCHANGED history /\ Database

\* closeCallRows and the sweeper's update find only rows IN_PROGRESS.
CloseRows(w) ==
  /\ w \in writes \cap (Closing \cup {"swept"})
  /\ row' = IF row = "IN_PROGRESS"
            THEN IF w = "swept" THEN "NO_ANSWER" ELSE w ELSE row
  /\ writes' = writes \ {w}
  /\ UNCHANGED history /\ Database

WriteFails(w) ==
  /\ w \in writes /\ CanFail
  /\ writes' = writes \ {w}
  /\ history' = [history EXCEPT !.faults = @ + 1]
  /\ UNCHANGED row /\ Database

\* Four hours: no ring, request or write lasts that long.
GrowOld ==
  /\ ~old /\ request \in {"placed", "hungUp", "lost"}
  /\ \A x \in Chans : chan[x] # "ringing"
  /\ events = <<>> /\ drops = {} /\ writes = {}
  /\ pickup.step \in {"none", "over"}
  /\ old' = TRUE
  /\ UNCHANGED <<request, chan, bridge, events, drops, adapter, session, pickup,
                 writes, row, history>>

\* Mutant: only the sessions are swept.
SweepExpired ==
  /\ old /\ session.index # {} /\ "swept" \notin writes
  /\ Cleanup({"COMPLETED", "swept"})
  /\ history' = [history EXCEPT !.ended = TRUE]
  /\ UNCHANGED <<request, chan, events, adapter, pickup, row, old>>

\* The sweeper expires the session, if there is one, and closes the rows of calls
\* that old.
Sweep ==
  /\ old /\ "swept" \notin writes
  /\ session.index # {} \/ row = "IN_PROGRESS"
  /\ IF session.index # {}
     THEN Cleanup({"COMPLETED", "swept"})
     ELSE writes' = writes \cup {"swept"} /\ UNCHANGED <<drops, session, bridge>>
  /\ history' = [history EXCEPT !.ended = TRUE]
  /\ UNCHANGED <<request, chan, events, adapter, pickup, row, old>>

\* The API restarts: the maps, the requests and the writes under way are gone, the
\* channels, the bridge and the row are not.
Crash ==
  /\ CanFail /\ request # "idle"
  /\ request' = IF request = "originating" THEN "lost" ELSE request
  /\ drops' = {} /\ writes' = {} /\ events' = <<>>
  /\ adapter' = [group |-> [x \in Chans |-> "none"],
                 remaining |-> [g \in Groups |-> {}],
                 settled |-> [g \in Groups |-> FALSE], answeredAt |-> {}]
  /\ session' = [session EXCEPT !.channels = {}, !.all = {}, !.index = {}]
  /\ pickup' = [pickup EXCEPT !.step = "none"]
  /\ history' = [history EXCEPT !.faults = @ + 1, !.crashed = TRUE]
  /\ UNCHANGED <<chan, bridge, row, old>>

-----------------------------------------------------------------------------
Asterisk(x) == \/ Answers(x) \/ RingsOut(x) \/ PartyHangsUp(x)
               \/ HangupArrives(x) \/ HangupFails(x)

Service == \/ CreateBridge \/ Ring \/ HandleEvent \/ JoinBridge \/ Dial
           \/ DialReturns \/ HangupRequest \/ CreateRow \/ GrowOld \/ Sweep

Next == \/ \E x \in Chans : Asterisk(x) \/ OriginateLeg(x)
        \/ \E w \in Closing \cup {"swept"} : CloseRows(w)
        \/ \E w \in Closing \cup {"swept", "create"} : WriteFails(w)
        \/ Service \/ LoseEvent \/ Crash

Spec == Init /\ [][Next]_vars

\* Asterisk's ring timeouts end, its answers and the database's return, events are
\* handled, and the sweeper runs every five minutes.  Nothing is assumed of people.
Fairness ==
  /\ \A x \in Chans : /\ WF_vars(RingsOut(x)) /\ WF_vars(HangupArrives(x))
                      /\ WF_vars(OriginateLeg(x))
  /\ \A w \in Closing \cup {"swept"} : WF_vars(CloseRows(w))
  /\ WF_vars(Ring) /\ WF_vars(HandleEvent) /\ WF_vars(JoinBridge)
  /\ WF_vars(Dial) /\ WF_vars(DialReturns) /\ WF_vars(CreateRow)
  /\ WF_vars(GrowOld) /\ WF_vars(Sweep)

FairSpec == Spec /\ Fairness

-----------------------------------------------------------------------------
(* Correctness.                                                            *)

TypeOK ==
  /\ request \in {"idle", "originating", "placed", "hungUp", "refused", "lost"}
  /\ chan \in [Chans -> {"none", "refused", "ringing", "up", "gone"}]
  /\ bridge \in {"none", "up", "gone"}
  /\ events \in Seq({"up", "end"} \X Chans)
  /\ drops \subseteq Chans
  /\ adapter \in [group: [Chans -> Groups \cup {"none"}],
                  remaining: [Groups -> SUBSET Chans],
                  settled: [Groups -> BOOLEAN], answeredAt: SUBSET Chans]
  /\ session \in [channels: SUBSET Chans, all: SUBSET Chans, index: SUBSET Chans,
                  first: Chans]
  /\ pickup \in [step: {"none", "bridge", "dial", "dialled", "over"}, leg: Chans]
  /\ writes \subseteq Closing \cup {"create", "swept"}
  /\ row \in Closing \cup {"NONE", "IN_PROGRESS"}
  /\ old \in BOOLEAN
  /\ history \in [lateDial: BOOLEAN, crashed: BOOLEAN, faults: Nat,
                  ended: BOOLEAN]

\* Every way out of a call releases its bridge: one that is up belongs to a call
\* being placed or to a session the sweeper can find.  Only a restart orphans it.
BridgeIsHeld ==
  bridge = "up" => \/ request = "originating" \/ session.index # {}
                   \/ history.crashed

\* A channel still alive is in the session, where cleanup will find it, or its
\* hang-up is under way, or the dial that made it has not returned; a failed
\* request or a restart excepted.
LiveChannelIsHeld ==
  \A x \in Chans :
    Live(x) => \/ x \in session.channels \cup drops
               \/ request = "originating" \/ pickup.step = "dialled"
               \/ history.faults > 0

\* A closed row belongs to a call that is over, or whose channels are being hung
\* up; a failed request or a restart excepted.
ClosedCallIsOver ==
  row \in Closing =>
    \A x \in Legs : chan[x] = "up" => x \in drops \/ history.faults > 0

\* The destination is on the line with nobody on this side only while the end of
\* the phone's channel is still to be handled or the destination is being hung up,
\* or because the call was cleaned up while the dial was under way.
DestinationIsNotAlone ==
  Live(Out) /\ (\A x \in Legs : ~Live(x)) =>
    \/ Out \in drops \/ (\E x \in Legs : <<"end", x>> \in {events[i] : i \in DOMAIN events})
    \/ pickup.step = "dialled" \/ history.lateDial \/ history.faults > 0

\* The phone that answered is cut off before the destination is reached only by an
\* end of the call, or because another phone of the extension fell: its session is
\* still found by the legs that lost (directCall.service.ts:250).
AnsweredLegIsCutForACause ==
  pickup.step \in {"dial", "dialled"} /\ chan[pickup.leg] = "gone"
    => history.ended \/ \E x \in Legs \ {pickup.leg} : ~Live(x)

\* Whatever an end leaves behind is accounted for: the bridge and the channels
\* still up have somebody who will release them, the row of a call closes only once
\* its phones are off the line or being hung up, and no phone is cut off early.
NothingIsLeftBehind ==
  /\ TypeOK /\ BridgeIsHeld /\ LiveChannelIsHeld
  /\ ClosedCallIsOver /\ AnsweredLegIsCutForACause

\* No direct call stays in progress and no session stays in the map, whatever was
\* lost: the sweeper finds what events and requests did not close.
CallIsForgotten ==
  row = "IN_PROGRESS" \/ session.index # {}
    ~> row # "IN_PROGRESS" /\ session.index = {}
=============================================================================
