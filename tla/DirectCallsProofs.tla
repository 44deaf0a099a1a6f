-------------------------- MODULE DirectCallsProofs --------------------------
(***************************************************************************)
(* Theorems about a direct call, for any number of phones of the extension *)
(* and any number of failures.                                             *)
(***************************************************************************)
EXTENDS DirectCalls, SequenceTheorems, TLAPS

-----------------------------------------------------------------------------
(* Types, and what the handlers do to each part of the state.              *)

ChanStates == {"none", "refused", "ringing", "up", "gone"}
Adapter == [group: [Chans -> Groups \cup {"none"}], remaining: [Groups -> SUBSET Chans],
            settled: [Groups -> BOOLEAN], answeredAt: SUBSET Chans]
Session == [channels: SUBSET Chans, all: SUBSET Chans, index: SUBSET Chans, first: Chans]
Pickup == [step: {"none", "bridge", "dial", "dialled", "over"}, leg: Chans]
History == [lateDial: BOOLEAN, crashed: BOOLEAN, faults: Nat, ended: BOOLEAN]
Event == {"up", "end"} \X Chans

LEMMA Types ==
  ASSUME TypeOK
  PROVE  /\ chan \in [Chans -> ChanStates] /\ events \in Seq(Event) /\ drops \subseteq Chans
         /\ adapter \in Adapter /\ session \in Session /\ pickup \in Pickup
         /\ history \in History
  BY DEF TypeOK, ChanStates, Adapter, Session, Pickup, History, Event

LEMMA TypesBack ==
  ASSUME request \in {"idle", "originating", "placed", "hungUp", "refused", "lost"},
         bridge \in {"none", "up", "gone"}, writes \subseteq Closing \cup {"create", "swept"},
         row \in Closing \cup {"NONE", "IN_PROGRESS"}, old \in BOOLEAN,
         chan \in [Chans -> ChanStates], events \in Seq(Event), drops \subseteq Chans,
         adapter \in Adapter, session \in Session, pickup \in Pickup, history \in History
  PROVE  TypeOK
  BY DEF TypeOK, ChanStates, Adapter, Session, Pickup, History, Event

-----------------------------------------------------------------------------
(* The inductive invariant.                                                *)

Queued(e) == \E i \in DOMAIN events : events[i] = e
Group(x) == adapter.group[x]
Settled(g) == adapter.settled[g]
Picking == pickup.step \in {"bridge", "dial", "dialled"}
Calling == request \in {"placed", "hungUp"}
Fresh == request \in {"idle", "originating"}
Closes == Closing \cup {"swept"}
Quiet == history.faults = 0

\* A restart, and nothing else, takes the ring groups and the pickup of a call away.
PhaseFits ==
  /\ Fresh => /\ session.index = {} /\ session.channels = {} /\ drops = {}
              /\ writes = {} /\ row = "NONE" /\ pickup.step = "none" /\ ~old
              /\ \A x \in Chans : Group(x) = "none"
              /\ ~Settled("extension")
  /\ request = "idle" => \A x \in Legs : chan[x] = "none"
  /\ request = "refused" => /\ session.index = {} /\ row = "NONE" /\ writes = {} /\ ~old
                            /\ \A x \in Chans : Group(x) = "none"
  /\ request = "lost" => ~Quiet /\ session.index = {} /\ \A x \in Chans : Group(x) = "none"
  /\ ~Quiet \/ ~history.crashed

\* The ring groups: who is in them, and what it takes to be there.
GroupsFit ==
  /\ \A x \in Chans :
       /\ Group(x) # "none" => Calling /\ x \in adapter.remaining[Group(x)] /\ ~Settled(Group(x))
       /\ Group(x) = "extension" => x \in Legs /\ x \in session.all
       /\ Group(x) = "destination" => x = Out /\ pickup.step = "over" /\ Settled("extension")
  /\ pickup.step # "none" => Calling /\ Settled("extension")
  /\ pickup.step \in {"none", "bridge", "dial", "dialled"} =>
       /\ session.all \subseteq Legs /\ session.index \in {{}, session.all}
       /\ ~Settled("destination")
  /\ session.index \subseteq session.all

\* The phone that answered.
LegFits ==
  /\ Picking => pickup.leg \in Legs /\ chan[pickup.leg] \in {"up", "gone"}
                /\ pickup.leg \in session.all
  /\ Calling => \A x \in Legs : chan[x] # "none"

\* The events of a phone come in the order of what happened to it.
EventFits(x, i) ==
  /\ events[i] = <<"end", x>> => chan[x] = "gone"
  /\ events[i] = <<"up", x>> => chan[x] \in {"up", "gone"}
  /\ Quiet /\ events[i] = <<"up", x>> /\ chan[x] = "gone"
       => \E j \in DOMAIN events : j > i /\ events[j] = <<"end", x>>

EventsFit == \A x \in Legs : \A i \in DOMAIN events : EventFits(x, i)

\* What excuses a phone that is cut off.
Cut(x) == history.ended \/ \E y \in Legs \ {x} : chan[y] \in {"refused", "gone"}

CutFits(x) ==
  /\ Group(x) = "extension" /\ x \in drops => Cut(x)
  /\ Group(x) = "extension" \/ request = "originating" =>
       (Queued(<<"up", x>>) /\ chan[x] = "gone" => Cut(x))

CutsFit ==
  /\ ~Settled("extension") => \A x \in Legs : CutFits(x)
  /\ Picking /\ (pickup.leg \in drops \/ chan[pickup.leg] = "gone") => Cut(pickup.leg)

\* A channel that is live is the session's, or is being hung up.
ChannelsFit ==
  /\ Quiet => \A x \in Legs : Live(x) => x \in session.channels \cup drops \/ request = "originating"
  /\ Quiet => (Live(Out) => Out \in session.channels \cup drops \/ pickup.step = "dialled")

\* Once a call is being closed, its phones have been given up.
ClosingFits ==
  Quiet /\ (row \in Closing \/ writes \cap Closes # {} \/ (Calling /\ session.first \notin session.index))
    => session.channels \cap Legs = {}

\* What keeps the destination from being left alone.
LegHolds == /\ pickup.leg \in session.index
            /\ chan[pickup.leg] = "up" \/ Queued(<<"end", pickup.leg>>)

OutFits ==
  Quiet =>
    /\ pickup.step \in {"none", "bridge", "dial"} => chan[Out] = "none"
    /\ Picking /\ session.index # {} => LegHolds
    /\ pickup.step = "over" => pickup.leg \in Legs
    /\ pickup.step = "over" /\ Live(Out) /\ ~history.lateDial =>
         Out \in drops \/ (Out \in session.channels /\ LegHolds)

-----------------------------------------------------------------------------
(* What each action does.                                                  *)

Inv == TypeOK /\ PhaseFits /\ GroupsFit /\ LegFits /\ EventsFit

\* A record whose fields are known is of its type.
LEMMA SessionParts ==
  ASSUME NEW s \in Session
  PROVE  /\ s.channels \subseteq Chans /\ s.all \subseteq Chans /\ s.index \subseteq Chans
         /\ s.first \in Chans
  BY DEF Session

\* A cleanup gives every channel of the session up and leaves nobody to find it.
LEMMA CleanupEffect ==
  ASSUME TypeOK, GroupsFit, NEW closing \in SUBSET (Closing \cup {"create", "swept"}), Cleanup(closing)
  PROVE  /\ drops' = drops \cup session.channels /\ drops' \subseteq Chans
         /\ session' \in Session
         /\ session'.channels = {} /\ session'.index = {}
         /\ session'.all = session.all /\ session'.first = session.first
         /\ bridge' # "up" /\ bridge' \in {"none", "up", "gone"}
         /\ writes' = writes \cup closing
         /\ writes' \subseteq Closing \cup {"create", "swept"}
  <1> DEFINE s == [[session EXCEPT !.channels = {}] EXCEPT !.index = session.index \ session.all]
  <1>1. session \in Session /\ drops \subseteq Chans
    BY Types
  <1>2. session' = s
    BY <1>1 DEF Cleanup, Session
  <1>3. s \in Session /\ s.channels = {} /\ s.index = session.index \ session.all
        /\ s.all = session.all /\ s.first = session.first
    BY <1>1 DEF Session
  <1> HIDE DEF s
  <1>4. s.index = {}
    BY <1>3 DEF GroupsFit
  <1>5. drops' = drops \cup session.channels /\ session.channels \subseteq Chans
    BY <1>1, SessionParts DEF Cleanup
  <1>6. bridge' # "up" /\ bridge' \in {"none", "up", "gone"}
        /\ writes' = writes \cup closing /\ writes' \subseteq Closing \cup {"create", "swept"}
    BY DEF Cleanup, TypeOK
  <1>7. QED
    BY <1>1, <1>2, <1>3, <1>4, <1>5, <1>6

\* The history of what failed and what ended.
LEMMA HistoryEffect ==
  ASSUME TypeOK
  PROVE  /\ LET h == [history EXCEPT !.faults = @ + 1]
            IN h \in History /\ h.faults > 0 /\ h.faults # 0 /\ h.ended = history.ended
               /\ h.lateDial = history.lateDial /\ h.crashed = history.crashed
         /\ LET h == [history EXCEPT !.ended = TRUE]
            IN h \in History /\ h.faults = history.faults /\ h.ended
               /\ h.lateDial = history.lateDial /\ h.crashed = history.crashed
         /\ \A b \in BOOLEAN : LET h == [history EXCEPT !.lateDial = b]
            IN h \in History /\ h.faults = history.faults /\ h.ended = history.ended
               /\ h.lateDial = b /\ h.crashed = history.crashed
         /\ history.faults \in Nat
  <1>1. history \in History
    BY Types
  <1>2. history.faults \in Nat
    BY <1>1 DEF History
  <1>3. history.faults + 1 \in Nat /\ history.faults + 1 > 0
    BY <1>2
  <1>4. LET h == [history EXCEPT !.faults = @ + 1]
        IN h \in History /\ h.faults > 0 /\ h.faults # 0 /\ h.ended = history.ended
           /\ h.lateDial = history.lateDial /\ h.crashed = history.crashed
    BY <1>1, <1>3 DEF History
  <1>5. LET h == [history EXCEPT !.ended = TRUE]
        IN h \in History /\ h.faults = history.faults /\ h.ended
           /\ h.lateDial = history.lateDial /\ h.crashed = history.crashed
    BY <1>1 DEF History
  <1>6. \A b \in BOOLEAN : LET h == [history EXCEPT !.lateDial = b]
        IN h \in History /\ h.faults = history.faults /\ h.ended = history.ended
           /\ h.lateDial = b /\ h.crashed = history.crashed
    BY <1>1 DEF History
  <1>7. QED
    BY <1>2, <1>4, <1>5, <1>6

\* What nobody forgets.
Remembers == /\ history' \in History
             /\ history.ended => history'.ended
             /\ history'.faults = 0 => history.faults = 0

WorldFrame == UNCHANGED <<request, bridge, adapter, session, pickup, writes, row, old>>

\* What an event of the phones, or a hang-up request, may do to the channels.
ChanMoves ==
  /\ chan' \in [Chans -> ChanStates]
  /\ drops' \subseteq drops
  /\ \A y \in Chans : /\ chan'[y] = chan[y] \/ (chan[y] = "ringing" /\ chan'[y] = "up")
                         \/ (chan[y] \in {"ringing", "up"} /\ chan'[y] = "gone")
                      /\ chan[y] = "up" /\ chan'[y] = "gone" => history'.ended \/ y \in drops
                      /\ y \in drops /\ y \notin drops' /\ history'.faults = 0
                           => chan'[y] \notin {"ringing", "up"}

\* The events that a channel's change adds.
EventsMove ==
  /\ events' \in Seq(Event)
  /\ \/ /\ events' = events
        /\ \A y \in Chans : chan'[y] = chan[y]
     \/ /\ events # <<>> /\ events' = Tail(events) /\ history'.faults # 0
        /\ \A y \in Chans : chan'[y] = chan[y]
     \/ \E x \in Chans :
          /\ events' = Append(events, <<"up", x>>) /\ chan[x] = "ringing" /\ chan'[x] = "up"
          /\ \A y \in Chans : y # x => chan'[y] = chan[y]
     \/ \E x \in Chans :
          /\ chan[x] = "ringing" /\ chan'[x] = "gone"
          /\ events' = Append(events, <<"end", x>>)
          /\ \A y \in Chans : y # x => chan'[y] = chan[y]
     \/ \E x \in Chans :
          /\ chan[x] = "up" /\ chan'[x] = "gone"
          /\ events' = Append(Append(events, <<"end", x>>), <<"end", x>>)
          /\ \A y \in Chans : y # x => chan'[y] = chan[y]

WorldStep == LoseEvent \/ \E x \in Chans : Asterisk(x)

LEMMA DownEffect ==
  ASSUME TypeOK, NEW x \in Chans, chan[x] \in {"ringing", "up"}, Down(x)
  PROVE  /\ chan' \in [Chans -> ChanStates] /\ chan'[x] = "gone"
         /\ \A y \in Chans : y # x => chan'[y] = chan[y]
         /\ events' \in Seq(Event)
         /\ chan[x] = "ringing" => events' = Append(events, <<"end", x>>)
         /\ chan[x] = "up" => events' = Append(Append(events, <<"end", x>>), <<"end", x>>)
  <1> DEFINE e == <<"end", x>>
  <1>1. chan \in [Chans -> ChanStates] /\ events \in Seq(Event) /\ e \in Event
    BY Types DEF Event
  <1>2. chan' = [chan EXCEPT ![x] = "gone"]
        /\ events' = events \o (IF chan[x] = "up" THEN <<e, e>> ELSE <<e>>)
    BY DEF Down
  <1> HIDE DEF e
  <1>3. events \o <<e>> = Append(events, e) /\ Append(events, e) \in Seq(Event)
    BY <1>1
  <1>4. events \o <<e, e>> = Append(Append(events, e), e)
        /\ Append(Append(events, e), e) \in Seq(Event)
    BY <1>1
  <1>5. QED
    BY <1>1, <1>2, <1>3, <1>4 DEF e, ChanStates

LEMMA WorldEffect ==
  ASSUME TypeOK, WorldStep
  PROVE  /\ WorldFrame /\ Remembers /\ ChanMoves /\ EventsMove
         /\ history'.lateDial = history.lateDial /\ history'.crashed = history.crashed
  <1>0. /\ chan \in [Chans -> ChanStates] /\ events \in Seq(Event) /\ drops \subseteq Chans
        /\ history \in History /\ history.faults \in Nat
    BY Types DEF History
  <1>1. ASSUME NEW x \in Chans, Answers(x)
        PROVE  /\ WorldFrame /\ Remembers /\ ChanMoves /\ EventsMove
               /\ history'.lateDial = history.lateDial /\ history'.crashed = history.crashed
    <2>1. <<"up", x>> \in Event
      BY DEF Event
    <2>2. Append(events, <<"up", x>>) \in Seq(Event)
      BY <1>0, <2>1, AppendProperties
    <2>3. /\ WorldFrame /\ drops' = drops /\ history' = history /\ chan[x] = "ringing"
          /\ chan' = [chan EXCEPT ![x] = "up"] /\ events' = Append(events, <<"up", x>>)
      BY <1>1 DEF Answers, World, WorldFrame
    <2>4. chan' \in [Chans -> ChanStates] /\ chan'[x] = "up"
          /\ \A y \in Chans : y # x => chan'[y] = chan[y]
      BY <1>0, <2>3 DEF ChanStates
    <2>5. ChanMoves
      BY <2>3, <2>4 DEF ChanMoves
    <2>6. EventsMove
      BY <2>2, <2>3, <2>4 DEF EventsMove
    <2>7. QED
      BY <1>0, <2>3, <2>5, <2>6 DEF Remembers
  <1>2. ASSUME NEW x \in Chans, RingsOut(x) \/ PartyHangsUp(x)
        PROVE  /\ WorldFrame /\ Remembers /\ ChanMoves /\ EventsMove
               /\ history'.lateDial = history.lateDial /\ history'.crashed = history.crashed
    <2>1. /\ chan[x] \in {"ringing", "up"} /\ Down(x) /\ drops' = drops /\ WorldFrame
          /\ history' = history \/ history' = [history EXCEPT !.ended = TRUE]
          /\ chan[x] = "up" => history' = [history EXCEPT !.ended = TRUE]
      BY <1>2 DEF RingsOut, PartyHangsUp, World, WorldFrame
    <2>2. /\ Remembers /\ history'.lateDial = history.lateDial
          /\ history'.crashed = history.crashed
          /\ chan[x] = "up" => history'.ended
      BY <1>0, <2>1, HistoryEffect DEF Remembers
    <2>3. ChanMoves
      BY <2>1, <2>2, DownEffect DEF ChanMoves
    <2>4. EventsMove
      BY <2>1, DownEffect DEF EventsMove
    <2>5. QED
      BY <2>1, <2>2, <2>3, <2>4
  <1>3. ASSUME NEW x \in Chans, HangupArrives(x)
        PROVE  /\ WorldFrame /\ Remembers /\ ChanMoves /\ EventsMove
               /\ history'.lateDial = history.lateDial /\ history'.crashed = history.crashed
    <2>1. /\ x \in drops /\ drops' = drops \ {x} /\ history' = history /\ WorldFrame
          /\ IF Live(x) THEN Down(x) ELSE chan' = chan /\ events' = events
      BY <1>3 DEF HangupArrives, World, WorldFrame
    <2>2. CASE Live(x)
      <3>1. chan[x] \in {"ringing", "up"} /\ Down(x)
        BY <2>1, <2>2 DEF Live
      <3>2. ChanMoves
        BY <2>1, <3>1, DownEffect DEF ChanMoves
      <3>3. EventsMove
        BY <3>1, DownEffect DEF EventsMove
      <3>4. QED
        BY <1>0, <2>1, <3>2, <3>3 DEF Remembers
    <2>3. CASE ~Live(x)
      BY <1>0, <2>1, <2>3 DEF Live, ChanMoves, EventsMove, Remembers
    <2>4. QED
      BY <2>2, <2>3
  <1>4. ASSUME NEW x \in Chans, HangupFails(x)
        PROVE  /\ WorldFrame /\ Remembers /\ ChanMoves /\ EventsMove
               /\ history'.lateDial = history.lateDial /\ history'.crashed = history.crashed
    <2>1. /\ drops' \subseteq drops /\ history' = [history EXCEPT !.faults = @ + 1] /\ WorldFrame
          /\ chan' = chan /\ events' = events
      BY <1>4 DEF HangupFails, World, WorldFrame
    <2>2. /\ Remembers /\ history'.lateDial = history.lateDial /\ history'.faults # 0
          /\ history'.crashed = history.crashed
      BY <2>1, HistoryEffect DEF Remembers
    <2>3. QED
      BY <1>0, <2>1, <2>2 DEF ChanMoves, EventsMove
  <1>5. ASSUME LoseEvent
        PROVE  /\ WorldFrame /\ Remembers /\ ChanMoves /\ EventsMove
               /\ history'.lateDial = history.lateDial /\ history'.crashed = history.crashed
    <2>1. /\ drops' = drops /\ history' = [history EXCEPT !.faults = @ + 1] /\ WorldFrame
          /\ chan' = chan /\ events # <<>> /\ events' = Tail(events)
      BY <1>5 DEF LoseEvent, World, WorldFrame
    <2>2. /\ Remembers /\ history'.lateDial = history.lateDial /\ history'.faults # 0
          /\ history'.crashed = history.crashed
      BY <2>1, HistoryEffect DEF Remembers
    <2>3. events' \in Seq(Event)
      BY <1>0, <2>1
    <2>4. QED
      BY <1>0, <2>1, <2>2, <2>3 DEF ChanMoves, EventsMove
  <1>6. QED
    BY <1>1, <1>2, <1>3, <1>4, <1>5 DEF WorldStep, Asterisk

LEMMA AdapterParts ==
  ASSUME TypeOK
  PROVE  /\ adapter.group \in [Chans -> Groups \cup {"none"}]
         /\ adapter.remaining \in [Groups -> SUBSET Chans]
         /\ adapter.settled \in [Groups -> BOOLEAN]
         /\ adapter.answeredAt \in SUBSET Chans
  BY Types DEF Adapter

\* Of the ring groups an event only takes channels away, and a group is settled by
\* what happens to one of its own.
GroupsKept ==
  /\ adapter' \in Adapter
  /\ \A y \in Chans : Group(y)' \in {"none", Group(y)}
  /\ \A y \in Chans : Group(y)' # "none" => y \in adapter'.remaining[Group(y)]
                                           /\ ~adapter'.settled[Group(y)]
  /\ \A g \in Groups : /\ Settled(g) => adapter'.settled[g]
                       /\ adapter'.settled[g] => Settled(g) \/ \E x \in Chans : Group(x) = g

\* The first answer of a ring group settles it and dissolves it.
LEMMA SettleEffect ==
  ASSUME Inv, NEW x \in Chans, NEW g \in Groups, Group(x) = g, ~Settled(g),
         adapter' = [adapter EXCEPT
                !.settled[g] = TRUE,
                !.group = [y \in Chans |-> IF y \in adapter.remaining[g] THEN "none" ELSE @[y]]]
  PROVE  /\ GroupsKept /\ adapter'.settled[g]
         /\ \A h \in Groups : h # g => adapter'.settled[h] = Settled(h)
         /\ \A y \in Chans : adapter'.group[y] # g
  <1> DEFINE s == [adapter.settled EXCEPT ![g] = TRUE]
             m == [y \in Chans |-> IF y \in adapter.remaining[g] THEN "none" ELSE adapter.group[y]]
             a == [[adapter EXCEPT !.settled = s] EXCEPT !.group = m]
  <1>1. /\ adapter \in Adapter /\ adapter.group \in [Chans -> Groups \cup {"none"}]
        /\ adapter.remaining \in [Groups -> SUBSET Chans] /\ adapter.settled \in [Groups -> BOOLEAN]
    BY AdapterParts, Types DEF Inv
  <1>2. s \in [Groups -> BOOLEAN] /\ s[g] /\ \A h \in Groups : h # g => s[h] = adapter.settled[h]
    BY <1>1
  <1>3. m \in [Chans -> Groups \cup {"none"}]
        /\ \A y \in Chans : m[y] = IF y \in adapter.remaining[g] THEN "none" ELSE adapter.group[y]
    BY <1>1
  <1>4. adapter' = a
    BY <1>1 DEF Adapter
  <1> HIDE DEF s, m
  <1>5. a \in Adapter /\ a.settled = s /\ a.group = m /\ a.remaining = adapter.remaining
    BY <1>1, <1>2, <1>3 DEF Adapter
  <1> HIDE DEF a
  <1>6. \A y \in Chans : adapter.group[y] # "none" =>
          y \in adapter.remaining[adapter.group[y]] /\ ~adapter.settled[adapter.group[y]]
    BY DEF Inv, GroupsFit, Group, Settled
  <1>7. \A y \in Chans : m[y] # "none" => m[y] = adapter.group[y] /\ m[y] # g /\ m[y] \in Groups
    BY <1>1, <1>3, <1>6
  <1>8. \A y \in Chans : m[y] # g
    BY <1>7 DEF Groups
  <1>9. \A y \in Chans : m[y] # "none" => y \in adapter.remaining[m[y]] /\ ~s[m[y]]
    BY <1>2, <1>6, <1>7
  <1>10. \A y \in Chans : m[y] \in {"none", adapter.group[y]}
    BY <1>3
  <1>11. \A h \in Groups : /\ adapter.settled[h] => s[h]
                           /\ s[h] => adapter.settled[h] \/ \E z \in Chans : adapter.group[z] = h
    BY <1>2 DEF Group
  <1>12. /\ adapter' \in Adapter /\ adapter'.settled = s /\ adapter'.group = m
         /\ adapter'.remaining = adapter.remaining
    BY <1>4, <1>5
  <1>13. GroupsKept
    <2>1. \A y \in Chans : m[y] # "none" => m[y] = adapter.group[y]
      BY <1>7
    <2>2. QED
      BY <1>9, <1>10, <1>11, <1>12, <2>1 DEF GroupsKept, Group, Settled
  <1>14. QED
    BY <1>2, <1>8, <1>12, <1>13 DEF Settled

\* A leg that falls leaves its group, and loses it if it was the last.
LEMMA FallEffect ==
  ASSUME Inv, NEW x \in Chans, NEW g \in Groups, Group(x) = g, NEW lost \in BOOLEAN,
         lost = (adapter.remaining[g] \ {x} = {} /\ ~adapter.settled[g]),
         adapter' = [adapter EXCEPT !.group[x] = "none", !.remaining[g] = adapter.remaining[g] \ {x},
                                    !.settled[g] = @ \/ lost]
  PROVE  /\ GroupsKept
         /\ \A h \in Groups : adapter'.settled[h] = (Settled(h) \/ (h = g /\ lost))
  <1> DEFINE m == [adapter.group EXCEPT ![x] = "none"]
             r == [adapter.remaining EXCEPT ![g] = adapter.remaining[g] \ {x}]
             s == [adapter.settled EXCEPT ![g] = adapter.settled[g] \/ lost]
             a == [[[adapter EXCEPT !.group = m] EXCEPT !.remaining = r] EXCEPT !.settled = s]
  <1>1. /\ adapter \in Adapter /\ adapter.group \in [Chans -> Groups \cup {"none"}]
        /\ adapter.remaining \in [Groups -> SUBSET Chans] /\ adapter.settled \in [Groups -> BOOLEAN]
    BY AdapterParts, Types DEF Inv
  <1>2. s \in [Groups -> BOOLEAN]
        /\ \A h \in Groups : s[h] = (adapter.settled[h] \/ (h = g /\ lost))
    BY <1>1
  <1>3. m \in [Chans -> Groups \cup {"none"}] /\ m[x] = "none"
        /\ \A y \in Chans : y # x => m[y] = adapter.group[y]
    BY <1>1
  <1>4. r \in [Groups -> SUBSET Chans] /\ r[g] = adapter.remaining[g] \ {x}
        /\ \A h \in Groups : h # g => r[h] = adapter.remaining[h]
    BY <1>1
  <1>5. adapter' = a
    BY <1>1 DEF Adapter
  <1> HIDE DEF s, m, r
  <1>6. a \in Adapter /\ a.settled = s /\ a.group = m /\ a.remaining = r
    BY <1>1, <1>2, <1>3, <1>4 DEF Adapter
  <1> HIDE DEF a
  <1>7. \A y \in Chans : adapter.group[y] # "none" =>
          y \in adapter.remaining[adapter.group[y]] /\ ~adapter.settled[adapter.group[y]]
    BY DEF Inv, GroupsFit, Group, Settled
  <1>8. \A y \in Chans : m[y] # "none" => y # x /\ m[y] = adapter.group[y] /\ m[y] \in Groups
    BY <1>1, <1>3
  <1>9. ASSUME NEW y \in Chans, m[y] # "none" PROVE y \in r[m[y]] /\ ~s[m[y]]
    <2>1. y # x /\ m[y] \in Groups /\ y \in adapter.remaining[m[y]] /\ ~adapter.settled[m[y]]
      BY <1>7, <1>8, <1>9
    <2>2. y \in r[m[y]]
      BY <1>4, <2>1
    <2>3. m[y] = g => ~lost
      BY <2>1
    <2>4. QED
      BY <1>2, <2>1, <2>2, <2>3
  <1>10. \A y \in Chans : m[y] \in {"none", adapter.group[y]}
    BY <1>3
  <1>11. \A h \in Groups : /\ adapter.settled[h] => s[h]
                           /\ s[h] => adapter.settled[h] \/ \E z \in Chans : adapter.group[z] = h
    BY <1>2 DEF Group
  <1>12. adapter' \in Adapter /\ adapter'.settled = s /\ adapter'.group = m /\ adapter'.remaining = r
    BY <1>5, <1>6
  <1>13. GroupsKept
    <2>1. \A y \in Chans : m[y] # "none" => m[y] = adapter.group[y]
      BY <1>8
    <2>2. QED
      BY <1>9, <1>10, <1>11, <1>12, <2>1 DEF GroupsKept, Group, Settled
  <1>14. QED
    BY <1>2, <1>12, <1>13 DEF Settled

\* An answer instant is nobody's group.
LEMMA InstantEffect ==
  ASSUME Inv, NEW S \in SUBSET Chans, adapter' = [adapter EXCEPT !.answeredAt = S]
  PROVE  GroupsKept /\ \A h \in Groups : adapter'.settled[h] = Settled(h)
  <1>1. adapter \in Adapter
    BY Types DEF Inv
  <1>2. adapter' \in Adapter /\ adapter'.settled = adapter.settled
        /\ adapter'.group = adapter.group /\ adapter'.remaining = adapter.remaining
    BY <1>1 DEF Adapter
  <1>3. QED
    BY <1>2 DEF GroupsKept, Group, Settled, Inv, GroupsFit

\* The phone that answers first: the others are given up.
AnswerStep(x) ==
  /\ Head(events) = <<"up", x>> /\ Group(x) = "extension" /\ ~Settled("extension")
  /\ adapter'.settled["extension"] /\ \A y \in Chans : adapter'.group[y] # "extension"
  /\ drops' = drops \cup (session.all \ {x, Out}) /\ drops' \subseteq Chans
  /\ session' \in Session /\ session'.channels = session.channels \ (session.all \ {x, Out})
  /\ session'.all = session.all /\ session'.index = session.index /\ session'.first = session.first
  /\ pickup' \in Pickup /\ pickup'.step = "bridge" /\ pickup'.leg = x
  /\ UNCHANGED <<bridge, writes>>

\* An event that ends nothing: its channel is in a group, or no session has it.
IdleEvent(x) ==
  /\ UNCHANGED <<drops, session, bridge, writes, pickup>>
  /\ adapter'.settled["extension"] = Settled("extension")
  /\ Head(events) \in {<<"up", x>>, <<"end", x>>}
  /\ Head(events) = <<"end", x>> => Group(x) # "none" \/ x \notin session.index

\* The end of a channel, or of the last of its group, that ends the call.
EndEvent(x) ==
  /\ \E w \in Closing : Cleanup({w})
  /\ UNCHANGED pickup
  /\ Head(events) = <<"end", x>>
  /\ \/ Group(x) = "none" /\ x \in session.index
     \/ Group(x) = "destination" \/ (Group(x) = "extension" /\ adapter'.settled["extension"])

EventFrame == UNCHANGED <<request, chan, row, old, history>>

LEMMA AnswersEffect ==
  ASSUME Inv, NEW x \in Chans, ExtensionAnswers(x)
  PROVE  /\ drops' = drops \cup (session.all \ {x, Out}) /\ drops' \subseteq Chans
         /\ session' \in Session /\ session'.channels = session.channels \ (session.all \ {x, Out})
         /\ session'.all = session.all /\ session'.index = session.index
         /\ session'.first = session.first
         /\ pickup' \in Pickup /\ pickup'.step = "bridge" /\ pickup'.leg = x
         /\ UNCHANGED <<bridge, writes>>
  <1> DEFINE losers == session.all \ {x, Out}
             s == [session EXCEPT !.channels = session.channels \ losers]
  <1>1. session \in Session /\ drops \subseteq Chans /\ session.all \subseteq Chans
        /\ session.channels \subseteq Chans
    BY Types, SessionParts DEF Inv
  <1>2. /\ drops' = drops \cup losers /\ pickup' = [step |-> "bridge", leg |-> x]
        /\ UNCHANGED <<bridge, writes>> /\ session' = s
    BY <1>1 DEF ExtensionAnswers, Session
  <1>3. losers \subseteq Chans
    BY <1>1
  <1> HIDE DEF losers
  <1>4. s \in Session /\ s.channels = session.channels \ losers /\ s.all = session.all
        /\ s.index = session.index /\ s.first = session.first
    BY <1>1 DEF Session
  <1>5. pickup' \in Pickup /\ pickup'.step = "bridge" /\ pickup'.leg = x
    BY <1>2 DEF Pickup
  <1>6. QED
    BY <1>1, <1>2, <1>3, <1>4, <1>5 DEF losers

LEMMA HandleUpEffect ==
  ASSUME Inv, NEW x \in Chans, Head(events) = <<"up", x>>, HandleUp(x)
  PROVE  GroupsKept /\ (AnswerStep(x) \/ IdleEvent(x))
  <1> DEFINE g == adapter.group[x]
  <1>1. g \in Groups \cup {"none"} /\ Head(events) # <<"end", x>>
    BY AdapterParts DEF Inv
  <1>2. CASE g # "none" /\ ~adapter.settled[g]
    <2>1. g \in Groups /\ Group(x) = g /\ ~Settled(g)
      BY <1>1, <1>2 DEF Group, Settled
    <2>2. adapter' = [adapter EXCEPT
                !.settled[g] = TRUE,
                !.group = [y \in Chans |-> IF y \in adapter.remaining[g] THEN "none" ELSE @[y]]]
      BY <1>2 DEF HandleUp
    <2>3. IF g = "extension" THEN ExtensionAnswers(x) ELSE DestinationAnswers
      BY <1>2 DEF HandleUp
    <2>4. /\ GroupsKept /\ adapter'.settled[g]
          /\ \A h \in Groups : h # g => adapter'.settled[h] = Settled(h)
          /\ \A y \in Chans : adapter'.group[y] # g
      BY <2>1, <2>2, SettleEffect
    <2>5. CASE g = "extension"
      BY <2>1, <2>3, <2>4, <2>5, AnswersEffect DEF AnswerStep
    <2>6. CASE g # "extension"
      <3>1. adapter'.settled["extension"] = Settled("extension")
        BY <2>4, <2>6 DEF Groups
      <3>2. QED
        BY <1>1, <2>3, <2>4, <2>6, <3>1 DEF DestinationAnswers, Nothing, IdleEvent
    <2>7. QED
      BY <2>5, <2>6
  <1>3. CASE ~(g # "none" /\ ~adapter.settled[g])
    <2>1. adapter' = [adapter EXCEPT !.answeredAt = adapter.answeredAt \cup {x}]
          /\ Nothing /\ UNCHANGED pickup
      BY <1>3 DEF HandleUp
    <2>2. adapter.answeredAt \cup {x} \in SUBSET Chans
      BY AdapterParts DEF Inv
    <2>3. GroupsKept /\ \A h \in Groups : adapter'.settled[h] = Settled(h)
      BY <2>1, <2>2, InstantEffect
    <2>4. QED
      BY <1>1, <2>1, <2>3 DEF Nothing, IdleEvent, Groups
  <1>4. QED
    BY <1>2, <1>3

LEMMA HandleEndEffect ==
  ASSUME Inv, NEW x \in Chans, Head(events) = <<"end", x>>, HandleEnd(x)
  PROVE  GroupsKept /\ (IdleEvent(x) \/ EndEvent(x))
  <1> DEFINE g == adapter.group[x]
  <1>1. g \in Groups \cup {"none"} /\ Group(x) = g /\ UNCHANGED pickup
    BY AdapterParts DEF Inv, Group, HandleEnd
  <1>2. CASE g # "none"
    <2> DEFINE lost == adapter.remaining[g] \ {x} = {} /\ ~adapter.settled[g]
    <2>1. g \in Groups
      BY <1>1, <1>2
    <2>2. /\ adapter' = [adapter EXCEPT !.group[x] = "none",
                                        !.remaining[g] = adapter.remaining[g] \ {x},
                                        !.settled[g] = @ \/ lost]
          /\ IF lost THEN Cleanup({"NO_ANSWER"}) ELSE Nothing
      BY <1>2 DEF HandleEnd, LegFalls
    <2>3. lost \in BOOLEAN /\ lost = (adapter.remaining[g] \ {x} = {} /\ ~adapter.settled[g])
      OBVIOUS
    <2> HIDE DEF lost
    <2>4. GroupsKept /\ \A h \in Groups : adapter'.settled[h] = (Settled(h) \/ (h = g /\ lost))
      BY <1>1, <2>1, <2>2, <2>3, FallEffect
    <2>5. CASE lost
      <3>1. g = "extension" => adapter'.settled["extension"]
        BY <2>1, <2>4, <2>5
      <3>2. Cleanup({"NO_ANSWER"}) /\ "NO_ANSWER" \in Closing
        BY <2>2, <2>5 DEF Closing
      <3>3. QED
        BY <1>1, <2>1, <2>4, <3>1, <3>2 DEF EndEvent, Groups
    <2>6. CASE ~lost
      <3>1. adapter'.settled["extension"] = Settled("extension")
        <4>1. "extension" \in Groups /\ Settled("extension") \in BOOLEAN
          BY AdapterParts DEF Inv, Groups, Settled
        <4>2. adapter'.settled["extension"] = (Settled("extension") \/ ("extension" = g /\ lost))
          BY <2>4, <4>1
        <4>3. QED
          BY <2>6, <4>1, <4>2
      <3>2. Nothing
        BY <2>2, <2>6
      <3>3. QED
        BY <1>1, <1>2, <2>4, <3>1, <3>2 DEF IdleEvent, Nothing
    <2>7. QED
      BY <2>5, <2>6
  <1>3. CASE g = "none"
    <2>1. adapter' = [adapter EXCEPT !.answeredAt = adapter.answeredAt \ {x}] /\ RemoteEnd(x)
      BY <1>3 DEF HandleEnd
    <2>2. adapter.answeredAt \ {x} \in SUBSET Chans
      BY AdapterParts DEF Inv
    <2>3. GroupsKept /\ \A h \in Groups : adapter'.settled[h] = Settled(h)
      BY <2>1, <2>2, InstantEffect
    <2>4. CASE x \in session.index
      <3>1. PICK w \in Closing : Cleanup({w})
        <4>1. Cleanup({IF x \in adapter.answeredAt THEN "COMPLETED" ELSE "NO_ANSWER"})
          BY <2>1, <2>4 DEF RemoteEnd
        <4>2. QED
          BY <4>1 DEF Closing
      <3>2. QED
        BY <1>1, <1>3, <2>3, <2>4, <3>1 DEF EndEvent
    <2>5. CASE x \notin session.index
      <3>1. Nothing
        BY <2>1, <2>5 DEF RemoteEnd
      <3>2. QED
        BY <1>1, <2>3, <2>5, <3>1 DEF IdleEvent, Nothing, Groups
    <2>6. QED
      BY <2>4, <2>5
  <1>4. QED
    BY <1>2, <1>3

LEMMA EventEffect ==
  ASSUME Inv, HandleEvent
  PROVE  /\ EventFrame /\ GroupsKept
         /\ events # <<>> /\ events' = Tail(events) /\ events' \in Seq(Event)
         /\ \E x \in Chans : AnswerStep(x) \/ IdleEvent(x) \/ EndEvent(x)
  <1> DEFINE e == Head(events)
  <1>1. events \in Seq(Event) /\ events # <<>> /\ events' = Tail(events) /\ EventFrame
    BY Types DEF Inv, HandleEvent, EventFrame
  <1>2. e \in Event /\ Tail(events) \in Seq(Event)
    BY <1>1
  <1>3. IF e[1] = "up" THEN HandleUp(e[2]) ELSE HandleEnd(e[2])
    BY DEF HandleEvent
  <1> HIDE DEF e
  <1>4. PICK x \in Chans : e = <<"up", x>> \/ e = <<"end", x>>
    BY <1>2 DEF Event
  <1>5. CASE e = <<"up", x>>
    <2>1. e[1] = "up" /\ e[2] = x
      BY <1>5
    <2>2. HandleUp(x)
      BY <1>3, <2>1
    <2>3. GroupsKept /\ (AnswerStep(x) \/ IdleEvent(x))
      BY <1>5, <2>2, HandleUpEffect DEF e
    <2>4. QED
      BY <1>1, <1>2, <2>3
  <1>6. CASE e = <<"end", x>>
    <2>1. e[1] = "end" /\ e[2] = x
      BY <1>6
    <2>2. HandleEnd(x)
      BY <1>3, <2>1
    <2>3. GroupsKept /\ (IdleEvent(x) \/ EndEvent(x))
      BY <1>6, <2>2, HandleEndEffect DEF e
    <2>4. QED
      BY <1>1, <1>2, <2>3
  <1>7. QED
    BY <1>4, <1>5, <1>6

\* A call is being dialled, whoever is still there to want it.
LEMMA PickupEffect ==
  ASSUME TypeOK, NEW step \in {"dial", "dialled", "over", "none"}, pickup' = [pickup EXCEPT !.step = step]
  PROVE  pickup' \in Pickup /\ pickup'.step = step /\ pickup'.leg = pickup.leg
  BY Types DEF Pickup

PickedFrame == UNCHANGED <<request, events, row, old>>

\* The phone joins the bridge, or the call is given up.
JoinedStep ==
  /\ pickup.step = "bridge"
  /\ UNCHANGED <<chan, adapter>>
  /\ pickup' \in Pickup /\ pickup'.leg = pickup.leg
  /\ \/ /\ pickup'.step = "dial" /\ chan[pickup.leg] = "up"
        /\ Nothing /\ UNCHANGED history
     \/ pickup'.step = "over" /\ Cleanup({"COMPLETED"})

LEMMA JoinEffect ==
  ASSUME TypeOK, JoinBridge
  PROVE  JoinedStep /\ PickedFrame /\ Remembers /\ history'.crashed = history.crashed
         /\ history'.lateDial = history.lateDial
  <1>1. history \in History
    BY Types
  <1>2. history' = history \/ history' = [history EXCEPT !.faults = @ + 1]
    BY DEF JoinBridge
  <1>3. Remembers /\ history'.crashed = history.crashed /\ history'.lateDial = history.lateDial
    BY <1>1, <1>2, HistoryEffect DEF Remembers
  <1>4. PickedFrame /\ UNCHANGED <<chan, adapter>> /\ pickup.step = "bridge"
    BY DEF JoinBridge, Picked, PickedFrame
  <1>5. \/ chan[pickup.leg] = "up" /\ pickup' = [pickup EXCEPT !.step = "dial"]
           /\ Nothing /\ UNCHANGED history
        \/ pickup' = [pickup EXCEPT !.step = "over"] /\ Cleanup({"COMPLETED"})
    BY DEF JoinBridge
  <1>6. QED
    BY <1>3, <1>4, <1>5, PickupEffect DEF JoinedStep

DialledStep ==
  /\ pickup.step = "dial"
  /\ UNCHANGED adapter
  /\ pickup' \in Pickup /\ pickup'.leg = pickup.leg
  /\ \/ /\ pickup'.step = "dialled" /\ chan' = [chan EXCEPT ![Out] = "ringing"]
        /\ Nothing /\ UNCHANGED history
     \/ pickup'.step = "over" /\ Cleanup({"COMPLETED"}) /\ UNCHANGED chan

LEMMA DialEffect ==
  ASSUME TypeOK, Dial
  PROVE  DialledStep /\ PickedFrame /\ Remembers /\ history'.crashed = history.crashed
         /\ history'.lateDial = history.lateDial
  <1>1. history \in History
    BY Types
  <1>2. history' = history \/ history' = [history EXCEPT !.ended = TRUE]
    BY DEF Dial
  <1>3. Remembers /\ history'.crashed = history.crashed /\ history'.lateDial = history.lateDial
    BY <1>1, <1>2, HistoryEffect DEF Remembers
  <1>4. PickedFrame /\ UNCHANGED adapter /\ pickup.step = "dial"
    BY DEF Dial, Picked, PickedFrame
  <1>5. \/ chan' = [chan EXCEPT ![Out] = "ringing"] /\ pickup' = [pickup EXCEPT !.step = "dialled"]
           /\ Nothing /\ UNCHANGED history
        \/ pickup' = [pickup EXCEPT !.step = "over"] /\ Cleanup({"COMPLETED"}) /\ UNCHANGED chan
    BY DEF Dial
  <1>6. QED
    BY <1>3, <1>4, <1>5, PickupEffect DEF DialledStep

\* Ids become a ring group.
LEMMA RingGroupEffect ==
  ASSUME TypeOK, NEW g \in Groups, NEW ids \in SUBSET Chans, RegisterRingGroup(g, ids)
  PROVE  /\ adapter' \in Adapter /\ adapter'.settled = adapter.settled
         /\ \A y \in Chans : adapter'.group[y] = IF y \in ids THEN g ELSE adapter.group[y]
         /\ \A h \in Groups : adapter'.remaining[h] = IF h = g THEN ids ELSE adapter.remaining[h]
  <1> DEFINE m == [y \in Chans |-> IF y \in ids THEN g ELSE adapter.group[y]]
             r == [adapter.remaining EXCEPT ![g] = ids]
             a == [[adapter EXCEPT !.group = m] EXCEPT !.remaining = r]
  <1>1. /\ adapter \in Adapter /\ adapter.group \in [Chans -> Groups \cup {"none"}]
        /\ adapter.remaining \in [Groups -> SUBSET Chans]
    BY AdapterParts, Types
  <1>2. adapter' = a
    BY <1>1 DEF RegisterRingGroup, Adapter
  <1>3. m \in [Chans -> Groups \cup {"none"}]
        /\ \A y \in Chans : m[y] = IF y \in ids THEN g ELSE adapter.group[y]
    BY <1>1
  <1>4. r \in [Groups -> SUBSET Chans]
        /\ \A h \in Groups : r[h] = IF h = g THEN ids ELSE adapter.remaining[h]
    BY <1>1
  <1> HIDE DEF m, r
  <1>5. a \in Adapter /\ a.settled = adapter.settled /\ a.group = m /\ a.remaining = r
    BY <1>1, <1>3, <1>4 DEF Adapter
  <1>6. QED
    BY <1>2, <1>3, <1>4, <1>5

\* The dial returns: the session and a ring group take the destination.
ReturnedStep ==
  /\ pickup.step = "dialled" /\ UNCHANGED <<chan, bridge, drops, writes>>
  /\ pickup' \in Pickup /\ pickup'.leg = pickup.leg /\ pickup'.step = "over"
  /\ session' \in Session /\ session'.channels = session.channels \cup {Out}
  /\ session'.all = session.all \cup {Out} /\ session'.index = session.index \cup {Out}
  /\ session'.first = session.first
  /\ history'.lateDial = (session.index = {})
  /\ history'.faults = history.faults /\ history'.ended = history.ended

LEMMA ReturnsEffect ==
  ASSUME TypeOK, DialReturns
  PROVE  ReturnedStep /\ PickedFrame /\ Remembers /\ RegisterRingGroup("destination", {Out})
         /\ history'.crashed = history.crashed
  <1> DEFINE s == [[[session EXCEPT !.channels = session.channels \cup {Out}]
                      EXCEPT !.all = session.all \cup {Out}] EXCEPT !.index = session.index \cup {Out}]
  <1>1. session \in Session /\ Out \in Chans /\ session.channels \subseteq Chans
        /\ session.all \subseteq Chans /\ session.index \subseteq Chans
    BY Types, SessionParts DEF Chans
  <1>2. session' = s
    BY <1>1 DEF DialReturns, Session
  <1>3. /\ s \in Session /\ s.channels = session.channels \cup {Out}
        /\ s.all = session.all \cup {Out} /\ s.index = session.index \cup {Out}
        /\ s.first = session.first
    BY <1>1 DEF Session
  <1> HIDE DEF s
  <1>4. history' \in History /\ history'.faults = history.faults /\ history'.ended = history.ended
        /\ history'.lateDial = (session.index = {}) /\ history'.crashed = history.crashed
    <2>1. (session.index = {}) \in BOOLEAN /\ history' = [history EXCEPT !.lateDial = (session.index = {})]
      BY DEF DialReturns
    <2>2. QED
      BY <2>1, HistoryEffect
  <1>5. pickup.step = "dialled" /\ UNCHANGED <<chan, bridge, drops, writes>> /\ PickedFrame
        /\ pickup' = [pickup EXCEPT !.step = "over"] /\ RegisterRingGroup("destination", {Out})
    BY DEF DialReturns, Picked, PickedFrame
  <1>6. pickup' \in Pickup /\ pickup'.step = "over" /\ pickup'.leg = pickup.leg
    BY <1>5, PickupEffect
  <1>7. QED
    BY <1>2, <1>3, <1>4, <1>5, <1>6 DEF ReturnedStep, Remembers

\* The button and the sweeper end the call, and say so.
EndedStep ==
  /\ UNCHANGED <<chan, events, adapter, pickup, row, old>>
  /\ history' \in History /\ history'.ended /\ history'.faults = history.faults
  /\ history'.lateDial = history.lateDial /\ history'.crashed = history.crashed
  /\ \/ \E closing \in SUBSET (Closing \cup {"create", "swept"}) : Cleanup(closing)
     \/ /\ UNCHANGED <<session, bridge>>
        /\ drops' \in {drops, drops \cup {session.first}} /\ drops' \subseteq Chans
        /\ writes' \subseteq writes \cup Closes
        /\ Calling => session.first \notin session.index

LEMMA EndedEffect ==
  ASSUME Inv, HangupRequest \/ Sweep
  PROVE  /\ EndedStep
         /\ HangupRequest => request = "placed" /\ request' = "hungUp"
         /\ Sweep => request' = request /\ old
  <1>1. /\ UNCHANGED <<chan, events, adapter, pickup, row, old>>
        /\ history' = [history EXCEPT !.ended = TRUE]
    BY DEF HangupRequest, Sweep
  <1>2. TypeOK /\ session.first \in Chans /\ drops \subseteq Chans
    BY Types, SessionParts DEF Inv
  <1>3. \/ \E closing \in SUBSET (Closing \cup {"create", "swept"}) : Cleanup(closing)
        \/ /\ UNCHANGED <<session, bridge>>
           /\ drops' \in {drops, drops \cup {session.first}}
           /\ writes' \subseteq writes \cup Closes
           /\ session.first \notin session.index
    BY DEF HangupRequest, Sweep, Closing, Closes
  <1>4. HangupRequest => request = "placed" /\ request' = "hungUp"
    BY DEF HangupRequest
  <1>5. Sweep => request' = request /\ old
    BY DEF Sweep
  <1>6. history' \in History /\ history'.ended /\ history'.faults = history.faults
        /\ history'.lateDial = history.lateDial /\ history'.crashed = history.crashed
    BY <1>1, <1>2, HistoryEffect
  <1>7. QED
    BY <1>1, <1>2, <1>3, <1>4, <1>5, <1>6 DEF EndedStep

\* The legs ring together, or none could be made.
RingStep ==
  /\ request = "originating" /\ \A x \in Legs : chan[x] # "none"
  /\ UNCHANGED <<chan, events, drops, pickup, row, old, history>>
  /\ \/ /\ request' = "refused" /\ bridge' = "gone"
        /\ UNCHANGED <<adapter, session, writes>>
        /\ \A x \in Legs : chan[x] = "refused"
     \/ /\ request' = "placed" /\ UNCHANGED bridge
        /\ session' \in Session /\ session'.channels = Made /\ session'.all = Made
        /\ session'.index = Made /\ session'.first \in Made
        /\ RegisterRingGroup("extension", Made)
        /\ writes' = writes \cup {"create"}

LEMMA RingEffect ==
  ASSUME TypeOK, Ring
  PROVE  RingStep
  <1>1. CASE Made = {}
    BY <1>1 DEF Ring, RingStep, Made
  <1>2. CASE Made # {}
    <2>1. PICK f \in Made : session' = [channels |-> Made, all |-> Made, index |-> Made, first |-> f]
      BY <1>2 DEF Ring
    <2>2. Made \subseteq Chans
      BY DEF Made, Chans
    <2>3. session' \in Session /\ session'.channels = Made /\ session'.all = Made
          /\ session'.index = Made /\ session'.first \in Made
      BY <2>1, <2>2 DEF Session
    <2>4. QED
      BY <1>2, <2>3 DEF Ring, RingStep
  <1>3. QED
    BY <1>1, <1>2

RowStep ==
  /\ UNCHANGED <<request, chan, bridge, events, drops, adapter, session, pickup>>
  /\ Remembers /\ history'.lateDial = history.lateDial /\ history'.crashed = history.crashed
  /\ history'.ended = history.ended
  /\ writes' \subseteq writes /\ row' \in Closing \cup {"NONE", "IN_PROGRESS"}
  /\ row' # row => writes # {}
  /\ row' \in Closing => row \in Closing \/ writes \cap Closes # {}
  /\ old' \in BOOLEAN /\ (old' => old \/ Calling \/ request = "lost")

RowActions == \/ \E w \in Closing \cup {"swept"} : CloseRows(w)
              \/ \E w \in Closing \cup {"swept", "create"} : WriteFails(w)
              \/ CreateRow \/ GrowOld

LEMMA RowEffect ==
  ASSUME TypeOK, RowActions
  PROVE  RowStep
  <1>0. history \in History /\ row \in Closing \cup {"NONE", "IN_PROGRESS"} /\ old \in BOOLEAN
    BY Types DEF TypeOK
  <1>1. ASSUME NEW w \in Closing \cup {"swept"}, CloseRows(w) PROVE RowStep
    <2>1. /\ UNCHANGED <<request, chan, bridge, events, drops, adapter, session, pickup, old, history>>
          /\ w \in writes /\ w \in Closes /\ writes' = writes \ {w}
          /\ row' = IF row = "IN_PROGRESS"
                    THEN IF w = "swept" THEN "NO_ANSWER" ELSE w ELSE row
      BY <1>1 DEF CloseRows, Database, Closes
    <2>2. row' \in Closing \cup {"NONE", "IN_PROGRESS"}
      BY <1>0, <1>1, <2>1 DEF Closing
    <2>3. QED
      BY <1>0, <2>1, <2>2 DEF RowStep, Remembers
  <1>2. ASSUME NEW w \in Closing \cup {"swept", "create"}, WriteFails(w) PROVE RowStep
    <2>1. /\ UNCHANGED <<request, chan, bridge, events, drops, adapter, session, pickup, old, row>>
          /\ writes' = writes \ {w} /\ history' = [history EXCEPT !.faults = @ + 1]
      BY <1>2 DEF WriteFails, Database
    <2>2. Remembers /\ history'.lateDial = history.lateDial /\ history'.crashed = history.crashed
          /\ history'.ended = history.ended
      BY <2>1, HistoryEffect DEF Remembers
    <2>3. QED
      BY <1>0, <2>1, <2>2 DEF RowStep
  <1>3. CASE CreateRow
    BY <1>0, <1>3 DEF CreateRow, Database, RowStep, Remembers, Closing
  <1>4. CASE GrowOld
    BY <1>0, <1>4 DEF GrowOld, RowStep, Remembers, Calling
  <1>5. QED
    BY <1>1, <1>2, <1>3, <1>4 DEF RowActions

CrashStep ==
  /\ request # "idle"
  /\ \/ request = "originating" /\ request' = "lost"
     \/ request # "originating" /\ request' = request
  /\ drops' = {} /\ writes' = {} /\ events' = <<>>
  /\ adapter' \in Adapter /\ session' \in Session /\ pickup' \in Pickup
  /\ \A x \in Chans : adapter'.group[x] = "none"
  /\ \A g \in Groups : ~adapter'.settled[g]
  /\ session'.channels = {} /\ session'.all = {} /\ session'.index = {}
  /\ pickup'.step = "none"
  /\ history' \in History /\ history'.faults # 0 /\ history'.crashed
  /\ history'.ended = history.ended
  /\ UNCHANGED <<chan, bridge, row, old>>

LEMMA CrashEffect ==
  ASSUME TypeOK, Crash
  PROVE  CrashStep
  <1> DEFINE a == [group |-> [x \in Chans |-> "none"], remaining |-> [g \in Groups |-> {}],
                   settled |-> [g \in Groups |-> FALSE], answeredAt |-> {}]
             s == [[[session EXCEPT !.channels = {}] EXCEPT !.all = {}] EXCEPT !.index = {}]
             h == [[history EXCEPT !.faults = history.faults + 1] EXCEPT !.crashed = TRUE]
  <1>1. session \in Session /\ pickup \in Pickup /\ history \in History /\ history.faults \in Nat
    BY Types DEF History
  <1>2. a \in Adapter /\ (\A x \in Chans : a.group[x] = "none") /\ \A g \in Groups : ~a.settled[g]
    BY DEF Adapter
  <1>3. s \in Session /\ s.channels = {} /\ s.all = {} /\ s.index = {} /\ session' = s
    BY <1>1 DEF Session, Crash
  <1>4. history.faults + 1 \in Nat /\ history.faults + 1 # 0
    BY <1>1
  <1>5. h \in History /\ h.faults # 0 /\ h.crashed /\ h.ended = history.ended /\ history' = h
    BY <1>1, <1>4 DEF History, Crash
  <1>6. pickup' \in Pickup /\ pickup'.step = "none"
    BY PickupEffect DEF Crash
  <1>7. /\ request # "idle" /\ adapter' = a
        /\ request' = IF request = "originating" THEN "lost" ELSE request
        /\ drops' = {} /\ writes' = {} /\ events' = <<>>
        /\ UNCHANGED <<chan, bridge, row, old>>
    BY DEF Crash
  <1> HIDE DEF a, s, h
  <1>8. QED
    BY <1>2, <1>3, <1>5, <1>6, <1>7 DEF CrashStep

StartStep ==
  \/ /\ request = "idle" /\ request' = "originating" /\ bridge' = "up" /\ UNCHANGED chan
     /\ UNCHANGED <<events, drops, adapter, session, pickup, writes, row, old, history>>
  \/ /\ request = "originating"
     /\ \E x \in Legs : chan[x] = "none" /\ \E made \in {"ringing", "refused"} :
                           chan' = [chan EXCEPT ![x] = made]
     /\ UNCHANGED <<request, bridge, events, drops, adapter, session, pickup, writes, row, old, history>>

LEMMA StartEffect ==
  ASSUME CreateBridge \/ \E x \in Chans : OriginateLeg(x)
  PROVE  StartStep
  BY DEF CreateBridge, OriginateLeg, StartStep

\* Every step is one of these.
LEMMA SplitNext ==
  ASSUME [Next]_vars
  PROVE  \/ WorldStep \/ RowActions \/ CreateBridge \/ (\E x \in Chans : OriginateLeg(x))
         \/ Ring \/ HandleEvent \/ JoinBridge \/ Dial \/ DialReturns
         \/ HangupRequest \/ Sweep \/ Crash \/ UNCHANGED vars
  BY DEF Next, Service, WorldStep, RowActions

LEMMA TypeNext ==
  ASSUME Inv, [Next]_vars
  PROVE  TypeOK'
  <1>0. TypeOK /\ GroupsFit /\ Out \in Chans
    BY DEF Inv, Chans
  <1>1. /\ request \in {"idle", "originating", "placed", "hungUp", "refused", "lost"}
        /\ bridge \in {"none", "up", "gone"} /\ writes \subseteq Closing \cup {"create", "swept"}
        /\ row \in Closing \cup {"NONE", "IN_PROGRESS"} /\ old \in BOOLEAN
        /\ chan \in [Chans -> ChanStates] /\ events \in Seq(Event) /\ drops \subseteq Chans
        /\ adapter \in Adapter /\ session \in Session /\ pickup \in Pickup /\ history \in History
    BY <1>0, Types DEF TypeOK
  <1> DEFINE Typed == /\ request' \in {"idle", "originating", "placed", "hungUp", "refused", "lost"}
                      /\ bridge' \in {"none", "up", "gone"}
                      /\ writes' \subseteq Closing \cup {"create", "swept"}
                      /\ row' \in Closing \cup {"NONE", "IN_PROGRESS"} /\ old' \in BOOLEAN
                      /\ chan' \in [Chans -> ChanStates] /\ events' \in Seq(Event)
                      /\ drops' \subseteq Chans /\ adapter' \in Adapter /\ session' \in Session
                      /\ pickup' \in Pickup /\ history' \in History
  <1>2. Typed => TypeOK'
    BY DEF TypeOK, ChanStates, Adapter, Session, Pickup, History, Event
  <1>3. CASE WorldStep
    BY <1>0, <1>1, <1>2, <1>3, WorldEffect DEF WorldFrame, Remembers, ChanMoves, EventsMove
  <1>4. CASE RowActions
    BY <1>0, <1>1, <1>2, <1>4, RowEffect DEF RowStep, Remembers
  <1>5. CASE CreateBridge \/ \E x \in Chans : OriginateLeg(x)
    <2>1. StartStep
      BY <1>5, StartEffect
    <2>2. chan' \in [Chans -> ChanStates]
      BY <1>1, <2>1 DEF StartStep, ChanStates
    <2>3. QED
      BY <1>1, <1>2, <2>1, <2>2 DEF StartStep
  <1>6. CASE Ring
    <2>1. RingStep
      BY <1>0, <1>6, RingEffect
    <2>2. adapter' \in Adapter
      <3>1. Made \in SUBSET Chans /\ "extension" \in Groups
        BY DEF Made, Chans, Groups
      <3>2. QED
        BY <1>0, <1>1, <2>1, <3>1, RingGroupEffect DEF RingStep
    <2>3. QED
      BY <1>1, <1>2, <2>1, <2>2 DEF RingStep
  <1>7. CASE HandleEvent
    <2>1. /\ EventFrame /\ adapter' \in Adapter /\ events' \in Seq(Event)
          /\ \E x \in Chans : AnswerStep(x) \/ IdleEvent(x) \/ EndEvent(x)
      BY <1>7, EventEffect DEF GroupsKept
    <2>2. PICK x \in Chans : AnswerStep(x) \/ IdleEvent(x) \/ EndEvent(x)
      BY <2>1
    <2>3. CASE AnswerStep(x) \/ IdleEvent(x)
      BY <1>1, <1>2, <2>1, <2>3 DEF AnswerStep, IdleEvent, EventFrame
    <2>4. CASE EndEvent(x)
      <3>1. PICK w \in Closing : Cleanup({w})
        BY <2>4 DEF EndEvent
      <3>2. {w} \in SUBSET (Closing \cup {"create", "swept"})
        OBVIOUS
      <3>3. QED
        BY <1>0, <1>1, <1>2, <2>1, <2>4, <3>1, <3>2, CleanupEffect DEF EndEvent, EventFrame
    <2>5. QED
      BY <2>2, <2>3, <2>4
  <1>8. CASE JoinBridge
    <2>1. JoinedStep /\ PickedFrame /\ history' \in History
      BY <1>0, <1>8, JoinEffect DEF Remembers
    <2>2. CASE Nothing
      BY <1>1, <1>2, <2>1, <2>2 DEF JoinedStep, PickedFrame, Nothing
    <2>3. CASE Cleanup({"COMPLETED"})
      <3>1. {"COMPLETED"} \in SUBSET (Closing \cup {"create", "swept"})
        BY DEF Closing
      <3>2. QED
        BY <1>0, <1>1, <1>2, <2>1, <2>3, <3>1, CleanupEffect DEF JoinedStep, PickedFrame
    <2>4. QED
      BY <2>1, <2>2, <2>3 DEF JoinedStep
  <1>9. CASE Dial
    <2>1. DialledStep /\ PickedFrame /\ history' \in History
      BY <1>0, <1>9, DialEffect DEF Remembers
    <2>2. chan' \in [Chans -> ChanStates]
      BY <1>1, <2>1 DEF DialledStep, ChanStates
    <2>3. CASE Nothing
      BY <1>1, <1>2, <2>1, <2>2, <2>3 DEF DialledStep, PickedFrame, Nothing
    <2>4. CASE Cleanup({"COMPLETED"})
      <3>1. {"COMPLETED"} \in SUBSET (Closing \cup {"create", "swept"})
        BY DEF Closing
      <3>2. QED
        BY <1>0, <1>1, <1>2, <2>1, <2>2, <2>4, <3>1, CleanupEffect DEF DialledStep, PickedFrame
    <2>5. QED
      BY <2>1, <2>3, <2>4 DEF DialledStep
  <1>10. CASE DialReturns
    <2>1. ReturnedStep /\ PickedFrame /\ history' \in History /\ RegisterRingGroup("destination", {Out})
      BY <1>0, <1>10, ReturnsEffect DEF Remembers
    <2>2. {Out} \in SUBSET Chans /\ "destination" \in Groups
      BY <1>0 DEF Groups
    <2>3. adapter' \in Adapter
      BY <1>0, <2>1, <2>2, RingGroupEffect
    <2>4. QED
      BY <1>1, <1>2, <2>1, <2>3 DEF ReturnedStep, PickedFrame
  <1>11. CASE HangupRequest \/ Sweep
    <2>1. EndedStep /\ request' \in {request, "hungUp"}
      BY <1>11, EndedEffect
    <2>2. CASE \E closing \in SUBSET (Closing \cup {"create", "swept"}) : Cleanup(closing)
      BY <1>0, <1>1, <1>2, <2>1, <2>2, CleanupEffect DEF EndedStep
    <2>3. CASE /\ UNCHANGED <<session, bridge>>
               /\ drops' \in {drops, drops \cup {session.first}} /\ drops' \subseteq Chans
               /\ writes' \subseteq writes \cup Closes
      BY <1>1, <1>2, <2>1, <2>3 DEF EndedStep, Closes
    <2>4. QED
      BY <2>1, <2>2, <2>3 DEF EndedStep
  <1>12. CASE Crash
    BY <1>0, <1>1, <1>2, <1>12, CrashEffect DEF CrashStep, Event
  <1>13. CASE UNCHANGED vars
    BY <1>1, <1>2, <1>13 DEF vars
  <1>14. QED
    BY <1>3, <1>4, <1>5, <1>6, <1>7, <1>8, <1>9, <1>10, <1>11, <1>12, <1>13, SplitNext

-----------------------------------------------------------------------------
(* Every step keeps the invariant.                                         *)

\* The places where a call is cleaned up, in one form.
Cleaned == \E closing \in SUBSET (Closing \cup {"create", "swept"}) : Cleanup(closing)

LEMMA CleanedEffect ==
  ASSUME TypeOK, GroupsFit, Cleaned
  PROVE  /\ drops' = drops \cup session.channels
         /\ session'.channels = {} /\ session'.index = {}
         /\ session'.all = session.all /\ session'.first = session.first
         /\ bridge' # "up"
  BY CleanupEffect DEF Cleaned

LEMMA StepsClean ==
  ASSUME Inv
  PROVE  /\ \A x \in Chans : EndEvent(x) => Cleaned
         /\ JoinedStep => Cleaned \/ Nothing
         /\ DialledStep => Cleaned \/ Nothing
         /\ EndedStep => Cleaned \/ UNCHANGED <<session, bridge>>
  <1>1. \A w \in Closing : {w} \in SUBSET (Closing \cup {"create", "swept"})
    OBVIOUS
  <1>2. "COMPLETED" \in Closing
    BY DEF Closing
  <1>3. QED
    BY <1>1, <1>2 DEF EndEvent, JoinedStep, DialledStep, EndedStep, Cleaned

LEMMA PhaseNext ==
  ASSUME Inv, [Next]_vars
  PROVE  PhaseFits'
  <1>0. TypeOK /\ PhaseFits /\ GroupsFit
    BY DEF Inv
  <1>1. CASE WorldStep
    <2>1. /\ WorldFrame /\ drops' \subseteq drops /\ (Quiet' => Quiet)
          /\ history'.crashed = history.crashed
      BY <1>0, <1>1, WorldEffect DEF Remembers, ChanMoves, Quiet
    <2>2. QED
      <3>1. \A x \in Legs : chan[x] = "none" => chan'[x] = "none"
        BY <1>0, <1>1, WorldEffect DEF ChanMoves, Chans
      <3>2. QED
        BY <1>0, <2>1, <3>1 DEF WorldFrame, PhaseFits, Fresh, Group, Settled
  <1>2. CASE RowActions
    <2>1. RowStep /\ (Quiet' => Quiet)
      BY <1>0, <1>2, RowEffect DEF RowStep, Remembers, Quiet
    <2>2. Fresh \/ request = "refused" => writes' = {} /\ row' = row /\ ~old'
      BY <1>0, <2>1 DEF RowStep, PhaseFits, Fresh, Calling
    <2>3. QED
      BY <1>0, <2>1, <2>2 DEF RowStep, PhaseFits, Fresh, Group, Settled
  <1>3. CASE CreateBridge \/ \E x \in Chans : OriginateLeg(x)
    BY <1>0, <1>3, StartEffect DEF StartStep, PhaseFits, Fresh, Group, Settled, Quiet
  <1>4. CASE Ring
    BY <1>0, <1>4, RingEffect DEF RingStep, PhaseFits, Fresh, Group, Settled, Quiet
  <1>5. CASE HandleEvent
    <2>1. EventFrame /\ GroupsKept
      BY <1>5, EventEffect
    <2>2. PICK x \in Chans : AnswerStep(x) \/ IdleEvent(x) \/ EndEvent(x)
      BY <1>5, EventEffect
    <2>3. CASE ~Calling
      <3>1. session.index = {} /\ Group(x) = "none"
        BY <1>0, <2>3 DEF PhaseFits, GroupsFit, Calling, TypeOK, Fresh
      <3>2. IdleEvent(x)
        BY <2>2, <3>1 DEF AnswerStep, EndEvent
      <3>3. \A y \in Chans : Group(y)' \in {"none", Group(y)}
        BY <2>1 DEF GroupsKept
      <3>4. QED
        BY <1>0, <2>1, <3>2, <3>3 DEF EventFrame, IdleEvent, PhaseFits, Fresh, Settled, Quiet
    <2>4. CASE Calling
      BY <1>0, <2>1, <2>4 DEF EventFrame, PhaseFits, Fresh, Calling, Quiet
    <2>5. QED
      BY <2>3, <2>4
  <1>6. CASE JoinBridge \/ Dial \/ DialReturns
    <2>1. PickedFrame /\ Remembers /\ history'.crashed = history.crashed /\ pickup.step # "none"
      BY <1>0, <1>6, JoinEffect, DialEffect, ReturnsEffect DEF JoinedStep, DialledStep, ReturnedStep
    <2>2. Calling
      BY <1>0, <2>1 DEF GroupsFit
    <2>3. QED
      BY <1>0, <2>1, <2>2 DEF PickedFrame, Remembers, Calling, PhaseFits, Fresh, Quiet
  <1>7. CASE HangupRequest \/ Sweep
    <2>1. /\ EndedStep
          /\ \/ request' = "hungUp"
             \/ request' = request /\ request \notin {"idle", "originating", "refused"}
      BY <1>0, <1>7, EndedEffect DEF PhaseFits, Fresh
    <2>2. session.index = {} => session'.index = {}
      BY <1>0, <2>1, StepsClean, CleanedEffect
    <2>3. QED
      BY <1>0, <2>1, <2>2 DEF EndedStep, PhaseFits, Fresh, Group, Quiet
  <1>8. CASE Crash
    BY <1>0, <1>8, CrashEffect DEF CrashStep, PhaseFits, Fresh, Group, Quiet
  <1>9. CASE UNCHANGED vars
    BY <1>0, <1>9 DEF vars, PhaseFits, Fresh, Group, Settled, Quiet
  <1>10. QED
    BY <1>1, <1>2, <1>3, <1>4, <1>5, <1>6, <1>7, <1>8, <1>9, SplitNext

\* A step that leaves the groups, the session and the pickup alone.
LEMMA GroupsFrame ==
  ASSUME GroupsFit, UNCHANGED <<adapter, session, pickup>>, Calling => Calling'
  PROVE  GroupsFit'
  BY DEF GroupsFit, Group, Settled

LEMMA GroupsNext ==
  ASSUME Inv, [Next]_vars
  PROVE  GroupsFit'
  <1>0. TypeOK /\ PhaseFits /\ GroupsFit
    BY DEF Inv
  <1>1. CASE WorldStep
    BY <1>0, <1>1, WorldEffect, GroupsFrame DEF WorldFrame, Calling
  <1>2. CASE RowActions
    BY <1>0, <1>2, RowEffect, GroupsFrame DEF RowStep, Calling
  <1>3. CASE CreateBridge \/ \E x \in Chans : OriginateLeg(x)
    BY <1>0, <1>3, StartEffect, GroupsFrame DEF StartStep, Calling
  <1>4. CASE Ring
    <2>1. RingStep
      BY <1>0, <1>4, RingEffect
    <2>2. CASE request' = "refused"
      BY <1>0, <2>1, <2>2, GroupsFrame DEF RingStep, Calling
    <2>3. CASE request' = "placed"
      <3>1. Made \in SUBSET Chans /\ Made \subseteq Legs /\ "extension" \in Groups
        BY DEF Made, Chans, Groups
      <3>2. RegisterRingGroup("extension", Made)
        BY <2>1, <2>3 DEF RingStep
      <3>3. /\ adapter'.settled = adapter.settled
            /\ \A y \in Chans : adapter'.group[y] = IF y \in Made THEN "extension" ELSE adapter.group[y]
            /\ \A h \in Groups : adapter'.remaining[h] = IF h = "extension" THEN Made ELSE adapter.remaining[h]
        BY <1>0, <3>1, <3>2, RingGroupEffect
      <3>4. /\ session.index = {} /\ pickup.step = "none" /\ ~Settled("extension")
            /\ \A y \in Chans : adapter.group[y] = "none"
        BY <1>0, <2>1 DEF RingStep, PhaseFits, Fresh, Group
      <3>5. ~Settled("destination")
        BY <1>0, <3>4 DEF GroupsFit
      <3>6. \A y \in Chans : adapter'.group[y] # "none" => y \in Made /\ adapter'.group[y] = "extension"
        BY <3>3, <3>4
      <3>7. session'.all = Made /\ session'.index = Made /\ pickup' = pickup
        BY <2>1, <2>3 DEF RingStep
      <3>8. QED
        BY <2>3, <3>1, <3>3, <3>4, <3>5, <3>6, <3>7 DEF GroupsFit, Group, Settled, Calling
    <2>4. QED
      BY <2>1, <2>2, <2>3 DEF RingStep
  <1>5. CASE HandleEvent
    <2>1. EventFrame /\ GroupsKept
      BY <1>5, EventEffect
    <2>2. PICK x \in Chans : AnswerStep(x) \/ IdleEvent(x) \/ EndEvent(x)
      BY <1>5, EventEffect
    <2>3. /\ session'.all = session.all /\ session'.index \in {{}, session.index}
          /\ pickup' = pickup \/ AnswerStep(x)
      BY <1>0, <2>2, StepsClean, CleanedEffect DEF AnswerStep, IdleEvent, EndEvent
    <2>4. "extension" \in Groups /\ "destination" \in Groups
      BY DEF Groups
    <2>5. ASSUME pickup.step \in {"none", "bridge", "dial", "dialled"}
          PROVE  ~adapter'.settled["destination"]
      <3>1. \A y \in Chans : Group(y) # "destination"
        BY <1>0, <2>5 DEF GroupsFit
      <3>2. ~Settled("destination")
        BY <1>0, <2>5 DEF GroupsFit
      <3>3. QED
        BY <2>1, <2>4, <3>1, <3>2 DEF GroupsKept
    <2>6. Settled("extension") => adapter'.settled["extension"]
      BY <2>1, <2>4 DEF GroupsKept
    <2>7. CASE AnswerStep(x)
      <3>1. Calling /\ pickup.step = "none"
        BY <1>0, <2>7 DEF AnswerStep, GroupsFit
      <3>2. \A y \in Chans : Group(y)' = "none"
        <4>1. \A y \in Chans : Group(y) \in {"none", "extension"}
          BY <1>0, <2>7, AdapterParts DEF AnswerStep, GroupsFit, Group, Groups
        <4>2. \A y \in Chans : Group(y)' \in {"none", Group(y)} /\ Group(y)' # "extension"
          BY <2>1, <2>7 DEF GroupsKept, AnswerStep, Group
        <4>3. QED
          BY <4>1, <4>2
      <3>3. QED
        BY <1>0, <2>1, <2>3, <2>5, <2>7, <3>1, <3>2 DEF AnswerStep, GroupsFit, EventFrame, Calling, Settled
    <2>8. CASE pickup' = pickup
      <3>1. ASSUME NEW y \in Chans, Group(y)' # "none"
            PROVE  /\ Group(y)' = Group(y) /\ Calling'
                   /\ y \in adapter'.remaining[Group(y)] /\ ~adapter'.settled[Group(y)]
                   /\ Group(y) = "extension" => y \in Legs /\ y \in session.all
                   /\ Group(y) = "destination" => y = Out /\ pickup.step = "over" /\ adapter'.settled["extension"]
        <4>1. Group(y)' = Group(y) /\ y \in adapter'.remaining[Group(y)] /\ ~adapter'.settled[Group(y)]
          BY <2>1, <3>1 DEF GroupsKept
        <4>2. QED
          BY <1>0, <2>1, <2>6, <3>1, <4>1 DEF GroupsFit, EventFrame, Calling
      <3>2. \A y \in Chans :
              /\ Group(y)' # "none" => Calling' /\ y \in adapter'.remaining[Group(y)'] /\ ~adapter'.settled[Group(y)']
              /\ Group(y)' = "extension" => y \in Legs /\ y \in session'.all
              /\ Group(y)' = "destination" => y = Out /\ pickup'.step = "over" /\ adapter'.settled["extension"]
        BY <2>3, <2>8, <3>1
      <3>3. pickup'.step # "none" => Calling' /\ adapter'.settled["extension"]
        BY <1>0, <2>1, <2>6, <2>8 DEF GroupsFit, EventFrame, Calling
      <3>4. QED
        BY <1>0, <2>3, <2>5, <2>8, <3>2, <3>3 DEF GroupsFit, Settled
    <2>9. QED
      BY <2>3, <2>7, <2>8
  <1>6. CASE JoinBridge \/ Dial
    <2>1. /\ PickedFrame /\ adapter' = adapter /\ pickup.step \in {"bridge", "dial"}
          /\ pickup'.step # "none" /\ (JoinedStep \/ DialledStep)
      BY <1>0, <1>6, JoinEffect, DialEffect DEF JoinedStep, DialledStep
    <2>2. session'.all = session.all /\ session'.index \in {{}, session.index}
      BY <1>0, <2>1, StepsClean, CleanedEffect DEF Nothing
    <2>3. \A y \in Chans : Group(y) = "none" \/ Group(y) = "extension"
      BY <1>0, <2>1 DEF GroupsFit, TypeOK, Group, Groups
    <2>4. QED
      BY <1>0, <2>1, <2>2, <2>3 DEF GroupsFit, PickedFrame, Calling, Group, Settled
  <1>7. CASE DialReturns
    <2>1. ReturnedStep /\ PickedFrame /\ RegisterRingGroup("destination", {Out})
      BY <1>0, <1>7, ReturnsEffect
    <2>2. {Out} \in SUBSET Chans /\ "destination" \in Groups
      BY DEF Groups, Chans
    <2>3. /\ adapter'.settled = adapter.settled
          /\ \A y \in Chans : adapter'.group[y] = IF y \in {Out} THEN "destination" ELSE adapter.group[y]
          /\ \A h \in Groups : adapter'.remaining[h] = IF h = "destination" THEN {Out} ELSE adapter.remaining[h]
      BY <1>0, <2>1, <2>2, RingGroupEffect
    <2>4. /\ Calling /\ Settled("extension") /\ ~Settled("destination")
          /\ \A y \in Chans : adapter.group[y] = "none"
      BY <1>0, <2>1 DEF ReturnedStep, GroupsFit, Group, Groups, TypeOK, Settled
    <2>5. \A y \in Chans : adapter'.group[y] # "none" => y = Out /\ adapter'.group[y] = "destination"
      BY <2>3, <2>4
    <2>6. QED
      BY <1>0, <2>1, <2>2, <2>3, <2>4, <2>5 DEF ReturnedStep, PickedFrame, GroupsFit, Group, Settled, Calling
  <1>8. CASE HangupRequest \/ Sweep
    <2>1. EndedStep /\ (Calling => Calling')
      BY <1>0, <1>8, EndedEffect DEF Calling
    <2>2. session'.all = session.all /\ session'.index \in {{}, session.index}
      BY <1>0, <2>1, StepsClean, CleanedEffect
    <2>3. QED
      BY <1>0, <2>1, <2>2 DEF EndedStep, GroupsFit, Group, Settled
  <1>9. CASE Crash
    BY <1>0, <1>9, CrashEffect DEF CrashStep, GroupsFit, Group, Settled, Groups
  <1>10. CASE UNCHANGED vars
    BY <1>0, <1>10, GroupsFrame DEF vars, Calling
  <1>11. QED
    BY <1>1, <1>2, <1>3, <1>4, <1>5, <1>6, <1>7, <1>8, <1>9, <1>10, SplitNext

LEMMA LegNext ==
  ASSUME Inv, [Next]_vars
  PROVE  LegFits'
  <1>0. TypeOK /\ PhaseFits /\ GroupsFit /\ LegFits /\ EventsFit /\ Legs \subseteq Chans /\ Out \notin Legs
    BY DirectAssumption DEF Inv, Chans
  <1>1. CASE WorldStep
    <2>1. WorldFrame /\ ChanMoves
      BY <1>0, <1>1, WorldEffect
    <2>2. \A y \in Chans : /\ chan[y] # "none" => chan'[y] # "none"
                           /\ chan[y] \in {"up", "gone"} => chan'[y] \in {"up", "gone"}
      BY <2>1 DEF ChanMoves
    <2>3. QED
      BY <1>0, <2>1, <2>2 DEF WorldFrame, LegFits, Picking, Calling
  <1>2. CASE RowActions
    BY <1>0, <1>2, RowEffect DEF RowStep, LegFits, Picking, Calling
  <1>3. CASE CreateBridge \/ \E x \in Chans : OriginateLeg(x)
    <2>1. StartStep /\ pickup.step = "none" /\ pickup' = pickup /\ ~Calling'
      BY <1>0, <1>3, StartEffect DEF StartStep, PhaseFits, Fresh, Calling
    <2>2. QED
      BY <2>1 DEF LegFits, Picking
  <1>4. CASE Ring
    <2>1. RingStep /\ pickup.step = "none"
      BY <1>0, <1>4, RingEffect DEF RingStep, PhaseFits, Fresh
    <2>2. QED
      BY <2>1 DEF RingStep, LegFits, Picking
  <1>5. CASE HandleEvent
    <2>1. EventFrame /\ events # <<>>
      BY <1>5, EventEffect
    <2>2. PICK x \in Chans : AnswerStep(x) \/ IdleEvent(x) \/ EndEvent(x)
      BY <1>5, EventEffect
    <2>3. session'.all = session.all
      BY <1>0, <2>2, StepsClean, CleanedEffect DEF AnswerStep, IdleEvent
    <2>4. CASE AnswerStep(x)
      <3>1. events \in Seq(Event)
        BY <1>0, Types
      <3>2. 1 \in DOMAIN events /\ events[1] = <<"up", x>>
        BY <2>1, <2>4, <3>1 DEF AnswerStep
      <3>3. x \in Legs /\ x \in session.all
        BY <1>0, <2>4 DEF AnswerStep, GroupsFit
      <3>4. chan[x] \in {"up", "gone"}
        BY <1>0, <3>2, <3>3 DEF EventsFit, EventFits
      <3>5. QED
        BY <1>0, <2>1, <2>3, <2>4, <3>3, <3>4 DEF AnswerStep, EventFrame, LegFits, Calling
    <2>5. CASE pickup' = pickup
      BY <1>0, <2>1, <2>3, <2>5 DEF EventFrame, LegFits, Picking, Calling
    <2>6. QED
      BY <2>2, <2>4, <2>5 DEF IdleEvent, EndEvent
  <1>6. CASE JoinBridge \/ Dial \/ DialReturns
    <2>1. /\ PickedFrame /\ Picking /\ pickup'.leg = pickup.leg
          /\ \A y \in Legs : chan'[y] = chan[y]
      <3>1. PickedFrame /\ (JoinedStep \/ DialledStep \/ ReturnedStep)
        BY <1>0, <1>6, JoinEffect, DialEffect, ReturnsEffect
      <3>2. \A y \in Legs : chan'[y] = chan[y]
        BY <1>0, <3>1, Types DEF JoinedStep, DialledStep, ReturnedStep
      <3>3. QED
        BY <3>1, <3>2 DEF JoinedStep, DialledStep, ReturnedStep, Picking
    <2>2. session.all \subseteq session'.all
      <3>1. JoinedStep \/ DialledStep \/ ReturnedStep
        BY <1>0, <1>6, JoinEffect, DialEffect, ReturnsEffect
      <3>2. QED
        BY <1>0, <3>1, StepsClean, CleanedEffect DEF Nothing, ReturnedStep
    <2>3. QED
      BY <1>0, <2>1, <2>2 DEF PickedFrame, LegFits, Picking, Calling
  <1>7. CASE HangupRequest \/ Sweep
    <2>1. EndedStep /\ (Calling' => Calling)
      BY <1>0, <1>7, EndedEffect DEF Calling
    <2>2. session'.all = session.all
      BY <1>0, <2>1, StepsClean, CleanedEffect
    <2>3. QED
      BY <1>0, <2>1, <2>2 DEF EndedStep, LegFits, Picking
  <1>8. CASE Crash
    BY <1>0, <1>8, CrashEffect DEF CrashStep, LegFits, Picking, Calling
  <1>9. CASE UNCHANGED vars
    BY <1>0, <1>9 DEF vars, LegFits, Picking, Calling
  <1>10. QED
    BY <1>1, <1>2, <1>3, <1>4, <1>5, <1>6, <1>7, <1>8, <1>9, SplitNext

\* An event added to the queue stands after those that were there.
LEMMA AppendParts ==
  ASSUME NEW s \in Seq(Event), NEW e \in Event
  PROVE  /\ Append(s, e) \in Seq(Event)
         /\ Len(s) \in Nat /\ DOMAIN s = 1 .. Len(s)
         /\ DOMAIN Append(s, e) = 1 .. (Len(s) + 1)
         /\ \A i \in DOMAIN s : Append(s, e)[i] = s[i]
         /\ Append(s, e)[Len(s) + 1] = e
  BY AppendProperties

LEMMA TailParts ==
  ASSUME NEW s \in Seq(Event), s # <<>>
  PROVE  /\ Len(s) \in Nat /\ DOMAIN s = 1 .. Len(s) /\ Len(s) >= 1
         /\ DOMAIN Tail(s) = 1 .. (Len(s) - 1)
         /\ \A i \in DOMAIN Tail(s) : i + 1 \in DOMAIN s /\ Tail(s)[i] = s[i + 1]
         /\ Head(s) = s[1] /\ 1 \in DOMAIN s
  OBVIOUS

LEMMA EventsKept ==
  ASSUME EventsFit, events' = events, \A x \in Legs : chan'[x] = chan[x] \/ chan[x] = "none",
         Quiet' => Quiet
  PROVE  EventsFit'
  <1>1. ASSUME NEW x \in Legs, NEW i \in DOMAIN events,
               events[i] = <<"end", x>> \/ events[i] = <<"up", x>>
        PROVE  chan'[x] = chan[x]
    BY <1>1 DEF EventsFit, EventFits
  <1>2. QED
    BY <1>1 DEF EventsFit, EventFits

\* Handling an event, or losing it, takes the first of the queue.
LEMMA EventsTail ==
  ASSUME TypeOK, EventsFit, events # <<>>, events' = Tail(events), \A x \in Legs : chan'[x] = chan[x],
         Quiet' => Quiet
  PROVE  EventsFit'
  <1>1. events \in Seq(Event)
    BY Types
  <1>2. ASSUME NEW i \in DOMAIN events'
        PROVE  i + 1 \in DOMAIN events /\ events'[i] = events[i + 1] /\ i \in Nat
    BY <1>1, <1>2, TailParts
  <1>3. ASSUME NEW x \in Legs, NEW i \in DOMAIN events', Quiet', events'[i] = <<"up", x>>, chan'[x] = "gone"
        PROVE  \E j \in DOMAIN events' : j > i /\ events'[j] = <<"end", x>>
    <2>1. PICK j \in DOMAIN events : j > i + 1 /\ events[j] = <<"end", x>>
      BY <1>2, <1>3 DEF EventsFit, EventFits
    <2>2. j \in Nat /\ j - 1 \in DOMAIN events' /\ j - 1 > i /\ (j - 1) + 1 = j
      BY <1>1, <1>2, <2>1, TailParts
    <2>3. events'[j - 1] = events[j]
      BY <1>2, <2>2
    <2>4. QED
      BY <2>1, <2>2, <2>3
  <1>4. ASSUME NEW x \in Legs, NEW i \in DOMAIN events' PROVE EventFits(x, i)'
    <2>1. EventFits(x, i + 1)
      BY <1>2 DEF EventsFit
    <2>2. QED
      BY <1>2, <1>3, <2>1 DEF EventFits
  <1>5. QED
    BY <1>4 DEF EventsFit

LEMMA EventsWorld ==
  ASSUME TypeOK, EventsFit, EventsMove, Quiet' => Quiet
  PROVE  EventsFit'
  <1>1. events \in Seq(Event) /\ Legs \subseteq Chans
    BY Types DEF Chans
  <1>2. CASE events' = events /\ \A y \in Chans : chan'[y] = chan[y]
    BY <1>1, <1>2, EventsKept
  <1>3. CASE /\ events # <<>> /\ events' = Tail(events)
             /\ \A y \in Chans : chan'[y] = chan[y]
    BY <1>1, <1>3, EventsTail
  <1>4. ASSUME NEW x \in Chans, events' = Append(events, <<"up", x>>),
               chan[x] = "ringing", chan'[x] = "up", \A y \in Chans : y # x => chan'[y] = chan[y]
        PROVE  EventsFit'
    <2> DEFINE n == Len(events) + 1
    <2>1. <<"up", x>> \in Event
      BY DEF Event
    <2>2. /\ DOMAIN events' = 1 .. n /\ events'[n] = <<"up", x>>
          /\ \A i \in DOMAIN events : events'[i] = events[i] /\ i \in DOMAIN events' /\ i \in Nat
          /\ \A i \in DOMAIN events' : i = n \/ i \in DOMAIN events
      BY <1>1, <1>4, <2>1, AppendParts
    <2> HIDE DEF n
    <2>3. ASSUME NEW y \in Legs, NEW i \in DOMAIN events'
          PROVE  EventFits(y, i)'
      <3>1. CASE i = n
        BY <1>4, <2>2, <3>1 DEF EventFits
      <3>2. CASE i \in DOMAIN events /\ y # x
        <4>1. EventFits(y, i) /\ chan'[y] = chan[y] /\ events'[i] = events[i]
          BY <1>1, <1>4, <2>2, <3>2 DEF EventsFit
        <4>2. \A j \in DOMAIN events : j \in DOMAIN events' /\ events'[j] = events[j]
          BY <2>2
        <4>3. QED
          BY <4>1, <4>2 DEF EventFits
      <3>3. CASE i \in DOMAIN events /\ y = x
        BY <1>4, <2>2, <3>3 DEF EventsFit, EventFits
      <3>4. QED
        BY <2>2, <3>1, <3>2, <3>3
    <2>4. QED
      BY <2>3 DEF EventsFit
  <1>5. ASSUME NEW x \in Chans, chan[x] = "ringing", chan'[x] = "gone",
               events' = Append(events, <<"end", x>>), \A y \in Chans : y # x => chan'[y] = chan[y]
        PROVE  EventsFit'
    <2> DEFINE n == Len(events) + 1
    <2>1. <<"end", x>> \in Event
      BY DEF Event
    <2>2. /\ DOMAIN events' = 1 .. n /\ events'[n] = <<"end", x>>
          /\ \A i \in DOMAIN events : events'[i] = events[i] /\ i \in DOMAIN events' /\ i \in Nat
          /\ \A i \in DOMAIN events' : i = n \/ i \in DOMAIN events
      BY <1>1, <1>5, <2>1, AppendParts
    <2> HIDE DEF n
    <2>3. ASSUME NEW y \in Legs, NEW i \in DOMAIN events'
          PROVE  EventFits(y, i)'
      <3>1. CASE i = n
        BY <1>5, <2>2, <3>1 DEF EventFits
      <3>2. CASE i \in DOMAIN events /\ y # x
        <4>1. EventFits(y, i) /\ chan'[y] = chan[y] /\ events'[i] = events[i]
          BY <1>1, <1>5, <2>2, <3>2 DEF EventsFit
        <4>2. \A j \in DOMAIN events : j \in DOMAIN events' /\ events'[j] = events[j]
          BY <2>2
        <4>3. QED
          BY <4>1, <4>2 DEF EventFits
      <3>3. CASE i \in DOMAIN events /\ y = x
        BY <1>5, <2>2, <3>3 DEF EventsFit, EventFits
      <3>4. QED
        BY <2>2, <3>1, <3>2, <3>3
    <2>4. QED
      BY <2>3 DEF EventsFit
  <1>6. ASSUME NEW x \in Chans, chan[x] = "up", chan'[x] = "gone",
               events' = Append(Append(events, <<"end", x>>), <<"end", x>>),
               \A y \in Chans : y # x => chan'[y] = chan[y]
        PROVE  EventsFit'
    <2> DEFINE n == Len(events) + 1
               e == Append(events, <<"end", x>>)
    <2>1. <<"end", x>> \in Event
      BY DEF Event
    <2>2. /\ e \in Seq(Event) /\ Len(e) = n /\ n \in Nat /\ n >= 1
          /\ DOMAIN e = 1 .. n /\ e[n] = <<"end", x>>
          /\ \A i \in DOMAIN events : e[i] = events[i] /\ i \in DOMAIN e /\ i \in Nat /\ n > i
          /\ \A i \in DOMAIN e : i = n \/ i \in DOMAIN events
      BY <1>1, <2>1, AppendParts
    <2> HIDE DEF n, e
    <2>3. /\ DOMAIN events' = 1 .. (n + 1) /\ events'[n + 1] = <<"end", x>>
          /\ \A i \in DOMAIN e : events'[i] = e[i]
      <3>1. events' = Append(e, <<"end", x>>)
        BY <1>6 DEF e
      <3>2. QED
        BY <2>1, <2>2, <3>1, AppendParts
    <2>4. /\ n \in DOMAIN events' /\ events'[n] = <<"end", x>>
          /\ \A i \in DOMAIN events : events'[i] = events[i] /\ i \in DOMAIN events' /\ i \in Nat /\ n > i
          /\ \A i \in DOMAIN events' : events'[i] = <<"end", x>> \/ i \in DOMAIN events
      <3>1. n \in DOMAIN e /\ n \in DOMAIN events'
        BY <2>2, <2>3
      <3>2. \A i \in DOMAIN events : events'[i] = events[i] /\ i \in DOMAIN events' /\ i \in Nat /\ n > i
        BY <2>2, <2>3
      <3>3. ASSUME NEW i \in DOMAIN events' PROVE events'[i] = <<"end", x>> \/ i \in DOMAIN events
        <4>1. i = n + 1 \/ i \in DOMAIN e
          BY <2>2, <2>3
        <4>2. QED
          BY <2>2, <2>3, <4>1
      <3>4. QED
        BY <2>2, <2>3, <3>1, <3>2, <3>3
    <2>5. ASSUME NEW y \in Legs, NEW i \in DOMAIN events'
          PROVE  EventFits(y, i)'
      <3>1. CASE events'[i] = <<"end", x>>
        BY <1>6, <3>1 DEF EventFits
      <3>2. CASE i \in DOMAIN events /\ y # x
        <4>1. EventFits(y, i) /\ chan'[y] = chan[y] /\ events'[i] = events[i]
          BY <1>1, <1>6, <2>4, <3>2 DEF EventsFit
        <4>2. \A j \in DOMAIN events : j \in DOMAIN events' /\ events'[j] = events[j]
          BY <2>4
        <4>3. QED
          BY <4>1, <4>2 DEF EventFits
      <3>3. CASE i \in DOMAIN events /\ y = x
        BY <1>6, <2>4, <3>3 DEF EventsFit, EventFits
      <3>4. QED
        BY <2>4, <3>1, <3>2, <3>3
    <2>6. QED
      BY <2>5 DEF EventsFit
  <1>7. QED
    BY <1>2, <1>3, <1>4, <1>5, <1>6 DEF EventsMove

LEMMA EventsNext ==
  ASSUME Inv, [Next]_vars
  PROVE  EventsFit'
  <1>0. TypeOK /\ PhaseFits /\ GroupsFit /\ LegFits /\ EventsFit /\ Legs \subseteq Chans /\ Out \notin Legs
    BY DirectAssumption DEF Inv, Chans
  <1>1. CASE WorldStep
    BY <1>0, <1>1, WorldEffect, EventsWorld DEF Remembers, Quiet
  <1>2. CASE RowActions
    BY <1>0, <1>2, RowEffect, EventsKept DEF RowStep, Remembers, Quiet
  <1>3. CASE CreateBridge \/ \E x \in Chans : OriginateLeg(x)
    <2>1. StartStep
      BY <1>3, StartEffect
    <2>2. \A x \in Legs : chan'[x] = chan[x] \/ chan[x] = "none"
      BY <1>0, <2>1, Types DEF StartStep
    <2>3. QED
      BY <1>0, <2>1, <2>2, EventsKept DEF StartStep, Quiet
  <1>4. CASE Ring
    BY <1>0, <1>4, RingEffect, EventsKept DEF RingStep, Quiet
  <1>5. CASE HandleEvent
    BY <1>0, <1>5, EventEffect, EventsTail DEF EventFrame, Quiet
  <1>6. CASE JoinBridge \/ Dial \/ DialReturns
    <2>1. PickedFrame /\ Remembers /\ (JoinedStep \/ DialledStep \/ ReturnedStep)
      BY <1>0, <1>6, JoinEffect, DialEffect, ReturnsEffect
    <2>2. \A y \in Legs : chan'[y] = chan[y]
      BY <1>0, <2>1, Types DEF JoinedStep, DialledStep, ReturnedStep
    <2>3. QED
      BY <1>0, <2>1, <2>2, EventsKept DEF PickedFrame, Remembers, Quiet
  <1>7. CASE HangupRequest \/ Sweep
    BY <1>0, <1>7, EndedEffect, EventsKept DEF EndedStep, Quiet
  <1>8. CASE Crash
    BY <1>0, <1>8, CrashEffect DEF CrashStep, EventsFit
  <1>9. CASE UNCHANGED vars
    BY <1>0, <1>9, EventsKept DEF vars, Quiet
  <1>10. QED
    BY <1>1, <1>2, <1>3, <1>4, <1>5, <1>6, <1>7, <1>8, <1>9, SplitNext

LEMMA InvNext ==
  ASSUME Inv, [Next]_vars
  PROVE  Inv'
  BY TypeNext, PhaseNext, GroupsNext, LegNext, EventsNext DEF Inv

\* The phones that are off stay off, and an end is not forgotten.
LEMMA NothingRevives ==
  ASSUME Inv, [Next]_vars
  PROVE  /\ history.ended => history'.ended
         /\ \A y \in Legs : chan[y] \in {"refused", "gone"} => chan'[y] = chan[y]
  <1>0. TypeOK /\ Legs \subseteq Chans /\ Out \notin Legs /\ chan \in [Chans -> ChanStates]
    BY DirectAssumption, Types DEF Inv, Chans
  <1>1. CASE WorldStep
    BY <1>0, <1>1, WorldEffect DEF Remembers, ChanMoves
  <1>2. CASE RowActions
    BY <1>0, <1>2, RowEffect DEF RowStep
  <1>3. CASE CreateBridge \/ \E x \in Chans : OriginateLeg(x)
    BY <1>0, <1>3, StartEffect DEF StartStep
  <1>4. CASE Ring
    BY <1>0, <1>4, RingEffect DEF RingStep
  <1>5. CASE HandleEvent
    BY <1>5, EventEffect DEF EventFrame
  <1>6. CASE JoinBridge \/ Dial \/ DialReturns
    <2>1. Remembers /\ (JoinedStep \/ DialledStep \/ ReturnedStep)
      BY <1>0, <1>6, JoinEffect, DialEffect, ReturnsEffect
    <2>2. \A y \in Legs : chan'[y] = chan[y]
      BY <1>0, <2>1 DEF JoinedStep, DialledStep, ReturnedStep
    <2>3. QED
      BY <2>1, <2>2 DEF Remembers
  <1>7. CASE HangupRequest \/ Sweep
    BY <1>0, <1>7, EndedEffect DEF EndedStep
  <1>8. CASE Crash
    BY <1>0, <1>8, CrashEffect DEF CrashStep
  <1>9. CASE UNCHANGED vars
    BY <1>9 DEF vars
  <1>10. QED
    BY <1>1, <1>2, <1>3, <1>4, <1>5, <1>6, <1>7, <1>8, <1>9, SplitNext

LEMMA CutKept ==
  ASSUME Inv, [Next]_vars, NEW x \in Legs, Cut(x)
  PROVE  Cut(x)'
  <1>1. CASE history.ended
    BY <1>1, NothingRevives DEF Cut
  <1>2. CASE \E y \in Legs \ {x} : chan[y] \in {"refused", "gone"}
    BY <1>2, NothingRevives DEF Cut
  <1>3. QED
    BY <1>1, <1>2 DEF Cut

\* What a step of the phones does to the queue.
LEMMA QueueMoves ==
  ASSUME TypeOK, EventsMove, NEW y \in Chans
  PROVE  /\ Queued(<<"up", y>>)' => Queued(<<"up", y>>) \/ chan'[y] = "up"
         /\ Quiet' /\ Queued(<<"end", y>>) => Queued(<<"end", y>>)'
         /\ chan[y] = "up" /\ chan'[y] # "up" => Queued(<<"end", y>>)'
  <1>1. events \in Seq(Event)
    BY Types
  <1>2. CASE events' = events /\ \A z \in Chans : chan'[z] = chan[z]
    BY <1>2 DEF Queued
  <1>3. CASE /\ events # <<>> /\ events' = Tail(events) /\ history'.faults # 0
             /\ \A z \in Chans : chan'[z] = chan[z]
    BY <1>1, <1>3, TailParts DEF Queued, Quiet
  <1>4. ASSUME NEW x \in Chans, events' = Append(events, <<"up", x>>), chan'[x] = "up",
               chan[x] = "ringing", \A z \in Chans : z # x => chan'[z] = chan[z]
        PROVE  /\ Queued(<<"up", y>>)' => Queued(<<"up", y>>) \/ chan'[y] = "up"
               /\ Queued(<<"end", y>>) => Queued(<<"end", y>>)'
               /\ chan[y] = "up" /\ chan'[y] # "up" => Queued(<<"end", y>>)'
    <2>1. <<"up", x>> \in Event
      BY DEF Event
    <2>2. /\ \A i \in DOMAIN events : events'[i] = events[i] /\ i \in DOMAIN events'
          /\ \A i \in DOMAIN events' : events'[i] = <<"up", x>> \/ (i \in DOMAIN events /\ events'[i] = events[i])
      BY <1>1, <1>4, <2>1, AppendParts
    <2>3. QED
      BY <1>4, <2>2 DEF Queued
  <1>5. ASSUME NEW x \in Chans, events' = Append(events, <<"end", x>>), chan'[x] = "gone",
               chan[x] = "ringing", \A z \in Chans : z # x => chan'[z] = chan[z]
        PROVE  /\ Queued(<<"up", y>>)' => Queued(<<"up", y>>) \/ chan'[y] = "up"
               /\ Queued(<<"end", y>>) => Queued(<<"end", y>>)'
               /\ chan[y] = "up" /\ chan'[y] # "up" => Queued(<<"end", y>>)'
    <2>1. <<"end", x>> \in Event
      BY DEF Event
    <2>2. /\ \A i \in DOMAIN events : events'[i] = events[i] /\ i \in DOMAIN events'
          /\ \A i \in DOMAIN events' : events'[i] = <<"end", x>> \/ (i \in DOMAIN events /\ events'[i] = events[i])
      BY <1>1, <1>5, <2>1, AppendParts
    <2>3. QED
      BY <1>5, <2>2 DEF Queued
  <1>6. ASSUME NEW x \in Chans, events' = Append(Append(events, <<"end", x>>), <<"end", x>>),
               chan'[x] = "gone", \A z \in Chans : z # x => chan'[z] = chan[z]
        PROVE  /\ Queued(<<"up", y>>)' => Queued(<<"up", y>>) \/ chan'[y] = "up"
               /\ Queued(<<"end", y>>) => Queued(<<"end", y>>)'
               /\ chan[y] = "up" /\ chan'[y] # "up" => Queued(<<"end", y>>)'
    <2> DEFINE e == Append(events, <<"end", x>>)
    <2>1. <<"end", x>> \in Event
      BY DEF Event
    <2>2. /\ e \in Seq(Event) /\ Len(events) + 1 \in DOMAIN e /\ e[Len(events) + 1] = <<"end", x>>
          /\ \A i \in DOMAIN events : e[i] = events[i] /\ i \in DOMAIN e
          /\ \A i \in DOMAIN e : e[i] = <<"end", x>> \/ (i \in DOMAIN events /\ e[i] = events[i])
      BY <1>1, <2>1, AppendParts
    <2> HIDE DEF e
    <2>3. /\ \A i \in DOMAIN e : events'[i] = e[i] /\ i \in DOMAIN events'
          /\ \A i \in DOMAIN events' : events'[i] = <<"end", x>> \/ (i \in DOMAIN e /\ events'[i] = e[i])
      <3>1. events' = Append(e, <<"end", x>>)
        BY <1>6 DEF e
      <3>2. QED
        BY <2>1, <2>2, <3>1, AppendParts
    <2>4. Queued(<<"end", x>>)'
      BY <2>2, <2>3 DEF Queued
    <2>5. \A i \in DOMAIN events : events'[i] = events[i] /\ i \in DOMAIN events'
      BY <2>2, <2>3
    <2>6. \A i \in DOMAIN events' : events'[i] = <<"end", x>> \/ (i \in DOMAIN events /\ events'[i] = events[i])
      BY <2>2, <2>3
    <2>7. Queued(<<"up", y>>)' => Queued(<<"up", y>>)
      BY <2>6 DEF Queued
    <2>8. Queued(<<"end", y>>) => Queued(<<"end", y>>)'
      BY <2>5 DEF Queued
    <2>9. chan[y] = "up" /\ chan'[y] # "up" => y = x
      BY <1>6
    <2>10. QED
      BY <2>4, <2>7, <2>8, <2>9
  <1>7. QED
    BY <1>2, <1>3, <1>4, <1>5, <1>6 DEF EventsMove

\* Handling an event takes it, and no other, from the queue.
LEMMA QueueTail ==
  ASSUME TypeOK, events # <<>>, events' = Tail(events), NEW e
  PROVE  /\ Queued(e)' => Queued(e)
         /\ Queued(e) /\ Head(events) # e => Queued(e)'
         /\ Queued(Head(events))
  <1>1. events \in Seq(Event)
    BY Types
  <1>2. ASSUME NEW i \in DOMAIN events, events[i] = e, Head(events) # e PROVE Queued(e)'
    <2>1. i # 1 /\ i - 1 \in DOMAIN events' /\ (i - 1) + 1 = i
      BY <1>1, <1>2, TailParts
    <2>2. events'[i - 1] = events[i]
      BY <1>1, <2>1, TailParts
    <2>3. QED
      BY <1>2, <2>1, <2>2 DEF Queued
  <1>3. QED
    BY <1>1, <1>2, TailParts DEF Queued

\* The end of a channel that is handled with the phone picked up is of one of the phones.
LEMMA EndedPhone ==
  ASSUME Inv, events # <<>>, NEW x \in Chans, EndEvent(x),
         pickup.step # "over", Settled("extension") \/ ~adapter'.settled["extension"]
  PROVE  x \in Legs /\ Group(x) = "none" /\ chan[x] = "gone"
  <1>1. Group(x) # "destination" /\ (Group(x) = "extension" => adapter'.settled["extension"] /\ ~Settled("extension"))
    BY DEF Inv, GroupsFit, EndEvent
  <1>2. Group(x) = "none" /\ x \in session.index
    BY <1>1 DEF EndEvent
  <1>3. x \in Legs
    BY <1>2, Types DEF Inv, GroupsFit, Pickup
  <1>4. events \in Seq(Event) /\ Head(events) = <<"end", x>>
    BY Types DEF Inv, EndEvent
  <1>5. 1 \in DOMAIN events /\ events[1] = <<"end", x>>
    BY <1>4
  <1>6. QED
    BY <1>2, <1>3, <1>5 DEF Inv, EventsFit, EventFits

\* Until the phone picks up, whatever cuts a phone off has a cause.
LEMMA CutsBefore ==
  ASSUME Inv, CutsFit, [Next]_vars, ~adapter'.settled["extension"], NEW x \in Legs
  PROVE  CutFits(x)'
  <1>0. TypeOK /\ PhaseFits /\ GroupsFit /\ EventsFit /\ Legs \subseteq Chans /\ x \in Chans
        /\ (Cut(x) => Cut(x)')
    BY CutKept DEF Inv, Chans
  <1>1. CASE WorldStep
    <2>1. WorldFrame /\ ChanMoves /\ EventsMove /\ CutFits(x) /\ Group(x)' = Group(x)
      BY <1>0, <1>1, WorldEffect DEF WorldFrame, CutsFit, Settled, Group
    <2>2. x \in drops' => x \in drops
      BY <2>1 DEF ChanMoves
    <2>3. ASSUME Group(x) = "extension" \/ request = "originating", Queued(<<"up", x>>)', chan'[x] = "gone"
          PROVE  Cut(x)'
      <3>1. Queued(<<"up", x>>)
        BY <1>0, <2>1, <2>3, QueueMoves
      <3>2. chan[x] \in {"up", "gone"}
        BY <1>0, <3>1 DEF EventsFit, EventFits, Queued
      <3>3. CASE chan[x] = "gone"
        BY <1>0, <2>1, <2>3, <3>1, <3>3 DEF CutFits
      <3>4. CASE chan[x] = "up"
        <4>1. history'.ended \/ x \in drops
          BY <1>0, <2>1, <2>3, <3>4 DEF ChanMoves
        <4>2. x \in drops => Group(x) = "extension"
          BY <1>0, <2>3 DEF PhaseFits, Fresh
        <4>3. QED
          BY <1>0, <2>1, <4>1, <4>2 DEF CutFits, Cut
      <3>5. QED
        BY <3>2, <3>3, <3>4
    <2>4. QED
      BY <1>0, <2>1, <2>2, <2>3 DEF CutFits, WorldFrame
  <1>2. CASE RowActions \/ UNCHANGED vars
    <2>1. UNCHANGED <<request, chan, events, drops, adapter>>
      BY <1>0, <1>2, RowEffect DEF RowStep, vars
    <2>2. QED
      BY <1>0, <2>1 DEF CutsFit, CutFits, Group, Settled, Queued
  <1>3. CASE CreateBridge \/ \E z \in Chans : OriginateLeg(z)
    <2>1. StartStep
      BY <1>3, StartEffect
    <2>2. Group(x)' = "none" /\ drops' = {}
      BY <1>0, <2>1 DEF StartStep, PhaseFits, Fresh, Group
    <2>3. CASE request = "idle"
      BY <1>0, <2>1, <2>2, <2>3 DEF StartStep, PhaseFits, CutFits
    <2>4. CASE request = "originating"
      <3>1. CutFits(x) /\ events' = events
        BY <1>0, <2>1, <2>4 DEF StartStep, CutsFit, Settled
      <3>2. chan'[x] = "gone" => chan[x] = "gone"
        BY <1>0, <2>1, <2>4, Types DEF StartStep
      <3>3. QED
        BY <1>0, <2>2, <2>4, <3>1, <3>2 DEF CutFits, Queued
    <2>5. QED
      BY <2>1, <2>3, <2>4 DEF StartStep
  <1>4. CASE Ring
    <2>1. RingStep /\ drops = {} /\ Group(x) = "none" /\ ~Settled("extension")
      BY <1>0, <1>4, RingEffect DEF RingStep, PhaseFits, Fresh
    <2>2. CutFits(x) /\ request = "originating" /\ UNCHANGED <<chan, events, drops>>
      BY <2>1 DEF RingStep, CutsFit
    <2>3. QED
      BY <1>0, <2>1, <2>2 DEF CutFits, Queued
  <1>5. CASE HandleEvent
    <2>1. EventFrame /\ GroupsKept /\ events # <<>> /\ events' = Tail(events) /\ ~Settled("extension")
      <3>1. "extension" \in Groups
        BY DEF Groups
      <3>2. QED
        BY <1>5, <3>1, EventEffect DEF GroupsKept
    <2>2. PICK z \in Chans : AnswerStep(z) \/ IdleEvent(z) \/ EndEvent(z)
      BY <1>5, EventEffect
    <2>3. /\ CutFits(x) /\ (Group(x)' = "extension" => Group(x) = "extension")
          /\ (Queued(<<"up", x>>)' => Queued(<<"up", x>>)) /\ chan' = chan /\ request' = request
      BY <1>0, <2>1, QueueTail DEF CutsFit, GroupsKept, EventFrame
    <2>4. CASE IdleEvent(z)
      BY <1>0, <2>3, <2>4 DEF IdleEvent, CutFits
    <2>5. CASE EndEvent(z)
      <3>1. pickup.step # "over"
        BY <1>0, <2>1 DEF GroupsFit
      <3>2. z \in Legs /\ Group(z) = "none" /\ chan[z] = "gone"
        BY <2>1, <2>5, <3>1, EndedPhone
      <3>3. Group(x) = "extension" => Cut(x)
        BY <3>2 DEF Cut
      <3>4. QED
        BY <1>0, <2>3, <3>3 DEF CutFits
    <2>6. QED
      BY <2>2, <2>4, <2>5 DEF AnswerStep
  <1>6. CASE JoinBridge \/ Dial \/ DialReturns
    <2>1. Settled("extension")
      BY <1>0, <1>6 DEF GroupsFit, JoinBridge, Dial, DialReturns
    <2>2. adapter'.settled = adapter.settled
      <3>1. {Out} \in SUBSET Chans /\ "destination" \in Groups
        BY DEF Chans, Groups
      <3>2. QED
        BY <1>0, <1>6, <3>1, JoinEffect, DialEffect, ReturnsEffect, RingGroupEffect DEF JoinedStep, DialledStep
    <2>3. QED
      BY <2>1, <2>2 DEF Settled
  <1>7. CASE HangupRequest \/ Sweep
    BY <1>7, EndedEffect DEF EndedStep, CutFits, Cut
  <1>8. CASE Crash
    BY <1>0, <1>8, CrashEffect DEF CrashStep, CutFits, Group
  <1>9. QED
    BY <1>1, <1>2, <1>3, <1>4, <1>5, <1>6, <1>7, <1>8, SplitNext

\* And so has whatever cuts off the phone that picked up.
LEMMA CutsAfter ==
  ASSUME Inv, CutsFit, [Next]_vars, Picking', pickup'.leg \in drops' \/ chan'[pickup'.leg] = "gone"
  PROVE  Cut(pickup.leg)'
  <1>0. TypeOK /\ PhaseFits /\ GroupsFit /\ EventsFit /\ LegFits /\ Legs \subseteq Chans /\ Out \notin Legs
        /\ \A x \in Legs : Cut(x) => Cut(x)'
    BY CutKept, DirectAssumption DEF Inv, Chans
  <1>1. CASE WorldStep
    <2>1. WorldFrame /\ ChanMoves
      BY <1>0, <1>1, WorldEffect
    <2>2. pickup' = pickup /\ Picking /\ pickup.leg \in Legs /\ chan[pickup.leg] \in {"up", "gone"}
      BY <1>0, <2>1 DEF WorldFrame, Picking, LegFits
    <2>3. history'.ended \/ pickup.leg \in drops \/ chan[pickup.leg] = "gone"
      BY <1>0, <2>1, <2>2 DEF ChanMoves
    <2>4. QED
      BY <1>0, <2>2, <2>3 DEF CutsFit, Cut
  <1>2. CASE RowActions \/ UNCHANGED vars
    <2>1. UNCHANGED <<chan, drops, pickup>>
      BY <1>0, <1>2, RowEffect DEF RowStep, vars
    <2>2. QED
      BY <1>0, <2>1 DEF CutsFit, Picking, LegFits
  <1>3. CASE CreateBridge \/ (\E z \in Chans : OriginateLeg(z)) \/ Ring
    BY <1>0, <1>3, StartEffect, RingEffect DEF StartStep, RingStep, PhaseFits, Fresh, Picking
  <1>4. CASE HandleEvent
    <2>1. EventFrame /\ events # <<>>
      BY <1>4, EventEffect
    <2>2. PICK z \in Chans : AnswerStep(z) \/ IdleEvent(z) \/ EndEvent(z)
      BY <1>4, EventEffect
    <2>3. CASE AnswerStep(z)
      <3>1. z \in Legs /\ Group(z) = "extension" /\ ~Settled("extension") /\ pickup'.leg = z
        BY <1>0, <2>3 DEF AnswerStep, GroupsFit
      <3>2. z \in drops' => z \in drops
        BY <2>3 DEF AnswerStep
      <3>3. Queued(<<"up", z>>)
        <4>1. Head(events) = <<"up", z>>
          BY <2>3 DEF AnswerStep
        <4>2. QED
          BY <1>0, <1>4, <4>1, EventEffect, QueueTail
      <3>4. CutFits(z) /\ chan' = chan
        BY <2>1, <3>1 DEF CutsFit, EventFrame
      <3>5. QED
        BY <1>0, <3>1, <3>2, <3>3, <3>4 DEF CutFits
    <2>4. CASE IdleEvent(z)
      BY <1>0, <2>1, <2>4 DEF IdleEvent, EventFrame, CutsFit, Picking, LegFits
    <2>5. CASE EndEvent(z)
      <3>1. pickup' = pickup /\ Picking /\ pickup.leg \in Legs /\ chan' = chan
        BY <1>0, <2>1, <2>5 DEF EndEvent, Picking, LegFits, EventFrame
      <3>2. pickup.step # "over" /\ Settled("extension")
        BY <1>0, <3>1 DEF Picking, GroupsFit
      <3>3. z \in Legs /\ chan[z] = "gone"
        BY <2>1, <2>5, <3>2, EndedPhone
      <3>4. CASE z = pickup.leg
        BY <1>0, <3>1, <3>3, <3>4 DEF CutsFit
      <3>5. CASE z # pickup.leg
        BY <1>0, <3>1, <3>3, <3>5 DEF Cut
      <3>6. QED
        BY <3>4, <3>5
    <2>6. QED
      BY <2>2, <2>3, <2>4, <2>5
  <1>5. CASE JoinBridge \/ Dial \/ DialReturns
    <2>1. JoinedStep \/ DialledStep \/ ReturnedStep
      BY <1>0, <1>5, JoinEffect, DialEffect, ReturnsEffect
    <2>2. /\ Picking /\ pickup'.leg = pickup.leg /\ pickup.leg \in Legs /\ drops' = drops
          /\ chan'[pickup.leg] = chan[pickup.leg]
      BY <1>0, <2>1, Types DEF JoinedStep, DialledStep, ReturnedStep, Nothing, Picking, LegFits
    <2>3. QED
      BY <1>0, <2>2 DEF CutsFit
  <1>6. CASE HangupRequest \/ Sweep
    BY <1>6, EndedEffect DEF EndedStep, Cut
  <1>7. CASE Crash
    BY <1>0, <1>7, CrashEffect DEF CrashStep, Picking
  <1>8. QED
    BY <1>1, <1>2, <1>3, <1>4, <1>5, <1>6, <1>7, SplitNext

LEMMA CutsNext ==
  ASSUME Inv, CutsFit, [Next]_vars
  PROVE  CutsFit'
  BY CutsBefore, CutsAfter DEF CutsFit, Settled

\* What a step does to the channels of the session and those being hung up.
LEMMA ChannelsNext ==
  ASSUME Inv, ChannelsFit, [Next]_vars
  PROVE  ChannelsFit'
  <1>0. /\ TypeOK /\ PhaseFits /\ GroupsFit /\ Legs \subseteq Chans /\ Out \in Chans /\ Out \notin Legs
        /\ chan \in [Chans -> ChanStates]
    BY DirectAssumption, Types DEF Inv, Chans
  <1> DEFINE Held == session.channels \cup drops
  <1>1. CASE WorldStep
    <2>1. WorldFrame /\ ChanMoves /\ (Quiet' => Quiet)
      BY <1>0, <1>1, WorldEffect DEF Remembers, Quiet
    <2>2. ASSUME Quiet', NEW y \in Chans, Live(y)'
          PROVE  Live(y) /\ (y \in Held => y \in Held')
      BY <2>1, <2>2 DEF ChanMoves, Live, WorldFrame, Quiet
    <2>3. QED
      BY <1>0, <2>1, <2>2 DEF ChannelsFit, WorldFrame
  <1>2. CASE RowActions \/ UNCHANGED vars
    <2>1. UNCHANGED <<chan, drops, session, pickup, request>> /\ (Quiet' => Quiet)
      BY <1>0, <1>2, RowEffect DEF RowStep, Remembers, Quiet, vars
    <2>2. QED
      BY <2>1 DEF ChannelsFit, Live
  <1>3. CASE CreateBridge \/ \E x \in Chans : OriginateLeg(x)
    BY <1>0, <1>3, StartEffect DEF StartStep, ChannelsFit, Live, Quiet
  <1>4. CASE Ring
    BY <1>0, <1>4, RingEffect DEF RingStep, ChannelsFit, Live, Quiet, Made, PhaseFits, Fresh
  <1>5. CASE HandleEvent
    <2>1. EventFrame
      BY <1>5, EventEffect
    <2>2. PICK x \in Chans : AnswerStep(x) \/ IdleEvent(x) \/ EndEvent(x)
      BY <1>5, EventEffect
    <2>3. Held \subseteq Held'
      BY <1>0, <2>2, StepsClean, CleanedEffect, SessionParts, Types
      DEF AnswerStep, IdleEvent, GroupsFit
    <2>4. pickup.step = "dialled" => pickup' = pickup
      BY <1>0, <2>2 DEF AnswerStep, IdleEvent, EndEvent, GroupsFit
    <2>5. QED
      BY <2>1, <2>3, <2>4 DEF EventFrame, ChannelsFit, Live, Quiet
  <1>6. CASE JoinBridge \/ Dial
    <2>1. PickedFrame /\ (Quiet' => Quiet) /\ (JoinedStep \/ DialledStep)
      BY <1>0, <1>6, JoinEffect, DialEffect DEF Remembers, Quiet
    <2>2. Held \subseteq Held'
      BY <1>0, <2>1, StepsClean, CleanedEffect DEF Nothing
    <2>3. /\ \A y \in Legs : chan'[y] = chan[y]
          /\ chan'[Out] = chan[Out] \/ pickup'.step = "dialled"
          /\ pickup.step # "dialled"
      BY <1>0, <2>1 DEF JoinedStep, DialledStep
    <2>4. QED
      BY <2>1, <2>2, <2>3 DEF PickedFrame, ChannelsFit, Live
  <1>7. CASE DialReturns
    BY <1>0, <1>7, ReturnsEffect DEF ReturnedStep, PickedFrame, ChannelsFit, Live, Quiet
  <1>8. CASE HangupRequest \/ Sweep
    <2>1. EndedStep /\ request # "originating"
      BY <1>0, <1>8, EndedEffect DEF PhaseFits, Fresh
    <2>2. Held \subseteq Held'
      <3>1. CASE Cleaned
        BY <1>0, <3>1, CleanedEffect
      <3>2. CASE session' = session /\ drops' \in {drops, drops \cup {session.first}}
        BY <3>2
      <3>3. QED
        BY <2>1, <3>1, <3>2 DEF EndedStep, Cleaned
    <2>3. QED
      BY <2>1, <2>2 DEF EndedStep, ChannelsFit, Live, Quiet
  <1>9. CASE Crash
    BY <1>0, <1>9, CrashEffect DEF CrashStep, ChannelsFit, Quiet
  <1>10. QED
    BY <1>1, <1>2, <1>3, <1>4, <1>5, <1>6, <1>7, <1>8, <1>9, SplitNext

LEMMA ClosingNext ==
  ASSUME Inv, ClosingFits, [Next]_vars
  PROVE  ClosingFits'
  <1>0. /\ TypeOK /\ PhaseFits /\ GroupsFit /\ Out \notin Legs
    BY DirectAssumption DEF Inv
  <1>1. CASE WorldStep
    BY <1>0, <1>1, WorldEffect DEF WorldFrame, Remembers, Quiet, ClosingFits, Calling
  <1>2. CASE RowActions
    <2>1. RowStep /\ (Quiet' => Quiet)
      BY <1>0, <1>2, RowEffect DEF RowStep, Remembers, Quiet
    <2>2. writes' \cap Closes # {} => writes \cap Closes # {}
      BY <2>1 DEF RowStep
    <2>3. QED
      BY <2>1, <2>2 DEF RowStep, ClosingFits, Calling
  <1>3. CASE CreateBridge \/ (\E x \in Chans : OriginateLeg(x))
    BY <1>0, <1>3, StartEffect DEF StartStep, ClosingFits, PhaseFits, Fresh
  <1>4. CASE Ring
    <2>1. RingStep /\ row = "NONE" /\ writes = {} /\ session.channels = {}
      BY <1>0, <1>4, RingEffect DEF RingStep, PhaseFits, Fresh
    <2>2. CASE request' = "refused"
      BY <2>1, <2>2 DEF RingStep, ClosingFits
    <2>3. CASE request' = "placed"
      BY <2>1, <2>3 DEF RingStep, ClosingFits, Closing, Closes
    <2>4. QED
      BY <2>1, <2>2, <2>3 DEF RingStep
  <1>5. CASE HandleEvent
    <2>1. EventFrame
      BY <1>5, EventEffect
    <2>2. PICK x \in Chans : AnswerStep(x) \/ IdleEvent(x) \/ EndEvent(x)
      BY <1>5, EventEffect
    <2>3. CASE AnswerStep(x) \/ IdleEvent(x)
      BY <2>1, <2>3 DEF AnswerStep, IdleEvent, EventFrame, ClosingFits, Quiet, Calling
    <2>4. CASE EndEvent(x)
      BY <1>0, <2>4, StepsClean, CleanedEffect DEF ClosingFits
    <2>5. QED
      BY <2>2, <2>3, <2>4
  <1>6. CASE JoinBridge \/ Dial
    <2>1. PickedFrame /\ (Quiet' => Quiet) /\ (JoinedStep \/ DialledStep)
      BY <1>0, <1>6, JoinEffect, DialEffect DEF Remembers, Quiet
    <2>2. CASE Nothing
      BY <2>1, <2>2 DEF Nothing, PickedFrame, ClosingFits, Calling
    <2>3. CASE Cleaned
      BY <1>0, <2>3, CleanedEffect DEF ClosingFits
    <2>4. QED
      BY <2>1, <2>2, <2>3, StepsClean
  <1>7. CASE DialReturns
    BY <1>0, <1>7, ReturnsEffect DEF ReturnedStep, PickedFrame, ClosingFits, Quiet, Calling
  <1>8. CASE HangupRequest \/ Sweep
    <2>1. EndedStep /\ (Quiet' => Calling)
      BY <1>0, <1>8, EndedEffect DEF EndedStep, PhaseFits, Fresh, Quiet, Calling, TypeOK
    <2>2. CASE Cleaned
      BY <1>0, <2>2, CleanedEffect DEF ClosingFits
    <2>3. CASE session' = session /\ (Calling => session.first \notin session.index)
      BY <2>1, <2>3 DEF EndedStep, ClosingFits, Quiet
    <2>4. QED
      BY <2>1, <2>2, <2>3 DEF EndedStep, Cleaned
  <1>9. CASE Crash
    BY <1>0, <1>9, CrashEffect DEF CrashStep, ClosingFits, Quiet
  <1>10. CASE UNCHANGED vars
    BY <1>10 DEF vars, ClosingFits, Quiet, Calling
  <1>11. QED
    BY <1>1, <1>2, <1>3, <1>4, <1>5, <1>6, <1>7, <1>8, <1>9, <1>10, SplitNext

\* Whoever answers and whoever hangs up, somebody is left to release the bridge.
LEMMA BridgeNext ==
  ASSUME Inv, BridgeIsHeld, [Next]_vars
  PROVE  BridgeIsHeld'
  <1>0. TypeOK /\ PhaseFits /\ GroupsFit
    BY DEF Inv
  <1>1. CASE WorldStep
    BY <1>0, <1>1, WorldEffect DEF WorldFrame, BridgeIsHeld
  <1>2. CASE RowActions
    BY <1>0, <1>2, RowEffect DEF RowStep, BridgeIsHeld
  <1>3. CASE CreateBridge \/ (\E x \in Chans : OriginateLeg(x))
    BY <1>3, StartEffect DEF StartStep, BridgeIsHeld
  <1>4. CASE Ring
    BY <1>0, <1>4, RingEffect DEF RingStep, BridgeIsHeld
  <1>5. CASE HandleEvent
    <2>1. EventFrame
      BY <1>5, EventEffect
    <2>2. PICK x \in Chans : AnswerStep(x) \/ IdleEvent(x) \/ EndEvent(x)
      BY <1>5, EventEffect
    <2>3. CASE AnswerStep(x) \/ IdleEvent(x)
      BY <2>1, <2>3 DEF AnswerStep, IdleEvent, EventFrame, BridgeIsHeld
    <2>4. CASE EndEvent(x)
      BY <1>0, <2>4, StepsClean, CleanedEffect DEF BridgeIsHeld
    <2>5. QED
      BY <2>2, <2>3, <2>4
  <1>6. CASE JoinBridge \/ Dial
    <2>1. PickedFrame /\ history'.crashed = history.crashed /\ (JoinedStep \/ DialledStep)
      BY <1>0, <1>6, JoinEffect, DialEffect
    <2>2. CASE Nothing
      BY <2>1, <2>2 DEF Nothing, PickedFrame, BridgeIsHeld
    <2>3. CASE Cleaned
      BY <1>0, <2>3, CleanedEffect DEF BridgeIsHeld
    <2>4. QED
      BY <2>1, <2>2, <2>3, StepsClean
  <1>7. CASE DialReturns
    BY <1>0, <1>7, ReturnsEffect DEF ReturnedStep, BridgeIsHeld
  <1>8. CASE HangupRequest \/ Sweep
    <2>1. EndedStep /\ request # "originating"
      BY <1>0, <1>8, EndedEffect DEF PhaseFits, Fresh
    <2>2. QED
      BY <1>0, <2>1, StepsClean, CleanedEffect DEF EndedStep, BridgeIsHeld
  <1>9. CASE Crash
    BY <1>0, <1>9, CrashEffect DEF CrashStep, BridgeIsHeld
  <1>10. CASE UNCHANGED vars
    BY <1>10 DEF vars, BridgeIsHeld
  <1>11. QED
    BY <1>1, <1>2, <1>3, <1>4, <1>5, <1>6, <1>7, <1>8, <1>9, <1>10, SplitNext

\* The destination is dialled once, for a phone that the session still has.
LEMMA OutNext ==
  ASSUME Inv, ChannelsFit, OutFits, [Next]_vars
  PROVE  OutFits'
  <1>0. /\ TypeOK /\ PhaseFits /\ GroupsFit /\ LegFits /\ EventsFit
        /\ Legs \subseteq Chans /\ Out \in Chans /\ Out \notin Legs
        /\ chan \in [Chans -> ChanStates] /\ pickup \in Pickup
        /\ (Picking \/ pickup.step \in {"none", "over"})
    BY DirectAssumption, Types DEF Inv, Chans, Pickup, Picking
  <1>1. CASE WorldStep
    <2>1. WorldFrame /\ ChanMoves /\ EventsMove /\ (Quiet' => Quiet) /\ history'.lateDial = history.lateDial
      BY <1>0, <1>1, WorldEffect DEF Remembers, Quiet
    <2>2. chan[Out] = "none" => chan'[Out] = "none"
      BY <1>0, <2>1 DEF ChanMoves
    <2>3. ASSUME Quiet', pickup.leg \in Legs, LegHolds PROVE LegHolds'
      <3>1. PICK leg \in Legs : leg = pickup.leg
        BY <2>3
      <3>2. /\ Queued(<<"end", leg>>) => Queued(<<"end", leg>>)'
            /\ chan[leg] = "up" /\ chan'[leg] # "up" => Queued(<<"end", leg>>)'
        BY <1>0, <2>1, <2>3, QueueMoves
      <3>3. pickup' = pickup /\ session' = session
        BY <2>1 DEF WorldFrame
      <3>4. QED
        BY <2>3, <3>1, <3>2, <3>3 DEF LegHolds, Queued
    <2>4. ASSUME Quiet', Live(Out)' PROVE Live(Out) /\ (Out \in drops => Out \in drops')
      BY <1>0, <2>1, <2>4 DEF ChanMoves, Live, Quiet
    <2>5. Picking => pickup.leg \in Legs
      BY <1>0 DEF LegFits
    <2>6. QED
      BY <2>1, <2>2, <2>3, <2>4, <2>5 DEF WorldFrame, OutFits, Picking
  <1>2. CASE RowActions \/ UNCHANGED vars
    <2>1. UNCHANGED <<chan, events, drops, session, pickup>> /\ (Quiet' => Quiet)
          /\ history'.lateDial = history.lateDial
      BY <1>0, <1>2, RowEffect DEF RowStep, Remembers, Quiet, vars
    <2>2. QED
      BY <2>1 DEF OutFits, LegHolds, Queued, Live, Picking
  <1>3. CASE CreateBridge \/ (\E x \in Chans : OriginateLeg(x)) \/ Ring
    <2>1. /\ pickup' = pickup /\ pickup.step = "none" /\ (Quiet' => Quiet)
          /\ chan'[Out] = chan[Out]
      BY <1>0, <1>3, StartEffect, RingEffect DEF StartStep, RingStep, PhaseFits, Fresh, Quiet
    <2>2. QED
      BY <2>1 DEF OutFits, Picking
  <1>4. CASE HandleEvent
    <2>1. EventFrame /\ events # <<>> /\ events' = Tail(events)
      BY <1>4, EventEffect
    <2>2. PICK x \in Chans : AnswerStep(x) \/ IdleEvent(x) \/ EndEvent(x)
      BY <1>4, EventEffect
    <2>3. CASE AnswerStep(x)
      <3>1. pickup.step = "none" /\ x \in Legs /\ x \in session.all
        BY <1>0, <2>3 DEF AnswerStep, GroupsFit
      <3>2. session.index # {} => x \in session.index
        BY <1>0, <3>1 DEF GroupsFit
      <3>3. events \in Seq(Event) /\ 1 \in DOMAIN events /\ events[1] = <<"up", x>>
        BY <1>0, <2>1, <2>3, Types, TailParts DEF AnswerStep
      <3>4. chan[x] \in {"up", "gone"}
            /\ (Quiet /\ chan[x] = "gone" => \E j \in DOMAIN events : j > 1 /\ events[j] = <<"end", x>>)
        BY <1>0, <3>1, <3>3 DEF EventsFit, EventFits
      <3>5. Quiet /\ chan[x] = "gone" => Queued(<<"end", x>>)
        BY <3>4 DEF Queued
      <3>6. Quiet /\ chan[x] = "gone" => Queued(<<"end", x>>)'
        <4>1. Head(events) # <<"end", x>>
          BY <2>3 DEF AnswerStep
        <4>2. QED
          BY <1>0, <2>1, <3>5, <4>1, QueueTail
      <3>7. Quiet /\ session.index # {} => LegHolds'
        BY <2>1, <2>3, <3>2, <3>4, <3>6 DEF AnswerStep, EventFrame, LegHolds
      <3>8. QED
        BY <2>1, <2>3, <3>1, <3>7 DEF AnswerStep, EventFrame, OutFits, Quiet
    <2>4. CASE IdleEvent(x)
      <3>1. ASSUME Quiet, pickup.step # "none", pickup.leg \in Legs, LegHolds PROVE LegHolds'
        <4>1. Group(pickup.leg) = "none"
          <5>1. Settled("extension")
            BY <1>0, <3>1 DEF GroupsFit
          <5>2. Group(pickup.leg) \in {"none", "extension", "destination"}
            BY <1>0, <3>1, AdapterParts DEF Group, Groups
          <5>3. QED
            BY <1>0, <3>1, <5>1, <5>2 DEF GroupsFit
        <4>2. Head(events) # <<"end", pickup.leg>> \/ x # pickup.leg
          BY <2>4, <3>1, <4>1 DEF IdleEvent, LegHolds
        <4>3. Head(events) \in {<<"up", x>>, <<"end", x>>}
          BY <2>4 DEF IdleEvent
        <4>4. PICK leg : leg = pickup.leg
          OBVIOUS
        <4>5. Queued(<<"end", leg>>) => Queued(<<"end", leg>>)'
          BY <1>0, <2>1, <4>2, <4>3, <4>4, QueueTail
        <4>6. pickup' = pickup /\ session' = session /\ chan' = chan
          BY <2>1, <2>4 DEF IdleEvent, EventFrame
        <4>7. QED
          BY <3>1, <4>4, <4>5, <4>6 DEF LegHolds, Queued
      <3>2. Picking => pickup.leg \in Legs
        BY <1>0 DEF LegFits
      <3>3. QED
        BY <1>0, <2>1, <2>4, <3>1, <3>2 DEF IdleEvent, EventFrame, OutFits, Live, Quiet, Picking
    <2>5. CASE EndEvent(x)
      <3>1. drops' = drops \cup session.channels /\ session'.index = {} /\ pickup' = pickup
        BY <1>0, <2>5, StepsClean, CleanedEffect DEF EndEvent
      <3>2. QED
        BY <2>1, <3>1 DEF EventFrame, OutFits, Live, Quiet, Picking
    <2>6. QED
      BY <2>2, <2>3, <2>4, <2>5
  <1>5. CASE JoinBridge \/ Dial
    <2>1. /\ PickedFrame /\ (Quiet' => Quiet) /\ (JoinedStep \/ DialledStep)
          /\ history'.lateDial = history.lateDial
      BY <1>0, <1>5, JoinEffect, DialEffect DEF Remembers, Quiet
    <2>2. /\ pickup'.leg = pickup.leg /\ pickup.leg \in Legs /\ Picking /\ pickup.step \in {"bridge", "dial"}
          /\ chan'[pickup.leg] = chan[pickup.leg]
      BY <1>0, <2>1 DEF JoinedStep, DialledStep, Picking, LegFits
    <2>3. CASE Nothing
      <3>1. LegHolds => LegHolds'
        BY <2>1, <2>2, <2>3 DEF LegHolds, Nothing, PickedFrame, Queued
      <3>2. pickup'.step = "dialled" \/ (pickup'.step = "dial" /\ chan' = chan)
            \/ (pickup'.step = "over" /\ chan' = chan)
        BY <2>1 DEF JoinedStep, DialledStep
      <3>3. QED
        BY <2>1, <2>2, <2>3, <3>1, <3>2 DEF Nothing, OutFits, Picking, Live
    <2>4. CASE pickup'.step = "over" /\ chan' = chan
      BY <2>1, <2>2, <2>4 DEF OutFits, Picking, Live
    <2>5. QED
      BY <2>1, <2>3, <2>4 DEF JoinedStep, DialledStep
  <1>6. CASE DialReturns
    <2>1. ReturnedStep /\ PickedFrame /\ Picking /\ pickup.leg \in Legs
      BY <1>0, <1>6, ReturnsEffect DEF ReturnedStep, Picking, LegFits
    <2>2. LegHolds => LegHolds'
      BY <2>1 DEF LegHolds, ReturnedStep, PickedFrame, Queued
    <2>3. Quiet /\ ~history'.lateDial => LegHolds /\ Out \in session'.channels
      BY <2>1 DEF ReturnedStep, OutFits
    <2>4. QED
      BY <2>1, <2>2, <2>3 DEF ReturnedStep, OutFits, Picking, Quiet
  <1>7. CASE HangupRequest \/ Sweep
    <2>1. EndedStep
      BY <1>0, <1>7, EndedEffect
    <2>2. CASE Cleaned
      <3>1. drops' = drops \cup session.channels /\ session'.index = {} /\ pickup' = pickup
        BY <1>0, <2>1, <2>2, CleanedEffect DEF EndedStep
      <3>2. QED
        BY <2>1, <3>1 DEF EndedStep, OutFits, Live, Quiet, Picking
    <2>3. CASE session' = session /\ drops' \in {drops, drops \cup {session.first}}
      BY <2>1, <2>3 DEF EndedStep, OutFits, Live, Quiet, Picking, LegHolds, Queued
    <2>4. QED
      BY <2>1, <2>2, <2>3 DEF EndedStep, Cleaned
  <1>8. CASE Crash
    BY <1>0, <1>8, CrashEffect DEF CrashStep, OutFits, Quiet
  <1>9. QED
    BY <1>1, <1>2, <1>3, <1>4, <1>5, <1>6, <1>7, <1>8, SplitNext

-----------------------------------------------------------------------------
(* The theorems.                                                           *)

LEMMA InitFits ==
  ASSUME Init
  PROVE  Inv /\ CutsFit /\ ChannelsFit /\ ClosingFits /\ OutFits /\ BridgeIsHeld
  <1>1. /\ request = "idle" /\ bridge = "none" /\ events = <<>> /\ drops = {} /\ writes = {}
        /\ row = "NONE" /\ old = FALSE
        /\ chan \in [Chans -> ChanStates] /\ \A x \in Chans : chan[x] = "none"
    BY DEF Init, ChanStates
  <1>2. /\ adapter \in Adapter /\ \A x \in Chans : adapter.group[x] = "none"
        /\ \A g \in Groups : ~adapter.settled[g]
    BY DEF Init, Adapter
  <1>3. /\ session \in Session /\ session.channels = {} /\ session.all = {} /\ session.index = {}
        /\ pickup \in Pickup /\ pickup.step = "none"
        /\ history \in History /\ history.faults = 0 /\ ~history.crashed
    BY DEF Init, Session, Pickup, History, Chans
  <1>4. Legs \subseteq Chans /\ Out \in Chans /\ "extension" \in Groups /\ "destination" \in Groups
    BY DEF Chans, Groups
  <1>5. TypeOK
    <2>1. events \in Seq(Event)
      BY <1>1
    <2>2. QED
      BY <1>1, <1>2, <1>3, <2>1, TypesBack
  <1>6. PhaseFits /\ GroupsFit /\ LegFits /\ EventsFit
    BY <1>1, <1>2, <1>3, <1>4 DEF PhaseFits, GroupsFit, LegFits, EventsFit, Fresh, Calling, Picking,
       Group, Settled, Quiet
  <1>7. CutsFit /\ ChannelsFit /\ ClosingFits /\ OutFits /\ BridgeIsHeld
    <2>1. \A x \in Legs : ~Live(x) /\ CutFits(x)
      BY <1>1, <1>2, <1>4 DEF Live, CutFits, Group
    <2>2. QED
      BY <1>1, <1>3, <1>4, <2>1 DEF CutsFit, ChannelsFit, ClosingFits, OutFits, BridgeIsHeld, Picking, Live
  <1>8. QED
    BY <1>5, <1>6, <1>7 DEF Inv

\* The types of a direct call, and what its maps, its events and its request have to
\* do with one another.
LEMMA InvAlways == Spec => []Inv
  <1>1. Init => Inv
    BY InitFits
  <1>2. Inv /\ [Next]_vars => Inv'
    BY InvNext
  <1>3. QED
    BY <1>1, <1>2, PTL DEF Spec

LEMMA ChannelsAlways == Spec => []ChannelsFit
  <1>1. Init => ChannelsFit
    BY InitFits
  <1>2. Inv /\ ChannelsFit /\ [Next]_vars => ChannelsFit'
    BY ChannelsNext
  <1>3. QED
    BY <1>1, <1>2, InvAlways, PTL DEF Spec

\* Whatever an end leaves behind is accounted for: the bridge and the channels still up
\* have somebody who will release them, a row closes only once the phones are off the
\* line or being hung up, and the phone that picked up is cut off early only by an end of
\* the call or because another phone of the extension fell.
THEOREM EndsLeaveNothing == Spec => []NothingIsLeftBehind
  <1>1. Init => CutsFit /\ ClosingFits /\ BridgeIsHeld
    BY InitFits
  <1>2. Inv /\ CutsFit /\ [Next]_vars => CutsFit'
    BY CutsNext
  <1>3. Inv /\ ClosingFits /\ [Next]_vars => ClosingFits'
    BY ClosingNext
  <1>4. Inv /\ BridgeIsHeld /\ [Next]_vars => BridgeIsHeld'
    BY BridgeNext
  <1>5. Inv /\ CutsFit /\ ChannelsFit /\ ClosingFits /\ BridgeIsHeld => NothingIsLeftBehind
    <2> SUFFICES ASSUME Inv, CutsFit, ChannelsFit, ClosingFits, BridgeIsHeld
                 PROVE  NothingIsLeftBehind
      OBVIOUS
    <2>1. TypeOK /\ PhaseFits /\ LegFits /\ (~Quiet => history.faults > 0)
      <3>1. TypeOK /\ history.faults \in Nat
        BY Types DEF Inv, History
      <3>2. QED
        BY <3>1 DEF Inv, Quiet
    <2>2. LiveChannelIsHeld
      BY <2>1 DEF LiveChannelIsHeld, ChannelsFit, Chans
    <2>3. ClosedCallIsOver
      <3>1. ASSUME row \in Closing, NEW x \in Legs, chan[x] = "up", ~(history.faults > 0)
            PROVE  x \in drops
        <4>1. Quiet /\ Live(x) /\ session.channels \cap Legs = {} /\ request # "originating"
          BY <2>1, <3>1 DEF ClosingFits, Live, PhaseFits, Fresh, Closing
        <4>2. QED
          BY <4>1 DEF ChannelsFit
      <3>2. QED
        BY <3>1 DEF ClosedCallIsOver
    <2>4. AnsweredLegIsCutForACause
      <3>1. ASSUME pickup.step \in {"dial", "dialled"}, chan[pickup.leg] = "gone", ~history.ended
            PROVE  \E x \in Legs \ {pickup.leg} : ~Live(x)
        <4>1. Cut(pickup.leg)
          BY <3>1 DEF CutsFit, Picking
        <4>2. QED
          BY <3>1, <4>1 DEF Cut, Live
      <3>2. QED
        BY <3>1 DEF AnsweredLegIsCutForACause
    <2>5. QED
      BY <2>1, <2>2, <2>3, <2>4 DEF NothingIsLeftBehind
  <1>6. QED
    BY <1>1, <1>2, <1>3, <1>4, <1>5, InvAlways, ChannelsAlways, PTL DEF Spec

\* The destination is on the line with nobody on this side only while the end of the
\* phone's channel waits to be handled, while it is being dialled or hung up, or because
\* the call was cleaned up while the dial was under way.
THEOREM DestinationNeverAlone == Spec => []DestinationIsNotAlone
  <1>1. Init => OutFits
    BY InitFits
  <1>2. Inv /\ ChannelsFit /\ OutFits /\ [Next]_vars => OutFits'
    BY OutNext
  <1>3. Inv /\ OutFits => DestinationIsNotAlone
    <2> SUFFICES ASSUME Inv, OutFits, Live(Out), \A x \in Legs : ~Live(x),
                        Out \notin drops, pickup.step # "dialled", ~history.lateDial,
                        ~(history.faults > 0)
                 PROVE  \E x \in Legs : <<"end", x>> \in {events[i] : i \in DOMAIN events}
      BY DEF DestinationIsNotAlone
    <2>1. Quiet /\ pickup \in Pickup
      BY Types DEF Inv, History, Quiet
    <2>2. pickup.step = "over"
      BY <2>1 DEF OutFits, Live, Pickup
    <2>3. pickup.leg \in Legs /\ LegHolds
      BY <2>1, <2>2 DEF OutFits
    <2>4. Queued(<<"end", pickup.leg>>)
      BY <2>3 DEF LegHolds, Live
    <2>5. QED
      BY <2>3, <2>4 DEF Queued
  <1>4. QED
    BY <1>1, <1>2, <1>3, InvAlways, ChannelsAlways, PTL DEF Spec
=============================================================================
