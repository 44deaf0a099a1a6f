----------------------------- MODULE MCTelephony -----------------------------
(* Small instances, for TLC, of what surrounds a call: the engine's files,  *)
(* the client's PBX and the connection to it, its lines, the choice of its  *)
(* trunk, the phones and direct calls of the CRM and the calls of           *)
(* administrators.  A behaviour of this run is of one of them, the others   *)
(* being at rest.                                                           *)
EXTENDS EngineSync, Pbx, PbxConnection, TenantLines, TrunkChoice, Webphone, DirectCallPage, AdminCalls

CONSTANTS r1, d1, d2

VARIABLE part

MCSafe == [a |-> "a", b |-> "b"]

\* The trunks an administrator writes, with a name instead of an address or not.
MCRegister == [name |-> "a", host |-> "name", secret |-> TRUE]
MCPeer == [name |-> "b", host |-> "address", type |-> "PEER", owner |-> "w"]
MCNewTrunks == {MCRegister, MCPeer, [MCPeer EXCEPT !.host = "name"]}
MCTrunkEdits == {[enabled |-> FALSE], [type |-> "PEER"], [type |-> "REGISTER", host |-> "name"]}
MCStored == {[trunks |-> NoRows, extensions |-> NoRows, routes |-> {}]} \cup
  {[trunks |-> [t \in Trunks |-> TrunkData(body, NewTrunkDefaults)],
    extensions |-> [n \in Extensions |-> NewExtension("u1")],
    routes |-> IF body = MCPeer THEN {} ELSE {"outbound", "inbound"} \X Trunks] : body \in {MCRegister}}

\* The first two credentials are of one PBX.
MCHost == <<1, 1, 2>>

\* A national number and one with the code of its country.
MCCallee == (d1 :> [plus |-> FALSE, code |-> "", subscriber |-> "9"]) @@
            (d2 :> [plus |-> TRUE, code |-> "244", subscriber |-> "9"])

AtRest ==
  /\ runs[r1] # NoRun       \* the runs of the engine are alike,
  /\ lanes[1].owner # "b"   \* and so are the clients of the trunks
  /\ part # "engine" => trunks = NoRows
  /\ part # "pbx" => ~own /\ \A c \in PCalls : line[c].kind = "INBOUND"
  /\ part # "page" => motor = "asterisk"
  /\ part # "trunk" => \A l \in Lanes : lanes[l].owner = SharedLane

Init == /\ EngineInit /\ PbxInit /\ ConnectionInit /\ LinesInit /\ TrunkInit /\ WebphoneInit
        /\ PageInit /\ AdminInit
        /\ part \in {"engine", "pbx", "connection", "lines", "trunk", "webphone", "page", "admin"}
        /\ AtRest

OfSystem == UNCHANGED <<engineVars, linesVars, trunkVars, part>>
OfClient == UNCHANGED <<pbxVars, connectionVars, webphoneVars, pageVars, adminVars>>

Next ==
  \/ part = "engine" /\ EngineNext /\ OfClient /\ UNCHANGED <<linesVars, trunkVars, part>>
  \/ part = "lines" /\ LinesNext /\ OfClient /\ UNCHANGED <<engineVars, trunkVars, part>>
  \/ part = "trunk" /\ TrunkNext /\ OfClient /\ UNCHANGED <<engineVars, linesVars, part>>
  \/ part = "pbx" /\ PbxNext /\ OfSystem /\ UNCHANGED <<connectionVars, webphoneVars, pageVars, adminVars>>
  \/ part = "connection" /\ ConnectionNext /\ OfSystem /\ UNCHANGED <<pbxVars, webphoneVars, pageVars, adminVars>>
  \/ part = "webphone" /\ WebphoneNext /\ OfSystem /\ UNCHANGED <<pbxVars, connectionVars, pageVars, adminVars>>
  \/ part = "page" /\ PageNext /\ OfSystem /\ UNCHANGED <<pbxVars, connectionVars, webphoneVars, adminVars>>
  \/ part = "admin" /\ AdminNext /\ OfSystem /\ UNCHANGED <<pbxVars, connectionVars, webphoneVars, pageVars>>

Spec == Init /\ [][Next]_<<engineVars, linesVars, trunkVars, pbxVars, connectionVars,
                     webphoneVars, pageVars, adminVars, part>>

\* The part of the state that moves has its type.
TypeOK ==
  CASE part = "engine" -> EngineTypeOK
    [] part = "pbx" -> PbxTypeOK
    [] part = "connection" -> ConnectionTypeOK
    [] part = "lines" -> LinesTypeOK
    [] part = "trunk" -> TrunkTypeOK
    [] part = "webphone" -> WebphoneTypeOK
    [] part = "page" -> PageTypeOK
    [] part = "admin" -> AdminTypeOK

\* What Falai keeps of the client's PBX is what the PBX says: a call that is
\* over is not shown as live, a call the PBX removed is not listed, and a
\* connection said to be on uses credentials the PBX accepts, but for the
\* causes each part names (incomingCalls.service.ts, pbxCdr.service.ts,
\* tenant/pbx.ts, YeastarAdapter.ts).
PbxIsMirrored == TypeOK /\ OverIsNotLive /\ RemovedCallIsListed /\ ConnectedMeansAccepted

\* A call leaves by a line of its own client: at most one of its lines is the
\* outgoing one, and the trunk and number of a call are its client's or
\* shared, but for the causes each part names (admin/tenants.ts lines,
\* AsteriskAdapter.ts trunk cache).
CallsLeaveByTheirLine == OneOutgoingLine /\ CallLeavesByItsTrunk

\* Nothing the CRM has begun escapes the page that began it: what runs of the
\* webphone is what its page holds, and a direct call that goes on is the one
\* its page hangs up, but for the causes each part names
\* (WebphoneContext.tsx, DirectCallPage.tsx).
NothingEscapesThePage == PhoneStaysInThePage /\ LiveCallHasItsButton
=============================================================================
