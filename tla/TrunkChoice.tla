----------------------------- MODULE TrunkChoice -----------------------------
(***************************************************************************)
(* The trunk an outgoing call of the SIP engine leaves by: resolveTrunk of *)
(* apps/api/src/index.ts, the cache and the dial of AsteriskAdapter.ts,    *)
(* and the number the operator is given (asteriskNaming.ts).  Trunks are   *)
(* changed by administrators meanwhile.                                    *)
(***************************************************************************)
EXTENDS Naturals, FiniteSets

CONSTANTS Lanes,        \* trunk rows, by their age: numbers
          Clients,      \* tenants
          Dials,        \* outgoing calls
          Callee,       \* whom each call is for: [plus, code, subscriber] of nine digits
          Format,       \* ASTERISK_DIAL_FORMAT: "national", "cc" or "e164"
          MaxLaneWrites, MaxReadFaults  \* bounds

ASSUME TrunkChoiceAssumption == Lanes \subseteq Nat /\ IsFiniteSet(Lanes)

VARIABLES lanes,    \* [owner, enabled] of each trunk
          cache,    \* of each key, the trunk last read and whether it is still fresh
          dials,    \* the calls
          owned,    \* of each trunk, who has ever owned it
          laneWrites, readFaults

trunkVars == <<lanes, cache, dials, owned, laneWrites, readFaults>>

SharedLane == "shared"
NoClient == "unknown"
\* The codes of Angola, and numbers: one subscriber is of one country, however
\* the number is written.
AngolanCodes == {"", "244", "00244"}
ASSUME CallsAssumption ==
  /\ NoClient \notin Clients
  /\ Callee \in [Dials -> [plus : BOOLEAN, code : STRING, subscriber : STRING]]
  /\ \A d, e \in Dials :
       Callee[d].subscriber = Callee[e].subscriber =>
         \/ Callee[d].code = Callee[e].code
         \/ {Callee[d].code, Callee[e].code} \subseteq AngolanCodes
CacheKeys == Clients \cup {NoClient}
NoLane == 0
NoDial == [client |-> NoClient, at |-> "idle", lane |-> NoLane]

TrunkInit ==
  /\ lanes \in [Lanes -> [owner : Clients \cup {SharedLane}, enabled : {TRUE}]]
  /\ owned = [l \in Lanes |-> {lanes[l].owner}]
  /\ cache = [k \in CacheKeys |-> [lane |-> NoLane, at |-> "absent"]]
  /\ dials = [d \in Dials |-> NoDial] /\ laneWrites = 0 /\ readFaults = 0

(* An administrator gives a trunk to another owner, or turns it on or off. *)
WriteTrunk(l, owner, enabled) ==
  /\ laneWrites < MaxLaneWrites /\ laneWrites' = laneWrites + 1
  /\ lanes' = [lanes EXCEPT ![l] = [owner |-> owner, enabled |-> enabled]]
  /\ owned' = [owned EXCEPT ![l] = @ \cup {owner}]
  /\ UNCHANGED <<cache, dials, readFaults>>

----------------------------------------------------------------------------
(* resolveTrunk: the tenant's own before a shared one, the oldest first;   *)
(* only a shared one when the tenant is not known.                         *)
OfOwner(owner) == {l \in Lanes : lanes[l].enabled /\ lanes[l].owner = owner}
OldestLane(S) == CHOOSE l \in S : \A m \in S : l <= m

ResolveTrunk(client) ==
  LET mine == IF client = NoClient THEN {} ELSE OfOwner(client) IN
  IF mine # {} THEN OldestLane(mine)
  ELSE IF OfOwner(SharedLane) # {} THEN OldestLane(OfOwner(SharedLane)) ELSE NoLane

(* What was read is kept for thirty seconds, for each tenant apart. *)
\* Mutant: one trunk is kept for all tenants.
KeyOfAll(client) == NoClient

CacheKey(client) == client

TrunkExpires(k) == /\ cache[k].at = "fresh"
                   /\ cache' = [cache EXCEPT ![k].at = "stale"]
                   /\ UNCHANGED <<lanes, dials, owned, laneWrites, readFaults>>

(* A call finds what was kept, or asks the database and remembers what was *)
(* kept when it asked.                                                     *)
FindTrunkKept(d, client) ==
  /\ dials[d].at = "idle" /\ cache[CacheKey(client)].at = "fresh"
  /\ dials' = [dials EXCEPT ![d] = [client |-> client, at |-> "dialled", lane |-> cache[CacheKey(client)].lane]]
  /\ UNCHANGED <<lanes, cache, owned, laneWrites, readFaults>>

AskForTrunk(d, client) ==
  /\ dials[d].at = "idle" /\ cache[CacheKey(client)].at # "fresh"
  /\ dials' = [dials EXCEPT ![d] = [client |-> client, at |-> "asking", lane |-> cache[CacheKey(client)].lane]]
  /\ UNCHANGED <<lanes, cache, owned, laneWrites, readFaults>>

ReadTrunk(d) ==
  /\ dials[d].at = "asking"
  /\ dials' = [dials EXCEPT ![d].lane = ResolveTrunk(dials[d].client), ![d].at = "read"]
  /\ UNCHANGED <<lanes, cache, owned, laneWrites, readFaults>>

(* What it keeps may be older than what another call kept meanwhile. *)
KeepTrunk(d) ==
  /\ dials[d].at = "read" /\ dials' = [dials EXCEPT ![d].at = "dialled"]
  /\ cache' = [cache EXCEPT ![CacheKey(dials[d].client)] = [lane |-> dials[d].lane, at |-> "fresh"]]
  /\ UNCHANGED <<lanes, owned, laneWrites, readFaults>>

(* A read that fails falls back on what was kept, however old. *)
ReadTrunkFails(d) ==
  /\ dials[d].at = "asking" /\ dials' = [dials EXCEPT ![d].at = "dialled"]
  /\ readFaults < MaxReadFaults /\ readFaults' = readFaults + 1
  /\ UNCHANGED <<lanes, cache, owned, laneWrites>>

----------------------------------------------------------------------------
(* formatDialNumber: an Angolan number in the operator's format, any other *)
(* one by its digits alone.  With no trunk the number is dialled as it is, *)
(* by the extension.                                                       *)
FormatDialNumber(number) ==
  IF number.code \in AngolanCodes
  THEN [plus |-> Format = "e164", code |-> IF Format = "national" THEN "" ELSE "244",
        subscriber |-> number.subscriber]
  ELSE [number EXCEPT !.plus = FALSE]

Dialled(d) == IF dials[d].lane = NoLane THEN Callee[d] ELSE FormatDialNumber(Callee[d])

HangUpDial(d) == /\ dials[d].at = "dialled"
                 /\ dials' = [dials EXCEPT ![d] = NoDial]
                 /\ UNCHANGED <<lanes, cache, owned, laneWrites, readFaults>>

TrunkNext ==
  \/ \E l \in Lanes, owner \in Clients \cup {SharedLane}, enabled \in BOOLEAN : WriteTrunk(l, owner, enabled)
  \/ \E k \in CacheKeys : TrunkExpires(k)
  \/ \E d \in Dials :
       \/ \E client \in CacheKeys : FindTrunkKept(d, client) \/ AskForTrunk(d, client)
       \/ ReadTrunk(d) \/ KeepTrunk(d) \/ ReadTrunkFails(d) \/ HangUpDial(d)

TrunkSpec == TrunkInit /\ [][TrunkNext]_trunkVars

----------------------------------------------------------------------------
(* Every part of the state has its type. *)
TrunkTypeOK ==
  /\ \A l \in Lanes : lanes[l].owner \in owned[l]
  /\ \A k \in CacheKeys : cache[k].lane \in Lanes \cup {NoLane}
  /\ \A d \in Dials : dials[d].lane \in Lanes \cup {NoLane} /\ dials[d].client \in CacheKeys

(***************************************************************************)
(* A call leaves by a trunk that was its tenant's or shared when it was    *)
(* read, never by one that only others have had, whatever calls share the  *)
(* cache; and a tenant with a trunk of its own from the beginning is not   *)
(* given the operator's, nor a shared number written two ways dialled two  *)
(* ways (index.ts:197-209, AsteriskAdapter.ts:41-45, 88-115).              *)
(***************************************************************************)
CallLeavesByItsTrunk ==
  \A d \in Dials : dials[d].at = "dialled" =>
    LET call == dials[d] IN
    /\ call.lane # NoLane => owned[call.lane] \cap {call.client, SharedLane} # {}
    /\ (laneWrites = 0 /\ readFaults = 0 /\ OfOwner(call.client) # {}) => lanes[call.lane].owner = call.client
    /\ \A e \in Dials : /\ dials[e].at = "dialled" /\ Callee[e].subscriber = Callee[d].subscriber
                        /\ call.lane # NoLane /\ dials[e].lane # NoLane
                        => Dialled(d) = Dialled(e)
=============================================================================
