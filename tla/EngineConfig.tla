------------------------------ MODULE EngineConfig ------------------------------
(***************************************************************************)
(* The rows of trunks and extensions, and what the three generated files   *)
(* of the SIP engine say of them (asteriskRuntime.service.ts,              *)
(* asteriskNaming.ts, trunk.service.ts).  A row is a record; the body of a *)
(* request is a record of the fields it carries.                           *)
(***************************************************************************)
EXTENDS Naturals, TLC

CONSTANTS Trunks,      \* identifiers of trunk rows
          Extensions,  \* identifiers of extension rows
          Shared,      \* the owner of the operator's own trunks
          Safe         \* what `safe` leaves of each trunk name

(***************************************************************************)
(* A trunk row: name, owner, enabled, type, what its host is ("address" or *)
(* "name") and whether a secret is stored.  An extension row: its SIP user *)
(* and whether it is active.                                               *)
(***************************************************************************)
NewTrunkDefaults == [owner |-> Shared, enabled |-> TRUE, type |-> "REGISTER", secret |-> FALSE]
NewExtension(user) == [user |-> user, active |-> TRUE]

(* trunkDataFromBody: the fields that were sent, over those that were stored. *)
TrunkData(body, row) == body @@ row

(* validateTrunkAuth: a peer is known by the address the body gives, if it  *)
(* gives one; a trunk that registers needs a secret, sent or stored.        *)
AuthAccepted(body, row) ==
  LET data == TrunkData(body, row) IN
  IF data.type = "PEER"
    THEN "host" \in DOMAIN body => body.host = "address"
    ELSE data.secret

TrunkEndpointId(row) == Safe[row.name]

Enabled(lines) == {t \in DOMAIN lines : lines[t].enabled}

(* buildConfig: one section per enabled trunk, in the context of its owner, *)
(* with a credential unless it is a peer; two endpoints per extension.      *)
TrunkSections(lines) ==
  {[id |-> TrunkEndpointId(lines[t]), context |-> lines[t].owner,
    type |-> lines[t].type, host |-> lines[t].host] : t \in Enabled(lines)}

ExtensionSections(phones) ==
  {phones[e].user : e \in {x \in DOMAIN phones : phones[x].active}} \X {"ext", "extweb"}

PjsipFile(lines, phones) ==
  [trunks |-> TrunkSections(lines), extensions |-> ExtensionSections(phones)]

(* Only trunks of type REGISTER have a registration section. *)
Registrations(pjsip) == {x \in pjsip.trunks : x.type = "REGISTER"}

(* buildGlobals: the first enabled trunk of a query without an order, so any. *)
GlobalsChoices(lines) ==
  IF Enabled(lines) = {} THEN {""}
  ELSE {TrunkEndpointId(lines[t]) : t \in Enabled(lines)}

(* buildDialplan: an incoming context per tenant with a trunk of its own. *)
DialplanFile(lines) == {lines[t].owner : t \in Enabled(lines)} \ {Shared}
=============================================================================
