-------------------------------- MODULE ApiKeys --------------------------------
(***************************************************************************)
(* API keys of one tenant: created, changed and revoked by its users or by *)
(* administrators, and the requests they let in: the key, then the address *)
(* it comes from, then the scope.                                          *)
(*                                                                         *)
(* An address is a number of Width bits in one of two families; the third  *)
(* form is a v4 address written in the v6 family, as a dual-stack socket   *)
(* gives it.                                                               *)
(***************************************************************************)
EXTENDS Naturals, FiniteSets

CONSTANTS Keys,       \* bound: keys created
          KeyOps,     \* bound: changes of keys at once
          Requests,   \* bound: requests at once
          Scopes,     \* the scopes, "*" aside
          Width,      \* bits of an address (32 and 128 in the code)
          AllowLists  \* bound: lists of allowed origins one may write

VARIABLES
  closed,   \* the tenant is suspended or closed
  keys,     \* the ApiKey rows
  keyOps,   \* changes between their read and their write
  keyRequests  \* requests with a key, by the answer they got

keysVars == <<closed, keys, keyOps, keyRequests>>

-----------------------------------------------------------------------------
(* Addresses and blocks (ipAllowlist.ts).                                  *)

AddressForms == {"v4", "v6", "mapped"}
Addresses == [form: AddressForms, value: 0..(2^Width - 1)]
\* A single address is a block of all its bits.
Entries == [form: AddressForms, value: 0..(2^Width - 1), bits: 0..Width]

ASSUME KeysAssumption ==
  /\ IsFiniteSet(Keys) /\ IsFiniteSet(KeyOps) /\ IsFiniteSet(Requests)
  /\ IsFiniteSet(Scopes) /\ Width \in Nat
  /\ AllowLists \subseteq SUBSET Entries /\ {} \in AllowLists

Normal(a) == IF a.form = "mapped" THEN [a EXCEPT !.form = "v4"] ELSE a
Prefix(v, bits) == (v \div 2^(Width - bits)) * 2^(Width - bits)
\* Mutant: the base of a block keeps the bits beyond its prefix.
ParseUnmasked(e) == [form |-> Normal(e).form, base |-> e.value, bits |-> e.bits]
ParseCidr(e) ==
  [form |-> Normal(e).form, base |-> Prefix(e.value, e.bits), bits |-> e.bits]
\* An empty list lets every origin in.
MatchesAllowlist(a, allowed) ==
  allowed = {} \/ \E e \in allowed :
    LET block == ParseCidr(e) IN
    /\ block.form = Normal(a).form
    /\ Prefix(a.value, block.bits) = block.base

-----------------------------------------------------------------------------
Key == [state: {"none", "live", "revoked"}, scopes: SUBSET (Scopes \cup {"*"}),
        allowed: AllowLists]
NoKey == [state |-> "none", scopes |-> {}, allowed |-> {}]
IdleKeyOp == [op |-> "none", key |-> "none"]
NewRequest == [answer |-> "none", from |-> "none", allowed |-> {}]

KeysTypeOK ==
  /\ closed \in BOOLEAN /\ keys \in [Keys -> Key]
  /\ keyOps \in [KeyOps -> [op: {"none", "patch", "revoke"}, key: Keys \cup {"none"}]]
  /\ \A r \in Requests :
       /\ keyRequests[r].answer \in {"none", "ok", "key", "origin", "scope"}
       /\ keyRequests[r].allowed \in AllowLists

KeysInit ==
  /\ closed = FALSE
  /\ keys = [k \in Keys |-> NoKey]
  /\ keyOps = [o \in KeyOps |-> IdleKeyOp]
  /\ keyRequests = [r \in Requests |-> NewRequest]

-----------------------------------------------------------------------------
(* Keys (tenant/api-keys.ts, admin/tenant-api-keys.ts).  A scope outside    *)
(* the list and an origin that does not parse are refused before anything. *)

CreateKey(k) ==
  /\ keys[k].state = "none"
  /\ \E scopes \in SUBSET Scopes \ {{}}, allowed \in AllowLists :
       keys' = [keys EXCEPT ![k] =
         [state |-> "live", scopes |-> scopes, allowed |-> allowed]]
  /\ UNCHANGED <<closed, keyOps, keyRequests>>
AskKeyChange(o, k) ==
  /\ keyOps[o] = IdleKeyOp /\ keys[k].state = "live"
  /\ \E op \in {"patch", "revoke"} :
       keyOps' = [keyOps EXCEPT ![o] = [op |-> op, key |-> k]]
  /\ UNCHANGED <<closed, keys, keyRequests>>
\* Written by id, whatever became of the key since it was read.
PatchKey(o) ==
  LET k == keyOps[o].key IN
  /\ keyOps[o].op = "patch"
  /\ \E scopes \in SUBSET Scopes \ {{}}, allowed \in AllowLists :
       \E changed \in {<<scopes, keys[k].allowed>>, <<keys[k].scopes, allowed>>,
                       <<scopes, allowed>>} :
         keys' = [keys EXCEPT ![k].scopes = changed[1], ![k].allowed = changed[2]]
  /\ keyOps' = [keyOps EXCEPT ![o] = IdleKeyOp]
  /\ UNCHANGED <<closed, keyRequests>>
RevokeKey(o) ==
  /\ keyOps[o].op = "revoke"
  /\ keys' = [keys EXCEPT ![keyOps[o].key].state = "revoked"]
  /\ keyOps' = [keyOps EXCEPT ![o] = IdleKeyOp]
  /\ UNCHANGED <<closed, keyRequests>>
CloseOrReopen ==
  /\ closed' = ~closed /\ UNCHANGED <<keys, keyOps, keyRequests>>

-----------------------------------------------------------------------------
(* Requests (apiKey.service.ts, plugins/apiKeyAuth.ts).                     *)

Resolves(k) == keys[k].state = "live" /\ ~closed
HasScope(k, scope) == {scope, "*"} \cap keys[k].scopes # {}
Verdict(k, a, scope) ==
  IF ~Resolves(k) THEN "key"
  ELSE IF ~MatchesAllowlist(a, keys[k].allowed) THEN "origin"
  ELSE IF ~HasScope(k, scope) THEN "scope"
  ELSE "ok"
\* The handler runs later, with the key as it was.
VerifyScope(r, k) ==
  /\ keyRequests[r].answer = "none"
  /\ \E a \in Addresses, scope \in Scopes :
       keyRequests' = [keyRequests EXCEPT ![r] =
         [answer |-> Verdict(k, a, scope), from |-> a, allowed |-> keys[k].allowed]]
  /\ UNCHANGED <<closed, keys, keyOps>>
EndKeyRequest(r) ==
  /\ keyRequests[r].answer # "none"
  /\ keyRequests' = [keyRequests EXCEPT ![r] = NewRequest]
  /\ UNCHANGED <<closed, keys, keyOps>>

KeysNext ==
  \/ \E k \in Keys : CreateKey(k) \/ \E o \in KeyOps : AskKeyChange(o, k)
  \/ \E o \in KeyOps : PatchKey(o) \/ RevokeKey(o)
  \/ CloseOrReopen
  \/ \E r \in Requests : EndKeyRequest(r) \/ \E k \in Keys : VerifyScope(r, k)

KeysSpec == KeysInit /\ [][KeysNext]_keysVars

-----------------------------------------------------------------------------
\* The bits of a number, the last one first.
Bit(v, i) == (v \div 2^i) % 2
SamePrefix(v, w, bits) == \A i \in (Width - bits)..(Width - 1) : Bit(v, i) = Bit(w, i)
AddressAllowed(a, allowed) ==
  allowed = {} \/ \E e \in allowed :
    Normal(e).form = Normal(a).form /\ SamePrefix(a.value, e.value, e.bits)
\* The first bits of the address decide, whatever bits the operator wrote after
\* the prefix and however the socket writes a v4 address: a request is refused
\* for its origin exactly when no entry of the list begins like it.
OriginDecidesAdmission ==
  \A r \in Requests :
    LET q == keyRequests[r] IN
    /\ q.answer = "origin" => ~AddressAllowed(q.from, q.allowed)
    /\ q.answer \in {"scope", "ok"} => AddressAllowed(q.from, q.allowed)
=============================================================================
