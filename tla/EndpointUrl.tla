----------------------------- MODULE EndpointUrl -----------------------------
(***************************************************************************)
(* The requests to a tenant's model (packages/providers/src/llm/           *)
(* urlGuard.ts and the post of RemoteModelAdapter.ts): its URL is judged   *)
(* when it is saved and at each request, and each address its name         *)
(* resolves to is judged again where the socket is opened.  Names may      *)
(* resolve to something else at any time.  An address is its 4 or 16       *)
(* bytes.                                                                  *)
(***************************************************************************)
EXTENDS Integers, Sequences, FiniteSets

CONSTANTS Endpoints,  \* URLs a tenant may write: [scheme, credentials, port, host]
          Names,      \* qualified host names
          Answers,    \* sets of addresses a name may resolve to
          PRequests,  \* requests of one process
          Insecure,   \* ALLOW_INSECURE_MODEL_ENDPOINTS
          MaxSockets  \* bound on the sockets open at once

VARIABLES endpoint,  \* endpointUrl of the model, or NoEndpoint
          dns,       \* what each name resolves to
          requests,  \* of each request, where it stands
          sockets    \* sockets kept open: [host, address]

endpointVars == <<endpoint, dns, requests, sockets>>

\* A host is <<"address", bytes>>, <<"name", n>> or <<"blocked", n>>.
NoEndpoint == [scheme |-> "none", credentials |-> FALSE, port |-> 0, host |-> <<"none", "none">>]
AllowedPorts == {443, 80, 8080, 8443}

IsAddress(host) == host[1] = "address"

(* parseIpv4 and parseIpv6: an address, however written, is its bytes. *)
IsV4(a) == Len(a) = 4
IsV6(a) == Len(a) = 16
Bytes == {a \in Seq(0..255) : IsV4(a) \/ IsV6(a)}

ASSUME EndpointAssumption ==
  /\ \A answer \in Answers : answer \subseteq Bytes
  /\ \A u \in Endpoints : /\ u.host[1] = "address" => u.host[2] \in Bytes
                          /\ u.host[1] = "name" => u.host[2] \in Names

----------------------------------------------------------------------------
(* Whether the first bits of an address are those of a network. *)
Least(a, b) == IF a < b THEN a ELSE b

\* Mutant: the octet in which a prefix ends is compared whole.
WholeOctets(a, base, bits) == \A i \in 1..((bits + 7) \div 8) : a[i] = base[i]

InCidr(a, base, bits) ==
  \A i \in 1..Len(base) :
    LET kept == Least(8, bits - 8 * (i - 1)) IN
    kept > 0 => a[i] \div (2 ^ (8 - kept)) = base[i] \div (2 ^ (8 - kept))

BlockedIpv4Cidrs ==
  {<<<<0, 0, 0, 0>>, 8>>, <<<<10, 0, 0, 0>>, 8>>, <<<<100, 64, 0, 0>>, 10>>, <<<<127, 0, 0, 0>>, 8>>,
   <<<<169, 254, 0, 0>>, 16>>, <<<<172, 16, 0, 0>>, 12>>, <<<<192, 168, 0, 0>>, 16>>,
   <<<<192, 0, 0, 0>>, 24>>, <<<<198, 18, 0, 0>>, 15>>, <<<<224, 0, 0, 0>>, 4>>, <<<<240, 0, 0, 0>>, 4>>}

BlockedIpv4(a) == \E cidr \in BlockedIpv4Cidrs : InCidr(a, cidr[1], cidr[2])

ZeroUpTo(a, n) == \A i \in 1..n : a[i] = 0

BlockedIpv6(a) ==
  IF ZeroUpTo(a, 10) /\ a[11] = 255 /\ a[12] = 255
    THEN BlockedIpv4(SubSeq(a, 13, 16))
    ELSE \/ ZeroUpTo(a, 10)  \* unspecified, loopback and IPv4-compatible ones
         \/ a[1] \div 2 = 126
         \/ a[1] = 254 /\ a[2] \div 64 = 2

BlockedAddress(a) == (IsV4(a) /\ BlockedIpv4(a)) \/ (IsV6(a) /\ BlockedIpv6(a))

----------------------------------------------------------------------------
(* localhost, .internal, .local, a name with no dot, no name at all. *)
BlockedName(host) == host[1] \notin {"address", "name"}

SchemeAllowed(u) == u.scheme = "https" \/ (Insecure /\ u.scheme = "http")

AssertSafeEndpointUrl(u) ==
  /\ u # NoEndpoint /\ SchemeAllowed(u)
  /\ ~u.credentials /\ u.port \in AllowedPorts
  /\ ~BlockedName(u.host) /\ (IsAddress(u.host) => ~BlockedAddress(u.host[2]))

(* An address is refused if any of those the name resolves to is blocked.  *)
(* With none, the name is not found.                                       *)
SafeLookup(answer) == IF \E a \in answer : BlockedAddress(a) THEN {} ELSE answer

EndpointInit ==
  /\ endpoint = NoEndpoint /\ dns \in [Names -> Answers]
  /\ requests = [r \in PRequests |-> [at |-> "idle", url |-> NoEndpoint, to |-> {}]]
  /\ sockets = {}

SaveEndpoint(u) == /\ AssertSafeEndpointUrl(u)
                   /\ endpoint' = u
                   /\ UNCHANGED <<dns, requests, sockets>>

ResolveOtherwise(n, answer) == /\ dns' = [dns EXCEPT ![n] = answer]
                               /\ UNCHANGED <<endpoint, requests, sockets>>

Set(r, at, to) == requests' = [requests EXCEPT ![r].at = at, ![r].to = to]
EndRequest(r) == requests' = [requests EXCEPT ![r] = [at |-> "idle", url |-> NoEndpoint, to |-> {}]]

AskEndpoint(r) ==
  /\ requests[r].at = "idle" /\ AssertSafeEndpointUrl(endpoint)
  /\ requests' = [requests EXCEPT ![r].at = "asked", ![r].url = endpoint]
  /\ UNCHANGED <<endpoint, dns, sockets>>

(* A socket kept for the host is used again; an address needs no lookup.   *)
OpenSocket(r) ==
  LET host == requests[r].url.host
      kept == {s.address : s \in {k \in sockets : k.host = host}} IN
  /\ requests[r].at = "asked"
  /\ \/ kept # {} /\ Set(r, "open", kept)
     \/ kept = {} /\ IsAddress(host) /\ Set(r, "connecting", {host[2]})
     \/ /\ kept = {} /\ ~IsAddress(host)
        /\ IF SafeLookup(dns[host[2]]) = {} THEN EndRequest(r)
           ELSE Set(r, "connecting", SafeLookup(dns[host[2]]))
  /\ UNCHANGED <<endpoint, dns, sockets>>

Connect(r, a) ==
  /\ requests[r].at = "connecting" /\ a \in requests[r].to
  /\ Cardinality(sockets) < MaxSockets
  /\ sockets' = sockets \cup {[host |-> requests[r].url.host, address |-> a]}
  /\ Set(r, "open", {a})
  /\ UNCHANGED <<endpoint, dns>>

(* An answer, a redirection (never followed), a failure, a timeout. *)
FinishPost(r) == /\ requests[r].at \in {"connecting", "open"}
                 /\ EndRequest(r)
                 /\ UNCHANGED <<endpoint, dns, sockets>>

CloseSocket(s) == /\ s \in sockets /\ sockets' = sockets \ {s}
                  /\ UNCHANGED <<endpoint, dns, requests>>

EndpointNext ==
  \/ \E u \in Endpoints : SaveEndpoint(u)
  \/ \E n \in Names, answer \in Answers : ResolveOtherwise(n, answer)
  \/ \E r \in PRequests : AskEndpoint(r) \/ OpenSocket(r) \/ FinishPost(r)
                          \/ \E a \in requests[r].to : Connect(r, a)
  \/ \E s \in sockets : CloseSocket(s)

EndpointSpec == EndpointInit /\ [][EndpointNext]_endpointVars

----------------------------------------------------------------------------
(* Every part of the state has its type.                                   *)
EndpointTypeOK ==
  /\ endpoint \in Endpoints \cup {NoEndpoint} /\ dns \in [Names -> Answers]
  /\ \A r \in PRequests : /\ requests[r].at \in {"idle", "asked", "connecting", "open"}
                         /\ requests[r].url \in Endpoints \cup {NoEndpoint}
  /\ \A s \in sockets : IsV4(s.address) \/ IsV6(s.address)

(* The private and reserved ranges, from their first address to the last.  *)
Between(a, low, high) ==
  \/ \E i \in 1..Len(a) : a[i] > low[i] /\ \A j \in 1..(i - 1) : a[j] = low[j]
  \/ a = low
Within(a, low, high) == Between(a, low, high) /\ Between(high, a, high)

InternalIpv4(a) ==
  \/ Within(a, <<0, 0, 0, 0>>, <<0, 255, 255, 255>>) \/ Within(a, <<10, 0, 0, 0>>, <<10, 255, 255, 255>>)
  \/ Within(a, <<100, 64, 0, 0>>, <<100, 127, 255, 255>>) \/ Within(a, <<127, 0, 0, 0>>, <<127, 255, 255, 255>>)
  \/ Within(a, <<169, 254, 0, 0>>, <<169, 254, 255, 255>>) \/ Within(a, <<172, 16, 0, 0>>, <<172, 31, 255, 255>>)
  \/ Within(a, <<192, 0, 0, 0>>, <<192, 0, 0, 255>>) \/ Within(a, <<192, 168, 0, 0>>, <<192, 168, 255, 255>>)
  \/ Within(a, <<198, 18, 0, 0>>, <<198, 19, 255, 255>>) \/ Within(a, <<224, 0, 0, 0>>, <<255, 255, 255, 255>>)

(***************************************************************************)
(* No socket is open to an address of a private or reserved range, however *)
(* the model's name resolves between the save, the request and the         *)
(* connection: also not by a range whose prefix ends inside an octet, nor  *)
(* by an IPv4 address written as IPv6 (urlGuard.ts:11-23, 77-98, 143-171). *)
(***************************************************************************)
ConnectionIsPublic ==
  \A s \in sockets :
    IF IsV4(s.address) THEN ~InternalIpv4(s.address)
    ELSE /\ ~ZeroUpTo(s.address, 12)
         /\ ZeroUpTo(s.address, 10) /\ s.address[11] = 255 => ~InternalIpv4(SubSeq(s.address, 13, 16))
         /\ s.address[1] \notin {252, 253}
         /\ s.address[1] = 254 => s.address[2] \notin 128..191
=============================================================================
