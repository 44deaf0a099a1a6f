----------------------------- MODULE PbxConnection -----------------------------
(***************************************************************************)
(* The connection of a tenant to a PBX of its own: the credentials the      *)
(* tenant saves and tests, the adapter this process caches for them, and    *)
(* the access token that all adapters of the tenant share in Redis.         *)
(*                                                                         *)
(* Credentials are a number, and so is a token: the credentials it was got  *)
(* with.                                                                   *)
(***************************************************************************)
EXTENDS Naturals, FiniteSets

CONSTANTS Credentials, \* bound: credentials the tenant saves
          Accepted,    \* those the PBX they name accepts
          Host,        \* the PBX each of them names
          PTests       \* bound: tests of the connection at once

ASSUME PbxConnectionAssumption ==
  /\ IsFiniteSet(Credentials) /\ Accepted \subseteq Credentials
  /\ Credentials \subseteq Nat \ {0} /\ DOMAIN Host = Credentials
  /\ IsFiniteSet(PTests)

VARIABLES
  saved,     \* pbxBaseUrl, pbxClientId, pbxClientSecret; 0 for none
  connected, \* pbxConnected
  adapter,   \* the cached adapter, by its credentials; 0 for none
  token,     \* the token in Redis
  timers,    \* the refresh timers of the adapters ever made
  ptests,    \* POST /tenant/pbx/test under way
  doubts     \* what happened, for the properties

connectionVars == <<saved, connected, adapter, token, timers, ptests, doubts>>

-----------------------------------------------------------------------------
None == 0
NoToken == [of |-> None, expiring |-> FALSE]
Token == [of: Credentials \cup {None}, expiring: BOOLEAN]
\* The timer of an adapter, and the token it will refresh.
Timer == [by: Credentials, of: Credentials]
NoTest == [pc |-> "idle", by |-> None, with |-> None]
Test == [pc: {"idle", "token", "ask", "write"},
         by: Credentials \cup {None}, with: Credentials \cup {None}]

ConnectionTypeOK ==
  /\ saved \in Credentials \cup {None} /\ connected \in BOOLEAN
  /\ adapter \in Credentials \cup {None} /\ token \in Token
  /\ timers \subseteq Timer /\ ptests \in [PTests -> Test]

ConnectionInit ==
  /\ saved = None /\ connected = FALSE /\ adapter = None
  /\ token = NoToken /\ timers = {}
  /\ ptests = [t \in PTests |-> NoTest]
  /\ doubts = [crossed |-> FALSE, kept |-> FALSE]

-----------------------------------------------------------------------------
(* Tokens (YeastarAdapter.ts).                                             *)

\* The PBX an adapter talks to knows a token when it gave it.
Knows(by, of) == of # None /\ Host[by] = Host[of]

\* A stored token is scheduled to be refreshed by the adapter that stored it.
Store(by, of) ==
  /\ token' = [of |-> of, expiring |-> FALSE]
  /\ timers' = {r \in timers : r.by # by} \cup {[by |-> by, of |-> of]}
\* Mutant: what the PBX answers is stored, an error included.
FetchAnyToken(by) == Store(by, by)
FetchNewToken(by) == by \in Accepted /\ Store(by, by)
\* Refused, the refresh token is worth nothing and a new pair is asked for;
\* so is one another request has just used.
RefreshToken(by, of) ==
  \/ Knows(by, of) /\ Store(by, of)
  \/ FetchNewToken(by)

\* The token a request of an adapter is sent with.
GetToken(by, of) ==
  \/ token.of # None /\ ~token.expiring /\ of = token.of
     /\ UNCHANGED <<token, timers>>
  \/ token.of # None /\ token.expiring /\ RefreshToken(by, token.of)
     /\ of = token'.of
  \/ token.of = None /\ FetchNewToken(by) /\ of = by

ProactiveRefresh(r) ==
  /\ r \in timers
  /\ \/ RefreshToken(r.by, r.of)
     \/ timers' = timers \ {r} /\ UNCHANGED token
  /\ UNCHANGED <<saved, connected, adapter, ptests, doubts>>
TokenAges ==
  /\ token.of # None
  /\ token' = IF token.expiring THEN NoToken
              ELSE [token EXCEPT !.expiring = TRUE]
  /\ UNCHANGED <<saved, connected, adapter, timers, ptests, doubts>>

-----------------------------------------------------------------------------
(* Settings of the tenant's PBX (tenant/pbx.ts, tenantTelephony.service.ts).*)

\* Changed credentials are to be tested anew.
SavePbx(new) ==
  /\ new # saved
  /\ saved' = new /\ connected' = FALSE /\ adapter' = None
  /\ UNCHANGED <<token, timers, ptests, doubts>>

\* getTenantTelephony: the cached adapter when its fingerprint is that of the
\* credentials, one made for them otherwise; the timer of the old one lives on.
StartTest(t) ==
  /\ ptests[t].pc = "idle" /\ saved # None
  /\ adapter' = saved
  /\ ptests' = [ptests EXCEPT ![t] = [NoTest EXCEPT !.pc = "token",
                                                    !.by = saved]]
  /\ UNCHANGED <<saved, connected, token, timers, doubts>>
TakeToken(t) ==
  /\ ptests[t].pc = "token"
  /\ \E of \in Credentials :
       /\ GetToken(ptests[t].by, of)
       /\ ptests' = [ptests EXCEPT ![t].pc = "ask", ![t].with = of]
  /\ UNCHANGED <<saved, connected, adapter, doubts>>
\* healthCheck and listExtensions: the PBX answers to the token.
AskPbx(t) ==
  /\ ptests[t].pc = "ask" /\ Knows(ptests[t].by, ptests[t].with)
  /\ ptests' = [ptests EXCEPT ![t].pc = "write"]
  /\ UNCHANGED <<saved, connected, adapter, token, timers, doubts>>
\* Written without another look at the credentials.
TestPasses(t) ==
  /\ ptests[t].pc = "write"
  /\ connected' = TRUE
  /\ doubts' = [crossed |-> doubts.crossed \/ ptests[t].by # saved,
                kept |-> doubts.kept \/ ptests[t].with # ptests[t].by]
  /\ ptests' = [ptests EXCEPT ![t] = NoTest]
  /\ UNCHANGED <<saved, adapter, token, timers>>
TestFails(t) ==
  /\ ptests[t].pc \in {"token", "ask"}
  /\ connected' = FALSE
  /\ ptests' = [ptests EXCEPT ![t] = NoTest]
  /\ UNCHANGED <<saved, adapter, token, timers, doubts>>

\* A dial, a prompt or a synchronisation takes a token the same way.
UseConnection ==
  /\ saved # None /\ adapter' = saved
  /\ \E of \in Credentials : GetToken(saved, of)
  /\ UNCHANGED <<saved, connected, ptests, doubts>>
RestartConnection ==
  /\ adapter' = None /\ timers' = {}
  /\ ptests' = [t \in PTests |-> NoTest]
  /\ UNCHANGED <<saved, connected, token, doubts>>

ConnectionNext ==
  \/ \E new \in Credentials : SavePbx(new)
  \/ \E t \in PTests : \/ StartTest(t) \/ TakeToken(t) \/ AskPbx(t)
                       \/ TestPasses(t) \/ TestFails(t)
  \/ \E r \in Timer : ProactiveRefresh(r)
  \/ TokenAges \/ UseConnection \/ RestartConnection

ConnectionSpec == ConnectionInit /\ [][ConnectionNext]_connectionVars

-----------------------------------------------------------------------------
\* A tenant shown as connected has credentials its PBX accepts, unless they
\* were saved while the earlier ones were being tested, or the test was
\* answered with a token that earlier credentials had left in Redis
\* (tenant/pbx.ts: a change requires a new test).
ConnectedMeansAccepted ==
  connected => saved \in Accepted \/ doubts.crossed \/ doubts.kept
=============================================================================
