------------------------------- MODULE Sessions -------------------------------
(***************************************************************************)
(* Who may act: administrators of the platform and users of one tenant, the *)
(* two-factor login of both, and what verifies their sessions afterwards.   *)
(*                                                                         *)
(* A login is one pending session token; a verification is one request that *)
(* redeems it.  A password is right or wrong; a secret is a number, new for *)
(* each setup; a code is right for one secret.  Of the roles, those that a  *)
(* guard tells apart.                                                      *)
(***************************************************************************)
EXTENDS Naturals, FiniteSets

CONSTANTS Admins,     \* bound: administrators
          Users,      \* bound: users of the tenant
          Logins,     \* bound: logins of a behaviour
          Verifies,   \* bound: verifications at once
          TeamOps,    \* bound: changes of the team at once
          MaxSecret   \* bound: second factors set up by one person

ASSUME SessionsAssumption ==
  /\ IsFiniteSet(Admins) /\ IsFiniteSet(Users) /\ Admins \cap Users = {}
  /\ IsFiniteSet(Logins) /\ IsFiniteSet(Verifies) /\ IsFiniteSet(TeamOps)
  /\ MaxSecret \in Nat
  /\ "none" \notin Admins \cup Users \cup Logins

VARIABLES
  tenantStatus, \* Tenant.status
  people,       \* the AdminUser and TenantUser rows
  setups,       \* secrets being set up, in Redis
  logins,       \* the logins, and their pending sessions in Redis
  verifies,     \* POST /2fa/verify under way
  tokens,       \* the JWTs that have not expired, by the role they carry
  teamOps,      \* changes of the team between their read and their write
  streams       \* users whose browser holds an event stream open

personVars == <<tenantStatus, people, setups>>
loginVars == <<logins, verifies>>
sessionsVars == <<personVars, loginVars, tokens, teamOps, streams>>

-----------------------------------------------------------------------------
People == Admins \cup Users
TenantStatus == {"TRIAL", "ACTIVE", "SUSPENDED", "CLOSED"}
AdminRoles == {"SUPERADMIN", "OPERATOR"}
TenantRoles == {"OWNER", "ADMIN", "MEMBER"}
Roles == AdminRoles \cup TenantRoles
None == "none"
NoPerson == [role |-> None, secret |-> 0]
Gone == [role |-> "gone", secret |-> 0]

Login == [of: People \cup {None}, pending: BOOLEAN, issued: Nat,
          overlapped: BOOLEAN]
NewLogin == [of |-> None, pending |-> FALSE, issued |-> 0, overlapped |-> FALSE]
Verify == [pc: {"idle", "code", "redeem"}, login: Logins \cup {None}]
IdleVerify == [pc |-> "idle", login |-> None]
IdleOp == [op |-> None, target |-> None]

SessionsTypeOK ==
  /\ tenantStatus \in TenantStatus
  /\ people \in [People -> [role: Roles \cup {None, "gone"}, secret: 0..MaxSecret]]
  /\ setups \in [People -> 0..MaxSecret]
  /\ logins \in [Logins -> Login] /\ verifies \in [Verifies -> Verify]
  /\ tokens \in [People -> SUBSET Roles]
  /\ teamOps \in [TeamOps -> [op: {None, "remove"} \cup TenantRoles,
                              target: Users \cup {None}]]
  /\ streams \subseteq Users

\* No administrator yet; a tenant registers with its owner.
SessionsInit ==
  /\ tenantStatus = "TRIAL"
  /\ \E owner \in Users :
       people = [p \in People |->
         IF p = owner THEN [role |-> "OWNER", secret |-> 0] ELSE NoPerson]
  /\ setups = [p \in People |-> 0]
  /\ logins = [l \in Logins |-> NewLogin]
  /\ verifies = [v \in Verifies |-> IdleVerify]
  /\ tokens = [p \in People |-> {}]
  /\ teamOps = [o \in TeamOps |-> IdleOp]
  /\ streams = {}

-----------------------------------------------------------------------------
(* Login (admin/auth.ts, tenant/auth.ts).                                  *)

Exists(p) == people[p] \notin {NoPerson, Gone}
Open == tenantStatus \notin {"SUSPENDED", "CLOSED"}
MayLogin(p) == Exists(p) /\ (p \in Users => Open)
\* A token carries the role its holder has when it is signed.
Issue(p) == tokens' = [tokens EXCEPT ![p] = @ \cup {people[p].role}]

\* The password is right and there is no second factor: a session at once.
LoginWithPassword(l, p) ==
  /\ logins[l] = NewLogin /\ MayLogin(p) /\ people[p].secret = 0
  /\ logins' = [logins EXCEPT ![l].of = p, ![l].issued = 1]
  /\ Issue(p)
  /\ UNCHANGED <<personVars, verifies, teamOps, streams>>
\* Otherwise a pending session, of five minutes.
LoginPending(l, p) ==
  /\ logins[l] = NewLogin /\ MayLogin(p) /\ people[p].secret # 0
  /\ logins' = [logins EXCEPT ![l].of = p, ![l].pending = TRUE]
  /\ UNCHANGED <<personVars, verifies, tokens, teamOps, streams>>
PendingExpires(l) ==
  /\ logins[l].pending
  /\ logins' = [logins EXCEPT ![l].pending = FALSE]
  /\ UNCHANGED <<personVars, verifies, tokens, teamOps, streams>>

Redeeming(l) == {v \in Verifies : verifies[v].login = l}
VerifyStart(v, l) ==
  /\ verifies[v] = IdleVerify /\ logins[l].pending
  /\ verifies' = [verifies EXCEPT ![v] = [pc |-> "code", login |-> l]]
  /\ logins' = [logins EXCEPT ![l].overlapped = @ \/ Redeeming(l) # {}]
  /\ UNCHANGED <<personVars, tokens, teamOps, streams>>
\* The code is of the secret the person has by now.
VerifyCode(v) ==
  LET l == verifies[v].login IN
  /\ verifies[v].pc = "code"
  /\ \E right \in BOOLEAN :
       IF right /\ people[logins[l].of].secret # 0
       THEN verifies' = [verifies EXCEPT ![v].pc = "redeem"]
       ELSE verifies' = [verifies EXCEPT ![v] = IdleVerify]
  /\ UNCHANGED <<personVars, logins, tokens, teamOps, streams>>

\* Mutant: the pending session is left to expire.
StaysPending(l) == logins[l].pending
PendingAfter(l) == FALSE
VerifyRedeem(v) ==
  LET l == verifies[v].login
      p == logins[l].of
  IN  /\ verifies[v].pc = "redeem"
      /\ IF Exists(p)
         THEN /\ Issue(p)
              /\ logins' = [logins EXCEPT ![l].pending = PendingAfter(l),
                                          ![l].issued = @ + 1]
         ELSE /\ logins' = [logins EXCEPT ![l].pending = PendingAfter(l)]
              /\ UNCHANGED tokens
      /\ verifies' = [verifies EXCEPT ![v] = IdleVerify]
      /\ UNCHANGED <<personVars, teamOps, streams>>

TokenExpires(p) ==
  /\ \E role \in tokens[p] : tokens' = [tokens EXCEPT ![p] = @ \ {role}]
  /\ UNCHANGED <<personVars, loginVars, teamOps, streams>>

-----------------------------------------------------------------------------
(* Sessions (plugins/auth.ts, plugins/tenantAuth.ts): an administrator must *)
(* still exist, a tenant must still be open; the role is the token's.      *)

Authenticate(p, role) == p \in Admins /\ role \in tokens[p] /\ Exists(p)
VerifyTenant(p, role) == p \in Users /\ role \in tokens[p] /\ Open
IsManager(role) == role \in {"OWNER", "ADMIN"}

\* The stream of events is checked when it opens, and lasts as long as its
\* browser (tenant/events.ts).
OpenStream(p) ==
  /\ p \notin streams /\ \E role \in Roles : VerifyTenant(p, role)
  /\ streams' = streams \cup {p}
  /\ UNCHANGED <<personVars, loginVars, tokens, teamOps>>
CloseStream(p) ==
  /\ p \in streams /\ streams' = streams \ {p}
  /\ UNCHANGED <<personVars, loginVars, tokens, teamOps>>

SetupSecondFactor(p) ==
  /\ \E role \in Roles : Authenticate(p, role) \/ VerifyTenant(p, role)
  /\ setups[p] < MaxSecret /\ people[p].secret < MaxSecret
  /\ setups' = [setups EXCEPT ![p] =
                  IF @ > people[p].secret THEN @ + 1 ELSE people[p].secret + 1]
  /\ UNCHANGED <<tenantStatus, people, loginVars, tokens, teamOps, streams>>
ConfirmSecondFactor(p) ==
  /\ \E role \in Roles : Authenticate(p, role) \/ VerifyTenant(p, role)
  /\ setups[p] # 0 /\ Exists(p)
  /\ people' = [people EXCEPT ![p].secret = setups[p]]
  /\ setups' = [setups EXCEPT ![p] = 0]
  /\ UNCHANGED <<tenantStatus, loginVars, tokens, teamOps, streams>>
SetupExpires(p) ==
  /\ setups[p] # 0 /\ setups' = [setups EXCEPT ![p] = 0]
  /\ UNCHANGED <<tenantStatus, people, loginVars, tokens, teamOps, streams>>

\* The first administrator needs the bootstrap key, the others a SUPERADMIN.
RegisterAdmin(a) ==
  /\ a \in Admins /\ people[a] = NoPerson
  /\ \/ \A b \in Admins : ~Exists(b)
     \/ \E b \in Admins : "SUPERADMIN" \in tokens[b]
  /\ \E role \in AdminRoles :
       people' = [people EXCEPT ![a] = [NoPerson EXCEPT !.role = role]]
  /\ UNCHANGED <<tenantStatus, setups, loginVars, tokens, teamOps, streams>>

-----------------------------------------------------------------------------
(* The team of the tenant (tenant/team.ts), and the platform's hand on it   *)
(* (admin/tenants.ts).                                                     *)

Add(p, role) == people' = [people EXCEPT ![p] = [NoPerson EXCEPT !.role = role]]
Invite(p) ==
  /\ p \in Users /\ people[p] = NoPerson
  /\ \E by \in Users, role \in Roles : VerifyTenant(by, role) /\ IsManager(role)
  /\ \E role \in TenantRoles \ {"OWNER"} : Add(p, role)
  /\ UNCHANGED <<tenantStatus, setups, loginVars, tokens, teamOps, streams>>
CreateUser(p) ==
  /\ p \in Users /\ people[p] = NoPerson
  /\ \E a \in Admins, role \in Roles : Authenticate(a, role)
  /\ \E role \in TenantRoles : Add(p, role)
  /\ UNCHANGED <<tenantStatus, setups, loginVars, tokens, teamOps, streams>>

MayChange(p) == Exists(p) /\ people[p].role # "OWNER"
\* The role of a member changes, or the member goes, but not by own hand.
AskTeamChange(o, by, p) ==
  /\ teamOps[o] = IdleOp /\ MayChange(p)
  /\ \E role \in Roles : VerifyTenant(by, role) /\ IsManager(role)
  /\ \E op \in {"remove", "ADMIN", "MEMBER"} :
       /\ op = "remove" => by # p
       /\ teamOps' = [teamOps EXCEPT ![o] = [op |-> op, target |-> p]]
  /\ UNCHANGED <<personVars, loginVars, tokens, streams>>
\* Written by id: a member removed meanwhile is an error.
WriteTeamChange(o) ==
  /\ teamOps[o] # IdleOp
  /\ LET p == teamOps[o].target IN
       people' = IF ~Exists(p) THEN people
                 ELSE IF teamOps[o].op = "remove"
                      THEN [people EXCEPT ![p] = Gone]
                      ELSE [people EXCEPT ![p].role = teamOps[o].op]
  /\ teamOps' = [teamOps EXCEPT ![o] = IdleOp]
  /\ UNCHANGED <<tenantStatus, setups, loginVars, tokens, streams>>

Suspend ==
  /\ tenantStatus # "SUSPENDED"
  /\ \E a \in Admins, role \in Roles : Authenticate(a, role)
  /\ tenantStatus' = "SUSPENDED"
  /\ UNCHANGED <<people, setups, loginVars, tokens, teamOps, streams>>
Reactivate ==
  /\ tenantStatus \notin {"ACTIVE", "CLOSED"}
  /\ \E a \in Admins, role \in Roles : Authenticate(a, role)
  /\ tenantStatus' = "ACTIVE"
  /\ UNCHANGED <<people, setups, loginVars, tokens, teamOps, streams>>

SessionsNext ==
  \/ \E l \in Logins :
       \/ \E p \in People : LoginWithPassword(l, p) \/ LoginPending(l, p)
       \/ PendingExpires(l)
  \/ \E v \in Verifies : \/ \E l \in Logins : VerifyStart(v, l)
                         \/ VerifyCode(v) \/ VerifyRedeem(v)
  \/ \E p \in People :
       \/ TokenExpires(p) \/ SetupSecondFactor(p) \/ ConfirmSecondFactor(p)
       \/ OpenStream(p) \/ CloseStream(p)
       \/ SetupExpires(p) \/ RegisterAdmin(p) \/ Invite(p) \/ CreateUser(p)
  \/ \E o \in TeamOps : \/ \E by, p \in Users : AskTeamChange(o, by, p)
                        \/ WriteTeamChange(o)
  \/ Suspend \/ Reactivate

SessionsSpec == SessionsInit /\ [][SessionsNext]_sessionsVars

-----------------------------------------------------------------------------
\* A pending session is redeemed once, unless two verifications of it
\* overlapped: each reads it before the other deletes it (2fa/verify).
PendingIsRedeemedOnce ==
  \A l \in Logins : logins[l].issued > 1 => logins[l].overlapped
=============================================================================
