--------------------------------- MODULE Plans ---------------------------------
(***************************************************************************)
(* What a tenant may have: its plan, the features an administrator turns   *)
(* on or off for it, what its CRM shows of them, and the agents it creates *)
(* within the limit of the plan.                                           *)
(***************************************************************************)
EXTENDS Naturals, FiniteSets

CONSTANTS MaxAgents, \* bound: limits of agents a plan may have
          Creations  \* bound: agents being created at once

ASSUME PlansAssumption == MaxAgents \in Nat \ {0} /\ IsFiniteSet(Creations)

VARIABLES
  plan,      \* the plan of the tenant
  overrides, \* Tenant.features
  shown,     \* the features its CRM has read
  agents,    \* agents of the tenant
  creations  \* agents being created

plansVars == <<plan, overrides, shown, agents, creations>>

-----------------------------------------------------------------------------
(* Features (features.ts): one that the plan limits, one off by default, and *)
(* the one that a tenant of the API alone keeps.                           *)

FeatureKeys == {"agents", "otpCall", "developers"}
DefaultFeatures == FeatureKeys \ {"otpCall"}
Overrides == [FeatureKeys -> {"unset", "on", "off"}]
ComputeFeatures(o, p) ==
  IF p.product = "API_BYOM" THEN {"developers"}
  ELSE {f \in FeatureKeys :
          /\ o[f] = "on" \/ (o[f] = "unset" /\ f \in DefaultFeatures)
          /\ f = "agents" => p.ai}

Plan == [maxAgents: 1..MaxAgents, ai: BOOLEAN,
         product: {"VOICE_AI", "CRM_BYO_PBX", "API_BYOM"}]
IdleCreation == [at |-> "idle", limit |-> 0]

PlansTypeOK ==
  /\ plan \in Plan /\ overrides \in Overrides /\ shown \subseteq FeatureKeys
  /\ agents \in 0..(MaxAgents + Cardinality(Creations))
  /\ creations \in [Creations -> [at: {"idle", "limit", "counted"}, limit: 0..MaxAgents]]

PlansInit ==
  /\ plan \in Plan
  /\ overrides = [f \in FeatureKeys |-> "unset"]
  /\ shown = {} /\ agents = 0
  /\ creations = [c \in Creations |-> IdleCreation]

-----------------------------------------------------------------------------
\* The plan is edited, or the tenant moves to another (admin/plans.ts,
\* PATCH /admin/tenants/:id).
ChangePlan ==
  /\ plan' \in Plan
  /\ UNCHANGED <<overrides, shown, agents, creations>>
\* PUT features replaces every override.
PutFeatures ==
  /\ overrides' \in Overrides
  /\ UNCHANGED <<plan, shown, agents, creations>>
\* Login and GET /me.
ShowTenant ==
  /\ shown' = ComputeFeatures(overrides, plan)
  /\ UNCHANGED <<plan, overrides, agents, creations>>

-----------------------------------------------------------------------------
(* New agents (tenant/agents.ts, v1/agents.ts).                             *)

ReadLimit(c) ==
  /\ creations[c] = IdleCreation
  /\ creations' = [creations EXCEPT ![c] = [at |-> "limit", limit |-> plan.maxAgents]]
  /\ UNCHANGED <<plan, overrides, shown, agents>>
\* Mutant: the agent being created is not counted.
WithinLimit(c) == agents <= creations[c].limit
BelowLimit(c) == agents < creations[c].limit
CountAgents(c) ==
  /\ creations[c].at = "limit"
  /\ creations' = [creations EXCEPT ![c] =
       IF BelowLimit(c) THEN [@ EXCEPT !.at = "counted"] ELSE IdleCreation]
  /\ UNCHANGED <<plan, overrides, shown, agents>>
CreateAgent(c) ==
  /\ creations[c].at = "counted"
  /\ agents' = agents + 1
  /\ creations' = [creations EXCEPT ![c] = IdleCreation]
  /\ UNCHANGED <<plan, overrides, shown>>
RemoveAgent ==
  /\ agents > 0 /\ agents' = agents - 1
  /\ UNCHANGED <<plan, overrides, shown, creations>>

PlansNext ==
  \/ ChangePlan \/ PutFeatures \/ ShowTenant \/ RemoveAgent
  \/ \E c \in Creations : ReadLimit(c) \/ CountAgents(c) \/ CreateAgent(c)

PlansSpec == PlansInit /\ [][PlansNext]_plansVars

-----------------------------------------------------------------------------
\* Creations at once overrun the largest plan by their number less one, and
\* never by more, however long they go on (POST /tenant/agents, /v1/agents).
AgentOverrunIsBounded == agents <= MaxAgents + Cardinality(Creations) - 1
=============================================================================
