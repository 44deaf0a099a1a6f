------------------------ MODULE MCCampaignDispatcher ------------------------
(* Small instances of CampaignDispatcher for TLC.                          *)
EXTENDS CampaignDispatcher, TLC

CONSTANTS a, b, p1, p2

\* Two cents a minute or a script: a balance of two pays for one call.
CentPlan == [billingMode |-> "PER_MINUTE", pricePerMinuteCents |-> 2,
             pricePerCallCents |-> 2]

\* No property of the safety run tells contacts or passes apart.
Alike == Permutations({a, b}) \cup Permutations({p1, p2})
=============================================================================
