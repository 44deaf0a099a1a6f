------------------------------ MODULE MCTenancy ------------------------------
(* Small instances, for TLC, of what a tenant does outside a call: who gets *)
(* in, what its plan lets it make, its contacts and campaigns, what they    *)
(* play, and the reports of calls sent to its own address.  A behaviour of  *)
(* this run is of one of them, the others being at rest.                    *)
EXTENDS Sessions, ApiKeys, Plans, Deliveries, EndpointUrl, Contacts, ImportPage, CampaignForm, CampaignRuns, Prompts

CONSTANTS u1

VARIABLE part

\* Allow-lists of two-bit addresses: none, one v4 address written both ways,
\* and half of the v4 addresses with every v6 one.
MCLists == {{}, {[form |-> "v4", value |-> 3, bits |-> 1]},
            {[form |-> "mapped", value |-> 1, bits |-> 2], [form |-> "v6", value |-> 2, bits |-> 0]}}

\* Addresses on both sides of the edges of the reserved blocks.
MCV4 == {<<8, 8, 8, 8>>, <<10, 0, 0, 0>>, <<11, 0, 0, 0>>, <<100, 63, 255, 255>>, <<100, 127, 255, 255>>,
         <<169, 254, 169, 254>>, <<172, 15, 255, 255>>, <<172, 31, 255, 255>>, <<172, 32, 0, 0>>,
         <<192, 168, 0, 0>>, <<198, 19, 255, 255>>, <<223, 255, 255, 255>>, <<239, 255, 255, 255>>}
V6(head, tail) == head \o [i \in 1..(16 - Len(head) - Len(tail)) |-> 0] \o tail
MCV6 == {V6(<<>>, <<1>>), V6(<<32, 1, 72, 96>>, <<136>>), V6(<<253, 18>>, <<1>>), V6(<<254, 191>>, <<1>>),
         V6(<<>>, <<255, 255, 172, 31, 0, 1>>), V6(<<>>, <<255, 255, 8, 8, 8, 8>>)}
MCAnswers == {{}, {<<8, 8, 8, 8>>}, {<<172, 31, 255, 255>>}, {<<8, 8, 8, 8>>, <<10, 0, 0, 0>>},
              {V6(<<254, 191>>, <<1>>)}, {V6(<<>>, <<255, 255, 172, 31, 0, 1>>)}}
Https == [scheme |-> "https", credentials |-> FALSE, port |-> 443, host |-> <<"name", "api">>]
MCEndpoints == {[Https EXCEPT !.host = h] : h \in {<<"address", a>> : a \in MCV4 \cup MCV6}
                                              \cup {<<"name", "api">>, <<"blocked", "localhost">>}}
  \cup {[Https EXCEPT !.scheme = "http"], [Https EXCEPT !.port = 6379], [Https EXCEPT !.credentials = TRUE]}

MCForms == {[mode |-> "VOICE_AI", chosen |-> "agent", hours |-> "now", picked |-> {}]}
MCPolicies == {[tries |-> 2, on |-> {"NO_ANSWER"}]}

AtRest ==
  /\ people[u1].role = "OWNER"  \* users are alike
  /\ part # "plans" => plan = (CHOOSE p \in Plan : TRUE)
  /\ part # "deliveries" => url = NoUrl
  /\ part # "runs" => origin = "client"
  /\ part # "endpoint" => \A n \in Names : dns[n] = {}

TenancyParts ==
  {"sessions", "keys", "plans", "deliveries", "endpoint", "contacts", "import", "form", "runs", "prompts"}

tenancyVars == <<sessionsVars, keysVars, plansVars, deliveryVars, endpointVars,
                 contactVars, importVars, formVars, runVars, promptVars, part>>

TenancyInit ==
  /\ SessionsInit /\ KeysInit /\ PlansInit /\ DeliveriesInit /\ EndpointInit
  /\ ContactsInit /\ ImportInit /\ FormInit /\ RunsInit /\ PromptInit
  /\ part \in TenancyParts /\ AtRest

OfAccount == UNCHANGED <<sessionsVars, keysVars, plansVars>>
OfAddress == UNCHANGED <<deliveryVars, endpointVars>>
OfPeople == UNCHANGED <<contactVars, importVars>>
OfCampaign == OfPeople /\ UNCHANGED <<formVars, runVars, promptVars>>

TenancyNext ==
  \/ part = "sessions" /\ SessionsNext /\ OfAddress /\ OfCampaign /\ UNCHANGED <<keysVars, plansVars, part>>
  \/ part = "keys" /\ KeysNext /\ OfAddress /\ OfCampaign /\ UNCHANGED <<sessionsVars, plansVars, part>>
  \/ part = "plans" /\ PlansNext /\ OfAddress /\ OfCampaign /\ UNCHANGED <<sessionsVars, keysVars, part>>
  \/ part = "deliveries" /\ DeliveriesNext /\ OfAccount /\ OfCampaign /\ UNCHANGED <<endpointVars, part>>
  \/ part = "endpoint" /\ EndpointNext /\ OfAccount /\ OfCampaign /\ UNCHANGED <<deliveryVars, part>>
  \/ part = "contacts" /\ ContactsNext /\ OfAccount /\ OfAddress /\ UNCHANGED <<importVars, formVars, runVars, promptVars, part>>
  \/ part = "import" /\ ImportNext /\ OfAccount /\ OfAddress /\ UNCHANGED <<contactVars, formVars, runVars, promptVars, part>>
  \/ part = "form" /\ FormNext /\ OfAccount /\ OfAddress /\ OfPeople /\ UNCHANGED <<runVars, promptVars, part>>
  \/ part = "runs" /\ RunsNext /\ OfAccount /\ OfAddress /\ OfPeople /\ UNCHANGED <<formVars, promptVars, part>>
  \/ part = "prompts" /\ PromptNext /\ OfAccount /\ OfAddress /\ OfPeople /\ UNCHANGED <<formVars, runVars, part>>

TenancySpec == TenancyInit /\ [][TenancyNext]_tenancyVars

\* The part of the state that moves has its type.
TenancyTypeOK ==
  CASE part = "sessions" -> SessionsTypeOK
    [] part = "keys" -> KeysTypeOK
    [] part = "plans" -> PlansTypeOK
    [] part = "deliveries" -> DeliveriesTypeOK
    [] part = "contacts" -> ContactsTypeOK
    [] part = "import" -> ImportTypeOK
    [] part = "form" -> FormTypeOK
    [] part = "runs" -> RunsTypeOK
    [] part = "endpoint" -> EndpointTypeOK
    [] part = "prompts" -> PromptTypeOK

\* The three gates of an account hold: a key admits only from the addresses
\* its list allows, a pending login is redeemed once, and the agents of a
\* tenant pass the limit of its plan only by requests under way at once
\* (ipAllowlist.ts, tenant/auth.ts, tenant/agents.ts).
GatesHold == TenancyTypeOK /\ OriginDecidesAdmission /\ PendingIsRedeemedOnce /\ AgentOverrunIsBounded

\* What was given to the worker is accounted for: a notice was received, given
\* up on record or had nowhere to go, and the page that imports contacts tells
\* of the job it waits for (worker/src/index.ts, ImportPage.tsx).
WorkIsAccountedFor == DeliveryIsAccountedFor /\ ImportIsFollowed

\* A campaign is what its user made and saw: the form makes one of the people
\* it lists, the page tells how its run stands, those who did not answer are
\* called again, and its calls play its script, but for the causes each part
\* names (CampaignFormPage.tsx, CampaignDetailPage.tsx, tenant/campaigns.ts,
\* AudioCache.ts).
CampaignIsAsMade ==
  /\ FormMakesOneWholeCampaign /\ PageTellsTheRun
  /\ LostRetryHasACause /\ PromptSpeaksItsText
=============================================================================
