---------------------------- MODULE CampaignForm ----------------------------
(***************************************************************************)
(* Making a campaign: the form of the CRM (CampaignFormPage.tsx), which    *)
(* asks the API three times for what its user does once, the function of   *)
(* lib/api.ts that turns the form into requests, and the routes of the CRM *)
(* and of the public API that create and launch a campaign.                *)
(***************************************************************************)
EXTENDS Naturals, FiniteSets

CONSTANTS Listed,        \* contacts the form lists
          Forms,         \* the choices of the form other than contacts
          MaxCampaigns,  \* campaigns that may be made
          MaxFailures    \* requests or answers that may be lost

ASSUME CampaignFormAssumption ==
  /\ MaxCampaigns \in Nat /\ MaxFailures \in Nat
  /\ Forms \subseteq [mode: {"VOICE_AI", "FIXED_SCRIPT"}, chosen: {"none", "agent", "script", "both"},
                      hours: {"now", "window", "empty"}, picked: SUBSET Listed]

VARIABLES form,     \* [mode, chosen, hours, retry, picked] as the page holds it
          open,     \* the page has not been left
          presses,  \* the mutations of the two buttons, and the requests of an API client
          made,     \* the campaigns, by age
          agentActive,
          excuses,  \* what may make the form's user send it twice
          lost

formVars == <<form, open, presses, made, agentActive, excuses, lost>>

Campaigns == 1..MaxCampaigns
Buttons == {"create", "launch"}
Makers == Buttons \cup {"client"}
NoForm == [mode |-> "none", chosen |-> "none", hours |-> "none", picked |-> {}]
NoPress == [at |-> "idle", id |-> 0, sent |-> [agent |-> FALSE, picked |-> {}]]
NoCampaign == [status |-> "none", by |-> "none", members |-> {}, whole |-> {}]

FormInit ==
  /\ form \in {[choice EXCEPT !.picked = {}] : choice \in Forms}
  /\ open = TRUE /\ agentActive = TRUE /\ excuses = {} /\ lost = 0
  /\ presses = [b \in Makers |-> NoPress]
  /\ made = [k \in Campaigns |-> NoCampaign]

At(b, step) == presses[b].at = step
Goto(b, step) == presses' = [presses EXCEPT ![b].at = step]
OfPage == UNCHANGED <<presses, made, agentActive, excuses, lost>>

(* An error is a message on the page, and the button may be pressed again. *)
Fail(b) == /\ presses' = [presses EXCEPT ![b] = NoPress]
           /\ excuses' = IF b \in Buttons THEN excuses \cup {"error"} ELSE excuses

(* The page goes to the campaign it has made, and what it held is gone. *)
Closed == open' = FALSE /\ form' = NoForm
Succeed(b) == /\ presses' = [presses EXCEPT ![b] = [NoPress EXCEPT !.at = "done"]]
              /\ IF b \in Buttons THEN Closed ELSE UNCHANGED <<form, open>>

----------------------------------------------------------------------------
(* The fields of the page. *)
TogglePick(c) ==
  /\ open
  /\ form' = [form EXCEPT !.picked = IF c \in @ THEN @ \ {c} ELSE @ \cup {c}]
  /\ UNCHANGED open /\ OfPage

ChooseMode(mode) ==
  /\ open /\ form.mode # mode
  /\ form' = [form EXCEPT !.mode = mode]
  /\ UNCHANGED open /\ OfPage

ChooseHours(hours) ==
  /\ open /\ form.hours # hours
  /\ form' = [form EXCEPT !.hours = hours]
  /\ UNCHANGED open /\ OfPage

(* An agent for a conversation, a text for a script; "both" when the user  *)
(* filled the two in.  Hours are now, a window, or a window that is empty. *)
Validate ==
  /\ form.mode = "VOICE_AI" => form.chosen \in {"agent", "both"}
  /\ form.mode = "FIXED_SCRIPT" => form.chosen \in {"script", "both"}
  /\ form.picked # {} /\ form.hours # "empty"

(* Only the button pressed waits for its own mutation: the other may be    *)
(* pressed meanwhile.  What is sent is what the page held at that instant. *)
\* Mutant: a button may be pressed again while its mutation is under way.
PressableAlways(b) == TRUE

Pressable(b) == At(b, "idle")

BuildPayload == [agent |-> form.mode = "VOICE_AI", picked |-> form.picked]

Press(b) ==
  /\ b \in Buttons /\ open /\ Pressable(b) /\ Validate
  /\ presses' = [presses EXCEPT ![b] = [NoPress EXCEPT !.at = "creating", !.sent = BuildPayload]]
  /\ excuses' = IF \E other \in Buttons \ {b} : ~At(other, "idle") THEN excuses \cup {"both"} ELSE excuses
  /\ UNCHANGED <<form, open, made, agentActive, lost>>

(* A client of the public API writes the same requests, contacts included. *)
ClientAsks(agent, picked) ==
  /\ At("client", "idle") /\ picked # {}
  /\ presses' = [presses EXCEPT !["client"] =
       [NoPress EXCEPT !.at = "creating", !.sent = [agent |-> agent, picked |-> picked]]]
  /\ UNCHANGED <<form, open, made, agentActive, excuses, lost>>

LeavePage == open /\ Closed /\ OfPage

PauseItsAgent == /\ agentActive /\ agentActive' = FALSE
              /\ UNCHANGED <<form, open, presses, made, excuses, lost>>

----------------------------------------------------------------------------
(* POST /tenant/campaigns and POST /v1/campaigns: the agent is read, if the *)
(* campaign has one, and then the campaign is created, a draft without     *)
(* contacts.  (The public API asks for the agent of a script too, when the *)
(* request names one.)                                                     *)
CheckAgent(b) ==
  /\ At(b, "creating")
  /\ IF presses[b].sent.agent /\ ~agentActive THEN Fail(b) 
     ELSE /\ presses' = [presses EXCEPT ![b].at = "inserting", ![b].sent.agent = FALSE]
          /\ UNCHANGED excuses
  /\ UNCHANGED <<form, open, made, agentActive, lost>>

Free == {k \in Campaigns : made[k].status = "none"}

NewId == CHOOSE k \in Free : \A j \in Free : k <= j

(* What the three writes do to the campaigns. *)
Inserted(b) == [made EXCEPT ![NewId] =
  [status |-> "DRAFT", by |-> b, members |-> {}, whole |-> presses[b].sent.picked]]
WithContacts(b) == [made EXCEPT ![presses[b].id].members = presses[b].sent.picked]
Launched(b) == [made EXCEPT ![presses[b].id].status = "RUNNING"]

CreateCampaign(b) ==
  /\ At(b, "inserting") /\ Free # {} /\ made' = Inserted(b)
  /\ presses' = [presses EXCEPT ![b].at = "adding", ![b].id = NewId]
  /\ UNCHANGED <<form, open, agentActive, excuses, lost>>

(* create of lib/api.ts: the contacts go in a request of their own, read   *)
(* and stored by the route in two steps, and only into a draft.            *)
Status(b) == made[presses[b].id].status

CheckDraft(b) ==
  /\ At(b, "adding")
  /\ IF Status(b) = "DRAFT" THEN Goto(b, "storing") /\ UNCHANGED excuses ELSE Fail(b)
  /\ UNCHANGED <<form, open, made, agentActive, lost>>

StoreContacts(b) ==
  /\ At(b, "storing")
  /\ made' = WithContacts(b)
  /\ IF b = "create" THEN Succeed(b) ELSE Goto(b, "launching") /\ UNCHANGED <<form, open>>
  /\ UNCHANGED <<agentActive, excuses, lost>>

(* The launch: a campaign not yet running with contacts that are pending,  *)
(* read first and written after.                                           *)
\* Mutant: a campaign without pending contacts is launched.
LaunchableEmpty(k) == made[k].status = "DRAFT"

Launchable(k) == made[k].status = "DRAFT" /\ made[k].members # {}

CheckLaunch(b) ==
  /\ At(b, "launching")
  /\ IF Launchable(presses[b].id) THEN Goto(b, "running") /\ UNCHANGED excuses ELSE Fail(b)
  /\ UNCHANGED <<form, open, made, agentActive, lost>>

WriteLaunch(b) ==
  /\ At(b, "running")
  /\ made' = Launched(b)
  /\ Succeed(b)
  /\ UNCHANGED <<agentActive, excuses, lost>>

(* The list of campaigns, in another window: a draft may be launched or    *)
(* cancelled there as soon as it exists.                                   *)
LaunchElsewhere(k) ==
  /\ Launchable(k) /\ made' = [made EXCEPT ![k].status = "RUNNING"]
  /\ UNCHANGED <<form, open, presses, agentActive, excuses, lost>>

CancelElsewhere(k) ==
  /\ made[k].status \in {"DRAFT", "RUNNING"} /\ made' = [made EXCEPT ![k].status = "CANCELLED"]
  /\ UNCHANGED <<form, open, presses, agentActive, excuses, lost>>

(* A request that never arrives, or whose answer never does. *)
Lose(b) == /\ lost < MaxFailures /\ lost' = lost + 1 /\ Fail(b)
           /\ UNCHANGED <<form, open, agentActive>>

LoseRequest(b) == presses[b].at \in {"creating", "adding", "launching"} /\ Lose(b) /\ UNCHANGED made

LoseAnswer(b) ==
  /\ \/ At(b, "inserting") /\ Free # {} /\ made' = Inserted(b)
     \/ At(b, "storing") /\ made' = WithContacts(b)
     \/ At(b, "running") /\ made' = Launched(b)
  /\ Lose(b)

FormNext ==
  \/ \E c \in Listed : TogglePick(c)
  \/ \E mode \in {"VOICE_AI", "FIXED_SCRIPT"} : ChooseMode(mode)
  \/ \E hours \in {"now", "window", "empty"} : ChooseHours(hours)
  \/ \E agent \in BOOLEAN, picked \in SUBSET Listed : ClientAsks(agent, picked)
  \/ LeavePage \/ PauseItsAgent
  \/ \E b \in Makers :
       \/ Press(b) \/ CheckAgent(b) \/ CreateCampaign(b) \/ CheckDraft(b) \/ StoreContacts(b)
       \/ CheckLaunch(b) \/ WriteLaunch(b) \/ LoseRequest(b) \/ LoseAnswer(b)
  \/ \E k \in Campaigns : LaunchElsewhere(k) \/ CancelElsewhere(k)

FormSpec == FormInit /\ [][FormNext]_formVars

----------------------------------------------------------------------------
(* Every part of the state has its type. *)
FormTypeOK ==
  /\ excuses \subseteq {"error", "both"} /\ form.picked \subseteq Listed
  /\ \A k \in Campaigns : made[k].members \subseteq made[k].whole /\ made[k].whole \subseteq Listed

OfForm == {k \in Campaigns : made[k].by \in Buttons}

(***************************************************************************)
(* A form makes one campaign: a second takes an error shown on the page,   *)
(* or the two buttons pressed at once, and only then may people be called  *)
(* by two campaigns of one form.  What runs has every contact that was     *)
(* picked, and a draft left with fewer has lost a request or been          *)
(* cancelled meanwhile (CampaignFormPage.tsx:75-96, lib/api.ts:435-471).   *)
(***************************************************************************)
FormMakesOneWholeCampaign ==
  /\ Cardinality(OfForm) > 1 => excuses # {}
  /\ \A k \in Campaigns :
       /\ made[k].status = "RUNNING" => made[k].members = made[k].whole
       /\ (made[k].status = "DRAFT" /\ made[k].members # made[k].whole)
            => lost > 0 \/ \E b \in Makers : presses[b].id = k
=============================================================================
