------------------------------- MODULE Prompts -------------------------------
(***************************************************************************)
(* What a call hears: the audio cache (AudioCache.ts) generates a sound    *)
(* once, gives it to the engine under a name and remembers in Redis that   *)
(* the name is there.  Three kinds of sound: the common prompts of the     *)
(* platform, the script of a campaign, and the reply of a turn of a call.  *)
(***************************************************************************)
EXTENDS Naturals

CONSTANTS Scripts,          \* campaigns of a fixed script
          ScriptPasses,     \* passes of the dispatcher over them
          ScriptRequests,   \* edits and starts of a campaign
          Base, Fits,       \* digits of a turn's number, and how many a name keeps
          MaxTurn,          \* last turn of the call
          MaxVoice,         \* voices the platform is given, one after another
          MaxPromptFaults   \* bound on failed syntheses, expiries and restarts

ASSUME PromptsAssumption ==
  /\ Base \in Nat \ {0, 1} /\ Fits \in Nat \ {0} /\ Base^Fits \in Nat \ {0}
  /\ MaxTurn \in Nat /\ MaxVoice \in Nat \ {0}

VARIABLES sounds,    \* what the engine plays under each name
          cached,    \* the names Redis says the engine has
          scripts,   \* [status, text, rewritten] of each campaign
          passes,    \* [at, script, text] of each pass
          scriptRequests,     \* [at, op, script] of each request
          turn,      \* [at, number] of the call's turn
          warming,   \* [at, voice] of the start-up of the audio cache
          heard,     \* history: what was played last, and what was meant
          promptFaults

promptVars == <<sounds, cached, scripts, passes, scriptRequests, turn, warming, heard, promptFaults>>

Common == <<"common">>
ScriptName(k) == <<"script", k>>
Nothing == [of |-> "nothing", at |-> 0, sound |-> 0, meant |-> 0]

(* The leading digits of n, as many as a name keeps.                       *)
Cut[n \in 0..MaxTurn] == IF n < Base^Fits THEN n ELSE Cut[n \div Base]

\* Mutant: the name of a reply does not tell the turns of a call apart.
NameWithoutTurn(n) == <<"turn", 0>>

(* dyn_<call>_<turn> cut at 32 characters: after an identifier of 25, two  *)
(* digits of the turn remain.                                              *)
TurnName(n) == <<"turn", Cut[n]>>

PromptNames == {Common} \cup {ScriptName(k) : k \in Scripts} \cup {TurnName(n) : n \in 0..MaxTurn}

PromptInit ==
  /\ sounds = [n \in PromptNames |-> 0] /\ cached = {}
  /\ scripts = [k \in Scripts |-> [status |-> "DRAFT", text |-> 1, rewritten |-> FALSE]]
  /\ passes = [p \in ScriptPasses |-> [at |-> "idle"]]
  /\ scriptRequests = [r \in ScriptRequests |-> [at |-> "idle"]]
  /\ turn = [at |-> "idle", number |-> 0]
  /\ warming = [at |-> "looking", voice |-> 1]
  /\ heard = Nothing /\ promptFaults = 0

PromptFault == promptFaults < MaxPromptFaults /\ promptFaults' = promptFaults + 1
Upload(name, sound) == sounds' = [sounds EXCEPT ![name] = sound]
OfCache == UNCHANGED <<sounds, cached>>
OfCampaigns == UNCHANGED <<scripts, passes, scriptRequests>>
OfCall == UNCHANGED turn
Quietly == UNCHANGED heard

----------------------------------------------------------------------------
(* warmUp, not awaited at start: what Redis has is kept whatever the voice *)
(* it was made with; a failure is logged and not tried again.              *)
WarmUpLooks ==
  /\ warming.at = "looking"
  /\ warming' = [warming EXCEPT !.at = IF Common \in cached THEN "warm" ELSE "missing"]
  /\ OfCache /\ OfCampaigns /\ OfCall /\ Quietly /\ UNCHANGED promptFaults

WarmUpUploads ==
  /\ warming.at = "missing" /\ Upload(Common, warming.voice)
  /\ warming' = [warming EXCEPT !.at = "uploaded"]
  /\ UNCHANGED cached /\ OfCampaigns /\ OfCall /\ Quietly /\ UNCHANGED promptFaults

WarmUpMarks ==
  /\ warming.at = "uploaded" /\ cached' = cached \cup {Common}
  /\ warming' = [warming EXCEPT !.at = "warm"]
  /\ UNCHANGED sounds /\ OfCampaigns /\ OfCall /\ Quietly /\ UNCHANGED promptFaults

WarmUpFails ==
  /\ warming.at \in {"missing", "uploaded"} /\ PromptFault
  /\ warming' = [warming EXCEPT !.at = "failed"]
  /\ OfCache /\ OfCampaigns /\ OfCall /\ Quietly

(* playSystemPrompt asks for the name, whether the sound is there or not;  *)
(* heard.at tells whether the warming was over.                            *)
PlaySystemPrompt ==
  /\ heard' = [of |-> "common", at |-> IF warming.at = "warm" THEN 1 ELSE 0, sound |-> sounds[Common], meant |-> warming.voice]
  /\ OfCache /\ OfCampaigns /\ OfCall /\ UNCHANGED <<warming, promptFaults>>

(* A restart, perhaps with another default voice, loses what was awaited.  *)
RestartEngine(voice) ==
  /\ PromptFault /\ voice \in {warming.voice, warming.voice + 1} /\ voice <= MaxVoice
  /\ warming' = [at |-> "looking", voice |-> voice]
  /\ passes' = [p \in ScriptPasses |-> [at |-> "idle"]]
  /\ scriptRequests' = [r \in ScriptRequests |-> IF scriptRequests[r].at = "idle" THEN scriptRequests[r] ELSE [at |-> "done"]]
  /\ turn' = [turn EXCEPT !.at = "over"]
  /\ OfCache /\ Quietly /\ UNCHANGED scripts

----------------------------------------------------------------------------
(* prepareDynamic and the playing of a turn's reply: turns of a call come  *)
(* one after another, and a key lasts an hour.                             *)
TurnLooks ==
  /\ turn.at = "idle"
  /\ turn' = [turn EXCEPT !.at = IF TurnName(turn.number) \in cached THEN "ready" ELSE "missing"]
  /\ OfCache /\ OfCampaigns /\ Quietly /\ UNCHANGED <<warming, promptFaults>>

TurnUploads ==
  /\ turn.at = "missing" /\ Upload(TurnName(turn.number), turn.number)
  /\ turn' = [turn EXCEPT !.at = "uploaded"]
  /\ UNCHANGED cached /\ OfCampaigns /\ Quietly /\ UNCHANGED <<warming, promptFaults>>

TurnMarks ==
  /\ turn.at = "uploaded" /\ cached' = cached \cup {TurnName(turn.number)}
  /\ turn' = [turn EXCEPT !.at = "ready"]
  /\ UNCHANGED sounds /\ OfCampaigns /\ Quietly /\ UNCHANGED <<warming, promptFaults>>

AfterTurn == [at |-> IF turn.number = MaxTurn THEN "over" ELSE "idle",
              number |-> IF turn.number = MaxTurn THEN turn.number ELSE turn.number + 1]

TurnSpeaks ==
  /\ turn.at = "ready" /\ turn' = AfterTurn
  /\ heard' = [of |-> "turn", at |-> turn.number, sound |-> sounds[TurnName(turn.number)], meant |-> turn.number]
  /\ OfCache /\ OfCampaigns /\ UNCHANGED <<warming, promptFaults>>

TurnFails ==
  /\ turn.at \in {"missing", "uploaded", "ready"} /\ PromptFault /\ turn' = AfterTurn
  /\ OfCache /\ OfCampaigns /\ Quietly /\ UNCHANGED warming

TurnExpires(n) ==
  /\ TurnName(n) \in cached /\ PromptFault /\ cached' = cached \ {TurnName(n)}
  /\ UNCHANGED sounds /\ OfCampaigns /\ OfCall /\ Quietly /\ UNCHANGED warming

----------------------------------------------------------------------------
(* An edit or a start looks at the status of the campaign it read and      *)
(* writes whatever the campaign has become since.                          *)
AskCampaign(r, op, k) ==
  /\ scriptRequests[r].at = "idle"
  /\ scripts[k].status \in (IF op = "edit" THEN {"DRAFT"} ELSE {"DRAFT", "PAUSED"})
  /\ scriptRequests' = [scriptRequests EXCEPT ![r] = [at |-> "read", op |-> op, script |-> k]]
  /\ OfCache /\ OfCall /\ Quietly /\ UNCHANGED <<scripts, passes, warming, promptFaults>>

EditScript(r) ==
  /\ scriptRequests[r].at = "read" /\ scriptRequests[r].op = "edit"
  /\ scriptRequests' = [scriptRequests EXCEPT ![r] = [at |-> "done"]]
  /\ LET k == scriptRequests[r].script IN
     scripts' = [scripts EXCEPT ![k].text = @ + 1, ![k].rewritten = @ \/ scripts[k].status # "DRAFT"]
  /\ OfCache /\ OfCall /\ Quietly /\ UNCHANGED <<passes, warming, promptFaults>>

StartScript(r) ==
  /\ scriptRequests[r].at = "read" /\ scriptRequests[r].op = "start"
  /\ scriptRequests' = [scriptRequests EXCEPT ![r] = [at |-> "done"]]
  /\ scripts' = [scripts EXCEPT ![scriptRequests[r].script].status = "RUNNING"]
  /\ OfCache /\ OfCall /\ Quietly /\ UNCHANGED <<passes, warming, promptFaults>>

(* A pass holds the row it read at its start until its last contact.       *)
PassReads(p, k) ==
  /\ passes[p].at = "idle" /\ scripts[k].status = "RUNNING"
  /\ passes' = [passes EXCEPT ![p] = [at |-> "read", script |-> k, text |-> scripts[k].text]]
  /\ OfCache /\ OfCall /\ Quietly /\ UNCHANGED <<scripts, scriptRequests, warming, promptFaults>>

PassLooks(p) ==
  /\ passes[p].at = "read"
  /\ passes' = [passes EXCEPT ![p].at = IF ScriptName(passes[p].script) \in cached THEN "ready" ELSE "missing"]
  /\ OfCache /\ OfCall /\ Quietly /\ UNCHANGED <<scripts, scriptRequests, warming, promptFaults>>

PassUploads(p) ==
  /\ passes[p].at = "missing" /\ Upload(ScriptName(passes[p].script), passes[p].text)
  /\ passes' = [passes EXCEPT ![p].at = "uploaded"]
  /\ UNCHANGED cached /\ OfCall /\ Quietly /\ UNCHANGED <<scripts, scriptRequests, warming, promptFaults>>

PassMarks(p) ==
  /\ passes[p].at = "uploaded" /\ cached' = cached \cup {ScriptName(passes[p].script)}
  /\ passes' = [passes EXCEPT ![p].at = "ready"]
  /\ UNCHANGED sounds /\ OfCall /\ Quietly /\ UNCHANGED <<scripts, scriptRequests, warming, promptFaults>>

(* The pass gives up and pauses the campaign, which no edit reaches then.  *)
PassFails(p) ==
  /\ passes[p].at \in {"missing", "uploaded"} /\ PromptFault
  /\ passes' = [passes EXCEPT ![p] = [at |-> "idle"]]
  /\ scripts' = [scripts EXCEPT ![passes[p].script].status = "PAUSED"]
  /\ OfCache /\ OfCall /\ Quietly /\ UNCHANGED <<scriptRequests, warming>>

PassSpeaks(p) ==
  /\ passes[p].at = "ready"
  /\ LET k == passes[p].script IN
     heard' = [of |-> "script", at |-> k, sound |-> sounds[ScriptName(k)], meant |-> scripts[k].text]
  /\ OfCache /\ OfCampaigns /\ OfCall /\ UNCHANGED <<warming, promptFaults>>

PassEnds(p) ==
  /\ passes[p].at = "ready" /\ passes' = [passes EXCEPT ![p] = [at |-> "idle"]]
  /\ OfCache /\ OfCall /\ Quietly /\ UNCHANGED <<scripts, scriptRequests, warming, promptFaults>>

PromptNext ==
  \/ WarmUpLooks \/ WarmUpUploads \/ WarmUpMarks \/ WarmUpFails \/ PlaySystemPrompt
  \/ \E voice \in 1..MaxVoice : RestartEngine(voice)
  \/ TurnLooks \/ TurnUploads \/ TurnMarks \/ TurnSpeaks \/ TurnFails
  \/ \E n \in 0..MaxTurn : TurnExpires(n)
  \/ \E r \in ScriptRequests :
       \/ EditScript(r) \/ StartScript(r)
       \/ \E op \in {"edit", "start"}, k \in Scripts : AskCampaign(r, op, k)
  \/ \E p \in ScriptPasses :
       \/ PassLooks(p) \/ PassUploads(p) \/ PassMarks(p) \/ PassFails(p) \/ PassSpeaks(p) \/ PassEnds(p)
       \/ \E k \in Scripts : PassReads(p, k)

PromptSpec == PromptInit /\ [][PromptNext]_promptVars

----------------------------------------------------------------------------
(* Every part of the state has its type.                                   *)
PromptTypeOK ==
  /\ sounds \in [PromptNames -> Nat] /\ cached \subseteq PromptNames
  /\ scripts \in [Scripts -> [status: {"DRAFT", "RUNNING", "PAUSED"}, text: Nat, rewritten: BOOLEAN]]
  /\ \A p \in ScriptPasses : /\ passes[p].at \in {"idle", "read", "missing", "uploaded", "ready"}
                            /\ passes[p].at # "idle" => passes[p].script \in Scripts
  /\ \A r \in ScriptRequests : scriptRequests[r].at \in {"idle", "read", "done"}
  /\ turn \in [at: {"idle", "missing", "uploaded", "ready", "over"}, number: 0..MaxTurn]
  /\ warming \in [at: {"looking", "missing", "uploaded", "warm", "failed"}, voice: 1..MaxVoice]

(***************************************************************************)
(* What is played is what was meant, except: a turn whose number has more  *)
(* digits than its name keeps; a script written by an edit that read the   *)
(* draft before the start; a common prompt made with an earlier voice, or  *)
(* asked for while the warming has not given it yet (AudioCache.ts:37-45,  *)
(* 71-79, 84-97, tenant/campaigns.ts:150-167, campaignDispatcher.ts:245).  *)
(***************************************************************************)
PromptSpeaksItsText ==
  \/ heard.sound = heard.meant
  \/ heard.of = "turn" /\ heard.at >= Base^Fits
  \/ heard.of = "script" /\ scripts[heard.at].rewritten
  \/ heard.of = "common" /\ (warming.voice > 1 \/ heard.at = 0)
=============================================================================
