-------------------------------- MODULE Models --------------------------------
(***************************************************************************)
(* One agent of a tenant, the model it may point at (BYOM), the moderation *)
(* of both, and the calls that resolve the model.                          *)
(*                                                                         *)
(* A request reads its row, decides on it, awaits, writes, and then forgets *)
(* what this process has resolved; two may do so at once.  A configuration *)
(* or a prompt is a number, a new one for each edit.                       *)
(***************************************************************************)
EXTENDS Naturals, FiniteSets

CONSTANTS ModelRequests, \* bound: HTTP requests open at once
          MaxRequests, \* bound: HTTP requests in all
          MCalls,     \* bound: calls at once
          MaxConfig,  \* bound: configurations of the model
          MaxPrompt,  \* bound: prompts of the agent
          AutoBlock   \* GUARDRAIL_AUTO_BLOCK

ASSUME ModelsAssumption ==
  /\ IsFiniteSet(ModelRequests) /\ IsFiniteSet(MCalls)
  /\ MaxConfig \in Nat \ {0} /\ MaxPrompt \in Nat \ {0}
  /\ MaxRequests \in Nat /\ AutoBlock \in Nat \ {0}

VARIABLES
  model,    \* the TenantModel row
  agent,    \* the Agent row
  modelRequests, \* what each request has read and is at
  resolved, \* the resolver's cache entry of the agent
  cut,      \* the model is in the set of those cut in this process
  mcalls,   \* the calls' sessions
  penalties, \* violations being recorded, and a block decided by one
  past      \* what happened, for the properties

rowVars == <<model, agent>>
memoryVars == <<resolved, cut, mcalls, penalties>>
modelsVars == <<rowVars, modelRequests, memoryVars, past>>

-----------------------------------------------------------------------------
ModelStatus == {"DRAFT", "PENDING_REVIEW", "ACTIVE", "BLOCKED"}
AgentStatus == ModelStatus \cup {"PAUSED"}
\* lastHealthAt and lastError together.
Health == {"never", "ok", "failed"}
Platform == 0

Model == [status: ModelStatus, config: 1..MaxConfig, health: Health,
          violations: 0..AutoBlock, deleted: BOOLEAN]
Agent == [status: AgentStatus, prompt: 1..MaxPrompt, model: BOOLEAN,
          deleted: BOOLEAN]

ModelOps == {"patch model", "test model", "submit model", "delete model",
             "approve model", "reject model", "block model"}
AgentOps == {"patch agent", "v1 patch agent", "delete agent", "submit agent",
             "v1 submit agent", "pause agent", "resume agent",
             "approve agent", "reject agent", "block agent"}
Request == [op: ModelOps \cup AgentOps \cup {"none"},
            pc: {"free", "write", "forget"}, model: Model, agent: Agent]
CallSteps == {"idle", "resolve", "register", "live", "turn"}

ModelsTypeOK ==
  /\ model \in Model /\ agent \in Agent /\ modelRequests \in [ModelRequests -> Request]
  /\ resolved \in [known: BOOLEAN, config: 0..MaxConfig, raced: BOOLEAN]
  /\ cut \in BOOLEAN
  /\ mcalls \in [MCalls -> [pc: CallSteps, config: 0..MaxConfig,
                            prompt: 1..MaxPrompt, late: BOOLEAN]]
  /\ penalties \in [open: 0..1, block: BOOLEAN]

NewModel == [status |-> "DRAFT", config |-> 1, health |-> "never",
             violations |-> 0, deleted |-> FALSE]
NewAgent == [status |-> "DRAFT", prompt |-> 1, model |-> FALSE,
             deleted |-> FALSE]
FreeRequest == [op |-> "none", pc |-> "free", model |-> NewModel,
                agent |-> NewAgent]
NoCall == [pc |-> "idle", config |-> Platform, prompt |-> 1, late |-> FALSE]
Unresolved == [known |-> FALSE, config |-> Platform, raced |-> FALSE]

\* Just created, or both approved and the agent pointing at the model.
Approved == [model |-> [NewModel EXCEPT !.status = "ACTIVE", !.health = "ok"],
             agent |-> [NewAgent EXCEPT !.status = "ACTIVE", !.model = TRUE]]

ModelsInit ==
  /\ \/ model = NewModel /\ agent = NewAgent
     \/ model = Approved.model /\ agent = Approved.agent
  /\ modelRequests = [q \in ModelRequests |-> FreeRequest]
  /\ resolved = Unresolved /\ cut = FALSE
  /\ mcalls = [c \in MCalls |-> NoCall]
  /\ penalties = [open |-> 0, block |-> FALSE]
  /\ LET at == IF agent = NewAgent THEN {} ELSE {1}
     IN  past = [configs |-> at, prompts |-> at,
             made |-> 0, crossed |-> {}, edited |-> FALSE, auto |-> FALSE,
             killed |-> FALSE, lifted |-> FALSE]

-----------------------------------------------------------------------------
(* A request: what it reads and decides (Receive), what it writes (Answer).*)

Receive(q, op, allowed) ==
  /\ modelRequests[q].pc = "free" /\ allowed
  /\ modelRequests' = [modelRequests EXCEPT ![q] =
       [op |-> op, pc |-> "write", agent |-> agent,
        model |-> [model EXCEPT !.violations = 0, !.health = "never"]]]
  /\ past.made < MaxRequests
  /\ past' = [past EXCEPT !.made = @ + 1]
  /\ UNCHANGED <<rowVars, memoryVars>>

Answering(q, op) == modelRequests[q].pc = "write" /\ modelRequests[q].op = op
Close(q) == modelRequests' = [modelRequests EXCEPT ![q] = FreeRequest]
ThenForget(q) == modelRequests' = [modelRequests EXCEPT ![q].pc = "forget"]

SeenModel(q) == modelRequests[q].model
SeenAgent(q) == modelRequests[q].agent

\* A write crosses another one when its row is not the one that was read.
OvertakenRows(q) == {row \in {"model", "agent"} :
                  \/ /\ row = "model" /\ modelRequests[q].op \in ModelOps
                     /\ SeenModel(q).status # model.status
                        \/ SeenModel(q).config # model.config
                        \/ SeenModel(q).deleted # model.deleted
                  \/ /\ row = "agent" /\ modelRequests[q].op \in AgentOps
                     /\ SeenAgent(q) # agent}
Crossed(q) == [past EXCEPT !.crossed = @ \cup OvertakenRows(q)]
Note(q) == past' = Crossed(q)

WriteModel(q, row) ==
  /\ model' = row
  /\ ThenForget(q)
  /\ UNCHANGED <<agent, memoryVars>>
WriteAgent(q, row) ==
  /\ agent' = row
  /\ Close(q)
  /\ UNCHANGED <<model, memoryVars>>

-----------------------------------------------------------------------------
(* Routes of the tenant's models (v1/models.ts).                           *)

\* What a row is while moderation has it, or has let it through.
\* Mutant: only what waits for moderation goes back to DRAFT.
WaitingOnly == {"PENDING_REVIEW"}
Reviewed == {"ACTIVE", "PENDING_REVIEW"}

\* Mutant: what is blocked may be submitted again.
MaySubmitBlocked(status) == status \notin Reviewed
MaySubmit(status) == status \notin Reviewed \cup {"BLOCKED"}

AskModelOp(q, op) ==
  /\ ~model.deleted
  /\ Receive(q, op,
       CASE op = "patch model" -> model.status # "BLOCKED"
         [] op = "submit model" -> MaySubmit(model.status) /\ model.health = "ok"
         [] op = "delete model" -> ~agent.model
         [] op \in {"approve model", "reject model"} ->
              model.status = "PENDING_REVIEW"
         [] OTHER -> TRUE)

\* What was approved is one configuration: a model seen approved or waiting
\* goes back to DRAFT with the new one.
PatchModel(q) ==
  /\ Answering(q, "patch model") /\ model.config < MaxConfig
  /\ WriteModel(q, [model EXCEPT !.config = @ + 1,
       !.status = IF SeenModel(q).status \in Reviewed
                  THEN "DRAFT" ELSE @])
  /\ Note(q)
\* The endpoint answers, or not; nothing is forgotten.
TestModel(q) ==
  /\ Answering(q, "test model")
  /\ \E ok \in BOOLEAN :
       /\ model' = [model EXCEPT !.health = IF ok THEN "ok" ELSE "failed"]
       /\ past' = Crossed(q)
  /\ Close(q)
  /\ UNCHANGED <<agent, memoryVars>>
SubmitModel(q) ==
  /\ Answering(q, "submit model")
  /\ WriteModel(q, [model EXCEPT !.status = "PENDING_REVIEW"]) /\ Note(q)
DeleteModel(q) ==
  /\ Answering(q, "delete model")
  /\ WriteModel(q, [model EXCEPT !.deleted = TRUE]) /\ Note(q)

(* Moderation of models (admin/models-moderation.ts).                      *)

ApproveModel(q) ==
  /\ Answering(q, "approve model")
  /\ WriteModel(q, [model EXCEPT !.status = "ACTIVE", !.violations = 0,
                                 !.health = IF @ = "never" THEN @ ELSE "ok"])
  /\ past' = [Crossed(q) EXCEPT !.configs = @ \cup {SeenModel(q).config}]
RejectModel(q) ==
  /\ Answering(q, "reject model")
  /\ WriteModel(q, [model EXCEPT !.status = "DRAFT", !.health = "failed"])
  /\ Note(q)
BlockModel(q) ==
  /\ Answering(q, "block model")
  /\ WriteModel(q, [model EXCEPT !.status = "BLOCKED", !.health = "failed"])
  /\ Note(q)

\* Mutant: the cache is only waited out.
KeptResolution == resolved
Forgotten == IF resolved.config = Platform THEN resolved ELSE Unresolved

\* invalidateModel: every write of a model but a test's drops what was
\* resolved to it; a block cuts the calls under way, anything else lifts it.
InvalidateModel(q) ==
  /\ modelRequests[q].pc = "forget" /\ modelRequests[q].op \in ModelOps
  /\ LET block == modelRequests[q].op = "block model"
     IN  /\ cut' = block
         /\ mcalls' = [c \in MCalls |->
              [mcalls[c] EXCEPT !.late = @ \/ (block /\ mcalls[c].pc = "turn")]]
         /\ past' = [past EXCEPT !.killed = @ \/ block,
                                 !.lifted = @ \/ (past.killed /\ ~block)]
  /\ resolved' = Forgotten
  /\ Close(q)
  /\ UNCHANGED <<rowVars, penalties>>

-----------------------------------------------------------------------------
(* Routes of the agents (tenant/agents.ts, v1/agents.ts) and moderation.   *)

AskAgentOp(q, op) ==
  /\ ~agent.deleted
  /\ Receive(q, op,
       CASE op \in {"patch agent", "v1 patch agent"} ->
              agent.status # "BLOCKED"
         [] op = "submit agent" -> agent.status = "DRAFT"
         [] op = "v1 submit agent" ->
              /\ MaySubmit(agent.status)
              /\ ~(agent.model /\ model.status = "BLOCKED")
         [] op = "pause agent" -> agent.status = "ACTIVE"
         [] op = "resume agent" -> agent.status = "PAUSED"
         [] op \in {"approve agent", "reject agent"} ->
              agent.status = "PENDING_REVIEW"
         [] OTHER -> TRUE)

Edited(q, prompt) == [Crossed(q) EXCEPT !.edited =
                        @ \/ (prompt /\ SeenAgent(q).status = "PAUSED")]

\* The tenant's editor: a new prompt takes an agent seen ACTIVE back to DRAFT.
PatchAgent(q) ==
  /\ Answering(q, "patch agent") /\ agent.prompt < MaxPrompt
  /\ WriteAgent(q, [agent EXCEPT !.prompt = @ + 1,
       !.status = IF SeenAgent(q).status = "ACTIVE" THEN "DRAFT" ELSE @])
  /\ past' = Edited(q, TRUE)
\* The public API: a new prompt or model, and one waiting goes back as well.
\* assertOwnModel has found the model, or it is taken away.
V1PatchAgent(q) ==
  /\ Answering(q, "v1 patch agent")
  /\ \E text \in BOOLEAN, points \in BOOLEAN :
       LET changed == text \/ points # SeenAgent(q).model
       IN  /\ points => SeenAgent(q).model \/ ~SeenModel(q).deleted
           /\ text => agent.prompt < MaxPrompt
           /\ agent' = [agent EXCEPT
                !.prompt = IF text THEN @ + 1 ELSE @, !.model = points,
                !.status = IF changed /\ SeenAgent(q).status \in Reviewed
                           THEN "DRAFT" ELSE @]
           /\ past' = Edited(q, text)
  /\ ThenForget(q)
  /\ UNCHANGED <<model, memoryVars>>
DeleteAgent(q) ==
  /\ Answering(q, "delete agent")
  /\ WriteAgent(q, [agent EXCEPT !.deleted = TRUE, !.status = "PAUSED"])
  /\ Note(q)
SubmitAgent(q) ==
  /\ Answering(q, "submit agent")
  /\ WriteAgent(q, [agent EXCEPT !.status = "PENDING_REVIEW"]) /\ Note(q)
V1SubmitAgent(q) ==
  /\ Answering(q, "v1 submit agent")
  /\ agent' = [agent EXCEPT !.status = "PENDING_REVIEW"]
  /\ ThenForget(q) /\ Note(q)
  /\ UNCHANGED <<model, memoryVars>>
PauseAgent(q) ==
  /\ Answering(q, "pause agent")
  /\ WriteAgent(q, [agent EXCEPT !.status = "PAUSED"]) /\ Note(q)
ResumeAgent(q) ==
  /\ Answering(q, "resume agent")
  /\ WriteAgent(q, [agent EXCEPT !.status = "ACTIVE"]) /\ Note(q)
ApproveAgent(q) ==
  /\ Answering(q, "approve agent")
  /\ WriteAgent(q, [agent EXCEPT !.status = "ACTIVE"])
  /\ past' = [Crossed(q) EXCEPT !.prompts = @ \cup {SeenAgent(q).prompt}]
RejectAgent(q) ==
  /\ Answering(q, "reject agent")
  /\ WriteAgent(q, [agent EXCEPT !.status = "DRAFT"]) /\ Note(q)
BlockAgent(q) ==
  /\ Answering(q, "block agent")
  /\ WriteAgent(q, [agent EXCEPT !.status = "BLOCKED"]) /\ Note(q)

\* invalidateModelCache(agent.id)
InvalidateAgent(q) ==
  /\ modelRequests[q].pc = "forget" /\ modelRequests[q].op \in AgentOps
  /\ resolved' = Unresolved
  /\ Close(q)
  /\ UNCHANGED <<rowVars, cut, mcalls, penalties, past>>

-----------------------------------------------------------------------------
(* The resolver and the calls.                                             *)

\* The model an ACTIVE row gives the agent now; otherwise, the platform's.
Serving == IF agent.model /\ ~model.deleted /\ model.status = "ACTIVE"
           THEN model.config ELSE Platform

\* Only an ACTIVE agent places a call, with the prompt it has then.
PlaceCall(c) ==
  /\ mcalls[c].pc = "idle"
  /\ ~agent.deleted /\ agent.status = "ACTIVE"
  /\ mcalls' = [mcalls EXCEPT ![c] = [NoCall EXCEPT !.pc = "resolve",
                                                    !.prompt = agent.prompt]]
  /\ UNCHANGED <<rowVars, modelRequests, resolved, cut, penalties, past>>
\* A fresh entry answers; otherwise the row is read.  A failed read leaves the
\* call on the platform's engine and the cache as it was.
ResolveModel(c) ==
  /\ mcalls[c].pc = "resolve"
  /\ \/ /\ resolved.known
        /\ mcalls' = [mcalls EXCEPT ![c].pc = "live",
                                    ![c].config = resolved.config]
     \/ /\ ~resolved.known
        /\ mcalls' = [mcalls EXCEPT ![c].pc = "register",
                                    ![c].config = Serving]
     \/ /\ ~resolved.known
        /\ mcalls' = [mcalls EXCEPT ![c].pc = "live"]
  /\ UNCHANGED <<rowVars, modelRequests, resolved, cut, penalties, past>>
\* What was read is kept, whatever was forgotten meanwhile.
RegisterCall(c) ==
  /\ mcalls[c].pc = "register"
  /\ resolved' = [known |-> TRUE, config |-> mcalls[c].config,
                  raced |-> mcalls[c].config # Serving]
  /\ mcalls' = [mcalls EXCEPT ![c].pc = "live"]
  /\ UNCHANGED <<rowVars, modelRequests, cut, penalties, past>>
ExpireCache ==
  /\ resolved.known /\ resolved' = Unresolved
  /\ UNCHANGED <<rowVars, modelRequests, cut, mcalls, penalties, past>>

\* Mutant: a call keeps the model it started with.
TurnEngineOfStart(c) == mcalls[c].config
TurnEngine(c) == IF cut THEN Platform ELSE mcalls[c].config

\* Each turn looks at the cut, then awaits the transcript, then asks.
StartTurn(c) ==
  /\ mcalls[c].pc = "live"
  /\ mcalls' = [mcalls EXCEPT ![c].pc = "turn", ![c].late = FALSE,
                              ![c].config = TurnEngine(c)]
  /\ UNCHANGED <<rowVars, modelRequests, resolved, cut, penalties, past>>
\* The reply is spoken; one the guardrails change is held against the model.
FinishTurn(c) ==
  /\ mcalls[c].pc = "turn"
  /\ mcalls' = [mcalls EXCEPT ![c].pc = "live", ![c].late = FALSE]
  /\ \/ UNCHANGED penalties
     \/ /\ mcalls[c].config # Platform /\ penalties.open = 0
        /\ penalties' = [penalties EXCEPT !.open = 1]
  /\ UNCHANGED <<rowVars, modelRequests, resolved, cut, past>>
HangUp(c) ==
  /\ mcalls[c].pc # "idle"
  /\ mcalls' = [mcalls EXCEPT ![c] = NoCall]
  /\ UNCHANGED <<rowVars, modelRequests, resolved, cut, penalties, past>>

\* recordViolation: the counter, then the block, which forgets nothing.
RecordViolation ==
  /\ penalties.open > 0
  /\ LET n == IF model.violations < AutoBlock THEN model.violations + 1
              ELSE AutoBlock
     IN  /\ model' = [model EXCEPT !.violations = n]
         /\ penalties' = [open |-> 0, block |-> penalties.block \/
                            (n = AutoBlock /\ model.status # "BLOCKED")]
  /\ UNCHANGED <<agent, modelRequests, resolved, cut, mcalls, past>>
BlockOnViolations ==
  /\ penalties.block
  /\ model' = [model EXCEPT !.status = "BLOCKED", !.health = "failed"]
  /\ penalties' = [penalties EXCEPT !.block = FALSE]
  /\ past' = [past EXCEPT !.auto = TRUE]
  /\ UNCHANGED <<agent, modelRequests, resolved, cut, mcalls>>

\* The process stops: the rows stay.
CrashModels ==
  /\ modelRequests' = [q \in ModelRequests |-> FreeRequest]
  /\ mcalls' = [c \in MCalls |-> NoCall]
  /\ resolved' = Unresolved /\ cut' = FALSE
  /\ penalties' = [open |-> 0, block |-> FALSE]
  /\ UNCHANGED <<rowVars, past>>

ModelsNext ==
  \/ \E q \in ModelRequests :
       \/ \E op \in ModelOps : AskModelOp(q, op)
       \/ \E op \in AgentOps : AskAgentOp(q, op)
       \/ PatchModel(q) \/ TestModel(q) \/ SubmitModel(q) \/ DeleteModel(q)
       \/ ApproveModel(q) \/ RejectModel(q) \/ BlockModel(q)
       \/ InvalidateModel(q)
       \/ PatchAgent(q) \/ V1PatchAgent(q) \/ DeleteAgent(q)
       \/ SubmitAgent(q) \/ V1SubmitAgent(q) \/ PauseAgent(q)
       \/ ResumeAgent(q) \/ ApproveAgent(q) \/ RejectAgent(q)
       \/ BlockAgent(q) \/ InvalidateAgent(q)
  \/ \E c \in MCalls : \/ PlaceCall(c) \/ ResolveModel(c) \/ RegisterCall(c)
                       \/ StartTurn(c) \/ FinishTurn(c) \/ HangUp(c)
  \/ ExpireCache \/ RecordViolation \/ BlockOnViolations \/ CrashModels

ModelsSpec == ModelsInit /\ [][ModelsNext]_modelsVars

-----------------------------------------------------------------------------
Speaking(c) == mcalls[c].pc \in {"live", "turn"}

\* A call speaks with a configuration and a prompt that an administrator saw
\* when approving, unless two requests crossed or the agent was edited while
\* PAUSED, which resuming does not send back to moderation (the comments of
\* v1/models.ts and v1/agents.ts on edits of what was approved).
OnlyApprovedModelsSpeak ==
  \A c \in MCalls : Speaking(c) =>
    /\ \/ mcalls[c].config \in past.configs \cup {Platform}
       \/ "model" \in past.crossed
    /\ \/ mcalls[c].prompt \in past.prompts
       \/ "agent" \in past.crossed \/ past.edited

\* What moderation or the guardrails blocked stays so: no route leads out of
\* BLOCKED, and only a request that had read the row before undoes it.
BlockedIsFinal ==
  [][/\ model.status = "BLOCKED" =>
          \/ model'.status = "BLOCKED"
          \/ \E q \in ModelRequests : modelRequests'[q] # modelRequests[q]
                                 /\ SeenModel(q).status # "BLOCKED"
     /\ agent.status = "BLOCKED" =>
          \/ agent'.status = "BLOCKED" \/ agent'.deleted
          \/ \E q \in ModelRequests : modelRequests'[q] # modelRequests[q]
                                 /\ SeenAgent(q).status # "BLOCKED"]_modelsVars

\* Once an administrator's block has returned, only a turn that had begun
\* still asks the model, even in a call that was resolving it; unless another
\* request, itself late, lifts the cut (the blocked set of modelResolver).
KillSwitchCutsCalls ==
  past.killed /\ ~past.lifted /\ "model" \notin past.crossed =>
    \A c \in MCalls : mcalls[c].pc = "turn" /\ mcalls[c].config # Platform
                        => mcalls[c].late

\* The cache never outlives what it was resolved from, but for a request about
\* to invalidate it, a block the guardrails decided, and an answer of the
\* database that was under way when it was invalidated (modelResolver).
ResolvedModelIsCurrent ==
  resolved.known /\ resolved.config # Platform =>
    \/ resolved.config = Serving
    \/ resolved.raced
    \/ past.auto
    \/ \E q \in ModelRequests : modelRequests[q].pc = "forget"
=============================================================================
