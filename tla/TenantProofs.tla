---------------------------- MODULE TenantProofs ----------------------------
(***************************************************************************)
(* Proofs about what is a tenant's own: its models (what Models and        *)
(* RemoteModel say, and the two side by side as MCModels runs them), and   *)
(* what it does outside a call (the parts MCTenancy runs: who gets in, its *)
(* plan, its contacts and campaigns, its prompts, its address).            *)
(*                                                                         *)
(* The argument about the models is that of a request that crosses no      *)
(* other.  Its row is still the one it read, so what its route refused to  *)
(* begin with is refused when it writes: RequestsFit keeps what the route  *)
(* saw, and ModelWritten and AgentWritten say what any such write may do.  *)
(* From there an ACTIVE row has a configuration, or a prompt, that was     *)
(* approved; and what a call or the cache holds came from an ACTIVE row.   *)
(*                                                                         *)
(* The argument about the rest is one invariant for each part, by itself;  *)
(* TenancyInv is all of them, since a part moves by its own actions alone. *)
(***************************************************************************)
EXTENDS MCModels, MCTenancy, SequenceTheorems, FiniteSetTheorems, WellFoundedInduction, TLAPS

-----------------------------------------------------------------------------
(* The inductive invariant.                                                *)

\* What happened has its type.
PastTypeOK ==
  past \in [configs: SUBSET (1..MaxConfig), prompts: SUBSET (1..MaxPrompt),
            made: Nat, crossed: SUBSET {"model", "agent"}, edited: BOOLEAN,
            auto: BOOLEAN, killed: BOOLEAN, lifted: BOOLEAN]

Typed == ModelsTypeOK /\ PastTypeOK

\* What the route of a request has seen, while the request is at its write.
RequestFits(q) ==
  modelRequests[q].pc = "write" =>
    /\ modelRequests[q].op \in {"patch model", "submit model",
                                "approve model", "reject model"} =>
         SeenModel(q).status # "BLOCKED"
    /\ modelRequests[q].op \in {"patch agent", "v1 patch agent",
         "submit agent", "v1 submit agent", "approve agent", "reject agent"} =>
         SeenAgent(q).status # "BLOCKED"
    /\ modelRequests[q].op = "pause agent" => SeenAgent(q).status = "ACTIVE"
    /\ modelRequests[q].op = "resume agent" => SeenAgent(q).status = "PAUSED"
RequestsFit == \A q \in ModelRequests : RequestFits(q)

\* A configuration that serves, is kept or is spoken with was approved.
ConfigsFit ==
  "model" \notin past.crossed =>
    /\ model.status = "ACTIVE" => model.config \in past.configs
    /\ resolved.config \in past.configs \cup {Platform}
    /\ \A c \in MCalls : mcalls[c].config \in past.configs \cup {Platform}

\* So was the prompt of an agent that calls or is PAUSED, and that of a call.
Prompted == /\ ~agent.deleted
            /\ agent.status \in {"ACTIVE", "PAUSED"}
PromptsFit ==
  "agent" \notin past.crossed /\ ~past.edited =>
    /\ Prompted => agent.prompt \in past.prompts
    /\ \A c \in MCalls : mcalls[c].pc # "idle" =>
                           mcalls[c].prompt \in past.prompts

\* The row is BLOCKED from the write of a block on, and as long as it kills.
Killing == past.killed /\ ~past.lifted /\ "model" \notin past.crossed
BlockFits ==
  /\ "model" \notin past.crossed =>
       \A q \in ModelRequests :
         modelRequests[q].pc = "forget" /\ modelRequests[q].op = "block model"
           => model.status = "BLOCKED"
  /\ Killing => model.status = "BLOCKED"

\* A restart forgets the cut, and with it every configuration there was.
CutFits ==
  Killing => \/ cut
             \/ /\ resolved.config = Platform
                /\ \A c \in MCalls : mcalls[c].config = Platform

RowsInv ==
  /\ Typed /\ RequestsFit /\ ConfigsFit /\ PromptsFit /\ BlockFits
  /\ CutFits /\ KillSwitchCutsCalls /\ ResolvedModelIsCurrent

\* The endpoint: a turn that is read has a reply, what is spoken is safe, and
\* while the breaker is open every turn that is posting is late.
ReadFits ==
  \A t \in RTurns :
    turns[t].pc = "read" => ParseResponse(turns[t].body) # Contract
PostsAreLate ==
  breaker.open => \A t \in RTurns : turns[t].pc = "post" => turns[t].late

EndpointInv == RemoteTypeOK /\ ReadFits /\ PostsAreLate /\ SpokenTurnIsSafe

-----------------------------------------------------------------------------
(* What the writes of the requests have in common.                         *)

\* Only q's entry changes: it is closed, or will forget what was resolved.
OthersKept(q) ==
  \A r \in ModelRequests : r # q => modelRequests'[r] = modelRequests[r]
IsClosed(q) == modelRequests'[q] = FreeRequest
Forgetting(q) == /\ modelRequests'[q].pc = "forget"
                 /\ modelRequests'[q].op = modelRequests[q].op

\* The fields of past that a write of a request never touches.
PastKept == /\ past'.auto = past.auto /\ past'.killed = past.killed
            /\ past'.lifted = past.lifted
PastGrows == /\ past.crossed \subseteq past'.crossed
             /\ past.configs \subseteq past'.configs
             /\ past.prompts \subseteq past'.prompts
             /\ past.edited => past'.edited

\* A write of the model's row by q, whatever it writes.
ModelWritten(q) ==
  /\ modelRequests[q].pc = "write" /\ modelRequests[q].op \in ModelOps
  /\ UNCHANGED <<agent, memoryVars>>
  /\ Typed' /\ OthersKept(q) /\ PastKept /\ PastGrows
  /\ \/ Forgetting(q)
     \/ /\ IsClosed(q) /\ model'.status = model.status
        /\ model'.config = model.config /\ model'.deleted = model.deleted
  /\ "model" \notin past'.crossed =>
       /\ SeenModel(q).status = model.status
       /\ SeenModel(q).config = model.config
  /\ model.status = "BLOCKED" /\ SeenModel(q).status = "BLOCKED"
       => model'.status = "BLOCKED"
  /\ modelRequests[q].op = "block model" => model'.status = "BLOCKED"
  /\ (/\ model'.status = "ACTIVE"
      /\ SeenModel(q).status = model.status
      /\ SeenModel(q).config = model.config)
       => \/ model'.config \in past'.configs
          \/ model.status = "ACTIVE" /\ model'.config = model.config

\* A write of the agent's row by q.
AgentWritten(q) ==
  /\ modelRequests[q].pc = "write" /\ modelRequests[q].op \in AgentOps
  /\ UNCHANGED <<model, memoryVars>>
  /\ Typed' /\ OthersKept(q) /\ PastKept /\ PastGrows
  /\ past'.configs = past.configs
  /\ \/ Forgetting(q)
     \/ IsClosed(q) /\ agent'.model = agent.model
  /\ "agent" \notin past'.crossed => SeenAgent(q) = agent
  /\ agent.status = "BLOCKED" /\ SeenAgent(q).status = "BLOCKED"
       => agent'.status = "BLOCKED" \/ agent'.deleted
  /\ (~past'.edited /\ SeenAgent(q) = agent /\ Prompted')
       => \/ agent'.prompt \in past'.prompts
          \/ Prompted /\ agent'.prompt = agent.prompt

\* The parts of the types.
LEMMA RowTypes ==
  ASSUME ModelsTypeOK
  PROVE  /\ model.status \in ModelStatus /\ model.config \in 1..MaxConfig
         /\ model.health \in Health /\ model.violations \in 0..AutoBlock
         /\ model.deleted \in BOOLEAN
         /\ agent.status \in AgentStatus /\ agent.prompt \in 1..MaxPrompt
         /\ agent.model \in BOOLEAN /\ agent.deleted \in BOOLEAN
BY DEF ModelsTypeOK, Model, Agent

LEMMA SeenTypes ==
  ASSUME ModelsTypeOK, NEW q \in ModelRequests
  PROVE  /\ modelRequests[q] \in Request
         /\ SeenModel(q) \in Model /\ SeenAgent(q) \in Agent
         /\ SeenModel(q).config \in 1..MaxConfig
         /\ SeenAgent(q).prompt \in 1..MaxPrompt
BY DEF ModelsTypeOK, Request, Model, Agent, SeenModel, SeenAgent

\* The free request is a request.
LEMMA FreeIsRequest == FreeRequest \in Request
<1>1. MaxConfig \in Nat \ {0} /\ MaxPrompt \in Nat \ {0} /\ AutoBlock \in Nat \ {0}
  BY ModelsAssumption
<1>2. NewModel \in Model
  BY <1>1 DEF NewModel, Model, ModelStatus, Health
<1>3. NewAgent \in Agent
  BY <1>1 DEF NewAgent, Agent, AgentStatus, ModelStatus
<1> QED BY <1>2, <1>3 DEF FreeRequest, Request

LEMMA FreeFields ==
  FreeRequest.pc = "free" /\ FreeRequest.op = "none"
BY DEF FreeRequest

\* A request that ends, or goes on to forget, leaves the others alone.
LEMMA CloseEffect ==
  ASSUME ModelsTypeOK, NEW q \in ModelRequests, Close(q)
  PROVE  /\ modelRequests' \in [ModelRequests -> Request]
         /\ OthersKept(q) /\ IsClosed(q)
<1>1. modelRequests \in [ModelRequests -> Request]
  BY DEF ModelsTypeOK
<1> QED BY <1>1, FreeIsRequest DEF Close, OthersKept, IsClosed

LEMMA ForgetEffect ==
  ASSUME ModelsTypeOK, NEW q \in ModelRequests, ThenForget(q)
  PROVE  /\ modelRequests' \in [ModelRequests -> Request]
         /\ OthersKept(q) /\ Forgetting(q)
<1>1. modelRequests \in [ModelRequests -> Request]
  BY DEF ModelsTypeOK
<1> DEFINE s == [modelRequests[q] EXCEPT !.pc = "forget"]
<1>2. s \in Request /\ s.pc = "forget" /\ s.op = modelRequests[q].op
  BY <1>1 DEF Request
<1>3. modelRequests' = [modelRequests EXCEPT ![q] = s]
  BY DEF ThenForget
<1> HIDE DEF s
<1> QED BY <1>1, <1>2, <1>3 DEF OthersKept, Forgetting

\* What a crossing adds to what happened.
LEMMA CrossedEffect ==
  ASSUME Typed, NEW q \in ModelRequests, NEW seen, seen = Crossed(q)
  PROVE  /\ seen.crossed = past.crossed \cup OvertakenRows(q)
         /\ seen.crossed \in SUBSET {"model", "agent"}
         /\ seen.configs = past.configs /\ seen.prompts = past.prompts
         /\ seen.made = past.made /\ seen.edited = past.edited
         /\ seen.auto = past.auto /\ seen.killed = past.killed
         /\ seen.lifted = past.lifted
         /\ seen \in [configs: SUBSET (1..MaxConfig),
                      prompts: SUBSET (1..MaxPrompt), made: Nat,
                      crossed: SUBSET {"model", "agent"}, edited: BOOLEAN,
                      auto: BOOLEAN, killed: BOOLEAN, lifted: BOOLEAN]
<1>1. OvertakenRows(q) \in SUBSET {"model", "agent"}
  BY DEF OvertakenRows
<1> QED BY <1>1 DEF Typed, PastTypeOK, Crossed

\* A request whose row is not overtaken writes the row it read.
LEMMA NotOvertaken ==
  ASSUME Typed, NEW q \in ModelRequests
  PROVE  /\ (modelRequests[q].op \in ModelOps /\ "model" \notin OvertakenRows(q))
              => /\ SeenModel(q).status = model.status
                 /\ SeenModel(q).config = model.config
         /\ (modelRequests[q].op \in AgentOps /\ "agent" \notin OvertakenRows(q))
              => SeenAgent(q) = agent
BY DEF OvertakenRows

-----------------------------------------------------------------------------
(* One lemma for each write.                                               *)

\* What a write that notes only its crossing leaves in past.
LEMMA NoteEffect ==
  ASSUME Typed, NEW q \in ModelRequests, past' = Crossed(q)
  PROVE  /\ PastTypeOK' /\ PastKept /\ PastGrows
         /\ OvertakenRows(q) \subseteq past'.crossed
         /\ past'.configs = past.configs /\ past'.prompts = past.prompts
         /\ past'.edited = past.edited
<1> DEFINE seen == Crossed(q)
<1>1. /\ seen.crossed = past.crossed \cup OvertakenRows(q)
      /\ seen.configs = past.configs /\ seen.prompts = past.prompts
      /\ seen.edited = past.edited
      /\ seen.auto = past.auto /\ seen.killed = past.killed
      /\ seen.lifted = past.lifted
      /\ seen \in [configs: SUBSET (1..MaxConfig),
                   prompts: SUBSET (1..MaxPrompt), made: Nat,
                   crossed: SUBSET {"model", "agent"}, edited: BOOLEAN,
                   auto: BOOLEAN, killed: BOOLEAN, lifted: BOOLEAN]
  BY CrossedEffect
<1> HIDE DEF seen
<1>2. past' = seen
  BY DEF seen
<1> QED BY <1>1, <1>2 DEF PastTypeOK, PastKept, PastGrows

\* A write of the model's row is all that ModelWritten says of it.
LEMMA WroteModel ==
  ASSUME Typed, NEW q \in ModelRequests, NEW op \in ModelOps,
         Answering(q, op), model' \in Model,
         UNCHANGED <<agent, memoryVars>>,
         \/ ThenForget(q)
         \/ /\ Close(q) /\ model'.status = model.status
            /\ model'.config = model.config /\ model'.deleted = model.deleted,
         PastTypeOK', PastKept, PastGrows,
         OvertakenRows(q) \subseteq past'.crossed,
         model.status = "BLOCKED" /\ SeenModel(q).status = "BLOCKED"
           => model'.status = "BLOCKED",
         op = "block model" => model'.status = "BLOCKED",
         (/\ model'.status = "ACTIVE"
          /\ SeenModel(q).status = model.status
          /\ SeenModel(q).config = model.config)
           => \/ model'.config \in past'.configs
              \/ model.status = "ACTIVE" /\ model'.config = model.config
  PROVE  ModelWritten(q)
<1>1. modelRequests[q].pc = "write" /\ modelRequests[q].op = op
  BY DEF Answering
<1>2. /\ modelRequests' \in [ModelRequests -> Request] /\ OthersKept(q)
      /\ \/ Forgetting(q)
         \/ /\ IsClosed(q) /\ model'.status = model.status
            /\ model'.config = model.config /\ model'.deleted = model.deleted
  BY CloseEffect, ForgetEffect DEF Typed
<1>3. /\ agent' = agent /\ resolved' = resolved /\ cut' = cut
      /\ mcalls' = mcalls /\ penalties' = penalties
  BY DEF memoryVars
<1>4. Typed'
  BY <1>2, <1>3 DEF Typed, ModelsTypeOK
<1>5. "model" \notin past'.crossed =>
        /\ SeenModel(q).status = model.status
        /\ SeenModel(q).config = model.config
  BY <1>1, NotOvertaken
<1> QED BY <1>1, <1>2, <1>4, <1>5 DEF ModelWritten

LEMMA PatchModelWrites ==
  ASSUME Typed, NEW q \in ModelRequests, RequestFits(q), PatchModel(q)
  PROVE  ModelWritten(q)
<1> DEFINE row == [model EXCEPT !.config = @ + 1,
                     !.status = IF SeenModel(q).status \in Reviewed
                                THEN "DRAFT" ELSE @]
<1>1. /\ Answering(q, "patch model") /\ model.config < MaxConfig
      /\ WriteModel(q, row) /\ Note(q)
  BY DEF PatchModel
<1>2. /\ row \in Model
      /\ row.status = IF SeenModel(q).status \in Reviewed THEN "DRAFT"
                      ELSE model.status
  <2>1. model \in Model
    BY DEF Typed, ModelsTypeOK
  <2>2. model.config \in 1..MaxConfig /\ MaxConfig \in Nat
    BY RowTypes, ModelsAssumption DEF Typed
  <2>3. model.config + 1 \in 1..MaxConfig
    <3>1. model.config < MaxConfig
      BY <1>1
    <3> HIDE DEF row
    <3> QED BY <2>2, <3>1
  <2> QED BY <2>1, <2>3 DEF Model, ModelStatus
<1>3. SeenModel(q).status # "BLOCKED"
  BY <1>1 DEF Answering, RequestFits
<1> HIDE DEF row
<1>4. model' = row /\ ThenForget(q) /\ UNCHANGED <<agent, memoryVars>>
  BY <1>1 DEF WriteModel
<1>5. past' = Crossed(q)
  BY <1>1 DEF Note
<1>6. "patch model" \in ModelOps
  BY DEF ModelOps
<1>7. model'.status = "ACTIVE" => SeenModel(q).status # "ACTIVE"
  BY <1>2, <1>4 DEF Reviewed
<1>8. model'.status = "ACTIVE" => model.status = "ACTIVE"
  BY <1>2, <1>4
<1> QED BY <1>1, <1>2, <1>3, <1>4, <1>5, <1>6, <1>7, <1>8, NoteEffect, WroteModel

LEMMA TestModelWrites ==
  ASSUME Typed, NEW q \in ModelRequests, TestModel(q)
  PROVE  ModelWritten(q)
<1>1. PICK ok \in BOOLEAN :
        /\ model' = [model EXCEPT !.health = IF ok THEN "ok" ELSE "failed"]
        /\ past' = Crossed(q)
  BY DEF TestModel
<1>2. Answering(q, "test model") /\ Close(q) /\ UNCHANGED <<agent, memoryVars>>
  BY DEF TestModel
<1>3. /\ model' \in Model /\ model'.status = model.status
      /\ model'.config = model.config /\ model'.deleted = model.deleted
  BY <1>1 DEF Typed, ModelsTypeOK, Model, Health
<1>4. "test model" \in ModelOps
  BY DEF ModelOps
<1> QED BY <1>1, <1>2, <1>3, <1>4, NoteEffect, WroteModel

LEMMA SubmitModelWrites ==
  ASSUME Typed, NEW q \in ModelRequests, RequestFits(q), SubmitModel(q)
  PROVE  ModelWritten(q)
<1> DEFINE row == [model EXCEPT !.status = "PENDING_REVIEW"]
<1>1. Answering(q, "submit model") /\ WriteModel(q, row) /\ Note(q)
  BY DEF SubmitModel
<1>2. row \in Model /\ row.status = "PENDING_REVIEW"
  BY DEF Typed, ModelsTypeOK, Model, ModelStatus
<1>3. SeenModel(q).status # "BLOCKED"
  BY <1>1 DEF Answering, RequestFits
<1> HIDE DEF row
<1>4. model' = row /\ ThenForget(q) /\ UNCHANGED <<agent, memoryVars>>
  BY <1>1 DEF WriteModel
<1>5. past' = Crossed(q)
  BY <1>1 DEF Note
<1>6. "submit model" \in ModelOps
  BY DEF ModelOps
<1> QED BY <1>1, <1>2, <1>3, <1>4, <1>5, <1>6, NoteEffect, WroteModel

LEMMA DeleteModelWrites ==
  ASSUME Typed, NEW q \in ModelRequests, DeleteModel(q)
  PROVE  ModelWritten(q)
<1> DEFINE row == [model EXCEPT !.deleted = TRUE]
<1>1. Answering(q, "delete model") /\ WriteModel(q, row) /\ Note(q)
  BY DEF DeleteModel
<1>2. row \in Model /\ row.status = model.status /\ row.config = model.config
  BY DEF Typed, ModelsTypeOK, Model
<1> HIDE DEF row
<1>3. model' = row /\ ThenForget(q) /\ UNCHANGED <<agent, memoryVars>>
  BY <1>1 DEF WriteModel
<1>4. past' = Crossed(q)
  BY <1>1 DEF Note
<1>5. "delete model" \in ModelOps
  BY DEF ModelOps
<1> QED BY <1>1, <1>2, <1>3, <1>4, <1>5, NoteEffect, WroteModel

LEMMA ApproveModelWrites ==
  ASSUME Typed, NEW q \in ModelRequests, RequestFits(q), ApproveModel(q)
  PROVE  ModelWritten(q)
<1> DEFINE row == [model EXCEPT !.status = "ACTIVE", !.violations = 0,
                                !.health = IF @ = "never" THEN @ ELSE "ok"]
<1> DEFINE seen == Crossed(q)
<1>1. /\ Answering(q, "approve model") /\ WriteModel(q, row)
      /\ past' = [seen EXCEPT !.configs = @ \cup {SeenModel(q).config}]
  BY DEF ApproveModel
<1>2. row \in Model /\ row.status = "ACTIVE" /\ row.config = model.config
  <2>1. model \in Model /\ 0 \in 0..AutoBlock
    BY ModelsAssumption DEF Typed, ModelsTypeOK
  <2> QED BY <2>1 DEF Model, ModelStatus, Health
<1>3. SeenModel(q).status # "BLOCKED"
  BY <1>1 DEF Answering, RequestFits
<1> HIDE DEF row
<1>4. model' = row /\ ThenForget(q) /\ UNCHANGED <<agent, memoryVars>>
  BY <1>1 DEF WriteModel
<1>5. /\ seen.crossed = past.crossed \cup OvertakenRows(q)
      /\ seen.configs = past.configs /\ seen.prompts = past.prompts
      /\ seen.edited = past.edited
      /\ seen.auto = past.auto /\ seen.killed = past.killed
      /\ seen.lifted = past.lifted
      /\ seen \in [configs: SUBSET (1..MaxConfig),
                   prompts: SUBSET (1..MaxPrompt), made: Nat,
                   crossed: SUBSET {"model", "agent"}, edited: BOOLEAN,
                   auto: BOOLEAN, killed: BOOLEAN, lifted: BOOLEAN]
  BY CrossedEffect
<1> HIDE DEF seen
<1>6. SeenModel(q).config \in 1..MaxConfig
  BY SeenTypes DEF Typed
<1>7. /\ PastTypeOK' /\ PastKept /\ PastGrows
      /\ OvertakenRows(q) \subseteq past'.crossed
      /\ SeenModel(q).config \in past'.configs
  BY <1>1, <1>5, <1>6 DEF PastTypeOK, PastKept, PastGrows
<1>8. "approve model" \in ModelOps
  BY DEF ModelOps
<1> QED BY <1>1, <1>2, <1>3, <1>4, <1>7, <1>8, WroteModel

LEMMA RejectModelWrites ==
  ASSUME Typed, NEW q \in ModelRequests, RequestFits(q), RejectModel(q)
  PROVE  ModelWritten(q)
<1> DEFINE row == [model EXCEPT !.status = "DRAFT", !.health = "failed"]
<1>1. Answering(q, "reject model") /\ WriteModel(q, row) /\ Note(q)
  BY DEF RejectModel
<1>2. row \in Model /\ row.status = "DRAFT"
  BY DEF Typed, ModelsTypeOK, Model, ModelStatus, Health
<1>3. SeenModel(q).status # "BLOCKED"
  BY <1>1 DEF Answering, RequestFits
<1> HIDE DEF row
<1>4. model' = row /\ ThenForget(q) /\ UNCHANGED <<agent, memoryVars>>
  BY <1>1 DEF WriteModel
<1>5. past' = Crossed(q)
  BY <1>1 DEF Note
<1>6. "reject model" \in ModelOps
  BY DEF ModelOps
<1> QED BY <1>1, <1>2, <1>3, <1>4, <1>5, <1>6, NoteEffect, WroteModel

LEMMA BlockModelWrites ==
  ASSUME Typed, NEW q \in ModelRequests, BlockModel(q)
  PROVE  ModelWritten(q)
<1> DEFINE row == [model EXCEPT !.status = "BLOCKED", !.health = "failed"]
<1>1. Answering(q, "block model") /\ WriteModel(q, row) /\ Note(q)
  BY DEF BlockModel
<1>2. row \in Model /\ row.status = "BLOCKED"
  BY DEF Typed, ModelsTypeOK, Model, ModelStatus, Health
<1> HIDE DEF row
<1>3. model' = row /\ ThenForget(q) /\ UNCHANGED <<agent, memoryVars>>
  BY <1>1 DEF WriteModel
<1>4. past' = Crossed(q)
  BY <1>1 DEF Note
<1>5. "block model" \in ModelOps
  BY DEF ModelOps
<1> QED BY <1>1, <1>2, <1>3, <1>4, <1>5, NoteEffect, WroteModel

\* The same of the agent's row.
LEMMA WroteAgent ==
  ASSUME Typed, NEW q \in ModelRequests, NEW op \in AgentOps,
         Answering(q, op), agent' \in Agent,
         UNCHANGED <<model, memoryVars>>,
         ThenForget(q) \/ (Close(q) /\ agent'.model = agent.model),
         PastTypeOK', PastKept, PastGrows,
         OvertakenRows(q) \subseteq past'.crossed,
         past'.configs = past.configs,
         agent.status = "BLOCKED" /\ SeenAgent(q).status = "BLOCKED"
           => agent'.status = "BLOCKED" \/ agent'.deleted,
         (~past'.edited /\ SeenAgent(q) = agent /\ Prompted')
           => \/ agent'.prompt \in past'.prompts
              \/ Prompted /\ agent'.prompt = agent.prompt
  PROVE  AgentWritten(q)
<1>1. modelRequests[q].pc = "write" /\ modelRequests[q].op = op
  BY DEF Answering
<1>2. /\ modelRequests' \in [ModelRequests -> Request] /\ OthersKept(q)
      /\ \/ Forgetting(q)
         \/ IsClosed(q) /\ agent'.model = agent.model
  BY CloseEffect, ForgetEffect DEF Typed
<1>3. /\ model' = model /\ resolved' = resolved /\ cut' = cut
      /\ mcalls' = mcalls /\ penalties' = penalties
  BY DEF memoryVars
<1>4. Typed'
  BY <1>2, <1>3 DEF Typed, ModelsTypeOK
<1>5. "agent" \notin past'.crossed => SeenAgent(q) = agent
  BY <1>1, NotOvertaken
<1> QED BY <1>1, <1>2, <1>4, <1>5 DEF AgentWritten

LEMMA DeleteAgentWrites ==
  ASSUME Typed, NEW q \in ModelRequests, DeleteAgent(q)
  PROVE  AgentWritten(q)
<1> DEFINE row == [agent EXCEPT !.deleted = TRUE, !.status = "PAUSED"]
<1>1. Answering(q, "delete agent") /\ WriteAgent(q, row) /\ Note(q)
  BY DEF DeleteAgent
<1>2. /\ row \in Agent /\ row.status = "PAUSED"
      /\ row.model = agent.model /\ row.prompt = agent.prompt
      /\ row.deleted = TRUE
  BY DEF Typed, ModelsTypeOK, Agent, AgentStatus, ModelStatus
<1> HIDE DEF row
<1>4. agent' = row /\ Close(q) /\ UNCHANGED <<model, memoryVars>>
  BY <1>1 DEF WriteAgent
<1>5. past' = Crossed(q)
  BY <1>1 DEF Note
<1>6. "delete agent" \in AgentOps
  BY DEF AgentOps
<1>7. /\ PastTypeOK' /\ PastKept /\ PastGrows
      /\ OvertakenRows(q) \subseteq past'.crossed
      /\ past'.configs = past.configs
  BY <1>5, NoteEffect
<1>8. Prompted' /\ SeenAgent(q) = agent => Prompted /\ agent'.prompt = agent.prompt
  BY <1>2, <1>4 DEF Prompted
<1> QED BY <1>1, <1>2, <1>4, <1>6, <1>7, <1>8, WroteAgent

LEMMA SubmitAgentWrites ==
  ASSUME Typed, NEW q \in ModelRequests, RequestFits(q), SubmitAgent(q)
  PROVE  AgentWritten(q)
<1> DEFINE row == [agent EXCEPT !.status = "PENDING_REVIEW"]
<1>1. Answering(q, "submit agent") /\ WriteAgent(q, row) /\ Note(q)
  BY DEF SubmitAgent
<1>2. /\ row \in Agent /\ row.status = "PENDING_REVIEW"
      /\ row.model = agent.model /\ row.prompt = agent.prompt
      /\ row.deleted = agent.deleted
  BY DEF Typed, ModelsTypeOK, Agent, AgentStatus, ModelStatus
<1>3. SeenAgent(q).status # "BLOCKED"
  BY <1>1 DEF Answering, RequestFits
<1> HIDE DEF row
<1>4. agent' = row /\ Close(q) /\ UNCHANGED <<model, memoryVars>>
  BY <1>1 DEF WriteAgent
<1>5. past' = Crossed(q)
  BY <1>1 DEF Note
<1>6. "submit agent" \in AgentOps
  BY DEF AgentOps
<1>7. /\ PastTypeOK' /\ PastKept /\ PastGrows
      /\ OvertakenRows(q) \subseteq past'.crossed
      /\ past'.configs = past.configs
  BY <1>5, NoteEffect
<1>8. Prompted' /\ SeenAgent(q) = agent => Prompted /\ agent'.prompt = agent.prompt
  BY <1>2, <1>3, <1>4 DEF Prompted
<1> QED BY <1>1, <1>2, <1>3, <1>4, <1>6, <1>7, <1>8, WroteAgent

LEMMA PauseAgentWrites ==
  ASSUME Typed, NEW q \in ModelRequests, RequestFits(q), PauseAgent(q)
  PROVE  AgentWritten(q)
<1> DEFINE row == [agent EXCEPT !.status = "PAUSED"]
<1>1. Answering(q, "pause agent") /\ WriteAgent(q, row) /\ Note(q)
  BY DEF PauseAgent
<1>2. /\ row \in Agent /\ row.status = "PAUSED"
      /\ row.model = agent.model /\ row.prompt = agent.prompt
      /\ row.deleted = agent.deleted
  BY DEF Typed, ModelsTypeOK, Agent, AgentStatus, ModelStatus
<1>3. SeenAgent(q).status = "ACTIVE"
  BY <1>1 DEF Answering, RequestFits
<1> HIDE DEF row
<1>4. agent' = row /\ Close(q) /\ UNCHANGED <<model, memoryVars>>
  BY <1>1 DEF WriteAgent
<1>5. past' = Crossed(q)
  BY <1>1 DEF Note
<1>6. "pause agent" \in AgentOps
  BY DEF AgentOps
<1>7. /\ PastTypeOK' /\ PastKept /\ PastGrows
      /\ OvertakenRows(q) \subseteq past'.crossed
      /\ past'.configs = past.configs
  BY <1>5, NoteEffect
<1>8. Prompted' /\ SeenAgent(q) = agent => Prompted /\ agent'.prompt = agent.prompt
  BY <1>2, <1>3, <1>4 DEF Prompted
<1> QED BY <1>1, <1>2, <1>3, <1>4, <1>6, <1>7, <1>8, WroteAgent

LEMMA ResumeAgentWrites ==
  ASSUME Typed, NEW q \in ModelRequests, RequestFits(q), ResumeAgent(q)
  PROVE  AgentWritten(q)
<1> DEFINE row == [agent EXCEPT !.status = "ACTIVE"]
<1>1. Answering(q, "resume agent") /\ WriteAgent(q, row) /\ Note(q)
  BY DEF ResumeAgent
<1>2. /\ row \in Agent /\ row.status = "ACTIVE"
      /\ row.model = agent.model /\ row.prompt = agent.prompt
      /\ row.deleted = agent.deleted
  BY DEF Typed, ModelsTypeOK, Agent, AgentStatus, ModelStatus
<1>3. SeenAgent(q).status = "PAUSED"
  BY <1>1 DEF Answering, RequestFits
<1> HIDE DEF row
<1>4. agent' = row /\ Close(q) /\ UNCHANGED <<model, memoryVars>>
  BY <1>1 DEF WriteAgent
<1>5. past' = Crossed(q)
  BY <1>1 DEF Note
<1>6. "resume agent" \in AgentOps
  BY DEF AgentOps
<1>7. /\ PastTypeOK' /\ PastKept /\ PastGrows
      /\ OvertakenRows(q) \subseteq past'.crossed
      /\ past'.configs = past.configs
  BY <1>5, NoteEffect
<1>8. Prompted' /\ SeenAgent(q) = agent => Prompted /\ agent'.prompt = agent.prompt
  BY <1>2, <1>3, <1>4 DEF Prompted
<1> QED BY <1>1, <1>2, <1>3, <1>4, <1>6, <1>7, <1>8, WroteAgent

LEMMA RejectAgentWrites ==
  ASSUME Typed, NEW q \in ModelRequests, RequestFits(q), RejectAgent(q)
  PROVE  AgentWritten(q)
<1> DEFINE row == [agent EXCEPT !.status = "DRAFT"]
<1>1. Answering(q, "reject agent") /\ WriteAgent(q, row) /\ Note(q)
  BY DEF RejectAgent
<1>2. /\ row \in Agent /\ row.status = "DRAFT"
      /\ row.model = agent.model /\ row.prompt = agent.prompt
      /\ row.deleted = agent.deleted
  BY DEF Typed, ModelsTypeOK, Agent, AgentStatus, ModelStatus
<1>3. SeenAgent(q).status # "BLOCKED"
  BY <1>1 DEF Answering, RequestFits
<1> HIDE DEF row
<1>4. agent' = row /\ Close(q) /\ UNCHANGED <<model, memoryVars>>
  BY <1>1 DEF WriteAgent
<1>5. past' = Crossed(q)
  BY <1>1 DEF Note
<1>6. "reject agent" \in AgentOps
  BY DEF AgentOps
<1>7. /\ PastTypeOK' /\ PastKept /\ PastGrows
      /\ OvertakenRows(q) \subseteq past'.crossed
      /\ past'.configs = past.configs
  BY <1>5, NoteEffect
<1>8. Prompted' /\ SeenAgent(q) = agent => Prompted /\ agent'.prompt = agent.prompt
  BY <1>2, <1>3, <1>4 DEF Prompted
<1> QED BY <1>1, <1>2, <1>3, <1>4, <1>6, <1>7, <1>8, WroteAgent

LEMMA BlockAgentWrites ==
  ASSUME Typed, NEW q \in ModelRequests, BlockAgent(q)
  PROVE  AgentWritten(q)
<1> DEFINE row == [agent EXCEPT !.status = "BLOCKED"]
<1>1. Answering(q, "block agent") /\ WriteAgent(q, row) /\ Note(q)
  BY DEF BlockAgent
<1>2. /\ row \in Agent /\ row.status = "BLOCKED"
      /\ row.model = agent.model /\ row.prompt = agent.prompt
      /\ row.deleted = agent.deleted
  BY DEF Typed, ModelsTypeOK, Agent, AgentStatus, ModelStatus
<1> HIDE DEF row
<1>4. agent' = row /\ Close(q) /\ UNCHANGED <<model, memoryVars>>
  BY <1>1 DEF WriteAgent
<1>5. past' = Crossed(q)
  BY <1>1 DEF Note
<1>6. "block agent" \in AgentOps
  BY DEF AgentOps
<1>7. /\ PastTypeOK' /\ PastKept /\ PastGrows
      /\ OvertakenRows(q) \subseteq past'.crossed
      /\ past'.configs = past.configs
  BY <1>5, NoteEffect
<1>8. Prompted' /\ SeenAgent(q) = agent => Prompted /\ agent'.prompt = agent.prompt
  BY <1>2, <1>4 DEF Prompted
<1> QED BY <1>1, <1>2, <1>4, <1>6, <1>7, <1>8, WroteAgent

LEMMA V1SubmitAgentWrites ==
  ASSUME Typed, NEW q \in ModelRequests, RequestFits(q), V1SubmitAgent(q)
  PROVE  AgentWritten(q)
<1> DEFINE row == [agent EXCEPT !.status = "PENDING_REVIEW"]
<1>1. /\ Answering(q, "v1 submit agent") /\ agent' = row
      /\ ThenForget(q) /\ Note(q) /\ UNCHANGED <<model, memoryVars>>
  BY DEF V1SubmitAgent
<1>2. row \in Agent /\ row.status = "PENDING_REVIEW"
  BY DEF Typed, ModelsTypeOK, Agent, AgentStatus, ModelStatus
<1>3. SeenAgent(q).status # "BLOCKED"
  BY <1>1 DEF Answering, RequestFits
<1> HIDE DEF row
<1>4. past' = Crossed(q)
  BY <1>1 DEF Note
<1>5. "v1 submit agent" \in AgentOps
  BY DEF AgentOps
<1>6. /\ PastTypeOK' /\ PastKept /\ PastGrows
      /\ OvertakenRows(q) \subseteq past'.crossed
      /\ past'.configs = past.configs
  BY <1>4, NoteEffect
<1>7. ~Prompted'
  BY <1>1, <1>2 DEF Prompted
<1> QED BY <1>1, <1>2, <1>3, <1>5, <1>6, <1>7, WroteAgent

LEMMA ApproveAgentWrites ==
  ASSUME Typed, NEW q \in ModelRequests, RequestFits(q), ApproveAgent(q)
  PROVE  AgentWritten(q)
<1> DEFINE row == [agent EXCEPT !.status = "ACTIVE"]
<1> DEFINE seen == Crossed(q)
<1>1. /\ Answering(q, "approve agent") /\ WriteAgent(q, row)
      /\ past' = [seen EXCEPT !.prompts = @ \cup {SeenAgent(q).prompt}]
  BY DEF ApproveAgent
<1>2. /\ row \in Agent /\ row.status = "ACTIVE"
      /\ row.prompt = agent.prompt /\ row.model = agent.model
  BY DEF Typed, ModelsTypeOK, Agent, AgentStatus, ModelStatus
<1>3. SeenAgent(q).status # "BLOCKED"
  BY <1>1 DEF Answering, RequestFits
<1> HIDE DEF row
<1>4. agent' = row /\ Close(q) /\ UNCHANGED <<model, memoryVars>>
  BY <1>1 DEF WriteAgent
<1>5. /\ seen.crossed = past.crossed \cup OvertakenRows(q)
      /\ seen.configs = past.configs /\ seen.prompts = past.prompts
      /\ seen.edited = past.edited
      /\ seen.auto = past.auto /\ seen.killed = past.killed
      /\ seen.lifted = past.lifted
      /\ seen \in [configs: SUBSET (1..MaxConfig),
                   prompts: SUBSET (1..MaxPrompt), made: Nat,
                   crossed: SUBSET {"model", "agent"}, edited: BOOLEAN,
                   auto: BOOLEAN, killed: BOOLEAN, lifted: BOOLEAN]
  BY CrossedEffect
<1> HIDE DEF seen
<1>6. SeenAgent(q).prompt \in 1..MaxPrompt
  BY SeenTypes DEF Typed
<1>7. /\ PastTypeOK' /\ PastKept /\ PastGrows
      /\ OvertakenRows(q) \subseteq past'.crossed
      /\ past'.configs = past.configs
      /\ SeenAgent(q).prompt \in past'.prompts
  BY <1>1, <1>5, <1>6 DEF PastTypeOK, PastKept, PastGrows
<1>8. "approve agent" \in AgentOps
  BY DEF AgentOps
<1>9. SeenAgent(q) = agent => agent'.prompt \in past'.prompts
  BY <1>2, <1>4, <1>7
<1> QED BY <1>1, <1>2, <1>3, <1>4, <1>7, <1>8, <1>9, WroteAgent

\* What an edit of the agent leaves in past.
LEMMA EditedEffect ==
  ASSUME Typed, NEW q \in ModelRequests, NEW prompt \in BOOLEAN,
         past' = Edited(q, prompt)
  PROVE  /\ PastTypeOK' /\ PastKept /\ PastGrows
         /\ OvertakenRows(q) \subseteq past'.crossed
         /\ past'.configs = past.configs
         /\ prompt /\ SeenAgent(q).status = "PAUSED" => past'.edited
<1> DEFINE seen == Crossed(q)
<1>1. past' = [seen EXCEPT !.edited =
                 @ \/ (prompt /\ SeenAgent(q).status = "PAUSED")]
  BY DEF Edited
<1>2. /\ seen.crossed = past.crossed \cup OvertakenRows(q)
      /\ seen.configs = past.configs /\ seen.prompts = past.prompts
      /\ seen.edited = past.edited
      /\ seen.auto = past.auto /\ seen.killed = past.killed
      /\ seen.lifted = past.lifted
      /\ seen \in [configs: SUBSET (1..MaxConfig),
                   prompts: SUBSET (1..MaxPrompt), made: Nat,
                   crossed: SUBSET {"model", "agent"}, edited: BOOLEAN,
                   auto: BOOLEAN, killed: BOOLEAN, lifted: BOOLEAN]
  BY CrossedEffect
<1> HIDE DEF seen
<1> QED BY <1>1, <1>2 DEF PastTypeOK, PastKept, PastGrows

LEMMA PatchAgentWrites ==
  ASSUME Typed, NEW q \in ModelRequests, RequestFits(q), PatchAgent(q)
  PROVE  AgentWritten(q)
<1> DEFINE row == [agent EXCEPT !.prompt = @ + 1,
       !.status = IF SeenAgent(q).status = "ACTIVE" THEN "DRAFT" ELSE @]
<1>1. /\ Answering(q, "patch agent") /\ agent.prompt < MaxPrompt
      /\ WriteAgent(q, row) /\ past' = Edited(q, TRUE)
  BY DEF PatchAgent
<1>2. /\ row \in Agent /\ row.model = agent.model
      /\ row.status = IF SeenAgent(q).status = "ACTIVE" THEN "DRAFT"
                      ELSE agent.status
  <2>1. agent \in Agent
    BY DEF Typed, ModelsTypeOK
  <2>2. agent.prompt \in 1..MaxPrompt /\ MaxPrompt \in Nat
    BY RowTypes, ModelsAssumption DEF Typed
  <2>3. agent.prompt + 1 \in 1..MaxPrompt
    <3>1. agent.prompt < MaxPrompt
      BY <1>1
    <3> HIDE DEF row
    <3> QED BY <2>2, <3>1
  <2> QED BY <2>1, <2>3 DEF Agent, AgentStatus, ModelStatus
<1>3. SeenAgent(q).status # "BLOCKED"
  BY <1>1 DEF Answering, RequestFits
<1> HIDE DEF row
<1>4. agent' = row /\ Close(q) /\ UNCHANGED <<model, memoryVars>>
  BY <1>1 DEF WriteAgent
<1>5. /\ PastTypeOK' /\ PastKept /\ PastGrows
      /\ OvertakenRows(q) \subseteq past'.crossed
      /\ past'.configs = past.configs
      /\ SeenAgent(q).status = "PAUSED" => past'.edited
  BY <1>1, EditedEffect
<1>6. "patch agent" \in AgentOps
  BY DEF AgentOps
<1>7. ~past'.edited /\ SeenAgent(q) = agent => ~Prompted'
  BY <1>2, <1>4, <1>5 DEF Prompted
<1> QED BY <1>1, <1>2, <1>3, <1>4, <1>5, <1>6, <1>7, WroteAgent

LEMMA V1PatchAgentWrites ==
  ASSUME Typed, NEW q \in ModelRequests, RequestFits(q), V1PatchAgent(q)
  PROVE  AgentWritten(q)
<1>1. PICK text \in BOOLEAN, points \in BOOLEAN :
        LET changed == text \/ points # SeenAgent(q).model
        IN  /\ points => SeenAgent(q).model \/ ~SeenModel(q).deleted
            /\ text => agent.prompt < MaxPrompt
            /\ agent' = [agent EXCEPT
                 !.prompt = IF text THEN @ + 1 ELSE @, !.model = points,
                 !.status = IF changed /\ SeenAgent(q).status \in Reviewed
                            THEN "DRAFT" ELSE @]
            /\ past' = Edited(q, text)
  BY DEF V1PatchAgent
<1>2. /\ Answering(q, "v1 patch agent") /\ ThenForget(q)
      /\ UNCHANGED <<model, memoryVars>>
  BY DEF V1PatchAgent
<1> DEFINE prompt == IF text THEN agent.prompt + 1 ELSE agent.prompt
           after == IF /\ text \/ points # SeenAgent(q).model
                       /\ SeenAgent(q).status \in Reviewed
                    THEN "DRAFT" ELSE agent.status
<1>3. prompt \in 1..MaxPrompt
  <2>1. agent.prompt \in 1..MaxPrompt /\ MaxPrompt \in Nat
    BY RowTypes, ModelsAssumption DEF Typed
  <2> QED BY <1>1, <2>1
<1>4. after \in AgentStatus
  BY RowTypes DEF Typed, AgentStatus, ModelStatus
<1>5. agent' = [agent EXCEPT !.prompt = prompt, !.model = points,
                             !.status = after]
  BY <1>1
<1>6. ~text => prompt = agent.prompt
  OBVIOUS
<1>7. /\ text /\ SeenAgent(q).status \in Reviewed => after = "DRAFT"
      /\ after \in {"DRAFT", agent.status}
  OBVIOUS
<1> HIDE DEF prompt, after
<1>8. /\ agent' \in Agent /\ agent'.prompt = prompt /\ agent'.status = after
      /\ agent'.deleted = agent.deleted
  BY <1>3, <1>4, <1>5 DEF Typed, ModelsTypeOK, Agent
<1>9. SeenAgent(q).status # "BLOCKED"
  BY <1>2 DEF Answering, RequestFits
<1>10. /\ PastTypeOK' /\ PastKept /\ PastGrows
       /\ OvertakenRows(q) \subseteq past'.crossed
       /\ past'.configs = past.configs
       /\ text /\ SeenAgent(q).status = "PAUSED" => past'.edited
  BY <1>1, EditedEffect
<1>11. "v1 patch agent" \in AgentOps
  BY DEF AgentOps
<1>12. ~past'.edited /\ SeenAgent(q) = agent /\ Prompted'
         => Prompted /\ agent'.prompt = agent.prompt
  BY <1>6, <1>7, <1>8, <1>10 DEF Prompted, Reviewed
<1> QED BY <1>2, <1>8, <1>9, <1>10, <1>11, <1>12, WroteAgent

-----------------------------------------------------------------------------
(* The other steps.                                                        *)

\* The fields of past but the count of requests.
PastSame == PastKept /\ past'.crossed = past.crossed
            /\ past'.configs = past.configs /\ past'.prompts = past.prompts
            /\ past'.edited = past.edited

\* A request is received: what its route refuses it does not see.
Asked(q) ==
  /\ modelRequests[q].pc = "free" /\ modelRequests'[q].pc = "write"
  /\ UNCHANGED <<rowVars, memoryVars>>
  /\ Typed' /\ OthersKept(q) /\ RequestFits(q)' /\ PastSame

\* What was resolved is forgotten.
Invalidated(q) ==
  /\ modelRequests[q].pc = "forget" /\ IsClosed(q) /\ OthersKept(q)
  /\ UNCHANGED <<rowVars, penalties>> /\ Typed'
  /\ past'.crossed = past.crossed /\ past'.configs = past.configs
  /\ past'.prompts = past.prompts /\ past'.edited = past.edited
  /\ past'.auto = past.auto
  /\ resolved'.config = Platform
  /\ \A c \in MCalls : /\ mcalls'[c].pc = mcalls[c].pc
                       /\ mcalls'[c].config = mcalls[c].config
                       /\ mcalls'[c].prompt = mcalls[c].prompt
  /\ \/ /\ modelRequests[q].op = "block model" /\ cut'
        /\ past'.killed /\ past'.lifted = past.lifted
        /\ \A c \in MCalls : mcalls[c].pc = "turn" => mcalls'[c].late
     \/ /\ past'.killed => past.killed /\ past'.lifted
        /\ past'.killed = past.killed
     \/ /\ past'.killed = past.killed /\ past'.lifted = past.lifted
        /\ cut' = cut /\ mcalls' = mcalls

\* A call goes on, alone.
CallMoved(c) ==
  /\ UNCHANGED <<rowVars, modelRequests, cut, past>>
  /\ Typed'
  /\ \A d \in MCalls : d # c => mcalls'[d] = mcalls[d]
  /\ mcalls'[c].config \in {Platform, mcalls[c].config, resolved.config, Serving}
  /\ mcalls'[c].pc # "idle" =>
       \/ mcalls[c].pc # "idle" /\ mcalls'[c].prompt = mcalls[c].prompt
       \/ Prompted /\ mcalls'[c].prompt = agent.prompt
  /\ mcalls'[c].pc = "turn" =>
       mcalls'[c].config = IF cut THEN Platform ELSE mcalls[c].config
  /\ \/ resolved' = resolved
     \/ /\ resolved'.config = mcalls[c].config
        /\ resolved'.config = Serving \/ resolved'.raced

\* One call's step keeps the type of the calls.
Call == [pc: CallSteps, config: 0..MaxConfig, prompt: 1..MaxPrompt,
         late: BOOLEAN]

LEMMA CallTypes ==
  ASSUME ModelsTypeOK
  PROVE  /\ mcalls \in [MCalls -> Call]
         /\ resolved.config \in 0..MaxConfig /\ resolved.known \in BOOLEAN
         /\ resolved.raced \in BOOLEAN
         /\ NoCall \in Call /\ NoCall.config = Platform
         /\ NoCall.pc = "idle"
         /\ Unresolved \in [known: BOOLEAN, config: 0..MaxConfig, raced: BOOLEAN]
         /\ ~Unresolved.known /\ Unresolved.config = Platform
<1>1. /\ mcalls \in [MCalls -> Call]
      /\ resolved \in [known: BOOLEAN, config: 0..MaxConfig, raced: BOOLEAN]
  BY DEF ModelsTypeOK, Call
<1>2. 0 \in 0..MaxConfig /\ 1 \in 1..MaxPrompt
  BY ModelsAssumption
<1> QED BY <1>1, <1>2 DEF NoCall, Call, CallSteps, Platform, Unresolved

LEMMA ServingType ==
  ASSUME ModelsTypeOK
  PROVE  /\ Serving \in 0..MaxConfig
         /\ Serving # Platform => model.status = "ACTIVE" /\ Serving = model.config
<1>1. model.config \in 1..MaxConfig /\ 0 \in 0..MaxConfig
  BY RowTypes, ModelsAssumption
<1> QED BY <1>1 DEF Serving, Platform

LEMMA MovedCall ==
  ASSUME Typed, NEW c \in MCalls, NEW s \in Call,
         mcalls' = [mcalls EXCEPT ![c] = s]
  PROVE  /\ mcalls' \in [MCalls -> Call] /\ mcalls'[c] = s
         /\ \A d \in MCalls : d # c => mcalls'[d] = mcalls[d]
BY CallTypes DEF Typed

\* What stays typed when only the calls, the cache and the penalties move.
LEMMA MemoryTyped ==
  ASSUME Typed, UNCHANGED <<rowVars, modelRequests, cut, past>>,
         mcalls' \in [MCalls -> Call],
         resolved' \in [known: BOOLEAN, config: 0..MaxConfig, raced: BOOLEAN],
         penalties' \in [open: 0..1, block: BOOLEAN]
  PROVE  Typed'
BY DEF Typed, ModelsTypeOK, PastTypeOK, rowVars, Call

LEMMA PlaceCallEffect ==
  ASSUME Typed, NEW c \in MCalls, PlaceCall(c)
  PROVE  CallMoved(c)
<1> DEFINE s == [NoCall EXCEPT !.pc = "resolve", !.prompt = agent.prompt]
<1>1. /\ ~agent.deleted /\ agent.status = "ACTIVE"
      /\ mcalls' = [mcalls EXCEPT ![c] = s]
      /\ UNCHANGED <<rowVars, modelRequests, resolved, cut, penalties, past>>
  BY DEF PlaceCall
<1>2. /\ s \in Call /\ s.pc = "resolve" /\ s.config = Platform
      /\ s.prompt = agent.prompt
  BY RowTypes, CallTypes DEF Typed, Call, CallSteps
<1> HIDE DEF s
<1>3. Typed'
  BY <1>1, <1>2, MovedCall, MemoryTyped DEF Typed, ModelsTypeOK
<1> QED BY <1>1, <1>2, <1>3, MovedCall DEF CallMoved, Prompted

LEMMA ResolveModelEffect ==
  ASSUME Typed, NEW c \in MCalls, ResolveModel(c)
  PROVE  CallMoved(c)
<1>1. /\ mcalls[c].pc = "resolve"
      /\ UNCHANGED <<rowVars, modelRequests, resolved, cut, penalties, past>>
  BY DEF ResolveModel
<1>2. mcalls[c] \in Call
  BY CallTypes DEF Typed
<1>3. PICK s \in Call :
        /\ mcalls' = [mcalls EXCEPT ![c] = s]
        /\ s.pc \in {"register", "live"}
        /\ s.config \in {mcalls[c].config, resolved.config, Serving}
        /\ s.prompt = mcalls[c].prompt
  <2>1. CASE mcalls' = [mcalls EXCEPT ![c].pc = "live",
                                      ![c].config = resolved.config]
    <3> DEFINE s == [mcalls[c] EXCEPT !.pc = "live", !.config = resolved.config]
    <3>1. s \in Call /\ s.pc = "live" /\ s.config = resolved.config
          /\ s.prompt = mcalls[c].prompt
      BY <1>2, CallTypes DEF Typed, Call, CallSteps
    <3>2. mcalls' = [mcalls EXCEPT ![c] = s]
      BY <2>1, CallTypes DEF Typed
    <3> QED BY <3>1, <3>2
  <2>2. CASE mcalls' = [mcalls EXCEPT ![c].pc = "register",
                                      ![c].config = Serving]
    <3> DEFINE s == [mcalls[c] EXCEPT !.pc = "register", !.config = Serving]
    <3>1. s \in Call /\ s.pc = "register" /\ s.config = Serving
          /\ s.prompt = mcalls[c].prompt
      BY <1>2, ServingType DEF Typed, Call, CallSteps
    <3>2. mcalls' = [mcalls EXCEPT ![c] = s]
      BY <2>2, CallTypes DEF Typed
    <3> QED BY <3>1, <3>2
  <2>3. CASE mcalls' = [mcalls EXCEPT ![c].pc = "live"]
    <3> DEFINE s == [mcalls[c] EXCEPT !.pc = "live"]
    <3>1. s \in Call /\ s.pc = "live" /\ s.config = mcalls[c].config
          /\ s.prompt = mcalls[c].prompt
      BY <1>2 DEF Call, CallSteps
    <3>2. mcalls' = [mcalls EXCEPT ![c] = s]
      BY <2>3, CallTypes DEF Typed
    <3> QED BY <3>1, <3>2
  <2> QED BY <2>1, <2>2, <2>3 DEF ResolveModel
<1>4. Typed'
  BY <1>1, <1>3, MovedCall, MemoryTyped DEF Typed, ModelsTypeOK
<1> QED BY <1>1, <1>3, <1>4, MovedCall DEF CallMoved

LEMMA RegisterCallEffect ==
  ASSUME Typed, NEW c \in MCalls, RegisterCall(c)
  PROVE  CallMoved(c)
<1> DEFINE s == [mcalls[c] EXCEPT !.pc = "live"]
           r == [known |-> TRUE, config |-> mcalls[c].config,
                 raced |-> mcalls[c].config # Serving]
<1>1. /\ mcalls[c].pc = "register" /\ resolved' = r
      /\ mcalls' = [mcalls EXCEPT ![c].pc = "live"]
      /\ UNCHANGED <<rowVars, modelRequests, cut, penalties, past>>
  BY DEF RegisterCall
<1>2. mcalls[c] \in Call
  BY CallTypes DEF Typed
<1>3. /\ s \in Call /\ s.pc = "live" /\ s.config = mcalls[c].config
      /\ s.prompt = mcalls[c].prompt
  BY <1>2 DEF Call, CallSteps
<1>4. /\ r \in [known: BOOLEAN, config: 0..MaxConfig, raced: BOOLEAN]
      /\ r.config = mcalls[c].config
      /\ r.config = Serving \/ r.raced
  BY <1>2 DEF Call
<1>5. mcalls' = [mcalls EXCEPT ![c] = s]
  BY <1>1, CallTypes DEF Typed
<1> HIDE DEF s, r
<1>6. Typed'
  BY <1>1, <1>3, <1>4, <1>5, MovedCall, MemoryTyped DEF Typed, ModelsTypeOK
<1> QED BY <1>1, <1>3, <1>4, <1>5, <1>6, MovedCall DEF CallMoved

LEMMA StartTurnEffect ==
  ASSUME Typed, NEW c \in MCalls, StartTurn(c)
  PROVE  CallMoved(c)
<1> DEFINE config == TurnEngine(c)
           s == [mcalls[c] EXCEPT !.pc = "turn", !.late = FALSE,
                                  !.config = config]
<1>1. /\ mcalls[c].pc = "live"
      /\ mcalls' = [mcalls EXCEPT ![c].pc = "turn", ![c].late = FALSE,
                                  ![c].config = TurnEngine(c)]
      /\ UNCHANGED <<rowVars, modelRequests, resolved, cut, penalties, past>>
  BY DEF StartTurn
<1>2. mcalls[c] \in Call
  BY CallTypes DEF Typed
<1>3. /\ config = IF cut THEN Platform ELSE mcalls[c].config
      /\ config \in 0..MaxConfig
  BY <1>2, ModelsAssumption DEF TurnEngine, Call, Platform
<1>4. mcalls' = [mcalls EXCEPT ![c] = s]
  BY <1>1, CallTypes DEF Typed
<1> HIDE DEF config
<1>5. /\ s \in Call /\ s.pc = "turn" /\ s.config = config
      /\ s.prompt = mcalls[c].prompt
  BY <1>2, <1>3 DEF Call, CallSteps
<1> HIDE DEF s
<1>6. Typed'
  BY <1>1, <1>4, <1>5, MovedCall, MemoryTyped DEF Typed, ModelsTypeOK
<1> QED BY <1>1, <1>3, <1>4, <1>5, <1>6, MovedCall DEF CallMoved

LEMMA FinishTurnEffect ==
  ASSUME Typed, NEW c \in MCalls, FinishTurn(c)
  PROVE  CallMoved(c)
<1> DEFINE s == [mcalls[c] EXCEPT !.pc = "live", !.late = FALSE]
<1>1. /\ mcalls[c].pc = "turn"
      /\ mcalls' = [mcalls EXCEPT ![c].pc = "live", ![c].late = FALSE]
      /\ UNCHANGED <<rowVars, modelRequests, resolved, cut, past>>
  BY DEF FinishTurn
<1>2. mcalls[c] \in Call
  BY CallTypes DEF Typed
<1>3. /\ s \in Call /\ s.pc = "live" /\ s.config = mcalls[c].config
      /\ s.prompt = mcalls[c].prompt
  BY <1>2 DEF Call, CallSteps
<1>4. mcalls' = [mcalls EXCEPT ![c] = s]
  BY <1>1, CallTypes DEF Typed
<1>5. penalties' \in [open: 0..1, block: BOOLEAN]
  BY DEF Typed, ModelsTypeOK, FinishTurn
<1> HIDE DEF s
<1>6. Typed'
  BY <1>1, <1>3, <1>4, <1>5, MovedCall, MemoryTyped DEF Typed, ModelsTypeOK
<1> QED BY <1>1, <1>3, <1>4, <1>6, MovedCall DEF CallMoved

LEMMA HangUpEffect ==
  ASSUME Typed, NEW c \in MCalls, HangUp(c)
  PROVE  CallMoved(c)
<1>1. /\ mcalls' = [mcalls EXCEPT ![c] = NoCall]
      /\ UNCHANGED <<rowVars, modelRequests, resolved, cut, penalties, past>>
  BY DEF HangUp
<1>2. NoCall \in Call /\ NoCall.config = Platform /\ NoCall.pc = "idle"
  BY CallTypes DEF Typed
<1>3. Typed'
  BY <1>1, <1>2, MovedCall, MemoryTyped DEF Typed, ModelsTypeOK
<1> QED BY <1>1, <1>2, <1>3, MovedCall DEF CallMoved

LEMMA CounterTypes ==
  ASSUME Typed
  PROVE  /\ model \in Model /\ 0 \in 0..AutoBlock
         /\ past.made \in Nat /\ past.made + 1 \in Nat
<1>1. 0 \in 0..AutoBlock
  BY ModelsAssumption
<1>2. past.made \in Nat
  BY DEF Typed, PastTypeOK
<1> QED BY <1>1, <1>2 DEF Typed, ModelsTypeOK

LEMMA AskedStep ==
  ASSUME Typed, NEW q \in ModelRequests, NEW op \in ModelOps \cup AgentOps,
         modelRequests[q].pc = "free",
         modelRequests' = [modelRequests EXCEPT ![q] =
           [op |-> op, pc |-> "write", agent |-> agent,
            model |-> [model EXCEPT !.violations = 0, !.health = "never"]]],
         past.made < MaxRequests, past' = [past EXCEPT !.made = @ + 1],
         UNCHANGED <<rowVars, memoryVars>>,
         op \in {"patch model", "submit model", "approve model", "reject model"}
           => model.status # "BLOCKED",
         op \in {"patch agent", "v1 patch agent", "submit agent",
                 "v1 submit agent", "approve agent", "reject agent"}
           => agent.status # "BLOCKED",
         op = "pause agent" => agent.status = "ACTIVE",
         op = "resume agent" => agent.status = "PAUSED"
  PROVE  Asked(q)
<1> DEFINE seen == [model EXCEPT !.violations = 0, !.health = "never"]
           s == [op |-> op, pc |-> "write", agent |-> agent, model |-> seen]
<1>1. seen \in Model /\ seen.status = model.status
  BY CounterTypes DEF Model, Health
<1>2. modelRequests' = [modelRequests EXCEPT ![q] = s]
  OBVIOUS
<1> HIDE DEF seen
<1>3. /\ s \in Request /\ s.pc = "write" /\ s.op = op /\ s.model = seen
      /\ s.agent = agent
  BY <1>1 DEF Request, Typed, ModelsTypeOK
<1> HIDE DEF s
<1>4. modelRequests \in [ModelRequests -> Request]
  BY DEF Typed, ModelsTypeOK
<1>5. /\ modelRequests' \in [ModelRequests -> Request]
      /\ modelRequests'[q] = s /\ OthersKept(q)
  BY <1>2, <1>3, <1>4 DEF OthersKept
<1>6. past.made \in Nat /\ past.made + 1 \in Nat
  BY CounterTypes
<1>7. PastTypeOK' /\ PastSame
  BY <1>6 DEF Typed, PastTypeOK, PastSame, PastKept
<1>8. /\ model' = model /\ agent' = agent /\ resolved' = resolved /\ cut' = cut
      /\ mcalls' = mcalls /\ penalties' = penalties
  BY DEF rowVars, memoryVars
<1>9. Typed'
  BY <1>5, <1>7, <1>8 DEF Typed, ModelsTypeOK
<1>10. RequestFits(q)'
  BY <1>1, <1>3, <1>5 DEF RequestFits, SeenModel, SeenAgent
<1> QED BY <1>3, <1>5, <1>7, <1>9, <1>10 DEF Asked

LEMMA AskModelOpEffect ==
  ASSUME Typed, NEW q \in ModelRequests, NEW op \in ModelOps, AskModelOp(q, op)
  PROVE  Asked(q)
<1>1. /\ op = "patch model" => model.status # "BLOCKED"
      /\ op = "submit model" => model.status # "BLOCKED"
      /\ op = "approve model" => model.status # "BLOCKED"
      /\ op = "reject model" => model.status # "BLOCKED"
  BY DEF AskModelOp, Receive, MaySubmit
<1>2. op \notin AgentOps
  BY DEF ModelOps, AgentOps
<1>3. /\ modelRequests[q].pc = "free"
      /\ modelRequests' = [modelRequests EXCEPT ![q] =
           [op |-> op, pc |-> "write", agent |-> agent,
            model |-> [model EXCEPT !.violations = 0, !.health = "never"]]]
      /\ past.made < MaxRequests /\ past' = [past EXCEPT !.made = @ + 1]
      /\ UNCHANGED <<rowVars, memoryVars>>
  BY DEF AskModelOp, Receive
<1> QED BY <1>1, <1>2, <1>3, AskedStep DEF AgentOps

LEMMA AskAgentOpEffect ==
  ASSUME Typed, NEW q \in ModelRequests, NEW op \in AgentOps, AskAgentOp(q, op)
  PROVE  Asked(q)
<1>1. /\ op = "patch agent" => agent.status # "BLOCKED"
      /\ op = "v1 patch agent" => agent.status # "BLOCKED"
      /\ op = "submit agent" => agent.status # "BLOCKED"
      /\ op = "v1 submit agent" => agent.status # "BLOCKED"
      /\ op = "approve agent" => agent.status # "BLOCKED"
      /\ op = "reject agent" => agent.status # "BLOCKED"
      /\ op = "pause agent" => agent.status = "ACTIVE"
      /\ op = "resume agent" => agent.status = "PAUSED"
  BY DEF AskAgentOp, Receive, MaySubmit
<1>2. op \notin ModelOps
  BY DEF ModelOps, AgentOps
<1>3. /\ modelRequests[q].pc = "free"
      /\ modelRequests' = [modelRequests EXCEPT ![q] =
           [op |-> op, pc |-> "write", agent |-> agent,
            model |-> [model EXCEPT !.violations = 0, !.health = "never"]]]
      /\ past.made < MaxRequests /\ past' = [past EXCEPT !.made = @ + 1]
      /\ UNCHANGED <<rowVars, memoryVars>>
  BY DEF AskAgentOp, Receive
<1> QED BY <1>1, <1>2, <1>3, AskedStep DEF ModelOps

LEMMA InvalidateModelEffect ==
  ASSUME Typed, NEW q \in ModelRequests, InvalidateModel(q)
  PROVE  Invalidated(q)
<1> DEFINE block == modelRequests[q].op = "block model"
<1>1. /\ modelRequests[q].pc = "forget" /\ cut' = block
      /\ mcalls' = [c \in MCalls |->
           [mcalls[c] EXCEPT !.late = @ \/ (block /\ mcalls[c].pc = "turn")]]
      /\ past' = [past EXCEPT !.killed = @ \/ block,
                              !.lifted = @ \/ (past.killed /\ ~block)]
      /\ resolved' = Forgotten /\ Close(q)
      /\ UNCHANGED <<rowVars, penalties>>
  BY DEF InvalidateModel
<1> HIDE DEF block
<1>2. block \in BOOLEAN
  BY DEF block
<1>3. /\ resolved' \in [known: BOOLEAN, config: 0..MaxConfig, raced: BOOLEAN]
      /\ resolved'.config = Platform
  BY <1>1, CallTypes DEF Forgotten, Typed, ModelsTypeOK
<1>4. /\ mcalls' \in [MCalls -> Call]
      /\ \A c \in MCalls : /\ mcalls'[c].pc = mcalls[c].pc
                           /\ mcalls'[c].config = mcalls[c].config
                           /\ mcalls'[c].prompt = mcalls[c].prompt
                           /\ block /\ mcalls[c].pc = "turn" => mcalls'[c].late
  BY <1>1, <1>2, CallTypes DEF Typed, Call
<1>5. /\ modelRequests' \in [ModelRequests -> Request]
      /\ OthersKept(q) /\ IsClosed(q)
  BY <1>1, CloseEffect DEF Typed
<1>6. /\ PastTypeOK'
      /\ past'.crossed = past.crossed /\ past'.configs = past.configs
      /\ past'.prompts = past.prompts /\ past'.edited = past.edited
      /\ past'.auto = past.auto
      /\ past'.killed = (past.killed \/ block)
      /\ past'.lifted = (past.lifted \/ (past.killed /\ ~block))
  BY <1>1, <1>2 DEF Typed, PastTypeOK
<1>7. Typed'
  BY <1>1, <1>2, <1>3, <1>4, <1>5, <1>6
     DEF Typed, ModelsTypeOK, rowVars, Call
<1>8. past.killed \in BOOLEAN /\ past.lifted \in BOOLEAN
  BY DEF Typed, PastTypeOK
<1>9. CASE block
  BY <1>1, <1>3, <1>4, <1>5, <1>6, <1>7, <1>8, <1>9 DEF Invalidated, block
<1>10. CASE ~block
  BY <1>1, <1>3, <1>4, <1>5, <1>6, <1>7, <1>8, <1>10 DEF Invalidated
<1> QED BY <1>9, <1>10

LEMMA InvalidateAgentEffect ==
  ASSUME Typed, NEW q \in ModelRequests, InvalidateAgent(q)
  PROVE  Invalidated(q)
<1>1. /\ modelRequests[q].pc = "forget" /\ resolved' = Unresolved /\ Close(q)
      /\ UNCHANGED <<rowVars, cut, mcalls, penalties, past>>
  BY DEF InvalidateAgent
<1>2. /\ modelRequests' \in [ModelRequests -> Request]
      /\ OthersKept(q) /\ IsClosed(q)
  BY <1>1, CloseEffect DEF Typed
<1>3. /\ resolved' \in [known: BOOLEAN, config: 0..MaxConfig, raced: BOOLEAN]
      /\ resolved'.config = Platform
  BY <1>1, CallTypes DEF Typed
<1>4. Typed'
  BY <1>1, <1>2, <1>3 DEF Typed, ModelsTypeOK, PastTypeOK, rowVars
<1> QED BY <1>1, <1>2, <1>3, <1>4 DEF Invalidated

\* A violation is counted, and may block; the rest stays.
Penalized ==
  /\ UNCHANGED <<agent, modelRequests, resolved, cut, mcalls>>
  /\ Typed' /\ model'.config = model.config /\ model'.deleted = model.deleted
  /\ past'.crossed = past.crossed /\ past'.configs = past.configs
  /\ past'.prompts = past.prompts /\ past'.edited = past.edited
  /\ past'.killed = past.killed /\ past'.lifted = past.lifted
  /\ \/ model'.status = model.status /\ past'.auto = past.auto
     \/ model'.status = "BLOCKED" /\ past'.auto

LEMMA RecordViolationEffect ==
  ASSUME Typed, RecordViolation
  PROVE  Penalized
<1> DEFINE n == IF model.violations < AutoBlock THEN model.violations + 1
                ELSE AutoBlock
<1>1. /\ model' = [model EXCEPT !.violations = n]
      /\ penalties' = [open |-> 0, block |-> penalties.block \/
                         (n = AutoBlock /\ model.status # "BLOCKED")]
      /\ UNCHANGED <<agent, modelRequests, resolved, cut, mcalls, past>>
  BY DEF RecordViolation
<1>2. n \in 0..AutoBlock
  <2>1. model.violations \in 0..AutoBlock /\ AutoBlock \in Nat
    BY RowTypes, ModelsAssumption DEF Typed
  <2> QED BY <2>1
<1> HIDE DEF n
<1>3. /\ model' \in Model /\ model'.status = model.status
      /\ model'.config = model.config /\ model'.deleted = model.deleted
  BY <1>1, <1>2 DEF Typed, ModelsTypeOK, Model
<1>4. penalties' \in [open: 0..1, block: BOOLEAN]
  BY <1>1 DEF Typed, ModelsTypeOK
<1>5. Typed'
  BY <1>1, <1>3, <1>4 DEF Typed, ModelsTypeOK, PastTypeOK
<1> QED BY <1>1, <1>3, <1>5 DEF Penalized

LEMMA BlockOnViolationsEffect ==
  ASSUME Typed, BlockOnViolations
  PROVE  Penalized
<1>1. /\ model' = [model EXCEPT !.status = "BLOCKED", !.health = "failed"]
      /\ penalties' = [penalties EXCEPT !.block = FALSE]
      /\ past' = [past EXCEPT !.auto = TRUE]
      /\ UNCHANGED <<agent, modelRequests, resolved, cut, mcalls>>
  BY DEF BlockOnViolations
<1>2. /\ model' \in Model /\ model'.status = "BLOCKED"
      /\ model'.config = model.config /\ model'.deleted = model.deleted
  BY <1>1 DEF Typed, ModelsTypeOK, Model, ModelStatus, Health
<1>3. penalties' \in [open: 0..1, block: BOOLEAN]
  BY <1>1 DEF Typed, ModelsTypeOK
<1>4. /\ PastTypeOK' /\ past'.auto
      /\ past'.crossed = past.crossed /\ past'.configs = past.configs
      /\ past'.prompts = past.prompts /\ past'.edited = past.edited
      /\ past'.killed = past.killed /\ past'.lifted = past.lifted
  BY <1>1 DEF Typed, PastTypeOK
<1>5. Typed'
  BY <1>1, <1>2, <1>3, <1>4 DEF Typed, ModelsTypeOK
<1> QED BY <1>1, <1>2, <1>4, <1>5 DEF Penalized

\* The process, or the cache's entry, is gone.
Stopped ==
  /\ UNCHANGED <<rowVars, past>> /\ Typed'
  /\ \A q \in ModelRequests : modelRequests'[q] = FreeRequest
  /\ ~resolved'.known /\ resolved'.config = Platform
  /\ \A c \in MCalls : mcalls'[c] = NoCall

Expired ==
  /\ UNCHANGED <<rowVars, modelRequests, cut, mcalls, penalties, past>> /\ Typed'
  /\ ~resolved'.known /\ resolved'.config = Platform

LEMMA ExpireCacheEffect ==
  ASSUME Typed, ExpireCache
  PROVE  Expired
<1>1. /\ resolved' = Unresolved
      /\ UNCHANGED <<rowVars, modelRequests, cut, mcalls, penalties, past>>
  BY DEF ExpireCache
<1>2. Typed'
  BY <1>1, CallTypes DEF Typed, ModelsTypeOK, PastTypeOK, rowVars
<1> QED BY <1>1, <1>2, CallTypes DEF Expired, Typed

LEMMA CrashModelsEffect ==
  ASSUME Typed, CrashModels
  PROVE  Stopped
<1>1. /\ modelRequests' = [q \in ModelRequests |-> FreeRequest]
      /\ mcalls' = [c \in MCalls |-> NoCall]
      /\ resolved' = Unresolved /\ cut' = FALSE
      /\ penalties' = [open |-> 0, block |-> FALSE]
      /\ UNCHANGED <<rowVars, past>>
  BY DEF CrashModels
<1>2. /\ modelRequests' \in [ModelRequests -> Request]
      /\ mcalls' \in [MCalls -> Call]
      /\ penalties' \in [open: 0..1, block: BOOLEAN]
  BY <1>1, FreeIsRequest, CallTypes DEF Typed
<1>3. Typed'
  BY <1>1, <1>2, CallTypes DEF Typed, ModelsTypeOK, PastTypeOK, rowVars, Call
<1> QED BY <1>1, <1>3, CallTypes DEF Stopped, Typed

-----------------------------------------------------------------------------
(* Every step is one of these.                                             *)

LEMMA SplitModelsNext ==
  ASSUME Typed, RequestsFit, ModelsNext
  PROVE  \/ \E q \in ModelRequests : \/ Asked(q) \/ ModelWritten(q)
                                     \/ AgentWritten(q) \/ Invalidated(q)
         \/ \E c \in MCalls : CallMoved(c)
         \/ Penalized \/ Expired \/ Stopped
<1>1. ASSUME NEW q \in ModelRequests,
             \/ \E op \in ModelOps : AskModelOp(q, op)
             \/ \E op \in AgentOps : AskAgentOp(q, op)
      PROVE  Asked(q)
  BY <1>1, AskModelOpEffect, AskAgentOpEffect
<1>2. ASSUME NEW q \in ModelRequests,
             \/ PatchModel(q) \/ TestModel(q) \/ SubmitModel(q)
             \/ DeleteModel(q) \/ ApproveModel(q) \/ RejectModel(q)
             \/ BlockModel(q)
      PROVE  ModelWritten(q)
  <2>1. RequestFits(q)
    BY DEF RequestsFit
  <2> QED BY <1>2, <2>1, PatchModelWrites, TestModelWrites, SubmitModelWrites,
             DeleteModelWrites, ApproveModelWrites, RejectModelWrites,
             BlockModelWrites
<1>3. ASSUME NEW q \in ModelRequests,
             \/ PatchAgent(q) \/ V1PatchAgent(q) \/ DeleteAgent(q)
             \/ SubmitAgent(q) \/ V1SubmitAgent(q) \/ PauseAgent(q)
             \/ ResumeAgent(q) \/ ApproveAgent(q) \/ RejectAgent(q)
             \/ BlockAgent(q)
      PROVE  AgentWritten(q)
  <2>1. RequestFits(q)
    BY DEF RequestsFit
  <2> QED BY <1>3, <2>1, PatchAgentWrites, V1PatchAgentWrites,
             DeleteAgentWrites, SubmitAgentWrites, V1SubmitAgentWrites,
             PauseAgentWrites, ResumeAgentWrites, ApproveAgentWrites,
             RejectAgentWrites, BlockAgentWrites
<1>4. ASSUME NEW q \in ModelRequests, InvalidateModel(q) \/ InvalidateAgent(q)
      PROVE  Invalidated(q)
  BY <1>4, InvalidateModelEffect, InvalidateAgentEffect
<1>5. ASSUME NEW c \in MCalls,
             \/ PlaceCall(c) \/ ResolveModel(c) \/ RegisterCall(c)
             \/ StartTurn(c) \/ FinishTurn(c) \/ HangUp(c)
      PROVE  CallMoved(c)
  BY <1>5, PlaceCallEffect, ResolveModelEffect, RegisterCallEffect,
     StartTurnEffect, FinishTurnEffect, HangUpEffect
<1>6. RecordViolation \/ BlockOnViolations => Penalized
  BY RecordViolationEffect, BlockOnViolationsEffect
<1>7. /\ ExpireCache => Expired
      /\ CrashModels => Stopped
  BY ExpireCacheEffect, CrashModelsEffect
<1> QED BY <1>1, <1>2, <1>3, <1>4, <1>5, <1>6, <1>7 DEF ModelsNext

-----------------------------------------------------------------------------
(* The invariant, part by part.                                            *)

LEMMA RequestsStayFit ==
  ASSUME RowsInv, ModelsNext
  PROVE  RequestsFit'
<1>1. Typed /\ RequestsFit
  BY DEF RowsInv
<1> SUFFICES ASSUME NEW r \in ModelRequests PROVE RequestFits(r)'
  BY DEF RequestsFit
<1>2. RequestFits(r)
  BY <1>1 DEF RequestsFit
<1>3. modelRequests'[r] = modelRequests[r] => RequestFits(r)'
  BY <1>2 DEF RequestFits, SeenModel, SeenAgent
<1>4. modelRequests'[r].pc # "write" => RequestFits(r)'
  BY DEF RequestFits
<1>5. FreeRequest.pc # "write"
  BY DEF FreeRequest
<1>6. ASSUME NEW q \in ModelRequests, Asked(q)
      PROVE  RequestFits(r)'
  <2>1. r # q => modelRequests'[r] = modelRequests[r]
    BY <1>6 DEF Asked, OthersKept
  <2>2. r = q => RequestFits(r)'
    BY <1>6 DEF Asked
  <2> QED BY <2>1, <2>2, <1>3
<1>7. ASSUME NEW q \in ModelRequests,
             ModelWritten(q) \/ AgentWritten(q) \/ Invalidated(q)
      PROVE  RequestFits(r)'
  <2>1. r # q => modelRequests'[r] = modelRequests[r]
    BY <1>7 DEF ModelWritten, AgentWritten, Invalidated, OthersKept
  <2>2. modelRequests'[q].pc # "write"
    BY <1>5, <1>7 DEF ModelWritten, AgentWritten, Invalidated, Forgetting, IsClosed
  <2> QED BY <2>1, <2>2, <1>3, <1>4
<1>8. ASSUME \/ \E c \in MCalls : CallMoved(c)
             \/ Penalized \/ Expired
      PROVE  RequestFits(r)'
  <2>1. modelRequests' = modelRequests
    BY <1>8 DEF CallMoved, Penalized, Expired
  <2> QED BY <2>1, <1>3
<1>9. ASSUME Stopped
      PROVE  RequestFits(r)'
  BY <1>9, <1>4, <1>5 DEF Stopped
<1> QED BY <1>1, <1>6, <1>7, <1>8, <1>9, SplitModelsNext

LEMMA ConfigsStayFit ==
  ASSUME RowsInv, ModelsNext
  PROVE  ConfigsFit'
<1>1. Typed /\ RequestsFit /\ ConfigsFit
  BY DEF RowsInv
<1>2. ASSUME NEW q \in ModelRequests, Asked(q)
      PROVE  ConfigsFit'
  BY <1>1, <1>2 DEF Asked, ConfigsFit, PastSame, rowVars, memoryVars
<1>3. ASSUME NEW q \in ModelRequests, ModelWritten(q)
      PROVE  ConfigsFit'
  <2> SUFFICES ASSUME "model" \notin past'.crossed
               PROVE  /\ model'.status = "ACTIVE" => model'.config \in past'.configs
                      /\ resolved'.config \in past'.configs \cup {Platform}
                      /\ \A c \in MCalls : mcalls'[c].config
                                             \in past'.configs \cup {Platform}
    BY DEF ConfigsFit
  <2>1. /\ SeenModel(q).status = model.status
        /\ SeenModel(q).config = model.config
        /\ past.crossed \subseteq past'.crossed
        /\ past.configs \subseteq past'.configs
    BY <1>3 DEF ModelWritten, PastGrows
  <2>2. /\ model.status = "ACTIVE" => model.config \in past.configs
        /\ resolved.config \in past.configs \cup {Platform}
        /\ \A c \in MCalls : mcalls[c].config \in past.configs \cup {Platform}
    BY <1>1, <2>1 DEF ConfigsFit
  <2>3. resolved' = resolved /\ mcalls' = mcalls
    BY <1>3 DEF ModelWritten, memoryVars
  <2>4. model'.status = "ACTIVE" =>
          \/ model'.config \in past'.configs
          \/ model.status = "ACTIVE" /\ model'.config = model.config
    BY <1>3, <2>1 DEF ModelWritten
  <2> QED BY <2>1, <2>2, <2>3, <2>4
<1>4. ASSUME NEW q \in ModelRequests, AgentWritten(q)
      PROVE  ConfigsFit'
  BY <1>1, <1>4 DEF AgentWritten, PastGrows, ConfigsFit, memoryVars
<1>5. ASSUME NEW q \in ModelRequests, Invalidated(q)
      PROVE  ConfigsFit'
  BY <1>1, <1>5 DEF Invalidated, ConfigsFit, rowVars
<1>6. ASSUME NEW c \in MCalls, CallMoved(c)
      PROVE  ConfigsFit'
  <2> SUFFICES ASSUME "model" \notin past.crossed
               PROVE  /\ resolved'.config \in past.configs \cup {Platform}
                      /\ \A d \in MCalls : mcalls'[d].config
                                             \in past.configs \cup {Platform}
    BY <1>1, <1>6 DEF CallMoved, ConfigsFit, rowVars
  <2>1. /\ resolved.config \in past.configs \cup {Platform}
        /\ \A d \in MCalls : mcalls[d].config \in past.configs \cup {Platform}
    BY <1>1 DEF ConfigsFit
  <2>2. Serving \in past.configs \cup {Platform}
    BY <1>1, ServingType DEF ConfigsFit, Typed
  <2> QED BY <1>6, <2>1, <2>2 DEF CallMoved
<1>7. ASSUME Penalized
      PROVE  ConfigsFit'
  BY <1>1, <1>7 DEF Penalized, ConfigsFit
<1>8. ASSUME Expired
      PROVE  ConfigsFit'
  BY <1>1, <1>8 DEF Expired, ConfigsFit, rowVars
<1>9. ASSUME Stopped
      PROVE  ConfigsFit'
  BY <1>1, <1>9, CallTypes DEF Stopped, ConfigsFit, rowVars, Typed
<1> QED BY <1>1, <1>2, <1>3, <1>4, <1>5, <1>6, <1>7, <1>8, <1>9, SplitModelsNext

LEMMA PromptsStayFit ==
  ASSUME RowsInv, ModelsNext
  PROVE  PromptsFit'
<1>1. Typed /\ RequestsFit /\ PromptsFit
  BY DEF RowsInv
<1>2. ASSUME NEW q \in ModelRequests, Asked(q)
      PROVE  PromptsFit'
  BY <1>1, <1>2 DEF Asked, PromptsFit, Prompted, PastSame, rowVars, memoryVars
<1>3. ASSUME NEW q \in ModelRequests, ModelWritten(q)
      PROVE  PromptsFit'
  BY <1>1, <1>3 DEF ModelWritten, PromptsFit, Prompted, PastGrows, memoryVars
<1>4. ASSUME NEW q \in ModelRequests, AgentWritten(q)
      PROVE  PromptsFit'
  <2> SUFFICES ASSUME "agent" \notin past'.crossed, ~past'.edited
               PROVE  /\ Prompted' => agent'.prompt \in past'.prompts
                      /\ \A c \in MCalls : mcalls'[c].pc # "idle" =>
                           mcalls'[c].prompt \in past'.prompts
    BY DEF PromptsFit
  <2>1. /\ SeenAgent(q) = agent /\ mcalls' = mcalls
        /\ "agent" \notin past.crossed /\ ~past.edited
        /\ past.prompts \subseteq past'.prompts
    BY <1>4 DEF AgentWritten, PastGrows, memoryVars
  <2>2. /\ Prompted => agent.prompt \in past.prompts
        /\ \A c \in MCalls : mcalls[c].pc # "idle" =>
                               mcalls[c].prompt \in past.prompts
    BY <1>1, <2>1 DEF PromptsFit
  <2>3. Prompted' => \/ agent'.prompt \in past'.prompts
                     \/ Prompted /\ agent'.prompt = agent.prompt
    BY <1>4, <2>1 DEF AgentWritten
  <2> QED BY <2>1, <2>2, <2>3
<1>5. ASSUME NEW q \in ModelRequests, Invalidated(q)
      PROVE  PromptsFit'
  <2>1. \A c \in MCalls : /\ mcalls'[c].pc = mcalls[c].pc
                          /\ mcalls'[c].prompt = mcalls[c].prompt
    BY <1>5 DEF Invalidated
  <2>2. /\ past'.crossed = past.crossed /\ past'.prompts = past.prompts
        /\ past'.edited = past.edited /\ agent' = agent
    BY <1>5 DEF Invalidated, rowVars
  <2> QED BY <1>1, <2>1, <2>2 DEF PromptsFit, Prompted
<1>6. ASSUME NEW c \in MCalls, CallMoved(c)
      PROVE  PromptsFit'
  BY <1>1, <1>6 DEF CallMoved, PromptsFit, Prompted, rowVars
<1>7. ASSUME Penalized
      PROVE  PromptsFit'
  BY <1>1, <1>7 DEF Penalized, PromptsFit, Prompted
<1>8. ASSUME Expired
      PROVE  PromptsFit'
  BY <1>1, <1>8 DEF Expired, PromptsFit, Prompted, rowVars
<1>9. ASSUME Stopped
      PROVE  PromptsFit'
  BY <1>1, <1>9, CallTypes DEF Stopped, PromptsFit, Prompted, rowVars, Typed
<1> QED BY <1>1, <1>2, <1>3, <1>4, <1>5, <1>6, <1>7, <1>8, <1>9, SplitModelsNext

LEMMA BlockStaysFit ==
  ASSUME RowsInv, ModelsNext
  PROVE  BlockFits'
<1>1. Typed /\ RequestsFit /\ BlockFits
  BY DEF RowsInv
<1>2. ASSUME NEW q \in ModelRequests, Asked(q)
      PROVE  BlockFits'
  <2>1. \A r \in ModelRequests :
          modelRequests'[r].pc = "forget" => modelRequests'[r] = modelRequests[r]
    BY <1>2 DEF Asked, OthersKept
  <2>2. model' = model /\ past'.crossed = past.crossed
        /\ past'.killed = past.killed /\ past'.lifted = past.lifted
    BY <1>2 DEF Asked, PastSame, PastKept, rowVars
  <2> QED BY <1>1, <2>1, <2>2 DEF BlockFits, Killing
<1>3. ASSUME NEW q \in ModelRequests, ModelWritten(q)
      PROVE  BlockFits'
  <2> SUFFICES ASSUME "model" \notin past'.crossed
               PROVE  /\ \A r \in ModelRequests :
                           /\ modelRequests'[r].pc = "forget"
                           /\ modelRequests'[r].op = "block model"
                           => model'.status = "BLOCKED"
                      /\ past'.killed /\ ~past'.lifted => model'.status = "BLOCKED"
    BY DEF BlockFits, Killing
  <2>1. /\ SeenModel(q).status = model.status
        /\ "model" \notin past.crossed
        /\ past'.killed = past.killed /\ past'.lifted = past.lifted
    BY <1>3 DEF ModelWritten, PastGrows, PastKept
  <2>2. model.status = "BLOCKED" => model'.status = "BLOCKED"
    BY <1>3, <2>1 DEF ModelWritten
  <2>3. \A r \in ModelRequests : r # q => modelRequests'[r] = modelRequests[r]
    BY <1>3 DEF ModelWritten, OthersKept
  <2>4. modelRequests'[q].pc = "forget" =>
          /\ modelRequests'[q].op = modelRequests[q].op
          /\ modelRequests[q].op = "block model" => model'.status = "BLOCKED"
    BY <1>3, FreeFields DEF ModelWritten, Forgetting, IsClosed
  <2> QED BY <1>1, <2>1, <2>2, <2>3, <2>4 DEF BlockFits, Killing
<1>4. ASSUME NEW q \in ModelRequests, AgentWritten(q)
      PROVE  BlockFits'
  <2>1. /\ past.crossed \subseteq past'.crossed
        /\ past'.killed = past.killed /\ past'.lifted = past.lifted
        /\ model' = model
    BY <1>4 DEF AgentWritten, PastGrows, PastKept
  <2>2. \A r \in ModelRequests : r # q => modelRequests'[r] = modelRequests[r]
    BY <1>4 DEF AgentWritten, OthersKept
  <2>3. modelRequests'[q].pc = "forget" => modelRequests'[q].op # "block model"
    BY <1>4, FreeFields DEF AgentWritten, Forgetting, IsClosed, AgentOps
  <2> QED BY <1>1, <2>1, <2>2, <2>3 DEF BlockFits, Killing
<1>5. ASSUME NEW q \in ModelRequests, Invalidated(q)
      PROVE  BlockFits'
  <2>1. \A r \in ModelRequests :
          modelRequests'[r].pc = "forget" => modelRequests'[r] = modelRequests[r]
    BY <1>5, FreeFields DEF Invalidated, OthersKept, IsClosed
  <2>2. model' = model /\ past'.crossed = past.crossed
    BY <1>5 DEF Invalidated, rowVars
  <2>3. Killing' => Killing \/ ("model" \notin past.crossed /\
                                modelRequests[q].op = "block model")
    BY <1>5 DEF Killing, Invalidated
  <2>4. modelRequests[q].pc = "forget"
    BY <1>5 DEF Invalidated
  <2> QED BY <1>1, <2>1, <2>2, <2>3, <2>4 DEF BlockFits
<1>6. ASSUME NEW c \in MCalls, CallMoved(c)
      PROVE  BlockFits'
  BY <1>1, <1>6 DEF CallMoved, BlockFits, Killing, rowVars
<1>7. ASSUME Penalized
      PROVE  BlockFits'
  BY <1>1, <1>7 DEF Penalized, BlockFits, Killing
<1>8. ASSUME Expired
      PROVE  BlockFits'
  BY <1>1, <1>8 DEF Expired, BlockFits, Killing, rowVars
<1>9. ASSUME Stopped
      PROVE  BlockFits'
  BY <1>1, <1>9, FreeFields DEF Stopped, BlockFits, Killing, rowVars
<1> QED BY <1>1, <1>2, <1>3, <1>4, <1>5, <1>6, <1>7, <1>8, <1>9, SplitModelsNext

\* The cut, and what it lets through.
LEMMA CutStaysFit ==
  ASSUME RowsInv, ModelsNext
  PROVE  CutFits' /\ KillSwitchCutsCalls'
<1>1. /\ Typed /\ RequestsFit /\ BlockFits /\ CutFits
      /\ Killing => \A c \in MCalls :
           mcalls[c].pc = "turn" /\ mcalls[c].config # Platform => mcalls[c].late
  BY DEF RowsInv, KillSwitchCutsCalls, Killing
<1> SUFFICES ASSUME Killing'
             PROVE  /\ \/ cut'
                       \/ /\ resolved'.config = Platform
                          /\ \A c \in MCalls : mcalls'[c].config = Platform
                    /\ \A c \in MCalls :
                         mcalls'[c].pc = "turn" /\ mcalls'[c].config # Platform
                           => mcalls'[c].late
  BY DEF CutFits, KillSwitchCutsCalls, Killing
<1> DEFINE Goal == /\ \/ cut'
                      \/ /\ resolved'.config = Platform
                         /\ \A c \in MCalls : mcalls'[c].config = Platform
                   /\ \A c \in MCalls :
                        mcalls'[c].pc = "turn" /\ mcalls'[c].config # Platform
                          => mcalls'[c].late
<1>2. ASSUME Killing, UNCHANGED memoryVars
      PROVE  Goal
  BY <1>1, <1>2 DEF CutFits, memoryVars
<1>3. ASSUME NEW q \in ModelRequests, Asked(q)
      PROVE  Goal
  <2>1. Killing /\ UNCHANGED memoryVars
    BY <1>3 DEF Asked, PastSame, PastKept, Killing
  <2> QED BY <1>2, <2>1
<1>4. ASSUME NEW q \in ModelRequests, ModelWritten(q) \/ AgentWritten(q)
      PROVE  Goal
  <2>1. Killing /\ UNCHANGED memoryVars
    BY <1>4 DEF ModelWritten, AgentWritten, PastGrows, PastKept, Killing
  <2> QED BY <1>2, <2>1
<1>5. ASSUME NEW q \in ModelRequests, Invalidated(q)
      PROVE  Goal
  <2>1. /\ past'.killed /\ ~past'.lifted /\ past'.crossed = past.crossed
        /\ resolved'.config = Platform
        /\ "model" \notin past.crossed
    BY <1>5 DEF Invalidated, Killing
  <2>2. \/ cut' /\ \A c \in MCalls : mcalls[c].pc = "turn" => mcalls'[c].late
        \/ /\ past.killed /\ ~past.lifted
           /\ cut' = cut /\ mcalls' = mcalls
    BY <1>5, <2>1 DEF Invalidated
  <2>3. \A c \in MCalls : mcalls'[c].pc = mcalls[c].pc
    BY <1>5 DEF Invalidated
  <2> QED BY <1>1, <2>1, <2>2, <2>3 DEF CutFits, Killing
<1>6. ASSUME NEW c \in MCalls, CallMoved(c)
      PROVE  Goal
  <2>1. Killing /\ cut' = cut /\ model' = model
    BY <1>6 DEF CallMoved, Killing, rowVars
  <2>2. Serving = Platform
    BY <1>1, <2>1, ServingType DEF BlockFits, Typed
  <2>3. /\ \A d \in MCalls : d # c => mcalls'[d] = mcalls[d]
        /\ mcalls'[c].config \in {Platform, mcalls[c].config, resolved.config}
        /\ mcalls'[c].pc = "turn" =>
             mcalls'[c].config = IF cut THEN Platform ELSE mcalls[c].config
        /\ resolved' = resolved \/ resolved'.config = mcalls[c].config
    BY <1>6, <2>2 DEF CallMoved
  <2>4. \/ cut
        \/ /\ resolved.config = Platform
           /\ \A d \in MCalls : mcalls[d].config = Platform
    BY <1>1, <2>1 DEF CutFits
  <2>5. \A d \in MCalls :
          mcalls[d].pc = "turn" /\ mcalls[d].config # Platform => mcalls[d].late
    BY <1>1, <2>1
  <2>6. CASE cut
    BY <2>1, <2>3, <2>5, <2>6
  <2>7. CASE ~cut
    BY <2>1, <2>3, <2>4, <2>5, <2>7
  <2> QED BY <2>6, <2>7
<1>7. ASSUME Penalized
      PROVE  Goal
  <2>1. Killing /\ resolved' = resolved /\ cut' = cut /\ mcalls' = mcalls
    BY <1>7 DEF Penalized, Killing
  <2> QED BY <1>1, <2>1 DEF CutFits
<1>8. ASSUME Expired
      PROVE  Goal
  <2>1. /\ Killing /\ cut' = cut /\ mcalls' = mcalls
        /\ resolved'.config = Platform
    BY <1>8 DEF Expired, Killing
  <2> QED BY <1>1, <2>1 DEF CutFits
<1>9. ASSUME Stopped
      PROVE  Goal
  <2>1. NoCall.config = Platform
    BY <1>1, CallTypes DEF Typed
  <2> QED BY <1>9, <2>1 DEF Stopped
<1> HIDE DEF Goal
<1>10. Goal
  BY <1>1, <1>3, <1>4, <1>5, <1>6, <1>7, <1>8, <1>9, SplitModelsNext
<1> QED BY <1>10 DEF Goal

\* The cache.
LEMMA CacheStaysCurrent ==
  ASSUME RowsInv, ModelsNext
  PROVE  ResolvedModelIsCurrent'
<1>1. Typed /\ RequestsFit /\ ResolvedModelIsCurrent
  BY DEF RowsInv
<1> DEFINE Forget(r) == r.pc = "forget"
<1>2. ASSUME UNCHANGED <<resolved, modelRequests>>, past'.auto = past.auto,
             Serving' = Serving
      PROVE  ResolvedModelIsCurrent'
  BY <1>1, <1>2 DEF ResolvedModelIsCurrent
<1>3. ASSUME NEW q \in ModelRequests, Asked(q)
      PROVE  ResolvedModelIsCurrent'
  <2>1. /\ resolved' = resolved /\ past'.auto = past.auto /\ Serving' = Serving
    BY <1>3 DEF Asked, PastSame, PastKept, rowVars, memoryVars, Serving
  <2>2. \A r \in ModelRequests :
          modelRequests[r].pc = "forget" => modelRequests'[r].pc = "forget"
    BY <1>3 DEF Asked, OthersKept
  <2> QED BY <1>1, <2>1, <2>2 DEF ResolvedModelIsCurrent
<1>4. ASSUME NEW q \in ModelRequests, ModelWritten(q) \/ AgentWritten(q)
      PROVE  ResolvedModelIsCurrent'
  <2>1. /\ resolved' = resolved /\ past'.auto = past.auto
        /\ \/ modelRequests'[q].pc = "forget"
           \/ Serving' = Serving
    BY <1>4 DEF ModelWritten, AgentWritten, PastKept, memoryVars, Serving,
                Forgetting
  <2>2. \A r \in ModelRequests :
          modelRequests[r].pc = "forget" => modelRequests'[r].pc = "forget"
    BY <1>4 DEF ModelWritten, AgentWritten, OthersKept
  <2> QED BY <1>1, <2>1, <2>2 DEF ResolvedModelIsCurrent
<1>5. ASSUME NEW q \in ModelRequests, Invalidated(q)
      PROVE  ResolvedModelIsCurrent'
  BY <1>5 DEF Invalidated, ResolvedModelIsCurrent
<1>6. ASSUME NEW c \in MCalls, CallMoved(c)
      PROVE  ResolvedModelIsCurrent'
  <2>1. /\ modelRequests' = modelRequests /\ past' = past /\ Serving' = Serving
    BY <1>6 DEF CallMoved, rowVars, Serving
  <2>2. \/ resolved' = resolved
        \/ resolved'.config = Serving \/ resolved'.raced
    BY <1>6 DEF CallMoved
  <2> QED BY <1>1, <2>1, <2>2 DEF ResolvedModelIsCurrent
<1>7. ASSUME Penalized
      PROVE  ResolvedModelIsCurrent'
  <2>1. past'.auto \/ (past'.auto = past.auto /\ Serving' = Serving)
    BY <1>7 DEF Penalized, Serving
  <2>2. resolved' = resolved /\ modelRequests' = modelRequests
    BY <1>7 DEF Penalized
  <2> QED BY <1>1, <2>1, <2>2 DEF ResolvedModelIsCurrent
<1>8. ASSUME Expired \/ Stopped
      PROVE  ResolvedModelIsCurrent'
  BY <1>8 DEF Expired, Stopped, ResolvedModelIsCurrent
<1> QED BY <1>1, <1>3, <1>4, <1>5, <1>6, <1>7, <1>8, SplitModelsNext

-----------------------------------------------------------------------------
(* The theorems about the rows.                                            *)

LEMMA TypedStays ==
  ASSUME RowsInv, ModelsNext
  PROVE  Typed'
<1>1. Typed /\ RequestsFit
  BY DEF RowsInv
<1>2. /\ \A q \in ModelRequests :
           Asked(q) \/ ModelWritten(q) \/ AgentWritten(q) \/ Invalidated(q)
             => Typed'
      /\ \A c \in MCalls : CallMoved(c) => Typed'
      /\ Penalized \/ Expired \/ Stopped => Typed'
  BY DEF Asked, ModelWritten, AgentWritten, Invalidated, CallMoved, Penalized,
         Expired, Stopped
<1> QED BY <1>1, <1>2, SplitModelsNext

LEMMA RowsInvInit == ModelsInit => RowsInv
<1> SUFFICES ASSUME ModelsInit PROVE RowsInv
  OBVIOUS
<1> DEFINE at == IF agent = NewAgent THEN {} ELSE {1}
<1>1. /\ modelRequests = [q \in ModelRequests |-> FreeRequest]
      /\ resolved = Unresolved /\ cut = FALSE
      /\ mcalls = [c \in MCalls |-> NoCall]
      /\ penalties = [open |-> 0, block |-> FALSE]
      /\ past = [configs |-> at, prompts |-> at,
                 made |-> 0, crossed |-> {}, edited |-> FALSE, auto |-> FALSE,
                 killed |-> FALSE, lifted |-> FALSE]
  BY DEF ModelsInit
<1>2. /\ 1 \in 1..MaxConfig /\ 1 \in 1..MaxPrompt /\ 0 \in 0..AutoBlock
      /\ 0 \in 0..MaxConfig
  BY ModelsAssumption
<1>3. /\ model \in Model /\ agent \in Agent
      /\ model.status = "ACTIVE" => model.config = 1 /\ agent # NewAgent
      /\ agent.status \in {"ACTIVE", "PAUSED"} => agent.prompt = 1 /\ agent # NewAgent
  <2>1. CASE model = NewModel /\ agent = NewAgent
    BY <1>2, <2>1
       DEF NewModel, NewAgent, Model, Agent, ModelStatus, AgentStatus, Health
  <2>2. CASE model = Approved.model /\ agent = Approved.agent
    <3> DEFINE m == [NewModel EXCEPT !.status = "ACTIVE", !.health = "ok"]
               a == [NewAgent EXCEPT !.status = "ACTIVE", !.model = TRUE]
    <3>1. m \in Model /\ m.status = "ACTIVE" /\ m.config = 1
      BY <1>2 DEF NewModel, Model, ModelStatus, Health
    <3>2. /\ a \in Agent /\ a.status = "ACTIVE" /\ a.prompt = 1
          /\ NewAgent.status = "DRAFT"
      BY <1>2 DEF NewAgent, Agent, AgentStatus, ModelStatus
    <3>3. model = m /\ agent = a
      BY <2>2 DEF Approved
    <3> HIDE DEF m, a
    <3>4. agent # NewAgent
      BY <3>2, <3>3
    <3> QED BY <3>1, <3>2, <3>3, <3>4
  <2> QED BY <2>1, <2>2 DEF ModelsInit
<1>4. at \in SUBSET (1..MaxConfig) /\ at \in SUBSET (1..MaxPrompt)
  BY <1>2
<1>5. agent # NewAgent => 1 \in at
  OBVIOUS
<1> HIDE DEF at
<1>6. PastTypeOK
  BY <1>1, <1>4 DEF PastTypeOK
<1>7. Unresolved \in [known: BOOLEAN, config: 0..MaxConfig, raced: BOOLEAN]
  BY <1>2 DEF Unresolved, Platform
<1>8. /\ NoCall \in Call /\ NoCall.config = Platform /\ NoCall.pc = "idle"
      /\ ~Unresolved.known /\ Unresolved.config = Platform
  BY <1>2 DEF NoCall, Call, CallSteps, Platform, Unresolved
<1>9. ModelsTypeOK
  <2>1. modelRequests \in [ModelRequests -> Request]
    BY <1>1, FreeIsRequest
  <2>2. mcalls \in [MCalls -> Call] /\ cut \in BOOLEAN
    BY <1>1, <1>8
  <2>3. penalties \in [open: 0..1, block: BOOLEAN]
    BY <1>1
  <2> QED BY <1>1, <1>3, <1>7, <2>1, <2>2, <2>3 DEF ModelsTypeOK, Call
<1>10. \A q \in ModelRequests : modelRequests[q].pc = "free"
  BY <1>1, FreeFields
<1>11. /\ past.configs = at /\ past.prompts = at
       /\ past.crossed = {} /\ ~past.killed
  BY <1>1
<1>12. \A c \in MCalls : mcalls[c].config = Platform /\ mcalls[c].pc = "idle"
  BY <1>1, <1>8
<1>13. resolved.config = Platform /\ ~resolved.known
  BY <1>1, <1>8
<1>14. RequestsFit /\ BlockFits /\ CutFits /\ KillSwitchCutsCalls
  BY <1>10, <1>11 DEF RequestsFit, RequestFits, BlockFits, CutFits, Killing,
                      KillSwitchCutsCalls
<1>15. ConfigsFit /\ PromptsFit
  BY <1>3, <1>5, <1>11, <1>12, <1>13 DEF ConfigsFit, PromptsFit, Prompted
<1>16. ResolvedModelIsCurrent
  BY <1>13 DEF ResolvedModelIsCurrent
<1> QED BY <1>6, <1>9, <1>14, <1>15, <1>16 DEF RowsInv, Typed

LEMMA RowsInvStep == RowsInv /\ [ModelsNext]_modelsVars => RowsInv'
<1>1. ASSUME RowsInv, ModelsNext PROVE RowsInv'
  BY <1>1, TypedStays, RequestsStayFit, ConfigsStayFit, PromptsStayFit,
     BlockStaysFit, CutStaysFit, CacheStaysCurrent DEF RowsInv
<1>2. ASSUME RowsInv, UNCHANGED modelsVars PROVE RowsInv'
  <2>1. /\ model' = model /\ agent' = agent /\ modelRequests' = modelRequests
        /\ resolved' = resolved /\ cut' = cut /\ mcalls' = mcalls
        /\ penalties' = penalties /\ past' = past
    BY <1>2 DEF modelsVars, rowVars, memoryVars
  <2>2. Typed' /\ RequestsFit'
    BY <1>2, <2>1 DEF RowsInv, Typed, ModelsTypeOK, PastTypeOK, RequestsFit,
                      RequestFits, SeenModel, SeenAgent
  <2>3. ConfigsFit' /\ PromptsFit' /\ BlockFits' /\ CutFits'
    BY <1>2, <2>1 DEF RowsInv, ConfigsFit, PromptsFit, Prompted, BlockFits,
                      CutFits, Killing
  <2>4. KillSwitchCutsCalls' /\ ResolvedModelIsCurrent'
    BY <1>2, <2>1 DEF RowsInv, KillSwitchCutsCalls, ResolvedModelIsCurrent,
                      Serving
  <2> QED BY <2>2, <2>3, <2>4 DEF RowsInv
<1> QED BY <1>1, <1>2

LEMMA RowsInvAlways == ModelsSpec => []RowsInv
<1> QED BY RowsInvInit, RowsInvStep, PTL DEF ModelsSpec

LEMMA ApprovedSpeak == RowsInv => OnlyApprovedModelsSpeak
<1> SUFFICES ASSUME RowsInv, NEW c \in MCalls, Speaking(c)
             PROVE  /\ \/ mcalls[c].config \in past.configs \cup {Platform}
                       \/ "model" \in past.crossed
                    /\ \/ mcalls[c].prompt \in past.prompts
                       \/ "agent" \in past.crossed \/ past.edited
  BY DEF OnlyApprovedModelsSpeak
<1>1. mcalls[c].pc # "idle"
  BY DEF Speaking
<1>2. ConfigsFit /\ PromptsFit
  BY DEF RowsInv
<1> QED BY <1>1, <1>2 DEF ConfigsFit, PromptsFit

\* A call speaks with a configuration and a prompt an administrator saw when
\* approving, in every interleaving of the requests of tenants and moderators,
\* unless two of them crossed or the agent was edited while PAUSED
\* (v1/models.ts, v1/agents.ts and the moderation of both).
THEOREM ApprovedModelsSpeak == ModelsSpec => []OnlyApprovedModelsSpeak
<1> QED BY RowsInvAlways, ApprovedSpeak, PTL

\* After an administrator's block, only a turn that had begun still asks the
\* blocked model, also in calls that were resolving it and after a restart
\* that forgot the cut (invalidateModel and the blocked set of modelResolver).
THEOREM BlockCutsCalls == ModelsSpec => []KillSwitchCutsCalls
<1>1. RowsInv => KillSwitchCutsCalls
  BY DEF RowsInv
<1> QED BY RowsInvAlways, <1>1, PTL

\* Only a request that had read the row before leads out of BLOCKED.
LEMMA BlockedStep ==
  ASSUME RowsInv, ModelsNext
  PROVE  /\ model.status = "BLOCKED" =>
              \/ model'.status = "BLOCKED"
              \/ \E q \in ModelRequests : modelRequests'[q] # modelRequests[q]
                                     /\ SeenModel(q).status # "BLOCKED"
         /\ agent.status = "BLOCKED" =>
              \/ agent'.status = "BLOCKED" \/ agent'.deleted
              \/ \E q \in ModelRequests : modelRequests'[q] # modelRequests[q]
                                     /\ SeenAgent(q).status # "BLOCKED"
<1>1. Typed /\ RequestsFit
  BY DEF RowsInv
<1> DEFINE Kept == model'.status = model.status /\ agent'.status = agent.status
<1>2. ASSUME NEW q \in ModelRequests, ModelWritten(q) \/ AgentWritten(q)
      PROVE  modelRequests'[q] # modelRequests[q]
  BY <1>2, FreeFields DEF ModelWritten, AgentWritten, Forgetting, IsClosed
<1>3. ASSUME NEW q \in ModelRequests, ModelWritten(q)
      PROVE  /\ agent' = agent
             /\ model.status = "BLOCKED" /\ SeenModel(q).status = "BLOCKED"
                  => model'.status = "BLOCKED"
  BY <1>3 DEF ModelWritten
<1>4. ASSUME NEW q \in ModelRequests, AgentWritten(q)
      PROVE  /\ model' = model
             /\ agent.status = "BLOCKED" /\ SeenAgent(q).status = "BLOCKED"
                  => agent'.status = "BLOCKED" \/ agent'.deleted
  BY <1>4 DEF AgentWritten
<1>5. ASSUME \/ \E q \in ModelRequests : Asked(q) \/ Invalidated(q)
             \/ \E c \in MCalls : CallMoved(c)
             \/ Expired \/ Stopped
      PROVE  model' = model /\ agent' = agent
  BY <1>5 DEF Asked, Invalidated, CallMoved, Expired, Stopped, rowVars
<1>6. ASSUME Penalized
      PROVE  /\ agent' = agent
             /\ model.status = "BLOCKED" => model'.status = "BLOCKED"
  BY <1>6 DEF Penalized
<1> QED BY <1>1, <1>2, <1>3, <1>4, <1>5, <1>6, SplitModelsNext

\* No route leads out of BLOCKED; only a request that had read its row before
\* the block undoes it (the status checks of every route of both rows).
THEOREM BlockedStaysBlocked == ModelsSpec => BlockedIsFinal
<1> DEFINE Step ==
      /\ model.status = "BLOCKED" =>
           \/ model'.status = "BLOCKED"
           \/ \E q \in ModelRequests : modelRequests'[q] # modelRequests[q]
                                  /\ SeenModel(q).status # "BLOCKED"
      /\ agent.status = "BLOCKED" =>
           \/ agent'.status = "BLOCKED" \/ agent'.deleted
           \/ \E q \in ModelRequests : modelRequests'[q] # modelRequests[q]
                                  /\ SeenAgent(q).status # "BLOCKED"
<1>1. RowsInv /\ [ModelsNext]_modelsVars => [Step]_modelsVars
  BY BlockedStep
<1> HIDE DEF Step
<1>2. ModelsSpec => [][Step]_modelsVars
  BY <1>1, RowsInvAlways, PTL DEF ModelsSpec
<1> QED BY <1>2 DEF Step, BlockedIsFinal

-----------------------------------------------------------------------------
(* Phone numbers: two that end alike have the same last digits.            *)

LEMMA ReverseDigits ==
  ASSUME NEW D, NEW s \in Seq(D)
  PROVE  /\ Reverse(s) \in Seq(D) /\ Len(Reverse(s)) = Len(s)
         /\ \A i \in 1..Len(s) : Reverse(s)[i] = s[Len(s) - i + 1]
<1> DEFINE n == Len(s)
           r == [i \in 1..n |-> s[(n - i) + 1]]
<1>1. n \in Nat
  BY LenProperties
<1>2. \A i \in 1..n : (n - i) + 1 \in 1..n
  BY <1>1
<1>3. \A i \in 1..n : s[(n - i) + 1] \in D
  BY <1>2, ElementOfSeq
<1> HIDE DEF n
<1>4. r \in [1..n -> D]
  BY <1>3
<1>5. r \in Seq(D)
  BY <1>1, <1>4
<1>6. Len(r) = n
  BY <1>1, <1>4, <1>5
<1>7. \A i \in 1..n : r[i] = s[(n - i) + 1]
  OBVIOUS
<1>8. Reverse(s) = r
  BY DEF Reverse, n
<1> HIDE DEF r
<1> QED BY <1>5, <1>6, <1>7, <1>8 DEF n

LEMMA SuffixDigits ==
  ASSUME NEW D, NEW s \in Seq(D), NEW t \in Seq(D), IsSuffix(s, t),
         NEW i \in 1..Len(s)
  PROVE  /\ Len(s) <= Len(t)
         /\ s[Len(s) - i + 1] = t[Len(t) - i + 1]
<1> DEFINE a == Reverse(s)
           b == Reverse(t)
<1>1. /\ a \in Seq(D) /\ Len(a) = Len(s) /\ a[i] = s[Len(s) - i + 1]
      /\ b \in Seq(D) /\ Len(b) = Len(t)
      /\ \A j \in 1..Len(t) : b[j] = t[Len(t) - j + 1]
  BY ReverseDigits
<1>2. Len(a) <= Len(b) /\ SubSeq(a, 1, Len(a)) = SubSeq(b, 1, Len(a))
  BY DEF IsSuffix, IsPrefix
<1>3. Len(a) \in Nat /\ Len(b) \in Nat
  BY <1>1, LenProperties
<1> HIDE DEF a, b
<1>4. /\ \A j \in 1..Len(a) : a[j] \in D
      /\ \A j \in 1..Len(a) : b[j] \in D
  BY <1>1, <1>2, <1>3, ElementOfSeq
<1>5. i \in 1..Len(a) /\ i \in 1..Len(b)
  BY <1>1, <1>2, <1>3
<1>6. SubSeq(a, 1, Len(a))[i] = a[i]
  <2>1. \A j \in 1..(Len(a) - 1 + 1) : SubSeq(a, 1, Len(a))[j] = a[1 + j - 1]
    BY <1>3, <1>4, SubSeqProperties
  <2> QED BY <1>3, <1>5, <2>1
<1>7. SubSeq(b, 1, Len(a))[i] = b[i]
  <2>1. \A j \in 1..(Len(a) - 1 + 1) : SubSeq(b, 1, Len(a))[j] = b[1 + j - 1]
    BY <1>3, <1>4, SubSeqProperties
  <2> QED BY <1>3, <1>5, <2>1
<1> QED BY <1>1, <1>2, <1>5, <1>6, <1>7

LEMMA LastDigits ==
  ASSUME NEW D, NEW s \in Seq(D), NEW t \in Seq(D), IsSuffix(s, t),
         NEW k \in Nat \ {0}, k <= Len(s)
  PROVE  SubSeq(s, Len(s) - k + 1, Len(s)) = SubSeq(t, Len(t) - k + 1, Len(t))
<1> DEFINE m == Len(s)
           n == Len(t)
           u == SubSeq(s, m - k + 1, m)
           v == SubSeq(t, n - k + 1, n)
<1>1. m \in Nat /\ n \in Nat
  BY LenProperties
<1>2. \A i \in 1..m : m <= n /\ s[m - i + 1] = t[n - i + 1]
  BY SuffixDigits
<1> HIDE DEF m, n
<1>3. k <= m /\ k <= n
  <2>1. k <= m
    BY DEF m
  <2>2. 1 \in 1..m
    BY <1>1, <2>1
  <2> QED BY <1>1, <1>2, <2>1, <2>2
<1>4. /\ \A j \in (m - k + 1)..m : s[j] \in D
      /\ \A j \in (n - k + 1)..n : t[j] \in D
  <2>1. \A j \in 1..m : s[j] \in D
    BY ElementOfSeq DEF m
  <2>2. \A j \in 1..n : t[j] \in D
    BY ElementOfSeq DEF n
  <2> QED BY <1>1, <1>3, <2>1, <2>2
<1>5. /\ u \in Seq(D) /\ Len(u) = k
      /\ \A j \in 1..k : u[j] = s[m - k + j]
  <2>1. m - k + 1 \in Int /\ m \in Int
    BY <1>1
  <2>2. /\ u \in Seq(D)
        /\ Len(u) = IF m - k + 1 <= m THEN m - (m - k + 1) + 1 ELSE 0
        /\ \A j \in 1..(m - (m - k + 1) + 1) : u[j] = s[(m - k + 1) + j - 1]
    BY <1>4, <2>1, SubSeqProperties
  <2> HIDE DEF u
  <2> QED BY <1>1, <1>3, <2>2
<1>6. /\ v \in Seq(D) /\ Len(v) = k
      /\ \A j \in 1..k : v[j] = t[n - k + j]
  <2>1. n - k + 1 \in Int /\ n \in Int
    BY <1>1
  <2>2. /\ v \in Seq(D)
        /\ Len(v) = IF n - k + 1 <= n THEN n - (n - k + 1) + 1 ELSE 0
        /\ \A j \in 1..(n - (n - k + 1) + 1) : v[j] = t[(n - k + 1) + j - 1]
    BY <1>4, <2>1, SubSeqProperties
  <2> HIDE DEF v
  <2> QED BY <1>1, <1>3, <2>2
<1>7. ASSUME NEW j \in 1..k
      PROVE  s[m - k + j] = t[n - k + j]
  <2>1. k - j + 1 \in 1..m
    BY <1>1, <1>3
  <2>2. s[m - (k - j + 1) + 1] = t[n - (k - j + 1) + 1]
    BY <1>2, <2>1
  <2> QED BY <1>1, <2>2
<1> HIDE DEF u, v
<1>8. \A j \in 1..Len(u) : u[j] = v[j]
  BY <1>5, <1>6, <1>7
<1>9. u = v
  BY <1>5, <1>6, <1>8, SeqEqual
<1> QED BY <1>9 DEF u, v, m, n

LEMMA NumbersAreSequences ==
  /\ Numbers \subseteq Seq(Digits)
  /\ NoNumber \in Numbers
<1>1. MaxDigits \in Nat
  BY RemoteModelAssumption
<1>2. ASSUME NEW x \in Numbers PROVE x \in Seq(Digits)
  <2>1. PICK n \in 0..MaxDigits : x \in [1..n -> Digits]
    BY DEF Numbers
  <2>2. n \in Nat
    BY <1>1
  <2> QED BY <2>1, <2>2
<1>3. NoNumber \in [1..0 -> Digits]
  BY DEF NoNumber
<1>4. 0 \in 0..MaxDigits
  BY <1>1
<1>5. NoNumber \in Numbers
  BY <1>3, <1>4 DEF Numbers
<1> QED BY <1>2, <1>5

\* A number the guardrails let through is one of the tenant's.
LEMMA AllowedIsOwn ==
  ASSUME NEW target \in Numbers, EscalationAllowed(target)
  PROVE  \E n \in OwnNumbers : SamePhone(n, target)
<1>1. PICK n \in OwnNumbers :
        \/ n = target
        \/ /\ Len(n) >= National /\ Len(target) >= National
           /\ IsSuffix(target, n) \/ IsSuffix(n, target)
  BY DEF EscalationAllowed
<1>2. n \in Seq(Digits) /\ target \in Seq(Digits) /\ National \in Nat \ {0}
  BY RemoteModelAssumption, NumbersAreSequences
<1>3. Len(n) \in Nat /\ Len(target) \in Nat
  BY <1>2, LenProperties
<1>4. CASE /\ Len(n) >= National /\ Len(target) >= National
           /\ IsSuffix(target, n) \/ IsSuffix(n, target)
  <2>1. National <= Len(n) /\ National <= Len(target)
    BY <1>2, <1>3, <1>4
  <2>2. SubSeq(n, Len(n) - National + 1, Len(n))
          = SubSeq(target, Len(target) - National + 1, Len(target))
    <3>1. CASE IsSuffix(target, n)
      BY <1>2, <2>1, <3>1, LastDigits
    <3>2. CASE IsSuffix(n, target)
      BY <1>2, <2>1, <3>2, LastDigits
    <3> QED BY <1>4, <3>1, <3>2
  <2> QED BY <1>4, <2>2 DEF SamePhone
<1> QED BY <1>1, <1>4 DEF SamePhone

-----------------------------------------------------------------------------
(* The endpoint, its breaker and the turns.                                *)

Turn == [pc: TurnSteps, body: Bodies, late: BOOLEAN, said: Said]
Breaker == [failures: 0..Threshold, open: BOOLEAN]

\* What SpokenTurnIsSafe and ReadFits say of one turn.
SafeTurn(x) ==
  x.pc = "spoken" =>
    /\ x.said.action = "escalate" => \E n \in OwnNumbers : SamePhone(n, x.said.to)
    /\ x.said.action # "continue" => x.body = "turn"
    /\ x.body = "nothing" => x.said = FallbackTurn
TurnFits(x) ==
  SafeTurn(x) /\ (x.pc = "read" => ParseResponse(x.body) # Contract)

\* What BreakerClosesForACause says of a step.
BreakerStep ==
  breaker.open =>
    /\ \A t \in RTurns : turns'[t].pc = "post" => turns[t].pc = "post"
    /\ \/ breaker'.open
       \/ breaker'.failures = breaker.failures
       \/ \E t \in RTurns : turns[t].late /\ turns'[t].pc = "read"

LEMMA EndpointInvByTurn ==
  EndpointInv <=> /\ RemoteTypeOK /\ PostsAreLate
                  /\ \A t \in RTurns : TurnFits(turns[t])
BY DEF EndpointInv, SpokenTurnIsSafe, ReadFits, TurnFits, SafeTurn

LEMMA TurnTypes ==
  ASSUME RemoteTypeOK
  PROVE  /\ turns \in [RTurns -> Turn] /\ breaker \in Breaker
         /\ Silence \in Said /\ FallbackTurn \in Said
         /\ NoTurn \in Turn /\ NoTurn.pc = "idle" /\ ~NoTurn.late
         /\ NoTurn.body = "nothing"
<1>1. Silence \in Said /\ FallbackTurn \in Said
  BY NumbersAreSequences DEF Silence, FallbackTurn, Said, Actions
<1>2. turns \in [RTurns -> Turn] /\ breaker \in Breaker
  BY DEF RemoteTypeOK, Turn, Breaker
<1> QED BY <1>1, <1>2 DEF NoTurn, Turn, TurnSteps, Bodies

\* One turn moves and the breaker stays.
LEMMA TurnMoves ==
  ASSUME EndpointInv, NEW t \in RTurns, NEW s \in Turn,
         turns' = [turns EXCEPT ![t] = s], breaker' = breaker,
         TurnFits(s), s.pc = "post" => ~breaker.open
  PROVE  EndpointInv' /\ BreakerStep
<1>1. turns \in [RTurns -> Turn] /\ breaker \in Breaker
  BY TurnTypes DEF EndpointInv
<1>2. /\ turns' \in [RTurns -> Turn] /\ turns'[t] = s
      /\ \A u \in RTurns : u # t => turns'[u] = turns[u]
  BY <1>1
<1>3. RemoteTypeOK'
  BY <1>1, <1>2 DEF RemoteTypeOK, Turn, Breaker
<1>4. \A u \in RTurns : TurnFits(turns'[u])
  BY <1>2, EndpointInvByTurn
<1>5. PostsAreLate'
  BY <1>2 DEF EndpointInv, PostsAreLate
<1>6. BreakerStep
  BY <1>2 DEF BreakerStep
<1>7. EndpointInv'
  BY <1>3, <1>4, <1>5 DEF EndpointInv, SpokenTurnIsSafe, ReadFits, TurnFits, SafeTurn
<1> QED BY <1>6, <1>7

LEMMA AskModelKeeps ==
  ASSUME EndpointInv, NEW t \in RTurns, AskModel(t)
  PROVE  EndpointInv' /\ BreakerStep
<1>1. turns \in [RTurns -> Turn]
  BY TurnTypes DEF EndpointInv
<1>2. PICK step \in {"post", "failed"} :
        /\ turns' = [turns EXCEPT ![t].pc = step]
        /\ step = "post" => ~breaker.open
  BY DEF AskModel
<1> DEFINE s == [turns[t] EXCEPT !.pc = step]
<1>3. s \in Turn /\ s.pc = step
  BY <1>1 DEF Turn, TurnSteps
<1>4. turns' = [turns EXCEPT ![t] = s]
  BY <1>1, <1>2
<1> HIDE DEF s
<1>5. TurnFits(s)
  BY <1>3 DEF TurnFits, SafeTurn
<1>6. breaker' = breaker
  BY DEF AskModel
<1> QED BY <1>2, <1>3, <1>4, <1>5, <1>6, TurnMoves

LEMMA LoseAnswerKeeps ==
  ASSUME EndpointInv, NEW t \in RTurns, LoseEndpointAnswer(t)
  PROVE  EndpointInv' /\ BreakerStep
<1> DEFINE s == [NoTurn EXCEPT !.pc = "hung"]
<1>1. s \in Turn /\ s.pc = "hung"
  BY TurnTypes DEF EndpointInv, Turn, TurnSteps
<1>2. turns' = [turns EXCEPT ![t] = s] /\ breaker' = breaker
  BY DEF LoseEndpointAnswer
<1> HIDE DEF s
<1>3. TurnFits(s)
  BY <1>1 DEF TurnFits, SafeTurn
<1> QED BY <1>1, <1>2, <1>3, TurnMoves

LEMMA NextTurnKeeps ==
  ASSUME EndpointInv, NEW t \in RTurns, NextTurn(t)
  PROVE  EndpointInv' /\ BreakerStep
<1>1. NoTurn \in Turn /\ NoTurn.pc = "idle"
  BY TurnTypes DEF EndpointInv
<1>2. turns' = [turns EXCEPT ![t] = NoTurn] /\ breaker' = breaker
  BY DEF NextTurn
<1>3. TurnFits(NoTurn)
  BY <1>1 DEF TurnFits, SafeTurn
<1> QED BY <1>1, <1>2, <1>3, TurnMoves

LEMMA SpeakFallbackKeeps ==
  ASSUME EndpointInv, NEW t \in RTurns, SpeakFallback(t)
  PROVE  EndpointInv' /\ BreakerStep
<1> DEFINE s == [NoTurn EXCEPT !.pc = "spoken", !.said = FallbackTurn]
<1>1. s \in Turn /\ s.pc = "spoken" /\ s.said = FallbackTurn
  BY TurnTypes DEF EndpointInv, Turn, TurnSteps
<1>2. turns' = [turns EXCEPT ![t] = s] /\ breaker' = breaker
  BY DEF SpeakFallback
<1> HIDE DEF s
<1>3. FallbackTurn.action = "continue"
  BY DEF FallbackTurn
<1>4. TurnFits(s)
  BY <1>1, <1>3 DEF TurnFits, SafeTurn
<1> QED BY <1>1, <1>2, <1>4, TurnMoves

\* What was read is a turn of theirs, or text that goes on.
LEMMA ReadBodies ==
  ASSUME NEW body \in Bodies, ParseResponse(body) # Contract
  PROVE  /\ body # "nothing"
         /\ body # "turn" => ParseResponse(body) = TextTurn
BY DEF Bodies, ParseResponse, ParseTextTurn, Contract, TextTurn, TheirTurn

LEMMA GuardedTurn ==
  ASSUME NEW action \in Actions, NEW to \in Numbers, NEW long \in BOOLEAN,
         NEW banned \in BOOLEAN, NEW said,
         said = ApplyGuardrails(action, to, long, banned)
  PROVE  /\ said \in Said
         /\ said.action # "continue" => said.action = action
         /\ said.action = "escalate" => \E n \in OwnNumbers : SamePhone(n, said.to)
<1> DEFINE refused == action = "escalate" /\ ~EscalationAllowed(to)
<1>1. refused \in BOOLEAN
  OBVIOUS
<1>2. said = [reply |-> IF banned THEN "fallback" ELSE "theirs",
              action |-> IF refused THEN "continue" ELSE action,
              to |-> IF refused THEN NoNumber ELSE to,
              violated |-> refused \/ long \/ banned]
  BY DEF ApplyGuardrails
<1>3. action = "escalate" /\ ~refused => \E n \in OwnNumbers : SamePhone(n, to)
  BY AllowedIsOwn
<1> HIDE DEF refused
<1>4. said \in Said
  BY <1>1, <1>2, NumbersAreSequences DEF Said, Actions
<1>5. /\ said.action = IF refused THEN "continue" ELSE action
      /\ said.to = IF refused THEN NoNumber ELSE to
  BY <1>2
<1> QED BY <1>3, <1>4, <1>5

LEMMA SpeakReplyKeeps ==
  ASSUME EndpointInv, NEW t \in RTurns, SpeakReply(t)
  PROVE  EndpointInv' /\ BreakerStep
<1>1. /\ turns[t].pc = "read" /\ breaker' = breaker
      /\ turns \in [RTurns -> Turn]
  BY TurnTypes DEF SpeakReply, EndpointInv
<1>2. /\ turns[t].body \in Bodies /\ turns[t].body # "nothing"
      /\ turns[t].body # "turn" => ParseResponse(turns[t].body) = TextTurn
  <2>1. PICK body : body = turns[t].body
    OBVIOUS
  <2>2. body \in Bodies /\ ParseResponse(body) # Contract
    BY <1>1, <2>1 DEF Turn, EndpointInv, ReadFits
  <2> QED BY <2>1, <2>2, ReadBodies
<1>3. PICK action \in Actions, to \in Numbers, long \in BOOLEAN, banned \in BOOLEAN :
        turns' = [turns EXCEPT ![t] = [NoTurn EXCEPT
          !.pc = "spoken", !.body = turns[t].body,
          !.said = ApplyGuardrails(
            ActionOf(ParseResponse(turns[t].body), action), to, long, banned)]]
  BY DEF SpeakReply
<1>4. PICK choice : choice = ActionOf(ParseResponse(turns[t].body), action)
  OBVIOUS
<1>5. /\ choice \in Actions
      /\ turns[t].body # "turn" => choice = "continue"
  BY <1>2, <1>4 DEF ActionOf, Actions
<1>6. PICK said : said = ApplyGuardrails(choice, to, long, banned)
  OBVIOUS
<1>7. /\ said \in Said
      /\ said.action # "continue" => said.action = choice
      /\ said.action = "escalate" => \E n \in OwnNumbers : SamePhone(n, said.to)
  BY <1>5, <1>6, GuardedTurn
<1> DEFINE s == [NoTurn EXCEPT !.pc = "spoken", !.body = turns[t].body,
                               !.said = said]
<1>8. s \in Turn /\ s.pc = "spoken" /\ s.body = turns[t].body /\ s.said = said
  BY <1>2, <1>7, TurnTypes DEF EndpointInv, Turn, TurnSteps
<1>9. turns' = [turns EXCEPT ![t] = s]
  BY <1>3, <1>4, <1>6
<1> HIDE DEF s
<1>10. TurnFits(s)
  BY <1>2, <1>5, <1>7, <1>8 DEF TurnFits, SafeTurn
<1> QED BY <1>1, <1>8, <1>9, <1>10, TurnMoves

\* A failure: the breaker may open, and what is posting becomes late.
LEMMA FailureKeeps ==
  ASSUME EndpointInv, NEW t \in RTurns, RecordFailure(t, "failed")
  PROVE  EndpointInv' /\ BreakerStep
<1> DEFINE n == IF breaker.failures < Threshold THEN breaker.failures + 1
                ELSE Threshold
           opens == n >= Threshold
           s == [NoTurn EXCEPT !.pc = "failed"]
<1>1. /\ breaker' = [failures |-> n, open |-> opens \/ breaker.open]
      /\ turns' = [u \in RTurns |->
           IF u = t THEN s
           ELSE [turns[u] EXCEPT !.late = @ \/ (opens /\ turns[u].pc = "post")]]
  BY DEF RecordFailure
<1>2. turns \in [RTurns -> Turn] /\ breaker \in Breaker
  BY TurnTypes DEF EndpointInv
<1>3. n \in 0..Threshold
  <2>1. breaker.failures \in 0..Threshold /\ Threshold \in Nat
    BY <1>2, RemoteModelAssumption DEF Breaker
  <2> QED BY <2>1
<1>4. s \in Turn /\ s.pc = "failed"
  BY TurnTypes DEF EndpointInv, Turn, TurnSteps
<1>5. opens \in BOOLEAN /\ breaker.open \in BOOLEAN
  BY <1>2 DEF Breaker
<1> HIDE DEF n, opens, s
<1>6. /\ breaker' \in Breaker /\ breaker'.open = (opens \/ breaker.open)
  BY <1>1, <1>3, <1>5 DEF Breaker
<1>7. /\ turns'[t] = s
      /\ \A u \in RTurns : u # t =>
           /\ turns'[u] \in Turn
           /\ turns'[u].pc = turns[u].pc /\ turns'[u].body = turns[u].body
           /\ turns'[u].said = turns[u].said
           /\ turns'[u].late = (turns[u].late \/ (opens /\ turns[u].pc = "post"))
  BY <1>1, <1>2, <1>5 DEF Turn
<1>8. turns' \in [RTurns -> Turn]
  <2>1. DOMAIN turns' = RTurns /\ turns' = [u \in RTurns |-> turns'[u]]
    BY <1>1
  <2> QED BY <1>4, <1>7, <2>1
<1>9. RemoteTypeOK'
  BY <1>6, <1>8 DEF RemoteTypeOK, Turn, Breaker
<1>10. \A u \in RTurns : TurnFits(turns[u])
  BY EndpointInvByTurn
<1>11. \A u \in RTurns : TurnFits(turns'[u])
  BY <1>4, <1>7, <1>10 DEF TurnFits, SafeTurn
<1>12. \A u \in RTurns : breaker.open /\ turns[u].pc = "post" => turns[u].late
  BY DEF EndpointInv, PostsAreLate
<1>13. PostsAreLate'
  BY <1>4, <1>6, <1>7, <1>12 DEF PostsAreLate
<1>14. BreakerStep
  BY <1>4, <1>6, <1>7 DEF BreakerStep
<1>15. EndpointInv'
  BY <1>9, <1>11, <1>13
     DEF EndpointInv, SpokenTurnIsSafe, ReadFits, TurnFits, SafeTurn
<1> QED BY <1>14, <1>15

LEMMA ReadAnswerKeeps ==
  ASSUME EndpointInv, NEW t \in RTurns, NEW body \in Bodies, ReadAnswer(t, body)
  PROVE  EndpointInv' /\ BreakerStep
<1>1. CASE ParseResponse(body) = Contract
  <2>1. RecordFailure(t, "failed")
    BY <1>1 DEF ReadAnswer
  <2> QED BY <2>1, FailureKeeps
<1>2. CASE ParseResponse(body) # Contract
  <2> DEFINE s == [turns[t] EXCEPT !.pc = "read", !.body = body]
  <2>1. /\ turns[t].pc = "post"
        /\ breaker' = [failures |-> 0, open |-> FALSE]
        /\ turns' = [turns EXCEPT ![t].pc = "read", ![t].body = body]
    BY <1>2 DEF ReadAnswer
  <2>2. turns \in [RTurns -> Turn] /\ breaker \in Breaker
    BY TurnTypes DEF EndpointInv
  <2>3. s \in Turn /\ s.pc = "read" /\ s.body = body
    BY <2>2 DEF Turn, TurnSteps
  <2>4. turns' = [turns EXCEPT ![t] = s]
    BY <2>1, <2>2
  <2> HIDE DEF s
  <2>5. /\ turns' \in [RTurns -> Turn] /\ turns'[t] = s
        /\ \A u \in RTurns : u # t => turns'[u] = turns[u]
    BY <2>2, <2>3, <2>4
  <2>6. breaker' \in Breaker /\ ~breaker'.open
    <3>1. 0 \in 0..Threshold
      BY RemoteModelAssumption
    <3> QED BY <2>1, <3>1 DEF Breaker
  <2>7. RemoteTypeOK' /\ PostsAreLate'
    BY <2>5, <2>6 DEF RemoteTypeOK, Turn, Breaker, PostsAreLate
  <2>8. TurnFits(s)
    BY <1>2, <2>3 DEF TurnFits, SafeTurn
  <2>9. \A u \in RTurns : TurnFits(turns'[u])
    BY <2>5, <2>8, EndpointInvByTurn
  <2>10. EndpointInv'
    BY <2>7, <2>9
       DEF EndpointInv, SpokenTurnIsSafe, ReadFits, TurnFits, SafeTurn
  <2>11. breaker.open => turns[t].late
    BY <2>1 DEF EndpointInv, PostsAreLate
  <2>12. BreakerStep
    BY <2>3, <2>5, <2>11 DEF BreakerStep
  <2> QED BY <2>10, <2>12
<1> QED BY <1>1, <1>2

LEMMA ReopenKeeps ==
  ASSUME EndpointInv, ReopenBreaker
  PROVE  EndpointInv' /\ BreakerStep
<1>1. /\ breaker' = [breaker EXCEPT !.open = FALSE]
      /\ turns' = [t \in RTurns |-> [turns[t] EXCEPT !.late = FALSE]]
  BY DEF ReopenBreaker
<1>2. turns \in [RTurns -> Turn] /\ breaker \in Breaker
  BY TurnTypes DEF EndpointInv
<1>3. /\ breaker' \in Breaker /\ ~breaker'.open
      /\ breaker'.failures = breaker.failures
  BY <1>1, <1>2 DEF Breaker
<1>4. /\ turns' \in [RTurns -> Turn]
      /\ \A u \in RTurns :
           /\ turns'[u].pc = turns[u].pc /\ turns'[u].body = turns[u].body
           /\ turns'[u].said = turns[u].said
  BY <1>1, <1>2 DEF Turn
<1>5. RemoteTypeOK' /\ PostsAreLate'
  BY <1>3, <1>4 DEF RemoteTypeOK, Turn, Breaker, PostsAreLate
<1>6. \A u \in RTurns : TurnFits(turns[u])
  BY EndpointInvByTurn
<1>7. \A u \in RTurns : TurnFits(turns'[u])
  BY <1>4, <1>6 DEF TurnFits, SafeTurn
<1>8. EndpointInv'
  BY <1>5, <1>7 DEF EndpointInv, SpokenTurnIsSafe, ReadFits, TurnFits, SafeTurn
<1>9. BreakerStep
  BY <1>3, <1>4 DEF BreakerStep
<1> QED BY <1>8, <1>9

LEMMA EndpointInvInit == RemoteInit => EndpointInv
<1> SUFFICES ASSUME RemoteInit PROVE EndpointInv
  OBVIOUS
<1>1. /\ breaker = [failures |-> 0, open |-> FALSE]
      /\ turns = [t \in RTurns |-> NoTurn]
  BY DEF RemoteInit
<1>2. 0 \in 0..Threshold
  BY RemoteModelAssumption
<1>3. breaker \in Breaker /\ ~breaker.open
  BY <1>1, <1>2 DEF Breaker
<1>4. Silence \in Said
  BY NumbersAreSequences DEF Silence, Said, Actions
<1>5. NoTurn \in Turn /\ NoTurn.pc = "idle"
  BY <1>4 DEF NoTurn, Turn, TurnSteps, Bodies
<1>6. /\ turns \in [RTurns -> Turn]
      /\ \A t \in RTurns : turns[t].pc = "idle"
  BY <1>1, <1>5
<1> QED BY <1>3, <1>6 DEF EndpointInv, RemoteTypeOK, Turn, Breaker, ReadFits,
           PostsAreLate, SpokenTurnIsSafe

LEMMA EndpointInvStep ==
  EndpointInv /\ [RemoteNext]_remoteVars
    => EndpointInv' /\ [BreakerStep]_remoteVars
<1>1. ASSUME EndpointInv, RemoteNext PROVE EndpointInv' /\ BreakerStep
  <2>1. ASSUME NEW t \in RTurns, FailAnswer(t)
        PROVE  RecordFailure(t, "failed")
    BY <2>1 DEF FailAnswer
  <2> QED BY <1>1, <2>1, AskModelKeeps, FailureKeeps, LoseAnswerKeeps,
             ReadAnswerKeeps, SpeakReplyKeeps, SpeakFallbackKeeps,
             NextTurnKeeps, ReopenKeeps DEF RemoteNext
<1>2. ASSUME EndpointInv, UNCHANGED remoteVars PROVE EndpointInv'
  BY <1>2 DEF remoteVars, EndpointInv, RemoteTypeOK, ReadFits, PostsAreLate,
              SpokenTurnIsSafe
<1> QED BY <1>1, <1>2

LEMMA EndpointInvAlways == RemoteSpec => []EndpointInv
<1> QED BY EndpointInvInit, EndpointInvStep, PTL DEF RemoteSpec

\* Whatever the endpoint answers, and in whatever order the turns of several
\* calls end: a call is transferred only to a number of the tenant, it ends or
\* is transferred only for a turn in JSON, and a model that failed says the
\* fallback (guardrail.service.ts, RemoteModelAdapter.ts).
THEOREM SpokenTurnsAreSafe == RemoteSpec => []SpokenTurnIsSafe
<1>1. EndpointInv => SpokenTurnIsSafe
  BY DEF EndpointInv
<1> QED BY EndpointInvAlways, <1>1, PTL

\* An open breaker lets no turn through, and only its time or the success of a
\* turn asked before it opened closes it (generateTurnResponse, recordFailure).
THEOREM BreakerClosesRightly == RemoteSpec => BreakerClosesForACause
<1>1. RemoteSpec => [][BreakerStep]_remoteVars
  BY EndpointInvAlways, EndpointInvStep, PTL DEF RemoteSpec
<1> QED BY <1>1 DEF BreakerStep, BreakerClosesForACause

-----------------------------------------------------------------------------
(* Both side by side, as they are run.                                     *)

LEMMA BothAlways == Spec => [](RowsInv /\ EndpointInv)
<1>1. Init => RowsInv /\ EndpointInv
  BY RowsInvInit, EndpointInvInit DEF Init
<1>2. RowsInv /\ EndpointInv /\ [Next]_mcVars => (RowsInv /\ EndpointInv)'
  <2>1. [Next]_mcVars => [ModelsNext]_modelsVars /\ [RemoteNext]_remoteVars
    BY DEF Next, mcVars
  <2> QED BY <2>1, RowsInvStep, EndpointInvStep
<1> QED BY <1>1, <1>2, PTL DEF Spec

\* The model a call would be given is the one its row says, whatever requests,
\* calls, restarts and answers of the database interleave, but for a request
\* about to forget it, a block of the guardrails, and an answer that was under
\* way when it was forgotten (modelResolver.service.ts).
THEOREM MemoryStaysCurrent == Spec => []MemoryIsCurrent
<1>1. RowsInv /\ EndpointInv => MemoryIsCurrent
  BY DEF RowsInv, Typed, EndpointInv, MemoryIsCurrent, TypeOK
<1> QED BY BothAlways, <1>1, PTL

-----------------------------------------------------------------------------
\* A set of numbers has a least.
LEMMA LeastNumber ==
  ASSUME NEW T, T \subseteq Nat, T # {}
  PROVE  \E n \in T : \A m \in T : n <= m
  <1>1. PICK x \in T : \A y \in T : ~ (<<y, x>> \in OpToRel(<, Nat))
    BY NatLessThanWellFounded, WFMin, Zenon
  <1>2. \A y \in T : ~ (y < x)
    BY <1>1 DEF OpToRel
  <1>3. QED
    BY <1>2

-----------------------------------------------------------------------------
(* Plans: how many agents a tenant may have.                               *)

Counted == {c \in Creations : creations[c].at = "counted"}

\* A creation that has counted had found a place below some limit: those that
\* have, and the agents there are, stay within the bound together.
PlansInv ==
  /\ PlansTypeOK
  /\ agents + Cardinality(Counted) <= MaxAgents + Cardinality(Creations) - 1

\* Creations that have counted are some of the creations.
LEMMA CountedFinite ==
  /\ IsFiniteSet(Counted) /\ Cardinality(Counted) \in Nat
  /\ Cardinality(Creations) \in Nat
  /\ Cardinality(Counted) <= Cardinality(Creations)
  BY PlansAssumption, FS_Subset, FS_CardinalityType DEF Counted

LEMMA PlansInvInit == PlansInit => PlansInv
  <1> SUFFICES ASSUME PlansInit
               PROVE  PlansInv
    OBVIOUS
  <1>1. PlansTypeOK
    BY PlansAssumption, FS_CardinalityType DEF PlansInit, PlansTypeOK, IdleCreation, Overrides
  <1>2. Counted = {}
    BY DEF PlansInit, Counted, IdleCreation
  <1> QED
    BY <1>1, <1>2, FS_EmptySet, CountedFinite, PlansAssumption DEF PlansInv, PlansInit

LEMMA PlansInvStutters == PlansInv /\ UNCHANGED plansVars => PlansInv'
  BY DEF PlansInv, PlansTypeOK, plansVars, Counted

LEMMA PlansInvStays == PlansInv /\ PlansNext => PlansInv'
  <1> SUFFICES ASSUME PlansInv, PlansNext
               PROVE  PlansInv'
    OBVIOUS
  <1> USE PlansAssumption
  <1>1. CASE ChangePlan \/ PutFeatures \/ ShowTenant
    <2>1. UNCHANGED <<agents, creations>>
      BY <1>1 DEF ChangePlan, PutFeatures, ShowTenant
    <2>2. Counted' = Counted
      BY <2>1 DEF Counted
    <2>3. ComputeFeatures(overrides, plan) \subseteq FeatureKeys
      BY DEF ComputeFeatures, FeatureKeys
    <2>4. PlansTypeOK'
      BY <1>1, <2>1, <2>3 DEF ChangePlan, PutFeatures, ShowTenant, PlansInv, PlansTypeOK
    <2> QED
      BY <2>1, <2>2, <2>4 DEF PlansInv
  <1>2. CASE RemoveAgent
    <2>1. Counted' = Counted
      BY <1>2 DEF RemoveAgent, Counted
    <2>2. PlansTypeOK' /\ agents' = agents - 1 /\ agents \in Int
      BY <1>2, CountedFinite DEF RemoveAgent, PlansInv, PlansTypeOK
    <2> QED
      BY <2>1, <2>2, CountedFinite DEF PlansInv
  <1>3. ASSUME NEW c \in Creations, ReadLimit(c)
        PROVE  PlansInv'
    <2>1. Counted' = Counted
      BY <1>3 DEF ReadLimit, Counted, PlansInv, PlansTypeOK, IdleCreation
    <2>2. PlansTypeOK' /\ agents' = agents
      BY <1>3 DEF ReadLimit, PlansInv, PlansTypeOK, Plan
    <2> QED
      BY <2>1, <2>2 DEF PlansInv
  <1>4. ASSUME NEW c \in Creations, CountAgents(c)
        PROVE  PlansInv'
    <2>1. PlansTypeOK' /\ agents' = agents
      BY <1>4 DEF CountAgents, PlansInv, PlansTypeOK, IdleCreation
    <2>2. CASE BelowLimit(c)
      <3>1. agents <= MaxAgents - 1 /\ agents \in Int
        BY <2>2 DEF BelowLimit, PlansInv, PlansTypeOK
      <3>2. Cardinality(Counted') <= Cardinality(Creations) /\ Cardinality(Counted') \in Nat
        <4>1. Counted' \subseteq Creations
          BY DEF Counted
        <4> QED
          BY <4>1, FS_Subset, FS_CardinalityType
      <3> QED
        BY <2>1, <3>1, <3>2, CountedFinite DEF PlansInv
    <2>3. CASE ~BelowLimit(c)
      <3>1. Counted' = Counted
        BY <1>4, <2>3 DEF CountAgents, Counted, PlansInv, PlansTypeOK, IdleCreation
      <3> QED
        BY <2>1, <3>1 DEF PlansInv
    <2> QED
      BY <2>2, <2>3
  <1>5. ASSUME NEW c \in Creations, CreateAgent(c)
        PROVE  PlansInv'
    <2>1. c \in Counted /\ Counted' = Counted \ {c}
      BY <1>5 DEF CreateAgent, Counted, PlansInv, PlansTypeOK, IdleCreation
    <2>2. Cardinality(Counted') = Cardinality(Counted) - 1 /\ Cardinality(Counted) >= 1
      <3>1. Cardinality(Counted) # 0
        BY <2>1, CountedFinite, FS_EmptySet
      <3>2. Cardinality(Counted \ {c}) = Cardinality(Counted) - 1
        BY <2>1, CountedFinite, FS_RemoveElement
      <3> QED
        BY <2>1, <3>1, <3>2, CountedFinite
    <2>3. agents' = agents + 1 /\ agents \in Nat
      BY <1>5, CountedFinite DEF CreateAgent, PlansInv, PlansTypeOK
    <2>4. agents' + Cardinality(Counted') <= MaxAgents + Cardinality(Creations) - 1
      BY <2>2, <2>3, CountedFinite DEF PlansInv
    <2>5. agents' \in 0..(MaxAgents + Cardinality(Creations))
      BY <2>2, <2>3, <2>4, CountedFinite
    <2>6. PlansTypeOK'
      BY <1>5, <2>5 DEF CreateAgent, PlansInv, PlansTypeOK, IdleCreation
    <2> QED
      BY <2>4, <2>6 DEF PlansInv
  <1> QED
    BY <1>1, <1>2, <1>3, <1>4, <1>5 DEF PlansNext

LEMMA PlansInvExplains == PlansInv => PlansTypeOK /\ AgentOverrunIsBounded
  BY CountedFinite, PlansAssumption DEF PlansInv, PlansTypeOK, AgentOverrunIsBounded

-----------------------------------------------------------------------------
(* Deliveries: the notices of the ends of calls.                           *)

Job == [at: Places, made: 0..Attempts, stalls: 0..(MaxStalls + 1), url: Urls \cup {NoUrl}]
DeliveriesTyped ==
  /\ url \in Urls \cup {NoUrl}
  /\ jobs \in [WCalls -> Job] /\ received \in [WCalls -> Nat]
  /\ deadLetters \subseteq WCalls /\ hidden \subseteq WCalls /\ excused \subseteq WCalls

Undone == {"live", "asking", "adding", "waiting", "active", "posting"}

\* A job that goes on has an attempt and a stall left; each receipt took one of
\* them, but for the one that was acknowledged; and a receipt that was taken
\* for a failure is hidden.
NoticeFits(c) ==
  /\ jobs[c].at \in Undone \cup {"done"} =>
       jobs[c].made < Attempts /\ jobs[c].stalls <= MaxStalls
  /\ received[c] <= jobs[c].made + jobs[c].stalls + (IF jobs[c].at = "done" THEN 1 ELSE 0)
  /\ c \notin hidden => received[c] <= IF jobs[c].at = "done" THEN 1 ELSE 0
  /\ jobs[c].at = "done" => received[c] > 0 \/ jobs[c].url = NoUrl
  /\ jobs[c].at = "failed" =>
       c \in deadLetters \cup excused \/ jobs[c].stalls > MaxStalls

DeliveriesInv == DeliveriesTyped /\ \A c \in WCalls : NoticeFits(c)

LEMMA DeliveriesInvInit == DeliveriesInit => DeliveriesInv
  BY DeliveriesAssumption DEF DeliveriesInit, DeliveriesInv, DeliveriesTyped, NoticeFits, Job, Places, Undone

LEMMA DeliveriesInvStutters == DeliveriesInv /\ UNCHANGED deliveryVars => DeliveriesInv'
  BY DEF DeliveriesInv, DeliveriesTyped, NoticeFits, deliveryVars

\* A step of one notice leaves the others as they are.
OneNotice(c) ==
  /\ DeliveriesTyped'
  /\ \A d \in WCalls \ {c} :
       /\ jobs'[d] = jobs[d] /\ received'[d] = received[d]
       /\ (d \in hidden' <=> d \in hidden)
       /\ (d \in deadLetters => d \in deadLetters') /\ (d \in excused => d \in excused')

LEMMA OneNoticeFits ==
  ASSUME DeliveriesInv, NEW c \in WCalls, OneNotice(c), NoticeFits(c)'
  PROVE  DeliveriesInv'
  <1>1. ASSUME NEW d \in WCalls \ {c}
        PROVE  NoticeFits(d)'
    BY <1>1 DEF DeliveriesInv, OneNotice, NoticeFits
  <1> QED
    BY <1>1 DEF DeliveriesInv, OneNotice

\* A step that only moves the job.
LEMMA JobMoves ==
  ASSUME DeliveriesInv, NEW c \in WCalls, NEW to \in Places, OfJobs,
         jobs' = [jobs EXCEPT ![c].at = to],
         jobs[c].at \in Undone, to \in Undone \cup {"skipped", "lost"}
  PROVE  DeliveriesInv'
  <1>1. OneNotice(c)
    BY DEF DeliveriesInv, DeliveriesTyped, OneNotice, OfJobs, Job
  <1>2. NoticeFits(c)'
    BY DEF DeliveriesInv, DeliveriesTyped, NoticeFits, OfJobs, Job, Undone
  <1> QED
    BY <1>1, <1>2, OneNoticeFits

LEMMA ApiNoticeSteps ==
  ASSUME DeliveriesInv, NEW c \in WCalls,
         \/ CallEnded(c) \/ ReadTenant(c) \/ EnqueueWebhook(c) \/ EnqueueFailed(c) \/ TakeJob(c)
  PROVE  DeliveriesInv'
  <1>1. CASE CallEnded(c)
    BY <1>1, JobMoves DEF CallEnded, Move, Undone, Places
  <1>2. CASE ReadTenant(c)
    BY <1>2, JobMoves DEF ReadTenant, Move, Undone, Places
  <1>3. CASE EnqueueWebhook(c)
    BY <1>3, JobMoves DEF EnqueueWebhook, Move, Undone, Places
  <1>4. CASE EnqueueFailed(c)
    BY <1>4, JobMoves DEF EnqueueFailed, Move, Undone, Places
  <1>5. CASE TakeJob(c)
    BY <1>5, JobMoves DEF TakeJob, Move, Undone, Places
  <1> QED
    BY <1>1, <1>2, <1>3, <1>4, <1>5

LEMMA WorkerNoticeSteps ==
  ASSUME DeliveriesInv, NEW c \in WCalls,
         ReadDestination(c) \/ Delivered(c) \/ WriteDeadLetter(c)
  PROVE  DeliveriesInv'
  <1> USE DEF Job, Places, Undone
  <1>1. CASE ReadDestination(c)
    <2>0. /\ jobs[c] \in Job /\ url \in Urls \cup {NoUrl}
          /\ jobs' = [jobs EXCEPT ![c] = [jobs[c] EXCEPT !.at = IF url = NoUrl THEN "done" ELSE "posting",
                                                        !.url = url]]
      BY <1>1 DEF ReadDestination, DeliveriesInv, DeliveriesTyped
    <2>1. OneNotice(c)
      BY <1>1, <2>0 DEF ReadDestination, OfJobs, DeliveriesInv, DeliveriesTyped, OneNotice
    <2>2. NoticeFits(c)'
      BY <1>1 DEF ReadDestination, OfJobs, DeliveriesInv, DeliveriesTyped, NoticeFits
    <2> QED
      BY <2>1, <2>2, OneNoticeFits
  <1>2. CASE Delivered(c)
    <2>1. OneNotice(c)
      BY <1>2 DEF Delivered, Move, DeliveriesInv, DeliveriesTyped, OneNotice
    <2>2. NoticeFits(c)'
      BY <1>2 DEF Delivered, Move, DeliveriesInv, DeliveriesTyped, NoticeFits
    <2> QED
      BY <2>1, <2>2, OneNoticeFits
  <1>3. CASE WriteDeadLetter(c)
    <2>1. OneNotice(c)
      BY <1>3 DEF WriteDeadLetter, Move, DeliveriesInv, DeliveriesTyped, OneNotice
    <2>2. NoticeFits(c)'
      BY <1>3 DEF WriteDeadLetter, Move, DeliveriesInv, DeliveriesTyped, NoticeFits
    <2> QED
      BY <2>1, <2>2, OneNoticeFits
  <1> QED
    BY <1>1, <1>2, <1>3

\* What a failure makes of a job that goes on: one attempt less is left, and
\* without any it is given up on record, never dropped.
LEMMA FailureCounts ==
  ASSUME NEW job \in Job, job.made < Attempts
  PROVE  /\ AfterFailure(job) \in Job
         /\ AfterFailure(job).made = job.made + 1
         /\ AfterFailure(job).stalls = job.stalls
         /\ \/ AfterFailure(job).at = "waiting" /\ job.made + 1 < Attempts
            \/ AfterFailure(job).at = "burying"
  <1> USE DeliveriesAssumption DEF Job
  <1> DEFINE counted == [job EXCEPT !.made = @ + 1]
  <1>1. counted \in Job /\ counted.made = job.made + 1 /\ counted.stalls = job.stalls
    OBVIOUS
  <1>2. counted.made >= Attempts => counted.made = Attempts /\ Exhausted(counted)
    BY <1>1 DEF Exhausted
  <1>3. CASE counted.made < Attempts
    <2>1. AfterFailure(job) = [counted EXCEPT !.at = "waiting"]
      <3>1. counted.made < Attempts /\ ~Exhausted(counted)
        BY <1>1, <1>3 DEF Exhausted
      <3> QED
        BY <3>1, Zenon DEF AfterFailure
    <2> QED
      BY <1>1, <1>3, <2>1 DEF Places
  <1>4. CASE ~(counted.made < Attempts)
    <2>1. AfterFailure(job) = [counted EXCEPT !.at = "burying"]
      <3>1. ~(counted.made < Attempts) /\ Exhausted(counted)
        BY <1>1, <1>2, <1>4
      <3> QED
        BY <3>1, Zenon DEF AfterFailure
    <2> QED
      BY <1>1, <2>1 DEF Places
  <1> QED
    BY <1>3, <1>4

LEMMA FailureSteps ==
  ASSUME DeliveriesInv, NEW c \in WCalls, DeliveryFails(c)
  PROVE  DeliveriesInv'
  <1>1. /\ jobs[c] \in Job /\ jobs[c].made < Attempts /\ NoticeFits(c) /\ received[c] \in Nat
        /\ jobs[c].at \in {"active", "posting"} /\ jobs[c].stalls \in 0..MaxStalls
        /\ jobs[c].made \in Nat
    BY DEF DeliveryFails, DeliveriesInv, DeliveriesTyped, NoticeFits, Undone, Job
  <1>2. /\ jobs'[c] = AfterFailure(jobs[c]) /\ DeliveriesTyped'
        /\ \A d \in WCalls \ {c} : jobs'[d] = jobs[d]
    BY <1>1, FailureCounts DEF DeliveryFails, DeliveriesInv, DeliveriesTyped
  <1>3. OneNotice(c)
    BY <1>2 DEF DeliveryFails, OneNotice, DeliveriesInv, DeliveriesTyped
  <1>4. /\ deadLetters' = deadLetters /\ excused' = excused
        /\ \/ received' = received /\ hidden' = hidden
           \/ received'[c] = received[c] + 1 /\ c \in hidden'
    BY DEF DeliveryFails, DeliveriesInv, DeliveriesTyped
  <1>5. NoticeFits(c)'
    BY <1>1, <1>2, <1>4, FailureCounts, DeliveriesAssumption DEF NoticeFits, Undone
  <1> QED
    BY <1>3, <1>5, OneNoticeFits

LEMMA CrashNoticeSteps ==
  ASSUME DeliveriesInv, CrashApi \/ CrashWorker
  PROVE  DeliveriesInv'
  <1> USE DeliveriesAssumption DEF Job, Places, Undone
  <1>1. CASE CrashApi
    <2>1. DeliveriesTyped'
      BY <1>1 DEF CrashApi, DeliveriesInv, DeliveriesTyped
    <2>2. ASSUME NEW c \in WCalls
          PROVE  NoticeFits(c)'
      BY <1>1, <2>2 DEF CrashApi, DeliveriesInv, DeliveriesTyped, NoticeFits
    <2> QED
      BY <2>1, <2>2 DEF DeliveriesInv
  <1>2. CASE CrashWorker
    <2>1. PICK reached \in SUBSET {c \in WCalls : jobs[c].at = "posting"} :
            /\ received' = [c \in WCalls |-> received[c] + IF c \in reached THEN 1 ELSE 0]
            /\ hidden' = hidden \cup reached
      BY <1>2 DEF CrashWorker
    <2>2. ASSUME NEW c \in WCalls
          PROVE  /\ jobs'[c] \in Job
                 /\ \/ /\ jobs[c].at \in {"active", "posting"}
                       /\ jobs'[c].stalls = jobs[c].stalls + 1
                       /\ jobs'[c].at = "waiting" => jobs'[c].stalls <= MaxStalls
                       /\ jobs'[c].at # "waiting" =>
                            jobs'[c].stalls > MaxStalls /\ jobs'[c].at \in {"burying", "failed"}
                    \/ /\ jobs[c].at = "burying" /\ jobs'[c].at = "failed"
                       /\ jobs'[c].stalls = jobs[c].stalls
                    \/ /\ jobs[c].at \notin {"active", "posting", "burying"} /\ jobs'[c] = jobs[c]
                 /\ jobs'[c].made = jobs[c].made /\ jobs'[c].url = jobs[c].url
      <3>1. /\ jobs[c] \in Job
            /\ jobs[c].at \in {"active", "posting"} => jobs[c].stalls <= MaxStalls
        BY <2>2 DEF DeliveriesInv, DeliveriesTyped, NoticeFits
      <3>2. CASE jobs[c].at \in {"active", "posting"}
        <4>1. jobs'[c] = Stalled(jobs[c])
          BY <1>2, <2>2, <3>2 DEF CrashWorker
        <4> DEFINE again == [jobs[c] EXCEPT !.stalls = @ + 1]
        <4>2. again \in Job /\ again.stalls = jobs[c].stalls + 1 /\ again.made = jobs[c].made
              /\ again.url = jobs[c].url
          BY <3>1, <3>2
        <4>3. jobs'[c] = [again EXCEPT !.at = IF again.stalls <= MaxStalls THEN "waiting"
                                 ELSE IF Exhausted(again) THEN "burying" ELSE "failed"]
          BY <4>1, Zenon DEF Stalled
        <4>4. PICK to \in {"waiting", "burying", "failed"} :
                /\ jobs'[c] = [again EXCEPT !.at = to]
                /\ to = "waiting" <=> again.stalls <= MaxStalls
          BY <4>3
        <4> HIDE DEF again
        <4> QED
          BY <3>2, <4>2, <4>4
      <3>3. CASE jobs[c].at = "burying"
        <4>1. jobs'[c] = [jobs[c] EXCEPT !.at = "failed"]
          BY <1>2, <2>2, <3>3 DEF CrashWorker
        <4> QED
          BY <3>1, <3>3, <4>1
      <3>4. CASE jobs[c].at \notin {"active", "posting", "burying"}
        <4>1. jobs'[c] = jobs[c]
          BY <1>2, <2>2, <3>4 DEF CrashWorker
        <4> QED
          BY <3>1, <3>4, <4>1
      <3> QED
        BY <3>2, <3>3, <3>4
    <2>3. DeliveriesTyped'
      <3>1. jobs' \in [WCalls -> Job]
        <4>1. jobs' = [c \in WCalls |-> jobs'[c]]
          BY <1>2 DEF CrashWorker
        <4> QED
          BY <2>2, <4>1
      <3> QED
        BY <1>2, <2>1, <3>1 DEF CrashWorker, DeliveriesInv, DeliveriesTyped
    <2>4. ASSUME NEW c \in WCalls
          PROVE  NoticeFits(c)'
      <3>1. /\ NoticeFits(c) /\ jobs[c] \in Job /\ received[c] \in Nat
            /\ received'[c] = received[c] + (IF c \in reached THEN 1 ELSE 0)
            /\ c \in hidden' <=> c \in hidden \/ c \in reached
            /\ c \in reached => jobs[c].at = "posting"
        BY <2>1, <2>4 DEF DeliveriesInv, DeliveriesTyped
      <3>2. /\ deadLetters' = deadLetters
            /\ c \in excused => c \in excused'
            /\ jobs[c].at = "burying" => c \in excused'
        BY <1>2, <2>4 DEF CrashWorker
      <3> QED
        BY <2>2, <3>1, <3>2 DEF NoticeFits
    <2> QED
      BY <2>3, <2>4 DEF DeliveriesInv
  <1> QED
    BY <1>1, <1>2

LEMMA DeliveriesInvStays == DeliveriesInv /\ DeliveriesNext => DeliveriesInv'
  <1> SUFFICES ASSUME DeliveriesInv, DeliveriesNext
               PROVE  DeliveriesInv'
    OBVIOUS
  <1>1. ASSUME NEW u \in Urls \cup {NoUrl}, PatchWebhookUrl(u)
        PROVE  DeliveriesInv'
    BY <1>1 DEF PatchWebhookUrl, DeliveriesInv, DeliveriesTyped, NoticeFits
  <1> QED
    BY <1>1, ApiNoticeSteps, WorkerNoticeSteps, FailureSteps, CrashNoticeSteps DEF DeliveriesNext

LEMMA DeliveriesInvExplains == DeliveriesInv => DeliveriesTypeOK /\ DeliveryIsAccountedFor
  <1> SUFFICES ASSUME DeliveriesInv
               PROVE  DeliveriesTypeOK /\ DeliveryIsAccountedFor
    OBVIOUS
  <1>1. ASSUME NEW c \in WCalls
        PROVE  received[c] \in 0..(Attempts + MaxStalls + 1)
    BY <1>1, DeliveriesAssumption DEF DeliveriesInv, DeliveriesTyped, NoticeFits, Job, Undone
  <1>2. DeliveriesTypeOK
    BY <1>1 DEF DeliveriesInv, DeliveriesTyped, DeliveriesTypeOK, Job
  <1>3. DeliveryIsAccountedFor
    BY DEF DeliveriesInv, DeliveriesTyped, NoticeFits, DeliveryIsAccountedFor
  <1> QED
    BY <1>2, <1>3

-----------------------------------------------------------------------------
(* Sessions: who gets in.                                                  *)

\* Who exists has a role, and a second factor only then.
PersonFits(p) == people[p].role \in Roles \/ people[p] \in {NoPerson, Gone}

\* A change of the team under way is one of somebody.
OpFits(o) == \/ teamOps[o] = IdleOp
             \/ /\ teamOps[o].op \in {"remove", "ADMIN", "MEMBER"}
                /\ teamOps[o].target \in Users

\* A verification under way is of a login.
VerifyFits(v) == \/ verifies[v] = IdleVerify
                 \/ verifies[v].pc \in {"code", "redeem"} /\ verifies[v].login \in Logins

\* Without an overlap a login has one verification at most, and none of its
\* own once it gave a session: then its pending session is gone as well.
LoginFits(l) ==
  /\ logins[l].pending \/ Redeeming(l) # {} => logins[l].of \in People
  /\ ~logins[l].overlapped =>
       /\ \A v, w \in Redeeming(l) : v = w
       /\ logins[l].issued <= 1
       /\ logins[l].issued = 1 => ~logins[l].pending /\ Redeeming(l) = {}

PeopleInv == /\ \A p \in People : PersonFits(p)
             /\ \A o \in TeamOps : OpFits(o)
RedeemInv == /\ \A v \in Verifies : VerifyFits(v)
             /\ \A l \in Logins : LoginFits(l)
SessionsInv == SessionsTypeOK /\ PeopleInv /\ RedeemInv

LEMMA SessionsInvInit == SessionsInit => SessionsInv
  <1> SUFFICES ASSUME SessionsInit
               PROVE  SessionsInv
    OBVIOUS
  <1>1. SessionsTypeOK
    BY SessionsAssumption DEF SessionsInit, SessionsTypeOK, TenantStatus, NoPerson, NewLogin, Login,
       IdleVerify, Verify, IdleOp, None, Roles, TenantRoles, People
  <1>2. PeopleInv
    BY DEF SessionsInit, PeopleInv, PersonFits, OpFits, NoPerson, Roles, TenantRoles
  <1>3. ASSUME NEW l \in Logins
        PROVE  logins[l] = NewLogin /\ Redeeming(l) = {}
    BY <1>3, SessionsAssumption DEF SessionsInit, Redeeming, IdleVerify, None
  <1>4. RedeemInv
    BY <1>3 DEF SessionsInit, RedeemInv, VerifyFits, LoginFits, NewLogin
  <1> QED
    BY <1>1, <1>2, <1>4 DEF SessionsInv

LEMMA RedeemInvKept ==
  ASSUME RedeemInv, UNCHANGED loginVars
  PROVE  RedeemInv'
  BY DEF RedeemInv, VerifyFits, LoginFits, Redeeming, loginVars

LEMMA SessionsInvStutters == SessionsInv /\ UNCHANGED sessionsVars => SessionsInv'
  <1> SUFFICES ASSUME SessionsInv, UNCHANGED sessionsVars
               PROVE  SessionsInv'
    OBVIOUS
  <1>1. UNCHANGED <<personVars, loginVars, tokens, teamOps, streams>>
    BY DEF sessionsVars
  <1>2. SessionsTypeOK' /\ PeopleInv'
    BY <1>1 DEF SessionsInv, personVars, loginVars, SessionsTypeOK, PeopleInv, PersonFits, OpFits
  <1> QED
    BY <1>1, <1>2, RedeemInvKept DEF SessionsInv

\* Who exists has a role a token may carry.
LEMMA RoleOfPerson ==
  ASSUME SessionsInv, NEW p \in People, Exists(p)
  PROVE  people[p].role \in Roles
  BY DEF SessionsInv, PeopleInv, PersonFits, Exists

LEMMA IssueTyped ==
  ASSUME SessionsInv, NEW p \in People, Exists(p), Issue(p)
  PROVE  tokens' \in [People -> SUBSET Roles]
  BY RoleOfPerson DEF Issue, SessionsInv, SessionsTypeOK

-----------------------------------------------------------------------------
(* Steps that are no part of a login.                                      *)

LEMMA TokenSteps ==
  ASSUME SessionsInv, NEW p \in People,
         TokenExpires(p) \/ OpenStream(p) \/ CloseStream(p) \/ SetupSecondFactor(p) \/ SetupExpires(p)
  PROVE  SessionsInv'
  <1>1. UNCHANGED <<tenantStatus, people, loginVars, teamOps>>
    BY DEF TokenExpires, OpenStream, CloseStream, SetupSecondFactor, SetupExpires, personVars
  <1>2. /\ tokens' \in [People -> SUBSET Roles] /\ streams' \subseteq Users
    BY DEF TokenExpires, OpenStream, CloseStream, SetupSecondFactor, SetupExpires, SessionsInv,
       SessionsTypeOK, VerifyTenant
  <1>3. setups' \in [People -> 0..MaxSecret]
    <2>1. CASE SetupSecondFactor(p)
      <3>1. setups[p] \in 0..MaxSecret /\ people[p].secret \in 0..MaxSecret
        BY DEF SessionsInv, SessionsTypeOK
      <3>2. (IF setups[p] > people[p].secret THEN setups[p] + 1 ELSE people[p].secret + 1) \in 0..MaxSecret
        BY <2>1, <3>1, SessionsAssumption DEF SetupSecondFactor
      <3> QED
        BY <2>1, <3>2 DEF SetupSecondFactor, SessionsInv, SessionsTypeOK
    <2>2. CASE ~SetupSecondFactor(p)
      BY <2>2, SessionsAssumption DEF TokenExpires, OpenStream, CloseStream, SetupExpires, personVars,
         SessionsInv, SessionsTypeOK
    <2> QED
      BY <2>1, <2>2
  <1>4. SessionsTypeOK' /\ PeopleInv'
    BY <1>1, <1>2, <1>3 DEF SessionsInv, SessionsTypeOK, loginVars, PeopleInv, PersonFits, OpFits
  <1> QED
    BY <1>1, <1>4, RedeemInvKept DEF SessionsInv

\* A step that writes one row of a person.
LEMMA PersonWritten ==
  ASSUME SessionsInv, NEW p \in People,
         NEW person \in [role: Roles \cup {None, "gone"}, secret: 0..MaxSecret],
         person.role \in Roles \/ person \in {NoPerson, Gone},
         people' = [people EXCEPT ![p] = person],
         setups' \in [People -> 0..MaxSecret],
         UNCHANGED <<tenantStatus, loginVars, tokens, streams>>,
         teamOps' = teamOps \/ \E o \in TeamOps : teamOps' = [teamOps EXCEPT ![o] = IdleOp]
  PROVE  SessionsInv'
  <1>1. teamOps' \in [TeamOps -> [op: {None, "remove"} \cup TenantRoles, target: Users \cup {None}]]
    BY DEF SessionsInv, SessionsTypeOK, IdleOp
  <1>2. people' \in [People -> [role: Roles \cup {None, "gone"}, secret: 0..MaxSecret]]
    BY DEF SessionsInv, SessionsTypeOK
  <1>3. SessionsTypeOK'
    BY <1>1, <1>2 DEF SessionsInv, SessionsTypeOK, loginVars
  <1>4. ASSUME NEW q \in People
        PROVE  PersonFits(q)'
    BY <1>4 DEF SessionsInv, SessionsTypeOK, PeopleInv, PersonFits
  <1>5. ASSUME NEW o \in TeamOps
        PROVE  OpFits(o)'
    BY <1>5 DEF SessionsInv, SessionsTypeOK, PeopleInv, OpFits
  <1> QED
    BY <1>3, <1>4, <1>5, RedeemInvKept DEF SessionsInv, PeopleInv

LEMMA PersonSteps ==
  ASSUME SessionsInv, NEW p \in People,
         ConfirmSecondFactor(p) \/ RegisterAdmin(p) \/ Invite(p) \/ CreateUser(p)
  PROVE  SessionsInv'
  <1>0. /\ people \in [People -> [role: Roles \cup {None, "gone"}, secret: 0..MaxSecret]]
        /\ setups \in [People -> 0..MaxSecret]
    BY DEF SessionsInv, SessionsTypeOK
  <1>1. CASE ConfirmSecondFactor(p)
    <2>1. people' = [people EXCEPT ![p] = [people[p] EXCEPT !.secret = setups[p]]]
      BY <1>0, <1>1 DEF ConfirmSecondFactor
    <2>2. people[p].role \in Roles
      BY <1>1, RoleOfPerson DEF ConfirmSecondFactor
    <2>3. setups' \in [People -> 0..MaxSecret]
      BY <1>0, <1>1, SessionsAssumption DEF ConfirmSecondFactor
    <2>4. /\ [people[p] EXCEPT !.secret = setups[p]] \in [role: Roles \cup {None, "gone"}, secret: 0..MaxSecret]
          /\ [people[p] EXCEPT !.secret = setups[p]].role \in Roles
      BY <1>0, <2>2
    <2>5. UNCHANGED <<tenantStatus, loginVars, tokens, teamOps, streams>>
      BY <1>1 DEF ConfirmSecondFactor
    <2> QED
      BY <2>1, <2>3, <2>4, <2>5, PersonWritten
  <1>2. CASE RegisterAdmin(p) \/ Invite(p) \/ CreateUser(p)
    <2>1. PICK role \in Roles : people' = [people EXCEPT ![p] = [NoPerson EXCEPT !.role = role]]
      BY <1>2 DEF RegisterAdmin, Invite, CreateUser, Add, Roles, AdminRoles, TenantRoles
    <2>2. /\ [NoPerson EXCEPT !.role = role] \in [role: Roles \cup {None, "gone"}, secret: 0..MaxSecret]
          /\ [NoPerson EXCEPT !.role = role].role \in Roles
      BY SessionsAssumption DEF NoPerson
    <2>3. UNCHANGED <<tenantStatus, setups, loginVars, tokens, teamOps, streams>>
      BY <1>2 DEF RegisterAdmin, Invite, CreateUser
    <2> QED
      BY <1>0, <2>1, <2>2, <2>3, PersonWritten
  <1> QED
    BY <1>1, <1>2

LEMMA TeamSteps ==
  ASSUME SessionsInv, NEW o \in TeamOps,
         WriteTeamChange(o) \/ \E by, p \in Users : AskTeamChange(o, by, p)
  PROVE  SessionsInv'
  <1>0. /\ people \in [People -> [role: Roles \cup {None, "gone"}, secret: 0..MaxSecret]]
        /\ setups \in [People -> 0..MaxSecret] /\ OpFits(o)
        /\ teamOps \in [TeamOps -> [op: {None, "remove"} \cup TenantRoles, target: Users \cup {None}]]
    BY DEF SessionsInv, SessionsTypeOK, PeopleInv
  <1>1. CASE WriteTeamChange(o)
    <2> DEFINE p == teamOps[o].target
    <2>1. /\ p \in People /\ teamOps[o].op \in {"remove", "ADMIN", "MEMBER"}
          /\ teamOps' = [teamOps EXCEPT ![o] = IdleOp]
          /\ UNCHANGED <<tenantStatus, setups, loginVars, tokens, streams>>
      BY <1>0, <1>1 DEF WriteTeamChange, OpFits, People
    <2>2. CASE ~Exists(p)
      <3>1. people' = [people EXCEPT ![p] = people[p]]
        BY <1>0, <1>1, <2>2 DEF WriteTeamChange
      <3>2. people[p].role \in Roles \/ people[p] \in {NoPerson, Gone}
        BY <2>1 DEF SessionsInv, PeopleInv, PersonFits
      <3> QED
        BY <1>0, <2>1, <3>1, <3>2, PersonWritten
    <2>3. CASE Exists(p) /\ teamOps[o].op = "remove"
      <3>1. people' = [people EXCEPT ![p] = Gone]
        BY <1>1, <2>3 DEF WriteTeamChange
      <3>2. Gone \in [role: Roles \cup {None, "gone"}, secret: 0..MaxSecret]
        BY SessionsAssumption DEF Gone
      <3> QED
        BY <1>0, <2>1, <3>1, <3>2, PersonWritten
    <2>4. CASE Exists(p) /\ teamOps[o].op # "remove"
      <3>1. people' = [people EXCEPT ![p] = [people[p] EXCEPT !.role = teamOps[o].op]]
        BY <1>0, <1>1, <2>4 DEF WriteTeamChange
      <3>2. /\ [people[p] EXCEPT !.role = teamOps[o].op] \in [role: Roles \cup {None, "gone"}, secret: 0..MaxSecret]
            /\ [people[p] EXCEPT !.role = teamOps[o].op].role \in Roles
        BY <1>0, <2>1, <2>4 DEF Roles, TenantRoles
      <3> QED
        BY <1>0, <2>1, <3>1, <3>2, PersonWritten
    <2> QED
      BY <2>2, <2>3, <2>4
  <1>2. ASSUME NEW by \in Users, NEW p \in Users, AskTeamChange(o, by, p)
        PROVE  SessionsInv'
    <2>1. PICK op \in {"remove", "ADMIN", "MEMBER"} :
            teamOps' = [teamOps EXCEPT ![o] = [op |-> op, target |-> p]]
      BY <1>2 DEF AskTeamChange
    <2>2. UNCHANGED <<personVars, loginVars, tokens, streams>>
      BY <1>2 DEF AskTeamChange
    <2>3. teamOps' \in [TeamOps -> [op: {None, "remove"} \cup TenantRoles, target: Users \cup {None}]]
      BY <1>0, <2>1 DEF TenantRoles
    <2>4. ASSUME NEW q \in TeamOps
          PROVE  OpFits(q)'
      BY <1>0, <2>1, <2>4 DEF SessionsInv, PeopleInv, OpFits
    <2>5. SessionsTypeOK' /\ PeopleInv'
      BY <2>2, <2>3, <2>4 DEF SessionsInv, SessionsTypeOK, personVars, loginVars, PeopleInv, PersonFits
    <2> QED
      BY <2>2, <2>5, RedeemInvKept DEF SessionsInv
  <1> QED
    BY <1>1, <1>2

LEMMA TenantStatusSteps ==
  ASSUME SessionsInv, Suspend \/ Reactivate
  PROVE  SessionsInv'
  <1>1. UNCHANGED <<people, setups, loginVars, tokens, teamOps, streams>> /\ tenantStatus' \in TenantStatus
    BY DEF Suspend, Reactivate, TenantStatus
  <1>2. SessionsTypeOK' /\ PeopleInv'
    BY <1>1 DEF SessionsInv, SessionsTypeOK, loginVars, PeopleInv, PersonFits, OpFits
  <1> QED
    BY <1>1, <1>2, RedeemInvKept DEF SessionsInv

-----------------------------------------------------------------------------
(* Steps of a login.                                                       *)

\* Of the login l only; the others are redeemed as before.
OneLogin(l) ==
  /\ UNCHANGED <<personVars, teamOps, streams>>
  /\ logins' \in [Logins -> Login] /\ verifies' \in [Verifies -> Verify]
  /\ tokens' \in [People -> SUBSET Roles]
  /\ \A v \in Verifies : VerifyFits(v)'
  /\ \A m \in Logins \ {l} : logins'[m] = logins[m] /\ Redeeming(m)' = Redeeming(m)

LEMMA OneLoginFits ==
  ASSUME SessionsInv, NEW l \in Logins, OneLogin(l), LoginFits(l)'
  PROVE  SessionsInv'
  <1>1. SessionsTypeOK' /\ PeopleInv'
    BY DEF SessionsInv, SessionsTypeOK, OneLogin, personVars, PeopleInv, PersonFits, OpFits
  <1>2. ASSUME NEW m \in Logins \ {l}
        PROVE  LoginFits(m)'
    <2>1. LoginFits(m) /\ logins'[m] = logins[m] /\ Redeeming(m)' = Redeeming(m)
      BY <1>2 DEF OneLogin, SessionsInv, RedeemInv
    <2> QED
      BY <2>1 DEF LoginFits
  <1> QED
    BY <1>1, <1>2 DEF SessionsInv, RedeemInv, OneLogin

LEMMA LoginSteps ==
  ASSUME SessionsInv, NEW l \in Logins,
         PendingExpires(l) \/ \E p \in People : LoginWithPassword(l, p) \/ LoginPending(l, p)
  PROVE  SessionsInv'
  <1>0. /\ logins \in [Logins -> Login] /\ verifies \in [Verifies -> Verify]
        /\ tokens \in [People -> SUBSET Roles]
        /\ LoginFits(l) /\ \A v \in Verifies : VerifyFits(v)
    BY DEF SessionsInv, SessionsTypeOK, RedeemInv
  <1>1. verifies' = verifies /\ \A m \in Logins : Redeeming(m)' = Redeeming(m)
    BY DEF PendingExpires, LoginWithPassword, LoginPending, Redeeming
  <1>2. \A v \in Verifies : VerifyFits(v)'
    BY <1>0, <1>1 DEF VerifyFits
  <1>3. CASE PendingExpires(l)
    <2>1. OneLogin(l)
      BY <1>0, <1>1, <1>2, <1>3 DEF PendingExpires, OneLogin, Login
    <2>2. LoginFits(l)'
      BY <1>0, <1>1, <1>3 DEF PendingExpires, LoginFits, Login
    <2> QED
      BY <2>1, <2>2, OneLoginFits
  <1>4. ASSUME NEW p \in People, LoginWithPassword(l, p) \/ LoginPending(l, p)
        PROVE  SessionsInv'
    <2>1. /\ logins[l] = NewLogin /\ Redeeming(l) = {} /\ Exists(p)
      <3>1. logins[l] = NewLogin /\ Exists(p)
        BY <1>4 DEF LoginWithPassword, LoginPending, MayLogin
      <3>2. logins[l].of \notin People
        BY <3>1, SessionsAssumption DEF NewLogin, People, None
      <3> QED
        BY <1>0, <3>1, <3>2 DEF LoginFits
    <2>2. tokens' \in [People -> SUBSET Roles]
      BY <1>0, <1>4, <2>1, IssueTyped DEF LoginWithPassword, LoginPending
    <2>3. \/ logins' = [logins EXCEPT ![l] = [NewLogin EXCEPT !.of = p, !.issued = 1]]
          \/ logins' = [logins EXCEPT ![l] = [NewLogin EXCEPT !.of = p, !.pending = TRUE]]
      BY <1>0, <1>4, <2>1 DEF LoginWithPassword, LoginPending, NewLogin, Login
    <2>4. OneLogin(l)
      BY <1>0, <1>1, <1>2, <1>4, <2>2, <2>3 DEF OneLogin, LoginWithPassword, LoginPending, NewLogin, Login
    <2>5. LoginFits(l)'
      <3>1. logins'[l].of = p /\ logins'[l].issued \in {0, 1}
            /\ (logins'[l].issued = 1 => ~logins'[l].pending)
        <4>1. \/ logins'[l] = [NewLogin EXCEPT !.of = p, !.issued = 1]
              \/ logins'[l] = [NewLogin EXCEPT !.of = p, !.pending = TRUE]
          BY <1>0, <2>3
        <4>2. CASE logins'[l] = [NewLogin EXCEPT !.of = p, !.issued = 1]
          BY <4>2 DEF NewLogin
        <4>3. CASE logins'[l] = [NewLogin EXCEPT !.of = p, !.pending = TRUE]
          BY <4>3 DEF NewLogin
        <4> QED
          BY <4>1, <4>2, <4>3
      <3>2. Redeeming(l)' = {}
        BY <1>1, <2>1
      <3> QED
        BY <3>1, <3>2 DEF LoginFits
    <2> QED
      BY <2>4, <2>5, OneLoginFits
  <1> QED
    BY <1>3, <1>4

LEMMA VerifySteps ==
  ASSUME SessionsInv, NEW v \in Verifies,
         \/ VerifyCode(v) \/ VerifyRedeem(v)
         \/ \E l \in Logins : VerifyStart(v, l)
  PROVE  SessionsInv'
  <1>0. /\ logins \in [Logins -> Login] /\ verifies \in [Verifies -> Verify]
        /\ tokens \in [People -> SUBSET Roles]
        /\ \A l \in Logins : LoginFits(l)
        /\ \A w \in Verifies : VerifyFits(w)
    BY DEF SessionsInv, SessionsTypeOK, RedeemInv
  <1>1. ASSUME NEW l \in Logins, VerifyStart(v, l)
        PROVE  SessionsInv'
    <2>1. /\ verifies' = [verifies EXCEPT ![v] = [pc |-> "code", login |-> l]]
          /\ verifies[v] = IdleVerify /\ logins[l].pending
          /\ logins' = [logins EXCEPT ![l] =
               [logins[l] EXCEPT !.overlapped = logins[l].overlapped \/ Redeeming(l) # {}]]
          /\ UNCHANGED <<personVars, tokens, teamOps, streams>>
      BY <1>0, <1>1 DEF VerifyStart
    <2>2. /\ Redeeming(l)' = Redeeming(l) \cup {v}
          /\ \A m \in Logins \ {l} : Redeeming(m)' = Redeeming(m)
      BY <1>0, <2>1, SessionsAssumption DEF Redeeming, IdleVerify, None
    <2>3. \A w \in Verifies : VerifyFits(w)'
      BY <1>0, <2>1 DEF VerifyFits
    <2>4. logins' \in [Logins -> Login] /\ verifies' \in [Verifies -> Verify]
      BY <1>0, <2>1 DEF Login, Verify
    <2>5. OneLogin(l)
      BY <1>0, <2>1, <2>2, <2>3, <2>4 DEF OneLogin
    <2>6. LoginFits(l)'
      <3>1. LoginFits(l) /\ logins[l] \in Login
        BY <1>0
      <3>2. /\ logins'[l].pending /\ logins'[l].of = logins[l].of /\ logins'[l].issued = logins[l].issued
            /\ logins'[l].overlapped <=> logins[l].overlapped \/ Redeeming(l) # {}
        BY <1>0, <2>1 DEF Login
      <3> QED
        BY <2>1, <2>2, <3>1, <3>2 DEF LoginFits, Login
    <2> QED
      BY <2>5, <2>6, OneLoginFits
  <1>2. CASE VerifyCode(v) \/ VerifyRedeem(v)
    <2>0. PICK l \in Logins : verifies[v].login = l
      <3>1. verifies[v] # IdleVerify
        BY <1>2 DEF VerifyCode, VerifyRedeem, IdleVerify
      <3> QED
        BY <1>0, <3>1 DEF VerifyFits
    <2>1. v \in Redeeming(l) /\ logins[l].of \in People /\ LoginFits(l) /\ logins[l] \in Login
      <3>2. v \in Redeeming(l)
        BY <2>0 DEF Redeeming
      <3>3. LoginFits(l) /\ Redeeming(l) # {}
        BY <1>0, <3>2
      <3>4. logins[l].of \in People
        BY <3>3, Zenon DEF LoginFits
      <3> QED
        BY <1>0, <3>2, <3>3, <3>4
    <2>2. CASE VerifyCode(v)
      <3>1. \/ verifies' = [verifies EXCEPT ![v] = [verifies[v] EXCEPT !.pc = "redeem"]]
            \/ verifies' = [verifies EXCEPT ![v] = IdleVerify]
        BY <1>0, <2>0, <2>2 DEF VerifyCode
      <3>2. UNCHANGED <<personVars, logins, tokens, teamOps, streams>>
        BY <2>2 DEF VerifyCode
      <3>3. /\ \A m \in Logins \ {l} : Redeeming(m)' = Redeeming(m)
            /\ Redeeming(l)' \subseteq Redeeming(l)
        BY <1>0, <2>0, <2>1, <3>1, SessionsAssumption DEF Redeeming, IdleVerify, None, Verify
      <3>4. verifies' \in [Verifies -> Verify] /\ \A w \in Verifies : VerifyFits(w)'
        BY <1>0, <2>0, <2>1, <3>1 DEF Verify, VerifyFits, IdleVerify, None
      <3>5. OneLogin(l)
        BY <1>0, <3>2, <3>3, <3>4 DEF OneLogin
      <3>6. LoginFits(l)'
        BY <2>1, <3>2, <3>3 DEF LoginFits
      <3> QED
        BY <2>1, <3>5, <3>6, OneLoginFits
    <2>3. CASE VerifyRedeem(v)
      <3> DEFINE p == logins[l].of
      <3>1. /\ verifies' = [verifies EXCEPT ![v] = IdleVerify]
            /\ UNCHANGED <<personVars, teamOps, streams>>
        BY <2>3 DEF VerifyRedeem
      <3>2. /\ tokens' \in [People -> SUBSET Roles]
            /\ \/ logins' = [logins EXCEPT ![l] = [logins[l] EXCEPT !.pending = FALSE, !.issued = logins[l].issued + 1]]
               \/ logins' = [logins EXCEPT ![l] = [logins[l] EXCEPT !.pending = FALSE]]
        <4>1. CASE Exists(p)
          <5>1. Issue(p) /\ logins' = [logins EXCEPT ![l].pending = FALSE, ![l].issued = @ + 1]
            BY <2>0, <2>3, <4>1 DEF VerifyRedeem, PendingAfter
          <5> QED
            BY <1>0, <2>1, <4>1, <5>1, IssueTyped
        <4>2. CASE ~Exists(p)
          BY <1>0, <2>0, <2>1, <2>3, <4>2 DEF VerifyRedeem, PendingAfter
        <4> QED
          BY <4>1, <4>2
      <3>3. /\ \A m \in Logins \ {l} : Redeeming(m)' = Redeeming(m)
            /\ Redeeming(l)' = Redeeming(l) \ {v}
        BY <1>0, <2>0, <2>1, <3>1, SessionsAssumption DEF Redeeming, IdleVerify, None, Verify
      <3>4. verifies' \in [Verifies -> Verify] /\ \A w \in Verifies : VerifyFits(w)'
        BY <1>0, <2>0, <2>1, <3>1 DEF Verify, VerifyFits, IdleVerify, None
      <3>5. logins' \in [Logins -> Login]
        <4>1. /\ [logins[l] EXCEPT !.pending = FALSE, !.issued = logins[l].issued + 1] \in Login
              /\ [logins[l] EXCEPT !.pending = FALSE] \in Login
          <5>1. [logins[l] EXCEPT !.pending = FALSE] \in Login
            BY <2>1 DEF Login
          <5>2. logins[l].issued + 1 \in Nat
            BY <2>1 DEF Login
          <5>3. ASSUME NEW r \in Login, NEW n \in Nat
                PROVE  [r EXCEPT !.issued = n] \in Login
            BY DEF Login
          <5> QED
            BY <5>1, <5>2, <5>3, Zenon
        <4> QED
          BY <1>0, <3>2, <4>1
      <3>6. OneLogin(l)
        BY <1>0, <3>1, <3>2, <3>3, <3>4, <3>5 DEF OneLogin
      <3>7. LoginFits(l)'
        <4>1. /\ logins'[l].of = logins[l].of /\ ~logins'[l].pending
              /\ logins'[l].overlapped = logins[l].overlapped
              /\ logins'[l].issued \in {logins[l].issued, logins[l].issued + 1}
          BY <1>0, <2>1, <3>2 DEF Login
        <4> QED
          BY <2>1, <3>3, <4>1 DEF LoginFits, Login
      <3> QED
        BY <2>1, <3>6, <3>7, OneLoginFits
    <2> QED
      BY <1>2, <2>2, <2>3
  <1> QED
    BY <1>1, <1>2

LEMMA SessionsInvStays == SessionsInv /\ SessionsNext => SessionsInv'
  BY TokenSteps, PersonSteps, TeamSteps, TenantStatusSteps, LoginSteps, VerifySteps DEF SessionsNext

LEMMA SessionsInvExplains == SessionsInv => SessionsTypeOK /\ PendingIsRedeemedOnce
  BY DEF SessionsInv, SessionsTypeOK, Login, RedeemInv, LoginFits, PendingIsRedeemedOnce

-----------------------------------------------------------------------------
(* Contacts: a number is one contact.                                      *)

Nationals == {"national"} \X Subscribers

\* What the routes of the CRM stored is a national number; so is what an
\* import keeps for the worker, which gives it its country code only then.
ContactsInv ==
  /\ Stored \subseteq Phones /\ notNational \subseteq Stored /\ taken \subseteq Stored
  /\ Stored \ notNational \subseteq Nationals
  /\ imports \in [Imports -> SUBSET (Nationals \cup {NoPhone})]
  /\ additions \in [Additions -> SUBSET (Phones \cup {NoPhone})]
  /\ \A a \in Additions : additions[a] = NoAddition \/ additions[a] \subseteq Stored

\* National numbers are stored as such or not at all, the other functions
\* always give a number that may be stored.
LEMMA PhoneForms ==
  /\ Nationals \subseteq Phones /\ NoPhone \notin Phones
  /\ \A raw \in Written : /\ NationalPhone(raw) \in Nationals \cup {NoPhone}
                          /\ PublicPhone(raw) \in Phones
  /\ \A p \in Nationals : WorkerPhone(p) \in Phones
  <1>1. Nationals \subseteq Phones /\ NoPhone \notin Phones
    BY DEF Nationals, Phones, NoPhone
  <1>2. ASSUME NEW raw \in Written
        PROVE  NationalPhone(raw) \in Nationals \cup {NoPhone} /\ PublicPhone(raw) \in Phones
    <2>1. \/ raw[1] \in {"national", "cc", "idd"} /\ raw[2] \in Subscribers
          \/ raw[1] = "abroad" /\ raw[2] \in Foreign
      BY <1>2 DEF Written
    <2> QED
      BY <2>1 DEF NationalPhone, CrmPhone, PublicPhone, Angolan, Nationals, Phones
  <1>3. ASSUME NEW p \in Nationals
        PROVE  WorkerPhone(p) \in Phones
    <2>1. p[1] = "national" /\ p[2] \in Subscribers
      BY <1>3 DEF Nationals
    <2> QED
      BY <2>1 DEF WorkerPhone, Angolan, Phones
  <1> QED
    BY <1>1, <1>2, <1>3

LEMMA ContactsInvInit == ContactsInit => ContactsInv
  BY DEF ContactsInit, ContactsInv, Stored, NoImport, NoPhone, NoAddition

LEMMA ContactsInvStutters == ContactsInv /\ UNCHANGED contactVars => ContactsInv'
  BY DEF ContactsInv, contactVars, Stored

\* What an upsert stores, given that what is not national is noted.
LEMMA Upserted ==
  ASSUME ContactsInv, NEW phones \in SUBSET Phones, Upsert(phones),
         notNational' = notNational \/ notNational' = notNational \cup (phones \ Stored),
         notNational' = notNational => phones \subseteq Nationals \cup Stored,
         UNCHANGED <<taken, additions>>,
         imports' \in [Imports -> SUBSET (Nationals \cup {NoPhone})]
  PROVE  ContactsInv'
  <1>1. Stored' = Stored \cup phones
    BY DEF Upsert, Stored
  <1> QED
    BY <1>1 DEF ContactsInv

LEMMA RowSteps ==
  ASSUME ContactsInv, NEW raw \in Written,
         CreateContact(raw) \/ CreatePublicContact(raw)
  PROVE  ContactsInv'
  <1>1. CASE CreateContact(raw)
    <2>1. NationalPhone(raw) \in Nationals
      BY <1>1, PhoneForms DEF CreateContact
    <2>2. /\ Upsert({NationalPhone(raw)}) /\ UNCHANGED <<notNational, taken, additions, imports>>
      BY <1>1 DEF CreateContact, OfRows
    <2> QED
      BY <2>1, <2>2, PhoneForms, Upserted DEF ContactsInv
  <1>2. CASE CreatePublicContact(raw)
    <2>1. /\ Upsert({PublicPhone(raw)}) /\ UNCHANGED <<taken, additions, imports>>
          /\ notNational' = notNational \cup ({PublicPhone(raw)} \ Stored)
          /\ PublicPhone(raw) \in Phones
      BY <1>2, PhoneForms DEF CreatePublicContact, OfRows
    <2>2. notNational' = notNational => {PublicPhone(raw)} \subseteq Nationals \cup Stored
      BY <2>1 DEF ContactsInv
    <2>3. imports' \in [Imports -> SUBSET (Nationals \cup {NoPhone})]
      BY <2>1 DEF ContactsInv
    <2> HIDE DEF Upsert
    <2> QED
      BY <2>1, <2>2, <2>3, Upserted
  <1> QED
    BY <1>1, <1>2

LEMMA PatchSteps ==
  ASSUME ContactsInv, NEW p \in Stored, NEW raw \in Written, PatchContact(p, raw)
  PROVE  ContactsInv'
  <1> DEFINE new == NationalPhone(raw)
  <1>1. new \in Nationals /\ new \in Phones /\ new \notin Stored
    BY PhoneForms DEF PatchContact
  <1>2. Stored' = (Stored \ {p}) \cup {new}
    BY DEF PatchContact, Stored
  <1> HIDE DEF new
  <1>3. /\ taken' = IF p \in taken THEN (taken \ {p}) \cup {new} ELSE taken
        /\ additions' = [a \in Additions |-> IF p \in additions[a]
                           THEN (additions[a] \ {p}) \cup {new} ELSE additions[a]]
        /\ notNational' = notNational \ {p} /\ imports' = imports
    BY DEF PatchContact, new
  <1>4. taken' \subseteq Stored' /\ notNational' \subseteq Stored' /\ Stored' \subseteq Phones
    BY <1>1, <1>2, <1>3 DEF ContactsInv
  <1>5. Stored' \ notNational' \subseteq Nationals
    BY <1>1, <1>2, <1>3 DEF ContactsInv
  <1>6. ASSUME NEW a \in Additions
        PROVE  /\ additions'[a] = NoAddition \/ additions'[a] \subseteq Stored'
               /\ additions'[a] \subseteq Phones \cup {NoPhone}
    <2>1. /\ additions[a] = NoAddition \/ additions[a] \subseteq Stored
          /\ p # NoPhone
      BY <1>6, PhoneForms DEF ContactsInv
    <2> QED
      BY <1>1, <1>2, <1>3, <1>4, <1>6, <2>1 DEF ContactsInv, NoAddition
  <1>7. additions' \in [Additions -> SUBSET (Phones \cup {NoPhone})]
    BY <1>3, <1>6
  <1> QED
    BY <1>3, <1>4, <1>5, <1>6, <1>7 DEF ContactsInv

LEMMA RemoveSteps ==
  ASSUME ContactsInv, NEW p \in Stored, RemoveContact(p) \/ OptOut(p)
  PROVE  ContactsInv'
  <1>1. CASE RemoveContact(p)
    <2>1. /\ Stored' = Stored \ {p} /\ p \notin taken
          /\ notNational' = notNational \ {p}
          /\ additions' = [a \in Additions |-> IF p \in additions[a] THEN additions[a] \ {p} ELSE additions[a]]
          /\ UNCHANGED <<imports, taken>>
      BY <1>1 DEF RemoveContact, Stored
    <2>2. ASSUME NEW a \in Additions
          PROVE  /\ additions'[a] = NoAddition \/ additions'[a] \subseteq Stored'
                 /\ additions'[a] \subseteq Phones \cup {NoPhone}
      BY <2>1, <2>2, PhoneForms DEF ContactsInv, NoAddition
    <2>3. additions' \in [Additions -> SUBSET (Phones \cup {NoPhone})]
      BY <2>1, <2>2
    <2> QED
      BY <2>1, <2>2, <2>3 DEF ContactsInv
  <1>2. CASE OptOut(p)
    <2>1. Stored' = Stored /\ UNCHANGED <<notNational, imports, taken, additions>>
      BY <1>2 DEF OptOut, OfRows, Stored
    <2> QED
      BY <2>1 DEF ContactsInv
  <1> QED
    BY <1>1, <1>2

\* The phones that a file leaves after normalisation.
LEMMA ValidPhones ==
  ASSUME NEW file \in Files
  PROVE  Valid(file) \subseteq Nationals
  <1>1. file \subseteq Written
    BY DEF Files, Written
  <1> QED
    BY <1>1, PhoneForms DEF Valid

LEMMA ImportSteps ==
  ASSUME ContactsInv,
         \E file \in Files : ImportInline(file) \/ \E i \in Imports : ImportQueued(i, file)
  PROVE  ContactsInv'
  <1>1. ASSUME NEW file \in Files, ImportInline(file)
        PROVE  ContactsInv'
    <2>1. PICK left \in SUBSET Valid(file) : Upsert(Valid(file) \ left)
      BY <1>1 DEF ImportInline
    <2>2. Valid(file) \ left \subseteq Nationals
      BY ValidPhones
    <2>3. UNCHANGED <<notNational, taken, additions, imports>>
      BY <1>1 DEF ImportInline
    <2>4. imports' \in [Imports -> SUBSET (Nationals \cup {NoPhone})]
      BY <2>3 DEF ContactsInv
    <2>5. Valid(file) \ left \in SUBSET Phones
      BY <2>2, PhoneForms
    <2>6. Valid(file) \ left \subseteq Nationals \cup Stored
      BY <2>2
    <2> QED
      BY <2>1, <2>3, <2>4, <2>5, <2>6, Upserted, Zenon
  <1>2. ASSUME NEW file \in Files, NEW i \in Imports, ImportQueued(i, file)
        PROVE  ContactsInv'
    <2>1. /\ imports' = [imports EXCEPT ![i] = Valid(file)] /\ Valid(file) \subseteq Nationals
          /\ UNCHANGED <<rows, notNational, taken, additions>>
      BY <1>2, ValidPhones DEF ImportQueued
    <2> QED
      BY <2>1 DEF ContactsInv, Stored
  <1> QED
    BY <1>1, <1>2

LEMMA ImportWorkerSteps ==
  ASSUME ContactsInv, NEW i \in Imports, NEW p \in Phones,
         ImportRow(i, p) \/ ImportAgain(i, p)
  PROVE  ContactsInv'
  <1>1. CASE ImportRow(i, p)
    <2> DEFINE phone == WorkerPhone(p)
               rest == imports[i] \ {p}
    <2>1. /\ p \in Nationals /\ phone \in Phones
          /\ rest \subseteq Nationals \cup {NoPhone} /\ NoImport \subseteq Nationals \cup {NoPhone}
      BY <1>1, PhoneForms DEF ImportRow, ContactsInv, NoImport, NoPhone
    <2>2. /\ \/ Upsert({phone}) /\ notNational' = notNational \cup ({phone} \ Stored)
             \/ UNCHANGED <<rows, notNational>>
          /\ imports' = [imports EXCEPT ![i] = IF rest = {} THEN NoImport ELSE rest]
          /\ UNCHANGED <<taken, additions>>
      BY <1>1 DEF ImportRow
    <2> HIDE DEF phone, rest
    <2>3. imports' \in [Imports -> SUBSET (Nationals \cup {NoPhone})]
      BY <2>1, <2>2 DEF ContactsInv
    <2>4. CASE Upsert({phone}) /\ notNational' = notNational \cup ({phone} \ Stored)
      <3>1. notNational' = notNational => {phone} \subseteq Nationals \cup Stored
        BY <2>4 DEF ContactsInv
      <3> QED
        BY <2>1, <2>2, <2>3, <2>4, <3>1, Upserted
    <2>5. CASE UNCHANGED <<rows, notNational>>
      BY <2>2, <2>3, <2>5 DEF ContactsInv, Stored
    <2> QED
      BY <2>2, <2>4, <2>5
  <1>2. CASE ImportAgain(i, p)
    <2>1. p \in Nationals
      BY <1>2 DEF ImportAgain, Phones, Nationals
    <2>2. UNCHANGED <<rows, notNational, taken, additions>> /\ imports' = [imports EXCEPT ![i] = imports[i] \cup {p}]
      BY <1>2 DEF ImportAgain
    <2> QED
      BY <2>1, <2>2 DEF ContactsInv, Stored
  <1> QED
    BY <1>1, <1>2

LEMMA AdditionSteps ==
  ASSUME ContactsInv, NEW a \in Additions,
         StoreAddition(a) \/ \E p \in Stored : ReadAddition(a, {p})
  PROVE  ContactsInv'
  <1>1. CASE StoreAddition(a)
    <2>1. /\ taken' = taken \cup additions[a] /\ additions[a] \subseteq Stored
          /\ additions' = [additions EXCEPT ![a] = NoAddition]
          /\ UNCHANGED <<rows, notNational, imports>>
      BY <1>1 DEF StoreAddition, ContactsInv
    <2> QED
      BY <2>1 DEF ContactsInv, Stored, NoAddition
  <1>2. ASSUME NEW p \in Stored, ReadAddition(a, {p})
        PROVE  ContactsInv'
    <2>1. PICK found \in SUBSET Stored : additions' = [additions EXCEPT ![a] = found]
      BY <1>2 DEF ReadAddition
    <2>2. UNCHANGED <<rows, notNational, imports, taken>>
      BY <1>2 DEF ReadAddition
    <2> QED
      BY <2>1, <2>2 DEF ContactsInv, Stored
  <1> QED
    BY <1>1, <1>2

LEMMA ContactsInvStays == ContactsInv /\ ContactsNext => ContactsInv'
  <1> SUFFICES ASSUME ContactsInv, ContactsNext
               PROVE  ContactsInv'
    OBVIOUS
  <1>1. CASE StartCampaign
    BY <1>1 DEF StartCampaign, ContactsInv, Stored
  <1>2. ASSUME NEW p \in Stored, DeleteContact(p) \/ DeletePublicContact(p) \/ OptOut(p)
        PROVE  ContactsInv'
    BY <1>2, RemoveSteps DEF DeleteContact, DeletePublicContact
  <1>3. ASSUME NEW a \in Additions, NEW p \in Stored, AddContacts(a, {p}) \/ AddPublicContacts(a, {p})
        PROVE  ContactsInv'
    BY <1>3, AdditionSteps DEF AddContacts, AddPublicContacts
  <1> QED
    BY <1>1, <1>2, <1>3, RowSteps, PatchSteps, ImportSteps, ImportWorkerSteps, AdditionSteps DEF ContactsNext

LEMMA ContactsInvExplains == ContactsInv => ContactsTypeOK /\ SecondContactHasACause
  <1> SUFFICES ASSUME ContactsInv
               PROVE  ContactsTypeOK /\ SecondContactHasACause
    OBVIOUS
  <1>1. ContactsTypeOK
    BY PhoneForms DEF ContactsInv, ContactsTypeOK, NoAddition
  <1>2. ASSUME NEW p \in Stored, NEW q \in Stored, SameNumber(p, q), p # q, {p, q} \cap notNational = {}
        PROVE  FALSE
    BY <1>2 DEF ContactsInv, Nationals, SameNumber
  <1> QED
    BY <1>1, <1>2 DEF SecondContactHasACause

-----------------------------------------------------------------------------
(* The URL of a model: what a connection reaches.                          *)

PlaceOfPost == [at: {"idle", "asked", "connecting", "open"}, url: Endpoints \cup {NoEndpoint},
                to: SUBSET Bytes]

\* A request is sent to a URL that was judged again, and connects only to
\* addresses that were; a socket is of one of those.
AddressInv ==
  /\ endpoint \in Endpoints \cup {NoEndpoint} /\ dns \in [Names -> Answers]
  /\ requests \in [PRequests -> PlaceOfPost]
  /\ \A r \in PRequests :
       /\ requests[r].at = "asked" => AssertSafeEndpointUrl(requests[r].url)
       /\ requests[r].at = "connecting" => \A a \in requests[r].to : ~BlockedAddress(a)
  /\ \A s \in sockets : s.address \in Bytes /\ ~BlockedAddress(s.address)

LEMMA AddressInvInit == EndpointInit => AddressInv
  BY DEF EndpointInit, AddressInv, PlaceOfPost

LEMMA AddressInvStutters == AddressInv /\ UNCHANGED endpointVars => AddressInv'
  BY DEF AddressInv, endpointVars

\* A step that writes one request, and adds at most a socket that was judged.
LEMMA PostWritten ==
  ASSUME AddressInv, NEW r \in PRequests, NEW post \in PlaceOfPost,
         requests' = [requests EXCEPT ![r] = post],
         post.at = "asked" => AssertSafeEndpointUrl(post.url),
         post.at = "connecting" => \A a \in post.to : ~BlockedAddress(a),
         UNCHANGED <<endpoint, dns>>,
         \A s \in sockets' : s \in sockets \/ (s.address \in Bytes /\ ~BlockedAddress(s.address))
  PROVE  AddressInv'
  <1>1. requests' \in [PRequests -> PlaceOfPost]
    BY DEF AddressInv
  <1>2. ASSUME NEW q \in PRequests
        PROVE  /\ requests'[q].at = "asked" => AssertSafeEndpointUrl(requests'[q].url)
               /\ requests'[q].at = "connecting" => \A a \in requests'[q].to : ~BlockedAddress(a)
    <2>1. requests'[q] = IF q = r THEN post ELSE requests[q]
      BY <1>2 DEF AddressInv
    <2> QED
      BY <2>1 DEF AddressInv
  <1> QED
    BY <1>1, <1>2 DEF AddressInv

\* What a lookup lets through was judged, and so is an address in a judged URL.
LEMMA LookupIsSafe ==
  ASSUME NEW answer \in Answers
  PROVE  SafeLookup(answer) \subseteq Bytes /\ \A a \in SafeLookup(answer) : ~BlockedAddress(a)
  BY EndpointAssumption DEF SafeLookup

LEMMA HostIsSafe ==
  ASSUME NEW u \in Endpoints \cup {NoEndpoint}, AssertSafeEndpointUrl(u)
  PROVE  /\ IsAddress(u.host) => u.host[2] \in Bytes /\ ~BlockedAddress(u.host[2])
         /\ ~IsAddress(u.host) => u.host[2] \in Names
  BY EndpointAssumption DEF AssertSafeEndpointUrl, IsAddress, BlockedName

\* A request that moves on keeps its URL.
LEMMA PostMoves ==
  ASSUME AddressInv, NEW r \in PRequests, NEW at \in {"idle", "asked", "connecting", "open"},
         NEW to \in SUBSET Bytes, Set(r, at, to)
  PROVE  \E post \in PlaceOfPost : /\ requests' = [requests EXCEPT ![r] = post]
                                   /\ post.at = at /\ post.to = to /\ post.url = requests[r].url
  <1> DEFINE post == [requests[r] EXCEPT !.at = at, !.to = to]
  <1>1. requests[r] \in PlaceOfPost
    BY DEF AddressInv
  <1>2. post \in PlaceOfPost /\ post.at = at /\ post.to = to /\ post.url = requests[r].url
    BY <1>1 DEF PlaceOfPost
  <1>3. requests' = [requests EXCEPT ![r] = post]
    BY DEF Set, AddressInv
  <1> QED
    BY <1>2, <1>3

LEMMA SocketOpens ==
  ASSUME AddressInv, NEW r \in PRequests, OpenSocket(r)
  PROVE  AddressInv'
  <1> DEFINE host == requests[r].url.host
             kept == {s.address : s \in {k \in sockets : k.host = host}}
  <1>1. /\ requests[r] \in PlaceOfPost /\ requests[r].at = "asked"
        /\ AssertSafeEndpointUrl(requests[r].url) /\ requests[r].url \in Endpoints \cup {NoEndpoint}
        /\ UNCHANGED <<endpoint, dns, sockets>>
    BY DEF OpenSocket, AddressInv, PlaceOfPost
  <1>2. kept \subseteq Bytes
    BY DEF AddressInv
  <1>3. /\ IsAddress(host) => host[2] \in Bytes /\ ~BlockedAddress(host[2])
        /\ ~IsAddress(host) => host[2] \in Names
    BY <1>1, HostIsSafe
  <1>4. PICK post \in PlaceOfPost :
          /\ requests' = [requests EXCEPT ![r] = post] /\ post.at # "asked"
          /\ post.at = "connecting" => \A a \in post.to : ~BlockedAddress(a)
    <2>1. CASE Set(r, "open", kept)
      BY <2>1, <1>1, <1>2, PostMoves
    <2>2. CASE IsAddress(host) /\ Set(r, "connecting", {host[2]})
      BY <2>2, <1>1, <1>3, PostMoves
    <2>3. CASE ~IsAddress(host) /\ Set(r, "connecting", SafeLookup(dns[host[2]]))
      <3>1. dns[host[2]] \in Answers
        BY <2>3, <1>3 DEF AddressInv
      <3>2. SafeLookup(dns[host[2]]) \subseteq Bytes /\ \A a \in SafeLookup(dns[host[2]]) : ~BlockedAddress(a)
        BY <3>1, LookupIsSafe
      <3> QED
        BY <2>3, <3>2, <1>1, PostMoves
    <2>4. CASE EndRequest(r)
      <3>1. [at |-> "idle", url |-> NoEndpoint, to |-> {}] \in PlaceOfPost
        BY DEF PlaceOfPost
      <3> QED
        BY <2>4, <3>1 DEF EndRequest
    <2> QED
      BY <2>1, <2>2, <2>3, <2>4 DEF OpenSocket
  <1> QED
    BY <1>1, <1>4, PostWritten

LEMMA Connects ==
  ASSUME AddressInv, NEW r \in PRequests, NEW a, Connect(r, a)
  PROVE  AddressInv'
  <1>1. /\ requests[r] \in PlaceOfPost /\ requests[r].at = "connecting" /\ a \in requests[r].to
        /\ a \in Bytes /\ ~BlockedAddress(a) /\ UNCHANGED <<endpoint, dns>>
        /\ sockets' = sockets \cup {[host |-> requests[r].url.host, address |-> a]}
    BY DEF Connect, AddressInv, PlaceOfPost
  <1>2. PICK post \in PlaceOfPost : requests' = [requests EXCEPT ![r] = post] /\ post.at = "open"
    BY <1>1, PostMoves DEF Connect
  <1>5. \A s \in sockets' : s \in sockets \/ (s.address \in Bytes /\ ~BlockedAddress(s.address))
    BY <1>1
  <1> QED
    BY <1>1, <1>2, <1>5, PostWritten

LEMMA AddressInvStays == AddressInv /\ EndpointNext => AddressInv'
  <1> SUFFICES ASSUME AddressInv, EndpointNext
               PROVE  AddressInv'
    OBVIOUS
  <1>1. ASSUME NEW u \in Endpoints, SaveEndpoint(u)
        PROVE  AddressInv'
    BY <1>1 DEF SaveEndpoint, AddressInv
  <1>2. ASSUME NEW n \in Names, NEW answer \in Answers, ResolveOtherwise(n, answer)
        PROVE  AddressInv'
    BY <1>2 DEF ResolveOtherwise, AddressInv
  <1>3. ASSUME NEW r \in PRequests, AskEndpoint(r)
        PROVE  AddressInv'
    <2>1. /\ requests[r] \in PlaceOfPost /\ AssertSafeEndpointUrl(endpoint)
          /\ UNCHANGED <<endpoint, dns, sockets>> /\ endpoint \in Endpoints \cup {NoEndpoint}
      BY <1>3 DEF AskEndpoint, AddressInv
    <2> DEFINE post == [requests[r] EXCEPT !.at = "asked", !.url = endpoint]
    <2>2. post \in PlaceOfPost /\ post.at = "asked" /\ post.url = endpoint
      BY <2>1 DEF PlaceOfPost
    <2>3. requests' = [requests EXCEPT ![r] = post]
      BY <1>3 DEF AskEndpoint, AddressInv
    <2> QED
      BY <2>1, <2>2, <2>3, PostWritten
  <1>4. ASSUME NEW r \in PRequests, FinishPost(r)
        PROVE  AddressInv'
    <2>1. [at |-> "idle", url |-> NoEndpoint, to |-> {}] \in PlaceOfPost
      BY DEF PlaceOfPost
    <2> QED
      BY <1>4, <2>1, PostWritten DEF FinishPost, EndRequest
  <1>5. ASSUME NEW s \in sockets, CloseSocket(s)
        PROVE  AddressInv'
    BY <1>5 DEF CloseSocket, AddressInv
  <1> QED
    BY <1>1, <1>2, <1>3, <1>4, <1>5, SocketOpens, Connects DEF EndpointNext

-----------------------------------------------------------------------------
(* What the guard judges: the prefixes it compares cover the ranges.       *)

FourBytes == [1..4 -> 0..255]

LEMMA V4IsFourBytes == ASSUME NEW a \in Bytes, IsV4(a) PROVE a \in FourBytes /\ DOMAIN a = 1..4
  BY LenProperties DEF Bytes, IsV4, FourBytes

\* An address between two others agrees with them in the octets they share,
\* and its next octet is between theirs.
LEMMA WithinOctets ==
  ASSUME NEW a \in FourBytes, NEW low \in FourBytes, NEW high \in FourBytes,
         Len(a) = 4, Len(high) = 4, Within(a, low, high)
  PROVE  /\ a[1] >= low[1] /\ a[1] <= high[1]
         /\ low[1] = high[1] => a[2] >= low[2] /\ a[2] <= high[2]
         /\ low[1] = high[1] /\ low[2] = high[2] => a[3] >= low[3] /\ a[3] <= high[3]
  <1>0. \A i \in 1..4 : a[i] \in Int /\ low[i] \in Int /\ high[i] \in Int
    BY DEF FourBytes
  <1>1. \/ a = low
        \/ \E i \in 1..4 : a[i] > low[i] /\ \A j \in 1..(i - 1) : a[j] = low[j]
    BY DEF Within, Between
  <1>2. \/ high = a
        \/ \E i \in 1..4 : high[i] > a[i] /\ \A j \in 1..(i - 1) : high[j] = a[j]
    BY DEF Within, Between
  <1>3. /\ a[1] >= low[1]
        /\ a[1] = low[1] => a[2] >= low[2]
        /\ a[1] = low[1] /\ a[2] = low[2] => a[3] >= low[3]
    BY <1>0, <1>1
  <1>4. /\ a[1] <= high[1]
        /\ a[1] = high[1] => a[2] <= high[2]
        /\ a[1] = high[1] /\ a[2] = high[2] => a[3] <= high[3]
    BY <1>0, <1>2
  <1>5. /\ a[1] \in Int /\ a[2] \in Int /\ a[3] \in Int
        /\ low[1] \in Int /\ low[2] \in Int /\ low[3] \in Int
        /\ high[1] \in Int /\ high[2] \in Int /\ high[3] \in Int
    BY <1>0
  <1>6. a[1] >= low[1] /\ a[1] <= high[1]
    BY <1>3, <1>4
  <1>7. low[1] = high[1] => a[1] = low[1] /\ a[1] = high[1]
    BY <1>5, <1>6
  <1>8. low[1] = high[1] => a[2] >= low[2] /\ a[2] <= high[2]
    BY <1>3, <1>4, <1>7
  <1>9. low[1] = high[1] /\ low[2] = high[2] => a[2] = low[2] /\ a[2] = high[2]
    BY <1>5, <1>8
  <1>10. low[1] = high[1] /\ low[2] = high[2] => a[3] >= low[3] /\ a[3] <= high[3]
    BY <1>3, <1>4, <1>7, <1>9
  <1> QED
    BY <1>6, <1>8, <1>10

LEMMA Net0 ==
  ASSUME NEW a \in FourBytes, a[1] = 0
  PROVE  InCidr(a, <<0, 0, 0, 0>>, 8)
  <1>1. Len(<<0, 0, 0, 0>>) = 4 /\ <<0, 0, 0, 0>>[1] = 0 /\ <<0, 0, 0, 0>>[2] = 0 /\ <<0, 0, 0, 0>>[3] = 0 /\ <<0, 0, 0, 0>>[4] = 0
    OBVIOUS
  <1>2. \A i \in 1..4 : a[i] \in 0..255
    BY DEF FourBytes
  <1>3. 2 ^ (8 - 8) = 1
    OBVIOUS
  <1>4. Least(8, 8 - 8 * (1 - 1)) = 8 /\ ~(Least(8, 8 - 8 * (2 - 1)) > 0) /\ ~(Least(8, 8 - 8 * (3 - 1)) > 0) /\ ~(Least(8, 8 - 8 * (4 - 1)) > 0)
    BY DEF Least
  <1>5. a[1] \div (2 ^ (8 - 8)) = <<0, 0, 0, 0>>[1] \div (2 ^ (8 - 8))
    BY <1>1, <1>2, <1>3
  <1> SUFFICES ASSUME NEW i \in 1..4, Least(8, 8 - 8 * (i - 1)) > 0
               PROVE  a[i] \div (2 ^ (8 - Least(8, 8 - 8 * (i - 1))))
                        = <<0, 0, 0, 0>>[i] \div (2 ^ (8 - Least(8, 8 - 8 * (i - 1))))
    BY <1>1 DEF InCidr
  <1>6. i = 1
    BY <1>4
  <1> QED
    BY <1>4, <1>5, <1>6

LEMMA Net10 ==
  ASSUME NEW a \in FourBytes, a[1] = 10
  PROVE  InCidr(a, <<10, 0, 0, 0>>, 8)
  <1>1. Len(<<10, 0, 0, 0>>) = 4 /\ <<10, 0, 0, 0>>[1] = 10 /\ <<10, 0, 0, 0>>[2] = 0 /\ <<10, 0, 0, 0>>[3] = 0 /\ <<10, 0, 0, 0>>[4] = 0
    OBVIOUS
  <1>2. \A i \in 1..4 : a[i] \in 0..255
    BY DEF FourBytes
  <1>3. 2 ^ (8 - 8) = 1
    OBVIOUS
  <1>4. Least(8, 8 - 8 * (1 - 1)) = 8 /\ ~(Least(8, 8 - 8 * (2 - 1)) > 0) /\ ~(Least(8, 8 - 8 * (3 - 1)) > 0) /\ ~(Least(8, 8 - 8 * (4 - 1)) > 0)
    BY DEF Least
  <1>5. a[1] \div (2 ^ (8 - 8)) = <<10, 0, 0, 0>>[1] \div (2 ^ (8 - 8))
    BY <1>1, <1>2, <1>3
  <1> SUFFICES ASSUME NEW i \in 1..4, Least(8, 8 - 8 * (i - 1)) > 0
               PROVE  a[i] \div (2 ^ (8 - Least(8, 8 - 8 * (i - 1))))
                        = <<10, 0, 0, 0>>[i] \div (2 ^ (8 - Least(8, 8 - 8 * (i - 1))))
    BY <1>1 DEF InCidr
  <1>6. i = 1
    BY <1>4
  <1> QED
    BY <1>4, <1>5, <1>6

LEMMA Net100 ==
  ASSUME NEW a \in FourBytes, a[1] = 100, a[2] >= 64 /\ a[2] <= 127
  PROVE  InCidr(a, <<100, 64, 0, 0>>, 10)
  <1>1. Len(<<100, 64, 0, 0>>) = 4 /\ <<100, 64, 0, 0>>[1] = 100 /\ <<100, 64, 0, 0>>[2] = 64 /\ <<100, 64, 0, 0>>[3] = 0 /\ <<100, 64, 0, 0>>[4] = 0
    OBVIOUS
  <1>2. \A i \in 1..4 : a[i] \in 0..255
    BY DEF FourBytes
  <1>3. 2 ^ (8 - 8) = 1 /\ 2 ^ (8 - 2) = 64
    OBVIOUS
  <1>4. Least(8, 10 - 8 * (1 - 1)) = 8 /\ Least(8, 10 - 8 * (2 - 1)) = 2 /\ ~(Least(8, 10 - 8 * (3 - 1)) > 0) /\ ~(Least(8, 10 - 8 * (4 - 1)) > 0)
    BY DEF Least
  <1>5. a[1] \div (2 ^ (8 - 8)) = <<100, 64, 0, 0>>[1] \div (2 ^ (8 - 8))
    BY <1>1, <1>2, <1>3
  <1>6. a[2] \div (2 ^ (8 - 2)) = <<100, 64, 0, 0>>[2] \div (2 ^ (8 - 2))
    BY <1>1, <1>2, <1>3
  <1> SUFFICES ASSUME NEW i \in 1..4, Least(8, 10 - 8 * (i - 1)) > 0
               PROVE  a[i] \div (2 ^ (8 - Least(8, 10 - 8 * (i - 1))))
                        = <<100, 64, 0, 0>>[i] \div (2 ^ (8 - Least(8, 10 - 8 * (i - 1))))
    BY <1>1 DEF InCidr
  <1>7. i = 1 \/ i = 2
    BY <1>4
  <1> QED
    BY <1>4, <1>5, <1>6, <1>7

LEMMA Net127 ==
  ASSUME NEW a \in FourBytes, a[1] = 127
  PROVE  InCidr(a, <<127, 0, 0, 0>>, 8)
  <1>1. Len(<<127, 0, 0, 0>>) = 4 /\ <<127, 0, 0, 0>>[1] = 127 /\ <<127, 0, 0, 0>>[2] = 0 /\ <<127, 0, 0, 0>>[3] = 0 /\ <<127, 0, 0, 0>>[4] = 0
    OBVIOUS
  <1>2. \A i \in 1..4 : a[i] \in 0..255
    BY DEF FourBytes
  <1>3. 2 ^ (8 - 8) = 1
    OBVIOUS
  <1>4. Least(8, 8 - 8 * (1 - 1)) = 8 /\ ~(Least(8, 8 - 8 * (2 - 1)) > 0) /\ ~(Least(8, 8 - 8 * (3 - 1)) > 0) /\ ~(Least(8, 8 - 8 * (4 - 1)) > 0)
    BY DEF Least
  <1>5. a[1] \div (2 ^ (8 - 8)) = <<127, 0, 0, 0>>[1] \div (2 ^ (8 - 8))
    BY <1>1, <1>2, <1>3
  <1> SUFFICES ASSUME NEW i \in 1..4, Least(8, 8 - 8 * (i - 1)) > 0
               PROVE  a[i] \div (2 ^ (8 - Least(8, 8 - 8 * (i - 1))))
                        = <<127, 0, 0, 0>>[i] \div (2 ^ (8 - Least(8, 8 - 8 * (i - 1))))
    BY <1>1 DEF InCidr
  <1>6. i = 1
    BY <1>4
  <1> QED
    BY <1>4, <1>5, <1>6

LEMMA Net169 ==
  ASSUME NEW a \in FourBytes, a[1] = 169, a[2] = 254
  PROVE  InCidr(a, <<169, 254, 0, 0>>, 16)
  <1>1. Len(<<169, 254, 0, 0>>) = 4 /\ <<169, 254, 0, 0>>[1] = 169 /\ <<169, 254, 0, 0>>[2] = 254 /\ <<169, 254, 0, 0>>[3] = 0 /\ <<169, 254, 0, 0>>[4] = 0
    OBVIOUS
  <1>2. \A i \in 1..4 : a[i] \in 0..255
    BY DEF FourBytes
  <1>3. 2 ^ (8 - 8) = 1
    OBVIOUS
  <1>4. Least(8, 16 - 8 * (1 - 1)) = 8 /\ Least(8, 16 - 8 * (2 - 1)) = 8 /\ ~(Least(8, 16 - 8 * (3 - 1)) > 0) /\ ~(Least(8, 16 - 8 * (4 - 1)) > 0)
    BY DEF Least
  <1>5. a[1] \div (2 ^ (8 - 8)) = <<169, 254, 0, 0>>[1] \div (2 ^ (8 - 8))
    BY <1>1, <1>2, <1>3
  <1>6. a[2] \div (2 ^ (8 - 8)) = <<169, 254, 0, 0>>[2] \div (2 ^ (8 - 8))
    BY <1>1, <1>2, <1>3
  <1> SUFFICES ASSUME NEW i \in 1..4, Least(8, 16 - 8 * (i - 1)) > 0
               PROVE  a[i] \div (2 ^ (8 - Least(8, 16 - 8 * (i - 1))))
                        = <<169, 254, 0, 0>>[i] \div (2 ^ (8 - Least(8, 16 - 8 * (i - 1))))
    BY <1>1 DEF InCidr
  <1>7. i = 1 \/ i = 2
    BY <1>4
  <1> QED
    BY <1>4, <1>5, <1>6, <1>7

LEMMA Net172 ==
  ASSUME NEW a \in FourBytes, a[1] = 172, a[2] >= 16 /\ a[2] <= 31
  PROVE  InCidr(a, <<172, 16, 0, 0>>, 12)
  <1>1. Len(<<172, 16, 0, 0>>) = 4 /\ <<172, 16, 0, 0>>[1] = 172 /\ <<172, 16, 0, 0>>[2] = 16 /\ <<172, 16, 0, 0>>[3] = 0 /\ <<172, 16, 0, 0>>[4] = 0
    OBVIOUS
  <1>2. \A i \in 1..4 : a[i] \in 0..255
    BY DEF FourBytes
  <1>3. 2 ^ (8 - 8) = 1 /\ 2 ^ (8 - 4) = 16
    OBVIOUS
  <1>4. Least(8, 12 - 8 * (1 - 1)) = 8 /\ Least(8, 12 - 8 * (2 - 1)) = 4 /\ ~(Least(8, 12 - 8 * (3 - 1)) > 0) /\ ~(Least(8, 12 - 8 * (4 - 1)) > 0)
    BY DEF Least
  <1>5. a[1] \div (2 ^ (8 - 8)) = <<172, 16, 0, 0>>[1] \div (2 ^ (8 - 8))
    BY <1>1, <1>2, <1>3
  <1>6. a[2] \div (2 ^ (8 - 4)) = <<172, 16, 0, 0>>[2] \div (2 ^ (8 - 4))
    BY <1>1, <1>2, <1>3
  <1> SUFFICES ASSUME NEW i \in 1..4, Least(8, 12 - 8 * (i - 1)) > 0
               PROVE  a[i] \div (2 ^ (8 - Least(8, 12 - 8 * (i - 1))))
                        = <<172, 16, 0, 0>>[i] \div (2 ^ (8 - Least(8, 12 - 8 * (i - 1))))
    BY <1>1 DEF InCidr
  <1>7. i = 1 \/ i = 2
    BY <1>4
  <1> QED
    BY <1>4, <1>5, <1>6, <1>7

LEMMA Net192_168 ==
  ASSUME NEW a \in FourBytes, a[1] = 192, a[2] = 168
  PROVE  InCidr(a, <<192, 168, 0, 0>>, 16)
  <1>1. Len(<<192, 168, 0, 0>>) = 4 /\ <<192, 168, 0, 0>>[1] = 192 /\ <<192, 168, 0, 0>>[2] = 168 /\ <<192, 168, 0, 0>>[3] = 0 /\ <<192, 168, 0, 0>>[4] = 0
    OBVIOUS
  <1>2. \A i \in 1..4 : a[i] \in 0..255
    BY DEF FourBytes
  <1>3. 2 ^ (8 - 8) = 1
    OBVIOUS
  <1>4. Least(8, 16 - 8 * (1 - 1)) = 8 /\ Least(8, 16 - 8 * (2 - 1)) = 8 /\ ~(Least(8, 16 - 8 * (3 - 1)) > 0) /\ ~(Least(8, 16 - 8 * (4 - 1)) > 0)
    BY DEF Least
  <1>5. a[1] \div (2 ^ (8 - 8)) = <<192, 168, 0, 0>>[1] \div (2 ^ (8 - 8))
    BY <1>1, <1>2, <1>3
  <1>6. a[2] \div (2 ^ (8 - 8)) = <<192, 168, 0, 0>>[2] \div (2 ^ (8 - 8))
    BY <1>1, <1>2, <1>3
  <1> SUFFICES ASSUME NEW i \in 1..4, Least(8, 16 - 8 * (i - 1)) > 0
               PROVE  a[i] \div (2 ^ (8 - Least(8, 16 - 8 * (i - 1))))
                        = <<192, 168, 0, 0>>[i] \div (2 ^ (8 - Least(8, 16 - 8 * (i - 1))))
    BY <1>1 DEF InCidr
  <1>7. i = 1 \/ i = 2
    BY <1>4
  <1> QED
    BY <1>4, <1>5, <1>6, <1>7

LEMMA Net192_0 ==
  ASSUME NEW a \in FourBytes, a[1] = 192, a[2] = 0, a[3] = 0
  PROVE  InCidr(a, <<192, 0, 0, 0>>, 24)
  <1>1. Len(<<192, 0, 0, 0>>) = 4 /\ <<192, 0, 0, 0>>[1] = 192 /\ <<192, 0, 0, 0>>[2] = 0 /\ <<192, 0, 0, 0>>[3] = 0 /\ <<192, 0, 0, 0>>[4] = 0
    OBVIOUS
  <1>2. \A i \in 1..4 : a[i] \in 0..255
    BY DEF FourBytes
  <1>3. 2 ^ (8 - 8) = 1
    OBVIOUS
  <1>4. Least(8, 24 - 8 * (1 - 1)) = 8 /\ Least(8, 24 - 8 * (2 - 1)) = 8 /\ Least(8, 24 - 8 * (3 - 1)) = 8 /\ ~(Least(8, 24 - 8 * (4 - 1)) > 0)
    BY DEF Least
  <1>5. a[1] \div (2 ^ (8 - 8)) = <<192, 0, 0, 0>>[1] \div (2 ^ (8 - 8))
    BY <1>1, <1>2, <1>3
  <1>6. a[2] \div (2 ^ (8 - 8)) = <<192, 0, 0, 0>>[2] \div (2 ^ (8 - 8))
    BY <1>1, <1>2, <1>3
  <1>7. a[3] \div (2 ^ (8 - 8)) = <<192, 0, 0, 0>>[3] \div (2 ^ (8 - 8))
    BY <1>1, <1>2, <1>3
  <1> SUFFICES ASSUME NEW i \in 1..4, Least(8, 24 - 8 * (i - 1)) > 0
               PROVE  a[i] \div (2 ^ (8 - Least(8, 24 - 8 * (i - 1))))
                        = <<192, 0, 0, 0>>[i] \div (2 ^ (8 - Least(8, 24 - 8 * (i - 1))))
    BY <1>1 DEF InCidr
  <1>8. i = 1 \/ i = 2 \/ i = 3
    BY <1>4
  <1> QED
    BY <1>4, <1>5, <1>6, <1>7, <1>8

LEMMA Net198 ==
  ASSUME NEW a \in FourBytes, a[1] = 198, a[2] >= 18 /\ a[2] <= 19
  PROVE  InCidr(a, <<198, 18, 0, 0>>, 15)
  <1>1. Len(<<198, 18, 0, 0>>) = 4 /\ <<198, 18, 0, 0>>[1] = 198 /\ <<198, 18, 0, 0>>[2] = 18 /\ <<198, 18, 0, 0>>[3] = 0 /\ <<198, 18, 0, 0>>[4] = 0
    OBVIOUS
  <1>2. \A i \in 1..4 : a[i] \in 0..255
    BY DEF FourBytes
  <1>3. 2 ^ (8 - 8) = 1 /\ 2 ^ (8 - 7) = 2
    OBVIOUS
  <1>4. Least(8, 15 - 8 * (1 - 1)) = 8 /\ Least(8, 15 - 8 * (2 - 1)) = 7 /\ ~(Least(8, 15 - 8 * (3 - 1)) > 0) /\ ~(Least(8, 15 - 8 * (4 - 1)) > 0)
    BY DEF Least
  <1>5. a[1] \div (2 ^ (8 - 8)) = <<198, 18, 0, 0>>[1] \div (2 ^ (8 - 8))
    BY <1>1, <1>2, <1>3
  <1>6. a[2] \div (2 ^ (8 - 7)) = <<198, 18, 0, 0>>[2] \div (2 ^ (8 - 7))
    BY <1>1, <1>2, <1>3
  <1> SUFFICES ASSUME NEW i \in 1..4, Least(8, 15 - 8 * (i - 1)) > 0
               PROVE  a[i] \div (2 ^ (8 - Least(8, 15 - 8 * (i - 1))))
                        = <<198, 18, 0, 0>>[i] \div (2 ^ (8 - Least(8, 15 - 8 * (i - 1))))
    BY <1>1 DEF InCidr
  <1>7. i = 1 \/ i = 2
    BY <1>4
  <1>8. CASE i = 1
    BY <1>4, <1>5, <1>8
  <1>9. CASE i = 2
    BY <1>4, <1>6, <1>9
  <1> QED
    BY <1>7, <1>8, <1>9

LEMMA Net224 ==
  ASSUME NEW a \in FourBytes, a[1] >= 224 /\ a[1] <= 239
  PROVE  InCidr(a, <<224, 0, 0, 0>>, 4)
  <1>1. Len(<<224, 0, 0, 0>>) = 4 /\ <<224, 0, 0, 0>>[1] = 224 /\ <<224, 0, 0, 0>>[2] = 0 /\ <<224, 0, 0, 0>>[3] = 0 /\ <<224, 0, 0, 0>>[4] = 0
    OBVIOUS
  <1>2. \A i \in 1..4 : a[i] \in 0..255
    BY DEF FourBytes
  <1>3. 2 ^ (8 - 8) = 1 /\ 2 ^ (8 - 4) = 16
    OBVIOUS
  <1>4. Least(8, 4 - 8 * (1 - 1)) = 4 /\ ~(Least(8, 4 - 8 * (2 - 1)) > 0) /\ ~(Least(8, 4 - 8 * (3 - 1)) > 0) /\ ~(Least(8, 4 - 8 * (4 - 1)) > 0)
    BY DEF Least
  <1>5. a[1] \div (2 ^ (8 - 4)) = <<224, 0, 0, 0>>[1] \div (2 ^ (8 - 4))
    BY <1>1, <1>2, <1>3
  <1> SUFFICES ASSUME NEW i \in 1..4, Least(8, 4 - 8 * (i - 1)) > 0
               PROVE  a[i] \div (2 ^ (8 - Least(8, 4 - 8 * (i - 1))))
                        = <<224, 0, 0, 0>>[i] \div (2 ^ (8 - Least(8, 4 - 8 * (i - 1))))
    BY <1>1 DEF InCidr
  <1>6. i = 1
    BY <1>4
  <1> QED
    BY <1>4, <1>5, <1>6

LEMMA Net240 ==
  ASSUME NEW a \in FourBytes, a[1] >= 240 /\ a[1] <= 255
  PROVE  InCidr(a, <<240, 0, 0, 0>>, 4)
  <1>1. Len(<<240, 0, 0, 0>>) = 4 /\ <<240, 0, 0, 0>>[1] = 240 /\ <<240, 0, 0, 0>>[2] = 0 /\ <<240, 0, 0, 0>>[3] = 0 /\ <<240, 0, 0, 0>>[4] = 0
    OBVIOUS
  <1>2. \A i \in 1..4 : a[i] \in 0..255
    BY DEF FourBytes
  <1>3. 2 ^ (8 - 8) = 1 /\ 2 ^ (8 - 4) = 16
    OBVIOUS
  <1>4. Least(8, 4 - 8 * (1 - 1)) = 4 /\ ~(Least(8, 4 - 8 * (2 - 1)) > 0) /\ ~(Least(8, 4 - 8 * (3 - 1)) > 0) /\ ~(Least(8, 4 - 8 * (4 - 1)) > 0)
    BY DEF Least
  <1>5. a[1] \div (2 ^ (8 - 4)) = <<240, 0, 0, 0>>[1] \div (2 ^ (8 - 4))
    BY <1>1, <1>2, <1>3
  <1> SUFFICES ASSUME NEW i \in 1..4, Least(8, 4 - 8 * (i - 1)) > 0
               PROVE  a[i] \div (2 ^ (8 - Least(8, 4 - 8 * (i - 1))))
                        = <<240, 0, 0, 0>>[i] \div (2 ^ (8 - Least(8, 4 - 8 * (i - 1))))
    BY <1>1 DEF InCidr
  <1>6. i = 1
    BY <1>4
  <1> QED
    BY <1>4, <1>5, <1>6

\* Each private or reserved range is of a network of the list.
LEMMA InternalIsBlocked ==
  ASSUME NEW a \in FourBytes, Len(a) = 4, InternalIpv4(a)
  PROVE  BlockedIpv4(a)
  <1>0. \A i \in 1..4 : a[i] \in 0..255
    BY DEF FourBytes
  <1>1. CASE Within(a, <<0, 0, 0, 0>>, <<0, 255, 255, 255>>)
    <2>1. <<0, 0, 0, 0>> \in FourBytes /\ <<0, 255, 255, 255>> \in FourBytes /\ Len(<<0, 255, 255, 255>>) = 4
      BY DEF FourBytes
    <2>2. /\ <<0, 0, 0, 0>>[1] = 0 /\ <<0, 255, 255, 255>>[1] = 0
          /\ <<0, 0, 0, 0>>[2] = 0 /\ <<0, 255, 255, 255>>[2] = 255
          /\ <<0, 0, 0, 0>>[3] = 0 /\ <<0, 255, 255, 255>>[3] = 255
      OBVIOUS
    <2>3. /\ a[1] >= 0 /\ a[1] <= 0
          /\ a[2] >= 0 /\ a[2] <= 255
      BY <1>1, <2>1, <2>2, WithinOctets
    <2>4. InCidr(a, <<0, 0, 0, 0>>, 8)
      BY <1>0, <2>3, Net0
    <2> QED
      BY <2>4 DEF BlockedIpv4, BlockedIpv4Cidrs
  <1>2. CASE Within(a, <<10, 0, 0, 0>>, <<10, 255, 255, 255>>)
    <2>1. <<10, 0, 0, 0>> \in FourBytes /\ <<10, 255, 255, 255>> \in FourBytes /\ Len(<<10, 255, 255, 255>>) = 4
      BY DEF FourBytes
    <2>2. /\ <<10, 0, 0, 0>>[1] = 10 /\ <<10, 255, 255, 255>>[1] = 10
          /\ <<10, 0, 0, 0>>[2] = 0 /\ <<10, 255, 255, 255>>[2] = 255
          /\ <<10, 0, 0, 0>>[3] = 0 /\ <<10, 255, 255, 255>>[3] = 255
      OBVIOUS
    <2>3. /\ a[1] >= 10 /\ a[1] <= 10
          /\ a[2] >= 0 /\ a[2] <= 255
      BY <1>2, <2>1, <2>2, WithinOctets
    <2>4. InCidr(a, <<10, 0, 0, 0>>, 8)
      BY <1>0, <2>3, Net10
    <2> QED
      BY <2>4 DEF BlockedIpv4, BlockedIpv4Cidrs
  <1>3. CASE Within(a, <<100, 64, 0, 0>>, <<100, 127, 255, 255>>)
    <2>1. <<100, 64, 0, 0>> \in FourBytes /\ <<100, 127, 255, 255>> \in FourBytes /\ Len(<<100, 127, 255, 255>>) = 4
      BY DEF FourBytes
    <2>2. /\ <<100, 64, 0, 0>>[1] = 100 /\ <<100, 127, 255, 255>>[1] = 100
          /\ <<100, 64, 0, 0>>[2] = 64 /\ <<100, 127, 255, 255>>[2] = 127
          /\ <<100, 64, 0, 0>>[3] = 0 /\ <<100, 127, 255, 255>>[3] = 255
      OBVIOUS
    <2>3. /\ a[1] >= 100 /\ a[1] <= 100
          /\ a[2] >= 64 /\ a[2] <= 127
      BY <1>3, <2>1, <2>2, WithinOctets
    <2>4. InCidr(a, <<100, 64, 0, 0>>, 10)
      BY <1>0, <2>3, Net100
    <2> QED
      BY <2>4 DEF BlockedIpv4, BlockedIpv4Cidrs
  <1>4. CASE Within(a, <<127, 0, 0, 0>>, <<127, 255, 255, 255>>)
    <2>1. <<127, 0, 0, 0>> \in FourBytes /\ <<127, 255, 255, 255>> \in FourBytes /\ Len(<<127, 255, 255, 255>>) = 4
      BY DEF FourBytes
    <2>2. /\ <<127, 0, 0, 0>>[1] = 127 /\ <<127, 255, 255, 255>>[1] = 127
          /\ <<127, 0, 0, 0>>[2] = 0 /\ <<127, 255, 255, 255>>[2] = 255
          /\ <<127, 0, 0, 0>>[3] = 0 /\ <<127, 255, 255, 255>>[3] = 255
      OBVIOUS
    <2>3. /\ a[1] >= 127 /\ a[1] <= 127
          /\ a[2] >= 0 /\ a[2] <= 255
      BY <1>4, <2>1, <2>2, WithinOctets
    <2>4. InCidr(a, <<127, 0, 0, 0>>, 8)
      BY <1>0, <2>3, Net127
    <2> QED
      BY <2>4 DEF BlockedIpv4, BlockedIpv4Cidrs
  <1>5. CASE Within(a, <<169, 254, 0, 0>>, <<169, 254, 255, 255>>)
    <2>1. <<169, 254, 0, 0>> \in FourBytes /\ <<169, 254, 255, 255>> \in FourBytes /\ Len(<<169, 254, 255, 255>>) = 4
      BY DEF FourBytes
    <2>2. /\ <<169, 254, 0, 0>>[1] = 169 /\ <<169, 254, 255, 255>>[1] = 169
          /\ <<169, 254, 0, 0>>[2] = 254 /\ <<169, 254, 255, 255>>[2] = 254
          /\ <<169, 254, 0, 0>>[3] = 0 /\ <<169, 254, 255, 255>>[3] = 255
      OBVIOUS
    <2>3. /\ a[1] >= 169 /\ a[1] <= 169
          /\ a[2] >= 254 /\ a[2] <= 254
          /\ a[3] >= 0 /\ a[3] <= 255
      BY <1>5, <2>1, <2>2, WithinOctets
    <2>4. InCidr(a, <<169, 254, 0, 0>>, 16)
      BY <1>0, <2>3, Net169
    <2> QED
      BY <2>4 DEF BlockedIpv4, BlockedIpv4Cidrs
  <1>6. CASE Within(a, <<172, 16, 0, 0>>, <<172, 31, 255, 255>>)
    <2>1. <<172, 16, 0, 0>> \in FourBytes /\ <<172, 31, 255, 255>> \in FourBytes /\ Len(<<172, 31, 255, 255>>) = 4
      BY DEF FourBytes
    <2>2. /\ <<172, 16, 0, 0>>[1] = 172 /\ <<172, 31, 255, 255>>[1] = 172
          /\ <<172, 16, 0, 0>>[2] = 16 /\ <<172, 31, 255, 255>>[2] = 31
          /\ <<172, 16, 0, 0>>[3] = 0 /\ <<172, 31, 255, 255>>[3] = 255
      OBVIOUS
    <2>3. /\ a[1] >= 172 /\ a[1] <= 172
          /\ a[2] >= 16 /\ a[2] <= 31
      BY <1>6, <2>1, <2>2, WithinOctets
    <2>4. InCidr(a, <<172, 16, 0, 0>>, 12)
      BY <1>0, <2>3, Net172
    <2> QED
      BY <2>4 DEF BlockedIpv4, BlockedIpv4Cidrs
  <1>7. CASE Within(a, <<192, 0, 0, 0>>, <<192, 0, 0, 255>>)
    <2>1. <<192, 0, 0, 0>> \in FourBytes /\ <<192, 0, 0, 255>> \in FourBytes /\ Len(<<192, 0, 0, 255>>) = 4
      BY DEF FourBytes
    <2>2. /\ <<192, 0, 0, 0>>[1] = 192 /\ <<192, 0, 0, 255>>[1] = 192
          /\ <<192, 0, 0, 0>>[2] = 0 /\ <<192, 0, 0, 255>>[2] = 0
          /\ <<192, 0, 0, 0>>[3] = 0 /\ <<192, 0, 0, 255>>[3] = 0
      OBVIOUS
    <2>3. /\ a[1] >= 192 /\ a[1] <= 192
          /\ a[2] >= 0 /\ a[2] <= 0
          /\ a[3] >= 0 /\ a[3] <= 0
      BY <1>7, <2>1, <2>2, WithinOctets
    <2>4. InCidr(a, <<192, 0, 0, 0>>, 24)
      BY <1>0, <2>3, Net192_0
    <2> QED
      BY <2>4 DEF BlockedIpv4, BlockedIpv4Cidrs
  <1>8. CASE Within(a, <<192, 168, 0, 0>>, <<192, 168, 255, 255>>)
    <2>1. <<192, 168, 0, 0>> \in FourBytes /\ <<192, 168, 255, 255>> \in FourBytes /\ Len(<<192, 168, 255, 255>>) = 4
      BY DEF FourBytes
    <2>2. /\ <<192, 168, 0, 0>>[1] = 192 /\ <<192, 168, 255, 255>>[1] = 192
          /\ <<192, 168, 0, 0>>[2] = 168 /\ <<192, 168, 255, 255>>[2] = 168
          /\ <<192, 168, 0, 0>>[3] = 0 /\ <<192, 168, 255, 255>>[3] = 255
      OBVIOUS
    <2>3. /\ a[1] >= 192 /\ a[1] <= 192
          /\ a[2] >= 168 /\ a[2] <= 168
          /\ a[3] >= 0 /\ a[3] <= 255
      BY <1>8, <2>1, <2>2, WithinOctets
    <2>4. InCidr(a, <<192, 168, 0, 0>>, 16)
      BY <1>0, <2>3, Net192_168
    <2> QED
      BY <2>4 DEF BlockedIpv4, BlockedIpv4Cidrs
  <1>9. CASE Within(a, <<198, 18, 0, 0>>, <<198, 19, 255, 255>>)
    <2>1. <<198, 18, 0, 0>> \in FourBytes /\ <<198, 19, 255, 255>> \in FourBytes /\ Len(<<198, 19, 255, 255>>) = 4
      BY DEF FourBytes
    <2>2. /\ <<198, 18, 0, 0>>[1] = 198 /\ <<198, 19, 255, 255>>[1] = 198
          /\ <<198, 18, 0, 0>>[2] = 18 /\ <<198, 19, 255, 255>>[2] = 19
          /\ <<198, 18, 0, 0>>[3] = 0 /\ <<198, 19, 255, 255>>[3] = 255
      OBVIOUS
    <2>3. /\ a[1] >= 198 /\ a[1] <= 198
          /\ a[2] >= 18 /\ a[2] <= 19
      BY <1>9, <2>1, <2>2, WithinOctets
    <2>4. InCidr(a, <<198, 18, 0, 0>>, 15)
      BY <1>0, <2>3, Net198
    <2> QED
      BY <2>4 DEF BlockedIpv4, BlockedIpv4Cidrs
  <1>10. CASE Within(a, <<224, 0, 0, 0>>, <<255, 255, 255, 255>>)
    <2>1. <<224, 0, 0, 0>> \in FourBytes /\ <<255, 255, 255, 255>> \in FourBytes /\ Len(<<255, 255, 255, 255>>) = 4
      BY DEF FourBytes
    <2>2. /\ <<224, 0, 0, 0>>[1] = 224 /\ <<255, 255, 255, 255>>[1] = 255
          /\ <<224, 0, 0, 0>>[2] = 0 /\ <<255, 255, 255, 255>>[2] = 255
          /\ <<224, 0, 0, 0>>[3] = 0 /\ <<255, 255, 255, 255>>[3] = 255
      OBVIOUS
    <2>3. /\ a[1] >= 224 /\ a[1] <= 255
      BY <1>10, <2>1, <2>2, WithinOctets
    <2>4. CASE a[1] <= 239
      <3>1. InCidr(a, <<224, 0, 0, 0>>, 4)
        BY <1>0, <2>3, <2>4, Net224
      <3> QED
        BY <3>1 DEF BlockedIpv4, BlockedIpv4Cidrs
    <2>5. CASE a[1] >= 240
      <3>1. InCidr(a, <<240, 0, 0, 0>>, 4)
        BY <1>0, <2>3, <2>5, Net240
      <3> QED
        BY <3>1 DEF BlockedIpv4, BlockedIpv4Cidrs
    <2> QED
      BY <1>0, <2>4, <2>5
  <1> QED
    BY <1>1, <1>2, <1>3, <1>4, <1>5, <1>6, <1>7, <1>8, <1>9, <1>10 DEF InternalIpv4

\* So are the ranges of IPv6, and the IPv4 addresses written in it.
LEMMA SafeIsPublic ==
  ASSUME NEW a \in Bytes, ~BlockedAddress(a)
  PROVE  IF IsV4(a) THEN ~InternalIpv4(a)
         ELSE /\ ~ZeroUpTo(a, 12)
              /\ ZeroUpTo(a, 10) /\ a[11] = 255 => ~InternalIpv4(SubSeq(a, 13, 16))
              /\ a[1] \notin {252, 253}
              /\ a[1] = 254 => a[2] \notin 128..191
  <1>1. CASE IsV4(a)
    <2>1. a \in FourBytes /\ Len(a) = 4
      BY <1>1, V4IsFourBytes DEF IsV4
    <2>2. ~BlockedIpv4(a)
      BY <1>1 DEF BlockedAddress
    <2> QED
      BY <1>1, <2>1, <2>2, InternalIsBlocked
  <1>2. CASE ~IsV4(a)
    <2>0. a \in Seq(0..255) /\ IsV6(a) /\ Len(a) = 16
      BY <1>2 DEF Bytes, IsV6
    <2>1. IsV6(a) /\ ~BlockedIpv6(a) /\ \A i \in 1..16 : a[i] \in 0..255
      <3>1. a \in [1..16 -> 0..255]
        BY <1>2, LenProperties DEF Bytes, IsV4, IsV6
      <3> QED
        BY <2>0, <3>1 DEF BlockedAddress
    <2>2. ~ZeroUpTo(a, 12)
      <3> SUFFICES ASSUME ZeroUpTo(a, 12)
                   PROVE  FALSE
        OBVIOUS
      <3>1. ZeroUpTo(a, 10) /\ a[11] = 0
        BY DEF ZeroUpTo
      <3> QED
        BY <2>1, <3>1 DEF BlockedIpv6
    <2>3. ASSUME ZeroUpTo(a, 10), a[11] = 255
          PROVE  ~InternalIpv4(SubSeq(a, 13, 16))
      <3>1. ~BlockedIpv4(SubSeq(a, 13, 16))
        BY <2>1, <2>3 DEF BlockedIpv6
      <3>2. SubSeq(a, 13, 16) \in FourBytes /\ Len(SubSeq(a, 13, 16)) = 4
        <4>1. \A i \in 13..16 : a[i] \in 0..255
          BY <2>1
        <4>2. SubSeq(a, 13, 16) \in Seq(0..255) /\ Len(SubSeq(a, 13, 16)) = 4
          BY <4>1, SubSeqProperties
        <4> QED
          BY <4>2, V4IsFourBytes DEF Bytes, IsV4
      <3> QED
        BY <3>1, <3>2, InternalIsBlocked
    <2>4. a[1] \in 0..255 /\ a[2] \in 0..255
      BY <2>1
    <2>5. ASSUME a[1] # 0 PROVE ~ZeroUpTo(a, 10)
      BY <2>5 DEF ZeroUpTo
    <2>6. a[1] \notin {252, 253}
      BY <2>1, <2>4, <2>5 DEF BlockedIpv6
    <2>7. a[1] = 254 => a[2] \notin 128..191
      BY <2>1, <2>4, <2>5 DEF BlockedIpv6
    <2> QED
      BY <1>2, <2>2, <2>3, <2>6, <2>7
  <1> QED
    BY <1>1, <1>2

LEMMA AddressInvExplains == AddressInv => EndpointTypeOK /\ ConnectionIsPublic
  <1> SUFFICES ASSUME AddressInv
               PROVE  EndpointTypeOK /\ ConnectionIsPublic
    OBVIOUS
  <1>1. \A s \in sockets : s.address \in Bytes /\ ~BlockedAddress(s.address)
    BY DEF AddressInv
  <1>2. ConnectionIsPublic
    BY <1>1, SafeIsPublic DEF ConnectionIsPublic
  <1>3. \A r \in PRequests : /\ requests[r].at \in {"idle", "asked", "connecting", "open"}
                            /\ requests[r].url \in Endpoints \cup {NoEndpoint}
    BY DEF AddressInv, PlaceOfPost
  <1>4. \A s \in sockets : IsV4(s.address) \/ IsV6(s.address)
    BY <1>1 DEF Bytes
  <1> QED
    BY <1>2, <1>3, <1>4 DEF EndpointTypeOK, AddressInv

-----------------------------------------------------------------------------
(* API keys: the first bits of an address.                                 *)

\* A power of two counts the subsets of its exponent.
LEMMA PowerIsPositive == ASSUME NEW n \in Nat PROVE 2^n \in Nat /\ 2^n > 0
  <1>1. IsFiniteSet(1..n) /\ Cardinality(1..n) = n
    BY FS_Interval
  <1>2. IsFiniteSet(SUBSET (1..n)) /\ Cardinality(SUBSET (1..n)) = 2^n
    BY <1>1, FS_SUBSET
  <1>3. Cardinality(SUBSET (1..n)) \in Nat /\ Cardinality(SUBSET (1..n)) # 0
    <2>1. {} \in SUBSET (1..n)
      OBVIOUS
    <2>2. Cardinality(SUBSET (1..n)) = 0 <=> SUBSET (1..n) = {}
      BY <1>2, FS_EmptySet
    <2> QED
      BY <1>2, <2>1, <2>2, FS_CardinalityType
  <1>4. Cardinality(SUBSET (1..n)) > 0
    BY <1>3
  <1> QED
    BY <1>2, <1>3, <1>4

LEMMA PowerDoubles == ASSUME NEW n \in Nat PROVE 2^(n + 1) = 2^n + 2^n
  <1> DEFINE old == SUBSET (1..n)
             new == {s \in SUBSET (1..(n + 1)) : n + 1 \in s}
  <1>1. /\ IsFiniteSet(1..n) /\ Cardinality(1..n) = n
        /\ IsFiniteSet(1..(n + 1)) /\ Cardinality(1..(n + 1)) = n + 1
    BY FS_Interval
  <1>2. /\ IsFiniteSet(old) /\ Cardinality(old) = 2^n
        /\ IsFiniteSet(SUBSET (1..(n + 1))) /\ Cardinality(SUBSET (1..(n + 1))) = 2^(n + 1)
    BY <1>1, FS_SUBSET
  <1>3. SUBSET (1..(n + 1)) = old \cup new /\ old \cap new = {}
    <2>1. \A i : i \in 1..(n + 1) <=> i \in 1..n \/ i = n + 1
      OBVIOUS
    <2>2. n + 1 \notin 1..n
      OBVIOUS
    <2> QED
      BY <2>1, <2>2
  <1>4. IsFiniteSet(new)
    BY <1>2, <1>3, FS_Subset
  <1>5. Cardinality(new) = Cardinality(old)
    <2> DEFINE f == [s \in old |-> s \cup {n + 1}]
    <2>1. \A s \in old : s \cup {n + 1} \in new /\ n + 1 \notin s
      OBVIOUS
    <2>2. \A s \in new : s \ {n + 1} \in old /\ (s \ {n + 1}) \cup {n + 1} = s
      OBVIOUS
    <2> HIDE DEF old, new
    <2>3. f \in Bijection(old, new)
      <3>1. f \in [old -> new]
        BY <2>1
      <3>2. \A s, w \in old : f[s] = f[w] => s = w
        BY <2>1
      <3>3. \A w \in new : \E s \in old : f[s] = w
        BY <2>2
      <3> QED
        BY <3>1, <3>2, <3>3 DEF Bijection, Injection, Surjection, IsInjective
    <2>4. ExistsBijection(old, new)
      BY <2>3 DEF ExistsBijection
    <2> QED
      BY <2>4, <1>2, FS_Bijection
  <1>6. Cardinality(old \cup new) = Cardinality(old) + Cardinality(new) - Cardinality(old \cap new)
    BY <1>2, <1>4, FS_Union
  <1>7. Cardinality(old \cap new) = 0
    BY <1>3, FS_EmptySet
  <1>8. 2^n \in Nat
    BY PowerIsPositive
  <1> HIDE DEF old, new
  <1>9. Cardinality(old \cup new) = 2^n + 2^n
    BY <1>2, <1>5, <1>6, <1>7, <1>8
  <1> QED
    BY <1>2, <1>3, <1>9

LEMMA Products ==
  ASSUME NEW p \in Nat, p > 0, NEW a \in Nat, NEW b \in Nat, a > b
  PROVE  a * p >= b * p + p
  <1>1. a * p = (a - b) * p + b * p
    OBVIOUS
  <1>2. (a - b) * p >= p
    OBVIOUS
  <1> QED
    BY <1>1, <1>2

LEMMA Quotient ==
  ASSUME NEW p \in Nat, p > 0, NEW v \in Nat
  PROVE  /\ v \div p \in Nat
         /\ (v \div p) * p <= v /\ v < (v \div p) * p + p
  OBVIOUS

LEMMA QuotientIs ==
  ASSUME NEW p \in Nat, p > 0, NEW v \in Nat, NEW k \in Nat, k * p <= v, v < k * p + p
  PROVE  v \div p = k
  <1>1. ~ (v \div p > k)
    BY Quotient, Products
  <1>2. ~ (k > v \div p)
    BY Quotient, Products
  <1> QED
    BY <1>1, <1>2, Quotient

LEMMA Half ==
  ASSUME NEW d \in Nat
  PROVE  /\ d \div 2 \in Nat /\ (d % 2 = 0 \/ d % 2 = 1)
         /\ d = 2 * (d \div 2) + (d % 2)
  OBVIOUS

\* One bit more.
LEMMA OneBitMore ==
  ASSUME NEW v \in Nat, NEW i \in Nat
  PROVE  /\ v \div 2^i \in Nat /\ v \div 2^(i + 1) = (v \div 2^i) \div 2
         /\ v \div 2^i = 2 * (v \div 2^(i + 1)) + Bit(v, i)
  <1> DEFINE p == 2^i
             d == v \div p
             e == d \div 2
  <1>1. p \in Nat /\ p > 0 /\ 2^(i + 1) = p + p
    BY PowerIsPositive, PowerDoubles
  <1>2. d \in Nat /\ d * p <= v /\ v < d * p + p
    BY <1>1, Quotient
  <1>3. Bit(v, i) = d % 2
    BY DEF Bit
  <1> HIDE DEF d, p
  <1>4. e \in Nat /\ d = 2 * e + (d % 2) /\ (d % 2 = 0 \/ d % 2 = 1)
    BY <1>2, Half
  <1>5. e * (p + p) = (2 * e) * p
    BY <1>1, <1>4
  <1> HIDE DEF e
  <1>6. v \div (p + p) = e
    <2>1. e * (p + p) <= v /\ v < e * (p + p) + (p + p)
      <3>1. CASE d % 2 = 0
        <4>1. d = 2 * e
          BY <1>4, <3>1
        <4>2. d * p = (2 * e) * p
          BY <4>1
        <4> QED
          BY <1>1, <1>2, <1>5, <4>2
      <3>2. CASE d % 2 = 1
        <4>1. d = 2 * e + 1
          BY <1>4, <3>2
        <4>2. d * p = (2 * e) * p + p
          BY <1>1, <1>4, <4>1
        <4> QED
          BY <1>1, <1>2, <1>4, <1>5, <4>2
      <3> QED
        BY <1>4, <3>1, <3>2
    <2> QED
      BY <2>1, <1>1, <1>4, QuotientIs
  <1> QED
    BY <1>1, <1>2, <1>3, <1>4, <1>6 DEF d, e, p

\* Two numbers begin alike when the bits of their prefixes are alike.
LEMMA SameQuotient ==
  ASSUME NEW v \in Nat, NEW w \in Nat, v < 2^Width, w < 2^Width, NEW k \in 0..Width
  PROVE  v \div 2^k = w \div 2^k <=> \A i \in k..(Width - 1) : Bit(v, i) = Bit(w, i)
  <1>1. Width \in Nat
    BY KeysAssumption
  <1>2. ASSUME \A i \in k..(Width - 1) : Bit(v, i) = Bit(w, i)
        PROVE  v \div 2^k = w \div 2^k
    <2> DEFINE Alike == {j \in k..Width : v \div 2^j = w \div 2^j}
    <2>1. Width \in Alike
      <3>1. 2^Width \in Nat /\ 2^Width > 0
        BY <1>1, PowerIsPositive
      <3>2. 0 * 2^Width = 0
        BY <3>1
      <3>3. v \div 2^Width = 0 /\ w \div 2^Width = 0
        BY <3>1, <3>2, QuotientIs
      <3> QED
        BY <3>3, <1>1
    <2>2. Alike \subseteq Nat
      BY <1>1
    <2>3. PICK m \in Alike : \A j \in Alike : m <= j
      BY <2>1, <2>2, LeastNumber
    <2>4. CASE m > k
      <3>1. m - 1 \in Nat /\ m - 1 \in k..(Width - 1) /\ (m - 1) + 1 = m
        BY <1>1, <2>4
      <3>2. /\ v \div 2^(m - 1) = 2 * (v \div 2^m) + Bit(v, m - 1)
            /\ w \div 2^(m - 1) = 2 * (w \div 2^m) + Bit(w, m - 1)
        BY <3>1, OneBitMore
      <3>3. Bit(v, m - 1) = Bit(w, m - 1)
        BY <1>2, <3>1
      <3>4. v \div 2^(m - 1) = w \div 2^(m - 1)
        BY <3>2, <3>3
      <3>5. m - 1 \in Alike
        BY <3>1, <3>4, <1>1
      <3> QED
        BY <2>3, <3>5, <1>1
    <2>5. CASE m = k
      BY <2>3, <2>5
    <2> QED
      BY <2>3, <2>4, <2>5, <1>1
  <1>3. ASSUME v \div 2^k = w \div 2^k, NEW i \in k..(Width - 1)
        PROVE  Bit(v, i) = Bit(w, i)
    <2> DEFINE Other == {j \in Nat : j >= k /\ v \div 2^j # w \div 2^j}
    <2>1. Other = {}
      <3> SUFFICES ASSUME Other # {}
                   PROVE  FALSE
        OBVIOUS
      <3>1. Other \subseteq Nat
        OBVIOUS
      <3>2. PICK m \in Other : \A j \in Other : m <= j
        BY <3>1, LeastNumber
      <3>3. m # k /\ m \in Nat /\ m >= k /\ k \in Nat
        BY <1>3, <3>2, <1>1
      <3>4. m - 1 \in Nat /\ m - 1 >= k /\ (m - 1) + 1 = m /\ ~ (m <= m - 1)
        BY <3>3
      <3>5. /\ v \div 2^m = (v \div 2^(m - 1)) \div 2
            /\ w \div 2^m = (w \div 2^(m - 1)) \div 2
        BY <3>4, OneBitMore
      <3>6. v \div 2^(m - 1) # w \div 2^(m - 1)
        BY <3>2, <3>5
      <3> QED
        BY <3>2, <3>4, <3>6
    <2>2. i \in Nat /\ i >= k
      BY <1>1
    <2>3. v \div 2^i = w \div 2^i
      BY <2>1, <2>2
    <2> QED
      BY <2>3 DEF Bit
  <1> QED
    BY <1>2, <1>3

LEMMA SamePrefixes ==
  ASSUME NEW v \in 0..(2^Width - 1), NEW w \in 0..(2^Width - 1), NEW bits \in 0..Width
  PROVE  Prefix(v, bits) = Prefix(w, bits) <=> SamePrefix(v, w, bits)
  <1>1. Width \in Nat /\ 2^Width \in Nat /\ Width - bits \in 0..Width
    BY KeysAssumption, PowerIsPositive
  <1>2. v \in Nat /\ w \in Nat /\ v < 2^Width /\ w < 2^Width
    BY <1>1
  <1> DEFINE k == Width - bits
             p == 2^k
             x == v \div p
             y == w \div p
  <1>3. p \in Nat /\ p > 0 /\ x \in Nat /\ y \in Nat
    BY <1>1, <1>2, PowerIsPositive, Quotient
  <1>4. x = y <=> SamePrefix(v, w, bits)
    BY <1>1, <1>2, SameQuotient DEF SamePrefix
  <1>5. Prefix(v, bits) = x * p /\ Prefix(w, bits) = y * p
    BY DEF Prefix
  <1> HIDE DEF p, x, y
  <1>6. x * p = y * p => x = y
    <2>1. x * p \in Nat /\ y * p \in Nat
      BY <1>3
    <2>2. x > y => x * p >= y * p + p
      BY <1>3, Products
    <2>3. y > x => y * p >= x * p + p
      BY <1>3, Products
    <2> QED
      BY <1>3, <2>1, <2>2, <2>3
  <1> QED
    BY <1>4, <1>5, <1>6

LEMMA OriginIsJudged ==
  ASSUME NEW a \in Addresses, NEW allowed \in AllowLists
  PROVE  MatchesAllowlist(a, allowed) <=> AddressAllowed(a, allowed)
  <1>1. ASSUME NEW e \in allowed
        PROVE  /\ ParseCidr(e).form = Normal(a).form
               /\ Prefix(a.value, ParseCidr(e).bits) = ParseCidr(e).base
               <=> Normal(e).form = Normal(a).form /\ SamePrefix(a.value, e.value, e.bits)
    <2>1. e \in Entries
      BY KeysAssumption
    <2>2. a.value \in 0..(2^Width - 1) /\ e.value \in 0..(2^Width - 1) /\ e.bits \in 0..Width
      BY <2>1 DEF Entries, Addresses
    <2>3. /\ ParseCidr(e).form = Normal(e).form /\ ParseCidr(e).bits = e.bits
          /\ ParseCidr(e).base = Prefix(e.value, e.bits)
      BY DEF ParseCidr
    <2> QED
      BY <2>2, <2>3, SamePrefixes
  <1> QED
    BY <1>1 DEF MatchesAllowlist, AddressAllowed

KeyChange == [op: {"none", "patch", "revoke"}, key: Keys \cup {"none"}]
KeyAnswer == [answer: {"none", "ok", "key", "origin", "scope"}, from: Addresses \cup {"none"},
              allowed: AllowLists]

\* The state of the keys has its types, a change under way is of a key, and
\* each answer was given by the bits of the address it answered.
KeysInv ==
  /\ closed \in BOOLEAN /\ keys \in [Keys -> Key]
  /\ keyOps \in [KeyOps -> KeyChange] /\ keyRequests \in [Requests -> KeyAnswer]
  /\ \A o \in KeyOps : keyOps[o].op # "none" => keyOps[o].key \in Keys
  /\ OriginDecidesAdmission

LEMMA KeysInvInit == KeysInit => KeysInv
  <1> SUFFICES ASSUME KeysInit
               PROVE  KeysInv
    OBVIOUS
  <1>1. /\ NoKey \in Key /\ IdleKeyOp \in KeyChange /\ IdleKeyOp.op = "none"
        /\ NewRequest \in KeyAnswer /\ NewRequest.answer = "none"
    BY KeysAssumption DEF NoKey, IdleKeyOp, NewRequest, Key, KeyChange, KeyAnswer
  <1> QED
    BY <1>1 DEF KeysInit, KeysInv, OriginDecidesAdmission

LEMMA KeysInvStutters == KeysInv /\ UNCHANGED keysVars => KeysInv'
  BY DEF KeysInv, keysVars, OriginDecidesAdmission

\* A step that writes one key, or one change.
LEMMA KeyWritten ==
  ASSUME KeysInv, NEW k \in Keys, NEW key \in Key, keys' = [keys EXCEPT ![k] = key],
         UNCHANGED <<closed, keyRequests>>,
         keyOps' = keyOps \/ \E o \in KeyOps : keyOps' = [keyOps EXCEPT ![o] = IdleKeyOp]
  PROVE  KeysInv'
  <1>1. keys' \in [Keys -> Key]
    BY DEF KeysInv
  <1>2. IdleKeyOp \in KeyChange /\ IdleKeyOp.op = "none"
    BY DEF IdleKeyOp, KeyChange
  <1>3. keyOps' \in [KeyOps -> KeyChange] /\ \A o \in KeyOps : keyOps'[o].op # "none" => keyOps'[o].key \in Keys
    BY <1>2 DEF KeysInv
  <1> QED
    BY <1>1, <1>3 DEF KeysInv, OriginDecidesAdmission

LEMMA ScopesAreVerified ==
  ASSUME KeysInv, NEW r \in Requests, NEW k \in Keys, VerifyScope(r, k)
  PROVE  KeysInv'
  <1>1. PICK a \in Addresses, scope \in Scopes :
          keyRequests' = [keyRequests EXCEPT ![r] =
            [answer |-> Verdict(k, a, scope), from |-> a, allowed |-> keys[k].allowed]]
    BY DEF VerifyScope
  <1>2. UNCHANGED <<closed, keys, keyOps>> /\ keys[k].allowed \in AllowLists
    BY DEF VerifyScope, KeysInv, Key
  <1>3. /\ Verdict(k, a, scope) \in {"ok", "key", "origin", "scope"}
        /\ Verdict(k, a, scope) = "origin" => ~AddressAllowed(a, keys[k].allowed)
        /\ Verdict(k, a, scope) \in {"scope", "ok"} => AddressAllowed(a, keys[k].allowed)
    BY <1>2, OriginIsJudged DEF Verdict
  <1> DEFINE judged == [answer |-> Verdict(k, a, scope), from |-> a, allowed |-> keys[k].allowed]
  <1>4. judged \in KeyAnswer
    BY <1>2, <1>3 DEF KeyAnswer
  <1>5. /\ judged.answer = "origin" => ~AddressAllowed(judged.from, judged.allowed)
        /\ judged.answer \in {"scope", "ok"} => AddressAllowed(judged.from, judged.allowed)
    BY <1>3
  <1> HIDE DEF judged
  <1>6. keyRequests' = [keyRequests EXCEPT ![r] = judged]
    BY <1>1 DEF judged
  <1>7. keyRequests' \in [Requests -> KeyAnswer]
    BY <1>4, <1>6 DEF KeysInv
  <1>8. OriginDecidesAdmission'
    <2> SUFFICES ASSUME NEW q \in Requests
                 PROVE  /\ keyRequests'[q].answer = "origin" =>
                             ~AddressAllowed(keyRequests'[q].from, keyRequests'[q].allowed)
                        /\ keyRequests'[q].answer \in {"scope", "ok"} =>
                             AddressAllowed(keyRequests'[q].from, keyRequests'[q].allowed)
      BY DEF OriginDecidesAdmission
    <2>1. keyRequests'[q] = IF q = r THEN judged ELSE keyRequests[q]
      BY <1>6 DEF KeysInv
    <2> QED
      BY <2>1, <1>5 DEF KeysInv, OriginDecidesAdmission
  <1> QED
    BY <1>2, <1>7, <1>8 DEF KeysInv

LEMMA KeysInvStays == KeysInv /\ KeysNext => KeysInv'
  <1> SUFFICES ASSUME KeysInv, KeysNext
               PROVE  KeysInv'
    OBVIOUS
  <1>1. ASSUME NEW k \in Keys, CreateKey(k)
        PROVE  KeysInv'
    <2>1. PICK scopes \in SUBSET Scopes \ {{}}, allowed \in AllowLists :
            keys' = [keys EXCEPT ![k] = [state |-> "live", scopes |-> scopes, allowed |-> allowed]]
      BY <1>1 DEF CreateKey
    <2>2. [state |-> "live", scopes |-> scopes, allowed |-> allowed] \in Key
      BY DEF Key
    <2> QED
      BY <1>1, <2>1, <2>2, KeyWritten DEF CreateKey
  <1>2. ASSUME NEW k \in Keys, NEW o \in KeyOps, AskKeyChange(o, k)
        PROVE  KeysInv'
    <2>1. PICK op \in {"patch", "revoke"} : keyOps' = [keyOps EXCEPT ![o] = [op |-> op, key |-> k]]
      BY <1>2 DEF AskKeyChange
    <2>2. [op |-> op, key |-> k] \in KeyChange
      BY DEF KeyChange
    <2>3. keyOps' \in [KeyOps -> KeyChange] /\ \A q \in KeyOps : keyOps'[q].op # "none" => keyOps'[q].key \in Keys
      BY <2>1, <2>2 DEF KeysInv
    <2> QED
      BY <1>2, <2>3 DEF KeysInv, AskKeyChange, OriginDecidesAdmission
  <1>3. ASSUME NEW o \in KeyOps, PatchKey(o)
        PROVE  KeysInv'
    <2> DEFINE k == keyOps[o].key
    <2>1. k \in Keys /\ keys[k] \in Key
      BY <1>3 DEF PatchKey, KeysInv
    <2>2. PICK scopes \in SUBSET Scopes \ {{}}, allowed \in AllowLists :
            \E changed \in {<<scopes, keys[k].allowed>>, <<keys[k].scopes, allowed>>, <<scopes, allowed>>} :
              keys' = [keys EXCEPT ![k].scopes = changed[1], ![k].allowed = changed[2]]
      BY <1>3 DEF PatchKey
    <2>3. PICK changed \in {<<scopes, keys[k].allowed>>, <<keys[k].scopes, allowed>>, <<scopes, allowed>>} :
            keys' = [keys EXCEPT ![k].scopes = changed[1], ![k].allowed = changed[2]]
      BY <2>2
    <2>4. changed[1] \in SUBSET (Scopes \cup {"*"}) /\ changed[2] \in AllowLists
      BY <2>1, <2>3 DEF Key
    <2>5. [keys[k] EXCEPT !.scopes = changed[1], !.allowed = changed[2]] \in Key
      BY <2>1, <2>4 DEF Key
    <2>6. keys' = [keys EXCEPT ![k] = [keys[k] EXCEPT !.scopes = changed[1], !.allowed = changed[2]]]
      BY <2>1, <2>3 DEF KeysInv
    <2>7. UNCHANGED <<closed, keyRequests>> /\ keyOps' = [keyOps EXCEPT ![o] = IdleKeyOp]
      BY <1>3 DEF PatchKey
    <2> QED
      BY <2>1, <2>5, <2>6, <2>7, KeyWritten
  <1>4. ASSUME NEW o \in KeyOps, RevokeKey(o)
        PROVE  KeysInv'
    <2> DEFINE k == keyOps[o].key
    <2>1. k \in Keys /\ keys[k] \in Key
      BY <1>4 DEF RevokeKey, KeysInv
    <2>2. [keys[k] EXCEPT !.state = "revoked"] \in Key
      BY <2>1 DEF Key
    <2>3. keys' = [keys EXCEPT ![k] = [keys[k] EXCEPT !.state = "revoked"]]
      BY <1>4, <2>1 DEF RevokeKey, KeysInv
    <2>4. UNCHANGED <<closed, keyRequests>> /\ keyOps' = [keyOps EXCEPT ![o] = IdleKeyOp]
      BY <1>4 DEF RevokeKey
    <2> QED
      BY <2>1, <2>2, <2>3, <2>4, KeyWritten
  <1>5. CASE CloseOrReopen
    BY <1>5 DEF CloseOrReopen, KeysInv, OriginDecidesAdmission
  <1>6. ASSUME NEW r \in Requests, EndKeyRequest(r)
        PROVE  KeysInv'
    <2>1. NewRequest \in KeyAnswer /\ NewRequest.answer = "none"
      BY KeysAssumption DEF NewRequest, KeyAnswer
    <2>2. keyRequests' = [keyRequests EXCEPT ![r] = NewRequest] /\ UNCHANGED <<closed, keys, keyOps>>
      BY <1>6 DEF EndKeyRequest
    <2>3. keyRequests' \in [Requests -> KeyAnswer]
      BY <2>1, <2>2 DEF KeysInv
    <2>4. OriginDecidesAdmission'
      <3>1. ASSUME NEW q \in Requests
            PROVE  keyRequests'[q] = IF q = r THEN NewRequest ELSE keyRequests[q]
        BY <2>2 DEF KeysInv
      <3> QED
        BY <2>1, <3>1 DEF KeysInv, OriginDecidesAdmission
    <2> QED
      BY <2>2, <2>3, <2>4 DEF KeysInv
  <1>7. ASSUME NEW r \in Requests, NEW k \in Keys, VerifyScope(r, k)
        PROVE  KeysInv'
    BY <1>7, ScopesAreVerified
  <1> QED
    BY <1>1, <1>2, <1>3, <1>4, <1>5, <1>6, <1>7 DEF KeysNext

LEMMA KeysInvExplains == KeysInv => KeysTypeOK /\ OriginDecidesAdmission
  BY DEF KeysInv, KeysTypeOK, KeyChange, KeyAnswer

-----------------------------------------------------------------------------
(* The page that imports contacts.                                         *)

Page == [upload: Uploads \cup {NoFile}, job: Uploads \cup {NoFile}, result: Uploads \cup {NoFile}]
JobRead == [of: Uploads, state: {"asked", "queued"} \cup JobOver]
Doubt == [untold: SUBSET Uploads, broken: SUBSET Uploads, crossed: SUBSET Uploads]

\* Every upload under way but this one is of a page that was left.
OthersUntold(f) == \A g \in Uploads : importJobs[g] = "posted" /\ g # f => g \in doubts.untold

\* The page is of an upload that came alone, and of nothing else.
SoloUpload(f) ==
  /\ importer.job = NoFile /\ importer.result = NoFile /\ replies = {} /\ intervals = {}
  /\ importJobs[f] = "posted" /\ f \notin doubts.untold /\ OthersUntold(f)

SoloJob(f) ==
  /\ importer.upload = NoFile /\ importer.result = NoFile
  /\ (\A r \in replies : r.of = f) /\ intervals \subseteq {f} /\ OthersUntold(f)
  /\ importJobs[f] \in JobOver \cup {"queued"}

ImportTypes ==
  /\ importJobs \in [Uploads -> {"free", "posted", "queued"} \cup JobOver]
  /\ importer \in Page /\ intervals \subseteq Uploads /\ replies \subseteq JobRead
  /\ doubts \in Doubt /\ \A f \in doubts.untold \cup doubts.crossed : importJobs[f] # "free"

\* Only a job in the queue, or one that left it, is asked about; an answer that
\* it is over stays true.
AskedOfJobs ==
  /\ \A f \in intervals : importJobs[f] \in JobOver \cup {"queued"}
  /\ \A r \in replies : /\ importJobs[r.of] \in JobOver \cup {"queued"}
                        /\ r.state \in JobOver => importJobs[r.of] \in JobOver

ImportInv ==
  /\ ImportTypes /\ AskedOfJobs
  /\ importer.upload \notin doubts.crossed \cup {NoFile} => SoloUpload(importer.upload)
  /\ importer.job \notin doubts.crossed \cup {NoFile} => SoloJob(importer.job)
  /\ \A f \in Uploads \ (doubts.untold \cup doubts.crossed) :
       /\ importJobs[f] = "posted" => importer.upload = f
       /\ importJobs[f] = "queued" => importer.job = f
  /\ importer.job # NoFile => importer.job \in intervals \cup doubts.broken

LEMMA ImportInvInit == ImportInit => ImportInv
  BY DEF ImportInit, ImportInv, ImportTypes, AskedOfJobs, EmptyImporter, Page, Doubt, JobOver

LEMMA ImportInvStutters == ImportInv /\ UNCHANGED importVars => ImportInv'
  BY DEF ImportInv, ImportTypes, AskedOfJobs, SoloUpload, SoloJob, OthersUntold, importVars

\* A file is given to the page.
LEMMA FileIsHandled ==
  ASSUME ImportInv, NEW f \in Uploads, HandleFile(f), ~IsProcessing \/ importer.result # NoFile
  PROVE  ImportInv'
  <1>1. /\ importJobs \in [Uploads -> {"free", "posted", "queued"} \cup JobOver]
        /\ importer \in Page /\ doubts \in Doubt /\ importJobs[f] = "free"
        /\ f \notin doubts.untold /\ f \notin doubts.crossed
        /\ UNCHANGED <<intervals, replies>> /\ f # NoFile
    BY ImportPageAssumption DEF HandleFile, ImportInv, ImportTypes
  <1>2. /\ importJobs' = [importJobs EXCEPT ![f] = "posted"]
        /\ importJobs' \in [Uploads -> {"free", "posted", "queued"} \cup JobOver]
        /\ importJobs'[f] = "posted" /\ \A g \in Uploads : g # f => importJobs'[g] = importJobs[g]
    BY <1>1 DEF HandleFile
  <1>3. importer' \in Page /\ importer'.upload = f /\ importer'.job = importer.job /\ importer'.result = NoFile
    BY <1>1 DEF HandleFile, Page
  <1>4. importer.upload \in doubts.crossed \cup {NoFile} /\ importer.job \in doubts.crossed \cup {NoFile}
    BY DEF ImportInv, SoloUpload, SoloJob, IsProcessing
  <1>5. CASE PageIsFree
    <2>1. /\ doubts' = doubts /\ replies = {} /\ intervals = {} /\ importer.job = NoFile
          /\ \A g \in Uploads \ doubts.untold : importJobs[g] # "posted"
      BY <1>5 DEF HandleFile, PageIsFree, IsProcessing
    <2>2. SoloUpload(f)'
      BY <1>1, <1>2, <1>3, <2>1 DEF SoloUpload, OthersUntold
    <2>3. ImportTypes' /\ AskedOfJobs'
      BY <1>1, <1>2, <1>3, <2>1 DEF ImportInv, ImportTypes, AskedOfJobs
    <2>4. ASSUME NEW g \in Uploads \ (doubts.untold \cup doubts.crossed)
          PROVE  /\ importJobs'[g] = "posted" => importer'.upload = g
                 /\ importJobs'[g] = "queued" => importer'.job = g
      BY <1>2, <1>3, <2>1 DEF ImportInv
    <2> QED
      BY <1>3, <2>1, <2>2, <2>3, <2>4 DEF ImportInv
  <1>6. CASE ~PageIsFree
    <2>1. doubts' = [doubts EXCEPT !.crossed = doubts.crossed \cup {f}]
      BY <1>6 DEF HandleFile
    <2>2. /\ doubts' \in Doubt /\ doubts'.crossed = doubts.crossed \cup {f}
          /\ doubts'.untold = doubts.untold /\ doubts'.broken = doubts.broken
      BY <1>1, <2>1 DEF Doubt
    <2>3. ImportTypes'
      BY <1>1, <1>2, <1>3, <2>2 DEF ImportInv, ImportTypes
    <2>4. AskedOfJobs'
      <3>1. \A r \in replies : r.of \in Uploads
        BY DEF ImportInv, ImportTypes, JobRead
      <3>2. \A g \in Uploads : importJobs[g] \in JobOver \cup {"queued"} => importJobs'[g] = importJobs[g]
        BY <1>1, <1>2 DEF JobOver
      <3>3. \A g \in intervals : g \in Uploads
        BY DEF ImportInv, ImportTypes
      <3> QED
        BY <1>1, <3>1, <3>2, <3>3 DEF ImportInv, AskedOfJobs
    <2>5. ASSUME NEW g \in Uploads \ (doubts'.untold \cup doubts'.crossed)
          PROVE  /\ importJobs'[g] = "posted" => importer'.upload = g
                 /\ importJobs'[g] = "queued" => importer'.job = g
      BY <1>1, <1>2, <1>3, <1>4, <2>2, ImportPageAssumption DEF ImportInv
    <2> QED
      BY <1>1, <1>3, <1>4, <2>2, <2>3, <2>4, <2>5 DEF ImportInv
  <1> QED
    BY <1>5, <1>6

\* A change of the jobs that leaves the page and its questions alone.
LEMMA JobsMove ==
  ASSUME ImportInv, NEW f \in Uploads, NEW end \in JobOver \cup {"queued"},
         importJobs' = [importJobs EXCEPT ![f] = end], importJobs[f] \in {"posted", "queued"},
         end = "queued" => f \in doubts.untold,
         f = importer.upload => f \in doubts.crossed,
         UNCHANGED <<importer, intervals, replies, doubts>>
  PROVE  ImportInv'
  <1>1. /\ importJobs \in [Uploads -> {"free", "posted", "queued"} \cup JobOver]
        /\ importJobs' \in [Uploads -> {"free", "posted", "queued"} \cup JobOver]
        /\ importJobs'[f] = end /\ \A g \in Uploads : g # f => importJobs'[g] = importJobs[g]
        /\ end # "free" /\ end # "posted" /\ importer \in Page /\ "queued" \notin JobOver
    BY DEF ImportInv, ImportTypes, JobOver
  <1>2. ImportTypes'
    BY <1>1 DEF ImportInv, ImportTypes
  <1>3. AskedOfJobs'
    <2>1. \A g \in Uploads : importJobs[g] \in JobOver => importJobs'[g] \in JobOver
      BY <1>1 DEF JobOver
    <2>2. \A g \in Uploads : importJobs[g] \in JobOver \cup {"queued"} => importJobs'[g] \in JobOver \cup {"queued"}
      BY <1>1
    <2>3. (\A r \in replies : r.of \in Uploads) /\ intervals \subseteq Uploads
      BY DEF ImportInv, ImportTypes, JobRead
    <2> QED
      BY <2>1, <2>2, <2>3 DEF ImportInv, AskedOfJobs
  <1>4. ASSUME NEW g, OthersUntold(g) PROVE OthersUntold(g)'
    BY <1>1, <1>4 DEF OthersUntold
  <1>5. importer.upload \notin doubts.crossed \cup {NoFile} => SoloUpload(importer.upload)'
    BY <1>1, <1>4 DEF ImportInv, SoloUpload, Page
  <1>6. importer.job \notin doubts.crossed \cup {NoFile} => SoloJob(importer.job)'
    BY <1>1, <1>4 DEF ImportInv, SoloJob, Page
  <1> QED
    BY <1>1, <1>2, <1>3, <1>5, <1>6 DEF ImportInv

\* The upload whose answer arrives came alone, or the page is of crossed ones.
LEMMA WhoIsAnswered ==
  ASSUME ImportInv, NEW f \in Uploads, importJobs[f] = "posted", f \notin doubts.untold
  PROVE  \/ f \notin doubts.crossed /\ importer.upload = f /\ SoloUpload(f)
         \/ /\ f \in doubts.crossed /\ importer.upload \in doubts.crossed \cup {NoFile}
            /\ importer.job \in doubts.crossed \cup {NoFile}
  <1>1. CASE f \notin doubts.crossed
    BY <1>1, ImportPageAssumption DEF ImportInv
  <1>2. CASE f \in doubts.crossed
    BY <1>2 DEF ImportInv, SoloUpload, SoloJob, OthersUntold
  <1> QED
    BY <1>1, <1>2

LEMMA UploadAnswered ==
  ASSUME ImportInv, NEW f \in Uploads, NEW end \in JobOver, importJobs[f] = "posted", f \notin doubts.untold,
         importJobs' = [importJobs EXCEPT ![f] = end],
         importer' \in Page, importer'.upload = IF importer.upload = f THEN NoFile ELSE importer.upload,
         importer'.job = importer.job, UNCHANGED <<intervals, replies, doubts>>
  PROVE  ImportInv'
  <1>1. /\ importJobs \in [Uploads -> {"free", "posted", "queued"} \cup JobOver]
        /\ importJobs' \in [Uploads -> {"free", "posted", "queued"} \cup JobOver]
        /\ importJobs'[f] = end /\ \A g \in Uploads : g # f => importJobs'[g] = importJobs[g]
        /\ end # "free" /\ end # "posted" /\ end # "queued" /\ "posted" \notin JobOver
    BY DEF ImportInv, ImportTypes, JobOver
  <1>2. ImportTypes'
    BY <1>1 DEF ImportInv, ImportTypes
  <1>3. AskedOfJobs'
    <2>1. (\A r \in replies : r.of \in Uploads) /\ intervals \subseteq Uploads
      BY DEF ImportInv, ImportTypes, JobRead
    <2> QED
      BY <1>1, <2>1 DEF ImportInv, AskedOfJobs
  <1>4. importer'.upload \in doubts.crossed \cup {NoFile} /\ importer.job \in doubts.crossed \cup {NoFile}
    BY WhoIsAnswered DEF SoloUpload
  <1>5. ASSUME NEW g \in Uploads \ (doubts.untold \cup doubts.crossed)
        PROVE  /\ importJobs'[g] = "posted" => importer'.upload = g
               /\ importJobs'[g] = "queued" => importer'.job = g
    BY <1>1 DEF ImportInv
  <1> QED
    BY <1>1, <1>2, <1>3, <1>4, <1>5 DEF ImportInv

LEMMA UploadQueued ==
  ASSUME ImportInv, NEW f \in Uploads, QueuedForWorker(f), f \notin doubts.untold
  PROVE  ImportInv'
  <1>1. /\ importJobs \in [Uploads -> {"free", "posted", "queued"} \cup JobOver]
        /\ importJobs' \in [Uploads -> {"free", "posted", "queued"} \cup JobOver]
        /\ importJobs[f] = "posted" /\ importJobs'[f] = "queued"
        /\ \A g \in Uploads : g # f => importJobs'[g] = importJobs[g]
        /\ "posted" \notin JobOver /\ importer \in Page /\ doubts \in Doubt /\ f # NoFile
    BY ImportPageAssumption DEF QueuedForWorker, ImportInv, ImportTypes, JobOver
  <1>2. /\ importer' = [[importer EXCEPT !.job = f] EXCEPT !.upload = IF importer.upload = f THEN NoFile ELSE importer.upload]
        /\ intervals' = intervals \cup {f} /\ UNCHANGED <<replies, doubts>>
    <2>1. [importer EXCEPT !.job = f].upload = importer.upload
      BY <1>1 DEF Page
    <2> QED
      BY <2>1, <1>1 DEF QueuedForWorker, Answered, Page
  <1>3. /\ importer' \in Page /\ importer'.job = f /\ importer'.result = importer.result
        /\ importer'.upload = IF importer.upload = f THEN NoFile ELSE importer.upload
    BY <1>1, <1>2 DEF Page
  <1>4. ImportTypes'
    <2>1. intervals' \subseteq Uploads /\ replies' \subseteq JobRead
      BY <1>2 DEF ImportInv, ImportTypes
    <2>2. \A g \in Uploads : importJobs[g] # "free" => importJobs'[g] # "free"
      BY <1>1
    <2>3. \A g \in doubts.untold \cup doubts.crossed : g \in Uploads /\ importJobs[g] # "free"
      BY DEF ImportInv, ImportTypes, Doubt
    <2> QED
      BY <1>1, <1>2, <1>3, <2>1, <2>2, <2>3 DEF ImportTypes
  <1>5. AskedOfJobs'
    <2>1. (\A r \in replies : r.of \in Uploads) /\ intervals \subseteq Uploads
      BY DEF ImportInv, ImportTypes, JobRead
    <2> QED
      BY <1>1, <1>2, <2>1 DEF ImportInv, AskedOfJobs
  <1>6. CASE f \notin doubts.crossed /\ importer.upload = f /\ SoloUpload(f)
    <2>1. SoloJob(f)'
      BY <1>1, <1>2, <1>3, <1>6 DEF SoloUpload, SoloJob, OthersUntold
    <2>2. ASSUME NEW g \in Uploads \ (doubts.untold \cup doubts.crossed)
          PROVE  /\ importJobs'[g] = "posted" => importer'.upload = g
                 /\ importJobs'[g] = "queued" => importer'.job = g
      BY <1>1, <1>3, <1>6, ImportPageAssumption DEF ImportInv, SoloUpload
    <2> QED
      BY <1>2, <1>3, <1>4, <1>5, <1>6, <2>1, <2>2 DEF ImportInv
  <1>7. CASE /\ f \in doubts.crossed /\ importer.upload \in doubts.crossed \cup {NoFile}
             /\ importer.job \in doubts.crossed \cup {NoFile}
    <2>2. ASSUME NEW g \in Uploads \ (doubts.untold \cup doubts.crossed)
          PROVE  /\ importJobs'[g] = "posted" => importer'.upload = g
                 /\ importJobs'[g] = "queued" => importer'.job = g
      BY <1>1, <1>3, <1>7, ImportPageAssumption DEF ImportInv
    <2> QED
      BY <1>2, <1>3, <1>4, <1>5, <1>7, <2>2 DEF ImportInv
  <1> QED
    BY <1>1, <1>6, <1>7, WhoIsAnswered

LEMMA UploadIsLost ==
  ASSUME ImportInv, NEW f \in Uploads, UploadFails(f)
  PROVE  ImportInv'
  <1>1. /\ importJobs \in [Uploads -> {"free", "posted", "queued"} \cup JobOver]
        /\ importer \in Page /\ doubts \in Doubt /\ f # NoFile
        /\ importJobs[f] = "posted" /\ f \notin doubts.untold /\ UNCHANGED <<importJobs, intervals, replies>>
    BY ImportPageAssumption DEF UploadFails, ImportInv, ImportTypes
  <1>2. /\ importer' = [importer EXCEPT !.upload = IF importer.upload = f THEN NoFile ELSE importer.upload]
        /\ doubts' = [doubts EXCEPT !.untold = doubts.untold \cup {f}]
    BY <1>1 DEF UploadFails, Answered
  <1>3. /\ importer' \in Page /\ importer'.job = importer.job /\ importer'.result = importer.result
        /\ importer'.upload = IF importer.upload = f THEN NoFile ELSE importer.upload
        /\ doubts' \in Doubt /\ doubts'.untold = doubts.untold \cup {f}
        /\ doubts'.broken = doubts.broken /\ doubts'.crossed = doubts.crossed
    BY <1>1, <1>2 DEF Page, Doubt
  <1>4. ImportTypes' /\ AskedOfJobs'
    BY <1>1, <1>3 DEF ImportInv, ImportTypes, AskedOfJobs
  <1>5. importer'.upload \in doubts.crossed \cup {NoFile} /\ importer.job \in doubts.crossed \cup {NoFile}
    BY <1>1, <1>3, WhoIsAnswered DEF SoloUpload
  <1>6. ASSUME NEW g \in Uploads \ (doubts'.untold \cup doubts.crossed)
        PROVE  /\ importJobs[g] = "posted" => importer'.upload = g
               /\ importJobs[g] = "queued" => importer'.job = g
    BY <1>1, <1>3 DEF ImportInv
  <1> QED
    BY <1>1, <1>3, <1>4, <1>5, <1>6 DEF ImportInv

LEMMA JobsAreAskedAbout ==
  ASSUME ImportInv, NEW f \in Uploads, PollProgress(f)
  PROVE  ImportInv'
  <1> DEFINE new == [of |-> f, state |-> "asked"]
  <1>1. /\ f \in intervals /\ replies' = replies \cup {new}
        /\ UNCHANGED <<importJobs, importer, intervals, doubts>>
    BY DEF PollProgress
  <1>2. new \in JobRead /\ new.of = f /\ new.state \notin JobOver
    BY DEF JobRead, JobOver
  <1>3. importJobs[f] \in JobOver \cup {"queued"}
    BY <1>1 DEF ImportInv, AskedOfJobs
  <1> HIDE DEF new
  <1>4. ImportTypes' /\ AskedOfJobs'
    BY <1>1, <1>2, <1>3 DEF ImportInv, ImportTypes, AskedOfJobs
  <1>5. importer.upload \in doubts.crossed \cup {NoFile}
    BY <1>1 DEF ImportInv, SoloUpload
  <1>6. importer.job \notin doubts.crossed \cup {NoFile} => SoloJob(importer.job)'
    BY <1>1, <1>2 DEF ImportInv, SoloJob, OthersUntold
  <1> QED
    BY <1>1, <1>4, <1>5, <1>6 DEF ImportInv

LEMMA JobsAreRead ==
  ASSUME ImportInv, NEW r \in replies, ReadJob(r)
  PROVE  ImportInv'
  <1> DEFINE new == [r EXCEPT !.state = importJobs[r.of]]
  <1>0. r \in JobRead /\ importJobs[r.of] \in JobOver \cup {"queued"}
    BY DEF ImportInv, ImportTypes, AskedOfJobs
  <1>1. /\ replies' = (replies \ {r}) \cup {new}
        /\ UNCHANGED <<importJobs, importer, intervals, doubts>>
    BY DEF ReadJob
  <1>2. new \in JobRead /\ new.of = r.of /\ new.state = importJobs[r.of]
    BY <1>0 DEF JobRead
  <1> HIDE DEF new
  <1>4. ImportTypes' /\ AskedOfJobs'
    BY <1>0, <1>1, <1>2 DEF ImportInv, ImportTypes, AskedOfJobs
  <1>5. importer.upload \in doubts.crossed \cup {NoFile}
    BY DEF ImportInv, SoloUpload
  <1>6. importer.job \notin doubts.crossed \cup {NoFile} => SoloJob(importer.job)'
    BY <1>1, <1>2 DEF ImportInv, SoloJob, OthersUntold
  <1> QED
    BY <1>1, <1>4, <1>5, <1>6 DEF ImportInv

LEMMA RepliesArrive ==
  ASSUME ImportInv, NEW r \in replies, ReplyArrives(r)
  PROVE  ImportInv'
  <1>0. /\ r \in JobRead /\ importJobs[r.of] \in JobOver \cup {"queued"}
        /\ r.state \in JobOver => importJobs[r.of] \in JobOver
        /\ importer \in Page /\ "queued" \notin JobOver
    BY DEF ImportInv, ImportTypes, AskedOfJobs, JobOver
  <1>1. replies' = replies \ {r} /\ UNCHANGED <<importJobs, doubts>>
    BY DEF ReplyArrives
  <1>2. importer.upload \in doubts.crossed \cup {NoFile}
    BY DEF ImportInv, SoloUpload
  <1>3. CASE r.state \in JobOver
    <2>1. /\ intervals' = intervals \ {r.of}
          /\ importer' = [importer EXCEPT !.job = NoFile,
                            !.result = IF r.state = "completed" THEN r.of ELSE importer.result]
      BY <1>0, <1>3 DEF ReplyArrives, AskedAfter, IsOver
    <2>2. r.of \in Uploads
      BY <1>0 DEF JobRead
    <2>3. importer' \in Page /\ importer'.job = NoFile /\ importer'.upload = importer.upload
      BY <1>0, <2>1, <2>2 DEF Page
    <2>4. ImportTypes' /\ AskedOfJobs'
      BY <1>1, <2>1, <2>3 DEF ImportInv, ImportTypes, AskedOfJobs
    <2>5. ASSUME NEW g \in Uploads \ (doubts.untold \cup doubts.crossed)
          PROVE  importJobs[g] # "posted" /\ importJobs[g] # "queued"
      <3>1. g # NoFile /\ g \notin doubts.crossed
        BY ImportPageAssumption
      <3>2. importJobs[g] # "posted"
        BY <3>1, <1>2, <2>5 DEF ImportInv
      <3>3. importJobs[g] = "queued" => importer.job = g /\ SoloJob(g)
        BY <3>1, <2>5 DEF ImportInv
      <3> QED
        BY <1>0, <1>3, <3>2, <3>3 DEF SoloJob
    <2> QED
      BY <1>1, <1>2, <2>3, <2>4, <2>5 DEF ImportInv
  <1>4. CASE r.state \notin JobOver
    <2>1. UNCHANGED <<intervals, importer>>
      BY <1>4 DEF ReplyArrives, AskedAfter, IsOver
    <2> QED
      BY <1>1, <1>2, <2>1 DEF ImportInv, ImportTypes, AskedOfJobs, SoloJob, OthersUntold
  <1> QED
    BY <1>3, <1>4

LEMMA RepliesFail ==
  ASSUME ImportInv, NEW r \in replies, ReplyFails(r)
  PROVE  ImportInv'
  <1>1. /\ replies' = replies \ {r} /\ intervals' = intervals \ {r.of} /\ UNCHANGED <<importJobs, importer>>
        /\ doubts' = [doubts EXCEPT !.broken = doubts.broken \cup {r.of}]
        /\ r.of \in Uploads /\ doubts \in Doubt
    BY DEF ReplyFails, ImportInv, ImportTypes, JobRead
  <1>2. /\ doubts' \in Doubt /\ doubts'.untold = doubts.untold /\ doubts'.crossed = doubts.crossed
        /\ doubts'.broken = doubts.broken \cup {r.of}
    BY <1>1 DEF Doubt
  <1>3. ImportTypes' /\ AskedOfJobs'
    BY <1>1, <1>2 DEF ImportInv, ImportTypes, AskedOfJobs
  <1>4. importer.upload \in doubts.crossed \cup {NoFile}
    BY DEF ImportInv, SoloUpload
  <1>5. importer.job \notin doubts.crossed \cup {NoFile} => SoloJob(importer.job)'
    BY <1>1, <1>2 DEF ImportInv, SoloJob, OthersUntold
  <1> QED
    BY <1>1, <1>2, <1>3, <1>4, <1>5 DEF ImportInv

LEMMA PageIsLeft == ASSUME ImportInv, LeaveImportPage PROVE ImportInv'
  <1> DEFINE left == {f \in Uploads : importJobs[f] \in {"posted", "queued"}}
  <1>1. /\ importer' = EmptyImporter /\ intervals' = {} /\ replies' = {} /\ UNCHANGED importJobs
        /\ doubts' = [doubts EXCEPT !.untold = doubts.untold \cup left] /\ doubts \in Doubt
    BY DEF LeaveImportPage, ImportInv, ImportTypes
  <1>2. /\ doubts' \in Doubt /\ doubts'.untold = doubts.untold \cup left /\ doubts'.crossed = doubts.crossed
        /\ importer' \in Page /\ importer'.upload = NoFile /\ importer'.job = NoFile
    BY <1>1 DEF Doubt, EmptyImporter, Page
  <1>3. ImportTypes' /\ AskedOfJobs'
    BY <1>1, <1>2 DEF ImportInv, ImportTypes, AskedOfJobs
  <1> QED
    BY <1>1, <1>2, <1>3 DEF ImportInv

LEMMA ImportInvStays == ImportInv /\ ImportNext => ImportInv'
  <1> SUFFICES ASSUME ImportInv, ImportNext
               PROVE  ImportInv'
    OBVIOUS
  <1>1. ASSUME NEW f \in Uploads, DropFile(f) \/ ImportAnother(f)
        PROVE  ImportInv'
    BY <1>1, FileIsHandled DEF DropFile, ImportAnother
  <1>2. ASSUME NEW f \in Uploads, ImportedAtOnce(f) \/ ImportRefused(f) \/ QueuedForWorker(f), f \in doubts.untold
        PROVE  ImportInv'
    <2>1. importJobs[f] = "posted" /\ UNCHANGED <<importer, intervals, replies, doubts>>
      BY <1>2 DEF ImportedAtOnce, ImportRefused, QueuedForWorker, Answered
    <2>2. PICK end \in JobOver \cup {"queued"} : importJobs' = [importJobs EXCEPT ![f] = end]
      BY <1>2 DEF ImportedAtOnce, ImportRefused, QueuedForWorker, JobOver
    <2>3. f = importer.upload => f \in doubts.crossed
      BY <1>2, ImportPageAssumption DEF ImportInv, SoloUpload
    <2> QED
      BY <1>2, <2>1, <2>2, <2>3, JobsMove
  <1>3. ASSUME NEW f \in Uploads, ImportedAtOnce(f), f \notin doubts.untold
        PROVE  ImportInv'
    <2>1. importer \in Page
      BY DEF ImportInv, ImportTypes
    <2>2. importer' = [[importer EXCEPT !.result = f] EXCEPT !.upload = IF importer.upload = f THEN NoFile ELSE importer.upload]
      <3>1. [importer EXCEPT !.result = f].upload = importer.upload
        BY <2>1 DEF Page
      <3> QED
        BY <1>3, <3>1 DEF ImportedAtOnce, Answered
    <2>3. /\ importer' \in Page /\ importer'.upload = IF importer.upload = f THEN NoFile ELSE importer.upload
          /\ importer'.job = importer.job
      BY <2>1, <2>2 DEF Page
    <2> QED
      BY <1>3, <2>3, UploadAnswered DEF ImportedAtOnce, JobOver
  <1>4. ASSUME NEW f \in Uploads, ImportRefused(f), f \notin doubts.untold
        PROVE  ImportInv'
    <2>1. importer \in Page
      BY DEF ImportInv, ImportTypes
    <2>2. importer' = [importer EXCEPT !.upload = IF importer.upload = f THEN NoFile ELSE importer.upload]
      BY <1>4 DEF ImportRefused, Answered
    <2>3. /\ importer' \in Page /\ importer'.upload = IF importer.upload = f THEN NoFile ELSE importer.upload
          /\ importer'.job = importer.job
      BY <2>1, <2>2 DEF Page
    <2> QED
      BY <1>4, <2>3, UploadAnswered DEF ImportRefused, JobOver
  <1>5. ASSUME NEW f \in Uploads, WorkerEnds(f)
        PROVE  ImportInv'
    <2>1. f = importer.upload => f \in doubts.crossed
      BY <1>5, ImportPageAssumption DEF WorkerEnds, ImportInv, SoloUpload
    <2>2. PICK end \in JobOver : importJobs' = [importJobs EXCEPT ![f] = end]
      BY <1>5 DEF WorkerEnds
    <2>3. end # "queued"
      BY DEF JobOver
    <2> QED
      BY <1>5, <2>1, <2>2, <2>3, JobsMove DEF WorkerEnds
  <1> QED
    BY <1>1, <1>2, <1>3, <1>4, <1>5, UploadQueued, UploadIsLost, JobsAreAskedAbout, JobsAreRead,
       RepliesArrive, RepliesFail, PageIsLeft
    DEF ImportNext

LEMMA ImportInvExplains == ImportInv => ImportTypeOK /\ ImportIsFollowed
  <1> SUFFICES ASSUME ImportInv
               PROVE  ImportTypeOK /\ ImportIsFollowed
    OBVIOUS
  <1>1. importer \in Page
    BY DEF ImportInv, ImportTypes
  <1>2. importer \in [{"upload", "job", "result"} -> Uploads \cup {NoFile}]
    BY <1>1 DEF Page
  <1>3. ImportTypeOK
    BY <1>2 DEF ImportInv, ImportTypes, ImportTypeOK, JobRead
  <1>4. ASSUME importer.result # NoFile, IsProcessing
        PROVE  {importer.upload, importer.job} \cap doubts.crossed # {}
    BY <1>4 DEF ImportInv, SoloUpload, SoloJob, IsProcessing
  <1> QED
    BY <1>3, <1>4 DEF ImportInv, ImportIsFollowed

-----------------------------------------------------------------------------
(* Making a campaign.                                                      *)

FormRow == [mode: {"none", "VOICE_AI", "FIXED_SCRIPT"}, chosen: {"none", "agent", "script", "both"},
            hours: {"none", "now", "window", "empty"}, picked: SUBSET Listed]
PressRow == [at: {"idle", "creating", "inserting", "adding", "storing", "launching", "running", "done"},
             id: 0..MaxCampaigns, sent: [agent: BOOLEAN, picked: SUBSET Listed]]
CampaignRow == [status: {"none", "DRAFT", "RUNNING", "CANCELLED"}, by: Makers \cup {"none"},
                members: SUBSET Listed, whole: SUBSET Listed]
HasCampaign == {"adding", "storing", "launching", "running"}

\* A campaign has all its contacts or none, and runs only with all of them.
WholeOrEmpty(c) ==
  IF c.status = "none" THEN c.by = "none" /\ c.members = {}
  ELSE /\ c.by \in Makers /\ c.whole # {} /\ c.members \in {{}, c.whole}
       /\ c.status = "RUNNING" => c.members = c.whole

\* A mutation under way that has its campaign is of a campaign of its maker,
\* with the people its maker picked.
PressIsOf(b, p, ms) ==
  /\ p.at \notin HasCampaign => p.id = 0
  /\ p.at \in {"creating", "inserting"} => p.sent.picked # {}
  /\ p.at \in HasCampaign =>
       /\ p.id \in Campaigns /\ ms[p.id].status # "none" /\ ms[p.id].by = b
       /\ ms[p.id].whole = p.sent.picked /\ p.sent.picked # {}
       /\ p.at \in {"launching", "running"} => ms[p.id].members = ms[p.id].whole

Partial(c) == c.status = "DRAFT" /\ c.members # c.whole

\* With no excuse, one button has been pressed, and it made one campaign.
OnePress(ps, ms) ==
  /\ \A b, d \in Buttons : ps[b].at # "idle" /\ ps[d].at # "idle" => b = d
  /\ \A k \in Campaigns : ms[k].by \in Buttons => ps[ms[k].by].at \in HasCampaign \cup {"done"}
  /\ \A k, j \in Campaigns : ms[k].by \in Buttons /\ ms[j].by \in Buttons => k = j

FormSound(ps, ms, why, n) ==
  /\ ps \in [Makers -> PressRow] /\ ms \in [Campaigns -> CampaignRow]
  /\ why \subseteq {"error", "both"} /\ n \in Nat
  /\ \A k \in Campaigns : WholeOrEmpty(ms[k])
  /\ \A b \in Makers : PressIsOf(b, ps[b], ms)
  /\ \A k \in Campaigns : Partial(ms[k]) => n > 0 \/ \E b \in Makers : ps[b].id = k
  /\ why = {} => OnePress(ps, ms)

FormInv == form \in FormRow /\ FormSound(presses, made, excuses, lost)

LEMMA FormInvInit == FormInit => FormInv
  <1> SUFFICES ASSUME FormInit
               PROVE  FormInv
    OBVIOUS
  <1>1. NoPress \in PressRow /\ NoPress.at = "idle" /\ NoPress.id = 0 /\ NoCampaign \in CampaignRow
    BY CampaignFormAssumption DEF NoPress, PressRow, NoCampaign, CampaignRow
  <1>2. form \in FormRow
    BY CampaignFormAssumption DEF FormInit, FormRow
  <1>3. /\ presses \in [Makers -> PressRow] /\ \A b \in Makers : presses[b] = NoPress
        /\ made \in [Campaigns -> CampaignRow] /\ \A k \in Campaigns : made[k] = NoCampaign
        /\ excuses = {} /\ lost = 0 /\ Buttons \subseteq Makers
    BY <1>1 DEF FormInit, Makers
  <1>4. WholeOrEmpty(NoCampaign) /\ ~Partial(NoCampaign) /\ NoCampaign.by \notin Buttons
    BY DEF WholeOrEmpty, Partial, NoCampaign, Buttons
  <1>5. \A b \in Makers : PressIsOf(b, NoPress, made)
    BY <1>1 DEF PressIsOf, HasCampaign
  <1>6. OnePress(presses, made)
    BY <1>1, <1>3, <1>4 DEF OnePress
  <1> QED
    BY <1>2, <1>3, <1>4, <1>5, <1>6 DEF FormInv, FormSound

LEMMA FormInvStutters == FormInv /\ UNCHANGED formVars => FormInv'
  BY DEF FormInv, formVars

\* A mutation moves on, and nothing is written.
LEMMA PressMoves ==
  ASSUME NEW ps, NEW ms, NEW why, NEW n, FormSound(ps, ms, why, n),
         NEW b \in Makers, NEW p \in PressRow, PressIsOf(b, p, ms),
         NEW more \in SUBSET {"error", "both"}, why \subseteq more, NEW m \in Nat, m >= n,
         \/ m > 0 \/ p.id = ps[b].id \/ ps[b].id = 0
         \/ (ps[b].id \in Campaigns /\ ~Partial(ms[ps[b].id])),
         \/ more # {} \/ b \notin Buttons
         \/ /\ p.at # "idle" /\ (ps[b].at = "idle" => \A d \in Buttons \ {b} : ps[d].at = "idle")
            /\ ps[b].at \in HasCampaign => p.at \in HasCampaign \cup {"done"}
            /\ ps[b].at # "done"
  PROVE  FormSound([ps EXCEPT ![b] = p], ms, more, m)
  <1> DEFINE new == [ps EXCEPT ![b] = p]
  <1>1. new \in [Makers -> PressRow] /\ \A d \in Makers : new[d] = IF d = b THEN p ELSE ps[d]
    BY DEF FormSound
  <1>2. ms \in [Campaigns -> CampaignRow] /\ n \in Nat /\ Buttons \subseteq Makers
    BY DEF FormSound, Makers
  <1> HIDE DEF new
  <1>3. \A d \in Makers : PressIsOf(d, new[d], ms)
    BY <1>1 DEF FormSound
  <1>4. ASSUME NEW k \in Campaigns, Partial(ms[k])
        PROVE  m > 0 \/ \E d \in Makers : new[d].id = k
    <2>1. n > 0 \/ \E d \in Makers : ps[d].id = k
      BY <1>4 DEF FormSound
    <2>2. CASE n > 0
      BY <1>2, <2>2
    <2>3. CASE \E d \in Makers : ps[d].id = k
      <3>1. PICK d \in Makers : ps[d].id = k
        BY <2>3
      <3>2. k # 0
        BY CampaignFormAssumption DEF Campaigns
      <3> QED
        BY <1>1, <1>4, <3>1, <3>2
    <2> QED
      BY <2>1, <2>2, <2>3
  <1>5. more = {} => OnePress(new, ms)
    <2> SUFFICES ASSUME more = {}
                 PROVE  OnePress(new, ms)
      OBVIOUS
    <2>1. OnePress(ps, ms)
      BY DEF FormSound
    <2>2. CASE b \notin Buttons
      BY <1>1, <1>2, <2>1, <2>2 DEF OnePress
    <2>3. CASE b \in Buttons
      <3>1. /\ p.at # "idle" /\ (ps[b].at = "idle" => \A d \in Buttons \ {b} : ps[d].at = "idle")
            /\ ps[b].at \in HasCampaign => p.at \in HasCampaign \cup {"done"}
            /\ ps[b].at # "done"
        BY <2>3
      <3>2. \A d \in Buttons : new[d].at # "idle" => (d = b \/ ps[d].at # "idle")
        BY <1>1, <1>2
      <3>3. \A d \in Buttons : d # b /\ new[d].at # "idle" => ps[b].at # "idle"
        BY <1>1, <1>2, <3>1
      <3>4. \A c, d \in Buttons : new[c].at # "idle" /\ new[d].at # "idle" => c = d
        BY <2>1, <2>3, <3>2, <3>3 DEF OnePress
      <3>5. \A k \in Campaigns : ms[k].by \in Buttons => new[ms[k].by].at \in HasCampaign \cup {"done"}
        BY <1>1, <1>2, <2>1, <3>1 DEF OnePress
      <3> QED
        BY <2>1, <3>4, <3>5 DEF OnePress
    <2> QED
      BY <2>2, <2>3
  <1>6. \A k \in Campaigns : WholeOrEmpty(ms[k])
    BY DEF FormSound
  <1>7. FormSound(new, ms, more, m)
    BY <1>1, <1>2, <1>3, <1>4, <1>5, <1>6 DEF FormSound
  <1> QED
    BY <1>7 DEF new

\* A campaign that exists is written: it gets its people, or another status.
LEMMA CampaignWritten ==
  ASSUME NEW ps, NEW ms, NEW why, NEW n, FormSound(ps, ms, why, n),
         NEW k \in Campaigns, ms[k].status # "none",
         NEW c \in CampaignRow, c.status # "none", c.by = ms[k].by, c.whole = ms[k].whole,
         c.members \in {ms[k].members, c.whole}, c.status = "RUNNING" => c.members = c.whole,
         Partial(c) => Partial(ms[k])
  PROVE  FormSound(ps, [ms EXCEPT ![k] = c], why, n)
  <1> DEFINE new == [ms EXCEPT ![k] = c]
  <1>1. new \in [Campaigns -> CampaignRow] /\ \A j \in Campaigns : new[j] = IF j = k THEN c ELSE ms[j]
    BY DEF FormSound
  <1> HIDE DEF new
  <1>2. \A j \in Campaigns : WholeOrEmpty(new[j])
    <2>1. WholeOrEmpty(c)
      BY DEF FormSound, WholeOrEmpty
    <2> QED
      BY <1>1, <2>1 DEF FormSound
  <1>3. \A j \in Campaigns : /\ new[j].by = ms[j].by /\ new[j].whole = ms[j].whole
                             /\ ms[j].status # "none" => new[j].status # "none"
                             /\ ms[j].members = ms[j].whole => new[j].members = new[j].whole
                             /\ Partial(new[j]) => Partial(ms[j])
    BY <1>1
  <1>4. ASSUME NEW b \in Makers
        PROVE  PressIsOf(b, ps[b], new)
    <2>1. PressIsOf(b, ps[b], ms)
      BY DEF FormSound
    <2>2. CASE ps[b].at \in HasCampaign
      <3>1. ps[b].id \in Campaigns
        BY <2>1, <2>2 DEF PressIsOf
      <3>2. /\ new[ps[b].id].by = ms[ps[b].id].by /\ new[ps[b].id].whole = ms[ps[b].id].whole
            /\ ms[ps[b].id].status # "none" => new[ps[b].id].status # "none"
            /\ ms[ps[b].id].members = ms[ps[b].id].whole => new[ps[b].id].members = new[ps[b].id].whole
        BY <1>3, <3>1
      <3> QED
        BY <2>1, <2>2, <3>1, <3>2 DEF PressIsOf
    <2>3. CASE ps[b].at \notin HasCampaign
      BY <2>1, <2>3 DEF PressIsOf
    <2> QED
      BY <2>2, <2>3
  <1>5. ASSUME why = {}
        PROVE  OnePress(ps, new)
    <2>1. OnePress(ps, ms)
      BY <1>5 DEF FormSound
    <2>2. \A j \in Campaigns : new[j].by = ms[j].by
      BY <1>3
    <2> QED
      BY <2>1, <2>2 DEF OnePress
  <1>6. ASSUME NEW j \in Campaigns, Partial(new[j])
        PROVE  n > 0 \/ \E b \in Makers : ps[b].id = j
    <2>1. Partial(ms[j])
      BY <1>3, <1>6
    <2> QED
      BY <2>1 DEF FormSound
  <1>7. FormSound(ps, new, why, n)
    <2>1. /\ ps \in [Makers -> PressRow] /\ why \subseteq {"error", "both"} /\ n \in Nat
      BY DEF FormSound
    <2> QED
      BY <2>1, <1>1, <1>2, <1>4, <1>5, <1>6 DEF FormSound
  <1> QED
    BY <1>7 DEF new

\* A campaign is created, and its maker told of it or not.
LEMMA CampaignInserted ==
  ASSUME NEW ps, NEW ms, NEW why, NEW n, FormSound(ps, ms, why, n),
         NEW k \in Campaigns, ms[k].status = "none", NEW b \in Makers, ps[b].at = "inserting",
         NEW p \in PressRow, NEW more \in SUBSET {"error", "both"}, why \subseteq more, NEW m \in Nat, m >= n,
         \/ p.at = "adding" /\ p.id = k /\ p.sent = ps[b].sent
         \/ p = NoPress /\ m > 0 /\ (more # {} \/ b \notin Buttons)
  PROVE  FormSound([ps EXCEPT ![b] = p],
                   [ms EXCEPT ![k] = [status |-> "DRAFT", by |-> b, members |-> {}, whole |-> ps[b].sent.picked]],
                   more, m)
  <1> DEFINE c == [status |-> "DRAFT", by |-> b, members |-> {}, whole |-> ps[b].sent.picked]
             new == [ps EXCEPT ![b] = p]
             camps == [ms EXCEPT ![k] = c]
  <1>0. /\ ps \in [Makers -> PressRow] /\ ms \in [Campaigns -> CampaignRow] /\ n \in Nat
        /\ Buttons \subseteq Makers /\ ps[b].sent.picked # {} /\ ps[b].sent.picked \in SUBSET Listed
        /\ PressIsOf(b, ps[b], ms)
    BY DEF FormSound, PressIsOf, Makers, PressRow
  <1>1. c \in CampaignRow /\ c.by = b /\ c.status = "DRAFT" /\ c.members = {} /\ c.whole = ps[b].sent.picked
    BY <1>0 DEF CampaignRow
  <1> HIDE DEF c
  <1>2. /\ new \in [Makers -> PressRow] /\ \A d \in Makers : new[d] = IF d = b THEN p ELSE ps[d]
        /\ camps \in [Campaigns -> CampaignRow] /\ \A j \in Campaigns : camps[j] = IF j = k THEN c ELSE ms[j]
    BY <1>0, <1>1
  <1> HIDE DEF new, camps
  <1>3. \A j \in Campaigns : WholeOrEmpty(camps[j])
    <2>1. WholeOrEmpty(c)
      BY <1>0, <1>1 DEF WholeOrEmpty
    <2> QED
      BY <1>2, <2>1 DEF FormSound
  <1>4. ASSUME NEW d \in Makers
        PROVE  PressIsOf(d, new[d], camps)
    <2>1. PressIsOf(d, ps[d], ms)
      BY DEF FormSound
    <2>2. CASE d # b
      <3>1. new[d] = ps[d]
        BY <1>2, <2>2
      <3>2. ps[d].at \in HasCampaign => ps[d].id # k /\ ps[d].id \in Campaigns
        BY <2>1 DEF PressIsOf
      <3>3. ps[d].at \in HasCampaign => camps[ps[d].id] = ms[ps[d].id]
        BY <3>2, <1>2
      <3> QED
        BY <2>1, <3>1, <3>2, <3>3 DEF PressIsOf
    <2>3. CASE d = b
      <3>1. new[d] = p
        BY <1>2, <2>3
      <3>2. CASE p.at = "adding" /\ p.id = k /\ p.sent = ps[b].sent
        <4>1. camps[k] = c
          BY <1>2
        <4>2. /\ p.at \in HasCampaign /\ p.at \notin {"creating", "inserting"} /\ p.at \notin {"launching", "running"}
          BY <3>2 DEF HasCampaign
        <4>3. p.sent.picked = ps[b].sent.picked
          BY <3>2
        <4> QED
          BY <2>3, <3>1, <3>2, <4>1, <4>2, <4>3, <1>0, <1>1 DEF PressIsOf
      <3>3. CASE p = NoPress
        <4>1. p.at = "idle" /\ p.id = 0
          BY <3>3 DEF NoPress
        <4> QED
          BY <4>1, <3>1 DEF PressIsOf, HasCampaign
      <3> QED
        BY <3>2, <3>3
    <2> QED
      BY <2>2, <2>3
  <1>5. ASSUME NEW j \in Campaigns, Partial(camps[j])
        PROVE  m > 0 \/ \E d \in Makers : new[d].id = j
    <2>1. CASE m > 0
      BY <2>1
    <2>2. CASE p.at = "adding" /\ p.id = k
      <3>1. CASE j = k
        BY <1>2, <2>2, <3>1
      <3>2. CASE j # k
        <4>1. Partial(ms[j])
          BY <1>2, <1>5, <3>2
        <4>2. n > 0 \/ \E d \in Makers : ps[d].id = j
          BY <4>1 DEF FormSound
        <4>3. ps[b].id = 0 /\ j # 0
          BY <1>0, CampaignFormAssumption DEF PressIsOf, HasCampaign, Campaigns
        <4>4. CASE n > 0
          BY <4>4, <1>0
        <4>5. CASE \E d \in Makers : ps[d].id = j
          BY <4>5, <4>3, <1>2
        <4> QED
          BY <4>2, <4>4, <4>5
      <3> QED
        BY <3>1, <3>2
    <2> QED
      BY <2>1, <2>2
  <1>6. ASSUME more = {}
        PROVE  OnePress(new, camps)
    <2>1. OnePress(ps, ms)
      BY <1>6 DEF FormSound
    <2>2. CASE b \notin Buttons
      <3>1. \A d \in Buttons : new[d] = ps[d]
        BY <1>0, <1>2, <2>2
      <3>2. \A j \in Campaigns : camps[j].by \in Buttons => camps[j].by = ms[j].by
        BY <1>1, <1>2, <2>2
      <3> QED
        BY <2>1, <3>1, <3>2 DEF OnePress
    <2>3. CASE b \in Buttons
      <3>1. p.at = "adding"
        BY <1>6, <2>3
      <3>2. \A j \in Campaigns : ms[j].by \notin Buttons
        <4> SUFFICES ASSUME NEW j \in Campaigns, ms[j].by \in Buttons
                     PROVE  FALSE
          OBVIOUS
        <4>1. ps[ms[j].by].at \in HasCampaign \cup {"done"}
          BY <2>1 DEF OnePress
        <4>2. ps[ms[j].by].at # "idle" /\ ps[b].at # "idle"
          BY <4>1 DEF HasCampaign
        <4>3. ms[j].by = b
          BY <2>1, <2>3, <4>2 DEF OnePress
        <4> QED
          BY <4>1, <4>3 DEF HasCampaign
      <3>3. \A j \in Campaigns : camps[j].by \in Buttons => j = k /\ camps[j].by = b
        BY <1>1, <1>2, <3>2
      <3>4. \A d \in Buttons : new[d].at # "idle" <=> ps[d].at # "idle"
        BY <1>0, <1>2, <3>1
      <3>5. new[b].at \in HasCampaign
        BY <1>2, <3>1 DEF HasCampaign
      <3> QED
        BY <2>1, <3>3, <3>4, <3>5 DEF OnePress
    <2> QED
      BY <2>2, <2>3
  <1>7. FormSound(new, camps, more, m)
    BY <1>2, <1>3, <1>4, <1>5, <1>6 DEF FormSound
  <1> QED
    BY <1>7 DEF new, camps, c

LEMMA NewIdIsFree == Free # {} => NewId \in Free /\ NewId \in Campaigns /\ made[NewId].status = "none"
  <1> SUFFICES ASSUME Free # {}
               PROVE  NewId \in Free /\ NewId \in Campaigns /\ made[NewId].status = "none"
    OBVIOUS
  <1>1. Free \subseteq Nat
    BY CampaignFormAssumption DEF Free, Campaigns
  <1>2. \E k \in Free : \A j \in Free : k <= j
    BY <1>1, LeastNumber
  <1>3. NewId \in Free
    BY <1>2 DEF NewId
  <1> QED
    BY <1>3 DEF Free

LEMMA PressesFail ==
  ASSUME NEW ms, FormSound(presses, ms, excuses, lost), NEW b \in Makers, Fail(b),
         lost' \in Nat, lost' >= lost,
         lost' > 0 \/ presses[b].id = 0 \/ (presses[b].id \in Campaigns /\ ~Partial(ms[presses[b].id]))
  PROVE  FormSound(presses', ms, excuses', lost')
  <1>1. NoPress \in PressRow /\ NoPress.at = "idle"
    BY CampaignFormAssumption DEF NoPress, PressRow
  <1>2. PressIsOf(b, NoPress, ms)
    BY DEF NoPress, PressIsOf, HasCampaign
  <1>3. /\ excuses' \in SUBSET {"error", "both"} /\ excuses \subseteq excuses'
        /\ excuses' # {} \/ b \notin Buttons
    BY DEF Fail, FormSound
  <1>4. presses' = [presses EXCEPT ![b] = NoPress]
    BY DEF Fail
  <1> QED
    BY <1>1, <1>2, <1>3, <1>4, PressMoves

LEMMA PressesSucceed ==
  ASSUME NEW ms, FormSound(presses, ms, excuses, lost), NEW b \in Makers, Succeed(b),
         presses[b].at \in HasCampaign, presses[b].id \in Campaigns, ~Partial(ms[presses[b].id])
  PROVE  FormSound(presses', ms, excuses, lost)
  <1> DEFINE p == [NoPress EXCEPT !.at = "done"]
  <1>0. NoPress \in PressRow /\ NoPress.id = 0
    BY CampaignFormAssumption DEF NoPress, PressRow
  <1>1. p \in PressRow /\ p.at = "done" /\ p.id = 0
    BY <1>0 DEF PressRow
  <1>2. presses' = [presses EXCEPT ![b] = p]
    BY DEF Succeed
  <1> HIDE DEF p
  <1>3. PressIsOf(b, p, ms)
    BY <1>1 DEF PressIsOf, HasCampaign
  <1>4. /\ p.at # "idle" /\ (presses[b].at = "idle" => \A d \in Buttons \ {b} : presses[d].at = "idle")
        /\ presses[b].at \in HasCampaign => p.at \in HasCampaign \cup {"done"}
        /\ presses[b].at # "done"
    BY <1>1 DEF HasCampaign
  <1>5. excuses \in SUBSET {"error", "both"} /\ excuses \subseteq excuses /\ lost \in Nat /\ lost >= lost
    BY DEF FormSound
  <1> QED
    BY <1>1, <1>2, <1>3, <1>4, <1>5, PressMoves

\* A mutation goes on, with the campaign it has.
LEMMA PressesGoOn ==
  ASSUME NEW ms, FormSound(presses, ms, excuses, lost), NEW b \in Makers,
         NEW step \in {"storing", "launching", "running"}, Goto(b, step),
         presses[b].at \in HasCampaign,
         step \in {"launching", "running"} => ms[presses[b].id].members = ms[presses[b].id].whole
  PROVE  FormSound(presses', ms, excuses, lost)
  <1> DEFINE p == [presses[b] EXCEPT !.at = step]
  <1>0. presses \in [Makers -> PressRow] /\ PressIsOf(b, presses[b], ms) /\ step \in HasCampaign
    BY DEF FormSound, HasCampaign
  <1>1. p \in PressRow /\ p.at = step /\ p.id = presses[b].id /\ p.sent = presses[b].sent
    BY <1>0 DEF PressRow
  <1>2. presses' = [presses EXCEPT ![b] = p]
    BY <1>0 DEF Goto
  <1> HIDE DEF p
  <1>3. PressIsOf(b, p, ms)
    BY <1>0, <1>1 DEF PressIsOf, HasCampaign
  <1>4. /\ p.at # "idle" /\ (presses[b].at = "idle" => \A d \in Buttons \ {b} : presses[d].at = "idle")
        /\ presses[b].at \in HasCampaign => p.at \in HasCampaign \cup {"done"}
        /\ presses[b].at # "done"
    BY <1>0, <1>1 DEF HasCampaign
  <1>5. excuses \in SUBSET {"error", "both"} /\ excuses \subseteq excuses /\ lost \in Nat /\ lost >= lost
    BY DEF FormSound
  <1> QED
    BY <1>0, <1>1, <1>2, <1>3, <1>4, <1>5, PressMoves

\* The campaign of a mutation that stores its people, or launches it.
LEMMA PeopleStored ==
  ASSUME FormInv, NEW b \in Makers, At(b, "storing")
  PROVE  /\ FormSound(presses, WithContacts(b), excuses, lost) /\ presses[b].id \in Campaigns
         /\ ~Partial(WithContacts(b)[presses[b].id])
         /\ WithContacts(b)[presses[b].id].members = WithContacts(b)[presses[b].id].whole
  <1> DEFINE k == presses[b].id
             c == [made[k] EXCEPT !.members = presses[b].sent.picked]
  <1>1. /\ PressIsOf(b, presses[b], made) /\ presses[b].at = "storing" /\ made \in [Campaigns -> CampaignRow]
        /\ presses[b] \in PressRow
    BY DEF FormInv, FormSound, At
  <1>2. k \in Campaigns /\ made[k].status # "none" /\ made[k].whole = presses[b].sent.picked
    BY <1>1 DEF PressIsOf, HasCampaign
  <1>3. /\ c \in CampaignRow /\ c.status = made[k].status /\ c.by = made[k].by
        /\ c.whole = made[k].whole /\ c.members = c.whole
    BY <1>1, <1>2 DEF CampaignRow, PressRow
  <1>4. WithContacts(b) = [made EXCEPT ![k] = c]
    BY <1>1, <1>2 DEF WithContacts
  <1> HIDE DEF c
  <1>5. ~Partial(c)
    BY <1>3 DEF Partial
  <1>6. FormSound(presses, [made EXCEPT ![k] = c], excuses, lost)
    BY <1>2, <1>3, <1>5, CampaignWritten DEF FormInv
  <1> QED
    BY <1>1, <1>2, <1>3, <1>4, <1>5, <1>6

LEMMA WholeOneRuns ==
  ASSUME FormInv, NEW k \in Campaigns, made[k].status # "none", made[k].members = made[k].whole
  PROVE  LET ms == [made EXCEPT ![k].status = "RUNNING"] IN
           FormSound(presses, ms, excuses, lost) /\ ~Partial(ms[k])
  <1> DEFINE c == [made[k] EXCEPT !.status = "RUNNING"]
  <1>1. made \in [Campaigns -> CampaignRow]
    BY DEF FormInv, FormSound
  <1>2. c \in CampaignRow /\ c.status = "RUNNING" /\ c.by = made[k].by /\ c.whole = made[k].whole /\ c.members = made[k].members
    BY <1>1 DEF CampaignRow
  <1>3. [made EXCEPT ![k].status = "RUNNING"] = [made EXCEPT ![k] = c]
    BY <1>1
  <1> HIDE DEF c
  <1>4. ~Partial(c)
    BY <1>2 DEF Partial
  <1>5. FormSound(presses, [made EXCEPT ![k] = c], excuses, lost)
    BY <1>2, <1>4, CampaignWritten DEF FormInv
  <1> QED
    BY <1>1, <1>3, <1>4, <1>5

LEMMA CampaignLaunched ==
  ASSUME FormInv, NEW b \in Makers, At(b, "running")
  PROVE  /\ FormSound(presses, Launched(b), excuses, lost) /\ presses[b].id \in Campaigns
         /\ ~Partial(Launched(b)[presses[b].id])
  <1>1. PressIsOf(b, presses[b], made) /\ presses[b].at = "running"
    BY DEF FormInv, FormSound, At
  <1>2. presses[b].id \in Campaigns /\ made[presses[b].id].status # "none"
        /\ made[presses[b].id].members = made[presses[b].id].whole
    BY <1>1 DEF PressIsOf, HasCampaign
  <1> QED
    BY <1>2, WholeOneRuns DEF Launched

\* A campaign of the list that has its people is launched there, and one is cancelled.
LEMMA WrittenElsewhere ==
  ASSUME FormInv, NEW k \in Campaigns, LaunchElsewhere(k) \/ CancelElsewhere(k)
  PROVE  FormInv'
  <1>1. made \in [Campaigns -> CampaignRow] /\ WholeOrEmpty(made[k]) /\ UNCHANGED <<form, presses, excuses, lost>>
    BY DEF FormInv, FormSound, LaunchElsewhere, CancelElsewhere
  <1>2. CASE LaunchElsewhere(k)
    <2>1. made[k].status # "none" /\ made[k].members = made[k].whole
      BY <1>1, <1>2 DEF LaunchElsewhere, Launchable, WholeOrEmpty
    <2>2. made' = [made EXCEPT ![k].status = "RUNNING"]
      BY <1>2 DEF LaunchElsewhere
    <2> QED
      BY <1>1, <2>1, <2>2, WholeOneRuns DEF FormInv
  <1>3. CASE CancelElsewhere(k)
    <2> DEFINE c == [made[k] EXCEPT !.status = "CANCELLED"]
    <2>1. made[k].status # "none" /\ made' = [made EXCEPT ![k] = c]
      BY <1>1, <1>3 DEF CancelElsewhere
    <2>2. /\ c \in CampaignRow /\ c.status = "CANCELLED" /\ c.by = made[k].by /\ c.whole = made[k].whole
          /\ c.members = made[k].members
      BY <1>1 DEF CampaignRow
    <2> HIDE DEF c
    <2>3. ~Partial(c)
      BY <2>2 DEF Partial
    <2>4. FormSound(presses, [made EXCEPT ![k] = c], excuses, lost)
      BY <2>1, <2>2, <2>3, CampaignWritten DEF FormInv
    <2> QED
      BY <1>1, <2>1, <2>4 DEF FormInv
  <1> QED
    BY <1>2, <1>3

\* The people picked are sent as they were at that instant.
LEMMA Pressed ==
  ASSUME FormInv, NEW b \in Makers, NEW byAgent \in BOOLEAN, NEW picked \in SUBSET Listed, picked # {},
         At(b, "idle"), UNCHANGED <<form, made, lost>>,
         presses' = [presses EXCEPT ![b] = [NoPress EXCEPT !.at = "creating", !.sent = [agent |-> byAgent, picked |-> picked]]],
         excuses' \in SUBSET {"error", "both"}, excuses \subseteq excuses',
         b \in Buttons => excuses' # {} \/ \A d \in Buttons \ {b} : presses[d].at = "idle"
  PROVE  FormInv'
  <1> DEFINE p == [NoPress EXCEPT !.at = "creating", !.sent = [agent |-> byAgent, picked |-> picked]]
  <1>0. NoPress \in PressRow /\ NoPress.id = 0 /\ [agent |-> byAgent, picked |-> picked] \in [agent: BOOLEAN, picked: SUBSET Listed]
    BY CampaignFormAssumption DEF NoPress, PressRow
  <1>1. p \in PressRow /\ p.at = "creating" /\ p.id = 0 /\ p.sent = [agent |-> byAgent, picked |-> picked]
    BY <1>0 DEF PressRow
  <1>2. presses' = [presses EXCEPT ![b] = p]
    OBVIOUS
  <1> HIDE DEF p
  <1>3. PressIsOf(b, p, made)
    BY <1>1 DEF PressIsOf, HasCampaign
  <1>4. presses[b].at = "idle" /\ presses[b].id = 0 /\ lost \in Nat
    BY DEF FormInv, FormSound, At, PressIsOf, HasCampaign
  <1>5. \/ excuses' # {} \/ b \notin Buttons
        \/ /\ p.at # "idle" /\ (presses[b].at = "idle" => \A d \in Buttons \ {b} : presses[d].at = "idle")
           /\ presses[b].at \in HasCampaign => p.at \in HasCampaign \cup {"done"}
           /\ presses[b].at # "done"
    BY <1>1, <1>4 DEF HasCampaign
  <1>8. lost >= lost
    BY <1>4
  <1>6. FormSound(presses, made, excuses, lost)
    BY DEF FormInv
  <1>7. FormSound([presses EXCEPT ![b] = p], made, excuses', lost)
    BY <1>1, <1>3, <1>4, <1>5, <1>6, <1>8, PressMoves
  <1> QED
    BY <1>2, <1>7 DEF FormInv

LEMMA AgentIsChecked ==
  ASSUME FormInv, NEW b \in Makers, CheckAgent(b)
  PROVE  FormInv'
  <1>1. /\ presses \in [Makers -> PressRow] /\ presses[b].at = "creating" /\ PressIsOf(b, presses[b], made)
        /\ UNCHANGED <<form, made, lost>> /\ lost \in Nat /\ FormSound(presses, made, excuses, lost)
        /\ excuses \in SUBSET {"error", "both"}
    BY DEF FormInv, FormSound, CheckAgent, At
  <1>2. presses[b].id = 0 /\ presses[b].sent.picked # {}
    BY <1>1 DEF PressIsOf, HasCampaign
  <1>3. CASE Fail(b)
    BY <1>1, <1>2, <1>3, PressesFail DEF FormInv
  <1>4. CASE ~Fail(b)
    <2> DEFINE sent == [presses[b].sent EXCEPT !.agent = FALSE]
               p == [presses[b] EXCEPT !.at = "inserting", !.sent = sent]
    <2>0. presses' = [presses EXCEPT ![b].at = "inserting", ![b].sent.agent = FALSE] /\ UNCHANGED excuses
      BY <1>4 DEF CheckAgent
    <2>1. presses' = [presses EXCEPT ![b] = p]
      BY <1>1, <2>0
    <2>2. presses[b] \in PressRow /\ presses[b].sent \in [agent: BOOLEAN, picked: SUBSET Listed]
      BY <1>1 DEF PressRow
    <2>3. sent \in [agent: BOOLEAN, picked: SUBSET Listed] /\ sent.picked = presses[b].sent.picked
      BY <2>2
    <2> HIDE DEF sent
    <2>4. p \in PressRow /\ p.at = "inserting" /\ p.id = presses[b].id /\ p.sent = sent
      BY <2>2, <2>3 DEF PressRow
    <2> HIDE DEF p
    <2>5. PressIsOf(b, p, made)
      BY <1>2, <2>3, <2>4 DEF PressIsOf, HasCampaign
    <2>6. /\ p.at # "idle" /\ (presses[b].at = "idle" => \A d \in Buttons \ {b} : presses[d].at = "idle")
          /\ presses[b].at \in HasCampaign => p.at \in HasCampaign \cup {"done"}
          /\ presses[b].at # "done" /\ excuses \subseteq excuses /\ lost >= lost
      BY <1>1, <2>4 DEF HasCampaign
    <2>7. FormSound([presses EXCEPT ![b] = p], made, excuses, lost)
      BY <1>1, <2>4, <2>5, <2>6, PressMoves
    <2> QED
      BY <1>1, <2>0, <2>1, <2>7 DEF FormInv
  <1> QED
    BY <1>3, <1>4

\* The campaign is created; the answer arrives or not.
LEMMA Creates ==
  ASSUME FormInv, NEW b \in Makers, CreateCampaign(b)
  PROVE  FormInv'
  <1>1. /\ presses \in [Makers -> PressRow] /\ presses[b].at = "inserting"
        /\ UNCHANGED <<form, excuses, lost>> /\ lost \in Nat /\ FormSound(presses, made, excuses, lost)
        /\ excuses \in SUBSET {"error", "both"} /\ Free # {} /\ made' = Inserted(b)
    BY DEF FormInv, FormSound, CreateCampaign, At
  <1>2. NewId \in Campaigns /\ made[NewId].status = "none"
    BY <1>1, NewIdIsFree
  <1> DEFINE p == [presses[b] EXCEPT !.at = "adding", !.id = NewId]
  <1>3. p \in PressRow /\ p.at = "adding" /\ p.id = NewId /\ p.sent = presses[b].sent
    <2>1. presses[b] \in PressRow /\ NewId \in 0..MaxCampaigns
      BY <1>1, <1>2, CampaignFormAssumption DEF Campaigns
    <2> QED
      BY <2>1 DEF PressRow
  <1>4. presses' = [presses EXCEPT ![b] = p]
    BY <1>1 DEF CreateCampaign
  <1> HIDE DEF p
  <1>6. excuses \subseteq excuses /\ lost >= lost
    BY <1>1
  <1>5. FormSound([presses EXCEPT ![b] = p], Inserted(b), excuses, lost)
    BY <1>1, <1>2, <1>3, <1>6, CampaignInserted DEF Inserted
  <1> QED
    BY <1>1, <1>4, <1>5 DEF FormInv

LEMMA AnswersAreLost ==
  ASSUME FormInv, NEW b \in Makers, LoseAnswer(b)
  PROVE  FormInv'
  <1>1. /\ presses \in [Makers -> PressRow] /\ lost \in Nat /\ FormSound(presses, made, excuses, lost)
        /\ UNCHANGED form /\ Fail(b) /\ lost' \in Nat /\ lost' > 0 /\ lost' >= lost
    BY DEF FormInv, FormSound, LoseAnswer, Lose
  <1>2. CASE At(b, "inserting") /\ Free # {} /\ made' = Inserted(b)
    <2>1. NewId \in Campaigns /\ made[NewId].status = "none" /\ presses[b].at = "inserting"
      BY <1>2, NewIdIsFree DEF At
    <2>2. NoPress \in PressRow /\ presses' = [presses EXCEPT ![b] = NoPress]
      BY CampaignFormAssumption, <1>1 DEF NoPress, PressRow, Fail
    <2>3. /\ excuses' \in SUBSET {"error", "both"} /\ excuses \subseteq excuses'
          /\ excuses' # {} \/ b \notin Buttons
      BY <1>1 DEF Fail, FormSound
    <2>4. FormSound([presses EXCEPT ![b] = NoPress], Inserted(b), excuses', lost')
      BY <1>1, <2>1, <2>2, <2>3, CampaignInserted DEF Inserted
    <2> QED
      BY <1>1, <1>2, <2>2, <2>4 DEF FormInv
  <1>3. CASE At(b, "storing") /\ made' = WithContacts(b)
    <2>1. FormSound(presses, WithContacts(b), excuses, lost)
      BY <1>3, PeopleStored
    <2> QED
      BY <1>1, <1>3, <2>1, PressesFail DEF FormInv
  <1>4. CASE At(b, "running") /\ made' = Launched(b)
    <2>1. FormSound(presses, Launched(b), excuses, lost)
      BY <1>4, CampaignLaunched
    <2> QED
      BY <1>1, <1>4, <2>1, PressesFail DEF FormInv
  <1> QED
    BY <1>2, <1>3, <1>4 DEF LoseAnswer

LEMMA FormIsLeftOrNot == ASSUME FormInv, form' = form \/ Closed PROVE form' \in FormRow
  <1>1. NoForm \in FormRow
    BY DEF NoForm, FormRow
  <1> QED
    BY <1>1 DEF FormInv, Closed

LEMMA Stores ==
  ASSUME FormInv, NEW b \in Makers, StoreContacts(b)
  PROVE  FormInv'
  <1>1. /\ FormSound(presses, WithContacts(b), excuses, lost) /\ presses[b].id \in Campaigns
        /\ ~Partial(WithContacts(b)[presses[b].id])
        /\ WithContacts(b)[presses[b].id].members = WithContacts(b)[presses[b].id].whole
    BY PeopleStored DEF StoreContacts
  <1>2. presses[b].at \in HasCampaign /\ made' = WithContacts(b) /\ UNCHANGED <<excuses, lost>>
    BY DEF StoreContacts, At, HasCampaign
  <1>3. form' \in FormRow
    BY FormIsLeftOrNot DEF StoreContacts, Succeed
  <1>4. CASE Succeed(b)
    BY <1>1, <1>2, <1>3, <1>4, PressesSucceed DEF FormInv
  <1>5. CASE Goto(b, "launching")
    BY <1>1, <1>2, <1>3, <1>5, PressesGoOn DEF FormInv
  <1> QED
    BY <1>4, <1>5 DEF StoreContacts

LEMMA Launches ==
  ASSUME FormInv, NEW b \in Makers, WriteLaunch(b)
  PROVE  FormInv'
  <1>1. /\ FormSound(presses, Launched(b), excuses, lost) /\ presses[b].id \in Campaigns
        /\ ~Partial(Launched(b)[presses[b].id])
    BY CampaignLaunched DEF WriteLaunch
  <1>2. presses[b].at \in HasCampaign /\ made' = Launched(b) /\ UNCHANGED <<excuses, lost>> /\ Succeed(b)
    BY DEF WriteLaunch, At, HasCampaign
  <1>3. form' \in FormRow
    BY <1>2, FormIsLeftOrNot DEF Succeed
  <1> QED
    BY <1>1, <1>2, <1>3, PressesSucceed DEF FormInv

\* The two requests that read the campaign first.
LEMMA Checks ==
  ASSUME FormInv, NEW b \in Makers, CheckDraft(b) \/ CheckLaunch(b)
  PROVE  FormInv'
  <1>1. /\ presses[b].at \in {"adding", "launching"} /\ UNCHANGED <<form, made, lost>> /\ lost \in Nat
        /\ PressIsOf(b, presses[b], made) /\ FormSound(presses, made, excuses, lost)
    BY DEF FormInv, FormSound, CheckDraft, CheckLaunch, At
  <1>2. presses[b].at \in HasCampaign /\ presses[b].id \in Campaigns
        /\ (presses[b].at = "launching" => made[presses[b].id].members = made[presses[b].id].whole)
    BY <1>1 DEF PressIsOf, HasCampaign
  <1>3. CASE Fail(b) /\ ~Partial(made[presses[b].id])
    BY <1>1, <1>2, <1>3, PressesFail DEF FormInv
  <1>4. CASE Goto(b, "storing") /\ UNCHANGED excuses
    <2>1. FormSound(presses', made, excuses, lost)
      BY <1>1, <1>2, <1>4, PressesGoOn
    <2> QED
      BY <1>1, <1>4, <2>1 DEF FormInv
  <1>5. CASE Goto(b, "running") /\ UNCHANGED excuses /\ presses[b].at = "launching"
    <2>1. FormSound(presses', made, excuses, lost)
      BY <1>1, <1>2, <1>5, PressesGoOn
    <2> QED
      BY <1>1, <1>5, <2>1 DEF FormInv
  <1> QED
    BY <1>1, <1>2, <1>3, <1>4, <1>5 DEF CheckDraft, CheckLaunch, At, Status, Partial

LEMMA FormInvStays == FormInv /\ FormNext => FormInv'
  <1> SUFFICES ASSUME FormInv, FormNext
               PROVE  FormInv'
    OBVIOUS
  <1>0. /\ form \in FormRow /\ FormSound(presses, made, excuses, lost) /\ lost \in Nat
        /\ excuses \in SUBSET {"error", "both"}
    BY DEF FormInv, FormSound
  <1>1. ASSUME form' \in FormRow, OfPage
        PROVE  FormInv'
    BY <1>0, <1>1 DEF OfPage, FormInv
  <1>2. ASSUME NEW c \in Listed, TogglePick(c)
        PROVE  FormInv'
    <2>1. /\ form.picked \in SUBSET Listed
          /\ form' = [form EXCEPT !.picked = IF c \in form.picked THEN form.picked \ {c} ELSE form.picked \cup {c}]
      BY <1>0, <1>2 DEF TogglePick, FormRow
    <2>2. (IF c \in form.picked THEN form.picked \ {c} ELSE form.picked \cup {c}) \in SUBSET Listed
      BY <2>1
    <2>3. form' \in FormRow
      BY <1>0, <2>1, <2>2 DEF FormRow
    <2> QED
      BY <1>1, <1>2, <2>3 DEF TogglePick
  <1>3. ASSUME NEW mode \in {"VOICE_AI", "FIXED_SCRIPT"}, ChooseMode(mode)
        PROVE  FormInv'
    <2>1. form' \in FormRow
      BY <1>0, <1>3 DEF ChooseMode, FormRow
    <2> QED
      BY <1>1, <1>3, <2>1 DEF ChooseMode
  <1>4. ASSUME NEW hours \in {"now", "window", "empty"}, ChooseHours(hours)
        PROVE  FormInv'
    <2>1. form' \in FormRow
      BY <1>0, <1>4 DEF ChooseHours, FormRow
    <2> QED
      BY <1>1, <1>4, <2>1 DEF ChooseHours
  <1>5. ASSUME NEW byAgent \in BOOLEAN, NEW picked \in SUBSET Listed, ClientAsks(byAgent, picked)
        PROVE  FormInv'
    <2>1. "client" \in Makers /\ "client" \notin Buttons
      BY DEF Makers, Buttons
    <2>2. /\ presses' = [presses EXCEPT !["client"] = [NoPress EXCEPT !.at = "creating", !.sent = [agent |-> byAgent, picked |-> picked]]]
          /\ picked # {} /\ At("client", "idle") /\ UNCHANGED <<form, made, lost>>
          /\ excuses' \in SUBSET {"error", "both"} /\ excuses \subseteq excuses'
      BY <1>0, <1>5 DEF ClientAsks
    <2>3. "client" \in Buttons => excuses' # {} \/ \A d \in Buttons \ {"client"} : presses[d].at = "idle"
      BY <2>1
    <2> QED
      BY <2>1, <2>2, <2>3, Pressed, Zenon
  <1>6. CASE LeavePage
    BY <1>1, <1>6, FormIsLeftOrNot DEF LeavePage
  <1>7. CASE PauseItsAgent
    BY <1>0, <1>7 DEF PauseItsAgent, FormInv
  <1>8. ASSUME NEW b \in Makers, Press(b)
        PROVE  FormInv'
    <2>1. /\ (form.mode = "VOICE_AI") \in BOOLEAN /\ form.picked \in SUBSET Listed /\ form.picked # {}
          /\ At(b, "idle") /\ UNCHANGED <<form, made, lost>>
          /\ presses' = [presses EXCEPT ![b] = [NoPress EXCEPT !.at = "creating",
                           !.sent = [agent |-> form.mode = "VOICE_AI", picked |-> form.picked]]]
      BY <1>0, <1>8 DEF Press, Pressable, Validate, BuildPayload, FormRow
    <2>2. /\ excuses' \in SUBSET {"error", "both"} /\ excuses \subseteq excuses'
          /\ excuses' # {} \/ \A d \in Buttons \ {b} : presses[d].at = "idle"
      BY <1>0, <1>8 DEF Press, At
    <2>3. b \in Makers
      OBVIOUS
    <2> QED
      BY <2>1, <2>2, <2>3, Pressed, Zenon
  <1>9. ASSUME NEW b \in Makers, LoseRequest(b)
        PROVE  FormInv'
    <2>1. UNCHANGED <<form, made>> /\ Fail(b) /\ lost' \in Nat /\ lost' >= lost /\ lost' > 0
      BY <1>0, <1>9 DEF LoseRequest, Lose
    <2> QED
      BY <1>0, <2>1, PressesFail DEF FormInv
  <1> QED
    BY <1>2, <1>3, <1>4, <1>5, <1>6, <1>7, <1>8, <1>9, WrittenElsewhere, AgentIsChecked, Creates,
       AnswersAreLost, Stores, Launches, Checks
    DEF FormNext

LEMMA FormInvExplains == FormInv => FormTypeOK /\ FormMakesOneWholeCampaign
  <1> SUFFICES ASSUME FormInv
               PROVE  FormTypeOK /\ FormMakesOneWholeCampaign
    OBVIOUS
  <1>0. /\ form \in FormRow /\ made \in [Campaigns -> CampaignRow] /\ excuses \subseteq {"error", "both"}
        /\ \A k \in Campaigns : WholeOrEmpty(made[k])
        /\ \A k \in Campaigns : Partial(made[k]) => lost > 0 \/ \E b \in Makers : presses[b].id = k
        /\ excuses = {} => OnePress(presses, made)
    BY DEF FormInv, FormSound
  <1>1. FormTypeOK
    <2>1. form.picked \subseteq Listed /\ \A k \in Campaigns : made[k].whole \subseteq Listed
      BY <1>0 DEF FormRow, CampaignRow
    <2>2. \A k \in Campaigns : made[k].members \subseteq made[k].whole
      BY <1>0 DEF WholeOrEmpty
    <2> QED
      BY <1>0, <2>1, <2>2 DEF FormTypeOK
  <1>2. ASSUME excuses = {}
        PROVE  ~ (Cardinality(OfForm) > 1)
    <2>1. \A k, j \in OfForm : k = j
      BY <1>0, <1>2 DEF OnePress, OfForm
    <2>2. CASE OfForm = {}
      <3>1. Cardinality(OfForm) = 0
        BY <2>2, FS_EmptySet
      <3> QED
        BY <3>1
    <2>3. CASE OfForm # {}
      <3>1. PICK k \in OfForm : TRUE
        BY <2>3
      <3>2. OfForm = {k}
        BY <2>1, <3>1
      <3>3. Cardinality(OfForm) = 1
        BY <3>2, FS_Singleton
      <3> QED
        BY <3>3
    <2> QED
      BY <2>2, <2>3
  <1>3. ASSUME NEW k \in Campaigns
        PROVE  /\ made[k].status = "RUNNING" => made[k].members = made[k].whole
               /\ (made[k].status = "DRAFT" /\ made[k].members # made[k].whole)
                    => lost > 0 \/ \E b \in Makers : presses[b].id = k
    BY <1>0 DEF WholeOrEmpty, Partial
  <1> QED
    BY <1>1, <1>2, <1>3 DEF FormMakesOneWholeCampaign

-----------------------------------------------------------------------------
(* A campaign as its page shows it.                                        *)

MemberStates == {"PENDING", "IN_PROGRESS", "COMPLETED", "FAILED"}
ScreenRow == [kind: Kinds \cup {"none"}, at: {"idle", "write", "reset"}, pending: Nat, run: 1..MaxRuns \cup {0}]

RunsTypes ==
  /\ asked \in Policies
  /\ status \in {"DRAFT", "RUNNING", "PAUSED", "DONE", "CANCELLED"}
  /\ contacts \in [Members -> MemberStates] /\ tries \in [Members -> Nat]
  /\ endings \in [Members -> {"none", "FAILED", "COMPLETED", "NO_ANSWER"}]
  /\ total \in Nat /\ completed \in Nat /\ failed \in Nat /\ owed \subseteq Members
  /\ finishing \in BOOLEAN /\ run \in 1..MaxRuns /\ summary \in 0..MaxRuns
  /\ crossed \subseteq {"counts", "summary"}

\* What is read is of a run there has been; nobody pauses a draft.
ScreensSound ==
  /\ screens \in [Screens -> ScreenRow]
  /\ \A s \in Screens : /\ screens[s].at = "idle" => screens[s].kind = "none"
                        /\ screens[s].kind \in {"pause", "resume"} => status # "DRAFT"
                        /\ screens[s].kind = "report" => screens[s].run > 0

\* No retry is between its two writes.
Quiet(scs) == \A s \in Screens : scs[s].kind = "retry" => scs[s].at = "reset"

Tally(done, undone, open_, due) == done + undone + Cardinality(due) + Cardinality(open_)

\* Unless writers crossed, each contact of a run is open, about to be counted
\* or counted; of one that was launched, the total is the contacts.
EachIsCounted ==
  "counts" \notin crossed =>
    /\ owed \cap OpenContacts = {}
    /\ Quiet(screens) =>
         /\ status # "CANCELLED" => Tally(completed, failed, OpenContacts, owed) = Cardinality(Members)
         /\ status \in {"RUNNING", "PAUSED", "DONE"} \/ finishing => total = Cardinality(Members)

SummaryIsOfRun == summary # 0 /\ "summary" \notin crossed => summary = run

RunsInv == RunsTypes /\ ScreensSound /\ EachIsCounted /\ SummaryIsOfRun /\ LostRetryHasACause

LEMMA MembersAreFinite ==
  ASSUME NEW T, T \subseteq Members
  PROVE  IsFiniteSet(T) /\ Cardinality(T) \in Nat
  <1>1. IsFiniteSet(T)
    BY CampaignRunsAssumption, FS_Subset
  <1> QED
    BY <1>1, FS_CardinalityType

\* The whole state of the counts follows from its parts being left alone.
LEMMA CountsStay ==
  ASSUME RunsInv, UNCHANGED <<contacts, owed, completed, failed, total>>,
         crossed \subseteq crossed', Quiet(screens') => Quiet(screens),
         "counts" \notin crossed' /\ status' # "CANCELLED" => status # "CANCELLED",
         "counts" \notin crossed' /\ (status' \in {"RUNNING", "PAUSED", "DONE"} \/ finishing')
            => status \in {"RUNNING", "PAUSED", "DONE"} \/ finishing
  PROVE  EachIsCounted'
  <1>1. OpenContacts' = OpenContacts
    BY DEF OpenContacts, In
  <1>2. Tally(completed, failed, OpenContacts, owed)' = Tally(completed, failed, OpenContacts, owed)
    BY <1>1 DEF Tally
  <1> QED
    BY <1>1, <1>2 DEF RunsInv, EachIsCounted

LEMMA RunsInvInit == RunsInit => RunsInv
  <1> SUFFICES ASSUME RunsInit
               PROVE  RunsInv
    OBVIOUS
  <1>1. RunsTypes
    <2>1. 1 \in 1..MaxRuns /\ 0 \in 0..MaxRuns
      BY CampaignRunsAssumption
    <2> QED
      BY <2>1 DEF RunsInit, RunsTypes, MemberStates
  <1>2. ScreensSound
    <2>1. NoScreen \in ScreenRow /\ NoScreen.at = "idle" /\ NoScreen.kind = "none"
      BY DEF NoScreen, ScreenRow
    <2> QED
      BY <2>1 DEF RunsInit, ScreensSound
  <1>3. EachIsCounted
    <2>1. OpenContacts = Members /\ owed = {} /\ completed = 0 /\ failed = 0 /\ status = "DRAFT" /\ finishing = FALSE
      BY DEF RunsInit, OpenContacts, In
    <2>2. Cardinality({}) = 0 /\ Cardinality(Members) \in Nat
      BY FS_EmptySet, MembersAreFinite
    <2>3. Tally(completed, failed, OpenContacts, owed) = Cardinality(Members)
      BY <2>1, <2>2 DEF Tally
    <2> QED
      BY <2>1, <2>3 DEF EachIsCounted
  <1>4. SummaryIsOfRun /\ LostRetryHasACause
    BY DEF RunsInit, SummaryIsOfRun, LostRetryHasACause
  <1> QED
    BY <1>1, <1>2, <1>3, <1>4 DEF RunsInv

LEMMA RunsInvStutters == RunsInv /\ UNCHANGED runVars => RunsInv'
  BY DEF RunsInv, runVars, RunsTypes, ScreensSound, EachIsCounted, Quiet, Tally, SummaryIsOfRun,
         LostRetryHasACause, OpenContacts, In

\* A contact that was open is about to be counted.
LEMMA OpenBecomesOwed ==
  ASSUME RunsInv, NEW m \in OpenContacts, "counts" \notin crossed,
         OpenContacts' = OpenContacts \ {m}, owed' = owed \cup {m}
  PROVE  /\ owed' \cap OpenContacts' = {}
         /\ Cardinality(owed') + Cardinality(OpenContacts') = Cardinality(owed) + Cardinality(OpenContacts)
  <1>1. m \notin owed /\ owed \cap OpenContacts = {}
    BY DEF RunsInv, EachIsCounted
  <1>2. IsFiniteSet(owed) /\ IsFiniteSet(OpenContacts) /\ Cardinality(owed) \in Nat /\ Cardinality(OpenContacts) \in Nat
    BY MembersAreFinite DEF RunsInv, RunsTypes, OpenContacts, In
  <1>3. Cardinality(owed \cup {m}) = Cardinality(owed) + 1
    BY <1>1, <1>2, FS_AddElement
  <1>4. Cardinality(OpenContacts \ {m}) = Cardinality(OpenContacts) - 1
    BY <1>2, FS_RemoveElement
  <1> QED
    BY <1>1, <1>2, <1>3, <1>4

LEMMA OwedIsCounted ==
  ASSUME RunsInv, NEW m \in owed, owed' = owed \ {m}
  PROVE  Cardinality(owed') = Cardinality(owed) - 1 /\ Cardinality(owed) \in Nat
  <1>1. IsFiniteSet(owed) /\ Cardinality(owed) \in Nat
    BY MembersAreFinite DEF RunsInv, RunsTypes
  <1>2. Cardinality(owed \ {m}) = Cardinality(owed) - 1
    BY <1>1, FS_RemoveElement
  <1> QED
    BY <1>1, <1>2

\* All the contacts, when as many as all are in a state.
LEMMA AsManyAsAll ==
  ASSUME NEW T, T \subseteq Members, Cardinality(T) = Cardinality(Members)
  PROVE  T = Members
  BY CampaignRunsAssumption, FS_Subset

\* A request writes, and is over.
LEMMA ScreenFreed ==
  ASSUME RunsInv, NEW s \in Screens, NEW kind \in Kinds, Writes(s, kind), status' = status \/ status' # "DRAFT"
  PROVE  /\ ScreensSound' /\ screens[s] \in ScreenRow /\ screens[s].kind = kind
         /\ kind # "retry" /\ Quiet(screens') => Quiet(screens)
  <1>1. NoScreen \in ScreenRow /\ NoScreen.at = "idle" /\ NoScreen.kind = "none"
    BY DEF NoScreen, ScreenRow
  <1>2. /\ screens \in [Screens -> ScreenRow] /\ screens[s].kind = kind
        /\ screens' = [screens EXCEPT ![s] = NoScreen]
    BY DEF RunsInv, ScreensSound, Writes
  <1>3. screens' \in [Screens -> ScreenRow] /\ \A q \in Screens : screens'[q] = IF q = s THEN NoScreen ELSE screens[q]
    BY <1>1, <1>2
  <1>4. ScreensSound'
    BY <1>1, <1>3 DEF RunsInv, ScreensSound
  <1>5. kind # "retry" /\ Quiet(screens') => Quiet(screens)
    BY <1>2, <1>3 DEF Quiet
  <1> QED
    BY <1>2, <1>4, <1>5

LEMMA RunIsRead ==
  ASSUME RunsInv, NEW s \in Screens, NEW kind \in Kinds, CheckRun(s, kind)
  PROVE  RunsInv'
  <1> DEFINE new == [kind |-> kind, at |-> IF kind = "retry" THEN "reset" ELSE "write", pending |-> PendingCount, run |-> run]
  <1>1. /\ screens \in [Screens -> ScreenRow] /\ screens[s].at = "idle" /\ screens[s].kind = "none"
        /\ screens' = [screens EXCEPT ![s] = new] /\ Allowed(kind)
        /\ UNCHANGED <<asked, origin, status, contacts, tries, endings, total, completed, failed, owed, finishing, run, summary, crossed>>
    BY DEF RunsInv, ScreensSound, CheckRun, OfRow, OfCalls, OfCounts, OfReport
  <1>2. PendingCount \in Nat /\ run \in 1..MaxRuns /\ run > 0
    BY MembersAreFinite DEF PendingCount, In, RunsInv, RunsTypes
  <1>3. new \in ScreenRow /\ new.kind = kind /\ new.run = run /\ new.at # "idle" /\ (kind = "retry" => new.at = "reset")
    BY <1>2 DEF ScreenRow
  <1> HIDE DEF new
  <1>4. kind = "pause" => status # "DRAFT"
    BY <1>1 DEF Allowed
  <1>5. kind = "resume" => status # "DRAFT"
    BY <1>1 DEF Allowed
  <1>6. screens' \in [Screens -> ScreenRow] /\ \A q \in Screens : screens'[q] = IF q = s THEN new ELSE screens[q]
    BY <1>1, <1>3
  <1>7. ScreensSound'
    BY <1>1, <1>2, <1>3, <1>4, <1>5, <1>6 DEF RunsInv, ScreensSound
  <1>8. Quiet(screens') => Quiet(screens)
    BY <1>1, <1>6 DEF Quiet
  <1>9. EachIsCounted'
    BY <1>1, <1>8, CountsStay
  <1> QED
    BY <1>1, <1>7, <1>9 DEF RunsInv, RunsTypes, SummaryIsOfRun, LostRetryHasACause

LEMMA RunIsLaunched ==
  ASSUME RunsInv, NEW s \in Screens, LaunchRun(s)
  PROVE  RunsInv'
  <1>1. /\ Writes(s, "launch") /\ status' = "RUNNING" /\ total' = screens[s].pending
        /\ UNCHANGED <<asked, origin, contacts, tries, endings, completed, failed, owed, finishing, run, summary>>
        /\ crossed \subseteq crossed' /\ crossed' \subseteq {"counts", "summary"}
        /\ "counts" \notin crossed' => /\ screens[s].pending = Cardinality(OpenContacts) /\ ~(completed + failed > 0)
                                       /\ owed = {} /\ status \notin {"CANCELLED", "DONE"}
        /\ "summary" \notin crossed' => "summary" \notin crossed
    BY DEF LaunchRun, Crossing, OfRow, OfCalls, OfReport, RunsInv, RunsTypes
  <1>2. /\ ScreensSound' /\ screens[s] \in ScreenRow
        /\ Quiet(screens') => Quiet(screens)
    BY <1>1, ScreenFreed DEF Kinds
  <1>3. total' \in Nat
    BY <1>1, <1>2 DEF ScreenRow
  <1>4. OpenContacts' = OpenContacts
    BY <1>1 DEF OpenContacts, In
  <1>5. EachIsCounted'
    <2> SUFFICES ASSUME "counts" \notin crossed'
                 PROVE  /\ owed \cap OpenContacts = {}
                        /\ Quiet(screens') => /\ Tally(completed, failed, OpenContacts, owed) = Cardinality(Members)
                                              /\ total' = Cardinality(Members)
      BY <1>1, <1>4 DEF EachIsCounted
    <2>1. /\ "counts" \notin crossed /\ completed + failed = 0 /\ owed = {} /\ total' = Cardinality(OpenContacts)
          /\ status # "CANCELLED" /\ Cardinality(OpenContacts) \in Nat
      BY <1>1, MembersAreFinite DEF RunsInv, RunsTypes, OpenContacts, In
    <2>2. Quiet(screens') => Tally(completed, failed, OpenContacts, owed) = Cardinality(Members)
      BY <1>2, <2>1 DEF RunsInv, EachIsCounted
    <2>3. Tally(completed, failed, OpenContacts, owed) = Cardinality(OpenContacts)
      <3>1. Cardinality(owed) = 0
        BY <2>1, FS_EmptySet
      <3> QED
        BY <2>1, <3>1 DEF Tally, RunsInv, RunsTypes
    <2> QED
      BY <2>1, <2>2, <2>3
  <1> QED
    BY <1>1, <1>2, <1>3, <1>5 DEF RunsInv, RunsTypes, SummaryIsOfRun, LostRetryHasACause

LEMMA RunIsPausedOrResumed ==
  ASSUME RunsInv, NEW s \in Screens, PauseRun(s) \/ ResumeRun(s)
  PROVE  RunsInv'
  <1>1. PICK kind \in {"pause", "resume"} : Writes(s, kind)
    BY DEF PauseRun, ResumeRun
  <1>2. /\ status' \in {"PAUSED", "RUNNING"} /\ (crossed' = IF status = "CANCELLED" THEN crossed \cup {"counts"} ELSE crossed)
        /\ UNCHANGED <<asked, origin, contacts, tries, endings, total, completed, failed, owed, finishing, run, summary>>
    BY DEF PauseRun, ResumeRun, Crossing, OfRow, OfCalls, OfCounts, OfReport
  <1>3. screens[s].kind \in {"pause", "resume"} /\ status # "DRAFT" /\ status' # "DRAFT" /\ kind \in Kinds /\ kind # "retry"
    BY <1>1, <1>2 DEF Writes, RunsInv, ScreensSound, Kinds
  <1>4. ScreensSound' /\ (Quiet(screens') => Quiet(screens))
    BY <1>1, <1>3, ScreenFreed
  <1>5. /\ crossed \subseteq crossed' /\ crossed' \subseteq {"counts", "summary"}
        /\ "counts" \notin crossed' => status # "CANCELLED"
        /\ "summary" \notin crossed' => "summary" \notin crossed
    BY <1>2 DEF RunsInv, RunsTypes
  <1>6. "counts" \notin crossed' => status \in {"RUNNING", "PAUSED", "DONE"}
    BY <1>3, <1>5 DEF RunsInv, RunsTypes
  <1>7. EachIsCounted'
    BY <1>2, <1>4, <1>5, <1>6, CountsStay
  <1> QED
    BY <1>2, <1>4, <1>5, <1>7 DEF RunsInv, RunsTypes, SummaryIsOfRun, LostRetryHasACause

LEMMA RunIsCancelled ==
  ASSUME RunsInv, NEW s \in Screens, CancelRun(s)
  PROVE  RunsInv'
  <1>1. /\ Writes(s, "cancel") /\ status' = "CANCELLED"
        /\ contacts' = [m \in Members |-> IF contacts[m] = "PENDING" THEN "FAILED" ELSE contacts[m]]
        /\ endings' = [m \in Members |-> IF contacts[m] = "PENDING" THEN "none" ELSE endings[m]]
        /\ UNCHANGED <<asked, origin, tries, total, completed, failed, owed, finishing, run, summary, crossed>>
    BY DEF CancelRun, OfRow, OfCounts, OfReport
  <1>2. ScreensSound' /\ (Quiet(screens') => Quiet(screens))
    BY <1>1, ScreenFreed DEF Kinds
  <1>3. OpenContacts' \subseteq OpenContacts
    BY <1>1 DEF OpenContacts, In, RunsInv, RunsTypes
  <1>4. EachIsCounted'
    BY <1>1, <1>2, <1>3 DEF RunsInv, EachIsCounted
  <1>5. LostRetryHasACause'
    BY <1>1 DEF RunsInv, RunsTypes, LostRetryHasACause
  <1>6. RunsTypes'
    BY <1>1 DEF RunsInv, RunsTypes, MemberStates
  <1> QED
    BY <1>1, <1>2, <1>4, <1>5, <1>6 DEF RunsInv, SummaryIsOfRun

LEMMA ContactsAreReset ==
  ASSUME RunsInv, NEW s \in Screens, ResetContacts(s)
  PROVE  RunsInv'
  <1> DEFINE new == [screens[s] EXCEPT !.at = "write"]
  <1>1. /\ contacts' = [m \in Members |-> "PENDING"] /\ screens' = [screens EXCEPT ![s].at = "write"]
        /\ screens[s].kind = "retry" /\ screens \in [Screens -> ScreenRow]
        /\ UNCHANGED <<asked, origin, status, tries, endings, total, completed, failed, owed, finishing, run, summary>>
        /\ crossed \subseteq crossed' /\ crossed' \subseteq {"counts", "summary"}
        /\ "counts" \notin crossed' => owed = {}
        /\ "summary" \notin crossed' => "summary" \notin crossed
    BY DEF ResetContacts, Crossing, OfRow, OfCounts, OfReport, RunsInv, RunsTypes, ScreensSound
  <1>2. new \in ScreenRow /\ new.kind = "retry" /\ new.at = "write" /\ new.run = screens[s].run
    BY <1>1 DEF ScreenRow
  <1>3. screens' = [screens EXCEPT ![s] = new]
    BY <1>1
  <1> HIDE DEF new
  <1>4. screens' \in [Screens -> ScreenRow] /\ \A q \in Screens : screens'[q] = IF q = s THEN new ELSE screens[q]
    BY <1>1, <1>2, <1>3
  <1>5. ScreensSound'
    BY <1>1, <1>2, <1>4 DEF RunsInv, ScreensSound
  <1>6. ~Quiet(screens')
    BY <1>2, <1>4 DEF Quiet
  <1>7. EachIsCounted'
    BY <1>1, <1>6 DEF EachIsCounted
  <1>8. RunsTypes' /\ LostRetryHasACause'
    BY <1>1 DEF RunsInv, RunsTypes, MemberStates, LostRetryHasACause
  <1> QED
    BY <1>1, <1>5, <1>7, <1>8 DEF RunsInv, SummaryIsOfRun

LEMMA RunStartsOver ==
  ASSUME RunsInv, NEW s \in Screens, RetryRun(s)
  PROVE  RunsInv'
  <1>1. /\ Writes(s, "retry") /\ run < MaxRuns /\ status' = "RUNNING" /\ run' = run + 1
        /\ total' = Cardinality(Members) /\ completed' = 0 /\ failed' = 0 /\ summary' = 0
        /\ UNCHANGED <<asked, origin, contacts, tries, endings, owed, finishing>>
        /\ crossed \subseteq crossed' /\ crossed' \subseteq {"counts", "summary"}
        /\ "counts" \notin crossed' => PendingCount = Cardinality(Members) /\ owed = {}
    BY DEF RetryRun, Restart, Crossing, OfRow, OfCalls, RunsInv, RunsTypes
  <1>2. ScreensSound'
    BY <1>1, ScreenFreed DEF Kinds
  <1>3. Cardinality(Members) \in Nat /\ run' \in 1..MaxRuns /\ 0 \in 0..MaxRuns
    BY <1>1, MembersAreFinite, CampaignRunsAssumption DEF RunsInv, RunsTypes
  <1>4. EachIsCounted'
    <2> SUFFICES ASSUME "counts" \notin crossed'
                 PROVE  /\ owed' \cap OpenContacts' = {}
                        /\ Tally(completed, failed, OpenContacts, owed)' = Cardinality(Members)
                        /\ total' = Cardinality(Members)
      BY DEF EachIsCounted
    <2>1. In({"PENDING"}) = Members
      BY <1>1, AsManyAsAll DEF PendingCount, In
    <2>2. OpenContacts' = Members /\ owed' = {}
      BY <1>1, <2>1 DEF OpenContacts, In
    <2>3. Cardinality(owed') = 0
      BY <2>2, FS_EmptySet
    <2> QED
      BY <1>1, <1>3, <2>2, <2>3 DEF Tally
  <1>5. RunsTypes'
    BY <1>1, <1>3 DEF RunsInv, RunsTypes
  <1> QED
    BY <1>1, <1>2, <1>4, <1>5 DEF RunsInv, SummaryIsOfRun, LostRetryHasACause

LEMMA ReportIsWritten ==
  ASSUME RunsInv, NEW s \in Screens, WriteReport(s)
  PROVE  RunsInv'
  <1>1. /\ Writes(s, "report") /\ summary' = screens[s].run
        /\ (crossed' = IF screens[s].run # run THEN crossed \cup {"summary"} ELSE crossed)
        /\ UNCHANGED <<asked, origin, status, contacts, tries, endings, total, completed, failed, owed, finishing, run>>
    BY DEF WriteReport, Crossing, OfRow, OfCalls, OfCounts
  <1>2. ScreensSound' /\ (Quiet(screens') => Quiet(screens)) /\ screens[s] \in ScreenRow
    BY <1>1, ScreenFreed DEF Kinds
  <1>3. /\ crossed \subseteq crossed' /\ crossed' \subseteq {"counts", "summary"}
        /\ "summary" \notin crossed' => screens[s].run = run
    BY <1>1 DEF RunsInv, RunsTypes
  <1>4. EachIsCounted'
    BY <1>1, <1>2, <1>3, CountsStay
  <1>5. summary' \in 0..MaxRuns
    BY <1>1, <1>2, CampaignRunsAssumption DEF ScreenRow
  <1> QED
    BY <1>1, <1>2, <1>3, <1>4, <1>5 DEF RunsInv, RunsTypes, SummaryIsOfRun, LostRetryHasACause

\* A contact goes on being open, or is about to be counted.
LEMMA ContactWritten ==
  ASSUME RunsInv, NEW m \in Members, contacts[m] \in {"PENDING", "IN_PROGRESS"},
         NEW state \in MemberStates, contacts' = [contacts EXCEPT ![m] = state],
         state \in {"PENDING", "IN_PROGRESS"} => owed' = owed,
         state \notin {"PENDING", "IN_PROGRESS"} => owed' = owed \cup {m},
         UNCHANGED <<status, total, completed, failed, finishing, screens, crossed>>
  PROVE  EachIsCounted' /\ contacts' \in [Members -> MemberStates] /\ owed' \subseteq Members
  <1>1. /\ contacts \in [Members -> MemberStates] /\ owed \subseteq Members /\ completed \in Nat /\ failed \in Nat
        /\ contacts' \in [Members -> MemberStates]
        /\ \A q \in Members : contacts'[q] = IF q = m THEN state ELSE contacts[q]
    BY DEF RunsInv, RunsTypes
  <1>2. CASE state \in {"PENDING", "IN_PROGRESS"}
    <2>1. OpenContacts' = OpenContacts
      BY <1>1, <1>2 DEF OpenContacts, In
    <2>2. EachIsCounted'
      BY <1>2, <2>1 DEF RunsInv, EachIsCounted, Tally
    <2> QED
      BY <1>1, <1>2, <2>2
  <1>3. CASE state \notin {"PENDING", "IN_PROGRESS"}
    <2>1. OpenContacts' = OpenContacts \ {m} /\ m \in OpenContacts
      BY <1>1, <1>3 DEF OpenContacts, In
    <2>2. EachIsCounted'
      <3> SUFFICES ASSUME "counts" \notin crossed
                   PROVE  /\ owed' \cap OpenContacts' = {}
                          /\ Tally(completed, failed, OpenContacts, owed)' = Tally(completed, failed, OpenContacts, owed)
        BY DEF RunsInv, EachIsCounted
      <3>1. /\ owed' \cap OpenContacts' = {}
            /\ Cardinality(owed') + Cardinality(OpenContacts') = Cardinality(owed) + Cardinality(OpenContacts)
        BY <1>3, <2>1, OpenBecomesOwed
      <3>2. /\ Cardinality(owed) \in Nat /\ Cardinality(OpenContacts) \in Nat
            /\ Cardinality(owed') \in Nat /\ Cardinality(OpenContacts') \in Nat
        <4>1. OpenContacts \subseteq Members /\ OpenContacts' \subseteq Members /\ owed' \subseteq Members
          BY <1>1, <1>3, <2>1 DEF OpenContacts, In
        <4> QED
          BY <1>1, <4>1, MembersAreFinite
      <3> QED
        BY <1>1, <3>1, <3>2 DEF Tally
    <2> QED
      BY <1>1, <1>3, <2>2
  <1> QED
    BY <1>2, <1>3

LEMMA ContactIsTaken ==
  ASSUME RunsInv, NEW m \in Members, TakeContact(m)
  PROVE  RunsInv'
  <1>1. /\ contacts[m] = "PENDING" /\ contacts' = [contacts EXCEPT ![m] = "IN_PROGRESS"]
        /\ tries \in [Members -> Nat] /\ tries' = [tries EXCEPT ![m] = tries[m] + 1] /\ tries' \in [Members -> Nat]
        /\ UNCHANGED <<asked, origin, status, endings, total, completed, failed, owed, finishing, run, summary, screens, crossed>>
    BY DEF TakeContact, OfRow, OfCounts, OfReport, RunsInv, RunsTypes
  <1>2. EachIsCounted' /\ contacts' \in [Members -> MemberStates]
    BY <1>1, ContactWritten DEF MemberStates
  <1>3. LostRetryHasACause'
    BY <1>1 DEF RunsInv, RunsTypes, LostRetryHasACause
  <1>4. ScreensSound'
    BY <1>1 DEF RunsInv, ScreensSound
  <1> QED
    BY <1>1, <1>2, <1>3, <1>4 DEF RunsInv, RunsTypes, SummaryIsOfRun

LEMMA DialIsLost ==
  ASSUME RunsInv, NEW m \in Members, DialFails(m)
  PROVE  RunsInv'
  <1> DEFINE state == IF RetriesDial(m) THEN "PENDING" ELSE "FAILED"
  <1>1. /\ contacts[m] = "PENDING" /\ contacts' = [contacts EXCEPT ![m] = state]
        /\ tries \in [Members -> Nat] /\ tries' = [tries EXCEPT ![m] = tries[m] + 1] /\ tries' \in [Members -> Nat]
        /\ endings' = [endings EXCEPT ![m] = "FAILED"]
        /\ owed' = IF RetriesDial(m) THEN owed ELSE owed \cup {m}
        /\ UNCHANGED <<asked, origin, status, total, completed, failed, finishing, run, summary, screens, crossed>>
    BY DEF DialFails, OfRow, OfCounts, OfReport, RunsInv, RunsTypes
  <1>2. /\ state \in MemberStates /\ contacts[m] \in {"PENDING", "IN_PROGRESS"}
        /\ state \in {"PENDING", "IN_PROGRESS"} => owed' = owed
        /\ state \notin {"PENDING", "IN_PROGRESS"} => owed' = owed \cup {m}
        /\ UNCHANGED <<status, total, completed, failed, finishing, screens, crossed>>
    BY <1>1 DEF MemberStates
  <1> HIDE DEF state
  <1>3. EachIsCounted' /\ contacts' \in [Members -> MemberStates] /\ owed' \subseteq Members
    BY <1>1, <1>2, ContactWritten
  <1>4. endings' \in [Members -> {"none", "FAILED", "COMPLETED", "NO_ANSWER"}]
        /\ \A q \in Members : endings'[q] = IF q = m THEN "FAILED" ELSE endings[q]
    BY <1>1 DEF RunsInv, RunsTypes
  <1>5. LostRetryHasACause'
    BY <1>1, <1>4 DEF RunsInv, RunsTypes, LostRetryHasACause
  <1>6. ScreensSound'
    BY <1>1 DEF RunsInv, ScreensSound
  <1> QED
    BY <1>1, <1>3, <1>4, <1>5, <1>6 DEF RunsInv, RunsTypes, SummaryIsOfRun

LEMMA ContactIsSettled ==
  ASSUME RunsInv, NEW m \in Members, NEW ending \in {"COMPLETED", "NO_ANSWER"}, SettleContact(m, ending)
  PROVE  RunsInv'
  <1> DEFINE state == IF RetriesCall(m, ending) THEN "PENDING" ELSE IF ending = "COMPLETED" THEN "COMPLETED" ELSE "FAILED"
  <1>1. /\ contacts[m] = "IN_PROGRESS" /\ contacts' = [contacts EXCEPT ![m] = state]
        /\ endings' = [endings EXCEPT ![m] = ending]
        /\ owed' = IF RetriesCall(m, ending) THEN owed ELSE owed \cup {m}
        /\ UNCHANGED <<asked, origin, status, tries, total, completed, failed, finishing, run, summary, screens, crossed>>
    BY DEF SettleContact, OfRow, OfCounts, OfReport
  <1>2. /\ state \in MemberStates /\ contacts[m] \in {"PENDING", "IN_PROGRESS"}
        /\ state \in {"PENDING", "IN_PROGRESS"} => owed' = owed
        /\ state \notin {"PENDING", "IN_PROGRESS"} => owed' = owed \cup {m}
        /\ UNCHANGED <<status, total, completed, failed, finishing, screens, crossed>>
        /\ state = "FAILED" => ~RetriesCall(m, ending)
    BY <1>1 DEF MemberStates
  <1> HIDE DEF state
  <1>3. EachIsCounted' /\ contacts' \in [Members -> MemberStates] /\ owed' \subseteq Members
    BY <1>1, <1>2, ContactWritten
  <1>4. endings' \in [Members -> {"none", "FAILED", "COMPLETED", "NO_ANSWER"}]
        /\ \A q \in Members : endings'[q] = IF q = m THEN ending ELSE endings[q]
    BY <1>1 DEF RunsInv, RunsTypes
  <1>5. LostRetryHasACause'
    <2> SUFFICES ASSUME NEW q \in Members, contacts'[q] = "FAILED", endings'[q] = "NO_ANSWER", "NO_ANSWER" \in asked.on
                 PROVE  tries[q] >= asked.tries \/ origin = "crm"
      BY <1>1 DEF LostRetryHasACause
    <2>1. tries[q] \in Nat /\ asked.tries \in Nat
      BY CampaignRunsAssumption DEF RunsInv, RunsTypes
    <2>2. CASE q = m
      <3>1. ending = "NO_ANSWER" /\ ~RetriesCall(m, ending)
        BY <1>1, <1>2, <1>4, <2>2 DEF RunsInv, RunsTypes
      <3>2. origin # "crm" => RetryPolicy.tries = asked.tries /\ RetryPolicy.on = asked.on
        BY DEF RetryPolicy
      <3> QED
        BY <2>1, <2>2, <3>1, <3>2 DEF RetriesCall
    <2>3. CASE q # m
      BY <1>1, <1>4, <2>3 DEF RunsInv, RunsTypes, LostRetryHasACause
    <2> QED
      BY <2>2, <2>3
  <1>6. ScreensSound'
    BY <1>1 DEF RunsInv, ScreensSound
  <1> QED
    BY <1>1, <1>3, <1>4, <1>5, <1>6 DEF RunsInv, RunsTypes, SummaryIsOfRun

LEMMA ContactIsCounted ==
  ASSUME RunsInv, NEW m \in Members, CountContact(m)
  PROVE  RunsInv'
  <1>1. /\ m \in owed /\ owed' = owed \ {m}
        /\ completed \in Nat /\ failed \in Nat /\ completed' \in Nat /\ failed' \in Nat
        /\ completed' + failed' = completed + failed + 1
        /\ UNCHANGED <<asked, origin, status, contacts, tries, endings, total, finishing, run, summary, screens, crossed>>
    BY DEF CountContact, OfRow, OfReport, RunsInv, RunsTypes
  <1>2. Cardinality(owed') = Cardinality(owed) - 1 /\ Cardinality(owed) \in Nat
    BY <1>1, OwedIsCounted
  <1>3. OpenContacts' = OpenContacts /\ Cardinality(OpenContacts) \in Nat
    BY <1>1, MembersAreFinite DEF OpenContacts, In
  <1>4. Tally(completed, failed, OpenContacts, owed)' = Tally(completed, failed, OpenContacts, owed)
    <2>1. Cardinality(OpenContacts') = Cardinality(OpenContacts)
      BY <1>3
    <2>2. Tally(completed, failed, OpenContacts, owed)'
            = completed' + failed' + Cardinality(owed') + Cardinality(OpenContacts')
      BY DEF Tally
    <2>3. Tally(completed, failed, OpenContacts, owed)
            = completed + failed + Cardinality(owed) + Cardinality(OpenContacts)
      BY DEF Tally
    <2>4. completed' + failed' + Cardinality(owed') = completed + failed + Cardinality(owed)
      <3>1. completed' + failed' = completed + failed + 1
        BY <1>1
      <3>2. /\ completed \in Nat /\ failed \in Nat /\ completed' \in Nat /\ failed' \in Nat
            /\ Cardinality(owed) \in Nat
        BY <1>1, <1>2
      <3>3. Cardinality(owed') = Cardinality(owed) - 1
        BY <1>2
      <3>4. Cardinality(owed') \in Int
        BY <3>2, <3>3
      <3>5. completed' + failed' + Cardinality(owed') = completed + failed + 1 + Cardinality(owed')
        BY <3>1
      <3>6. completed + failed + 1 + (Cardinality(owed) - 1) = completed + failed + Cardinality(owed)
        BY <3>2
      <3> QED
        BY <3>3, <3>5, <3>6
    <2> QED
      BY <1>3, <2>1, <2>2, <2>3, <2>4
  <1>5. EachIsCounted'
    BY <1>1, <1>3, <1>4 DEF RunsInv, EachIsCounted
  <1>6. ScreensSound' /\ LostRetryHasACause'
    BY <1>1 DEF RunsInv, ScreensSound, LostRetryHasACause
  <1> QED
    BY <1>1, <1>5, <1>6 DEF RunsInv, RunsTypes, SummaryIsOfRun

LEMMA RunIsDone ==
  ASSUME RunsInv, WriteDone
  PROVE  RunsInv'
  <1>1. /\ finishing /\ finishing' = FALSE /\ status' = "DONE"
        /\ completed' = Cardinality(In({"COMPLETED"})) /\ failed' = Cardinality(In({"FAILED"}))
        /\ UNCHANGED <<asked, origin, contacts, tries, endings, owed, total, run, summary, screens>>
        /\ crossed \subseteq crossed' /\ crossed' \subseteq {"counts", "summary"}
        /\ "counts" \notin crossed' => owed = {} /\ OpenContacts = {}
        /\ "summary" \notin crossed' => "summary" \notin crossed
    BY DEF WriteDone, Crossing, OfRow, OfReport, RunsInv, RunsTypes
  <1>2. /\ IsFiniteSet(In({"COMPLETED"})) /\ IsFiniteSet(In({"FAILED"}))
        /\ Cardinality(In({"COMPLETED"})) \in Nat /\ Cardinality(In({"FAILED"})) \in Nat
    BY MembersAreFinite DEF In
  <1>3. EachIsCounted'
    <2> SUFFICES ASSUME "counts" \notin crossed'
                 PROVE  /\ owed' \cap OpenContacts' = {}
                        /\ Quiet(screens') => /\ Tally(completed, failed, OpenContacts, owed)' = Cardinality(Members)
                                              /\ total' = Cardinality(Members)
      BY DEF EachIsCounted
    <2>1. owed' = {} /\ OpenContacts' = {} /\ "counts" \notin crossed
      BY <1>1 DEF OpenContacts, In
    <2>2. Quiet(screens') => total' = Cardinality(Members)
      BY <1>1, <2>1 DEF RunsInv, EachIsCounted
    <2>3. Members = In({"COMPLETED"}) \cup In({"FAILED"}) /\ In({"COMPLETED"}) \cap In({"FAILED"}) = {}
      BY <1>1 DEF OpenContacts, In, RunsInv, RunsTypes, MemberStates
    <2>4. Cardinality(Members) = Cardinality(In({"COMPLETED"})) + Cardinality(In({"FAILED"}))
      <3>1. Cardinality(In({"COMPLETED"}) \cap In({"FAILED"})) = 0
        BY <2>3, FS_EmptySet
      <3>2. Cardinality(In({"COMPLETED"}) \cup In({"FAILED"}))
              = Cardinality(In({"COMPLETED"})) + Cardinality(In({"FAILED"})) - Cardinality(In({"COMPLETED"}) \cap In({"FAILED"}))
        BY <1>2, FS_Union
      <3> QED
        BY <1>2, <2>3, <3>1, <3>2
    <2>5. Cardinality({}) = 0
      BY FS_EmptySet
    <2>6. Tally(completed, failed, OpenContacts, owed)' = Cardinality(Members)
      BY <1>1, <1>2, <2>1, <2>4, <2>5 DEF Tally
    <2> QED
      BY <2>1, <2>2, <2>6
  <1>4. ScreensSound' /\ LostRetryHasACause'
    BY <1>1 DEF RunsInv, ScreensSound, LostRetryHasACause
  <1> QED
    BY <1>1, <1>2, <1>3, <1>4 DEF RunsInv, RunsTypes, SummaryIsOfRun

LEMMA NoneIsLeft ==
  ASSUME RunsInv, FindNoneLeft
  PROVE  RunsInv'
  <1>1. /\ status = "RUNNING" /\ finishing' = TRUE
        /\ UNCHANGED <<asked, origin, status, contacts, tries, endings, total, completed, failed, owed, run, summary, screens, crossed>>
    BY DEF FindNoneLeft, OfRow, OfCounts, OfReport
  <1>2. EachIsCounted'
    BY <1>1, CountsStay
  <1>3. ScreensSound' /\ LostRetryHasACause'
    BY <1>1 DEF RunsInv, ScreensSound, LostRetryHasACause
  <1> QED
    BY <1>1, <1>2, <1>3 DEF RunsInv, RunsTypes, SummaryIsOfRun

LEMMA RunsInvStays == RunsInv /\ RunsNext => RunsInv'
  <1> SUFFICES ASSUME RunsInv, RunsNext
               PROVE  RunsInv'
    OBVIOUS
  <1> QED
    BY RunIsRead, RunIsLaunched, RunIsPausedOrResumed, RunIsCancelled, ContactsAreReset, RunStartsOver,
       ReportIsWritten, ContactIsTaken, DialIsLost, ContactIsCounted, ContactIsSettled, NoneIsLeft, RunIsDone
    DEF RunsNext

LEMMA RunsInvExplains == RunsInv => RunsTypeOK /\ PageTellsTheRun /\ LostRetryHasACause
  <1> SUFFICES ASSUME RunsInv
               PROVE  RunsTypeOK /\ PageTellsTheRun /\ LostRetryHasACause
    OBVIOUS
  <1>1. RunsTypeOK /\ LostRetryHasACause
    BY DEF RunsInv, RunsTypes, RunsTypeOK
  <1>2. /\ status \in {"DRAFT", "RUNNING", "PAUSED", "DONE", "CANCELLED"}
        /\ completed \in Nat /\ failed \in Nat /\ total \in Nat
        /\ Cardinality(owed) \in Nat /\ Cardinality(OpenContacts) \in Nat
    BY MembersAreFinite DEF RunsInv, RunsTypes, OpenContacts, In
  <1>3. /\ Shown.completed = completed /\ Shown.failed = failed
        /\ Shown.pending = IF completed + failed <= total THEN total - completed - failed ELSE 0
    BY DEF Shown, MapCampaign, Reported
  <1>4. Shown.status \in {"ACTIVE", "PAUSED", "COMPLETED"} => status \in {"RUNNING", "PAUSED", "DONE"}
    <2>1. Reported.status = status
      BY DEF Reported
    <2>2. ASSUME status \in {"DRAFT", "CANCELLED"} PROVE Shown.status = status
      <3>1. Reported.status \notin {"RUNNING", "SCHEDULED"} /\ Reported.status # "DONE"
        BY <2>1, <2>2
      <3>2. (CASE Reported.status \in {"RUNNING", "SCHEDULED"} -> "ACTIVE"
               [] Reported.status = "DONE" -> "COMPLETED"
               [] OTHER -> Reported.status) = Reported.status
        BY <3>1
      <3>3. Shown.status = (CASE Reported.status \in {"RUNNING", "SCHEDULED"} -> "ACTIVE"
               [] Reported.status = "DONE" -> "COMPLETED"
               [] OTHER -> Reported.status)
        BY DEF Shown, MapCampaign, Reported
      <3> QED
        BY <2>1, <3>2, <3>3
    <2> QED
      BY <1>2, <2>2
  <1>5. ASSUME Shown.status \in {"ACTIVE", "PAUSED", "COMPLETED"}, "counts" \notin crossed, Quiet(screens)
        PROVE  /\ Shown.pending = Cardinality(owed) + Cardinality(OpenContacts)
               /\ Progress.value + Shown.pending = Progress.max
    <2>1. completed + failed + Cardinality(owed) + Cardinality(OpenContacts) = total
      BY <1>2, <1>4, <1>5 DEF RunsInv, EachIsCounted, Tally
    <2>2. Progress.value = completed + failed /\ Progress.max = total
      BY <1>3 DEF Progress
    <2> QED
      BY <1>2, <1>3, <2>1, <2>2
  <1>6. PageTellsTheRun
    BY <1>5 DEF PageTellsTheRun, RunsInv, SummaryIsOfRun, Quiet
  <1> QED
    BY <1>1, <1>6

-----------------------------------------------------------------------------
(* Prompts: what is played is what was meant.                              *)

OfScript(p, k) == passes[p].at # "idle" /\ passes[p].script = k
Given == {"uploaded", "ready"}

PassStates == [at: {"idle"}] \cup [at: {"read", "missing", "uploaded", "ready"}, script: Scripts, text: Nat]
RequestStates == [at: {"idle", "done"}] \cup [at: {"read"}, op: {"edit", "start"}, script: Scripts]
ScriptRows == [status: {"DRAFT", "RUNNING", "PAUSED"}, text: Nat, rewritten: BOOLEAN]
TurnStates == [at: {"idle", "missing", "uploaded", "ready", "over"}, number: 0..MaxTurn]
WarmingStates == [at: {"looking", "missing", "uploaded", "warm", "failed"}, voice: 1..MaxVoice]

PromptTypes ==
  /\ sounds \in [PromptNames -> Nat] /\ cached \subseteq PromptNames
  /\ scripts \in [Scripts -> ScriptRows]
  /\ passes \in [ScriptPasses -> PassStates]
  /\ scriptRequests \in [ScriptRequests -> RequestStates]
  /\ turn \in TurnStates /\ warming \in WarmingStates

\* While the turns' numbers fit, a reply that is there is the one of its turn.
RepliesSound ==
  turn.number < Base^Fits =>
    /\ \A n \in 0..MaxTurn : n < Base^Fits /\ TurnName(n) \in cached => sounds[TurnName(n)] = n
    /\ turn.at \in Given => sounds[TurnName(turn.number)] = turn.number

\* No one plays a draft; a script that was not rewritten is its own text in
\* every pass, and in the sound that is there.
ScriptSound(k) ==
  /\ scripts[k].status = "DRAFT" =>
       ScriptName(k) \notin cached /\ \A p \in ScriptPasses : ~ OfScript(p, k)
  /\ ~ scripts[k].rewritten =>
       /\ ScriptName(k) \in cached => sounds[ScriptName(k)] = scripts[k].text
       /\ \A p \in ScriptPasses : OfScript(p, k) =>
            /\ passes[p].text = scripts[k].text
            /\ passes[p].at \in Given => sounds[ScriptName(k)] = scripts[k].text

\* With the first voice, the common prompt that is there speaks with it.
CommonSound ==
  warming.voice = 1 /\ (Common \in cached \/ warming.at \in {"uploaded", "warm"}) => sounds[Common] = 1

HeardSound ==
  /\ heard.of = "script" => heard.at \in Scripts
  /\ PromptSpeaksItsText

PromptInv == PromptTypes /\ RepliesSound /\ (\A k \in Scripts : ScriptSound(k)) /\ CommonSound /\ HeardSound

\* A name of few digits is told in full.
LEMMA CutExists ==
  ASSUME NEW size \in Nat
  PROVE  \E f : f = [n \in 0..size |-> IF n < Base^Fits THEN n ELSE f[n \div Base]]
  <1> DEFINE Table(f, z) == f = [n \in 0..z |-> IF n < Base^Fits THEN n ELSE f[n \div Base]]
             bad == {z \in Nat : ~ \E f : Table(f, z)}
  <1>1. Base \in Nat /\ Base > 1 /\ Base^Fits \in Nat /\ Base^Fits > 0
    BY PromptsAssumption
  <1>2. ASSUME NEW z \in Nat, z \in bad, \A m \in bad : z <= m
        PROVE  FALSE
    <2>1. CASE z = 0
      <3>1. [n \in 0..0 |-> n] = [n \in 0..0 |-> IF n < Base^Fits THEN n ELSE [m \in 0..0 |-> m][n \div Base]]
        BY <1>1
      <3>2. Table([n \in 0..0 |-> n], 0)
        BY <3>1
      <3> QED
        BY <1>2, <2>1, <3>2
    <2>2. CASE z # 0
      <3>1. z - 1 \in Nat /\ z - 1 \notin bad
        BY <1>2, <2>2
      <3>2. PICK g : Table(g, z - 1)
        BY <3>1
      <3> DEFINE f == [n \in 0..z |-> IF n < Base^Fits THEN n ELSE g[n \div Base]]
      <3>3. ASSUME NEW n \in 0..z, ~ (n < Base^Fits)
            PROVE  f[n \div Base] = g[n \div Base]
        <4>1. n \div Base \in 0..(z - 1)
          BY <1>1, <3>3
        <4>2. n \div Base \in 0..z
          BY <4>1
        <4>3. g[n \div Base] = IF n \div Base < Base^Fits THEN n \div Base ELSE g[(n \div Base) \div Base]
          BY <3>2, <4>1, Zenon
        <4>4. f[n \div Base] = IF n \div Base < Base^Fits THEN n \div Base ELSE g[(n \div Base) \div Base]
          BY <4>2, Zenon
        <4> QED
          BY <4>3, <4>4, Zenon
      <3>4. Table(f, z)
        <4>1. \A n \in 0..z : (IF n < Base^Fits THEN n ELSE g[n \div Base]) = (IF n < Base^Fits THEN n ELSE f[n \div Base])
          BY <3>3, Zenon
        <4> HIDE DEF f
        <4>2. [n \in 0..z |-> IF n < Base^Fits THEN n ELSE g[n \div Base]]
                = [n \in 0..z |-> IF n < Base^Fits THEN n ELSE f[n \div Base]]
          BY <4>1, Zenon
        <4> USE DEF f
        <4>3. f = [n \in 0..z |-> IF n < Base^Fits THEN n ELSE g[n \div Base]]
          OBVIOUS
        <4> HIDE DEF f
        <4> QED
          BY <4>2, <4>3, Zenon
      <3> QED
        BY <1>2, <3>4
    <2> QED
      BY <2>1, <2>2
  <1>3. bad = {}
    <2> SUFFICES ASSUME bad # {}
                 PROVE  FALSE
      OBVIOUS
    <2>1. bad \subseteq Nat
      OBVIOUS
    <2> HIDE DEF bad
    <2>2. \E z \in bad : \A m \in bad : z <= m
      BY <2>1, LeastNumber
    <2> QED
      BY <1>2, <2>1, <2>2
  <1> QED
    BY <1>3

LEMMA CutIsWhole ==
  ASSUME NEW n \in 0..MaxTurn, n < Base^Fits
  PROVE  Cut[n] = n
  <1>1. \E f : f = [m \in 0..MaxTurn |-> IF m < Base^Fits THEN m ELSE f[m \div Base]]
    BY CutExists, PromptsAssumption
  <1> DEFINE t == CHOOSE f : f = [m \in 0..MaxTurn |-> IF m < Base^Fits THEN m ELSE f[m \div Base]]
  <1>2. t = [m \in 0..MaxTurn |-> IF m < Base^Fits THEN m ELSE t[m \div Base]]
    BY <1>1, Zenon
  <1>3. Cut = t
    BY Zenon DEF Cut
  <1> HIDE DEF t
  <1>4. t[n] = IF n < Base^Fits THEN n ELSE t[n \div Base]
    BY <1>2, Zenon
  <1> QED
    BY <1>3, <1>4

LEMMA NamesDiffer ==
  /\ Common \in PromptNames
  /\ \A k \in Scripts : ScriptName(k) \in PromptNames /\ ScriptName(k) # Common
  /\ \A n \in 0..MaxTurn : TurnName(n) \in PromptNames /\ TurnName(n) # Common
  /\ \A k \in Scripts, n \in 0..MaxTurn : ScriptName(k) # TurnName(n)
  /\ \A k, j \in Scripts : ScriptName(k) = ScriptName(j) => k = j
  BY DEF PromptNames, Common, ScriptName, TurnName

LEMMA ShortNamesDiffer ==
  ASSUME NEW n \in 0..MaxTurn, NEW m \in 0..MaxTurn, n < Base^Fits, m < Base^Fits, TurnName(n) = TurnName(m)
  PROVE  n = m
  <1>1. Cut[n] = n /\ Cut[m] = m
    BY CutIsWhole
  <1> QED
    BY <1>1 DEF TurnName

LEMMA RepliesKept ==
  ASSUME PromptTypes, RepliesSound, UNCHANGED turn,
         \A n \in 0..MaxTurn : /\ sounds'[TurnName(n)] = sounds[TurnName(n)]
                               /\ TurnName(n) \in cached' => TurnName(n) \in cached
  PROVE  RepliesSound'
  <1>1. turn.number \in 0..MaxTurn
    BY DEF PromptTypes, TurnStates
  <1> QED
    BY <1>1 DEF RepliesSound, TurnName

LEMMA ScriptKept ==
  ASSUME NEW k \in Scripts, ScriptSound(k), UNCHANGED <<scripts, passes>>,
         sounds'[ScriptName(k)] = sounds[ScriptName(k)],
         ScriptName(k) \in cached' => ScriptName(k) \in cached
  PROVE  ScriptSound(k)'
  BY DEF ScriptSound, ScriptName, OfScript

LEMMA CommonKept ==
  ASSUME CommonSound, UNCHANGED warming, sounds'[Common] = sounds[Common], Common \in cached' => Common \in cached
  PROVE  CommonSound'
  BY DEF CommonSound, Common

\* A script that was rewritten remains so.
LEMMA HeardKept ==
  ASSUME PromptTypes, HeardSound, UNCHANGED heard, warming.voice > 1 => warming'.voice > 1,
         \A k \in Scripts : scripts[k].rewritten => scripts'[k].rewritten
  PROVE  HeardSound'
  BY DEF HeardSound, PromptSpeaksItsText

LEMMA PromptInvInit == PromptInit => PromptInv
  <1> SUFFICES ASSUME PromptInit
               PROVE  PromptInv
    OBVIOUS
  <1>1. /\ MaxTurn \in Nat /\ MaxVoice \in Nat /\ MaxVoice >= 1
    BY PromptsAssumption
  <1>2. PromptTypes
    <2>1. sounds \in [PromptNames -> Nat] /\ cached \subseteq PromptNames
      BY DEF PromptInit
    <2>2. scripts \in [Scripts -> ScriptRows]
      BY DEF PromptInit, ScriptRows
    <2>3. passes \in [ScriptPasses -> PassStates] /\ scriptRequests \in [ScriptRequests -> RequestStates]
      <3>1. [at |-> "idle"] \in PassStates /\ [at |-> "idle"] \in RequestStates
        BY DEF PassStates, RequestStates
      <3> QED
        BY <3>1 DEF PromptInit
    <2>4. turn \in TurnStates /\ warming \in WarmingStates
      BY <1>1 DEF PromptInit, TurnStates, WarmingStates
    <2> QED
      BY <2>1, <2>2, <2>3, <2>4 DEF PromptTypes
  <1>3. RepliesSound
    BY DEF PromptInit, RepliesSound, Given
  <1>4. \A k \in Scripts : ScriptSound(k)
    BY DEF PromptInit, ScriptSound, OfScript
  <1>5. CommonSound /\ HeardSound
    BY DEF PromptInit, CommonSound, HeardSound, PromptSpeaksItsText, Nothing
  <1> QED
    BY <1>2, <1>3, <1>4, <1>5 DEF PromptInv

LEMMA PromptInvStutters == PromptInv /\ UNCHANGED promptVars => PromptInv'
  BY DEF PromptInv, promptVars, PromptTypes, RepliesSound, ScriptSound, CommonSound, HeardSound,
         PromptSpeaksItsText, OfScript, TurnName, ScriptName, Common, PromptNames, PassStates, RequestStates,
         ScriptRows, TurnStates, WarmingStates

\* Steps of the start-up that touch neither a sound nor the cache.
LEMMA WarmingMoves ==
  ASSUME PromptInv, UNCHANGED <<sounds, cached, scripts, passes, scriptRequests, turn, heard>>,
         warming' \in WarmingStates, warming'.voice = warming.voice, CommonSound'
  PROVE  PromptInv'
  <1>1. PromptTypes'
    BY DEF PromptInv, PromptTypes, PromptNames, ScriptName, TurnName, Common
  <1>2. RepliesSound' /\ (\A k \in Scripts : ScriptSound(k)')
    BY RepliesKept, ScriptKept DEF PromptInv
  <1>3. HeardSound'
    BY HeardKept DEF PromptInv
  <1> QED
    BY <1>1, <1>2, <1>3 DEF PromptInv

LEMMA WarmUpIsLooked ==
  ASSUME PromptInv, WarmUpLooks
  PROVE  PromptInv'
  <1> DEFINE at == IF Common \in cached THEN "warm" ELSE "missing"
  <1>1. /\ warming \in WarmingStates /\ warming' = [warming EXCEPT !.at = at]
        /\ UNCHANGED <<sounds, cached, scripts, passes, scriptRequests, turn, heard>>
    BY DEF WarmUpLooks, OfCache, OfCampaigns, OfCall, Quietly, PromptInv, PromptTypes
  <1>2. warming' \in WarmingStates /\ warming'.voice = warming.voice /\ warming'.at = at
    BY <1>1 DEF WarmingStates
  <1>3. CommonSound'
    BY <1>1, <1>2 DEF PromptInv, CommonSound, Common
  <1> QED
    BY <1>1, <1>2, <1>3, WarmingMoves

LEMMA WarmUpIsLost ==
  ASSUME PromptInv, WarmUpFails
  PROVE  PromptInv'
  <1>1. /\ warming \in WarmingStates /\ warming' = [warming EXCEPT !.at = "failed"]
        /\ UNCHANGED <<sounds, cached, scripts, passes, scriptRequests, turn, heard>>
    BY DEF WarmUpFails, OfCache, OfCampaigns, OfCall, Quietly, PromptInv, PromptTypes
  <1>2. warming' \in WarmingStates /\ warming'.voice = warming.voice /\ warming'.at = "failed"
    BY <1>1 DEF WarmingStates
  <1>3. CommonSound'
    BY <1>1, <1>2 DEF PromptInv, CommonSound, Common
  <1> QED
    BY <1>1, <1>2, <1>3, WarmingMoves

\* A sound is given under a name; the names of the other kinds stay.
LEMMA SoundsOfOthers ==
  ASSUME PromptTypes, NEW name \in PromptNames, NEW sound \in Nat, Upload(name, sound)
  PROVE  /\ sounds' \in [PromptNames -> Nat] /\ sounds'[name] = sound
         /\ \A other \in PromptNames : other # name => sounds'[other] = sounds[other]
  BY DEF Upload, PromptTypes

LEMMA WarmUpIsUploaded ==
  ASSUME PromptInv, WarmUpUploads
  PROVE  PromptInv'
  <1>1. /\ warming \in WarmingStates /\ warming' = [warming EXCEPT !.at = "uploaded"]
        /\ Upload(Common, warming.voice) /\ warming.voice \in Nat /\ PromptTypes
        /\ UNCHANGED <<cached, scripts, passes, scriptRequests, turn, heard>>
    BY DEF WarmUpUploads, OfCampaigns, OfCall, Quietly, PromptInv, PromptTypes, WarmingStates
  <1>2. warming' \in WarmingStates /\ warming'.voice = warming.voice /\ warming'.at = "uploaded"
    BY <1>1 DEF WarmingStates
  <1>3. /\ sounds' \in [PromptNames -> Nat] /\ sounds'[Common] = warming.voice
        /\ \A other \in PromptNames : other # Common => sounds'[other] = sounds[other]
    BY <1>1, NamesDiffer, SoundsOfOthers
  <1>4. PromptTypes'
    BY <1>1, <1>2, <1>3 DEF PromptTypes, PromptNames, ScriptName, TurnName, Common
  <1>5. RepliesSound'
    BY <1>1, <1>3, NamesDiffer, RepliesKept DEF PromptInv
  <1>6. \A k \in Scripts : ScriptSound(k)'
    BY <1>1, <1>3, NamesDiffer, ScriptKept DEF PromptInv
  <1>7. CommonSound'
    BY <1>2, <1>3 DEF CommonSound, Common
  <1>8. HeardSound'
    BY <1>1, <1>2, HeardKept DEF PromptInv
  <1> QED
    BY <1>4, <1>5, <1>6, <1>7, <1>8 DEF PromptInv

LEMMA WarmUpIsMarked ==
  ASSUME PromptInv, WarmUpMarks
  PROVE  PromptInv'
  <1>1. /\ warming \in WarmingStates /\ warming.at = "uploaded" /\ warming' = [warming EXCEPT !.at = "warm"]
        /\ cached' = cached \cup {Common} /\ PromptTypes
        /\ UNCHANGED <<sounds, scripts, passes, scriptRequests, turn, heard>>
    BY DEF WarmUpMarks, OfCampaigns, OfCall, Quietly, PromptInv, PromptTypes
  <1>2. warming' \in WarmingStates /\ warming'.voice = warming.voice
    BY <1>1 DEF WarmingStates
  <1>3. PromptTypes'
    BY <1>1, <1>2, NamesDiffer DEF PromptTypes, PromptNames, ScriptName, TurnName, Common
  <1>4. RepliesSound'
    BY <1>1, NamesDiffer, RepliesKept DEF PromptInv
  <1>5. \A k \in Scripts : ScriptSound(k)'
    BY <1>1, NamesDiffer, ScriptKept DEF PromptInv
  <1>6. CommonSound'
    BY <1>1, <1>2 DEF PromptInv, CommonSound, Common
  <1>7. HeardSound'
    BY <1>1, <1>2, HeardKept DEF PromptInv
  <1> QED
    BY <1>3, <1>4, <1>5, <1>6, <1>7 DEF PromptInv

\* Playing a sound changes nothing but what was heard.
LEMMA HearingMoves ==
  ASSUME PromptInv, UNCHANGED <<sounds, cached, scripts, passes, scriptRequests, turn, warming>>, HeardSound'
  PROVE  PromptInv'
  <1>1. PromptTypes'
    BY DEF PromptInv, PromptTypes, PromptNames, ScriptName, TurnName, Common
  <1>2. RepliesSound' /\ (\A k \in Scripts : ScriptSound(k)') /\ CommonSound'
    BY RepliesKept, ScriptKept, CommonKept DEF PromptInv
  <1> QED
    BY <1>1, <1>2 DEF PromptInv

LEMMA SystemPromptIsPlayed ==
  ASSUME PromptInv, PlaySystemPrompt
  PROVE  PromptInv'
  <1> DEFINE when == IF warming.at = "warm" THEN 1 ELSE 0
  <1>1. /\ heard' = [of |-> "common", at |-> when, sound |-> sounds[Common], meant |-> warming.voice]
        /\ UNCHANGED <<sounds, cached, scripts, passes, scriptRequests, turn, warming>>
        /\ warming.voice \in Nat /\ warming.voice >= 1
    BY DEF PlaySystemPrompt, OfCache, OfCampaigns, OfCall, PromptInv, PromptTypes, WarmingStates
  <1>2. HeardSound'
    <2>1. heard'.of = "common" /\ heard'.at = when /\ heard'.sound = sounds[Common] /\ heard'.meant = warming.voice
      BY <1>1
    <2>2. warming.voice = 1 /\ when = 1 => sounds[Common] = 1
      BY DEF PromptInv, CommonSound
    <2>3. when = 0 \/ when = 1
      OBVIOUS
    <2> HIDE DEF when
    <2> QED
      BY <1>1, <2>1, <2>2, <2>3 DEF HeardSound, PromptSpeaksItsText
  <1> QED
    BY <1>1, <1>2, HearingMoves

LEMMA EngineIsRestarted ==
  ASSUME PromptInv, NEW voice \in 1..MaxVoice, RestartEngine(voice)
  PROVE  PromptInv'
  <1>1. /\ voice \in {warming.voice, warming.voice + 1} /\ warming' = [at |-> "looking", voice |-> voice]
        /\ passes' = [p \in ScriptPasses |-> [at |-> "idle"]]
        /\ scriptRequests' = [r \in ScriptRequests |-> IF scriptRequests[r].at = "idle" THEN scriptRequests[r] ELSE [at |-> "done"]]
        /\ turn' = [turn EXCEPT !.at = "over"]
        /\ UNCHANGED <<sounds, cached, scripts, heard>>
        /\ PromptTypes /\ warming.voice \in Nat /\ warming.voice >= 1
    BY DEF RestartEngine, OfCache, Quietly, PromptInv, PromptTypes, WarmingStates
  <1>2. warming' \in WarmingStates /\ warming'.voice = voice /\ warming'.at = "looking"
    BY <1>1 DEF WarmingStates
  <1>3. turn' \in TurnStates /\ turn'.number = turn.number /\ turn'.at = "over"
    BY <1>1 DEF PromptTypes, TurnStates
  <1>4. [at |-> "idle"] \in PassStates /\ [at |-> "done"] \in RequestStates
    BY DEF PassStates, RequestStates
  <1>5. passes' \in [ScriptPasses -> PassStates] /\ scriptRequests' \in [ScriptRequests -> RequestStates]
    BY <1>1, <1>4 DEF PromptTypes
  <1>6. PromptTypes'
    BY <1>1, <1>2, <1>3, <1>5 DEF PromptTypes, PromptNames, ScriptName, TurnName, Common
  <1>7. RepliesSound'
    BY <1>1, <1>3 DEF PromptInv, RepliesSound, Given, TurnName
  <1>8. ASSUME NEW k \in Scripts
        PROVE  ScriptSound(k)'
    <2>1. \A p \in ScriptPasses : passes'[p].at = "idle"
      BY <1>1
    <2>2. ScriptSound(k)
      BY DEF PromptInv
    <2> QED
      BY <1>1, <2>1, <2>2 DEF ScriptSound, OfScript, ScriptName
  <1>9. CommonSound'
    BY <1>1, <1>2 DEF PromptInv, CommonSound, Common
  <1>10. HeardSound'
    BY <1>1, <1>2, HeardKept DEF PromptInv
  <1> QED
    BY <1>6, <1>7, <1>8, <1>9, <1>10 DEF PromptInv

\* A step of a turn leaves scripts and the common prompt alone.
LEMMA ReplyMoves ==
  ASSUME PromptInv, UNCHANGED <<scripts, passes, scriptRequests, warming>>,
         turn' \in TurnStates, sounds' \in [PromptNames -> Nat], cached' \subseteq PromptNames,
         \A name \in PromptNames : (\A n \in 0..MaxTurn : name # TurnName(n)) =>
            /\ sounds'[name] = sounds[name]
            /\ name \in cached' => name \in cached,
         RepliesSound', HeardSound'
  PROVE  PromptInv'
  <1>1. PromptTypes'
    BY DEF PromptInv, PromptTypes, PromptNames, ScriptName, TurnName, Common
  <1>2. /\ \A k \in Scripts : /\ sounds'[ScriptName(k)] = sounds[ScriptName(k)]
                              /\ ScriptName(k) \in cached' => ScriptName(k) \in cached
        /\ sounds'[Common] = sounds[Common]
        /\ Common \in cached' => Common \in cached
    BY NamesDiffer
  <1>3. (\A k \in Scripts : ScriptSound(k)') /\ CommonSound'
    BY <1>2, ScriptKept, CommonKept DEF PromptInv
  <1> QED
    BY <1>1, <1>3 DEF PromptInv

LEMMA AfterTurnIsLater ==
  ASSUME PromptTypes
  PROVE  /\ AfterTurn \in TurnStates /\ AfterTurn.at \notin Given
         /\ AfterTurn.number < Base^Fits => turn.number < Base^Fits
  <1>1. /\ turn.number \in 0..MaxTurn /\ MaxTurn \in Nat /\ Base^Fits \in Nat
    BY PromptsAssumption DEF PromptTypes, TurnStates
  <1>2. CASE turn.number = MaxTurn
    <2>1. AfterTurn = [at |-> "over", number |-> turn.number]
      BY <1>2 DEF AfterTurn
    <2> QED
      BY <1>1, <2>1 DEF TurnStates, Given
  <1>3. CASE turn.number # MaxTurn
    <2>1. AfterTurn = [at |-> "idle", number |-> turn.number + 1]
      BY <1>3 DEF AfterTurn
    <2> QED
      BY <1>1, <1>3, <2>1 DEF TurnStates, Given
  <1> QED
    BY <1>2, <1>3

LEMMA TurnIsLooked ==
  ASSUME PromptInv, TurnLooks
  PROVE  PromptInv'
  <1> DEFINE at == IF TurnName(turn.number) \in cached THEN "ready" ELSE "missing"
  <1>1. /\ turn \in TurnStates /\ turn' = [turn EXCEPT !.at = at] /\ PromptTypes
        /\ UNCHANGED <<sounds, cached, scripts, passes, scriptRequests, warming, heard>>
    BY DEF TurnLooks, OfCache, OfCampaigns, Quietly, PromptInv, PromptTypes
  <1>2. turn' \in TurnStates /\ turn'.number = turn.number /\ turn'.at = at /\ turn.number \in 0..MaxTurn
    BY <1>1 DEF TurnStates
  <1>3. RepliesSound'
    <2>1. at \in Given => TurnName(turn.number) \in cached
      BY DEF Given
    <2>2. TurnName(turn.number)' = TurnName(turn.number)
      BY <1>2 DEF TurnName
    <2> HIDE DEF at
    <2> QED
      BY <1>1, <1>2, <2>1, <2>2 DEF PromptInv, RepliesSound, TurnName
  <1>4. HeardSound'
    BY <1>1, HeardKept DEF PromptInv
  <1> QED
    BY <1>1, <1>2, <1>3, <1>4, ReplyMoves DEF PromptTypes

LEMMA TurnIsUploaded ==
  ASSUME PromptInv, TurnUploads
  PROVE  PromptInv'
  <1>1. /\ turn \in TurnStates /\ turn' = [turn EXCEPT !.at = "uploaded"] /\ PromptTypes
        /\ Upload(TurnName(turn.number), turn.number)
        /\ UNCHANGED <<cached, scripts, passes, scriptRequests, warming, heard>>
    BY DEF TurnUploads, OfCampaigns, Quietly, PromptInv, PromptTypes
  <1>2. /\ turn' \in TurnStates /\ turn'.number = turn.number
        /\ turn.number \in 0..MaxTurn /\ turn.number \in Nat
    BY <1>1 DEF TurnStates
  <1>3. /\ sounds' \in [PromptNames -> Nat] /\ sounds'[TurnName(turn.number)] = turn.number
        /\ \A other \in PromptNames : other # TurnName(turn.number) => sounds'[other] = sounds[other]
    BY <1>1, <1>2, NamesDiffer, SoundsOfOthers
  <1>4. RepliesSound'
    <2> SUFFICES ASSUME turn.number < Base^Fits
                 PROVE  /\ \A n \in 0..MaxTurn : n < Base^Fits /\ TurnName(n) \in cached => sounds'[TurnName(n)] = n
                        /\ sounds'[TurnName(turn.number)] = turn.number
      BY <1>1, <1>2 DEF RepliesSound, TurnName
    <2>1. ASSUME NEW n \in 0..MaxTurn, n < Base^Fits, TurnName(n) \in cached
          PROVE  sounds'[TurnName(n)] = n
      <3>1. CASE TurnName(n) = TurnName(turn.number)
        BY <1>2, <1>3, <2>1, <3>1, ShortNamesDiffer
      <3>2. CASE TurnName(n) # TurnName(turn.number)
        BY <1>3, <2>1, <3>2, NamesDiffer DEF PromptInv, RepliesSound
      <3> QED
        BY <3>1, <3>2
    <2> QED
      BY <1>3, <2>1
  <1>5. HeardSound'
    BY <1>1, HeardKept DEF PromptInv
  <1>6. \A name \in PromptNames : (\A n \in 0..MaxTurn : name # TurnName(n)) =>
            /\ sounds'[name] = sounds[name]
            /\ name \in cached' => name \in cached
    BY <1>1, <1>2, <1>3
  <1> QED
    BY <1>1, <1>2, <1>3, <1>4, <1>5, <1>6, ReplyMoves DEF PromptTypes

LEMMA TurnIsMarked ==
  ASSUME PromptInv, TurnMarks
  PROVE  PromptInv'
  <1>1. /\ turn \in TurnStates /\ turn.at = "uploaded" /\ turn' = [turn EXCEPT !.at = "ready"] /\ PromptTypes
        /\ cached' = cached \cup {TurnName(turn.number)}
        /\ UNCHANGED <<sounds, scripts, passes, scriptRequests, warming, heard>>
    BY DEF TurnMarks, OfCampaigns, Quietly, PromptInv, PromptTypes
  <1>2. turn' \in TurnStates /\ turn'.number = turn.number /\ turn.number \in 0..MaxTurn
    BY <1>1 DEF TurnStates
  <1>3. cached' \subseteq PromptNames
    BY <1>1, <1>2, NamesDiffer DEF PromptTypes
  <1>4. RepliesSound'
    <2> SUFFICES ASSUME turn.number < Base^Fits
                 PROVE  /\ \A n \in 0..MaxTurn : n < Base^Fits /\ TurnName(n) \in cached' => sounds[TurnName(n)] = n
                        /\ sounds[TurnName(turn.number)] = turn.number
      BY <1>1, <1>2 DEF RepliesSound, TurnName
    <2>1. sounds[TurnName(turn.number)] = turn.number
      BY <1>1 DEF PromptInv, RepliesSound, Given
    <2>2. ASSUME NEW n \in 0..MaxTurn, n < Base^Fits, TurnName(n) \in cached'
          PROVE  sounds[TurnName(n)] = n
      <3>1. CASE TurnName(n) = TurnName(turn.number)
        <4>1. n = turn.number
          BY <1>2, <2>2, <3>1, ShortNamesDiffer
        <4> QED
          BY <2>1, <4>1
      <3>2. CASE TurnName(n) # TurnName(turn.number)
        BY <1>1, <2>2, <3>2 DEF PromptInv, RepliesSound
      <3> QED
        BY <3>1, <3>2
    <2> QED
      BY <2>1, <2>2
  <1>5. HeardSound'
    BY <1>1, HeardKept DEF PromptInv
  <1>6. \A name \in PromptNames : (\A n \in 0..MaxTurn : name # TurnName(n)) =>
            /\ sounds'[name] = sounds[name]
            /\ name \in cached' => name \in cached
    BY <1>1, <1>2
  <1> QED
    BY <1>1, <1>2, <1>3, <1>4, <1>5, <1>6, ReplyMoves DEF PromptTypes

\* The call goes to its next turn.
LEMMA TurnGoesOn ==
  ASSUME PromptInv, turn' = AfterTurn, UNCHANGED <<sounds, cached, scripts, passes, scriptRequests, warming>>, HeardSound'
  PROVE  PromptInv'
  <1>1. /\ turn' \in TurnStates /\ turn'.at \notin Given
        /\ turn'.number < Base^Fits => turn.number < Base^Fits
    BY AfterTurnIsLater DEF PromptInv
  <1>2. RepliesSound'
    BY <1>1 DEF PromptInv, RepliesSound, TurnName
  <1> QED
    BY <1>1, <1>2, ReplyMoves DEF PromptInv, PromptTypes

LEMMA TurnIsSpoken ==
  ASSUME PromptInv, TurnSpeaks
  PROVE  PromptInv'
  <1>1. /\ turn.at = "ready" /\ turn' = AfterTurn /\ turn.number \in 0..MaxTurn
        /\ heard' = [of |-> "turn", at |-> turn.number, sound |-> sounds[TurnName(turn.number)], meant |-> turn.number]
        /\ UNCHANGED <<sounds, cached, scripts, passes, scriptRequests, warming>>
    BY DEF TurnSpeaks, OfCache, OfCampaigns, PromptInv, PromptTypes, TurnStates
  <1>2. turn.number < Base^Fits => sounds[TurnName(turn.number)] = turn.number
    BY <1>1 DEF PromptInv, RepliesSound, Given
  <1>3. /\ heard'.of = "turn" /\ heard'.at = turn.number
        /\ heard'.sound = sounds[TurnName(turn.number)] /\ heard'.meant = turn.number
    BY <1>1
  <1>4. HeardSound'
    BY <1>1, <1>2, <1>3, PromptsAssumption DEF HeardSound, PromptSpeaksItsText
  <1> QED
    BY <1>1, <1>4, TurnGoesOn

LEMMA TurnIsLost ==
  ASSUME PromptInv, TurnFails
  PROVE  PromptInv'
  <1>1. turn' = AfterTurn /\ UNCHANGED <<sounds, cached, scripts, passes, scriptRequests, warming, heard>>
    BY DEF TurnFails, OfCache, OfCampaigns, Quietly
  <1>2. HeardSound'
    BY <1>1, HeardKept DEF PromptInv
  <1> QED
    BY <1>1, <1>2, TurnGoesOn

LEMMA ReplyIsForgotten ==
  ASSUME PromptInv, NEW n \in 0..MaxTurn, TurnExpires(n)
  PROVE  PromptInv'
  <1>1. /\ cached' = cached \ {TurnName(n)} /\ PromptTypes
        /\ UNCHANGED <<sounds, scripts, passes, scriptRequests, turn, warming, heard>>
    BY DEF TurnExpires, OfCampaigns, OfCall, Quietly, PromptInv
  <1>2. cached' \subseteq cached /\ cached' \subseteq PromptNames
    BY <1>1 DEF PromptTypes
  <1>3. RepliesSound'
    BY <1>1, <1>2, RepliesKept DEF PromptInv
  <1>4. HeardSound'
    BY <1>1, HeardKept DEF PromptInv
  <1> QED
    BY <1>1, <1>2, <1>3, <1>4, ReplyMoves DEF PromptTypes

\* A step about campaigns leaves the turn, the start-up and what was heard.
LEMMA ScriptMoves ==
  ASSUME PromptInv, UNCHANGED <<turn, warming, heard>>,
         sounds' \in [PromptNames -> Nat], cached' \subseteq PromptNames,
         scripts' \in [Scripts -> ScriptRows], passes' \in [ScriptPasses -> PassStates],
         scriptRequests' \in [ScriptRequests -> RequestStates],
         \A name \in PromptNames : (\A k \in Scripts : name # ScriptName(k)) =>
            /\ sounds'[name] = sounds[name]
            /\ name \in cached' => name \in cached,
         \A k \in Scripts : scripts[k].rewritten => scripts'[k].rewritten,
         \A k \in Scripts : ScriptSound(k)'
  PROVE  PromptInv'
  <1>1. PromptTypes'
    BY DEF PromptInv, PromptTypes, PromptNames, ScriptName, TurnName, Common
  <1>2. /\ \A n \in 0..MaxTurn : /\ sounds'[TurnName(n)] = sounds[TurnName(n)]
                                 /\ TurnName(n) \in cached' => TurnName(n) \in cached
        /\ sounds'[Common] = sounds[Common]
        /\ Common \in cached' => Common \in cached
    BY NamesDiffer
  <1>3. RepliesSound' /\ CommonSound' /\ HeardSound'
    BY <1>2, RepliesKept, CommonKept, HeardKept DEF PromptInv
  <1> QED
    BY <1>1, <1>3 DEF PromptInv

\* The passes of a script go on, end, or hold its text and what is there.
LEMMA PassMoves ==
  ASSUME NEW k \in Scripts, ScriptSound(k), NEW q \in ScriptPasses, UNCHANGED scripts,
         sounds'[ScriptName(k)] = sounds[ScriptName(k)],
         ScriptName(k) \in cached' => ScriptName(k) \in cached,
         \A p \in ScriptPasses : p # q => passes'[p] = passes[p],
         OfScript(q, k)' => /\ scripts[k].status # "DRAFT"
                            /\ ~ scripts[k].rewritten =>
                                 /\ passes'[q].text = scripts[k].text
                                 /\ passes'[q].at \in Given => sounds[ScriptName(k)] = scripts[k].text
  PROVE  ScriptSound(k)'
  <1>1. \A p \in ScriptPasses : p # q => (OfScript(p, k)' <=> OfScript(p, k))
    BY DEF OfScript
  <1> QED
    BY <1>1 DEF ScriptSound, ScriptName

LEMMA PassIsBusy ==
  ASSUME PromptTypes, NEW p \in ScriptPasses, passes[p].at # "idle"
  PROVE  /\ passes[p] \in [at: {"read", "missing", "uploaded", "ready"}, script: Scripts, text: Nat]
         /\ passes[p].script \in Scripts /\ passes[p].text \in Nat
  <1>1. passes[p] \in PassStates
    BY DEF PromptTypes
  <1> QED
    BY <1>1 DEF PassStates

\* Another place of a pass in its work.
LEMMA PassPlace ==
  ASSUME PromptTypes, NEW p \in ScriptPasses, passes[p].at # "idle",
         NEW at \in {"read", "missing", "uploaded", "ready"}, passes' = [passes EXCEPT ![p].at = at]
  PROVE  /\ passes' \in [ScriptPasses -> PassStates]
         /\ passes'[p].at = at /\ passes'[p].script = passes[p].script /\ passes'[p].text = passes[p].text
         /\ \A q \in ScriptPasses : q # p => passes'[q] = passes[q]
  <1>1. passes[p] \in [at: {"read", "missing", "uploaded", "ready"}, script: Scripts, text: Nat]
    BY PassIsBusy
  <1>2. passes \in [ScriptPasses -> PassStates]
    BY DEF PromptTypes
  <1> DEFINE row == [passes[p] EXCEPT !.at = at]
  <1>3. /\ row \in [at: {"read", "missing", "uploaded", "ready"}, script: Scripts, text: Nat]
        /\ row.at = at /\ row.script = passes[p].script /\ row.text = passes[p].text
    BY <1>1
  <1>4. passes' = [passes EXCEPT ![p] = row]
    OBVIOUS
  <1>5. row \in PassStates
    BY <1>3 DEF PassStates
  <1> HIDE DEF row
  <1> QED
    BY <1>2, <1>3, <1>4, <1>5

\* A pass that stays at its script, as its place asks.
LEMMA PassStays ==
  ASSUME PromptInv, NEW p \in ScriptPasses, passes[p].at # "idle",
         NEW at \in {"read", "missing", "uploaded", "ready"}, passes' = [passes EXCEPT ![p].at = at],
         UNCHANGED <<sounds, cached, scripts, scriptRequests, turn, warming, heard>>,
         at \in Given => passes[p].at \in Given \/ ScriptName(passes[p].script) \in cached
  PROVE  PromptInv'
  <1>1. /\ passes' \in [ScriptPasses -> PassStates]
        /\ passes'[p].at = at /\ passes'[p].script = passes[p].script /\ passes'[p].text = passes[p].text
        /\ \A q \in ScriptPasses : q # p => passes'[q] = passes[q]
    BY PassPlace DEF PromptInv
  <1>2. ASSUME NEW k \in Scripts
        PROVE  ScriptSound(k)'
    <2>1. ScriptSound(k)
      BY DEF PromptInv
    <2>2. OfScript(p, k)' => OfScript(p, k)
      BY <1>1 DEF OfScript
    <2>3. OfScript(p, k) => /\ scripts[k].status # "DRAFT"
                            /\ ~ scripts[k].rewritten =>
                                 /\ passes'[p].text = scripts[k].text
                                 /\ passes'[p].at \in Given => sounds[ScriptName(k)] = scripts[k].text
      BY <1>1, <2>1 DEF ScriptSound, OfScript
    <2> QED
      BY <1>1, <2>1, <2>2, <2>3, PassMoves
  <1> QED
    BY <1>1, <1>2, ScriptMoves DEF PromptInv, PromptTypes

LEMMA PassIsLooked ==
  ASSUME PromptInv, NEW p \in ScriptPasses, PassLooks(p)
  PROVE  PromptInv'
  <1> DEFINE at == IF ScriptName(passes[p].script) \in cached THEN "ready" ELSE "missing"
  <1>1. /\ passes[p].at # "idle" /\ passes' = [passes EXCEPT ![p].at = at]
        /\ UNCHANGED <<sounds, cached, scripts, scriptRequests, turn, warming, heard>>
    BY DEF PassLooks, OfCache, OfCall, Quietly
  <1>2. /\ at \in {"read", "missing", "uploaded", "ready"}
        /\ at \in Given => passes[p].at \in Given \/ ScriptName(passes[p].script) \in cached
    BY DEF Given
  <1> HIDE DEF at
  <1> QED
    BY <1>1, <1>2, PassStays

LEMMA PassIsUploaded ==
  ASSUME PromptInv, NEW p \in ScriptPasses, PassUploads(p)
  PROVE  PromptInv'
  <1>0. passes[p].script \in Scripts /\ passes[p].text \in Nat
    BY PassIsBusy DEF PassUploads, PromptInv
  <1> PICK k \in Scripts : k = passes[p].script
    BY <1>0
  <1>1. /\ passes[p].at # "idle" /\ passes' = [passes EXCEPT ![p].at = "uploaded"] /\ PromptTypes
        /\ Upload(ScriptName(k), passes[p].text) /\ k = passes[p].script
        /\ UNCHANGED <<cached, scripts, scriptRequests, turn, warming, heard>>
    BY DEF PassUploads, OfCall, Quietly, PromptInv
  <1>2. k \in Scripts /\ passes[p].text \in Nat
    BY <1>0
  <1>3. /\ passes' \in [ScriptPasses -> PassStates]
        /\ passes'[p].at = "uploaded" /\ passes'[p].script = k /\ passes'[p].text = passes[p].text
        /\ \A q \in ScriptPasses : q # p => passes'[q] = passes[q]
    BY <1>1, PassPlace
  <1>4. /\ sounds' \in [PromptNames -> Nat] /\ sounds'[ScriptName(k)] = passes[p].text
        /\ \A other \in PromptNames : other # ScriptName(k) => sounds'[other] = sounds[other]
    BY <1>1, <1>2, NamesDiffer, SoundsOfOthers
  <1>5. OfScript(p, k) /\ (\A j \in Scripts : j # k => ~ OfScript(p, j)')
    BY <1>1, <1>3 DEF OfScript
  <1>6. ScriptSound(k)'
    <2>1. ScriptSound(k)
      BY <1>2 DEF PromptInv
    <2>2. \A q \in ScriptPasses : OfScript(q, k)' <=> OfScript(q, k)
      BY <1>1, <1>3, <1>5 DEF OfScript
    <2>3. scripts'[k].status # "DRAFT"
      BY <1>1, <1>5, <2>1 DEF ScriptSound
    <2>4. ASSUME ~ scripts[k].rewritten
          PROVE  /\ sounds'[ScriptName(k)] = scripts[k].text
                 /\ \A q \in ScriptPasses : OfScript(q, k)' => passes'[q].text = scripts[k].text
      <3>1. passes[p].text = scripts[k].text
        BY <1>5, <2>1, <2>4 DEF ScriptSound
      <3>2. ASSUME NEW q \in ScriptPasses, OfScript(q, k)'
            PROVE  passes'[q].text = passes[q].text /\ passes[q].text = scripts[k].text
        BY <1>3, <2>1, <2>2, <2>4, <3>2 DEF ScriptSound
      <3> QED
        BY <1>4, <3>1, <3>2
    <2> QED
      BY <1>1, <2>3, <2>4 DEF ScriptSound, ScriptName
  <1>7. ASSUME NEW j \in Scripts, j # k
        PROVE  ScriptSound(j)'
    <2>1. ScriptSound(j) /\ ScriptName(j) # ScriptName(k) /\ ScriptName(j) \in PromptNames
      BY <1>2, <1>7, NamesDiffer DEF PromptInv
    <2>2. sounds'[ScriptName(j)] = sounds[ScriptName(j)]
      BY <1>4, <2>1
    <2>3. ~ OfScript(p, j)'
      BY <1>5, <1>7
    <2> QED
      BY <1>1, <1>3, <2>1, <2>2, <2>3, PassMoves
  <1>8. \A j \in Scripts : ScriptSound(j)'
    BY <1>6, <1>7
  <1>9. \A name \in PromptNames : (\A j \in Scripts : name # ScriptName(j)) =>
            /\ sounds'[name] = sounds[name]
            /\ name \in cached' => name \in cached
    BY <1>1, <1>2, <1>4
  <1> QED
    BY <1>1, <1>3, <1>4, <1>8, <1>9, ScriptMoves DEF PromptTypes

LEMMA PassIsMarked ==
  ASSUME PromptInv, NEW p \in ScriptPasses, PassMarks(p)
  PROVE  PromptInv'
  <1>0. passes[p].script \in Scripts
    BY PassIsBusy DEF PassMarks, PromptInv
  <1> PICK k \in Scripts : k = passes[p].script
    BY <1>0
  <1>1. /\ passes[p].at = "uploaded" /\ passes' = [passes EXCEPT ![p].at = "ready"] /\ PromptTypes
        /\ cached' = cached \cup {ScriptName(k)} /\ k = passes[p].script
        /\ UNCHANGED <<sounds, scripts, scriptRequests, turn, warming, heard>>
    BY DEF PassMarks, OfCall, Quietly, PromptInv
  <1>2. k \in Scripts
    OBVIOUS
  <1>3. /\ passes' \in [ScriptPasses -> PassStates]
        /\ passes'[p].at = "ready" /\ passes'[p].script = k /\ passes'[p].text = passes[p].text
        /\ \A q \in ScriptPasses : q # p => passes'[q] = passes[q]
    BY <1>1, PassPlace
  <1>4. cached' \subseteq PromptNames
    BY <1>1, <1>2, NamesDiffer DEF PromptTypes
  <1>5. OfScript(p, k) /\ passes[p].at \in Given /\ (\A j \in Scripts : j # k => ~ OfScript(p, j)')
    BY <1>1, <1>3 DEF OfScript, Given
  <1>6. ScriptSound(k)'
    <2>1. ScriptSound(k)
      BY <1>2 DEF PromptInv
    <2>2. \A q \in ScriptPasses : OfScript(q, k)' <=> OfScript(q, k)
      BY <1>1, <1>3, <1>5 DEF OfScript
    <2>3. scripts'[k].status # "DRAFT"
      BY <1>1, <1>5, <2>1 DEF ScriptSound
    <2>4. ASSUME ~ scripts[k].rewritten
          PROVE  /\ sounds[ScriptName(k)] = scripts[k].text
                 /\ \A q \in ScriptPasses : OfScript(q, k)' => passes'[q].text = scripts[k].text
      <3>1. sounds[ScriptName(k)] = scripts[k].text
        BY <1>5, <2>1, <2>4 DEF ScriptSound
      <3>2. ASSUME NEW q \in ScriptPasses, OfScript(q, k)'
            PROVE  passes'[q].text = passes[q].text /\ passes[q].text = scripts[k].text
        BY <1>3, <2>1, <2>2, <2>4, <3>2 DEF ScriptSound
      <3> QED
        BY <3>1, <3>2
    <2> QED
      BY <1>1, <2>3, <2>4 DEF ScriptSound, ScriptName
  <1>7. ASSUME NEW j \in Scripts, j # k
        PROVE  ScriptSound(j)'
    <2>1. ScriptSound(j) /\ ScriptName(j) # ScriptName(k)
      BY <1>2, <1>7, NamesDiffer DEF PromptInv
    <2>2. ScriptName(j) \in cached' => ScriptName(j) \in cached
      BY <1>1, <2>1
    <2>3. ~ OfScript(p, j)'
      BY <1>5, <1>7
    <2>4. sounds'[ScriptName(j)] = sounds[ScriptName(j)] /\ UNCHANGED scripts
      BY <1>1
    <2> QED
      BY <1>3, <2>1, <2>2, <2>3, <2>4, PassMoves
  <1>8. \A j \in Scripts : ScriptSound(j)'
    BY <1>6, <1>7
  <1>9. \A name \in PromptNames : (\A j \in Scripts : name # ScriptName(j)) =>
            /\ sounds'[name] = sounds[name]
            /\ name \in cached' => name \in cached
    BY <1>1, <1>2
  <1> QED
    BY <1>1, <1>3, <1>4, <1>8, <1>9, ScriptMoves DEF PromptTypes

\* A pass that ends, leaving the campaign as it is or paused.
LEMMA PassIsOver ==
  ASSUME PromptInv, NEW p \in ScriptPasses, PassFails(p) \/ PassEnds(p)
  PROVE  PromptInv'
  <1>1. /\ passes[p].at # "idle" /\ passes' = [passes EXCEPT ![p] = [at |-> "idle"]] /\ PromptTypes
        /\ \/ UNCHANGED scripts
           \/ scripts' = [scripts EXCEPT ![passes[p].script].status = "PAUSED"]
        /\ UNCHANGED <<sounds, cached, scriptRequests, turn, warming, heard>>
    BY DEF PassFails, PassEnds, OfCache, OfCall, Quietly, PromptInv
  <1>2. passes[p].script \in Scripts
    BY <1>1, PassIsBusy
  <1>3. /\ scripts' \in [Scripts -> ScriptRows]
        /\ \A k \in Scripts : /\ scripts'[k].text = scripts[k].text /\ scripts'[k].rewritten = scripts[k].rewritten
                              /\ scripts'[k].status = "DRAFT" => scripts[k].status = "DRAFT"
    <2>1. CASE UNCHANGED scripts
      BY <1>1, <2>1 DEF PromptTypes
    <2>2. CASE scripts' = [scripts EXCEPT ![passes[p].script].status = "PAUSED"]
      <3> DEFINE row == [scripts[passes[p].script] EXCEPT !.status = "PAUSED"]
      <3>1. scripts[passes[p].script] \in ScriptRows /\ scripts \in [Scripts -> ScriptRows]
        BY <1>1, <1>2 DEF PromptTypes
      <3>2. /\ row \in ScriptRows /\ row.status = "PAUSED"
            /\ row.text = scripts[passes[p].script].text /\ row.rewritten = scripts[passes[p].script].rewritten
        BY <3>1 DEF ScriptRows
      <3>3. scripts' = [scripts EXCEPT ![passes[p].script] = row]
        BY <2>2
      <3> HIDE DEF row
      <3> QED
        BY <1>2, <3>1, <3>2, <3>3
    <2> QED
      BY <1>1, <2>1, <2>2
  <1>4. /\ passes' \in [ScriptPasses -> PassStates] /\ passes'[p].at = "idle"
        /\ \A q \in ScriptPasses : q # p => passes'[q] = passes[q]
    <2>1. [at |-> "idle"] \in PassStates
      BY DEF PassStates
    <2> QED
      BY <1>1, <2>1 DEF PromptTypes
  <1>5. ASSUME NEW k \in Scripts
        PROVE  ScriptSound(k)'
    <2>1. ScriptSound(k)
      BY DEF PromptInv
    <2>2. \A q \in ScriptPasses : OfScript(q, k)' => OfScript(q, k) /\ passes'[q] = passes[q]
      BY <1>4 DEF OfScript
    <2> QED
      BY <1>1, <1>3, <2>1, <2>2 DEF ScriptSound, ScriptName
  <1> QED
    BY <1>1, <1>3, <1>4, <1>5, ScriptMoves DEF PromptTypes

LEMMA PassIsStarted ==
  ASSUME PromptInv, NEW p \in ScriptPasses, NEW k \in Scripts, PassReads(p, k)
  PROVE  PromptInv'
  <1> DEFINE row == [at |-> "read", script |-> k, text |-> scripts[k].text]
  <1>1. /\ scripts[k].status = "RUNNING" /\ passes' = [passes EXCEPT ![p] = row] /\ PromptTypes
        /\ UNCHANGED <<sounds, cached, scripts, scriptRequests, turn, warming, heard>>
    BY DEF PassReads, OfCache, OfCall, Quietly, PromptInv
  <1>2. scripts[k].text \in Nat
    BY <1>1 DEF PromptTypes, ScriptRows
  <1>3. row \in PassStates /\ row.at = "read" /\ row.script = k /\ row.text = scripts[k].text
    BY <1>2 DEF PassStates
  <1>4. /\ passes' \in [ScriptPasses -> PassStates] /\ passes'[p] = row
        /\ \A q \in ScriptPasses : q # p => passes'[q] = passes[q]
    BY <1>1, <1>3 DEF PromptTypes
  <1>5. ASSUME NEW j \in Scripts
        PROVE  ScriptSound(j)'
    <2>1. ScriptSound(j)
      BY DEF PromptInv
    <2>2. OfScript(p, j)' => j = k
      BY <1>3, <1>4 DEF OfScript
    <2>3. /\ passes'[p].at \notin Given /\ passes'[p].text = scripts[k].text /\ scripts[k].status # "DRAFT"
      BY <1>1, <1>3, <1>4 DEF Given
    <2>4. OfScript(p, j)' => /\ scripts[j].status # "DRAFT"
                             /\ ~ scripts[j].rewritten =>
                                  /\ passes'[p].text = scripts[j].text
                                  /\ passes'[p].at \in Given => sounds[ScriptName(j)] = scripts[j].text
      BY <2>2, <2>3
    <2>5. /\ UNCHANGED scripts /\ sounds'[ScriptName(j)] = sounds[ScriptName(j)]
          /\ ScriptName(j) \in cached' => ScriptName(j) \in cached
      BY <1>1
    <2> QED
      BY <1>4, <2>1, <2>4, <2>5, PassMoves
  <1> QED
    BY <1>1, <1>4, <1>5, ScriptMoves DEF PromptTypes

LEMMA ScriptIsSpoken ==
  ASSUME PromptInv, NEW p \in ScriptPasses, PassSpeaks(p)
  PROVE  PromptInv'
  <1>0. passes[p].script \in Scripts
    BY PassIsBusy DEF PassSpeaks, PromptInv
  <1> PICK k \in Scripts : k = passes[p].script
    BY <1>0
  <1>1. /\ passes[p].at = "ready" /\ k = passes[p].script
        /\ heard' = [of |-> "script", at |-> k, sound |-> sounds[ScriptName(k)], meant |-> scripts[k].text]
        /\ UNCHANGED <<sounds, cached, scripts, passes, scriptRequests, turn, warming>>
    BY DEF PassSpeaks, OfCache, OfCampaigns, OfCall
  <1>2. scripts[k].rewritten \/ sounds[ScriptName(k)] = scripts[k].text
    BY <1>1 DEF PromptInv, ScriptSound, OfScript, Given
  <1>3. /\ heard'.of = "script" /\ heard'.at = k
        /\ heard'.sound = sounds[ScriptName(k)] /\ heard'.meant = scripts[k].text
    BY <1>1
  <1>4. HeardSound'
    BY <1>1, <1>2, <1>3 DEF HeardSound, PromptSpeaksItsText
  <1> QED
    BY <1>1, <1>4, HearingMoves

LEMMA CampaignIsAsked ==
  ASSUME PromptInv, NEW r \in ScriptRequests, NEW op \in {"edit", "start"}, NEW k \in Scripts, AskCampaign(r, op, k)
  PROVE  PromptInv'
  <1> DEFINE row == [at |-> "read", op |-> op, script |-> k]
  <1>1. /\ scriptRequests' = [scriptRequests EXCEPT ![r] = row] /\ PromptTypes
        /\ UNCHANGED <<sounds, cached, scripts, passes, turn, warming, heard>>
    BY DEF AskCampaign, OfCache, OfCall, Quietly, PromptInv
  <1>2. row \in RequestStates
    BY DEF RequestStates
  <1>3. scriptRequests' \in [ScriptRequests -> RequestStates]
    BY <1>1, <1>2 DEF PromptTypes
  <1>4. \A j \in Scripts : ScriptSound(j)'
    BY <1>1, ScriptKept DEF PromptInv
  <1> QED
    BY <1>1, <1>3, <1>4, ScriptMoves DEF PromptTypes

LEMMA RequestIsRead ==
  ASSUME PromptTypes, NEW r \in ScriptRequests, scriptRequests[r].at = "read"
  PROVE  scriptRequests[r].script \in Scripts
  <1>1. scriptRequests[r] \in RequestStates
    BY DEF PromptTypes
  <1> QED
    BY <1>1 DEF RequestStates

LEMMA ScriptIsWritten ==
  ASSUME PromptInv, NEW r \in ScriptRequests, EditScript(r) \/ StartScript(r)
  PROVE  PromptInv'
  <1>0. scriptRequests[r].script \in Scripts
    BY RequestIsRead DEF EditScript, StartScript, PromptInv
  <1> PICK k \in Scripts : k = scriptRequests[r].script
    BY <1>0
  <1>00. (scripts[k].rewritten \/ scripts[k].status # "DRAFT") \in BOOLEAN
    OBVIOUS
  <1> PICK again \in BOOLEAN : again = (scripts[k].rewritten \/ scripts[k].status # "DRAFT")
    BY <1>00
  <1> DEFINE edited == [scripts[k] EXCEPT !.text = scripts[k].text + 1, !.rewritten = again]
             started == [scripts[k] EXCEPT !.status = "RUNNING"]
  <1>1. /\ scriptRequests' = [scriptRequests EXCEPT ![r] = [at |-> "done"]] /\ PromptTypes
        /\ \/ scripts' = [scripts EXCEPT ![k] = edited]
           \/ scripts' = [scripts EXCEPT ![k] = started]
        /\ UNCHANGED <<sounds, cached, passes, turn, warming, heard>>
    BY DEF EditScript, StartScript, OfCache, OfCall, Quietly, PromptInv
  <1>2. scripts \in [Scripts -> ScriptRows] /\ scripts[k] \in ScriptRows
    BY <1>1 DEF PromptTypes
  <1>3. /\ edited \in ScriptRows /\ edited.status = scripts[k].status
        /\ edited.rewritten = again
        /\ scripts[k].rewritten => again
        /\ scripts[k].status # "DRAFT" => again
    <2>1. scripts[k].text + 1 \in Nat
      BY <1>2 DEF ScriptRows
    <2>2. edited \in ScriptRows
      BY <1>2, <2>1 DEF ScriptRows
    <2>3. edited.status = scripts[k].status /\ edited.rewritten = again
      BY <1>2, Zenon DEF ScriptRows
    <2> QED
      BY <2>2, <2>3
  <1>4. /\ started \in ScriptRows /\ started.status = "RUNNING"
        /\ started.text = scripts[k].text /\ started.rewritten = scripts[k].rewritten
    BY <1>2 DEF ScriptRows
  <1> HIDE DEF edited, started
  <1>5. scriptRequests' \in [ScriptRequests -> RequestStates]
    <2>1. [at |-> "done"] \in RequestStates
      BY DEF RequestStates
    <2> QED
      BY <1>1, <2>1 DEF PromptTypes
  <1>6. /\ scripts' \in [Scripts -> ScriptRows] /\ scripts'[k] \in {edited, started}
        /\ \A j \in Scripts : j # k => scripts'[j] = scripts[j]
    BY <1>1, <1>2, <1>3, <1>4
  <1>7. ScriptSound(k)'
    <2>1. ScriptSound(k)
      BY DEF PromptInv
    <2>2. /\ sounds' = sounds /\ cached' = cached /\ passes' = passes
          /\ \A p \in ScriptPasses : OfScript(p, k)' <=> OfScript(p, k)
      BY <1>1 DEF OfScript
    <2>3. CASE scripts'[k] = edited
      <3>1. CASE scripts[k].status = "DRAFT"
        BY <1>3, <2>1, <2>2, <2>3, <3>1 DEF ScriptSound, ScriptName
      <3>2. CASE scripts[k].status # "DRAFT"
        <4>1. scripts'[k].rewritten /\ scripts'[k].status # "DRAFT"
          BY <1>3, <2>3, <3>2
        <4> QED
          BY <4>1 DEF ScriptSound
      <3> QED
        BY <3>1, <3>2
    <2>4. CASE scripts'[k] = started
      BY <1>4, <2>1, <2>2, <2>4 DEF ScriptSound, ScriptName
    <2> QED
      BY <1>6, <2>3, <2>4
  <1>8. ASSUME NEW j \in Scripts, j # k
        PROVE  ScriptSound(j)'
    BY <1>1, <1>6, <1>8 DEF PromptInv, ScriptSound, OfScript, ScriptName
  <1>9. \A j \in Scripts : ScriptSound(j)'
    BY <1>7, <1>8
  <1>10. \A j \in Scripts : scripts[j].rewritten => scripts'[j].rewritten
    BY <1>3, <1>4, <1>6
  <1> QED
    BY <1>1, <1>5, <1>6, <1>9, <1>10, ScriptMoves DEF PromptTypes

LEMMA PromptInvStays == PromptInv /\ PromptNext => PromptInv'
  <1> SUFFICES ASSUME PromptInv, PromptNext
               PROVE  PromptInv'
    OBVIOUS
  <1> QED
    BY WarmUpIsLooked, WarmUpIsUploaded, WarmUpIsMarked, WarmUpIsLost, SystemPromptIsPlayed, EngineIsRestarted,
       TurnIsLooked, TurnIsUploaded, TurnIsMarked, TurnIsSpoken, TurnIsLost, ReplyIsForgotten,
       CampaignIsAsked, ScriptIsWritten, PassIsStarted, PassIsLooked, PassIsUploaded, PassIsMarked, PassIsOver, ScriptIsSpoken
    DEF PromptNext

LEMMA PromptInvExplains == PromptInv => PromptTypeOK /\ PromptSpeaksItsText
  <1> SUFFICES ASSUME PromptInv
               PROVE  PromptTypeOK /\ PromptSpeaksItsText
    OBVIOUS
  <1>1. ASSUME NEW p \in ScriptPasses
        PROVE  /\ passes[p].at \in {"idle", "read", "missing", "uploaded", "ready"}
               /\ passes[p].at # "idle" => passes[p].script \in Scripts
    <2>1. passes[p] \in PassStates
      BY DEF PromptInv, PromptTypes
    <2> QED
      BY <2>1 DEF PassStates
  <1>2. ASSUME NEW r \in ScriptRequests
        PROVE  scriptRequests[r].at \in {"idle", "read", "done"}
    <2>1. scriptRequests[r] \in RequestStates
      BY DEF PromptInv, PromptTypes
    <2> QED
      BY <2>1 DEF RequestStates
  <1> QED
    BY <1>1, <1>2 DEF PromptInv, PromptTypes, PromptTypeOK, HeardSound, ScriptRows, TurnStates, WarmingStates

-----------------------------------------------------------------------------
(* The parts together.  Each moves by its own actions alone, so the        *)
(* invariant of all is the conjunction of theirs.                          *)

TenancyInv == /\ SessionsInv /\ KeysInv /\ PlansInv /\ DeliveriesInv /\ AddressInv
              /\ ContactsInv /\ ImportInv /\ FormInv /\ RunsInv /\ PromptInv
              /\ part \in TenancyParts

LEMMA TenancyInvInit == TenancyInit => TenancyInv
  <1> SUFFICES ASSUME TenancyInit
               PROVE  TenancyInv
    OBVIOUS
  <1>1. /\ SessionsInit /\ KeysInit /\ PlansInit /\ DeliveriesInit /\ EndpointInit
        /\ ContactsInit /\ ImportInit /\ FormInit /\ RunsInit /\ PromptInit
        /\ part \in TenancyParts
    BY DEF TenancyInit
  <1> QED
    BY <1>1, SessionsInvInit, KeysInvInit, PlansInvInit, DeliveriesInvInit, AddressInvInit,
       ContactsInvInit, ImportInvInit, FormInvInit, RunsInvInit, PromptInvInit DEF TenancyInv

LEMMA TenancyPartsMove ==
  ASSUME [TenancyNext]_tenancyVars
  PROVE  /\ SessionsNext \/ UNCHANGED sessionsVars
         /\ KeysNext \/ UNCHANGED keysVars
         /\ PlansNext \/ UNCHANGED plansVars
         /\ DeliveriesNext \/ UNCHANGED deliveryVars
         /\ EndpointNext \/ UNCHANGED endpointVars
         /\ ContactsNext \/ UNCHANGED contactVars
         /\ ImportNext \/ UNCHANGED importVars
         /\ FormNext \/ UNCHANGED formVars
         /\ RunsNext \/ UNCHANGED runVars
         /\ PromptNext \/ UNCHANGED promptVars
         /\ UNCHANGED part
  <1>1. CASE UNCHANGED tenancyVars
    BY <1>1, Zenon DEF tenancyVars
  <1>2. CASE TenancyNext
    BY <1>2, Zenon DEF TenancyNext, OfAccount, OfAddress, OfPeople, OfCampaign
  <1> QED
    BY <1>1, <1>2

LEMMA TenancyInvStays == TenancyInv /\ [TenancyNext]_tenancyVars => TenancyInv'
  <1> SUFFICES ASSUME TenancyInv, [TenancyNext]_tenancyVars
               PROVE  TenancyInv'
    OBVIOUS
  <1>1. SessionsInv' /\ KeysInv' /\ PlansInv'
    BY TenancyPartsMove, SessionsInvStays, SessionsInvStutters, KeysInvStays, KeysInvStutters,
       PlansInvStays, PlansInvStutters DEF TenancyInv
  <1>2. DeliveriesInv' /\ AddressInv'
    BY TenancyPartsMove, DeliveriesInvStays, DeliveriesInvStutters, AddressInvStays, AddressInvStutters DEF TenancyInv
  <1>3. ContactsInv' /\ ImportInv'
    BY TenancyPartsMove, ContactsInvStays, ContactsInvStutters, ImportInvStays, ImportInvStutters DEF TenancyInv
  <1>4. FormInv' /\ RunsInv' /\ PromptInv'
    BY TenancyPartsMove, FormInvStays, FormInvStutters, RunsInvStays, RunsInvStutters,
       PromptInvStays, PromptInvStutters DEF TenancyInv
  <1> QED
    BY <1>1, <1>2, <1>3, <1>4, TenancyPartsMove DEF TenancyInv

LEMMA TenancyInvHolds == TenancySpec => []TenancyInv
  BY TenancyInvInit, TenancyInvStays, PTL DEF TenancySpec

\* The three gates of an account hold: a key admits only from the addresses
\* its list allows, a pending login is redeemed once, and the agents of a
\* tenant pass the limit of its plan only by requests under way at once, for
\* any users, keys, allow-lists and widths of an address, plans and requests
\* (ipAllowlist.ts, tenant/auth.ts, tenant/agents.ts); and the part of the
\* state that moves has its type.
THEOREM GatesAlwaysHold == TenancySpec => []GatesHold
  <1>1. TenancyInv => GatesHold
    <2> SUFFICES ASSUME TenancyInv
                 PROVE  GatesHold
      OBVIOUS
    <2>1. /\ SessionsTypeOK /\ KeysTypeOK /\ PlansTypeOK /\ DeliveriesTypeOK /\ EndpointTypeOK
          /\ ContactsTypeOK /\ ImportTypeOK /\ FormTypeOK /\ RunsTypeOK /\ PromptTypeOK
      BY SessionsInvExplains, KeysInvExplains, PlansInvExplains, DeliveriesInvExplains, AddressInvExplains,
         ContactsInvExplains, ImportInvExplains, FormInvExplains, RunsInvExplains, PromptInvExplains DEF TenancyInv
    <2>2. TenancyTypeOK
      <3>1. CASE part = "sessions"
        BY <2>1, <3>1, Zenon DEF TenancyTypeOK
      <3>2. CASE part = "keys"
        BY <2>1, <3>2, Zenon DEF TenancyTypeOK
      <3>3. CASE part = "plans"
        BY <2>1, <3>3, Zenon DEF TenancyTypeOK
      <3>4. CASE part = "deliveries"
        BY <2>1, <3>4, Zenon DEF TenancyTypeOK
      <3>5. CASE part = "endpoint"
        BY <2>1, <3>5, Zenon DEF TenancyTypeOK
      <3>6. CASE part = "contacts"
        BY <2>1, <3>6, Zenon DEF TenancyTypeOK
      <3>7. CASE part = "import"
        BY <2>1, <3>7, Zenon DEF TenancyTypeOK
      <3>8. CASE part = "form"
        BY <2>1, <3>8, Zenon DEF TenancyTypeOK
      <3>9. CASE part = "runs"
        BY <2>1, <3>9, Zenon DEF TenancyTypeOK
      <3>10. CASE part = "prompts"
        BY <2>1, <3>10, Zenon DEF TenancyTypeOK
      <3> QED
        BY <3>1, <3>2, <3>3, <3>4, <3>5, <3>6, <3>7, <3>8, <3>9, <3>10 DEF TenancyInv, TenancyParts
    <2>3. OriginDecidesAdmission /\ PendingIsRedeemedOnce /\ AgentOverrunIsBounded
      BY SessionsInvExplains, KeysInvExplains, PlansInvExplains DEF TenancyInv
    <2> QED
      BY <2>2, <2>3 DEF GatesHold
  <1> QED
    BY <1>1, TenancyInvHolds, PTL

\* What was given to the worker is accounted for: a notice was received, given
\* up on record or had nowhere to go, and the page that imports contacts tells
\* of the job it waits for, but for the causes each part names, for any calls,
\* addresses, files, crashes and stalls (worker/src/index.ts, ImportPage.tsx).
THEOREM WorkIsAlwaysAccountedFor == TenancySpec => []WorkIsAccountedFor
  <1>1. TenancyInv => WorkIsAccountedFor
    BY DeliveriesInvExplains, ImportInvExplains DEF TenancyInv, WorkIsAccountedFor
  <1> QED
    BY <1>1, TenancyInvHolds, PTL

\* No socket is open to an address of a private or reserved range, for any
\* model addresses, IPv4 and IPv6 answers of the DNS and requests, however a
\* name resolves between the save, the request and the connection: also not
\* by a range whose prefix ends inside an octet, nor by an IPv4 address
\* written as IPv6 (urlGuard.ts:11-23, 77-98, 143-171).
THEOREM ConnectionsStayPublic == TenancySpec => []ConnectionIsPublic
  <1>1. TenancyInv => ConnectionIsPublic
    BY AddressInvExplains DEF TenancyInv
  <1> QED
    BY <1>1, TenancyInvHolds, PTL

\* A number is in two contacts only if the public API or the worker stored one
\* of them, for any numbers, imports and additions: among the contacts of the
\* CRM's own routes, whatever the way it was written, a number is one contact
\* (tenant/contacts.ts:23-34 and its unique key).
THEOREM SecondContactsHaveCauses == TenancySpec => []SecondContactHasACause
  <1>1. TenancyInv => SecondContactHasACause
    BY ContactsInvExplains DEF TenancyInv
  <1> QED
    BY <1>1, TenancyInvHolds, PTL

\* A campaign is what its user made and saw: the form makes one of the people
\* it lists, the page tells how its run stands, those who did not answer are
\* called again, and its calls play its script, but for the causes each part
\* names, for any forms, contacts, retry policies, scripts and restarts
\* (CampaignFormPage.tsx, CampaignDetailPage.tsx, tenant/campaigns.ts,
\* AudioCache.ts).
THEOREM CampaignsStayAsMade == TenancySpec => []CampaignIsAsMade
  <1>1. TenancyInv => CampaignIsAsMade
    BY FormInvExplains, RunsInvExplains, PromptInvExplains DEF TenancyInv, CampaignIsAsMade
  <1> QED
    BY <1>1, TenancyInvHolds, PTL
=============================================================================
