------------------------------- MODULE EngineSync -------------------------------
(***************************************************************************)
(* The projection of trunks and extensions onto the SIP engine: the routes *)
(* that change a row and then schedule a synchronisation nobody waits for  *)
(* (routes of trunks, extensions and routing), the synchronisation itself  *)
(* (pbxSync.service.ts, asteriskRuntime.service.ts) and the engine, which  *)
(* handles one reload at a time and silently discards the others           *)
(* (asteriskRuntime.service.ts:439-443).                                   *)
(***************************************************************************)
EXTENDS EngineConfig, Sequences

CONSTANTS Runs,        \* synchronisations that may be under way at once
          Stored,      \* rows it may find when it starts
          NewTrunks,   \* bodies of POST requests for a trunk
          TrunkEdits,  \* bodies of PUT requests for a trunk
          Byo,         \* tenants whose plan lets them bring their own trunk
          Users,       \* SIP users that may be drawn for an extension
          MaxChanges,  \* bound on committed changes
          MaxFaults    \* bound on failures and restarts

ASSUME EngineAssumption ==
  /\ MaxChanges \in Nat /\ MaxFaults \in Nat
  /\ \A found \in Stored : /\ DOMAIN found.trunks \subseteq Trunks
                            /\ DOMAIN found.extensions \subseteq Extensions
                            /\ found.routes \subseteq {"outbound", "inbound"} \X Trunks

VARIABLES trunks, extensions,  \* the rows
          routes,      \* pairs <<kind, trunk>> of call routes
          changes,     \* committed changes so far
          owed,        \* committed changes whose handler still has to schedule
          runs,        \* the synchronisations under way
          files,       \* the generated files
          engine,      \* what the engine has loaded of each
          reloading,   \* the reload it is busy with
          cause,       \* why it may differ from the rows
          faults       \* failures and restarts so far

rowVars == <<trunks, extensions, routes, changes, owed>>
engineVars == <<rowVars, runs, files, engine, reloading, cause, faults>>

Fault == faults < MaxFaults /\ faults' = faults + 1

(* What a file says, or what was loaded of one: a singleton, and nothing  *)
(* when it was left or read in the middle of a write.                       *)
Torn == {}
Ready == [module |-> "none", loaded |-> FALSE]

(***************************************************************************)
(* sync(): what a run does after it read the rows, in order.  writeFile    *)
(* truncates before it writes, so a write has two ends.                    *)
(***************************************************************************)
FileNames == {"pjsip", "globals", "extensions"}
Steps == << <<"open", "pjsip">>, <<"close", "pjsip">>,
            <<"open", "globals">>, <<"close", "globals">>,
            <<"open", "extensions">>, <<"close", "extensions">>,
            <<"reload", "res_pjsip">>,
            <<"reload", "res_pjsip_outbound_registration">>,
            <<"reload", "pbx_config">> >>

\* Mutant: the registrations are not reloaded.
StepsWithoutRegistrations == SubSeq(Steps, 1, 7) \o SubSeq(Steps, 9, 9)
Plan == Steps

NoRows == [x \in {} |-> x]
NoRun == [at |-> 0, unread |-> {}, trunks |-> NoRows, extensions |-> NoRows, alone |-> FALSE]
Begun == [NoRun EXCEPT !.at = 1, !.unread = {"trunks", "extensions"}]

UnderWay == {r \in Runs : runs[r].at > 0}
Doing(r) == IF runs[r].at > 0 /\ runs[r].unread = {} THEN Plan[runs[r].at] ELSE <<"none", "none">>

(***************************************************************************)
(* A run that begins when nothing else is under way answers for the whole  *)
(* state of the engine; any other adds a cause to those there are.         *)
(***************************************************************************)
Begin(r) ==
  /\ runs[r].at = 0
  /\ runs' = [runs EXCEPT ![r] = Begun]
  /\ cause' = IF UnderWay = {} /\ reloading = Ready THEN {} ELSE cause \cup {"crossed"}

(* The process starts on the rows of before and trusts no file they left. *)
EngineInit ==
  /\ \E found \in Stored : trunks = found.trunks /\ extensions = found.extensions /\ routes = found.routes
  /\ changes = 0 /\ owed = 0
  /\ \E r \in Runs : runs = [x \in Runs |-> IF x = r THEN Begun ELSE NoRun]  \* main() syncs once
  /\ files = [f \in FileNames |-> Torn]
  /\ engine = [endpoints |-> Torn, registrations |-> Torn, globals |-> Torn, extensions |-> Torn]
  /\ reloading = Ready
  /\ cause = {} /\ faults = 0

----------------------------------------------------------------------------
(* The routes.  Each commits its row, waits for the audit record and then  *)
(* schedules; an audit that fails answers 500 and schedules nothing.       *)
Commit == /\ changes < MaxChanges
          /\ changes' = changes + 1 /\ owed' = owed + 1
          /\ UNCHANGED <<runs, files, engine, reloading, cause, faults>>

(* Of the backoffice, for the operator or a tenant; then of a tenant itself. *)
StoreTrunk(t, data) == /\ trunks' = [x \in DOMAIN trunks \cup {t} |-> IF x = t THEN data ELSE trunks[x]]
                       /\ Commit /\ UNCHANGED <<extensions, routes>>

CreateTrunk == \E t \in Trunks \ DOMAIN trunks, body \in NewTrunks :
  /\ AuthAccepted(body, NewTrunkDefaults)
  /\ StoreTrunk(t, TrunkData(body, NewTrunkDefaults))

CreateOwnTrunk == \E t \in Trunks \ DOMAIN trunks, w \in Byo, body \in NewTrunks :
  /\ AuthAccepted(body, NewTrunkDefaults)
  /\ StoreTrunk(t, [TrunkData(body, NewTrunkDefaults) EXCEPT !.owner = w])

UpdateTrunk == \E t \in DOMAIN trunks, body \in TrunkEdits :
  /\ AuthAccepted(body, trunks[t])
  /\ StoreTrunk(t, TrunkData(body, trunks[t]))

UpdateOwnTrunk == \E t \in DOMAIN trunks, body \in TrunkEdits :
  /\ trunks[t].owner \in Byo
  /\ AuthAccepted(body, trunks[t])
  /\ StoreTrunk(t, TrunkData(body, trunks[t]))

(* The handler counts the outgoing routes; the foreign key of the incoming *)
(* ones refuses the rest.                                                  *)
RemoveTrunk(t) == /\ \A x \in routes : x[2] # t
                  /\ trunks' = [x \in DOMAIN trunks \ {t} |-> trunks[x]]
                  /\ Commit /\ UNCHANGED <<extensions, routes>>

DeleteTrunk == \E t \in DOMAIN trunks : RemoveTrunk(t)
DeleteOwnTrunk == \E t \in DOMAIN trunks : trunks[t].owner # Shared /\ RemoveTrunk(t)

UnusedUsers == Users \ {extensions[e].user : e \in DOMAIN extensions}

CreateExtension == \E e \in Extensions \ DOMAIN extensions, user \in UnusedUsers :
  /\ extensions' = [x \in DOMAIN extensions \cup {e} |->
                    IF x = e THEN NewExtension(user) ELSE extensions[x]]
  /\ Commit /\ UNCHANGED <<trunks, routes>>

UpdateExtension == \E e \in DOMAIN extensions, active \in BOOLEAN :
  /\ extensions' = [extensions EXCEPT ![e].active = active]
  /\ Commit /\ UNCHANGED <<trunks, routes>>

ResetSip == \E e \in DOMAIN extensions, user \in UnusedUsers :
  /\ extensions' = [extensions EXCEPT ![e].user = user]
  /\ Commit /\ UNCHANGED <<trunks, routes>>

DeleteExtension == \E e \in DOMAIN extensions :
  /\ extensions' = [x \in DOMAIN extensions \ {e} |-> extensions[x]]
  /\ Commit /\ UNCHANGED <<trunks, routes>>

(* Call routes name a trunk that is there; the files do not depend on them, *)
(* and each change schedules a synchronisation all the same.                *)
CreateRoute(kind) == \E t \in DOMAIN trunks :
  /\ routes' = routes \cup {<<kind, t>>}
  /\ Commit /\ UNCHANGED <<trunks, extensions>>

UpdateRoute(kind) == \E t, new \in DOMAIN trunks :
  /\ <<kind, t>> \in routes
  /\ routes' = (routes \ {<<kind, t>>}) \cup {<<kind, new>>}
  /\ Commit /\ UNCHANGED <<trunks, extensions>>

DeleteRoute(kind) == \E t \in DOMAIN trunks :
  /\ <<kind, t>> \in routes
  /\ routes' = routes \ {<<kind, t>>}
  /\ Commit /\ UNCHANGED <<trunks, extensions>>

CreateOutboundRoute == CreateRoute("outbound")
UpdateOutboundRoute == UpdateRoute("outbound")
DeleteOutboundRoute == DeleteRoute("outbound")
CreateInboundRoute == CreateRoute("inbound")
UpdateInboundRoute == UpdateRoute("inbound")
DeleteInboundRoute == DeleteRoute("inbound")

(* scheduleTenantPbxSync and scheduleAllPbxSync *)
Schedule == /\ owed > 0 /\ owed' = owed - 1
            /\ \E r \in Runs : Begin(r)
            /\ UNCHANGED <<trunks, extensions, routes, changes, files, engine, reloading, faults>>

AuditFails == /\ Fault /\ owed > 0 /\ owed' = owed - 1
              /\ cause' = cause \cup {"unscheduled"}
              /\ UNCHANGED <<trunks, extensions, routes, changes, runs, files, engine, reloading>>

(* The process stops; what it starts again with is one synchronisation. *)
Restart == /\ Fault /\ owed' = 0
           /\ \E r \in Runs : runs' = [x \in Runs |-> IF x = r THEN Begun ELSE NoRun]
           /\ cause' = IF reloading = Ready THEN {} ELSE cause \cup {"crossed"}
           /\ UNCHANGED <<trunks, extensions, routes, changes, files, engine, reloading>>

----------------------------------------------------------------------------
(* A run.  Its queries answer one by one. *)
ReadTrunks(r) ==
  /\ "trunks" \in runs[r].unread
  /\ runs' = [runs EXCEPT ![r].unread = @ \ {"trunks"}, ![r].trunks = trunks]
  /\ UNCHANGED <<rowVars, files, engine, reloading, cause, faults>>

ReadExtensions(r) ==
  /\ "extensions" \in runs[r].unread
  /\ runs' = [runs EXCEPT ![r].unread = @ \ {"extensions"}, ![r].extensions = extensions]
  /\ UNCHANGED <<rowVars, files, engine, reloading, cause, faults>>

(* The next step; what was read is forgotten once it is written. *)
Moved(run) ==
  CASE run.at = Len(Plan) -> NoRun
    [] /\ run.at < Len(Plan)
       /\ \A i \in (run.at + 1)..Len(Plan) : Plan[i][1] = "reload" -> [NoRun EXCEPT !.at = run.at + 1]
    [] OTHER -> [run EXCEPT !.at = @ + 1]

Contents(f, run) ==
  CASE f = "pjsip" -> {{PjsipFile(run.trunks, run.extensions)}}
    [] f = "globals" -> {{c} : c \in GlobalsChoices(run.trunks)}
    [] OTHER -> {{DialplanFile(run.trunks)}}

Writing(f) == {x \in Runs : Doing(x) = <<"close", f>>}

OpenFile(r) == \E f \in FileNames :
  /\ Doing(r) = <<"open", f>>
  /\ files' = [files EXCEPT ![f] = Torn]
  /\ runs' = [x \in Runs |->
       IF x = r THEN [Moved(runs[r]) EXCEPT !.alone = Writing(f) = {}]
       ELSE IF x \in Writing(f) THEN [runs[x] EXCEPT !.alone = FALSE] ELSE runs[x]]
  /\ UNCHANGED <<rowVars, engine, reloading, cause, faults>>

(* Two writers at once may leave a mixture of both. *)
CloseFile(r) == \E f \in FileNames :
  /\ Doing(r) = <<"close", f>>
  /\ \E c \in Contents(f, runs[r]) \cup (IF runs[r].alone THEN {} ELSE {Torn}) :
       files' = [files EXCEPT ![f] = c]
  /\ runs' = [runs EXCEPT ![r] = Moved(@)]
  /\ UNCHANGED <<rowVars, engine, reloading, cause, faults>>

(* A module is asked to reload: the answer is "Success" in either case. *)
Reload(r) == \E m \in {"res_pjsip", "res_pjsip_outbound_registration", "pbx_config"} :
  /\ Doing(r) = <<"reload", m>>
  /\ runs' = [runs EXCEPT ![r] = Moved(@)]
  /\ IF reloading = Ready
       THEN reloading' = [module |-> m, loaded |-> FALSE] /\ UNCHANGED cause
       ELSE cause' = cause \cup {"discarded"} /\ UNCHANGED reloading
  /\ UNCHANGED <<rowVars, files, engine, faults>>

(* A reload the engine refuses is noted and the next one is asked all the same. *)
ReloadRefused(r) ==
  /\ Fault /\ Doing(r)[1] = "reload"
  /\ runs' = [runs EXCEPT ![r] = Moved(@)]
  /\ cause' = cause \cup {"failed"}
  /\ UNCHANGED <<rowVars, files, engine, reloading>>

(* A query, a write or a request that throws ends the run; it is only logged. *)
RunFails(r) == /\ Fault /\ runs[r].at > 0
               /\ runs' = [runs EXCEPT ![r] = NoRun]
               /\ cause' = cause \cup {"failed"}
               /\ UNCHANGED <<rowVars, files, engine, reloading>>

----------------------------------------------------------------------------
(* The engine reads the files some time after it accepted a reload. *)
Load ==
  /\ reloading # Ready /\ ~reloading.loaded
  /\ reloading' = [reloading EXCEPT !.loaded = TRUE]
  /\ engine' = CASE reloading.module = "res_pjsip" -> [engine EXCEPT !.endpoints = files.pjsip]
                 [] reloading.module = "pbx_config" ->
                      [engine EXCEPT !.globals = files.globals, !.extensions = files.extensions]
                 [] OTHER -> [engine EXCEPT !.registrations = {Registrations(c) : c \in files.pjsip}]
  /\ UNCHANGED <<rowVars, runs, files, cause, faults>>

ReloadEnds == /\ reloading.loaded
              /\ reloading' = Ready
              /\ UNCHANGED <<rowVars, runs, files, engine, cause, faults>>

EngineNext ==
  \/ CreateTrunk \/ UpdateTrunk \/ DeleteTrunk
  \/ CreateOwnTrunk \/ UpdateOwnTrunk \/ DeleteOwnTrunk
  \/ CreateExtension \/ UpdateExtension \/ ResetSip \/ DeleteExtension
  \/ CreateOutboundRoute \/ UpdateOutboundRoute \/ DeleteOutboundRoute
  \/ CreateInboundRoute \/ UpdateInboundRoute \/ DeleteInboundRoute
  \/ Schedule \/ AuditFails \/ Restart
  \/ \E r \in Runs : \/ ReadTrunks(r) \/ ReadExtensions(r) \/ OpenFile(r) \/ CloseFile(r)
                     \/ Reload(r) \/ ReloadRefused(r) \/ RunFails(r)
  \/ Load \/ ReloadEnds

EngineSpec == EngineInit /\ [][EngineNext]_engineVars

----------------------------------------------------------------------------
(* Every part of the state has its type. *)
EngineTypeOK ==
  /\ DOMAIN trunks \subseteq Trunks /\ DOMAIN extensions \subseteq Extensions
  /\ routes \subseteq {"outbound", "inbound"} \X Trunks
  /\ changes \in 0..MaxChanges /\ owed \in 0..MaxChanges
  /\ \A r \in Runs : runs[r].at \in 0..Len(Plan)
  /\ faults \in 0..MaxFaults
  /\ cause \subseteq {"crossed", "failed", "discarded", "unscheduled"}

(***************************************************************************)
(* Once every change was scheduled and every run and reload is over, the   *)
(* engine runs what the rows say, unless a run failed, crossed another, or *)
(* had a reload discarded since the last run that began alone: "mexer no   *)
(* backoffice reflecte-se no motor em segundos"                            *)
(* (asteriskRuntime.service.ts:20-21), with every exception named.         *)
(***************************************************************************)
EngineRunsTheRows ==
  owed = 0 /\ UnderWay = {} /\ reloading = Ready /\ cause = {} =>
    /\ engine.endpoints = {PjsipFile(trunks, extensions)}
    /\ engine.registrations = {Registrations(PjsipFile(trunks, extensions))}
    /\ \E c \in GlobalsChoices(trunks) : engine.globals = {c}
    /\ engine.extensions = {DialplanFile(trunks)}
=============================================================================
