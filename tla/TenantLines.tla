------------------------------ MODULE TenantLines ------------------------------
(***************************************************************************)
(* The outgoing lines of one tenant, as administrators write them and as   *)
(* outgoing calls choose among them.                                       *)
(*                                                                         *)
(* A write is a request: it reads outside its transaction, then the first  *)
(* statement of the transaction fixes the rows it clears, then it commits. *)
(* Between them the rows may change: the database gives each statement the *)
(* rows committed when it starts.                                          *)
(***************************************************************************)
EXTENDS Naturals, FiniteSets

CONSTANTS MaxLines, \* bound: lines created; a line's number is its age
          LineOps   \* bound: writes of lines at once

ASSUME LinesAssumption == MaxLines \in Nat /\ IsFiniteSet(LineOps)

VARIABLES
  lines,    \* the TenantLine rows
  created,  \* lines created so far
  lineOps,  \* writes under way
  crossed   \* a write has crossed another since the default was last chosen

linesVars == <<lines, created, lineOps, crossed>>

-----------------------------------------------------------------------------
LineIds == 1..MaxLines
NoLine == [there |-> FALSE, isDefault |-> FALSE, isActive |-> FALSE]
Line == [there: BOOLEAN, isDefault: BOOLEAN, isActive: BOOLEAN]
There == {i \in LineIds : lines[i].there}
Defaults == {i \in There : lines[i].isDefault}
Oldest(S) == CHOOSE i \in S : \A j \in S : i <= j

Flag == {"keep", "on", "off"}
IdleLineOp == [op |-> "none", at |-> "idle", line |-> 0, isDefault |-> "keep",
               isActive |-> "keep", seen |-> {}, crossed |-> FALSE]
LineOp == [op: {"none", "add", "patch", "delete"}, at: {"idle", "read", "seen"},
           line: 0..MaxLines, isDefault: Flag, isActive: Flag,
           seen: SUBSET LineIds, crossed: BOOLEAN]

LinesTypeOK ==
  /\ lines \in [LineIds -> Line] /\ created \in 0..MaxLines
  /\ lineOps \in [LineOps -> LineOp]
  /\ crossed \in BOOLEAN

LinesInit ==
  /\ lines = [i \in LineIds |-> NoLine] /\ created = 0
  /\ lineOps = [o \in LineOps |-> IdleLineOp]
  /\ crossed = FALSE

-----------------------------------------------------------------------------
(* Writes of lines (admin/tenants.ts).                                     *)

Ask(o, op) ==
  /\ lineOps[o] = IdleLineOp
  /\ lineOps' = [lineOps EXCEPT ![o] = op]
  /\ UNCHANGED <<lines, created, crossed>>

\* A line asked for without a word on the default is it when it is the first.
AskAdd(o) ==
  \E isDefault, isActive \in {"on", "off"} :
    Ask(o, [IdleLineOp EXCEPT !.op = "add", !.at = "read",
                              !.isDefault = isDefault, !.isActive = isActive])
AskFirst(o) ==
  Ask(o, [IdleLineOp EXCEPT !.op = "add", !.at = "read", !.isActive = "on",
                            !.isDefault = IF There = {} THEN "on" ELSE "off"])
AskPatch(o, i) ==
  /\ i \in There
  /\ \E isDefault, isActive \in Flag :
       Ask(o, [IdleLineOp EXCEPT !.op = "patch", !.at = "read", !.line = i,
                                 !.isDefault = isDefault, !.isActive = isActive])
\* What it reads of the default decides if another line is promoted.
AskDelete(o, i) ==
  /\ i \in There
  /\ Ask(o, [IdleLineOp EXCEPT !.op = "delete", !.at = "read", !.line = i,
               !.isDefault = IF lines[i].isDefault THEN "on" ELSE "off"])

\* Mutant: a line made the default leaves the others as they are.
ClearNone(op) == {}
\* The rows the transaction will clear of the default, or the one it promotes.
Cleared(op) == IF op.isDefault = "on" THEN There \ {op.line} ELSE {}
Promoted(op) ==
  LET rest == There \ {op.line} IN
  IF op.isDefault = "on" /\ rest # {} THEN {Oldest(rest)} ELSE {}
BeginLine(o) ==
  LET op == lineOps[o] IN
  /\ op.at = "read"
  /\ op.op = "add" => created < MaxLines
  /\ lineOps' = [lineOps EXCEPT ![o].at = "seen",
                   ![o].seen = IF op.op = "delete" THEN Promoted(op) ELSE Cleared(op)]
  /\ UNCHANGED <<lines, created, crossed>>

Set(old, flag) == IF flag = "keep" THEN old ELSE flag = "on"
\* Every other write under way has been crossed by this one.
FinishLine(o) ==
  lineOps' = [p \in LineOps |->
    IF p = o THEN IdleLineOp
    ELSE [lineOps[p] EXCEPT !.crossed = lineOps[p] # IdleLineOp]]
\* Only a choice of the default clears the others.
Chosen(op) == IF op.op # "delete" /\ op.isDefault = "on" THEN op.crossed
              ELSE crossed \/ op.crossed
WithoutDefault(S) ==
  [i \in LineIds |-> IF i \in S THEN [lines[i] EXCEPT !.isDefault = FALSE]
                     ELSE lines[i]]

CommitAdd(o) ==
  LET op == lineOps[o] IN
  /\ op.op = "add" /\ op.at = "seen" /\ created < MaxLines
  /\ created' = created + 1
  /\ lines' = [WithoutDefault(op.seen) EXCEPT ![created + 1] =
       [there |-> TRUE, isDefault |-> op.isDefault = "on",
        isActive |-> op.isActive = "on"]]
  /\ crossed' = Chosen(op) /\ FinishLine(o)
CommitPatch(o) ==
  LET op == lineOps[o] IN
  /\ op.op = "patch" /\ op.at = "seen" /\ op.line \in There
  /\ lines' = [WithoutDefault(op.seen) EXCEPT
       ![op.line].isDefault = Set(@, op.isDefault),
       ![op.line].isActive = Set(@, op.isActive)]
  /\ crossed' = Chosen(op) /\ FinishLine(o) /\ UNCHANGED created
CommitDelete(o) ==
  LET op == lineOps[o] IN
  /\ op.op = "delete" /\ op.at = "seen"
  /\ op.line \in There /\ op.seen \subseteq There
  /\ lines' = [i \in LineIds |->
       IF i = op.line THEN NoLine
       ELSE IF i \in op.seen THEN [lines[i] EXCEPT !.isDefault = TRUE]
       ELSE lines[i]]
  /\ crossed' = Chosen(op) /\ FinishLine(o) /\ UNCHANGED created
\* A row it writes by id is gone: the transaction is undone.
Abort(o) ==
  LET op == lineOps[o] IN
  /\ op.at = "seen"
  /\ \/ op.op \in {"patch", "delete"} /\ op.line \notin There
     \/ op.op = "delete" /\ ~(op.seen \subseteq There)
  /\ lineOps' = [lineOps EXCEPT ![o] = IdleLineOp]
  /\ UNCHANGED <<lines, created, crossed>>

-----------------------------------------------------------------------------
(* Outgoing calls (outboundExtension.service.ts): the active default, else  *)
(* the oldest active line, else no call.                                   *)

Active == {i \in There : lines[i].isActive}
Outgoing == IF Active \cap Defaults # {} THEN Active \cap Defaults
            ELSE IF Active # {} THEN {Oldest(Active)} ELSE {0}

LinesNext ==
  \E o \in LineOps :
       \/ AskAdd(o) \/ AskFirst(o)
       \/ \E i \in LineIds : AskPatch(o, i) \/ AskDelete(o, i)
       \/ BeginLine(o) \/ CommitAdd(o) \/ CommitPatch(o) \/ CommitDelete(o) \/ Abort(o)

LinesSpec == LinesInit /\ [][LinesNext]_linesVars

-----------------------------------------------------------------------------
\* Outgoing calls have one line to take, and none only when no line is active,
\* unless a write of the lines has crossed another since the default was last
\* chosen: then each clears only the rows the other had not written, and two
\* defaults are left (tenants.ts POST, PATCH, DELETE of lines).
OneOutgoingLine == crossed \/ Cardinality(Outgoing) = 1
=============================================================================
