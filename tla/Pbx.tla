---------------------------------- MODULE Pbx ----------------------------------
(***************************************************************************)
(* Calls that reach a tenant through a Yeastar PBX: the live Call rows      *)
(* written from its events, and the PbxCall rows written from its CDR.      *)
(*                                                                         *)
(* Every event is handled on its own (a webhook request, or a message of    *)
(* the WebSocket), so handlers overtake each other, an event that comes     *)
(* through both channels is handled twice and one may be lost.  A tenant    *)
(* with a PBX of its own also synchronises the CDR, which replaces the      *)
(* finished live rows.                                                      *)
(***************************************************************************)
EXTENDS Naturals, FiniteSets

CONSTANTS PCalls,   \* bound: calls of the PBX
          Syncs,    \* bound: synchronisations under way at once
          PageSize  \* bound: records of one page of the CDR (50, 200)

ASSUME PbxAssumption ==
  IsFiniteSet(PCalls) /\ IsFiniteSet(Syncs) /\ PageSize \in Nat \ {0}

VARIABLES
  own,     \* the tenant has a PBX of its own
  line,    \* external: what became of each call at the PBX
  events,  \* events still to be handled
  rows,    \* the Call rows
  ending,  \* ENDED handlers between their read and their write
  cdr,     \* external: calls the PBX has a CDR record of
  stored,  \* the PbxCall rows
  syncs,   \* synchronisations
  spared,  \* pbxLastSyncAt, and the webhook debounce, are recent
  traced   \* what happened, for the properties

lineVars == <<own, line, cdr>>
pbxVars == <<lineVars, events, rows, ending, stored, syncs, spared, traced>>

-----------------------------------------------------------------------------
CallState == {"RINGING", "ANSWERED", "ENDED", "FAILED"}
Kinds == {"INBOUND", "PLATFORM"}
Live == {"RINGING", "IN_PROGRESS"}
Over == {"COMPLETED", "NO_ANSWER", "ESCALATED"}
NoRow == [status |-> "none", answered |-> FALSE]
Row == [status: {"none"} \cup Live \cup Over, answered: BOOLEAN]
Triggers == {"page", "webhook"}
NoSync == [pc |-> "idle", by |-> "page", got |-> {}]
Sync == [pc: {"idle", "fetch", "upsert", "remove", "stamp"}, by: Triggers,
         got: SUBSET PCalls]

PbxTypeOK ==
  /\ own \in BOOLEAN
  /\ line \in [PCalls -> [kind: Kinds, leg: {"none", "ringing", "up", "over"}]]
  /\ events \in [PCalls -> SUBSET CallState]
  /\ rows \in [PCalls -> Row] /\ ending \in [PCalls -> SUBSET BOOLEAN]
  /\ cdr \subseteq PCalls /\ stored \subseteq PCalls
  /\ syncs \in [Syncs -> Sync] /\ spared \in [Triggers -> BOOLEAN]

\* A platform call has its row, and the engine's answer instant, already.
PbxInit ==
  /\ own \in BOOLEAN
  /\ line \in [PCalls -> [kind: Kinds, leg: {"none"}]]
  /\ own => \A c \in PCalls : line[c].kind = "INBOUND"
  /\ events = [c \in PCalls |-> {}]
  /\ rows = [c \in PCalls |->
       IF line[c].kind = "INBOUND" THEN NoRow
       ELSE [status |-> "IN_PROGRESS", answered |-> TRUE]]
  /\ ending = [c \in PCalls |-> {}]
  /\ cdr = {} /\ stored = {}
  /\ syncs = [s \in Syncs |-> NoSync]
  /\ spared = [t \in Triggers |-> FALSE]
  /\ traced = [c \in PCalls |-> [lost |-> FALSE, closed |-> FALSE,
                                 late |-> FALSE, covered |-> FALSE]]

-----------------------------------------------------------------------------
(* The PBX, outside the repository: it rings, answers and ends a call,      *)
(* sends one event for each, and writes its CDR record some time after.     *)

Ring(c) ==
  /\ line[c].leg = "none"
  /\ line' = [line EXCEPT ![c].leg = "ringing"]
  /\ events' = [events EXCEPT ![c] = @ \cup {"RINGING"}]
  /\ UNCHANGED <<own, cdr, rows, ending, stored, syncs, spared, traced>>
PickUp(c) ==
  /\ line[c].leg = "ringing"
  /\ line' = [line EXCEPT ![c].leg = "up"]
  /\ events' = [events EXCEPT ![c] = @ \cup {"ANSWERED"}]
  /\ UNCHANGED <<own, cdr, rows, ending, stored, syncs, spared, traced>>
Finish(c) ==
  /\ line[c].leg \in {"ringing", "up"}
  /\ line' = [line EXCEPT ![c].leg = "over"]
  /\ \E end \in {"ENDED", "FAILED"} :
       /\ end = "FAILED" => line[c].leg = "ringing"
       /\ events' = [events EXCEPT ![c] = @ \cup {end}]
  /\ UNCHANGED <<own, cdr, rows, ending, stored, syncs, spared, traced>>
Record(c) ==
  /\ own /\ line[c].leg = "over"
  /\ cdr' = cdr \cup {c}
  /\ UNCHANGED <<own, line, events, rows, ending, stored, syncs, spared, traced>>

-----------------------------------------------------------------------------
(* Handling an event (incomingCalls.service.ts).                            *)

\* The shared PBX sends what it sends by WebSocket and by webhook.
Handled(c, event) ==
  /\ event \in events[c]
  /\ \/ events' = [events EXCEPT ![c] = @ \ {event}]
     \/ ~own /\ UNCHANGED events

Close(c, row) ==
  /\ rows' = [rows EXCEPT ![c] = row]
  /\ traced' = [traced EXCEPT ![c].closed = TRUE]

\* A ring of a call of the platform writes nothing.  A repeated ring overwrites
\* nothing, but finds nothing when the row is gone.
OnRinging(c) ==
  /\ Handled(c, "RINGING")
  /\ IF line[c].kind = "INBOUND" /\ rows[c] = NoRow
     THEN /\ rows' = [rows EXCEPT ![c] = [status |-> "RINGING",
                                          answered |-> FALSE]]
          /\ traced' = [traced EXCEPT ![c].late = traced[c].closed]
     ELSE UNCHANGED <<rows, traced>>
  /\ UNCHANGED <<lineVars, ending, stored, syncs, spared>>

\* Mutant: an answer is written whatever the row has become.
Answerable(c) == rows[c].status # "none"
MayAnswer(c) == rows[c].status = "RINGING"
OnAnswered(c) ==
  /\ Handled(c, "ANSWERED")
  /\ rows' = IF line[c].kind = "INBOUND" /\ MayAnswer(c)
             THEN [rows EXCEPT ![c] = [status |-> "IN_PROGRESS",
                                       answered |-> TRUE]]
             ELSE rows
  /\ UNCHANGED <<lineVars, ending, stored, syncs, spared, traced>>

\* ENDED reads the row by the PBX's id, whatever its kind, then writes it.
OnEnded(c) ==
  /\ Handled(c, "ENDED")
  /\ IF rows[c] = NoRow
     THEN /\ traced' = [traced EXCEPT ![c].closed = TRUE]
          /\ UNCHANGED ending
     ELSE /\ ending' = [ending EXCEPT ![c] = @ \cup {rows[c].answered}]
          /\ UNCHANGED traced
  /\ UNCHANGED <<lineVars, rows, stored, syncs, spared>>
EndedUpdate(c) ==
  /\ \E answered \in ending[c] :
       /\ Close(c, [rows[c] EXCEPT
            !.status = IF answered THEN "COMPLETED" ELSE "NO_ANSWER"])
       /\ ending' = [ending EXCEPT ![c] = @ \ {answered}]
  /\ UNCHANGED <<lineVars, events, stored, syncs, spared>>

\* FAILED closes an inbound row, answered or over as it may be.
OnFailed(c) ==
  /\ Handled(c, "FAILED")
  /\ IF line[c].kind = "INBOUND" /\ rows[c] # NoRow
     THEN Close(c, [rows[c] EXCEPT !.status = "NO_ANSWER"])
     ELSE UNCHANGED rows /\ traced' = [traced EXCEPT ![c].closed = TRUE]
  /\ UNCHANGED <<lineVars, ending, stored, syncs, spared>>

\* The request never comes, or its handler fails: nothing is tried again.
LoseEvent(c) ==
  /\ \E event \in events[c] :
       /\ events' = [events EXCEPT ![c] = @ \ {event}]
       /\ traced' = [traced EXCEPT ![c].lost = TRUE]
  /\ UNCHANGED <<lineVars, rows, ending, stored, syncs, spared>>

\* The engine closes a call of its own, as the outcome it knows.
EngineCloses(c) ==
  /\ line[c].kind = "PLATFORM" /\ line[c].leg = "over"
  /\ rows[c].status = "IN_PROGRESS"
  /\ rows' = [rows EXCEPT ![c].status = "ESCALATED"]
  /\ UNCHANGED <<lineVars, events, ending, stored, syncs, spared, traced>>

-----------------------------------------------------------------------------
(* Synchronising the CDR (pbxCdr.service.ts).                               *)

\* A page of the CRM asks, unless one succeeded lately (a report forces it);
\* each event asks, unless one asked lately.
EnsureCdrSynced(s) ==
  /\ own /\ syncs[s].pc = "idle" /\ ~spared["page"]
  /\ syncs' = [syncs EXCEPT ![s] = [NoSync EXCEPT !.pc = "fetch"]]
  /\ UNCHANGED <<lineVars, events, rows, ending, stored, spared, traced>>
SyncCdrOnWebhook(s) ==
  /\ own /\ syncs[s].pc = "idle" /\ ~spared["webhook"]
  /\ \E c \in PCalls : line[c].leg # "none"
  /\ syncs' = [syncs EXCEPT ![s] = [pc |-> "fetch", by |-> "webhook",
                                    got |-> {}]]
  /\ spared' = [spared EXCEPT !["webhook"] = TRUE]
  /\ UNCHANGED <<lineVars, events, rows, ending, stored, traced>>

\* Mutant: the finished rows go before the records are written.
NextStepRemoveFirst(pc) == CASE pc = "fetch" -> "remove"
                             [] pc = "remove" -> "upsert"
                             [] pc = "upsert" -> "stamp"
NextStep(pc) == CASE pc = "fetch" -> "upsert"
                  [] pc = "upsert" -> "remove"
                  [] pc = "remove" -> "stamp"
Advance(s, got) == syncs' = [syncs EXCEPT ![s].pc = NextStep(@), ![s].got = got]

\* The newest records of the PBX; which those are is left open.
FetchCdr(s) ==
  /\ syncs[s].pc = "fetch"
  /\ \E page \in SUBSET cdr :
       /\ IF Cardinality(cdr) <= PageSize THEN page = cdr
          ELSE Cardinality(page) = PageSize
       /\ Advance(s, page)
  /\ UNCHANGED <<lineVars, events, rows, ending, stored, spared, traced>>

UpsertRecords(s) ==
  /\ syncs[s].pc = "upsert"
  /\ stored' = stored \cup syncs[s].got
  /\ Advance(s, syncs[s].got)
  /\ UNCHANGED <<lineVars, events, rows, ending, spared, traced>>

Finished(c) == line[c].kind = "INBOUND" /\ rows[c].status \in Over

\* Every finished inbound row goes, the CDR has its call or not; an ENDED
\* handler that had read it has nothing left to write.
DeleteFinished(s) ==
  /\ syncs[s].pc = "remove"
  /\ rows' = [c \in PCalls |-> IF Finished(c) THEN NoRow ELSE rows[c]]
  /\ ending' = [c \in PCalls |-> IF Finished(c) THEN {} ELSE ending[c]]
  /\ traced' = [c \in PCalls |->
       [traced[c] EXCEPT !.covered = @ \/ (Finished(c) /\ c \in syncs[s].got)]]
  /\ Advance(s, syncs[s].got)
  /\ UNCHANGED <<lineVars, events, stored, spared>>
StampSync(s) ==
  /\ syncs[s].pc = "stamp"
  /\ syncs' = [syncs EXCEPT ![s] = NoSync]
  /\ spared' = [spared EXCEPT !["page"] = TRUE]
  /\ UNCHANGED <<lineVars, events, rows, ending, stored, traced>>
\* The PBX or the database fails, some records written: logged, no more.
SyncFails(s) ==
  /\ syncs[s].pc # "idle"
  /\ syncs' = [syncs EXCEPT ![s] = NoSync]
  /\ \E some \in SUBSET syncs[s].got :
       stored' = IF syncs[s].pc = "upsert" THEN stored \cup some ELSE stored
  /\ UNCHANGED <<lineVars, events, rows, ending, spared, traced>>
WaitABit(t) ==
  /\ spared[t] /\ spared' = [spared EXCEPT ![t] = FALSE]
  /\ UNCHANGED <<lineVars, events, rows, ending, stored, syncs, traced>>

PbxNext ==
  \/ \E c \in PCalls :
       \/ Ring(c) \/ PickUp(c) \/ Finish(c) \/ Record(c)
       \/ OnRinging(c) \/ OnAnswered(c) \/ OnEnded(c) \/ EndedUpdate(c)
       \/ OnFailed(c) \/ LoseEvent(c) \/ EngineCloses(c)
  \/ \E s \in Syncs :
       \/ EnsureCdrSynced(s) \/ SyncCdrOnWebhook(s) \/ FetchCdr(s)
       \/ UpsertRecords(s) \/ DeleteFinished(s) \/ StampSync(s) \/ SyncFails(s)
  \/ \E t \in Triggers : WaitABit(t)

PbxSpec == PbxInit /\ [][PbxNext]_pbxVars

-----------------------------------------------------------------------------
(* What a page of the CRM lists: the CDR, and the live rows.                *)
ActiveInboundCalls == {c \in PCalls : line[c].kind = "INBOUND"
                                      /\ rows[c].status \in Live}
Listed == IF own THEN stored \cup ActiveInboundCalls
          ELSE {c \in PCalls : rows[c] # NoRow}
EndPending(c) == events[c] \cap {"ENDED", "FAILED"} # {} \/ ending[c] # {}

\* A call that is over at the PBX is not listed as ringing or in progress, but
\* while its end is to be handled, when an event of it was lost, or when its
\* ring was handled after its end (incomingCalls.service.ts).
OverIsNotLive ==
  \A c \in ActiveInboundCalls : line[c].leg = "over" =>
    EndPending(c) \/ traced[c].lost \/ traced[c].late

\* A call never falls between the live rows and the CDR: when a
\* synchronisation that had its record drops its live row, the record is
\* stored, a failure half way included (pbxCdr.service.ts: the CDR covers what
\* is removed).  A row dropped without its record is listed nowhere until the
\* CDR is read again.
RemovedCallIsListed == \A c \in PCalls : traced[c].covered => c \in Listed
=============================================================================
