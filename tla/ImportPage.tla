------------------------------ MODULE ImportPage ------------------------------
(***************************************************************************)
(* The page that imports contacts (ImportPage.tsx), the request that       *)
(* stores a small file or queues a large one, and the questions the page   *)
(* asks about the queued job until it is over.  What is stored of a file   *)
(* is Contacts.                                                            *)
(***************************************************************************)
EXTENDS Naturals, FiniteSets

CONSTANTS Uploads,         \* bound: files given to the page
          MaxImportFaults  \* bound: requests that fail

VARIABLES
  importJobs, \* what became of each file
  importer,   \* the page: the upload under way, jobId, result
  intervals,  \* files whose job the page asks about
  replies,    \* questions about a job, and the state they found
  doubts,     \* history: [untold, broken, crossed], sets of files
  importFaults

importVars == <<importJobs, importer, intervals, replies, doubts, importFaults>>

NoFile == "no file"

ASSUME ImportPageAssumption ==
  IsFiniteSet(Uploads) /\ NoFile \notin Uploads /\ MaxImportFaults \in Nat

EmptyImporter == [upload |-> NoFile, job |-> NoFile, result |-> NoFile]
JobOver == {"completed", "failed"}

ImportInit ==
  /\ importJobs = [f \in Uploads |-> "free"]
  /\ importer = EmptyImporter
  /\ intervals = {} /\ replies = {}
  /\ doubts = [untold |-> {}, broken |-> {}, crossed |-> {}]
  /\ importFaults = 0

ImportFault == importFaults < MaxImportFaults /\ importFaults' = importFaults + 1

IsProcessing == importer.upload # NoFile \/ importer.job # NoFile
\* No earlier file is being sent or asked about.
PageIsFree == /\ replies = {} /\ intervals = {} /\ ~IsProcessing
              /\ \A f \in Uploads \ doubts.untold : importJobs[f] # "posted"

-----------------------------------------------------------------------------
HandleFile(f) ==
  /\ importJobs[f] = "free"
  /\ importJobs' = [importJobs EXCEPT ![f] = "posted"]
  /\ importer' = [importer EXCEPT !.upload = f, !.result = NoFile]
  /\ doubts' = IF PageIsFree THEN doubts
               ELSE [doubts EXCEPT !.crossed = @ \cup {f}]
  /\ UNCHANGED <<intervals, replies, importFaults>>

DropFile(f) == ~IsProcessing /\ HandleFile(f)
ImportAnother(f) == importer.result # NoFile /\ HandleFile(f)

(* A small file is stored before the answer, a large one queued; a page that *)
(* was left is not told.                                                    *)
Answered(f, told) ==
  importer' = IF f \in doubts.untold THEN importer
              ELSE [told EXCEPT !.upload = IF @ = f THEN NoFile ELSE @]

ImportedAtOnce(f) ==
  /\ importJobs[f] = "posted"
  /\ importJobs' = [importJobs EXCEPT ![f] = "completed"]
  /\ Answered(f, [importer EXCEPT !.result = f])
  /\ UNCHANGED <<intervals, replies, doubts, importFaults>>

QueuedForWorker(f) ==
  /\ importJobs[f] = "posted"
  /\ importJobs' = [importJobs EXCEPT ![f] = "queued"]
  /\ Answered(f, [importer EXCEPT !.job = f])
  /\ intervals' = intervals \cup ({f} \ doubts.untold)
  /\ UNCHANGED <<replies, doubts, importFaults>>

ImportRefused(f) ==
  /\ importJobs[f] = "posted"
  /\ importJobs' = [importJobs EXCEPT ![f] = "failed"]
  /\ Answered(f, importer)
  /\ UNCHANGED <<intervals, replies, doubts, importFaults>>

UploadFails(f) ==
  /\ importJobs[f] = "posted" /\ f \notin doubts.untold /\ ImportFault
  /\ Answered(f, importer)
  /\ doubts' = [doubts EXCEPT !.untold = @ \cup {f}]
  /\ UNCHANGED <<importJobs, intervals, replies>>

WorkerEnds(f) ==
  /\ importJobs[f] = "queued"
  /\ \E end \in JobOver : importJobs' = [importJobs EXCEPT ![f] = end]
  /\ UNCHANGED <<importer, intervals, replies, doubts, importFaults>>

-----------------------------------------------------------------------------
(* Every second and a half, whether or not the last question was answered. *)
PollProgress(f) ==
  /\ f \in intervals
  /\ replies' = replies \cup {[of |-> f, state |-> "asked"]}
  /\ UNCHANGED <<importJobs, importer, intervals, doubts, importFaults>>

ReadJob(r) ==
  /\ r.state = "asked"
  /\ replies' = (replies \ {r}) \cup {[r EXCEPT !.state = importJobs[r.of]]}
  /\ UNCHANGED <<importJobs, importer, intervals, doubts, importFaults>>

IsOver(state) == state \in JobOver

\* Mutant: any answer is the last.
AskedOnce(r) == intervals \ {r.of}
AskedAfter(r) == IF IsOver(r.state) THEN intervals \ {r.of} ELSE intervals

(* Any job that is over ends the one the page waits for; one that failed   *)
(* leaves no result.                                                       *)
ReplyArrives(r) ==
  /\ r.state # "asked"
  /\ replies' = replies \ {r}
  /\ intervals' = AskedAfter(r)
  /\ importer' = IF IsOver(r.state)
                 THEN [importer EXCEPT !.job = NoFile,
                         !.result = IF r.state = "completed" THEN r.of ELSE @]
                 ELSE importer
  /\ UNCHANGED <<importJobs, doubts, importFaults>>

(* One question that fails is the last. *)
ReplyFails(r) ==
  /\ ImportFault
  /\ replies' = replies \ {r}
  /\ intervals' = intervals \ {r.of}
  /\ doubts' = [doubts EXCEPT !.broken = @ \cup {r.of}]
  /\ UNCHANGED <<importJobs, importer>>

(* The timer of a page that was left goes on, and tells nobody. *)
LeaveImportPage ==
  /\ importer # EmptyImporter
  /\ importer' = EmptyImporter /\ intervals' = {} /\ replies' = {}
  /\ doubts' = [doubts EXCEPT !.untold = @ \cup {f \in Uploads : importJobs[f] \in {"posted", "queued"}}]
  /\ UNCHANGED <<importJobs, importFaults>>

ImportNext ==
  \/ \E f \in Uploads : DropFile(f) \/ ImportAnother(f) \/ ImportedAtOnce(f) \/ QueuedForWorker(f)
                        \/ ImportRefused(f) \/ UploadFails(f) \/ WorkerEnds(f) \/ PollProgress(f)
  \/ \E r \in replies : ReadJob(r) \/ ReplyArrives(r) \/ ReplyFails(r)
  \/ LeaveImportPage

ImportSpec == ImportInit /\ [][ImportNext]_importVars

-----------------------------------------------------------------------------
(* Every part of the state has its type. *)
ImportTypeOK ==
  /\ \A f \in Uploads : importJobs[f] \in {"free", "posted", "queued"} \cup JobOver
  /\ importer \in [{"upload", "job", "result"} -> Uploads \cup {NoFile}]
  /\ intervals \subseteq Uploads
  /\ replies \subseteq [of : Uploads, state : {"asked", "queued"} \cup JobOver]

(***************************************************************************)
(* A job under way is the one the page tells of, and a page that tells of  *)
(* a job goes on asking about it: it never waits for what nobody will tell *)
(* it, and a result it shows is of its last file.  The exceptions: the     *)
(* page was left, its upload's answer was lost, one question failed, or an *)
(* earlier file was still sent or asked about when it came                 *)
(* (ImportPage.tsx:24-50).                                                 *)
(***************************************************************************)
ImportIsFollowed ==
  /\ \A f \in Uploads : importJobs[f] = "queued" /\ f \notin doubts.untold \cup doubts.crossed
       => importer.job = f
  /\ importer.job # NoFile => importer.job \in intervals \cup doubts.broken
  /\ importer.result # NoFile /\ IsProcessing
       => {importer.upload, importer.job} \cap doubts.crossed # {}
=============================================================================
