------------------------- MODULE DocumentIngestion --------------------------
(***************************************************************************)
(* One document: the requests that reserve, complete and delete it          *)
(* (documents/services.py), its object in the bucket, the Kubernetes jobs    *)
(* that complete submits, and the ingestion pipeline they run                *)
(* (documents/processing/pipeline.py).                                       *)
(*                                                                         *)
(* Unlike generation, ingestion has no claim: complete starts a job whatever *)
(* the status is, a job starts whatever the status is, and every write of a  *)
(* pipeline is unconditional.  Under READ COMMITTED the delete of            *)
(* _save_chunks removes the chunks that were committed when it looked; the   *)
(* chunks a concurrent save commits meanwhile stay.                          *)
(*                                                                         *)
(* Left out: the images uploaded by extraction, the summary (best effort,    *)
(* written with the counts), and the contents of chunks: a set of chunks is  *)
(* named by the execution that computed it and is never empty                *)
(* (_build_payloads raises when there is nothing to embed).                  *)
(***************************************************************************)
EXTENDS Naturals

CONSTANTS
    Jobs,          \* the jobs that may ever be submitted
    NoRun,         \* no execution: the counts before the first success
    BackoffLimit,  \* restarts Kubernetes grants a failed job
    MaxCrashes,    \* pods lost to the cluster in one behaviour
    MayTimeOut,    \* TRUE: jobs may reach active_deadline_seconds
    CompleteWhen   \* the statuses in which clients call complete

ASSUME BackoffAssumption == BackoffLimit \in Nat

ASSUME CrashAssumption == MaxCrashes \in Nat /\ MayTimeOut \in BOOLEAN

DocumentStatus == {"pending", "processing", "processed", "failed"}

ASSUME ClientAssumption == CompleteWhen \subseteq DocumentStatus

\* One pod of one job: the execution that tags the chunks and counts it writes.
Runs == Jobs \X (0 .. BackoffLimit)

ASSUME NoRunAssumption == NoRun \notin Runs

VARIABLES
    document,  \* the committed row: status, and the run whose counts it shows
    chunks,    \* the runs whose DocumentChunk rows are committed
    object,    \* the PDF in the bucket
    txn,       \* the open transaction of a complete request
    removal,   \* the open transaction of a delete request: the chunks it collected
    jobs,      \* the jobs: state of the current pod, restarts used, chunks it saw
    crashes    \* pods lost so far

vars == <<document, chunks, object, txn, removal, jobs, crashes>>

\* The states of a pod between "pending" and its end.
Alive == {"live", "started", "downloaded", "saving", "saved"}

Job ==
    [state : Alive \cup {"none", "pending", "done", "failed", "lost"},
     attempt : 0 .. BackoffLimit,
     saw : SUBSET Runs]

TypeOK ==
    /\ document \in [status : DocumentStatus \cup {"absent", "gone"},
                     counts : Runs \cup {NoRun}]
    /\ chunks \subseteq Runs
    /\ object \in {"none", "stored", "deleted"}
    /\ txn \in [phase : {"idle", "dispatch", "commit"}, status : {"processing", "failed"}]
    /\ removal \in [open : BOOLEAN, saw : SUBSET Runs]
    /\ jobs \in [Jobs -> Job]
    /\ crashes \in 0 .. MaxCrashes

Exists == document.status \in DocumentStatus

NoTransaction == [phase |-> "idle", status |-> "processing"]

NoRemoval == [open |-> FALSE, saw |-> {}]

\* A complete request has updated the row from its first step to its end; a delete
\* request touches the row last, so it holds no lock that another step meets.
RowLocked == txn.phase # "idle"

Init ==
    /\ document = [status |-> "absent", counts |-> NoRun]
    /\ chunks = {}
    /\ object = "none"
    /\ txn = NoTransaction
    /\ removal = NoRemoval
    /\ jobs = [j \in Jobs |-> [state |-> "none", attempt |-> 0, saw |-> {}]]
    /\ crashes = 0
----------------------------------------------------------------------------
(* The web requests and the browser. *)

CreateDocument ==
    /\ document.status = "absent"
    /\ document' = [document EXCEPT !.status = "pending"]
    /\ UNCHANGED <<chunks, object, txn, removal, jobs, crashes>>

\* The browser's PUT to the signed url, which no request of the API follows.
Upload ==
    /\ document.status # "absent"
    /\ object = "none"
    /\ object' = "stored"
    /\ UNCHANGED <<document, chunks, txn, removal, jobs, crashes>>

\* start_processing, whatever the status: there is no guard in the code.
StartProcessing ==
    /\ document.status \in CompleteWhen
    /\ txn.phase = "idle"
    /\ txn' = [txn EXCEPT !.phase = "dispatch", !.status = "processing"]
    /\ UNCHANGED <<document, chunks, object, removal, jobs, crashes>>

Submitted(j) == [jobs EXCEPT ![j].state = "pending"]

DispatchAccepted(j) ==
    /\ txn.phase = "dispatch"
    /\ jobs[j].state = "none"
    /\ jobs' = Submitted(j)
    /\ txn' = [txn EXCEPT !.phase = "commit"]
    /\ UNCHANGED <<document, chunks, object, removal, crashes>>

DispatchReplyLost(j) ==
    /\ txn.phase = "dispatch"
    /\ jobs[j].state = "none"
    /\ jobs' = Submitted(j)
    /\ txn' = [txn EXCEPT !.phase = "commit", !.status = "failed"]
    /\ UNCHANGED <<document, chunks, object, removal, crashes>>

DispatchRefused ==
    /\ txn.phase = "dispatch"
    /\ txn' = [txn EXCEPT !.phase = "commit", !.status = "failed"]
    /\ UNCHANGED <<document, chunks, object, removal, jobs, crashes>>

CommitProcessing ==
    /\ txn.phase = "commit"
    /\ document' = [document EXCEPT !.status = txn.status]
    /\ txn' = NoTransaction
    /\ UNCHANGED <<chunks, object, removal, jobs, crashes>>

\* delete_document: the object first (best effort), then the rows that are there.
BeginDelete ==
    /\ Exists
    /\ ~ removal.open
    /\ \/ object' = IF object = "stored" THEN "deleted" ELSE object
       \/ UNCHANGED object
    /\ removal' = [open |-> TRUE, saw |-> chunks]
    /\ UNCHANGED <<document, chunks, txn, jobs, crashes>>

CommitDeleteUnconstrained ==   \* mutant: a foreign key with db_constraint=False
    /\ removal.open
    /\ ~ RowLocked
    /\ document' = [status |-> "gone", counts |-> NoRun]
    /\ chunks' = chunks \ removal.saw
    /\ removal' = NoRemoval
    /\ UNCHANGED <<object, txn, jobs, crashes>>

\* Chunks committed since they were collected break the foreign key at the commit:
\* then the request fails and the row stays.
CommitDelete ==
    /\ removal.open
    /\ ~ RowLocked
    /\ chunks \subseteq removal.saw
    /\ document' = [status |-> "gone", counts |-> NoRun]
    /\ chunks' = {}
    /\ removal' = NoRemoval
    /\ UNCHANGED <<object, txn, jobs, crashes>>

\* A request dies or fails before its commit; its effects outside the database stay.
RollbackDelete ==
    /\ removal.open
    /\ removal' = NoRemoval
    /\ UNCHANGED <<document, chunks, object, txn, jobs, crashes>>

RollbackProcessing ==
    /\ RowLocked
    /\ txn' = NoTransaction
    /\ UNCHANGED <<document, chunks, object, removal, jobs, crashes>>
----------------------------------------------------------------------------
(* Kubernetes. *)

PodStarts(j) ==
    /\ jobs[j].state = "pending"
    /\ jobs' = [jobs EXCEPT ![j].state = "live"]
    /\ UNCHANGED <<document, chunks, object, txn, removal, crashes>>

\* backoff_limit: a pod that failed or was lost is replaced, as long as it lasts.
PodRestarts(j) ==
    /\ jobs[j].state \in {"failed", "lost"}
    /\ jobs[j].attempt < BackoffLimit
    /\ jobs' = [jobs EXCEPT ![j] = [state |-> "live", attempt |-> @.attempt + 1, saw |-> {}]]
    /\ UNCHANGED <<document, chunks, object, txn, removal, crashes>>

PodCrashes(j) ==
    /\ jobs[j].state \in Alive
    /\ crashes < MaxCrashes
    /\ crashes' = crashes + 1
    /\ jobs' = [jobs EXCEPT ![j].state = "lost", ![j].saw = {}]
    /\ UNCHANGED <<document, chunks, object, txn, removal>>

\* The deadline ends the job, with the restarts it had left.
DeadlineExceeded(j) ==
    /\ MayTimeOut
    /\ jobs[j].state \in Alive
    /\ jobs' = [jobs EXCEPT ![j] = [state |-> "lost", attempt |-> BackoffLimit, saw |-> {}]]
    /\ UNCHANGED <<document, chunks, object, txn, removal, crashes>>
----------------------------------------------------------------------------
(* The worker: manage.py process_document. *)

Step(j, from, to) ==
    /\ jobs[j].state = from
    /\ jobs' = [jobs EXCEPT ![j].state = to]

\* An UPDATE ... WHERE id = pk that waits for the lock and matches no deleted row.
UpdateRow(new) ==
    /\ ~ RowLocked
    /\ document' = IF Exists THEN new ELSE document

\* _start finds no row: the command fails, nothing is written.
StartFindsNoRow(j) ==
    /\ ~ Exists
    /\ Step(j, "live", "failed")
    /\ UNCHANGED <<document, chunks, object, txn, removal, crashes>>

Start(j) ==
    /\ Exists
    /\ Step(j, "live", "started")
    /\ UpdateRow([document EXCEPT !.status = "processing"])
    /\ UNCHANGED <<chunks, object, txn, removal, crashes>>

Download(j) ==
    /\ object = "stored"
    /\ Step(j, "started", "downloaded")
    /\ UNCHANGED <<document, chunks, object, txn, removal, crashes>>

FinishBeforeSave(j) ==   \* mutant: the status is written before the chunks are
    /\ jobs[j].state = "downloaded"
    /\ jobs' = [jobs EXCEPT ![j].state = "saving", ![j].saw = chunks]
    /\ UpdateRow([status |-> "processed", counts |-> <<j, jobs[j].attempt>>])
    /\ UNCHANGED <<chunks, object, txn, removal, crashes>>

\* Extracted, chunked and embedded: the save looks for the chunks to delete ...
BeginSave(j) ==
    /\ jobs[j].state = "downloaded"
    /\ jobs' = [jobs EXCEPT ![j].state = "saving", ![j].saw = chunks]
    /\ UNCHANGED <<document, chunks, object, txn, removal, crashes>>

CommitSaveAppending(j) ==   \* mutant: bulk_create without the delete
    /\ jobs[j].state = "saving"
    /\ Exists
    /\ chunks' = chunks \cup {<<j, jobs[j].attempt>>}
    /\ jobs' = [jobs EXCEPT ![j].state = "saved", ![j].saw = {}]
    /\ UNCHANGED <<document, object, txn, removal, crashes>>

\* ... and replaces those by its own, if the document is still there to refer to.
\* A delete that waits for another save's delete of the same chunks finds them gone.
CommitSave(j) ==
    /\ jobs[j].state = "saving"
    /\ Exists
    /\ chunks' = (chunks \ jobs[j].saw) \cup {<<j, jobs[j].attempt>>}
    /\ jobs' = [jobs EXCEPT ![j].state = "saved", ![j].saw = {}]
    /\ UNCHANGED <<document, object, txn, removal, crashes>>

Finish(j) ==
    /\ Step(j, "saved", "done")
    /\ UpdateRow([status |-> "processed", counts |-> <<j, jobs[j].attempt>>])
    /\ UNCHANGED <<chunks, object, txn, removal, crashes>>

FailSilently(j) ==   \* mutant: the exception escapes without the FAILED write
    /\ jobs[j].state \in Alive \ {"live"}
    /\ jobs' = [jobs EXCEPT ![j].state = "failed", ![j].saw = {}]
    /\ UNCHANGED <<document, chunks, object, txn, removal, crashes>>

\* Any step raised, the save included, whose transaction is then undone.
Fail(j) ==
    /\ jobs[j].state \in Alive \ {"live"}
    /\ jobs' = [jobs EXCEPT ![j].state = "failed", ![j].saw = {}]
    /\ UpdateRow([document EXCEPT !.status = "failed"])
    /\ UNCHANGED <<chunks, object, txn, removal, crashes>>
----------------------------------------------------------------------------
Request ==
    \/ CreateDocument \/ Upload \/ StartProcessing
    \/ \E j \in Jobs : DispatchAccepted(j) \/ DispatchReplyLost(j)
    \/ DispatchRefused \/ CommitProcessing
    \/ BeginDelete \/ CommitDelete \/ RollbackDelete \/ RollbackProcessing

Cluster ==
    \E j \in Jobs : PodStarts(j) \/ PodRestarts(j) \/ PodCrashes(j) \/ DeadlineExceeded(j)

Process(j) ==
    \/ StartFindsNoRow(j) \/ Start(j) \/ Download(j) \/ BeginSave(j)
    \/ CommitSave(j) \/ Finish(j) \/ Fail(j)

Next == Request \/ Cluster \/ \E j \in Jobs : Process(j)

Spec == Init /\ [][Next]_vars

\* Requests end, pods are scheduled and replaced, and pipelines come to an end.
Fairness ==
    /\ WF_vars(DispatchRefused \/ CommitProcessing \/ RollbackProcessing)
    /\ \A j \in Jobs :
        /\ WF_vars(PodStarts(j))
        /\ WF_vars(PodRestarts(j))
        /\ WF_vars(Process(j))

FairSpec == Spec /\ Fairness
----------------------------------------------------------------------------
(* Properties. *)

\* What create and retrieve of a material rely on: a processed document has
\* chunks, whatever jobs and requests overlap.
ProcessedHasChunks == document.status = "processed" => chunks # {}

\* diagram-context.md:107 "re-processing deletes and recreates all chunks for the
\* document (idempotent replace)": the chunks of a document are one run's.
OneRunOfChunks == \A r, s \in chunks : r = s

\* At most one job was ever submitted.
Alone == \E one \in Jobs : \A j \in Jobs : j # one => jobs[j].state = "none"

Whole == document.status = "processed" => chunks = {document.counts}

\* The same as long as jobs do not overlap: one job, with all its restarts, crashes and
\* requests that are refused, leaves a processed document with the chunks of one run,
\* the one whose counts it shows.
ProcessedIsWhole == Alone => Whole

\* A deleted document leaves no chunk behind, whatever saves were under way.
GoneHasNoChunks == document.status \in {"absent", "gone"} => chunks = {}

\* What makes the chunks of a processed document last: a run that has saved left
\* chunks, a complete request is only open on a document that is there.
SavedHasChunks ==
    \A j \in Jobs : jobs[j].state = "saved" /\ document.status # "gone" => chunks # {}

LockNeedsRow == RowLocked => Exists

ChunksInvariant ==
    TypeOK /\ ProcessedHasChunks /\ GoneHasNoChunks /\ SavedHasChunks /\ LockNeedsRow

\* What makes a serial ingestion whole: while a run saves, the chunks it collected
\* are the chunks there are, and after its save there are only its own.
OwnChunks ==
    /\ \A j \in Jobs :
        /\ document.status = "absent" => jobs[j].state = "none"
        /\ Exists /\ jobs[j].state = "saving" => jobs[j].saw = chunks
        /\ Exists /\ jobs[j].state = "saved" => chunks = {<<j, jobs[j].attempt>>}
        /\ document.status = "processed" => jobs[j].state \in {"none", "done"}
    /\ document.status = "processed" => \E j \in Jobs : jobs[j].state = "done"

SerialInvariant == ChunksInvariant /\ (Alone => OwnChunks /\ Whole)

\* backoff_limit is used up and no handler ran.
LastPodLost == \E j \in Jobs : jobs[j].state = "lost" /\ jobs[j].attempt = BackoffLimit

\* "processing" always has somebody behind it: a job that waits, runs or will be restarted,
\* unless the cluster took a job's last pod.  complete has no guard, so that a request, a
\* job's start and another job's end may come in any order; the page offers nothing on
\* such a document, and no step but a job's would ever take it out of "processing".
Underway(j) ==
    \/ jobs[j].state \in Alive \cup {"pending"}
    \/ jobs[j].state = "lost" /\ jobs[j].attempt < BackoffLimit

Handled == (\E j \in Jobs : Underway(j)) \/ LastPodLost

ProcessingHasJob == document.status = "processing" => Handled

\* What makes it inductive: the job of a request is there before its commit, and cannot
\* end before it, since its last write waits for the row.
CommitHasJob == txn.phase = "commit" /\ txn.status = "processing" => Handled

\* Processing ends, so that the client stops polling and may retry, unless the
\* cluster took a job's last pod: no error, refusal, restart or overlap wedges the
\* document, and a first pod that is lost does not either.
ProcessingEnds ==
    document.status = "processing" ~> document.status # "processing" \/ LastPodLost
=============================================================================
