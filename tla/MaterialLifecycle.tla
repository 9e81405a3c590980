------------------------- MODULE MaterialLifecycle -------------------------
(***************************************************************************)
(* The life of one marketing material: the web requests that create,       *)
(* regenerate and delete its row (materials/services.py, run in one         *)
(* database transaction per request because of ATOMIC_REQUESTS), the        *)
(* Kubernetes jobs those requests submit, and the workers that claim the    *)
(* row, run the generation pipeline and write its result                    *)
(* (materials/generation/service.py).  A row's transactions only conflict   *)
(* with transactions on the same row, so one row is enough.                 *)
(*                                                                         *)
(* PostgreSQL runs at READ COMMITTED: a statement sees committed rows only, *)
(* and an UPDATE or SELECT ... FOR UPDATE of a row waits for the open       *)
(* transaction that wrote it.  txn is the open request transaction: its     *)
(* uncommitted image of the row, and what its commit does to the sources.   *)
(* Time is kept as ages, which TickTime advances: how long ago updated_at   *)
(* of the row was, and for how long Kubernetes has been running a job.      *)
(*                                                                         *)
(* Left out: the columns no property is about (title, tone, ...), and       *)
(* retrieved_context and completed_at, which every handler below writes     *)
(* together with output_json or generation_status.                          *)
(***************************************************************************)
EXTENDS Naturals

CONSTANTS
    Jobs,      \* the executions of the worker command that may ever exist
    NoJob,     \* no execution: an empty column
    Prompts,   \* the prompts users may enter
    Stale,     \* STALE_AFTER, in ticks
    Deadline,  \* active_deadline_seconds of a job, in ticks
    Modes      \* how requests dispatch: "job", or "inline" if MATERIAL_GENERATOR_JOB is
               \* unset; both, if deployments with different settings share the database

ASSUME NoJobAssumption == NoJob \notin Jobs

\* prompt is a required field.
ASSUME PromptsAssumption == Prompts # {}

\* services.py:24 "Comfortably above the 600s job timeout".
ASSUME TimeoutAssumption ==
    /\ Stale \in Nat
    /\ Deadline \in Nat
    /\ Deadline <= Stale

ASSUME ModesAssumption == Modes \subseteq {"job", "inline"}

VARIABLES
    row,       \* the committed row of the material
    sources,   \* the execution whose GenerationSource rows are committed
    txn,       \* the open request transaction on the row
    jobs       \* the executions of the worker command

vars == <<row, sources, txn, jobs>>
----------------------------------------------------------------------------
(* The data. *)

GenerationStatus == {"queued", "processing", "completed", "failed"}

\* "absent": not inserted yet; "gone": deleted, or its insert rolled back.
RowStatus == GenerationStatus \cup {"absent", "gone"}

ReviewStatus == {"pending", "approved", "rejected"}

\* output_json is the execution that produced it; error_message is who wrote it.
MarketingMaterial ==
    [generation_status : RowStatus,
     review_status : ReviewStatus,
     prompt : Prompts,
     output_json : Jobs \cup {NoJob},
     validation_result : {"none", "valid", "invalid"},
     error_message : {"", "dispatch", "worker"},
     job_operation_name : Jobs \cup {NoJob},
     updated_at : 0 .. Stale + 1]

\* A row as create inserts it and as regenerate resets it.
QueuedRow(p) ==
    [generation_status |-> "queued", review_status |-> "pending", prompt |-> p,
     output_json |-> NoJob, validation_result |-> "none", error_message |-> "",
     job_operation_name |-> NoJob, updated_at |-> 0]

NoRow(status) == [QueuedRow(CHOOSE p \in Prompts : TRUE) EXCEPT !.generation_status = status]

\* pending: submitted, not started; live: its pod runs; running: it holds the
\* claim; failing: it saved an invalid output and is about to mark the row failed.
JobState == {"none", "pending", "live", "running", "failing",
             "completed", "failed", "skipped", "missed", "crashed"}

Alive == {"live", "running", "failing"}

Claimed == {"running", "failing"}

Execution == [state : JobState, age : 0 .. Deadline, prompt : Prompts]

Transaction ==
    [phase : {"idle", "dispatch", "commit"},
     row : MarketingMaterial,
     sources : Jobs \cup {NoJob}]

NoTransaction == [phase |-> "idle", row |-> NoRow("absent"), sources |-> NoJob]

TypeOK ==
    /\ row \in MarketingMaterial
    /\ sources \in Jobs \cup {NoJob}
    /\ txn \in Transaction
    /\ jobs \in [Jobs -> Execution]

Exists == row.generation_status \in GenerationStatus

IsActive == row.generation_status \in {"queued", "processing"}

IsStale == row.updated_at > Stale

\* A request transaction that has written the row holds its lock until it ends.
RowLocked == txn.phase # "idle"
----------------------------------------------------------------------------
Init ==
    /\ row = NoRow("absent")
    /\ sources = NoJob
    /\ txn = NoTransaction
    /\ jobs = [j \in Jobs |->
                 [state |-> "none", age |-> 0, prompt |-> CHOOSE p \in Prompts : TRUE]]
----------------------------------------------------------------------------
(* The web requests. *)

\* POST /materials/: the inserted row is invisible to others until the commit.
CreateMaterial(p) ==
    /\ row.generation_status = "absent"
    /\ ~ RowLocked
    /\ txn' = [phase |-> "dispatch", row |-> QueuedRow(p), sources |-> NoJob]
    /\ UNCHANGED <<row, sources, jobs>>

\* POST /materials/{id}/regenerate/: takes the lock, refuses (409) while a fresh
\* run is active, else resets the row and deletes its sources.
RegenerateAllowedNoTakeover == ~ IsActive   \* mutant: no takeover of a stranded run

RegenerateAllowed == ~ (IsActive /\ ~ IsStale)

RegenerateMaterialKeepingSources(p) ==   \* mutant: the old sources are not deleted
    /\ Exists
    /\ ~ RowLocked
    /\ RegenerateAllowed
    /\ txn' = [phase |-> "dispatch", row |-> QueuedRow(p), sources |-> sources]
    /\ UNCHANGED <<row, sources, jobs>>

RegenerateMaterial(p) ==
    /\ Exists
    /\ ~ RowLocked
    /\ RegenerateAllowed
    /\ txn' = [phase |-> "dispatch", row |-> QueuedRow(p), sources |-> NoJob]
    /\ UNCHANGED <<row, sources, jobs>>

Submitted(j) == [jobs EXCEPT ![j].state = "pending"]

RecordJobName(j) ==
    [txn EXCEPT !.phase = "commit", !.row.job_operation_name = j, !.row.updated_at = 0]

RecordDispatchFailure ==
    [txn EXCEPT !.phase = "commit", !.row.generation_status = "failed",
                !.row.error_message = "dispatch", !.row.updated_at = 0]

\* dispatch_generation, inside the transaction: the API accepts the job, ...
DispatchAccepted(j) ==
    /\ "job" \in Modes
    /\ txn.phase = "dispatch"
    /\ jobs[j].state = "none"
    /\ jobs' = Submitted(j)
    /\ txn' = RecordJobName(j)
    /\ UNCHANGED <<row, sources>>

\* ... accepts it but the reply is lost, so that the call raises, ...
DispatchReplyLost(j) ==
    /\ "job" \in Modes
    /\ txn.phase = "dispatch"
    /\ jobs[j].state = "none"
    /\ jobs' = Submitted(j)
    /\ txn' = RecordDispatchFailure
    /\ UNCHANGED <<row, sources>>

\* ... or refuses it.  Inline, this is the command failing: the savepoint undoes
\* everything the command wrote, and the row gets the same generic error.
DispatchRefused ==
    /\ txn.phase = "dispatch"
    /\ txn' = RecordDispatchFailure
    /\ UNCHANGED <<row, sources, jobs>>

CompletedRowUnvalidated(r, j) ==   \* mutant: validation_result is not written
    [r EXCEPT !.generation_status = "completed", !.output_json = j,
              !.error_message = "", !.updated_at = 0]

\* The row the pipeline's success leaves.
CompletedRow(r, j) ==
    [r EXCEPT !.generation_status = "completed", !.output_json = j,
              !.validation_result = "valid", !.error_message = "", !.updated_at = 0]

\* Inline and successful: claim and save happen in the request's transaction.
DispatchInline(j) ==
    /\ "inline" \in Modes
    /\ txn.phase = "dispatch"
    /\ jobs[j].state = "none"
    /\ jobs' = [jobs EXCEPT ![j].state = "completed", ![j].prompt = txn.row.prompt]
    /\ txn' = [phase |-> "commit", row |-> CompletedRow(txn.row, j), sources |-> j]
    /\ UNCHANGED <<row, sources>>

Commit ==
    /\ txn.phase = "commit"
    /\ row' = txn.row
    /\ sources' = txn.sources
    /\ txn' = NoTransaction
    /\ UNCHANGED jobs

\* The request dies (timeout, lost connection, instance shutdown) before its
\* commit.  A submitted job is not recalled, and a primary key is not reused.
Rollback ==
    /\ RowLocked
    /\ row' = IF Exists THEN row ELSE NoRow("gone")
    /\ txn' = NoTransaction
    /\ UNCHANGED <<sources, jobs>>

\* DELETE /materials/{id}/, which cascades to the sources.
DeleteMaterial ==
    /\ Exists
    /\ ~ RowLocked
    /\ row' = NoRow("gone")
    /\ sources' = NoJob
    /\ UNCHANGED <<txn, jobs>>
----------------------------------------------------------------------------
(* Kubernetes. *)

PodStarts(j) ==
    /\ jobs[j].state = "pending"
    /\ jobs' = [jobs EXCEPT ![j].state = "live"]
    /\ UNCHANGED <<row, sources, txn>>

\* A second execution of a started job, under the same deadline.
DuplicateExecution(j, k) ==
    /\ jobs[j].state \in Alive
    /\ jobs[k].state = "none"
    /\ jobs' = [jobs EXCEPT ![k].state = "live", ![k].age = jobs[j].age]
    /\ UNCHANGED <<row, sources, txn>>

\* An execution that is over has no age.
Ended(j, state) == [jobs EXCEPT ![j].state = state, ![j].age = 0]

\* Eviction, out of memory, node loss.
PodCrashes(j) ==
    /\ jobs[j].state \in Alive
    /\ jobs' = Ended(j, "crashed")
    /\ UNCHANGED <<row, sources, txn>>

\* active_deadline_seconds: the job is killed, backoff_limit=0 never restarts it.
DeadlineExceeded(j) ==
    /\ jobs[j].state \in Alive
    /\ jobs[j].age = Deadline
    /\ jobs' = Ended(j, "crashed")
    /\ UNCHANGED <<row, sources, txn>>

Older(age, limit) == IF age < limit THEN age + 1 ELSE limit

\* Time passes; no pod outlives its deadline.
TickTime ==
    /\ \A j \in Jobs : jobs[j].state \in Alive => jobs[j].age < Deadline
    /\ row' = [row EXCEPT !.updated_at = IF Exists THEN Older(@, Stale + 1) ELSE @]
    /\ txn' = [txn EXCEPT !.row.updated_at = IF RowLocked THEN Older(@, Stale + 1) ELSE @]
    /\ jobs' = [j \in Jobs |->
                 IF jobs[j].state \in Alive
                 THEN [jobs[j] EXCEPT !.age = @ + 1] ELSE jobs[j]]
    /\ UNCHANGED sources
----------------------------------------------------------------------------
(* The worker: manage.py generate_material. *)

ClaimableProcessing == {"queued", "failed", "processing"}   \* mutant

Claimable == {"queued", "failed"}

\* _claim on a row that is not committed: DoesNotExist, the command fails.
ClaimFindsNoRow(j) ==
    /\ jobs[j].state = "live"
    /\ ~ Exists
    /\ jobs' = Ended(j, "missed")
    /\ UNCHANGED <<row, sources, txn>>

\* _claim waits for the row lock, then skips quietly ...
ClaimSkipsUnlocked(j) ==   \* mutant: no select_for_update
    /\ jobs[j].state = "live"
    /\ Exists
    /\ row.generation_status \notin Claimable
    /\ jobs' = Ended(j, "skipped")
    /\ UNCHANGED <<row, sources, txn>>

ClaimSkips(j) ==
    /\ jobs[j].state = "live"
    /\ Exists
    /\ ~ RowLocked
    /\ row.generation_status \notin Claimable
    /\ jobs' = Ended(j, "skipped")
    /\ UNCHANGED <<row, sources, txn>>

\* ... or takes the row, in one short transaction.
ClaimUndated(j) ==   \* mutant: updated_at missing from update_fields
    /\ jobs[j].state = "live"
    /\ Exists
    /\ ~ RowLocked
    /\ row.generation_status \in Claimable
    /\ row' = [row EXCEPT !.generation_status = "processing", !.error_message = ""]
    /\ jobs' = [jobs EXCEPT ![j].state = "running", ![j].prompt = row.prompt]
    /\ UNCHANGED <<sources, txn>>

Claim(j) ==
    /\ jobs[j].state = "live"
    /\ Exists
    /\ ~ RowLocked
    /\ row.generation_status \in Claimable
    /\ row' = [row EXCEPT !.generation_status = "processing", !.error_message = "",
                          !.updated_at = 0]
    /\ jobs' = [jobs EXCEPT ![j].state = "running", ![j].prompt = row.prompt]
    /\ UNCHANGED <<sources, txn>>

\* An UPDATE ... WHERE id = pk that waits for the lock and matches no deleted row.
UpdateRow(new) ==
    /\ ~ RowLocked
    /\ row' = IF Exists THEN new ELSE row

\* The pipeline returned a valid output: one transaction for row and sources.
\* On a deleted row the insert of sources breaks their foreign key instead.
SaveCompletedKeepingSources(j) ==   \* mutant
    /\ jobs[j].state = "running"
    /\ UpdateRow(CompletedRow(row, j))
    /\ jobs' = Ended(j, IF Exists THEN "completed" ELSE "failed")
    /\ UNCHANGED <<sources, txn>>

SaveCompleted(j) ==
    /\ jobs[j].state = "running"
    /\ UpdateRow(CompletedRow(row, j))
    /\ sources' = IF Exists THEN j ELSE sources
    /\ jobs' = Ended(j, IF Exists THEN "completed" ELSE "failed")
    /\ UNCHANGED txn

\* The repair attempts ran out: the invalid output is saved, then _run_pipeline raises.
SaveInvalid(j) ==
    /\ jobs[j].state = "running"
    /\ UpdateRow([row EXCEPT !.output_json = j, !.validation_result = "invalid",
                             !.updated_at = 0])
    /\ jobs' = [jobs EXCEPT ![j].state = "failing"]
    /\ UNCHANGED <<sources, txn>>

\* The pipeline raised (retrieval, model, storage of the sources, or the above).
MarkFailed(j) ==
    /\ jobs[j].state \in Claimed
    /\ UpdateRow([row EXCEPT !.generation_status = "failed", !.error_message = "worker",
                             !.updated_at = 0])
    /\ jobs' = Ended(j, "failed")
    /\ UNCHANGED <<sources, txn>>
----------------------------------------------------------------------------
Request ==
    \/ \E p \in Prompts : CreateMaterial(p) \/ RegenerateMaterial(p)
    \/ \E j \in Jobs : DispatchAccepted(j) \/ DispatchReplyLost(j) \/ DispatchInline(j)
    \/ DispatchRefused
    \/ Commit
    \/ Rollback
    \/ DeleteMaterial

Cluster ==
    \/ \E j \in Jobs : PodStarts(j) \/ PodCrashes(j) \/ DeadlineExceeded(j)
    \/ \E j, k \in Jobs : DuplicateExecution(j, k)
    \/ TickTime

Generate(j) ==
    \/ ClaimFindsNoRow(j) \/ ClaimSkips(j) \/ Claim(j)
    \/ SaveCompleted(j) \/ SaveInvalid(j) \/ MarkFailed(j)

Next == Request \/ Cluster \/ \E j \in Jobs : Generate(j)

Spec == Init /\ [][Next]_vars

\* A request ends, by its commit or by its death; Kubernetes enforces deadlines and
\* time passes.  Neither the start of a pod nor the end of a pipeline is promised.
Fairness ==
    /\ WF_vars(DispatchRefused \/ Commit \/ Rollback)
    /\ \A j \in Jobs : WF_vars(DeadlineExceeded(j))
    /\ WF_vars(TickTime)

FairSpec == Spec /\ Fairness
----------------------------------------------------------------------------
(* Properties. *)

\* At most one worker runs the pipeline of a material: the claim, its skip rule
\* and the staleness rule of regenerate_material exclude each other's windows,
\* whatever jobs are duplicated, late or stranded.
SingleRunner ==
    \A j, k \in Jobs :
        jobs[j].state \in Claimed /\ jobs[k].state \in Claimed => j = k

\* The row of a running worker is still the one it claimed, or it was deleted:
\* regenerate_material never takes over a run whose worker is alive, so that a
\* worker's unconditional final write never lands on a later run's row.
RunnerHoldsRow ==
    \A j \in Jobs :
        jobs[j].state \in Claimed =>
            \/ row.generation_status = "gone"
            \/ row.generation_status = "processing" /\ ~ RowLocked

\* What makes the two above inductive: a claim dates the row, so that the row of a
\* running worker is no older than its job, and a job dies before a row gets stale.
RunnerIsFresh ==
    \A j \in Jobs :
        jobs[j].state \in Claimed =>
            \/ row.generation_status = "gone"
            \/ /\ row.generation_status = "processing"
               /\ row.updated_at <= jobs[j].age
               /\ ~ RowLocked

LockNeedsRow == RowLocked => row.generation_status # "gone"

RunnerInvariant == TypeOK /\ RunnerIsFresh /\ LockNeedsRow /\ SingleRunner

Whole(r, s) ==
    r.generation_status = "completed" =>
        /\ r.output_json \in Jobs
        /\ s = r.output_json
        /\ jobs[r.output_json].state = "completed"
        /\ jobs[r.output_json].prompt = r.prompt
        /\ r.validation_result = "valid"
        /\ r.error_message = ""

\* A completed row shows one run only: its output, its sources and its prompt are
\* those of the same execution, the output is valid and no error is left over.
CompletedIsWhole == Whole(row, sources)

NotSkipped(r) ==
    r.generation_status = "queued" =>
        /\ r.job_operation_name \in Jobs
        /\ jobs[r.job_operation_name].state \in {"pending", "live", "missed", "crashed"}

\* No wake-up is lost to the claim: the execution submitted for a queued row is
\* still to come, or it was killed, or it ran before the row was committed.
\* It never looked at the row and skipped it.
QueuedIsNotSkipped == NotSkipped(row)

\* What makes the last two inductive: the image a request will commit satisfies
\* them too, and the prompt of a row is not edited under its worker.
ImageIsSound ==
    /\ RowLocked =>
        /\ txn.row.review_status = "pending"
        /\ txn.sources = txn.row.output_json
        /\ Whole(txn.row, txn.sources)
    /\ txn.phase = "dispatch" =>
        /\ txn.row.generation_status = "queued"
        /\ txn.row.error_message = ""
    /\ txn.phase = "commit" =>
        /\ txn.row.generation_status \in {"queued", "failed", "completed"}
        /\ NotSkipped(txn.row)

RunnerKeepsPrompt ==
    \A j \in Jobs :
        jobs[j].state \in Claimed /\ Exists => jobs[j].prompt = row.prompt

ResultInvariant ==
    RunnerInvariant /\ ImageIsSound /\ RunnerKeepsPrompt /\ CompletedIsWhole /\ QueuedIsNotSkipped

\* What was published stays as it is, until it is deleted or one commit replaces
\* the row, the review verdict, the output and the sources together.
PublishedIsKept ==
    [][row.generation_status = "completed" =>
         \/ row'.generation_status = "gone" /\ sources' = NoJob
         \/ /\ row'.review_status = "pending"
            /\ sources' = row'.output_json
            /\ RowLocked
         \/ /\ row' = [row EXCEPT !.updated_at = row'.updated_at]
            /\ sources' = sources]_<<row, sources>>

\* A row that is queued or processing does not stay so beyond the user's reach:
\* it is settled, deleted, or a regenerate request is accepted for it.
Recoverable == IsActive ~> (~ IsActive \/ (RegenerateAllowed /\ ~ RowLocked))
=============================================================================
