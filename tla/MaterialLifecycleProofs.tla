---------------------- MODULE MaterialLifecycleProofs -----------------------
(***************************************************************************)
(* Proofs about MaterialLifecycle, for any number of jobs, any prompts and  *)
(* any Deadline <= Stale.                                                   *)
(*                                                                         *)
(* SingleRunner and RunnerHoldsRow are not inductive: what keeps a          *)
(* regenerate request away from a running worker is arithmetic, the chain   *)
(* row.updated_at <= age of the job <= Deadline <= Stale of RunnerIsFresh.  *)
(***************************************************************************)
EXTENDS MaterialRefinement, TLAPS

USE DEF RowLocked, Exists, IsActive, IsStale, RegenerateAllowed

\* The default prompt of absent rows and idle executions is a prompt.
LEMMA SomePromptType == (CHOOSE p \in Prompts : TRUE) \in Prompts
  BY PromptsAssumption

\* Both kinds of age start at zero.
LEMMA ZeroAge == 0 \in 0 .. Stale + 1 /\ 0 \in 0 .. Deadline
  BY TimeoutAssumption

\* The rows the requests build are rows.
LEMMA QueuedRowType ==
  ASSUME NEW p \in Prompts
  PROVE  QueuedRow(p) \in MarketingMaterial
  BY ZeroAge DEF QueuedRow, MarketingMaterial, RowStatus, GenerationStatus, ReviewStatus

\* So are the rows that stand for no row.
LEMMA NoRowType ==
  ASSUME NEW status \in {"absent", "gone"}
  PROVE  /\ NoRow(status) \in MarketingMaterial
         /\ NoRow(status).generation_status = status
         /\ NoRow(status).review_status = "pending"
         /\ NoRow(status).output_json = NoJob
  BY ZeroAge, SomePromptType
  DEF NoRow, QueuedRow, MarketingMaterial, RowStatus, GenerationStatus, ReviewStatus

\* No transaction is one, too.
LEMMA NoTransactionType ==
  /\ NoTransaction \in Transaction
  /\ NoTransaction.phase = "idle"
  BY NoRowType DEF NoTransaction, Transaction

\* The initial states satisfy the invariant.
LEMMA InitRunner == Init => RunnerInvariant
<1> SUFFICES ASSUME Init PROVE RunnerInvariant OBVIOUS
<1>1. row \in MarketingMaterial /\ sources \in Jobs \cup {NoJob} /\ txn \in Transaction
  BY NoRowType, NoTransactionType DEF Init
<1>2. jobs \in [Jobs -> Execution]
  BY SomePromptType, ZeroAge DEF Init, Execution, JobState
<1>3. \A j \in Jobs : jobs[j].state \notin Claimed
  BY DEF Init, Claimed
<1>4. ~ RowLocked
  BY NoTransactionType DEF Init
<1> QED BY <1>1, <1>2, <1>3, <1>4 DEF RunnerInvariant, TypeOK, RunnerIsFresh, LockNeedsRow, SingleRunner
----------------------------------------------------------------------------
\* Every request keeps the types.
LEMMA RequestType == TypeOK /\ Request => TypeOK'
<1> SUFFICES ASSUME TypeOK, Request PROVE TypeOK' OBVIOUS
<1> USE DEF TypeOK
<1>1. ASSUME NEW p \in Prompts, CreateMaterial(p) PROVE TypeOK'
  BY <1>1, QueuedRowType DEF CreateMaterial, Transaction
<1>2. ASSUME NEW p \in Prompts, RegenerateMaterial(p) PROVE TypeOK'
  BY <1>2, QueuedRowType DEF RegenerateMaterial, Transaction
<1>3. RecordDispatchFailure \in Transaction
  BY ZeroAge DEF RecordDispatchFailure, Transaction, MarketingMaterial, RowStatus, GenerationStatus
<1>4. ASSUME NEW j \in Jobs
      PROVE  /\ RecordJobName(j) \in Transaction
             /\ Submitted(j) \in [Jobs -> Execution]
  <2>1. RecordJobName(j) \in Transaction
    BY ZeroAge DEF RecordJobName, Transaction, MarketingMaterial
  <2>2. Submitted(j) \in [Jobs -> Execution]
    BY DEF Submitted, Execution, JobState
  <2> QED BY <2>1, <2>2
<1>5. ASSUME NEW j \in Jobs, DispatchAccepted(j) PROVE TypeOK'
  BY <1>5, <1>4 DEF DispatchAccepted
<1>6. ASSUME NEW j \in Jobs, DispatchReplyLost(j) PROVE TypeOK'
  BY <1>6, <1>3, <1>4 DEF DispatchReplyLost
<1>7. ASSUME NEW j \in Jobs, DispatchInline(j) PROVE TypeOK'
  <2>1. CompletedRow(txn.row, j) \in MarketingMaterial
    BY ZeroAge DEF CompletedRow, Transaction, MarketingMaterial, RowStatus, GenerationStatus
  <2>2. jobs' \in [Jobs -> Execution]
    <3>1. jobs' = [jobs EXCEPT ![j].state = "completed", ![j].prompt = txn.row.prompt]
      BY <1>7 DEF DispatchInline
    <3>2. txn.row.prompt \in Prompts
      BY <1>7 DEF DispatchInline, Transaction, MarketingMaterial
    <3> QED  BY <3>1, <3>2 DEF Execution, JobState
  <2> QED BY <1>7, <2>1, <2>2 DEF DispatchInline, Transaction
<1>8. ASSUME DispatchRefused PROVE TypeOK'
  BY <1>8, <1>3 DEF DispatchRefused
<1>9. ASSUME Commit PROVE TypeOK'
  BY <1>9, NoTransactionType DEF Commit, Transaction
<1>10. ASSUME Rollback PROVE TypeOK'
  BY <1>10, NoTransactionType, NoRowType DEF Rollback
<1>11. ASSUME DeleteMaterial PROVE TypeOK'
  BY <1>11, NoRowType DEF DeleteMaterial
<1> QED BY <1>1, <1>2, <1>5, <1>6, <1>7, <1>8, <1>9, <1>10, <1>11 DEF Request

\* Every step of Kubernetes and of the clock keeps the types.
LEMMA ClusterType == TypeOK /\ Cluster => TypeOK'
<1> SUFFICES ASSUME TypeOK, Cluster PROVE TypeOK' OBVIOUS
<1> USE DEF TypeOK
<1>1. ASSUME NEW j \in Jobs, NEW s \in JobState PROVE Ended(j, s) \in [Jobs -> Execution]
  BY ZeroAge DEF Ended, Execution
<1>2. ASSUME NEW j \in Jobs, PodStarts(j) PROVE TypeOK'
  BY <1>2 DEF PodStarts, Execution, JobState
<1>3. ASSUME NEW j \in Jobs, PodCrashes(j) \/ DeadlineExceeded(j) PROVE TypeOK'
  BY <1>3, <1>1 DEF PodCrashes, DeadlineExceeded, JobState
<1>4. ASSUME NEW j \in Jobs, NEW k \in Jobs, DuplicateExecution(j, k) PROVE TypeOK'
  BY <1>4 DEF DuplicateExecution, Execution, JobState
<1>5. ASSUME TickTime PROVE TypeOK'
  <2>1. \A a \in 0 .. Stale + 1 : Older(a, Stale + 1) \in 0 .. Stale + 1
    BY TimeoutAssumption DEF Older
  <2>2. row' \in MarketingMaterial
    BY <1>5, <2>1 DEF TickTime, MarketingMaterial
  <2>3. txn' \in Transaction
    BY <1>5, <2>1 DEF TickTime, Transaction, MarketingMaterial
  <2>4. jobs' \in [Jobs -> Execution]
    BY <1>5, TimeoutAssumption DEF TickTime, Execution, Alive
  <2> QED BY <1>5, <2>2, <2>3, <2>4 DEF TickTime
<1> QED BY <1>2, <1>3, <1>4, <1>5 DEF Cluster

\* Every step of a worker keeps the types.
LEMMA GenerateType == ASSUME TypeOK, NEW j \in Jobs, Generate(j) PROVE TypeOK'
<1> USE DEF TypeOK
<1>1. ASSUME NEW s \in JobState PROVE Ended(j, s) \in [Jobs -> Execution]
  BY ZeroAge DEF Ended, Execution
<1>2. ASSUME ClaimFindsNoRow(j) \/ ClaimSkips(j) PROVE TypeOK'
  BY <1>2, <1>1 DEF ClaimFindsNoRow, ClaimSkips, JobState
<1>3. ASSUME Claim(j) PROVE TypeOK'
  <2>1. row' \in MarketingMaterial
    BY <1>3, ZeroAge DEF Claim, MarketingMaterial, RowStatus, GenerationStatus
  <2>2. jobs' \in [Jobs -> Execution]
    BY <1>3 DEF Claim, Execution, JobState, MarketingMaterial
  <2> QED BY <1>3, <2>1, <2>2 DEF Claim
<1>4. ASSUME SaveCompleted(j) PROVE TypeOK'
  <2>1. CompletedRow(row, j) \in MarketingMaterial
    BY ZeroAge DEF CompletedRow, MarketingMaterial, RowStatus, GenerationStatus
  <2> QED BY <1>4, <1>1, <2>1 DEF SaveCompleted, UpdateRow, JobState
<1>5. ASSUME SaveInvalid(j) PROVE TypeOK'
  <2>1. row' \in MarketingMaterial
    BY <1>5, ZeroAge DEF SaveInvalid, UpdateRow, MarketingMaterial
  <2>2. jobs' \in [Jobs -> Execution]
    BY <1>5 DEF SaveInvalid, Execution, JobState
  <2> QED BY <1>5, <2>1, <2>2 DEF SaveInvalid
<1>6. ASSUME MarkFailed(j) PROVE TypeOK'
  <2>1. row' \in MarketingMaterial
    BY <1>6, ZeroAge DEF MarkFailed, UpdateRow, MarketingMaterial, RowStatus, GenerationStatus
  <2> QED BY <1>6, <1>1, <2>1 DEF MarkFailed, JobState
<1> QED BY <1>2, <1>3, <1>4, <1>5, <1>6 DEF Generate

\* Type correctness of every step.
LEMMA StepType == TypeOK /\ [Next]_vars => TypeOK'
<1> SUFFICES ASSUME TypeOK, [Next]_vars PROVE TypeOK' OBVIOUS
<1>1. CASE UNCHANGED vars
  BY <1>1 DEF vars, TypeOK
<1> QED BY <1>1, RequestType, ClusterType, GenerateType DEF Next
----------------------------------------------------------------------------
\* While a request holds the lock no worker holds the claim, ...
LEMMA LockedUnclaimed ==
  ASSUME RunnerInvariant, RowLocked, NEW j \in Jobs
  PROVE  jobs[j].state \notin Claimed
  BY DEF RunnerInvariant, RunnerIsFresh, LockNeedsRow

\* ... and a request that takes the lock finds no worker holding it: the row of a
\* running worker is active, and younger than the deadline of its job.
LEMMA AllowedUnclaimed ==
  ASSUME RunnerInvariant, row.generation_status = "absent" \/ (Exists /\ RegenerateAllowed),
         NEW j \in Jobs
  PROVE  jobs[j].state \notin Claimed
<1> SUFFICES ASSUME jobs[j].state \in Claimed PROVE FALSE OBVIOUS
<1>1. row.generation_status = "processing" /\ row.updated_at <= jobs[j].age
  BY DEF RunnerInvariant, RunnerIsFresh, GenerationStatus
<1>2. jobs[j].age \in 0 .. Deadline /\ row.updated_at \in 0 .. Stale + 1
  BY DEF RunnerInvariant, TypeOK, Execution, MarketingMaterial
<1>3. ~ IsStale
  BY <1>1, <1>2, TimeoutAssumption
<1> QED BY <1>1, <1>3

\* No two workers in two states of which neither has any.
LEMMA UnclaimedIsFresh ==
  ASSUME \A j \in Jobs : jobs'[j].state \notin Claimed
  PROVE  RunnerIsFresh' /\ SingleRunner'
  BY DEF RunnerIsFresh, SingleRunner

\* Requests keep out of the way of the running worker.
LEMMA RequestRunner == RunnerInvariant /\ Request => RunnerInvariant'
<1> SUFFICES ASSUME RunnerInvariant, Request PROVE RunnerInvariant' OBVIOUS
<1>t. TypeOK /\ TypeOK'
  BY RequestType DEF RunnerInvariant
<1>l. ASSUME RowLocked PROVE \A i \in Jobs : jobs[i].state \notin Claimed
  BY <1>l, LockedUnclaimed
<1>1. ASSUME NEW p \in Prompts, CreateMaterial(p) PROVE RunnerInvariant'
  <2>1. \A i \in Jobs : jobs'[i].state \notin Claimed
    BY <1>1, AllowedUnclaimed DEF CreateMaterial
  <2> QED BY <1>1, <1>t, <2>1, UnclaimedIsFresh DEF CreateMaterial, RunnerInvariant, LockNeedsRow
<1>2. ASSUME NEW p \in Prompts, RegenerateMaterial(p) PROVE RunnerInvariant'
  <2>1. \A i \in Jobs : jobs'[i].state \notin Claimed
    BY <1>2, AllowedUnclaimed DEF RegenerateMaterial
  <2>2. row'.generation_status # "gone"
    BY <1>2 DEF RegenerateMaterial, GenerationStatus
  <2> QED BY <1>t, <2>1, <2>2, UnclaimedIsFresh DEF RunnerInvariant, LockNeedsRow
<1>3. ASSUME NEW j \in Jobs, DispatchAccepted(j) \/ DispatchReplyLost(j) \/ DispatchInline(j)
      PROVE  RunnerInvariant'
  <2>1. RowLocked /\ row' = row
    BY <1>3 DEF DispatchAccepted, DispatchReplyLost, DispatchInline
  <2>2. \A i \in Jobs : jobs'[i].state \notin Claimed
    BY <1>3, <1>t, <2>1, <1>l
    DEF DispatchAccepted, DispatchReplyLost, DispatchInline, Submitted, Claimed, TypeOK, Execution
  <2> QED BY <1>t, <2>1, <2>2, UnclaimedIsFresh DEF RunnerInvariant, LockNeedsRow
<1>4. ASSUME DispatchRefused PROVE RunnerInvariant'
  <2>1. RowLocked /\ row' = row /\ jobs' = jobs
    BY <1>4 DEF DispatchRefused
  <2> QED BY <1>t, <2>1, <1>l, UnclaimedIsFresh DEF RunnerInvariant, LockNeedsRow
<1>5. ASSUME Commit \/ Rollback PROVE RunnerInvariant'
  <2>1. RowLocked /\ jobs' = jobs /\ ~ RowLocked'
    BY <1>5, NoTransactionType DEF Commit, Rollback
  <2> QED BY <1>t, <2>1, <1>l, UnclaimedIsFresh DEF RunnerInvariant, LockNeedsRow
<1>6. ASSUME DeleteMaterial PROVE RunnerInvariant'
  <2>1. row'.generation_status = "gone" /\ jobs' = jobs /\ ~ RowLocked'
    BY <1>6, NoRowType DEF DeleteMaterial
  <2> QED BY <1>t, <2>1 DEF RunnerInvariant, RunnerIsFresh, LockNeedsRow, SingleRunner
<1> QED BY <1>1, <1>2, <1>3, <1>4, <1>5, <1>6 DEF Request

\* Kubernetes hands out no claim, and time makes job and row older together.
LEMMA ClusterRunner == RunnerInvariant /\ Cluster => RunnerInvariant'
<1> SUFFICES ASSUME RunnerInvariant, Cluster PROVE RunnerInvariant' OBVIOUS
<1>t. TypeOK /\ TypeOK'
  BY ClusterType DEF RunnerInvariant
<1>1. ASSUME UNCHANGED <<row, txn>>,
             \A i \in Jobs : jobs'[i].state \in Claimed => jobs'[i] = jobs[i]
      PROVE  RunnerInvariant'
  BY <1>1, <1>t DEF RunnerInvariant, RunnerIsFresh, LockNeedsRow, SingleRunner
<1>2. ASSUME NEW j \in Jobs, PodStarts(j) \/ PodCrashes(j) \/ DeadlineExceeded(j)
      PROVE  RunnerInvariant'
  <2>1. \A i \in Jobs : jobs'[i].state \in Claimed => jobs'[i] = jobs[i]
    BY <1>2, <1>t DEF PodStarts, PodCrashes, DeadlineExceeded, Ended, Claimed, TypeOK, Execution
  <2> QED BY <1>1, <1>2, <2>1 DEF PodStarts, PodCrashes, DeadlineExceeded
<1>3. ASSUME NEW j \in Jobs, NEW k \in Jobs, DuplicateExecution(j, k) PROVE RunnerInvariant'
  <2>1. \A i \in Jobs : jobs'[i].state \in Claimed => jobs'[i] = jobs[i]
    BY <1>3, <1>t DEF DuplicateExecution, Claimed, TypeOK, Execution
  <2> QED BY <1>1, <1>3, <2>1 DEF DuplicateExecution
<1>4. ASSUME TickTime PROVE RunnerInvariant'
  <2>1. /\ row'.generation_status = row.generation_status
        /\ RowLocked' = RowLocked
    BY <1>4, <1>t DEF TickTime, TypeOK, MarketingMaterial, Transaction
  <2>2. ASSUME NEW i \in Jobs, jobs'[i].state \in Claimed
        PROVE  jobs[i].state \in Claimed /\ jobs'[i].age = jobs[i].age + 1
    BY <1>4, <1>t, <2>2 DEF TickTime, Claimed, Alive, TypeOK, Execution
  <2>3. ASSUME Exists PROVE row'.updated_at <= row.updated_at + 1
    <3>1. row'.updated_at = Older(row.updated_at, Stale + 1)
      BY <1>4, <1>t, <2>3 DEF TickTime, TypeOK, MarketingMaterial
    <3>2. row.updated_at \in 0 .. Stale + 1
      BY <1>t DEF TypeOK, MarketingMaterial
    <3> QED BY <3>1, <3>2, TimeoutAssumption DEF Older
  <2>4. RunnerIsFresh'
    <3> SUFFICES ASSUME NEW i \in Jobs, jobs'[i].state \in Claimed,
                        row'.generation_status # "gone"
                 PROVE  /\ row'.generation_status = "processing"
                        /\ row'.updated_at <= jobs'[i].age
                        /\ ~ RowLocked'
      BY DEF RunnerIsFresh
    <3>1. row.generation_status = "processing" /\ row.updated_at <= jobs[i].age /\ ~ RowLocked
      BY <2>1, <2>2 DEF RunnerInvariant, RunnerIsFresh
    <3>2. row'.updated_at <= row.updated_at + 1
      BY <2>3, <3>1 DEF GenerationStatus
    <3>3. /\ row.updated_at \in 0 .. Stale + 1 /\ row'.updated_at \in 0 .. Stale + 1
          /\ jobs[i].age \in 0 .. Deadline
      BY <1>t DEF TypeOK, MarketingMaterial, Execution
    <3> QED BY <2>1, <2>2, <3>1, <3>2, <3>3, TimeoutAssumption
  <2> QED BY <1>t, <2>1, <2>2, <2>4 DEF RunnerInvariant, LockNeedsRow, SingleRunner
<1> QED BY <1>2, <1>3, <1>4 DEF Cluster

\* A claim is taken where there is none, and a worker writes as long as it holds it.
LEMMA GenerateRunner == ASSUME RunnerInvariant, NEW j \in Jobs, Generate(j) PROVE RunnerInvariant'
<1>t. TypeOK /\ TypeOK'
  BY GenerateType DEF RunnerInvariant
<1>1. ASSUME ClaimFindsNoRow(j) \/ ClaimSkips(j) PROVE RunnerInvariant'
  <2>1. \A i \in Jobs : jobs'[i].state \in Claimed => jobs'[i] = jobs[i]
    BY <1>1, <1>t DEF ClaimFindsNoRow, ClaimSkips, Ended, Claimed, TypeOK, Execution
  <2>2. row' = row /\ txn' = txn
    BY <1>1 DEF ClaimFindsNoRow, ClaimSkips
  <2> QED BY <1>t, <2>1, <2>2 DEF RunnerInvariant, RunnerIsFresh, LockNeedsRow, SingleRunner
<1>2. ASSUME Claim(j) PROVE RunnerInvariant'
  <2>1. \A i \in Jobs : jobs[i].state \notin Claimed
    BY <1>2 DEF Claim, Claimable, GenerationStatus, RunnerInvariant, RunnerIsFresh
  <2>2. \A i \in Jobs : jobs'[i].state \in Claimed => i = j
    BY <1>2, <1>t, <2>1 DEF Claim, TypeOK, Execution
  <2>3. row'.generation_status = "processing" /\ row'.updated_at = 0 /\ ~ RowLocked'
    BY <1>2, <1>t DEF Claim, TypeOK, MarketingMaterial
  <2>4. \A i \in Jobs : 0 <= jobs'[i].age
    BY <1>t DEF TypeOK, Execution
  <2> QED BY <1>t, <2>2, <2>3, <2>4 DEF RunnerInvariant, RunnerIsFresh, LockNeedsRow, SingleRunner
<1>3. ASSUME SaveCompleted(j) \/ MarkFailed(j) PROVE RunnerInvariant'
  <2>1. jobs[j].state \in Claimed /\ ~ RowLocked'
    BY <1>3 DEF SaveCompleted, MarkFailed, UpdateRow, Claimed
  <2>2. \A i \in Jobs : jobs[i].state \in Claimed => i = j
    BY <2>1 DEF RunnerInvariant, SingleRunner
  <2>3. \A i \in Jobs : jobs'[i].state \notin Claimed
    BY <1>3, <1>t, <2>2 DEF SaveCompleted, MarkFailed, Ended, Claimed, TypeOK, Execution
  <2> QED BY <1>t, <2>1, <2>3, UnclaimedIsFresh DEF RunnerInvariant, LockNeedsRow
<1>4. ASSUME SaveInvalid(j) PROVE RunnerInvariant'
  <2>1. jobs[j].state \in Claimed /\ ~ RowLocked /\ txn' = txn
    BY <1>4 DEF SaveInvalid, UpdateRow, Claimed
  <2>2. \A i \in Jobs : jobs'[i].state \in Claimed => i = j
    BY <1>4, <1>t, <2>1 DEF SaveInvalid, RunnerInvariant, SingleRunner, TypeOK, Execution
  <2>3. row.generation_status = "gone" \/ row.generation_status = "processing"
    BY <2>1 DEF RunnerInvariant, RunnerIsFresh
  <2>4. \/ row'.generation_status = "gone"
        \/ row'.generation_status = "processing" /\ row'.updated_at = 0
    BY <1>4, <1>t, <2>3 DEF SaveInvalid, UpdateRow, GenerationStatus, TypeOK, MarketingMaterial
  <2>5. \A i \in Jobs : 0 <= jobs'[i].age
    BY <1>t DEF TypeOK, Execution
  <2> QED BY <1>t, <2>1, <2>2, <2>4, <2>5
          DEF RunnerInvariant, RunnerIsFresh, LockNeedsRow, SingleRunner
<1> QED BY <1>1, <1>2, <1>3, <1>4 DEF Generate

\* Every step keeps the runner invariant.
LEMMA StepRunner == RunnerInvariant /\ [Next]_vars => RunnerInvariant'
<1> SUFFICES ASSUME RunnerInvariant, [Next]_vars PROVE RunnerInvariant' OBVIOUS
<1>1. CASE UNCHANGED vars
  BY <1>1 DEF vars, RunnerInvariant, TypeOK, RunnerIsFresh, LockNeedsRow, SingleRunner
<1> QED BY <1>1, RequestRunner, ClusterRunner, GenerateRunner DEF Next

\* Every reachable state has the types of the model fields and of the job states.
THEOREM TypeCorrect == Spec => []TypeOK
<1>1. Init => TypeOK
  BY InitRunner DEF RunnerInvariant
<1> QED BY <1>1, StepType, PTL DEF Spec

\* The inductive invariant the next two theorems need.
THEOREM RunnerInvariantHolds == Spec => []RunnerInvariant
  BY InitRunner, StepRunner, PTL DEF Spec

\* At most one worker at a time runs the pipeline of a material, for any number of
\* jobs and any duplication of them by Kubernetes.
THEOREM AtMostOneRunner == Spec => []SingleRunner
<1>1. RunnerInvariant => SingleRunner
  BY DEF RunnerInvariant
<1> QED BY <1>1, RunnerInvariantHolds, PTL

\* No regenerate request ever takes the row from under a living worker.
THEOREM WorkerKeepsItsRow == Spec => []RunnerHoldsRow
<1>1. RunnerInvariant => RunnerHoldsRow
  BY DEF RunnerInvariant, RunnerIsFresh, RunnerHoldsRow
<1> QED BY <1>1, RunnerInvariantHolds, PTL
----------------------------------------------------------------------------
(***************************************************************************)
(* What a reader of a material sees is proved here, on top of the runner     *)
(* invariant above: a completed row is the whole result *)
(* of one execution, a queued row was not skipped by its execution, and a    *)
(* published result is only replaced as a whole.                             *)
(*                                                                         *)
(* These are invariants of the committed row, and what commits was decided   *)
(* earlier: ImageIsSound says the same of the image the open request will    *)
(* commit.  Kubernetes and other workers move jobs meanwhile, so the lemmas  *)
(* of the first part say what no step of anyone does to the jobs.            *)
(***************************************************************************)

Waiting == {"pending", "live", "missed", "crashed"}

FinishedStay ==
    \A i \in Jobs : jobs[i].state = "completed" =>
        jobs'[i].state = "completed" /\ jobs'[i].prompt = jobs[i].prompt

WaitingStay ==
    \A i \in Jobs : jobs[i].state \in Waiting => jobs'[i].state \in Waiting

NoNewRunner ==
    \A i \in Jobs : jobs'[i].state \in Claimed =>
        jobs[i].state \in Claimed /\ jobs'[i].prompt = jobs[i].prompt

\* What the steps below keep besides the runner invariant.
Results == ImageIsSound /\ RunnerKeepsPrompt /\ CompletedIsWhole /\ QueuedIsNotSkipped

\* The invariant, in the two parts that are proved one after the other.
LEMMA ResultIsBoth == ResultInvariant <=> RunnerInvariant /\ Results
  BY DEF ResultInvariant, Results

\* A soundness of one row survives the steps that keep the finished executions ...
LEMMA WholeStays ==
  ASSUME FinishedStay, NEW r, NEW s, Whole(r, s)
  PROVE  r.generation_status = "completed" =>
             /\ r.output_json \in Jobs
             /\ s = r.output_json
             /\ jobs'[r.output_json].state = "completed"
             /\ jobs'[r.output_json].prompt = r.prompt
             /\ r.validation_result = "valid"
             /\ r.error_message = ""
  BY DEF Whole, FinishedStay

\* ... or the waiting ones.
LEMMA NotSkippedStays ==
  ASSUME WaitingStay, NEW r, NotSkipped(r)
  PROVE  r.generation_status = "queued" =>
             /\ r.job_operation_name \in Jobs
             /\ jobs'[r.job_operation_name].state \in Waiting
  BY DEF NotSkipped, WaitingStay, Waiting

\* The committed row of a step that does not write it.
LEMMA CommittedStays ==
  ASSUME Results, UNCHANGED <<row, sources>>, FinishedStay, WaitingStay, NoNewRunner
  PROVE  RunnerKeepsPrompt' /\ CompletedIsWhole' /\ QueuedIsNotSkipped'
<1>1. CompletedIsWhole'
  BY WholeStays DEF Results, CompletedIsWhole, Whole
<1>2. QueuedIsNotSkipped'
  BY NotSkippedStays DEF Results, QueuedIsNotSkipped, NotSkipped, Waiting
<1>3. RunnerKeepsPrompt'
  BY DEF Results, RunnerKeepsPrompt, NoNewRunner
<1> QED BY <1>1, <1>2, <1>3

\* The image of a step that does not write it.
LEMMA ImageStays ==
  ASSUME Results, UNCHANGED txn, FinishedStay, RowLocked => WaitingStay
  PROVE  ImageIsSound'
<1>1. RowLocked => Whole(txn.row, txn.sources)'
  BY WholeStays DEF Results, ImageIsSound, Whole
<1>2. txn.phase = "commit" => NotSkipped(txn.row)'
  BY NotSkippedStays DEF Results, ImageIsSound, NotSkipped, Waiting
<1> QED BY <1>1, <1>2 DEF Results, ImageIsSound

\* Steps that leave the jobs alone keep what is said of them.
LEMMA SameJobs == ASSUME UNCHANGED jobs PROVE FinishedStay /\ WaitingStay /\ NoNewRunner
  BY DEF FinishedStay, WaitingStay, NoNewRunner
----------------------------------------------------------------------------
\* What a request that has just taken the lock will commit is a queued row.
LEMMA QueuedRowFields ==
  ASSUME NEW p
  PROVE  /\ QueuedRow(p).generation_status = "queued"
         /\ QueuedRow(p).review_status = "pending"
         /\ QueuedRow(p).error_message = ""
         /\ QueuedRow(p).output_json = NoJob
  BY DEF QueuedRow

LEMMA QueuedImage ==
  ASSUME NEW p, txn' = [phase |-> "dispatch", row |-> QueuedRow(p), sources |-> NoJob]
  PROVE  ImageIsSound'
  BY QueuedRowFields DEF ImageIsSound, Whole

\* A refused dispatch fails the image and nothing else.
LEMMA FailedImage ==
  ASSUME TypeOK, Results, txn.phase = "dispatch", txn' = RecordDispatchFailure
  PROVE  ImageIsSound'
<1>1. /\ txn'.row.generation_status = "failed" /\ txn'.phase = "commit"
      /\ txn'.row.review_status = txn.row.review_status
      /\ txn'.row.output_json = txn.row.output_json
      /\ txn'.sources = txn.sources
  BY DEF RecordDispatchFailure, TypeOK, Transaction, MarketingMaterial
<1> QED BY <1>1 DEF Results, ImageIsSound, Whole, NotSkipped

\* Every request keeps the results, ...
LEMMA RequestResults == ResultInvariant /\ Request => Results'
<1> SUFFICES ASSUME ResultInvariant, Request PROVE Results' OBVIOUS
<1>r. RunnerInvariant /\ Results
  BY ResultIsBoth
<1>t. TypeOK
  BY <1>r DEF RunnerInvariant
<1>1. ASSUME NEW p \in Prompts, CreateMaterial(p) \/ RegenerateMaterial(p) PROVE Results'
  BY <1>1, <1>r, QueuedImage, CommittedStays, SameJobs
  DEF CreateMaterial, RegenerateMaterial, Results
<1>2. ASSUME NEW j \in Jobs, jobs[j].state = "none", jobs' = Submitted(j)
      PROVE  FinishedStay /\ WaitingStay /\ NoNewRunner /\ jobs'[j].state = "pending"
  BY <1>2, <1>t DEF Submitted, FinishedStay, WaitingStay, NoNewRunner, Waiting, Claimed, TypeOK, Execution
<1>3. ASSUME NEW j \in Jobs, DispatchAccepted(j) PROVE Results'
  <2>1. FinishedStay /\ WaitingStay /\ NoNewRunner /\ jobs'[j].state = "pending"
    BY <1>2, <1>3 DEF DispatchAccepted
  <2>2. /\ txn'.row.generation_status = "queued" /\ txn'.phase = "commit"
        /\ txn'.row.review_status = "pending"
        /\ txn'.sources = txn'.row.output_json
        /\ txn'.row.job_operation_name = j
    BY <1>3, <1>r, <1>t
    DEF DispatchAccepted, RecordJobName, TypeOK, Transaction, MarketingMaterial, Results, ImageIsSound
  <2>3. ImageIsSound'
    BY <2>1, <2>2 DEF ImageIsSound, Whole, NotSkipped
  <2> QED BY <1>3, <1>r, <2>1, <2>3, CommittedStays DEF DispatchAccepted, Results
<1>4. ASSUME NEW j \in Jobs, DispatchReplyLost(j) PROVE Results'
  <2>1. FinishedStay /\ WaitingStay /\ NoNewRunner
    BY <1>2, <1>4 DEF DispatchReplyLost
  <2> QED BY <1>4, <1>r, <1>t, <2>1, FailedImage, CommittedStays DEF DispatchReplyLost, Results
<1>5. ASSUME NEW j \in Jobs, DispatchInline(j) PROVE Results'
  <2>1. /\ FinishedStay /\ WaitingStay /\ NoNewRunner
        /\ jobs'[j].state = "completed" /\ jobs'[j].prompt = txn.row.prompt
    BY <1>5, <1>t
    DEF DispatchInline, FinishedStay, WaitingStay, NoNewRunner, Waiting, Claimed, TypeOK, Execution
  <2>2. /\ txn'.row.generation_status = "completed" /\ txn'.phase = "commit"
        /\ txn'.row.review_status = "pending"
        /\ txn'.row.output_json = j /\ txn'.sources = j
        /\ txn'.row.prompt = txn.row.prompt
        /\ txn'.row.validation_result = "valid" /\ txn'.row.error_message = ""
    BY <1>5, <1>r, <1>t
    DEF DispatchInline, CompletedRow, TypeOK, Transaction, MarketingMaterial, Results, ImageIsSound
  <2>3. ImageIsSound'
    BY <2>1, <2>2 DEF ImageIsSound, Whole, NotSkipped
  <2> QED BY <1>5, <1>r, <2>1, <2>3, CommittedStays DEF DispatchInline, Results
<1>6. ASSUME DispatchRefused PROVE Results'
  BY <1>6, <1>r, <1>t, SameJobs, FailedImage, CommittedStays DEF DispatchRefused, Results
<1>7. ASSUME Commit PROVE Results'
  <2>1. CompletedIsWhole' /\ QueuedIsNotSkipped'
    BY <1>7, <1>r DEF Commit, Results, ImageIsSound, CompletedIsWhole, QueuedIsNotSkipped, Whole, NotSkipped
  <2>2. RunnerKeepsPrompt'
    BY <1>7, <1>r, LockedUnclaimed DEF Commit, RunnerKeepsPrompt
  <2>3. ImageIsSound'
    BY <1>7, NoTransactionType DEF Commit, ImageIsSound
  <2> QED BY <2>1, <2>2, <2>3 DEF Results
<1>8. ASSUME Rollback PROVE Results'
  <2>1. ImageIsSound'
    BY <1>8, NoTransactionType DEF Rollback, ImageIsSound
  <2>2. CASE Exists
    BY <1>8, <1>r, <2>1, <2>2, SameJobs, CommittedStays DEF Rollback, Results
  <2>3. CASE ~ Exists
    BY <1>8, <2>1, <2>3, NoRowType
    DEF Rollback, Results, CompletedIsWhole, QueuedIsNotSkipped, Whole, NotSkipped,
        RunnerKeepsPrompt, GenerationStatus
  <2> QED BY <2>2, <2>3
<1>9. ASSUME DeleteMaterial PROVE Results'
  <2>1. ImageIsSound'
    BY <1>9, <1>r, SameJobs, ImageStays DEF DeleteMaterial
  <2> QED BY <1>9, <2>1, NoRowType
          DEF DeleteMaterial, Results, CompletedIsWhole, QueuedIsNotSkipped, Whole, NotSkipped,
              RunnerKeepsPrompt, GenerationStatus
<1> QED BY <1>1, <1>3, <1>4, <1>5, <1>6, <1>7, <1>8, <1>9 DEF Request
----------------------------------------------------------------------------
\* Steps of Kubernetes that write neither row nor image.
LEMMA ClusterResults == ResultInvariant /\ Cluster => Results'
<1> SUFFICES ASSUME ResultInvariant, Cluster PROVE Results' OBVIOUS
<1>r. RunnerInvariant /\ Results
  BY ResultIsBoth
<1>t. TypeOK
  BY <1>r DEF RunnerInvariant
<1>1. ASSUME UNCHANGED <<row, sources, txn>>, FinishedStay, WaitingStay, NoNewRunner
      PROVE  Results'
  BY <1>1, <1>r, CommittedStays, ImageStays DEF Results
<1>2. ASSUME NEW j \in Jobs, PodStarts(j) PROVE Results'
  <2>1. FinishedStay /\ WaitingStay /\ NoNewRunner
    BY <1>2, <1>t DEF PodStarts, FinishedStay, WaitingStay, NoNewRunner, Waiting, Claimed, TypeOK, Execution
  <2> QED BY <1>1, <1>2, <2>1 DEF PodStarts
<1>3. ASSUME NEW j \in Jobs, PodCrashes(j) \/ DeadlineExceeded(j) PROVE Results'
  <2>1. FinishedStay /\ WaitingStay /\ NoNewRunner
    BY <1>3, <1>t DEF PodCrashes, DeadlineExceeded, Ended, FinishedStay, WaitingStay, NoNewRunner,
                      Waiting, Alive, Claimed, TypeOK, Execution
  <2> QED BY <1>1, <1>3, <2>1 DEF PodCrashes, DeadlineExceeded
<1>4. ASSUME NEW j \in Jobs, NEW k \in Jobs, DuplicateExecution(j, k) PROVE Results'
  <2>1. FinishedStay /\ WaitingStay /\ NoNewRunner
    BY <1>4, <1>t DEF DuplicateExecution, FinishedStay, WaitingStay, NoNewRunner,
                      Waiting, Claimed, TypeOK, Execution
  <2> QED BY <1>1, <1>4, <2>1 DEF DuplicateExecution
<1>5. ASSUME TickTime PROVE Results'
  <2>1. FinishedStay /\ WaitingStay /\ NoNewRunner
    BY <1>5, <1>t DEF TickTime, FinishedStay, WaitingStay, NoNewRunner, TypeOK, Execution
  <2> DEFINE SameRow(r, s) ==
        /\ s.generation_status = r.generation_status /\ s.review_status = r.review_status
        /\ s.prompt = r.prompt /\ s.output_json = r.output_json
        /\ s.validation_result = r.validation_result /\ s.error_message = r.error_message
        /\ s.job_operation_name = r.job_operation_name
  <2>2. SameRow(row, row') /\ SameRow(txn.row, txn'.row) /\ txn'.phase = txn.phase
        /\ txn'.sources = txn.sources /\ sources' = sources
    BY <1>5, <1>t DEF TickTime, TypeOK, Transaction, MarketingMaterial
  <2>3. CompletedIsWhole'
    BY <1>r, <2>1, <2>2 DEF Results, CompletedIsWhole, Whole, FinishedStay
  <2>4. QueuedIsNotSkipped'
    BY <1>r, <2>1, <2>2 DEF Results, QueuedIsNotSkipped, NotSkipped, WaitingStay, Waiting
  <2>5. RunnerKeepsPrompt'
    BY <1>r, <2>1, <2>2 DEF Results, RunnerKeepsPrompt, NoNewRunner
  <2>6. ImageIsSound'
    <3>1. RowLocked => Whole(txn.row, txn.sources)'
      BY <1>r, <2>1, <2>2 DEF Results, ImageIsSound, Whole, FinishedStay
    <3>2. txn.phase = "commit" => NotSkipped(txn.row)'
      BY <1>r, <2>1, <2>2 DEF Results, ImageIsSound, NotSkipped, WaitingStay, Waiting
    <3> QED BY <1>r, <2>2, <3>1, <3>2 DEF Results, ImageIsSound
  <2> QED BY <2>3, <2>4, <2>5, <2>6 DEF Results
<1> QED BY <1>2, <1>3, <1>4, <1>5 DEF Cluster

\* Workers: a claim is only taken of a row that is not published, and only the
\* holder of the claim, of which there is one, publishes.
LEMMA GenerateResults == ASSUME ResultInvariant, NEW j \in Jobs, Generate(j) PROVE Results'
<1>r. RunnerInvariant /\ Results
  BY ResultIsBoth
<1>t. TypeOK
  BY <1>r DEF RunnerInvariant
<1>1. ASSUME ClaimFindsNoRow(j) PROVE Results'
  <2>1. FinishedStay /\ WaitingStay /\ NoNewRunner
    BY <1>1, <1>t DEF ClaimFindsNoRow, Ended, FinishedStay, WaitingStay, NoNewRunner,
                      Waiting, Claimed, TypeOK, Execution
  <2> QED BY <1>1, <1>r, <2>1, CommittedStays, ImageStays DEF ClaimFindsNoRow, Results
<1>2. ASSUME ClaimSkips(j) PROVE Results'
  <2>1. FinishedStay /\ NoNewRunner
    BY <1>2, <1>t DEF ClaimSkips, Ended, FinishedStay, NoNewRunner, Claimed, TypeOK, Execution
  <2>2. ImageIsSound'
    BY <1>2, <1>r, <2>1, ImageStays DEF ClaimSkips
  <2>3. CompletedIsWhole' /\ RunnerKeepsPrompt'
    BY <1>2, <1>r, <2>1, WholeStays
    DEF ClaimSkips, Results, CompletedIsWhole, Whole, RunnerKeepsPrompt, NoNewRunner
  <2>4. QueuedIsNotSkipped'
    BY <1>2 DEF ClaimSkips, Claimable, QueuedIsNotSkipped, NotSkipped
  <2> QED BY <2>2, <2>3, <2>4 DEF Results
<1>3. ASSUME Claim(j) PROVE Results'
  <2>1. FinishedStay
    BY <1>3, <1>t DEF Claim, FinishedStay, TypeOK, Execution
  <2>2. ImageIsSound'
    BY <1>3, <1>r, <2>1, ImageStays DEF Claim
  <2>3. row'.generation_status = "processing" /\ row'.prompt = row.prompt
    BY <1>3, <1>t DEF Claim, TypeOK, MarketingMaterial
  <2>4. RunnerKeepsPrompt'
    <3>1. \A i \in Jobs : jobs[i].state \notin Claimed
      BY <1>3, <1>r DEF Claim, Claimable, GenerationStatus, RunnerInvariant, RunnerIsFresh
    <3> QED BY <1>3, <1>t, <2>3, <3>1 DEF Claim, RunnerKeepsPrompt, TypeOK, Execution
  <2> QED BY <2>2, <2>3, <2>4 DEF Results, CompletedIsWhole, QueuedIsNotSkipped, Whole, NotSkipped
<1>c. ASSUME jobs[j].state \in Claimed
      PROVE  /\ row.generation_status \in {"gone", "processing"}
             /\ \A i \in Jobs : jobs[i].state \in Claimed => i = j
  BY <1>c, <1>r DEF RunnerInvariant, RunnerIsFresh, SingleRunner
<1>4. ASSUME SaveCompleted(j) PROVE Results'
  <2>1. FinishedStay /\ \A i \in Jobs : jobs'[i].state \notin Claimed
    BY <1>4, <1>t, <1>c DEF SaveCompleted, Ended, Claimed, FinishedStay, TypeOK, Execution
  <2>2. ImageIsSound'
    BY <1>4, <1>r, <2>1, ImageStays DEF SaveCompleted, UpdateRow
  <2>3. CASE Exists
    <3>1. /\ row'.generation_status = "completed" /\ row'.output_json = j /\ sources' = j
          /\ row'.validation_result = "valid" /\ row'.error_message = ""
          /\ row'.prompt = row.prompt
      BY <1>4, <1>t, <2>3 DEF SaveCompleted, UpdateRow, CompletedRow, TypeOK, MarketingMaterial
    <3>2. jobs'[j].state = "completed" /\ jobs'[j].prompt = row.prompt
      BY <1>4, <1>r, <1>t, <2>3
      DEF SaveCompleted, Ended, Claimed, Results, RunnerKeepsPrompt, TypeOK, Execution
    <3>3. CompletedIsWhole' /\ QueuedIsNotSkipped'
      BY <3>1, <3>2 DEF CompletedIsWhole, QueuedIsNotSkipped, Whole, NotSkipped
    <3> QED BY <2>1, <2>2, <3>3 DEF Results, RunnerKeepsPrompt
  <2>4. CASE ~ Exists
    BY <1>4, <2>1, <2>2, <2>4
    DEF SaveCompleted, UpdateRow, GenerationStatus, Results, CompletedIsWhole,
        QueuedIsNotSkipped, Whole, NotSkipped, RunnerKeepsPrompt
  <2> QED BY <2>3, <2>4
<1>5. ASSUME SaveInvalid(j) PROVE Results'
  <2>1. FinishedStay /\ NoNewRunner
    BY <1>5, <1>t DEF SaveInvalid, Claimed, FinishedStay, NoNewRunner, TypeOK, Execution
  <2>2. ImageIsSound'
    BY <1>5, <1>r, <2>1, ImageStays DEF SaveInvalid, UpdateRow
  <2>3. row'.generation_status = row.generation_status /\ row'.prompt = row.prompt
    BY <1>5, <1>t DEF SaveInvalid, UpdateRow, TypeOK, MarketingMaterial
  <2>4. row.generation_status \in {"gone", "processing"}
    BY <1>5, <1>c DEF SaveInvalid, Claimed
  <2> QED BY <1>r, <2>1, <2>2, <2>3, <2>4
          DEF Results, CompletedIsWhole, QueuedIsNotSkipped, Whole, NotSkipped,
              RunnerKeepsPrompt, NoNewRunner
<1>6. ASSUME MarkFailed(j) PROVE Results'
  <2>1. FinishedStay /\ \A i \in Jobs : jobs'[i].state \notin Claimed
    BY <1>6, <1>t, <1>c DEF MarkFailed, Ended, Claimed, FinishedStay, TypeOK, Execution
  <2>2. ImageIsSound'
    BY <1>6, <1>r, <2>1, ImageStays DEF MarkFailed, UpdateRow
  <2>3. row'.generation_status \in {"gone", "failed"}
    BY <1>6, <1>t, <1>c DEF MarkFailed, UpdateRow, GenerationStatus, TypeOK, MarketingMaterial
  <2> QED BY <2>1, <2>2, <2>3
          DEF Results, CompletedIsWhole, QueuedIsNotSkipped, Whole, NotSkipped, RunnerKeepsPrompt
<1> QED BY <1>1, <1>2, <1>3, <1>4, <1>5, <1>6 DEF Generate
----------------------------------------------------------------------------
\* The initial states satisfy the invariant.
LEMMA InitResults == Init => ResultInvariant
<1> SUFFICES ASSUME Init PROVE ResultInvariant OBVIOUS
<1>1. RunnerInvariant
  BY InitRunner
<1>2. row.generation_status = "absent" /\ txn.phase = "idle"
  BY NoRowType, NoTransactionType DEF Init
<1> QED BY <1>1, <1>2
        DEF ResultInvariant, ImageIsSound, RunnerKeepsPrompt, CompletedIsWhole,
            QueuedIsNotSkipped, Whole, NotSkipped, GenerationStatus

\* Every step keeps the invariant.
LEMMA StepResults == ResultInvariant /\ [Next]_vars => ResultInvariant'
<1> SUFFICES ASSUME ResultInvariant, [Next]_vars PROVE ResultInvariant' OBVIOUS
<1>1. RunnerInvariant /\ Results
  BY ResultIsBoth
<1>2. RunnerInvariant'
  BY <1>1, StepRunner
<1>3. ASSUME UNCHANGED vars PROVE Results'
  BY <1>1, <1>3, SameJobs, CommittedStays, ImageStays DEF vars, Results
<1>4. ASSUME Next PROVE Results'
  BY <1>4, RequestResults, ClusterResults, GenerateResults DEF Next
<1>5. Results'
  BY <1>3, <1>4
<1> QED BY <1>2, <1>5 DEF ResultInvariant, Results

\* The inductive invariant of the module: every property below follows from it.
THEOREM ResultInvariantHolds == Spec => []ResultInvariant
  BY InitResults, StepResults, PTL DEF Spec

\* A completed material shows the output, the sources and the prompt of one run.
THEOREM CompletedRowsAreWhole == Spec => []CompletedIsWhole
<1>1. ResultInvariant => CompletedIsWhole
  BY DEF ResultInvariant
<1> QED BY <1>1, ResultInvariantHolds, PTL

\* The execution submitted for a queued material did not skip it.
THEOREM QueuedRowsAreNotSkipped == Spec => []QueuedIsNotSkipped
<1>1. ResultInvariant => QueuedIsNotSkipped
  BY DEF ResultInvariant
<1> QED BY <1>1, ResultInvariantHolds, PTL
----------------------------------------------------------------------------
\* A step that finds a published row leaves it, deletes it or commits a whole new one.
LEMMA StepKeepsPublished ==
  ASSUME ResultInvariant, [Next]_vars, row.generation_status = "completed"
  PROVE  \/ row'.generation_status = "gone" /\ sources' = NoJob
         \/ row'.review_status = "pending" /\ sources' = row'.output_json /\ RowLocked
         \/ row' = [row EXCEPT !.updated_at = row'.updated_at] /\ sources' = sources
<1> DEFINE Kept == row' = [row EXCEPT !.updated_at = row'.updated_at] /\ sources' = sources
<1>t. TypeOK
  BY DEF ResultInvariant, RunnerInvariant
<1>e. Exists
  BY DEF GenerationStatus
<1>1. ASSUME UNCHANGED <<row, sources>> PROVE Kept
  BY <1>1, <1>t DEF TypeOK, MarketingMaterial
<1>2. CASE UNCHANGED vars
  BY <1>1, <1>2 DEF vars
<1>3. CASE Request
  <2>1. CASE Commit
    BY <2>1 DEF Commit, ResultInvariant, ImageIsSound
  <2>2. CASE DeleteMaterial
    BY <2>2, NoRowType DEF DeleteMaterial
  <2>3. CASE ~ Commit /\ ~ DeleteMaterial
    <3>1. UNCHANGED <<row, sources>>
      BY <1>3, <1>e, <2>3
      DEF Request, CreateMaterial, RegenerateMaterial, DispatchAccepted, DispatchReplyLost,
          DispatchRefused, DispatchInline, Rollback
    <3> QED BY <1>1, <3>1
  <2> QED BY <2>1, <2>2, <2>3
<1>4. CASE Cluster
  <2>1. CASE TickTime
    BY <2>1, <1>t DEF TickTime, TypeOK, MarketingMaterial
  <2>2. CASE ~ TickTime
    <3>1. UNCHANGED <<row, sources>>
      BY <1>4, <2>2 DEF Cluster, PodStarts, PodCrashes, DeadlineExceeded, DuplicateExecution
    <3> QED BY <1>1, <3>1
  <2> QED BY <2>1, <2>2
<1>5. ASSUME NEW j \in Jobs, Generate(j) PROVE Kept
  <2>1. jobs[j].state \notin Claimed
    BY DEF ResultInvariant, RunnerInvariant, RunnerIsFresh
  <2>2. UNCHANGED <<row, sources>>
    BY <1>5, <2>1 DEF Generate, ClaimFindsNoRow, ClaimSkips, Claim, Claimable,
                      SaveCompleted, SaveInvalid, MarkFailed, Claimed
  <2> QED BY <1>1, <2>2
<1> QED BY <1>2, <1>3, <1>4, <1>5 DEF Next

\* No late worker, retry or duplicate ever touches a published result.
THEOREM PublishedStays == Spec => PublishedIsKept
<1>1. ResultInvariant /\ [Next]_vars =>
        [row.generation_status = "completed" =>
           \/ row'.generation_status = "gone" /\ sources' = NoJob
           \/ /\ row'.review_status = "pending"
              /\ sources' = row'.output_json
              /\ RowLocked
           \/ /\ row' = [row EXCEPT !.updated_at = row'.updated_at]
              /\ sources' = sources]_<<row, sources>>
  BY StepKeepsPublished
<1> QED BY <1>1, ResultInvariantHolds, PTL DEF Spec, PublishedIsKept
----------------------------------------------------------------------------
(***************************************************************************)
(* MaterialLifecycle implements GenerationSlot, whatever the constants are.  *)
(* The runner invariant carries the proof: it makes the holder of the claim  *)
(* unique, and says that there is none when a request commits.               *)
(***************************************************************************)

\* The holder is the one worker in a claimed state, ...
LEMMA HolderIs ==
  ASSUME NEW f, NEW j \in Jobs, f[j].state \in Claimed,
         \A i \in Jobs : f[i].state \in Claimed => i = j
  PROVE  HolderAmong(f) = j
  BY DEF HolderAmong

\* ... and nobody when there is none.
LEMMA NobodyHolds ==
  ASSUME NEW f, \A i \in Jobs : f[i].state \notin Claimed
  PROVE  HolderAmong(f) = NoJob
  BY DEF HolderAmong

\* The holder depends on who is in a claimed state only.
LEMMA SameHolder ==
  ASSUME NEW f, NEW g, \A i \in Jobs : f[i].state \in Claimed <=> g[i].state \in Claimed
  PROVE  HolderAmong(f) = HolderAmong(g)
<1>1. (CHOOSE j \in Jobs : f[j].state \in Claimed) = (CHOOSE j \in Jobs : g[j].state \in Claimed)
  OBVIOUS
<1> QED BY <1>1 DEF HolderAmong

\* The initial states are the initial states of the slot.
LEMMA InitSlot == Init => Slot!Init
<1> SUFFICES ASSUME Init PROVE Slot!Init OBVIOUS
<1>1. row.generation_status = "absent"
  BY NoRowType DEF Init
<1>2. Holder = NoJob
  BY NobodyHolds DEF Init, Holder, Claimed
<1> QED BY <1>1, <1>2 DEF Slot!Init, StateOf, Published
----------------------------------------------------------------------------
\* The steps that commit, and the others, which the slot does not see.
LEMMA RequestSlot == ResultInvariant /\ Request => [Slot!Next]_Slot!vars
<1> SUFFICES ASSUME ResultInvariant, Request PROVE [Slot!Next]_Slot!vars OBVIOUS
<1>r. RunnerInvariant /\ TypeOK
  BY DEF ResultInvariant, RunnerInvariant
<1>l. ASSUME RowLocked PROVE \A i \in Jobs : jobs[i].state \notin Claimed
  BY <1>l, <1>r, LockedUnclaimed
<1>1. ASSUME row' = row, \A i \in Jobs : jobs[i].state \in Claimed <=> jobs'[i].state \in Claimed
      PROVE  UNCHANGED Slot!vars
  <2>1. Holder' = Holder
    BY <1>1, SameHolder DEF Holder
  <2> QED BY <1>1, <2>1 DEF Slot!vars, StateOf, Published
<1>2. ASSUME jobs' = jobs, row'.generation_status = "gone" PROVE Slot!Remove
  BY <1>2 DEF Slot!Remove, StateOf, Published, Holder
<1>3. ASSUME NEW p \in Prompts, CreateMaterial(p) \/ RegenerateMaterial(p)
      PROVE  [Slot!Next]_Slot!vars
  BY <1>1, <1>3 DEF CreateMaterial, RegenerateMaterial
<1>4. ASSUME NEW j \in Jobs, DispatchAccepted(j) \/ DispatchReplyLost(j) \/ DispatchInline(j)
      PROVE  [Slot!Next]_Slot!vars
  <2>1. \A i \in Jobs : jobs[i].state \in Claimed <=> jobs'[i].state \in Claimed
    BY <1>4, <1>r
    DEF DispatchAccepted, DispatchReplyLost, DispatchInline, Submitted, Claimed, TypeOK, Execution
  <2> QED BY <1>1, <1>4, <2>1 DEF DispatchAccepted, DispatchReplyLost, DispatchInline
<1>5. CASE DispatchRefused
  BY <1>1, <1>5 DEF DispatchRefused
<1>6. CASE Commit
  <2>1. Holder = NoJob /\ Holder' = NoJob
    BY <1>6, <1>l, NobodyHolds DEF Commit, Holder
  <2>2. StateOf(row.generation_status) # "gone"
    BY <1>6, <1>r DEF Commit, RunnerInvariant, LockNeedsRow, StateOf
  <2>3. row' = txn.row /\ sources' = txn.sources /\ RowLocked /\ txn.phase = "commit" /\ ImageIsSound
    BY <1>6 DEF Commit, ResultInvariant
  <2>4. txn.row.generation_status \in {"queued", "failed", "completed"}
    BY <2>3 DEF ImageIsSound
  <2>5. CASE txn.row.generation_status # "completed"
    <3>1. Slot!Request
      BY <2>1, <2>2, <2>3, <2>4, <2>5 DEF Slot!Request, StateOf, Published
    <3> QED BY <3>1 DEF Slot!Next
  <2>6. CASE txn.row.generation_status = "completed"
    <3>1. txn.row.output_json \in Jobs
      BY <2>3, <2>6 DEF ImageIsSound, Whole
    <3>2. Slot!RequestAnswered(txn.row.output_json)
      BY <2>1, <2>2, <2>3, <2>6 DEF Slot!RequestAnswered, StateOf, Published
    <3> QED BY <3>1, <3>2 DEF Slot!Next
  <2> QED BY <2>5, <2>6
<1>7. CASE Rollback
  BY <1>1, <1>2, <1>7, NoRowType DEF Rollback, Slot!Next
<1>8. CASE DeleteMaterial
  BY <1>2, <1>8, NoRowType DEF DeleteMaterial, Slot!Next
<1> QED BY <1>3, <1>4, <1>5, <1>6, <1>7, <1>8 DEF Request

\* The slot sees of Kubernetes the death of its holder only.
LEMMA ClusterSlot == ResultInvariant /\ Cluster => [Slot!Next]_Slot!vars
<1> SUFFICES ASSUME ResultInvariant, Cluster PROVE [Slot!Next]_Slot!vars OBVIOUS
<1>r. RunnerInvariant /\ TypeOK
  BY DEF ResultInvariant, RunnerInvariant
<1>1. ASSUME row'.generation_status = row.generation_status,
             row'.output_json = row.output_json,
             \A i \in Jobs : jobs[i].state \in Claimed <=> jobs'[i].state \in Claimed
      PROVE  UNCHANGED Slot!vars
  <2>1. Holder' = Holder
    BY <1>1, SameHolder DEF Holder
  <2> QED BY <1>1, <2>1 DEF Slot!vars, StateOf, Published
<1>2. ASSUME NEW j \in Jobs, PodStarts(j) PROVE UNCHANGED Slot!vars
  <2>1. \A i \in Jobs : jobs[i].state \in Claimed <=> jobs'[i].state \in Claimed
    BY <1>2, <1>r DEF PodStarts, Claimed, TypeOK, Execution
  <2> QED BY <1>1, <1>2, <2>1 DEF PodStarts
<1>3. ASSUME NEW j \in Jobs, PodCrashes(j) \/ DeadlineExceeded(j)
      PROVE  [Slot!Next]_Slot!vars
  <2>1. row' = row /\ jobs' = Ended(j, "crashed")
    BY <1>3 DEF PodCrashes, DeadlineExceeded
  <2>2. \A i \in Jobs : jobs'[i].state \in Claimed <=> i # j /\ jobs[i].state \in Claimed
    BY <1>r, <2>1 DEF Ended, Claimed, TypeOK, Execution
  <2>3. CASE jobs[j].state \notin Claimed
    BY <1>1, <2>1, <2>2, <2>3
  <2>4. CASE jobs[j].state \in Claimed
    <3>1. \A i \in Jobs : jobs[i].state \in Claimed => i = j
      BY <1>r, <2>4 DEF RunnerInvariant, SingleRunner
    <3>2. Holder = j /\ Holder' = NoJob
      BY <2>2, <2>4, <3>1, HolderIs, NobodyHolds DEF Holder
    <3>3. Slot!Abandon(j)
      BY <2>1, <3>2 DEF Slot!Abandon, StateOf, Published
    <3> QED BY <3>3 DEF Slot!Next
  <2> QED BY <2>3, <2>4
<1>4. ASSUME NEW j \in Jobs, NEW k \in Jobs, DuplicateExecution(j, k) PROVE UNCHANGED Slot!vars
  <2>1. \A i \in Jobs : jobs[i].state \in Claimed <=> jobs'[i].state \in Claimed
    BY <1>4, <1>r DEF DuplicateExecution, Claimed, TypeOK, Execution
  <2> QED BY <1>1, <1>4, <2>1 DEF DuplicateExecution
<1>5. ASSUME TickTime PROVE UNCHANGED Slot!vars
  <2>1. \A i \in Jobs : jobs[i].state \in Claimed <=> jobs'[i].state \in Claimed
    BY <1>5, <1>r DEF TickTime, TypeOK, Execution
  <2>2. row'.generation_status = row.generation_status /\ row'.output_json = row.output_json
    BY <1>5, <1>r DEF TickTime, TypeOK, MarketingMaterial
  <2> QED BY <1>1, <2>1, <2>2
<1> QED BY <1>2, <1>3, <1>4, <1>5 DEF Cluster

\* The workers acquire, publish, fail and abandon the slot.
LEMMA GenerateSlot ==
  ASSUME ResultInvariant, NEW j \in Jobs, Generate(j)
  PROVE  [Slot!Next]_Slot!vars
<1>r. RunnerInvariant /\ TypeOK
  BY DEF ResultInvariant, RunnerInvariant
<1>1. ASSUME ClaimFindsNoRow(j) \/ ClaimSkips(j) PROVE UNCHANGED Slot!vars
  <2>1. \A i \in Jobs : jobs[i].state \in Claimed <=> jobs'[i].state \in Claimed
    BY <1>1, <1>r DEF ClaimFindsNoRow, ClaimSkips, Ended, Claimed, TypeOK, Execution
  <2>2. Holder' = Holder /\ row' = row
    BY <1>1, <2>1, SameHolder DEF Holder, ClaimFindsNoRow, ClaimSkips
  <2> QED BY <2>2 DEF Slot!vars, StateOf, Published
<1>2. ASSUME Claim(j) PROVE Slot!Acquire(j)
  <2>1. \A i \in Jobs : jobs[i].state \notin Claimed
    BY <1>2, <1>r DEF Claim, Claimable, GenerationStatus, RunnerInvariant, RunnerIsFresh
  <2>2. jobs'[j].state \in Claimed /\ \A i \in Jobs : jobs'[i].state \in Claimed => i = j
    BY <1>2, <1>r, <2>1 DEF Claim, Claimed, TypeOK, Execution
  <2>3. Holder = NoJob /\ Holder' = j
    BY <2>1, <2>2, HolderIs, NobodyHolds DEF Holder
  <2>4. row.generation_status \in {"queued", "failed"} /\ row'.generation_status = "processing"
    BY <1>2, <1>r DEF Claim, Claimable, TypeOK, MarketingMaterial
  <2> QED BY <2>3, <2>4 DEF Slot!Acquire, StateOf, Published
<1>c. ASSUME jobs[j].state \in Claimed
      PROVE  /\ row.generation_status \in {"gone", "processing"}
             /\ \A i \in Jobs : jobs[i].state \in Claimed => i = j
             /\ Holder = j
  <2>1. \A i \in Jobs : jobs[i].state \in Claimed => i = j
    BY <1>c, <1>r DEF RunnerInvariant, SingleRunner
  <2> QED BY <1>c, <1>r, <2>1, HolderIs DEF RunnerInvariant, RunnerIsFresh, Holder
<1>3. ASSUME SaveCompleted(j) PROVE Slot!Publish(j) \/ Slot!Abandon(j)
  <2>1. \A i \in Jobs : jobs'[i].state \notin Claimed
    BY <1>3, <1>r, <1>c DEF SaveCompleted, Ended, Claimed, TypeOK, Execution
  <2>2. Holder = j /\ Holder' = NoJob
    BY <1>3, <1>c, <2>1, NobodyHolds DEF SaveCompleted, Claimed, Holder
  <2>3. CASE row.generation_status = "processing"
    <3>1. row'.generation_status = "completed" /\ row'.output_json = j
      BY <1>3, <1>r, <2>3
      DEF SaveCompleted, UpdateRow, CompletedRow, GenerationStatus, TypeOK, MarketingMaterial
    <3> QED BY <2>2, <2>3, <3>1 DEF Slot!Publish, StateOf, Published
  <2>4. CASE row.generation_status = "gone"
    BY <1>3, <2>2, <2>4
    DEF SaveCompleted, UpdateRow, GenerationStatus, Slot!Abandon, StateOf, Published
  <2> QED BY <1>3, <1>c, <2>3, <2>4 DEF SaveCompleted, Claimed
<1>4. ASSUME SaveInvalid(j) PROVE UNCHANGED Slot!vars
  <2>1. jobs[j].state \in Claimed
    BY <1>4 DEF SaveInvalid, Claimed
  <2>2. \A i \in Jobs : jobs[i].state \in Claimed <=> jobs'[i].state \in Claimed
    BY <1>4, <1>r, <2>1 DEF SaveInvalid, Claimed, TypeOK, Execution
  <2>3. Holder' = Holder
    BY <2>2, SameHolder DEF Holder
  <2>4. row'.generation_status = row.generation_status
    BY <1>4, <1>r DEF SaveInvalid, UpdateRow, TypeOK, MarketingMaterial
  <2> QED BY <1>c, <2>1, <2>3, <2>4 DEF Slot!vars, StateOf, Published
<1>5. ASSUME MarkFailed(j) PROVE Slot!Fail(j) \/ Slot!Abandon(j)
  <2>1. \A i \in Jobs : jobs'[i].state \notin Claimed
    BY <1>5, <1>r, <1>c DEF MarkFailed, Ended, Claimed, TypeOK, Execution
  <2>2. Holder = j /\ Holder' = NoJob
    BY <1>5, <1>c, <2>1, NobodyHolds DEF MarkFailed, Holder
  <2>3. CASE row.generation_status = "processing"
    <3>1. row'.generation_status = "failed"
      BY <1>5, <1>r, <2>3 DEF MarkFailed, UpdateRow, GenerationStatus, TypeOK, MarketingMaterial
    <3> QED BY <2>2, <2>3, <3>1 DEF Slot!Fail, StateOf, Published
  <2>4. CASE row.generation_status = "gone"
    BY <1>5, <2>2, <2>4
    DEF MarkFailed, UpdateRow, GenerationStatus, Slot!Abandon, StateOf, Published
  <2> QED BY <1>5, <1>c, <2>3, <2>4 DEF MarkFailed
<1> QED BY <1>1, <1>2, <1>3, <1>4, <1>5 DEF Generate, Slot!Next
----------------------------------------------------------------------------
\* The requests, jobs and workers of a material implement the slot.
THEOREM LifecycleImplementsSlot == Spec => ImplementsSlot
<1>1. ResultInvariant /\ [Next]_vars => [Slot!Next]_Slot!vars
  <2> SUFFICES ASSUME ResultInvariant, [Next]_vars PROVE [Slot!Next]_Slot!vars OBVIOUS
  <2>1. CASE UNCHANGED vars
    BY <2>1 DEF vars, Slot!vars, StateOf, Holder, Published
  <2>2. CASE Next
    BY <2>2, RequestSlot, ClusterSlot, GenerateSlot DEF Next
  <2> QED BY <2>1, <2>2
<1> QED BY <1>1, InitSlot, ResultInvariantHolds, PTL DEF Spec, ImplementsSlot, Slot!Spec
=============================================================================
