---------------------- MODULE DocumentIngestionProofs -----------------------
(***************************************************************************)
(* Proofs about DocumentIngestion, for any number of jobs and restarts.     *)
(*                                                                         *)
(* Whatever overlaps, chunks are only ever removed together with the         *)
(* document or by a save that puts its own in their place: from the first    *)
(* save on an existing document has chunks.  That every removed chunk is     *)
(* replaced by the right ones needs jobs that do not overlap, and is proved  *)
(* for a single job with its restarts.                                       *)
(***************************************************************************)
EXTENDS DocumentIngestion, TLAPS

USE DEF Exists, RowLocked, Runs

\* A job's current pod is a run.
LEMMA CurrentRun ==
  ASSUME TypeOK, NEW j \in Jobs
  PROVE  <<j, jobs[j].attempt>> \in Runs
  BY DEF TypeOK, Job

\* The initial states have the types.
LEMMA InitType == Init => TypeOK
<1>1. 0 \in 0 .. BackoffLimit /\ 0 \in 0 .. MaxCrashes
  BY BackoffAssumption, CrashAssumption
<1> QED BY <1>1 DEF Init, TypeOK, NoTransaction, NoRemoval, Job

\* The changes of a job that the steps below make.
LEMMA JobType ==
  ASSUME TypeOK, NEW j \in Jobs,
         NEW s \in Alive \cup {"none", "pending", "done", "failed", "lost"},
         NEW w \in SUBSET Runs
  PROVE  /\ [jobs EXCEPT ![j].state = s] \in [Jobs -> Job]
         /\ [jobs EXCEPT ![j].state = s, ![j].saw = w] \in [Jobs -> Job]
<1>1. [jobs[j] EXCEPT !.state = s] \in Job /\ [jobs[j] EXCEPT !.state = s, !.saw = w] \in Job
  BY DEF TypeOK, Job
<1> QED BY <1>1 DEF TypeOK

\* Every request keeps the types.
LEMMA RequestType == TypeOK /\ Request => TypeOK'
<1> SUFFICES ASSUME TypeOK, Request PROVE TypeOK' OBVIOUS
<1> USE DEF TypeOK
<1>1. CASE CreateDocument
  BY <1>1 DEF CreateDocument, DocumentStatus
<1>2. CASE Upload
  BY <1>2 DEF Upload
<1>3. CASE StartProcessing
  BY <1>3 DEF StartProcessing
<1>4. ASSUME NEW j \in Jobs, DispatchAccepted(j) \/ DispatchReplyLost(j) PROVE TypeOK'
  <2>1. jobs' = [jobs EXCEPT ![j].state = "pending"]
    BY <1>4 DEF DispatchAccepted, DispatchReplyLost, Submitted
  <2> QED BY <1>4, <2>1, JobType DEF DispatchAccepted, DispatchReplyLost
<1>5. CASE DispatchRefused
  BY <1>5 DEF DispatchRefused
<1>6. CASE CommitProcessing
  <2>1. [document EXCEPT !.status = txn.status].status \in {"processing", "failed"}
    OBVIOUS
  <2> QED BY <1>6, <2>1 DEF CommitProcessing, NoTransaction, DocumentStatus
<1>7. CASE BeginDelete
  BY <1>7 DEF BeginDelete
<1>8. CASE CommitDelete
  BY <1>8 DEF CommitDelete, NoRemoval
<1>9. CASE RollbackDelete
  BY <1>9 DEF RollbackDelete, NoRemoval
<1>10. CASE RollbackProcessing
  BY <1>10 DEF RollbackProcessing, NoTransaction
<1> QED BY <1>1, <1>2, <1>3, <1>4, <1>5, <1>6, <1>7, <1>8, <1>9, <1>10 DEF Request

\* Every step of Kubernetes keeps the types.
LEMMA ClusterType == TypeOK /\ Cluster => TypeOK'
<1> SUFFICES ASSUME TypeOK, NEW j \in Jobs,
                    PodStarts(j) \/ PodRestarts(j) \/ PodCrashes(j) \/ DeadlineExceeded(j)
             PROVE  TypeOK'
  BY DEF Cluster
<1> USE DEF TypeOK
<1>1. CASE PodStarts(j)
  BY <1>1, JobType DEF PodStarts, Alive
<1>2. CASE PodRestarts(j)
  <2>1. jobs[j].attempt + 1 \in 0 .. BackoffLimit
    BY <1>2, BackoffAssumption DEF PodRestarts, Job
  <2> QED BY <1>2, <2>1 DEF PodRestarts, Alive, Job
<1>3. CASE PodCrashes(j)
  <2>1. crashes + 1 \in 0 .. MaxCrashes
    BY <1>3, CrashAssumption DEF PodCrashes
  <2> QED BY <1>3, <2>1, JobType DEF PodCrashes
<1>4. CASE DeadlineExceeded(j)
  <2>1. BackoffLimit \in 0 .. BackoffLimit
    BY BackoffAssumption
  <2> QED BY <1>4, <2>1 DEF DeadlineExceeded, Job
<1> QED BY <1>1, <1>2, <1>3, <1>4

\* Every step of a pipeline keeps the types.
LEMMA ProcessType == ASSUME TypeOK, NEW j \in Jobs, Process(j) PROVE TypeOK'
<1> USE DEF TypeOK
<1>1. CASE StartFindsNoRow(j)
  BY <1>1, JobType DEF StartFindsNoRow, Step
<1>2. CASE Start(j)
  BY <1>2, JobType DEF Start, Step, UpdateRow, Alive, DocumentStatus
<1>3. CASE Download(j)
  BY <1>3, JobType DEF Download, Step, Alive
<1>4. CASE BeginSave(j)
  BY <1>4, JobType DEF BeginSave, Alive
<1>5. CASE CommitSave(j)
  <2>1. chunks' \subseteq Runs
    BY <1>5, CurrentRun DEF CommitSave
  <2> QED BY <1>5, <2>1, JobType DEF CommitSave, Alive
<1>6. CASE Finish(j)
  BY <1>6, CurrentRun, JobType DEF Finish, Step, UpdateRow, DocumentStatus
<1>7. CASE Fail(j)
  BY <1>7, JobType DEF Fail, UpdateRow, DocumentStatus
<1> QED BY <1>1, <1>2, <1>3, <1>4, <1>5, <1>6, <1>7 DEF Process

\* Every step keeps the types.
LEMMA StepType == TypeOK /\ [Next]_vars => TypeOK'
<1> SUFFICES ASSUME TypeOK, [Next]_vars PROVE TypeOK' OBVIOUS
<1>1. CASE UNCHANGED vars
  BY <1>1 DEF vars, TypeOK
<1> QED BY <1>1, RequestType, ClusterType, ProcessType DEF Next

\* Every reachable state has the types of the model fields and of the job states.
THEOREM TypeCorrect == Spec => []TypeOK
  BY InitType, StepType, PTL DEF Spec
----------------------------------------------------------------------------
\* The initial states satisfy the invariant.
LEMMA InitChunks == Init => ChunksInvariant
<1> SUFFICES ASSUME Init PROVE ChunksInvariant OBVIOUS
<1>1. TypeOK
  BY InitType
<1> QED BY <1>1 DEF Init, ChunksInvariant, ProcessedHasChunks, GoneHasNoChunks, SavedHasChunks,
                    LockNeedsRow, NoTransaction, DocumentStatus

\* A step that only moves jobs, none of them to "saved".
LEMMA JobsMove ==
  ASSUME ChunksInvariant, TypeOK', UNCHANGED <<document, chunks, txn>>,
         \A i \in Jobs : jobs'[i].state = "saved" => jobs[i].state = "saved"
  PROVE  ChunksInvariant'
  BY DEF ChunksInvariant, ProcessedHasChunks, GoneHasNoChunks, SavedHasChunks, LockNeedsRow

\* Requests: only a delete takes chunks away, and all of them.
LEMMA RequestChunks == ChunksInvariant /\ Request => ChunksInvariant'
<1> SUFFICES ASSUME ChunksInvariant, Request PROVE ChunksInvariant' OBVIOUS
<1>t. TypeOK /\ TypeOK'
  BY RequestType DEF ChunksInvariant
<1> USE DEF ChunksInvariant, ProcessedHasChunks, GoneHasNoChunks, SavedHasChunks, LockNeedsRow
<1>1. CASE CreateDocument
  <2>1. document'.status = "pending" /\ chunks' = {} /\ \A i \in Jobs : jobs'[i] = jobs[i]
    BY <1>1, <1>t DEF CreateDocument, TypeOK
  <2>2. \A i \in Jobs : jobs[i].state # "saved"
    BY <1>1 DEF CreateDocument
  <2> QED BY <1>1, <1>t, <2>1, <2>2 DEF CreateDocument, DocumentStatus
<1>2. CASE Upload
  BY <1>2, <1>t DEF Upload
<1>3. CASE StartProcessing
  BY <1>3, <1>t, ClientAssumption DEF StartProcessing
<1>4. ASSUME NEW j \in Jobs, DispatchAccepted(j) \/ DispatchReplyLost(j) PROVE ChunksInvariant'
  <2>1. jobs' = [jobs EXCEPT ![j].state = "pending"] /\ UNCHANGED <<document, chunks>> /\ RowLocked
    BY <1>4 DEF DispatchAccepted, DispatchReplyLost, Submitted
  <2>2. \A i \in Jobs : jobs'[i].state = "saved" => jobs[i].state = "saved"
    BY <1>t, <2>1 DEF TypeOK, Job
  <2> QED BY <1>t, <2>1, <2>2
<1>5. CASE DispatchRefused
  BY <1>5, <1>t DEF DispatchRefused
<1>6. CASE CommitProcessing
  <2>1. document'.status \in {"processing", "failed"} /\ ~ RowLocked'
    BY <1>6, <1>t DEF CommitProcessing, NoTransaction, TypeOK
  <2>2. Exists /\ chunks' = chunks /\ jobs' = jobs
    BY <1>6 DEF CommitProcessing
  <2> QED BY <1>t, <2>1, <2>2 DEF DocumentStatus
<1>7. CASE BeginDelete \/ RollbackDelete
  BY <1>7, <1>t DEF BeginDelete, RollbackDelete
<1>8. CASE CommitDelete
  BY <1>8, <1>t DEF CommitDelete, DocumentStatus
<1>9. CASE RollbackProcessing
  BY <1>9, <1>t DEF RollbackProcessing, NoTransaction
<1> QED BY <1>1, <1>2, <1>3, <1>4, <1>5, <1>6, <1>7, <1>8, <1>9 DEF Request

\* Kubernetes moves jobs only.
LEMMA ClusterChunks == ChunksInvariant /\ Cluster => ChunksInvariant'
<1> SUFFICES ASSUME ChunksInvariant, NEW j \in Jobs,
                    PodStarts(j) \/ PodRestarts(j) \/ PodCrashes(j) \/ DeadlineExceeded(j)
             PROVE  ChunksInvariant'
  BY DEF Cluster
<1>1. TypeOK /\ TypeOK'
  BY ClusterType DEF ChunksInvariant, Cluster
<1>2. UNCHANGED <<document, chunks, txn>>
  BY DEF PodStarts, PodRestarts, PodCrashes, DeadlineExceeded
<1>3. \A i \in Jobs : jobs'[i].state = "saved" => jobs[i].state = "saved"
  BY <1>1 DEF PodStarts, PodRestarts, PodCrashes, DeadlineExceeded, TypeOK, Job
<1> QED BY <1>1, <1>2, <1>3, JobsMove

\* A pipeline saves before it finishes, and a save leaves its own chunks.
LEMMA ProcessChunks == ASSUME ChunksInvariant, NEW j \in Jobs, Process(j) PROVE ChunksInvariant'
<1>t. TypeOK /\ TypeOK'
  BY ProcessType DEF ChunksInvariant
<1>1. CASE StartFindsNoRow(j) \/ Download(j) \/ BeginSave(j)
  <2>1. \A i \in Jobs : jobs'[i].state = "saved" => jobs[i].state = "saved"
    BY <1>1, <1>t DEF StartFindsNoRow, Download, BeginSave, Step, TypeOK, Job
  <2> QED BY <1>1, <1>t, <2>1, JobsMove DEF StartFindsNoRow, Download, BeginSave
<1> USE DEF ChunksInvariant, ProcessedHasChunks, GoneHasNoChunks, SavedHasChunks, LockNeedsRow
<1>2. CASE Start(j) \/ Fail(j)
  <2>1. \A i \in Jobs : jobs'[i].state = "saved" => jobs[i].state = "saved"
    BY <1>2, <1>t DEF Start, Fail, Step, TypeOK, Job
  <2>2. chunks' = chunks /\ txn' = txn /\ ~ RowLocked
    BY <1>2 DEF Start, Fail, UpdateRow
  <2>3. IF Exists THEN document'.status \in {"processing", "failed"} ELSE document' = document
    BY <1>2, <1>t DEF Start, Fail, UpdateRow, TypeOK
  <2> QED BY <1>t, <2>1, <2>2, <2>3 DEF DocumentStatus
<1>3. CASE CommitSave(j)
  BY <1>3, <1>t DEF CommitSave, DocumentStatus
<1>4. CASE Finish(j)
  <2>1. jobs[j].state = "saved" /\ \A i \in Jobs : jobs'[i].state = "saved" => jobs[i].state = "saved"
    BY <1>4, <1>t DEF Finish, Step, TypeOK, Job
  <2>2. chunks' = chunks /\ txn' = txn /\ ~ RowLocked
    BY <1>4 DEF Finish, UpdateRow
  <2>3. IF Exists THEN document'.status = "processed" ELSE document' = document
    BY <1>4 DEF Finish, UpdateRow
  <2> QED BY <1>t, <2>1, <2>2, <2>3 DEF DocumentStatus
<1> QED BY <1>1, <1>2, <1>3, <1>4 DEF Process

\* Every step keeps the invariant.
LEMMA StepChunks == ChunksInvariant /\ [Next]_vars => ChunksInvariant'
<1> SUFFICES ASSUME ChunksInvariant, [Next]_vars PROVE ChunksInvariant' OBVIOUS
<1>1. CASE UNCHANGED vars
  BY <1>1 DEF vars, ChunksInvariant, TypeOK, ProcessedHasChunks, GoneHasNoChunks,
              SavedHasChunks, LockNeedsRow
<1> QED BY <1>1, RequestChunks, ClusterChunks, ProcessChunks DEF Next

\* The inductive invariant behind the next two theorems.
THEOREM ChunksInvariantHolds == Spec => []ChunksInvariant
  BY InitChunks, StepChunks, PTL DEF Spec

\* A processed document has chunks to retrieve, whatever jobs and requests overlap.
THEOREM ProcessedDocumentsHaveChunks == Spec => []ProcessedHasChunks
<1>1. ChunksInvariant => ProcessedHasChunks
  BY DEF ChunksInvariant
<1> QED BY <1>1, ChunksInvariantHolds, PTL

\* A deleted document leaves no chunks, whatever saves were under way.
THEOREM DeletedDocumentsLeaveNoChunks == Spec => []GoneHasNoChunks
<1>1. ChunksInvariant => GoneHasNoChunks
  BY DEF ChunksInvariant
<1> QED BY <1>1, ChunksInvariantHolds, PTL
----------------------------------------------------------------------------
\* With one job, the steps of a pod never meet another pod's writes: what the save
\* collected is what it replaces.  A job never becomes one that was not submitted.
LEMMA AloneStays ==
  ASSUME TypeOK, [Next]_vars, Alone'
  PROVE  Alone
<1>1. \A i \in Jobs : jobs'[i].state = "none" => jobs[i].state = "none"
  <2>1. CASE UNCHANGED vars
    BY <2>1 DEF vars
  <2>2. CASE Request
    BY <2>2 DEF Request, CreateDocument, Upload, StartProcessing, DispatchAccepted,
       DispatchReplyLost, DispatchRefused, CommitProcessing, BeginDelete, CommitDelete,
       RollbackDelete, RollbackProcessing, Submitted, TypeOK, Job
  <2>3. CASE Cluster
    BY <2>3 DEF Cluster, PodStarts, PodRestarts, PodCrashes, DeadlineExceeded, TypeOK, Job
  <2>4. ASSUME NEW j \in Jobs, Process(j)
        PROVE  \A i \in Jobs : jobs'[i].state = "none" => jobs[i].state = "none"
    BY <2>4 DEF Process, StartFindsNoRow, Start, Download, BeginSave, CommitSave, Finish,
       Fail, Step, TypeOK, Job
  <2> QED BY <2>1, <2>2, <2>3, <2>4 DEF Next
<1> QED BY <1>1 DEF Alone

LEMMA RequestOwn ==
  ASSUME ChunksInvariant, Alone, OwnChunks, Whole, Request, Alone'
  PROVE  OwnChunks' /\ Whole'
<1>o. TypeOK /\ GoneHasNoChunks /\ LockNeedsRow
  BY DEF ChunksInvariant
<1> USE DEF OwnChunks, Whole
<1>1. CASE CreateDocument
  <2>1. document'.status = "pending" /\ UNCHANGED <<jobs, chunks>>
    BY <1>1, <1>o DEF CreateDocument, TypeOK
  <2>2. \A i \in Jobs : jobs[i].state = "none"
    BY <1>1, <1>o DEF CreateDocument
  <2> QED BY <2>1, <2>2
<1>2. ASSUME UNCHANGED <<document, chunks, jobs>> PROVE OwnChunks' /\ Whole'
  BY <1>2, <1>o DEF Exists
<1>3. CASE Upload \/ StartProcessing \/ DispatchRefused \/ BeginDelete \/ RollbackDelete \/ RollbackProcessing
  BY <1>2, <1>3
  DEF Upload, StartProcessing, DispatchRefused, BeginDelete, RollbackDelete, RollbackProcessing
<1>4. ASSUME NEW j \in Jobs, DispatchAccepted(j) \/ DispatchReplyLost(j)
      PROVE  OwnChunks' /\ Whole'
  <2>1. /\ jobs' = [jobs EXCEPT ![j].state = "pending"] /\ UNCHANGED <<document, chunks>>
        /\ RowLocked /\ jobs[j].state = "none"
    BY <1>4 DEF DispatchAccepted, DispatchReplyLost, Submitted, RowLocked
  <2>2. \A i \in Jobs : i # j => jobs'[i] = jobs[i]
    BY <1>o, <2>1 DEF TypeOK
  <2>3. jobs'[j].state = "pending"
    BY <1>o, <2>1 DEF TypeOK, Job
  <2>4. \A i \in Jobs : i # j => jobs[i].state = "none"
    BY <2>2, <2>3 DEF Alone
  <2>5. document.status \notin {"absent", "processed"}
    BY <1>o, <2>1, <2>4 DEF LockNeedsRow, DocumentStatus, Exists
  <2> QED BY <1>o, <2>1, <2>2, <2>3, <2>5 DEF Exists
<1>5. CASE CommitProcessing
  <2>1. document'.status \in {"processing", "failed"} /\ UNCHANGED <<chunks, jobs>> /\ Exists
    BY <1>5, <1>o DEF CommitProcessing, TypeOK, LockNeedsRow, RowLocked
  <2> QED BY <1>o, <2>1 DEF Exists
<1>6. CASE CommitDelete
  BY <1>6, <1>o DEF CommitDelete, DocumentStatus, Exists
<1> QED BY <1>1, <1>3, <1>4, <1>5, <1>6 DEF Request

\* A pod that starts, restarts or dies has no save under way.
LEMMA ClusterOwn ==
  ASSUME ChunksInvariant, Alone, OwnChunks, Whole, Cluster
  PROVE  OwnChunks' /\ Whole'
<1>o. TypeOK
  BY DEF ChunksInvariant
<1>1. PICK j \in Jobs : PodStarts(j) \/ PodRestarts(j) \/ PodCrashes(j) \/ DeadlineExceeded(j)
  BY DEF Cluster
<1>2. UNCHANGED <<document, chunks>> /\ \A i \in Jobs : i # j => jobs'[i] = jobs[i]
  BY <1>1, <1>o DEF PodStarts, PodRestarts, PodCrashes, DeadlineExceeded, TypeOK
<1>3. jobs[j].state \notin {"none", "done"} /\ jobs'[j].state \notin {"saving", "saved"}
  BY <1>1, <1>o DEF PodStarts, PodRestarts, PodCrashes, DeadlineExceeded, Alive, TypeOK, Job
<1> QED BY <1>o, <1>2, <1>3 DEF OwnChunks, Whole, Exists

\* The save replaces what it collected by its own chunks, the finish shows them.
LEMMA ProcessOwn ==
  ASSUME NEW j \in Jobs, ChunksInvariant, Alone, OwnChunks, Whole, Process(j)
  PROVE  OwnChunks' /\ Whole'
<1>o. TypeOK /\ GoneHasNoChunks
  BY DEF ChunksInvariant
<1>j. jobs[j].state \notin {"none", "done"} /\ document.status # "absent"
  <2>1. jobs[j].state \notin {"none", "done"}
    BY <1>o DEF Process, StartFindsNoRow, Start, Download, BeginSave, CommitSave, Finish, Fail, Step, Alive
  <2> QED BY <1>o, <2>1 DEF OwnChunks
<1>p. document.status # "processed"
  BY <1>o, <1>j DEF OwnChunks
<1>a. \A i \in Jobs : i # j => jobs[i].state = "none" /\ jobs'[i] = jobs[i]
  <2>1. \A i \in Jobs : i # j => jobs[i].state = "none"
    BY <1>j DEF Alone
  <2>2. \A i \in Jobs : i # j => jobs'[i] = jobs[i]
    BY <1>o DEF Process, StartFindsNoRow, Start, Download, BeginSave, CommitSave, Finish,
       Fail, Step, TypeOK
  <2> QED BY <2>1, <2>2
<1> USE DEF OwnChunks, Whole, Exists
<1>1. CASE StartFindsNoRow(j)
  <2>1. UNCHANGED <<document, chunks>> /\ jobs'[j].state = "failed"
    BY <1>1, <1>o, <1>j DEF StartFindsNoRow, Step, TypeOK, Job
  <2> QED BY <1>a, <1>j, <1>p, <2>1
<1>2. CASE Start(j)
  <2>1. document'.status = "processing" /\ jobs'[j].state = "started"
    BY <1>2, <1>o, <1>j DEF Start, Step, UpdateRow, TypeOK, Job
  <2> QED BY <1>a, <2>1
<1>3. CASE Download(j)
  <2>1. UNCHANGED <<document, chunks>> /\ jobs'[j].state = "downloaded"
    BY <1>3, <1>o, <1>j DEF Download, Step, TypeOK, Job
  <2> QED BY <1>a, <1>j, <1>p, <2>1
<1>4. CASE BeginSave(j)
  <2>1. UNCHANGED <<document, chunks>> /\ jobs'[j].state = "saving" /\ jobs'[j].saw = chunks
    BY <1>4, <1>o, <1>j DEF BeginSave, TypeOK, Job
  <2> QED BY <1>a, <1>j, <1>p, <2>1
<1>5. CASE CommitSave(j)
  <2>1. document' = document /\ jobs'[j].state = "saved" /\ jobs'[j].attempt = jobs[j].attempt
    BY <1>5, <1>o, <1>j DEF CommitSave, TypeOK, Job
  <2>2. jobs[j].saw = chunks
    BY <1>5, <1>o, <1>j DEF CommitSave
  <2>3. chunks' = {<<j, jobs[j].attempt>>}
    BY <1>5, <2>2 DEF CommitSave
  <2> QED BY <1>a, <1>j, <1>p, <2>1, <2>3
<1>6. CASE Finish(j)
  <2>1. chunks' = chunks /\ jobs'[j].state = "done" /\ jobs[j].state = "saved"
    BY <1>6, <1>o, <1>j DEF Finish, Step, TypeOK, Job
  <2>2. CASE Exists
    <3>1. document' = [status |-> "processed", counts |-> <<j, jobs[j].attempt>>]
      BY <1>6, <2>2 DEF Finish, UpdateRow
    <3>2. chunks = {<<j, jobs[j].attempt>>}
      BY <1>o, <1>j, <2>1, <2>2
    <3> QED BY <1>a, <2>1, <3>1, <3>2
  <2>3. CASE ~ Exists
    BY <1>6, <1>a, <1>j, <1>p, <2>1, <2>3 DEF Finish, UpdateRow
  <2> QED BY <2>2, <2>3
<1>7. CASE Fail(j)
  <2>1. jobs'[j].state = "failed"
    BY <1>7, <1>o, <1>j DEF Fail, TypeOK, Job
  <2>2. document'.status = "failed" \/ document' = document
    BY <1>7, <1>o DEF Fail, UpdateRow, TypeOK
  <2> QED BY <1>a, <1>j, <1>p, <2>1, <2>2
<1> QED BY <1>1, <1>2, <1>3, <1>4, <1>5, <1>6, <1>7 DEF Process

\* As long as one job only was submitted, with all its restarts, crashes and timeouts,
\* a processed document shows the chunks and the counts of one run.
THEOREM SerialInvariantHolds == Spec => []SerialInvariant
<1>1. Init => SerialInvariant
  <2> SUFFICES ASSUME Init PROVE SerialInvariant OBVIOUS
  <2>1. ChunksInvariant
    BY InitChunks
  <2> QED BY <2>1 DEF Init, SerialInvariant, OwnChunks, Whole, DocumentStatus, Exists
<1>2. SerialInvariant /\ [Next]_vars => SerialInvariant'
  <2> SUFFICES ASSUME SerialInvariant, [Next]_vars PROVE SerialInvariant' OBVIOUS
  <2>1. ChunksInvariant'
    BY StepChunks DEF SerialInvariant
  <2>2. SUFFICES ASSUME Alone' PROVE OwnChunks' /\ Whole'
    BY <2>1 DEF SerialInvariant
  <2>3. ChunksInvariant /\ Alone /\ OwnChunks /\ Whole
    BY <2>2, AloneStays DEF SerialInvariant, ChunksInvariant
  <2>4. ASSUME UNCHANGED vars PROVE OwnChunks' /\ Whole'
    BY <2>3, <2>4 DEF vars, OwnChunks, Whole, Exists
  <2>5. ASSUME Next PROVE OwnChunks' /\ Whole'
    BY <2>2, <2>3, <2>5, RequestOwn, ClusterOwn, ProcessOwn DEF Next
  <2> QED BY <2>4, <2>5
<1> QED BY <1>1, <1>2, PTL DEF Spec

\* What a reader of the document sees of that.
THEOREM SerialIngestionIsWhole == Spec => []ProcessedIsWhole
<1>1. SerialInvariant => ProcessedIsWhole
  BY DEF SerialInvariant, ProcessedIsWhole
<1> QED BY <1>1, SerialInvariantHolds, PTL
----------------------------------------------------------------------------
(* A document that shows "processing" has a job: what ProcessingEnds rests on. *)

HasJobInvariant == ProcessingHasJob /\ CommitHasJob

\* A step that leaves every job with work to do, or takes the last pod of one.
LEMMA HandledStays ==
  ASSUME Handled,
         \A i \in Jobs : Underway(i) => Underway(i)' \/ LastPodLost',
         \A i \in Jobs : jobs[i].state = "lost" /\ jobs[i].attempt = BackoffLimit
                             => jobs'[i] = jobs[i]
  PROVE  Handled'
  BY DEF Handled, LastPodLost

\* Of a job that is taken by the cluster, either a restart is left or it was the last.
LEMMA LostPod ==
  ASSUME TypeOK', NEW j \in Jobs, jobs'[j].state = "lost"
  PROVE  Underway(j)' \/ LastPodLost'
<1>1. jobs'[j].attempt \in 0 .. BackoffLimit
  BY DEF TypeOK, Job
<1> QED BY <1>1, BackoffAssumption DEF Underway, LastPodLost

LEMMA RequestHasJob ==
  ASSUME ChunksInvariant, HasJobInvariant, Request
  PROVE  HasJobInvariant'
<1>t. TypeOK /\ TypeOK'
  BY RequestType DEF ChunksInvariant
<1> USE DEF HasJobInvariant, ProcessingHasJob, CommitHasJob
<1>1. CASE CreateDocument \/ Upload
  <2>1. jobs' = jobs /\ txn' = txn /\ document'.status \in {document.status, "pending"}
    BY <1>1, <1>t DEF CreateDocument, Upload, TypeOK
  <2> QED BY <2>1 DEF Handled, Underway, LastPodLost
<1>2. CASE StartProcessing
  BY <1>2, <1>t DEF StartProcessing, Handled, Underway, LastPodLost, TypeOK
<1>3. ASSUME NEW j \in Jobs, DispatchAccepted(j) \/ DispatchReplyLost(j) PROVE HasJobInvariant'
  <2>1. jobs' = [jobs EXCEPT ![j].state = "pending"]
    BY <1>3 DEF DispatchAccepted, DispatchReplyLost, Submitted
  <2>2. jobs'[j].state = "pending"
    BY <1>t, <2>1 DEF TypeOK, Job
  <2> QED BY <2>2 DEF Handled, Underway
<1>4. CASE DispatchRefused
  BY <1>4, <1>t DEF DispatchRefused, Handled, Underway, LastPodLost, TypeOK
<1>5. CASE CommitProcessing
  <2>1. jobs' = jobs /\ document'.status = txn.status /\ txn.phase = "commit"
        /\ txn'.phase = "idle"
    BY <1>5, <1>t DEF CommitProcessing, NoTransaction, TypeOK
  <2> QED BY <2>1 DEF Handled, Underway, LastPodLost
<1>6. CASE BeginDelete \/ RollbackDelete
  BY <1>6 DEF BeginDelete, RollbackDelete, Handled, Underway, LastPodLost
<1>7. CASE CommitDelete
  BY <1>7 DEF CommitDelete, Handled, Underway, LastPodLost
<1>8. CASE RollbackProcessing
  BY <1>8 DEF RollbackProcessing, NoTransaction, Handled, Underway, LastPodLost
<1> QED BY <1>1, <1>2, <1>3, <1>4, <1>5, <1>6, <1>7, <1>8 DEF Request

LEMMA ClusterHasJob ==
  ASSUME ChunksInvariant, HasJobInvariant, Cluster
  PROVE  HasJobInvariant'
<1>t. TypeOK /\ TypeOK'
  BY ClusterType DEF ChunksInvariant
<1>1. PICK j \in Jobs : PodStarts(j) \/ PodRestarts(j) \/ PodCrashes(j) \/ DeadlineExceeded(j)
  BY DEF Cluster
<1>2. UNCHANGED <<document, txn>>
  BY <1>1 DEF PodStarts, PodRestarts, PodCrashes, DeadlineExceeded
<1>3. \A i \in Jobs \ {j} : jobs'[i] = jobs[i]
  BY <1>1, <1>t DEF PodStarts, PodRestarts, PodCrashes, DeadlineExceeded, TypeOK
<1>4. /\ jobs'[j].state \in {"live", "lost"}
      /\ ~ (jobs[j].state = "lost" /\ jobs[j].attempt = BackoffLimit)
  BY <1>1, <1>t, BackoffAssumption
     DEF PodStarts, PodRestarts, PodCrashes, DeadlineExceeded, TypeOK, Job, Alive
<1>5. Underway(j)' \/ LastPodLost'
  BY <1>t, <1>4, LostPod DEF Underway, Alive
<1>6. \A i \in Jobs : Underway(i) => Underway(i)' \/ LastPodLost'
  BY <1>3, <1>5 DEF Underway
<1>7. Handled => Handled'
  BY <1>3, <1>4, <1>6, HandledStays
<1> QED BY <1>2, <1>7 DEF HasJobInvariant, ProcessingHasJob, CommitHasJob

\* A pipeline's last write is what takes the row out of "processing", and waits for a
\* request that has it.
LEMMA ProcessHasJob ==
  ASSUME ChunksInvariant, HasJobInvariant, NEW j \in Jobs, Process(j)
  PROVE  HasJobInvariant'
<1>t. TypeOK /\ TypeOK'
  BY ProcessType DEF ChunksInvariant
<1>0. txn' = txn
  BY DEF Process, StartFindsNoRow, Start, Download, BeginSave, CommitSave, Finish, Fail
<1>1. CASE StartFindsNoRow(j) \/ Finish(j) \/ Fail(j)
  <2>1. document'.status # "processing" /\ ~ RowLocked
    <3>1. CASE StartFindsNoRow(j)
      BY <3>1 DEF StartFindsNoRow, ChunksInvariant, LockNeedsRow, DocumentStatus
    <3>2. CASE Finish(j) \/ Fail(j)
      BY <3>2, <1>t DEF Finish, Fail, UpdateRow, TypeOK, DocumentStatus
    <3> QED BY <1>1, <3>1, <3>2
  <2> QED BY <1>0, <2>1 DEF HasJobInvariant, ProcessingHasJob, CommitHasJob
<1>2. CASE Start(j) \/ Download(j) \/ BeginSave(j) \/ CommitSave(j)
  <2>1. jobs'[j].state \in Alive
    BY <1>2, <1>t DEF Start, Download, BeginSave, CommitSave, Step, TypeOK, Job, Alive
  <2> QED BY <2>1 DEF HasJobInvariant, ProcessingHasJob, CommitHasJob, Handled, Underway
<1> QED BY <1>1, <1>2 DEF Process

\* A document that shows "processing", or will when the open request commits, has a job
\* under way, unless the cluster took a job's last pod.
THEOREM HasJobInvariantHolds == Spec => []HasJobInvariant
<1>1. Init => HasJobInvariant
  BY DEF Init, HasJobInvariant, ProcessingHasJob, CommitHasJob, NoTransaction
<1>2. ChunksInvariant /\ HasJobInvariant /\ [Next]_vars => HasJobInvariant'
  <2> SUFFICES ASSUME ChunksInvariant, HasJobInvariant, [Next]_vars PROVE HasJobInvariant'
    OBVIOUS
  <2>1. CASE UNCHANGED vars
    BY <2>1 DEF vars, HasJobInvariant, ProcessingHasJob, CommitHasJob, Handled, Underway,
                LastPodLost
  <2> QED BY <2>1, RequestHasJob, ClusterHasJob, ProcessHasJob DEF Next
<1> QED BY <1>1, <1>2, ChunksInvariantHolds, PTL DEF Spec

\* A document is never left "processing" with nobody at it, for any number of jobs,
\* restarts and lost pods, unless the cluster took the last pod of a job.
THEOREM ProcessingDocumentsHaveJobs == Spec => []ProcessingHasJob
  BY HasJobInvariantHolds, PTL DEF HasJobInvariant
=============================================================================
