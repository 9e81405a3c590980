----------------------- MODULE MaterialEditingProofs ------------------------
(***************************************************************************)
(* What survives the lost updates of PATCH requests, for any constants: the  *)
(* runner and result invariants of MaterialLifecycle do not, because an edit *)
(* may put a claimed or completed row back to any status it had; that every  *)
(* verdict and every completed status comes with an output does.             *)
(***************************************************************************)
EXTENDS MaterialEditing, MaterialLifecycleProofs

USE DEF RowLocked, Exists, IsActive, IsStale, RegenerateAllowed

\* Rows without a verdict that are not completed need no output.
LEMMA NothingToShow ==
  ASSUME NEW r, r.review_status = "pending", r.generation_status # "completed"
  PROVE  HasOutput(r)
  BY DEF HasOutput

\* Requests show what they reset, or what the worker inside the request produced.
LEMMA RequestOutput ==
  ASSUME EditInvariant, Request
  PROVE  HasOutput(row)' /\ HasOutput(txn.row)' /\ (txn.phase = "dispatch" => txn.row.error_message = "")'
<1>i. /\ TypeOK /\ HasOutput(row) /\ HasOutput(txn.row)
      /\ txn.phase = "dispatch" => txn.row.error_message = ""
  BY DEF EditInvariant, EditTypeOK
<1>q. ASSUME NEW p PROVE HasOutput(QueuedRow(p)) /\ QueuedRow(p).error_message = ""
  BY DEF QueuedRow, HasOutput
<1>n. ASSUME NEW s \in {"absent", "gone"} PROVE HasOutput(NoRow(s))
  BY NoRowType, NothingToShow
<1>t. HasOutput(NoTransaction.row) /\ NoTransaction.phase = "idle"
  BY <1>n, NoTransactionType DEF NoTransaction
<1>1. ASSUME NEW p \in Prompts, CreateMaterial(p) \/ RegenerateMaterial(p)
      PROVE  HasOutput(row)' /\ HasOutput(txn.row)' /\ txn'.row.error_message = ""
  <2>1. row' = row /\ txn'.row = QueuedRow(p)
    BY <1>1 DEF CreateMaterial, RegenerateMaterial
  <2> QED BY <1>i, <1>q, <2>1 DEF HasOutput
<1>2. ASSUME NEW j \in Jobs, txn' = RecordJobName(j)
      PROVE  HasOutput(txn.row)' /\ txn'.phase = "commit"
  <2>1. /\ txn'.row.review_status = txn.row.review_status
        /\ txn'.row.generation_status = txn.row.generation_status
        /\ txn'.row.output_json = txn.row.output_json
        /\ txn'.row.error_message = txn.row.error_message
        /\ txn'.phase = "commit"
    BY <1>2, <1>i DEF RecordJobName, TypeOK, Transaction, MarketingMaterial
  <2> QED BY <1>i, <2>1 DEF HasOutput
<1>3. ASSUME txn' = RecordDispatchFailure
      PROVE  HasOutput(txn.row)' /\ txn'.phase = "commit"
  <2>1. /\ txn'.row.review_status = txn.row.review_status
        /\ txn'.row.generation_status = "failed"
        /\ txn'.row.output_json = txn.row.output_json
        /\ txn'.phase = "commit"
    BY <1>3, <1>i DEF RecordDispatchFailure, TypeOK, Transaction, MarketingMaterial
  <2> QED BY <1>i, <2>1 DEF HasOutput
<1>4. ASSUME NEW j \in Jobs, DispatchInline(j)
      PROVE  HasOutput(txn.row)' /\ txn'.phase = "commit" /\ row' = row
  <2>1. txn'.row.output_json = j /\ txn'.row.error_message = ""
    BY <1>4, <1>i DEF DispatchInline, CompletedRow, TypeOK, Transaction, MarketingMaterial
  <2> QED BY <1>4, <2>1 DEF DispatchInline, HasOutput
<1>5. CASE \E j \in Jobs : DispatchAccepted(j) \/ DispatchReplyLost(j)
  BY <1>5, <1>i, <1>2, <1>3 DEF DispatchAccepted, DispatchReplyLost, HasOutput
<1>6. CASE \E j \in Jobs : DispatchInline(j)
  BY <1>6, <1>i, <1>4 DEF HasOutput
<1>7. CASE DispatchRefused
  BY <1>7, <1>i, <1>3 DEF DispatchRefused, HasOutput
<1>8. CASE Commit
  BY <1>8, <1>i, <1>t DEF Commit, HasOutput
<1>9. CASE Rollback
  BY <1>9, <1>i, <1>n, <1>t DEF Rollback, HasOutput
<1>10. CASE DeleteMaterial
  BY <1>10, <1>i, <1>n DEF DeleteMaterial, HasOutput
<1> QED BY <1>1, <1>5, <1>6, <1>7, <1>8, <1>9, <1>10 DEF Request

\* Time changes ages only.
LEMMA ClusterOutput ==
  ASSUME EditInvariant, Cluster
  PROVE  HasOutput(row)' /\ HasOutput(txn.row)' /\ (txn.phase = "dispatch" => txn.row.error_message = "")'
<1>i. /\ TypeOK /\ HasOutput(row) /\ HasOutput(txn.row)
      /\ txn.phase = "dispatch" => txn.row.error_message = ""
  BY DEF EditInvariant, EditTypeOK
<1>1. CASE TickTime
  <2>1. /\ row'.review_status = row.review_status /\ row'.generation_status = row.generation_status
        /\ row'.output_json = row.output_json /\ row'.error_message = row.error_message
    BY <1>1, <1>i DEF TickTime, TypeOK, MarketingMaterial
  <2>2. /\ txn'.row.review_status = txn.row.review_status
        /\ txn'.row.generation_status = txn.row.generation_status
        /\ txn'.row.output_json = txn.row.output_json
        /\ txn'.row.error_message = txn.row.error_message
        /\ txn'.phase = txn.phase
    BY <1>1, <1>i DEF TickTime, TypeOK, Transaction, MarketingMaterial
  <2> QED BY <1>i, <2>1, <2>2 DEF HasOutput
<1>2. CASE ~ TickTime
  BY <1>2, <1>i DEF Cluster, PodStarts, PodCrashes, DeadlineExceeded, DuplicateExecution, HasOutput
<1> QED BY <1>1, <1>2

\* A worker completes a row together with its output.
LEMMA GenerateOutput ==
  ASSUME EditInvariant, NEW j \in Jobs, Generate(j)
  PROVE  HasOutput(row)' /\ txn' = txn
<1>i. TypeOK /\ HasOutput(row)
  BY DEF EditInvariant, EditTypeOK
<1>1. CASE ClaimFindsNoRow(j) \/ ClaimSkips(j)
  BY <1>1, <1>i DEF ClaimFindsNoRow, ClaimSkips, HasOutput
<1>2. CASE Claim(j)
  <2>1. /\ row'.generation_status = "processing" /\ row'.review_status = row.review_status
        /\ row'.output_json = row.output_json
    BY <1>2, <1>i DEF Claim, TypeOK, MarketingMaterial
  <2> QED BY <1>2, <1>i, <2>1 DEF Claim, HasOutput
<1>3. CASE SaveCompleted(j)
  <2>1. row' = row \/ (row'.output_json = j /\ row'.error_message = "")
    BY <1>3, <1>i DEF SaveCompleted, UpdateRow, CompletedRow, TypeOK, MarketingMaterial
  <2> QED BY <1>3, <1>i, <2>1 DEF SaveCompleted, HasOutput
<1>4. CASE SaveInvalid(j)
  <2>1. CASE ~ Exists
    BY <1>4, <1>i, <2>1 DEF SaveInvalid, UpdateRow, HasOutput
  <2>2. CASE Exists
    <3>1. /\ row'.output_json = j /\ row'.error_message = row.error_message
          /\ row'.generation_status = row.generation_status
      BY <1>4, <1>i, <2>2 DEF SaveInvalid, UpdateRow, TypeOK, MarketingMaterial
    <3> QED BY <1>4, <1>i, <3>1 DEF SaveInvalid, HasOutput
  <2> QED BY <2>1, <2>2
<1>5. CASE MarkFailed(j)
  <2>1. CASE ~ Exists
    BY <1>5, <1>i, <2>1 DEF MarkFailed, UpdateRow, HasOutput
  <2>2. CASE Exists
    <3>1. /\ row'.output_json = row.output_json /\ row'.generation_status = "failed"
          /\ row'.review_status = row.review_status
      BY <1>5, <1>i, <2>2 DEF MarkFailed, UpdateRow, TypeOK, MarketingMaterial
    <3> QED BY <1>5, <1>i, <3>1 DEF MarkFailed, HasOutput
  <2> QED BY <2>1, <2>2
<1> QED BY <1>1, <1>2, <1>3, <1>4, <1>5 DEF Generate

\* The copy of an edit is a row that was committed, or one with an allowed verdict.
LEMMA PatchOutput ==
  ASSUME EditInvariant, NEW p \in Prompts, NEW r \in ReviewStatus, PatchReads(p, r)
  PROVE  edit' \in [open : BOOLEAN, row : MarketingMaterial] /\ HasOutput(edit.row)'
<1>i. row \in MarketingMaterial /\ HasOutput(row)
  BY DEF EditInvariant, EditTypeOK, TypeOK
<1> DEFINE copy == [row EXCEPT !.prompt = p, !.review_status = r, !.updated_at = 0]
<1>0. copy \in MarketingMaterial /\ edit' = [open |-> TRUE, row |-> copy]
  BY <1>i, ZeroAge DEF PatchReads, MarketingMaterial
<1>1. edit' \in [open : BOOLEAN, row : MarketingMaterial]
  BY <1>0
<1>2. /\ edit'.row.review_status = r
      /\ edit'.row.output_json = row.output_json
      /\ edit'.row.generation_status = row.generation_status
      /\ edit'.row.error_message = row.error_message
  BY <1>i DEF PatchReads, MarketingMaterial
<1>3. HasOutput(edit.row)'
  BY <1>i, <1>2 DEF PatchReads, MayReview, HasOutput
<1> QED BY <1>1, <1>3

\* Every step keeps the invariant.
LEMMA StepEdit == EditInvariant /\ [EditNext]_editVars => EditInvariant'
<1> SUFFICES ASSUME EditInvariant, [EditNext]_editVars PROVE EditInvariant' OBVIOUS
<1>i. TypeOK /\ edit \in [open : BOOLEAN, row : MarketingMaterial]
  BY DEF EditInvariant, EditTypeOK
<1>1. CASE UNCHANGED editVars
  BY <1>1 DEF editVars, vars, EditInvariant, EditTypeOK, TypeOK, HasOutput
<1>2. CASE Next /\ UNCHANGED edit
  <2>1. TypeOK'
    BY <1>2, <1>i, StepType
  <2>2. /\ HasOutput(row)' /\ HasOutput(txn.row)'
        /\ (txn.phase = "dispatch" => txn.row.error_message = "")'
    <3>1. ASSUME NEW j \in Jobs, Generate(j)
          PROVE  /\ HasOutput(row)' /\ HasOutput(txn.row)'
                 /\ (txn.phase = "dispatch" => txn.row.error_message = "")'
      BY <3>1, GenerateOutput DEF EditInvariant, HasOutput
    <3> QED BY <1>2, <3>1, RequestOutput, ClusterOutput DEF Next
  <2> QED BY <1>2, <2>1, <2>2 DEF EditInvariant, EditTypeOK, HasOutput
<1>3. ASSUME NEW p \in Prompts, NEW r \in ReviewStatus, PatchReads(p, r) PROVE EditInvariant'
  BY <1>3, PatchOutput DEF PatchReads, vars, EditInvariant, EditTypeOK, TypeOK, HasOutput
<1>4. CASE PatchSaves
  <2>1. row' = edit.row /\ edit' = NoEdit /\ UNCHANGED <<sources, txn, jobs>>
    BY <1>4 DEF PatchSaves
  <2>2. NoEdit \in [open : BOOLEAN, row : MarketingMaterial] /\ HasOutput(NoEdit.row)
    BY NoRowType, NothingToShow DEF NoEdit
  <2> QED BY <1>i, <2>1, <2>2 DEF EditInvariant, EditTypeOK, TypeOK, HasOutput
<1> QED BY <1>1, <1>2, <1>3, <1>4 DEF EditNext

\* The copy a PATCH has read, the row and the row an open request will commit: each
\* has an output if it is completed or has a verdict, and no request commits a failure.
THEOREM EditInvariantHolds == EditSpec => []EditInvariant
<1>1. EditInit => EditInvariant
  <2> SUFFICES ASSUME EditInit PROVE EditInvariant OBVIOUS
  <2>1. TypeOK
    BY InitRunner DEF EditInit, RunnerInvariant
  <2>2. HasOutput(row) /\ row = NoRow("absent") /\ txn = NoTransaction
    BY NoRowType, NothingToShow DEF EditInit, Init
  <2>3. txn.row = row /\ edit.row = row /\ txn.phase = "idle"
    BY <2>2, NoTransactionType DEF EditInit, NoEdit, NoTransaction
  <2>4. edit \in [open : BOOLEAN, row : MarketingMaterial]
    BY NoRowType DEF EditInit, NoEdit
  <2> QED BY <2>1, <2>2, <2>3, <2>4 DEF EditInvariant, EditTypeOK
<1> QED BY <1>1, StepEdit, PTL DEF EditSpec

\* Whatever updates edits lose, a material with a verdict has an output, and so has
\* a completed one.
THEOREM ReviewedMaterialsHaveOutput == EditSpec => []ReviewedHasOutput
<1>1. EditInvariant => ReviewedHasOutput
  BY DEF EditInvariant, ReviewedHasOutput
<1> QED BY <1>1, EditInvariantHolds, PTL
=============================================================================
