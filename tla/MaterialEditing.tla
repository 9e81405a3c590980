-------------------------- MODULE MaterialEditing ---------------------------
(***************************************************************************)
(* MaterialLifecycle with the PATCH request of MaterialViewSet             *)
(* (UpdateModelMixin with MaterialUpdateSerializer).  The request reads the *)
(* row without a lock, validates and edits that copy, and writes EVERY      *)
(* column of the copy back with instance.save(), whatever happened to the   *)
(* row in between; when the row is gone, save() inserts it again.           *)
(***************************************************************************)
EXTENDS MaterialLifecycle

VARIABLE edit   \* the copy of the row a PATCH request holds between read and save

editVars == <<vars, edit>>

NoEdit == [open |-> FALSE, row |-> NoRow("absent")]

EditTypeOK == TypeOK /\ edit \in [open : BOOLEAN, row : MarketingMaterial]

EditInit == Init /\ edit = NoEdit
----------------------------------------------------------------------------
\* validate_review_status: the copy must be of a completed material.
MayReviewUnchecked == TRUE   \* mutant

MayReview == row.generation_status = "completed"

\* get_object and is_valid; the body may hold a prompt, a verdict, or both.
PatchReads(p, r) ==
    /\ ~ edit.open
    /\ Exists
    /\ r = row.review_status \/ MayReview
    /\ edit' = [open |-> TRUE,
                row |-> [row EXCEPT !.prompt = p, !.review_status = r, !.updated_at = 0]]
    /\ UNCHANGED vars

\* serializer.save(): UPDATE of all columns, INSERT when no row matched.
PatchSaves ==
    /\ edit.open
    /\ ~ RowLocked
    /\ row' = edit.row
    /\ edit' = NoEdit
    /\ UNCHANGED <<sources, txn, jobs>>

EditNext ==
    \/ Next /\ UNCHANGED edit
    \/ \E p \in Prompts, r \in ReviewStatus : PatchReads(p, r)
    \/ PatchSaves

EditSpec == EditInit /\ [][EditNext]_editVars
----------------------------------------------------------------------------
(* Properties. *)

\* Every writer of a verdict or of the completed status writes an output with it.
HasOutput(r) ==
    /\ r.review_status # "pending" => r.output_json \in Jobs
    /\ r.generation_status = "completed" => r.output_json \in Jobs /\ r.error_message = ""

\* What lost updates cannot break: a reviewed material has an output, and so has a
\* completed one, which shows no error message.
ReviewedHasOutput == HasOutput(row)

\* Lost updates carry copies of the row about: what is said of the row holds of the
\* copy of an edit and of the image of an open request.
EditInvariant ==
    /\ EditTypeOK
    /\ HasOutput(row) /\ HasOutput(edit.row) /\ HasOutput(txn.row)
    /\ txn.phase = "dispatch" => txn.row.error_message = ""

\* serializers.py:236 "Review status can only change once generation is completed."
\* A verdict is given to a row that is completed when the verdict is written.
ReviewOnlyWhenCompleted ==
    [][Exists /\ row'.review_status \notin {row.review_status, "pending"}
         => row.generation_status = "completed"]_editVars
=============================================================================
