------------------------- MODULE MaterialRefinement -------------------------
(* MaterialLifecycle implements GenerationSlot. *)
EXTENDS MaterialLifecycle

StateOf(status) == IF status = "absent" THEN "none" ELSE status

\* SingleRunner makes the choice unique.
HolderAmong(executions) ==
    IF \E j \in Jobs : executions[j].state \in Claimed
    THEN CHOOSE j \in Jobs : executions[j].state \in Claimed
    ELSE NoJob

Holder == HolderAmong(jobs)

Published == IF row.generation_status = "completed" THEN row.output_json ELSE NoJob

Slot == INSTANCE GenerationSlot WITH
    state <- StateOf(row.generation_status),
    holder <- Holder,
    result <- Published

\* Every step of requests, cluster and workers is a step of the slot or leaves it
\* as it was: only the holder publishes or fails, once, and no request empties the
\* slot of a living worker.
ImplementsSlot == Slot!Spec
=============================================================================
