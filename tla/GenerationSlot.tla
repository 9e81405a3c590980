--------------------------- MODULE GenerationSlot ---------------------------
(***************************************************************************)
(* What the generation of one material promises, without transactions,     *)
(* clocks or Kubernetes: a slot that one worker at a time holds, whose      *)
(* holder alone publishes or fails, and that a new request empties only     *)
(* when nobody holds it.  MaterialLifecycle implements it.                  *)
(***************************************************************************)
CONSTANTS Jobs, NoJob

VARIABLES
    state,    \* of the material
    holder,   \* the worker that runs its pipeline
    result    \* the worker whose output is published

vars == <<state, holder, result>>

TypeOK ==
    /\ state \in {"none", "queued", "processing", "completed", "failed", "gone"}
    /\ holder \in Jobs \cup {NoJob}
    /\ result \in Jobs \cup {NoJob}

Init == state = "none" /\ holder = NoJob /\ result = NoJob

\* A create or regenerate request: queued, or failed if no worker could be started ...
Request ==
    /\ state # "gone"
    /\ holder = NoJob
    /\ state' \in {"queued", "failed"}
    /\ result' = NoJob
    /\ UNCHANGED holder

\* ... or completed at once, by a worker that ran within the request.
RequestAnswered(j) ==
    /\ state # "gone"
    /\ holder = NoJob
    /\ state' = "completed"
    /\ result' = j
    /\ UNCHANGED holder

Acquire(j) ==
    /\ state \in {"queued", "failed"}
    /\ holder = NoJob
    /\ state' = "processing"
    /\ holder' = j
    /\ UNCHANGED result

Publish(j) ==
    /\ state = "processing"
    /\ holder = j
    /\ state' = "completed"
    /\ result' = j
    /\ holder' = NoJob

Fail(j) ==
    /\ state = "processing"
    /\ holder = j
    /\ state' = "failed"
    /\ holder' = NoJob
    /\ UNCHANGED result

\* The holder dies, or finds the material deleted.
Abandon(j) ==
    /\ holder = j
    /\ holder' = NoJob
    /\ UNCHANGED <<state, result>>

Remove ==
    /\ state' = "gone"
    /\ result' = NoJob
    /\ UNCHANGED holder

Next ==
    \/ Request \/ Remove
    \/ \E j \in Jobs :
        RequestAnswered(j) \/ Acquire(j) \/ Publish(j) \/ Fail(j) \/ Abandon(j)

Spec == Init /\ [][Next]_vars
=============================================================================
