----------------------------- MODULE Evaluation -----------------------------
(***************************************************************************)
(* One example of an offline experiment (the run_eval command): the graph    *)
(* is run for a material of the golden dataset, again when its failure looks *)
(* transient, and what the material's row then holds is scored by the        *)
(* evaluators.  The row outlives the runs: it may hold the output of an      *)
(* earlier run of this experiment or of an earlier experiment.               *)
(*                                                                         *)
(* LangSmith (external) calls the target, records its outputs or its         *)
(* exception, and calls every evaluator on that, one example at a time.      *)
(***************************************************************************)
EXTENDS GenerationGraph

CONSTANTS
    MaxGenerateAttempts, \* _MAX_GENERATE_ATTEMPTS
    MaxJudgeAttempts,    \* _MAX_JUDGE_ATTEMPTS
    ExpectedFacts        \* the example carries expected facts

ASSUME AttemptsAssumption ==
    /\ MaxGenerateAttempts \in Nat \ {0}
    /\ MaxJudgeAttempts \in Nat \ {0}
    /\ ExpectedFacts \in BOOLEAN

VARIABLES
    attempt, \* of generate_with_retry
    row,     \* what the row holds: the output of this run, or an earlier one or none
    run,     \* the recorded run of the target
    scores,  \* the feedback of each evaluator
    tries    \* failed calls of the judge by the evaluator that is running

evalVars == <<attempt, row, run, scores, tries>>

allVars == <<vars, evalVars>>
----------------------------------------------------------------------------
Checks == {"schema_valid", "sources_grounded", "counts_match", "no_inline_citations"}

Judges == {"groundedness", "specificity", "fact_fidelity"}

\* True and 1.0 are "full", False and 0.0 are "zero".
Score == {"unscored", "none", "zero", "part", "full"}

EvalTypeOK ==
    /\ attempt \in 1 .. MaxGenerateAttempts
    /\ row \in {"other", "this"}
    /\ run \in {"pending", "output", "error"}
    /\ scores \in [Checks \cup Judges -> Score]
    /\ tries \in 0 .. MaxJudgeAttempts - 1

EvalInit ==
    /\ Init
    /\ attempt = 1
    /\ row = "other"
    /\ run = "pending"
    /\ scores = [e \in Checks \cup Judges |-> "unscored"]
    /\ tries = 0
----------------------------------------------------------------------------
(* The target: generate with force, then read the row. *)

\* A valid and an invalid output are written to the row, an exception leaves it.
Step ==
    /\ run = "pending"
    /\ Next
    /\ row' = IF node' \in {"completed", "invalid"} THEN "this" ELSE row
    /\ UNCHANGED <<attempt, run, scores, tries>>

\* is_transient_error looks for 429 in the message, which any failure may have in it.
Retry ==
    /\ run = "pending" /\ node \in {"invalid", "raised"}
    /\ attempt < MaxGenerateAttempts
    /\ attempt' = attempt + 1
    /\ row' = "other"
    /\ node' = "retrieve"
    /\ source_map' = {} /\ validation' = {}
    /\ answer' = NoOutput /\ output' = NoOutput
    /\ attempts' = 0 /\ calls' = 0
    /\ UNCHANGED <<run, scores, tries>>

GiveUpSwallowed ==   \* mutant: after the last attempt the row is read all the same
    /\ run = "pending" /\ node \in {"invalid", "raised"}
    /\ run' = "output"
    /\ UNCHANGED <<vars, attempt, row, scores, tries>>

GiveUp ==
    /\ run = "pending" /\ node \in {"invalid", "raised"}
    /\ run' = "error"
    /\ UNCHANGED <<vars, attempt, row, scores, tries>>

Return ==
    /\ run = "pending" /\ node = "completed"
    /\ run' = "output"
    /\ UNCHANGED <<vars, attempt, row, scores, tries>>
----------------------------------------------------------------------------
(* The evaluators. *)

\* The validator once more, but any source the output refers to is allowed.
SchemaValid(o) ==
    /\ o.shape = "object" /\ o.stamped
    /\ WordErrors(o) = {}
    /\ o.cited # {} /\ "token" \notin o.flaws

SourcesGroundedInSender(o) ==   \* mutant: only one side of the context is allowed
    o.cited # {} /\ o.cited \subseteq source_map \cap SenderIds

SourcesGrounded(o) == o.cited # {} /\ o.cited \subseteq source_map

CountsMatch(o) == o.stamped /\ "section_count" \notin o.flaws

NoInlineCitations(o) == "token" \notin o.flaws

Passes(check, o) ==
    CASE check = "schema_valid" -> SchemaValid(o)
      [] check = "sources_grounded" -> SourcesGrounded(o)
      [] check = "counts_match" -> CountsMatch(o)
      [] check = "no_inline_citations" -> NoInlineCitations(o)

\* The deterministic evaluators; without an output they answer False.
Check ==
    /\ run # "pending"
    /\ \A e \in Checks : scores[e] = "unscored"
    /\ scores' = [e \in DOMAIN scores |->
            IF e \notin Checks THEN scores[e]
            ELSE IF run = "output" /\ Passes(e, output) THEN "full" ELSE "zero"]
    /\ UNCHANGED <<vars, attempt, row, run, tries>>

\* In the order in which the command lists them.
Turn(e) ==
    /\ run # "pending" /\ scores[e] = "unscored"
    /\ \A c \in Checks : scores[c] # "unscored"
    /\ e # "groundedness" => scores["groundedness"] # "unscored"
    /\ e = "fact_fidelity" => scores["specificity"] # "unscored"

Asks(e) == Turn(e) /\ run = "output" /\ (e = "fact_fidelity" => ExpectedFacts)

Scores(e, score) ==
    /\ scores' = [scores EXCEPT ![e] = score]
    /\ tries' = 0
    /\ UNCHANGED <<vars, attempt, row, run>>

\* No output to judge, or no facts to judge it by.
Skip(e) ==
    /\ Turn(e) /\ ~ Asks(e)
    /\ Scores(e, IF e = "fact_fidelity" /\ ~ ExpectedFacts THEN "none" ELSE "zero")

\* What the judge may write: a number, below 0 or above 1 too, or nothing readable.
Raw == {"below", "zero", "part", "full", "above", "nothing"}

\* _parse_score and _clamp.
ParseScore(raw) ==
    IF raw \in {"below", "nothing"} THEN "zero" ELSE IF raw = "above" THEN "full" ELSE raw

Judge(e, raw) == Asks(e) /\ Scores(e, ParseScore(raw))

\* A call that fails is made again if the failure looks transient, ...
JudgeAgainUncounted(e) ==   \* mutant: without a limit
    /\ Asks(e)
    /\ tries' \in 0 .. MaxJudgeAttempts - 1 /\ tries' # tries
    /\ UNCHANGED <<vars, attempt, row, run, scores>>

JudgeAgain(e) ==
    /\ Asks(e)
    /\ tries + 1 < MaxJudgeAttempts
    /\ tries' = tries + 1
    /\ UNCHANGED <<vars, attempt, row, run, scores>>

\* ... and answered for with an empty text otherwise: the judge never raises.
JudgeFails(e) == Asks(e) /\ Scores(e, ParseScore("nothing"))

EvalNext ==
    \/ Step \/ Retry \/ GiveUp \/ Return \/ Check
    \/ \E e \in Judges :
        \/ Skip(e) \/ JudgeAgain(e) \/ JudgeFails(e)
        \/ \E raw \in Raw : Judge(e, raw)

EvalSpec == EvalInit /\ [][EvalNext]_allVars

\* The command is one process; its calls return or raise.
EvalFairSpec == EvalSpec /\ WF_allVars(EvalNext)
----------------------------------------------------------------------------
(* Properties. *)

\* run_eval.py:81: what is scored is the output of the run that is recorded: after a
\* failure the row, which may hold an earlier output, is not read, and the example
\* scores nothing above zero.
ScoresAreOfThisRun ==
    /\ run = "output" => node = "completed" /\ row = "this"
    /\ run = "error" => \A e \in DOMAIN scores : scores[e] \in {"unscored", "none", "zero"}

\* evaluators.py:58: the evaluators grade what the validator let through; a generation
\* that completed passes every deterministic one, so that False means it failed.
EvaluatorsAgree ==
    run = "output" => \A e \in Checks : scores[e] \in {"unscored", "full"}

EvalInvariant == EvalTypeOK /\ ScoresAreOfThisRun /\ EvaluatorsAgree

\* An upper bound on the steps an example has left: of a run of the graph, ...
GraphWorkLeft ==
    LET repairs == MaxRepairs - attempts
    IN  CASE node = "retrieve" -> 2 * repairs + 4
          [] node = "generate" -> 2 * repairs + 3
          [] node = "validate" -> 2 * repairs + 2
          [] node = "repair" -> 2 * repairs + 1
          [] node = "done" -> 1
          [] OTHER -> 0

\* ... of the runs that may follow it, ...
TargetWorkLeft ==
    IF run = "pending"
    THEN (MaxGenerateAttempts - attempt) * (2 * MaxRepairs + 5) + GraphWorkLeft + 1
    ELSE 0

\* ... and of the evaluators, a judge of which may be asked again.
JudgeLeft(e) == IF scores[e] = "unscored" THEN MaxJudgeAttempts ELSE 0

ScoringWorkLeft ==
    (IF \A e \in Checks : scores[e] = "unscored" THEN 1 ELSE 0)
        + JudgeLeft("groundedness") + JudgeLeft("specificity") + JudgeLeft("fact_fidelity")

WorkLeft == TargetWorkLeft + ScoringWorkLeft - tries

\* run_eval.py:36 and evaluators.py:127 retry in two nested ways, graph.py:203 in a third:
\* no step of an example is without an end, since each uses up some of what is left.
EveryStepCounts == [][WorkLeft' < WorkLeft]_allVars

\* What is left never falls below nothing, so that only so many steps can be taken.
WorkIsLeft == WorkLeft \in Nat

\* run_eval.py:38: an experiment gets to its end: each example is scored by every
\* evaluator, however generation and judge fail.
ExampleIsScored == <>(\A e \in DOMAIN scores : scores[e] # "unscored")
=============================================================================
