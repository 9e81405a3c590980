----------------------- MODULE GenerationGraphProofs ------------------------
(* What a run of the generation graph, and an experiment that runs it again and *)
(* scores what it made, promise, for every template, model and number of repairs. *)
EXTENDS Evaluation, TLAPS

\* A trim is only tried when nothing but long texts is wrong, so that cutting them
\* leaves nothing wrong.
LEMMA TrimIsValid ==
    ASSUME NEW o \in Output, Trimmable(o, Errors(o))
    PROVE  /\ Errors(Trimmed(o, Errors(o))) = {}
           /\ Trimmed(o, Errors(o)) \in Output
           /\ \A f \in Fields :
                Trimmed(o, Errors(o)).text[f] =
                    IF f \in TooLong(o) THEN Kept(o.text[f], Limit[f]) ELSE o.text[f]
           /\ \A f \in TooLong(o) : Kept(o.text[f], Limit[f]) # {}
<1> DEFINE t == Trimmed(o, Errors(o))
<1>1. o.shape = "object" /\ o.stamped
  <2>1. Plain("structure") \notin Errors(o)
    BY DEF Trimmable, Plain
  <2> QED  BY <2>1 DEF Errors
<1>2. SourceErrors(o) = {} /\ "section_count" \notin o.flaws
  <2>1. Errors(o) = WordErrors(o) \cup SourceErrors(o)
    BY <1>1 DEF Errors
  <2>2. Plain("source") \notin Errors(o)
    BY DEF Trimmable, Plain
  <2>3. Plain("word_limit") \notin Errors(o)
    BY DEF Trimmable, Plain
  <2> QED  BY <2>1, <2>2, <2>3 DEF SourceErrors, WordErrors
<1>3. Errors(o) = {[category |-> "word_limit", path |-> f] : f \in TooLong(o)}
  BY <1>1, <1>2 DEF Errors, WordErrors
<1>4. \A f \in Fields : (\E e \in Errors(o) : e.path = f) <=> f \in TooLong(o)
  <2> SUFFICES ASSUME NEW f \in Fields
               PROVE  (\E e \in Errors(o) : e.path = f) <=> f \in TooLong(o)
    OBVIOUS
  <2>1. ASSUME NEW e \in Errors(o), e.path = f PROVE f \in TooLong(o)
    <3>1. PICK g \in TooLong(o) : e = [category |-> "word_limit", path |-> g]
      BY <1>3
    <3> QED  BY <2>1, <3>1
  <2>2. ASSUME f \in TooLong(o) PROVE \E e \in Errors(o) : e.path = f
    <3>1. [category |-> "word_limit", path |-> f] \in Errors(o)
      BY <1>3, <2>2
    <3> QED  BY <3>1
  <2> QED  BY <2>1, <2>2
<1>5. /\ t.text = [f \in Fields |->
                     IF f \in TooLong(o) THEN Kept(o.text[f], Limit[f]) ELSE o.text[f]]
      /\ t.shape = o.shape /\ t.stamped = o.stamped
      /\ t.flaws = o.flaws /\ t.cited = o.cited
      /\ t \in Output
  BY <1>4 DEF Trimmed, Output, Kept
<1>6. TooLong(t) = {}
  <2> SUFFICES ASSUME NEW f \in Fields, NEW end \in t.text[f], end > Limit[f]
               PROVE  FALSE
    BY DEF TooLong, Exceeds
  <2>1. CASE f \in TooLong(o)
    <3>1. end \in Nat /\ end <= Limit[f]
      BY <1>5, <2>1 DEF Kept, Output
    <3> QED  BY <3>1, LimitAssumption
  <2>2. CASE f \notin TooLong(o)
    BY <1>5, <2>2 DEF TooLong, Exceeds
  <2> QED  BY <2>1, <2>2
<1>7. Errors(t) = {}
  BY <1>1, <1>2, <1>5, <1>6 DEF Errors, WordErrors, SourceErrors
<1>8. \A f \in TooLong(o) : Kept(o.text[f], Limit[f]) # {}
  <2> SUFFICES ASSUME NEW f \in TooLong(o) PROVE Kept(o.text[f], Limit[f]) # {}
    OBVIOUS
  <2>1. [category |-> "word_limit", path |-> f] \in Errors(o)
    BY <1>3
  <2> QED  BY <2>1 DEF Trimmable
<1> QED  BY <1>5, <1>7, <1>8

\* The errors of an output are validation errors.
LEMMA ErrorsType == \A o \in Output : Errors(o) \subseteq ValidationError
BY DEF Errors, WordErrors, SourceErrors, TooLong, Plain, ValidationError, Category

\* What the model answers becomes an output by its stamp.
LEMMA StampType == \A a \in Answers : Stamp(a) \in Output
<1> SUFFICES ASSUME NEW a \in Answers PROVE Stamp(a) \in Output  OBVIOUS
<1>1. a \in [shape : Shape, flaws : SUBSET Flaw, text : [Fields -> SUBSET Nat],
             cited : SUBSET (SenderIds \cup ReceiverIds \cup {UnknownId}), stamped : {FALSE}]
  <2>1. CASE a \in [shape : {"object"}, flaws : SUBSET Flaw, text : [Fields -> Texts],
                    cited : SUBSET (SenderIds \cup ReceiverIds \cup {UnknownId}),
                    stamped : {FALSE}]
    <3>1. \A t \in Texts : t \subseteq Nat
      BY TextAssumption
    <3>2. a.text \in [Fields -> SUBSET Nat]
      BY <2>1, <3>1
    <3> QED  BY <2>1, <3>2 DEF Shape
  <2>2. CASE a \in [shape : Shape \ {"object"}, flaws : {{}}, text : [Fields -> {{}}],
                    cited : {{}}, stamped : {FALSE}]
    BY <2>2
  <2> QED  BY <2>1, <2>2 DEF Answers
<1> QED  BY <1>1 DEF Stamp, Output

\* An answer keeps every text: there is nothing yet to compare it with.
LEMMA AnswerStep ==
    ASSUME GraphInvariant, NEW a \in Answers, Ask(a, "validate"),
           calls' \in 0 .. MaxRepairs + 1, attempts' \in 0 .. MaxRepairs, CallsCounted'
    PROVE  GraphInvariant'
<1> USE DEF GraphInvariant
<1>1. TypeOK'
  BY StampType DEF Ask, TypeOK
<1>2. node' \in {"validate", "raised"}
  BY DEF Ask
<1>3. output' = answer' \/ (output' = output /\ answer' = answer)
  BY DEF Ask
<1>4. TrimSettles' /\ TrimKeepsBeginnings'
  <2>1. source_map' = source_map
    BY DEF Ask
  <2>2. CASE output' = answer'
    BY <2>2 DEF TrimSettles, TrimKeepsBeginnings
  <2>3. CASE output' = output /\ answer' = answer
    BY <2>1, <2>3 DEF TrimSettles, TrimKeepsBeginnings, Errors, WordErrors, SourceErrors, TooLong
  <2> QED  BY <1>3, <2>2, <2>3
<1> QED
  BY <1>1, <1>2, <1>4 DEF Schedule, CallsCounted, GivesUpLate, VerdictIsCurrent

\* A run starts in the invariant, ...
LEMMA GraphInit == Init => GraphInvariant
BY RepairAssumption
DEF Init, GraphInvariant, TypeOK, NoOutput, Output, Shape, Schedule, CallsCounted,
    GivesUpLate, VerdictIsCurrent, TrimSettles, TrimKeepsBeginnings

\* ... and every step keeps it.
LEMMA GraphStep == GraphInvariant /\ [Next]_vars => GraphInvariant'
<1> SUFFICES ASSUME GraphInvariant, [Next]_vars PROVE GraphInvariant'  OBVIOUS
<1> USE DEF GraphInvariant
<1>1. CASE Raises
  BY <1>1 DEF Raises, TypeOK, Schedule, CallsCounted, GivesUpLate, VerdictIsCurrent,
              TrimSettles, TrimKeepsBeginnings, Errors, WordErrors, SourceErrors, TooLong
<1>2. ASSUME NEW sender \in SUBSET SenderIds, NEW receiver \in SUBSET ReceiverIds,
             Retrieve(sender, receiver)
      PROVE  GraphInvariant'
  <2>1. TypeOK'
    BY <1>2 DEF Retrieve, TypeOK
  <2>2. output = answer
    BY <1>2 DEF Retrieve, Schedule
  <2> QED
    BY <1>2, <2>1, <2>2
    DEF Retrieve, Schedule, CallsCounted, GivesUpLate, VerdictIsCurrent,
        TrimSettles, TrimKeepsBeginnings
<1>3. ASSUME NEW a \in Answers, Generate(a) PROVE GraphInvariant'
  <2>1. calls' = 1 /\ attempts' = 0
    BY <1>3 DEF Generate, Ask, Schedule
  <2>2. /\ calls' \in 0 .. MaxRepairs + 1 /\ attempts' \in 0 .. MaxRepairs
        /\ CallsCounted'
    BY <2>1, RepairAssumption DEF CallsCounted
  <2> QED  BY <1>3, <2>2, AnswerStep DEF Generate
<1>4. ASSUME NEW a \in Answers, RepairByModel(a) PROVE GraphInvariant'
  <2>1. /\ calls' = calls + 1 /\ attempts' = attempts + 1 /\ attempts < MaxRepairs
        /\ attempts \in Nat /\ calls \in Nat
    BY <1>4, RepairAssumption DEF RepairByModel, Ask, Schedule, TypeOK
  <2>2. /\ calls' \in 0 .. MaxRepairs + 1 /\ attempts' \in 0 .. MaxRepairs
        /\ CallsCounted'
    BY <2>1, RepairAssumption DEF CallsCounted
  <2> QED  BY <1>4, <2>2, AnswerStep DEF RepairByModel
<1>5. CASE Validate
  <2>1. TypeOK'
    BY <1>5, ErrorsType DEF Validate, RouteAfterValidate, TypeOK
  <2>2. GivesUpLate' /\ Schedule' /\ CallsCounted'
    BY <1>5, RepairAssumption
    DEF Validate, RouteAfterValidate, GivesUpLate, Schedule, CallsCounted, TypeOK
  <2>3. Errors(output)' = Errors(output)
    BY <1>5 DEF Validate, Errors, WordErrors, SourceErrors, TooLong
  <2>4. VerdictIsCurrent' /\ TrimSettles' /\ TrimKeepsBeginnings'
    BY <1>5, <2>3
    DEF Validate, VerdictIsCurrent, TrimSettles, TrimKeepsBeginnings, TooLong
  <2> QED  BY <2>1, <2>2, <2>4
<1>6. CASE RepairByTrim
  <2>1. validation = Errors(output) /\ validation # {} /\ output = answer
    BY <1>6 DEF RepairByTrim, VerdictIsCurrent, Schedule, TrimSettles
  <2>2. output' = Trimmed(output, Errors(output)) /\ Trimmable(output, Errors(output))
    BY <1>6, <2>1 DEF RepairByTrim
  <2>3. output \in Output
    BY DEF TypeOK
  <2>4. /\ Errors(Trimmed(output, Errors(output))) = {}
        /\ output' \in Output
        /\ \A f \in Fields :
             output'.text[f] =
                 IF f \in TooLong(output) THEN Kept(output.text[f], Limit[f])
                 ELSE output.text[f]
        /\ \A f \in TooLong(output) : Kept(output.text[f], Limit[f]) # {}
    BY <2>2, <2>3, TrimIsValid
  <2>5. Errors(output)' = {}
    BY <1>6, <2>2, <2>4 DEF RepairByTrim, Errors, WordErrors, SourceErrors, TooLong
  <2>6. TrimSettles' /\ TrimKeepsBeginnings'
    BY <1>6, <2>1, <2>4, <2>5 DEF RepairByTrim, TrimSettles, TrimKeepsBeginnings, Kept, TooLong
  <2>7. attempts' = attempts + 1 /\ attempts < MaxRepairs /\ calls' = calls
    BY <1>6 DEF RepairByTrim, Schedule
  <2>8. TypeOK'
    BY <1>6, <2>4, <2>7, RepairAssumption DEF RepairByTrim, TypeOK
  <2> QED
    BY <1>6, <2>6, <2>7, <2>8, RepairAssumption
    DEF RepairByTrim, Schedule, CallsCounted, GivesUpLate, VerdictIsCurrent, TypeOK
<1>7. CASE Save
  BY <1>7 DEF Save, TypeOK, Schedule, CallsCounted, GivesUpLate, VerdictIsCurrent,
              TrimSettles, TrimKeepsBeginnings, Errors, WordErrors, SourceErrors, TooLong
<1>8. CASE UNCHANGED vars
  BY <1>8 DEF vars, TypeOK, Schedule, CallsCounted, GivesUpLate, VerdictIsCurrent,
              TrimSettles, TrimKeepsBeginnings, Errors, WordErrors, SourceErrors, TooLong
<1> QED  BY <1>1, <1>2, <1>3, <1>4, <1>5, <1>6, <1>7, <1>8 DEF Next
\* The invariant holds of every step of every run.
THEOREM GraphInvariantHolds == Spec => []GraphInvariant
BY GraphInit, GraphStep, PTL DEF Spec

\* The model is called at most once more than it may repair, whatever it answers, and a
\* run fails for an invalid output only when every attempt at repairing it was made.
THEOREM WorkIsBounded == Spec => []BoundedWork
<1>1. GraphInvariant => BoundedWork
  BY DEF GraphInvariant, BoundedWork
<1> QED  BY <1>1, GraphInvariantHolds, PTL

\* What a trim leaves of a text is a beginning of the model's text that fits.
THEOREM TrimsKeepBeginnings == Spec => []TrimKeepsBeginnings
<1>1. GraphInvariant => TrimKeepsBeginnings
  BY DEF GraphInvariant
<1> QED  BY <1>1, GraphInvariantHolds, PTL

\* A trim, once tried, settles the run: its output is valid.
THEOREM TrimsSettle == Spec => []TrimSettles
<1>1. GraphInvariant => TrimSettles
  BY DEF GraphInvariant
<1> QED  BY <1>1, GraphInvariantHolds, PTL

\* The verdict saved with an output is the verdict on that output.
THEOREM VerdictsAreCurrent == Spec => []VerdictIsCurrent
<1>1. GraphInvariant => VerdictIsCurrent
  BY DEF GraphInvariant
<1> QED  BY <1>1, GraphInvariantHolds, PTL

\* A valid output cites retrieved chunks only and keeps the limits, so that saving
\* its sources finds every one of them.
THEOREM ValidOutputsAreGrounded == Spec => []ValidIsGrounded
<1>1. GraphInvariant => ValidIsGrounded
  <2> SUFFICES ASSUME GraphInvariant, node = "done", validation = {}
               PROVE  /\ output.cited # {} /\ output.cited \subseteq source_map
                      /\ TooLong(output) = {} /\ "section_count" \notin output.flaws
    BY DEF ValidIsGrounded
  <2>1. Errors(output) = {}
    BY DEF GraphInvariant, VerdictIsCurrent
  <2>2. WordErrors(output) = {} /\ SourceErrors(output) = {}
    BY <2>1 DEF Errors
  <2>3. TooLong(output) = {}
    BY <2>2 DEF WordErrors
  <2> QED  BY <2>2, <2>3 DEF WordErrors, SourceErrors
<1> QED  BY <1>1, GraphInvariantHolds, PTL

\* What a completed run left in the row is its own, and valid; nothing is scored before
\* a run is recorded.
Outcome ==
    /\ node = "completed" => validation = {} /\ row = "this"
    /\ run = "pending" => \A e \in Checks \cup Judges : scores[e] = "unscored"

ExperimentInvariant == GraphInvariant /\ Outcome /\ EvalInvariant

\* Steps of the target: what is scored, if anything, is not scored yet.
LEMMA TargetStep ==
    ASSUME ExperimentInvariant, Step \/ Retry \/ GiveUp \/ Return
    PROVE  ExperimentInvariant'
<1> USE DEF ExperimentInvariant
<1>1. CASE Step
  <2>1. GraphInvariant'
    BY <1>1, GraphStep DEF Step
  <2>2. node' = "completed" => node = "done" /\ validation' = {}
    BY <1>1 DEF Step, Next, Raises, Retrieve, Generate, RepairByModel, Ask, Validate,
                RouteAfterValidate, RepairByTrim, Save, TypeOK, GraphInvariant
  <2> QED
    BY <1>1, <2>1, <2>2
    DEF Step, Outcome, EvalInvariant, EvalTypeOK, ScoresAreOfThisRun, EvaluatorsAgree
<1>2. CASE Retry
  <2>1. Init'
    BY <1>2 DEF Retry, Init
  <2>2. GraphInvariant'
    BY <2>1, GraphInit, PTL
  <2> QED
    BY <1>2, <2>2, AttemptsAssumption
    DEF Retry, Outcome, EvalInvariant, EvalTypeOK, ScoresAreOfThisRun, EvaluatorsAgree
<1>3. CASE GiveUp \/ Return
  <2>1. GraphInvariant'
    BY <1>3, GraphStep DEF GiveUp, Return
  <2>2. /\ Outcome' /\ EvalTypeOK'
        /\ DOMAIN scores = Checks \cup Judges
        /\ \A e \in Checks \cup Judges : scores'[e] = "unscored"
    BY <1>3 DEF GiveUp, Return, Outcome, EvalInvariant, EvalTypeOK, vars
  <2>3. run' = "output" => node' = "completed" /\ row' = "this"
    BY <1>3 DEF GiveUp, Return, Outcome, vars
  <2> QED
    BY <1>3, <2>1, <2>2, <2>3
    DEF GiveUp, Return, EvalInvariant, ScoresAreOfThisRun, EvaluatorsAgree
<1> QED  BY <1>1, <1>2, <1>3

\* A completed run passes every deterministic evaluator.
LEMMA CompletedPasses ==
    ASSUME ExperimentInvariant, node = "completed"
    PROVE  \A e \in Checks : Passes(e, output)
<1>1. Errors(output) = {}
  BY DEF ExperimentInvariant, Outcome, GraphInvariant, VerdictIsCurrent
<1>2. output.shape = "object" /\ output.stamped
  BY <1>1 DEF Errors
<1>3. WordErrors(output) = {} /\ SourceErrors(output) = {}
  BY <1>1 DEF Errors
<1>4. /\ output.cited # {} /\ output.cited \subseteq source_map
      /\ output.flaws \cap Flaw = {}
  BY <1>3 DEF WordErrors, SourceErrors, Flaw
<1> QED
  BY <1>2, <1>3, <1>4
  DEF Checks, Passes, SchemaValid, SourcesGrounded, CountsMatch, NoInlineCitations, Flaw

\* A score of an evaluator: whatever it is if there is an output, zero or none if not.
LEMMA ScoreStep ==
    ASSUME ExperimentInvariant, NEW e \in Judges, NEW score \in Score, Scores(e, score),
           run # "pending", run = "error" => score \in {"zero", "none"}
    PROVE  ExperimentInvariant'
<1> USE DEF ExperimentInvariant
<1>1. GraphInvariant'
  BY GraphStep DEF Scores
<1>2. /\ Outcome' /\ EvalTypeOK'
      /\ \A c \in Checks \cup Judges : scores'[c] = IF c = e THEN score ELSE scores[c]
      /\ DOMAIN scores = Checks \cup Judges /\ DOMAIN scores' = Checks \cup Judges
  <2>1. scores' = [scores EXCEPT ![e] = score] /\ e \in Checks \cup Judges
    BY DEF Scores
  <2>2. scores \in [Checks \cup Judges -> Score]
    BY DEF EvalInvariant, EvalTypeOK
  <2>3. tries' \in 0 .. MaxJudgeAttempts - 1
    BY AttemptsAssumption DEF Scores
  <2> QED
    BY <2>1, <2>2, <2>3 DEF Scores, Outcome, EvalInvariant, EvalTypeOK, vars
<1>3. \A c \in Checks : scores'[c] = scores[c]
  BY <1>2 DEF Checks, Judges
<1>4. ScoresAreOfThisRun'
  BY <1>2 DEF Scores, EvalInvariant, ScoresAreOfThisRun, vars
<1>5. EvaluatorsAgree'
  BY <1>3 DEF Scores, EvalInvariant, EvaluatorsAgree, vars
<1> QED  BY <1>1, <1>2, <1>4, <1>5 DEF EvalInvariant

\* Steps of the evaluators.
LEMMA EvaluatorStep ==
    ASSUME ExperimentInvariant,
           \/ Check
           \/ \E e \in Judges :
                Skip(e) \/ JudgeAgain(e) \/ JudgeFails(e) \/ \E raw \in Raw : Judge(e, raw)
    PROVE  ExperimentInvariant'
<1> USE DEF ExperimentInvariant
<1>1. CASE Check
  <2>1. GraphInvariant'
    BY <1>1, GraphStep DEF Check
  <2>2. /\ scores' \in [Checks \cup Judges -> Score]
        /\ \A e \in Checks \cup Judges : scores'[e] =
             IF e \notin Checks THEN scores[e]
             ELSE IF run = "output" /\ Passes(e, output) THEN "full" ELSE "zero"
        /\ DOMAIN scores = Checks \cup Judges
    BY <1>1 DEF Check, EvalInvariant, EvalTypeOK, Score
  <2>3. Outcome' /\ EvalTypeOK'
    BY <1>1, <2>2 DEF Check, Outcome, EvalInvariant, EvalTypeOK, vars
  <2>4. ScoresAreOfThisRun'
    BY <1>1, <2>2 DEF Check, EvalInvariant, ScoresAreOfThisRun, vars
  <2>5. EvaluatorsAgree'
    <3>1. run = "output" => \A e \in Checks : Passes(e, output)
      BY CompletedPasses DEF EvalInvariant, ScoresAreOfThisRun
    <3> QED  BY <1>1, <2>2, <3>1 DEF Check, EvaluatorsAgree
  <2> QED  BY <2>1, <2>3, <2>4, <2>5 DEF EvalInvariant
<1>2. ASSUME NEW e \in Judges, Skip(e) PROVE ExperimentInvariant'
  <2> DEFINE score == IF e = "fact_fidelity" /\ ~ ExpectedFacts THEN "none" ELSE "zero"
  <2>1. score \in Score /\ score \in {"zero", "none"}
    BY DEF Score
  <2>2. Scores(e, score) /\ run # "pending"
    BY <1>2 DEF Skip, Turn
  <2> HIDE DEF score
  <2> QED  BY <2>1, <2>2, ScoreStep
<1>3. ASSUME NEW e \in Judges, JudgeAgain(e) PROVE ExperimentInvariant'
  <2>1. GraphInvariant'
    BY <1>3, GraphStep DEF JudgeAgain
  <2>2. tries' \in 0 .. MaxJudgeAttempts - 1
    BY <1>3, AttemptsAssumption DEF JudgeAgain, EvalInvariant, EvalTypeOK
  <2> QED
    BY <1>3, <2>1, <2>2
    DEF JudgeAgain, Outcome, EvalInvariant, EvalTypeOK, ScoresAreOfThisRun,
        EvaluatorsAgree, vars
<1>4. ASSUME NEW e \in Judges, NEW raw \in Raw \cup {"nothing"}, Asks(e),
             Scores(e, ParseScore(raw))
      PROVE  ExperimentInvariant'
  <2>1. ParseScore(raw) \in Score
    BY DEF ParseScore, Raw, Score
  <2>2. run = "output"
    BY <1>4 DEF Asks
  <2> QED  BY <1>4, <2>1, <2>2, ScoreStep
<1> QED
  BY <1>1, <1>2, <1>3, <1>4 DEF JudgeFails, Judge

\* The invariant of an experiment.
THEOREM ExperimentInvariantHolds == EvalSpec => []ExperimentInvariant
<1>1. EvalInit => ExperimentInvariant
  BY GraphInit, AttemptsAssumption
  DEF EvalInit, Init, ExperimentInvariant, Outcome, EvalInvariant, EvalTypeOK,
      ScoresAreOfThisRun, EvaluatorsAgree, Score
<1>2. ExperimentInvariant /\ [EvalNext]_allVars => ExperimentInvariant'
  <2>1. ASSUME ExperimentInvariant, UNCHANGED allVars PROVE ExperimentInvariant'
    <3>1. GraphInvariant'
      BY <2>1, GraphStep DEF allVars, ExperimentInvariant
    <3> QED
      BY <2>1, <3>1
      DEF allVars, vars, evalVars, ExperimentInvariant, Outcome, EvalInvariant, EvalTypeOK,
          ScoresAreOfThisRun, EvaluatorsAgree
  <2> QED  BY <2>1, TargetStep, EvaluatorStep DEF EvalNext
<1> QED  BY <1>1, <1>2, PTL DEF EvalSpec

\* Only the output of the run that is recorded is scored, and a run recorded as failed
\* scores nothing above zero.
THEOREM ScoresBelongToTheirRun == EvalSpec => []ScoresAreOfThisRun
<1>1. ExperimentInvariant => ScoresAreOfThisRun
  BY DEF ExperimentInvariant, EvalInvariant
<1> QED  BY <1>1, ExperimentInvariantHolds, PTL

\* A recorded output passes every deterministic evaluator.
THEOREM EvaluatorsPassValidOutputs == EvalSpec => []EvaluatorsAgree
<1>1. ExperimentInvariant => EvaluatorsAgree
  BY DEF ExperimentInvariant, EvalInvariant
<1> QED  BY <1>1, ExperimentInvariantHolds, PTL
----------------------------------------------------------------------------
(* An example comes to its end: every step uses up some of the work left.   *)

\* A run of the graph has so much left, and no more than a new one.
LEMMA GraphWorkIsLeft ==
    ASSUME GraphInvariant
    PROVE GraphWorkLeft \in 0 .. 2 * MaxRepairs + 4
BY RepairAssumption DEF GraphInvariant, TypeOK, GraphWorkLeft

\* A step of the graph uses some of it up.
LEMMA GraphStepCounts ==
    ASSUME GraphInvariant, Next
    PROVE GraphWorkLeft' < GraphWorkLeft
<1>0. /\ attempts \in 0 .. MaxRepairs /\ MaxRepairs \in Nat
      /\ node = "repair" => attempts < MaxRepairs
  BY RepairAssumption DEF GraphInvariant, TypeOK, Schedule
<1>1. CASE Raises
  BY <1>0, <1>1 DEF Raises, GraphWorkLeft
<1>2. ASSUME NEW sender \in SUBSET SenderIds, NEW receiver \in SUBSET ReceiverIds,
             Retrieve(sender, receiver)
      PROVE GraphWorkLeft' < GraphWorkLeft
  BY <1>0, <1>2 DEF Retrieve, GraphWorkLeft
<1>3. ASSUME NEW a \in Answers, Generate(a) PROVE GraphWorkLeft' < GraphWorkLeft
  BY <1>0, <1>3 DEF Generate, Ask, GraphWorkLeft
<1>4. ASSUME NEW a \in Answers, RepairByModel(a) PROVE GraphWorkLeft' < GraphWorkLeft
  BY <1>0, <1>4 DEF RepairByModel, Ask, GraphWorkLeft
<1>5. CASE Validate
  <2>1. node = "validate" /\ node' \in {"done", "repair"} /\ attempts' = attempts
    BY <1>5 DEF Validate, RouteAfterValidate
  <2> QED BY <1>0, <2>1 DEF GraphWorkLeft
<1>6. CASE RepairByTrim
  BY <1>0, <1>6 DEF RepairByTrim, GraphWorkLeft
<1>7. CASE Save
  BY <1>0, <1>7 DEF Save, GraphWorkLeft
<1> QED BY <1>1, <1>2, <1>3, <1>4, <1>5, <1>6, <1>7 DEF Next

\* One run of the target less.
LEMMA RunsLeft ==
    ASSUME NEW n \in Nat, NEW a \in 1 .. n, NEW w \in Nat
    PROVE /\ (n - a) * w \in Nat
          /\ a < n => (n - (a + 1)) * w = (n - a) * w - w
<1>1. n - a \in Nat
  OBVIOUS
<1>2. \A k \in Nat : k * w \in Nat
  OBVIOUS
<1>3. \A k \in Nat : (k - 1) * w = k * w - w
  OBVIOUS
<1> QED BY <1>1, <1>2, <1>3

\* Failed calls are those of a judge that has not scored yet.
TriesAreOfAJudge == tries # 0 => \E e \in Judges : scores[e] = "unscored"

LEMMA PartsOfWork ==
    ASSUME ExperimentInvariant
    PROVE /\ TargetWorkLeft \in Nat /\ ScoringWorkLeft \in Nat /\ tries \in Nat
          /\ TriesAreOfAJudge => tries <= ScoringWorkLeft
<1>1. /\ MaxGenerateAttempts \in Nat /\ MaxJudgeAttempts \in Nat \ {0} /\ MaxRepairs \in Nat
      /\ attempt \in 1 .. MaxGenerateAttempts /\ tries \in 0 .. MaxJudgeAttempts - 1
  BY AttemptsAssumption, RepairAssumption DEF ExperimentInvariant, EvalInvariant, EvalTypeOK
<1>2. GraphWorkLeft \in Nat
  BY <1>1, GraphWorkIsLeft DEF ExperimentInvariant
<1>3. 2 * MaxRepairs + 5 \in Nat
  BY <1>1
<1>4. (MaxGenerateAttempts - attempt) * (2 * MaxRepairs + 5) \in Nat
  BY <1>1, <1>3, RunsLeft
<1>5. TargetWorkLeft \in Nat
  BY <1>2, <1>4 DEF TargetWorkLeft
<1>6. \A e \in Judges : JudgeLeft(e) \in Nat /\ (scores[e] = "unscored" => JudgeLeft(e) > tries)
  BY <1>1 DEF JudgeLeft
<1> QED BY <1>1, <1>5, <1>6 DEF ScoringWorkLeft, TriesAreOfAJudge, Judges

\* The work of the target while a run is pending; the evaluators have not begun.
LEMMA TargetStepCounts ==
    ASSUME ExperimentInvariant, Step \/ Retry \/ GiveUp \/ Return
    PROVE WorkLeft' < WorkLeft
<1> DEFINE W == 2 * MaxRepairs + 5
           R == (MaxGenerateAttempts - attempt) * W
<1>1. /\ MaxGenerateAttempts \in Nat /\ MaxRepairs \in Nat
      /\ attempt \in 1 .. MaxGenerateAttempts
  BY AttemptsAssumption, RepairAssumption DEF ExperimentInvariant, EvalInvariant, EvalTypeOK
<1>2. W \in Nat
  BY <1>1
<1>3. R \in Nat /\ (attempt < MaxGenerateAttempts =>
                        (MaxGenerateAttempts - (attempt + 1)) * W = R - W)
  <2> HIDE DEF W
  <2> QED BY <1>1, <1>2, RunsLeft
<1>4. GraphWorkLeft \in Nat
  BY <1>1, GraphWorkIsLeft DEF ExperimentInvariant
<1>5. run = "pending" /\ scores' = scores /\ tries' = tries
  BY DEF Step, Retry, GiveUp, Return
<1>6. ScoringWorkLeft' = ScoringWorkLeft /\ ScoringWorkLeft \in Nat /\ tries \in Nat
  BY <1>5, PartsOfWork DEF ScoringWorkLeft, JudgeLeft
<1>7. TargetWorkLeft = R + GraphWorkLeft + 1
  BY <1>5 DEF TargetWorkLeft
<1>8. TargetWorkLeft' < TargetWorkLeft /\ TargetWorkLeft' \in Nat
  <2>1. CASE Step
    <3>1. GraphWorkLeft' < GraphWorkLeft
      BY <2>1, GraphStepCounts DEF Step, ExperimentInvariant
    <3>2. GraphWorkLeft' \in Nat
      <4>1. GraphInvariant'
        BY <2>1, GraphStep DEF Step, ExperimentInvariant
      <4>2. /\ node' \in {"retrieve", "generate", "validate", "repair", "done",
                          "completed", "invalid", "raised"}
            /\ attempts' \in 0 .. MaxRepairs
        BY <4>1 DEF GraphInvariant, TypeOK
      <4> QED BY <4>2, <1>1 DEF GraphWorkLeft
    <3>3. TargetWorkLeft' = R + GraphWorkLeft' + 1
      BY <2>1 DEF Step, TargetWorkLeft
    <3>4. R \in Nat
      BY <1>3
    <3>5. \A r, g, h \in Nat : h < g => r + h + 1 < r + g + 1 /\ r + h + 1 \in Nat
      OBVIOUS
    <3> HIDE DEF R, W
    <3>6. R + GraphWorkLeft' + 1 < R + GraphWorkLeft + 1 /\ R + GraphWorkLeft' + 1 \in Nat
      BY <3>1, <3>2, <3>4, <3>5, <1>4
    <3> QED BY <3>3, <3>6, <1>7
  <2>2. CASE Retry
    <3>1. /\ node \in {"invalid", "raised"} /\ node' = "retrieve" /\ attempts' = 0
          /\ run' = "pending" /\ attempt' = attempt + 1 /\ attempt < MaxGenerateAttempts
      BY <2>2 DEF Retry
    <3>2. GraphWorkLeft = 0 /\ GraphWorkLeft' = 2 * MaxRepairs + 4
      BY <3>1, <1>1 DEF GraphWorkLeft
    <3>3. TargetWorkLeft' = (MaxGenerateAttempts - (attempt + 1)) * W + GraphWorkLeft' + 1
      BY <3>1 DEF TargetWorkLeft
    <3>4. TargetWorkLeft' = R - W + W /\ TargetWorkLeft = R + 1
      <4>1. TargetWorkLeft' = R - W + GraphWorkLeft' + 1
        BY <3>1, <3>3, <1>3
      <4>2. W = GraphWorkLeft' + 1 /\ GraphWorkLeft' \in Nat
        BY <3>2, <1>1
      <4> HIDE DEF R, W
      <4> QED BY <4>1, <4>2, <3>2, <1>2, <1>3, <1>7
    <3> HIDE DEF R, W
    <3> QED BY <3>4, <1>2, <1>3
  <2>3. CASE GiveUp \/ Return
    <3>1. TargetWorkLeft' = 0
      BY <2>3 DEF GiveUp, Return, TargetWorkLeft
    <3> HIDE DEF R
    <3> QED BY <3>1, <1>3, <1>4, <1>7
  <2> QED BY <2>1, <2>2, <2>3
<1> HIDE DEF R, W
<1>9. TargetWorkLeft \in Nat
  BY <1>3, <1>4, <1>7
<1>10. WorkLeft = TargetWorkLeft + ScoringWorkLeft - tries
  BY DEF WorkLeft
<1>11. WorkLeft' = TargetWorkLeft' + ScoringWorkLeft - tries
  BY <1>5, <1>6 DEF WorkLeft
<1>12. \A x, y, a, b \in Nat : x < y => x + a - b < y + a - b
  OBVIOUS
<1>13. TargetWorkLeft' + ScoringWorkLeft - tries < TargetWorkLeft + ScoringWorkLeft - tries
  BY <1>6, <1>8, <1>9, <1>12
<1> QED BY <1>10, <1>11, <1>13

\* The work of the evaluators; the target has none left.
LEMMA EvaluatorStepCounts ==
    ASSUME ExperimentInvariant,
           \/ Check
           \/ \E e \in Judges :
                Skip(e) \/ JudgeAgain(e) \/ JudgeFails(e) \/ \E raw \in Raw : Judge(e, raw)
    PROVE WorkLeft' < WorkLeft
<1>0. /\ MaxJudgeAttempts \in Nat \ {0} /\ tries \in 0 .. MaxJudgeAttempts - 1
      /\ scores \in [Checks \cup Judges -> Score]
  BY AttemptsAssumption DEF ExperimentInvariant, EvalInvariant, EvalTypeOK
<1>1. run # "pending" /\ run' = run
  BY DEF Check, Skip, JudgeAgain, JudgeFails, Judge, Scores, Asks, Turn
<1>2. TargetWorkLeft = 0 /\ TargetWorkLeft' = 0
  BY <1>1 DEF TargetWorkLeft
<1>3. CASE Check
  <2>1. \A e \in Checks \cup Judges : scores'[e] =
             IF e \notin Checks THEN scores[e]
             ELSE IF run = "output" /\ Passes(e, output) THEN "full" ELSE "zero"
    BY <1>3, <1>0 DEF Check
  <2>2. \A e \in Judges : JudgeLeft(e)' = JudgeLeft(e)
    BY <2>1 DEF JudgeLeft, Checks, Judges
  <2>3. \A e \in Judges : JudgeLeft(e) \in Nat
    BY <1>0 DEF JudgeLeft
  <2>4. (\A e \in Checks : scores[e] = "unscored") /\ ~ \A e \in Checks : scores'[e] = "unscored"
    BY <1>3, <2>1 DEF Check, Checks
  <2>5. ScoringWorkLeft' = ScoringWorkLeft - 1 /\ ScoringWorkLeft \in Nat
    BY <2>2, <2>3, <2>4 DEF ScoringWorkLeft, Judges
  <2>6. tries' = tries
    BY <1>3 DEF Check
  <2> QED BY <1>0, <1>2, <2>5, <2>6 DEF WorkLeft
<1>4. ASSUME NEW e \in Judges, JudgeAgain(e) PROVE WorkLeft' < WorkLeft
  <2>1. ScoringWorkLeft' = ScoringWorkLeft /\ tries' = tries + 1
    BY <1>4 DEF JudgeAgain, ScoringWorkLeft, JudgeLeft
  <2>2. ScoringWorkLeft \in Nat
    BY PartsOfWork
  <2> QED BY <1>0, <1>2, <2>1, <2>2 DEF WorkLeft
<1>5. ASSUME NEW e \in Judges, NEW score \in Score \ {"unscored"}, Turn(e), Scores(e, score)
      PROVE WorkLeft' < WorkLeft
  <2>1. /\ \A c \in Checks \cup Judges : scores'[c] = IF c = e THEN score ELSE scores[c]
        /\ scores[e] = "unscored" /\ tries' = 0
    BY <1>5, <1>0 DEF Scores, Turn
  <2>2. \A c \in Judges : JudgeLeft(c) \in Nat /\ JudgeLeft(c)' = IF c = e THEN 0 ELSE JudgeLeft(c)
    BY <1>0, <2>1 DEF JudgeLeft
  <2>3. JudgeLeft(e) = MaxJudgeAttempts
    BY <2>1 DEF JudgeLeft
  <2>4. (\A c \in Checks : scores'[c] = "unscored") <=> (\A c \in Checks : scores[c] = "unscored")
    BY <2>1 DEF Checks, Judges
  <2>5. ScoringWorkLeft' = ScoringWorkLeft - MaxJudgeAttempts /\ ScoringWorkLeft \in Nat
    BY <1>0, <2>2, <2>3, <2>4 DEF ScoringWorkLeft, Judges
  <2> QED BY <1>0, <1>2, <2>1, <2>5 DEF WorkLeft
<1>6. ASSUME NEW e \in Judges, Skip(e) PROVE WorkLeft' < WorkLeft
  <2> DEFINE score == IF e = "fact_fidelity" /\ ~ ExpectedFacts THEN "none" ELSE "zero"
  <2>1. score \in Score \ {"unscored"} /\ Turn(e) /\ Scores(e, score)
    BY <1>6 DEF Skip, Score
  <2> HIDE DEF score
  <2> QED BY <2>1, <1>5
<1>7. ASSUME NEW e \in Judges, NEW raw \in Raw, Asks(e), Scores(e, ParseScore(raw))
      PROVE WorkLeft' < WorkLeft
  <2>1. ParseScore(raw) \in Score \ {"unscored"}
    BY DEF ParseScore, Raw, Score
  <2> QED BY <2>1, <1>5, <1>7 DEF Asks
<1>8. "nothing" \in Raw
  BY DEF Raw
<1> QED BY <1>3, <1>4, <1>6, <1>7, <1>8 DEF JudgeFails, Judge

\* Generation is tried again, repaired and judged again in three nested ways, and every
\* step uses up some of the work left: for every number of repairs and attempts.
THEOREM ExamplesRunDown == EvalSpec => EveryStepCounts
<1>1. ExperimentInvariant /\ [EvalNext]_allVars => [WorkLeft' < WorkLeft]_allVars
  BY TargetStepCounts, EvaluatorStepCounts DEF EvalNext
<1> QED BY <1>1, ExperimentInvariantHolds, PTL DEF EvalSpec, EveryStepCounts

\* The work left is a natural number, so that steps that use it up come to an end.
THEOREM WorkStaysNatural == EvalSpec => []WorkIsLeft
<1>1. EvalInit => TriesAreOfAJudge
  BY DEF EvalInit, TriesAreOfAJudge
<1>2. ExperimentInvariant /\ TriesAreOfAJudge /\ [EvalNext]_allVars => TriesAreOfAJudge'
  <2> SUFFICES ASSUME ExperimentInvariant, TriesAreOfAJudge, [EvalNext]_allVars
               PROVE TriesAreOfAJudge'
    OBVIOUS
  <2>1. CASE Check
    <3>1. \A e \in Judges : scores'[e] = scores[e]
      BY <2>1 DEF Check, ExperimentInvariant, EvalInvariant, EvalTypeOK, Checks, Judges
    <3> QED BY <2>1, <3>1 DEF Check, TriesAreOfAJudge
  <2>2. ASSUME NEW e \in Judges, JudgeAgain(e) PROVE TriesAreOfAJudge'
    BY <2>2 DEF JudgeAgain, Asks, Turn, TriesAreOfAJudge
  <2>3. ASSUME NEW e \in Judges, Skip(e) \/ JudgeFails(e) \/ \E raw \in Raw : Judge(e, raw)
        PROVE TriesAreOfAJudge'
    BY <2>3 DEF Skip, JudgeFails, Judge, Scores, TriesAreOfAJudge
  <2>4. CASE Step \/ Retry \/ GiveUp \/ Return \/ UNCHANGED allVars
    BY <2>4 DEF Step, Retry, GiveUp, Return, allVars, evalVars, TriesAreOfAJudge
  <2> QED BY <2>1, <2>2, <2>3, <2>4 DEF EvalNext
<1>3. ExperimentInvariant /\ TriesAreOfAJudge => WorkIsLeft
  BY PartsOfWork DEF WorkIsLeft, WorkLeft
<1> QED BY <1>1, <1>2, <1>3, ExperimentInvariantHolds, PTL DEF EvalSpec
=============================================================================
