-------------------------- MODULE GenerationGraph ---------------------------
(***************************************************************************)
(* One run of the generation graph (materials/generation/graph.py) and of  *)
(* the code that asks it for an output and saves it: retrieve, generate,    *)
(* then validate and repair, until the output is valid or the attempts are  *)
(* used up.  MaterialLifecycle sees only how such a run ends.               *)
(*                                                                         *)
(* An output is what validation.py looks at.  The limited text fields       *)
(* (headline, subheadline, cta, the texts of the body sections) are given   *)
(* by the word positions at which their sentences end, which is all that    *)
(* counting words and dropping trailing sentences depends on: a text has    *)
(* more than n words iff a sentence ends after word n.  The rest is a set   *)
(* of flaws.  The model may answer anything, whatever the response schema   *)
(* it is given.                                                             *)
(***************************************************************************)
EXTENDS Naturals

CONSTANTS
    Fields,      \* the limited text fields of the template
    NoField,     \* an error without a path
    Limit,       \* the max_words of each field
    Texts,       \* the texts a field may have: sets of sentence ends
    SenderIds,   \* the source ids of the sender's top_k chunks
    ReceiverIds, \* the source ids of the receiver's top_k chunks
    UnknownId,   \* a reference to anything else, or without its used_fact
    MaxRepairs,  \* MATERIAL_MAX_REPAIR_ATTEMPTS
    CtaLink      \* the material has a cta_link

ASSUME FieldAssumption == NoField \notin Fields

\* serializers.py:18 CONSTRAINT_BOUNDS: a limit is at least one word.
ASSUME LimitAssumption == Limit \in [Fields -> Nat \ {0}]

\* A text has a sentence, and a sentence a word.
ASSUME TextAssumption == \A t \in Texts : t # {} /\ t \subseteq Nat \ {0}

ASSUME IdAssumption == UnknownId \notin SenderIds \cup ReceiverIds

ASSUME RepairAssumption == MaxRepairs \in Nat /\ CtaLink \in BOOLEAN

VARIABLES
    node,       \* the node to run next, or how the run ended
    source_map, \* the ids of the retrieved chunks
    answer,     \* the last stamped answer of the model, before any trim
    output,     \* the output in the graph's state
    validation, \* the errors of the last validation: valid iff there are none
    attempts,   \* repairs so far
    calls       \* calls of the model so far

vars == <<node, source_map, answer, output, validation, attempts, calls>>
----------------------------------------------------------------------------
(* The data. *)

\* "array": not an object; "string_article": article is no object; "malformed":
\* any other error of structure; "object": none.
Shape == {"array", "string_article", "malformed", "object"}

\* "section_count": another number of body sections than the template's;
\* "token": a source id within a text.
Flaw == {"section_count", "token"}

Output ==
    [shape : Shape,
     flaws : SUBSET Flaw,
     text : [Fields -> SUBSET Nat],
     cited : SUBSET (SenderIds \cup ReceiverIds \cup {UnknownId}),
     stamped : BOOLEAN]   \* template_id, theme and image_slots are the template's

\* What the model may return: template fields are not in its schema.  Nothing looks
\* at the contents of an answer whose structure is wrong.
Answers ==
    [shape : {"object"}, flaws : SUBSET Flaw, text : [Fields -> Texts],
     cited : SUBSET (SenderIds \cup ReceiverIds \cup {UnknownId}), stamped : {FALSE}]
    \cup
    [shape : Shape \ {"object"}, flaws : {{}}, text : [Fields -> {{}}],
     cited : {{}}, stamped : {FALSE}]

Category == {"structure", "word_limit", "image_slot", "source"}

ValidationError == [category : Category, path : Fields \cup {NoField}]

NoOutput == [shape |-> "malformed", flaws |-> {}, text |-> [f \in Fields |-> {}],
             cited |-> {}, stamped |-> FALSE]

TypeOK ==
    /\ node \in {"retrieve", "generate", "validate", "repair", "done",
                 "completed", "invalid", "raised"}
    /\ source_map \subseteq SenderIds \cup ReceiverIds
    /\ answer \in Output
    /\ output \in Output
    /\ validation \subseteq ValidationError
    /\ attempts \in 0 .. MaxRepairs
    /\ calls \in 0 .. MaxRepairs + 1
----------------------------------------------------------------------------
(* validation.py *)

Exceeds(text, limit) == \E end \in text : end > limit

TooLong(o) == {f \in Fields : Exceeds(o.text[f], Limit[f])}

\* An error without a path.
Plain(category) == [category |-> category, path |-> NoField]

WordErrors(o) ==
    {[category |-> "word_limit", path |-> f] : f \in TooLong(o)}
        \cup (IF "section_count" \in o.flaws THEN {Plain("word_limit")} ELSE {})

SourceErrorsUnknownAllowed(o) ==   \* mutant: unknown ids pass
    IF o.cited = {} \/ "token" \in o.flaws
    THEN {Plain("source")} ELSE {}

SourceErrors(o) ==
    IF \/ o.cited = {}
       \/ ~ o.cited \subseteq source_map
       \/ "token" \in o.flaws
    THEN {Plain("source")} ELSE {}

\* The image slots are the template's, or they are missing: an error of structure.
Errors(o) ==
    IF o.shape # "object" \/ ~ o.stamped
    THEN {Plain("structure")}
    ELSE WordErrors(o) \cup SourceErrors(o)

\* _drop_trailing_sentences: the sentences that end within the limit.
Kept(text, limit) == {end \in text : end <= limit}

TrimmableWithoutPath(o, errors) ==   \* mutant: the path is not required
    /\ errors # {}
    /\ \A e \in errors :
        /\ e.category = "word_limit"
        /\ e.path # NoField => Kept(o.text[e.path], Limit[e.path]) # {}

\* trim_to_word_limits: every error is a text too long, and a sentence of each fits.
Trimmable(o, errors) ==
    /\ errors # {}
    /\ \A e \in errors :
        /\ e.category = "word_limit"
        /\ e.path # NoField
        /\ Kept(o.text[e.path], Limit[e.path]) # {}

Trimmed(o, errors) ==
    [o EXCEPT !.text =
        [f \in Fields |->
            IF \E e \in errors : e.path = f THEN Kept(o.text[f], Limit[f]) ELSE o.text[f]]]
----------------------------------------------------------------------------
(* graph.py *)

Init ==
    /\ node = "retrieve"
    /\ source_map = {}
    /\ answer = NoOutput
    /\ output = NoOutput
    /\ validation = {}
    /\ attempts = 0
    /\ calls = 0

\* Embedding, search or model raises, which ends the run.
Raises ==
    /\ node \in {"retrieve", "generate", "repair"}
    /\ node' = "raised"
    /\ UNCHANGED <<source_map, answer, output, validation, attempts, calls>>

\* _require_chunks: a company without chunks ends the run.
Retrieve(sender, receiver) ==
    /\ node = "retrieve"
    /\ source_map' = sender \cup receiver
    /\ node' = IF sender = {} \/ receiver = {} THEN "raised" ELSE "generate"
    /\ UNCHANGED <<answer, output, validation, attempts, calls>>

\* _stamp writes template_id, theme and image_slots, and the cta_url if there is one:
\* an answer these cannot be written to raises.
Stampable(a) ==
    /\ a.shape # "array"
    /\ a.shape = "string_article" => ~ CtaLink

Stamp(a) == [a EXCEPT !.stamped = TRUE]

\* generate_structured, then the stamp.
Ask(a, next) ==
    /\ calls' = calls + 1
    /\ IF Stampable(a)
       THEN answer' = Stamp(a) /\ output' = Stamp(a) /\ node' = next
       ELSE node' = "raised" /\ UNCHANGED <<answer, output>>
    /\ UNCHANGED <<source_map, validation>>

Generate(a) ==
    /\ node = "generate"
    /\ Ask(a, "validate")
    /\ UNCHANGED attempts

\* route_after_validate, an edge of the graph taken at once.
RouteAfterValidateTooFar(errors) ==   \* mutant: one attempt too many
    IF errors = {} \/ attempts > MaxRepairs THEN "done" ELSE "repair"

RouteAfterValidate(errors) ==
    IF errors = {} \/ attempts >= MaxRepairs THEN "done" ELSE "repair"

Validate ==
    /\ node = "validate"
    /\ validation' = Errors(output)
    /\ node' = RouteAfterValidate(Errors(output))
    /\ UNCHANGED <<source_map, answer, output, attempts, calls>>

\* repair: in code if that is enough, ...
RepairByTrimUnchecked ==   \* mutant: the edge from a trim skips the validation
    /\ node = "repair"
    /\ Trimmable(output, validation)
    /\ output' = Trimmed(output, validation)
    /\ attempts' = attempts + 1
    /\ node' = "done"
    /\ UNCHANGED <<source_map, answer, validation, calls>>

RepairByTrim ==
    /\ node = "repair"
    /\ Trimmable(output, validation)
    /\ output' = Trimmed(output, validation)
    /\ attempts' = attempts + 1
    /\ node' = "validate"
    /\ UNCHANGED <<source_map, answer, validation, calls>>

\* ... by the model otherwise.
RepairByModel(a) ==
    /\ node = "repair"
    /\ ~ Trimmable(output, validation)
    /\ Ask(a, "validate")
    /\ attempts' = attempts + 1

\* service.py: a valid output is saved with a source row per reference, which is
\* looked up in source_map (a KeyError would end the run); an invalid one is kept
\* for the reader, and the run fails.
Save ==
    /\ node = "done"
    /\ node' = IF validation # {} THEN "invalid"
               ELSE IF output.cited \subseteq source_map THEN "completed" ELSE "raised"
    /\ UNCHANGED <<source_map, answer, output, validation, attempts, calls>>

Next ==
    \/ Raises
    \/ \E sender \in SUBSET SenderIds, receiver \in SUBSET ReceiverIds :
        Retrieve(sender, receiver)
    \/ node \in {"generate", "repair"} /\ \E a \in Answers : Generate(a) \/ RepairByModel(a)
    \/ Validate \/ RepairByTrim \/ Save

Spec == Init /\ [][Next]_vars
----------------------------------------------------------------------------
(* Properties. *)

\* graph.py:203: the loop ends when its repairs are used up, and not later: the model is
\* called at most once more than it may repair, whatever it answers and however trims
\* and repairs alternate; and not earlier: a run gives up on an output, and stores it as
\* invalid, only when every attempt has been made.
CallsCounted == calls <= attempts + 1 /\ attempts <= MaxRepairs

GivesUpLate == node \in {"done", "invalid"} /\ validation # {} => attempts = MaxRepairs

BoundedWork == CallsCounted /\ GivesUpLate

\* What is stored is what was validated: the verdict saved with an output is the
\* verdict on that output and not on the one before its repair.
VerdictIsCurrent == node \in {"repair", "done", "invalid", "completed"} => validation = Errors(output)

\* A repair in code settles the run: trimmed texts bring in no new error, so that a
\* trimmed output (one that is not the answer of the model) is valid.
TrimSettles == output # answer => Errors(output) = {}

\* Trimming changes texts that were too long only, and what is left of those is a
\* non-empty beginning of the model's text that fits: nothing is reworded.
TrimKeepsBeginnings ==
    \A f \in Fields :
        output.text[f] # answer.text[f] =>
            /\ f \in TooLong(answer)
            /\ output.text[f] # {}
            /\ output.text[f] = {end \in answer.text[f] : end <= Limit[f]}

\* service.py:143 "Source validation guarantees every cited id maps to a retrieved
\* chunk": the look-up of the sources of a valid output never raises, and that output
\* keeps the template's limits, through every repair and trim.
ValidIsGrounded ==
    node = "done" /\ validation = {} =>
        /\ output.cited # {} /\ output.cited \subseteq source_map
        /\ TooLong(output) = {} /\ "section_count" \notin output.flaws

\* What makes these inductive: where the run stands tells what it has used up.
Schedule ==
    /\ node \in {"retrieve", "generate"} => attempts = 0 /\ calls = 0 /\ output = answer
    /\ node = "repair" => attempts < MaxRepairs /\ validation # {}

GraphInvariant ==
    /\ TypeOK /\ Schedule /\ CallsCounted /\ GivesUpLate
    /\ VerdictIsCurrent /\ TrimSettles /\ TrimKeepsBeginnings
=============================================================================
