------------------------- MODULE MCGenerationGraph --------------------------
(* Evaluation, and the graph it runs, on small sets, for TLC. *)
EXTENDS Evaluation

\* Limits of two and one words: texts that fit, that can be cut and that cannot.
MCLimit == [f \in Fields |-> IF f = "headline" THEN 2 ELSE 1]

MCTexts == {{1}, {1, 2, 4}, {3}}
=============================================================================
