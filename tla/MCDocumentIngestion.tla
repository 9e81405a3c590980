------------------------ MODULE MCDocumentIngestion -------------------------
(* DocumentIngestion on small sets, for TLC. *)
EXTENDS DocumentIngestion, TLC

Symmetry == Permutations(Jobs)
=============================================================================
