------------------------- MODULE MCMaterialEditing --------------------------
(* MaterialEditing on small sets, for TLC. *)
EXTENDS MaterialEditing, TLC

Symmetry == Permutations(Jobs)
=============================================================================
