------------------------ MODULE MCMaterialLifecycle ------------------------
(* MaterialLifecycle on small sets, for TLC. *)
EXTENDS MaterialRefinement
=============================================================================
