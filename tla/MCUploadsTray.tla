------------------------- MODULE MCUploadsTray -------------------------
(* UploadsTray with model values for the files, for TLC. *)
EXTENDS UploadsTray
=============================================================================
