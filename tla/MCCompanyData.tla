------------------------- MODULE MCCompanyData -------------------------
(* CompanyData with model values for companies and requests, for TLC. *)
EXTENDS CompanyData
=============================================================================
