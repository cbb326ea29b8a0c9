----------------------------- MODULE MCReviewer -----------------------------
(***************************************************************************)
(* ReviewerProfile alone, for TLC.                                         *)
(***************************************************************************)
EXTENDS ReviewerProfile

\* A reliability good for nothing yet, and one good for every promotion.
Reliabilities == {{}, {"trusted", "specialist", "appeals"}}
=============================================================================
