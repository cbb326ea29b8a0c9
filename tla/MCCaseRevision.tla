--------------------------- MODULE MCCaseRevision ---------------------------
(***************************************************************************)
(* Small instances of CaseRevision for TLC.                                *)
(***************************************************************************)
EXTENDS CaseRevision, TLC

CONSTANTS w1, w2, f1, f2, k1, k2, a1, a2

\* Workers, requests, keys and contents are each interchangeable.
Interchangeable ==
  Permutations(Deciders) \cup Permutations(Filers)
  \cup Permutations(Keys) \cup Permutations(Payloads)
=============================================================================
