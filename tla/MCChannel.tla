------------------------------ MODULE MCChannel ------------------------------
(***************************************************************************)
(* Small instances of DecisionChannel for TLC.                             *)
(***************************************************************************)
EXTENDS DecisionChannel, TLC

CONSTANTS x, y

\* Passes and requests are interchangeable.
Interchangeable == Permutations({x, y})
=============================================================================
