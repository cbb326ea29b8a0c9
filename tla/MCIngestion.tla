----------------------------- MODULE MCIngestion -----------------------------
(***************************************************************************)
(* Small instances of Ingestion for TLC.                                   *)
(***************************************************************************)
EXTENDS Ingestion

\* Two reports of one subject, one of which withholds community review.
TwoTerms == {[external |-> 1, key |-> 1, kind |-> "open"],
             [external |-> 2, key |-> 2, kind |-> "private"]}
=============================================================================
