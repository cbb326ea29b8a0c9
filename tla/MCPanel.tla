------------------------------- MODULE MCPanel -------------------------------
(***************************************************************************)
(* Small instances of Panel for TLC.  The ladder keeps the shape of the    *)
(* source's: the first round must be unanimous, later ones need not be,    *)
(* each round adds to the last one's seats, and an appeal starts higher.   *)
(***************************************************************************)
EXTENDS Panel, TLC

CONSTANTS j1, j2, j3, j4, j5, w1, w2

\* Two jurors, then a specialist.
ShortLadder == << <<"general", "general">>, <<"general", "general", "specialist">> >>
ShortAppealLadder == 2 :> <<"general", "general", "specialist">>
ShortVotes == <<2, 2>>

Interchangeable == Permutations(Reviewers) \cup Permutations(Workers)
=============================================================================
