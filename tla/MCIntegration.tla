---------------------------- MODULE MCIntegration ----------------------------
(***************************************************************************)
(* Small instances of Integration for TLC.                                 *)
(***************************************************************************)
EXTENDS Integration

\* A violation that removes the object, then its correction.
RemovedPlan == << <<"restrict">>, <<"restore", "unflag">> >>

\* A removal that a later revision labels as well, then the correction.
LabelledPlan == << <<"restrict">>, <<"flag">>, <<"restore", "unflag">> >>

Drafts == {[status |-> "draft", flagged |-> FALSE]}
=============================================================================
