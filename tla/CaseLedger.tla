----------------------------- MODULE CaseLedger -----------------------------
(***************************************************************************)
(* What the decisions of one case promise its tenant: an append-only list  *)
(* of outcomes, at most one added per revision, and a new revision only    *)
(* when the last outcome may be appealed.                                  *)
(***************************************************************************)
EXTENDS Naturals, Sequences

CONSTANTS
  Outcomes,     \* DecisionOutcome
  Appealable,   \* APPEALABLE_OUTCOMES
  MaxRevision   \* bound: revisions a case may reach

VARIABLES
  ledger,   \* the outcomes published so far, oldest first
  awaiting  \* a decision is owed

vars == <<ledger, awaiting>>

TypeOK == ledger \in Seq(Outcomes) /\ awaiting \in BOOLEAN

Init == ledger = <<>> /\ awaiting = TRUE

\* The jury of the current revision is heard and its decision published.
Decide(o) ==
  /\ awaiting
  /\ ledger' = Append(ledger, o)
  /\ awaiting' = FALSE

\* An appeal is accepted against the last decision.
Appeal ==
  /\ ~awaiting
  /\ Len(ledger) < MaxRevision
  /\ ledger[Len(ledger)] \in Appealable
  /\ awaiting' = TRUE
  /\ UNCHANGED ledger

Next == (\E o \in Outcomes : Decide(o)) \/ Appeal

Spec == Init /\ [][Next]_vars
=============================================================================
