\* Every revision arrives once the last was applied, and a flag follows a
\* restriction.
SPECIFICATION AppSpec
CONSTANTS
  NoTask = NoTask
  NoRow = NoRow
  Unknown = Unknown
  Reports = {"r1"}
  Deliverable = {"r1"}
  MaxRevision = 3
  Plan <- LabelledPlan
  Originals <- Drafts
  Modes = {"automatic"}
  Repeats = 1
  Tasks = {"t1"}
  MaxRowAttempts = 1
  MaxFaults = 0
  MaxTroubles = 0
INVARIANTS
  ReversalRestoresInTurn
CHECK_DEADLOCK FALSE
