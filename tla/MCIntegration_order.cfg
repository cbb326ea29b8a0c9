\* A revision may arrive before the one it corrects.
SPECIFICATION AppSpec
CONSTANTS
  NoTask = NoTask
  NoRow = NoRow
  Unknown = Unknown
  Reports = {"r1"}
  Deliverable = {"r1"}
  MaxRevision = 2
  Plan <- RemovedPlan
  Originals <- Drafts
  Modes = {"automatic"}
  Repeats = 1
  Tasks = {"t1", "t2"}
  MaxRowAttempts = 1
  MaxFaults = 0
  MaxTroubles = 0
INVARIANTS
  ReversalRestores
CHECK_DEADLOCK FALSE
