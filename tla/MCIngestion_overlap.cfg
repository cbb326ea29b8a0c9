\* The handlers of two triage events of one case overlap.
SPECIFICATION IngestSpec
CONSTANTS
  Submissions = {"q1", "q2"}
  Bodies <- TwoTerms
  ReportsPerDay = 2
  MaxSends = 1
  Handlers = {"h1", "h2"}
  MaxThrows = 0
INVARIANTS
  PrivacyBinds
CHECK_DEADLOCK FALSE
