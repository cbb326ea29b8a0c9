\* Leases that end under a pass, requests that are still at work when their event
\* is sent again, crashes, failed and unacknowledged writes, retries, a replay, a
\* decision and its corrections, and juries of the source's ladder.
SPECIFICATION MCSpec
CONSTANTS
  x = x
  y = y
  i = i
  j = j
  NoTask = NoTask
  NoRow = NoRow
  Unknown = Unknown
  NoDelivery = NoDelivery
  NoRequest = NoRequest
  NoAnnounced = NoAnnounced
  Reports = {i, j}
  Deliverable = {i, j}
  MaxRevision = 3
  Plan <- CorrectedPlan
  Originals <- Drafts
  Modes = {"automatic"}
  Repeats = 1
  Tasks = {x, y}
  MaxRowAttempts = 1
  MaxFaults = 1
  MaxTroubles = 1
  Endpoints = {"ep"}
  Announced = {"e1"}
  Workers = {x, y}
  Operators = {"op"}
  MaxDeliveryAttempts = 2
  ClientErrorMax = 1
  MaxReplays = 1
  MaxDeliveryFaults = 1
  Requests = {x, y}
  MaxAppFaults = 1
  Submissions = {i, j}
  Bodies <- Envelopes
  ReportsPerDay = 1
  MaxSends = 2
  Handlers = {x, y}
  MaxThrows = 1
  Sessions = {x, y}
  TrainingModules = {"m1", "m2"}
  Grades <- Reliabilities
  TrustedReviews = 1
  SpecialistReviews = 2
  AppealsReviews = 2
  MaxReviews = 2
  Positions = {"clear", "unclear", "insult", "threat"}
  FamilyOf <- Families
  Serious = {"threat"}
  Appealable = {"unclear", "insult", "threat", "inconclusive"}
  MaxRound = 3
  RoundSeats <- LadderSeats
  AgreeingVotes <- LadderVotes
  MinimumVotes <- VotesOfRisk
  AppealMinRound = 2
  MaxAppeals = 2
SYMMETRY Interchangeable
INVARIANTS
  DeliveryTypesOK
  AcceptedIsStored
  PublishedOnce
  SettledIsOnRecord
  HandledOnce
  DrawnAreQualified
  MajorityStandsBehind
  AppliedOnce
  AppliedDecisionStands
  ReversalRestoresUninterrupted
PROPERTIES
  SuccessIsFinal
  UnanimousAppealDecides
CHECK_DEADLOCK FALSE
