\* Failed calls, dead processes and leases that lapse, under handlers too, races
\* between requests, and a pool that lasts, whatever jurors and handlers do to it.
SPECIFICATION MCSpec
CONSTANTS
  NoEvent = NoEvent
  OutboxEvents = {"o1"}
  Consumed = {"o1"}
  Runs = {"r1", "r2"}
  Limit = 1
  MaxAttempts = 3
  Lease = 1
  RetryBase = 1
  RetryMax = 2
  HandlerMax = 2
  RunMax = 2
  MaxRunCrashes = 1
  Reviewers = {"j1", "j2", "j3", "j4", "j5"}
  SlotTypes = {"general", "specialist"}
  Positions = {"violation", "no_violation"}
  MaxRound = 2
  Rounds <- FirstLadder
  AppealRounds <- AppealLadder
  AppealMinRound = 2
  RequiredVotes <- LadderVotes
  Workers = {"w1"}
  Overlap = FALSE
  MaxRevision = 1
  MaxVacated = 1
  MaxRefusals = 0
  MaxCrashes = 1
  NoPass = NoPass
  NoOne = NoOne
  NoNote = NoNote
  Cases = {"c1"}
  Passes = {"p1", "p2"}
  MaxEvents = 3
  MaxFailures = 1
  MaxRuns = 1
  Accounts = 2
  Forged = {1}
  Pullers = {"t1", "t2"}
  Erasers = {"x1", "x2"}
  Places = 2
  Paged = {1}
  Held = 2
  PageSize = 2
  MaxMishaps = 2
  Notes = {"n1"}
  Raters = {"a", "b"}
  Scorers = {"s1", "s2"}
  MinRatings = 1
  Fit <- Majority
  MaxNoteMishaps = 1
  Callers = {"k1", "k2"}
  Overlaps = {0, 2}
  MaxTime = 3
  MaxVersions = 3
INVARIANTS
  ServiceTypesOK
  ShownIsServable
  OxyRecordExact
  CursorNeverSkips
  CompletedIsErased
  HistoryTells
  SecretsOverlap
PROPERTIES
  EventuallySettled
  JuryDecides
  EventuallyReferenced
  EventuallyErased
CHECK_DEADLOCK FALSE
