\* Leases that end under a handler, handlers that die or overlap, vacancies and an
\* appeal, and two deciders and two requests that race over three revisions.
SPECIFICATION MCSpec
CONSTANTS
  x = x
  y = y
  i = i
  j = j
  k1 = k1
  k2 = k2
  a1 = a1
  a2 = a2
  NoEvent = NoEvent
  OutboxEvents = {i, j}
  Consumed = {i, j}
  Runs = {x, y}
  Limit = 2
  MaxAttempts = 2
  Lease = 2
  RetryBase = 1
  RetryMax = 2
  HandlerMax = 1
  RunMax = 3
  MaxRunCrashes = 1
  Reviewers = {1, 2, 3, 4, 5}
  SlotTypes = {"general", "specialist"}
  Positions = {"violation", "no_violation"}
  MaxRound = 2
  Rounds <- ShortLadder
  AppealRounds <- ShortAppealLadder
  AppealMinRound = 2
  RequiredVotes <- ShortVotes
  Workers = {x, y}
  Overlap = TRUE
  MaxRevision = 2
  MaxVacated = 2
  MaxRefusals = 1
  MaxCrashes = 1
  DecisionOutcomes = {"violation", "no_violation"}
  Appealable = {"violation"}
  MaxCaseRevision = 3
  Deciders = {x, y}
  Filers = {i, j}
  Keys = {k1, k2}
  Payloads = {a1, a2}
SYMMETRY Interchangeable
INVARIANTS
  OneHandlerPerEvent
  CompletedWasHandled
  DeadLetterExhausted
  TypeOK
  JuryWasHeard
  DecisionHasQuorum
  JurorsServeOnce
  OneWaveUncrossed
  PanelKeepsItsSpec
  CaseTypeOK
  LedgerConsistent
  AppealsOpenRevisions
  EventsMatchRows
  StatusTells
  AnswersAreOwn
PROPERTIES
  SettledIsFinal
  ImplementsLedger
CHECK_DEADLOCK FALSE
