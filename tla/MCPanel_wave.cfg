\* Two workers evaluate the same panel after different events.
SPECIFICATION Spec
CONSTANTS
  j1 = j1
  j2 = j2
  j3 = j3
  j4 = j4
  j5 = j5
  w1 = w1
  w2 = w2
  Reviewers = {j1, j2, j3, j4}
  SlotTypes = {"general", "specialist"}
  Positions = {"violation", "no_violation"}
  MaxRound = 2
  Rounds <- ShortLadder
  AppealRounds <- ShortAppealLadder
  AppealMinRound = 2
  RequiredVotes <- ShortVotes
  Workers = {w1, w2}
  Overlap = FALSE
  MaxRevision = 1
  MaxVacated = 0
  MaxRefusals = 0
  MaxCrashes = 0
SYMMETRY Interchangeable
INVARIANTS
  OneWavePerRound
CHECK_DEADLOCK FALSE
