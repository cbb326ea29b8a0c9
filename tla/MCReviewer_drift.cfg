\* A page that refreshes the session while it saves a change.
SPECIFICATION ProfileSpec
CONSTANTS
  Sessions = {"s1", "s2"}
  TrainingModules = {"m1"}
  Grades <- Reliabilities
  TrustedReviews = 1
  SpecialistReviews = 2
  AppealsReviews = 2
  MaxReviews = 2
INVARIANTS
  ConfidenceIsDerived
