\* A request and its retry race.
SPECIFICATION CaseSpec
CONSTANTS
  w1 = w1
  w2 = w2
  f1 = f1
  f2 = f2
  k1 = k1
  k2 = k2
  a1 = a1
  a2 = a2
  DecisionOutcomes = {"violation", "no_violation"}
  Appealable = {"violation"}
  MaxCaseRevision = 2
  Deciders = {w1}
  Filers = {f1, f2}
  Keys = {k1}
  Payloads = {a1}
SYMMETRY Interchangeable
PROPERTIES
  RetryNotRefused
