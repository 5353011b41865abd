SPECIFICATION Spec
CONSTANTS
  N = 3
  Percents = {0, 10, 40, 50, 90, 100}
  Incarnations = {1, 2, 3}
  Release <- MCRelease
  CanaryPercent <- MCCanaryPercent
  Word = 65536
INVARIANTS
  TypeOK
  NeverPanics
  FullyAssigned
  OlderNeverGain
  CanaryBounded
  GainsOnlyThroughGate
  EligibilityLostOnlyWhenDrained
PROPERTIES
  ImplementsBudget
\* The loop ends.
CHECK_DEADLOCK FALSE
