SPECIFICATION Spec
CONSTANTS
  Incarnations = {1, 2}
  Release <- MCRelease
  CanaryPercent <- EveryCanary
  Word = 65536
  ExtTests = {"disabled", "pending"}
  EligChoices = {TRUE}
  Timeouts = {TRUE, FALSE}
  Schedules = {TRUE, FALSE}
  Expirations = {FALSE}
  Events = {"delete", "fail"}
  CommitTTLs = {FALSE}
  MinimumRetired = 1
  Headers = {2}
INVARIANTS
  TestedBeforeTraffic
  CanaryRulesRemoved
PROPERTIES
  DrainUnlessAlone
