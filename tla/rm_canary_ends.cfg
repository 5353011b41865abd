SPECIFICATION Spec
CONSTANTS
  Incarnations = {1}
  Release <- MCRelease
  CanaryPercent <- EveryCanary
  Word = 65536
  ExtTests = {"disabled"}
  EligChoices = {TRUE}
  Timeouts = {FALSE}
  Schedules = {TRUE}
  Expirations = {FALSE}
  Events = {}
  CommitTTLs = {FALSE}
  MinimumRetired = 1
  Headers = {}
INVARIANTS
  CanaryEnds
