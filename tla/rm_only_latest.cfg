SPECIFICATION Spec
CONSTANTS
  Incarnations = {1, 2}
  Release <- SlowRelease
  CanaryPercent <- NoCanary
  Word = 65536
  ExtTests = {"disabled"}
  EligChoices = {TRUE}
  Timeouts = {FALSE}
  Schedules = {TRUE}
  Expirations = {FALSE}
  Events = {}
  CommitTTLs = {FALSE}
  MinimumRetired = 1
  Headers = {}
PROPERTIES
  OnlyLatestIncremented
