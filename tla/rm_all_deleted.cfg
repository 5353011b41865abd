SPECIFICATION Spec
CONSTANTS
  Incarnations = {1, 2}
  Release <- MCRelease
  CanaryPercent <- NoCanary
  Word = 65536
  ExtTests = {"disabled"}
  EligChoices = {TRUE}
  Timeouts = {FALSE}
  Schedules = {TRUE}
  Expirations = {FALSE}
  Events = {"fail"}
  CommitTTLs = {TRUE}
  MinimumRetired = 1
  Headers = {}
INVARIANTS
  OneRevisionKept
