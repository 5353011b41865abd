SPECIFICATION Spec
CONSTANTS
  Incarnations = {1, 2, 3}
  Release <- MCRelease
  CanaryPercent <- NoCanary
  Word = 65536
  ExtTests = {"disabled"}
  EligChoices = {TRUE}
  Timeouts = {FALSE}
  Schedules = {TRUE}
  Expirations = {FALSE}
  Events = {"fail"}
  CommitTTLs = {TRUE, FALSE}
  MinimumRetired = 1
  Headers = {}
PROPERTIES
  MarkedUnserved
  RollbackKept
