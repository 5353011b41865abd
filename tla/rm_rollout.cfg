SPECIFICATION Spec
CONSTANTS
  Incarnations = {1, 2}
  Release <- MCRelease
  CanaryPercent <- NoCanary
  Word = 65536
  ExtTests = {"disabled"}
  EligChoices = {TRUE, FALSE}
  Timeouts = {FALSE}
  Schedules = {TRUE}
  Expirations = {TRUE, FALSE}
  Events = {"delete", "recreate", "fail", "unfail"}
  CommitTTLs = {FALSE}
  MinimumRetired = 1
  Headers = {}
INVARIANTS
  TypeOK
  NoNilRevision
  RouteHasSubset
  NeverEligibleNeverServes
PROPERTIES
  DrainBeforeScaleDown
  StatusIsMesh
