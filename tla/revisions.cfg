SPECIFICATION FairSpec
CONSTANTS
  Targets <- MCTargets
  Accepting = {"production"}
  IgnoreSLOs = FALSE
  Sources <- MCSources
  Mirrors <- MCMirrors
  Others = {"other"}
  Worlds <- MCWorlds
  TTL = 2
  Latency = 1
  MaxEvents = 1
INVARIANTS
  TypeOK
  MirrorWhole
PROPERTIES
  FailedByRecentAlert
  TroubleFails
  ManagersReturn
