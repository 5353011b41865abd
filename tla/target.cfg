SPECIFICATION FairSpec
CONSTANTS
  Incarnations = {1, 2}
  Release <- MCRelease
  CanaryPercent <- MCCanary
  Word = 65536
  Ingresses <- MCIngresses
  Domains <- MCDomains
  BaseHost = "app"
  DevRoutesEnabled = TRUE
  Configs <- MCConfigs
  ServiceLevels = TRUE
  Ignorable = {"Namespace"}
  Events = {"delete", "fail", "unfail", "remove", "restart", "ignore"}
  MaxEvents = 1
INVARIANTS
  TypeOK
  NothingLeft
PROPERTIES
  NewestInjected
  WaypointKept
  RequestsLand
  WaypointFollows
  ReleaseSettles
