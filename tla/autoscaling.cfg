SPECIFICATION FairSpec
CONSTANTS
  Incarnations = {1}
  Release <- MCRelease
  CanaryPercent <- MCCanary
  Word = 65536
  Clusters = {c1}
  IsLive <- MCLive
  Factor <- MCFactor
  Scalers = {"none", "hpa", "ambient", "worker", "keda"}
  Switches <- ToAmbient
  ScaleMin = 1
  ScaleDefault = 1
  ScaleMax = 2
  EventDriven = TRUE
  DatadogTrigger = TRUE
  RequestsRate = TRUE
  Sources = {"Secret"}
  OtherPods = 2
  Timeouts = {TRUE, FALSE}
  Schedules = {TRUE, FALSE}
  Events = {"create", "delete", "retract", "fail", "disable"}
  MaxEvents = 2
INVARIANTS
  TypeOK
  OneScaler
  RetiredStaysDown
  DeleteLeavesNothing
  BoundsAccepted
PROPERTIES
  DisabledStaysDown
  RolloutCompletes
