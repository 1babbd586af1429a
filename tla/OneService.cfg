CONSTANTS
  s1 = s1  s2 = s2  n1 = n1  n2 = n2  None = None
  Services = {s1}
  IPs = {1}
  Nodes = {n1, n2}
  Pools <- ScarcePool
  Namespace <- OwnNamespaces
  Name <- OneName
  SvcLag = 1
  AllocLag = 0
  Events = {"create", "delete", "retype", "edit", "ports", "endpoints", "pool"}
  MaxEvents = 2
  MaxFaults = 1
  MaxCrashes = 1
  VRIDsAtStart = FALSE
  SharedHost = TRUE
  SleepOutlastsLag = FALSE
SPECIFICATION FairSpec
INVARIANTS TypeOK IInv NoOrphanConfig NothingForgotten
PROPERTIES PublishAfterReload Provisioned DeletionUnserves DeletionEnds
CHECK_DEADLOCK FALSE
