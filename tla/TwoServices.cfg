CONSTANTS
  s1 = s1  s2 = s2  n1 = n1  n2 = n2  None = None
  Services = {s1, s2}
  IPs = {1}
  Nodes = {n1}
  Pools <- ScarcePool
  Namespace <- OwnNamespaces
  Name <- OneName
  SvcLag = 0
  AllocLag = 0
  Events = {"create", "delete", "ports", "pool", "resync"}
  MaxEvents = 3
  MaxFaults = 0
  MaxCrashes = 0
  VRIDsAtStart = TRUE
  SharedHost = TRUE
  SleepOutlastsLag = FALSE
SPECIFICATION FairSpec
PROPERTIES Provisioned DeletionUnserves DeletionEnds
CHECK_DEADLOCK FALSE
