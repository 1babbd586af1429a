CONSTANTS
  s1 = s1  s2 = s2  n1 = n1  n2 = n2  None = None
  Services = {s1}
  IPs = {1, 2}
  Nodes = {n1}
  Pools <- TwoAddresses
  Namespace <- OwnNamespaces
  Name <- OneName
  SvcLag = 1
  AllocLag = 0
  Events = {"create", "delete"}
  MaxEvents = 2
  MaxFaults = 0
  MaxCrashes = 0
  VRIDsAtStart = TRUE
  SharedHost = TRUE
  SleepOutlastsLag = FALSE
SPECIFICATION FairSpec
PROPERTIES DeletionCompletes
CHECK_DEADLOCK FALSE
