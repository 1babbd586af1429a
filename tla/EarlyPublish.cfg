CONSTANTS
  s1 = s1  s2 = s2  n1 = n1  n2 = n2  None = None
  Services = {s1}
  IPs = {1}
  Nodes = {n1}
  Pools <- OneAddress
  Namespace <- OwnNamespaces
  Name <- OneName
  SvcLag = 0
  AllocLag = 1
  Events = {}
  MaxEvents = 0
  MaxFaults = 0
  MaxCrashes = 0
  VRIDsAtStart = TRUE
  SharedHost = FALSE
  SleepOutlastsLag = TRUE
SPECIFICATION FairSpec
PROPERTIES PublishAfterAnnounce
CHECK_DEADLOCK FALSE
