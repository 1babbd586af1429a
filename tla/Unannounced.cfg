CONSTANTS
  s1 = s1  s2 = s2  n1 = n1  n2 = n2  None = None
  Services = {s1, s2}
  IPs = {1, 2}
  Nodes = {n1}
  Pools <- TwoAddresses
  Namespace <- OwnNamespaces
  Name <- OneName
  SvcLag = 0
  AllocLag = 0
  Events = {"delete"}
  MaxEvents = 1
  MaxFaults = 1
  MaxCrashes = 0
  VRIDsAtStart = TRUE
  SharedHost = FALSE
  SleepOutlastsLag = TRUE
SPECIFICATION FairSpec
PROPERTIES AddressComesUp
CHECK_DEADLOCK FALSE
