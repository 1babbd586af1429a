CONSTANTS
  s1 = s1  s2 = s2  n1 = n1  n2 = n2  None = None
  Services = {s1, s2}
  IPs = {1, 2}
  Nodes = {n1}
  Pools <- TwoAddresses
  Namespace <- OwnNamespaces
  Name <- OneName
  SvcLag = 0
  AllocLag = 1
  Events = {"create", "delete"}
  MaxEvents = 2
  MaxFaults = 0
  MaxCrashes = 0
  VRIDsAtStart = FALSE
  SharedHost = TRUE
  SleepOutlastsLag = TRUE
SPECIFICATION Spec
INVARIANTS PublishedAddressHeld
CHECK_DEADLOCK FALSE
