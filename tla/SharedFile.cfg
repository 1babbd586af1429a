CONSTANTS
  s1 = s1  s2 = s2  n1 = n1  n2 = n2  None = None
  Services = {s1, s2}
  IPs = {1, 2}
  Nodes = {n1}
  Pools <- TwoAddresses
  Namespace <- TeamNamespaces
  Name <- TeamNames
  SvcLag = 0
  AllocLag = 0
  Events = {"create", "delete"}
  MaxEvents = 2
  MaxFaults = 0
  MaxCrashes = 0
  VRIDsAtStart = TRUE
  SharedHost = FALSE
  SleepOutlastsLag = TRUE
SPECIFICATION Spec
INVARIANTS PublishedIsServed
CHECK_DEADLOCK FALSE
