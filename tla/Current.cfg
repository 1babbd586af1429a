CONSTANTS
  s1 = s1  s2 = s2  n1 = n1  n2 = n2  None = None
  Services = {s1, s2}
  IPs = {1, 2}
  Nodes = {n1}
  Pools <- TwoAddresses
  Namespace <- OwnNamespaces
  Name <- OneName
  SvcLag = 1
  AllocLag = 0
  Events = {"delete", "retype"}
  MaxEvents = 2
  MaxFaults = 1
  MaxCrashes = 1
  VRIDsAtStart = TRUE
  SharedHost = TRUE
  SleepOutlastsLag = FALSE
SPECIFICATION Spec
INVARIANTS ConfigOwnsAddress NoLeakedAddress
PROPERTIES ImplementsLease ShownAddressStays
SYMMETRY Symmetry
CHECK_DEADLOCK FALSE
