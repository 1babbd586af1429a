CONSTANTS
  s1 = s1  s2 = s2  n1 = n1  n2 = n2  None = None
  Services = {s1, s2}
  IPs = {1, 2}
  Nodes = {n1}
  Pools <- TwoAddresses
  Namespace <- OwnNamespaces
  Name <- OneName
  SvcLag = 1
  AllocLag = 1
  Events = {"create", "delete", "retype", "edit"}
  MaxEvents = 2
  MaxFaults = 0
  MaxCrashes = 1
  VRIDsAtStart = TRUE
  SharedHost = TRUE
  SleepOutlastsLag = TRUE
SPECIFICATION Spec
INVARIANTS NoLeakedAddress PublishedAddressHeld ShownIsAnnounced
PROPERTIES ImplementsLease
SYMMETRY Symmetry
CHECK_DEADLOCK FALSE
