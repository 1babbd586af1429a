CONSTANTS
  c1 = c1  c2 = c2  c3 = c3  p1 = p1  p2 = p2
  None = None  Malformed = Malformed  NoData = NoData
  Clusters = {c1, c2, c3}
  Pods = {p1, p2}
  ClusterOf <- TwoPods
  MaxVRID = 7
  InitialFiles <- SomeFiles
  InitialMaps <- SomeMaps
  MaxFaults = 2
SPECIFICATION FairSpec
INVARIANTS VridTypeOK VRIDsExclusive RunningHasEntry
PROPERTIES VRIDsStable ImplementsRegistry AllStart OwnersStartAgain
CHECK_DEADLOCK FALSE
