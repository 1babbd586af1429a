CONSTANTS
  s1 = s1  s2 = s2  n1 = n1  c1 = c1  c2 = c2  http = http  None = None
  Malformed = Malformed
  Services = {s1, s2}
  IPs = {1, 2}
  Nodes = {n1}
  Pools <- TwoPools
  Namespace <- OwnNamespaces
  Name <- OneName
  Callers = {c1, c2}
  Ports = {http}
  StoredAtStart <- SomeTables
  VRIDsAtStart <- SomeVRIDs
  MaxDeaths = 1
  MaxFaults = 1
  SharedHost = FALSE
SPECIFICATION FairSpec
INVARIANTS LegacyTypeOK UsageAgrees OnlyStoredTakesEffect FilesCarryStoredPair
PROPERTIES SavingBlocks CallsReturn
CHECK_DEADLOCK FALSE
