CONSTANTS
  s1 = s1  s2 = s2  a1 = a1
  None = None
  Servers = {s1, s2}
  Agents = {}
  Containers = {}
  ForceFirst = {s1, s2}
  StaleReads = TRUE
  MaxRuns <- MCServersTwice
SPECIFICATION Spec
INVARIANTS TypeOK OneFoundingHost PublishedIsUsable
PROPERTY ImplementsCluster
CHECK_DEADLOCK FALSE
