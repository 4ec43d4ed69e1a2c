CONSTANTS
  s1 = s1  s2 = s2  a1 = a1
  None = None
  Servers = {s1, s2}
  Agents = {a1}
  Containers = {s2, a1}
  ForceFirst = {}
  StaleReads = FALSE
  MaxRuns <- MCServersTwice
SPECIFICATION Spec
INVARIANTS DoneIsInCluster KeyStaysWithFounder
PROPERTIES PublishedIsPermanent ImplementsUnits
CHECK_DEADLOCK FALSE
