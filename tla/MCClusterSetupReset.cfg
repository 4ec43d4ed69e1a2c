CONSTANTS
  s1 = s1  s2 = s2  a1 = a1
  None = None
  Servers = {s1}
  Agents = {}
  Containers = {}
  ForceFirst = {}
  StaleReads = FALSE
  MaxRuns <- MCServersTwice
SPECIFICATION Spec
INVARIANT ResetAllowsRetry
CHECK_DEADLOCK FALSE
