CONSTANTS
  s1 = s1  s2 = s2  a1 = a1
  None = None
  Servers = {s1, s2}
  Agents = {a1}
  Containers = {}
  ForceFirst = {}
  StaleReads = FALSE
  MaxRuns <- MCOnce
SPECIFICATION GoodSpec
PROPERTY SetupCompletes
CHECK_DEADLOCK FALSE
