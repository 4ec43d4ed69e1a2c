CONSTANTS
  n1 = n1  n2 = n2
  e1 = e1  e2 = e2  e3 = e3  p1 = p1
  t1 = t1  t2 = t2  t3 = t3
  s1 = s1  s2 = s2  s3 = s3  s4 = s4  s5 = s5
  NoSecret = NoSecret
  Services = {"files"}
  FormerNames = {"old-files"}
  Nodes = {n1, n2}
  Policies = {"files-policy", "old-policy"}
  Hostnames = {"h1", "h1.lan", "h2"}
  Secrets = {s1, s2, s3, s4, s5}
  Legacy = {t1, t2, t3}
  Ensurers = {e1}
  Pruners = {p1}
  ServiceOf <- MCServiceOf
  NodeOf <- MCNodeOf
  PolicyOf <- MCPolicyOf
  LegacyServices <- MCLegacyServices
  HostnamesOf <- MCHostnamesOf
  LegacyDescription <- MCLegacyDescription
  Existing <- MCExisting
  InitialSecret <- MCInitialSecret
  InitialLinks <- MCInitialLinks
  MaxRuns = 1
SPECIFICATION Spec
INVARIANT LegacyUserKeepsToken
CHECK_DEADLOCK FALSE
