CONSTANTS
  m1 = m1  r1 = r1  c1 = c1  c2 = c2
  Clients = {c1, c2}
  MasterUrls <- MCMasterUrls
  ReplicaUrls <- MCReplicaUrls
  Servers = {s1}
  Contents = {k1}
  NoContent = NoContent
  MayCall <- MCMayCall
  MaxCalls <- MCMaxCalls
SPECIFICATION FairSpec
INVARIANTS TypeOK ReadsAreCurrent SuccessTookEffect
PROPERTIES AnyUrlSuffices OperationsEnd ImplementsDirectory
CHECK_DEADLOCK FALSE
