-------------------------- MODULE MCServiceTokens --------------------------
(* Two ensures and a prune of one service on node n1, next to an ensure on  *)
(* n2 where the deterministic token exists with a former policy.            *)
EXTENDS ServiceTokens

CONSTANTS n1, n2, e1, e2, e3, p1, t1, t2, t3, s1, s2, s3, s4, s5

MCServiceOf == [p \in Procs |-> "files"]
MCNodeOf == [p \in Procs |-> IF p = e3 THEN n2 ELSE n1]
MCPolicyOf == [p \in Procs |-> "files-policy"]
MCLegacyServices == [p \in Pruners |-> {"old-files"}]
MCHostnamesOf == [n \in Nodes |-> IF n = n1 THEN {"h1", "h1.lan"} ELSE {"h2"}]
MCLegacyDescription ==
  [t \in Legacy |->
     CASE t = t1 -> [service |-> "files",     hosts |-> {"h1", "h1.lan"}]
       [] t = t2 -> [service |-> "old-files", hosts |-> {"h1.lan"}]
       [] t = t3 -> [service |-> "files",     hosts |-> {"h2"}]]
MCExisting == {<<"files", n2>>}
MCInitialSecret ==
  [id \in Legacy \cup MCExisting |->
     CASE id = t1 -> s1 [] id = t2 -> s2 [] id = t3 -> s3 [] OTHER -> s4]
MCInitialLinks ==
  [id \in Legacy \cup MCExisting |->
     IF id \in MCExisting THEN {"old-policy"} ELSE {"files-policy"}]
=============================================================================
