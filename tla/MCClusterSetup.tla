--------------------------- MODULE MCClusterSetup ---------------------------
(* Every host is set up once, or the servers a second time too.             *)
EXTENDS ClusterSetup
CONSTANTS s1, s2, a1
MCOnce          == [h \in Hosts |-> 1]
MCServersTwice  == [h \in Hosts |-> IF h \in Servers THEN 2 ELSE 1]
=============================================================================
