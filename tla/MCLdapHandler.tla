---------------------------- MODULE MCLdapHandler ----------------------------
(* One master and one replica, in the order the local configuration names   *)
(* them.  One client calls two operations while another calls one.          *)
EXTENDS LdapHandler
CONSTANTS m1, r1, c1, c2
MCMasterUrls  == <<m1>>
MCReplicaUrls == <<r1>>
MCMayCall ==
  [c \in Clients |->
     {o \in Operations : o.do \in IF c = c1 THEN {"add", "query", "download", "checkread"}
                                           ELSE {"add", "remove", "upload", "checkwrite"}}]
MCMaxCalls    == [c \in Clients |-> IF c = c1 THEN 2 ELSE 1]
=============================================================================
