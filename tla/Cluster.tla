------------------------------- MODULE Cluster -------------------------------
(* What the setups of all hosts together promise of the cluster, whoever    *)
(* races, fails or is set up again: whatever clusters are founded, one host *)
(* has made their keys; an ACL system and an agent token are those of a     *)
(* cluster with a member; and the credentials for everybody open a cluster. *)
EXTENDS Integers, Sequences

CONSTANTS
  Servers,  \* hosts that can be members
  Hosts,    \* all hosts
  None      \* no credentials yet

VARIABLES
  founders, \* of each cluster founded, the host whose keys it has
  acl,      \* the clusters whose ACL system was bootstrapped
  data,     \* the cluster each host is a member of, or 0
  token,    \* the cluster that issued its agent token, or 0
  opens     \* the cluster that the published credentials open, or None

vars == <<founders, acl, data, token, opens>>

Members(c) == {h \in Servers : data[h] = c}

Init ==
  /\ founders = <<>> /\ acl = {} /\ opens = None
  /\ data = [h \in Hosts |-> 0]
  /\ token = [h \in Hosts |-> 0]

(* Servers that know of no cluster found one, with the keys of the founder. *)
Found(some, founder) ==
  /\ some # {}
  /\ \A h \in some : data[h] = 0
  /\ \A c \in DOMAIN founders : founders[c] = founder
  /\ founders' = Append(founders, founder)
  /\ data' = [h \in Hosts |-> IF h \in some THEN Len(founders) + 1 ELSE data[h]]
  /\ UNCHANGED <<acl, token, opens>>

Join(h, c) ==
  /\ data[h] = 0 /\ Members(c) # {}
  /\ data' = [data EXCEPT ![h] = c]
  /\ UNCHANGED <<founders, acl, token, opens>>

Bootstrap(c) ==
  /\ c \notin acl /\ Members(c) # {}
  /\ acl' = acl \cup {c}
  /\ UNCHANGED <<founders, data, token, opens>>

Enrol(h, c) ==
  /\ c \in acl /\ Members(c) # {}
  /\ token' = [token EXCEPT ![h] = c]
  /\ UNCHANGED <<founders, acl, data, opens>>

Publish(c) ==
  /\ c \in acl
  /\ opens' = c
  /\ UNCHANGED <<founders, acl, data, token>>

Leave(h) ==
  /\ data' = [data EXCEPT ![h] = 0]
  /\ token' = [token EXCEPT ![h] = 0]
  /\ UNCHANGED <<founders, acl, opens>>

Next ==
  \/ \E some \in SUBSET Servers, founder \in Hosts : Found(some, founder)
  \/ \E c \in DOMAIN founders :
       \/ Bootstrap(c) \/ Publish(c)
       \/ \E h \in Hosts : Join(h, c) \/ Enrol(h, c)
  \/ \E h \in Hosts : Leave(h)

Spec == Init /\ [][Next]_vars
=============================================================================
