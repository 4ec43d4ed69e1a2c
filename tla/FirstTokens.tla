---------------------------- MODULE FirstTokens ----------------------------
(* What ClusterSetup takes the last part of a first setup for: it waits for *)
(* a leader, bootstraps the ACL system and holds the token from then on,    *)
(* and installs an agent token, each in one step, or it fails.  The ACL     *)
(* system may still be bootstrapped, to nobody's use, when it has failed.   *)
VARIABLES
  step,      \* the next step of the setup
  acl,       \* whether the ACL system is bootstrapped
  installed  \* whether the host has an agent token

vars == <<step, acl, installed>>

Init == step = "leader" /\ acl \in BOOLEAN /\ installed = FALSE

WaitForConsulLeader ==
  step = "leader" /\ step' = "bootstrap" /\ UNCHANGED <<acl, installed>>

CreateACLBootstrapToken ==
  step = "bootstrap" /\ ~acl /\ step' = "token" /\ acl' = TRUE /\ UNCHANGED installed

InstallToken ==
  step = "token" /\ step' = "archive" /\ installed' = TRUE /\ UNCHANGED acl

Fail == step # "failed" /\ step' = "failed" /\ UNCHANGED <<acl, installed>>

Late == step = "failed" /\ acl' = TRUE /\ UNCHANGED <<step, installed>>

Next == WaitForConsulLeader \/ CreateACLBootstrapToken \/ InstallToken \/ Fail \/ Late

Spec == Init /\ [][Next]_vars
=============================================================================
