-------------------------- MODULE ServiceIdentity --------------------------
(* What the service-token commands promise, without processes or requests:  *)
(* a service on a node gets one secret for good, its token file never holds *)
(* anything later but that secret, and the legacy tokens it had are retired *)
(* only when it has one (pkg/command/service_token.go:37-49 and :170-176).  *)
CONSTANTS
  Keys,      \* a service on a node
  Secrets,   \* SecretIDs
  NoSecret,
  Legacy,    \* tokens of the old setup scripts
  Replaces   \* <<k, t>>: the token of k may stand in for legacy token t

VARIABLES
  issued,    \* the secret of each service on each node
  legacy,    \* the legacy tokens that still exist
  file       \* the content of the token file

vars == <<issued, legacy, file>>

Init ==
  /\ issued \in [Keys -> Secrets \cup {NoSecret}]
  /\ legacy \subseteq Legacy
  /\ file \in [Keys -> Secrets \cup {NoSecret}]

Issue(k) ==
  /\ issued[k] = NoSecret
  /\ \E s \in Secrets :
       /\ \A l \in Keys : issued[l] # s
       /\ issued' = [issued EXCEPT ![k] = s]
  /\ UNCHANGED <<legacy, file>>

Publish(k) ==
  /\ issued[k] # NoSecret
  /\ file' = [file EXCEPT ![k] = issued[k]]
  /\ UNCHANGED <<issued, legacy>>

Retire(k, t) ==
  /\ issued[k] # NoSecret
  /\ <<k, t>> \in Replaces
  /\ legacy' = legacy \ {t}
  /\ UNCHANGED <<issued, file>>

Next == \E k \in Keys : Issue(k) \/ Publish(k) \/ \E t \in legacy : Retire(k, t)

Spec == Init /\ [][Next]_vars
=============================================================================
