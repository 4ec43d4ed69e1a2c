--------------------------- MODULE MCAclBootstrap ---------------------------
(* Two agent tokens: one whose answer is lost, and the one of a retry.      *)
EXTENDS AclBootstrap
=============================================================================
