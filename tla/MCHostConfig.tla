---------------------------- MODULE MCHostConfig ----------------------------
(* A host with two network cards and a loopback interface, in several       *)
(* orders, and with two interfaces of the name of the loopback.  The host   *)
(* has not the address far.                                                 *)
EXTENDS HostConfig
CONSTANTS lo, eth, wlan, far
MCNetworks ==
  {<<lo, eth>>, <<eth, lo, wlan>>, <<eth, wlan, lo>>, <<lo, lo, eth>>, <<lo, eth, lo>>}
=============================================================================
