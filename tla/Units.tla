-------------------------------- MODULE Units --------------------------------
(* What the hosts promise of their service-discover units, however setups,  *)
(* resets, crashes and systemd interleave.  Consul comes up on a host only  *)
(* with a main.json, and as what LDAP says the host is; a server is entered *)
(* in LDAP only when it has its main.json, as the other servers count it    *)
(* from then on; and main.json is taken away only together with the unit.   *)
CONSTANT Hosts

VARIABLES
  servers,    \* the hosts that are servers, for good; the others are agents
  configured, \* the hosts with a main.json
  enrolled,   \* the hosts LDAP has as servers
  unit        \* of each host: "stopped", "starting" (or waiting for a
              \* restart), or "up"

vars == <<servers, configured, enrolled, unit>>

Init ==
  /\ servers \subseteq Hosts /\ configured \subseteq Hosts /\ enrolled \subseteq Hosts
  /\ unit \in [Hosts -> {"stopped", "starting"}]

(* A setup writes main.json where there is none.                            *)
Configure(h) ==
  /\ h \notin configured
  /\ configured' = configured \cup {h}
  /\ UNCHANGED <<servers, enrolled, unit>>

Enrol(h) ==
  /\ h \in servers \cap configured
  /\ enrolled' = enrolled \cup {h}
  /\ UNCHANGED <<servers, configured, unit>>

Start(h) ==
  /\ unit[h] = "stopped"
  /\ unit' = [unit EXCEPT ![h] = "starting"]
  /\ UNCHANGED <<servers, configured, enrolled>>

Up(h) ==
  /\ unit[h] = "starting" /\ h \in configured
  /\ h \in servers <=> h \in enrolled
  /\ unit' = [unit EXCEPT ![h] = "up"]
  /\ UNCHANGED <<servers, configured, enrolled>>

(* Consul ends, or the host goes down.                                      *)
Down(h) ==
  /\ \E label \in {"stopped", "starting"} : unit' = [unit EXCEPT ![h] = label]
  /\ UNCHANGED <<servers, configured, enrolled>>

(* The administrator resets the host; an entry in LDAP stays.               *)
Reset(h) ==
  /\ configured' = configured \ {h}
  /\ unit' = [unit EXCEPT ![h] = "stopped"]
  /\ UNCHANGED <<servers, enrolled>>

Next ==
  \E h \in Hosts :
    Configure(h) \/ Enrol(h) \/ Start(h) \/ Up(h) \/ Down(h) \/ Reset(h)

Spec == Init /\ [][Next]_vars

(* A host that runs has its main.json, and LDAP knows what it is.           *)
UpIsAsListed ==
  \A h \in Hosts : unit[h] = "up" =>
    h \in configured /\ (h \in servers <=> h \in enrolled)
=============================================================================
