------------------------------ MODULE Directory ------------------------------
(* What the LDAP handler promises to those who use it: an operation takes   *)
(* effect at one moment between its call and its return, once or, when it   *)
(* fails, perhaps not at all; a read is answered with one whole state that  *)
(* the directory has had.  ClusterSetup uses LDAP as this module says.      *)
EXTENDS Integers, Sequences

CONSTANTS
  Clients,      \* running setups and daemons
  Servers,      \* servers known to the directory
  Contents,     \* what may be uploaded
  NoContent     \* nothing uploaded yet

VARIABLES
  history,  \* the states of the directory: enabled servers, and the content
  op,       \* the operation each client called last
  phase,    \* called, done or failed; idle before the first
  seen      \* which state of the directory a read was answered with

States == [enabled : SUBSET Servers, content : Contents \cup {NoContent}]

Operations ==
  [do : {"add", "remove"}, arg : Servers] \cup [do : {"upload"}, arg : Contents]
  \cup [do : {"query", "download", "checkread", "checkwrite"}, arg : {NoContent}]

Changes(o) == o.do \in {"add", "remove", "upload"}
Reads(o)   == o.do \in {"query", "download"}

(* The directory after an operation.                                        *)
Apply(o, d) ==
  CASE o.do = "add"    -> [d EXCEPT !.enabled = @ \cup {o.arg}]
    [] o.do = "remove" -> [d EXCEPT !.enabled = @ \ {o.arg}]
    [] o.do = "upload" -> [d EXCEPT !.content = o.arg]
    [] OTHER           -> d

Current == history[Len(history)]

Init ==
  /\ history \in {<<d>> : d \in States}
  /\ op \in [Clients -> {[do |-> "checkread", arg |-> NoContent]}]
  /\ phase = [c \in Clients |-> "idle"]
  /\ seen = [c \in Clients |-> 0]

Call(c) ==
  /\ phase[c] # "called"
  /\ \E o \in Operations : op' = [op EXCEPT ![c] = o]
  /\ phase' = [phase EXCEPT ![c] = "called"]
  /\ seen' = [seen EXCEPT ![c] = 0]
  /\ UNCHANGED history

(* The change and the answer are one step.  A change that is there already  *)
(* is not made again.                                                       *)
Succeed(c) ==
  /\ phase[c] = "called"
  /\ phase' = [phase EXCEPT ![c] = "done"]
  /\ \/ Changes(op[c]) /\ history' = Append(history, Apply(op[c], Current))
     \/ Apply(op[c], Current) = Current /\ UNCHANGED history
  /\ IF Reads(op[c]) THEN \E i \in DOMAIN history : seen' = [seen EXCEPT ![c] = i]
                     ELSE UNCHANGED seen
  /\ UNCHANGED op

(* The change may have been made although its answer is an error.           *)
Fail(c) ==
  /\ phase[c] = "called"
  /\ phase' = [phase EXCEPT ![c] = "failed"]
  /\ \/ Changes(op[c]) /\ history' = Append(history, Apply(op[c], Current))
     \/ UNCHANGED history
  /\ UNCHANGED <<op, seen>>

Next == \E c \in Clients : Call(c) \/ Succeed(c) \/ Fail(c)

Spec == Init /\ [][Next]_<<history, op, phase, seen>>
=============================================================================
