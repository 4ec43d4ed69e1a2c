----------------------------- MODULE LdapHandler -----------------------------
(* The LDAP handler (pkg/carbonio/ldap.go): setups and daemons of several   *)
(* hosts change and read one directory, whose masters and replicas come and *)
(* go, and whose replicas lag behind.                                       *)
(*                                                                          *)
(* An operation connects to the first URL that is reachable, binds there,   *)
(* and sends its requests over that connection.  Every request is one step: *)
(* it is applied atomically, or refused, or its answer is lost.             *)
EXTENDS Integers, Sequences

CONSTANTS
  Clients,      \* running setups and daemons
  MasterUrls,   \* ldap_master_url, in order
  ReplicaUrls,  \* ldap_url, in order
  Servers,      \* servers with an entry in the directory
  Contents,     \* what may be uploaded
  NoContent,    \* nothing uploaded yet
  MayCall,      \* the operations each client has a use for
  MaxCalls      \* bound: how many operations each client calls

Operations ==
  [do : {"add", "remove"}, arg : Servers] \cup [do : {"upload"}, arg : Contents]
  \cup [do : {"query", "download", "checkread", "checkwrite"}, arg : {NoContent}]

Masters  == {MasterUrls[i] : i \in DOMAIN MasterUrls}
Replicas == {ReplicaUrls[i] : i \in DOMAIN ReplicaUrls} \ Masters
Urls     == Masters \cup Replicas

ASSUME UrlsAssumption ==
  /\ MasterUrls \in Seq(Masters)
  /\ ReplicaUrls \in Seq(Urls)
  /\ NoContent \notin Contents \cup Servers
  /\ MayCall \in [Clients -> SUBSET Operations]
  /\ MaxCalls \in [Clients -> Nat]

VARIABLES
  (* the directory *)
  history,  \* its states: servers with the service enabled, and the content
  shown,    \* which of them each replica has got to
  up,       \* URLs that can be reached
  (* the operation each client runs *)
  op,       \* the operation
  pc,       \* its next step, or how it ended
  at,       \* index of the URL it tries or is connected to
  calls,    \* how many it has called
  (* history variables *)
  seen,     \* the state of the directory its search was answered with
  began,    \* number of states of the directory when it was called
  steady    \* URLs that could be reached ever since

client == <<op, pc, at, calls>>
past   == <<seen, began, steady>>
vars   == <<history, shown, up, op, pc, at, calls, seen, began, steady>>

States == [enabled : SUBSET Servers, content : Contents \cup {NoContent}]

Changes(o) == o.do \in {"add", "remove", "upload"}
Reads(o)   == o.do \in {"query", "download"}

Ended == {"idle", "done", "failed"}

(* Mutations of UrlsOf: replicas first; replicas for writing too; without   *)
(* replicas.                                                                *)
UrlsOfReplicasFirst(o) ==
  IF Changes(o) \/ o.do = "checkwrite" THEN MasterUrls ELSE ReplicaUrls \o MasterUrls

UrlsOfAll(o) == MasterUrls \o ReplicaUrls

UrlsOfMasters(o) == MasterUrls

(* connect: "we want to query masters before replicas to get a more         *)
(* consistent view", and only masters can be written to.                    *)
UrlsOf(o) ==
  IF Changes(o) \/ o.do = "checkwrite" THEN MasterUrls ELSE MasterUrls \o ReplicaUrls

Url(c) == UrlsOf(op[c])[at[c]]

Init ==
  /\ history \in {<<d>> : d \in States}
  /\ shown = [u \in Replicas |-> 1]
  /\ up \in SUBSET Urls
  /\ op = [c \in Clients |-> [do |-> "checkread", arg |-> NoContent]]
  /\ pc = [c \in Clients |-> "idle"]
  /\ at = [c \in Clients |-> 0]
  /\ calls = [c \in Clients |-> 0]
  /\ seen = [c \in Clients |-> 0]
  /\ began = [c \in Clients |-> 1]
  /\ steady = [c \in Clients |-> {}]

Goto(c, label) == pc' = [pc EXCEPT ![c] = label]
Current        == history[Len(history)]

(* The state a URL shows: masters agree on the current one.                 *)
Position(u) == IF u \in Masters THEN Len(history) ELSE shown[u]

-----------------------------------------------------------------------------
(* connect                                                                  *)

Call(c) ==
  /\ pc[c] \in Ended
  /\ calls[c] < MaxCalls[c]
  /\ calls' = [calls EXCEPT ![c] = @ + 1]
  /\ \E o \in MayCall[c] : op' = [op EXCEPT ![c] = o]
  /\ Goto(c, "connect")
  /\ at' = [at EXCEPT ![c] = 1]
  /\ seen' = [seen EXCEPT ![c] = 0]
  /\ began' = [began EXCEPT ![c] = Len(history)]
  /\ steady' = [steady EXCEPT ![c] = up]
  /\ UNCHANGED <<history, shown, up>>

AllTried(c) == at[c] > Len(UrlsOf(op[c]))

(* Mutations of Connect: a nil connection is used; the same URL is tried    *)
(* again.                                                                   *)
ConnectNil(c) ==
  /\ pc[c] = "connect"
  /\ IF AllTried(c) \/ Url(c) \in up THEN Goto(c, "bind") /\ UNCHANGED at
     ELSE at' = [at EXCEPT ![c] = @ + 1] /\ UNCHANGED pc
  /\ UNCHANGED <<history, shown, up, op, calls, past>>

ConnectAgain(c) ==
  /\ pc[c] = "connect"
  /\ Goto(c, IF AllTried(c) THEN "failed" ELSE IF Url(c) \in up THEN "bind" ELSE "connect")
  /\ UNCHANGED <<history, shown, up, op, at, calls, past>>

(* One turn of the loop: the first URL that answers is taken, and without   *)
(* one, or without any URL at all, the operation fails.                     *)
Connect(c) ==
  /\ pc[c] = "connect"
  /\ IF AllTried(c) THEN Goto(c, "failed") /\ UNCHANGED at
     ELSE IF Url(c) \in up THEN Goto(c, "bind") /\ UNCHANGED at
     ELSE at' = [at EXCEPT ![c] = @ + 1] /\ UNCHANGED pc
  /\ UNCHANGED <<history, shown, up, op, calls, past>>

(* The bind that follows the loop.  One that fails ends the operation, the  *)
(* next URL is not tried.  A check of the availability is over.             *)
Bind(c) ==
  /\ pc[c] = "bind"
  /\ \/ /\ Url(c) \in up
        /\ Goto(c, CASE op[c].do \in {"checkread", "checkwrite"} -> "done"
                     [] op[c].do = "upload" -> "modify"
                     [] OTHER -> "search")
     \/ Goto(c, "failed")
  /\ UNCHANGED <<history, shown, up, op, at, calls, past>>

-----------------------------------------------------------------------------
(* The requests.                                                            *)

(* modifyEnabledServices "check if already exist, other modify will fail".  *)
IsNeeded(o, d) ==
  \/ o.do = "add" /\ o.arg \notin d.enabled
  \/ o.do = "remove" /\ o.arg \in d.enabled

(* The search of a query answers with the servers that are enabled, that of *)
(* a download with the content, if there is one; add and remove look at the *)
(* entry first and have nothing more to do when it is as they want it.      *)
(* An entry not found ends them by an error, as any other does.             *)
Search(c) ==
  /\ pc[c] = "search"
  /\ \/ /\ Url(c) \in up
        /\ LET i == Position(Url(c)) IN
             /\ seen' = [seen EXCEPT ![c] = i]
             /\ IF Reads(op[c])
                THEN Goto(c, IF op[c].do = "download" /\ history[i].content = NoContent
                             THEN "failed" ELSE "done")
                ELSE Goto(c, IF IsNeeded(op[c], history[i]) THEN "modify" ELSE "done")
     \/ Goto(c, "failed") /\ UNCHANGED seen
  /\ UNCHANGED <<history, shown, up, op, at, calls, began, steady>>

(* The directory after a change.                                            *)
Apply(o, d) ==
  CASE o.do = "add"    -> [d EXCEPT !.enabled = @ \cup {o.arg}]
    [] o.do = "remove" -> [d EXCEPT !.enabled = @ \ {o.arg}]
    [] o.do = "upload" -> [d EXCEPT !.content = o.arg]
    [] OTHER           -> d

(* Another client may have made the change since the search: adding a value *)
(* that is there, or deleting one that is not, is refused.                  *)
Refused(o, d) == o.do # "upload" /\ ~IsNeeded(o, d)

(* Mutation of Modify: the former content is deleted by a request of its    *)
(* own.                                                                     *)
ModifyTwice(c) ==
  /\ pc[c] = "modify"
  /\ \/ /\ Url(c) \in up \cap Masters
        /\ ~Refused(op[c], Current)
        /\ IF op[c].do = "upload" /\ Current.content # NoContent
           THEN /\ history' = Append(history, [Current EXCEPT !.content = NoContent])
                /\ UNCHANGED pc
           ELSE /\ history' = Append(history, Apply(op[c], Current))
                /\ Goto(c, "done")
     \/ Goto(c, "failed") /\ UNCHANGED history
  /\ UNCHANGED <<shown, up, op, at, calls, past>>

(* A replica cannot be written to.                                          *)
Modify(c) ==
  /\ pc[c] = "modify"
  /\ \/ /\ Url(c) \in up \cap Masters
        /\ ~Refused(op[c], Current)
        /\ history' = Append(history, Apply(op[c], Current))
        /\ \E end \in {"done", "failed"} : Goto(c, end)
     \/ Goto(c, "failed") /\ UNCHANGED history
  /\ UNCHANGED <<shown, up, op, at, calls, past>>

-----------------------------------------------------------------------------
(* The directory itself.                                                    *)

Appear(u) ==
  /\ u \notin up
  /\ up' = up \cup {u}
  /\ UNCHANGED <<history, shown, client, past>>

Vanish(u) ==
  /\ u \in up
  /\ up' = up \ {u}
  /\ steady' = [c \in Clients |-> steady[c] \ {u}]
  /\ UNCHANGED <<history, shown, client, seen, began>>

Replicate(u) ==
  /\ shown[u] < Len(history)
  /\ shown' = [shown EXCEPT ![u] = @ + 1]
  /\ UNCHANGED <<history, up, client, past>>

Step(c) == Connect(c) \/ Bind(c) \/ Search(c) \/ Modify(c)

Next ==
  \/ \E c \in Clients : Call(c) \/ Step(c)
  \/ \E u \in Urls : Appear(u) \/ Vanish(u)
  \/ \E u \in Replicas : Replicate(u)

Spec == Init /\ [][Next]_vars

(* A dial has a timeout, and a server that was reached answers or breaks    *)
(* the connection: the code sets no other timeout.                          *)
FairSpec == Spec /\ \A c \in Clients : WF_vars(Step(c))

-----------------------------------------------------------------------------
(* Properties.                                                              *)

TypeOK ==
  /\ history \in Seq(States) /\ history # <<>>
  /\ shown \in [Replicas -> DOMAIN history]
  /\ up \subseteq Urls
  /\ op \in [Clients -> Operations]
  /\ pc \in [Clients -> Ended \cup {"connect", "bind", "search", "modify"}]
  /\ at \in [Clients -> Nat]
  /\ \A c \in Clients :
       /\ pc[c] = "connect" => at[c] >= 1
       /\ pc[c] \in {"bind", "search", "modify"} => at[c] \in DOMAIN UrlsOf(op[c])
  /\ calls \in [Clients -> Nat]
  /\ seen \in [Clients -> 0..Len(history)]
  /\ began \in [Clients -> DOMAIN history]
  /\ steady \in [Clients -> SUBSET up]

(* "we want to query masters before replicas to get a more consistent view":*)
(* a read is answered with a state the directory had since it was called,   *)
(* or no master could be reached all the time.                              *)
ReadsAreCurrent ==
  \A c \in Clients :
    pc[c] = "done" /\ Reads(op[c]) /\ steady[c] \cap Masters # {} => seen[c] >= began[c]

(* A change that reports success has been made, or was there: at some moment*)
(* since it was called the directory was as it wanted it.  No lagging       *)
(* replica and no other writer makes it report what never was.              *)
SuccessTookEffect ==
  \A c \in Clients : pc[c] = "done" /\ Changes(op[c]) =>
    \E i \in began[c]..Len(history) : Apply(op[c], history[i]) = history[i]

(* Whatever URLs come and go, one that is there all the time and that the   *)
(* operation may use is enough: an operation that never got to its bind has *)
(* found all of them away.                                                  *)
AnyUrlSuffices ==
  [][\A c \in Clients : pc[c] = "connect" /\ pc'[c] = "failed" =>
       steady[c] \cap (IF Changes(op[c]) \/ op[c].do = "checkwrite" THEN Masters ELSE Urls)
         = {}]_vars

(* Every operation comes to an end, though URLs come and go while it looks  *)
(* for one.                                                                 *)
OperationsEnd == \A c \in Clients : pc[c] \notin Ended ~> pc[c] \in Ended

-----------------------------------------------------------------------------
(* The promise of Directory, kept: looking for a URL, binding and looking   *)
(* at the entry are invisible.                                              *)
Promise == INSTANCE Directory WITH
  phase <- [c \in Clients |-> IF pc[c] \in Ended THEN pc[c] ELSE "called"],
  seen  <- [c \in Clients |-> IF pc[c] = "done" /\ Reads(op[c]) THEN seen[c] ELSE 0]

ImplementsDirectory == Promise!Spec

-----------------------------------------------------------------------------
(* Why: a URL the loop has passed over could not be reached at some moment, *)
(* and what is changed or looked at before a change is a master.            *)
PassedOver ==
  \A c \in Clients : pc[c] \notin Ended =>
    \A i \in DOMAIN UrlsOf(op[c]) : i < at[c] => UrlsOf(op[c])[i] \notin steady[c]

StepFits ==
  \A c \in Clients :
    /\ pc[c] = "search" => op[c].do \in {"add", "remove", "query", "download"}
    /\ pc[c] = "modify" => Changes(op[c])

LdapInv == TypeOK /\ PassedOver /\ StepFits /\ ReadsAreCurrent /\ SuccessTookEffect
=============================================================================
