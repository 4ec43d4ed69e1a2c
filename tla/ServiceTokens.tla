--------------------------- MODULE ServiceTokens ---------------------------
(* The ACL token of a service: `service-token ensure` and                   *)
(* `service-token prune-legacy` (pkg/command/service_token.go), run by any  *)
(* number of processes on any number of nodes against one Consul ACL store. *)
(*                                                                          *)
(* Every request to Consul is one step: it takes effect atomically at the   *)
(* servers, and its answer may be lost, so that the caller sees an error    *)
(* although the request was applied.  Between two requests of one process   *)
(* every other process may run, and what a process has read goes stale.     *)
EXTENDS FiniteSets, Naturals

CONSTANTS
  Services,       \* services
  FormerNames,    \* names services had in the old setup scripts
  Nodes,          \* Consul nodes
  Policies,       \* ACL policies
  Hostnames,      \* names hosts are known by
  Secrets,        \* SecretIDs Consul may generate
  NoSecret,       \* no such token or no such file
  Legacy,         \* AccessorIDs (random UUIDs) the old setup scripts created
  Ensurers,       \* processes running `service-token ensure`
  Pruners,        \* processes running `service-token prune-legacy`
  ServiceOf,      \* the --service of a process
  NodeOf,         \* the node a process runs on
  PolicyOf,       \* the --policy of a process
  LegacyServices, \* the --legacy-service names of a pruner
  HostnamesOf,    \* the names localHostnames can find on a node
  LegacyDescription, \* of a legacy token: the service and the hosts it names
  Existing,       \* deterministic tokens of earlier installations
  InitialSecret,  \* the secret of every token that exists at the start
  InitialLinks,   \* and the policies linked to it
  MaxRuns         \* bound: how often one process is started

Procs == Ensurers \cup Pruners
Keys  == Services \X Nodes
IDs   == Keys \cup Legacy

ASSUME ProcsAssumption ==
  /\ Ensurers \cap Pruners = {}
  /\ ServiceOf \in [Procs -> Services]
  /\ NodeOf \in [Procs -> Nodes]
  /\ PolicyOf \in [Procs -> Policies]
  /\ LegacyServices \in [Pruners -> SUBSET (Services \cup FormerNames)]
  /\ MaxRuns \in Nat

ASSUME TokensAssumption ==
  /\ NoSecret \notin Secrets
  /\ Legacy \cap Keys = {}
  /\ Existing \subseteq Keys
  /\ InitialSecret \in [Legacy \cup Existing -> Secrets]
  /\ \A i, j \in Legacy \cup Existing :
        InitialSecret[i] = InitialSecret[j] => i = j
  /\ InitialLinks \in [Legacy \cup Existing -> SUBSET Policies]
  /\ LegacyDescription \in
        [Legacy -> [service : Services \cup FormerNames,
                    hosts   : (SUBSET Hostnames) \ {{}}]]

(* `hostname -A` and localHostnames name a host by the addresses of its     *)
(* interfaces: two nodes have no such name in common.                       *)
ASSUME HostnamesAssumption ==
  /\ HostnamesOf \in [Nodes -> SUBSET Hostnames]
  /\ \A m, n \in Nodes : m # n => HostnamesOf[m] \cap HostnamesOf[n] = {}
  /\ \A t \in Legacy : \E n \in Nodes :
        LegacyDescription[t].hosts \subseteq HostnamesOf[n]

VARIABLES
  live,     \* AccessorIDs of the tokens in Consul
  secret,   \* SecretID of each token
  links,    \* policies linked to each token
  file,     \* content of the token file of a service on a node
  pc,       \* where each process is
  runs,     \* how often each process was started
  access,   \* what CONSUL_HTTP_TOKEN of a process may do
  got,      \* the token a process holds in memory
  tmp,      \* content of the temporary token file of a process
  hosts,    \* what localHostnames returned to a pruner
  todo,     \* listed tokens a pruner has not deleted yet
  ensured   \* history: <<key, policy>> of the ensures that succeeded

store == <<live, secret, links>>
vars  == <<live, secret, links, file, pc, runs, access, got, tmp, hosts, todo,
           ensured>>

Token   == [secret : Secrets \cup {NoSecret}, policies : SUBSET Policies]
NoToken == [secret |-> NoSecret, policies |-> {}]

(* Mutation of AccessorID: the identity leaves the node out.                *)
AccessorIDOfService(service, node) == <<service, CHOOSE n \in Nodes : TRUE>>

(* uuid5(service/node): equal for equal pairs and for no others.            *)
AccessorID(service, node) == <<service, node>>
Current(p) == AccessorID(ServiceOf[p], NodeOf[p])

(* The service on a node that a process works for, and its token file.      *)
Home(p) == <<ServiceOf[p], NodeOf[p]>>

Ended   == {"idle", "done", "failed", "crashed"}
Running == {"read", "create", "adopt", "update", "temp", "rename",
            "check", "list", "delete"}
Access  == {"none", "read", "write", "revoked"}

(* A description "Token for svc/host1 host2" names one service and some     *)
(* hosts.  "carbonio/svc/node" is cut at its first slash, and "svc/node" is *)
(* the name of no host.                                                     *)
Description(id) ==
  IF id \in Legacy THEN LegacyDescription[id]
                   ELSE [service |-> "carbonio", hosts |-> {}]

isLegacyServiceToken(id, names, hostnames) ==
  /\ Description(id).service \in names
  /\ Description(id).hosts \cap hostnames # {}

LegacyNames(p) == {ServiceOf[p]} \cup LegacyServices[p]

(* What the old scripts or an earlier ensure may have left in a token file. *)
Names(k) == {k[1]} \cup UNION {LegacyServices[p] : p \in {q \in Pruners : Home(q) = k}}

OwnTokens(k) ==
  {t \in Legacy : /\ LegacyDescription[t].service \in Names(k)
                  /\ LegacyDescription[t].hosts \subseteq HostnamesOf[k[2]]}
  \cup ({k} \cap Existing)

Init ==
  /\ live = Legacy \cup Existing
  /\ secret = [id \in IDs |-> IF id \in live THEN InitialSecret[id] ELSE NoSecret]
  /\ links = [id \in IDs |-> IF id \in live THEN InitialLinks[id] ELSE {}]
  /\ file \in [Keys -> Secrets \cup {NoSecret}]
  /\ \A k \in Keys : \/ file[k] = NoSecret
                     \/ \E id \in OwnTokens(k) : file[k] = InitialSecret[id]
  /\ \A k, l \in Keys : k # l /\ file[k] # NoSecret => file[k] # file[l]
  /\ pc = [p \in Procs |-> "idle"]
  /\ runs = [p \in Procs |-> 0]
  /\ access = [p \in Procs |-> "none"]
  /\ got = [p \in Ensurers |-> NoToken]
  /\ tmp = [p \in Ensurers |-> NoSecret]
  /\ hosts = [p \in Pruners |-> {}]
  /\ todo = [p \in Pruners |-> {}]
  /\ ensured = {}

Goto(p, label) == pc' = [pc EXCEPT ![p] = label]
-----------------------------------------------------------------------------
(* Requests to Consul.                                                      *)

(* TokenRead: found, errServiceTokenNotFound, or any other error.  Older    *)
(* servers answer 403 "ACL not found" for a missing token and also for a    *)
(* CONSUL_HTTP_TOKEN that was deleted meanwhile.                            *)
ReadAnswers(p, id) ==
  {"error", IF access[p] # "revoked" /\ id \in live THEN "found" ELSE "notfound"}

(* Requests that change the store need acl:write.  Whether the request is   *)
(* applied is one thing, whether the caller learns of it another.           *)
TokenCreate(p, id, policy) ==
  /\ access[p] = "write"
  /\ id \notin live
  /\ \E s \in Secrets :
       /\ \A i \in IDs : secret[i] # s
       /\ secret' = [secret EXCEPT ![id] = s]
  /\ live' = live \cup {id}
  /\ links' = [links EXCEPT ![id] = {policy}]

TokenUpdate(p, id, policies) ==
  /\ access[p] = "write"
  /\ id \in live
  /\ links' = [links EXCEPT ![id] = policies]
  /\ UNCHANGED <<live, secret>>

TokenDelete(p, id) ==
  /\ access[p] = "write"
  /\ live' = live \ {id}
  /\ UNCHANGED <<secret, links>>

-----------------------------------------------------------------------------
(* service-token ensure                                                     *)

(* newConsulServiceTokenACL (TokenReadSelf) and NodeName.  A token without  *)
(* acl:read passes and has an error for an answer to every later request.   *)
EnsureStart(p) ==
  /\ pc[p] \in Ended
  /\ runs[p] < MaxRuns
  /\ runs' = [runs EXCEPT ![p] = @ + 1]
  /\ got' = [got EXCEPT ![p] = NoToken]
  /\ tmp' = [tmp EXCEPT ![p] = NoSecret]
  /\ \/ /\ \E a \in {"read", "write"} : access' = [access EXCEPT ![p] = a]
        /\ Goto(p, "read")
     \/ Goto(p, "failed") /\ UNCHANGED access
  /\ UNCHANGED <<store, file, hosts, todo, ensured>>

(* Mutations of UseFound: a redacted secret is used; the policy is not      *)
(* looked at.                                                               *)
UseFoundRedacted(p) ==
  /\ got' = [got EXCEPT ![p] = [secret   |-> IF access[p] = "write" THEN secret[Current(p)]
                                            ELSE "redacted",
                                policies |-> links[Current(p)]]]
  /\ Goto(p, IF PolicyOf[p] \in links[Current(p)] THEN "temp" ELSE "update")

UseFoundAsIs(p) ==
  IF access[p] = "write"
  THEN /\ got' = [got EXCEPT ![p] = [secret   |-> secret[Current(p)],
                                     policies |-> links[Current(p)]]]
       /\ Goto(p, "temp")
  ELSE Goto(p, "failed") /\ UNCHANGED got

(* A token that was found: refused when its secret is redacted, used as it  *)
(* is when the policy is linked, otherwise to be updated.                   *)
UseFound(p) ==
  IF access[p] = "write"
  THEN /\ got' = [got EXCEPT ![p] = [secret   |-> secret[Current(p)],
                                     policies |-> links[Current(p)]]]
       /\ Goto(p, IF PolicyOf[p] \in links[Current(p)] THEN "temp" ELSE "update")
  ELSE Goto(p, "failed") /\ UNCHANGED got

EnsureRead(p) ==
  /\ pc[p] = "read"
  /\ \E answer \in ReadAnswers(p, Current(p)) :
       \/ answer = "found" /\ UseFound(p)
       \/ answer = "notfound" /\ Goto(p, "create") /\ UNCHANGED got
       \/ answer = "error" /\ Goto(p, "failed") /\ UNCHANGED got
  /\ UNCHANGED <<store, file, runs, access, tmp, hosts, todo, ensured>>

(* The created token is returned, or the caller sees an error, with or      *)
(* without the token having been created, and reads again.                  *)
EnsureCreate(p) ==
  /\ pc[p] = "create"
  /\ \/ /\ TokenCreate(p, Current(p), PolicyOf[p])
        /\ \/ /\ got' = [got EXCEPT ![p] = [secret   |-> secret'[Current(p)],
                                            policies |-> {PolicyOf[p]}]]
              /\ Goto(p, "temp")
           \/ Goto(p, "adopt") /\ UNCHANGED got
     \/ Goto(p, "adopt") /\ UNCHANGED <<store, got>>
  /\ UNCHANGED <<file, runs, access, tmp, hosts, todo, ensured>>

(* Mutation of EnsureAdopt: a token that is not found is no error.          *)
EnsureAdoptLax(p) ==
  /\ pc[p] = "adopt"
  /\ \E answer \in ReadAnswers(p, Current(p)) :
       \/ answer = "found" /\ UseFound(p)
       \/ answer = "notfound" /\ Goto(p, "temp") /\ UNCHANGED got
       \/ answer = "error" /\ Goto(p, "failed") /\ UNCHANGED got
  /\ UNCHANGED <<store, file, runs, access, tmp, hosts, todo, ensured>>

EnsureAdopt(p) ==
  /\ pc[p] = "adopt"
  /\ \E answer \in ReadAnswers(p, Current(p)) :
       \/ answer = "found" /\ UseFound(p)
       \/ answer # "found" /\ Goto(p, "failed") /\ UNCHANGED got
  /\ UNCHANGED <<store, file, runs, access, tmp, hosts, todo, ensured>>

(* The whole token is written back: the policies are those read before.     *)
EnsureUpdate(p) ==
  /\ pc[p] = "update"
  /\ \/ /\ TokenUpdate(p, Current(p), got[p].policies \cup {PolicyOf[p]})
        /\ \E next \in {"temp", "failed"} : Goto(p, next)
     \/ Goto(p, "failed") /\ UNCHANGED store
  /\ UNCHANGED <<file, runs, access, got, tmp, hosts, todo, ensured>>

(* writeTokenFile up to the chown: owner lookup, directory, temporary file. *)
(* A failure removes the temporary file (deferred).                         *)
EnsureTemp(p) ==
  /\ pc[p] = "temp"
  /\ \/ tmp' = [tmp EXCEPT ![p] = got[p].secret] /\ Goto(p, "rename")
     \/ Goto(p, "failed") /\ UNCHANGED tmp
  /\ UNCHANGED <<store, file, runs, access, got, hosts, todo, ensured>>

(* Mutation of EnsureRename: a rename that fails counts as a success.       *)
EnsureRenameLax(p) ==
  /\ pc[p] = "rename"
  /\ \/ /\ file' = [file EXCEPT ![Home(p)] = tmp[p]]
        /\ ensured' = ensured \cup {<<Home(p), PolicyOf[p]>>}
     \/ UNCHANGED <<file, ensured>>
  /\ Goto(p, "done")
  /\ tmp' = [tmp EXCEPT ![p] = NoSecret]
  /\ UNCHANGED <<store, runs, access, got, hosts, todo>>

EnsureRename(p) ==
  /\ pc[p] = "rename"
  /\ \/ /\ file' = [file EXCEPT ![Home(p)] = tmp[p]]
        /\ ensured' = ensured \cup {<<Home(p), PolicyOf[p]>>}
        /\ Goto(p, "done")
     \/ Goto(p, "failed") /\ UNCHANGED <<file, ensured>>
  /\ tmp' = [tmp EXCEPT ![p] = NoSecret]
  /\ UNCHANGED <<store, runs, access, got, hosts, todo>>

-----------------------------------------------------------------------------
(* service-token prune-legacy                                               *)

(* localHostnames leaves out the names a resolver does not answer for.      *)
PruneStart(p) ==
  /\ pc[p] \in Ended
  /\ runs[p] < MaxRuns
  /\ runs' = [runs EXCEPT ![p] = @ + 1]
  /\ todo' = [todo EXCEPT ![p] = {}]
  /\ \/ /\ \E a \in {"read", "write"} : access' = [access EXCEPT ![p] = a]
        /\ \E found \in SUBSET HostnamesOf[NodeOf[p]] :
             hosts' = [hosts EXCEPT ![p] = found]
        /\ Goto(p, "check")
     \/ Goto(p, "failed") /\ UNCHANGED <<access, hosts>>
  /\ UNCHANGED <<store, file, got, tmp, ensured>>

(* Mutation of PruneCheck: a token that is not found is no error.           *)
PruneCheckLax(p) ==
  /\ pc[p] = "check"
  /\ \E answer \in ReadAnswers(p, Current(p)) :
       Goto(p, IF answer = "error" THEN "failed" ELSE "list")
  /\ UNCHANGED <<store, file, runs, access, got, tmp, hosts, todo, ensured>>

PruneCheck(p) ==
  /\ pc[p] = "check"
  /\ \E answer \in ReadAnswers(p, Current(p)) :
       Goto(p, IF answer = "found" THEN "list" ELSE "failed")
  /\ UNCHANGED <<store, file, runs, access, got, tmp, hosts, todo, ensured>>

(* Mutation of ToDelete: the loop skips nothing.                            *)
ToDeleteOfPolicy(p) == {id \in live : PolicyOf[p] \in links[id]}

(* TokenListByPolicy, and the filter the loop applies to each entry.        *)
ToDelete(p) ==
  {id \in live : /\ PolicyOf[p] \in links[id]
                 /\ id # Current(p)
                 /\ isLegacyServiceToken(id, LegacyNames(p), hosts[p])}

PruneList(p) ==
  /\ pc[p] = "list"
  /\ \/ /\ access[p] \in {"read", "write"}
        /\ todo' = [todo EXCEPT ![p] = ToDelete(p)]
        /\ Goto(p, IF ToDelete(p) = {} THEN "done" ELSE "delete")
     \/ Goto(p, "failed") /\ UNCHANGED todo
  /\ UNCHANGED <<store, file, runs, access, got, tmp, hosts, ensured>>

(* Mutation of PruneDelete: an error makes it try again.                    *)
PruneDeleteAgain(p) ==
  /\ pc[p] = "delete"
  /\ \E id \in todo[p] :
       \/ /\ TokenDelete(p, id)
          /\ todo' = [todo EXCEPT ![p] = @ \ {id}]
          /\ Goto(p, IF todo[p] = {id} THEN "done" ELSE "delete")
       \/ UNCHANGED <<store, todo, pc>>
  /\ UNCHANGED <<file, runs, access, got, tmp, hosts, ensured>>

(* The entries come in an order of Consul's choosing.  Deleting a token     *)
(* that is gone already is answered with success or an error, depending on  *)
(* the version of Consul.  The first error ends the loop.                   *)
PruneDelete(p) ==
  /\ pc[p] = "delete"
  /\ \E id \in todo[p] :
       \/ /\ TokenDelete(p, id)
          /\ \/ /\ todo' = [todo EXCEPT ![p] = @ \ {id}]
                /\ Goto(p, IF todo[p] = {id} THEN "done" ELSE "delete")
             \/ Goto(p, "failed") /\ UNCHANGED todo
       \/ Goto(p, "failed") /\ UNCHANGED <<store, todo>>
  /\ UNCHANGED <<file, runs, access, got, tmp, hosts, ensured>>

-----------------------------------------------------------------------------
(* The process is killed, or the host goes down.                            *)
Crash(p) ==
  /\ pc[p] \notin Ended
  /\ Goto(p, "crashed")
  /\ UNCHANGED <<store, file, runs, access, got, tmp, hosts, todo, ensured>>

(* The token in CONSUL_HTTP_TOKEN is deleted while the command runs.        *)
Revoke(p) ==
  /\ pc[p] \notin Ended
  /\ access[p] # "revoked"
  /\ access' = [access EXCEPT ![p] = "revoked"]
  /\ UNCHANGED <<store, file, pc, runs, got, tmp, hosts, todo, ensured>>

EnsureStep(p) ==
  \/ EnsureRead(p) \/ EnsureCreate(p) \/ EnsureAdopt(p) \/ EnsureUpdate(p)
  \/ EnsureTemp(p) \/ EnsureRename(p)

PruneStep(p) == PruneCheck(p) \/ PruneList(p) \/ PruneDelete(p)

Next ==
  \/ \E p \in Ensurers : EnsureStart(p) \/ EnsureStep(p)
  \/ \E p \in Pruners : PruneStart(p) \/ PruneStep(p)
  \/ \E p \in Procs : Crash(p) \/ Revoke(p)

Spec == Init /\ [][Next]_vars

(* Consul answers every request at last, and the operating system runs      *)
(* every process.  Nothing makes a process start again.                     *)
Fairness ==
  /\ \A p \in Ensurers : WF_vars(EnsureStep(p))
  /\ \A p \in Pruners : WF_vars(PruneStep(p))

FairSpec == Spec /\ Fairness

-----------------------------------------------------------------------------
(* Properties.                                                              *)

TypeOK ==
  /\ live \subseteq IDs
  /\ secret \in [IDs -> Secrets \cup {NoSecret}]
  /\ links \in [IDs -> SUBSET Policies]
  /\ file \in [Keys -> Secrets \cup {NoSecret}]
  /\ pc \in [Procs -> Ended \cup Running]
  /\ runs \in [Procs -> 0..MaxRuns]
  /\ access \in [Procs -> Access]
  /\ got \in [Ensurers -> Token]
  /\ tmp \in [Ensurers -> Secrets \cup {NoSecret}]
  /\ hosts \in [Pruners -> SUBSET Hostnames]
  /\ todo \in [Pruners -> SUBSET IDs]
  /\ ensured \subseteq Keys \X Policies

(* Once an ensure has succeeded, the token file holds the secret of the     *)
(* live deterministic token for good: whatever ensures and prunes run       *)
(* meanwhile, lose answers, are killed or run again.                        *)
EnsuredFileIsLive ==
  \A e \in ensured :
    LET id == AccessorID(e[1][1], e[1][2]) IN
      id \in live /\ file[e[1]] = secret[id]

(* A deterministic token, once created, is never deleted nor given another  *)
(* secret, so "a token can be found again even when its local token file is *)
(* gone": no ensure creates it twice and no prune takes it for a legacy one.*)
IdentityIsPermanent ==
  [][\A k \in Keys : k \in live => k \in live' /\ secret'[k] = secret[k]]_vars

(* A legacy token is only ever deleted by a prune of the service and of the *)
(* node its description names, and only while the deterministic token that  *)
(* replaces it exists: "tokens of other nodes are never touched".           *)
PrunedAreReplaced ==
  \A t \in Legacy \ live : \E p \in Pruners :
    /\ runs[p] > 0
    /\ Current(p) \in live
    /\ LegacyDescription[t].service \in LegacyNames(p)
    /\ LegacyDescription[t].hosts \subseteq HostnamesOf[NodeOf[p]]

(* No two services, and no two nodes, ever have the same secret in their    *)
(* token files, however their processes interleave.                         *)
SecretsNotShared ==
  \A k, l \in Keys : k # l /\ file[k] # NoSecret => file[k] # file[l]

(* After a successful ensure the token carries the policy asked for, as     *)
(* long as the ensures of one service on one node ask for the same policy;  *)
(* with several policies the read-modify-write of EnsureUpdate may lose one.*)
OnePolicy == \A p, q \in Ensurers : Home(p) = Home(q) => PolicyOf[p] = PolicyOf[q]

PolicyLinked ==
  OnePolicy => \A e \in ensured : e[2] \in links[AccessorID(e[1][1], e[1][2])]

(* "a service still using a legacy token never loses it"                    *)
(* (pkg/command/service_token.go:176).                                      *)
LegacyUserKeepsToken ==
  \A k \in Keys, t \in Legacy : file[k] = secret[t] => t \in live

(* What is true of that sentence.  When no prune is told a name another     *)
(* service of its node goes by, a token file can only name a deleted token  *)
(* in the gap between the two halves of an ensure: the deterministic token  *)
(* of the service exists, and some ensure of it that was started has not    *)
(* succeeded, or the token dates from an earlier ensure.  Running ensure    *)
(* once more, to its end, repairs it.                                       *)
NamesApart ==
  \A p \in Pruners, k \in Keys :
    NodeOf[p] = k[2] /\ LegacyNames(p) \cap Names(k) # {} => Home(p) = k

LossNeedsUnfinishedEnsure ==
  NamesApart => \A k \in Keys, t \in Legacy :
    file[k] = secret[t] /\ t \notin live =>
      /\ k \in live
      /\ \A p \in Ensurers : Home(p) = k => pc[p] # "done"
      /\ \/ k \in Existing
         \/ \E p \in Ensurers : Home(p) = k /\ pc[p] # "idle"

(* Every run of either command comes to an end: no loop waits for another   *)
(* process, and the deletions run out.                                      *)
RunsEnd == \A p \in Procs : pc[p] \notin Ended ~> pc[p] \in Ended

-----------------------------------------------------------------------------
(* The promise of ServiceIdentity, kept: creating a token issues a secret,  *)
(* renaming a token file publishes it, deleting a token retires a legacy    *)
(* one, and every other step of a process is invisible.                     *)
Replaces ==
  {kt \in Keys \X Legacy : \E p \in Pruners :
     /\ kt[1] = Home(p)
     /\ isLegacyServiceToken(kt[2], LegacyNames(p), HostnamesOf[NodeOf[p]])}

Identity == INSTANCE ServiceIdentity WITH
  issued <- [k \in Keys |-> IF k \in live THEN secret[k] ELSE NoSecret],
  legacy <- live \cap Legacy

ImplementsIdentity == Identity!Spec

-----------------------------------------------------------------------------
(* Why the safety properties hold: what each process holds in memory is     *)
(* still true when it is used.  No interleaving can make it stale, since a  *)
(* deterministic token is permanent.                                        *)

(* An ensure past its read holds the secret of the live token.              *)
HeldIsCurrent ==
  \A p \in Ensurers :
    /\ pc[p] \in {"update", "temp", "rename"} =>
         Current(p) \in live /\ got[p].secret = secret[Current(p)]
    /\ pc[p] = "rename" => tmp[p] = secret[Current(p)]

(* A prune past its check runs beside the live token, and only has legacy   *)
(* tokens of its service on its node on its list.                           *)
ListIsOwnLegacy ==
  \A p \in Pruners :
    /\ pc[p] \in {"list", "delete"} => Current(p) \in live
    /\ pc[p] # "idle" => runs[p] > 0
    /\ hosts[p] \subseteq HostnamesOf[NodeOf[p]]
    /\ todo[p] \subseteq
         {t \in Legacy : isLegacyServiceToken(t, LegacyNames(p), HostnamesOf[NodeOf[p]])}

(* Every live token has a secret, a deterministic token that does not exist *)
(* never had one, and no two tokens ever had the same one.                  *)
SecretsAreUnique ==
  /\ \A id \in live : secret[id] \in Secrets
  /\ \A k \in Keys \ live : secret[k] = NoSecret
  /\ \A i, j \in IDs : secret[i] = secret[j] /\ secret[i] # NoSecret => i = j

(* A token file is empty, or holds the secret of the deterministic token of *)
(* its service and node, or that of some legacy token.                      *)
FileIsOwn ==
  \A k \in Keys : \/ file[k] \in {NoSecret, secret[k]}
                  \/ \E t \in Legacy : file[k] = secret[t]

(* As long as they agree on the policy, an ensure past its update, or one   *)
(* that has succeeded, finds its policy linked.                             *)
PolicyHeld ==
  /\ \A e \in ensured : \E p \in Ensurers : e = <<Home(p), PolicyOf[p]>>
  /\ OnePolicy => \A p \in Ensurers :
       pc[p] \in {"temp", "rename"} \/ <<Home(p), PolicyOf[p]>> \in ensured
         => PolicyOf[p] \in links[Current(p)]

(* A legacy secret in a token file is one the old scripts put there for the *)
(* same service on the same node; a token that was not there at the start   *)
(* was created by an ensure; an ensure is done when its file is written.    *)
FileHistory ==
  /\ \A t \in Legacy : secret[t] \in Secrets
  /\ \A k \in Keys, t \in Legacy : file[k] = secret[t] => t \in OwnTokens(k)
  /\ \A k \in (Keys \cap live) \ Existing :
        \E p \in Ensurers : Home(p) = k /\ pc[p] # "idle"
  /\ \A p \in Ensurers : pc[p] = "done" => \E e \in ensured : e[1] = Home(p)

IInv ==
  /\ TypeOK /\ HeldIsCurrent /\ ListIsOwnLegacy /\ SecretsAreUnique /\ FileIsOwn
  /\ EnsuredFileIsLive /\ PrunedAreReplaced /\ SecretsNotShared
=============================================================================
