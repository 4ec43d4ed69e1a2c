---------------------------- MODULE ClusterSetup ----------------------------
(* How a cluster comes to be: `service-discover setup` of servers and of    *)
(* agents (cmd/server and cmd/agent, command/setup), the daemon wrapper     *)
(* that each host runs (cmd/service-discoverd), the LDAP directory they     *)
(* share, and what they expect of Consul.                                   *)
(*                                                                          *)
(* A setup is a sequence of steps.  Each leaves something on the host, in   *)
(* LDAP or in Consul, any of them may fail or be cut short by a crash, and  *)
(* the steps of different hosts interleave.                                 *)
EXTENDS FiniteSets, Integers, Sequences

CONSTANTS
  Servers,     \* hosts set up with the server command line tool
  Agents,      \* hosts set up with the agent one
  Containers,  \* hosts that are containers, without systemd
  ForceFirst,  \* servers the administrator may give --first-instance
  StaleReads,  \* whether LDAP reads may be served by a lagging replica
  None,        \* no such file, token or credentials
  MaxRuns      \* bound: how often a setup is run on each host

Hosts == Servers \cup Agents

ASSUME HostsAssumption ==
  /\ Servers \cap Agents = {}
  /\ Containers \subseteq Hosts
  /\ ForceFirst \subseteq Servers
  /\ StaleReads \in BOOLEAN
  /\ None \notin Hosts \X Nat
  /\ MaxRuns \in [Hosts -> Nat]

VARIABLES
  (* the setup running on each host *)
  pc,        \* its next step
  mode,      \* what it does: first, import or agent
  runs,      \* how often it was started; makes the keys of a run unique
  mem,       \* the gossip key, CA and bootstrap token it holds in memory
  (* the files of each host *)
  ca,        \* consul-agent-ca.pem
  cakey,     \* the private key of a CA
  cert,      \* the CA that signed the certificate of the host
  main,      \* main.json: the gossip key in it
  cred,      \* cluster-credentials.tar.gpg
  token,     \* the agent token: the raft cluster that issued it
  spilled,   \* the hosts where an imported CA key was not removed, and why
  data,      \* raft data of a server: the cluster it is a member of
  (* the service-discover unit of each host *)
  unit,      \* stopped, starting (or waiting for a restart), or up
  expect,    \* -bootstrap-expect of a running server
  (* LDAP *)
  registered, \* servers with service-discover enabled, in order
  published,  \* the credentials
  earlier,    \* what was there before them, where a replica lags
  (* Consul *)
  clusters,  \* the raft clusters there ever were: the gossip key of each
  acl        \* those whose ACL system was bootstrapped

setup  == <<pc, mode, runs, mem>>
files  == <<ca, cakey, cert, main, cred, token, spilled>>
ldap   == <<registered, published, earlier>>
consul == <<data, clusters, acl>>
daemon == <<unit, expect>>
vars   == <<pc, mode, runs, mem, ca, cakey, cert, main, cred, token, spilled,
            data, unit, expect, registered, published, earlier, clusters, acl>>

(* Key material is named after the setup run that generates it.             *)
KeyIds     == Hosts \X Nat
NoCreds    == [gossip |-> None, ca |-> None, boot |-> 0]
Creds      == [gossip : KeyIds \cup {None}, ca : KeyIds \cup {None}, boot : Nat]

(* Mutations of performSetup: the archive is made before the bootstrap; the *)
(* server is not registered in LDAP.                                        *)
performSetupEarlyArchive ==
  [ca |-> "cert", cert |-> "config", config |-> "register", register |-> "start",
   start |-> "starting", starting |-> "leader", leader |-> "archive",
   archive |-> "bootstrap", bootstrap |-> "token", token |-> "upload",
   upload |-> "enable", enable |-> "done"]

performSetupUnregistered ==
  [ca |-> "cert", cert |-> "config", config |-> "start", register |-> "start",
   start |-> "starting", starting |-> "leader", leader |-> "bootstrap",
   bootstrap |-> "token", token |-> "archive", archive |-> "upload",
   upload |-> "enable", enable |-> "done"]

(* The steps of a setup and what follows each: of the first server, of      *)
(* another server, and of an agent.                                         *)
performSetup ==
  [ca |-> "cert", cert |-> "config", config |-> "register", register |-> "start",
   start |-> "starting", starting |-> "leader", leader |-> "bootstrap",
   bootstrap |-> "token", token |-> "archive", archive |-> "upload",
   upload |-> "enable", enable |-> "done"]

importSetup ==
  [download |-> "unpack", unpack |-> "cert", cert |-> "config", config |-> "register",
   register |-> "start", start |-> "starting", starting |-> "token",
   token |-> "enable", enable |-> "done"]

agentSetup ==
  [download |-> "unpack", unpack |-> "cert", cert |-> "config", config |-> "start",
   start |-> "starting", starting |-> "token", token |-> "enable", enable |-> "done"]

Steps   == [first |-> performSetup, import |-> importSetup, agent |-> agentSetup]
Ended   == {"idle", "done", "failed", "crashed"}
Running == UNION {DOMAIN Steps[m] : m \in DOMAIN Steps}

Init ==
  /\ pc = [h \in Hosts |-> "idle"]
  /\ mode = [h \in Hosts |-> "none"]
  /\ runs = [h \in Hosts |-> 0]
  /\ mem = [h \in Hosts |-> NoCreds]
  /\ ca = [h \in Hosts |-> None]
  /\ cakey = [h \in Hosts |-> None]
  /\ cert = [h \in Hosts |-> None]
  /\ main = [h \in Hosts |-> None]
  /\ cred = [h \in Hosts |-> NoCreds]
  /\ token = [h \in Hosts |-> 0]
  /\ spilled = {}
  /\ data = [h \in Hosts |-> 0]
  /\ unit \in [Hosts -> {"stopped", "starting"}]
  /\ \A h \in Containers : unit[h] = "stopped"
  /\ expect = [h \in Hosts |-> 0]
  /\ registered = <<>>
  /\ published = NoCreds
  /\ earlier = {}
  /\ clusters = <<>>
  /\ acl = {}

At(h, label)   == pc[h] = label
Goto(h, label) == pc' = [pc EXCEPT ![h] = label]
Proceed(h)     == Goto(h, Steps[mode[h]][pc[h]])
Registered     == {registered[i] : i \in DOMAIN registered}

(* What QueryAllServersWithService may return: masters are asked first, a   *)
(* replica only when none answers, and it lags behind by some registrations.*)
Snapshots ==
  IF StaleReads THEN {SubSeq(registered, 1, n) : n \in 0..Len(registered)}
                ELSE {registered}

(* What DownloadBinary may return, in the same way.                         *)
Downloads == IF StaleReads THEN {published} \cup earlier ELSE {published}

-----------------------------------------------------------------------------
(* The start of a setup, and the key material.                              *)

(* Mutation of isFirstInstance: LDAP is not asked.                          *)
isFirstInstanceLocally(h, servers) == cred[h] = NoCreds

(* preRun refuses a host with a main.json.  A server is the first instance  *)
(* when told so, or when it has no credentials file and LDAP no server.     *)
isFirstInstance(h, servers) == cred[h] = NoCreds /\ servers = <<>>

Begin(h, m, label) ==
  /\ pc[h] \in Ended
  /\ runs[h] < MaxRuns[h]
  /\ main[h] = None
  /\ runs' = [runs EXCEPT ![h] = @ + 1]
  /\ mode' = [mode EXCEPT ![h] = m]
  /\ Goto(h, label)
  /\ UNCHANGED <<mem, files, ldap, consul, daemon>>

RunServer(h) ==
  \/ h \in ForceFirst /\ Begin(h, "first", "ca")
  \/ \E servers \in Snapshots :
       IF isFirstInstance(h, servers) THEN Begin(h, "first", "ca")
                                      ELSE Begin(h, "import", "download")

RunAgent(h) == Begin(h, "agent", "download")

(* The CA goes to the disk, the gossip key is kept in memory.               *)
GenerateKeys(h) ==
  /\ At(h, "ca")
  /\ LET k == <<h, runs[h]>> IN
       /\ ca' = [ca EXCEPT ![h] = k]
       /\ cakey' = [cakey EXCEPT ![h] = k]
       /\ mem' = [mem EXCEPT ![h] = [gossip |-> k, ca |-> k, boot |-> 0]]
  /\ Proceed(h)
  /\ UNCHANGED <<mode, runs, cert, main, cred, token, spilled, ldap, consul, daemon>>

(* DownloadCredentialsFromLDAP overwrites the local file; with nothing in   *)
(* LDAP the setup fails.                                                    *)
Download(h) ==
  /\ At(h, "download")
  /\ \E found \in Downloads :
       IF found = NoCreds
       THEN Goto(h, "failed") /\ UNCHANGED cred
       ELSE Proceed(h) /\ cred' = [cred EXCEPT ![h] = found]
  /\ UNCHANGED <<mode, runs, mem, ca, cakey, cert, main, token, spilled, ldap, consul, daemon>>

(* Decrypt and extract; the CA and, for a while, its private key are        *)
(* written to the disk.  An agent puts the key in a temporary file, another *)
(* one each time: cakey is the one of its last setup.                       *)
Unpack(h) ==
  /\ At(h, "unpack")
  /\ mem' = [mem EXCEPT ![h] = cred[h]]
  /\ ca' = [ca EXCEPT ![h] = cred[h].ca]
  /\ cakey' = [cakey EXCEPT ![h] = cred[h].ca]
  /\ Proceed(h)
  /\ UNCHANGED <<mode, runs, cert, main, cred, token, spilled, ldap, consul, daemon>>

(* consul tls cert create, signing with the key on the disk.  An agent      *)
(* removes the key at once.                                                 *)
CreateCertificate(h) ==
  /\ At(h, "cert")
  /\ cert' = [cert EXCEPT ![h] = cakey[h]]
  /\ cakey' = IF mode[h] = "agent" THEN [cakey EXCEPT ![h] = None] ELSE cakey
  /\ Proceed(h)
  /\ UNCHANGED <<mode, runs, mem, ca, main, cred, token, spilled, ldap, consul, daemon>>

(* main.json with the gossip key, and config.json.                          *)
WriteConfig(h) ==
  /\ At(h, "config")
  /\ main' = [main EXCEPT ![h] = mem[h].gossip]
  /\ Proceed(h)
  /\ UNCHANGED <<mode, runs, mem, ca, cakey, cert, cred, token, spilled, ldap, consul, daemon>>

(* AddServiceInLDAP, on a master; nothing to do when it is there already.   *)
AddService(h) ==
  /\ At(h, "register")
  /\ registered' = IF h \in Registered THEN registered ELSE Append(registered, h)
  /\ Proceed(h)
  /\ UNCHANGED <<mode, runs, mem, files, published, earlier, consul, daemon>>
-----------------------------------------------------------------------------
(* The unit and the daemon.                                                 *)

(* StartSystemdUnit, or service-discoverd-docker in a container.            *)
StartUnit(h) ==
  /\ At(h, "start")
  /\ unit' = IF unit[h] = "stopped" THEN [unit EXCEPT ![h] = "starting"] ELSE unit
  /\ Proceed(h)
  /\ UNCHANGED <<mode, runs, mem, files, ldap, consul, expect>>

(* systemd reports the start done once Consul is ready; a container script  *)
(* returns at once.  Only the first instance waits for a leader.            *)
Started(h) ==
  /\ At(h, "starting")
  /\ unit[h] = "up" \/ h \in Containers
  /\ Proceed(h)
  /\ UNCHANGED <<mode, runs, mem, files, ldap, consul, daemon>>

(* Mutations of startConsul: too few servers are expected, by a wrong sign; *)
(* a server need not be in LDAP.                                            *)
startConsulSign(h, servers) ==
  /\ (h \in Servers) <=> (\E i \in DOMAIN servers : servers[i] = h)
  /\ expect' = [expect EXCEPT ![h] = IF h \in Servers THEN Len(servers) \div 2 - 1 ELSE 0]

startConsulUnlisted(h, servers) ==
  expect' = [expect EXCEPT ![h] = IF h \in Servers THEN Len(servers) \div 2 + 1 ELSE 0]

(* A server that is not among those in LDAP is refused, and so is an agent  *)
(* that is.  A server expects a majority of them.                           *)
startConsul(h, servers) ==
  /\ (h \in Servers) <=> (\E i \in DOMAIN servers : servers[i] = h)
  /\ expect' = [expect EXCEPT ![h] = IF h \in Servers THEN Len(servers) \div 2 + 1 ELSE 0]

(* runServiceDiscoverDaemon needs main.json and asks LDAP for the servers.  *)
(* Where it fails, systemd tries again every 15 seconds.                    *)
DaemonStart(h) ==
  /\ unit[h] = "starting"
  /\ main[h] # None
  /\ \E servers \in Snapshots : startConsul(h, servers)
  /\ unit' = [unit EXCEPT ![h] = "up"]
  /\ UNCHANGED <<setup, files, ldap, consul>>

Down(h) == IF h \in Containers THEN "stopped" ELSE "starting"

DaemonDies(h) ==
  /\ unit[h] = "up"
  /\ unit' = [unit EXCEPT ![h] = Down(h)]
  /\ expect' = [expect EXCEPT ![h] = 0]
  /\ UNCHANGED <<setup, files, ldap, consul>>

-----------------------------------------------------------------------------
(* Consul, as the code relies on it.  Two running hosts talk to each other  *)
(* when they have the same gossip key and their certificates the same CA.   *)
Talk(h, k) ==
  /\ unit[h] = "up" /\ unit[k] = "up"
  /\ main[h] = main[k]
  /\ cert[h] = ca[k] /\ cert[k] = ca[h]

Peers(h) == {k \in Servers : Talk(h, k)}

(* Servers without raft data found a cluster when as many as expected see   *)
(* each other, agree on that number, and none of them knows of one already. *)
Elect(h) ==
  /\ h \in Peers(h)
  /\ \A k \in Peers(h) : data[k] = 0 /\ expect[k] = expect[h]
  /\ Cardinality(Peers(h)) >= expect[h]
  /\ clusters' = Append(clusters, main[h])
  /\ data' = [k \in Hosts |-> IF k \in Peers(h) THEN Len(clusters) + 1 ELSE data[k]]
  /\ UNCHANGED <<setup, files, ldap, acl, daemon>>

Join(h) ==
  /\ data[h] = 0
  /\ \E k \in Peers(h) :
       /\ data[k] # 0
       /\ data' = [data EXCEPT ![h] = data[k]]
  /\ UNCHANGED <<setup, files, ldap, clusters, acl, daemon>>

(* The clusters a host reaches: its own, or that of a server it talks to.   *)
Reaches(h, c) == c # 0 /\ \E k \in Peers(h) : data[k] = c /\ (h \in Servers => k = h)

-----------------------------------------------------------------------------
(* The tokens, the credentials, and the end of a setup.                     *)

WaitForConsulLeader(h) ==
  /\ At(h, "leader")
  /\ \E c \in DOMAIN clusters : Reaches(h, c)
  /\ Proceed(h)
  /\ UNCHANGED <<mode, runs, mem, files, ldap, consul, daemon>>

(* consul acl bootstrap: once per cluster, and its token is shown once.     *)
CreateACLBootstrapToken(h) ==
  /\ At(h, "bootstrap")
  /\ \E c \in DOMAIN clusters \ acl :
       /\ Reaches(h, c)
       /\ acl' = acl \cup {c}
       /\ mem' = [mem EXCEPT ![h].boot = c]
  /\ Proceed(h)
  /\ UNCHANGED <<mode, runs, files, ldap, data, clusters, daemon>>

(* CreateACLToken and SetACLToken, with the bootstrap token of the cluster. *)
InstallToken(h) ==
  /\ At(h, "token")
  /\ mem[h].boot \in acl
  /\ Reaches(h, mem[h].boot)
  /\ token' = [token EXCEPT ![h] = mem[h].boot]
  /\ Proceed(h)
  /\ UNCHANGED <<mode, runs, mem, ca, cakey, cert, main, cred, spilled, ldap, consul, daemon>>

(* createEncryptedSecret: gossip key, CA and its key, bootstrap token.      *)
CreateEncryptedSecret(h) ==
  /\ At(h, "archive")
  /\ cred' = [cred EXCEPT ![h] = [gossip |-> mem[h].gossip, ca |-> cakey[h],
                                  boot   |-> mem[h].boot]]
  /\ Proceed(h)
  /\ UNCHANGED <<mode, runs, mem, ca, cakey, cert, main, token, spilled, ldap, consul, daemon>>

(* Mutation of UploadCredentials: an error is ignored.                      *)
UploadIfPossible(h) ==
  /\ At(h, "upload")
  /\ published' \in {published, cred[h]}
  /\ earlier' = earlier \cup {published}
  /\ Proceed(h)
  /\ UNCHANGED <<mode, runs, mem, files, registered, consul, daemon>>

UploadCredentials(h) ==
  /\ At(h, "upload")
  /\ published' = cred[h]
  /\ earlier' = earlier \cup {published}
  /\ Proceed(h)
  /\ UNCHANGED <<mode, runs, mem, files, registered, consul, daemon>>

(* Mutation of RemoveKey: the removal is the last step, not deferred.       *)
RemoveKeyLast(h) ==
  cakey' = IF mode[h] # "first" /\ At(h, "enable")
           THEN [cakey EXCEPT ![h] = None] ELSE cakey

(* os.Remove of the CA key, deferred once an import or agent setup wrote it;*)
(* the file was just written and its removal is taken to work.              *)
RemoveKey(h) ==
  cakey' = IF mode[h] # "first" /\ pc[h] \notin {"download", "unpack"}
           THEN [cakey EXCEPT ![h] = None] ELSE cakey

(* EnableSystemdUnit: the unit is enabled already, by the package.          *)
Enable(h) ==
  /\ At(h, "enable")
  /\ RemoveKey(h)
  /\ mem' = [mem EXCEPT ![h] = NoCreds]
  /\ Proceed(h)
  /\ UNCHANGED <<mode, runs, ca, cert, main, cred, token, spilled, ldap, consul, daemon>>

(* A server defers the removal of the CA key only after os.WriteFile of it, *)
(* which may fail with part of it or all of it written: the setup returns   *)
(* and the key stays.  An agent defers the removal first.                   *)
WriteKeyFails(h) ==
  /\ h \in Servers
  /\ At(h, "unpack")
  /\ ca' = [ca EXCEPT ![h] = cred[h].ca]
  /\ cakey' = [cakey EXCEPT ![h] = cred[h].ca]
  /\ spilled' = spilled \cup {<<h, "write">>}

(* Any step may return an error: a tool, LDAP or Consul fails or times out. *)
Fail(h) ==
  /\ pc[h] \in Running
  /\ \/ RemoveKey(h) /\ UNCHANGED <<ca, spilled>>
     \/ WriteKeyFails(h)
  /\ mem' = [mem EXCEPT ![h] = NoCreds]
  /\ Goto(h, "failed")
  /\ UNCHANGED <<mode, runs, cert, main, cred, token, ldap, consul, daemon>>

(* The host goes down during a setup; the package has the unit start again. *)
(* The deferred removal of the CA key does not happen.                      *)
Crash(h) ==
  /\ pc[h] \in Running
  /\ mem' = [mem EXCEPT ![h] = NoCreds]
  /\ unit' = [unit EXCEPT ![h] = Down(h)]
  /\ expect' = [expect EXCEPT ![h] = 0]
  /\ spilled' = IF mode[h] # "first" /\ pc[h] \notin {"download", "unpack"} /\ cakey[h] # None
                 THEN spilled \cup {<<h, "crash">>} ELSE spilled
  /\ Goto(h, "crashed")
  /\ UNCHANGED <<mode, runs, ca, cakey, cert, main, cred, token, ldap, consul>>

(* "manually reset and try again": the administrator stops the unit and     *)
(* empties the directories of service-discover.                             *)
Reset(h) ==
  /\ pc[h] \in {"failed", "crashed"}
  /\ Goto(h, "idle")
  /\ ca' = [ca EXCEPT ![h] = None]
  /\ cakey' = [cakey EXCEPT ![h] = None]
  /\ cert' = [cert EXCEPT ![h] = None]
  /\ main' = [main EXCEPT ![h] = None]
  /\ cred' = [cred EXCEPT ![h] = NoCreds]
  /\ token' = [token EXCEPT ![h] = 0]
  /\ data' = [data EXCEPT ![h] = 0]
  /\ unit' = [unit EXCEPT ![h] = "stopped"]
  /\ expect' = [expect EXCEPT ![h] = 0]
  /\ UNCHANGED <<mode, runs, mem, spilled, ldap, clusters, acl>>

SetupStep(h) ==
  \/ GenerateKeys(h) \/ Download(h) \/ Unpack(h) \/ CreateCertificate(h)
  \/ WriteConfig(h) \/ AddService(h) \/ StartUnit(h) \/ Started(h)
  \/ WaitForConsulLeader(h) \/ CreateACLBootstrapToken(h) \/ InstallToken(h)
  \/ CreateEncryptedSecret(h) \/ UploadCredentials(h) \/ Enable(h)

Normal ==
  \/ \E h \in Servers : RunServer(h) \/ Elect(h) \/ Join(h)
  \/ \E h \in Agents : RunAgent(h)
  \/ \E h \in Hosts : SetupStep(h) \/ DaemonStart(h)

Fault == \E h \in Hosts : Fail(h) \/ Crash(h) \/ DaemonDies(h) \/ Reset(h)

Next == Normal \/ Fault

Spec == Init /\ [][Next]_vars

(* The system on a good day: nothing fails, and every host and Consul keep  *)
(* running.                                                                 *)
GoodSpec ==
  /\ Init /\ [][Normal]_vars
  /\ \A h \in Hosts : WF_vars(SetupStep(h)) /\ WF_vars(DaemonStart(h))
  /\ \A h \in Servers : WF_vars(Elect(h)) /\ WF_vars(Join(h))

-----------------------------------------------------------------------------
(* Properties.                                                              *)

InItsSteps ==
  \A h \in Hosts : pc[h] \in Running =>
    mode[h] \in DOMAIN Steps /\ pc[h] \in DOMAIN Steps[mode[h]]

TypeOK ==
  /\ pc \in [Hosts -> Ended \cup Running]
  /\ mode \in [Hosts -> {"none", "first", "import", "agent"}]
  /\ InItsSteps
  /\ runs \in [Hosts -> Nat]
  /\ mem \in [Hosts -> Creds]
  /\ ca \in [Hosts -> KeyIds \cup {None}]
  /\ cakey \in [Hosts -> KeyIds \cup {None}]
  /\ cert \in [Hosts -> KeyIds \cup {None}]
  /\ main \in [Hosts -> KeyIds \cup {None}]
  /\ cred \in [Hosts -> Creds]
  /\ token \in [Hosts -> Nat]
  /\ spilled \subseteq (Hosts \X {"crash"}) \cup (Servers \X {"write"})
  /\ data \in [Hosts -> Nat]
  /\ unit \in [Hosts -> {"stopped", "starting", "up"}]
  /\ expect \in [Hosts -> Nat]
  /\ registered \in Seq(Hosts)
  /\ published \in Creds /\ earlier \subseteq Creds
  /\ clusters \in Seq(KeyIds \cup {None})
  /\ acl \subseteq DOMAIN clusters

(* Several servers may take themselves for the first one, because both ask  *)
(* LDAP before either is registered, because a replica lags, or because     *)
(* they are told to with --first-instance.  Still no two of them ever found *)
(* a cluster: -bootstrap-expect, computed from a reading of LDAP that must  *)
(* hold the server itself, is 1 for the first registered server only.       *)
OneFoundingHost ==
  \A c, d \in DOMAIN clusters : clusters[c][1] = clusters[d][1]

(* The cluster that credentials are for has their gossip key and token.     *)
Usable(c) == c.boot \in acl /\ clusters[c.boot] = c.gossip /\ c.ca = c.gossip

(* The credentials in LDAP always belong together and to a cluster that was *)
(* founded with them: their bootstrap token is the one of a cluster with    *)
(* their gossip key, and their CA that of the same run, whatever failed,    *)
(* crashed or was reset before and after the upload.                        *)
PublishedIsUsable == published # NoCreds => Usable(published)

(* Without --first-instance, and with LDAP masters that answer, credentials *)
(* once uploaded are never replaced by others: what any host downloaded     *)
(* stays valid for joining.  Where a lagging replica answers, a reset first *)
(* server may take itself for the first again and replace them.             *)
PublishedIsPermanent ==
  [][published # NoCreds => published' = published]_vars

(* A setup that reports success has put the host into the published cluster:*)
(* its gossip key, its CA and certificate and its agent token are those of  *)
(* the credentials in LDAP, so that all such hosts can talk.                *)
DoneIsInCluster ==
  \A h \in Hosts : At(h, "done") =>
    /\ main[h] = published.gossip
    /\ ca[h] = published.ca /\ cert[h] = published.ca
    /\ token[h] = published.boot

(* The private key of the CA is extracted on every host that is set up; when*)
(* the setup has ended, by success or by an error of any step, it is left   *)
(* only on the server that generated it, where a crash prevented its        *)
(* removal, or on a server where writing the key itself failed: there the   *)
(* removal is not deferred yet (importsetup.go:114).  A later import that   *)
(* succeeds removes what earlier ones have left of it.                      *)
KeyStaysWithFounder ==
  \A h \in Hosts :
    /\ pc[h] \in Ended /\ cakey[h] # None =>
         \/ cakey[h][1] = h
         \/ <<h, "crash">> \in spilled
         \/ h \in Servers /\ <<h, "write">> \in spilled
    /\ At(h, "done") /\ mode[h] = "import" => cakey[h] = None

(* "setup of service-discover already performed, manually reset and try     *)
(* again" (common.go:251): once a server was reset, a new try can find its  *)
(* way, as the first instance or with credentials to import.                *)
ResetAllowsRetry ==
  \A h \in Servers : At(h, "idle") /\ runs[h] > 0 =>
    registered = <<>> \/ published # NoCreds

(* On a good day a setup that has begun completes, or finds nothing to      *)
(* import, or is a first setup that another server has raced.               *)
SetupCompletes ==
  \A h \in Hosts :
    pc[h] \in Running ~> \/ pc[h] \in {"done", "failed"}
                         \/ mode[h] = "first" /\ Len(registered) > 1

-----------------------------------------------------------------------------
(* The promise of Cluster, kept by all hosts together.  Credentials that do *)
(* not belong together would open no cluster.                               *)
Whole == INSTANCE Cluster WITH
  founders <- [c \in DOMAIN clusters |-> clusters[c][1]],
  opens    <- IF published = NoCreds THEN None
              ELSE IF Usable(published) THEN published.boot ELSE -1

ImplementsCluster == Whole!Spec

(* The promise of Units, kept by each host, whose other half is HostConfig. *)
UnitsOf == INSTANCE Units WITH
  servers    <- Servers,
  configured <- {h \in Hosts : main[h] # None},
  enrolled   <- Registered

ImplementsUnits == UnitsOf!Spec

-----------------------------------------------------------------------------
(* Why there is one founding host: key material that reaches a cluster, the *)
(* credentials or another host was generated on the first registered server.*)

FromFirst(k) == k \in KeyIds /\ registered # <<>> /\ k[1] = registered[1]

(* Key material on a host is its own or the founder's.                      *)
OwnOrFirst ==
  \A h \in Hosts :
    /\ main[h] # None => main[h][1] = h \/ FromFirst(main[h])
    /\ mem[h].gossip # None => mem[h].gossip[1] = h \/ FromFirst(mem[h].gossip)

(* What is published, downloaded or about to be archived is the founder's.  *)
SharedIsFirst ==
  /\ \A c \in {published} \cup earlier : c # NoCreds => FromFirst(c.gossip)
  /\ \A h \in Hosts :
       /\ cred[h] # NoCreds => FromFirst(cred[h].gossip)
       /\ pc[h] \in {"bootstrap", "archive"} \/ (pc[h] = "token" /\ mode[h] = "first")
            => FromFirst(mem[h].gossip)

(* A setup between writing main.json and the bootstrap agrees with it.      *)
MainIsMem ==
  \A h \in Hosts :
    /\ pc[h] \in {"register", "start", "starting", "leader"} => main[h] = mem[h].gossip
    /\ pc[h] \in {"ca", "download", "unpack", "cert", "config"} => main[h] = None

(* A running server is registered, and expects one server, itself, only if  *)
(* it was the first to be.                                                  *)
ExpectIsSound ==
  \A h \in Hosts : unit[h] = "up" =>
    /\ main[h] # None
    /\ h \in Servers => expect[h] > 0 /\ (expect[h] = 1 => registered # <<>> /\ registered[1] = h)

(* Raft data belongs to a cluster founded with the keys of its host.        *)
DataIsFirst ==
  /\ \A c \in DOMAIN clusters : FromFirst(clusters[c])
  /\ \A h \in Hosts : data[h] # 0 => data[h] \in DOMAIN clusters /\ clusters[data[h]] = main[h]

FoundingInv ==
  /\ TypeOK /\ OwnOrFirst /\ SharedIsFirst /\ MainIsMem /\ ExpectIsSound /\ DataIsFirst

-----------------------------------------------------------------------------
(* Why credentials are usable and a success means membership.  The steps    *)
(* once the keys are there, the certificate is, and main.json is.           *)
WithKeys   == Running \ {"ca", "download", "unpack"}
WithCert   == WithKeys \ {"cert"}
WithConfig == WithCert \ {"config"}

(* The files of a host agree with what its setup holds in memory, and a     *)
(* first setup holds one pair of keys, its own.                             *)
FilesAgree ==
  \A h \in Hosts :
    /\ pc[h] \in WithKeys => ca[h] = mem[h].ca
    /\ pc[h] \in WithKeys /\ (At(h, "cert") \/ mode[h] = "first") => cakey[h] = mem[h].ca
    /\ pc[h] \in WithKeys /\ mode[h] = "first" =>
         mem[h].ca = mem[h].gossip /\ mem[h].gossip \in {h} \X Nat
    /\ pc[h] \in WithCert => cert[h] = mem[h].ca
    /\ pc[h] \in WithConfig => main[h] = mem[h].gossip
    /\ pc[h] \in {"archive", "upload", "enable"} => token[h] = mem[h].boot
    /\ At(h, "upload") => cred[h] = mem[h]

(* A first setup holds the token of the cluster it has bootstrapped, which  *)
(* has its gossip key.                                                      *)
HoldsItsCluster ==
  \A h \in Hosts :
    At(h, "archive") \/ (At(h, "token") /\ mode[h] = "first") =>
      mem[h].boot \in acl /\ clusters[mem[h].boot] = mem[h].gossip

(* Credentials are usable, in LDAP, on a lagging replica or on a host.      *)
CredsAreUsable ==
  /\ \A c \in {published} \cup earlier : c # NoCreds => Usable(c)
  /\ \A h \in Hosts : cred[h] # NoCreds => Usable(cred[h])

UsableInv == FilesAgree /\ HoldsItsCluster /\ CredsAreUsable

(* Without --first-instance and lagging replicas: the first registered      *)
(* server uploads once, before which nothing is published, ...              *)
OneUpload ==
  /\ registered = <<>> => published = NoCreds
  /\ \A h \in Hosts :
       /\ mode[h] = "first" /\ pc[h] \in Running \ {"enable"}
       /\ registered # <<>> /\ registered[1] = h
       => published = NoCreds

(* ... and what an import or agent setup has downloaded is still published. *)
HeldIsPublished ==
  \A h \in Hosts :
    /\ mode[h] # "first" /\ pc[h] \in Running \ {"download"} =>
         cred[h] = published /\ published # NoCreds
    /\ mode[h] # "first" /\ pc[h] \in WithKeys => mem[h] = published
    /\ At(h, "enable") => mem[h] = published
    /\ pc[h] \in {"enable", "done"} => published # NoCreds

MemberInv == OneUpload /\ HeldIsPublished /\ DoneIsInCluster

(* Why Consul runs as what its host is: an agent runs the setup of an agent *)
(* and is never registered, and a setup that has keys knows a gossip key.   *)
RolesKept ==
  /\ Registered \subseteq Servers
  /\ \A h \in Agents : mode[h] \in {"none", "agent"}

KeysKnown ==
  \A h \in Hosts :
    /\ At(h, "unpack") => cred[h] # NoCreds
    /\ pc[h] \in WithKeys => mem[h].gossip # None

UnitInv == RolesKept /\ KeysKnown

(* Why keys stay: the key of another server is on a host only between the   *)
(* step that unpacks it and the end of the setup, unless it was not removed.*)
KeyIsOwnOrInUse ==
  \A h \in Hosts :
    /\ cakey[h] # None =>
         \/ cakey[h][1] = h
         \/ \E why \in {"crash", "write"} : <<h, why>> \in spilled
         \/ mode[h] \in {"import", "agent"} /\ pc[h] \in WithKeys
    /\ At(h, "done") /\ mode[h] = "import" => cakey[h] = None
=============================================================================
