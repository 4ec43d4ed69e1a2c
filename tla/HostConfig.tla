------------------------------ MODULE HostConfig ------------------------------
(* The configuration of one host: main.json and config.json in the          *)
(* configuration directory of Consul, written by a setup, by "config set"   *)
(* and by service-discoverd, and read by service-discoverd and Consul.      *)
(*                                                                          *)
(* Nothing is locked and nothing is written atomically: os.WriteFile        *)
(* truncates the file in one step and fills it in another.  A step of a     *)
(* process reads or writes one file once.                                   *)
EXTENDS Integers, Sequences

CONSTANTS
  Networks,     \* what NetInterfaces may return: sequences of interfaces
  Loopbacks,    \* the interfaces whose name is "lo", in any case
  Addresses,    \* addresses; the address of an interface is named like it
  Long,         \* those that take more bytes than the others
  Setters,      \* runs of "config set bind-address"
  Absent, Empty, Torn,  \* a file that is not there, empty, two ends of two
  Default,      \* Consul's own choice of an address
  MaxSetups,    \* bound: setups that write main.json
  MaxCrashes    \* bound: crashes of the host

Files == {"main", "conf"}

(* The content of main.json: which setup it is of, and whether it has the   *)
(* port grpc_tls.                                                           *)
Mains   == [setup : Nat, grpc : BOOLEAN]
OldMain == [setup |-> 0, grpc |-> FALSE]

ASSUME HostAssumption ==
  /\ \A n \in Networks : n \in Seq(Addresses)
  /\ Long \subseteq Addresses
  /\ {Absent, Empty, Torn, Default} \cap Addresses = {}
  /\ Absent \notin {Empty, Torn} /\ Empty # Torn
  /\ {Absent, Empty} \cap Mains = {}
  /\ MaxSetups \in Nat /\ MaxCrashes \in Nat

VARIABLES
  role,        \* what the host is set up as: "server" or "agent"
  main, conf,  \* the content of main.json and config.json
  readable,    \* the files the user service-discover can read
  registered,  \* the host is a service-discover server in the directory
  setup,       \* the setup: pc and bind address
  setter,      \* each run of config set: pc and value
  daemon,      \* service-discoverd, then Consul: pc, what it has read, address
  setups, crashes,
  (* history variables *)
  lastFill,    \* what config.json was last filled with
  interrupted, \* the files a writer did not finish since it truncated them
  overlapped,  \* two writers of config.json were at work at the same time
  leftover     \* the host was registered when its setup began

vars == <<role, main, conf, readable, registered, setup, setter, daemon,
          setups, crashes, lastFill, interrupted, overlapped, leftover>>

confVars == <<conf, lastFill, overlapped>>
counts   == <<setups, crashes>>

-----------------------------------------------------------------------------
(* NonLoopbackInterfaces: the loop ranges over the interfaces there were,   *)
(* while it moves the last one of those left over each loopback interface.  *)
(* It panics, which is "fail" here, when it finds one beyond those left.    *)

(* Mutation of Drop: the last interface is dropped, but not moved.          *)
DropLast(s, i) == [s EXCEPT !.left = @ - 1]

Drop(s, i) == [s EXCEPT !.list[i] = s.list[s.left], !.left = @ - 1]

Visit(s, i) ==
  IF s.fail \/ s.list[i] \notin Loopbacks THEN s
  ELSE IF i > s.left THEN [s EXCEPT !.fail = TRUE]
  ELSE Drop(s, i)

Scan(networks) ==
  LET scan[i \in 0..Len(networks)] ==
        IF i = 0 THEN [list |-> networks, left |-> Len(networks), fail |-> FALSE]
        ELSE Visit(scan[i - 1], i)
  IN  scan[Len(networks)]

(* Mutation of ValidBindAddresses: only loopback interfaces are refused.    *)
ValidUnlessLoopback(networks) == Addresses \ Loopbacks

(* CheckValidBindingAddress of what is left.                                *)
ValidBindAddresses(networks) ==
  LET s == Scan(networks) IN
    IF s.fail THEN {} ELSE {s.list[i] : i \in 1..s.left}

-----------------------------------------------------------------------------
(* os.WriteFile on config.json, by anyone.  A file that is not there is     *)
(* created: the setup's is root's alone, config set's is readable by all.   *)

ConfWriters ==
  {s \in Setters : setter[s].pc = "fill"} \cup
  (IF setup.pc = "confFill" THEN {"setup"} ELSE {})

TruncateConf ==
  /\ conf' = Empty
  /\ overlapped' = (overlapped \/ ConfWriters # {})
  /\ UNCHANGED lastFill

(* A writer writes from the beginning: of a longer content that another has *)
(* filled the file with since it truncated it, the end is kept.             *)
Over(a) == IF a \notin Long /\ conf \in Long \cup {Torn} THEN Torn ELSE a

FillConf(a) ==
  /\ conf' = Over(a)
  /\ lastFill' = a
  /\ UNCHANGED overlapped

-----------------------------------------------------------------------------
(* The setup of a server or an agent, from its checks to the start of the   *)
(* unit; what it does in between elsewhere may fail at any moment.          *)

Fresh(label) == [pc |-> label, listed |-> FALSE, held |-> OldMain, bound |-> Default]

NewDaemon(label) == daemon' = Fresh(label)

Init ==
  /\ role \in {"server", "agent"}
  /\ setup = [pc |-> "idle", bind |-> Default]
  /\ setter = [s \in Setters |-> [pc |-> "idle", value |-> Default]]
  /\ daemon \in {Fresh("stopped"), Fresh("waiting")}
  /\ \/ (* a fresh host *)
        /\ main = Absent /\ conf = Absent /\ readable = {}
        /\ registered \in BOOLEAN /\ leftover = registered
        /\ lastFill = Absent
     \/ (* one set up by a version that knew no port grpc_tls *)
        /\ main = OldMain
        /\ conf \in Addresses /\ readable = Files
        /\ registered = (role = "server") /\ leftover = FALSE
        /\ lastFill = conf
  /\ setups = 0 /\ crashes = 0
  /\ interrupted = {} /\ overlapped = FALSE

SetupAt(label) == setup.pc = label
SetupTo(label) == setup' = [setup EXCEPT !.pc = label]

(* Mutations of Begin: the address is not checked; preRun does not check.   *)
BeginAnyAddress ==
  /\ setup.pc \in {"idle", "failed", "done"} /\ setups < MaxSetups
  /\ main = Absent
  /\ \E a \in Addresses \cup {Default} : setup' = [pc |-> "main", bind |-> a]
  /\ UNCHANGED <<role, main, confVars, readable, registered, setter, daemon,
                 counts, interrupted, leftover>>

BeginUnchecked ==
  /\ setup.pc \in {"idle", "failed", "done"} /\ setups < MaxSetups
  /\ \E n \in Networks, a \in Addresses :
       a \in ValidBindAddresses(n) /\ setup' = [pc |-> "main", bind |-> a]
  /\ UNCHANGED <<role, main, confVars, readable, registered, setter, daemon,
                 counts, interrupted, leftover>>

(* preRun: "setup of service-discover already performed, manually reset and *)
(* try again" if main.json is there; then the checks of the bind address.   *)
Begin ==
  /\ setup.pc \in {"idle", "failed", "done"} /\ setups < MaxSetups
  /\ main = Absent
  /\ \E n \in Networks, a \in Addresses :
       a \in ValidBindAddresses(n) /\ setup' = [pc |-> "main", bind |-> a]
  /\ UNCHANGED <<role, main, confVars, readable, registered, setter, daemon,
                 counts, interrupted, leftover>>

TruncateMain ==
  /\ SetupAt("main") /\ setups < MaxSetups
  /\ main' = Empty
  /\ readable' = (IF main = Absent THEN readable \ {"main"} ELSE readable)
  /\ setups' = setups + 1
  /\ SetupTo("mainFill")
  /\ UNCHANGED <<role, confVars, registered, setter, daemon, crashes, interrupted,
                 leftover>>

(* The file that is written has all the ports.                              *)
FillMain ==
  /\ SetupAt("mainFill")
  /\ main' = [setup |-> setups, grpc |-> TRUE]
  /\ SetupTo("mainPerm")
  /\ UNCHANGED <<role, confVars, readable, registered, setter, daemon, counts,
                 interrupted, leftover>>

(* SetStrictPermissions hands a file over to the user service-discover.     *)
HandOver(file, from, to) ==
  /\ SetupAt(from)
  /\ readable' = readable \cup {file}
  /\ SetupTo(to)
  /\ UNCHANGED <<role, main, confVars, registered, setter, daemon, counts,
                 interrupted, leftover>>

(* Mutation of HandOverMain: the server is registered before config.json is *)
(* written.                                                                 *)
HandOverMainRegister ==
  /\ SetupAt("mainPerm")
  /\ readable' = readable \cup {"main"}
  /\ registered' = (registered \/ role = "server")
  /\ SetupTo("conf")
  /\ UNCHANGED <<role, main, confVars, setter, daemon, counts, interrupted, leftover>>

HandOverMain == HandOver("main", "mainPerm", "conf")

(* SaveBindAddressConfiguration.                                            *)
TruncateBind ==
  /\ SetupAt("conf")
  /\ TruncateConf
  /\ readable' = (IF conf = Absent THEN readable \ {"conf"} ELSE readable)
  /\ SetupTo("confFill")
  /\ UNCHANGED <<role, main, registered, setter, daemon, counts, interrupted,
                 leftover>>

FillBind ==
  /\ SetupAt("confFill")
  /\ FillConf(setup.bind)
  /\ SetupTo("confPerm")
  /\ UNCHANGED <<role, main, readable, registered, setter, daemon, counts,
                 interrupted, leftover>>

HandOverConf ==
  HandOver("conf", "confPerm", IF role = "server" THEN "register" ELSE "start")

(* AddServiceInLDAP, which only a server's setup calls.                     *)
Register ==
  /\ SetupAt("register")
  /\ registered' = TRUE
  /\ SetupTo("start")
  /\ UNCHANGED <<role, main, confVars, readable, setter, daemon, counts,
                 interrupted, leftover>>

(* StartSystemdUnit: the unit is started if it is not, and the setup waits  *)
(* for the outcome.                                                         *)
StartUnit ==
  /\ SetupAt("start")
  /\ SetupTo("started")
  /\ IF daemon.pc = "stopped" THEN NewDaemon("waiting") ELSE UNCHANGED daemon
  /\ UNCHANGED <<role, main, confVars, readable, registered, setter, counts,
                 interrupted, leftover>>

UnitStarted ==
  /\ SetupAt("started")
  /\ daemon.pc = "running"
  /\ SetupTo("done")
  /\ UNCHANGED <<role, main, confVars, readable, registered, setter, daemon, counts,
                 interrupted, leftover>>

(* The files the setup is filling.                                          *)
HalfWritten ==
  {f \in Files : (f = "main" /\ SetupAt("mainFill")) \/ (f = "conf" /\ SetupAt("confFill"))}

(* Any step may fail; one that fails while it fills a file leaves it empty. *)
SetupFails ==
  /\ setup.pc \notin {"idle", "done", "failed"}
  /\ SetupTo("failed")
  /\ interrupted' = interrupted \cup HalfWritten
  /\ UNCHANGED <<role, main, confVars, readable, registered, setter, daemon, counts,
                 leftover>>

(* The administrator resets the host: stops the unit and removes the files. *)
(* The entry in the directory stays.                                        *)
Reset ==
  /\ setup.pc = "failed" /\ setups < MaxSetups
  /\ \A s \in Setters : setter[s].pc # "fill"
  /\ main' = Absent /\ conf' = Absent /\ readable' = {}
  /\ lastFill' = Absent /\ interrupted' = {} /\ overlapped' = FALSE
  /\ leftover' = registered
  /\ NewDaemon("stopped")
  /\ SetupTo("idle")
  /\ UNCHANGED <<role, registered, setter, counts>>

-----------------------------------------------------------------------------
(* config set: reads the file, which must be there and parse, and writes it *)
(* with the new address, of which nothing is checked.                       *)

SetterTo(s, label) == setter' = [setter EXCEPT ![s].pc = label]

SetRead(s) ==
  /\ setter[s].pc = "idle"
  /\ \E a \in Addresses :
       setter' = [setter EXCEPT ![s] = [pc |-> IF conf \in Addresses THEN "truncate"
                                               ELSE "failed", value |-> a]]
  /\ UNCHANGED <<role, main, confVars, readable, registered, setup, daemon, counts,
                 interrupted, leftover>>

(* Mutation of SetTruncate: the file is opened, not truncated.              *)
SetOpen(s) ==
  /\ setter[s].pc = "truncate"
  /\ overlapped' = (overlapped \/ ConfWriters # {})
  /\ SetterTo(s, "fill")
  /\ UNCHANGED <<role, main, conf, lastFill, readable, registered, setup, daemon,
                 counts, interrupted, leftover>>

SetTruncate(s) ==
  /\ setter[s].pc = "truncate"
  /\ TruncateConf
  /\ readable' = (IF conf = Absent THEN readable \cup {"conf"} ELSE readable)
  /\ SetterTo(s, "fill")
  /\ UNCHANGED <<role, main, registered, setup, daemon, counts, interrupted, leftover>>

SetFill(s) ==
  /\ setter[s].pc = "fill"
  /\ \/ FillConf(setter[s].value) /\ SetterTo(s, "done") /\ UNCHANGED interrupted
     \/ /\ SetterTo(s, "failed")
        /\ interrupted' = interrupted \cup {"conf"}
        /\ UNCHANGED confVars
  /\ UNCHANGED <<role, main, readable, registered, setup, daemon, counts, leftover>>

(* config get.                                                              *)
GetConfig == IF conf \in Addresses THEN conf ELSE "error"

-----------------------------------------------------------------------------
(* service-discoverd.  Whatever it exits with, the unit starts it again.    *)

(* queryAllServiceDiscoverServers; without an answer it exits.              *)
Query ==
  /\ daemon.pc = "waiting"
  /\ daemon' = [daemon EXCEPT !.pc = "read", !.listed = registered]
  /\ UNCHANGED <<role, main, confVars, readable, registered, setup, setter, counts,
                 interrupted, leftover>>

(* Mutation of ReadMain: a main.json without the port is an error.          *)
ReadMainStrict ==
  /\ daemon.pc = "read"
  /\ IF main \in {Absent, Empty} \/ "main" \notin readable \/ ~main.grpc
     THEN NewDaemon("waiting")
     ELSE daemon' = [daemon EXCEPT !.held = main, !.pc = "exec"]
  /\ UNCHANGED <<role, main, confVars, readable, registered, setup, setter, counts,
                 interrupted, leftover>>

(* addGrpcTLS, which needs a main.json it can read and parse and rewrites   *)
(* one that lacks the port.                                                 *)
ReadMain ==
  /\ daemon.pc = "read"
  /\ IF main \in {Absent, Empty} \/ "main" \notin readable THEN NewDaemon("waiting")
     ELSE daemon' = [daemon EXCEPT !.held = main,
                                   !.pc = IF main.grpc THEN "exec" ELSE "truncate"]
  /\ UNCHANGED <<role, main, confVars, readable, registered, setup, setter, counts,
                 interrupted, leftover>>

RewriteTruncate ==
  /\ daemon.pc = "truncate"
  /\ main' = Empty
  /\ daemon' = [daemon EXCEPT !.pc = "fill"]
  /\ UNCHANGED <<role, confVars, readable, registered, setup, setter, counts,
                 interrupted, leftover>>

RewriteFill ==
  /\ daemon.pc = "fill"
  /\ \/ /\ main' = [daemon.held EXCEPT !.grpc = TRUE]
        /\ daemon' = [daemon EXCEPT !.pc = "exec"]
        /\ UNCHANGED interrupted
     \/ /\ NewDaemon("waiting")
        /\ interrupted' = interrupted \cup {"main"}
        /\ UNCHANGED main
  /\ UNCHANGED <<role, confVars, readable, registered, setup, setter, counts, leftover>>

(* startConsul: "a consul server is missing from ldap could cause trouble", *)
(* and an agent that is not missing too.  Consul reads the directory; of an *)
(* empty file it may make an error or nothing.                              *)
MayBindTo ==
  CASE main \in {Absent, Empty} \/ "main" \notin readable -> {}
    [] OTHER -> IF conf = Absent THEN {Default}
                ELSE IF conf = Torn \/ "conf" \notin readable THEN {}
                ELSE IF conf = Empty THEN {Default} ELSE {conf}

(* Mutation of Exec: whether the host is a server in LDAP does not matter.  *)
ExecUnlisted ==
  /\ daemon.pc = "exec"
  /\ \/ \E a \in MayBindTo : daemon' = [daemon EXCEPT !.pc = "running", !.bound = a]
     \/ MayBindTo \subseteq {Default} /\ NewDaemon("waiting")
  /\ UNCHANGED <<role, main, confVars, readable, registered, setup, setter, counts,
                 interrupted, leftover>>

Exec ==
  /\ daemon.pc = "exec"
  /\ \/ /\ daemon.listed = (role = "server")
        /\ \E a \in MayBindTo : daemon' = [daemon EXCEPT !.pc = "running", !.bound = a]
     \/ /\ daemon.listed # (role = "server") \/ MayBindTo \subseteq {Default}
        /\ NewDaemon("waiting")
  /\ UNCHANGED <<role, main, confVars, readable, registered, setup, setter, counts,
                 interrupted, leftover>>

(* Consul ends by itself, and is started again if it ended by an error      *)
(* (Restart=on-failure).                                                    *)
Die ==
  /\ daemon.pc = "running"
  /\ NewDaemon("waiting") \/ NewDaemon("stopped")
  /\ UNCHANGED <<role, main, confVars, readable, registered, setup, setter, counts,
                 interrupted, leftover>>

-----------------------------------------------------------------------------
(* A crash of the host ends every process in the middle of what it does;    *)
(* the unit is started at boot if it is enabled.                            *)
Crash ==
  /\ crashes < MaxCrashes
  /\ crashes' = crashes + 1
  /\ interrupted' = interrupted \cup HalfWritten
       \cup (IF daemon.pc = "fill" THEN {"main"} ELSE {})
       \cup (IF \E s \in Setters : setter[s].pc = "fill" THEN {"conf"} ELSE {})
  /\ IF setup.pc \in {"idle", "done", "failed"} THEN UNCHANGED setup
     ELSE SetupTo("failed")
  /\ setter' = [s \in Setters |->
       IF setter[s].pc \in {"truncate", "fill"} THEN [setter[s] EXCEPT !.pc = "failed"]
       ELSE setter[s]]
  /\ \E label \in {"waiting", "stopped"} : NewDaemon(label)
  /\ UNCHANGED <<role, main, confVars, readable, registered, setups, leftover>>

Setup ==
  \/ Begin \/ TruncateMain \/ FillMain \/ HandOverMain
  \/ TruncateBind \/ FillBind \/ HandOverConf
  \/ Register \/ StartUnit \/ UnitStarted \/ SetupFails \/ Reset

Set(s) == SetRead(s) \/ SetTruncate(s) \/ SetFill(s)

Daemon == Query \/ ReadMain \/ RewriteTruncate \/ RewriteFill \/ Exec

Next == Setup \/ (\E s \in Setters : Set(s)) \/ Daemon \/ Die \/ Crash

Spec == Init /\ [][Next]_vars

(* The unit is restarted until it runs ("Restart=on-failure"), and its      *)
(* query of the directory is answered in the end.  Nothing else is assumed  *)
(* to go on: a setup or a config set may stop anywhere.                     *)
FairSpec == Spec /\ WF_vars(Daemon)

-----------------------------------------------------------------------------
(* Properties.                                                              *)

SetupLabels ==
  {"idle", "main", "mainFill", "mainPerm", "conf", "confFill", "confPerm", "register",
   "start", "started", "done", "failed"}

DaemonLabels == {"stopped", "waiting", "read", "truncate", "fill", "exec", "running"}

Daemons ==
  [pc : DaemonLabels, listed : BOOLEAN, held : Mains, bound : {Default} \cup Addresses]

TypeOK ==
  /\ role \in {"server", "agent"}
  /\ main \in {Absent, Empty} \cup Mains
  /\ conf \in {Absent, Empty, Torn} \cup Addresses
  /\ readable \subseteq Files
  /\ registered \in BOOLEAN /\ leftover \in BOOLEAN /\ overlapped \in BOOLEAN
  /\ setup \in [pc : SetupLabels, bind : {Default} \cup Addresses]
  /\ ~SetupAt("idle") => setup.bind \in Addresses
  /\ setter \in [Setters -> [pc : {"idle", "truncate", "fill", "done", "failed"},
                             value : {Default} \cup Addresses]]
  /\ \A s \in Setters : setter[s].pc \in {"truncate", "fill"} => setter[s].value \in Addresses
  /\ daemon \in Daemons
  /\ setups \in 0..MaxSetups /\ crashes \in 0..MaxCrashes
  /\ lastFill \in {Absent} \cup Addresses
  /\ interrupted \subseteq Files

(* NonLoopbackInterfaces changes the list it ranges over; still an address  *)
(* a setup binds to is that of an interface in a list the host gave, and of *)
(* no loopback interface, wherever those stand in the list.                 *)
BindIsLan ==
  \/ setup.bind = Default
  \/ \E n \in Networks : \E i \in DOMAIN n :
       setup.bind = n[i] /\ n[i] \notin Loopbacks

(* "setup of service-discover already performed": main.json is the last     *)
(* setup's and whole, unless it is being written or its writer was stopped. *)
(* service-discoverd, which puts back what it read, never puts back the     *)
(* file of an earlier setup.                                                *)
MainIsLastSetup ==
  /\ main \in Mains => main.setup = setups
  /\ main = Empty => SetupAt("mainFill") \/ daemon.pc = "fill" \/ "main" \in interrupted

(* config get shows what was set last, if no two writers were at work at    *)
(* the same time and none was stopped in the middle.                        *)
GetIsLastSet ==
  ConfWriters = {} /\ ~overlapped /\ "conf" \notin interrupted => conf = lastFill

(* However early the unit is started, Consul does not start on an address   *)
(* it chose by itself, but while config.json is just being set or was left  *)
(* empty: a server is in the directory only when its config.json is there.  *)
(* An agent, or a server with an entry left over from before a reset, may   *)
(* do so between main.json and config.json (setup.go:499), or after a setup *)
(* that failed in between, but not once its setup has filled config.json.   *)
BindsChosen ==
  [][daemon.pc # "running" /\ daemon'.pc = "running" /\ daemon'.bound = Default =>
       \/ \E s \in Setters : setter[s].pc = "fill"
       \/ "conf" \in interrupted
       \/ /\ role = "agent" \/ leftover
          /\ setup.pc \in {"conf", "confFill", "failed"}]_vars

(* A host that is set up runs Consul again and again, whatever version set  *)
(* it up and however often it crashed.                                      *)
SetUp ==
  /\ daemon.pc # "stopped"
  /\ main # Absent /\ conf \in Addresses /\ readable = Files /\ interrupted = {}
  /\ registered = (role = "server")
ComesUp == <>[]SetUp => []<>(daemon.pc = "running")

(* The promise of Units, kept by this host; ClusterSetup keeps it for all   *)
(* hosts with a daemon that starts in one step.                             *)
ThisHost == {"host"}

UnitsOf == INSTANCE Units WITH
  Hosts      <- ThisHost,
  servers    <- {h \in ThisHost : role = "server"},
  configured <- {h \in ThisHost : main # Absent},
  enrolled   <- {h \in ThisHost : registered},
  unit       <- [h \in ThisHost |-> CASE daemon.pc = "stopped" -> "stopped"
                                      [] daemon.pc = "running" -> "up"
                                      [] OTHER -> "starting"]

ImplementsUnits == UnitsOf!Spec

-----------------------------------------------------------------------------
(* Why.  A setup that has not written main.json yet finds none, and what    *)
(* service-discoverd is about to put back is the last setup's.              *)
MainInv ==
  /\ SetupAt("main") => main = Absent
  /\ SetupAt("mainFill") => main = Empty
  /\ daemon.pc \in {"truncate", "fill"} =>
       /\ main # Absent /\ ~SetupAt("mainFill")
       /\ daemon.held.setup = setups
  /\ setup.pc \in {"mainPerm", "conf", "confFill", "confPerm", "register"} => main # Absent

(* Without an overlap there is one writer of config.json, of an empty file. *)
FillInv ==
  ~overlapped =>
    /\ ConfWriters # {} => conf = Empty
    /\ \A s, t \in Setters : setter[s].pc = "fill" /\ setter[t].pc = "fill" => s = t
    /\ \A s \in Setters : setter[s].pc = "fill" => ~SetupAt("confFill")

ConfThere ==
  \/ conf \in Addresses \cup {Torn}
  \/ conf = Empty /\ ((\E s \in Setters : setter[s].pc = "fill") \/ "conf" \in interrupted)

(* A server is registered, but for a leftover entry, when its config.json   *)
(* is there.                                                                *)
BindInv ==
  /\ daemon.listed => registered
  /\ SetupAt("confPerm") \/ SetupAt("register") => ConfThere
  /\ registered /\ ~leftover /\ role = "server" =>
       /\ ConfThere
       /\ main # Absent
       /\ setup.pc \notin {"main", "mainFill", "mainPerm", "conf", "confFill"}

(* What the daemon has read of LDAP is still so: an agent is never added,   *)
(* a server never taken away.                                               *)
ListedInv ==
  /\ SetupAt("register") => role = "server"
  /\ role = "agent" /\ daemon.pc \in {"read", "truncate", "fill", "exec"} =>
       daemon.listed = registered

(* A main.json without a config.json is that of a setup between the two, or *)
(* of one that failed there; the first one cannot be read before it is      *)
(* whole.                                                                   *)
WindowInv ==
  /\ main = Absent \/ ConfThere \/ setup.pc \in {"mainFill", "mainPerm", "conf", "confFill", "failed"}
  /\ setup.pc \in {"mainFill", "mainPerm"} => "main" \notin readable

HostInv ==
  /\ TypeOK /\ MainInv /\ MainIsLastSetup /\ FillInv /\ GetIsLastSet /\ BindInv
  /\ WindowInv
=============================================================================
