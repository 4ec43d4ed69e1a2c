------------------------- MODULE ClusterSetupProofs -------------------------
(* Proofs about ClusterSetup, for any servers, agents and containers, any   *)
(* use of --first-instance, and lagging or fresh LDAP reads.                *)
EXTENDS ClusterSetup, FiniteSetTheorems, SequenceTheorems, TLAPS

(* The three kinds of setup, and their steps.                               *)
LEMMA Modes ==
  /\ DOMAIN Steps = {"first", "import", "agent"}
  /\ Steps["first"] = performSetup
  /\ Steps["import"] = importSetup
  /\ Steps["agent"] = agentSetup
  /\ DOMAIN performSetup = {"ca", "cert", "config", "register", "start", "starting",
                            "leader", "bootstrap", "token", "archive", "upload", "enable"}
  /\ DOMAIN importSetup = {"download", "unpack", "cert", "config", "register", "start",
                           "starting", "token", "enable"}
  /\ DOMAIN agentSetup = {"download", "unpack", "cert", "config", "start", "starting",
                          "token", "enable"}
BY DEF Steps, performSetup, importSetup, agentSetup

(* The steps of all three together.                                         *)
LEMMA RunningIs ==
  Running = {"ca", "download", "unpack", "cert", "config", "register", "start",
             "starting", "leader", "bootstrap", "token", "archive", "upload", "enable"}
<1>1. Running = DOMAIN performSetup \cup DOMAIN importSetup \cup DOMAIN agentSetup
  BY Modes DEF Running
<1> QED BY <1>1, Modes

(* What follows a step of a setup is a step of it, or its end.              *)
LEMMA Follows ==
  ASSUME NEW m \in DOMAIN Steps, NEW label \in DOMAIN Steps[m]
  PROVE  /\ Steps[m][label] \in Running \cup {"done"}
         /\ Steps[m][label] \in Running => Steps[m][label] \in DOMAIN Steps[m]
<1>1. CASE m = "first"
  BY <1>1, Modes, RunningIs DEF performSetup
<1>2. CASE m = "import"
  BY <1>2, Modes, RunningIs DEF importSetup
<1>3. CASE m = "agent"
  BY <1>3, Modes, RunningIs DEF agentSetup
<1> QED BY <1>1, <1>2, <1>3, Modes

(* The position of a setup stays well typed as it proceeds or ends.         *)
LEMMA PositionTypes ==
  ASSUME TypeOK, mode' = mode, NEW h \in Hosts,
         \/ pc[h] \in Running /\ Proceed(h)
         \/ \E label \in Ended : Goto(h, label)
         \/ pc' = pc
  PROVE  pc' \in [Hosts -> Ended \cup Running] /\ InItsSteps'
<1>1. CASE pc[h] \in Running /\ Proceed(h)
  <2>1. /\ mode[h] \in DOMAIN Steps
        /\ pc[h] \in DOMAIN Steps[mode[h]]
    BY <1>1 DEF TypeOK, InItsSteps
  <2>2. /\ pc'[h] = Steps[mode[h]][pc[h]]
        /\ \A k \in Hosts : k # h => pc'[k] = pc[k]
        /\ pc' \in [Hosts -> Ended \cup Running]
    BY <1>1, <2>1, Follows DEF Proceed, Goto, TypeOK, Ended
  <2>3. ASSUME NEW k \in Hosts, pc'[k] \in Running
        PROVE  mode[k] \in DOMAIN Steps /\ pc'[k] \in DOMAIN Steps[mode[k]]
    <3>1. CASE k = h
      BY <2>1, <2>2, <2>3, <3>1, Follows
    <3>2. CASE k # h
      BY <2>2, <2>3, <3>2 DEF TypeOK, InItsSteps
    <3> QED BY <3>1, <3>2
  <2> QED BY <2>2, <2>3 DEF InItsSteps
<1>2. ASSUME NEW label \in Ended, Goto(h, label)
      PROVE  pc' \in [Hosts -> Ended \cup Running] /\ InItsSteps'
  <2>1. label \notin Running
    BY RunningIs DEF Ended
  <2> QED BY <1>2, <2>1 DEF Goto, TypeOK, InItsSteps
<1>3. CASE pc' = pc
  BY <1>3 DEF TypeOK, InItsSteps
<1> QED BY <1>1, <1>2, <1>3

(* The initial states have the types of TypeOK.                             *)
LEMMA TypeInit == Init => TypeOK
<1>1. ASSUME Init PROVE registered \in Seq(Hosts) /\ clusters \in Seq(KeyIds \cup {None})
  BY <1>1 DEF Init
<1>2. ASSUME Init PROVE runs \in [Hosts -> Nat]
  BY <1>2, HostsAssumption DEF Init
<1>3. NoCreds \in Creds
  BY DEF NoCreds, Creds
<1>4. ASSUME Init PROVE unit \in [Hosts -> {"stopped", "starting", "up"}]
  BY <1>4 DEF Init
<1>5. ASSUME Init PROVE InItsSteps
  BY <1>5, RunningIs DEF Init, InItsSteps
<1> QED BY <1>1, <1>2, <1>3, <1>4, <1>5 DEF Init, TypeOK, Ended

(* A reading of LDAP, however late, is a prefix of the registrations.       *)
LEMMA SnapshotIsPrefix ==
  ASSUME TypeOK, NEW servers \in Snapshots
  PROVE  /\ servers \in Seq(Hosts)
         /\ \A i \in DOMAIN servers : i \in DOMAIN registered /\ servers[i] = registered[i]
<1>1. registered \in Seq(Hosts)
  BY DEF TypeOK
<1>2. CASE servers = registered
  BY <1>1, <1>2
<1>3. CASE StaleReads
  <2>1. PICK n \in 0..Len(registered) : servers = SubSeq(registered, 1, n)
    BY <1>3 DEF Snapshots
  <2>2. \A i \in 1..n : i \in DOMAIN registered /\ registered[i] \in Hosts
    BY <1>1, <2>1
  <2>3. n \in Int /\ n - 1 + 1 = n
    BY <2>1
  <2>4. /\ servers \in Seq(Hosts)
        /\ Len(servers) = IF 1 <= n THEN n - 1 + 1 ELSE 0
        /\ \A i \in 1..(n - 1 + 1) : servers[i] = registered[1 + i - 1]
    BY <2>1, <2>2, <2>3, SubSeqProperties
  <2>5. DOMAIN servers = 1..n
    BY <2>1, <2>4
  <2> QED BY <2>2, <2>4, <2>5
<1> QED BY <1>2, <1>3 DEF Snapshots

(* Every step leaves each setup at one of its steps, or ended.              *)
LEMMA PositionStep ==
  ASSUME TypeOK, [Next]_vars
  PROVE  pc' \in [Hosts -> Ended \cup Running] /\ InItsSteps'
<1> DEFINE P == pc' \in [Hosts -> Ended \cup Running] /\ InItsSteps'
<1>1. ASSUME NEW h \in Hosts, NEW m \in {"first", "import", "agent"}, NEW label,
             Begin(h, m, label), label = IF m = "first" THEN "ca" ELSE "download"
      PROVE  P
  <2>1. label \in Running /\ m \in DOMAIN Steps /\ label \in DOMAIN Steps[m]
    BY <1>1, Modes, RunningIs
  <2> QED BY <1>1, <2>1 DEF Begin, Goto, TypeOK, InItsSteps
<1>2. ASSUME NEW h \in Hosts, SetupStep(h) PROVE P
  <2>1. pc[h] \in Running
    BY <1>2, RunningIs DEF SetupStep, At, GenerateKeys, Download, Unpack, CreateCertificate,
       WriteConfig, AddService, StartUnit, Started, WaitForConsulLeader,
       CreateACLBootstrapToken, InstallToken, CreateEncryptedSecret, UploadCredentials, Enable
  <2>2. mode' = mode /\ (Proceed(h) \/ \E label \in Ended : Goto(h, label))
    BY <1>2 DEF SetupStep, Ended, GenerateKeys, Download, Unpack, CreateCertificate,
       WriteConfig, AddService, StartUnit, Started, WaitForConsulLeader,
       CreateACLBootstrapToken, InstallToken, CreateEncryptedSecret, UploadCredentials, Enable
  <2> QED BY <2>1, <2>2, PositionTypes
<1>3. ASSUME NEW h \in Hosts, Fail(h) \/ Crash(h) \/ Reset(h) PROVE P
  <2>1. mode' = mode /\ \E label \in Ended : Goto(h, label)
    BY <1>3 DEF Fail, Crash, Reset, Ended
  <2> QED BY <2>1, PositionTypes
<1>4. ASSUME NEW h \in Hosts, DaemonStart(h) \/ DaemonDies(h) PROVE P
  BY <1>4 DEF DaemonStart, DaemonDies, setup, TypeOK, InItsSteps
<1>5. ASSUME NEW h \in Servers, Elect(h) \/ Join(h) PROVE P
  BY <1>5 DEF Elect, Join, setup, TypeOK, InItsSteps
<1>6. CASE UNCHANGED vars
  BY <1>6 DEF vars, TypeOK, InItsSteps
<1>7. ASSUME NEW h \in Servers, RunServer(h) PROVE P
  <2>1. h \in Hosts
    BY DEF Hosts
  <2>2. Begin(h, "first", "ca") \/ Begin(h, "import", "download")
    BY <1>7 DEF RunServer
  <2> QED BY <1>1, <2>1, <2>2
<1>8. ASSUME NEW h \in Agents, RunAgent(h) PROVE P
  BY <1>1, <1>8 DEF RunAgent, Hosts
<1> QED BY <1>2, <1>3, <1>4, <1>5, <1>6, <1>7, <1>8 DEF Next, Normal, Fault

(* Every step preserves the types.                                          *)
LEMMA TypeStep ==
  ASSUME TypeOK, [Next]_vars
  PROVE  TypeOK'
<1> USE DEF setup, files, ldap, consul, daemon
<1>0. NoCreds \in Creds /\ pc' \in [Hosts -> Ended \cup Running] /\ InItsSteps'
  BY PositionStep DEF NoCreds, Creds
<1>1. ASSUME NEW h \in Hosts, NEW m \in {"first", "import", "agent"},
             NEW label \in {"ca", "download"}, Begin(h, m, label)
      PROVE  TypeOK'
  BY <1>0, <1>1, HostsAssumption DEF Begin, TypeOK
<1>2. ASSUME NEW h \in Hosts, GenerateKeys(h) PROVE TypeOK'
  <2>1. runs[h] \in Nat
    BY HostsAssumption DEF TypeOK
  <2>2. <<h, runs[h]>> \in KeyIds
    BY <2>1 DEF KeyIds
  <2>3. [gossip |-> <<h, runs[h]>>, ca |-> <<h, runs[h]>>, boot |-> 0] \in Creds
    BY <2>2 DEF Creds
  <2> QED BY <1>0, <1>2, <2>2, <2>3 DEF GenerateKeys, TypeOK
<1>3. ASSUME NEW h \in Hosts, Download(h) PROVE TypeOK'
  <2>1. Downloads \subseteq Creds
    BY DEF Downloads, TypeOK
  <2> QED BY <1>0, <1>3, <2>1 DEF Download, TypeOK
<1>4. ASSUME NEW h \in Hosts, Unpack(h) PROVE TypeOK'
  <2>1. cred[h].ca \in KeyIds \cup {None}
    BY DEF TypeOK, Creds
  <2> QED BY <1>0, <1>4, <2>1 DEF Unpack, TypeOK
<1>5. ASSUME NEW h \in Hosts, CreateCertificate(h) PROVE TypeOK'
  BY <1>0, <1>5 DEF CreateCertificate, TypeOK
<1>6. ASSUME NEW h \in Hosts, WriteConfig(h) PROVE TypeOK'
  <2>1. mem[h].gossip \in KeyIds \cup {None}
    BY DEF TypeOK, Creds
  <2> QED BY <1>0, <1>6, <2>1 DEF WriteConfig, TypeOK
<1>7. ASSUME NEW h \in Hosts, AddService(h) PROVE TypeOK'
  <2>1. registered' \in Seq(Hosts)
    BY <1>7, AppendProperties DEF AddService, TypeOK
  <2> QED BY <1>0, <1>7, <2>1 DEF AddService, TypeOK
<1>8. ASSUME NEW h \in Hosts, StartUnit(h) PROVE TypeOK'
  BY <1>0, <1>8 DEF StartUnit, TypeOK
<1>9. ASSUME NEW h \in Hosts, Started(h) PROVE TypeOK'
  BY <1>0, <1>9 DEF Started, TypeOK
<1>10. ASSUME NEW h \in Hosts, DaemonStart(h) PROVE TypeOK'
  <2>1. PICK servers \in Snapshots :
          expect' = [expect EXCEPT ![h] = IF h \in Servers THEN Len(servers) \div 2 + 1 ELSE 0]
    BY <1>10 DEF DaemonStart, startConsul
  <2>2. servers \in Seq(Hosts)
    BY SnapshotIsPrefix
  <2>3. (IF h \in Servers THEN Len(servers) \div 2 + 1 ELSE 0) \in Nat
    BY <2>2, LenProperties
  <2> QED BY <1>0, <1>10, <2>1, <2>3 DEF DaemonStart, TypeOK
<1>11. ASSUME NEW h \in Hosts, DaemonDies(h) PROVE TypeOK'
  BY <1>0, <1>11 DEF DaemonDies, Down, TypeOK
<1>12. ASSUME NEW h \in Servers, Elect(h) PROVE TypeOK'
  <2>1. main[h] \in KeyIds \cup {None}
    BY DEF TypeOK, Hosts
  <2>2. /\ clusters' \in Seq(KeyIds \cup {None})
        /\ DOMAIN clusters \subseteq DOMAIN clusters'
        /\ Len(clusters) + 1 \in Nat
    BY <1>12, <2>1, AppendProperties, LenProperties DEF Elect, TypeOK
  <2>3. data' \in [Hosts -> Nat]
    BY <1>12, <2>2 DEF Elect, TypeOK
  <2> QED BY <1>0, <1>12, <2>2, <2>3 DEF Elect, TypeOK
<1>13. ASSUME NEW h \in Servers, Join(h) PROVE TypeOK'
  BY <1>0, <1>13 DEF Join, Peers, TypeOK, Hosts
<1>14. ASSUME NEW h \in Hosts, WaitForConsulLeader(h) PROVE TypeOK'
  BY <1>0, <1>14 DEF WaitForConsulLeader, TypeOK
<1>15. ASSUME NEW h \in Hosts, CreateACLBootstrapToken(h) PROVE TypeOK'
  <2>1. PICK c \in DOMAIN clusters \ acl :
          acl' = acl \cup {c} /\ mem' = [mem EXCEPT ![h].boot = c]
    BY <1>15 DEF CreateACLBootstrapToken
  <2>2. c \in Nat
    BY <2>1, LenProperties DEF TypeOK
  <2>3. mem' \in [Hosts -> Creds]
    BY <2>1, <2>2 DEF TypeOK, Creds
  <2> QED BY <1>0, <1>15, <2>1, <2>3 DEF CreateACLBootstrapToken, TypeOK
<1>16. ASSUME NEW h \in Hosts, InstallToken(h) PROVE TypeOK'
  <2>1. mem[h].boot \in Nat
    BY DEF TypeOK, Creds
  <2> QED BY <1>0, <1>16, <2>1 DEF InstallToken, TypeOK
<1>17. ASSUME NEW h \in Hosts, CreateEncryptedSecret(h) PROVE TypeOK'
  <2>1. [gossip |-> mem[h].gossip, ca |-> cakey[h], boot |-> mem[h].boot] \in Creds
    BY DEF TypeOK, Creds
  <2> QED BY <1>0, <1>17, <2>1 DEF CreateEncryptedSecret, TypeOK
<1>18. ASSUME NEW h \in Hosts, UploadCredentials(h) PROVE TypeOK'
  BY <1>0, <1>18 DEF UploadCredentials, TypeOK
<1>19. ASSUME NEW h \in Hosts, Enable(h) \/ Fail(h) PROVE TypeOK'
  <2>1. mem' \in [Hosts -> Creds]
    BY <1>0, <1>19 DEF Enable, Fail, TypeOK
  <2>2. CASE RemoveKey(h) /\ UNCHANGED <<ca, spilled>>
    <3>1. cakey' \in [Hosts -> KeyIds \cup {None}]
      BY <2>2 DEF RemoveKey, TypeOK
    <3> QED BY <1>0, <1>19, <2>1, <2>2, <3>1 DEF Enable, Fail, TypeOK
  <2>3. CASE Fail(h) /\ WriteKeyFails(h)
    <3>1. cred[h].ca \in KeyIds \cup {None}
      BY DEF TypeOK, Creds
    <3>2. /\ ca' \in [Hosts -> KeyIds \cup {None}]
          /\ cakey' \in [Hosts -> KeyIds \cup {None}]
          /\ spilled' \subseteq (Hosts \X {"crash"}) \cup (Servers \X {"write"})
      BY <2>3, <3>1 DEF WriteKeyFails, TypeOK
    <3> QED BY <1>0, <2>1, <2>3, <3>2 DEF Fail, TypeOK
  <2> QED BY <1>19, <2>2, <2>3 DEF Enable, Fail
<1>20. ASSUME NEW h \in Hosts, Crash(h) PROVE TypeOK'
  <2>1. /\ mem' \in [Hosts -> Creds] /\ unit' \in [Hosts -> {"stopped", "starting", "up"}]
        /\ spilled' \subseteq (Hosts \X {"crash"}) \cup (Servers \X {"write"})
        /\ expect' \in [Hosts -> Nat]
    BY <1>0, <1>20 DEF Crash, Down, TypeOK
  <2> QED BY <1>0, <1>20, <2>1 DEF Crash, TypeOK
<1>21. ASSUME NEW h \in Hosts, Reset(h) PROVE TypeOK'
  BY <1>0, <1>21 DEF Reset, TypeOK
<1>22. ASSUME UNCHANGED vars PROVE TypeOK'
  BY <1>0, <1>22 DEF vars, TypeOK
<1>23. Servers \subseteq Hosts /\ Agents \subseteq Hosts
  BY DEF Hosts
<1> QED
  BY <1>1, <1>2, <1>3, <1>4, <1>5, <1>6, <1>7, <1>8, <1>9, <1>10, <1>11, <1>12,
     <1>13, <1>14, <1>15, <1>16, <1>17, <1>18, <1>19, <1>20, <1>21, <1>22, <1>23
     DEF Next, Normal, Fault, SetupStep, RunServer, RunAgent

(* The files, the memory and the position of every setup are well typed     *)
(* throughout, whatever fails, crashes or is reset.                         *)
THEOREM TypeCorrect == Spec => []TypeOK
BY TypeInit, TypeStep, PTL DEF Spec

(* Registrations are only ever added at the end: the first registered       *)
(* server, and so the founder's key material, stays the same.               *)
LEMMA FirstStays ==
  ASSUME TypeOK, [Next]_vars
  PROVE  /\ registered # <<>> => registered' # <<>> /\ registered'[1] = registered[1]
         /\ \A k : FromFirst(k) => FromFirst(k)'
<1>1. registered' = registered \/ \E h \in Hosts : registered' = Append(registered, h)
  BY DEF Next, Normal, Fault, SetupStep, RunServer, RunAgent, Begin, vars,
         GenerateKeys, Download, Unpack, CreateCertificate, WriteConfig, AddService,
         StartUnit, Started, DaemonStart, DaemonDies, Elect, Join, WaitForConsulLeader,
         CreateACLBootstrapToken, InstallToken, CreateEncryptedSecret,
         UploadCredentials, Enable, Fail, Crash, Reset, ldap
<1>2. registered # <<>> => registered' # <<>> /\ registered'[1] = registered[1]
  <2>1. CASE registered' = registered
    BY <2>1
  <2>2. ASSUME NEW h \in Hosts, registered' = Append(registered, h), registered # <<>>
        PROVE  registered' # <<>> /\ registered'[1] = registered[1]
    <3>1. registered \in Seq(Hosts)
      BY DEF TypeOK
    <3>2. 1 \in 1..Len(registered)
      BY <3>1, <2>2
    <3> QED BY <2>2, <3>1, <3>2, AppendProperties
  <2> QED BY <1>1, <2>1, <2>2
<1>3. \A k : FromFirst(k) => FromFirst(k)'
  BY <1>2 DEF FromFirst
<1> QED BY <1>2, <1>3

(* The founding invariant holds at first, ...                               *)
LEMMA InvInit == Init => FoundingInv
<1> SUFFICES ASSUME Init PROVE FoundingInv
  OBVIOUS
<1>1. OwnOrFirst /\ SharedIsFirst /\ MainIsMem /\ ExpectIsSound
  BY DEF Init, OwnOrFirst, SharedIsFirst, MainIsMem, ExpectIsSound, NoCreds
<1>2. DataIsFirst
  BY DEF Init, DataIsFirst
<1> QED BY <1>1, <1>2, TypeInit DEF FoundingInv

(* How a step can change the key material of one host.                      *)
KeyChanges(h) ==
  /\ main'[h] \in {main[h], None} \/ WriteConfig(h)
  /\ mem'[h].gossip \in {mem[h].gossip, None, cred[h].gossip, <<h, runs[h]>>}
  /\ cred'[h] \in {cred[h], NoCreds, published} \cup earlier \/ CreateEncryptedSecret(h)
  /\ earlier' \subseteq earlier \cup {published}
  /\ published' # published => \E k \in Hosts : published' = cred[k]

(* A first setup past the election; any setup past and before main.json.    *)
Leads(h)      == pc[h] \in {"bootstrap", "archive"} \/ (pc[h] = "token" /\ mode[h] = "first")
Configured(h) == pc[h] \in {"register", "start", "starting", "leader"}
Preparing(h)  == pc[h] \in {"ca", "download", "unpack", "cert", "config"}

(* How a step can move one setup and one unit.                              *)
Moves(h) ==
  /\ Leads(h)' => WaitForConsulLeader(h) \/ (Leads(h) /\ mem'[h].gossip = mem[h].gossip)
  /\ Configured(h)' =>
       WriteConfig(h) \/ (Configured(h) /\ main'[h] = main[h] /\ mem'[h].gossip = mem[h].gossip)
  /\ Preparing(h)' => main'[h] = main[h] /\ (Preparing(h) \/ main[h] = None)
  /\ unit'[h] = "up" =>
       \/ DaemonStart(h)
       \/ /\ unit[h] = "up" /\ expect'[h] = expect[h]
          /\ main'[h] = main[h] \/ WriteConfig(h)

(* A setup enters a phase from the one before.                              *)
LEMMA Phases ==
  ASSUME TypeOK, NEW g \in Hosts, SetupStep(g), NEW h \in Hosts
  PROVE  /\ mode' = mode
         /\ g # h => pc'[h] = pc[h]
         /\ Leads(h)' => Leads(h) \/ (g = h /\ pc[h] = "leader")
         /\ Configured(h)' => Configured(h) \/ (g = h /\ pc[h] = "config")
         /\ Preparing(h)' => Preparing(h)
<1> USE DEF Leads, Configured, Preparing
<1>1. /\ pc[g] \in Running /\ mode' = mode
      /\ Proceed(g) \/ Goto(g, "failed")
  BY RunningIs DEF SetupStep, At, GenerateKeys, Download, Unpack, CreateCertificate,
     WriteConfig, AddService, StartUnit, Started, WaitForConsulLeader, CreateACLBootstrapToken,
     InstallToken, CreateEncryptedSecret, UploadCredentials, Enable
<1>2. /\ g # h => pc'[h] = pc[h]
      /\ pc'[g] = Steps[mode[g]][pc[g]] \/ pc'[g] = "failed"
  BY <1>1 DEF Proceed, Goto, TypeOK
<1>3. mode[g] \in DOMAIN Steps /\ pc[g] \in DOMAIN Steps[mode[g]]
  BY <1>1 DEF TypeOK, InItsSteps
<1>4. CASE g # h \/ pc'[g] = "failed"
  BY <1>1, <1>2, <1>4
<1>5. CASE g = h /\ pc'[g] = Steps[mode[g]][pc[g]] /\ mode[g] = "first"
  BY <1>1, <1>3, <1>5, Modes DEF performSetup
<1>6. CASE g = h /\ pc'[g] = Steps[mode[g]][pc[g]] /\ mode[g] = "import"
  BY <1>1, <1>3, <1>6, Modes DEF importSetup
<1>7. CASE g = h /\ pc'[g] = Steps[mode[g]][pc[g]] /\ mode[g] = "agent"
  BY <1>1, <1>3, <1>7, Modes DEF agentSetup
<1> QED BY <1>2, <1>3, <1>4, <1>5, <1>6, <1>7, Modes

(* Writing main.json ends the preparation.                                  *)
LEMMA ConfigEnds ==
  ASSUME TypeOK, NEW h \in Hosts, WriteConfig(h)
  PROVE  ~Preparing(h)'
<1>1. pc[h] = "config" /\ pc'[h] = Steps[mode[h]]["config"]
  BY DEF WriteConfig, At, Proceed, Goto, TypeOK
<1>2. mode[h] \in DOMAIN Steps /\ "config" \in DOMAIN Steps[mode[h]]
  BY <1>1, RunningIs DEF TypeOK, InItsSteps
<1>3. pc'[h] \in {"register", "start"}
  BY <1>1, <1>2, Modes DEF performSetup, importSetup, agentSetup
<1> QED BY <1>3 DEF Preparing

(* Every step changes a host in one of these ways only.                     *)
LEMMA Changes ==
  ASSUME TypeOK, [Next]_vars, NEW h \in Hosts
  PROVE  KeyChanges(h) /\ Moves(h)
<1> USE DEF KeyChanges, Moves, Leads, Configured, Preparing, At,
            setup, files, ldap, consul, daemon
<1> DEFINE Enters(g) ==
             /\ mode' = mode
             /\ g # h => pc'[h] = pc[h]
             /\ Leads(h)' => Leads(h) \/ (g = h /\ pc[h] = "leader")
             /\ Configured(h)' => Configured(h) \/ (g = h /\ pc[h] = "config")
             /\ Preparing(h)' => Preparing(h)
<1>0. ASSUME NEW g \in Hosts, SetupStep(g) PROVE Enters(g)
  BY <1>0, Phases
<1>1. ASSUME NEW g \in Hosts, NEW m \in {"first", "import", "agent"},
             NEW label \in {"ca", "download"}, Begin(g, m, label)
      PROVE  KeyChanges(h) /\ Moves(h)
  BY <1>1 DEF Begin, Goto, TypeOK
<1>2. ASSUME NEW g \in Hosts, GenerateKeys(g) PROVE KeyChanges(h) /\ Moves(h)
  <2>1. Enters(g)
    BY <1>2, <1>0 DEF SetupStep
  <2> QED BY <1>2, <2>1 DEF GenerateKeys, TypeOK, Creds
<1>3. ASSUME NEW g \in Hosts, Download(g) PROVE KeyChanges(h) /\ Moves(h)
  <2>1. Enters(g)
    BY <1>3, <1>0 DEF SetupStep
  <2>2. Downloads \subseteq {published} \cup earlier
    BY DEF Downloads
  <2> QED BY <1>3, <2>1, <2>2 DEF Download, TypeOK
<1>4. ASSUME NEW g \in Hosts, Unpack(g) PROVE KeyChanges(h) /\ Moves(h)
  <2>1. Enters(g)
    BY <1>4, <1>0 DEF SetupStep
  <2> QED BY <1>4, <2>1 DEF Unpack, TypeOK, Creds
<1>5. ASSUME NEW g \in Hosts, CreateCertificate(g) PROVE KeyChanges(h) /\ Moves(h)
  <2>1. Enters(g)
    BY <1>5, <1>0 DEF SetupStep
  <2> QED BY <1>5, <2>1 DEF CreateCertificate, TypeOK
<1>6. ASSUME NEW g \in Hosts, WriteConfig(g) PROVE KeyChanges(h) /\ Moves(h)
  <2>1. Enters(g)
    BY <1>6, <1>0 DEF SetupStep
  <2>2. /\ cred' = cred /\ published' = published /\ earlier' = earlier /\ mem' = mem
        /\ unit' = unit /\ expect' = expect
        /\ At(g, "config")
    BY <1>6 DEF WriteConfig
  <2>3. CASE g = h
    <3>1. WriteConfig(h)
      BY <1>6, <2>3
    <3>2. ~Preparing(h)'
      BY <1>6, <2>3, ConfigEnds
    <3> QED BY <2>1, <2>2, <3>1, <3>2
  <2>4. CASE g # h
    <3>1. main'[h] = main[h]
      BY <1>6, <2>4 DEF WriteConfig, TypeOK
    <3> QED BY <2>1, <2>2, <2>4, <3>1
  <2> QED BY <2>3, <2>4
<1>7. ASSUME NEW g \in Hosts, AddService(g) PROVE KeyChanges(h) /\ Moves(h)
  <2>1. Enters(g)
    BY <1>7, <1>0 DEF SetupStep
  <2> QED BY <1>7, <2>1 DEF AddService, TypeOK
<1>8. ASSUME NEW g \in Hosts, StartUnit(g) PROVE KeyChanges(h) /\ Moves(h)
  <2>1. Enters(g)
    BY <1>8, <1>0 DEF SetupStep
  <2> QED BY <1>8, <2>1 DEF StartUnit, TypeOK
<1>9. ASSUME NEW g \in Hosts, Started(g) PROVE KeyChanges(h) /\ Moves(h)
  <2>1. Enters(g)
    BY <1>9, <1>0 DEF SetupStep
  <2> QED BY <1>9, <2>1 DEF Started, TypeOK
<1>10. ASSUME NEW g \in Hosts, DaemonStart(g) PROVE KeyChanges(h) /\ Moves(h)
  <2>1. KeyChanges(h)
    BY <1>10 DEF DaemonStart
  <2>2. /\ pc' = pc /\ mode' = mode /\ main' = main /\ mem' = mem
        /\ g # h => unit'[h] = unit[h] /\ expect'[h] = expect[h]
    BY <1>10 DEF DaemonStart, startConsul, TypeOK
  <2>3. Moves(h)
    BY <1>10, <2>2
  <2> QED BY <2>1, <2>3
<1>11. ASSUME NEW g \in Hosts, DaemonDies(g) PROVE KeyChanges(h) /\ Moves(h)
  BY <1>11 DEF DaemonDies, TypeOK, Down
<1>12. ASSUME NEW g \in Hosts, WaitForConsulLeader(g) PROVE KeyChanges(h) /\ Moves(h)
  <2>1. Enters(g)
    BY <1>12, <1>0 DEF SetupStep
  <2> QED BY <1>12, <2>1 DEF WaitForConsulLeader, TypeOK
<1>13. ASSUME NEW g \in Hosts, CreateACLBootstrapToken(g) PROVE KeyChanges(h) /\ Moves(h)
  <2>1. Enters(g)
    BY <1>13, <1>0 DEF SetupStep
  <2>2. /\ main' = main /\ cred' = cred /\ published' = published /\ earlier' = earlier
        /\ unit' = unit /\ expect' = expect
        /\ mem'[h].gossip = mem[h].gossip
        /\ At(g, "bootstrap")
    BY <1>13 DEF CreateACLBootstrapToken, TypeOK, Creds
  <2> QED BY <2>1, <2>2
<1>14. ASSUME NEW g \in Hosts, InstallToken(g) PROVE KeyChanges(h) /\ Moves(h)
  <2>1. Enters(g)
    BY <1>14, <1>0 DEF SetupStep
  <2> QED BY <1>14, <2>1 DEF InstallToken, TypeOK
<1>15. ASSUME NEW g \in Hosts, CreateEncryptedSecret(g) PROVE KeyChanges(h) /\ Moves(h)
  <2>1. Enters(g)
    BY <1>15, <1>0 DEF SetupStep
  <2> QED BY <1>15, <2>1 DEF CreateEncryptedSecret, TypeOK
<1>16. ASSUME NEW g \in Hosts, UploadCredentials(g) PROVE KeyChanges(h) /\ Moves(h)
  <2>1. Enters(g)
    BY <1>16, <1>0 DEF SetupStep
  <2> QED BY <1>16, <2>1 DEF UploadCredentials, TypeOK
<1>17. ASSUME NEW g \in Hosts, Enable(g) PROVE KeyChanges(h) /\ Moves(h)
  <2>1. Enters(g)
    BY <1>17, <1>0 DEF SetupStep
  <2> QED BY <1>17, <2>1 DEF Enable, TypeOK, NoCreds
<1>18. ASSUME NEW g \in Hosts, Fail(g) PROVE KeyChanges(h) /\ Moves(h)
  BY <1>18 DEF Fail, Goto, TypeOK, NoCreds
<1>19. ASSUME NEW g \in Hosts, Crash(g) PROVE KeyChanges(h) /\ Moves(h)
  BY <1>19 DEF Crash, Goto, TypeOK, Down, NoCreds
<1>20. ASSUME NEW g \in Hosts, Reset(g) PROVE KeyChanges(h) /\ Moves(h)
  BY <1>20 DEF Reset, Goto, TypeOK
<1>21. ASSUME NEW g \in Servers, Elect(g) \/ Join(g) PROVE KeyChanges(h) /\ Moves(h)
  BY <1>21 DEF Elect, Join
<1>22. ASSUME UNCHANGED vars PROVE KeyChanges(h) /\ Moves(h)
  BY <1>22 DEF vars
<1>23. Servers \subseteq Hosts /\ Agents \subseteq Hosts
  BY DEF Hosts
<1> QED
  BY <1>1, <1>2, <1>3, <1>4, <1>5, <1>6, <1>7, <1>8, <1>9, <1>10, <1>11, <1>12,
     <1>13, <1>14, <1>15, <1>16, <1>17, <1>18, <1>19, <1>20, <1>21, <1>22, <1>23
     DEF Next, Normal, Fault, SetupStep, RunServer, RunAgent

(* Key material on a host stays its own or the founder's.                   *)
LEMMA OwnStep ==
  ASSUME FoundingInv, [Next]_vars
  PROVE  OwnOrFirst'
<1> USE DEF FromFirst
<1> SUFFICES ASSUME NEW h \in Hosts
             PROVE  /\ main'[h] # None => main'[h][1] = h \/ FromFirst(main[h])'
                    /\ mem'[h].gossip # None =>
                         mem'[h].gossip[1] = h \/ FromFirst(mem[h].gossip)'
  BY DEF OwnOrFirst
<1>1. KeyChanges(h) /\ \A k : FromFirst(k) => FromFirst(k)'
  BY Changes, FirstStays DEF FoundingInv
<1>2. /\ main[h] # None => main[h][1] = h \/ FromFirst(main[h])
      /\ mem[h].gossip # None => mem[h].gossip[1] = h \/ FromFirst(mem[h].gossip)
      /\ cred[h] # NoCreds => FromFirst(cred[h].gossip)
  BY DEF FoundingInv, OwnOrFirst, SharedIsFirst
<1>3. main'[h] # None => main'[h][1] = h \/ FromFirst(main[h])'
  <2>1. CASE main'[h] \in {main[h], None}
    BY <1>1, <1>2, <2>1
  <2>2. CASE WriteConfig(h)
    <3>1. main'[h] = mem[h].gossip
      BY <2>2 DEF WriteConfig, FoundingInv, TypeOK
    <3> QED BY <1>1, <1>2, <3>1
  <2> QED BY <1>1, <2>1, <2>2 DEF KeyChanges
<1>4. mem'[h].gossip # None => mem'[h].gossip[1] = h \/ FromFirst(mem[h].gossip)'
  <2>1. cred[h].gossip # None => FromFirst(cred[h].gossip)
    BY <1>2 DEF NoCreds
  <2> QED BY <1>1, <1>2, <2>1 DEF KeyChanges
<1> QED BY <1>3, <1>4

(* Who reaches a cluster has its gossip key in main.json.                   *)
LEMMA ReachedIsMain ==
  ASSUME FoundingInv, NEW h \in Hosts, NEW c \in DOMAIN clusters, Reaches(h, c)
  PROVE  clusters[c] = main[h]
BY DEF Reaches, Peers, Talk, FoundingInv, DataIsFirst, Hosts

(* What is shared, or about to be, stays the founder's.                     *)
LEMMA SharedStep ==
  ASSUME FoundingInv, [Next]_vars
  PROVE  SharedIsFirst'
<1> USE DEF FromFirst
<1>1. /\ \A h \in Hosts : KeyChanges(h) /\ Moves(h)
      /\ \A k : FromFirst(k) => FromFirst(k)'
  BY Changes, FirstStays DEF FoundingInv
<1>2. /\ \A c \in {published} \cup earlier : c # NoCreds => FromFirst(c.gossip)
      /\ \A h \in Hosts : cred[h] # NoCreds => FromFirst(cred[h].gossip)
      /\ \A h \in Hosts : Leads(h) => FromFirst(mem[h].gossip)
  BY DEF FoundingInv, SharedIsFirst, Leads
<1>3. published' # NoCreds => FromFirst(published.gossip)'
  <2>1. CASE published' = published
    BY <1>1, <1>2, <2>1
  <2>2. ASSUME NEW k \in Hosts, published' = cred[k]
        PROVE  published' # NoCreds => FromFirst(published.gossip)'
    BY <1>1, <1>2, <2>2
  <2>3. Hosts # {} => published' = published \/ \E k \in Hosts : published' = cred[k]
    BY <1>1 DEF KeyChanges
  <2>4. Hosts = {} => published' = published
    BY DEF Next, Normal, Fault, vars, Hosts
  <2> QED BY <2>1, <2>2, <2>3, <2>4
<1>4. ASSUME NEW h \in Hosts PROVE cred'[h] # NoCreds => FromFirst(cred[h].gossip)'
  <2>1. CASE CreateEncryptedSecret(h)
    <3>1. cred'[h].gossip = mem[h].gossip /\ Leads(h)
      BY <2>1 DEF CreateEncryptedSecret, At, Leads, FoundingInv, TypeOK
    <3> QED BY <1>1, <1>2, <3>1
  <2>2. CASE cred'[h] \in {cred[h], NoCreds, published} \cup earlier
    BY <1>1, <1>2, <2>2
  <2> QED BY <1>1, <2>1, <2>2 DEF KeyChanges
<1>5. earlier' \subseteq earlier \cup {published}
  <2>1. Hosts # {} => earlier' \subseteq earlier \cup {published}
    BY <1>1 DEF KeyChanges
  <2>2. Hosts = {} => earlier' = earlier
    BY DEF Next, Normal, Fault, vars, Hosts
  <2> QED BY <2>1, <2>2
<1>6. ASSUME NEW c \in earlier' PROVE c # NoCreds => FromFirst(c.gossip)'
  BY <1>1, <1>2, <1>5
<1>7. ASSUME NEW h \in Hosts, Leads(h)' PROVE FromFirst(mem[h].gossip)'
  <2>1. CASE WaitForConsulLeader(h)
    <3>1. PICK c \in DOMAIN clusters : Reaches(h, c)
      BY <2>1 DEF WaitForConsulLeader
    <3>2. FromFirst(main[h])
      BY <3>1, ReachedIsMain DEF FoundingInv, DataIsFirst
    <3>3. main[h] = mem[h].gossip
      BY <2>1 DEF WaitForConsulLeader, At, FoundingInv, MainIsMem
    <3>4. mem' = mem
      BY <2>1 DEF WaitForConsulLeader
    <3> QED BY <1>1, <3>2, <3>3, <3>4
  <2>2. CASE Leads(h) /\ mem'[h].gossip = mem[h].gossip
    BY <1>1, <1>2, <2>2
  <2> QED BY <1>1, <1>7, <2>1, <2>2 DEF Moves
<1> QED BY <1>3, <1>4, <1>6, <1>7 DEF SharedIsFirst, Leads

(* main.json and the gossip key in memory stay the same.                    *)
LEMMA MainStep ==
  ASSUME FoundingInv, [Next]_vars
  PROVE  MainIsMem'
<1> SUFFICES ASSUME NEW h \in Hosts
             PROVE  /\ Configured(h)' => main'[h] = mem'[h].gossip
                    /\ Preparing(h)' => main'[h] = None
  BY DEF MainIsMem, Configured, Preparing
<1>1. Moves(h)
  BY Changes DEF FoundingInv
<1>2. /\ Configured(h) => main[h] = mem[h].gossip
      /\ Preparing(h) => main[h] = None
  BY DEF FoundingInv, MainIsMem, Configured, Preparing
<1>3. WriteConfig(h) => main'[h] = mem'[h].gossip
  BY DEF WriteConfig, FoundingInv, TypeOK
<1> QED BY <1>1, <1>2, <1>3 DEF Moves

(* A server that starts its daemon expecting itself alone is the first one  *)
(* registered: any reading of LDAP that holds it alone is the first entry.  *)
LEMMA ExpectedAlone ==
  ASSUME TypeOK, NEW h \in Servers, DaemonStart(h)
  PROVE  /\ expect'[h] > 0
         /\ expect'[h] = 1 => registered # <<>> /\ registered[1] = h
<1>1. PICK servers \in Snapshots :
        /\ \E i \in DOMAIN servers : servers[i] = h
        /\ expect' = [expect EXCEPT ![h] = Len(servers) \div 2 + 1]
  BY DEF DaemonStart, startConsul
<1>2. /\ servers \in Seq(Hosts) /\ registered \in Seq(Hosts)
      /\ \A i \in DOMAIN servers : i \in DOMAIN registered /\ servers[i] = registered[i]
  BY SnapshotIsPrefix DEF TypeOK
<1>3. expect'[h] = Len(servers) \div 2 + 1
  BY <1>1 DEF TypeOK, Hosts
<1>4. PICK i \in 1..Len(servers) : servers[i] = h
  BY <1>1, <1>2
<1>5. Len(servers) \in Nat /\ Len(servers) > 0
  BY <1>2, <1>4
<1>6. ASSUME expect'[h] = 1 PROVE registered # <<>> /\ registered[1] = h
  <2>0. \A n \in Nat : n > 0 /\ n \div 2 + 1 = 1 => n = 1
    OBVIOUS
  <2>1. Len(servers) = 1
    BY <1>3, <1>5, <1>6, <2>0
  <2>2. i = 1
    BY <1>4, <2>1
  <2>3. 1 \in DOMAIN registered /\ registered[1] = h
    BY <1>2, <1>4, <2>2
  <2> QED BY <1>2, <2>3
<1> QED BY <1>3, <1>5, <1>6

(* Only the first registered server ever expects itself alone.              *)
LEMMA ExpectStep ==
  ASSUME FoundingInv, [Next]_vars
  PROVE  ExpectIsSound'
<1> SUFFICES ASSUME NEW h \in Hosts, unit'[h] = "up"
             PROVE  /\ main'[h] # None
                    /\ h \in Servers =>
                         /\ expect'[h] > 0
                         /\ expect'[h] = 1 => registered' # <<>> /\ registered'[1] = h
  BY DEF ExpectIsSound
<1>1. Moves(h) /\ TypeOK
  BY Changes DEF FoundingInv
<1>2. registered # <<>> => registered' # <<>> /\ registered'[1] = registered[1]
  BY FirstStays DEF FoundingInv
<1>3. CASE DaemonStart(h)
  <2>1. main'[h] # None
    BY <1>3 DEF DaemonStart, files
  <2>2. registered' = registered
    BY <1>3 DEF DaemonStart, ldap
  <2> QED BY <1>1, <1>3, <2>1, <2>2, ExpectedAlone
<1>4. CASE unit[h] = "up" /\ expect'[h] = expect[h] /\ (main'[h] = main[h] \/ WriteConfig(h))
  <2>1. /\ main[h] # None
        /\ h \in Servers =>
             /\ expect[h] > 0
             /\ expect[h] = 1 => registered # <<>> /\ registered[1] = h
    BY <1>4 DEF FoundingInv, ExpectIsSound
  <2>2. ~WriteConfig(h)
    BY <2>1 DEF WriteConfig, At, FoundingInv, MainIsMem
  <2> QED BY <1>2, <1>4, <2>1, <2>2
<1> QED BY <1>1, <1>3, <1>4 DEF Moves

(* The founders of a cluster have the key material of the first registered  *)
(* server: a server that expects itself alone is that server, and of two    *)
(* servers with the same gossip key one did not generate it.                *)
LEMMA ElectedFromFirst ==
  ASSUME FoundingInv, NEW h \in Servers, Elect(h)
  PROVE  FromFirst(main[h])
<1>1. /\ h \in Hosts /\ unit[h] = "up" /\ h \in Peers(h)
      /\ Cardinality(Peers(h)) >= expect[h]
  BY DEF Elect, Peers, Talk, Hosts
<1>2. /\ main[h] # None /\ main[h] \in KeyIds
      /\ expect[h] \in Nat /\ expect[h] > 0
      /\ expect[h] = 1 => registered # <<>> /\ registered[1] = h
  BY <1>1 DEF FoundingInv, ExpectIsSound, TypeOK
<1>3. \A k \in Hosts : main[k] # None => main[k][1] = k \/ FromFirst(main[k])
  BY DEF FoundingInv, OwnOrFirst
<1>4. CASE expect[h] = 1
  BY <1>1, <1>2, <1>3, <1>4 DEF FromFirst
<1>5. CASE expect[h] # 1
  <2>1. Peers(h) # {h}
    <3>1. Cardinality({h}) = 1
      BY FS_Singleton
    <3>2. ~(1 >= expect[h])
      BY <1>2, <1>5
    <3>3. ASSUME Peers(h) = {h} PROVE 1 >= expect[h]
      BY <1>1, <3>1, <3>3
    <3> QED BY <3>2, <3>3
  <2>2. PICK k \in Peers(h) : k # h
    BY <1>1, <2>1
  <2>3. k \in Hosts /\ main[k] = main[h]
    BY <2>2 DEF Peers, Talk, Hosts
  <2> QED BY <1>1, <1>2, <1>3, <2>2, <2>3
<1> QED BY <1>4, <1>5

(* Only a reset takes main.json away.                                       *)
LEMMA MainIsKept ==
  ASSUME TypeOK, [Next]_vars, \A k \in Hosts : ~Reset(k), NEW h \in Hosts, ~WriteConfig(h)
  PROVE  main'[h] = main[h]
BY DEF Next, Normal, Fault, SetupStep, RunServer, RunAgent, Begin, vars, TypeOK,
       GenerateKeys, Download, Unpack, CreateCertificate, WriteConfig, AddService,
       StartUnit, Started, DaemonStart, DaemonDies, Elect, Join, WaitForConsulLeader,
       CreateACLBootstrapToken, InstallToken, CreateEncryptedSecret,
       UploadCredentials, Enable, Fail, Crash, files

(* Clusters and their members stay those of the founder's key.              *)
LEMMA DataStep ==
  ASSUME FoundingInv, [Next]_vars
  PROVE  DataIsFirst'
<1> DEFINE Member(h) == data[h] # 0 => data[h] \in DOMAIN clusters /\ clusters[data[h]] = main[h]
<1>1. /\ \A c \in DOMAIN clusters : FromFirst(clusters[c]) /\ clusters[c] # None
      /\ \A h \in Hosts : Member(h)
  BY HostsAssumption DEF FoundingInv, DataIsFirst, FromFirst, KeyIds
<1>2. /\ \A k : FromFirst(k) => FromFirst(k)'
      /\ TypeOK
  BY FirstStays DEF FoundingInv
<1>3. ASSUME NEW h \in Servers, Elect(h) PROVE DataIsFirst'
  <2>1. main[h] \in KeyIds \cup {None} /\ clusters \in Seq(KeyIds \cup {None})
    BY DEF Hosts, FoundingInv, TypeOK
  <2>2. /\ clusters' = Append(clusters, main[h])
        /\ DOMAIN clusters' = 1..(Len(clusters) + 1) /\ DOMAIN clusters = 1..Len(clusters)
        /\ \A c \in DOMAIN clusters : clusters'[c] = clusters[c]
        /\ clusters'[Len(clusters) + 1] = main[h]
        /\ Len(clusters) \in Nat
    BY <1>3, <2>1, AppendProperties, LenProperties DEF Elect
  <2>3. /\ main' = main /\ registered' = registered
        /\ data' = [k \in Hosts |-> IF k \in Peers(h) THEN Len(clusters) + 1 ELSE data[k]]
    BY <1>3 DEF Elect, files, ldap
  <2>4. \A c \in DOMAIN clusters' : FromFirst(clusters'[c])
    BY <1>1, <1>3, <2>2, ElectedFromFirst
  <2>5. \A k \in Hosts : Member(k)'
    <3>1. ASSUME NEW k \in Hosts, k \in Peers(h) PROVE Member(k)'
      BY <2>2, <2>3, <3>1 DEF Peers, Talk
    <3>2. ASSUME NEW k \in Hosts, k \notin Peers(h) PROVE Member(k)'
      BY <1>1, <2>2, <2>3, <3>2
    <3> QED BY <3>1, <3>2
  <2> QED BY <2>3, <2>4, <2>5 DEF DataIsFirst, FromFirst
<1>4. ASSUME NEW h \in Servers, Join(h) PROVE DataIsFirst'
  <2>1. PICK k \in Peers(h) : data[k] # 0 /\ data' = [data EXCEPT ![h] = data[k]]
    BY <1>4 DEF Join
  <2>2. k \in Hosts /\ main[k] = main[h]
    BY DEF Peers, Talk, Hosts
  <2>3. clusters' = clusters /\ main' = main /\ registered' = registered
    BY <1>4 DEF Join, files, ldap
  <2>4. \A g \in Hosts : Member(g)'
    BY <1>1, <1>2, <2>1, <2>2, <2>3 DEF TypeOK
  <2> QED BY <1>1, <2>3, <2>4 DEF DataIsFirst, FromFirst
<1>5. ASSUME NEW h \in Hosts, Reset(h) PROVE DataIsFirst'
  <2>1. clusters' = clusters /\ registered' = registered
    BY <1>5 DEF Reset, ldap
  <2>2. \A g \in Hosts : Member(g)'
    BY <1>1, <1>2, <1>5, <2>1 DEF Reset, TypeOK
  <2> QED BY <1>1, <2>1, <2>2 DEF DataIsFirst, FromFirst
<1>6. ASSUME UNCHANGED <<clusters, data>>, \A h \in Hosts : ~Reset(h)
      PROVE  DataIsFirst'
  <2>1. ASSUME NEW h \in Hosts, data[h] # 0 PROVE main'[h] = main[h]
    <3>1. main[h] # None
      BY <1>1, <2>1
    <3>2. ~WriteConfig(h)
      BY <3>1 DEF WriteConfig, At, FoundingInv, MainIsMem
    <3> QED BY <3>2, <1>2, <1>6, MainIsKept
  <2>2. \A h \in Hosts : Member(h)'
    BY <1>1, <1>6, <2>1
  <2>3. \A c \in DOMAIN clusters' : FromFirst(clusters[c])'
    BY <1>1, <1>2, <1>6 DEF FromFirst
  <2> QED BY <2>2, <2>3 DEF DataIsFirst
<1>7. \/ \E h \in Servers : Elect(h) \/ Join(h)
      \/ \E h \in Hosts : Reset(h)
      \/ UNCHANGED <<clusters, data>>
  BY DEF Next, Normal, Fault, SetupStep, RunServer, RunAgent, Begin, vars,
         GenerateKeys, Download, Unpack, CreateCertificate, WriteConfig, AddService,
         StartUnit, Started, DaemonStart, DaemonDies, WaitForConsulLeader,
         CreateACLBootstrapToken, InstallToken, CreateEncryptedSecret,
         UploadCredentials, Enable, Fail, Crash, consul
<1> QED BY <1>3, <1>4, <1>5, <1>6, <1>7

(* ... and every step preserves it.                                         *)
LEMMA InvStep == FoundingInv /\ [Next]_vars => FoundingInv'
BY TypeStep, OwnStep, SharedStep, MainStep, ExpectStep, DataStep DEF FoundingInv

(* The founding invariant holds throughout.                                 *)
THEOREM Founding == Spec => []FoundingInv
BY InvInit, InvStep, PTL DEF Spec

(* However many servers take themselves for the first instance, whatever    *)
(* LDAP replica each asks, and whatever fails, crashes or is reset: all     *)
(* clusters ever founded carry the gossip key of one and the same server.   *)
THEOREM OneHostFounds == Spec => []OneFoundingHost
<1>1. FoundingInv => OneFoundingHost
  BY DEF FoundingInv, DataIsFirst, OneFoundingHost, FromFirst
<1> QED BY <1>1, Founding, PTL
=============================================================================
