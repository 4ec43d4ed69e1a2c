----------------------- MODULE ClusterCredentialsProofs -----------------------
(* Proofs about ClusterSetup, continued: the credentials in LDAP are usable,*)
(* a setup that succeeds is a member of their cluster, and the private key  *)
(* of the CA stays with the server that generated it.                       *)
EXTENDS ClusterSetupProofs

(* What a setup leaves behind on its host, none of which has changed.       *)
Same(h) ==
  /\ pc'[h] = pc[h] /\ mode'[h] = mode[h] /\ mem'[h] = mem[h]
  /\ ca'[h] = ca[h] /\ cakey'[h] = cakey[h] /\ cert'[h] = cert[h]
  /\ main'[h] = main[h] /\ cred'[h] = cred[h] /\ token'[h] = token[h]

Begins(h) == (h \in Servers /\ RunServer(h)) \/ (h \in Agents /\ RunAgent(h))

LEMMA BeginsAre ==
  ASSUME NEW h, Begins(h)
  PROVE  \/ Begin(h, "first", "ca")
         \/ Begin(h, "import", "download")
         \/ Begin(h, "agent", "download")
BY DEF Begins, RunServer, RunAgent

(* Only the setup of a host itself changes what it leaves behind there.     *)
LEMMA WhoMoves ==
  ASSUME TypeOK, [Next]_vars, NEW h \in Hosts
  PROVE  Same(h) \/ Begins(h) \/ SetupStep(h) \/ Fail(h) \/ Crash(h) \/ Reset(h)
<1> USE DEF setup, files
<1>1. ASSUME NEW g \in Hosts, g # h,
             Begins(g) \/ SetupStep(g) \/ Fail(g) \/ Crash(g) \/ Reset(g)
      PROVE  Same(h)
  <2>1. CASE Begins(g)
    <3>1. \E m, label : Begin(g, m, label)
      BY <2>1, BeginsAre
    <3> QED BY <1>1, <3>1 DEF Begin, Goto, Same, TypeOK
  <2>2. CASE SetupStep(g)
    BY <1>1, <2>2 DEF SetupStep, Proceed, Goto, Same, TypeOK, RemoveKey,
       GenerateKeys, Download, Unpack, CreateCertificate, WriteConfig, AddService,
       StartUnit, Started, WaitForConsulLeader, CreateACLBootstrapToken, InstallToken,
       CreateEncryptedSecret, UploadCredentials, Enable
  <2>3. CASE Fail(g) \/ Crash(g) \/ Reset(g)
    BY <1>1, <2>3 DEF Fail, WriteKeyFails, Crash, Reset, RemoveKey, Goto, Same, TypeOK
  <2> QED BY <1>1, <2>1, <2>2, <2>3
<1>2. ASSUME NEW g \in Hosts, DaemonStart(g) \/ DaemonDies(g) PROVE Same(h)
  BY <1>2 DEF DaemonStart, DaemonDies, Same
<1>3. ASSUME NEW g \in Servers, Elect(g) \/ Join(g) PROVE Same(h)
  BY <1>3 DEF Elect, Join, Same
<1>4. CASE UNCHANGED vars
  BY <1>4 DEF vars, Same
<1>5. /\ \A g \in Servers : RunServer(g) => Begins(g) /\ g \in Hosts
      /\ \A g \in Agents : RunAgent(g) => Begins(g) /\ g \in Hosts
  BY DEF Begins, Hosts
<1> QED BY <1>1, <1>2, <1>3, <1>4, <1>5 DEF Next, Normal, Fault

(* How the setups of all hosts change what they share.                      *)
LEMMA SharedChanges ==
  ASSUME TypeOK, [Next]_vars
  PROVE  /\ \/ published' = published /\ earlier' = earlier
            \/ \E k \in Hosts : UploadCredentials(k)
         /\ registered' = registered \/ \E k \in Hosts : AddService(k)
         /\ acl \subseteq acl'
         /\ \A c \in acl : clusters'[c] = clusters[c]
         /\ spilled \subseteq spilled'
<1> DEFINE P == /\ \/ published' = published /\ earlier' = earlier
                   \/ \E k \in Hosts : UploadCredentials(k)
                /\ registered' = registered \/ \E k \in Hosts : AddService(k)
                /\ acl \subseteq acl'
                /\ \A c \in acl : clusters'[c] = clusters[c]
                /\ spilled \subseteq spilled'
<1> USE DEF setup, files, ldap, consul
<1>1. ASSUME NEW g \in Hosts, Begins(g) PROVE P
  BY <1>1, BeginsAre DEF Begin
<1>2. ASSUME NEW g \in Hosts, SetupStep(g) PROVE P
  BY <1>2 DEF SetupStep, GenerateKeys, Download, Unpack, CreateCertificate, WriteConfig,
     AddService, StartUnit, Started, WaitForConsulLeader, CreateACLBootstrapToken,
     InstallToken, CreateEncryptedSecret, UploadCredentials, Enable
<1>3. ASSUME NEW g \in Hosts, Fail(g) \/ Crash(g) \/ Reset(g) PROVE P
  BY <1>3 DEF Fail, WriteKeyFails, Crash, Reset
<1>4. ASSUME NEW g \in Hosts, DaemonStart(g) \/ DaemonDies(g) PROVE P
  BY <1>4 DEF DaemonStart, DaemonDies
<1>5. ASSUME NEW g \in Servers, Elect(g) PROVE P
  <2>1. /\ clusters' = Append(clusters, main[g]) /\ clusters \in Seq(KeyIds \cup {None})
        /\ main[g] \in KeyIds \cup {None} /\ acl \subseteq DOMAIN clusters
    BY <1>5 DEF Elect, TypeOK, Hosts
  <2>2. \A c \in acl : clusters'[c] = clusters[c]
    BY <2>1, AppendProperties
  <2> QED BY <1>5, <2>2 DEF Elect
<1>6. ASSUME NEW g \in Servers, Join(g) PROVE P
  BY <1>6 DEF Join
<1>7. CASE UNCHANGED vars
  BY <1>7 DEF vars
<1>8. /\ \A g \in Servers : RunServer(g) => Begins(g) /\ g \in Hosts
      /\ \A g \in Agents : RunAgent(g) => Begins(g) /\ g \in Hosts
  BY DEF Begins, Hosts
<1> QED BY <1>1, <1>2, <1>3, <1>4, <1>5, <1>6, <1>7, <1>8 DEF Next, Normal, Fault

(* From which step to which a setup goes on.                                *)
LEMMA GoesOn ==
  ASSUME TypeOK, NEW h \in Hosts, SetupStep(h)
  PROVE  /\ mode'[h] = mode[h] /\ mode[h] \in {"first", "import", "agent"}
         /\ pc[h] \in Running
         /\ At(h, "ca") => mode[h] = "first" /\ pc'[h] = "cert"
         /\ At(h, "download") => mode[h] # "first" /\ pc'[h] \in {"unpack", "failed"}
         /\ At(h, "unpack") => mode[h] # "first" /\ pc'[h] = "cert"
         /\ At(h, "cert") => pc'[h] = "config"
         /\ At(h, "config") => pc'[h] \in {"register", "start"}
         /\ At(h, "register") => pc'[h] = "start"
         /\ At(h, "start") => pc'[h] = "starting"
         /\ At(h, "starting") => pc'[h] = IF mode[h] = "first" THEN "leader" ELSE "token"
         /\ At(h, "leader") => mode[h] = "first" /\ pc'[h] = "bootstrap"
         /\ At(h, "bootstrap") => mode[h] = "first" /\ pc'[h] = "token"
         /\ At(h, "token") => pc'[h] = IF mode[h] = "first" THEN "archive" ELSE "enable"
         /\ At(h, "archive") => mode[h] = "first" /\ pc'[h] = "upload"
         /\ At(h, "upload") => mode[h] = "first" /\ pc'[h] = "enable"
         /\ At(h, "enable") => pc'[h] = "done"
<1> USE DEF At
<1>1. /\ pc[h] \in Running /\ mode' = mode
      /\ Proceed(h) \/ (At(h, "download") /\ Goto(h, "failed"))
  BY RunningIs DEF SetupStep, GenerateKeys, Download, Unpack, CreateCertificate,
     WriteConfig, AddService, StartUnit, Started, WaitForConsulLeader, CreateACLBootstrapToken,
     InstallToken, CreateEncryptedSecret, UploadCredentials, Enable
<1>2. pc'[h] = Steps[mode[h]][pc[h]] \/ (pc[h] = "download" /\ pc'[h] = "failed")
  BY <1>1 DEF Proceed, Goto, TypeOK
<1>3. mode[h] \in DOMAIN Steps /\ pc[h] \in DOMAIN Steps[mode[h]]
  BY <1>1 DEF TypeOK, InItsSteps
<1>4. CASE mode[h] = "first"
  BY <1>1, <1>2, <1>3, <1>4, Modes DEF performSetup
<1>5. CASE mode[h] = "import"
  BY <1>1, <1>2, <1>3, <1>5, Modes DEF importSetup
<1>6. CASE mode[h] = "agent"
  BY <1>1, <1>2, <1>3, <1>6, Modes DEF agentSetup
<1> QED BY <1>3, <1>4, <1>5, <1>6, Modes

(* The steps at which the keys, the certificate and main.json are there.    *)
LEMMA StepsAre ==
  /\ WithConfig = {"register", "start", "starting", "leader", "bootstrap", "token",
                   "archive", "upload", "enable"}
  /\ WithCert = WithConfig \cup {"config"}
  /\ WithKeys = WithConfig \cup {"config", "cert"}
  /\ Ended \cap Running = {}
BY RunningIs DEF WithKeys, WithCert, WithConfig, Ended

-----------------------------------------------------------------------------
(* The files of a host agree with what its setup holds, at every step.      *)
FilesOf(h) ==
  /\ pc[h] \in WithKeys => ca[h] = mem[h].ca
  /\ pc[h] \in WithKeys /\ (At(h, "cert") \/ mode[h] = "first") => cakey[h] = mem[h].ca
  /\ pc[h] \in WithKeys /\ mode[h] = "first" =>
       mem[h].ca = mem[h].gossip /\ mem[h].gossip \in {h} \X Nat
  /\ pc[h] \in WithCert => cert[h] = mem[h].ca
  /\ pc[h] \in WithConfig => main[h] = mem[h].gossip
  /\ pc[h] \in {"archive", "upload", "enable"} => token[h] = mem[h].boot
  /\ At(h, "upload") => cred[h] = mem[h]

LEMMA FilesStep ==
  ASSUME TypeOK, FilesAgree, [Next]_vars
  PROVE  FilesAgree'
<1> SUFFICES ASSUME NEW h \in Hosts PROVE FilesOf(h)'
  BY DEF FilesAgree, FilesOf
<1> USE DEF At, FilesOf
<1>1. FilesOf(h)
  BY DEF FilesAgree
<1>2. CASE Same(h)
  BY <1>1, <1>2 DEF Same
<1>3. CASE Begins(h)
  <2>1. pc'[h] \in {"ca", "download"}
    BY <1>3, BeginsAre DEF Begin, Goto, TypeOK
  <2> QED BY <2>1, StepsAre
<1>4. CASE Fail(h) \/ Crash(h) \/ Reset(h)
  <2>1. pc'[h] \in {"failed", "crashed", "idle"}
    BY <1>4 DEF Fail, Crash, Reset, Goto, TypeOK
  <2> QED BY <2>1, StepsAre
<1>5. CASE SetupStep(h)
  <2>0. /\ mode'[h] = mode[h]
        /\ mem[h] = [gossip |-> mem[h].gossip, ca |-> mem[h].ca, boot |-> mem[h].boot]
    BY <1>5, GoesOn DEF TypeOK, Creds
  <2>1. CASE GenerateKeys(h)
    <3>1. pc'[h] = "cert" /\ mode'[h] = "first" /\ runs[h] \in Nat
      BY <1>5, <2>1, GoesOn, HostsAssumption DEF GenerateKeys, TypeOK
    <3>2. /\ ca'[h] = <<h, runs[h]>> /\ cakey'[h] = <<h, runs[h]>>
          /\ mem'[h].gossip = <<h, runs[h]>> /\ mem'[h].ca = <<h, runs[h]>>
      BY <2>1 DEF GenerateKeys, TypeOK
    <3> QED BY <3>1, <3>2, StepsAre
  <2>2. CASE Download(h)
    <3>1. pc'[h] \in {"unpack", "failed"}
      BY <1>5, <2>2, GoesOn DEF Download
    <3> QED BY <3>1, StepsAre
  <2>3. CASE Unpack(h)
    <3>1. pc'[h] = "cert" /\ mode'[h] # "first"
      BY <1>5, <2>3, GoesOn DEF Unpack
    <3>2. mem'[h] = cred[h] /\ ca'[h] = cred[h].ca /\ cakey'[h] = cred[h].ca
      BY <2>3 DEF Unpack, TypeOK
    <3> QED BY <3>1, <3>2, StepsAre
  <2>4. CASE CreateCertificate(h)
    <3>1. pc[h] = "cert" /\ pc'[h] = "config"
      BY <1>5, <2>4, GoesOn DEF CreateCertificate
    <3>2. /\ cert'[h] = cakey[h] /\ ca'[h] = ca[h] /\ mem'[h] = mem[h]
          /\ mode[h] = "first" => cakey'[h] = cakey[h]
      BY <2>4 DEF CreateCertificate, TypeOK
    <3> QED BY <1>1, <2>0, <3>1, <3>2, StepsAre
  <2>5. CASE WriteConfig(h)
    <3>1. pc[h] = "config" /\ pc'[h] \in {"register", "start"}
      BY <1>5, <2>5, GoesOn DEF WriteConfig
    <3>2. /\ main'[h] = mem[h].gossip /\ ca'[h] = ca[h] /\ mem'[h] = mem[h]
          /\ cakey'[h] = cakey[h] /\ cert'[h] = cert[h]
      BY <2>5 DEF WriteConfig, TypeOK
    <3> QED BY <1>1, <2>0, <3>1, <3>2, StepsAre
  <2>6. CASE AddService(h) \/ StartUnit(h) \/ Started(h) \/ WaitForConsulLeader(h)
    <3>1. /\ pc[h] \in {"register", "start", "starting", "leader"}
          /\ pc'[h] \in {"start", "starting", "leader", "bootstrap", "token"}
      BY <1>5, <2>6, GoesOn DEF AddService, StartUnit, Started, WaitForConsulLeader
    <3>2. /\ main'[h] = main[h] /\ ca'[h] = ca[h] /\ mem'[h] = mem[h]
          /\ cakey'[h] = cakey[h] /\ cert'[h] = cert[h]
      BY <2>6 DEF AddService, StartUnit, Started, WaitForConsulLeader, files
    <3> QED BY <1>1, <2>0, <3>1, <3>2, StepsAre
  <2>7. CASE CreateACLBootstrapToken(h)
    <3>1. pc[h] = "bootstrap" /\ pc'[h] = "token"
      BY <1>5, <2>7, GoesOn DEF CreateACLBootstrapToken
    <3>2. /\ main'[h] = main[h] /\ ca'[h] = ca[h] /\ cakey'[h] = cakey[h] /\ cert'[h] = cert[h]
          /\ mem'[h].ca = mem[h].ca /\ mem'[h].gossip = mem[h].gossip
      BY <2>7 DEF CreateACLBootstrapToken, files, TypeOK, Creds
    <3> QED BY <1>1, <2>0, <3>1, <3>2, StepsAre
  <2>8. CASE InstallToken(h)
    <3>1. pc[h] = "token" /\ pc'[h] \in {"archive", "enable"}
      BY <1>5, <2>8, GoesOn DEF InstallToken
    <3>2. /\ main'[h] = main[h] /\ ca'[h] = ca[h] /\ cakey'[h] = cakey[h] /\ cert'[h] = cert[h]
          /\ mem'[h] = mem[h] /\ token'[h] = mem[h].boot
      BY <2>8 DEF InstallToken, TypeOK
    <3> QED BY <1>1, <2>0, <3>1, <3>2, StepsAre
  <2>9. CASE CreateEncryptedSecret(h)
    <3>1. pc[h] = "archive" /\ pc'[h] = "upload" /\ mode[h] = "first"
      BY <1>5, <2>9, GoesOn DEF CreateEncryptedSecret
    <3>2. /\ main'[h] = main[h] /\ ca'[h] = ca[h] /\ cakey'[h] = cakey[h] /\ cert'[h] = cert[h]
          /\ mem'[h] = mem[h] /\ token'[h] = token[h]
          /\ cred'[h] = [gossip |-> mem[h].gossip, ca |-> cakey[h], boot |-> mem[h].boot]
      BY <2>9 DEF CreateEncryptedSecret, TypeOK
    <3> QED BY <1>1, <2>0, <3>1, <3>2, StepsAre
  <2>10. CASE UploadCredentials(h)
    <3>1. pc[h] = "upload" /\ pc'[h] = "enable"
      BY <1>5, <2>10, GoesOn DEF UploadCredentials
    <3>2. /\ main'[h] = main[h] /\ ca'[h] = ca[h] /\ cakey'[h] = cakey[h] /\ cert'[h] = cert[h]
          /\ mem'[h] = mem[h] /\ token'[h] = token[h]
      BY <2>10 DEF UploadCredentials, files
    <3> QED BY <1>1, <2>0, <3>1, <3>2, StepsAre
  <2>11. CASE Enable(h)
    <3>1. pc'[h] = "done"
      BY <1>5, <2>11, GoesOn DEF Enable
    <3> QED BY <3>1, StepsAre DEF Ended
  <2> QED
    BY <1>5, <2>1, <2>2, <2>3, <2>4, <2>5, <2>6, <2>7, <2>8, <2>9, <2>10, <2>11 DEF SetupStep
<1> QED BY <1>2, <1>3, <1>4, <1>5, WhoMoves

-----------------------------------------------------------------------------
(* Which credentials a host may come to hold.                               *)
LEMMA CredChanges ==
  ASSUME TypeOK, [Next]_vars, NEW h \in Hosts
  PROVE  cred'[h] \in {cred[h], NoCreds, published} \cup earlier \/ CreateEncryptedSecret(h)
BY Changes DEF KeyChanges

(* What is usable stays so: a cluster keeps its key, and its token.         *)
LEMMA UsableStays ==
  ASSUME TypeOK, [Next]_vars, NEW c, Usable(c)
  PROVE  c.boot \in acl' /\ clusters'[c.boot] = c.gossip /\ c.ca = c.gossip
BY SharedChanges DEF Usable

(* A first setup bootstraps the cluster of its own gossip key.              *)
LEMMA HoldsStep ==
  ASSUME FoundingInv, UsableInv, [Next]_vars
  PROVE  HoldsItsCluster'
<1> DEFINE Holder(h) == At(h, "archive") \/ (At(h, "token") /\ mode[h] = "first")
<1> SUFFICES ASSUME NEW h \in Hosts, Holder(h)'
             PROVE  mem'[h].boot \in acl' /\ clusters'[mem'[h].boot] = mem'[h].gossip
  BY DEF HoldsItsCluster
<1> USE DEF At
<1>1. TypeOK /\ (Holder(h) => mem[h].boot \in acl /\ clusters[mem[h].boot] = mem[h].gossip)
  BY DEF FoundingInv, UsableInv, HoldsItsCluster
<1>2. acl \subseteq acl' /\ \A c \in acl : clusters'[c] = clusters[c]
  BY <1>1, SharedChanges
<1>3. CASE Holder(h) /\ mem'[h] = mem[h]
  BY <1>1, <1>2, <1>3
<1>4. CASE CreateACLBootstrapToken(h)
  <2>1. PICK c \in DOMAIN clusters \ acl :
          Reaches(h, c) /\ acl' = acl \cup {c} /\ mem' = [mem EXCEPT ![h].boot = c]
    BY <1>4 DEF CreateACLBootstrapToken
  <2>2. clusters[c] = main[h] /\ clusters' = clusters
    BY <1>4, <2>1, ReachedIsMain DEF CreateACLBootstrapToken
  <2>3. main[h] = mem[h].gossip
    BY <1>4, StepsAre DEF CreateACLBootstrapToken, UsableInv, FilesAgree
  <2>4. mem'[h].boot = c /\ mem'[h].gossip = mem[h].gossip
    BY <1>1, <2>1 DEF TypeOK, Creds
  <2> QED BY <2>1, <2>2, <2>3, <2>4
<1>5. CASE Same(h)
  BY <1>3, <1>5 DEF Same
<1>6. CASE Begins(h) \/ Fail(h) \/ Crash(h) \/ Reset(h)
  BY <1>1, <1>6, BeginsAre DEF Begin, Fail, Crash, Reset, Goto, TypeOK
<1>7. CASE SetupStep(h)
  <2>1. mode'[h] = mode[h] /\ (pc[h] = "bootstrap" \/ (pc[h] = "token" /\ Holder(h)))
    BY <1>1, <1>7, GoesOn, RunningIs
  <2>2. CreateACLBootstrapToken(h) \/ InstallToken(h)
    BY <1>7, <2>1 DEF SetupStep, GenerateKeys, Download, Unpack, CreateCertificate,
       WriteConfig, AddService, StartUnit, Started, WaitForConsulLeader,
       CreateEncryptedSecret, UploadCredentials, Enable
  <2>3. InstallToken(h) => mem'[h] = mem[h] /\ Holder(h)
    BY <2>1 DEF InstallToken
  <2> QED BY <1>3, <1>4, <2>2, <2>3
<1> QED BY <1>1, <1>5, <1>6, <1>7, WhoMoves

(* So what it archives is usable, and what others download.                 *)
LEMMA CredsStep ==
  ASSUME FoundingInv, UsableInv, [Next]_vars
  PROVE  CredsAreUsable'
<1>1. /\ TypeOK
      /\ \A c \in {published} \cup earlier : c # NoCreds => Usable(c)
      /\ \A h \in Hosts : cred[h] # NoCreds => Usable(cred[h])
  BY DEF FoundingInv, UsableInv, CredsAreUsable
<1>2. ASSUME NEW c, Usable(c) PROVE Usable(c)'
  BY <1>1, <1>2, UsableStays DEF Usable
<1>3. ASSUME NEW h \in Hosts PROVE cred'[h] # NoCreds => Usable(cred[h])'
  <2>1. CASE cred'[h] \in {cred[h], NoCreds, published} \cup earlier
    BY <1>1, <2>1, UsableStays DEF Usable
  <2>2. CASE CreateEncryptedSecret(h)
    <3>1. mem[h].boot \in acl /\ clusters[mem[h].boot] = mem[h].gossip
      BY <2>2 DEF CreateEncryptedSecret, UsableInv, HoldsItsCluster
    <3>2. mode[h] = "first" /\ pc[h] \in WithKeys
      BY <1>1, <2>2, StepsAre, GoesOn DEF SetupStep, CreateEncryptedSecret, At
    <3>3. cakey[h] = mem[h].gossip
      BY <3>2 DEF UsableInv, FilesAgree
    <3>4. /\ cred'[h] = [gossip |-> mem[h].gossip, ca |-> cakey[h], boot |-> mem[h].boot]
          /\ acl' = acl /\ clusters' = clusters
      BY <1>1, <2>2 DEF CreateEncryptedSecret, TypeOK, consul
    <3> QED BY <3>1, <3>3, <3>4 DEF Usable
  <2> QED BY <1>1, <2>1, <2>2, CredChanges
<1>4. ASSUME NEW c \in {published'} \cup earlier', c # NoCreds PROVE Usable(c)'
  <2>1. CASE published' = published /\ earlier' = earlier
    BY <1>1, <1>2, <1>4, <2>1
  <2>2. ASSUME NEW k \in Hosts, UploadCredentials(k) PROVE Usable(c)'
    <3>1. c \in {published, cred[k]} \cup earlier
      BY <1>4, <2>2 DEF UploadCredentials
    <3> QED BY <1>1, <1>2, <1>4, <3>1
  <2> QED BY <1>1, <2>1, <2>2, SharedChanges
<1> QED BY <1>3, <1>4 DEF CredsAreUsable

LEMMA UsableInit == Init => UsableInv
<1> SUFFICES ASSUME Init PROVE UsableInv
  OBVIOUS
<1>1. FilesAgree /\ HoldsItsCluster
  BY StepsAre DEF Init, FilesAgree, HoldsItsCluster, At
<1>2. CredsAreUsable
  BY DEF Init, CredsAreUsable
<1> QED BY <1>1, <1>2 DEF UsableInv

(* What a setup holds in memory and on its host is of one run, and what is  *)
(* archived is usable.                                                      *)
THEOREM Credentials == Spec => []UsableInv
<1>1. FoundingInv /\ UsableInv /\ [Next]_vars => UsableInv'
  BY FilesStep, HoldsStep, CredsStep DEF UsableInv, FoundingInv
<1> QED BY <1>1, UsableInit, Founding, PTL DEF Spec

(* The credentials in LDAP always belong together and to a cluster that was *)
(* founded with them, for any servers, faults and stale readings.           *)
THEOREM PublishedStaysUsable == Spec => []PublishedIsUsable
<1>1. UsableInv => PublishedIsUsable
  BY DEF UsableInv, CredsAreUsable, PublishedIsUsable
<1> QED BY <1>1, Credentials, PTL

-----------------------------------------------------------------------------
(* The key of another server is where it is used, or where a crash or a     *)
(* write of it that failed left it.                                         *)
NotRemoved(h) == \E why \in {"crash", "write"} : <<h, why>> \in spilled

KeyOf(h) ==
  /\ cakey[h] # None =>
       \/ cakey[h][1] = h
       \/ NotRemoved(h)
       \/ mode[h] \in {"import", "agent"} /\ pc[h] \in WithKeys
  /\ pc[h] = "done" /\ mode[h] = "import" => cakey[h] = None

LEMMA KeyStep ==
  ASSUME TypeOK, KeyIsOwnOrInUse, [Next]_vars
  PROVE  KeyIsOwnOrInUse'
<1> SUFFICES ASSUME NEW h \in Hosts PROVE KeyOf(h)'
  BY DEF KeyIsOwnOrInUse, KeyOf, NotRemoved, At
<1> USE DEF At, KeyOf
<1>1. KeyOf(h) /\ (NotRemoved(h) => NotRemoved(h)')
  BY SharedChanges DEF KeyIsOwnOrInUse, NotRemoved
<1>2. CASE Same(h)
  BY <1>1, <1>2 DEF Same
<1>3. CASE Begins(h)
  <2>1. cakey' = cakey /\ pc[h] \notin WithKeys /\ pc'[h] \in {"ca", "download"}
    BY <1>3, BeginsAre, StepsAre DEF Begin, Goto, TypeOK, files, WithKeys
  <2> QED BY <1>1, <2>1
<1>4. CASE Fail(h)
  <2>1. pc'[h] = "failed" /\ pc[h] \in Running
    BY <1>4 DEF Fail, Goto, TypeOK
  <2>2. CASE RemoveKey(h)
    <3>1. CASE mode[h] = "first" \/ pc[h] \in {"download", "unpack"}
      <4>1. cakey'[h] = cakey[h] /\ (mode[h] = "first" \/ pc[h] \notin WithKeys)
        BY <2>2, <3>1, StepsAre DEF RemoveKey, WithKeys
      <4> QED BY <1>1, <2>1, <4>1
    <3>2. CASE cakey'[h] = None
      BY <2>1, <3>2
    <3> QED BY <2>2, <3>1, <3>2 DEF RemoveKey, TypeOK
  <2>3. CASE WriteKeyFails(h)
    BY <2>1, <2>3 DEF WriteKeyFails, NotRemoved
  <2> QED BY <1>4, <2>2, <2>3 DEF Fail
<1>5. CASE Crash(h)
  <2>1. pc'[h] = "crashed" /\ cakey'[h] = cakey[h]
    BY <1>5 DEF Crash, Goto, TypeOK
  <2>2. CASE mode[h] # "first" /\ pc[h] \notin {"download", "unpack"} /\ cakey[h] # None
    BY <1>5, <2>1, <2>2 DEF Crash, NotRemoved
  <2>3. CASE mode[h] = "first" \/ pc[h] \in {"download", "unpack"} \/ cakey[h] = None
    BY <1>1, <2>1, <2>3, StepsAre DEF WithKeys
  <2> QED BY <2>2, <2>3
<1>6. CASE Reset(h)
  BY <1>6 DEF Reset, Goto, TypeOK
<1>7. CASE SetupStep(h)
  <2>1. /\ mode'[h] = mode[h] /\ mode[h] \in {"first", "import", "agent"}
        /\ pc[h] \in Running
    BY <1>7, GoesOn
  <2>2. CASE GenerateKeys(h)
    <3>1. pc'[h] # "done" /\ cakey'[h][1] = h
      BY <1>7, <2>2, GoesOn, StepsAre DEF GenerateKeys, TypeOK
    <3> QED BY <3>1
  <2>3. CASE Unpack(h)
    <3>1. pc'[h] = "cert" /\ mode[h] \in {"import", "agent"}
      BY <1>7, <2>1, <2>3, GoesOn, StepsAre DEF Unpack
    <3> QED BY <2>1, <3>1, StepsAre DEF WithKeys
  <2>4. CASE Enable(h)
    <3>1. CASE cakey'[h] = None
      BY <3>1
    <3>2. CASE cakey'[h] = cakey[h] /\ mode[h] = "first"
      BY <1>1, <2>1, <3>2
    <3> QED BY <2>4, <3>1, <3>2 DEF Enable, RemoveKey, TypeOK
  <2>5. CASE ~GenerateKeys(h) /\ ~Unpack(h) /\ ~Enable(h)
    <3>1. pc[h] # "enable"
      BY <1>7, <2>5 DEF SetupStep, Download, CreateCertificate, WriteConfig, AddService,
         StartUnit, Started, WaitForConsulLeader, CreateACLBootstrapToken, InstallToken,
         CreateEncryptedSecret, UploadCredentials
    <3>2. pc'[h] # "done" /\ (pc[h] \in WithKeys => pc'[h] \in WithKeys)
      <4>1. pc[h] \in WithKeys => pc'[h] \in WithKeys
        BY <1>7, <3>1, GoesOn, StepsAre
      <4>2. pc[h] \in {"ca", "download", "unpack"} => pc'[h] # "done"
        BY <1>7, GoesOn
      <4>3. "done" \notin WithKeys
        BY StepsAre
      <4> QED BY <2>1, <4>1, <4>2, <4>3 DEF WithKeys
    <3>3. cakey'[h] \in {cakey[h], None}
      BY <1>7, <2>5 DEF SetupStep, Download, CreateCertificate, WriteConfig, AddService,
         StartUnit, Started, WaitForConsulLeader, CreateACLBootstrapToken, InstallToken,
         CreateEncryptedSecret, UploadCredentials, files, TypeOK
    <3> QED BY <1>1, <2>1, <3>2, <3>3
  <2> QED BY <2>2, <2>3, <2>4, <2>5
<1> QED BY <1>2, <1>3, <1>4, <1>5, <1>6, <1>7, WhoMoves

(* The private key of the CA stays with the server that generated it,       *)
(* whatever fails and however often it is tried, but for crashes and for a  *)
(* server's own write of it that fails; and an import that succeeds leaves  *)
(* none.                                                                    *)
THEOREM KeysStayHome == Spec => []KeyStaysWithFounder
<1>1. Init => KeyIsOwnOrInUse
  BY DEF Init, KeyIsOwnOrInUse, At
<1>2. TypeOK /\ KeyIsOwnOrInUse /\ [Next]_vars => KeyIsOwnOrInUse'
  BY KeyStep
<1>3. TypeOK /\ KeyIsOwnOrInUse => KeyStaysWithFounder
  <2> SUFFICES ASSUME TypeOK, KeyIsOwnOrInUse, NEW h \in Hosts,
                      pc[h] \in Ended, cakey[h] # None
               PROVE  \/ cakey[h][1] = h
                      \/ <<h, "crash">> \in spilled
                      \/ h \in Servers /\ <<h, "write">> \in spilled
    BY DEF KeyIsOwnOrInUse, KeyStaysWithFounder
  <2>1. pc[h] \notin WithKeys
    BY StepsAre DEF WithKeys
  <2>2. <<h, "write">> \in spilled => h \in Servers
    BY DEF TypeOK
  <2> QED BY <2>1, <2>2 DEF KeyIsOwnOrInUse
<1> QED BY <1>1, <1>2, <1>3, TypeCorrect, PTL DEF Spec

-----------------------------------------------------------------------------
(* Without --first-instance and with masters that answer.                   *)
Undisturbed == ForceFirst = {} /\ StaleReads = FALSE

MemberHyp == FoundingInv /\ UsableInv /\ MemberInv

(* What is uploaded is the founder's, and the server registered first.      *)
LEMMA UploaderIsFirst ==
  ASSUME FoundingInv, UsableInv, NEW k \in Hosts, UploadCredentials(k)
  PROVE  /\ registered # <<>> /\ registered[1] = k
         /\ mode[k] = "first" /\ pc[k] = "upload" /\ pc'[k] = "enable"
         /\ cred[k] = mem[k] /\ cred[k] # NoCreds
<1>1. mode[k] = "first" /\ pc[k] = "upload" /\ pc'[k] = "enable"
  BY GoesOn DEF FoundingInv, SetupStep, UploadCredentials, At
<1>2. cred[k] = mem[k] /\ mem[k].gossip \in {k} \X Nat
  BY <1>1, StepsAre DEF UsableInv, FilesAgree, At
<1>3. cred[k] # NoCreds
  BY <1>2, HostsAssumption DEF NoCreds
<1>4. FromFirst(cred[k].gossip)
  BY <1>3 DEF FoundingInv, SharedIsFirst
<1> QED BY <1>1, <1>2, <1>3, <1>4 DEF FromFirst

(* So credentials are not replaced.                                         *)
LEMMA PublishedStays ==
  ASSUME MemberHyp, [Next]_vars, published # NoCreds
  PROVE  published' = published
<1>1. ASSUME NEW k \in Hosts, UploadCredentials(k) PROVE FALSE
  <2>1. /\ registered # <<>> /\ registered[1] = k
        /\ mode[k] = "first" /\ pc[k] \in Running \ {"enable"}
    BY <1>1, UploaderIsFirst, RunningIs DEF MemberHyp
  <2> QED BY <2>1 DEF MemberHyp, MemberInv, OneUpload
<1> QED BY <1>1, SharedChanges DEF MemberHyp, FoundingInv

(* A server is the first instance only while none is registered.            *)
LEMMA FirstBegins ==
  ASSUME Undisturbed, TypeOK, NEW h \in Hosts, Begins(h), mode'[h] = "first"
  PROVE  registered = <<>>
<1>1. RunServer(h)
  BY DEF Begins, RunAgent, Begin, TypeOK
<1>2. PICK servers \in Snapshots :
        IF isFirstInstance(h, servers) THEN Begin(h, "first", "ca")
                                       ELSE Begin(h, "import", "download")
  BY <1>1 DEF RunServer, Undisturbed
<1>3. isFirstInstance(h, servers)
  BY <1>2 DEF Begin, TypeOK
<1> QED BY <1>3 DEF isFirstInstance, Snapshots, Undisturbed

LEMMA OneUploadStep ==
  ASSUME Undisturbed, MemberHyp, [Next]_vars
  PROVE  OneUpload'
<1>1. /\ TypeOK
      /\ registered = <<>> => published = NoCreds
      /\ \A h \in Hosts :
           mode[h] = "first" /\ pc[h] \in Running \ {"enable"} /\ registered # <<>> /\ registered[1] = h
             => published = NoCreds
  BY DEF MemberHyp, FoundingInv, MemberInv, OneUpload
<1>2. registered' = registered \/ \E k \in Hosts : AddService(k)
  BY <1>1, SharedChanges
<1>3. registered # <<>> => registered' # <<>> /\ registered'[1] = registered[1]
  BY <1>1, FirstStays
<1>4. registered' = <<>> => published' = NoCreds
  <2>1. ASSUME registered' = <<>>, NEW k \in Hosts, UploadCredentials(k) PROVE FALSE
    BY <1>3, <2>1, UploaderIsFirst DEF MemberHyp
  <2> QED BY <1>1, <1>3, <2>1, SharedChanges
<1>5. ASSUME NEW h \in Hosts, mode'[h] = "first", pc'[h] \in Running \ {"enable"},
             registered' # <<>>, registered'[1] = h
      PROVE  published' = NoCreds
  <2>1. published' = published
    <3>1. ASSUME NEW k \in Hosts, UploadCredentials(k) PROVE FALSE
      BY <1>3, <1>5, <3>1, UploaderIsFirst DEF MemberHyp
    <3> QED BY <1>1, <3>1, SharedChanges
  <2>2. CASE registered = <<>>
    BY <1>1, <2>1, <2>2
  <2>3. CASE registered # <<>>
    <3>1. ~Begins(h)
      BY <1>1, <1>5, <2>3, FirstBegins
    <3>2. ~Fail(h) /\ ~Crash(h) /\ ~Reset(h)
      BY <1>1, <1>5, StepsAre DEF Fail, Crash, Reset, Goto, TypeOK, Ended
    <3>3. CASE Same(h)
      BY <1>1, <1>3, <1>5, <2>1, <2>3, <3>3 DEF Same
    <3>4. CASE SetupStep(h)
      <4>1. mode[h] = "first" /\ pc[h] \in Running \ {"enable"}
        BY <1>1, <1>5, <3>4, GoesOn, RunningIs DEF At
      <4> QED BY <1>1, <1>3, <1>5, <2>1, <2>3, <4>1
    <3> QED BY <1>1, <3>1, <3>2, <3>3, <3>4, WhoMoves
  <2> QED BY <2>2, <2>3
<1> QED BY <1>4, <1>5 DEF OneUpload

(* What a setup has downloaded is still published when it uses it.          *)
HeldOf(h) ==
  /\ mode[h] # "first" /\ pc[h] \in Running \ {"download"} =>
       cred[h] = published /\ published # NoCreds
  /\ mode[h] # "first" /\ pc[h] \in WithKeys => mem[h] = published
  /\ At(h, "enable") => mem[h] = published
  /\ pc[h] \in {"enable", "done"} => published # NoCreds

LEMMA HeldStep ==
  ASSUME Undisturbed, MemberHyp, [Next]_vars
  PROVE  HeldIsPublished'
<1> SUFFICES ASSUME NEW h \in Hosts PROVE HeldOf(h)'
  BY DEF HeldIsPublished, HeldOf
<1> USE DEF At
<1>1. TypeOK /\ HeldOf(h)
  BY DEF MemberHyp, FoundingInv, MemberInv, HeldIsPublished, HeldOf
<1>2. published # NoCreds => published' = published
  BY PublishedStays
<1>3. CASE Same(h)
  <2>1. pc[h] = "enable" => published # NoCreds
    BY <1>1 DEF HeldOf
  <2>2. pc[h] \in WithKeys => pc[h] \in Running \ {"download"}
    BY StepsAre, RunningIs
  <2> QED BY <1>1, <1>2, <1>3, <2>1, <2>2 DEF Same, HeldOf
<1>4. CASE Begins(h)
  <2>1. \/ pc'[h] = "ca" /\ mode'[h] = "first"
        \/ pc'[h] = "download"
    BY <1>1, <1>4, BeginsAre DEF Begin, Goto, TypeOK
  <2> QED BY <2>1, StepsAre DEF HeldOf
<1>5. CASE Fail(h) \/ Crash(h) \/ Reset(h)
  <2>1. pc'[h] \in {"failed", "crashed", "idle"}
    BY <1>1, <1>5 DEF Fail, Crash, Reset, Goto, TypeOK
  <2> QED BY <2>1, StepsAre DEF Ended, HeldOf
<1>6. CASE SetupStep(h) /\ pc'[h] \in {"failed", "done"}
  <2>1. pc'[h] = "done" => pc[h] = "enable"
    BY <1>1, <1>6, GoesOn, RunningIs
  <2> QED BY <1>1, <1>2, <1>6, <2>1, StepsAre DEF Ended, HeldOf
<1>7. CASE Download(h) /\ pc'[h] \notin {"failed", "done"}
  <2>1. published # NoCreds /\ cred'[h] = published
    BY <1>1, <1>7 DEF Download, Downloads, Undisturbed, Goto, TypeOK
  <2>2. pc'[h] = "unpack"
    BY <1>1, <1>7, GoesOn DEF SetupStep, Download
  <2> QED BY <1>2, <2>1, <2>2, StepsAre DEF HeldOf
<1>8. CASE Unpack(h)
  <2>1. pc'[h] = "cert" /\ pc[h] = "unpack" /\ mode[h] # "first" /\ mode'[h] = mode[h]
    BY <1>1, <1>8, GoesOn DEF SetupStep, Unpack
  <2>2. mem'[h] = cred[h] /\ cred'[h] = cred[h]
    BY <1>1, <1>8 DEF Unpack, TypeOK
  <2>3. cred[h] = published /\ published # NoCreds
    BY <1>1, <2>1, RunningIs DEF HeldOf
  <2> QED BY <1>2, <2>1, <2>2, <2>3, StepsAre DEF HeldOf
<1>9. CASE UploadCredentials(h)
  <2>1. mode'[h] = "first" /\ pc'[h] = "enable" /\ cred[h] = mem[h] /\ cred[h] # NoCreds
    BY <1>1, <1>9, UploaderIsFirst, GoesOn DEF SetupStep, MemberHyp
  <2>2. published' = cred[h] /\ mem' = mem
    BY <1>9 DEF UploadCredentials
  <2> QED BY <2>1, <2>2 DEF HeldOf
<1>10. CASE /\ SetupStep(h) /\ pc'[h] \notin {"failed", "done"}
            /\ ~Download(h) /\ ~Unpack(h) /\ ~UploadCredentials(h)
  <2>1. mode'[h] = mode[h] /\ pc[h] \notin {"download", "unpack", "upload"} /\ pc[h] \in Running
    BY <1>1, <1>10, GoesOn DEF SetupStep, GenerateKeys, CreateCertificate, WriteConfig,
       AddService, StartUnit, Started, WaitForConsulLeader, CreateACLBootstrapToken,
       InstallToken, CreateEncryptedSecret, Enable
  <2>2. CASE mode[h] = "first"
    <3>1. pc'[h] # "enable"
      BY <1>1, <1>10, <2>1, <2>2, GoesOn, RunningIs
    <3> QED BY <1>10, <2>1, <2>2, <3>1 DEF HeldOf
  <2>3. CASE mode[h] # "first"
    <3>1. pc[h] \in WithKeys \ {"leader", "bootstrap", "archive", "upload", "enable"}
      BY <1>1, <1>10, <2>1, <2>3, GoesOn, StepsAre, RunningIs
    <3>2. mem'[h] = mem[h] /\ cred'[h] = cred[h]
      BY <1>10, <3>1, StepsAre DEF SetupStep, GenerateKeys, CreateCertificate, WriteConfig,
         AddService, StartUnit, Started, WaitForConsulLeader, CreateACLBootstrapToken,
         InstallToken, CreateEncryptedSecret, Enable, files
    <3>3. mem[h] = published /\ cred[h] = published /\ published # NoCreds
      BY <1>1, <2>1, <2>3, <3>1 DEF HeldOf
    <3> QED BY <1>2, <1>10, <2>1, <3>2, <3>3 DEF HeldOf
  <2> QED BY <2>2, <2>3
<1>11. SetupStep(h) \/ ~(Download(h) \/ Unpack(h) \/ UploadCredentials(h))
  BY DEF SetupStep
<1> QED BY <1>1, <1>3, <1>4, <1>5, <1>6, <1>7, <1>8, <1>9, <1>10, <1>11, WhoMoves

LEMMA DoneStep ==
  ASSUME Undisturbed, MemberHyp, [Next]_vars
  PROVE  DoneIsInCluster'
<1> USE DEF At
<1> SUFFICES ASSUME NEW h \in Hosts, pc'[h] = "done"
             PROVE  /\ main'[h] = published'.gossip
                    /\ ca'[h] = published'.ca /\ cert'[h] = published'.ca
                    /\ token'[h] = published'.boot
  BY DEF DoneIsInCluster
<1>1. TypeOK
  BY DEF MemberHyp, FoundingInv
<1>2. Same(h) \/ SetupStep(h)
  <2>1. ~Begins(h)
    BY <1>1, BeginsAre DEF Begin, Goto, TypeOK
  <2>2. ~Fail(h) /\ ~Crash(h) /\ ~Reset(h)
    BY <1>1 DEF Fail, Crash, Reset, Goto, TypeOK
  <2> QED BY <1>1, <2>1, <2>2, WhoMoves
<1>3. SetupStep(h) => pc[h] = "enable"
  BY <1>1, GoesOn, RunningIs
<1>4. published' = published
  <2>1. pc[h] \in {"enable", "done"}
    BY <1>2, <1>3 DEF Same
  <2>2. published # NoCreds
    BY <2>1 DEF MemberHyp, MemberInv, HeldIsPublished
  <2> QED BY <2>2, PublishedStays
<1>5. CASE Same(h)
  BY <1>4, <1>5 DEF Same, MemberHyp, MemberInv, DoneIsInCluster
<1>6. CASE SetupStep(h)
  <2>1. Enable(h)
    BY <1>3, <1>6 DEF SetupStep, GenerateKeys, Download, Unpack, CreateCertificate,
       WriteConfig, AddService, StartUnit, Started, WaitForConsulLeader,
       CreateACLBootstrapToken, InstallToken, CreateEncryptedSecret, UploadCredentials
  <2>2. main'[h] = main[h] /\ ca'[h] = ca[h] /\ cert'[h] = cert[h] /\ token'[h] = token[h]
    BY <2>1 DEF Enable
  <2>3. /\ main[h] = mem[h].gossip /\ ca[h] = mem[h].ca /\ cert[h] = mem[h].ca
        /\ token[h] = mem[h].boot
    BY <1>3, <1>6, StepsAre DEF MemberHyp, UsableInv, FilesAgree
  <2>4. mem[h] = published
    BY <1>3, <1>6 DEF MemberHyp, MemberInv, HeldIsPublished
  <2> QED BY <1>4, <2>2, <2>3, <2>4
<1> QED BY <1>2, <1>5, <1>6

LEMMA MemberInit == Init => MemberInv
<1> SUFFICES ASSUME Init PROVE MemberInv
  OBVIOUS
<1>1. OneUpload /\ DoneIsInCluster
  BY DEF Init, OneUpload, DoneIsInCluster, At
<1>2. HeldIsPublished
  BY StepsAre DEF Init, HeldIsPublished, At, Ended
<1> QED BY <1>1, <1>2 DEF MemberInv

LEMMA Membership ==
  ASSUME Undisturbed
  PROVE  Spec => []MemberHyp
<1>1. MemberHyp /\ [Next]_vars => MemberInv'
  BY OneUploadStep, HeldStep, DoneStep DEF MemberInv
<1>2. FoundingInv /\ UsableInv /\ MemberInv <=> MemberHyp
  BY DEF MemberHyp
<1> QED BY <1>1, <1>2, MemberInit, Founding, Credentials, PTL DEF Spec

(* Without --first-instance and with LDAP masters that answer, a setup that *)
(* reports success has put its host into the published cluster, ...         *)
THEOREM SuccessIsMembership ==
  ASSUME Undisturbed
  PROVE  Spec => []DoneIsInCluster
<1>1. MemberHyp => DoneIsInCluster
  BY DEF MemberHyp, MemberInv
<1> QED BY <1>1, Membership, PTL

(* ... and credentials once uploaded are never replaced.                    *)
THEOREM PublishedStaysPermanent ==
  ASSUME Undisturbed
  PROVE  Spec => PublishedIsPermanent
<1>1. MemberHyp /\ [Next]_vars => (published # NoCreds => published' = published)
  BY PublishedStays
<1>2. ASSUME MemberHyp, [Next]_vars
      PROVE  [published # NoCreds => published' = published]_vars
  BY <1>1, <1>2
<1> QED BY <1>2, Membership, PTL DEF Spec, PublishedIsPermanent

-----------------------------------------------------------------------------
(* Every behaviour of ClusterSetup is one of Cluster.  What the mapping     *)
(* makes of the credentials and of the clusters:                            *)
Opens(c) == IF c = NoCreds THEN None ELSE IF Usable(c) THEN c.boot ELSE -1
FoundersOf(s) == [c \in DOMAIN s |-> s[c][1]]

(* Published credentials open the cluster whose token they hold.            *)
LEMMA PublishedOpens ==
  ASSUME UsableInv
  PROVE  Opens(published) = IF published = NoCreds THEN None ELSE published.boot
BY DEF Opens, UsableInv, CredsAreUsable

LEMMA WholeInit == Init => Whole!Init
<1> SUFFICES ASSUME Init PROVE Whole!Init
  OBVIOUS
<1>1. clusters = <<>> /\ published = NoCreds
  BY DEF Init
<1>2. [c \in DOMAIN clusters |-> clusters[c][1]] = <<>>
  BY <1>1
<1> QED BY <1>1, <1>2 DEF Init, Whole!Init

(* A step that changes none of the four is invisible.                       *)
LEMMA WholeStutters ==
  ASSUME UsableInv, UsableInv', UNCHANGED <<consul, token, published>>
  PROVE  UNCHANGED Whole!vars
<1>1. data' = data /\ clusters' = clusters /\ acl' = acl /\ token' = token
      /\ published' = published
  BY DEF consul
<1>2. Opens(published)' = Opens(published)
  BY <1>1, PublishedOpens DEF Opens, Usable
<1> QED BY <1>1, <1>2 DEF Whole!vars, Opens

(* What a host reaches has a member.                                        *)
LEMMA ReachedHasMember ==
  ASSUME NEW h, NEW c, Reaches(h, c)
  PROVE  Whole!Members(c) # {}
BY DEF Reaches, Peers, Whole!Members

LEMMA ElectFounds ==
  ASSUME FoundingInv, UsableInv, UsableInv', DataIsFirst', NEW h \in Servers, Elect(h)
  PROVE  Whole!Next
<1> DEFINE f == main[h][1]
<1>1. /\ clusters \in Seq(KeyIds \cup {None}) /\ registered \in Seq(Hosts)
      /\ acl \subseteq DOMAIN clusters /\ main[h] \in KeyIds \cup {None}
  BY DEF FoundingInv, TypeOK, Hosts
<1>2. /\ registered # <<>> /\ f = registered[1]
      /\ \A c \in DOMAIN clusters : clusters[c][1] = f
  BY ElectedFromFirst DEF FoundingInv, DataIsFirst, FromFirst
<1>3. f \in Hosts
  BY <1>1, <1>2
<1>4. /\ clusters' = Append(clusters, main[h]) /\ acl' = acl /\ published' = published
      /\ token' = token
      /\ data' = [k \in Hosts |-> IF k \in Peers(h) THEN Len(clusters) + 1 ELSE data[k]]
      /\ \A k \in Peers(h) : data[k] = 0
  BY DEF Elect, setup, files, ldap
<1>5. /\ DOMAIN FoundersOf(clusters) = 1..Len(clusters)
      /\ FoundersOf(clusters) \in Seq(Hosts) /\ Len(FoundersOf(clusters)) = Len(clusters)
  <2>1. DOMAIN clusters = 1..Len(clusters) /\ Len(clusters) \in Nat
    BY <1>1
  <2>2. \A c \in DOMAIN clusters : clusters[c][1] \in Hosts
    BY <1>2, <1>3
  <2> QED BY <2>1, <2>2 DEF FoundersOf
<1>6. FoundersOf(clusters)' = Append(FoundersOf(clusters), f)
  <2>1. /\ DOMAIN clusters' = 1..(Len(clusters) + 1)
        /\ \A c \in 1..Len(clusters) : clusters'[c] = clusters[c]
        /\ clusters'[Len(clusters) + 1] = main[h]
    BY <1>1, <1>4, AppendProperties, LenProperties
  <2>2. /\ Append(FoundersOf(clusters), f) \in Seq(Hosts)
        /\ DOMAIN Append(FoundersOf(clusters), f) = 1..(Len(clusters) + 1)
        /\ \A c \in 1..Len(clusters) :
             Append(FoundersOf(clusters), f)[c] = FoundersOf(clusters)[c]
        /\ Append(FoundersOf(clusters), f)[Len(clusters) + 1] = f
    BY <1>3, <1>5, AppendProperties, LenProperties
  <2>3. /\ FoundersOf(clusters)' = [c \in 1..(Len(clusters) + 1) |-> clusters'[c][1]]
        /\ \A c \in 1..Len(clusters) : FoundersOf(clusters)[c] = clusters[c][1]
    BY <1>1, <2>1 DEF FoundersOf
  <2> QED BY <1>1, <2>1, <2>2, <2>3
<1>7. Opens(published)' = Opens(published)
  <2>1. published # NoCreds => Usable(published) /\ Usable(published)'
    BY <1>4 DEF UsableInv, CredsAreUsable
  <2> QED BY <1>4, <2>1 DEF Opens, NoCreds
<1>8. Peers(h) \in SUBSET Servers /\ Peers(h) # {}
  BY DEF Peers, Elect
<1>9. PICK some \in SUBSET Servers, founder \in Hosts : some = Peers(h) /\ founder = f
  BY <1>3, <1>8
<1>10. Whole!Found(some, founder)
  BY <1>2, <1>4, <1>5, <1>6, <1>7, <1>8, <1>9 DEF Whole!Found, FoundersOf, Opens
<1> QED BY <1>10 DEF Whole!Next

(* The steps of one host that Cluster sees.                                 *)
LEMMA HostStepRefines ==
  ASSUME FoundingInv, UsableInv, UsableInv', NEW h \in Hosts,
         \/ CreateACLBootstrapToken(h) \/ InstallToken(h) \/ UploadCredentials(h)
         \/ Reset(h) \/ (h \in Servers /\ Join(h))
  PROVE  Whole!Next
<1>1. /\ clusters \in Seq(KeyIds \cup {None}) /\ acl \subseteq DOMAIN clusters
      /\ \A k \in Hosts : data[k] # 0 => data[k] \in DOMAIN clusters
      /\ DOMAIN FoundersOf(clusters) = DOMAIN clusters
  BY DEF FoundingInv, TypeOK, DataIsFirst, FoundersOf
<1>2. published' = published /\ clusters' = clusters /\ acl \subseteq acl'
        => Opens(published)' = Opens(published)
  BY PublishedOpens DEF Opens, UsableInv, CredsAreUsable, NoCreds
<1>3. CASE CreateACLBootstrapToken(h)
  <2>1. PICK c \in DOMAIN clusters \ acl : Reaches(h, c) /\ acl' = acl \cup {c}
    BY <1>3 DEF CreateACLBootstrapToken
  <2>2. UNCHANGED <<clusters, data, token, published>>
    BY <1>3 DEF CreateACLBootstrapToken, files, ldap
  <2>3. Whole!Bootstrap(c)
    BY <1>2, <2>1, <2>2, ReachedHasMember DEF Whole!Bootstrap, Opens
  <2> QED BY <1>1, <2>1, <2>3 DEF Whole!Next, FoundersOf
<1>4. CASE InstallToken(h)
  <2>1. PICK c \in acl : /\ c = mem[h].boot /\ Reaches(h, c)
                         /\ token' = [token EXCEPT ![h] = c]
    BY <1>4 DEF InstallToken
  <2>2. UNCHANGED <<clusters, data, acl, published>>
    BY <1>4 DEF InstallToken, consul, ldap
  <2>3. Whole!Enrol(h, c)
    BY <1>2, <2>1, <2>2, ReachedHasMember DEF Whole!Enrol, Opens
  <2> QED BY <1>1, <2>1, <2>3 DEF Whole!Next, FoundersOf
<1>5. CASE UploadCredentials(h)
  <2>1. /\ published' = cred[h] /\ UNCHANGED <<clusters, data, acl, token>>
        /\ cred[h] = mem[h] /\ At(h, "upload")
    BY <1>5 DEF UploadCredentials, consul, files, UsableInv, FilesAgree
  <2>2. cred[h] # NoCreds
    <3>1. mode[h] = "first" /\ pc[h] \in WithKeys
      BY <1>5, <2>1, StepsAre, GoesOn DEF SetupStep, At, FoundingInv
    <3>2. mem[h].gossip \in {h} \X Nat
      BY <3>1 DEF UsableInv, FilesAgree
    <3>3. mem[h].gossip \in KeyIds
      BY <3>2 DEF KeyIds
    <3> QED BY <2>1, <3>3, HostsAssumption DEF NoCreds, KeyIds
  <2>3. PICK c \in acl : c = cred[h].boot
    BY <2>2 DEF UsableInv, CredsAreUsable, Usable
  <2>4. Opens(published)' = c
    BY <2>1, <2>2, <2>3 DEF Opens, UsableInv, CredsAreUsable, NoCreds
  <2>5. Whole!Publish(c)
    BY <2>1, <2>3, <2>4 DEF Whole!Publish, Opens
  <2> QED BY <1>1, <2>3, <2>5 DEF Whole!Next, FoundersOf
<1>6. CASE Reset(h)
  <2>1. Whole!Leave(h)
    BY <1>2, <1>6 DEF Reset, ldap, Whole!Leave, Opens
  <2> QED BY <2>1 DEF Whole!Next
<1>7. CASE h \in Servers /\ Join(h)
  <2>1. PICK k \in Peers(h) : data[k] # 0 /\ data' = [data EXCEPT ![h] = data[k]]
    BY <1>7 DEF Join
  <2>2. k \in Servers /\ k \in Hosts
    BY <2>1 DEF Peers, Hosts
  <2>3. PICK c \in DOMAIN clusters : c = data[k]
    BY <1>1, <2>1, <2>2
  <2>4. data[h] = 0 /\ UNCHANGED <<clusters, acl, token, published>>
    BY <1>7 DEF Join, files, ldap
  <2>5. Whole!Join(h, c)
    BY <1>2, <2>1, <2>2, <2>3, <2>4 DEF Whole!Join, Whole!Members, Opens
  <2> QED BY <1>1, <2>3, <2>5 DEF Whole!Next, FoundersOf
<1> QED BY <1>3, <1>4, <1>5, <1>6, <1>7

LEMMA WholeStep ==
  FoundingInv /\ FoundingInv' /\ UsableInv /\ UsableInv' /\ [Next]_vars
    => [Whole!Next]_(Whole!vars)
<1> SUFFICES ASSUME FoundingInv, FoundingInv', UsableInv, UsableInv', [Next]_vars
             PROVE  Whole!Next \/ UNCHANGED Whole!vars
  OBVIOUS
<1> DEFINE Quiet == UNCHANGED <<consul, token, published>>
<1> USE DEF setup, files, ldap
<1>1. ASSUME NEW h \in Hosts, Begins(h) PROVE Quiet
  BY <1>1, BeginsAre DEF Begin
<1>2. ASSUME NEW h \in Hosts, SetupStep(h)
      PROVE  \/ CreateACLBootstrapToken(h) \/ InstallToken(h) \/ UploadCredentials(h)
             \/ Quiet
  BY <1>2 DEF SetupStep, GenerateKeys, Download, Unpack, CreateCertificate, WriteConfig,
     AddService, StartUnit, Started, WaitForConsulLeader, CreateEncryptedSecret, Enable
<1>3. ASSUME NEW h \in Hosts, Fail(h) \/ Crash(h) \/ DaemonStart(h) \/ DaemonDies(h)
      PROVE  Quiet
  BY <1>3 DEF Fail, Crash, DaemonStart, DaemonDies
<1>4. ASSUME UNCHANGED vars PROVE Quiet
  BY <1>4 DEF vars, consul
<1>5. /\ \A g \in Servers : g \in Hosts /\ (RunServer(g) => Begins(g))
      /\ \A g \in Agents : g \in Hosts /\ (RunAgent(g) => Begins(g))
  BY DEF Begins, Hosts
<1>6. Quiet => UNCHANGED Whole!vars
  BY WholeStutters
<1>7. ASSUME NEW h \in Hosts,
             \/ CreateACLBootstrapToken(h) \/ InstallToken(h) \/ UploadCredentials(h)
             \/ Reset(h) \/ (h \in Servers /\ Join(h))
      PROVE  Whole!Next
  BY <1>7, HostStepRefines
<1>8. ASSUME NEW h \in Servers, Elect(h) PROVE Whole!Next
  BY <1>8, ElectFounds DEF FoundingInv
<1> HIDE DEF Quiet
<1> QED BY <1>1, <1>2, <1>3, <1>4, <1>5, <1>6, <1>7, <1>8 DEF Next, Normal, Fault

(* The setups of all hosts, with their daemons, LDAP and Consul, behave like*)
(* one cluster that has one founder, whose credentials open it, and that    *)
(* hosts join, whatever races, fails, crashes or is reset.                  *)
THEOREM WholeImplementation == Spec => ImplementsCluster
<1>1. Init => Whole!Init
  BY WholeInit
<1>2. FoundingInv /\ FoundingInv' /\ UsableInv /\ UsableInv' /\ [Next]_vars
        => [Whole!Next]_(Whole!vars)
  BY WholeStep
<1> QED BY <1>1, <1>2, Founding, Credentials, PTL DEF Spec, ImplementsCluster, Whole!Spec

-----------------------------------------------------------------------------
(* Every behaviour of ClusterSetup is one of Units, too: each host keeps to *)
(* what it promises of its main.json, its unit and its entry in LDAP.       *)

(* Who registers is a server that was not registered, or was already.       *)
LEMMA Registers ==
  ASSUME TypeOK, NEW h \in Hosts, AddService(h)
  PROVE  Registered' = Registered \cup {h} /\ mode[h] \in {"first", "import"}
<1>1. registered \in Seq(Hosts)
  BY DEF TypeOK
<1>2. h \in Registered => Registered' = Registered \cup {h}
  BY DEF AddService, Registered
<1>3. ASSUME h \notin Registered
      PROVE  Registered' = Registered \cup {h}
  <2>1. registered' = Append(registered, h)
    BY <1>3 DEF AddService
  <2>2. /\ DOMAIN registered' = DOMAIN registered \cup {Len(registered) + 1}
        /\ \A i \in DOMAIN registered : registered'[i] = registered[i]
        /\ registered'[Len(registered) + 1] = h
    BY <1>1, <2>1, AppendProperties, LenProperties
  <2> QED BY <2>2 DEF Registered
<1>4. mode[h] \in DOMAIN Steps /\ "register" \in DOMAIN Steps[mode[h]]
  BY RunningIs DEF AddService, At, TypeOK, InItsSteps
<1> QED BY <1>2, <1>3, <1>4, Modes

LEMMA RolesStep ==
  ASSUME TypeOK, RolesKept, [Next]_vars
  PROVE  RolesKept'
<1>1. ASSUME NEW h \in Agents PROVE mode'[h] \in {"none", "agent"}
  <2>0. h \in Hosts \ Servers /\ mode[h] \in {"none", "agent"}
    BY HostsAssumption DEF Hosts, RolesKept
  <2>1. CASE Begins(h)
    BY <2>0, <2>1 DEF Begins, RunAgent, Begin, TypeOK
  <2>2. CASE Same(h) \/ SetupStep(h) \/ Fail(h) \/ Crash(h) \/ Reset(h)
    BY <2>0, <2>2, GoesOn DEF Same, Fail, Crash, Reset
  <2> QED BY <2>0, <2>1, <2>2, WhoMoves
<1>2. Registered' \subseteq Servers
  <2>1. CASE registered' = registered
    BY <2>1 DEF Registered, RolesKept
  <2>2. ASSUME NEW k \in Hosts, AddService(k) PROVE Registered' \subseteq Servers
    BY <2>2, Registers DEF RolesKept, Hosts
  <2> QED BY <2>1, <2>2, SharedChanges
<1> QED BY <1>1, <1>2 DEF RolesKept

(* What a setup downloads, unpacks or generates holds a gossip key.         *)
LEMMA KeysKnownStep ==
  ASSUME FoundingInv, KeysKnown, [Next]_vars
  PROVE  KeysKnown'
<1> SUFFICES ASSUME NEW h \in Hosts
             PROVE  /\ pc'[h] = "unpack" => cred'[h] # NoCreds
                    /\ pc'[h] \in WithKeys => mem'[h].gossip # None
  BY DEF KeysKnown, At
<1> USE DEF At
<1>1. /\ TypeOK
      /\ pc[h] = "unpack" => cred[h] # NoCreds
      /\ pc[h] \in WithKeys => mem[h].gossip # None
  BY DEF FoundingInv, KeysKnown
<1>2. CASE Same(h)
  BY <1>1, <1>2 DEF Same
<1>3. CASE Begins(h) \/ Fail(h) \/ Crash(h) \/ Reset(h)
  <2>1. pc'[h] \in {"ca", "download", "failed", "crashed", "idle"}
    BY <1>1, <1>3, BeginsAre DEF Begin, Fail, Crash, Reset, Goto, TypeOK
  <2> QED BY <2>1, StepsAre
<1>4. CASE GenerateKeys(h)
  <2>1. runs[h] \in Nat /\ mem'[h].gossip = <<h, runs[h]>>
    BY <1>1, <1>4, HostsAssumption DEF GenerateKeys, TypeOK
  <2>2. mem'[h].gossip # None
    BY <2>1, HostsAssumption
  <2>3. pc'[h] # "unpack"
    BY <1>1, <1>4, GoesOn DEF SetupStep, GenerateKeys
  <2> QED BY <2>2, <2>3
<1>5. CASE Download(h)
  <2>1. pc'[h] \in {"unpack", "failed"}
    BY <1>1, <1>5, GoesOn DEF SetupStep, Download
  <2>2. pc'[h] = "failed" \/ cred'[h] # NoCreds
    BY <1>1, <1>5 DEF Download, Goto, TypeOK
  <2> QED BY <2>1, <2>2, StepsAre
<1>6. CASE Unpack(h)
  <2>1. pc[h] = "unpack" /\ pc'[h] = "cert" /\ mem'[h] = cred[h]
    BY <1>1, <1>6, GoesOn DEF SetupStep, Unpack, TypeOK
  <2>2. cred[h].gossip \in KeyIds
    BY <1>1, <2>1 DEF FoundingInv, SharedIsFirst, FromFirst
  <2> QED BY <2>1, <2>2, HostsAssumption DEF KeyIds
<1>7. CASE SetupStep(h) /\ ~GenerateKeys(h) /\ ~Download(h) /\ ~Unpack(h)
  <2>1. pc[h] \in WithKeys
    BY <1>7, StepsAre DEF SetupStep, CreateCertificate, WriteConfig, AddService, StartUnit,
       Started, WaitForConsulLeader, CreateACLBootstrapToken, InstallToken,
       CreateEncryptedSecret, UploadCredentials, Enable
  <2>2. mem'[h].gossip = mem[h].gossip \/ pc[h] = "enable"
    BY <1>1, <1>7 DEF SetupStep, CreateCertificate, WriteConfig, AddService, StartUnit,
       Started, WaitForConsulLeader, CreateACLBootstrapToken, InstallToken,
       CreateEncryptedSecret, UploadCredentials, Enable, TypeOK, Creds
  <2>3. /\ pc'[h] # "unpack"
        /\ pc[h] = "enable" => pc'[h] = "done"
    BY <1>1, <1>7, <2>1, GoesOn, StepsAre
  <2> QED BY <1>1, <2>1, <2>2, <2>3, StepsAre
<1> QED BY <1>1, <1>2, <1>3, <1>4, <1>5, <1>6, <1>7, WhoMoves

LEMMA UnitInvInit == Init => UnitInv
BY StepsAre DEF Init, UnitInv, RolesKept, KeysKnown, Registered, Hosts, At, Ended

-----------------------------------------------------------------------------
(* The steps that Units sees.                                               *)
LEMMA UnitsVisible ==
  ASSUME FoundingInv, UnitInv, NEW h \in Hosts,
         \/ WriteConfig(h) \/ AddService(h) \/ StartUnit(h) \/ DaemonStart(h)
         \/ DaemonDies(h) \/ Crash(h) \/ Reset(h)
  PROVE  UnitsOf!Next \/ UNCHANGED UnitsOf!vars
<1> USE DEF setup, files, ldap, At
<1>1. /\ TypeOK
      /\ main \in [Hosts -> KeyIds \cup {None}]
      /\ unit \in [Hosts -> {"stopped", "starting", "up"}]
  BY DEF FoundingInv, TypeOK
<1>2. CASE WriteConfig(h)
  <2>1. main[h] = None /\ mem[h].gossip # None
    BY <1>2, StepsAre DEF WriteConfig, FoundingInv, MainIsMem, UnitInv, KeysKnown
  <2>2. main' = [main EXCEPT ![h] = mem[h].gossip] /\ UNCHANGED <<registered, unit>>
    BY <1>2 DEF WriteConfig, daemon
  <2>3. UnitsOf!Configure(h)
    BY <1>1, <2>1, <2>2 DEF UnitsOf!Configure, Registered
  <2> QED BY <2>3 DEF UnitsOf!Next
<1>3. CASE AddService(h)
  <2>1. Registered' = Registered \cup {h} /\ h \in Servers
    BY <1>1, <1>3, Registers DEF Hosts, UnitInv, RolesKept
  <2>2. main[h] # None
    BY <1>3, StepsAre DEF AddService, FoundingInv, MainIsMem, UnitInv, KeysKnown
  <2>3. UNCHANGED <<main, unit>>
    BY <1>3 DEF AddService, daemon
  <2>4. UnitsOf!Enrol(h)
    BY <2>1, <2>2, <2>3 DEF UnitsOf!Enrol
  <2> QED BY <2>4 DEF UnitsOf!Next
<1>4. CASE StartUnit(h)
  <2>1. UNCHANGED <<main, registered>>
    BY <1>4 DEF StartUnit
  <2>2. CASE unit[h] = "stopped"
    <3>1. UnitsOf!Start(h)
      BY <1>4, <2>1, <2>2 DEF StartUnit, UnitsOf!Start, Registered
    <3> QED BY <3>1 DEF UnitsOf!Next
  <2>3. CASE unit[h] # "stopped"
    BY <1>4, <2>1, <2>3 DEF StartUnit, UnitsOf!vars, Registered
  <2> QED BY <2>2, <2>3
<1>5. CASE DaemonStart(h)
  <2>1. PICK servers \in Snapshots : startConsul(h, servers)
    BY <1>5 DEF DaemonStart
  <2>2. h \in Servers => h \in Registered
    BY <1>1, <2>1, SnapshotIsPrefix DEF startConsul, Registered
  <2>3. h \in Registered => h \in Servers
    BY DEF UnitInv, RolesKept
  <2>4. UnitsOf!Up(h)
    BY <1>5, <2>2, <2>3 DEF DaemonStart, UnitsOf!Up, Registered
  <2> QED BY <2>4 DEF UnitsOf!Next
<1>6. CASE DaemonDies(h) \/ Crash(h)
  <2>1. /\ UNCHANGED <<main, registered>>
        /\ \E label \in {"stopped", "starting"} : unit' = [unit EXCEPT ![h] = label]
    BY <1>6 DEF DaemonDies, Crash, Down
  <2>2. UnitsOf!Down(h)
    BY <2>1 DEF UnitsOf!Down, Registered
  <2> QED BY <2>2 DEF UnitsOf!Next
<1>7. CASE Reset(h)
  <2>1. /\ main' = [main EXCEPT ![h] = None] /\ unit' = [unit EXCEPT ![h] = "stopped"]
        /\ registered' = registered
    BY <1>7 DEF Reset
  <2>2. UnitsOf!Reset(h)
    BY <1>1, <2>1 DEF UnitsOf!Reset, Registered
  <2> QED BY <2>2 DEF UnitsOf!Next
<1> QED BY <1>2, <1>3, <1>4, <1>5, <1>6, <1>7

LEMMA UnitsStep == FoundingInv /\ UnitInv /\ [Next]_vars => [UnitsOf!Next]_(UnitsOf!vars)
<1> SUFFICES ASSUME FoundingInv, UnitInv, [Next]_vars
             PROVE  UnitsOf!Next \/ UNCHANGED UnitsOf!vars
  OBVIOUS
<1> DEFINE Quiet == UNCHANGED <<main, registered, unit>>
<1> USE DEF setup, files, ldap, daemon
<1>1. ASSUME NEW h \in Hosts, Begins(h) PROVE Quiet
  BY <1>1, BeginsAre DEF Begin
<1>2. ASSUME NEW h \in Hosts, SetupStep(h)
      PROVE  WriteConfig(h) \/ AddService(h) \/ StartUnit(h) \/ Quiet
  BY <1>2 DEF SetupStep, GenerateKeys, Download, Unpack, CreateCertificate, Started,
     WaitForConsulLeader, CreateACLBootstrapToken, InstallToken, CreateEncryptedSecret,
     UploadCredentials, Enable
<1>3. ASSUME NEW h \in Hosts, Fail(h) PROVE Quiet
  BY <1>3 DEF Fail
<1>4. ASSUME NEW h \in Servers, Elect(h) \/ Join(h) PROVE Quiet
  BY <1>4 DEF Elect, Join
<1>5. ASSUME UNCHANGED vars PROVE Quiet
  BY <1>5 DEF vars
<1>6. Quiet => UNCHANGED UnitsOf!vars
  BY DEF UnitsOf!vars, Registered
<1>7. ASSUME NEW h \in Hosts,
             \/ WriteConfig(h) \/ AddService(h) \/ StartUnit(h) \/ DaemonStart(h)
             \/ DaemonDies(h) \/ Crash(h) \/ Reset(h)
      PROVE  UnitsOf!Next \/ UNCHANGED UnitsOf!vars
  BY <1>7, UnitsVisible
<1>8. /\ \A g \in Servers : RunServer(g) => Begins(g) /\ g \in Hosts
      /\ \A g \in Agents : RunAgent(g) => Begins(g) /\ g \in Hosts
  BY DEF Begins, Hosts
<1> HIDE DEF Quiet
<1> QED BY <1>1, <1>2, <1>3, <1>4, <1>5, <1>6, <1>7, <1>8 DEF Next, Normal, Fault

LEMMA UnitsInit == Init => UnitsOf!Init
<1> SUFFICES ASSUME Init PROVE UnitsOf!Init
  OBVIOUS
<1>1. Registered = {} /\ {h \in Hosts : main[h] # None} = {}
  BY DEF Init, Registered
<1> QED BY <1>1 DEF Init, UnitsOf!Init, Hosts

LEMMA Roles == Spec => []UnitInv
<1>1. FoundingInv /\ UnitInv /\ [Next]_vars => UnitInv'
  BY RolesStep, KeysKnownStep DEF UnitInv, FoundingInv
<1> QED BY <1>1, UnitInvInit, Founding, PTL DEF Spec

(* However setups of servers and agents, lagging replicas, crashes, resets  *)
(* and restarts interleave, each host keeps to the promise that HostConfig  *)
(* makes of its daemon: the two are implementations of one specification.   *)
THEOREM UnitsImplementation == Spec => ImplementsUnits
BY UnitsInit, UnitsStep, Founding, Roles, PTL DEF Spec, ImplementsUnits, UnitsOf!Spec

(* So Consul runs as a server only on a host that LDAP has as one, and as   *)
(* an agent only on a host that it has not; and only with a main.json.      *)
THEOREM RunsAsListed == Spec => []UnitsOf!UpIsAsListed
<1>1. FoundingInv /\ UnitsOf!UpIsAsListed /\ [UnitsOf!Next]_(UnitsOf!vars)
        => UnitsOf!UpIsAsListed'
  <2> SUFFICES ASSUME FoundingInv, UnitsOf!UpIsAsListed, UnitsOf!Next \/ UNCHANGED UnitsOf!vars
               PROVE  UnitsOf!UpIsAsListed'
    OBVIOUS
  <2>1. unit \in [Hosts -> {"stopped", "starting", "up"}]
    BY DEF FoundingInv, TypeOK
  <2>2. CASE UNCHANGED UnitsOf!vars
    BY <2>2 DEF UnitsOf!vars, UnitsOf!UpIsAsListed
  <2>3. ASSUME NEW g \in Hosts, UnitsOf!Configure(g) \/ UnitsOf!Start(g) \/ UnitsOf!Up(g)
        PROVE  UnitsOf!UpIsAsListed'
    BY <2>1, <2>3
    DEF UnitsOf!UpIsAsListed, UnitsOf!Configure, UnitsOf!Start, UnitsOf!Up
  <2>4. ASSUME NEW g \in Hosts, UnitsOf!Enrol(g) \/ UnitsOf!Down(g) \/ UnitsOf!Reset(g)
        PROVE  UnitsOf!UpIsAsListed'
    BY <2>1, <2>4
    DEF UnitsOf!UpIsAsListed, UnitsOf!Enrol, UnitsOf!Down, UnitsOf!Reset
  <2> QED BY <2>2, <2>3, <2>4 DEF UnitsOf!Next
<1>2. Init => UnitsOf!UpIsAsListed
  BY DEF Init, UnitsOf!UpIsAsListed
<1> QED BY <1>1, <1>2, UnitsStep, Founding, Roles, PTL DEF Spec
=============================================================================
