# Verification of service-discover

service-discover sets up and runs the Consul service mesh of a Carbonio
installation. It is a set of Go command line tools and a small daemon wrapper;
its hard part is not inside one process but between them: setups of several
hosts, an LDAP directory they coordinate through, a Consul cluster that is being
founded meanwhile, and tools that talk to its ACL store while others do the
same. This directory holds TLA+ models of those parts, the TLC runs that check
them, and TLAPS proofs of what matters most.

## 1. Inventory

Paths are relative to `src/`.

| Part | Code | State it keeps | Operations | Interacts with |
|---|---|---|---|---|
| service-token commands | `pkg/command/service_token.go` | ACL tokens in Consul, a token file per service and node | `ensure`, `prune-legacy` | Consul HTTP API, other runs of themselves |
| server setup | `cmd/server/command/setup/*.go` | CA, certificate, `main.json`, `config.json`, credentials file | first setup, import setup | LDAP, systemd, Consul |
| agent setup | `cmd/agent/command/setup/*.go` | same, without CA key | setup | LDAP, systemd, Consul |
| daemon wrapper | `cmd/service-discoverd` | `main.json` (adds a port) | start: read LDAP, exec Consul | LDAP, systemd, Consul |
| LDAP handler | `pkg/carbonio/ldap.go` | `zimbraServiceEnabled` of each server, `carbonioMeshCredentials` | query, add, remove, upload, download | LDAP masters and replicas |
| shared setup steps | `pkg/command/common.go` | ACL policy and token of a host | upload/download credentials, create and set token | Consul, LDAP |
| encrypted archive | `pkg/encrypter` | none (a tar stream under OpenPGP) | add files, read files | setups, bootstrap-token |
| configuration commands | `pkg/command/config.go` | `config.json` | get, set, list | the file, setups, Consul |
| systemd client | `pkg/systemd` | none | start and enable a unit | D-Bus |
| bootstrap-token | `pkg/command/bootstrap_token.go` | none | print the bootstrap token | archive, terminal |
| wizards, terminal, localconfig, exec, permissions, formatter, parser | `cmd/*/command/setup/wizard.go`, `pkg/*` | none | input and output | |
| packaging | `build/`, `docker/` | the systemd units | | |

What makes the system hard:

* **interleaving of hosts** - every setup is a sequence of some ten steps, and
  "am I the first server" is decided by an LDAP query long before the server is
  registered there (`server/command/setup/common.go:225`, `firstsetup.go:127`);
* **an unusual quorum** - `-bootstrap-expect` is computed from a reading of LDAP
  at the start of the daemon (`service-discoverd.go:235`), while servers are
  being added;
* **failure and restart** - any step may fail, a host may go down between two,
  systemd restarts the daemon on its own, an administrator resets a host and
  tries again;
* **stale readings** - LDAP replicas lag, and what a token command read from
  Consul is used later;
* **lost answers** - a request to Consul may be applied and its answer lost;
* **one-shot secrets** - the ACL bootstrap token exists once, in memory, until
  the credentials are uploaded;
* **files without locks** - the setup, `config set` and the daemon write the
  configuration directory of a host in place, and the daemon may start at any
  moment, since the package enables its unit and systemd restarts it.

What makes each part correct:

* service-token commands: one secret per service and node for good; a successful
  `ensure` leaves the file with a live secret; `prune-legacy` deletes nothing of
  other nodes and nothing that is not replaced; every run ends;
* setups: one founding server; published credentials are usable and permanent; a
  reported success means membership; CA keys stay behind only after a crash or a write
  of them that fails; on a good day setups complete;
* daemon: never a quorum that lets a second cluster be founded;
* first tokens: a bootstrap token that Consul has shown is not lost unnoticed; the
  agent token installed is one that exists; the setup ends whatever hangs;
* encrypted archive: a search finds exactly what was archived, and what breaks off
  is an error of its own;
* LDAP handler: an operation takes effect once or not at all; a read is of one
  state, a current one if a master answers; one URL that is there is enough;
* configuration of a host: Consul is bound to the chosen address; the daemon never
  puts back an old `main.json`; `config get` shows what was set; a host that is set
  up comes up again after any crash.

## 2. The modules

| Module | What it is |
|---|---|
| `ServiceTokens` | the two token commands, any number of processes and nodes, one ACL store |
| `ServiceIdentity` | what they promise: one secret per service and node (abstract specification) |
| `ServiceTokensProofs` | theorems about `ServiceTokens` |
| `ClusterSetup` | setups of servers and agents, daemon, LDAP, and what they expect of Consul |
| `Cluster` | what the setups of all hosts promise of the cluster (abstract specification) |
| `Units` | what each host promises of its main.json, its unit and its entry in LDAP (abstract specification) |
| `ClusterSetupProofs` | theorems about `ClusterSetup`: types, and the one founding host |
| `ClusterCredentialsProofs` | theorems about `ClusterSetup`: credentials, keys, membership, the promise of a host |
| `AclBootstrap` | how the first server gets its bootstrap and agent tokens: a goroutine, its timeout, retries |
| `FirstTokens` | the steps that `ClusterSetup` makes of them (abstract specification) |
| `AclBootstrapProofs` | theorems about `AclBootstrap` |
| `Archive` | the encrypted archive: filling it, closing it, searching it |
| `ArchiveProofs` | theorems about `Archive` |
| `LdapHandler` | the operations of the LDAP handler, over masters and replicas that come and go |
| `Directory` | what they promise: atomic operations on one directory (abstract specification) |
| `LdapHandlerProofs` | theorems about `LdapHandler` |
| `HostConfig` | `main.json` and `config.json` of one host, and everyone who writes or reads them |
| `HostConfigProofs` | theorems about `HostConfig` |
| `BindAddressProofs` | what the loop over the interfaces computes, by induction |
| `MCServiceTokens`, `MCClusterSetup`, `MCAclBootstrap`, `MCArchive`, `MCLdapHandler`, `MCHostConfig` | small instances for TLC |

The modules stand at different levels. `ClusterSetup` takes the bootstrap of the ACL
system, the installation of a token, an archive, an LDAP operation and the writing of
the configuration for one step or one value each. The others look into these:
`AclBootstrap` into the first two, and implements `FirstTokens`, which has those very
steps; `Archive` into the third; `LdapHandler` into the fourth, and implements
`Directory`, whose operations are atomic and whose reads may lag, as `ClusterSetup`
uses them; `HostConfig` into the last, for one host. `ClusterSetup` and `HostConfig`
overlap in `main.json`, the unit, the daemon and the registration of a host, and both
implement `Units`, so that neither gives a host a behaviour there that the other's promise
rules out.

### ServiceTokens

| Model | Code |
|---|---|
| `live`, `secret`, `links` | the tokens in Consul, their SecretIDs and policies |
| `file`, `tmp` | the token file and the temporary file of `writeTokenFile` |
| `pc`, `got`, `hosts`, `todo` | the local variables of a running command |
| `access` | what `CONSUL_HTTP_TOKEN` may do: `acl:read`, `acl:write`, deleted meanwhile |
| `EnsureStart` ... `EnsureRename` | `EnsureServiceToken.Run`, cut at every request to Consul and at the rename |
| `PruneStart` ... `PruneDelete` | `PruneLegacyServiceTokens.Run`, cut at every request |
| `Crash`, `Revoke` | a kill; the caller's token deleted by somebody else |

A request takes effect in one step at the servers, and its answer may be lost:
each request action has a branch in which the store changes and the process sees
an error. Between two requests everybody else may run. `ensured` is a history
variable, the successful ensures so far.

The deterministic AccessorID is a UUIDv5 of service and node; the model takes it
as the pair. A description is abstracted to the service and the hosts it names,
which is what `isLegacyServiceToken` compares; the description of a deterministic
token, `carbonio/svc/node`, is cut at its first slash and names no host.

`ServiceIdentity` has three actions: a secret is issued for a service on a node
once, a token file is published, a legacy token is retired. `ServiceTokens`
implements it with `issued` the secrets of the live deterministic tokens and
`legacy` the live legacy ones.

### ClusterSetup

| Model | Code |
|---|---|
| `performSetup`, `importSetup`, `agentSetup` | the order of the steps in the three functions of these names (the agent's is `Setup.setup`) |
| `pc`, `mode`, `runs`, `mem` | the running setup of each host and what it holds in memory |
| `ca`, `cakey`, `cert`, `main`, `cred`, `token` | the files of a host |
| `spilled` | history: where the CA key of another server was not removed, by a crash or a write that failed |
| `unit`, `expect` | the service-discover unit, and `-bootstrap-expect` |
| `registered`, `published` | `zimbraServiceEnabled` in order of registration; `carbonioMeshCredentials` |
| `earlier` | former values of `carbonioMeshCredentials`, which a lagging replica may still have |
| `data`, `clusters`, `acl` | Consul: raft data of a server, the clusters founded, those with an ACL system |
| `RunServer`, `RunAgent` | `preRun`, `isFirstInstance`, and the choice between first and import |
| `GenerateKeys` ... `Enable` | one action per step, shared by the three setups where they share the code |
| `DaemonStart`, `startConsul` | `service-discoverd`: LDAP reading, refusals, `-bootstrap-expect` |
| `Talk`, `Elect`, `Join`, `Reaches` | Consul, as the code relies on it |
| `Fail`, `Crash`, `DaemonDies`, `Reset` | faults, and the manual reset |

Key material is named after the run that generated it, so that two keys are equal
exactly when they come from the same run. `Snapshots` is what a query of LDAP may
return: the registrations, or with `StaleReads` any prefix of them, since
`connect` asks the masters first but falls back to replicas. `Downloads` is the same
for the credentials: with `StaleReads` those that were there before may still be
downloaded, or none. `Elect` founds a
cluster of all servers that can talk to each other, when they are as many as
every one of them expects, agree on that number and none has raft data.

A setup that ends by an error keeps what it wrote, but for the private CA key
whose removal is deferred; a crash skips the deferred removal too. A server defers it only
after `os.WriteFile` of the key has succeeded (`importsetup.go:112-116`), so that a write
that fails, with a part or all of the key on the disk, ends the setup with the key left:
`WriteKeyFails`, a way to `Fail` of its own. An agent defers the removal before the write
(`setup.go:428`). The removal itself, of a file just written, is taken to work; a server
ignores its error and an agent reports it. An agent writes the key to a new temporary file
each time, and `cakey` is that of its last setup. `Reset` empties
the directories of the host and leaves LDAP alone, as the code offers no command
that would change it there.

`Cluster` has no setups, files or daemons: servers found clusters with the keys of one
founder, join them, an ACL system is bootstrapped, hosts get an agent token, credentials
are published, hosts leave. `ClusterSetup` implements it with `opens` the cluster whose
keys and token the credentials in LDAP hold; credentials that do not belong together would
map to no cluster at all.

`Units` has only the hosts: main.json is written where there is none, a server that has it
is entered in LDAP, the unit starts, Consul comes up where LDAP agrees with what the host
is, goes down, and a reset takes main.json away with the unit. `ClusterSetup` implements it
for all its hosts, `HostConfig` for its only one, mapping the many steps of its
daemon to "stopped", "starting" and "up"; a truncated `main.json` counts as one, as it does
for `preRun`.

### AclBootstrap

| Model | Code |
|---|---|
| `main`, `mem`, `token` | where `performSetup` is, the bootstrap token and the agent token it holds |
| `expired` | whether the timer it waits with has run out: `waitForConsulLeader`, the `select` of `createACLBootstrapToken`, the context of `CreateACLToken` |
| `worker`, `ticker`, `reply` | the goroutine, its ticker, and the last answer to `consul acl bootstrap` |
| `result` | the channel with room for one result |
| `leader`, `booted`, `policy`, `tokens`, `agent` | Consul |

An answer is a token, the error "No cluster leader", another exit status, or no exit
status at all (`notrun`). A request that is applied may be answered by an error. When
the setup fails its goroutine and the consul command it started live on; a crash of
the host ends them. `FirstTokens!Late` is what that leaves possible: an ACL system
bootstrapped after the setup has given up, with a token nobody has. In
`ClusterSetup` a failure may come with or without the effects of its step, and no
property there looks at the ACL system of a cluster whose setup failed.

### Archive

| Model | Code |
|---|---|
| `left`, `archive` | the map `createEncryptedSecret` ranges over, the entries of the tar stream |
| `damaged` | the stream breaks off before its trailer: both closing calls are deferred and their errors dropped |
| `wanted`, `files` | the arguments of `ReadFiles`, and their array as the loop changes it |
| `remaining` | `len(remainingFiles)`, a slice of the same array |
| `result`, `next` | the map that is returned, the position in the stream |

`Take` is the body of the inner loop at the index of the name: the content is kept, and
`Remove` overwrites `files[i]` with the last remaining name. An index not below
`len(remainingFiles)` panics. An archive may be read after a setup that failed to
fill it, since `bootstrap-token` reads the local file. OpenPGP makes a broken stream
an error; a wrong passphrase fails before any entry is read.

### LdapHandler

| Model | Code |
|---|---|
| `history` | the states of the directory: the servers with the service enabled, and the credentials |
| `shown`, `up` | how far each replica has got; which URLs can be reached |
| `op`, `pc`, `at` | the operation a client runs, its next step, the URL it tries or is connected to |
| `UrlsOf` | the list `connect` puts together: masters, and replicas behind them for reading |
| `Connect`, `Bind` | one turn of the loop of `connect`, and the bind behind the loop |
| `Search` | the search of `QueryAllServersWithService`, `DownloadBinary` and `modifyEnabledServices` |
| `Modify` | the modification of `UploadBinary` and `modifyEnabledServices` |
| `Appear`, `Vanish`, `Replicate` | the LDAP servers |

Each request is one step, which may be refused or have its answer lost; URLs come and go
between any two. `seen`, `began` and `steady` are history variables: the state a search was
answered with, the length of `history` at the call, the URLs that could be reached ever
since. About the servers the model assumes that masters agree on the current state, that
replicas follow them in order and cannot be written to.

`Directory` has three actions: an operation is called, it succeeds, it fails. Its change
and its answer are one step; one that fails may have been made. A read is answered with a
state the directory has had. `LdapHandler` implements it with everything between the call
and the decisive request a stutter.

### HostConfig

| Model | Code |
|---|---|
| `main`, `conf`, `readable` | content of `main.json` (which setup wrote it, whether it has the port `grpc_tls`) and of `config.json`; the files the user `service-discover` can read |
| `setup` | a setup of this host, `firstSetup`, `importSetup` or the agent's, from its checks to the start of the unit |
| `setter` | runs of `config set bind-address` |
| `daemon` | `service-discoverd`, and Consul once it has become that |
| `Scan`, `ValidBindAddresses` | `NonLoopbackInterfaces`, `CheckValidBindingAddress` |
| `Begin` ... `UnitStarted` | `preRun` and the steps of a setup that concern these files, the registration and the unit |
| `SetRead`, `SetTruncate`, `SetFill` | `SetConfig.Run`; `GetConfig` is what `config get` shows |
| `Query`, `ReadMain`, `RewriteTruncate`, `RewriteFill`, `Exec` | `runServiceDiscoverDaemon`, `addGrpcTLS`, `startConsul` |
| `Reset`, `Die`, `Crash` | the manual reset, the end of Consul, the host going down |

`os.WriteFile` is two steps, a truncation and a write; what a writer that was stopped
between them leaves is empty, and a short write over a longer content leaves two ends of
two contents (`Torn`). `Die` is followed by a new start only where Consul ended by an error
(`Restart=on-failure`). Interfaces stand for their addresses, and an address may be that of
no interface. `Scan` is the loop over the
slice it shortens, with the panic of an index beyond its end. `registered` may be left
over from a setup before a reset (`leftover`), as the code has no command to remove it.

What is taken for granted: one setup at a time on a host; the unit, not the script for
containers, which restarts nothing; a user who owns a file can open it. Whether Consul
takes an empty `config.json` for an error is left open.

## 3. The runs

| Run | Instance | Checks |
|---|---|---|
| `tokens_race` | two ensures and a prune of one service on one node | `TypeOK`, `EnsuredFileIsLive`, `PrunedAreReplaced`, `LossNeedsUnfinishedEnsure`, `ImplementsIdentity` |
| `tokens_nodes` | an ensure and a prune on one node, an ensure on another, with fairness | `SecretsNotShared`, `PolicyLinked`, `RunsEnd` |
| `tokens_legacy` | an ensure and a prune | `LegacyUserKeepsToken` (violated) |
| `setup_race` | two servers, forced first instances, stale LDAP, two tries | `TypeOK`, `OneFoundingHost`, `PublishedIsUsable`, `ImplementsCluster` |
| `setup_retry` | two servers with two tries, one in a container, and an agent, LDAP masters answering | `DoneIsInCluster`, `KeyStaysWithFounder`, `PublishedIsPermanent`, `ImplementsUnits` |
| `setup_good` | two servers and an agent, no faults, with fairness | `SetupCompletes` |
| `setup_reset` | one server, two tries | `ResetAllowsRetry` (violated) |
| `acl_bootstrap` | one setup, at most two agent tokens, with fairness | `TokenInSight`, `NobodyElseAsks`, `AgentTokenExists`, `SetupEnds`, `ImplementsFirstTokens` |
| `acl_errors` | the same | `OtherErrorsAreFatal` (violated) |
| `archive_read` | an archive of four files, up to four of five names asked for | `TypeOK`, `FoundIsExact`, `MissingIsExact`, `NeverPanics`, `PackedIsNotMissing` |
| `ldap_handler` | a master, a replica, two clients with two calls and one, with fairness | `TypeOK`, `ReadsAreCurrent`, `SuccessTookEffect`, `AnyUrlSuffices`, `OperationsEnd`, `ImplementsDirectory` |
| `host_config` | two setups, two runs of `config set`, one crash, five orders of interfaces, with fairness | `TypeOK`, `BindIsLan`, `MainIsLastSetup`, `GetIsLastSet`, `BindsChosen`, `ComesUp`, `ImplementsUnits` |

Bounds. `MaxRuns` limits how often a command or setup is started; two is what a
retry after any outcome needs. An agent is set up once in `setup_retry`, since what its
setup leaves behind concerns itself only. Two ensures show every race for one token, since a
third finds what a second finds: the token exists or not. Five secrets are one per
token that can exist in the instance. Two servers suffice for a race of first
instances. With three a majority is less than all of them, the case in which
`-bootstrap-expect` could let a part of them found a cluster: no run is that large,
the theorem `OneHostFounds` covers it. Two agent tokens
are one that was lost and one that was answered. Four files are what a first setup
packs and the most that any caller asks for; a fifth name is one that is missing.
One master and one replica are the two kinds of URL, and a client that calls twice sees
the effect of its first call; one more URL of a kind changes only how often the loop turns,
which the theorems cover. Two runs of `config set` overlap each other and a setup; two
setups are one before and one after a reset; the orders of interfaces have the loopback
first, in the middle, last, and twice, and one address is that of no interface. A second crash finds what the first one found, an
interrupted file or none. The theorems have no bounds but `MaxRuns`, `MaxTokens`,
`MaxWanted`, `MaxCalls`, `MaxSetups` and `MaxCrashes`, any numbers.

Deadlock is checked for `Archive` only: the commands and setups of the other models end,
and a bounded number of them is started.

Where the runs find something:

* **tokens_legacy**. `service_token.go:175-176` says a service using a legacy token
  "never loses it". An ensure creates the deterministic token and then writes the
  file; if it fails in between, a later prune sees the token, deletes the legacy
  one, and the file names a deleted token until ensure runs again. What remains true
  is `LossNeedsUnfinishedEnsure`: this gap is the only way to lose a token, as long as no
  prune is told a name that another service of its node goes by.
* **setup_reset**. `common.go:251` asks for a manual reset and another try. After a
  failure past the registration in LDAP the server still counts as existing there:
  the new try is an import with nothing to import. Only `--first-instance` or a
  manual change of LDAP helps.
* **acl_errors**. `firstsetup.go:333-334` says any error but "No cluster leader" is
  fatal. One that is no `*exec.ExitError` - the command could not be run at all - is
  not looked at, and the setup polls until the timeout reports something else.

More facts are visible in the models without being contradicted by the repository:

* two servers that are both registered before either daemon starts expect two servers
  each and never elect (the exception in `SetupCompletes`);
* with several policies the read-modify-write of `ensure` can lose one (`OnePolicy` in
  `PolicyLinked`);
* with a lagging replica a reset first server can take itself for the first again and
  replace the credentials, and an import may get the ones before
  (`PublishedIsPermanent` and `DoneIsInCluster` are checked with `StaleReads = FALSE`
  and no `ForceFirst`);
* a server whose write of the CA key fails keeps what was written of it, until a later
  import or a reset removes it, as the removal is deferred after the write
  (the exception in `KeyStaysWithFounder`);
* an operation whose bind fails does not try the next URL, and a second writer makes
  `AddService` fail although the server is there (`Bind` and `Refused` in `LdapHandler`);
* two overlapping `config set`, or one and a setup, can lose an address or leave a file
  that no longer parses, which `config set` cannot repair (the exceptions in
  `GetIsLastSet`);
* the daemon of an agent, or of a server with an entry in LDAP left over from before a
  reset, may start between `main.json` and `config.json` and run on an address it chose by
  itself; `StartUnit` then finds it running and does not restart it. `BindsChosen` says that
  this is the only window, besides a writer of `config.json` at work or stopped.

## 4. Fairness

`ServiceTokens!Fairness`: the steps of a command that runs are weakly fair. The
commands are straight-line code with HTTP requests that return or time out, and the
operating system runs them. Nothing is assumed about starting a command, kills, or
that a request succeeds.

`ClusterSetup!GoodSpec`: weak fairness of the steps of a setup, of the start of the
daemon (systemd starts it, and restarts it every 15 s: `build/server/service-discover.service`)
and of Consul's elections and joins. It has no faults, as each of them may end a
setup; what remains are the interleavings.

`AclBootstrap!FairSpec`: weak fairness of `performSetup` and of the passing of time. The
goroutine is not fair, as the consul command it runs may hang; performSetup does not
wait for it but with a timeout. Consul commands that performSetup runs itself are
taken to return: the code gives them no timeout, and `SetupEnds` would not hold if
one hung.

`LdapHandler!FairSpec`: weak fairness of the steps of an operation. A dial has a timeout;
a server that was reached is taken to answer or to break the connection, as the code sets
no other timeout. URLs may come and go for ever, and none need be there.

`HostConfig!FairSpec`: weak fairness of the daemon, which systemd starts again 15 s after
it failed, and whose query of LDAP is answered in the end. Nothing is assumed to go on but
that: a setup or a `config set` may stop anywhere, and `ComesUp` is about a host whose files
stay whole.

## 5. What is proved

`ServiceTokensProofs`, for any constants that satisfy the assumptions of
`ServiceTokens`:

* `Invariance`: `IInv` is an invariant. The safety properties are not inductive by
  themselves: that a file holds a live secret follows from what the process that
  writes it holds in memory (`HeldIsCurrent`), which stays true only because nobody
  deletes deterministic tokens (`ListIsOwnLegacy`), and files of different services
  differ because secrets do (`SecretsAreUnique`, `FileIsOwn`).
* `TypeCorrect`, `EnsuredFileStaysLive`, `PrunedStayReplaced`, `SecretsStayApart`,
  `IdentityStaysPermanent` follow from it. The last is what the one secret per service and
  node of `ServiceIdentity` means, and the runs check it there.
* `PolicyStaysLinked` needs one more part, `PolicyHeld`: the policies a process has read
  are still those of the token when it writes them back, if nobody asks for another.
* `LossStaysConfined` needs the history of the files (`FileHistory`): a legacy secret in
  a file is one the old scripts put there for that service and node; a deterministic token
  that was not there at the start comes from an ensure that was started; an ensure that is
  done has written its file. With `PrunedAreReplaced` and host names that no two nodes
  share, whoever deleted the token was a prune of the very service of the file.
* `Implementation`: `ServiceTokens` implements `ServiceIdentity`.

Assumptions: UUIDv5 of different pairs differ (AccessorIDs are pairs), Consul's
SecretIDs are fresh, no two nodes share a host name, and each legacy token names
hosts of one node.

`ClusterSetupProofs`, for any sets of servers and agents, with stale readings,
`--first-instance` on any server, and all faults:

* `Founding`: `FoundingInv` is an invariant.
* `OneHostFounds`: all clusters ever founded have gossip keys of one server.

The argument: a server that runs expects one server only if its reading of LDAP held
itself alone; readings are prefixes of the registrations, so it is the first one
registered (`ExpectIsSound`). Any other server needs a second one to found a cluster,
with the same gossip key; one of the two did not generate that key but imported it
(`OwnOrFirst`), and what can be imported is the first server's (`SharedIsFirst`),
because only who reached a cluster uploads. So every cluster has the key of the first
registered server (`DataIsFirst`).

`ClusterCredentialsProofs`, in the same generality:

* `Credentials`: `UsableInv` is an invariant. From the certificate on, the files of a host
  agree with what its setup holds in memory (`FilesAgree`); a first setup that holds a
  bootstrap token holds that of a cluster with its own gossip key (`HoldsItsCluster`); so
  what it archives is usable, and so is every copy of it, in LDAP, on a lagging replica or on
  a host (`CredsAreUsable`). `PublishedStaysUsable` is a part of it.
* `KeysStayHome`: a CA key of another server is on a host only while its setup runs
  (`KeyIsOwnOrInUse`), or where a crash left it, or on a server whose write of it failed
  (`WriteKeyFails`); an import that is done has none, whatever earlier tries left.
* `WholeImplementation`: `ClusterSetup` implements `Cluster`, by `FoundingInv` for who
  founds and `UsableInv` for what is published.
* `SuccessIsMembership` and `PublishedStaysPermanent`, assuming `ForceFirst = {}` and
  `StaleReads = FALSE`: only the first registered server gets as far as an upload, by
  `FoundingInv`, and does so before anything is published, as it would not be a first
  instance otherwise (`OneUpload`). What a setup has downloaded is therefore still what is
  published when it ends (`HeldIsPublished`), which makes `MemberInv` inductive.
* `UnitsImplementation`, again in full generality: `ClusterSetup` implements `Units`. It
  needs `UnitInv` beside `FoundingInv`: agents never register (`RolesKept`), and a setup that
  has keys has a gossip key, so that what it writes is a `main.json` (`KeysKnown`). A lagging
  replica does no harm: a server that it shows is in LDAP, and agents are in no state of it. `RunsAsListed` is what a running host may be relied on for.

`AclBootstrapProofs`, for any number of agent tokens: `AclInv` says where the bootstrap
token is at each moment - with Consul, in the goroutine's answer, in the channel or
with performSetup - and that a result in the channel means that the goroutine has
returned. `TokenStaysInSight`, `GoroutineIsGone` and `AgentTokenStaysValid` are the
parts a reader wants to know of, and `Implementation` shows that the polls, timeouts
and retries are the steps of `FirstTokens` and stutters. Its type
invariant is proved (`TypeCorrect`) and not checked by the run again.

`ArchiveProofs`, for any files packed and asked for: the loop invariant has four parts.
The names before `remaining` are distinct and are the wanted ones without a result
(`Split`); the results are the wanted ones of the entries seen (`Seen`); their number
and `remaining` add up to the number of files (`Counted`); and every name is archived
once (`PackedOnce`). A name met in the array is then always a remaining one
(`IndexRemains`), so the removal stays in range (`PanicIsImpossible`), and
`FoundStaysExact`, `MissingStaysExact` and `PackedStaysFound` follow at the end. The
assumptions are that the callers name each file once, as all three do, and that the
archive comes from `createEncryptedSecret`.

`LdapHandlerProofs`, for any lists of URLs, clients, servers and contents, with an operation
called any number of times: `LdapInv` says that the URLs an operation has passed over were
all away at some moment since its call (`PassedOver`). So a read from a replica means that no
master was there all the time (`ReadsStayCurrent`), giving up means that none was
(`AnyUrlIsEnough`), and what `modifyEnabledServices` looks at is a master, for which a change
that is not needed is one that has been made (`SuccessIsReal`). `Implementation` shows that
the handler implements `Directory`.

`HostConfigProofs`, for any interfaces, addresses, runs of `config set`, setups and crashes:
`HostInv` says what each writer is about to write. A setup finds no `main.json`, so the
daemon, which needs one, is not in the middle of rewriting it (`MainInv`, for
`MainIsNeverPutBack`); without an overlap one writer has `config.json` empty before it
(`FillInv`, for `GetShowsTheLastSet`); and a server that is registered, and not by a leftover
entry, has its `config.json` (`BindInv`), while for agents and leftover entries a
`main.json` without an address in `config.json` means that the setup is between the two or
failed there (`WindowInv`, both for `HostsBindAsChosen`). `KeepsUnits` shows that `HostConfig`
implements `Units`; it needs `ListedInv`, that only servers register, so that what the daemon of
an agent has read of LDAP is still so when it starts Consul. For a server that is a part of
`BindInv`: what it was once shown to be in LDAP it stays.

`BindAddressProofs`, for any list of interfaces: `Scan` is a recursive function of the
position in the list, and the theorems are inductions over it. The induction principles of the
library take an operator, which no prover here instantiates; but a set of numbers without a
least element is empty (`Least`, from the well-foundedness of `<`), so the set of positions up
to which a fact holds, which contains 0 and with each its successor, is all of them
(`Induction`). `ScanStates` uses it once to show that the recursive function exists. The
invariant of the loop, `Sound`, says that no loopback interface is left among the positions it
has passed, or that one stands beyond the shortened end ahead of it, where it will panic: a list
that is returned has none, and nothing that was not listed (`ValidIsClean`), so that a setup
binds to an address of the host that is no loopback's (`BindStaysLan`). With one loopback interface the loop is exact
(`Precise`, `ValidIsExact`); with two it may panic, so nothing stronger holds.

## 6. What is only model-checked

Liveness (`RunsEnd`, `SetupCompletes`, `SetupEnds`, `OperationsEnd`, `ComesUp`) is out of the
prover's reach. The three violated properties are counterexamples found by TLC. Every other property of the runs is proved.

## 7. Not modelled, and the plan

Left out for good: prompts, formatting, flag parsing, `localconfig`, `bootstrap-token` (it
searches an archive, as in `Archive`, and prints), the check that a host name does not
resolve to a loopback address (it only adds an error, and `Fail` covers those), the D-Bus
library, and the inside of Consul, LDAP servers and OpenPGP. One setup at a time runs on a
host: two at once pass `preRun` together and write the same files. A reply of `consul tls ca
create` that refuses to overwrite an existing CA is one of the errors of `Fail`. A crash in
the middle of writing a file is modelled for the two configuration files only, and a write
that fails half way for the CA key only.

Next, in this order:

1. `HostConfig` in a container, where a script starts the daemon once.
2. A composition of `HostConfig` and `ClusterSetup`, beyond the promise they share in
   `Units`, so that the start of Consul on a half-written configuration meets the election.
3. Two setups at once on one host.
