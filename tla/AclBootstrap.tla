---------------------------- MODULE AclBootstrap ----------------------------
(* How the first server gets its tokens (performSetup,                      *)
(* cmd/server/command/setup/firstsetup.go:132-165): it waits for a leader,  *)
(* has a goroutine ask Consul for the bootstrap token until it gets one or  *)
(* a timeout fires, and creates and installs an agent token.                *)
(*                                                                          *)
(* Consul shows the bootstrap token once.  The timeout, the goroutine, the  *)
(* consul command it runs and the election of a leader race each other.     *)
EXTENDS Naturals

CONSTANT MaxTokens  \* bound: how many agent tokens are created

ASSUME MaxTokensAssumption == MaxTokens \in Nat

VARIABLES
  main,    \* where performSetup is
  expired, \* whether the deadline of what it waits for has passed
  mem,     \* the bootstrap token it holds
  token,   \* the agent token CreateACLToken got
  worker,  \* where the goroutine is
  ticker,  \* whether the ticker of the goroutine runs
  reply,   \* what its consul acl bootstrap returned last
  result,  \* the channel to performSetup, with room for one result
  leader,  \* Consul: whether a leader is elected
  booted,  \* the ACL system: no, bootstrapped here, or by an earlier setup
  policy,  \* whether the policy of the node exists
  tokens,  \* how many tokens with that policy were created
  agent    \* the token the agent uses

setup     == <<main, expired, mem, token>>
goroutine == <<worker, ticker, reply, result>>
consul    == <<leader, booted, policy, tokens, agent>>
vars == <<main, expired, mem, token, worker, ticker, reply, result,
          leader, booted, policy, tokens, agent>>

Ended == {"done", "failed", "crashed"}

Init ==
  /\ main = "leader"
  /\ expired = FALSE
  /\ mem = "none"
  /\ token = 0
  /\ worker = "none"
  /\ ticker = "stopped"
  /\ reply = "none"
  /\ result = "none"
  /\ leader \in BOOLEAN
  /\ booted \in {"no", "earlier"}
  /\ policy \in BOOLEAN
  /\ tokens = 0
  /\ agent = 0

-----------------------------------------------------------------------------
(* waitForConsulLeader: asks every 250 ms until there is a leader, or an    *)
(* answer other than that finds the deadline over.                          *)
WaitForConsulLeader ==
  /\ main = "leader"
  /\ \/ /\ leader
        /\ main' = "bootstrap"
        /\ worker' = "tick" /\ ticker' = "running"
        /\ expired' = FALSE
     \/ /\ expired
        /\ main' = "failed"
        /\ UNCHANGED <<worker, ticker, expired>>
  /\ UNCHANGED <<mem, token, reply, result, consul>>

(* The goroutine of createACLBootstrapToken.                                *)
Tick ==
  /\ worker = "tick" /\ ticker = "running"
  /\ worker' = "ask"
  /\ UNCHANGED <<setup, ticker, reply, result, consul>>

(* consul acl bootstrap: refused without a leader or when done before; done *)
(* once, where the answer may get lost; or not run at all.                  *)
RunAclBootstrap ==
  /\ worker = "ask"
  /\ worker' = "answered"
  /\ \/ ~leader /\ reply' = "noleader" /\ UNCHANGED booted
     \/ leader /\ booted = "no" /\ booted' = "here" /\ reply' \in {"token", "error"}
     \/ reply' \in {"error", "notrun"} /\ UNCHANGED booted
  /\ UNCHANGED <<setup, ticker, result, leader, policy, tokens, agent>>

(* Mutations of Answered: it polls again after any error; it polls on after *)
(* sending its result.                                                      *)
AnsweredPersistently ==
  /\ worker = "answered"
  /\ IF reply = "token"
     THEN worker' = "gone" /\ result' = reply
     ELSE worker' = "tick" /\ UNCHANGED result
  /\ UNCHANGED <<setup, ticker, reply, consul>>

AnsweredWithoutReturn ==
  /\ worker = "answered"
  /\ worker' = "tick"
  /\ IF reply \in {"noleader", "notrun"} THEN UNCHANGED result ELSE result' = reply
  /\ UNCHANGED <<setup, ticker, reply, consul>>

(* An exit status other than for "No cluster leader" is fatal; an error     *)
(* that is no exit status is not looked at.                                 *)
Answered ==
  /\ worker = "answered"
  /\ IF reply \in {"noleader", "notrun"}
     THEN worker' = "tick" /\ UNCHANGED result
     ELSE worker' = "gone" /\ result' = reply
  /\ UNCHANGED <<setup, ticker, reply, consul>>

(* Mutation of TakeResult: the error is not looked at.                      *)
TakeResultUnchecked ==
  /\ main = "bootstrap" /\ result # "none"
  /\ ticker' = "stopped"
  /\ main' = "policy" /\ mem' = result /\ expired' = FALSE
  /\ UNCHANGED <<token, worker, reply, result, consul>>

(* The select of createACLBootstrapToken: a result, which may not be an     *)
(* error and yet not be decoded, or the timeout.                            *)
TakeResult ==
  /\ main = "bootstrap" /\ result # "none"
  /\ ticker' = "stopped"
  /\ \/ result = "token" /\ main' = "policy" /\ mem' = result /\ expired' = FALSE
     \/ main' = "failed" /\ UNCHANGED <<mem, expired>>
  /\ UNCHANGED <<token, worker, reply, result, consul>>

TimeOut ==
  /\ main = "bootstrap" /\ expired
  /\ ticker' = "stopped"
  /\ main' = "failed"
  /\ UNCHANGED <<expired, mem, token, worker, reply, result, consul>>

-----------------------------------------------------------------------------
(* CreateACLToken: the error of the policy is ignored, since it may exist.  *)
CreatePolicy ==
  /\ main = "policy"
  /\ policy' \in IF leader THEN {policy, TRUE} ELSE {policy}
  /\ main' = "token"
  /\ UNCHANGED <<expired, mem, token, goroutine, leader, booted, tokens, agent>>

(* Mutation of CreateToken: an error goes for an answer.                    *)
CreateTokenUnchecked ==
  /\ main = "token"
  /\ \/ /\ leader /\ policy /\ tokens < MaxTokens
        /\ tokens' = tokens + 1
        /\ main' = "set" /\ token' \in {token, tokens + 1}
     \/ main' = "set" /\ UNCHANGED <<tokens, token>>
  /\ UNCHANGED <<expired, mem, goroutine, leader, booted, policy, agent>>

(* An error is tried again; an answer that cannot be decoded ends the setup.*)
CreateToken ==
  /\ main = "token"
  /\ \/ /\ leader /\ policy /\ tokens < MaxTokens
        /\ tokens' = tokens + 1
        /\ \/ main' = "set" /\ token' = tokens + 1
           \/ main' \in {"retry", "failed"} /\ UNCHANGED token
     \/ main' = "retry" /\ UNCHANGED <<tokens, token>>
  /\ UNCHANGED <<expired, mem, goroutine, leader, booted, policy, agent>>

(* Mutation of Retry: the context is not looked at.                         *)
RetryForever ==
  /\ main = "retry"
  /\ main' = "policy"
  /\ UNCHANGED <<expired, mem, token, goroutine, consul>>

Retry ==
  /\ main = "retry"
  /\ main' = IF expired THEN "failed" ELSE "policy"
  /\ UNCHANGED <<expired, mem, token, goroutine, consul>>

(* SetACLToken, and its answer.                                             *)
SetACLToken ==
  /\ main = "set"
  /\ \/ agent' = token /\ main' = "answer"
     \/ main' = "failed" /\ UNCHANGED agent
  /\ UNCHANGED <<expired, mem, token, goroutine, leader, booted, policy, tokens>>

SetAnswer ==
  /\ main = "answer"
  /\ main' \in {"done", "failed"}
  /\ UNCHANGED <<expired, mem, token, goroutine, consul>>

-----------------------------------------------------------------------------
Expire ==
  /\ main \notin Ended /\ ~expired
  /\ expired' = TRUE
  /\ UNCHANGED <<main, mem, token, goroutine, consul>>

LeaderChanges ==
  /\ leader' = ~leader
  /\ UNCHANGED <<setup, goroutine, booted, policy, tokens, agent>>

(* The host goes down.  When the setup merely ends, a consul command that   *)
(* its goroutine has started runs on.                                       *)
Crash ==
  /\ main \notin Ended
  /\ main' = "crashed"
  /\ worker' = "gone" /\ ticker' = "stopped"
  /\ UNCHANGED <<expired, mem, token, reply, result, consul>>

Main ==
  \/ WaitForConsulLeader \/ TakeResult \/ TimeOut
  \/ CreatePolicy \/ CreateToken \/ Retry \/ SetACLToken \/ SetAnswer

Goroutine == Tick \/ RunAclBootstrap \/ Answered

Next == Main \/ Goroutine \/ Expire \/ LeaderChanges \/ Crash

Spec == Init /\ [][Next]_vars

(* Time passes, and performSetup is run and gets its answers from the       *)
(* consul commands it waits for; the goroutine and its command may hang.    *)
FairSpec == Spec /\ WF_vars(Main) /\ WF_vars(Expire)

-----------------------------------------------------------------------------
(* Properties.                                                              *)

TypeOK ==
  /\ main \in {"leader", "bootstrap", "policy", "token", "retry", "set", "answer"} \cup Ended
  /\ expired \in BOOLEAN
  /\ mem \in {"none", "token"}
  /\ token \in 0..MaxTokens
  /\ worker \in {"none", "tick", "ask", "answered", "gone"}
  /\ ticker \in {"running", "stopped"}
  /\ reply \in {"none", "noleader", "token", "error", "notrun"}
  /\ result \in {"none", "token", "error"}
  /\ leader \in BOOLEAN
  /\ booted \in {"no", "here", "earlier"}
  /\ policy \in BOOLEAN
  /\ tokens \in 0..MaxTokens
  /\ agent \in 0..MaxTokens

(* While the setup waits, the bootstrap token is never lost unnoticed: once *)
(* Consul has shown it, it is on its way to performSetup, or an error is,   *)
(* and the goroutine does not ask a second time and wait for a leader that  *)
(* was there.                                                               *)
TokenInSight ==
  main = "bootstrap" /\ booted = "here" =>
    \/ worker = "answered" /\ reply \in {"token", "error"}
    \/ worker = "gone" /\ result \in {"token", "error"}

(* "the goroutine at this point should already be exited"                   *)
(* (firstsetup.go:354): whoever goes on with a bootstrap token has the one  *)
(* Consul showed, and nothing asks Consul for another one beside it.        *)
NobodyElseAsks ==
  main \notin {"leader", "bootstrap", "failed", "crashed"} =>
    mem = "token" /\ booted = "here" /\ worker = "gone"

(* A setup that goes on uses an agent token that exists and carries the     *)
(* policy of the node, however many tries were made, and however many of    *)
(* their answers were lost.                                                 *)
AgentTokenExists == main = "done" => agent \in 1..tokens /\ policy

(* "Consul keeps answering "No cluster leader" until the Raft leader        *)
(* election completes: keep polling in that case, any other error is fatal" *)
(* (firstsetup.go:333-334).                                                 *)
OtherErrorsAreFatal == worker = "tick" => reply \in {"none", "noleader"}

(* The setup comes to an end, with or without a leader, and even if the     *)
(* consul command that its goroutine runs never returns.                    *)
SetupEnds == <>(main \in Ended)

-----------------------------------------------------------------------------
(* The polls, the timeouts and the retries implement the steps that         *)
(* ClusterSetup makes of them.                                              *)
Tokens == INSTANCE FirstTokens WITH
  step <- IF \/ main = "bootstrap" /\ booted = "here"
             \/ main \in {"policy", "token", "retry", "set"} THEN "token"
          ELSE IF main \in {"answer", "done"} THEN "archive"
          ELSE IF main = "crashed" THEN "failed"
          ELSE main,
  acl <- booted # "no",
  installed <- agent # 0

ImplementsFirstTokens == Tokens!Spec

(* The inductive invariant.                                                 *)
AclInv ==
  /\ TypeOK
  /\ main = "leader" => worker = "none" /\ booted # "here" /\ result = "none" /\ reply = "none"
  /\ main = "leader" \/ main = "bootstrap" => token = 0 /\ agent = 0
  /\ result = "token" => booted = "here"
  /\ worker = "answered" /\ reply = "token" => booted = "here"
  /\ result # "none" => worker = "gone"
  /\ TokenInSight
  /\ NobodyElseAsks
  /\ main \in {"set", "answer", "done"} => token \in 1..tokens /\ policy
  /\ main \in {"policy", "token", "retry", "set"} => agent = 0
  /\ main \in {"answer", "done"} => agent = token
=============================================================================
