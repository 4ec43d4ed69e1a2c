-------------------------- MODULE AclBootstrapProofs --------------------------
(* The first server's tokens: the race of the timeout and the goroutine     *)
(* neither loses the bootstrap token unnoticed nor lets it be used twice.   *)
EXTENDS AclBootstrap, TLAPS

(* The inductive invariant holds at first, ...                              *)
LEMMA InvInit == Init => AclInv
<1>1. Init => expired \in BOOLEAN
  BY DEF Init
<1>2. Init => TypeOK
  BY <1>1, MaxTokensAssumption DEF Init, TypeOK
<1> QED
  BY <1>2 DEF Init, AclInv, TokenInSight, NobodyElseAsks

(* ... and every step preserves it.                                         *)
LEMMA InvStep == AclInv /\ [Next]_vars => AclInv'
<1> SUFFICES ASSUME AclInv, [Next]_vars PROVE AclInv'
  OBVIOUS
<1> USE MaxTokensAssumption DEF AclInv, TypeOK, TokenInSight, NobodyElseAsks, Ended, setup, goroutine, consul
<1>1. CASE WaitForConsulLeader
  BY <1>1 DEF WaitForConsulLeader
<1>2. CASE TakeResult
  BY <1>2 DEF TakeResult
<1>3. CASE TimeOut
  BY <1>3 DEF TimeOut
<1>4. CASE CreatePolicy
  BY <1>4 DEF CreatePolicy
<1>5. CASE CreateToken
  BY <1>5 DEF CreateToken
<1>6. CASE Retry
  BY <1>6 DEF Retry
<1>7. CASE SetACLToken
  BY <1>7 DEF SetACLToken
<1>8. CASE SetAnswer
  BY <1>8 DEF SetAnswer
<1>9. CASE Tick
  BY <1>9 DEF Tick
<1>10. CASE RunAclBootstrap
  BY <1>10 DEF RunAclBootstrap
<1>11. CASE Answered
  BY <1>11 DEF Answered
<1>12. CASE Expire
  BY <1>12 DEF Expire
<1>13. CASE LeaderChanges
  BY <1>13 DEF LeaderChanges
<1>14. CASE Crash
  BY <1>14 DEF Crash
<1>15. CASE UNCHANGED vars
  BY <1>15 DEF vars
<1> QED
  BY <1>1, <1>2, <1>3, <1>4, <1>5, <1>6, <1>7, <1>8, <1>9, <1>10, <1>11, <1>12,
     <1>13, <1>14, <1>15
  DEF Next, Main, Goroutine

(* The invariant the properties follow from: who holds the bootstrap token, *)
(* in performSetup, in the channel or in the goroutine.                     *)
THEOREM Invariance == Spec => []AclInv
BY InvInit, InvStep, PTL DEF Spec

(* The setup, its goroutine and the channel between them stay well typed.   *)
THEOREM TypeCorrect == Spec => []TypeOK
<1>1. AclInv => TypeOK
  BY DEF AclInv
<1> QED BY <1>1, Invariance, PTL

(* The bootstrap token is never lost unnoticed while the setup waits.       *)
THEOREM TokenStaysInSight == Spec => []TokenInSight
<1>1. AclInv => TokenInSight
  BY DEF AclInv
<1> QED BY <1>1, Invariance, PTL

(* Once the setup goes on with the bootstrap token, the goroutine has ended.*)
THEOREM GoroutineIsGone == Spec => []NobodyElseAsks
<1>1. AclInv => NobodyElseAsks
  BY DEF AclInv
<1> QED BY <1>1, Invariance, PTL

(* A setup that goes on has installed a token that exists, whatever answers *)
(* were lost before.                                                        *)
THEOREM AgentTokenStaysValid == Spec => []AgentTokenExists
<1>1. AclInv => AgentTokenExists
  BY DEF AclInv, AgentTokenExists
<1> QED BY <1>1, Invariance, PTL

-----------------------------------------------------------------------------
Step ==
  IF \/ main = "bootstrap" /\ booted = "here"
     \/ main \in {"policy", "token", "retry", "set"} THEN "token"
  ELSE IF main \in {"answer", "done"} THEN "archive"
  ELSE IF main = "crashed" THEN "failed"
  ELSE main

(* An initial state shows one of FirstTokens.                               *)
LEMMA TokensInit == Init => Tokens!Init
BY DEF Init, Tokens!Init

(* Each step is one of FirstTokens, or invisible.                           *)
LEMMA TokensStep == AclInv /\ AclInv' /\ [Next]_vars => [Tokens!Next]_(Tokens!vars)
<1> SUFFICES ASSUME AclInv, AclInv', [Next]_vars PROVE [Tokens!Next]_(Tokens!vars)
  OBVIOUS
<1> DEFINE A == booted # "no"
           I == agent # 0
<1>t. TypeOK /\ TypeOK' /\ (main = "bootstrap" \/ main = "leader" => agent = 0)
  BY DEF AclInv
<1>1. \/ Step = "leader" /\ Step' = "bootstrap" /\ UNCHANGED <<A, I>>
      \/ Step = "bootstrap" /\ ~A /\ Step' = "token" /\ A' = TRUE /\ UNCHANGED I
      \/ Step = "token" /\ Step' = "archive" /\ I' = TRUE /\ UNCHANGED A
      \/ Step # "failed" /\ Step' = "failed" /\ UNCHANGED <<A, I>>
      \/ Step = "failed" /\ A' = TRUE /\ UNCHANGED <<Step, I>>
      \/ UNCHANGED <<Step, A, I>>
  <2> USE <1>t DEF Step, TypeOK, Ended, setup, goroutine, consul
  <2>1. CASE WaitForConsulLeader
    BY <2>1 DEF WaitForConsulLeader, AclInv
  <2>2. CASE TakeResult
    BY <2>2 DEF TakeResult, AclInv
  <2>3. CASE TimeOut
    BY <2>3 DEF TimeOut
  <2>4. CASE CreatePolicy \/ CreateToken \/ Retry
    BY <2>4 DEF CreatePolicy, CreateToken, Retry
  <2>5. CASE SetACLToken
    BY <2>5 DEF SetACLToken, AclInv
  <2>6. CASE SetAnswer
    BY <2>6 DEF SetAnswer
  <2>7. CASE RunAclBootstrap
    <3>1. main \in {"bootstrap", "failed", "crashed"}
      BY <2>7 DEF RunAclBootstrap, AclInv, NobodyElseAsks
    <3> QED BY <2>7, <3>1 DEF RunAclBootstrap
  <2>8. CASE Tick \/ Answered \/ Expire \/ LeaderChanges
    BY <2>8 DEF Tick, Answered, Expire, LeaderChanges
  <2>9. CASE Crash
    BY <2>9 DEF Crash
  <2>10. CASE UNCHANGED vars
    BY <2>10 DEF vars
  <2> QED
    BY <2>1, <2>2, <2>3, <2>4, <2>5, <2>6, <2>7, <2>8, <2>9, <2>10
    DEF Next, Main, Goroutine
<1> QED
  BY <1>1 DEF Step, Tokens!Next, Tokens!vars, Tokens!WaitForConsulLeader,
     Tokens!CreateACLBootstrapToken, Tokens!InstallToken, Tokens!Fail, Tokens!Late

(* To the rest of the setup, the polls, timeouts, lost answers and retries  *)
(* look like the single steps that ClusterSetup makes of them.              *)
THEOREM Implementation == Spec => ImplementsFirstTokens
<1>1. Spec => Tokens!Init
  BY TokensInit DEF Spec
<1> QED
  BY <1>1, TokensStep, Invariance, PTL DEF Spec, ImplementsFirstTokens, Tokens!Spec
=============================================================================
