------------------------ MODULE ServiceTokensProofs ------------------------
(* Proofs about ServiceTokens, for any services, nodes, processes and       *)
(* tokens.                                                                  *)
EXTENDS ServiceTokens, TLAPS

(* The deterministic token a process works on is the one of its home.       *)
LEMMA HomeIsKey ==
  \A p \in Procs : Home(p) \in Keys /\ Current(p) = Home(p)
BY ProcsAssumption DEF Home, Keys, Current, AccessorID

(* No deterministic token is taken for a legacy one.                        *)
LEMMA OnlyLegacyMatch ==
  ASSUME NEW id \in IDs, NEW names, NEW hostnames,
         isLegacyServiceToken(id, names, hostnames)
  PROVE  id \in Legacy
BY DEF isLegacyServiceToken, Description

(* A description that names one host of a node names only hosts of it.      *)
LEMMA MatchNamesNode ==
  ASSUME NEW t \in Legacy, NEW names, NEW n \in Nodes,
         isLegacyServiceToken(t, names, HostnamesOf[n])
  PROVE  /\ LegacyDescription[t].service \in names
         /\ LegacyDescription[t].hosts \subseteq HostnamesOf[n]
<1>1. /\ LegacyDescription[t].service \in names
      /\ LegacyDescription[t].hosts \cap HostnamesOf[n] # {}
  BY DEF isLegacyServiceToken, Description
<1>2. PICK m \in Nodes : LegacyDescription[t].hosts \subseteq HostnamesOf[m]
  BY HostnamesAssumption
<1>3. HostnamesOf[m] \cap HostnamesOf[n] # {}
  BY <1>1, <1>2
<1>4. m = n
  BY <1>3, HostnamesAssumption
<1> QED BY <1>1, <1>2, <1>4

(* The effect of the requests on the store, as the invariant needs it.      *)
LEMMA CreateEffect ==
  ASSUME TypeOK, SecretsAreUnique, NEW p \in Ensurers,
         TokenCreate(p, Current(p), PolicyOf[p])
  PROVE  /\ live' = live \cup {Current(p)}
         /\ secret'[Current(p)] \in Secrets
         /\ \A id \in IDs : id # Current(p) => secret'[id] = secret[id]
         /\ \A id \in live : secret'[id] = secret[id]
         /\ \A id \in IDs : secret[id] # secret'[Current(p)]
         /\ SecretsAreUnique'
         /\ live' \subseteq IDs
         /\ secret' \in [IDs -> Secrets \cup {NoSecret}]
         /\ links' \in [IDs -> SUBSET Policies]
<1>1. Current(p) \in IDs /\ Current(p) \notin live /\ PolicyOf[p] \in Policies
  BY HomeIsKey, ProcsAssumption DEF TokenCreate, IDs, Procs
<1>2. PICK s \in Secrets : /\ \A i \in IDs : secret[i] # s
                           /\ secret' = [secret EXCEPT ![Current(p)] = s]
  BY DEF TokenCreate
<1>3. /\ secret'[Current(p)] = s
      /\ \A id \in IDs : id # Current(p) => secret'[id] = secret[id]
      /\ secret' \in [IDs -> Secrets \cup {NoSecret}]
  BY <1>1, <1>2 DEF TypeOK
<1>4. /\ live' = live \cup {Current(p)}
      /\ live' \subseteq IDs
      /\ links' \in [IDs -> SUBSET Policies]
  BY <1>1 DEF TokenCreate, TypeOK
<1>5. SecretsAreUnique'
  <2>1. \A id \in live' : secret'[id] \in Secrets
    BY <1>3, <1>4 DEF SecretsAreUnique
  <2>2. ASSUME NEW i \in IDs, NEW j \in IDs, secret'[i] = secret'[j], secret'[i] # NoSecret
        PROVE  i = j
    BY <2>2, <1>1, <1>2, <1>3 DEF SecretsAreUnique
  <2>3. \A k \in Keys \ live' : secret'[k] = NoSecret
    BY <1>3, <1>4 DEF SecretsAreUnique, IDs
  <2> QED BY <2>1, <2>2, <2>3 DEF SecretsAreUnique
<1> QED BY <1>1, <1>2, <1>3, <1>4, <1>5 DEF TypeOK

-----------------------------------------------------------------------------
(* Type correctness.                                                        *)

(* The initial states have the types of TypeOK.                             *)
LEMMA TypeInit == Init => TypeOK
<1> SUFFICES ASSUME Init PROVE TypeOK
  OBVIOUS
<1> USE DEF Init
<1>1. live \subseteq IDs
  BY TokensAssumption DEF IDs
<1>2. secret \in [IDs -> Secrets \cup {NoSecret}] /\ links \in [IDs -> SUBSET Policies]
  BY TokensAssumption
<1>3. /\ pc \in [Procs -> Ended]
      /\ runs \in [Procs -> 0..MaxRuns]
      /\ access \in [Procs -> Access]
      /\ got \in [Ensurers -> Token]
      /\ tmp \in [Ensurers -> Secrets \cup {NoSecret}]
      /\ hosts \in [Pruners -> SUBSET Hostnames]
      /\ todo \in [Pruners -> SUBSET IDs]
  BY ProcsAssumption DEF Ended, Access, Token, NoToken
<1>4. file \in [Keys -> Secrets \cup {NoSecret}] /\ ensured \subseteq Keys \X Policies
  OBVIOUS
<1> QED BY <1>1, <1>2, <1>3, <1>4 DEF TypeOK

(* Every action keeps the types; <1>n are the actions in the order of the   *)
(* module.                                                                  *)
LEMMA TypeStep == TypeOK /\ [Next]_vars => TypeOK'
<1> SUFFICES ASSUME TypeOK, [Next]_vars PROVE TypeOK'
  OBVIOUS
<1> USE DEF TypeOK, store
<1>a. \A p \in Procs : Current(p) \in IDs /\ Home(p) \in Keys /\ PolicyOf[p] \in Policies
  BY HomeIsKey, ProcsAssumption DEF IDs
<1>b. \A p \in Procs, label \in Ended \cup Running :
        Goto(p, label) => pc' \in [Procs -> Ended \cup Running]
  BY DEF Goto
<1>1. ASSUME NEW p \in Ensurers, EnsureStart(p) PROVE TypeOK'
  <2>1. runs' \in [Procs -> 0..MaxRuns]
    <3>1. p \in Procs /\ runs[p] \in 0..MaxRuns /\ runs[p] + 1 \in 0..MaxRuns
      BY <1>1, ProcsAssumption DEF EnsureStart, Procs
    <3> QED BY <1>1, <3>1 DEF EnsureStart
  <2>2. /\ got' \in [Ensurers -> Token]
        /\ tmp' \in [Ensurers -> Secrets \cup {NoSecret}]
    BY <1>1 DEF EnsureStart, Token, NoToken
  <2>3. access' \in [Procs -> Access] /\ pc' \in [Procs -> Ended \cup Running]
    BY <1>1, <1>b DEF EnsureStart, Ended, Running, Access, Procs
  <2> QED BY <1>1, <2>1, <2>2, <2>3 DEF EnsureStart
<1>2. ASSUME NEW p \in Ensurers, EnsureRead(p) \/ EnsureAdopt(p) PROVE TypeOK'
  <2>1. pc' \in [Procs -> Ended \cup Running]
    BY <1>2, <1>b DEF EnsureRead, EnsureAdopt, UseFound, Ended, Running, Procs
  <2>2. got' \in [Ensurers -> Token]
    <3>1. [secret |-> secret[Current(p)], policies |-> links[Current(p)]] \in Token
      BY <1>a DEF Token, Procs
    <3>2. \/ UNCHANGED got
          \/ got' = [got EXCEPT ![p] = [secret   |-> secret[Current(p)],
                                        policies |-> links[Current(p)]]]
      BY <1>2 DEF EnsureRead, EnsureAdopt, UseFound
    <3> QED BY <3>1, <3>2
  <2> QED BY <1>2, <2>1, <2>2 DEF EnsureRead, EnsureAdopt
<1>3. ASSUME NEW p \in Ensurers, EnsureCreate(p) PROVE TypeOK'
  <2>1. CASE TokenCreate(p, Current(p), PolicyOf[p])
    <3>1. /\ live' \subseteq IDs
          /\ secret' \in [IDs -> Secrets \cup {NoSecret}]
          /\ links' \in [IDs -> SUBSET Policies]
      BY <2>1, <1>a DEF TokenCreate, Procs
    <3>2. got' \in [Ensurers -> Token]
      BY <1>3, <3>1, <1>a DEF EnsureCreate, Token, Procs
    <3>3. pc' \in [Procs -> Ended \cup Running]
      BY <1>3, <1>b DEF EnsureCreate, Running, Procs
    <3> QED BY <1>3, <3>1, <3>2, <3>3 DEF EnsureCreate
  <2>2. CASE Goto(p, "adopt") /\ UNCHANGED <<store, got>>
    BY <1>3, <2>2, <1>b DEF EnsureCreate, Running, Procs
  <2> QED BY <1>3, <2>1, <2>2 DEF EnsureCreate
<1>4. ASSUME NEW p \in Ensurers, EnsureUpdate(p) PROVE TypeOK'
  <2>1. pc' \in [Procs -> Ended \cup Running]
    BY <1>4, <1>b DEF EnsureUpdate, Ended, Running, Procs
  <2>2. links' \in [IDs -> SUBSET Policies] /\ UNCHANGED <<live, secret>>
    BY <1>4, <1>a DEF EnsureUpdate, TokenUpdate, Token, Procs
  <2> QED BY <1>4, <2>1, <2>2 DEF EnsureUpdate
<1>5. ASSUME NEW p \in Ensurers, EnsureTemp(p) PROVE TypeOK'
  BY <1>5, <1>b DEF EnsureTemp, Ended, Running, Token, Procs
<1>6. ASSUME NEW p \in Ensurers, EnsureRename(p) PROVE TypeOK'
  <2>1. pc' \in [Procs -> Ended \cup Running]
    BY <1>6, <1>b DEF EnsureRename, Ended, Procs
  <2>2. /\ file' \in [Keys -> Secrets \cup {NoSecret}]
        /\ tmp' \in [Ensurers -> Secrets \cup {NoSecret}]
        /\ ensured' \subseteq Keys \X Policies
    BY <1>6, <1>a DEF EnsureRename, Procs
  <2> QED BY <1>6, <2>1, <2>2 DEF EnsureRename
<1>7. ASSUME NEW p \in Pruners, PruneStart(p) PROVE TypeOK'
  <2>1. runs' \in [Procs -> 0..MaxRuns]
    <3>1. p \in Procs /\ runs[p] \in 0..MaxRuns /\ runs[p] + 1 \in 0..MaxRuns
      BY <1>7, ProcsAssumption DEF PruneStart, Procs
    <3> QED BY <1>7, <3>1 DEF PruneStart
  <2>2. /\ todo' \in [Pruners -> SUBSET IDs]
        /\ hosts' \in [Pruners -> SUBSET Hostnames]
    <3>1. HostnamesOf[NodeOf[p]] \subseteq Hostnames
      BY HostnamesAssumption, ProcsAssumption DEF Procs
    <3> QED BY <1>7, <3>1 DEF PruneStart
  <2>3. access' \in [Procs -> Access] /\ pc' \in [Procs -> Ended \cup Running]
    BY <1>7, <1>b DEF PruneStart, Ended, Running, Access, Procs
  <2> QED BY <1>7, <2>1, <2>2, <2>3 DEF PruneStart
<1>8. ASSUME NEW p \in Pruners, PruneCheck(p) PROVE TypeOK'
  BY <1>8, <1>b DEF PruneCheck, Ended, Running, Procs
<1>9. ASSUME NEW p \in Pruners, PruneList(p) PROVE TypeOK'
  BY <1>9, <1>b DEF PruneList, ToDelete, Ended, Running, Procs
<1>10. ASSUME NEW p \in Pruners, PruneDelete(p) PROVE TypeOK'
  <2>1. pc' \in [Procs -> Ended \cup Running]
    BY <1>10, <1>b DEF PruneDelete, Ended, Running, Procs
  <2>2. /\ live' \subseteq IDs
        /\ UNCHANGED <<secret, links>>
        /\ todo' \in [Pruners -> SUBSET IDs]
    BY <1>10 DEF PruneDelete, TokenDelete
  <2> QED BY <1>10, <2>1, <2>2 DEF PruneDelete
<1>11. ASSUME NEW p \in Procs, Crash(p) \/ Revoke(p) PROVE TypeOK'
  BY <1>11, <1>b DEF Crash, Revoke, Ended, Access
<1>12. CASE UNCHANGED vars
  BY <1>12 DEF vars
<1> QED
  BY <1>1, <1>2, <1>3, <1>4, <1>5, <1>6, <1>7, <1>8, <1>9, <1>10, <1>11, <1>12
  DEF Next, EnsureStep, PruneStep

(* Type correctness of the token commands and of the ACL store: every run,  *)
(* with any number of processes, stays in the states of TypeOK.             *)
THEOREM TypeCorrect == Spec => []TypeOK
<1>1. Init => TypeOK
  BY TypeInit
<1>2. TypeOK /\ [Next]_vars => TypeOK'
  BY TypeStep
<1> QED BY <1>1, <1>2, PTL DEF Spec

-----------------------------------------------------------------------------
(* The store: what any step may do to the tokens.                           *)

(* Secrets stay unique, and deterministic tokens stay as they are.          *)
LEMMA StoreStep ==
  ASSUME IInv, [Next]_vars
  PROVE  /\ SecretsAreUnique'
         /\ \A k \in Keys : k \in live => k \in live' /\ secret'[k] = secret[k]
         /\ \A t \in Legacy : secret'[t] = secret[t]
<1> USE DEF store
<1>1. CASE UNCHANGED <<live, secret>>
  BY <1>1 DEF IInv, SecretsAreUnique
<1>2. ASSUME NEW p \in Ensurers, TokenCreate(p, Current(p), PolicyOf[p])
      PROVE  /\ SecretsAreUnique'
             /\ \A k \in Keys : k \in live => k \in live' /\ secret'[k] = secret[k]
             /\ \A t \in Legacy : secret'[t] = secret[t]
  <2>1. Current(p) \in Keys /\ Current(p) \notin Legacy
    BY HomeIsKey, TokensAssumption DEF Procs
  <2> QED BY <1>2, <2>1, CreateEffect DEF IInv, IDs
<1>3. ASSUME NEW p \in Pruners, NEW id \in todo[p], TokenDelete(p, id)
      PROVE  /\ SecretsAreUnique'
             /\ \A k \in Keys : k \in live => k \in live' /\ secret'[k] = secret[k]
             /\ \A t \in Legacy : secret'[t] = secret[t]
  <2>1. id \in Legacy /\ id \notin Keys
    BY TokensAssumption DEF IInv, ListIsOwnLegacy
  <2> QED BY <1>3, <2>1 DEF TokenDelete, IInv, SecretsAreUnique
<1>4. \/ UNCHANGED <<live, secret>>
      \/ \E p \in Ensurers : TokenCreate(p, Current(p), PolicyOf[p])
      \/ \E p \in Pruners : \E id \in todo[p] : TokenDelete(p, id)
  <2>1. ASSUME NEW p \in Ensurers, EnsureStart(p) \/ EnsureStep(p)
        PROVE  \/ UNCHANGED <<live, secret>>
               \/ TokenCreate(p, Current(p), PolicyOf[p])
    BY <2>1 DEF EnsureStart, EnsureStep, EnsureRead, EnsureCreate, EnsureAdopt,
                EnsureUpdate, TokenUpdate, EnsureTemp, EnsureRename
  <2>2. ASSUME NEW p \in Pruners, PruneStart(p) \/ PruneStep(p)
        PROVE  \/ UNCHANGED <<live, secret>>
               \/ \E id \in todo[p] : TokenDelete(p, id)
    BY <2>2 DEF PruneStart, PruneStep, PruneCheck, PruneList, PruneDelete
  <2>3. ASSUME NEW p \in Procs, Crash(p) \/ Revoke(p)
        PROVE  UNCHANGED <<live, secret>>
    BY <2>3 DEF Crash, Revoke
  <2>4. UNCHANGED vars => UNCHANGED <<live, secret>>
    BY DEF vars
  <2> QED BY <2>1, <2>2, <2>3, <2>4 DEF Next
<1> QED BY <1>1, <1>2, <1>3, <1>4

(* What an ensure holds in memory stays the secret of the live token.       *)
LEMMA HeldStep ==
  ASSUME IInv, [Next]_vars
  PROVE  HeldIsCurrent'
<1> USE DEF store
<1> SUFFICES ASSUME NEW q \in Ensurers
             PROVE  /\ pc'[q] \in {"update", "temp", "rename"} =>
                         Current(q) \in live' /\ got'[q].secret = secret'[Current(q)]
                    /\ pc'[q] = "rename" => tmp'[q] = secret'[Current(q)]
  BY DEF HeldIsCurrent
<1>t. TypeOK /\ q \in Procs /\ q \notin Pruners /\ Current(q) \in Keys
  BY HomeIsKey, ProcsAssumption DEF IInv, Procs
<1>s. Current(q) \in live => Current(q) \in live' /\ secret'[Current(q)] = secret[Current(q)]
  BY <1>t, StoreStep
<1>h. /\ pc[q] \in {"update", "temp", "rename"} =>
           Current(q) \in live /\ got[q].secret = secret[Current(q)]
      /\ pc[q] = "rename" => tmp[q] = secret[Current(q)]
  BY DEF IInv, HeldIsCurrent
<1>1. CASE pc'[q] = pc[q] /\ got'[q] = got[q] /\ tmp'[q] = tmp[q]
  BY <1>1, <1>s, <1>h
<1>2. CASE pc'[q] \in Ended
  BY <1>2 DEF Ended
<1>3. CASE EnsureStart(q)
  BY <1>3, <1>t DEF EnsureStart, Goto, TypeOK
<1>4. CASE EnsureRead(q) \/ EnsureAdopt(q)
  <2>1. CASE UseFound(q) /\ Current(q) \in live
    BY <2>1, <1>t, <1>s, <1>4 DEF UseFound, Goto, TypeOK, EnsureRead, EnsureAdopt, Token
  <2>2. \/ UseFound(q) /\ Current(q) \in live
        \/ Goto(q, "create") \/ Goto(q, "failed")
    BY <1>4 DEF EnsureRead, EnsureAdopt, ReadAnswers
  <2> QED BY <2>1, <2>2, <1>t DEF Goto, TypeOK
<1>5. CASE EnsureCreate(q)
  <2>1. CASE TokenCreate(q, Current(q), PolicyOf[q])
    <3>1. Current(q) \in live'
      BY <2>1, CreateEffect DEF IInv
    <3>2. CASE Goto(q, "adopt")
      BY <3>2, <1>t DEF Goto, TypeOK
    <3>3. CASE /\ got' = [got EXCEPT ![q] = [secret   |-> secret'[Current(q)],
                                             policies |-> {PolicyOf[q]}]]
               /\ Goto(q, "temp")
      BY <3>1, <3>3, <1>t DEF Goto, TypeOK
    <3> QED BY <2>1, <3>2, <3>3, <1>5 DEF EnsureCreate
  <2>2. CASE Goto(q, "adopt")
    BY <2>2, <1>t DEF Goto, TypeOK
  <2> QED BY <2>1, <2>2, <1>5 DEF EnsureCreate
<1>6. CASE EnsureUpdate(q)
  BY <1>6, <1>t, <1>s, <1>h DEF EnsureUpdate, Goto, TypeOK
<1>7. CASE EnsureTemp(q)
  BY <1>7, <1>t, <1>s, <1>h DEF EnsureTemp, Goto, TypeOK
<1>8. CASE EnsureRename(q)
  BY <1>8, <1>t DEF EnsureRename, Goto, TypeOK
<1>9. ASSUME NEW p \in Ensurers, p # q, EnsureStart(p) \/ EnsureStep(p)
      PROVE  pc'[q] = pc[q] /\ got'[q] = got[q] /\ tmp'[q] = tmp[q]
  BY <1>9, <1>t DEF EnsureStart, EnsureStep, EnsureRead, EnsureCreate, EnsureAdopt,
     EnsureUpdate, EnsureTemp, EnsureRename, UseFound, Goto, TypeOK
<1>10. ASSUME NEW p \in Pruners, PruneStart(p) \/ PruneStep(p)
       PROVE  pc'[q] = pc[q] /\ got'[q] = got[q] /\ tmp'[q] = tmp[q]
  BY <1>10, <1>t DEF PruneStart, PruneStep, PruneCheck, PruneList, PruneDelete, Goto, TypeOK
<1>11. ASSUME NEW p \in Procs, Crash(p) \/ Revoke(p)
       PROVE  \/ pc'[q] \in Ended
              \/ pc'[q] = pc[q] /\ got'[q] = got[q] /\ tmp'[q] = tmp[q]
  BY <1>11, <1>t DEF Crash, Revoke, Goto, TypeOK, Ended
<1>12. CASE UNCHANGED vars
  BY <1>1, <1>12 DEF vars
<1> QED
  BY <1>1, <1>2, <1>3, <1>4, <1>5, <1>6, <1>7, <1>8, <1>9, <1>10, <1>11, <1>12
  DEF Next, EnsureStep

(* What a prune knows stays true: its list and the token that replaces it.  *)
LEMMA ListStep ==
  ASSUME IInv, [Next]_vars
  PROVE  ListIsOwnLegacy'
<1> USE DEF store
<1> DEFINE OwnLegacy(q) ==
      {t \in Legacy : isLegacyServiceToken(t, LegacyNames(q), HostnamesOf[NodeOf[q]])}
<1> SUFFICES ASSUME NEW q \in Pruners
             PROVE  /\ pc'[q] \in {"list", "delete"} => Current(q) \in live'
                    /\ pc'[q] # "idle" => runs'[q] > 0
                    /\ hosts'[q] \subseteq HostnamesOf[NodeOf[q]]
                    /\ todo'[q] \subseteq OwnLegacy(q)
  BY DEF ListIsOwnLegacy, isLegacyServiceToken, Description, LegacyNames
<1>t. TypeOK /\ q \in Procs /\ q \notin Ensurers /\ Current(q) \in Keys
  BY HomeIsKey, ProcsAssumption DEF IInv, Procs
<1>s. Current(q) \in live => Current(q) \in live'
  BY <1>t, StoreStep
<1>h. /\ pc[q] \in {"list", "delete"} => Current(q) \in live
      /\ pc[q] # "idle" => runs[q] > 0
      /\ hosts[q] \subseteq HostnamesOf[NodeOf[q]]
      /\ todo[q] \subseteq OwnLegacy(q)
  BY DEF IInv, ListIsOwnLegacy
<1>1. CASE UNCHANGED <<pc[q], runs[q], hosts[q], todo[q]>>
  BY <1>1, <1>s, <1>h
<1>2. CASE PruneStart(q)
  <2>1. runs[q] \in Nat /\ runs'[q] = runs[q] + 1
    BY <1>2, <1>t DEF PruneStart, TypeOK
  <2>2. pc'[q] \in {"check", "failed"}
    BY <1>2, <1>t DEF PruneStart, TypeOK, Goto
  <2>3. hosts'[q] \subseteq HostnamesOf[NodeOf[q]] /\ todo'[q] = {}
    BY <1>2, <1>t, <1>h DEF PruneStart, TypeOK
  <2> QED BY <2>1, <2>2, <2>3
<1>3. CASE PruneCheck(q)
  <2>1. pc'[q] = "list" => Current(q) \in live
    BY <1>3, <1>t DEF PruneCheck, ReadAnswers, Goto, TypeOK
  <2>2. pc'[q] \in {"list", "failed"} /\ pc[q] = "check" /\ UNCHANGED <<runs, hosts, todo>>
    BY <1>3, <1>t DEF PruneCheck, Goto, TypeOK
  <2> QED BY <2>1, <2>2, <1>s, <1>h
<1>4. CASE PruneList(q)
  <2>1. ToDelete(q) \subseteq OwnLegacy(q)
    <3> SUFFICES ASSUME NEW id \in ToDelete(q) PROVE id \in OwnLegacy(q)
      OBVIOUS
    <3>1. id \in IDs /\ isLegacyServiceToken(id, LegacyNames(q), hosts[q])
      BY <1>t DEF ToDelete, TypeOK
    <3>2. id \in Legacy
      BY <3>1, OnlyLegacyMatch
    <3>3. isLegacyServiceToken(id, LegacyNames(q), HostnamesOf[NodeOf[q]])
      BY <3>1, <1>h DEF isLegacyServiceToken
    <3> QED BY <3>2, <3>3
  <2>2. /\ pc'[q] \in {"done", "delete", "failed"} /\ pc[q] = "list"
        /\ todo'[q] \in {todo[q], ToDelete(q)}
        /\ UNCHANGED <<runs, hosts>>
    BY <1>4, <1>t DEF PruneList, Goto, TypeOK
  <2> QED BY <2>1, <2>2, <1>s, <1>h
<1>5. CASE PruneDelete(q)
  <2>1. /\ pc'[q] \in {"done", "delete", "failed"} /\ pc[q] = "delete"
        /\ todo'[q] \subseteq todo[q]
        /\ UNCHANGED <<runs, hosts>>
    BY <1>5, <1>t DEF PruneDelete, Goto, TypeOK
  <2> QED BY <2>1, <1>s, <1>h
<1>6. ASSUME NEW p \in Pruners, p # q, PruneStart(p) \/ PruneStep(p)
      PROVE  UNCHANGED <<pc[q], runs[q], hosts[q], todo[q]>>
  BY <1>6, <1>t DEF PruneStart, PruneStep, PruneCheck, PruneList, PruneDelete, Goto, TypeOK
<1>7. ASSUME NEW p \in Ensurers, EnsureStart(p) \/ EnsureStep(p)
      PROVE  UNCHANGED <<pc[q], runs[q], hosts[q], todo[q]>>
  BY <1>7, <1>t DEF EnsureStart, EnsureStep, EnsureRead, EnsureCreate, EnsureAdopt,
     EnsureUpdate, EnsureTemp, EnsureRename, UseFound, Goto, TypeOK
<1>8. ASSUME NEW p \in Procs, Crash(p) \/ Revoke(p)
      PROVE  /\ \/ pc'[q] = pc[q]
                \/ pc'[q] = "crashed" /\ pc[q] \notin Ended
             /\ UNCHANGED <<runs[q], hosts[q], todo[q]>>
  BY <1>8, <1>t DEF Crash, Revoke, Goto, TypeOK
<1>9. CASE UNCHANGED vars
  BY <1>1, <1>9 DEF vars
<1>10. ASSUME NEW p \in Procs, Crash(p) \/ Revoke(p)
       PROVE  /\ pc'[q] \in {"list", "delete"} => Current(q) \in live'
              /\ pc'[q] # "idle" => runs'[q] > 0
              /\ hosts'[q] \subseteq HostnamesOf[NodeOf[q]]
              /\ todo'[q] \subseteq OwnLegacy(q)
  BY <1>8, <1>10, <1>s, <1>h DEF Ended
<1> QED
  BY <1>1, <1>2, <1>3, <1>4, <1>5, <1>6, <1>7, <1>9, <1>10 DEF Next, PruneStep

-----------------------------------------------------------------------------
(* The token files.  They change in EnsureRename only.                      *)

LEMMA FileChange ==
  ASSUME IInv, [Next]_vars
  PROVE  \/ UNCHANGED <<file, ensured>>
         \/ \E p \in Ensurers :
              /\ Home(p) \in live
              /\ file' = [file EXCEPT ![Home(p)] = secret[Home(p)]]
              /\ ensured' = ensured \cup {<<Home(p), PolicyOf[p]>>}
              /\ UNCHANGED <<live, secret>>
<1> USE DEF store
<1>1. ASSUME NEW p \in Ensurers, EnsureRename(p)
      PROVE  \/ UNCHANGED <<file, ensured>>
             \/ /\ Home(p) \in live
                /\ file' = [file EXCEPT ![Home(p)] = secret[Home(p)]]
                /\ ensured' = ensured \cup {<<Home(p), PolicyOf[p]>>}
                /\ UNCHANGED <<live, secret>>
  <2>1. Current(p) = Home(p) /\ Current(p) \in live /\ tmp[p] = secret[Current(p)]
    BY <1>1, HomeIsKey DEF EnsureRename, IInv, HeldIsCurrent, Procs
  <2> QED BY <1>1, <2>1 DEF EnsureRename
<1>2. ASSUME NEW p \in Ensurers, EnsureStart(p) \/ EnsureStep(p), ~EnsureRename(p)
      PROVE  UNCHANGED <<file, ensured>>
  BY <1>2 DEF EnsureStart, EnsureStep, EnsureRead, EnsureCreate, EnsureAdopt,
     EnsureUpdate, EnsureTemp
<1>3. ASSUME NEW p \in Pruners, PruneStart(p) \/ PruneStep(p)
      PROVE  UNCHANGED <<file, ensured>>
  BY <1>3 DEF PruneStart, PruneStep, PruneCheck, PruneList, PruneDelete
<1>4. ASSUME NEW p \in Procs, Crash(p) \/ Revoke(p)
      PROVE  UNCHANGED <<file, ensured>>
  BY <1>4 DEF Crash, Revoke
<1>5. UNCHANGED vars => UNCHANGED <<file, ensured>>
  BY DEF vars
<1> QED BY <1>1, <1>2, <1>3, <1>4, <1>5 DEF Next

(* Token files stay own, current and apart.                                 *)
LEMMA FileStep ==
  ASSUME IInv, [Next]_vars
  PROVE  FileIsOwn' /\ SecretsNotShared' /\ EnsuredFileIsLive'
<1> USE DEF AccessorID
<1>1. /\ TypeOK /\ FileIsOwn /\ SecretsNotShared /\ EnsuredFileIsLive /\ SecretsAreUnique
      /\ Keys \subseteq IDs /\ Legacy \subseteq IDs /\ Keys \cap Legacy = {}
      /\ \A e \in Keys \X Policies : <<e[1][1], e[1][2]>> = e[1] /\ e[1] \in Keys
  BY TokensAssumption DEF IInv, IDs, Keys
<1>2. /\ \A k \in Keys : k \in live => k \in live' /\ secret'[k] = secret[k]
      /\ \A t \in Legacy : secret'[t] = secret[t]
  BY StoreStep
<1>3. CASE UNCHANGED <<file, ensured>>
  <2>1. FileIsOwn'
    BY <1>1, <1>2, <1>3 DEF FileIsOwn, SecretsAreUnique
  <2>2. SecretsNotShared'
    BY <1>1, <1>3 DEF SecretsNotShared
  <2>3. EnsuredFileIsLive'
    BY <1>1, <1>2, <1>3 DEF EnsuredFileIsLive, TypeOK
  <2> QED BY <2>1, <2>2, <2>3
<1>4. ASSUME NEW p \in Ensurers,
             Home(p) \in live,
             file' = [file EXCEPT ![Home(p)] = secret[Home(p)]],
             ensured' = ensured \cup {<<Home(p), PolicyOf[p]>>},
             UNCHANGED <<live, secret>>
      PROVE  FileIsOwn' /\ SecretsNotShared' /\ EnsuredFileIsLive'
  <2>1. /\ Home(p) \in Keys /\ PolicyOf[p] \in Policies
        /\ file'[Home(p)] = secret[Home(p)]
        /\ \A k \in Keys : k # Home(p) => file'[k] = file[k]
        /\ secret[Home(p)] # NoSecret
    BY <1>1, <1>4, HomeIsKey, ProcsAssumption, TokensAssumption
    DEF Procs, TypeOK, SecretsAreUnique
  <2>2. FileIsOwn'
    BY <1>1, <1>4, <2>1 DEF FileIsOwn
  <2>3. \A k \in Keys : k # Home(p) => file'[k] # secret[Home(p)]
    BY <1>1, <2>1 DEF FileIsOwn, SecretsAreUnique
  <2>4. SecretsNotShared'
    BY <1>1, <2>1, <2>3 DEF SecretsNotShared
  <2>5. EnsuredFileIsLive'
    <3> SUFFICES ASSUME NEW e \in ensured'
                 PROVE  <<e[1][1], e[1][2]>> \in live /\ file'[e[1]] = secret[<<e[1][1], e[1][2]>>]
      BY <1>4 DEF EnsuredFileIsLive
    <3>1. e \in Keys \X Policies /\ <<e[1][1], e[1][2]>> = e[1] /\ e[1] \in Keys
      BY <1>1, <1>4, <2>1 DEF TypeOK
    <3>2. CASE e[1] = Home(p)
      BY <1>4, <2>1, <3>1, <3>2
    <3>3. CASE e[1] # Home(p)
      <4>1. e \in ensured
        BY <1>4, <3>3
      <4> QED BY <1>1, <2>1, <3>1, <3>3, <4>1 DEF EnsuredFileIsLive
    <3> QED BY <3>2, <3>3
  <2> QED BY <2>2, <2>4, <2>5
<1> QED BY <1>3, <1>4, FileChange

-----------------------------------------------------------------------------
(* Legacy tokens.  They disappear in PruneDelete only.                      *)

(* What was pruned stays replaced, and only what is replaced is pruned.     *)
LEMMA PrunedStep ==
  ASSUME IInv, [Next]_vars
  PROVE  PrunedAreReplaced'
<1> USE DEF store
<1> SUFFICES ASSUME NEW t \in Legacy \ live'
             PROVE  \E p \in Pruners :
                      /\ runs'[p] > 0
                      /\ Current(p) \in live'
                      /\ LegacyDescription[t].service \in LegacyNames(p)
                      /\ LegacyDescription[t].hosts \subseteq HostnamesOf[NodeOf[p]]
  BY DEF PrunedAreReplaced
<1>r. \A p \in Procs : runs[p] > 0 => runs'[p] > 0
  <2>1. \A p \in Procs : runs[p] \in Nat
    BY DEF IInv, TypeOK
  <2>2. \/ UNCHANGED runs
        \/ \E p \in Procs : runs' = [runs EXCEPT ![p] = @ + 1]
    BY DEF Next, EnsureStart, EnsureStep, EnsureRead, EnsureCreate, EnsureAdopt,
       EnsureUpdate, EnsureTemp, EnsureRename, PruneStart, PruneStep, PruneCheck,
       PruneList, PruneDelete, Crash, Revoke, vars, Procs
  <2> QED BY <2>1, <2>2 DEF IInv, TypeOK
<1>s. \A p \in Procs : Current(p) \in live => Current(p) \in live'
  BY HomeIsKey, StoreStep
<1>1. CASE t \notin live
  BY <1>1, <1>r, <1>s DEF IInv, PrunedAreReplaced, Procs
<1>2. CASE t \in live
  <2>1. PICK p \in Pruners : PruneDelete(p) /\ t \in todo[p]
    BY <1>2 DEF Next, EnsureStart, EnsureStep, EnsureRead, EnsureCreate, EnsureAdopt,
       EnsureUpdate, EnsureTemp, EnsureRename, PruneStart, PruneStep, PruneCheck,
       PruneList, PruneDelete, Crash, Revoke, vars, TokenCreate, TokenUpdate, TokenDelete
  <2>2. /\ runs[p] > 0 /\ Current(p) \in live
        /\ isLegacyServiceToken(t, LegacyNames(p), HostnamesOf[NodeOf[p]])
    BY <2>1 DEF PruneDelete, IInv, ListIsOwnLegacy
  <2>3. NodeOf[p] \in Nodes /\ p \in Procs
    BY ProcsAssumption DEF Procs
  <2> QED BY <2>2, <2>3, <1>r, <1>s, MatchNamesNode
<1> QED BY <1>1, <1>2

-----------------------------------------------------------------------------
(* The inductive invariant.                                                 *)

(* It holds at first, ...                                                   *)
LEMMA InvInit == Init => IInv
<1> SUFFICES ASSUME Init PROVE IInv
  OBVIOUS
<1>1. TypeOK
  BY TypeInit
<1>2. HeldIsCurrent /\ ListIsOwnLegacy
  BY ProcsAssumption DEF Init, HeldIsCurrent, ListIsOwnLegacy, Procs
<1>3. SecretsAreUnique
  <2>1. \A id \in live : id \in IDs /\ secret[id] = InitialSecret[id]
                         /\ InitialSecret[id] \in Secrets
    BY TokensAssumption DEF Init, IDs
  <2>2. \A id \in IDs \ live : secret[id] = NoSecret
    BY DEF Init
  <2> QED BY <2>1, <2>2, TokensAssumption DEF Init, SecretsAreUnique, IDs
<1>4. FileIsOwn
  <2> SUFFICES ASSUME NEW k \in Keys, file[k] # NoSecret
               PROVE  file[k] = secret[k] \/ \E t \in Legacy : file[k] = secret[t]
    BY DEF FileIsOwn
  <2>1. PICK id \in OwnTokens(k) : file[k] = InitialSecret[id]
    BY DEF Init
  <2>2. id \in live /\ id \in IDs /\ (id \in Legacy \/ id = k)
    BY DEF OwnTokens, Init, IDs
  <2> QED BY <2>1, <2>2 DEF Init
<1>5. EnsuredFileIsLive /\ PrunedAreReplaced /\ SecretsNotShared
  BY DEF Init, EnsuredFileIsLive, PrunedAreReplaced, SecretsNotShared
<1> QED BY <1>1, <1>2, <1>3, <1>4, <1>5 DEF IInv

(* ... and every step preserves it.                                         *)
LEMMA InvStep == IInv /\ [Next]_vars => IInv'
<1> SUFFICES ASSUME IInv, [Next]_vars PROVE IInv'
  OBVIOUS
<1>1. TypeOK'
  BY TypeStep DEF IInv
<1> QED BY <1>1, StoreStep, HeldStep, ListStep, FileStep, PrunedStep DEF IInv

(* The invariant the safety properties follow from.                         *)
THEOREM Invariance == Spec => []IInv
<1>1. Init => IInv
  BY InvInit
<1>2. IInv /\ [Next]_vars => IInv'
  BY InvStep
<1> QED BY <1>1, <1>2, PTL DEF Spec

(* A successful ensure leaves the secret of a live token in the token file, *)
(* for good, under any interleaving of any number of ensures and prunes.    *)
THEOREM EnsuredFileStaysLive == Spec => []EnsuredFileIsLive
<1>1. IInv => EnsuredFileIsLive
  BY DEF IInv
<1> QED BY <1>1, Invariance, PTL

(* prune-legacy deletes legacy tokens of its service and node only, and     *)
(* none before the token that replaces them exists.                         *)
THEOREM PrunedStayReplaced == Spec => []PrunedAreReplaced
<1>1. IInv => PrunedAreReplaced
  BY DEF IInv
<1> QED BY <1>1, Invariance, PTL

(* No two services or nodes share a secret.                                 *)
THEOREM SecretsStayApart == Spec => []SecretsNotShared
<1>1. IInv => SecretsNotShared
  BY DEF IInv
<1> QED BY <1>1, Invariance, PTL

(* The policy of a token stays linked while all who ensure it agree on it.  *)
LEMMA LinkStays ==
  ASSUME IInv, [Next]_vars, OnePolicy, NEW p \in Ensurers,
         Current(p) \in live, PolicyOf[p] \in links[Current(p)]
  PROVE  PolicyOf[p] \in links'[Current(p)]
<1> USE DEF store
<1>1. /\ TypeOK /\ Current(p) \in IDs
      /\ \A q \in Ensurers : Current(q) = Home(q) /\ Current(p) = Home(p)
  BY HomeIsKey DEF IInv, IDs, Procs
<1>2. ASSUME NEW q \in Ensurers, TokenCreate(q, Current(q), PolicyOf[q])
      PROVE  PolicyOf[p] \in links'[Current(p)]
  BY <1>1, <1>2 DEF TokenCreate, TypeOK
<1>3. ASSUME NEW q \in Ensurers, NEW old, TokenUpdate(q, Current(q), old \cup {PolicyOf[q]})
      PROVE  PolicyOf[p] \in links'[Current(p)]
  <2>1. Current(q) = Current(p) => PolicyOf[q] = PolicyOf[p]
    BY <1>1 DEF OnePolicy
  <2> QED BY <1>1, <1>3, <2>1 DEF TokenUpdate, TypeOK
<1>4. \/ links' = links
      \/ \E q \in Ensurers : TokenCreate(q, Current(q), PolicyOf[q])
      \/ \E q \in Ensurers : TokenUpdate(q, Current(q), got[q].policies \cup {PolicyOf[q]})
  BY DEF Next, EnsureStart, EnsureStep, EnsureRead, EnsureCreate, EnsureAdopt, EnsureUpdate,
     EnsureTemp, EnsureRename, PruneStart, PruneStep, PruneCheck, PruneList, PruneDelete,
     TokenDelete, Crash, Revoke, vars
<1> QED BY <1>2, <1>3, <1>4

(* An ensure leaves its update, or needs none, when the policy is linked.   *)
LEMMA LinkedStep ==
  ASSUME IInv, PolicyHeld, [Next]_vars, OnePolicy, NEW q \in Ensurers,
         pc'[q] \in {"temp", "rename"}
  PROVE  PolicyOf[q] \in links'[Current(q)]
<1> USE DEF store
<1>1. /\ TypeOK /\ q \in Procs /\ q \notin Pruners /\ Current(q) \in IDs
      /\ pc[q] \in {"temp", "rename"} => /\ PolicyOf[q] \in links[Current(q)]
                                         /\ Current(q) \in live
  BY HomeIsKey, ProcsAssumption DEF IInv, HeldIsCurrent, PolicyHeld, Procs, IDs
<1>2. CASE pc[q] \in {"temp", "rename"}
  BY <1>1, <1>2, LinkStays
<1>3. CASE EnsureRead(q) \/ EnsureAdopt(q)
  <2>1. UseFound(q) \/ Goto(q, "create") \/ Goto(q, "failed")
    BY <1>3 DEF EnsureRead, EnsureAdopt
  <2>2. PolicyOf[q] \in links[Current(q)]
    BY <1>1, <2>1 DEF UseFound, Goto, TypeOK
  <2>3. links' = links
    BY <1>3 DEF EnsureRead, EnsureAdopt
  <2> QED BY <2>2, <2>3
<1>4. CASE EnsureCreate(q)
  <2>1. TokenCreate(q, Current(q), PolicyOf[q])
    BY <1>1, <1>4 DEF EnsureCreate, Goto, TypeOK
  <2> QED BY <1>1, <2>1 DEF TokenCreate, TypeOK
<1>5. CASE EnsureUpdate(q)
  <2>1. TokenUpdate(q, Current(q), got[q].policies \cup {PolicyOf[q]})
    BY <1>1, <1>5 DEF EnsureUpdate, Goto, TypeOK
  <2> QED BY <1>1, <2>1 DEF TokenUpdate, TypeOK
<1>6. CASE EnsureStart(q) \/ EnsureTemp(q) \/ EnsureRename(q)
  BY <1>1, <1>2, <1>6 DEF EnsureStart, EnsureTemp, EnsureRename, Goto, TypeOK
<1>7. ASSUME NEW p \in Ensurers, p # q, EnsureStart(p) \/ EnsureStep(p)
      PROVE  pc'[q] = pc[q]
  BY <1>1, <1>7 DEF EnsureStart, EnsureStep, EnsureRead, EnsureCreate, EnsureAdopt,
     EnsureUpdate, EnsureTemp, EnsureRename, UseFound, Goto, TypeOK
<1>8. ASSUME NEW p \in Pruners, PruneStart(p) \/ PruneStep(p)
      PROVE  pc'[q] = pc[q]
  BY <1>1, <1>8 DEF PruneStart, PruneStep, PruneCheck, PruneList, PruneDelete, Goto, TypeOK
<1>9. ASSUME NEW p \in Procs, Crash(p) \/ Revoke(p)
      PROVE  pc'[q] = "crashed" \/ pc'[q] = pc[q]
  BY <1>1, <1>9 DEF Crash, Revoke, Goto, TypeOK
<1>10. CASE UNCHANGED vars
  BY <1>2, <1>10 DEF vars
<1> QED
  BY <1>2, <1>3, <1>4, <1>5, <1>6, <1>7, <1>8, <1>9, <1>10 DEF Next, EnsureStep

LEMMA PolicyStep == IInv /\ PolicyHeld /\ [Next]_vars => PolicyHeld'
<1> SUFFICES ASSUME IInv, PolicyHeld, [Next]_vars PROVE PolicyHeld'
  OBVIOUS
<1> USE DEF store
<1>1. \A e \in ensured' \ ensured :
        \E p \in Ensurers : pc[p] = "rename" /\ e = <<Home(p), PolicyOf[p]>>
  BY DEF Next, EnsureStart, EnsureStep, EnsureRead, EnsureCreate, EnsureAdopt, EnsureUpdate,
     EnsureTemp, EnsureRename, PruneStart, PruneStep, PruneCheck, PruneList, PruneDelete,
     Crash, Revoke, vars
<1>2. \A e \in ensured' : \E p \in Ensurers : e = <<Home(p), PolicyOf[p]>>
  BY <1>1 DEF PolicyHeld
<1>3. ASSUME OnePolicy, NEW p \in Ensurers, <<Home(p), PolicyOf[p]>> \in ensured'
      PROVE  PolicyOf[p] \in links'[Current(p)]
  <2>1. Current(p) = Home(p) /\ \A q \in Ensurers : Current(q) = Home(q)
    BY HomeIsKey DEF Procs
  <2>2. CASE <<Home(p), PolicyOf[p]>> \in ensured
    <3>1. PolicyOf[p] \in links[Current(p)]
      BY <1>3, <2>2 DEF PolicyHeld
    <3>2. Current(p) \in live
      BY <2>1, <2>2 DEF IInv, EnsuredFileIsLive, AccessorID, Current, Home
    <3> QED BY <1>3, <3>1, <3>2, LinkStays
  <2>3. ASSUME NEW q \in Ensurers, pc[q] = "rename", Home(q) = Home(p), PolicyOf[q] = PolicyOf[p]
        PROVE  PolicyOf[p] \in links'[Current(p)]
    <3>1. PolicyOf[q] \in links[Current(q)] /\ Current(q) \in live
      BY <1>3, <2>3 DEF PolicyHeld, IInv, HeldIsCurrent
    <3> QED BY <1>3, <2>1, <2>3, <3>1, LinkStays
  <2> QED BY <1>1, <1>3, <2>2, <2>3
<1>4. ASSUME OnePolicy, NEW p \in Ensurers, pc'[p] \in {"temp", "rename"}
      PROVE  PolicyOf[p] \in links'[Current(p)]
  BY <1>4, LinkedStep
<1> QED BY <1>2, <1>3, <1>4 DEF PolicyHeld

(* A successful ensure leaves its policy linked, if those who ensure the    *)
(* token agree on it.                                                       *)
THEOREM PolicyStaysLinked == Spec => []PolicyLinked
<1>1. Init => PolicyHeld
  BY DEF Init, PolicyHeld, Procs
<1>2. PolicyHeld => PolicyLinked
  BY DEF PolicyHeld, PolicyLinked, Home, Current
<1> QED BY <1>1, <1>2, PolicyStep, Invariance, PTL DEF Spec

(* A deterministic token is permanent.                                      *)
THEOREM IdentityStaysPermanent == Spec => IdentityIsPermanent
<1>1. IInv /\ [Next]_vars =>
        [\A k \in Keys : k \in live => k \in live' /\ secret'[k] = secret[k]]_vars
  BY StoreStep
<1> QED BY <1>1, Invariance, PTL DEF Spec, IdentityIsPermanent

-----------------------------------------------------------------------------
(* The gap between creating a token and writing its file.                   *)

(* Only the old scripts put a legacy secret in a token file.                *)
LEMMA HistoryInit == Init => FileHistory
<1> SUFFICES ASSUME Init PROVE FileHistory
  OBVIOUS
<1>1. \A t \in Legacy : /\ t \in IDs /\ t \in Legacy \cup Existing
                         /\ secret[t] = InitialSecret[t] /\ InitialSecret[t] \in Secrets
  BY TokensAssumption DEF Init, IDs
<1>2. ASSUME NEW k \in Keys, NEW t \in Legacy, file[k] = secret[t]
      PROVE  t \in OwnTokens(k)
  <2>1. file[k] # NoSecret
    BY <1>1, <1>2, TokensAssumption
  <2>2. PICK id \in OwnTokens(k) : file[k] = InitialSecret[id]
    BY <2>1 DEF Init
  <2>3. id \in Legacy \cup Existing
    BY DEF OwnTokens
  <2>4. id = t
    BY <1>1, <1>2, <2>2, <2>3, TokensAssumption
  <2> QED BY <2>4
<1>3. (Keys \cap live) \ Existing = {}
  BY TokensAssumption DEF Init
<1>4. \A p \in Ensurers : pc[p] # "done"
  BY DEF Init, Procs
<1> QED BY <1>1, <1>2, <1>3, <1>4 DEF FileHistory

(* An ensure leaves "idle" for good, and is done only by writing the file.  *)
LEMMA EnsurerMoves ==
  ASSUME IInv, [Next]_vars, NEW q \in Ensurers
  PROVE  /\ pc[q] # "idle" => pc'[q] # "idle"
         /\ \/ pc'[q] = "done" => pc[q] = "done"
            \/ ensured' = ensured \cup {<<Home(q), PolicyOf[q]>>}
<1> USE DEF store
<1>t. TypeOK /\ q \in Procs /\ q \notin Pruners
  BY ProcsAssumption DEF IInv, Procs
<1>1. CASE pc'[q] = pc[q]
  BY <1>1
<1>2. CASE EnsureStart(q) \/ EnsureStep(q)
  BY <1>t, <1>2 DEF EnsureStart, EnsureStep, EnsureRead, EnsureCreate, EnsureAdopt,
     EnsureUpdate, EnsureTemp, EnsureRename, UseFound, Goto, TypeOK
<1>3. ASSUME NEW p \in Ensurers, p # q, EnsureStart(p) \/ EnsureStep(p)
      PROVE  pc'[q] = pc[q]
  BY <1>t, <1>3 DEF EnsureStart, EnsureStep, EnsureRead, EnsureCreate, EnsureAdopt,
     EnsureUpdate, EnsureTemp, EnsureRename, UseFound, Goto, TypeOK
<1>4. ASSUME NEW p \in Pruners, PruneStart(p) \/ PruneStep(p)
      PROVE  pc'[q] = pc[q]
  BY <1>t, <1>4 DEF PruneStart, PruneStep, PruneCheck, PruneList, PruneDelete, Goto, TypeOK
<1>5. ASSUME NEW p \in Procs, Crash(p) \/ Revoke(p)
      PROVE  pc'[q] = "crashed" \/ pc'[q] = pc[q]
  BY <1>t, <1>5 DEF Crash, Revoke, Goto, TypeOK
<1>6. CASE UNCHANGED vars
  BY <1>6 DEF vars
<1> QED BY <1>1, <1>2, <1>3, <1>4, <1>5, <1>6 DEF Next

(* A deterministic token comes from an ensure that is under way.            *)
LEMMA CreatorMoves ==
  ASSUME IInv, [Next]_vars, NEW k \in (Keys \cap live') \ live
  PROVE  \E p \in Ensurers : Home(p) = k /\ pc[p] = "create"
<1> USE DEF store
<1>1. ASSUME NEW p \in Ensurers, EnsureStart(p) \/ EnsureStep(p)
      PROVE  Home(p) = k /\ pc[p] = "create"
  <2>1. EnsureCreate(p) /\ TokenCreate(p, Current(p), PolicyOf[p])
    BY <1>1 DEF EnsureStart, EnsureStep, EnsureRead, EnsureCreate, EnsureAdopt,
       EnsureUpdate, TokenUpdate, EnsureTemp, EnsureRename
  <2>2. k = Current(p) /\ Current(p) = Home(p)
    BY <2>1, HomeIsKey DEF TokenCreate, Procs
  <2> QED BY <2>1, <2>2 DEF EnsureCreate
<1>2. ASSUME NEW p \in Pruners, PruneStart(p) \/ PruneStep(p)
      PROVE  FALSE
  BY <1>2 DEF PruneStart, PruneStep, PruneCheck, PruneList, PruneDelete, TokenDelete
<1>3. ASSUME NEW p \in Procs, Crash(p) \/ Revoke(p)
      PROVE  FALSE
  BY <1>3 DEF Crash, Revoke
<1>4. ~UNCHANGED vars
  BY DEF vars
<1> QED BY <1>1, <1>2, <1>3, <1>4 DEF Next

LEMMA HistoryStep == IInv /\ FileHistory /\ [Next]_vars => FileHistory'
<1> SUFFICES ASSUME IInv, FileHistory, [Next]_vars PROVE FileHistory'
  OBVIOUS
<1>1. /\ TypeOK /\ SecretsAreUnique
      /\ \A t \in Legacy : t \in IDs /\ t \notin Keys
      /\ \A k \in Keys : k \in IDs
      /\ \A t \in Legacy : secret[t] \in Secrets /\ secret'[t] = secret[t]
  BY StoreStep, TokensAssumption DEF IInv, IDs, FileHistory
<1>2. ASSUME NEW k \in Keys, NEW t \in Legacy, file'[k] = secret'[t]
      PROVE  t \in OwnTokens(k)
  <2>1. CASE file'[k] = file[k]
    BY <1>1, <1>2, <2>1 DEF FileHistory
  <2>2. ASSUME NEW p \in Ensurers, file' = [file EXCEPT ![Home(p)] = secret[Home(p)]]
        PROVE  file'[k] = file[k]
    <3>1. Home(p) \in Keys /\ secret[Home(p)] # secret[t]
      BY <1>1, HomeIsKey, TokensAssumption DEF SecretsAreUnique, Procs
    <3> QED BY <1>1, <1>2, <2>2, <3>1 DEF TypeOK
  <2> QED BY <2>1, <2>2, FileChange
<1>3. ASSUME NEW k \in (Keys \cap live') \ Existing
      PROVE  \E p \in Ensurers : Home(p) = k /\ pc'[p] # "idle"
  <2>1. PICK p \in Ensurers : Home(p) = k /\ pc[p] # "idle"
    BY CreatorMoves DEF FileHistory
  <2> QED BY <2>1, EnsurerMoves
<1>4. ASSUME NEW p \in Ensurers, pc'[p] = "done"
      PROVE  \E e \in ensured' : e[1] = Home(p)
  <2>1. ensured \subseteq ensured'
    BY FileChange
  <2>2. CASE pc[p] = "done"
    <3>1. PICK e \in ensured : e[1] = Home(p)
      BY <2>2 DEF FileHistory
    <3> QED BY <2>1, <3>1
  <2>3. CASE ensured' = ensured \cup {<<Home(p), PolicyOf[p]>>}
    <3>1. <<Home(p), PolicyOf[p]>> \in ensured'
      BY <2>3
    <3> QED BY <3>1
  <2>4. pc[p] = "done" \/ ensured' = ensured \cup {<<Home(p), PolicyOf[p]>>}
    BY <1>4, EnsurerMoves
  <2> QED BY <2>2, <2>3, <2>4
<1>5. \A k \in Keys, t \in Legacy : t \in OwnTokens(k) => t \in OwnTokens(k)'
  BY DEF OwnTokens, Names, Home
<1> QED BY <1>1, <1>2, <1>3, <1>4, <1>5 DEF FileHistory

(* Both invariants together confine the loss of a legacy token.             *)
LEMMA LossConfined == IInv /\ FileHistory => LossNeedsUnfinishedEnsure
<1> SUFFICES ASSUME IInv, FileHistory, NamesApart,
                    NEW k \in Keys, NEW t \in Legacy, file[k] = secret[t], t \notin live
             PROVE  /\ k \in live
                    /\ \A p \in Ensurers : Home(p) = k => pc[p] # "done"
                    /\ \/ k \in Existing
                       \/ \E p \in Ensurers : Home(p) = k /\ pc[p] # "idle"
  BY DEF LossNeedsUnfinishedEnsure
<1>1. /\ k[2] \in Nodes /\ k = <<k[1], k[2]>>
      /\ t \in IDs /\ k \in IDs /\ t # k /\ t \notin Keys
  BY TokensAssumption DEF Keys, IDs
<1>2. /\ LegacyDescription[t].service \in Names(k)
      /\ LegacyDescription[t].hosts \subseteq HostnamesOf[k[2]]
      /\ LegacyDescription[t].hosts # {}
  BY <1>1, TokensAssumption DEF FileHistory, OwnTokens
<1>3. PICK p \in Pruners : /\ Current(p) \in live
                           /\ LegacyDescription[t].service \in LegacyNames(p)
                           /\ LegacyDescription[t].hosts \subseteq HostnamesOf[NodeOf[p]]
  BY DEF IInv, PrunedAreReplaced
<1>4. NodeOf[p] = k[2]
  <2>1. HostnamesOf[NodeOf[p]] \cap HostnamesOf[k[2]] # {}
    BY <1>2, <1>3
  <2> QED BY <1>1, <2>1, HostnamesAssumption, ProcsAssumption DEF Procs
<1>5. k \in live
  BY <1>2, <1>3, <1>4, HomeIsKey DEF NamesApart, Procs
<1>6. ASSUME NEW q \in Ensurers, Home(q) = k, pc[q] = "done"
      PROVE  FALSE
  <2>1. PICK e \in ensured : e[1] = k
    BY <1>6 DEF FileHistory
  <2>2. file[k] = secret[k]
    BY <1>1, <2>1 DEF IInv, EnsuredFileIsLive, AccessorID
  <2>3. secret[k] = secret[t]
    BY <2>2
  <2>4. secret[t] # NoSecret
    BY TokensAssumption DEF FileHistory
  <2> QED BY <1>1, <2>3, <2>4 DEF IInv, SecretsAreUnique
<1> QED BY <1>5, <1>6 DEF FileHistory

(* A service whose file names a deleted legacy token has an ensure that     *)
(* created its token and did not get to write the file; the prune that      *)
(* deleted the legacy token saw the new one, as the code asks.              *)
THEOREM LossStaysConfined == Spec => []LossNeedsUnfinishedEnsure
<1> QED BY HistoryInit, HistoryStep, LossConfined, Invariance, PTL DEF Spec

-----------------------------------------------------------------------------
(* The commands implement ServiceIdentity.                                  *)

Issued == [k \in Keys |-> IF k \in live THEN secret[k] ELSE NoSecret]

(* An initial state shows one of ServiceIdentity.                           *)
LEMMA IdentityInit == Init => Identity!Init
<1> SUFFICES ASSUME Init PROVE Identity!Init
  OBVIOUS
<1>1. TypeOK
  BY TypeInit
<1>2. Issued \in [Keys -> Secrets \cup {NoSecret}]
  BY <1>1 DEF TypeOK, Issued, IDs
<1> QED BY <1>1, <1>2 DEF Identity!Init, TypeOK, Issued

(* EnsureCreate issues, EnsureRename publishes, PruneDelete retires.        *)
LEMMA IdentityStep == IInv /\ [Next]_vars => [Identity!Next]_(Identity!vars)
<1> SUFFICES ASSUME IInv, [Next]_vars
             PROVE  Identity!Next \/ UNCHANGED Identity!vars
  OBVIOUS
<1> USE DEF store
<1>t. TypeOK /\ SecretsAreUnique /\ Keys \subseteq IDs /\ Keys \cap Legacy = {}
  BY TokensAssumption DEF IInv, IDs
<1>1. CASE UNCHANGED <<live, secret, file>>
  BY <1>1 DEF Identity!vars
<1>2. ASSUME NEW p \in Ensurers, EnsureCreate(p), TokenCreate(p, Current(p), PolicyOf[p])
      PROVE  Identity!Next
  <2>1. Current(p) \in Keys /\ Current(p) \notin live
    BY <1>2, HomeIsKey DEF TokenCreate, Procs
  <2>2. /\ live' = live \cup {Current(p)}
        /\ \A id \in IDs : id # Current(p) => secret'[id] = secret[id]
        /\ secret'[Current(p)] \in Secrets
        /\ \A id \in IDs : secret[id] # secret'[Current(p)]
    BY <1>2, <1>t, CreateEffect
  <2>3. Issued[Current(p)] = NoSecret
    BY <2>1 DEF Issued
  <2>4. Issued' = [Issued EXCEPT ![Current(p)] = secret'[Current(p)]]
    BY <2>1, <2>2, <1>t DEF Issued
  <2>5. \A l \in Keys : Issued[l] # secret'[Current(p)]
    BY <2>2, <1>t, TokensAssumption DEF Issued
  <2>6. UNCHANGED <<live \cap Legacy, file>>
    BY <1>2, <2>1, <2>2, <1>t DEF EnsureCreate
  <2>7. Identity!Issue(Current(p))
    BY <2>2, <2>3, <2>4, <2>5, <2>6 DEF Identity!Issue, Issued
  <2> QED BY <2>1, <2>7 DEF Identity!Next
<1>3. ASSUME NEW p \in Ensurers,
             Home(p) \in live,
             file' = [file EXCEPT ![Home(p)] = secret[Home(p)]],
             UNCHANGED <<live, secret>>
      PROVE  Identity!Next
  <2>1. Home(p) \in Keys
    BY HomeIsKey DEF Procs
  <2>2. Issued[Home(p)] = secret[Home(p)] /\ secret[Home(p)] # NoSecret
    BY <1>3, <2>1, <1>t, TokensAssumption DEF Issued, SecretsAreUnique
  <2>3. Identity!Publish(Home(p))
    BY <1>3, <2>2 DEF Identity!Publish, Issued
  <2> QED BY <2>1, <2>3 DEF Identity!Next
<1>4. ASSUME NEW p \in Pruners, NEW t \in todo[p], PruneDelete(p), TokenDelete(p, t)
      PROVE  Identity!Next \/ UNCHANGED Identity!vars
  <2>1. /\ Current(p) = Home(p) /\ Home(p) \in Keys /\ Home(p) \in live
        /\ t \in Legacy
        /\ isLegacyServiceToken(t, LegacyNames(p), HostnamesOf[NodeOf[p]])
    BY <1>4, HomeIsKey DEF PruneDelete, IInv, ListIsOwnLegacy, Procs
  <2>2. <<Home(p), t>> \in Replaces
    BY <2>1 DEF Replaces
  <2>3. Issued[Home(p)] # NoSecret
    BY <2>1, <1>t, TokensAssumption DEF Issued, SecretsAreUnique
  <2>4. /\ live' = live \ {t} /\ UNCHANGED <<secret, file>>
        /\ (live \cap Legacy)' = (live \cap Legacy) \ {t}
    BY <1>4 DEF PruneDelete, TokenDelete
  <2>5. Issued' = Issued
    BY <2>1, <2>4, <1>t DEF Issued
  <2>6. CASE t \in live
    <3>1. Identity!Retire(Home(p), t)
      BY <2>2, <2>3, <2>4, <2>5 DEF Identity!Retire, Issued
    <3> QED BY <2>1, <2>6, <3>1 DEF Identity!Next
  <2>7. CASE t \notin live
    <3>1. live' = live
      BY <2>4, <2>7
    <3> QED BY <2>4, <3>1 DEF Identity!vars
  <2> QED BY <2>6, <2>7
<1>5. ASSUME NEW p \in Ensurers, EnsureStart(p) \/ EnsureStep(p)
      PROVE  \/ UNCHANGED <<live, secret, file>>
             \/ EnsureCreate(p) /\ TokenCreate(p, Current(p), PolicyOf[p])
             \/ EnsureRename(p)
  BY <1>5 DEF EnsureStart, EnsureStep, EnsureRead, EnsureCreate, EnsureAdopt,
     EnsureUpdate, TokenUpdate, EnsureTemp
<1>6. ASSUME NEW p \in Ensurers, EnsureRename(p)
      PROVE  Identity!Next \/ UNCHANGED Identity!vars
  <2>1. UNCHANGED <<live, secret>>
    BY <1>6 DEF EnsureRename
  <2> QED BY <1>1, <1>3, <2>1, FileChange
<1>7. ASSUME NEW p \in Pruners, PruneStart(p) \/ PruneStep(p)
      PROVE  \/ UNCHANGED <<live, secret, file>>
             \/ PruneDelete(p) /\ \E t \in todo[p] : TokenDelete(p, t)
  BY <1>7 DEF PruneStart, PruneStep, PruneCheck, PruneList, PruneDelete
<1>8. ASSUME NEW p \in Procs, Crash(p) \/ Revoke(p)
      PROVE  UNCHANGED <<live, secret, file>>
  BY <1>8 DEF Crash, Revoke
<1>9. UNCHANGED vars => UNCHANGED <<live, secret, file>>
  BY DEF vars
<1> QED BY <1>1, <1>2, <1>4, <1>5, <1>6, <1>7, <1>8, <1>9 DEF Next

(* Every behaviour of the ensures and prunes is one of ServiceIdentity: for *)
(* its readers, the command line tools of all the nodes together behave     *)
(* like a store that gives each service on each node one secret.            *)
THEOREM Implementation == Spec => ImplementsIdentity
<1>1. Init => Identity!Init
  BY IdentityInit
<1>2. IInv /\ [Next]_vars => [Identity!Next]_(Identity!vars)
  BY IdentityStep
<1> QED BY <1>1, <1>2, Invariance, PTL DEF Spec, ImplementsIdentity, Identity!Spec
=============================================================================
