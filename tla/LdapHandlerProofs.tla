-------------------------- MODULE LdapHandlerProofs --------------------------
(* Theorems about LdapHandler, for any clients, any lists of URLs, and any  *)
(* servers and contents.                                                    *)
EXTENDS LdapHandler, TLAPS

-----------------------------------------------------------------------------
(* The lists of URLs.                                                       *)

(* MasterUrls and ReplicaUrls are sequences of URLs.                        *)
LEMMA ListsType == MasterUrls \in Seq(Urls) /\ ReplicaUrls \in Seq(Urls)
  BY UrlsAssumption DEF Urls

(* An operation that writes is given the masters only.                      *)
LEMMA WritersAskMasters ==
  ASSUME NEW o \in Operations, Changes(o) \/ o.do = "checkwrite"
  PROVE  /\ UrlsOf(o) \in Seq(Urls)
         /\ \A i \in DOMAIN UrlsOf(o) : UrlsOf(o)[i] \in Masters
         /\ \A u \in Masters : \E i \in DOMAIN UrlsOf(o) : UrlsOf(o)[i] = u
  BY ListsType DEF UrlsOf, Masters

(* Any other is given the masters, and after them the replicas.             *)
LEMMA ReadersAskMastersFirst ==
  ASSUME NEW o \in Operations, ~(Changes(o) \/ o.do = "checkwrite")
  PROVE  /\ UrlsOf(o) \in Seq(Urls)
         /\ \A u \in Masters : \E i \in DOMAIN UrlsOf(o) :
              i \in 1..Len(MasterUrls) /\ UrlsOf(o)[i] = u
         /\ \A i \in DOMAIN UrlsOf(o) : i <= Len(MasterUrls) => UrlsOf(o)[i] \in Masters
         /\ \A u \in Urls : \E i \in DOMAIN UrlsOf(o) : UrlsOf(o)[i] = u
<1>1. UrlsOf(o) = MasterUrls \o ReplicaUrls
  BY DEF UrlsOf
<1> DEFINE all == MasterUrls \o ReplicaUrls
<1>2. /\ all \in Seq(Urls)
      /\ Len(all) = Len(MasterUrls) + Len(ReplicaUrls)
      /\ \A i \in 1..Len(MasterUrls) : i \in DOMAIN all /\ all[i] = MasterUrls[i]
      /\ \A i \in 1..Len(ReplicaUrls) :
           /\ Len(MasterUrls) + i \in DOMAIN all
           /\ all[Len(MasterUrls) + i] = ReplicaUrls[i]
  BY ListsType
<1>3. \A u \in Masters : \E i \in DOMAIN all : i \in 1..Len(MasterUrls) /\ all[i] = u
  <2> SUFFICES ASSUME NEW u \in Masters
               PROVE  \E i \in DOMAIN all : i \in 1..Len(MasterUrls) /\ all[i] = u
    OBVIOUS
  <2>1. PICK i \in DOMAIN MasterUrls : MasterUrls[i] = u
    BY DEF Masters
  <2>2. i \in 1..Len(MasterUrls)
    BY <2>1, ListsType
  <2> QED BY <2>1, <2>2, <1>2
<1>4. \A i \in DOMAIN all : i <= Len(MasterUrls) => all[i] \in Masters
  BY <1>2, ListsType DEF Masters
<1>5. \A u \in Urls : \E i \in DOMAIN all : all[i] = u
  <2> SUFFICES ASSUME NEW u \in Replicas PROVE \E i \in DOMAIN all : all[i] = u
    BY <1>3 DEF Urls
  <2>1. PICK i \in DOMAIN ReplicaUrls : ReplicaUrls[i] = u
    BY DEF Replicas
  <2>2. i \in 1..Len(ReplicaUrls)
    BY <2>1, ListsType
  <2> QED BY <2>1, <2>2, <1>2
<1> HIDE DEF all
<1> QED BY <1>1, <1>2, <1>3, <1>4, <1>5 DEF all

(* The URL at an index is a URL, and a master for those who write.          *)
LEMMA UrlType ==
  ASSUME NEW o \in Operations, NEW i \in DOMAIN UrlsOf(o)
  PROVE  UrlsOf(o)[i] \in Urls /\ (Changes(o) => UrlsOf(o)[i] \in Masters)
  BY WritersAskMasters, ReadersAskMastersFirst

LEMMA UrlsOfType ==
  ASSUME NEW o \in Operations
  PROVE  UrlsOf(o) \in Seq(Urls)
  BY WritersAskMasters, ReadersAskMastersFirst

-----------------------------------------------------------------------------
(* The directory.                                                           *)

(* A change leads to a state of the directory.                              *)
LEMMA ApplyType ==
  ASSUME NEW o \in Operations, NEW d \in States
  PROVE  Apply(o, d) \in States
  BY DEF Apply, States, Operations

(* After a change the directory is as the change wants it.                  *)
LEMMA ApplyIsIdempotent ==
  ASSUME NEW o \in Operations, NEW d \in States
  PROVE  Apply(o, Apply(o, d)) = Apply(o, d)
  BY DEF Apply, States, Operations

(* A change that is not needed changes nothing.                             *)
LEMMA NotNeeded ==
  ASSUME NEW o \in Operations, NEW d \in States, o.do \in {"add", "remove"},
         ~IsNeeded(o, d)
  PROVE  Apply(o, d) = d
  BY DEF Apply, States, Operations, IsNeeded

-----------------------------------------------------------------------------
(* The invariant.                                                           *)

LEMMA InitialInv == Init => LdapInv
<1> SUFFICES ASSUME Init PROVE LdapInv
  OBVIOUS
<1>1. PICK d \in States : history = <<d>>
  BY DEF Init
<1>2. history \in Seq(States) /\ Len(history) = 1 /\ history # <<>>
  BY <1>1
<1>3. /\ op \in [Clients -> Operations]
      /\ pc \in [Clients -> Ended \cup {"connect", "bind", "search", "modify"}]
      /\ at \in [Clients -> Nat]
      /\ calls \in [Clients -> Nat]
  BY DEF Init, Operations, Ended
<1>4. /\ shown \in [Replicas -> DOMAIN history]
      /\ seen \in [Clients -> 0..Len(history)]
      /\ began \in [Clients -> DOMAIN history]
  BY <1>1, <1>2 DEF Init
<1>5. up \subseteq Urls /\ steady \in [Clients -> SUBSET up]
  BY DEF Init
<1>6. \A c \in Clients : pc[c] = "idle"
  BY DEF Init
<1>7. TypeOK
  BY <1>2, <1>3, <1>4, <1>5, <1>6 DEF TypeOK
<1>8. PassedOver
  BY <1>6 DEF PassedOver, Ended
<1>9. StepFits /\ ReadsAreCurrent /\ SuccessTookEffect
  BY <1>6 DEF StepFits, ReadsAreCurrent, SuccessTookEffect
<1> QED BY <1>7, <1>8, <1>9 DEF LdapInv

(* What holds of the URL a client is connected to.                          *)
LEMMA Connected ==
  ASSUME TypeOK, NEW c \in Clients, pc[c] \in {"bind", "search", "modify"}
  PROVE  /\ Url(c) \in Urls
         /\ Changes(op[c]) => Url(c) \in Masters
         /\ Position(Url(c)) \in DOMAIN history
<1>1. Url(c) \in Urls /\ (Changes(op[c]) => Url(c) \in Masters)
  BY UrlType DEF TypeOK, Url
<1>2. Len(history) \in DOMAIN history
  BY DEF TypeOK
<1> QED BY <1>1, <1>2 DEF Position, TypeOK, Urls

(* A client that is connected to a replica has passed over every master.    *)
LEMMA ReplicaIsLast ==
  ASSUME TypeOK, PassedOver, NEW c \in Clients, pc[c] = "search", Url(c) \notin Masters
  PROVE  steady[c] \cap Masters = {}
<1>1. op[c] \in Operations /\ at[c] \in DOMAIN UrlsOf(op[c]) /\ at[c] \in Nat
  BY DEF TypeOK
<1>2. ~(Changes(op[c]) \/ op[c].do = "checkwrite")
  BY <1>1, WritersAskMasters DEF Url
<1>3. at[c] > Len(MasterUrls)
  BY <1>1, <1>2, ReadersAskMastersFirst, ListsType DEF Url
<1>4. \A u \in Masters : \E i \in DOMAIN UrlsOf(op[c]) : i < at[c] /\ UrlsOf(op[c])[i] = u
  <2> SUFFICES ASSUME NEW u \in Masters
               PROVE  \E i \in DOMAIN UrlsOf(op[c]) : i < at[c] /\ UrlsOf(op[c])[i] = u
    OBVIOUS
  <2>1. PICK i \in DOMAIN UrlsOf(op[c]) :
               i \in 1..Len(MasterUrls) /\ UrlsOf(op[c])[i] = u
    BY <1>1, <1>2, ReadersAskMastersFirst
  <2>2. i < at[c]
    BY <2>1, <1>1, <1>3, ListsType
  <2> QED BY <2>1, <2>2
<1> QED BY <1>4 DEF PassedOver, Ended

-----------------------------------------------------------------------------
(* The steps.                                                               *)

(* Appending a state keeps those that were there.                           *)
LEMMA Appended ==
  ASSUME TypeOK, NEW d \in States, history' = Append(history, d)
  PROVE  /\ history' \in Seq(States) /\ history' # <<>>
         /\ Len(history') = Len(history) + 1
         /\ history'[Len(history')] = d
         /\ \A i \in DOMAIN history : i \in DOMAIN history' /\ history'[i] = history[i]
  BY DEF TypeOK

LEMMA CurrentType == TypeOK => Current \in States /\ Len(history) \in DOMAIN history
  BY DEF TypeOK, Current

(* A call.                                                                  *)
LEMMA CallKeepsInv ==
  ASSUME LdapInv, NEW c \in Clients, Call(c)
  PROVE  LdapInv'
<1>1. PICK o \in MayCall[c] : op' = [op EXCEPT ![c] = o]
  BY DEF Call
<1>2. o \in Operations
  BY <1>1, UrlsAssumption
<1>3. TypeOK'
  <2>1. op' \in [Clients -> Operations]
    BY <1>1, <1>2 DEF LdapInv, TypeOK
  <2>2. /\ pc' \in [Clients -> Ended \cup {"connect", "bind", "search", "modify"}]
        /\ at' \in [Clients -> Nat]
        /\ calls' \in [Clients -> Nat]
    BY DEF LdapInv, TypeOK, Call, Goto
  <2>3. /\ seen' \in [Clients -> 0..Len(history)]
        /\ began' \in [Clients -> DOMAIN history]
    BY DEF LdapInv, TypeOK, Call
  <2>4. steady' \in [Clients -> SUBSET up]
    BY DEF LdapInv, TypeOK, Call
  <2>5. \A k \in Clients :
          /\ pc'[k] = "connect" => at'[k] >= 1
          /\ pc'[k] \in {"bind", "search", "modify"} => at'[k] \in DOMAIN UrlsOf(op'[k])
    BY <1>1 DEF LdapInv, TypeOK, Call, Goto
  <2> QED BY <2>1, <2>2, <2>3, <2>4, <2>5 DEF LdapInv, TypeOK, Call
<1>4. PassedOver'
  <2> SUFFICES ASSUME NEW k \in Clients, pc'[k] \notin Ended,
                      NEW i \in DOMAIN UrlsOf(op'[k]), i < at'[k]
               PROVE  UrlsOf(op'[k])[i] \notin steady'[k]
    BY DEF PassedOver
  <2>1. CASE k = c
    <3>1. op'[c] \in Operations /\ at'[c] = 1
      BY <1>3 DEF TypeOK, Call, LdapInv
    <3>2. UrlsOf(op'[c]) \in Seq(Urls)
      BY <3>1, UrlsOfType
    <3> QED BY <2>1, <3>1, <3>2
  <2>2. CASE k # c
    BY <2>2 DEF LdapInv, TypeOK, PassedOver, Call, Goto
  <2> QED BY <2>1, <2>2
<1>5. StepFits'
  BY DEF LdapInv, TypeOK, StepFits, Call, Goto
<1>6. ReadsAreCurrent'
  BY DEF LdapInv, TypeOK, ReadsAreCurrent, Call, Goto
<1>7. SuccessTookEffect'
  BY DEF LdapInv, TypeOK, SuccessTookEffect, Call, Goto
<1> QED BY <1>3, <1>4, <1>5, <1>6, <1>7 DEF LdapInv

(* A turn of the loop: a URL is passed over because it cannot be reached.   *)
LEMMA ConnectKeepsInv ==
  ASSUME LdapInv, NEW c \in Clients, Connect(c)
  PROVE  LdapInv'
<1>1. UrlsOf(op[c]) \in Seq(Urls) /\ at[c] \in Nat /\ at[c] >= 1
  BY UrlsOfType DEF LdapInv, TypeOK, Connect, past
<1>2. \/ pc' = [pc EXCEPT ![c] = "failed"] /\ at' = at
      \/ pc' = [pc EXCEPT ![c] = "bind"] /\ at' = at /\ ~AllTried(c)
      \/ pc' = pc /\ at' = [at EXCEPT ![c] = @ + 1]
  BY DEF Connect, Goto
<1>3. /\ pc' \in [Clients -> Ended \cup {"connect", "bind", "search", "modify"}]
      /\ at' \in [Clients -> Nat]
      /\ \A k \in Clients :
           /\ pc'[k] = "connect" => at'[k] >= 1
           /\ pc'[k] \in {"bind", "search", "modify"} => at'[k] \in DOMAIN UrlsOf(op[k])
  <2>1. CASE pc' = [pc EXCEPT ![c] = "failed"] /\ at' = at
    BY <2>1 DEF LdapInv, TypeOK, Ended
  <2>2. CASE pc' = [pc EXCEPT ![c] = "bind"] /\ at' = at /\ ~AllTried(c)
    BY <1>1, <2>2 DEF LdapInv, TypeOK, AllTried
  <2>3. CASE pc' = pc /\ at' = [at EXCEPT ![c] = @ + 1]
    BY <1>1, <2>3 DEF LdapInv, TypeOK, Connect
  <2> QED BY <1>2, <2>1, <2>2, <2>3
<1>4. TypeOK'
  BY <1>2, <1>3 DEF LdapInv, TypeOK, Connect, past
<1>5. PassedOver'
  <2> SUFFICES ASSUME NEW k \in Clients, pc'[k] \notin Ended,
                      NEW i \in DOMAIN UrlsOf(op[k]), i < at'[k]
               PROVE  UrlsOf(op[k])[i] \notin steady[k]
    BY DEF PassedOver, Connect, past
  <2>1. CASE k # c
    BY <2>1 DEF LdapInv, TypeOK, PassedOver, Connect, past, Goto
  <2>2. CASE k = c /\ at'[c] = at[c]
    BY <2>2 DEF LdapInv, TypeOK, PassedOver, Connect, past, Ended
  <2>3. CASE k = c /\ at'[c] # at[c]
    <3>1. at'[c] = at[c] + 1 /\ Url(c) \notin up
      BY <2>3 DEF LdapInv, TypeOK, Connect, past
    <3>2. i \in Nat
      BY <1>1, <2>3
    <3>3. CASE i = at[c]
      BY <2>3, <3>1, <3>3 DEF Url, LdapInv, TypeOK
    <3>4. CASE i < at[c]
      BY <2>3, <3>4 DEF LdapInv, PassedOver, Connect, past, Ended
    <3> QED BY <3>1, <3>2, <3>3, <3>4, <1>1, <2>3
  <2> QED BY <2>1, <2>2, <2>3
<1>6. StepFits'
  BY DEF LdapInv, TypeOK, StepFits, Connect, past, Goto
<1>7. ReadsAreCurrent'
  BY DEF LdapInv, TypeOK, ReadsAreCurrent, Connect, past, Goto
<1>8. SuccessTookEffect'
  BY DEF LdapInv, TypeOK, SuccessTookEffect, Connect, past, Goto
<1> QED BY <1>4, <1>5, <1>6, <1>7, <1>8 DEF LdapInv

(* The bind.                                                                *)
LEMMA BindKeepsInv ==
  ASSUME LdapInv, NEW c \in Clients, Bind(c)
  PROVE  LdapInv'
<1>1. op[c] \in Operations
  BY DEF LdapInv, TypeOK
<1>2. pc[c] = "bind" /\ pc'[c] \in {"done", "failed", "search", "modify"}
  BY DEF LdapInv, TypeOK, Bind, past, Goto
<1>3. /\ pc' \in [Clients -> Ended \cup {"connect", "bind", "search", "modify"}]
      /\ \A k \in Clients \ {c} : pc'[k] = pc[k]
  BY <1>2 DEF LdapInv, TypeOK, Bind, past, Goto, Ended
<1>4. /\ pc'[c] = "search" => op[c].do \in {"add", "remove", "query", "download"}
      /\ pc'[c] = "modify" => Changes(op[c])
      /\ pc'[c] = "done" => ~Changes(op[c]) /\ ~Reads(op[c])
  BY <1>1 DEF LdapInv, TypeOK, Bind, past, Goto, Operations, Changes, Reads
<1>5. TypeOK'
  BY <1>2, <1>3 DEF LdapInv, TypeOK, Bind, past
<1>6. PassedOver'
  BY <1>2, <1>3 DEF LdapInv, PassedOver, Bind, past, Ended
<1>7. StepFits'
  BY <1>3, <1>4 DEF LdapInv, StepFits, Bind, past
<1>8. ReadsAreCurrent'
  BY <1>3, <1>4 DEF LdapInv, ReadsAreCurrent, Bind, past
<1>9. SuccessTookEffect'
  BY <1>3, <1>4 DEF LdapInv, SuccessTookEffect, Bind, past
<1> QED BY <1>5, <1>6, <1>7, <1>8, <1>9 DEF LdapInv

(* The search: at a master it shows the current state; an add or a remove   *)
(* that is not needed finds the directory as it wants it.                   *)
LEMMA SearchKeepsInv ==
  ASSUME LdapInv, NEW c \in Clients, Search(c)
  PROVE  LdapInv'
<1> DEFINE i == Position(Url(c))
<1>1. /\ op[c] \in Operations /\ pc[c] = "search"
      /\ op[c].do \in {"add", "remove", "query", "download"}
  BY DEF LdapInv, TypeOK, StepFits, Search
<1>2. /\ i \in DOMAIN history /\ i \in 1..Len(history) /\ history[i] \in States
      /\ Changes(op[c]) => Url(c) \in Masters
  BY <1>1, Connected DEF LdapInv, TypeOK
<1>3. began[c] \in 1..Len(history)
  BY DEF LdapInv, TypeOK
<1>4. /\ pc'[c] \in {"done", "failed", "modify"}
      /\ pc' \in [Clients -> Ended \cup {"connect", "bind", "search", "modify"}]
      /\ \A k \in Clients \ {c} : pc'[k] = pc[k]
  <2>1. \/ pc' = [pc EXCEPT ![c] = "done"]
        \/ pc' = [pc EXCEPT ![c] = "failed"]
        \/ pc' = [pc EXCEPT ![c] = "modify"]
    BY DEF Search, Goto
  <2>2. pc \in [Clients -> Ended \cup {"connect", "bind", "search", "modify"}]
    BY DEF LdapInv, TypeOK
  <2> QED BY <2>1, <2>2 DEF Ended
<1>5. /\ seen' \in [Clients -> 0..Len(history)]
      /\ \A k \in Clients \ {c} : seen'[k] = seen[k]
      /\ pc'[c] # "failed" => seen'[c] = i
  <2>1. \/ seen' = [seen EXCEPT ![c] = i]
        \/ pc' = [pc EXCEPT ![c] = "failed"] /\ seen' = seen
    BY DEF Search, Goto
  <2>2. /\ pc \in [Clients -> Ended \cup {"connect", "bind", "search", "modify"}]
        /\ seen \in [Clients -> 0..Len(history)]
        /\ i \in 0..Len(history)
    BY <1>2 DEF LdapInv, TypeOK
  <2> HIDE DEF i
  <2>3. CASE seen' = [seen EXCEPT ![c] = i]
    BY <2>2, <2>3
  <2>4. CASE pc' = [pc EXCEPT ![c] = "failed"] /\ seen' = seen
    BY <2>2, <2>4
  <2> QED BY <2>1, <2>3, <2>4
<1>6. /\ pc'[c] = "modify" => Changes(op[c])
      /\ pc'[c] = "done" /\ Changes(op[c]) => ~IsNeeded(op[c], history[i])
  BY <1>1 DEF LdapInv, TypeOK, Search, Goto, Changes, Reads
<1> HIDE DEF i
<1>7. TypeOK'
  BY <1>1, <1>4, <1>5 DEF LdapInv, TypeOK, Search
<1>8. PassedOver'
  BY <1>1, <1>4 DEF LdapInv, PassedOver, Search, Ended
<1>9. StepFits'
  BY <1>4, <1>6 DEF LdapInv, StepFits, Search
<1>10. ReadsAreCurrent'
  <2>1. CASE Url(c) \in Masters
    <3>1. i = Len(history)
      BY <2>1 DEF i, Position
    <3> QED BY <1>3, <1>4, <1>5, <3>1 DEF LdapInv, ReadsAreCurrent, Search
  <2>2. CASE Url(c) \notin Masters
    <3>1. steady[c] \cap Masters = {}
      BY <1>1, <2>2, ReplicaIsLast DEF LdapInv
    <3> QED BY <1>4, <1>5, <3>1 DEF LdapInv, ReadsAreCurrent, Search
  <2> QED BY <2>1, <2>2
<1>11. SuccessTookEffect'
  <2> SUFFICES ASSUME NEW k \in Clients, pc'[k] = "done", Changes(op[k])
               PROVE  \E j \in began[k]..Len(history) : Apply(op[k], history[j]) = history[j]
    BY DEF SuccessTookEffect, Search
  <2>1. CASE k # c
    BY <2>1, <1>4 DEF LdapInv, SuccessTookEffect
  <2>2. CASE k = c
    <3>1. i = Len(history)
      BY <2>2, <1>2 DEF i, Position
    <3>2. op[c].do \in {"add", "remove"} /\ ~IsNeeded(op[c], history[i])
      BY <2>2, <1>1, <1>6 DEF Changes
    <3>3. Apply(op[c], history[i]) = history[i]
      BY <3>2, <1>1, <1>2, NotNeeded
    <3>4. i \in began[c]..Len(history)
      BY <3>1, <1>2, <1>3
    <3> QED BY <2>2, <3>3, <3>4
  <2> QED BY <2>1, <2>2
<1> QED BY <1>7, <1>8, <1>9, <1>10, <1>11 DEF LdapInv

(* The modification: the new state is as the change wants it.               *)
LEMMA ModifyKeepsInv ==
  ASSUME LdapInv, NEW c \in Clients, Modify(c)
  PROVE  LdapInv'
<1> DEFINE d == Apply(op[c], Current)
<1>1. op[c] \in Operations /\ pc[c] = "modify" /\ Changes(op[c])
  BY DEF LdapInv, TypeOK, StepFits, Modify
<1>2. Current \in States /\ d \in States /\ Apply(op[c], d) = d
  BY <1>1, CurrentType, ApplyType, ApplyIsIdempotent DEF LdapInv
<1>3. /\ pc'[c] \in {"done", "failed"}
      /\ pc' \in [Clients -> Ended \cup {"connect", "bind", "search", "modify"}]
      /\ \A k \in Clients \ {c} : pc'[k] = pc[k]
  BY DEF LdapInv, TypeOK, Modify, Goto, Ended
<1>4. /\ history' \in Seq(States) /\ history' # <<>>
      /\ Len(history') >= Len(history)
      /\ \A i \in DOMAIN history : i \in DOMAIN history' /\ history'[i] = history[i]
      /\ pc'[c] = "done" => Len(history') = Len(history) + 1 /\ history'[Len(history')] = d
  <2>1. CASE history' = Append(history, d)
    BY <1>2, <2>1, Appended DEF LdapInv
  <2>2. CASE history' = history /\ pc'[c] = "failed"
    BY <2>2 DEF LdapInv, TypeOK
  <2> QED BY <2>1, <2>2 DEF Modify, Goto, LdapInv, TypeOK
<1> HIDE DEF d
<1>5. history \in Seq(States) /\ Len(history) \in Nat /\ Len(history') \in Nat
  BY <1>4 DEF LdapInv, TypeOK
<1>6. /\ shown' \in [Replicas -> DOMAIN history']
      /\ seen' \in [Clients -> 0..Len(history')]
      /\ began' \in [Clients -> DOMAIN history']
  BY <1>4, <1>5 DEF LdapInv, TypeOK, Modify, past
<1>7. TypeOK'
  BY <1>3, <1>4, <1>6 DEF LdapInv, TypeOK, Modify, past
<1>8. PassedOver'
  BY <1>1, <1>3 DEF LdapInv, PassedOver, Modify, Ended, past
<1>9. StepFits'
  BY <1>3 DEF LdapInv, StepFits, Modify
<1>10. ReadsAreCurrent'
  BY <1>1, <1>3 DEF LdapInv, ReadsAreCurrent, Modify, past, Changes, Reads
<1>11. SuccessTookEffect'
  <2> SUFFICES ASSUME NEW k \in Clients, pc'[k] = "done", Changes(op[k])
               PROVE  \E j \in began[k]..Len(history') : Apply(op[k], history'[j]) = history'[j]
    BY DEF SuccessTookEffect, Modify, past
  <2>1. began[k] \in 1..Len(history)
    BY DEF LdapInv, TypeOK
  <2>2. CASE k # c
    <3>1. PICK j \in began[k]..Len(history) : Apply(op[k], history[j]) = history[j]
      BY <2>2, <1>3 DEF LdapInv, SuccessTookEffect
    <3>2. CASE j \in DOMAIN history
      BY <3>1, <3>2, <2>1, <1>4, <1>5
    <3>3. CASE j \notin DOMAIN history
      BY <3>1, <3>3, <2>1, <1>4, <1>5
    <3> QED BY <3>2, <3>3
  <2>3. CASE k = c
    BY <2>1, <2>3, <1>2, <1>4, <1>5
  <2> QED BY <2>2, <2>3
<1> QED BY <1>7, <1>8, <1>9, <1>10, <1>11 DEF LdapInv

(* The directory comes and goes, and replicates.                            *)
LEMMA EnvironmentKeepsInv ==
  ASSUME LdapInv,
         \/ \E u \in Urls : Appear(u) \/ Vanish(u)
         \/ \E u \in Replicas : Replicate(u)
  PROVE  LdapInv'
<1>1. ASSUME NEW u \in Urls, Appear(u) PROVE LdapInv'
  <2>1. steady \in [Clients -> SUBSET up']
    BY <1>1 DEF LdapInv, TypeOK, Appear
  <2>2. TypeOK'
    BY <1>1, <2>1 DEF LdapInv, TypeOK, Appear, client, past
  <2> QED BY <1>1, <2>2 DEF LdapInv, PassedOver, StepFits, ReadsAreCurrent,
             SuccessTookEffect, Appear, client, past
<1>2. ASSUME NEW u \in Urls, Vanish(u) PROVE LdapInv'
  <2>1. /\ steady' \in [Clients -> SUBSET up']
        /\ \A c \in Clients : steady'[c] \subseteq steady[c]
    BY <1>2 DEF LdapInv, TypeOK, Vanish
  <2>2. TypeOK'
    BY <1>2, <2>1 DEF LdapInv, TypeOK, Vanish, client
  <2>3. PassedOver'
    BY <1>2, <2>1 DEF LdapInv, PassedOver, Vanish, client
  <2>4. ReadsAreCurrent'
    BY <1>2, <2>1 DEF LdapInv, ReadsAreCurrent, Vanish, client
  <2> QED BY <1>2, <2>2, <2>3, <2>4 DEF LdapInv, StepFits, SuccessTookEffect, Vanish, client
<1>3. ASSUME NEW u \in Replicas, Replicate(u) PROVE LdapInv'
  <2>1. shown' \in [Replicas -> DOMAIN history]
    BY <1>3 DEF LdapInv, TypeOK, Replicate
  <2>2. TypeOK'
    BY <1>3, <2>1 DEF LdapInv, TypeOK, Replicate, client, past
  <2> QED BY <1>3, <2>2 DEF LdapInv, PassedOver, StepFits, ReadsAreCurrent,
             SuccessTookEffect, Replicate, client, past
<1> QED BY <1>1, <1>2, <1>3

LEMMA StepKeepsInv == LdapInv /\ [Next]_vars => LdapInv'
<1> SUFFICES ASSUME LdapInv, [Next]_vars PROVE LdapInv'
  OBVIOUS
<1>1. CASE \E c \in Clients : Call(c) \/ Step(c)
  BY <1>1, CallKeepsInv, ConnectKeepsInv, BindKeepsInv, SearchKeepsInv, ModifyKeepsInv DEF Step
<1>2. CASE \/ \E u \in Urls : Appear(u) \/ Vanish(u)
           \/ \E u \in Replicas : Replicate(u)
  BY <1>2, EnvironmentKeepsInv
<1>3. CASE UNCHANGED vars
  BY <1>3 DEF vars, LdapInv, TypeOK, PassedOver, StepFits, ReadsAreCurrent, SuccessTookEffect
<1> QED BY <1>1, <1>2, <1>3 DEF Next

(* LdapInv is an invariant of the handler.                                  *)
THEOREM Invariance == Spec => []LdapInv
<1>1. Init => LdapInv
  BY InitialInv
<1>2. LdapInv /\ [Next]_vars => LdapInv'
  BY StepKeepsInv
<1> QED BY <1>1, <1>2, PTL DEF Spec

-----------------------------------------------------------------------------
(* The properties.                                                          *)

(* Type correctness: no operation ever indexes a URL that is not there.     *)
THEOREM TypeCorrect == Spec => []TypeOK
<1>1. LdapInv => TypeOK
  BY DEF LdapInv
<1> QED BY <1>1, Invariance, PTL

(* A read that had a master all the time is not answered by a lagging       *)
(* replica.                                                                 *)
THEOREM ReadsStayCurrent == Spec => []ReadsAreCurrent
<1>1. LdapInv => ReadsAreCurrent
  BY DEF LdapInv
<1> QED BY <1>1, Invariance, PTL

(* A change that reports success was made, or was there.                    *)
THEOREM SuccessIsReal == Spec => []SuccessTookEffect
<1>1. LdapInv => SuccessTookEffect
  BY DEF LdapInv
<1> QED BY <1>1, Invariance, PTL

(* An operation that finds no URL had none that was there all the time.     *)
LEMMA GivesUpOnlyWithoutUrl ==
  ASSUME LdapInv, [Next]_vars, NEW c \in Clients, pc[c] = "connect", pc'[c] = "failed"
  PROVE  steady[c] \cap (IF Changes(op[c]) \/ op[c].do = "checkwrite" THEN Masters ELSE Urls)
           = {}
<1>1. Connect(c)
  <2>1. pc'[c] # pc[c]
    OBVIOUS
  <2>2. ASSUME NEW k \in Clients, Call(k) \/ Step(k) PROVE k = c /\ Connect(c)
    BY <2>1, <2>2 DEF LdapInv, TypeOK, Step, Call, Connect, Bind, Search, Modify, Goto, Ended
  <2>3. ASSUME UNCHANGED pc PROVE FALSE
    BY <2>1, <2>3
  <2> QED BY <2>2, <2>3 DEF Next, vars, Appear, Vanish, Replicate, client
<1>2. op[c] \in Operations /\ at[c] \in Nat /\ UrlsOf(op[c]) \in Seq(Urls)
  BY UrlsOfType DEF LdapInv, TypeOK
<1>3. at[c] > Len(UrlsOf(op[c]))
  BY <1>1 DEF LdapInv, TypeOK, Connect, Goto, AllTried
<1>4. \A i \in DOMAIN UrlsOf(op[c]) : UrlsOf(op[c])[i] \notin steady[c]
  <2>1. \A i \in DOMAIN UrlsOf(op[c]) : i < at[c]
    BY <1>2, <1>3
  <2> QED BY <2>1 DEF LdapInv, PassedOver, Ended
<1>5. CASE Changes(op[c]) \/ op[c].do = "checkwrite"
  BY <1>2, <1>4, <1>5, WritersAskMasters
<1>6. CASE ~(Changes(op[c]) \/ op[c].do = "checkwrite")
  BY <1>2, <1>4, <1>6, ReadersAskMastersFirst
<1> QED BY <1>5, <1>6

(* One URL that is there all the time is enough to get a connection.        *)
THEOREM AnyUrlIsEnough == Spec => AnyUrlSuffices
<1>1. LdapInv /\ [Next]_vars =>
        [\A c \in Clients : pc[c] = "connect" /\ pc'[c] = "failed" =>
           steady[c] \cap (IF Changes(op[c]) \/ op[c].do = "checkwrite" THEN Masters ELSE Urls)
             = {}]_vars
  BY GivesUpOnlyWithoutUrl
<1> QED BY <1>1, Invariance, PTL DEF Spec, AnyUrlSuffices

-----------------------------------------------------------------------------
(* The refinement.                                                          *)

PhaseBar == [c \in Clients |-> IF pc[c] \in Ended THEN pc[c] ELSE "called"]
SeenBar  == [c \in Clients |-> IF pc[c] = "done" /\ Reads(op[c]) THEN seen[c] ELSE 0]

LEMMA InitRefines == Init => Promise!Init
<1> SUFFICES ASSUME Init PROVE Promise!Init
  OBVIOUS
<1>1. PhaseBar = [c \in Clients |-> "idle"] /\ SeenBar = [c \in Clients |-> 0]
  BY DEF Init, PhaseBar, SeenBar, Ended
<1>2. op \in [Clients -> {[do |-> "checkread", arg |-> NoContent]}]
  BY DEF Init
<1> QED BY <1>1, <1>2 DEF Init, Promise!Init, Promise!States, States, PhaseBar, SeenBar

(* A step that ends nobody's operation, and starts none, is invisible.      *)
LEMMA Invisible ==
  ASSUME UNCHANGED <<history, op>>,
         \A c \in Clients : pc[c] \in Ended \/ pc'[c] \in Ended
                             => pc'[c] = pc[c] /\ seen'[c] = seen[c]
  PROVE  UNCHANGED <<history, op, PhaseBar, SeenBar>>
  BY DEF PhaseBar, SeenBar, Ended

(* Two functions that agree but for one argument.                           *)
LEMMA AgreeElsewhere ==
  ASSUME NEW S, NEW c \in S, NEW f, NEW g,
         f = [k \in S |-> f[k]], g = [k \in S |-> g[k]],
         \A k \in S \ {c} : g[k] = f[k]
  PROVE  g = [f EXCEPT ![c] = g[c]] /\ (g[c] = f[c] => g = f)
  OBVIOUS

(* An operation that ends by a step of its own.                             *)
LEMMA Ends ==
  ASSUME LdapInv, NEW c \in Clients, pc[c] \notin Ended, UNCHANGED op,
         NEW l \in {"done", "failed"}, pc' = [pc EXCEPT ![c] = l],
         \A k \in Clients \ {c} : seen'[k] = seen[k]
  PROVE  /\ PhaseBar[c] = "called"
         /\ PhaseBar' = [PhaseBar EXCEPT ![c] = l]
         /\ SeenBar[c] = 0
         /\ l = "done" /\ Reads(op[c]) => SeenBar' = [SeenBar EXCEPT ![c] = seen'[c]]
         /\ l = "failed" \/ ~Reads(op[c]) => SeenBar' = SeenBar
<1>1. pc \in [Clients -> Ended \cup {"connect", "bind", "search", "modify"}]
  BY DEF LdapInv, TypeOK
<1>2. /\ \A k \in Clients \ {c} : PhaseBar'[k] = PhaseBar[k] /\ SeenBar'[k] = SeenBar[k]
      /\ PhaseBar[c] = "called" /\ PhaseBar'[c] = l /\ SeenBar[c] = 0
      /\ SeenBar'[c] = IF l = "done" /\ Reads(op[c]) THEN seen'[c] ELSE 0
  BY <1>1 DEF PhaseBar, SeenBar, Ended
<1>3. /\ PhaseBar = [k \in Clients |-> PhaseBar[k]] /\ PhaseBar' = [k \in Clients |-> PhaseBar'[k]]
      /\ SeenBar = [k \in Clients |-> SeenBar[k]] /\ SeenBar' = [k \in Clients |-> SeenBar'[k]]
  BY DEF PhaseBar, SeenBar
<1> QED BY <1>2, <1>3, AgreeElsewhere

(* Every step of the handler is a step of Directory, or invisible to it.    *)
LEMMA NextRefines ==
  ASSUME LdapInv, [Next]_vars
  PROVE  Promise!Next \/ UNCHANGED <<history, op, PhaseBar, SeenBar>>
<1>1. ASSUME NEW c \in Clients, Call(c) PROVE Promise!Call(c)
  <2>1. PICK o \in MayCall[c] : op' = [op EXCEPT ![c] = o]
    BY <1>1 DEF Call
  <2>2. o \in Operations
    BY <2>1, UrlsAssumption
  <2>3. /\ pc \in [Clients -> Ended \cup {"connect", "bind", "search", "modify"}]
        /\ seen \in [Clients -> 0..Len(history)] /\ op \in [Clients -> Operations]
    BY DEF LdapInv, TypeOK
  <2>4. /\ \A k \in Clients \ {c} : PhaseBar'[k] = PhaseBar[k] /\ SeenBar'[k] = SeenBar[k]
        /\ PhaseBar[c] # "called" /\ PhaseBar'[c] = "called" /\ SeenBar'[c] = 0
    BY <1>1, <2>1, <2>3 DEF Call, Goto, PhaseBar, SeenBar, Ended
  <2>5. /\ PhaseBar = [k \in Clients |-> PhaseBar[k]] /\ PhaseBar' = [k \in Clients |-> PhaseBar'[k]]
        /\ SeenBar = [k \in Clients |-> SeenBar[k]] /\ SeenBar' = [k \in Clients |-> SeenBar'[k]]
    BY DEF PhaseBar, SeenBar
  <2>6. PhaseBar' = [PhaseBar EXCEPT ![c] = "called"] /\ SeenBar' = [SeenBar EXCEPT ![c] = 0]
    BY <2>4, <2>5, AgreeElsewhere
  <2>7. o \in Promise!Operations
    BY <2>2 DEF Operations, Promise!Operations
  <2> QED BY <1>1, <2>1, <2>4, <2>6, <2>7 DEF Call, Promise!Call, PhaseBar, SeenBar
<1>2. ASSUME NEW c \in Clients, Connect(c)
      PROVE  Promise!Fail(c) \/ UNCHANGED <<history, op, PhaseBar, SeenBar>>
  <2>1. /\ pc[c] = "connect" /\ UNCHANGED <<history, op, seen>>
        /\ \/ pc' = [pc EXCEPT ![c] = "failed"]
           \/ pc' = [pc EXCEPT ![c] = "bind"]
           \/ pc' = pc
    BY <1>2 DEF Connect, Goto, past
  <2>2. CASE pc' = [pc EXCEPT ![c] = "failed"]
    <3>1. PhaseBar[c] = "called" /\ PhaseBar' = [PhaseBar EXCEPT ![c] = "failed"]
          /\ SeenBar' = SeenBar
      BY <2>1, <2>2, Ends DEF Ended
    <3> QED BY <2>1, <3>1 DEF Promise!Fail, PhaseBar, SeenBar
  <2>3. CASE pc' = [pc EXCEPT ![c] = "bind"] \/ pc' = pc
    BY <2>1, <2>3, Invisible DEF Ended, LdapInv, TypeOK
  <2> QED BY <2>1, <2>2, <2>3
<1>3. ASSUME NEW c \in Clients, Bind(c)
      PROVE  \/ Promise!Succeed(c) \/ Promise!Fail(c)
             \/ UNCHANGED <<history, op, PhaseBar, SeenBar>>
  <2>1. /\ pc[c] = "bind" /\ UNCHANGED <<history, op, seen>> /\ op[c] \in Operations
        /\ \/ pc' = [pc EXCEPT ![c] = "failed"]
           \/ pc' = [pc EXCEPT ![c] = "done"] /\ op[c].do \in {"checkread", "checkwrite"}
           \/ pc' = [pc EXCEPT ![c] = "search"]
           \/ pc' = [pc EXCEPT ![c] = "modify"]
    BY <1>3 DEF Bind, Goto, past, LdapInv, TypeOK
  <2>2. CASE pc' = [pc EXCEPT ![c] = "failed"]
    <3>1. PhaseBar[c] = "called" /\ PhaseBar' = [PhaseBar EXCEPT ![c] = "failed"]
          /\ SeenBar' = SeenBar
      BY <2>1, <2>2, Ends DEF Ended
    <3> QED BY <2>1, <3>1 DEF Promise!Fail, PhaseBar, SeenBar
  <2>3. CASE pc' = [pc EXCEPT ![c] = "done"] /\ op[c].do \in {"checkread", "checkwrite"}
    <3>1. ~Reads(op[c]) /\ ~Promise!Reads(op[c]) /\ Promise!Apply(op[c], Current) = Current
      BY <2>3 DEF Reads, Promise!Reads, Promise!Apply
    <3>2. PhaseBar[c] = "called" /\ PhaseBar' = [PhaseBar EXCEPT ![c] = "done"]
          /\ SeenBar' = SeenBar
      BY <2>1, <2>3, <3>1, Ends DEF Ended
    <3> QED BY <2>1, <3>1, <3>2 DEF Promise!Succeed, Promise!Current, Current, PhaseBar, SeenBar
  <2>4. CASE pc' = [pc EXCEPT ![c] = "search"] \/ pc' = [pc EXCEPT ![c] = "modify"]
    BY <2>1, <2>4, Invisible DEF Ended, LdapInv, TypeOK
  <2> QED BY <2>1, <2>2, <2>3, <2>4
<1>4. ASSUME NEW c \in Clients, Search(c)
      PROVE  \/ Promise!Succeed(c) \/ Promise!Fail(c)
             \/ UNCHANGED <<history, op, PhaseBar, SeenBar>>
  <2> DEFINE i == Position(Url(c))
  <2>1. /\ pc[c] = "search" /\ UNCHANGED <<history, op>>
        /\ op[c] \in Operations /\ op[c].do \in {"add", "remove", "query", "download"}
        /\ i \in DOMAIN history /\ Len(history) \in DOMAIN history
        /\ history \in Seq(States)
        /\ Changes(op[c]) => Url(c) \in Masters
    BY <1>4, Connected DEF Search, LdapInv, TypeOK, StepFits
  <2>2. /\ \A k \in Clients \ {c} : seen'[k] = seen[k]
        /\ \/ pc' = [pc EXCEPT ![c] = "failed"]
           \/ pc' = [pc EXCEPT ![c] = "done"] /\ Reads(op[c]) /\ seen'[c] = i
           \/ pc' = [pc EXCEPT ![c] = "done"] /\ ~Reads(op[c]) /\ ~IsNeeded(op[c], history[i])
           \/ pc' = [pc EXCEPT ![c] = "modify"]
    BY <1>4 DEF Search, Goto, LdapInv, TypeOK
  <2> HIDE DEF i
  <2>3. CASE pc' = [pc EXCEPT ![c] = "failed"]
    <3>1. PhaseBar[c] = "called" /\ PhaseBar' = [PhaseBar EXCEPT ![c] = "failed"]
          /\ SeenBar' = SeenBar
      BY <2>1, <2>2, <2>3, Ends DEF Ended
    <3> QED BY <2>1, <3>1 DEF Promise!Fail, PhaseBar, SeenBar
  <2>4. CASE pc' = [pc EXCEPT ![c] = "done"] /\ Reads(op[c]) /\ seen'[c] = i
    <3>1. Promise!Reads(op[c]) /\ Promise!Apply(op[c], Current) = Current
      BY <2>4 DEF Reads, Promise!Reads, Promise!Apply
    <3>2. PhaseBar[c] = "called" /\ PhaseBar' = [PhaseBar EXCEPT ![c] = "done"]
          /\ SeenBar' = [SeenBar EXCEPT ![c] = i]
      BY <2>1, <2>2, <2>4, Ends DEF Ended
    <3> QED BY <2>1, <3>1, <3>2 DEF Promise!Succeed, Promise!Current, Current, PhaseBar, SeenBar
  <2>5. CASE pc' = [pc EXCEPT ![c] = "done"] /\ ~Reads(op[c]) /\ ~IsNeeded(op[c], history[i])
    <3>1. op[c].do \in {"add", "remove"} /\ Changes(op[c]) /\ ~Promise!Reads(op[c])
      BY <2>1, <2>5 DEF Reads, Promise!Reads, Changes
    <3>2. i = Len(history) /\ history[i] = Current /\ Current \in States
      BY <2>1, <3>1 DEF i, Position, Current
    <3>3. Apply(op[c], Current) = Current
      BY <2>1, <2>5, <3>1, <3>2, NotNeeded
    <3>4. Promise!Apply(op[c], Promise!Current) = Promise!Current
      BY <3>3 DEF Apply, Promise!Apply, Current, Promise!Current
    <3>5. PhaseBar[c] = "called" /\ PhaseBar' = [PhaseBar EXCEPT ![c] = "done"]
          /\ SeenBar' = SeenBar
      BY <2>1, <2>2, <2>5, Ends DEF Ended
    <3> QED BY <2>1, <3>1, <3>4, <3>5 DEF Promise!Succeed, PhaseBar, SeenBar
  <2>6. CASE pc' = [pc EXCEPT ![c] = "modify"]
    BY <2>1, <2>2, <2>6, Invisible DEF Ended, LdapInv, TypeOK
  <2> QED BY <2>2, <2>3, <2>4, <2>5, <2>6
<1>5. ASSUME NEW c \in Clients, Modify(c)
      PROVE  Promise!Succeed(c) \/ Promise!Fail(c)
  <2>1. /\ pc[c] = "modify" /\ UNCHANGED <<op, seen>> /\ Changes(op[c])
        /\ \/ /\ history' = Append(history, Apply(op[c], Current))
              /\ pc' = [pc EXCEPT ![c] = "done"] \/ pc' = [pc EXCEPT ![c] = "failed"]
           \/ pc' = [pc EXCEPT ![c] = "failed"] /\ history' = history
    BY <1>5 DEF Modify, Goto, past, LdapInv, StepFits
  <2>2. /\ Promise!Changes(op[c]) /\ ~Reads(op[c]) /\ ~Promise!Reads(op[c])
        /\ Promise!Apply(op[c], Promise!Current) = Apply(op[c], Current)
    BY <2>1 DEF Changes, Promise!Changes, Reads, Promise!Reads, Apply, Promise!Apply,
                Current, Promise!Current
  <2>3. CASE pc' = [pc EXCEPT ![c] = "failed"]
    <3>1. PhaseBar[c] = "called" /\ PhaseBar' = [PhaseBar EXCEPT ![c] = "failed"]
          /\ SeenBar' = SeenBar
      BY <2>1, <2>3, Ends DEF Ended
    <3> QED BY <2>1, <2>2, <3>1 DEF Promise!Fail, PhaseBar, SeenBar
  <2>4. CASE /\ pc' = [pc EXCEPT ![c] = "done"]
             /\ history' = Append(history, Apply(op[c], Current))
    <3>1. PhaseBar[c] = "called" /\ PhaseBar' = [PhaseBar EXCEPT ![c] = "done"]
          /\ SeenBar' = SeenBar
      BY <2>1, <2>2, <2>4, Ends DEF Ended
    <3> QED BY <2>1, <2>2, <2>4, <3>1 DEF Promise!Succeed, PhaseBar, SeenBar
  <2> QED BY <2>1, <2>3, <2>4
<1>6. ASSUME \/ \E u \in Urls : Appear(u) \/ Vanish(u)
             \/ \E u \in Replicas : Replicate(u)
             \/ UNCHANGED vars
      PROVE  UNCHANGED <<history, op, PhaseBar, SeenBar>>
  <2>1. UNCHANGED <<history, op, pc, seen>>
    BY <1>6 DEF Appear, Vanish, Replicate, vars, client, past
  <2> QED BY <2>1, Invisible
<1> QED BY <1>1, <1>2, <1>3, <1>4, <1>5, <1>6 DEF Next, Step, Promise!Next

(* The handler implements Directory: every operation is one step of it.     *)
THEOREM Implementation == Spec => ImplementsDirectory
<1>1. Init => Promise!Init
  BY InitRefines
<1>2. LdapInv /\ [Next]_vars => [Promise!Next]_<<history, op, PhaseBar, SeenBar>>
  BY NextRefines
<1>3. LdapInv /\ [Next]_vars =>
        [Promise!Next]_<<history, op,
            [c \in Clients |-> IF pc[c] \in Ended THEN pc[c] ELSE "called"],
            [c \in Clients |-> IF pc[c] = "done" /\ Reads(op[c]) THEN seen[c] ELSE 0]>>
  BY <1>2 DEF PhaseBar, SeenBar
<1> QED BY <1>1, <1>3, Invariance, PTL DEF Spec, ImplementsDirectory, Promise!Spec
=============================================================================
