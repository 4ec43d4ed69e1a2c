-------------------------- MODULE BindAddressProofs --------------------------
(* What NonLoopbackInterfaces computes, for any list of interfaces: by      *)
(* induction over its loop, which Scan is a recursive function for.         *)
EXTENDS HostConfigProofs, WellFoundedInduction, TLAPS

(* A set of natural numbers has a least element, or is empty.               *)
LEMMA Least ==
  ASSUME NEW S \in SUBSET Nat, S # {}
  PROVE  \E m \in S : \A k \in S : m <= k
<1> DEFINE Below == {p \in Nat \X Nat : p[1] < p[2]}
<1>1. IsWellFoundedOn(Below, Nat)
  BY NatLessThanWellFounded DEF OpToRel
<1> HIDE DEF Below
<1>2. PICK m \in S : \A k \in S : <<k, m>> \notin Below
  BY <1>1, WFMin
<1>3. \A k \in S : ~(k < m)
  BY <1>2 DEF Below
<1> QED BY <1>3

(* So what holds of 0, and of a number up to n when it holds of the one     *)
(* before, holds up to n: there is no least one it does not hold of.        *)
LEMMA Induction ==
  ASSUME NEW n \in Nat, NEW Holds \in SUBSET (0..n), 0 \in Holds,
         \A i \in 1..n : i - 1 \in Holds => i \in Holds
  PROVE  Holds = 0..n
<1> DEFINE Rest == (0..n) \ Holds
<1> SUFFICES ASSUME Rest # {} PROVE FALSE
  OBVIOUS
<1>1. PICK m \in Rest : \A k \in Rest : m <= k
  <2>1. Rest \in SUBSET Nat
    OBVIOUS
  <2> HIDE DEF Rest
  <2> QED BY <2>1, Least
<1>2. m \in 1..n /\ m - 1 \in 0..n
  BY <1>1
<1>3. m - 1 \in Holds
  BY <1>1, <1>2
<1> QED BY <1>1, <1>2, <1>3

Start(networks) == [list |-> networks, left |-> Len(networks), fail |-> FALSE]

(* The states of the loop exist, and the last one is what Scan is.          *)
LEMMA ScanStates ==
  ASSUME NEW networks \in Seq(Addresses)
  PROVE  \E scan : /\ Scan(networks) = scan[Len(networks)]
                   /\ scan[0] = Start(networks)
                   /\ \A i \in 1..Len(networks) : scan[i] = Visit(scan[i - 1], i)
<1> DEFINE n == Len(networks)
<1> DEFINE Loop(m, g) ==
      g = [i \in 0..m |-> IF i = 0 THEN Start(networks) ELSE Visit(g[i - 1], i)]
<1> DEFINE Holds == {m \in 0..n : \E g : Loop(m, g)}
<1>1. n \in Nat
  OBVIOUS
<1>2. 0 \in Holds
  <2> DEFINE g == [i \in 0..0 |-> Start(networks)]
  <2>1. Loop(0, g)
    OBVIOUS
  <2> HIDE DEF Loop, g
  <2> QED BY <2>1, <1>1
<1>3. ASSUME NEW m \in 1..n, m - 1 \in Holds PROVE m \in Holds
  <2>1. PICK g : Loop(m - 1, g)
    BY <1>3
  <2> DEFINE h == [i \in 0..m |-> IF i = m THEN Visit(g[m - 1], m) ELSE g[i]]
  <2>2. \A i \in 0..m : h[i] = IF i = 0 THEN Start(networks) ELSE Visit(h[i - 1], i)
    <3>1. \A i \in 0..(m - 1) : g[i] = IF i = 0 THEN Start(networks) ELSE Visit(g[i - 1], i)
      BY <2>1
    <3>2. TAKE i \in 0..m
    <3>3. CASE i = m
      BY <3>3
    <3>4. CASE i # m
      <4>1. i \in 0..(m - 1) /\ (i # 0 => i - 1 \in 0..(m - 1) /\ i - 1 # m)
        BY <3>4
      <4> QED BY <4>1, <3>1, <3>4
    <3> QED BY <3>3, <3>4
  <2>3. Loop(m, h)
    BY <2>2
  <2>4. m \in 0..n
    BY <1>1
  <2> HIDE DEF Loop, h
  <2> QED BY <2>3, <2>4
<1>4. Holds = 0..n
  <2> HIDE DEF Holds
  <2> QED BY <1>1, <1>2, <1>3, Induction DEF Holds
<1>5. \E g : Loop(n, g)
  BY <1>1, <1>4
<1> DEFINE scan == CHOOSE g : Loop(n, g)
<1>6. Loop(n, scan)
  BY <1>5
<1>7. Scan(networks) = scan[n]
  BY DEF Scan, Start
<1>8. /\ scan[0] = Start(networks)
      /\ \A i \in 1..n : scan[i] = Visit(scan[i - 1], i)
  <2> HIDE DEF scan
  <2> QED BY <1>1, <1>6
<1> QED BY <1>7, <1>8

(* The interfaces the loop has not come to are as they were, and a loopback *)
(* one is not among those left that it has passed, unless it will panic.    *)
Sound(networks, s, i) ==
  LET n == Len(networks) IN
    /\ s \in [list : Seq(Addresses), left : 0..n, fail : BOOLEAN]
    /\ Len(s.list) = n
    /\ \A k \in 1..n : \E j \in 1..n : s.list[k] = networks[j]
    /\ \/ s.fail
       \/ \A k \in 1..s.left : k <= i => s.list[k] \notin Loopbacks
       \/ \E k \in 1..n : k > i /\ k > s.left /\ s.list[k] \in Loopbacks

LEMMA SoundStep ==
  ASSUME NEW networks \in Seq(Addresses), NEW s, NEW i \in 1..Len(networks),
         Sound(networks, s, i - 1)
  PROVE  Sound(networks, Visit(s, i), i)
<1> DEFINE n == Len(networks)
<1> DEFINE t == Visit(s, i)
<1> SUFFICES Sound(networks, t, i)
  OBVIOUS
<1> HIDE DEF t
<1> DEFINE Records == [list : Seq(Addresses), left : 0..n, fail : BOOLEAN]
<1>1. n \in Nat /\ s.list \in [1..n -> Addresses] /\ s.left \in 0..n /\ s \in Records
  BY DEF Sound
<1>2. CASE s.fail
  <2>1. t = s
    BY <1>2 DEF t, Visit
  <2> QED BY <1>2, <2>1 DEF Sound
<1>3. CASE ~s.fail /\ s.list[i] \notin Loopbacks
  <2>1. t = s
    BY <1>3 DEF t, Visit
  <2>2. CASE \A k \in 1..s.left : k <= i - 1 => s.list[k] \notin Loopbacks
    <3>1. \A k \in 1..s.left : k <= i => s.list[k] \notin Loopbacks
      BY <1>1, <1>3, <2>2
    <3> QED BY <2>1, <3>1 DEF Sound
  <2>3. CASE \E k \in 1..n : k > i - 1 /\ k > s.left /\ s.list[k] \in Loopbacks
    <3>1. \E k \in 1..n : k > i /\ k > s.left /\ s.list[k] \in Loopbacks
      BY <1>1, <1>3, <2>3
    <3> QED BY <2>1, <3>1 DEF Sound
  <2> QED BY <1>3, <2>2, <2>3 DEF Sound
<1>4. CASE ~s.fail /\ s.list[i] \in Loopbacks /\ i > s.left
  <2>1. t = [s EXCEPT !.fail = TRUE]
    BY <1>4 DEF t, Visit
  <2>2. t \in Records /\ t.list = s.list /\ t.left = s.left /\ t.fail
    BY <1>1, <2>1
  <2> QED BY <2>2 DEF Sound
<1>5. CASE ~s.fail /\ s.list[i] \in Loopbacks /\ i <= s.left
  <2> DEFINE l == [s.list EXCEPT ![i] = s.list[s.left]]
  <2>1. t = [s EXCEPT !.list = l, !.left = s.left - 1]
    BY <1>1, <1>5 DEF t, Visit, Drop
  <2>2. s.left \in 1..n /\ s.left - 1 \in 0..n
    BY <1>1, <1>5
  <2>3. /\ l \in Seq(Addresses) /\ Len(l) = n
        /\ l[i] = s.list[s.left]
        /\ \A k \in 1..n : k # i => l[k] = s.list[k]
    <3>1. s.list[s.left] \in Addresses
      BY <1>1, <2>2
    <3>2. l \in [1..n -> Addresses]
      BY <1>1, <3>1
    <3>3. l \in Seq(Addresses) /\ Len(l) = n
      <4> HIDE DEF l
      <4> QED BY <1>1, <3>2
    <3> QED BY <1>1, <3>3
  <2> HIDE DEF l
  <2>4. \A k \in 1..n : \E j \in 1..n : l[k] = networks[j]
    <3>1. \A k \in 1..n : \E j \in 1..n : s.list[k] = networks[j]
      BY DEF Sound
    <3> TAKE k \in 1..n
    <3>2. l[k] = s.list[k] \/ l[k] = s.list[s.left]
      BY <2>3
    <3> QED BY <2>2, <3>1, <3>2
  <2>5. \/ \A k \in 1..s.left - 1 : k <= i => l[k] \notin Loopbacks
        \/ \E k \in 1..n : k > i /\ k > s.left - 1 /\ l[k] \in Loopbacks
    <3>1. CASE \E k \in 1..n : k > i - 1 /\ k > s.left /\ s.list[k] \in Loopbacks
      <4>1. PICK k \in 1..n : k > i - 1 /\ k > s.left /\ s.list[k] \in Loopbacks
        BY <3>1
      <4>2. k > i /\ k > s.left - 1 /\ l[k] = s.list[k]
        BY <4>1, <1>5, <2>2, <2>3
      <4> QED BY <4>1, <4>2
    <3>2. CASE \A k \in 1..s.left : k <= i - 1 => s.list[k] \notin Loopbacks
      <4>1. CASE s.left # i /\ s.list[s.left] \in Loopbacks
        <5>1. s.left > i /\ s.left > s.left - 1 /\ l[s.left] = s.list[s.left]
          BY <4>1, <1>5, <2>2, <2>3
        <5> QED BY <5>1, <4>1, <2>2
      <4>2. CASE s.left = i
        BY <4>2, <3>2, <2>2, <2>3
      <4>3. CASE s.list[s.left] \notin Loopbacks
        BY <4>3, <3>2, <2>2, <2>3
      <4> QED BY <4>1, <4>2, <4>3
    <3> QED BY <3>1, <3>2, <1>5 DEF Sound
  <2>6. t \in Records /\ t.list = l /\ t.left = s.left - 1
    BY <1>1, <2>1, <2>2, <2>3
  <2> QED BY <2>3, <2>4, <2>5, <2>6 DEF Sound
<1> QED BY <1>1, <1>2, <1>3, <1>4, <1>5

(* What is left is the host's, and no loopback interface is.                *)
LEMMA ValidIsClean ==
  ASSUME NEW networks \in Seq(Addresses)
  PROVE  ValidBindAddresses(networks)
           \subseteq {networks[k] : k \in 1..Len(networks)} \ Loopbacks
<1> DEFINE n == Len(networks)
<1>1. PICK scan : /\ Scan(networks) = scan[n]
                  /\ scan[0] = Start(networks)
                  /\ \A i \in 1..n : scan[i] = Visit(scan[i - 1], i)
  BY ScanStates
<1> DEFINE Holds == {i \in 0..n : Sound(networks, scan[i], i)}
<1>2. 0 \in Holds
  <2>1. Sound(networks, Start(networks), 0)
    BY DEF Sound, Start
  <2> QED BY <1>1, <2>1
<1>3. \A i \in 1..n : i - 1 \in Holds => i \in Holds
  BY <1>1, SoundStep
<1>4. Holds = 0..n
  <2> HIDE DEF Holds
  <2>1. n \in Nat /\ Holds \in SUBSET (0..n)
    BY DEF Holds
  <2> QED BY <2>1, <1>2, <1>3, Induction
<1> HIDE DEF Holds
<1> DEFINE s == Scan(networks)
<1>5. Sound(networks, s, n)
  <2>1. n \in 0..n
    OBVIOUS
  <2>2. Sound(networks, scan[n], n)
    BY <1>4, <2>1 DEF Holds
  <2> QED BY <1>1, <2>2
<1>a. ValidBindAddresses(networks) = IF s.fail THEN {} ELSE {s.list[k] : k \in 1..s.left}
  BY DEF ValidBindAddresses
<1> HIDE DEF s
<1>6. CASE s.fail
  BY <1>6, <1>a
<1>7. CASE ~s.fail
  <2>1. /\ s.left \in 0..n /\ n \in Nat
        /\ \A k \in 1..n : \E j \in 1..n : s.list[k] = networks[j]
        /\ \/ \A k \in 1..s.left : k <= n => s.list[k] \notin Loopbacks
           \/ \E k \in 1..n : k > n /\ k > s.left /\ s.list[k] \in Loopbacks
    BY <1>5, <1>7 DEF Sound
  <2> HIDE DEF n
  <2>2. \A k \in 1..s.left : k \in 1..n /\ s.list[k] \notin Loopbacks
    BY <2>1
  <2>3. ASSUME NEW k \in 1..s.left
        PROVE  s.list[k] \in {networks[j] : j \in 1..n} \ Loopbacks
    BY <2>1, <2>2
  <2> QED BY <1>7, <1>a, <2>3 DEF n
<1> QED BY <1>6, <1>7

(* The rules of the loop for a host with one loopback interface.            *)
Precise(networks, s, i) ==
  LET n == Len(networks) IN
    \/ /\ s = Start(networks)
       /\ \A k \in 1..n : k <= i => networks[k] \notin Loopbacks
    \/ \E p \in 1..n :
         /\ p <= i /\ networks[p] \in Loopbacks
         /\ s = [list |-> [networks EXCEPT ![p] = networks[n]], left |-> n - 1,
                 fail |-> FALSE]

OneLoopback(networks) ==
  \A i, j \in 1..Len(networks) :
    networks[i] \in Loopbacks /\ networks[j] \in Loopbacks => i = j

LEMMA PreciseStep ==
  ASSUME NEW networks \in Seq(Addresses), OneLoopback(networks), NEW s,
         NEW i \in 1..Len(networks), Precise(networks, s, i - 1)
  PROVE  Precise(networks, Visit(s, i), i)
<1> DEFINE n == Len(networks)
<1> DEFINE t == Visit(s, i)
<1> SUFFICES Precise(networks, t, i)
  OBVIOUS
<1> HIDE DEF t
<1>1. n \in Nat /\ i \in 1..n /\ networks \in [1..n -> Addresses]
  OBVIOUS
<1>2. CASE /\ s = Start(networks)
           /\ \A k \in 1..n : k <= i - 1 => networks[k] \notin Loopbacks
  <2>1. CASE networks[i] \in Loopbacks
    <3>1. t = [s EXCEPT !.list[i] = s.list[s.left], !.left = @ - 1]
      BY <1>1, <1>2, <2>1 DEF t, Visit, Start, Drop
    <3>2. t = [list |-> [networks EXCEPT ![i] = networks[n]], left |-> n - 1, fail |-> FALSE]
      BY <1>1, <1>2, <3>1 DEF Start
    <3>3. \E p \in 1..n :
            /\ p <= i /\ networks[p] \in Loopbacks
            /\ t = [list |-> [networks EXCEPT ![p] = networks[n]], left |-> n - 1,
                    fail |-> FALSE]
      <4>1. i <= i
        BY <1>1
      <4> QED BY <4>1, <2>1, <3>2
    <3> QED BY <3>3 DEF Precise
  <2>2. CASE networks[i] \notin Loopbacks
    <3>1. t = s
      BY <1>2, <2>2 DEF t, Visit, Start
    <3>2. \A k \in 1..n : k <= i => networks[k] \notin Loopbacks
      BY <1>1, <1>2, <2>2
    <3> QED BY <1>2, <3>1, <3>2 DEF Precise
  <2> QED BY <2>1, <2>2
<1>3. ASSUME NEW p \in 1..n, p <= i - 1, networks[p] \in Loopbacks,
             s = [list |-> [networks EXCEPT ![p] = networks[n]], left |-> n - 1,
                  fail |-> FALSE]
      PROVE  Precise(networks, t, i)
  <2>1. networks[i] \notin Loopbacks
    BY <1>1, <1>3 DEF OneLoopback
  <2>2. s.list[i] = networks[i]
    BY <1>1, <1>3
  <2>3. t = s
    BY <2>1, <2>2 DEF t, Visit
  <2>4. p <= i
    BY <1>1, <1>3
  <2> QED BY <1>3, <2>3, <2>4 DEF Precise
<1> QED BY <1>2, <1>3 DEF Precise

(* NonLoopbackInterfaces is right for a host with one interface called      *)
(* "lo", or none, wherever it stands in the list: the loop does not panic,  *)
(* and exactly the addresses of the other interfaces can be bound to        *)
(* (pkg/command/common.go:133-148).                                         *)
THEOREM ValidIsExact ==
  ASSUME NEW networks \in Seq(Addresses), OneLoopback(networks)
  PROVE  /\ ~Scan(networks).fail
         /\ ValidBindAddresses(networks)
              = {networks[k] : k \in 1..Len(networks)} \ Loopbacks
<1> DEFINE n == Len(networks)
<1> DEFINE s == Scan(networks)
<1>1. PICK scan : /\ s = scan[n]
                  /\ scan[0] = Start(networks)
                  /\ \A i \in 1..n : scan[i] = Visit(scan[i - 1], i)
  BY ScanStates
<1> DEFINE Holds == {i \in 0..n : Precise(networks, scan[i], i)}
<1>2. 0 \in Holds
  <2>1. Precise(networks, Start(networks), 0)
    BY DEF Precise
  <2> QED BY <1>1, <2>1
<1>3. \A i \in 1..n : i - 1 \in Holds => i \in Holds
  BY <1>1, PreciseStep
<1>4. Holds = 0..n
  <2> HIDE DEF Holds
  <2>1. n \in Nat /\ Holds \in SUBSET (0..n)
    BY DEF Holds
  <2> QED BY <2>1, <1>2, <1>3, Induction
<1>5. Precise(networks, s, n)
  BY <1>1, <1>4
<1> HIDE DEF s
<1>6. n \in Nat /\ networks \in [1..n -> Addresses]
  OBVIOUS
<1>7. CASE /\ s = Start(networks)
           /\ \A k \in 1..n : k <= n => networks[k] \notin Loopbacks
  <2>1. ~s.fail /\ s.list = networks /\ s.left = n
    BY <1>7 DEF Start
  <2>2. ValidBindAddresses(networks) = {networks[k] : k \in 1..n}
    BY <2>1 DEF s, ValidBindAddresses
  <2> QED BY <1>6, <1>7, <2>1, <2>2 DEF s
<1>8. ASSUME NEW p \in 1..n, networks[p] \in Loopbacks,
             s = [list |-> [networks EXCEPT ![p] = networks[n]], left |-> n - 1,
                  fail |-> FALSE]
      PROVE  /\ ~s.fail
             /\ ValidBindAddresses(networks) = {networks[k] : k \in 1..n} \ Loopbacks
  <2> DEFINE l == [networks EXCEPT ![p] = networks[n]]
  <2>1. ~s.fail /\ s.list = l /\ s.left = n - 1
    BY <1>8
  <2>2. ValidBindAddresses(networks) = {l[k] : k \in 1..n - 1}
    BY <2>1 DEF s, ValidBindAddresses
  <2>3. \A k \in 1..n : k # p => networks[k] \notin Loopbacks
    BY <1>8 DEF OneLoopback
  <2>4. ASSUME NEW k \in 1..n - 1
        PROVE  \E j \in 1..n : j # p /\ l[k] = networks[j]
    <3>1. k \in 1..n /\ n \in 1..n /\ k # n
      BY <1>6, <1>8, <2>4
    <3>2. CASE k = p
      BY <1>6, <3>1, <3>2
    <3>3. CASE k # p
      BY <1>6, <3>1, <3>3
    <3> QED BY <3>2, <3>3
  <2>5. ASSUME NEW j \in 1..n, j # p
        PROVE  \E k \in 1..n - 1 : l[k] = networks[j]
    <3>1. CASE j = n
      BY <1>6, <2>5, <3>1
    <3>2. CASE j # n
      BY <1>6, <2>5, <3>2
    <3> QED BY <3>1, <3>2
  <2> HIDE DEF l
  <2>6. {l[k] : k \in 1..n - 1} = {networks[k] : k \in 1..n} \ Loopbacks
    <3>1. ASSUME NEW a \in {l[k] : k \in 1..n - 1}
          PROVE  a \in {networks[k] : k \in 1..n} \ Loopbacks
      <4>1. PICK k \in 1..n - 1 : a = l[k]
        BY <3>1
      <4>2. PICK j \in 1..n : j # p /\ l[k] = networks[j]
        BY <2>4
      <4> QED BY <4>1, <4>2, <2>3
    <3>2. ASSUME NEW a \in {networks[k] : k \in 1..n} \ Loopbacks
          PROVE  a \in {l[k] : k \in 1..n - 1}
      <4>1. PICK j \in 1..n : a = networks[j] /\ networks[j] \notin Loopbacks
        BY <3>2
      <4>2. j # p
        BY <1>8, <4>1
      <4>3. PICK k \in 1..n - 1 : l[k] = networks[j]
        BY <2>5, <4>2
      <4> QED BY <4>1, <4>3
    <3> QED BY <3>1, <3>2
  <2> QED BY <2>1, <2>2, <2>6
<1> QED BY <1>5, <1>7, <1>8 DEF s, Precise

-----------------------------------------------------------------------------
(* Every step but the start of a setup keeps the bind address.              *)
LEMMA BindKept ==
  ASSUME TypeOK, [Next]_vars
  PROVE  Begin \/ setup'.bind = setup.bind
  BY DEF TypeOK, Next, Setup, TruncateMain, FillMain, HandOver, HandOverMain,
     TruncateBind, FillBind, HandOverConf, Register, StartUnit, UnitStarted,
     SetupFails, Reset, SetupTo, Set, SetRead, SetTruncate, SetFill, Daemon, Query,
     ReadMain, RewriteTruncate, RewriteFill, Exec, Die, Crash, vars

(* An address a setup binds to is that of an interface the host listed, and *)
(* of no loopback interface, although NonLoopbackInterfaces changes the list*)
(* it ranges over: for any interfaces in any order, several loopbacks among *)
(* them.                                                                    *)
THEOREM BindStaysLan == Spec => []BindIsLan
<1>1. Init => BindIsLan
  BY DEF Init, BindIsLan
<1>2. TypeOK /\ BindIsLan /\ [Next]_vars => BindIsLan'
  <2> SUFFICES ASSUME TypeOK, BindIsLan, [Next]_vars PROVE BindIsLan'
    OBVIOUS
  <2>1. CASE Begin
    <3>1. PICK networks \in Networks : setup'.bind \in ValidBindAddresses(networks)
      BY <2>1 DEF Begin
    <3>2. networks \in Seq(Addresses)
      BY HostAssumption
    <3>3. PICK k \in 1..Len(networks) : setup'.bind = networks[k] /\ networks[k] \notin Loopbacks
      BY <3>1, <3>2, ValidIsClean
    <3>4. k \in DOMAIN networks
      BY <3>2
    <3> QED BY <3>1, <3>3, <3>4 DEF BindIsLan
  <2>2. CASE setup'.bind = setup.bind
    BY <2>2 DEF BindIsLan
  <2> QED BY <2>1, <2>2, BindKept
<1> QED BY <1>1, <1>2, TypeCorrect, PTL DEF Spec
=============================================================================
