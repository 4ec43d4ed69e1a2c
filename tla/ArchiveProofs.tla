---------------------------- MODULE ArchiveProofs ----------------------------
(* Theorems about Archive: whatever files are packed and asked for, looking *)
(* for them while the array of their names changes is exact.                *)
EXTENDS Archive, FiniteSetTheorems, TLAPS

-----------------------------------------------------------------------------
(* The loop invariant: the names before `remaining` are those still looked  *)
(* for, each once; those behind it are left-overs.                          *)
Split ==
  /\ \A i, j \in 1..remaining : files[i] = files[j] => i = j
  /\ Remaining = Range(wanted) \ DOMAIN result
  /\ Range(files) \subseteq Range(wanted)

(* The results are the wanted ones of the entries seen.                     *)
Seen ==
  /\ DOMAIN result = Range(wanted) \cap {archive[k] : k \in 1..(next - 1)}
  /\ \A f \in DOMAIN result : result[f] < next /\ archive[result[f]] = f

Counted ==
  /\ IsFiniteSet(DOMAIN result)
  /\ Cardinality(DOMAIN result) = Len(wanted) - remaining

(* Every packed name is archived once.                                      *)
PackedOnce ==
  /\ \A i, j \in DOMAIN archive : archive[i] = archive[j] => i = j
  /\ status = "writing" => Range(archive) = Packed \ left
  /\ ~damaged /\ status # "writing" => Range(archive) = Packed \ left

(* What each outcome of a reading means.                                    *)
Outcome ==
  /\ status \in {"writing", "stored"} => wanted = <<>> /\ next = 1 
  /\ status \in {"found", "missing"} => next = Len(archive) + 1 /\ ~damaged
  /\ status = "found" => remaining = 0
  /\ status = "missing" => remaining # 0

ArchiveInv ==
  TypeOK /\ Split /\ Seen /\ Counted /\ PackedOnce /\ Outcome /\ NeverPanics

-----------------------------------------------------------------------------
(* The loop invariant holds before anything was archived or asked for.      *)
LEMMA InvInit == Init => ArchiveInv
<1> SUFFICES ASSUME Init PROVE ArchiveInv
  OBVIOUS
<1> USE NamesAssumption
<1>1. DOMAIN result = {}
  BY DEF Init, Empty
<1>2. TypeOK
  <2>1. DOMAIN result \subseteq Names /\ \A f \in DOMAIN result : result[f] \in 1..Len(archive)
    BY <1>1
  <2>2. archive \in Seq(Packed) /\ wanted \in Seq(Names) /\ files \in Seq(Names) /\ Len(files) = Len(wanted)
    BY DEF Init
  <2>3. /\ status \in Ended \cup {"writing", "reading"} /\ left \subseteq Packed
        /\ damaged \in BOOLEAN
    BY DEF Init, Ended
  <2>4. Len(archive) = 0 /\ Len(files) = 0
    BY DEF Init
  <2>5. remaining \in 0..Len(files) /\ next \in 1..Len(archive) + 1
    BY <2>4 DEF Init
  <2> QED
    BY <2>1, <2>2, <2>3, <2>5 DEF TypeOK
<1>3. Split /\ Seen
  BY <1>1 DEF Init, Split, Seen, Remaining, Range
<1>4. Counted
  BY <1>1, FS_EmptySet DEF Init, Counted
<1>5. PackedOnce
  BY DEF Init, PackedOnce, Range
<1>6. Outcome /\ NeverPanics
  BY DEF Init, Outcome, NeverPanics
<1> QED
  BY <1>2, <1>3, <1>4, <1>5, <1>6 DEF ArchiveInv

-----------------------------------------------------------------------------
(* As long as nothing is asked for, the reading side of the invariant says  *)
(* nothing of the archive.                                                  *)
LEMMA NothingAsked ==
  ASSUME ArchiveInv, UNCHANGED reader, status \in {"writing", "stored"}
  PROVE  DOMAIN result = {} /\ Split' /\ Seen' /\ Counted'
<1>1. wanted = <<>> /\ Range(wanted) = {}
  BY DEF ArchiveInv, Outcome, Range
<1>2. DOMAIN result = {}
  BY <1>1 DEF ArchiveInv, Seen
<1>3. Split'
  BY DEF ArchiveInv, Split, Remaining, reader
<1>4. Seen'
  BY <1>1, <1>2 DEF Seen, reader
<1>5. Counted'
  BY DEF ArchiveInv, Counted, reader
<1> QED
  BY <1>2, <1>3, <1>4, <1>5

(* Adding a file keeps the entries distinct, as it was not added before.    *)
LEMMA AddFileKeeps == ArchiveInv /\ AddFile => ArchiveInv'
<1> SUFFICES ASSUME ArchiveInv, AddFile PROVE ArchiveInv'
  OBVIOUS
<1> USE NamesAssumption
<1>1. PICK f \in left : left' = left \ {f} /\ archive' = Append(archive, f)
  BY DEF AddFile
<1>2. /\ status = "writing" /\ status' = status
      /\ UNCHANGED <<damaged, wanted, files, remaining, result, next>> /\ UNCHANGED reader
  BY DEF AddFile, reader
<1>3. DOMAIN result = {} /\ Split' /\ Seen' /\ Counted'
  BY <1>2, NothingAsked
<1>4. archive \in Seq(Packed) /\ left \subseteq Packed /\ Range(archive) = Packed \ left
  BY <1>2 DEF ArchiveInv, TypeOK, PackedOnce
<1>5. /\ archive' \in Seq(Packed) /\ Len(archive') = Len(archive) + 1
      /\ \A i \in DOMAIN archive : archive'[i] = archive[i]
      /\ archive'[Len(archive) + 1] = f
  BY <1>1, <1>4
<1>6. TypeOK'
  <2>1. next' = 1
    BY <1>2 DEF ArchiveInv, Outcome
  <2> QED
    BY <1>1, <1>2, <1>3, <1>5, <2>1 DEF ArchiveInv, TypeOK
<1>7. PackedOnce'
  <2>1. f \notin Range(archive)
    BY <1>1, <1>4
  <2>2. \A i, j \in DOMAIN archive' : archive'[i] = archive'[j] => i = j
    BY <1>4, <1>5, <2>1 DEF ArchiveInv, PackedOnce, Range
  <2>3. Range(archive') = Range(archive) \cup {f}
    <3>1. DOMAIN archive' = DOMAIN archive \cup {Len(archive) + 1}
      BY <1>4, <1>5
    <3> QED
      BY <1>5, <3>1 DEF Range
  <2>4. Range(archive') = Packed \ left'
    BY <1>1, <1>4, <2>3
  <2> QED
    BY <1>2, <2>2, <2>4 DEF PackedOnce
<1>8. Outcome' /\ NeverPanics'
  BY <1>2 DEF ArchiveInv, Outcome, NeverPanics
<1> QED
  BY <1>3, <1>6, <1>7, <1>8 DEF ArchiveInv

(* However the closing ends, what is stored has distinct entries, and all   *)
(* that were added unless it breaks off.                                    *)
LEMMA CloseKeeps == ArchiveInv /\ Close => ArchiveInv'
<1> SUFFICES ASSUME ArchiveInv, Close PROVE ArchiveInv'
  OBVIOUS
<1>1. /\ status = "writing" /\ status' = "stored"
      /\ UNCHANGED <<left, wanted, files, remaining, result, next>> /\ UNCHANGED reader
  BY DEF Close, reader
<1>2. DOMAIN result = {} /\ Split' /\ Seen' /\ Counted'
  BY <1>1, NothingAsked
<1>3. archive \in Seq(Packed) /\ next = 1
  BY <1>1 DEF ArchiveInv, TypeOK, Outcome
<1>4. \E n \in 0..Len(archive) : archive' = SubSeq(archive, 1, n)
  BY <1>3 DEF Close
<1>5. /\ archive' \in Seq(Packed) /\ Len(archive') \in 0..Len(archive)
      /\ \A i \in DOMAIN archive' : archive'[i] = archive[i]
  BY <1>3, <1>4
<1>6. TypeOK'
  <2>1. damaged' \in BOOLEAN
    BY DEF Close
  <2> QED
    BY <1>1, <1>2, <1>3, <1>5, <2>1 DEF ArchiveInv, TypeOK, Ended
<1>7. PackedOnce'
  <2>1. \A i, j \in DOMAIN archive' : archive'[i] = archive'[j] => i = j
    BY <1>3, <1>5 DEF ArchiveInv, PackedOnce
  <2>2. ~damaged' => archive' = archive
    BY DEF Close
  <2> QED
    BY <1>1, <2>1, <2>2 DEF ArchiveInv, PackedOnce
<1>8. Outcome' /\ NeverPanics'
  BY <1>1 DEF ArchiveInv, Outcome, NeverPanics
<1> QED
  BY <1>2, <1>6, <1>7, <1>8 DEF ArchiveInv

-----------------------------------------------------------------------------
(* A reading starts with all names remaining and no entry seen.             *)
LEMMA ReadFilesKeeps == ArchiveInv /\ ReadFiles => ArchiveInv'
<1> SUFFICES ASSUME ArchiveInv, ReadFiles PROVE ArchiveInv'
  OBVIOUS
<1> USE NamesAssumption
<1>1. PICK n \in 1..MaxWanted : \E w \in Injection(1..n, Names) :
        wanted' = w /\ files' = w /\ remaining' = n
  BY DEF ReadFiles
<1>2. PICK w \in Injection(1..n, Names) : wanted' = w /\ files' = w /\ remaining' = n
  BY <1>1
<1>3. /\ w \in Seq(Names) /\ Len(w) = n /\ DOMAIN w = 1..n
      /\ \A i, j \in 1..n : w[i] = w[j] => i = j
  BY <1>2 DEF Injection, IsInjective
<1>4. /\ status \in Ended /\ status' = "reading"
      /\ UNCHANGED <<left, archive, damaged>> /\ next' = 1
      /\ result' = Empty /\ DOMAIN result' = {}
  BY DEF ReadFiles, writer, Empty
<1>5. TypeOK'
  BY <1>2, <1>3, <1>4 DEF ArchiveInv, TypeOK
<1>6. Split'
  BY <1>2, <1>3, <1>4 DEF Split, Remaining, Range
<1>7. Seen'
  BY <1>4 DEF Seen
<1>8. Counted'
  BY <1>2, <1>3, <1>4, FS_EmptySet DEF Counted
<1>9. PackedOnce'
  BY <1>4 DEF ArchiveInv, PackedOnce, Ended
<1>10. Outcome' /\ NeverPanics'
  BY <1>4 DEF Outcome, NeverPanics
<1> QED
  BY <1>5, <1>6, <1>7, <1>8, <1>9, <1>10 DEF ArchiveInv

(* The entries seen after the next one.                                     *)
LEMMA SeenNext ==
  ASSUME ArchiveInv, next \in 1..Len(archive)
  PROVE  /\ {archive[k] : k \in 1..next} = {archive[k] : k \in 1..(next - 1)} \cup {archive[next]}
         /\ archive[next] \notin DOMAIN result
<1>1. \A k \in 1..next : k \in 1..(next - 1) \/ k = next
  BY DEF ArchiveInv, TypeOK
<1>2. archive[next] \notin {archive[k] : k \in 1..(next - 1)}
  BY DEF ArchiveInv, TypeOK, PackedOnce
<1> QED
  BY <1>1, <1>2 DEF ArchiveInv, TypeOK, Seen

(* A name met in the array is one of those remaining: left-overs behind     *)
(* them stand for names that were found before.                             *)
LEMMA IndexRemains ==
  ASSUME ArchiveInv, next \in 1..Len(archive), NEW i \in Index(archive[next])
  PROVE  i \in 1..remaining /\ archive[next] \in Range(wanted)
<1> DEFINE name == archive[next]
<1>1. i \in 1..Len(files) /\ files[i] = name /\ \A j \in 1..(i - 1) : files[j] # name
  BY DEF Index, ArchiveInv, TypeOK
<1>2. name \in Range(wanted) \ DOMAIN result
  <2>1. name \in Range(files)
    BY <1>1 DEF Range, ArchiveInv, TypeOK
  <2>2. name \in Range(wanted)
    BY <2>1 DEF ArchiveInv, Split
  <2> QED
    BY <2>2, SeenNext
<1>3. PICK j \in 1..remaining : files[j] = name
  BY <1>2 DEF ArchiveInv, Split, Remaining
<1>4. ~(j \in 1..(i - 1))
  BY <1>1, <1>3
<1> QED
  BY <1>1, <1>2, <1>3, <1>4 DEF ArchiveInv, TypeOK

(* The next entry moves one name from the remaining ones to the results, or *)
(* is not asked for.                                                        *)
LEMMA NextEntryKeeps == ArchiveInv /\ NextEntry => ArchiveInv'
<1> SUFFICES ASSUME ArchiveInv, NextEntry PROVE ArchiveInv'
  OBVIOUS
<1> DEFINE name == archive[next]
<1>1. /\ status = "reading" /\ next \in 1..Len(archive) /\ UNCHANGED <<wanted, left, archive, damaged>>
      /\ archive \in Seq(Packed) /\ name \in Packed /\ name \in Names
  BY NamesAssumption DEF NextEntry, ArchiveInv, TypeOK, writer
<1>2. name \notin DOMAIN result
  BY <1>1, SeenNext
<1>3. CASE name \notin Range(files)
  <2>1. next' = next + 1 /\ UNCHANGED <<status, files, remaining, result>>
    <3>1. Index(name) = {}
      BY <1>3 DEF Index, Range
    <3> QED
      BY <3>1 DEF NextEntry, Take
  <2>2. name \notin Remaining
    BY <1>3 DEF Remaining, Range, ArchiveInv, TypeOK
  <2>3. name \notin Range(wanted)
    BY <1>2, <2>2 DEF ArchiveInv, Split
  <2>4. Seen'
    BY <1>1, <2>1, <2>3, SeenNext DEF ArchiveInv, Seen, TypeOK
  <2>5. TypeOK'
    BY <1>1, <2>1 DEF ArchiveInv, TypeOK
  <2>6. Split' /\ Counted' /\ PackedOnce' /\ Outcome' /\ NeverPanics'
    BY <1>1, <2>1 DEF ArchiveInv, Split, Remaining, Counted, PackedOnce, Outcome, NeverPanics
  <2> QED
    BY <2>4, <2>5, <2>6 DEF ArchiveInv
<1>4. CASE name \in Range(files)
  <2>1. Take(name)
    BY <1>4 DEF NextEntry
  <2>2. PICK i \in Index(name) :
          \/ /\ i <= remaining
             /\ result' = [f \in DOMAIN result \cup {name} |-> IF f = name THEN next ELSE result[f]]
             /\ Remove(i)
             /\ next' = next + 1
             /\ UNCHANGED status
          \/ i > remaining
    BY <2>1 DEF Take
  <2>3. i \in 1..remaining /\ name \in Range(wanted) /\ files[i] = name
    BY <1>1, <2>2, IndexRemains DEF Index
  <2>4. /\ DOMAIN result' = DOMAIN result \cup {name}
        /\ \A f \in DOMAIN result' : result'[f] = IF f = name THEN next ELSE result[f]
        /\ files' = [files EXCEPT ![i] = files[remaining]]
        /\ remaining' = remaining - 1 /\ next' = next + 1 /\ status' = status
    <3>1. ~(i > remaining)
      BY <2>3 DEF ArchiveInv, TypeOK
    <3> QED
      BY <2>2, <3>1 DEF Remove
  <2>5. /\ files \in Seq(Names) /\ remaining \in 1..Len(files) /\ Len(files) = Len(wanted)
        /\ files' \in Seq(Names) /\ Len(files') = Len(files)
        /\ \A j \in 1..Len(files) : files'[j] = IF j = i THEN files[remaining] ELSE files[j]
    BY <2>3, <2>4 DEF ArchiveInv, TypeOK
  <2>6. TypeOK'
    BY <1>1, <2>4, <2>5 DEF ArchiveInv, TypeOK
  <2>7. Split'
    <3>1. \A j, k \in 1..remaining : files[j] = files[k] => j = k
      BY DEF ArchiveInv, Split
    <3>2. \A j, k \in 1..remaining' : files'[j] = files'[k] => j = k
      BY <2>3, <2>4, <2>5, <3>1
    <3>3. Remaining' = Remaining \ {name}
      <4>1. Remaining' = {files'[j] : j \in 1..(remaining - 1)}
        BY <2>4 DEF Remaining
      <4>2. ASSUME NEW j \in 1..(remaining - 1) PROVE files'[j] \in Remaining \ {name}
        BY <2>3, <2>5, <3>1 DEF Remaining
      <4>3. ASSUME NEW j \in 1..remaining, files[j] # name
            PROVE  \E k \in 1..(remaining - 1) : files'[k] = files[j]
        <5>1. CASE j = remaining
          BY <2>3, <2>5, <4>3, <5>1
        <5>2. CASE j # remaining
          BY <2>3, <2>5, <4>3, <5>2
        <5> QED
          BY <5>1, <5>2
      <4>4. Remaining \ {name} \subseteq Remaining'
        BY <4>1, <4>3 DEF Remaining
      <4> QED
        BY <4>1, <4>2, <4>4
    <3>4. Remaining' = Range(wanted') \ DOMAIN result'
      BY <1>1, <2>4, <3>3 DEF ArchiveInv, Split
    <3>5. Range(files') \subseteq Range(wanted')
      <4>1. Range(files) \subseteq Range(wanted) /\ wanted' = wanted
        BY <1>1 DEF ArchiveInv, Split
      <4>2. DOMAIN files = 1..Len(files) /\ DOMAIN files' = 1..Len(files)
        BY <2>5
      <4> QED
        BY <2>5, <4>1, <4>2 DEF Range
    <3> QED
      BY <3>2, <3>4, <3>5 DEF Split
  <2>8. Seen'
    <3>1. {archive'[k] : k \in 1..(next' - 1)} = {archive[k] : k \in 1..(next - 1)} \cup {name}
      <4>1. next' - 1 = next
        BY <1>1, <2>4
      <4> QED
        BY <1>1, <4>1, SeenNext
    <3>2. DOMAIN result' = Range(wanted') \cap {archive'[k] : k \in 1..(next' - 1)}
      BY <1>1, <2>3, <2>4, <3>1 DEF ArchiveInv, Seen
    <3>3. ASSUME NEW f \in DOMAIN result' PROVE result'[f] < next' /\ archive'[result'[f]] = f
      <4>1. CASE f = name
        BY <1>1, <2>4, <4>1
      <4>2. CASE f # name
        <5>1. f \in DOMAIN result /\ result'[f] = result[f]
          BY <2>4, <4>2
        <5>2. result[f] < next /\ archive[result[f]] = f /\ result[f] \in 1..Len(archive)
          BY <5>1 DEF ArchiveInv, Seen, TypeOK
        <5> QED
          BY <1>1, <2>4, <5>1, <5>2
      <4> QED
        BY <4>1, <4>2
    <3> QED
      BY <3>2, <3>3 DEF Seen
  <2>9. Counted'
    <3>1. Cardinality(DOMAIN result') = Cardinality(DOMAIN result) + 1 /\ IsFiniteSet(DOMAIN result')
      BY <1>2, <2>4, FS_AddElement DEF ArchiveInv, Counted
    <3> QED
      BY <1>1, <2>4, <2>5, <3>1 DEF ArchiveInv, Counted
  <2>10. PackedOnce' /\ Outcome' /\ NeverPanics'
    BY <1>1, <2>4 DEF ArchiveInv, PackedOnce, Outcome, NeverPanics
  <2> QED
    BY <2>6, <2>7, <2>8, <2>9, <2>10 DEF ArchiveInv
<1> QED
  BY <1>3, <1>4

(* As many results as names means that no name remains.                     *)
LEMMA EndOfArchiveKeeps == ArchiveInv /\ EndOfArchive => ArchiveInv'
<1> SUFFICES ASSUME ArchiveInv, EndOfArchive PROVE ArchiveInv'
  OBVIOUS
<1>1. /\ status = "reading" /\ next = Len(archive) + 1
      /\ UNCHANGED <<left, archive, damaged, wanted, files, remaining, result, next>>
      /\ status' = IF damaged THEN "broken" ELSE Verdict
  BY DEF EndOfArchive, writer, reader
<1>2. (Verdict = "found" /\ remaining = 0) \/ (Verdict = "missing" /\ remaining # 0)
  <2>1. Len(files) \in Nat /\ remaining \in Nat /\ Cardinality(DOMAIN result) = Len(files) - remaining
    BY DEF ArchiveInv, TypeOK, Counted
  <2>2. CASE remaining = 0
    BY <2>1, <2>2 DEF Verdict
  <2>3. CASE remaining # 0
    BY <2>1, <2>3 DEF Verdict
  <2> QED
    BY <2>2, <2>3
<1>3. TypeOK' /\ PackedOnce' /\ Outcome' /\ NeverPanics'
  BY <1>1, <1>2 DEF ArchiveInv, TypeOK, PackedOnce, Outcome, NeverPanics, Ended
<1>4. Split' /\ Seen' /\ Counted'
  BY <1>1 DEF ArchiveInv, Split, Remaining, Seen, Counted
<1> QED
  BY <1>3, <1>4 DEF ArchiveInv

(* Every step of filling or reading the archive keeps the loop invariant.   *)
LEMMA InvStep == ArchiveInv /\ [Next]_vars => ArchiveInv'
<1> SUFFICES ASSUME ArchiveInv, [Next]_vars PROVE ArchiveInv'
  OBVIOUS
<1>1. CASE UNCHANGED vars
  BY <1>1 DEF vars, ArchiveInv, TypeOK, Split, Remaining, Seen, Counted, PackedOnce, Outcome, NeverPanics
<1> QED
  BY <1>1, AddFileKeeps, CloseKeeps, ReadFilesKeeps, NextEntryKeeps, EndOfArchiveKeeps DEF Next

-----------------------------------------------------------------------------
(* The loop of ReadFiles keeps its array, its results and the entries it    *)
(* has seen in step, for any files packed and asked for.                    *)
THEOREM Invariance == Spec => []ArchiveInv
BY InvInit, InvStep, PTL DEF Spec

(* The shared array and the indexes into it stay well typed.                *)
THEOREM TypeCorrect == Spec => []TypeOK
<1>1. ArchiveInv => TypeOK
  BY DEF ArchiveInv
<1> QED BY <1>1, Invariance, PTL

(* ReadFiles succeeds only with all files asked for, each with the content  *)
(* archived under its name.                                                 *)
THEOREM FoundStaysExact == Spec => []FoundIsExact
<1>1. ArchiveInv => FoundIsExact
  <2> SUFFICES ASSUME ArchiveInv, status = "found"
               PROVE  DOMAIN result = Range(wanted) /\ \A f \in DOMAIN result : archive[result[f]] = f
    BY DEF FoundIsExact
  <2>1. Remaining = {}
    BY DEF ArchiveInv, Outcome, Remaining
  <2> QED
    BY <2>1 DEF ArchiveInv, Split, Seen
<1> QED
  BY <1>1, Invariance, PTL

(* The error of ReadFiles names exactly the files that are not archived.    *)
THEOREM MissingStaysExact == Spec => []MissingIsExact
<1>1. ArchiveInv => MissingIsExact
  <2> SUFFICES ASSUME ArchiveInv, status = "missing"
               PROVE  Remaining = Range(wanted) \ Range(archive) /\ Remaining # {}
    BY DEF MissingIsExact
  <2>1. remaining # 0 /\ next = Len(archive) + 1 /\ remaining \in Nat /\ archive \in Seq(Packed)
    BY DEF ArchiveInv, Outcome, TypeOK
  <2>2. Range(archive) = {archive[k] : k \in 1..(next - 1)}
    BY <2>1 DEF Range
  <2>3. files[1] \in Remaining
    BY <2>1 DEF Remaining
  <2> QED
    BY <2>2, <2>3 DEF ArchiveInv, Split, Seen
<1> QED
  BY <1>1, Invariance, PTL

(* The removal from the shared array never indexes past the remaining names.*)
THEOREM PanicIsImpossible == Spec => []NeverPanics
BY Invariance, PTL DEF ArchiveInv

(* Files that a first setup has packed are never reported as missing.       *)
THEOREM PackedStaysFound == Spec => []PackedIsNotMissing
<1>1. ArchiveInv /\ MissingIsExact => PackedIsNotMissing
  <2> SUFFICES ASSUME ArchiveInv, MissingIsExact, status = "missing", left = {},
                      Range(wanted) \subseteq Packed
               PROVE  FALSE
    BY DEF PackedIsNotMissing
  <2>1. Range(archive) = Packed
    BY DEF ArchiveInv, Outcome, PackedOnce
  <2> QED
    BY <2>1 DEF MissingIsExact
<1> QED
  BY <1>1, Invariance, MissingStaysExact, PTL
=============================================================================
