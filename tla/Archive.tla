------------------------------- MODULE Archive -------------------------------
(* The encrypted archive of the cluster credentials: how a first setup      *)
(* fills it (createEncryptedSecret, pkg/encrypter/writer.go) and how the    *)
(* setups and bootstrap-token look for files in it (pkg/encrypter/reader.go)*)
(*                                                                          *)
(* ReadFiles keeps the names it still looks for in remainingFiles, a slice  *)
(* that shares its array with the argument files it ranges over: removing a *)
(* name overwrites an element of both.                                      *)
EXTENDS FiniteSets, Functions, Sequences

CONSTANTS
  Names,     \* names of files
  Packed,    \* those that a first setup puts into the archive
  MaxWanted  \* bound: how many files are asked for at once

ASSUME NamesAssumption ==
  Packed \subseteq Names /\ IsFiniteSet(Packed) /\ MaxWanted \in Nat

VARIABLES
  status,    \* writing, stored, reading, or how the reading ended
  left,      \* files not yet added
  archive,   \* the entries, in order
  damaged,   \* whether what was stored breaks off before its trailer
  wanted,    \* the names given to ReadFiles
  files,     \* its argument: the array, as it is now
  remaining, \* len(remainingFiles)
  result,    \* result: the entry that each file was read from
  next       \* the next entry

writer == <<left, archive, damaged>>
reader == <<wanted, files, remaining, result, next>>
vars   == <<status, left, archive, damaged, wanted, files, remaining, result, next>>

Ended == {"stored", "found", "missing", "broken", "panic"}
Empty == [f \in {} |-> 0]

Init ==
  /\ status = "writing"
  /\ left = Packed
  /\ archive = <<>>
  /\ damaged = FALSE
  /\ wanted = <<>> /\ files = <<>> /\ remaining = 0
  /\ result = Empty
  /\ next = 1

-----------------------------------------------------------------------------
(* createEncryptedSecret ranges over a map: every name once, in any order.  *)
AddFile ==
  /\ status = "writing"
  /\ \E f \in left : left' = left \ {f} /\ archive' = Append(archive, f)
  /\ UNCHANGED <<status, damaged, reader>>

(* The deferred closing runs after an error too, and its own errors are not *)
(* seen: what is stored has the files added so far, or breaks off.          *)
Close ==
  /\ status = "writing"
  /\ \/ damaged' = FALSE /\ UNCHANGED archive
     \/ damaged' = TRUE /\ \E n \in 0..Len(archive) : archive' = SubSeq(archive, 1, n)
  /\ status' = "stored"
  /\ UNCHANGED <<left, reader>>

-----------------------------------------------------------------------------
(* The callers ask for one or more files and name each once.                *)
ReadFiles ==
  /\ status \in Ended
  /\ \E n \in 1..MaxWanted :
       \E w \in Injection(1..n, Names) : wanted' = w /\ files' = w /\ remaining' = n
  /\ result' = Empty
  /\ next' = 1
  /\ status' = "reading"
  /\ UNCHANGED writer

(* The index at which the inner loop meets a name, if it does.              *)
Index(name) ==
  {i \in DOMAIN files : files[i] = name /\ \A j \in 1..(i - 1) : files[j] # name}

(* Mutations of Remove: the last name is not moved into the gap; the last   *)
(* name is taken from the whole array.                                      *)
RemoveAtEnd(i) ==
  /\ UNCHANGED files
  /\ remaining' = remaining - 1

RemoveLastOfArray(i) ==
  /\ files' = [files EXCEPT ![i] = files[Len(files)]]
  /\ remaining' = remaining - 1

(* The last remaining name takes the place of the one that was found.       *)
Remove(i) ==
  /\ files' = [files EXCEPT ![i] = files[remaining]]
  /\ remaining' = remaining - 1

(* Mutation of Take: the entry is not matched with the names asked for.     *)
TakeAny(name) ==
  /\ result' = [f \in DOMAIN result \cup {name} |-> IF f = name THEN next ELSE result[f]]
  /\ remaining' = remaining - 1
  /\ next' = next + 1
  /\ UNCHANGED <<status, files>>

(* remainingFiles[index] is out of range once index is not below its length.*)
Take(name) ==
  \E i \in Index(name) :
    \/ /\ i <= remaining
       /\ result' = [f \in DOMAIN result \cup {name} |-> IF f = name THEN next ELSE result[f]]
       /\ Remove(i)
       /\ next' = next + 1
       /\ UNCHANGED status
    \/ /\ i > remaining
       /\ status' = "panic"
       /\ UNCHANGED <<files, remaining, result, next>>

NextEntry ==
  /\ status = "reading" /\ next <= Len(archive)
  /\ \/ Take(archive[next])
     \/ /\ archive[next] \notin Range(files)
        /\ next' = next + 1
        /\ UNCHANGED <<status, files, remaining, result>>
  /\ UNCHANGED <<wanted, writer>>

(* len(result) against len(files).                                          *)
Verdict == IF Cardinality(DOMAIN result) = Len(files) THEN "found" ELSE "missing"

(* Mutations of EndOfArchive: the number of results is not looked at; a     *)
(* stream that breaks off is taken for one that ends.                       *)
EndUnchecked ==
  /\ status = "reading" /\ next = Len(archive) + 1
  /\ status' = IF damaged THEN "broken" ELSE "found"
  /\ UNCHANGED <<writer, reader>>

EndTolerant ==
  /\ status = "reading" /\ next = Len(archive) + 1
  /\ status' = Verdict
  /\ UNCHANGED <<writer, reader>>

EndOfArchive ==
  /\ status = "reading" /\ next = Len(archive) + 1
  /\ status' = IF damaged THEN "broken" ELSE Verdict
  /\ UNCHANGED <<writer, reader>>

Next == AddFile \/ Close \/ ReadFiles \/ NextEntry \/ EndOfArchive

Spec == Init /\ [][Next]_vars

-----------------------------------------------------------------------------
(* Properties.                                                              *)

(* remainingFiles never gets longer than the array or shorter than nothing, *)
(* and every result is from an entry of the archive.                        *)
TypeOK ==
  /\ status \in Ended \cup {"writing", "reading"}
  /\ left \subseteq Packed
  /\ archive \in Seq(Packed)
  /\ damaged \in BOOLEAN
  /\ wanted \in Seq(Names) /\ files \in Seq(Names) /\ Len(files) = Len(wanted)
  /\ remaining \in 0..Len(files)
  /\ DOMAIN result \subseteq Names
  /\ \A f \in DOMAIN result : result[f] \in 1..Len(archive)
  /\ next \in 1..Len(archive) + 1

Remaining == {files[i] : i \in 1..remaining}

(* What ReadFiles returns are all the files it was asked for, each with the *)
(* content archived under its name, in spite of the array changing under    *)
(* the loop (reader.go:81-95).                                              *)
FoundIsExact ==
  status = "found" =>
    DOMAIN result = Range(wanted) /\ \A f \in DOMAIN result : archive[result[f]] = f

(* "All the files passed must exists, otherwise an error will be returned": *)
(* the error (reader.go:99-106) names the files that are missing, and no    *)
(* others.                                                                  *)
MissingIsExact ==
  status = "missing" => Remaining = Range(wanted) \ Range(archive) /\ Remaining # {}

(* The array never gets into a state in which the removal indexes past the  *)
(* remaining names (reader.go:92).                                          *)
NeverPanics == status # "panic"

(* Files that a first setup has packed are never reported as missing: an    *)
(* archive whose closing went wrong (firstsetup.go:245) shows as an error   *)
(* of another kind.                                                         *)
PackedIsNotMissing ==
  status = "missing" /\ left = {} => ~(Range(wanted) \subseteq Packed)
=============================================================================
