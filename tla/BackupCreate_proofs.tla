-------------------------- MODULE BackupCreate_proofs --------------------------
(***************************************************************************)
(* Proofs about backups: their creation (BackupCreate), for any commands,  *)
(* destinations and files, and the restores (BackupRestore, as Backups     *)
(* composes it), for any commands and paths.                               *)
(***************************************************************************)
EXTENDS Backups, FiniteSetTheorems, TLAPS

USE BackupConstants DEF Working, InFile, Points, Bytes

\* One more entry is counted once.
LEMMA CountOne ==
    ASSUME NEW S \in SUBSET Paths, NEW p \in Paths, p \notin S
    PROVE  Cardinality(S \cup {p}) = Cardinality(S) + 1 /\ Cardinality(S) \in Nat
BY FS_Subset, FS_AddElement, FS_CardinalityType

\* Before any backup: no names, no files.
LEMMA InitIInv == Init => IInv
<1> SUFFICES ASSUME Init PROVE IInv
  OBVIOUS
<1>1. TypeOK
  BY DEF Init, TypeOK, EmptyZip, Zips
<1>2. NamesInv /\ HoldInv /\ CountInv
  BY DEF Init, NamesInv, HoldInv, CountInv
<1>3. PublishedIsComplete /\ ArchivedMembers /\ TrueOutcome
  BY DEF Init, EmptyZip, PublishedIsComplete, ArchivedMembers, TrueOutcome
<1> QED
  BY <1>1, <1>2, <1>3 DEF IInv

\* Every step of a backup, of the runtime, and a crash, preserves the invariant.
LEMMA StepIInv == IInv /\ [Next]_vars => IInv'
<1>1. ASSUME IInv, NEW p \in Paths, Runtime(p) PROVE IInv'
  <2>1. TypeOK'
    <3>1. data' \in [Paths -> Bytes]
      <4>1. CASE data' = [data EXCEPT ![p] = "torn"]
        BY <1>1, <4>1 DEF IInv, TypeOK
      <4>2. CASE data' = [data EXCEPT ![p] = "whole"]
        BY <1>1, <4>2 DEF IInv, TypeOK
      <4>3. CASE data' = [data EXCEPT ![p] = "absent"]
        BY <1>1, <4>3 DEF IInv, TypeOK
      <4> QED
        BY <1>1, <4>1, <4>2, <4>3 DEF Runtime
    <3> QED
      BY <1>1, <3>1 DEF IInv, Runtime, TypeOK
  <2>2. NamesInv'
    BY <1>1 DEF IInv, Runtime, TypeOK, NamesInv
  <2>3. HoldInv'
    BY <1>1 DEF IInv, Runtime, TypeOK, NamesInv, HoldInv
  <2>4. CountInv'
    BY <1>1 DEF IInv, Runtime, TypeOK, NamesInv, HoldInv, CountInv, Counted, Own
  <2>5. PublishedIsComplete'
    BY <1>1 DEF IInv, Runtime, TypeOK, NamesInv, HoldInv, CountInv, Counted, Own, PublishedIsComplete, Complete
  <2>6. ArchivedMembers'
    BY <1>1 DEF IInv, Runtime, TypeOK, NamesInv, HoldInv, CountInv, Counted, Own, ArchivedMembers
  <2>7. TrueOutcome'
    BY <1>1 DEF IInv, Runtime, TypeOK, NamesInv, HoldInv, TrueOutcome
  <2> QED
    BY <2>1, <2>2, <2>3, <2>4, <2>5, <2>6, <2>7 DEF IInv
<1>2. ASSUME IInv, NEW b \in Ops, Check(b) PROVE IInv'
  <2>1. TypeOK'
    BY <1>2 DEF IInv, Check, Taken, Goto, TypeOK, NamesInv
  <2>2. NamesInv'
    BY <1>2 DEF IInv, Check, Taken, Goto, TypeOK, NamesInv
  <2>3. HoldInv'
    <3>1. CASE Taken(dest[b])
      BY <1>2, <3>1 DEF IInv, Check, Goto, TypeOK, HoldInv
    <3>2. CASE ~Taken(dest[b])
      <4> DEFINE others == {x \in Ops \ {b} : at[x] \in Working /\ dest[x] = dest[b]}
      <4>1. /\ at' = [at EXCEPT ![b] = "checked"] /\ archive[dest[b]] = None
            /\ overlapped \subseteq overlapped'
            /\ others # {} => dest[b] \in overlapped'
            /\ UNCHANGED <<archive, temp, dest, opened>>
        BY <1>2, <3>2 DEF IInv, Check, Goto, Taken, TypeOK
      <4>2. ASSUME NEW x \in Ops, NEW y \in Ops, dest[x] = dest[y], dest[x] \notin overlapped',
                   at'[x] \in Working, at'[y] \in Working
            PROVE  x = y
        BY <4>1, <4>2, <1>2 DEF IInv, TypeOK, HoldInv
      <4> HIDE DEF others
      <4>3. /\ \A x \in Ops : dest[x] \notin overlapped' /\ at'[x] \in Working => archive[dest[x]] = None
            /\ \A x \in Ops : dest[x] \notin overlapped' /\ at'[x] \in InFile => temp[dest[x]] = opened[x]
            /\ \A d \in Dests \ overlapped' : temp[d] # None => archive[d] = None
        BY <4>1, <1>2 DEF IInv, TypeOK, HoldInv
      <4> QED
        BY <4>1, <4>2, <4>3 DEF HoldInv
    <3> QED
      BY <3>1, <3>2
  <2>4. CountInv'
    BY <1>2 DEF IInv, Check, Taken, Goto, TypeOK, NamesInv, HoldInv, CountInv, Counted, Own
  <2>5. PublishedIsComplete'
    BY <1>2 DEF IInv, Check, Taken, Goto, TypeOK, NamesInv, HoldInv, CountInv, Counted, Own, PublishedIsComplete, Complete
  <2>6. ArchivedMembers'
    BY <1>2 DEF IInv, Check, Taken, Goto, TypeOK, NamesInv, HoldInv, CountInv, Counted, Own, ArchivedMembers
  <2>7. TrueOutcome'
    BY <1>2 DEF IInv, Check, Taken, Goto, TypeOK, NamesInv, HoldInv, TrueOutcome
  <2> QED
    BY <2>1, <2>2, <2>3, <2>4, <2>5, <2>6, <2>7 DEF IInv
<1>3. ASSUME IInv, NEW b \in Ops, Open(b) PROVE IInv'
  <2>1. TypeOK'
    <3>1. file' \in [Ops -> Zips]
      BY <1>3 DEF IInv, Open, EmptyZip, TypeOK, Zips
    <3> QED
      BY <1>3, <3>1 DEF IInv, Open, Goto, TypeOK
  <2>2. NamesInv'
    BY <1>3 DEF IInv, Open, Goto, EmptyZip, TypeOK, NamesInv
  <2>3. HoldInv'
    BY <1>3 DEF IInv, Open, Goto, EmptyZip, TypeOK, NamesInv, HoldInv
  <2>4. CountInv'
    <3> SUFFICES ASSUME NEW x \in Ops, dest[x] \notin overlapped, at'[x] \in InFile
                 PROVE  Counted(x)'
      BY <1>3 DEF Open, CountInv
    <3>1. CASE x # b
      <4>1. at[x] \in InFile /\ Counted(x)
        BY <1>3, <3>1 DEF IInv, Open, Goto, TypeOK, CountInv
      <4>2. opened[x] \in Ops /\ opened[x] = opened'[x] /\ file'[opened[x]] = file[opened[x]]
        BY <1>3, <3>1, <4>1 DEF IInv, Open, Goto, TypeOK, NamesInv, HoldInv
      <4>3. Own(x)' = Own(x) /\ at'[x] = at[x] /\ todo'[x] = todo[x] /\ files'[x] = files[x]
        BY <1>3, <3>1, <4>2 DEF IInv, Open, Goto, TypeOK, Own
      <4> QED
        BY <4>1, <4>3 DEF Counted
    <3>2. CASE x = b
      <4>1. Own(b)' = [EmptyZip EXCEPT !.config = TRUE] /\ files'[b] = 1 /\ at'[b] = "open"
        BY <1>3 DEF IInv, Open, Goto, TypeOK, NamesInv, Own
      <4>2. todo'[b] = {}
        BY <1>3 DEF IInv, Open, TypeOK, NamesInv
      <4>3. Cardinality({}) = 0
        BY FS_EmptySet
      <4> QED
        BY <3>2, <4>1, <4>2, <4>3 DEF Counted, EmptyZip
    <3> QED
      BY <3>1, <3>2
  <2>5. PublishedIsComplete'
    BY <1>3 DEF IInv, Open, Goto, EmptyZip, TypeOK, NamesInv, HoldInv, CountInv, Counted, Own, PublishedIsComplete, Complete
  <2>6. ArchivedMembers'
    BY <1>3 DEF IInv, Open, Goto, EmptyZip, TypeOK, NamesInv, HoldInv, CountInv, Counted, Own, ArchivedMembers
  <2>7. TrueOutcome'
    BY <1>3 DEF IInv, Open, Goto, EmptyZip, TypeOK, NamesInv, HoldInv, TrueOutcome
  <2> QED
    BY <2>1, <2>2, <2>3, <2>4, <2>5, <2>6, <2>7 DEF IInv
<1>4. ASSUME IInv, NEW b \in Ops, List(b) PROVE IInv'
  <2>1. TypeOK'
    BY <1>4 DEF IInv, List, Listing, Goto, TypeOK, NamesInv
  <2>2. NamesInv'
    BY <1>4 DEF IInv, List, Listing, Goto, TypeOK, NamesInv
  <2>3. HoldInv'
    BY <1>4 DEF IInv, List, Listing, Goto, TypeOK, NamesInv, HoldInv
  <2>4. CountInv'
    BY <1>4 DEF IInv, List, Listing, Goto, TypeOK, NamesInv, HoldInv, CountInv, Counted, Own
  <2>5. PublishedIsComplete'
    BY <1>4 DEF IInv, List, Listing, Goto, TypeOK, NamesInv, HoldInv, CountInv, Counted, Own, PublishedIsComplete, Complete
  <2>6. ArchivedMembers'
    BY <1>4 DEF IInv, List, Listing, Goto, TypeOK, NamesInv, HoldInv, CountInv, Counted, Own, ArchivedMembers
  <2>7. TrueOutcome'
    BY <1>4 DEF IInv, List, Listing, Goto, TypeOK, NamesInv, HoldInv, TrueOutcome
  <2> QED
    BY <2>1, <2>2, <2>3, <2>4, <2>5, <2>6, <2>7 DEF IInv
<1>5. ASSUME IInv, NEW b \in Ops, NEW p \in Paths, Add(b, p) PROVE IInv'
  <2>1. TypeOK'
    <3>1. opened[b] \in Ops /\ Own(b) \in Zips /\ files[b] \in Nat
      BY <1>5 DEF IInv, Add, TypeOK, NamesInv, Own
    <3>2. PICK z \in Zips : file' = [file EXCEPT ![opened[b]] = z]
      BY <1>5, <3>1 DEF Add, CopyIsTorn, Put, Zips
    <3>3. file' \in [Ops -> Zips]
      BY <1>5, <3>1, <3>2 DEF IInv, TypeOK
    <3>4. files' \in [Ops -> Nat] /\ todo' \in [Ops -> SUBSET Paths] /\ at' \in [Ops -> Points]
      BY <1>5, <3>1 DEF IInv, Add, Goto, TypeOK
    <3> QED
      BY <1>5, <3>3, <3>4 DEF IInv, Add, TypeOK
  <2>2. NamesInv'
    BY <1>5 DEF IInv, Add, CopyIsTorn, Put, Own, TypeOK, NamesInv
  <2>3. HoldInv'
    BY <1>5 DEF IInv, Add, CopyIsTorn, Put, Own, TypeOK, NamesInv, HoldInv
  <2>4. CountInv'
    <3> SUFFICES ASSUME NEW x \in Ops, dest[x] \notin overlapped, at'[x] \in InFile
                 PROVE  Counted(x)'
      BY <1>5 DEF Add, CountInv
    <3>1. CASE x # b
      <4>1. at[x] \in InFile /\ Counted(x)
        BY <1>5, <3>1 DEF IInv, Add, Goto, TypeOK, CountInv
      <4>2. opened[x] \in Ops /\ opened[x] = opened'[x] /\ file'[opened[x]] = file[opened[x]]
        BY <1>5, <3>1, <4>1 DEF IInv, Add, Put, TypeOK, NamesInv, HoldInv
      <4>3. Own(x)' = Own(x) /\ at'[x] = at[x] /\ todo'[x] = todo[x] /\ files'[x] = files[x]
        BY <1>5, <3>1, <4>2 DEF IInv, Add, Goto, TypeOK, Own
      <4> QED
        BY <4>1, <4>3 DEF Counted
    <3>2. CASE x = b
      <4>1. opened[b] \in Ops /\ Own(b) \in Zips /\ Counted(b) /\ at[b] = "listed"
        BY <1>5, <3>2 DEF IInv, Add, TypeOK, NamesInv, CountInv, Own
      <4>2. /\ Own(b)'.members = Own(b).members \cup {p}
            /\ Own(b)'.config = Own(b).config
        BY <1>5, <4>1 DEF IInv, Add, Put, TypeOK, Own, Zips
      <4>3. files'[b] = files[b] + 1 /\ todo'[b] = todo[b] \ {p} /\ at'[b] = "listed"
        BY <1>5 DEF IInv, Add, TypeOK
      <4>4. Own(b).members \in SUBSET Paths /\ p \notin Own(b).members
        BY <1>5, <4>1 DEF Add, Counted, Zips
      <4>5. /\ Cardinality(Own(b).members \cup {p}) = Cardinality(Own(b).members) + 1
            /\ Cardinality(Own(b).members) \in Nat
        BY <4>4, CountOne
      <4> QED
        BY <3>2, <4>1, <4>2, <4>3, <4>5 DEF Counted
    <3> QED
      BY <3>1, <3>2
  <2>5. PublishedIsComplete'
    BY <1>5 DEF IInv, Add, CopyIsTorn, Put, Own, TypeOK, NamesInv, HoldInv, CountInv, Counted, Own, PublishedIsComplete, Complete
  <2>6. ArchivedMembers'
    BY <1>5 DEF IInv, Add, CopyIsTorn, Put, Own, TypeOK, NamesInv, HoldInv, CountInv, Counted, Own, ArchivedMembers
  <2>7. TrueOutcome'
    BY <1>5 DEF IInv, Add, CopyIsTorn, Put, Own, TypeOK, NamesInv, HoldInv, TrueOutcome
  <2> QED
    BY <2>1, <2>2, <2>3, <2>4, <2>5, <2>6, <2>7 DEF IInv
<1>6. ASSUME IInv, NEW b \in Ops, NEW p \in Paths, Skip(b, p) PROVE IInv'
  <2>1. TypeOK'
    BY <1>6 DEF IInv, Skip, TypeOK, NamesInv
  <2>2. NamesInv'
    BY <1>6 DEF IInv, Skip, TypeOK, NamesInv
  <2>3. HoldInv'
    BY <1>6 DEF IInv, Skip, TypeOK, NamesInv, HoldInv
  <2>4. CountInv'
    BY <1>6 DEF IInv, Skip, TypeOK, NamesInv, HoldInv, CountInv, Counted, Own
  <2>5. PublishedIsComplete'
    BY <1>6 DEF IInv, Skip, TypeOK, NamesInv, HoldInv, CountInv, Counted, Own, PublishedIsComplete, Complete
  <2>6. ArchivedMembers'
    BY <1>6 DEF IInv, Skip, TypeOK, NamesInv, HoldInv, CountInv, Counted, Own, ArchivedMembers
  <2>7. TrueOutcome'
    BY <1>6 DEF IInv, Skip, TypeOK, NamesInv, HoldInv, TrueOutcome
  <2> QED
    BY <2>1, <2>2, <2>3, <2>4, <2>5, <2>6, <2>7 DEF IInv
<1>7. ASSUME IInv, NEW b \in Ops, Seal(b) PROVE IInv'
  <2>1. TypeOK'
    <3>1. opened[b] \in Ops /\ Own(b) \in Zips /\ files[b] \in Nat
      BY <1>7 DEF IInv, Seal, TypeOK, NamesInv, Own
    <3>2. PICK z \in Zips : file' = [file EXCEPT ![opened[b]] = z]
      <4>1. PICK n \in Nat : n = ManifestCount(b)
        BY <3>1 DEF ManifestCount
      <4>2. [Own(b) EXCEPT !.manifest = n] \in Zips
        BY <3>1 DEF Zips
      <4> QED
        BY <1>7, <4>1, <4>2 DEF Seal, Put
    <3>3. file' \in [Ops -> Zips]
      BY <1>7, <3>1, <3>2 DEF IInv, TypeOK
    <3>4. files' \in [Ops -> Nat] /\ todo' \in [Ops -> SUBSET Paths] /\ at' \in [Ops -> Points]
      BY <1>7, <3>1 DEF IInv, Seal, Goto, TypeOK
    <3> QED
      BY <1>7, <3>3, <3>4 DEF IInv, Seal, TypeOK
  <2>2. NamesInv'
    BY <1>7 DEF IInv, Seal, ManifestCount, Put, Own, Goto, TypeOK, NamesInv
  <2>3. HoldInv'
    BY <1>7 DEF IInv, Seal, ManifestCount, Put, Own, Goto, TypeOK, NamesInv, HoldInv
  <2>4. CountInv'
    <3> SUFFICES ASSUME NEW x \in Ops, dest[x] \notin overlapped, at'[x] \in InFile
                 PROVE  Counted(x)'
      BY <1>7 DEF Seal, CountInv
    <3>1. CASE x # b
      <4>1. at[x] \in InFile /\ Counted(x)
        BY <1>7, <3>1 DEF IInv, Seal, Goto, TypeOK, CountInv
      <4>2. opened[x] \in Ops /\ opened[x] = opened'[x] /\ file'[opened[x]] = file[opened[x]]
        BY <1>7, <3>1, <4>1 DEF IInv, Seal, Put, TypeOK, NamesInv, HoldInv
      <4>3. Own(x)' = Own(x) /\ at'[x] = at[x] /\ todo'[x] = todo[x] /\ files'[x] = files[x]
        BY <1>7, <3>1, <4>2 DEF IInv, Seal, Goto, TypeOK, Own
      <4> QED
        BY <4>1, <4>3 DEF Counted
    <3>2. CASE x = b
      <4>1. opened[b] \in Ops /\ Own(b) \in Zips /\ Counted(b) /\ at[b] = "listed"
        BY <1>7, <3>2 DEF IInv, Seal, TypeOK, NamesInv, CountInv, Own
      <4>2. /\ Own(b)'.members = Own(b).members
            /\ Own(b)'.config = Own(b).config
            /\ Own(b)'.manifest = files[b] + 1
        BY <1>7, <4>1 DEF IInv, Seal, ManifestCount, Put, TypeOK, Own, Zips
      <4>3. todo'[b] = todo[b] /\ at'[b] = "sealed"
        BY <1>7 DEF IInv, Seal, Goto, TypeOK
      <4>4. Cardinality(Own(b).members) \in Nat
        BY <4>1, FS_Subset, FS_CardinalityType DEF Zips
      <4> QED
        BY <3>2, <4>1, <4>2, <4>3, <4>4 DEF Counted
    <3> QED
      BY <3>1, <3>2
  <2>5. PublishedIsComplete'
    BY <1>7 DEF IInv, Seal, ManifestCount, Put, Own, Goto, TypeOK, NamesInv, HoldInv, CountInv, Counted, Own, PublishedIsComplete, Complete
  <2>6. ArchivedMembers'
    BY <1>7 DEF IInv, Seal, ManifestCount, Put, Own, Goto, TypeOK, NamesInv, HoldInv, CountInv, Counted, Own, ArchivedMembers
  <2>7. TrueOutcome'
    BY <1>7 DEF IInv, Seal, ManifestCount, Put, Own, Goto, TypeOK, NamesInv, HoldInv, TrueOutcome
  <2> QED
    BY <2>1, <2>2, <2>3, <2>4, <2>5, <2>6, <2>7 DEF IInv
<1>8. ASSUME IInv, NEW b \in Ops, Close(b) PROVE IInv'
  <2>1. TypeOK'
    <3>1. opened[b] \in Ops /\ Own(b) \in Zips /\ files[b] \in Nat
      BY <1>8 DEF IInv, Close, TypeOK, NamesInv, Own
    <3>2. PICK z \in Zips : file' = [file EXCEPT ![opened[b]] = z]
      BY <1>8, <3>1 DEF Close, Goto, Put, Zips
    <3>3. file' \in [Ops -> Zips]
      BY <1>8, <3>1, <3>2 DEF IInv, TypeOK
    <3>4. files' \in [Ops -> Nat] /\ todo' \in [Ops -> SUBSET Paths] /\ at' \in [Ops -> Points]
      BY <1>8, <3>1 DEF IInv, Close, Goto, TypeOK
    <3> QED
      BY <1>8, <3>3, <3>4 DEF IInv, Close, TypeOK
  <2>2. NamesInv'
    BY <1>8 DEF IInv, Close, Put, Own, Goto, TypeOK, NamesInv
  <2>3. HoldInv'
    BY <1>8 DEF IInv, Close, Put, Own, Goto, TypeOK, NamesInv, HoldInv
  <2>4. CountInv'
    BY <1>8 DEF IInv, Close, Put, Own, Goto, TypeOK, NamesInv, HoldInv, CountInv, Counted, Own
  <2>5. PublishedIsComplete'
    BY <1>8 DEF IInv, Close, Put, Own, Goto, TypeOK, NamesInv, HoldInv, CountInv, Counted, Own, PublishedIsComplete, Complete
  <2>6. ArchivedMembers'
    BY <1>8 DEF IInv, Close, Put, Own, Goto, TypeOK, NamesInv, HoldInv, CountInv, Counted, Own, ArchivedMembers
  <2>7. TrueOutcome'
    BY <1>8 DEF IInv, Close, Put, Own, Goto, TypeOK, NamesInv, HoldInv, TrueOutcome
  <2> QED
    BY <2>1, <2>2, <2>3, <2>4, <2>5, <2>6, <2>7 DEF IInv
<1>9. ASSUME IInv, NEW b \in Ops, Replace(b) PROVE IInv'
  <2>1. TypeOK'
    BY <1>9 DEF IInv, Replace, MovedWhen, Goto, TypeOK, NamesInv
  <2>2. NamesInv'
    BY <1>9 DEF IInv, Replace, MovedWhen, Goto, TypeOK, NamesInv
  <2>3. HoldInv'
    BY <1>9 DEF IInv, Replace, MovedWhen, Goto, TypeOK, NamesInv, HoldInv
  <2>4. CountInv'
    BY <1>9 DEF IInv, Replace, MovedWhen, Goto, TypeOK, NamesInv, HoldInv, CountInv, Counted, Own
  <2>5. PublishedIsComplete'
    BY <1>9 DEF IInv, Replace, MovedWhen, Goto, TypeOK, NamesInv, HoldInv, CountInv, Counted, Own, PublishedIsComplete, Complete
  <2>6. ArchivedMembers'
    BY <1>9 DEF IInv, Replace, MovedWhen, Goto, TypeOK, NamesInv, HoldInv, CountInv, Counted, Own, ArchivedMembers
  <2>7. TrueOutcome'
    BY <1>9 DEF IInv, Replace, MovedWhen, Goto, TypeOK, NamesInv, HoldInv, TrueOutcome
  <2> QED
    BY <2>1, <2>2, <2>3, <2>4, <2>5, <2>6, <2>7 DEF IInv
<1>10. ASSUME IInv, NEW b \in Ops, Fail(b) PROVE IInv'
  <2>1. TypeOK'
    BY <1>10 DEF IInv, Fail, Unlink, Goto, TypeOK, NamesInv
  <2>2. NamesInv'
    BY <1>10 DEF IInv, Fail, Unlink, Goto, TypeOK, NamesInv
  <2>3. HoldInv'
    BY <1>10 DEF IInv, Fail, Unlink, Goto, TypeOK, NamesInv, HoldInv
  <2>4. CountInv'
    BY <1>10 DEF IInv, Fail, Unlink, Goto, TypeOK, NamesInv, HoldInv, CountInv, Counted, Own
  <2>5. PublishedIsComplete'
    BY <1>10 DEF IInv, Fail, Unlink, Goto, TypeOK, NamesInv, HoldInv, CountInv, Counted, Own, PublishedIsComplete, Complete
  <2>6. ArchivedMembers'
    BY <1>10 DEF IInv, Fail, Unlink, Goto, TypeOK, NamesInv, HoldInv, CountInv, Counted, Own, ArchivedMembers
  <2>7. TrueOutcome'
    BY <1>10 DEF IInv, Fail, Unlink, Goto, TypeOK, NamesInv, HoldInv, TrueOutcome
  <2> QED
    BY <2>1, <2>2, <2>3, <2>4, <2>5, <2>6, <2>7 DEF IInv
<1>11. ASSUME IInv, NEW b \in Ops, Crash(b) PROVE IInv'
  <2>1. TypeOK'
    BY <1>11 DEF IInv, Crash, Goto, TypeOK, NamesInv
  <2>2. NamesInv'
    BY <1>11 DEF IInv, Crash, Goto, TypeOK, NamesInv
  <2>3. HoldInv'
    BY <1>11 DEF IInv, Crash, Goto, TypeOK, NamesInv, HoldInv
  <2>4. CountInv'
    BY <1>11 DEF IInv, Crash, Goto, TypeOK, NamesInv, HoldInv, CountInv, Counted, Own
  <2>5. PublishedIsComplete'
    BY <1>11 DEF IInv, Crash, Goto, TypeOK, NamesInv, HoldInv, CountInv, Counted, Own, PublishedIsComplete, Complete
  <2>6. ArchivedMembers'
    BY <1>11 DEF IInv, Crash, Goto, TypeOK, NamesInv, HoldInv, CountInv, Counted, Own, ArchivedMembers
  <2>7. TrueOutcome'
    BY <1>11 DEF IInv, Crash, Goto, TypeOK, NamesInv, HoldInv, TrueOutcome
  <2> QED
    BY <2>1, <2>2, <2>3, <2>4, <2>5, <2>6, <2>7 DEF IInv
<1>12. ASSUME IInv, UNCHANGED vars PROVE IInv'
  BY <1>12 DEF vars, IInv, TypeOK, NamesInv, HoldInv, CountInv, Counted, Own, PublishedIsComplete, Complete, ArchivedMembers, TrueOutcome
<1> QED
  BY <1>1, <1>2, <1>3, <1>4, <1>5, <1>6, <1>7, <1>8, <1>9, <1>10, <1>11, <1>12 DEF Next

\* create_local_backup(): names, files and counts stay in agreement in every run.
THEOREM Inductive == Spec => []IInv
BY InitIInv, StepIInv, PTL DEF Spec

(***************************************************************************)
(* Without overlap the archive at a destination is complete, whatever      *)
(* failed or died before.                                                  *)
(***************************************************************************)
THEOREM PublishedComplete == Spec => []PublishedIsComplete
<1>1. IInv => PublishedIsComplete
  BY DEF IInv
<1> QED
  BY <1>1, Inductive, PTL

(***************************************************************************)
(* Without overlap success leaves the backup's file at the destination and *)
(* failure leaves it under no name.                                        *)
(***************************************************************************)
THEOREM OutcomesTrue == Spec => []TrueOutcome
<1>1. IInv => TrueOutcome
  BY DEF IInv
<1> QED
  BY <1>1, Inductive, PTL

\* The archived database is a snapshot, and customer data stays out of the archive.
THEOREM MembersRight == Spec => []ArchivedMembers
<1>1. IInv => ArchivedMembers
  BY DEF IInv
<1> QED
  BY <1>1, Inductive, PTL

(***************************************************************************)
(* The existence test protects archives of other times always, and every   *)
(* archive while backups of one destination do not overlap.                *)
(***************************************************************************)
THEOREM ArchivesKept == Spec => ArchivesStay
<1> DEFINE Kept == \A d \in Dests :
        archive[d] = Old \/ (archive[d] # None /\ d \notin overlapped) => archive'[d] = archive[d]
<1>1. IInv /\ [Next]_vars => [Kept]_vars
  <2> SUFFICES ASSUME IInv, Next PROVE Kept
    BY DEF vars
  <2>1. CASE UNCHANGED archive
    BY <2>1
  <2>2. CASE \E b \in Ops : Replace(b)
    BY <2>2 DEF Replace, MovedWhen, IInv, TypeOK, NamesInv, HoldInv
  <2> QED
    BY <2>1, <2>2 DEF Next, Runtime, Check, Open, List, Add, Skip, Seal, Close, Fail, Crash
<1> QED
  BY <1>1, Inductive, PTL DEF Spec, ArchivesStay

\* What is proved of backups alone holds beside restores.
THEOREM BackupsCreate == BackupsSpec => Spec
<1>1. BackupsInit => Init
  BY DEF BackupsInit
<1>2. [BackupsNext]_backupsVars => [Next]_vars
  BY DEF BackupsNext, backupsVars, createVars, vars
<1> QED BY <1>1, <1>2, PTL DEF BackupsSpec, Spec

-----------------------------------------------------------------------------
(* Restores.                                                               *)

UnderWay(r) == standing[r] \in {"planned", "member"}
Expected(p) == IF p \in zip.data THEN "data" ELSE "config"

\* The config entry is written first, so a data member of that path comes after it.
OrderInv(r) ==
    /\ left[r] \subseteq BR!RestoreMembers
    /\ BR!ConfigEntry \in left[r] => standing[r] = "planned" /\ zip.data \subseteq left[r]
    /\ standing[r] = "member" =>
          /\ writing[r] \in BR!RestoreMembers
          /\ writing[r] = BR!ConfigEntry => zip.data \subseteq left[r]

\* The plan met no file, or overwriting was allowed.
ConsentInv(r) ==
    allow[r] \/ \A m \in BR!RestoreMembers : BR!RestoreTarget(m) \notin found[r]

\* A path that is neither to be written nor being written is restored, or disturbed.
Awaits(r, p) ==
    \/ \E m \in left[r] : BR!RestoreTarget(m) = p
    \/ standing[r] = "member" /\ BR!RestoreTarget(writing[r]) = p

WrittenInv(r) ==
    \A p \in zip.data \cup {ConfigPath} : p \in disturbed[r] \/ Awaits(r, p) \/ target[p] = Expected(p)

RestoreInv ==
    /\ BR!TypeOK
    /\ \A r \in Restores : UnderWay(r) => OrderInv(r) /\ ConsentInv(r) /\ WrittenInv(r)

\* Every member has a path, and no path is the config entry's name.
LEMMA MembersHavePaths ==
    BR!TypeOK => /\ \A m \in BR!RestoreMembers : BR!RestoreTarget(m) \in RestorePaths
                 /\ BR!RestoreMembers = {BR!ConfigEntry} \cup zip.data
                 /\ zip.data \subseteq RestorePaths /\ BR!ConfigEntry \notin RestorePaths
                 /\ BR!RestoreMembers \subseteq BR!Members
                 /\ BR!RestoreTarget(BR!ConfigEntry) = ConfigPath
                 /\ \A m \in zip.data : BR!RestoreTarget(m) = m
BY RestoreConstants DEF BR!TypeOK, BR!RestoreMembers, BR!RestoreTarget, BR!ConfigEntry, BR!Members

LEMMA RestoreInit == BR!Init => RestoreInv
BY RestoreConstants
DEF BR!Init, RestoreInv, UnderWay, BR!TypeOK, BR!Contents, BR!Points, BR!Members

\* A command that is not the one that moves keeps its part, if what it shares with it moved.
LEMMA OthersKeep ==
    ASSUME RestoreInv, RestoreInv!1', NEW r \in Restores, NEW q \in RestorePaths,
           UNCHANGED zip, \A p \in RestorePaths : target'[p] # target[p] => p = q,
           standing'[r] = standing[r], allow'[r] = allow[r], left'[r] = left[r],
           writing'[r] = writing[r], found'[r] = found[r],
           disturbed[r] \subseteq disturbed'[r],
           UnderWay(r) => target' = target \/ q \in disturbed'[r]
    PROVE  UnderWay(r)' => (OrderInv(r) /\ ConsentInv(r) /\ WrittenInv(r))'
<1> SUFFICES ASSUME UnderWay(r)' PROVE (OrderInv(r) /\ ConsentInv(r) /\ WrittenInv(r))'
  OBVIOUS
<1>1. UnderWay(r)
  BY DEF UnderWay
<1>2. OrderInv(r)' /\ ConsentInv(r)'
  BY <1>1 DEF RestoreInv, OrderInv, ConsentInv, BR!RestoreMembers, BR!RestoreTarget, BR!ConfigEntry
<1>3. WrittenInv(r)'
  <2> SUFFICES ASSUME NEW p \in zip.data \cup {ConfigPath}
               PROVE  p \in disturbed'[r] \/ Awaits(r, p)' \/ target'[p] = Expected(p)
    BY DEF WrittenInv, Expected
  <2>1. p \in RestorePaths
    BY MembersHavePaths, RestoreConstants DEF RestoreInv
  <2>2. p \in disturbed[r] \/ Awaits(r, p) \/ target[p] = Expected(p)
    BY <1>1 DEF RestoreInv, WrittenInv
  <2>3. Awaits(r, p) => Awaits(r, p)'
    BY DEF Awaits, BR!RestoreTarget, BR!ConfigEntry
  <2>4. target'[p] = target[p] \/ p \in disturbed'[r]
    BY <1>1, <2>1
  <2> QED BY <2>2, <2>3, <2>4
<1> QED BY <1>2, <1>3


\* Nothing is written yet, and without consent nothing is in the way.
LEMMA BeginStep ==
    ASSUME RestoreInv, NEW r \in Restores, NEW apply \in BOOLEAN, NEW overwrite \in BOOLEAN,
           BR!Begin(r, apply, overwrite)
    PROVE  RestoreInv'
<1>1. UNCHANGED <<zip, target, writing, disturbed>> /\ ~ UnderWay(r)
  BY DEF BR!Begin, UnderWay
<1>2. /\ standing' = [standing EXCEPT ![r] = standing'[r]]
      /\ standing'[r] \in {"failed", "dry", "planned"}
      /\ \A x \in Restores : x # r => standing'[x] = standing[x]
  BY DEF RestoreInv, BR!TypeOK, BR!Begin, BR!Goto
<1>3. CASE standing'[r] # "planned"
  <2>1. UNCHANGED <<allow, left, found>>
    BY <1>2, <1>3 DEF RestoreInv, BR!TypeOK, BR!Begin, BR!Goto
  <2>2. RestoreInv!1'
    BY <1>1, <1>2, <2>1 DEF RestoreInv, BR!TypeOK, BR!Points
  <2>3. ASSUME NEW x \in Restores, UnderWay(x)'
        PROVE  (OrderInv(x) /\ ConsentInv(x) /\ WrittenInv(x))'
    <3>1. x # r
      BY <1>2, <1>3, <2>3 DEF UnderWay
    <3> QED BY <1>1, <1>2, <2>1, <2>2, <2>3, <3>1, OthersKeep, RestoreConstants
            DEF RestoreInv, BR!TypeOK
  <2> QED BY <2>2, <2>3 DEF RestoreInv
<1>4. CASE standing'[r] = "planned"
  <2>1. /\ allow' = [allow EXCEPT ![r] = overwrite]
        /\ left' = [left EXCEPT ![r] = BR!RestoreMembers]
        /\ found' = [found EXCEPT ![r] = {p \in RestorePaths : target[p] # "absent"}]
        /\ BR!Existing = {} \/ overwrite
    BY <1>2, <1>4 DEF RestoreInv, BR!TypeOK, BR!Begin, BR!Goto
  <2>2. RestoreInv!1'
    BY <1>1, <1>2, <2>1, MembersHavePaths DEF RestoreInv, BR!TypeOK, BR!Points
  <2>3. ASSUME NEW x \in Restores, UnderWay(x)', x # r
        PROVE  (OrderInv(x) /\ ConsentInv(x) /\ WrittenInv(x))'
    BY <1>1, <1>2, <2>1, <2>2, <2>3, OthersKeep, RestoreConstants DEF RestoreInv, BR!TypeOK
  <2>4. left'[r] = BR!RestoreMembers /\ allow'[r] = overwrite
        /\ found'[r] = {p \in RestorePaths : target[p] # "absent"}
    BY <2>1 DEF RestoreInv, BR!TypeOK
  <2>5. OrderInv(r)'
    BY <1>1, <1>4, <2>4 DEF OrderInv, BR!RestoreMembers, BR!ConfigEntry
  <2>6. ConsentInv(r)'
    BY <1>1, <2>1, <2>4, MembersHavePaths
    DEF ConsentInv, BR!Existing, BR!RestoreMembers, BR!RestoreTarget, BR!ConfigEntry
  <2>7. WrittenInv(r)'
    <3>1. \A p \in zip.data \cup {ConfigPath} : \E m \in BR!RestoreMembers : BR!RestoreTarget(m) = p
      BY MembersHavePaths DEF RestoreInv
    <3> QED BY <1>1, <2>4, <3>1
            DEF WrittenInv, Awaits, BR!RestoreMembers, BR!RestoreTarget, BR!ConfigEntry
  <2> QED BY <2>2, <2>3, <2>5, <2>6, <2>7 DEF RestoreInv
<1> QED BY <1>3, <1>4

\* A command that ends has no part left.
LEMMA LeaveStep ==
    ASSUME RestoreInv, NEW r \in Restores, NEW result \in {"ok", "failed"}, BR!Leave(r, result)
    PROVE  RestoreInv'
<1>1. UNCHANGED <<zip, target>> /\ standing'[r] = result
  BY DEF RestoreInv, BR!TypeOK, BR!Leave, BR!Goto
<1>2. RestoreInv!1'
  BY DEF RestoreInv, BR!TypeOK, BR!Leave, BR!Goto, BR!Points, BR!Members
<1>3. ASSUME NEW x \in Restores, x # r
      PROVE  /\ standing'[x] = standing[x] /\ allow'[x] = allow[x] /\ left'[x] = left[x]
             /\ writing'[x] = writing[x] /\ found'[x] = found[x]
             /\ disturbed'[x] = disturbed[x]
  BY <1>3 DEF RestoreInv, BR!TypeOK, BR!Leave, BR!Goto
<1>4. ASSUME NEW x \in Restores, UnderWay(x)'
      PROVE  (OrderInv(x) /\ ConsentInv(x) /\ WrittenInv(x))'
  <2>1. x # r
    BY <1>1, <1>4 DEF UnderWay
  <2> QED BY <1>1, <1>2, <1>3, <1>4, <2>1, OthersKeep, RestoreConstants
<1> QED BY <1>2, <1>4 DEF RestoreInv

\* What a write to path q disturbs.
LEMMA DisturbedTable ==
    ASSUME RestoreInv, NEW xs \in SUBSET Restores, NEW q \in RestorePaths, BR!Disturb(xs, q)
    PROVE  /\ disturbed' \in [Restores -> SUBSET RestorePaths]
           /\ \A x \in Restores : disturbed[x] \subseteq disturbed'[x]
           /\ \A x \in xs : UnderWay(x) => q \in disturbed'[x]
BY DEF RestoreInv, BR!TypeOK, BR!Disturb, UnderWay

LEMMA ForeignStep ==
    ASSUME RestoreInv, NEW q \in RestorePaths, NEW content \in {"absent", "other"},
           BR!Foreign(q, content)
    PROVE  RestoreInv'
<1>1. /\ target' = [target EXCEPT ![q] = content] /\ BR!Disturb(Restores, q)
      /\ UNCHANGED <<zip, standing, allow, left, writing, found>>
  BY DEF BR!Foreign
<1>2. RestoreInv!1'
  BY <1>1, DisturbedTable DEF RestoreInv, BR!TypeOK, BR!Contents
<1>3. \A p \in RestorePaths : target'[p] # target[p] => p = q
  BY <1>1 DEF RestoreInv, BR!TypeOK
<1>4. ASSUME NEW x \in Restores PROVE UnderWay(x)' => (OrderInv(x) /\ ConsentInv(x) /\ WrittenInv(x))'
  BY <1>1, <1>2, <1>3, DisturbedTable, OthersKeep
<1> QED BY <1>2, <1>4 DEF RestoreInv

LEMMA TruncateStep ==
    ASSUME RestoreInv, NEW r \in Restores, NEW m \in BR!Members, BR!Truncate(r, m)
    PROVE  RestoreInv'
<1>1. PICK q : q = BR!RestoreTarget(m)
  OBVIOUS
<1>2. /\ standing[r] = "planned" /\ m \in BR!Order(r)
      /\ target' = [target EXCEPT ![q] = "torn"] /\ BR!Disturb(Restores \ {r}, q)
      /\ writing' = [writing EXCEPT ![r] = m] /\ left' = [left EXCEPT ![r] = @ \ {m}]
      /\ standing' = [standing EXCEPT ![r] = "member"]
      /\ UNCHANGED <<zip, allow, found>>
  BY <1>1 DEF BR!Truncate, BR!Goto
<1>3. OrderInv(r) /\ ConsentInv(r) /\ WrittenInv(r)
  BY <1>2 DEF RestoreInv, UnderWay
<1>4. m \in left[r] /\ m \in BR!RestoreMembers /\ (m # BR!ConfigEntry => BR!ConfigEntry \notin left[r])
  BY <1>2, <1>3 DEF BR!Order, OrderInv
<1>5. q \in RestorePaths
  BY <1>1, <1>4, MembersHavePaths DEF RestoreInv
<1>6. /\ disturbed' \in [Restores -> SUBSET RestorePaths]
      /\ \A x \in Restores : disturbed[x] \subseteq disturbed'[x]
      /\ \A x \in Restores : x # r /\ UnderWay(x) => q \in disturbed'[x]
  BY <1>2, <1>5, DisturbedTable
<1>7. RestoreInv!1'
  BY <1>2, <1>4, <1>5, <1>6 DEF RestoreInv, BR!TypeOK, BR!Points, BR!Contents
<1>8. \A p \in RestorePaths : target'[p] # target[p] => p = q
  BY <1>2 DEF RestoreInv, BR!TypeOK
<1>9. ASSUME NEW x \in Restores, x # r
      PROVE  UnderWay(x)' => (OrderInv(x) /\ ConsentInv(x) /\ WrittenInv(x))'
  <2>1. /\ standing'[x] = standing[x] /\ allow'[x] = allow[x] /\ left'[x] = left[x]
        /\ writing'[x] = writing[x] /\ found'[x] = found[x]
    BY <1>2, <1>9 DEF RestoreInv, BR!TypeOK
  <2> QED BY <1>2, <1>5, <1>6, <1>7, <1>8, <1>9, <2>1, OthersKeep
<1>10. standing'[r] = "member" /\ writing'[r] = m /\ left'[r] = left[r] \ {m}
  BY <1>2 DEF RestoreInv, BR!TypeOK
<1>11. OrderInv(r)'
  <2>1. BR!RestoreMembers' = BR!RestoreMembers /\ zip' = zip
    BY <1>2 DEF BR!RestoreMembers, BR!ConfigEntry
  <2>2. m = BR!ConfigEntry => zip.data \subseteq left'[r]
    BY <1>3, <1>4, <1>10, MembersHavePaths DEF OrderInv, RestoreInv
  <2>3. BR!ConfigEntry \notin left'[r]
    BY <1>4, <1>10
  <2> QED BY <1>3, <1>4, <1>10, <2>1, <2>2, <2>3 DEF OrderInv, BR!ConfigEntry
<1>12. ConsentInv(r)'
  BY <1>2, <1>3 DEF ConsentInv, BR!RestoreMembers, BR!RestoreTarget, BR!ConfigEntry
<1>13. WrittenInv(r)'
  <2> SUFFICES ASSUME NEW p \in zip.data \cup {ConfigPath}
               PROVE  p \in disturbed'[r] \/ Awaits(r, p)' \/ target'[p] = Expected(p)
    BY <1>2 DEF WrittenInv, Expected
  <2>1. p \in RestorePaths
    BY MembersHavePaths, RestoreConstants DEF RestoreInv
  <2>2. p \in disturbed[r] \/ Awaits(r, p) \/ target[p] = Expected(p)
    BY <1>3 DEF WrittenInv
  <2>3. CASE p = q
    BY <1>1, <1>10, <2>3 DEF Awaits, BR!RestoreTarget, BR!ConfigEntry
  <2>4. CASE p # q
    <3>1. Awaits(r, p) => Awaits(r, p)'
      BY <1>1, <1>2, <1>10, <2>4 DEF Awaits, BR!RestoreTarget, BR!ConfigEntry
    <3> QED BY <1>6, <1>8, <2>1, <2>2, <2>4, <3>1
  <2> QED BY <2>3, <2>4
<1> QED BY <1>7, <1>9, <1>11, <1>12, <1>13 DEF RestoreInv

LEMMA WriteStep ==
    ASSUME RestoreInv, NEW r \in Restores, BR!Write(r)
    PROVE  RestoreInv'
<1>1. PICK m, q : m = writing[r] /\ q = BR!RestoreTarget(m)
  OBVIOUS
<1>2. /\ standing[r] = "member"
      /\ target' = [target EXCEPT ![q] = BR!Content(m)] /\ BR!Disturb(Restores \ {r}, q)
      /\ standing' = [standing EXCEPT ![r] = "planned"]
      /\ UNCHANGED <<zip, allow, left, writing, found>>
  BY <1>1 DEF BR!Write, BR!Goto
<1>3. OrderInv(r) /\ ConsentInv(r) /\ WrittenInv(r)
  BY <1>2 DEF RestoreInv, UnderWay
<1>4. m \in BR!RestoreMembers /\ (m = BR!ConfigEntry => zip.data \subseteq left[r])
      /\ BR!ConfigEntry \notin left[r]
  BY <1>1, <1>2, <1>3 DEF OrderInv
<1>5. q \in RestorePaths /\ BR!Content(m) \in BR!Contents
  BY <1>1, <1>4, MembersHavePaths DEF RestoreInv, BR!Content, BR!Contents
<1>6. /\ disturbed' \in [Restores -> SUBSET RestorePaths]
      /\ \A x \in Restores : disturbed[x] \subseteq disturbed'[x]
      /\ \A x \in Restores : x # r /\ UnderWay(x) => q \in disturbed'[x]
  <2>1. Restores \ {r} \in SUBSET Restores
    OBVIOUS
  <2>2. q \in RestorePaths /\ BR!Disturb(Restores \ {r}, q)
    BY <1>2, <1>5
  <2> QED BY <2>1, <2>2, DisturbedTable
<1>7. RestoreInv!1'
  BY <1>2, <1>5, <1>6 DEF RestoreInv, BR!TypeOK, BR!Points
<1>8. \A p \in RestorePaths : target'[p] # target[p] => p = q
  BY <1>2 DEF RestoreInv, BR!TypeOK
<1>9. ASSUME NEW x \in Restores, x # r
      PROVE  UnderWay(x)' => (OrderInv(x) /\ ConsentInv(x) /\ WrittenInv(x))'
  <2>1. standing'[x] = standing[x]
    BY <1>2, <1>9 DEF RestoreInv, BR!TypeOK
  <2> QED BY <1>2, <1>5, <1>6, <1>7, <1>8, <1>9, <2>1, OthersKeep
<1>10. standing'[r] = "planned"
  BY <1>2 DEF RestoreInv, BR!TypeOK
<1>11. OrderInv(r)' /\ ConsentInv(r)'
  BY <1>2, <1>3, <1>4, <1>10
  DEF OrderInv, ConsentInv, BR!RestoreMembers, BR!RestoreTarget, BR!ConfigEntry
<1>12. WrittenInv(r)'
  <2> SUFFICES ASSUME NEW p \in zip.data \cup {ConfigPath}
               PROVE  p \in disturbed'[r] \/ Awaits(r, p)' \/ target'[p] = Expected(p)
    BY <1>2 DEF WrittenInv, Expected
  <2>1. p \in RestorePaths
    BY MembersHavePaths, RestoreConstants DEF RestoreInv
  <2>2. CASE p = q
    <3>1. target'[p] = BR!Content(m)
      BY <1>2, <2>1, <2>2 DEF RestoreInv, BR!TypeOK
    <3>2. CASE m \in zip.data
      BY <1>1, <2>2, <3>1, <3>2, MembersHavePaths DEF RestoreInv, Expected, BR!Content
    <3>3. CASE m = BR!ConfigEntry
      <4>1. p = ConfigPath
        BY <1>1, <2>2, <3>3, MembersHavePaths DEF RestoreInv
      <4>2. CASE ConfigPath \in zip.data
        BY <1>2, <1>4, <3>3, <4>1, <4>2, MembersHavePaths
        DEF Awaits, RestoreInv, BR!RestoreTarget, BR!ConfigEntry
      <4>3. CASE ConfigPath \notin zip.data
        BY <3>1, <3>3, <4>1, <4>3 DEF Expected, BR!Content
      <4> QED BY <4>2, <4>3
    <3> QED BY <1>4, <3>2, <3>3, MembersHavePaths DEF RestoreInv
  <2>3. CASE p # q
    <3>1. p \in disturbed[r] \/ Awaits(r, p) \/ target[p] = Expected(p)
      BY <1>3 DEF WrittenInv
    <3>2. Awaits(r, p) => Awaits(r, p)'
      BY <1>1, <1>2, <2>3 DEF Awaits, BR!RestoreTarget, BR!ConfigEntry
    <3> QED BY <1>6, <1>8, <2>1, <2>3, <3>1, <3>2
  <2> QED BY <2>2, <2>3
<1> QED BY <1>7, <1>9, <1>11, <1>12 DEF RestoreInv

LEMMA RestoreStep == RestoreInv /\ [BR!Next]_restoreVars => RestoreInv'
<1> SUFFICES ASSUME RestoreInv, [BR!Next]_restoreVars PROVE RestoreInv'
  OBVIOUS
<1>1. CASE UNCHANGED restoreVars
  BY <1>1 DEF restoreVars, RestoreInv, UnderWay, OrderInv, ConsentInv, WrittenInv, Awaits,
              Expected, BR!TypeOK, BR!RestoreMembers, BR!RestoreTarget, BR!ConfigEntry,
              BR!Contents, BR!Points, BR!Members
<1>2. CASE \E r \in Restores : BR!Finish(r) \/ BR!Stop(r)
  BY <1>2, LeaveStep DEF BR!Finish, BR!Stop
<1> QED BY <1>1, <1>2, BeginStep, TruncateStep, WriteStep, ForeignStep DEF BR!Next

\* Backups and restores are followed one at a time, and neither moves the other's state.
THEOREM RestoreInductive == BackupsSpec => []RestoreInv
<1>1. BackupsInit => RestoreInv
  BY RestoreInit DEF BackupsInit
<1>2. RestoreInv /\ [BackupsNext]_backupsVars => RestoreInv'
  BY RestoreStep DEF BackupsNext, backupsVars
<1> QED BY <1>1, <1>2, PTL DEF BackupsSpec

(***************************************************************************)
(* A restore that reports success has restored every member that nobody    *)
(* else touched meanwhile, whatever the archive holds and however many     *)
(* restores write into the directory (restore_local_backup).               *)
(***************************************************************************)
THEOREM SuccessIsTrue == BackupsSpec => SuccessIsRestored
<1> DEFINE Restored == \A r \in Restores : standing[r] = "planned" /\ standing'[r] = "ok" =>
              \A p \in (zip.data \cup {ConfigPath}) \ disturbed[r] :
                  target[p] = IF p \in zip.data THEN "data" ELSE "config"
<1>1. RestoreInv /\ [BackupsNext]_backupsVars => [Restored]_(BR!vars)
  <2> SUFFICES ASSUME RestoreInv, BR!Next, NEW r \in Restores,
                      standing[r] = "planned", standing'[r] = "ok",
                      NEW p \in (zip.data \cup {ConfigPath}) \ disturbed[r]
               PROVE  target[p] = Expected(p)
    BY DEF BackupsNext, backupsVars, restoreVars, BR!vars, Expected
  <2>1. BR!AllWritten(r)
    BY DEF RestoreInv, BR!TypeOK, BR!Next, BR!Begin, BR!Truncate, BR!Write, BR!Finish, BR!Stop,
           BR!Foreign, BR!Leave, BR!Goto
  <2> QED BY <2>1 DEF RestoreInv, UnderWay, WrittenInv, Awaits, BR!AllWritten
<1>2. [][Restored]_(BR!vars) => SuccessIsRestored
  BY DEF SuccessIsRestored, BR!SuccessIsRestored
<1> QED BY <1>1, <1>2, RestoreInductive, PTL DEF BackupsSpec

(***************************************************************************)
(* Without --allow-overwrite no step of a restore changes a file that was  *)
(* there when it was planned (restore_local_backup).                       *)
(***************************************************************************)
THEOREM OverwritingIsAllowed == BackupsSpec => ConsentToOverwrite
<1> DEFINE Consented == \A r \in Restores, p \in RestorePaths :
              standing'[r] # standing[r] /\ target'[p] # target[p] => allow[r] \/ p \notin found[r]
<1>1. RestoreInv /\ [BackupsNext]_backupsVars => [Consented]_(BR!vars)
  <2> SUFFICES ASSUME RestoreInv, BR!Next, NEW r \in Restores, NEW p \in RestorePaths,
                      standing'[r] # standing[r], target'[p] # target[p]
               PROVE  allow[r] \/ p \notin found[r]
    BY DEF BackupsNext, backupsVars, restoreVars, BR!vars
  <2>1. (\E m \in BR!Members : BR!Truncate(r, m)) \/ BR!Write(r)
    BY DEF RestoreInv, BR!TypeOK, BR!Next, BR!Begin, BR!Truncate, BR!Write, BR!Finish, BR!Stop,
           BR!Foreign, BR!Leave, BR!Goto
  <2>2. OrderInv(r) /\ ConsentInv(r)
    BY <2>1 DEF RestoreInv, UnderWay, BR!Truncate, BR!Write
  <2>3. \E m \in BR!RestoreMembers : p = BR!RestoreTarget(m)
    BY <2>1, <2>2 DEF RestoreInv, BR!TypeOK, OrderInv, BR!Truncate, BR!Write, BR!Order
  <2> QED BY <2>2, <2>3 DEF ConsentInv
<1>2. [][Consented]_(BR!vars) => ConsentToOverwrite
  BY DEF ConsentToOverwrite, BR!ConsentToOverwrite
<1> QED BY <1>1, <1>2, RestoreInductive, PTL DEF BackupsSpec

================================================================================
