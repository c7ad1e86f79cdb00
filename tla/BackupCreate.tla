------------------------------ MODULE BackupCreate ------------------------------
(***************************************************************************)
(* create_local_backup() of src/src/project_maya/backup.py: an archive is  *)
(* written under a temporary name and moved to its destination, while the  *)
(* runtime goes on changing the data directory and other backups run.      *)
(*                                                                         *)
(* A temporary name is a directory entry for a file, and a second backup   *)
(* that opens the same name truncates the same file.  What two backups in  *)
(* progress leave in a file they share is unknown: such a destination is   *)
(* marked as overlapped and its files' contents are never relied on.       *)
(***************************************************************************)
EXTENDS Naturals, FiniteSets

CONSTANTS Ops,        \* backup commands, each run once
          Dests,      \* archive destinations
          Paths,      \* files of the data directory outside backups/ and the sidecars
          Db,         \* memory/memory.sqlite3
          Excluded,   \* analytics/sources and metabase/application
          None, Old   \* no file; an archive made before

ASSUME BackupConstants ==
    /\ IsFiniteSet(Paths) /\ Db \in Paths /\ Excluded \subseteq Paths \ {Db}
    /\ None \notin Ops \cup {Old} /\ Old \notin Ops

VARIABLES
    data,     \* state of each file: absent, torn (being written) or whole
    archive,  \* destination |-> the file it names
    temp,     \* destination.tmp |-> the file it names
    file,     \* contents of the file each backup created
    at,       \* where each backup stands
    dest,     \* the destination of each backup
    opened,   \* the file each backup writes to
    todo,     \* paths still to be archived
    files,    \* the backup's own count
    overlapped  \* destinations that two backups were working on at once

vars == <<data, archive, temp, file, at, dest, opened, todo, files, overlapped>>

Working == {"checked", "open", "listed", "sealed", "closed"}
InFile == Working \ {"checked"}
Points == {"idle", "ok", "failed", "dead"} \cup Working
Bytes == {"absent", "torn", "whole"}

Zips == [config : BOOLEAN, members : SUBSET Paths, torn : SUBSET Paths,
         manifest : Nat, closed : BOOLEAN]
EmptyZip == [config |-> FALSE, members |-> {}, torn |-> {}, manifest |-> 0,
             closed |-> FALSE]

Init ==
    /\ data \in [Paths -> Bytes]
    /\ archive \in [Dests -> {None, Old}]
    /\ temp = [d \in Dests |-> None]
    /\ file = [b \in Ops |-> EmptyZip]
    /\ at = [b \in Ops |-> "idle"]
    /\ dest \in [Ops -> Dests]
    /\ opened = [b \in Ops |-> None]
    /\ todo = [b \in Ops |-> {}]
    /\ files = [b \in Ops |-> 0]
    /\ overlapped = {}

Goto(b, p) == at' = [at EXCEPT ![b] = p]

\* A write by b to the file it opened.
Put(b, zip) == file' = [file EXCEPT ![opened[b]] = zip]
Own(b) == file[opened[b]]

-----------------------------------------------------------------------------
\* The runtime, or the operator, rewrites or deletes a file of the data directory.
Runtime(p) ==
    /\ \/ data[p] # "torn" /\ data' = [data EXCEPT ![p] = "torn"]
       \/ data[p] = "torn" /\ data' = [data EXCEPT ![p] = "whole"]
       \/ data[p] = "whole" /\ p # Db /\ data' = [data EXCEPT ![p] = "absent"]
    /\ UNCHANGED <<archive, temp, file, at, dest, opened, todo, files, overlapped>>

\* An existing destination is refused before anything is written.
Taken(d) == archive[d] # None

Check(b) ==
    LET others == {x \in Ops \ {b} : at[x] \in Working /\ dest[x] = dest[b]} IN
    /\ at[b] = "idle"
    /\ IF Taken(dest[b])
       THEN Goto(b, "failed") /\ UNCHANGED overlapped
       ELSE /\ Goto(b, "checked")
            /\ overlapped' = IF others = {} THEN overlapped ELSE overlapped \cup {dest[b]}
    /\ UNCHANGED <<data, archive, temp, file, dest, opened, todo, files>>

\* ZipFile(temporary, "w") creates the name or truncates what it names; then the config.
Open(b) ==
    LET i == IF temp[dest[b]] = None THEN b ELSE temp[dest[b]] IN
    /\ at[b] = "checked"
    /\ temp' = [temp EXCEPT ![dest[b]] = i]
    /\ opened' = [opened EXCEPT ![b] = i]
    /\ file' = [file EXCEPT ![i] = [EmptyZip EXCEPT !.config = TRUE]]
    /\ files' = [files EXCEPT ![b] = 1]
    /\ Goto(b, "open")
    /\ UNCHANGED <<data, archive, dest, todo, overlapped>>

\* The directory is listed once.
Listing == {p \in Paths : data[p] # "absent"} \ Excluded

List(b) ==
    /\ at[b] = "open"
    /\ todo' = [todo EXCEPT ![b] = Listing]
    /\ Goto(b, "listed")
    /\ UNCHANGED <<data, archive, temp, file, dest, opened, files, overlapped>>

\* What a copy of p holds: a snapshot for the database, the bytes found for the rest.
CopyIsTorn(p) == p # Db /\ data[p] = "torn"

Add(b, p) ==
    /\ at[b] = "listed" /\ p \in todo[b] /\ data[p] # "absent"
    /\ Put(b, [Own(b) EXCEPT !.members = @ \cup {p},
                             !.torn = IF CopyIsTorn(p) THEN @ \cup {p} ELSE @])
    /\ files' = [files EXCEPT ![b] = @ + 1]
    /\ todo' = [todo EXCEPT ![b] = @ \ {p}]
    /\ UNCHANGED <<data, archive, temp, at, dest, opened, overlapped>>

\* A file that was listed and is gone when its turn comes is passed over.
Skip(b, p) ==
    /\ at[b] = "listed" /\ p \in todo[b] /\ data[p] = "absent"
    /\ todo' = [todo EXCEPT ![b] = @ \ {p}]
    /\ UNCHANGED <<data, archive, temp, file, at, dest, opened, files, overlapped>>

\* The manifest counts itself.
ManifestCount(b) == files[b] + 1

Seal(b) ==
    /\ at[b] = "listed" /\ todo[b] = {}
    /\ Put(b, [Own(b) EXCEPT !.manifest = ManifestCount(b)])
    /\ files' = [files EXCEPT ![b] = @ + 1]
    /\ Goto(b, "sealed")
    /\ UNCHANGED <<data, archive, temp, dest, opened, todo, overlapped>>

\* Leaving the with block writes the central directory.
Close(b) ==
    /\ at[b] = "sealed"
    /\ Put(b, [Own(b) EXCEPT !.closed = TRUE])
    /\ Goto(b, "closed")
    /\ UNCHANGED <<data, archive, temp, dest, opened, todo, files, overlapped>>

\* The temporary name is moved over the destination, whatever file it names now.
MovedWhen_Sealed(b) == at[b] \in {"sealed", "closed"}
MovedWhen(b) == at[b] = "closed"

Replace(b) ==
    LET d == dest[b] IN
    /\ MovedWhen(b) /\ temp[d] # None
    /\ archive' = [archive EXCEPT ![d] = temp[d]]
    /\ temp' = [temp EXCEPT ![d] = None]
    /\ Goto(b, "ok")
    /\ UNCHANGED <<data, file, dest, opened, todo, files, overlapped>>

\* Any step raises, the move of a vanished name included: the name is unlinked.
Unlink(d) == temp' = [temp EXCEPT ![d] = None]

Fail(b) ==
    /\ at[b] \in Working
    /\ Unlink(dest[b])
    /\ Goto(b, "failed")
    /\ UNCHANGED <<data, archive, file, dest, opened, todo, files, overlapped>>

\* The process dies and leaves its temporary file.
Crash(b) ==
    /\ at[b] \in Working
    /\ Goto(b, "dead")
    /\ UNCHANGED <<data, archive, temp, file, dest, opened, todo, files, overlapped>>

Next ==
    \/ \E p \in Paths : Runtime(p)
    \/ \E b \in Ops :
          \/ Check(b) \/ Open(b) \/ List(b) \/ Seal(b) \/ Close(b)
          \/ Replace(b) \/ Fail(b) \/ Crash(b)
          \/ \E p \in Paths : Add(b, p) \/ Skip(b, p)

Spec == Init /\ [][Next]_vars

-----------------------------------------------------------------------------
\* The shape of the backups' state.
TypeOK ==
    /\ data \in [Paths -> Bytes]
    /\ archive \in [Dests -> Ops \cup {None, Old}]
    /\ temp \in [Dests -> Ops \cup {None}]
    /\ file \in [Ops -> Zips]
    /\ at \in [Ops -> Points]
    /\ dest \in [Ops -> Dests]
    /\ opened \in [Ops -> Ops \cup {None}]
    /\ todo \in [Ops -> SUBSET Paths]
    /\ files \in [Ops -> Nat]
    /\ overlapped \in SUBSET Dests

\* A finished archive: a closed zip with the config, whose manifest counts its entries.
Complete(zip) == zip.closed /\ zip.config /\ zip.manifest = Cardinality(zip.members) + 2

(***************************************************************************)
(* Without overlap an archive at its destination is complete, whatever     *)
(* failed or died before, also when it was written over the temporary file *)
(* a dead backup left.                                                     *)
(***************************************************************************)
PublishedIsComplete ==
    \A d \in Dests \ overlapped : archive[d] \in Ops => Complete(file[archive[d]])

(***************************************************************************)
(* The memory database is never archived in the middle of a transaction,   *)
(* and customer data is never archived.                                    *)
(***************************************************************************)
ArchivedMembers ==
    \A b \in Ops : dest[b] \notin overlapped =>
        Db \notin file[b].torn /\ file[b].members \cap Excluded = {}

(***************************************************************************)
(* Without overlap a backup reports the truth: success leaves the file it  *)
(* wrote at the destination, failure leaves it under neither name.         *)
(***************************************************************************)
TrueOutcome ==
    \A b \in Ops : dest[b] \notin overlapped =>
        /\ at[b] = "ok" => archive[dest[b]] = opened[b]
        /\ at[b] = "failed" /\ opened[b] # None =>
              opened[b] \notin {archive[dest[b]], temp[dest[b]]}

\* Every file keeps to the destination of the backup that created it.
NamesInv ==
    /\ \A d \in Dests : temp[d] # None => dest[temp[d]] = d
    /\ \A d \in Dests : archive[d] \in Ops => dest[archive[d]] = d
    /\ \A b \in Ops : opened[b] # None => dest[opened[b]] = dest[b]
    /\ \A b \in Ops : at[b] \in InFile \cup {"ok"} => opened[b] # None
    /\ \A b \in Ops : at[b] \in Working => archive[dest[b]] # Old
    /\ \A b \in Ops : at[b] \in {"idle", "checked"} =>
          /\ \A d \in Dests : temp[d] # b /\ archive[d] # b
          /\ \A x \in Ops : opened[x] # b
          /\ opened[b] = None /\ todo[b] = {}

\* Without overlap the working backup has the destination and both its names to itself.
HoldInv ==
    /\ \A b, x \in Ops : dest[b] = dest[x] /\ dest[b] \notin overlapped
                          /\ at[b] \in Working /\ at[x] \in Working => b = x
    /\ \A b \in Ops : dest[b] \notin overlapped /\ at[b] \in Working => archive[dest[b]] = None
    /\ \A b \in Ops : dest[b] \notin overlapped /\ at[b] \in InFile => temp[dest[b]] = opened[b]
    /\ \A d \in Dests \ overlapped : temp[d] # None => archive[d] = None

\* The file holds what its writer's progress and count say.
Counted(b) ==
    /\ Own(b).config
    /\ todo[b] \cap (Own(b).members \cup Excluded) = {}
    /\ at[b] \in {"open", "listed"} => files[b] = Cardinality(Own(b).members) + 1
    /\ at[b] = "open" => Own(b).members = {}
    /\ at[b] \in {"sealed", "closed"} => Own(b).manifest = Cardinality(Own(b).members) + 2
    /\ at[b] = "closed" => Own(b).closed
CountInv == \A b \in Ops : dest[b] \notin overlapped /\ at[b] \in InFile => Counted(b)

\* The inductive invariant.
IInv ==
    /\ TypeOK /\ NamesInv /\ HoldInv /\ CountInv
    /\ PublishedIsComplete /\ ArchivedMembers /\ TrueOutcome

(***************************************************************************)
(* "Existing archive destinations are not overwritten"                     *)
(* (docs/architecture/local_backup.md) holds for archives of other times,  *)
(* and for every archive as long as backups do not overlap.                *)
(***************************************************************************)
ArchivesStay ==
    [][\A d \in Dests : archive[d] = Old \/ (archive[d] # None /\ d \notin overlapped) =>
          archive'[d] = archive[d]]_vars

=================================================================================
