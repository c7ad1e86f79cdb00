--------------------------- MODULE LegacyMigration ---------------------------
(***************************************************************************)
(* `maya migrate` (migration.py): the memory_kv rows of a legacy SQLite    *)
(* database go into the registry (entries and embeddings) in one           *)
(* transaction, after a backup of an existing destination and before a     *)
(* report.  The process may be killed between any two steps and is then    *)
(* run again, with or without --overwrite; the owner of the destination    *)
(* writes to it whenever SQLite lets him.                                  *)
(***************************************************************************)
EXTENDS Naturals

CONSTANTS Keys,          \* keys of the legacy rows
          Vector,        \* for each key: its legacy value parses as a vector
          None,
          MaxMigrations, \* how often migrate is run
          MaxWrites      \* how often somebody else writes to the destination

VARIABLES entries,     \* committed rows by key: None, "legacy" or "own"
          embeddings,  \* keys with a committed embeddings row
          exists,      \* the destination file is there
          backup,      \* the entries the backup holds, None for no backup
          report,      \* the report on disk
          migration,   \* the running command and its transaction
          migrations, writes

vars == <<entries, embeddings, exists, backup, report, migration, migrations, writes>>
committed == <<entries, embeddings>>
countVars == <<migrations, writes>>

Ended == [pc |-> "ended", overwrite |-> FALSE, todo |-> {}, done |-> {}, skipped |-> {},
          entries |-> None, embeddings |-> {}, touched |-> FALSE]

Init ==
    /\ entries \in [Keys -> {None, "own"}] /\ embeddings = {}
    /\ exists = (\E k \in Keys : entries[k] # None)
    /\ backup = None /\ report = None /\ migration = Ended
    /\ migrations = 0 /\ writes = 0

At(pc) == migration.pc = pc
Writing == At("rows") /\ migration.done # {}
Locked == At("rows") /\ migration.done \cup migration.skipped # {}
Report == [done |-> migration.done, skipped |-> migration.skipped, touched |-> migration.touched]

(* migrate: refusals and a dry run change nothing; an existing destination  *)
(* needs a backup path.                                                     *)
Start(overwrite) ==
    /\ At("ended") /\ migrations < MaxMigrations
    /\ migrations' = migrations + 1
    /\ migration' = [Ended EXCEPT !.pc = IF exists THEN "backup" ELSE "begin",
                                  !.overwrite = overwrite, !.todo = Keys]
    /\ UNCHANGED <<committed, exists, backup, report, writes>>

(* _backup_database: over the backup of an earlier run; a copy that fails   *)
(* its size or integrity check ends the command.                            *)
BackupDatabase ==
    /\ At("backup")
    /\ \/ backup' = entries /\ migration' = [migration EXCEPT !.pc = "begin"]
       \/ backup' \in {backup, None} /\ migration' = Ended
    /\ UNCHANGED <<committed, exists, report, countVars>>

(* The schema and BEGIN; from the first row that is looked up on, SQLite    *)
(* lets nobody else commit.                                                 *)
Begin ==
    /\ At("begin") /\ exists' = TRUE
    /\ migration' = [migration EXCEPT !.pc = "rows"]
    /\ UNCHANGED <<committed, backup, report, countVars>>

(* _insert_registry_row: what the transaction sees is the committed state   *)
(* until it has written itself.                                             *)
Seen == IF Writing THEN migration.entries ELSE entries
SeenEmbeddings == IF Writing THEN migration.embeddings ELSE embeddings

InsertRegistryRow(k) ==
    /\ At("rows") /\ k \in migration.todo
    /\ migration' = IF Seen[k] # None /\ ~migration.overwrite
         THEN [migration EXCEPT !.todo = @ \ {k}, !.skipped = @ \cup {k}]
         ELSE [migration EXCEPT !.todo = @ \ {k}, !.done = @ \cup {k},
                  !.entries = [Seen EXCEPT ![k] = "legacy"],
                  !.embeddings = IF Vector[k] THEN SeenEmbeddings \cup {k} ELSE SeenEmbeddings]
    /\ UNCHANGED <<committed, exists, backup, report, countVars>>

(* _validate_registry and the commit; an error, or another writer's lock,   *)
(* rolls the transaction back.                                              *)
Commit ==
    /\ At("rows") /\ migration.todo = {}
    /\ \/ /\ entries' = Seen /\ embeddings' = SeenEmbeddings
          /\ migration' = [migration EXCEPT !.pc = "report", !.touched = FALSE]
       \/ migration' = Ended /\ UNCHANGED committed
    /\ UNCHANGED <<exists, backup, report, countVars>>

(* The report is on disk before the transaction commits.                    *)
WriteReportEarly ==
    /\ At("rows") /\ migration.todo = {}
    /\ report' = Report
    /\ UNCHANGED <<committed, exists, backup, countVars, migration>>

(* _write_report: a temporary file that replaces the old report.            *)
WriteReport ==
    /\ At("report")
    /\ \/ report' = Report
       \/ UNCHANGED report
    /\ migration' = Ended
    /\ UNCHANGED <<committed, exists, backup, countVars>>

(* Killed: SQLite rolls an open transaction back.                           *)
Crash ==
    /\ ~At("ended") /\ migration' = Ended
    /\ UNCHANGED <<committed, exists, backup, report, countVars>>

(* Somebody else puts a row of his own, or takes one away.  "touched" marks *)
(* the report, and the run that has yet to write one, as overtaken.         *)
OwnWrite(k) ==
    /\ exists /\ ~Locked /\ writes < MaxWrites /\ writes' = writes + 1
    /\ entries' = [entries EXCEPT ![k] = IF @ = "own" THEN None ELSE "own"]
    /\ report' = IF report = None THEN None ELSE [report EXCEPT !.touched = TRUE]
    /\ migration' = [migration EXCEPT !.touched = TRUE]
    /\ UNCHANGED <<embeddings, exists, backup, migrations>>

Next ==
    \/ \E overwrite \in BOOLEAN : Start(overwrite)
    \/ BackupDatabase \/ Begin \/ Commit \/ WriteReport \/ Crash
    \/ \E k \in Keys : InsertRegistryRow(k) \/ OwnWrite(k)

Spec == Init /\ [][Next]_vars

-----------------------------------------------------------------------------
TypeOK ==
    /\ entries \in [Keys -> {None, "legacy", "own"}] /\ embeddings \subseteq Keys
    /\ migration.todo \cup migration.done \cup migration.skipped \subseteq Keys

(* A report on disk is true of the destination as long as nobody else       *)
(* writes there, whatever later runs did or where they were killed: every   *)
(* legacy row is accounted for, a migrated key holds its legacy value, a    *)
(* skipped one a row, and migrated vectors have their embeddings row        *)
(* (migrate writes the report after the commit).                            *)
ReportIsTrue ==
    report # None /\ ~report.touched =>
        /\ report.done \cup report.skipped = Keys
        /\ \A k \in report.done : entries[k] = "legacy" /\ (Vector[k] => k \in embeddings)
        /\ \A k \in report.skipped : entries[k] # None
=============================================================================
