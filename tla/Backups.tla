------------------------------- MODULE Backups -------------------------------
(***************************************************************************)
(* `maya backup` and `maya restore` together.  A restore reads an archive  *)
(* that no backup is writing any more (BackupCreate moves it into place    *)
(* when it is closed) and writes into a directory of its own, so that the  *)
(* two are followed one at a time: backups into one data directory, or     *)
(* restores of any archive that a backup may have left.                    *)
(***************************************************************************)
EXTENDS BackupCreate

CONSTANTS Restores,       \* restore commands
          RestorePaths,   \* paths in the directory restored to
          ConfigPath      \* config/maya-config.json

\* A path is not the name BackupRestore keeps for the archive's own config entry.
ASSUME RestoreConstants == ConfigPath \in RestorePaths /\ "config entry" \notin RestorePaths

VARIABLES part, zip, target, standing, allow, left, writing, found, disturbed

BR == INSTANCE BackupRestore WITH Paths <- RestorePaths, at <- standing, todo <- left

restoreVars == <<zip, target, standing, allow, left, writing, found, disturbed>>
createVars == <<data, archive, temp, file, at, dest, opened, todo, files, overlapped>>
backupsVars == <<part, createVars, restoreVars>>

BackupsInit ==
    /\ part \in {"backup", "restore"}
    /\ Init /\ BR!Init
    /\ part = "restore" =>
         /\ data = [p \in Paths |-> "whole"] /\ archive = [d \in Dests |-> Old]
         /\ dest = CHOOSE f \in [Ops -> Dests] : TRUE
    /\ part = "backup" => zip = [data |-> RestorePaths, valid |-> TRUE]
                          /\ target = [p \in RestorePaths |-> "absent"]

BackupsNext ==
    \/ part = "backup" /\ Next /\ UNCHANGED <<part, restoreVars>>
    \/ part = "restore" /\ BR!Next /\ UNCHANGED <<part, createVars>>

BackupsSpec == BackupsInit /\ [][BackupsNext]_backupsVars

-----------------------------------------------------------------------------
(* Restore: what reports success is restored, as far as nobody else wrote   *)
(* there meanwhile (restore_local_backup).                                  *)
SuccessIsRestored == BR!SuccessIsRestored

(* Restore: without --allow-overwrite no file that was there when the       *)
(* restore was planned is touched (restore_local_backup).                   *)
ConsentToOverwrite == BR!ConsentToOverwrite
=============================================================================
