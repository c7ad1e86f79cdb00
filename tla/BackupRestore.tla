----------------------------- MODULE BackupRestore -----------------------------
(***************************************************************************)
(* restore_local_backup() of src/src/project_maya/backup.py: the archive   *)
(* is validated, every target is tested for an existing file, and then the *)
(* members are written one by one into a destination that others may be    *)
(* using.  A restore that fails or dies leaves what it wrote.              *)
(***************************************************************************)
EXTENDS Naturals

CONSTANTS Restores,    \* restore commands; each may be run again
          Paths,       \* paths relative to a data directory
          ConfigPath   \* config/maya-config.json, one of Paths

VARIABLES
    zip,      \* the archive: data members, and whether it passes validation
    target,   \* contents of the destination directory
    at,       \* where each restore stands
    allow,    \* --allow-overwrite
    todo,     \* members still to be written
    writing,  \* the member being written
    found,    \* targets that existed when the restore was planned
    disturbed \* paths others changed since the restore was planned

vars == <<zip, target, at, allow, todo, writing, found, disturbed>>

\* The archive's own config entry, kept apart from a data member of that path.
ConfigEntry == "config entry"
Members == Paths \cup {ConfigEntry}

\* Contents: no file, cut short, somebody else's, a data member's or the config entry's.
Contents == {"absent", "torn", "other", "data", "config"}
Points == {"idle", "planned", "member", "ok", "failed", "dry"}

Init ==
    /\ zip \in [data : SUBSET Paths, valid : BOOLEAN]
    /\ target \in [Paths -> {"absent", "other"}]
    /\ at = [r \in Restores |-> "idle"]
    /\ allow = [r \in Restores |-> FALSE]
    /\ todo = [r \in Restores |-> {}]
    /\ writing = [r \in Restores |-> ConfigEntry]
    /\ found = [r \in Restores |-> {}]
    /\ disturbed = [r \in Restores |-> {}]

Goto(r, p) == at' = [at EXCEPT ![r] = p]

\* The config entry goes to config/maya-config.json, a data member to its own path.
RestoreTarget(m) == IF m = ConfigEntry THEN ConfigPath ELSE m
Content(m) == IF m = ConfigEntry THEN "config" ELSE "data"

\* The restores under way in xs see p change under their hands.
Disturb(xs, p) ==
    disturbed' = [x \in Restores |->
        disturbed[x] \cup IF x \in xs /\ at[x] \in {"planned", "member"} THEN {p} ELSE {}]

\* The call returns or raises, and its local state is gone.
Leave(r, result) ==
    /\ Goto(r, result)
    /\ allow' = [allow EXCEPT ![r] = FALSE]
    /\ todo' = [todo EXCEPT ![r] = {}]
    /\ writing' = [writing EXCEPT ![r] = ConfigEntry]
    /\ found' = [found EXCEPT ![r] = {}]
    /\ disturbed' = [disturbed EXCEPT ![r] = {}]
    /\ UNCHANGED <<zip, target>>

-----------------------------------------------------------------------------
\* The members to restore: the config entry and the data members.
RestoreMembers == {ConfigEntry} \cup zip.data

Existing_DataOnly == {m \in zip.data : target[m] # "absent"}
Existing == {m \in RestoreMembers : target[RestoreTarget(m)] # "absent"}

\* Validation, the plan and the conflict test; nothing is written yet.
Begin(r, apply, overwrite) ==
    /\ at[r] \in {"idle", "ok", "failed", "dry"}
    /\ IF ~zip.valid \/ (Existing # {} /\ ~overwrite)
       THEN Goto(r, "failed") /\ UNCHANGED <<allow, todo, found>>
       ELSE IF ~apply
       THEN Goto(r, "dry") /\ UNCHANGED <<allow, todo, found>>
       ELSE /\ Goto(r, "planned")
            /\ allow' = [allow EXCEPT ![r] = overwrite]
            /\ todo' = [todo EXCEPT ![r] = RestoreMembers]
            /\ found' = [found EXCEPT ![r] = {p \in Paths : target[p] # "absent"}]
    /\ UNCHANGED <<zip, target, writing, disturbed>>

\* The config entry is the archive's first; write_bytes truncates before it writes.
Order(r) == IF ConfigEntry \in todo[r] THEN {ConfigEntry} ELSE todo[r]

Truncate(r, m) ==
    /\ at[r] = "planned" /\ m \in Order(r)
    /\ target' = [target EXCEPT ![RestoreTarget(m)] = "torn"]
    /\ writing' = [writing EXCEPT ![r] = m]
    /\ todo' = [todo EXCEPT ![r] = @ \ {m}]
    /\ Disturb(Restores \ {r}, RestoreTarget(m))
    /\ Goto(r, "member")
    /\ UNCHANGED <<zip, allow, found>>

Write(r) ==
    /\ at[r] = "member"
    /\ target' = [target EXCEPT ![RestoreTarget(writing[r])] = Content(writing[r])]
    /\ Disturb(Restores \ {r}, RestoreTarget(writing[r]))
    /\ Goto(r, "planned")
    /\ UNCHANGED <<zip, allow, todo, writing, found>>

\* All members are written.
AllWritten_ButOne(r) == \A m, n \in todo[r] : m = n
AllWritten(r) == todo[r] = {}

Finish(r) ==
    /\ at[r] = "planned" /\ AllWritten(r)
    /\ Leave(r, "ok")

\* A read or a write raises, or the process dies: what was written stays.
Stop(r) ==
    /\ at[r] \in {"planned", "member"}
    /\ Leave(r, "failed")

\* Somebody else creates, changes or removes a file of the destination.
Foreign(p, content) ==
    /\ target[p] # content
    /\ target' = [target EXCEPT ![p] = content]
    /\ Disturb(Restores, p)
    /\ UNCHANGED <<zip, at, allow, todo, writing, found>>

Next ==
    \/ \E r \in Restores :
          \/ \E apply, overwrite \in BOOLEAN : Begin(r, apply, overwrite)
          \/ \E m \in Members : Truncate(r, m)
          \/ Write(r) \/ Finish(r) \/ Stop(r)
    \/ \E p \in Paths, content \in {"absent", "other"} : Foreign(p, content)

Spec == Init /\ [][Next]_vars

-----------------------------------------------------------------------------
\* The shape of the restores' state.
TypeOK ==
    /\ zip \in [data : SUBSET Paths, valid : BOOLEAN]
    /\ target \in [Paths -> Contents]
    /\ at \in [Restores -> Points]
    /\ allow \in [Restores -> BOOLEAN]
    /\ todo \in [Restores -> SUBSET Members]
    /\ writing \in [Restores -> Members]
    /\ found \in [Restores -> SUBSET Paths]
    /\ disturbed \in [Restores -> SUBSET Paths]

(***************************************************************************)
(* A restore that reports success has restored every member that nobody    *)
(* else touched meanwhile: no file is missing or cut short.  Where the     *)
(* archive also has a data member config/maya-config.json, that one stays. *)
(***************************************************************************)
SuccessIsRestored ==
    [][\A r \in Restores : at[r] = "planned" /\ at'[r] = "ok" =>
          \A p \in (zip.data \cup {ConfigPath}) \ disturbed[r] :
              target[p] = IF p \in zip.data THEN "data" ELSE "config"]_vars

(***************************************************************************)
(* "If a destination file already exists, --allow-overwrite is also        *)
(* required" (docs/architecture/local_backup.md): without consent a step   *)
(* of the restore changes no file that was there when it was planned, the  *)
(* remains of an earlier failed restore included.                          *)
(***************************************************************************)
ConsentToOverwrite ==
    [][\A r \in Restores, p \in Paths :
          at'[r] # at[r] /\ target'[p] # target[p] => allow[r] \/ p \notin found[r]]_vars

(***************************************************************************)
(* "The top-level maya-config.json backup entry restores to                *)
(* <data-dir>/config/maya-config.json" (docs/architecture/local_backup.md).*)
(* A data directory that holds that file itself, as every restored one     *)
(* does, is archived with two entries of one target, and the second wins.  *)
(***************************************************************************)
ConfigRestored ==
    [][\A r \in Restores : at[r] = "planned" /\ at'[r] = "ok" /\ ConfigPath \notin disturbed[r] =>
          target[ConfigPath] = "config"]_vars
================================================================================
