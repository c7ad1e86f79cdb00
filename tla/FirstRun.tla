------------------------------- MODULE FirstRun -------------------------------
(***************************************************************************)
(* The first run of an installed Maya: the script maya_first_run.py and    *)
(* the launchers that scripts/build_phase6_release.py puts into the        *)
(* payload, with `maya import-config`, `maya rotate-secret` and `maya      *)
(* serve-local-api` (cli.py), which share its files.  Setup Maya runs the  *)
(* script and may ask the user; Start Maya and Maya Doctor run it with     *)
(* --ensure before they go on.  Nothing keeps two of them from running at  *)
(* once, and any of them may be killed between two steps.                  *)
(***************************************************************************)
EXTENDS Naturals, Sequences

CONSTANTS Processes,     \* launches that may overlap
          UpdateFiles,   \* the release metadata, in the order it is copied into updates/
          Refs,          \* credential references a configuration may carry
          Imports,       \* the configurations import-config is given
          NoRef, None, Torn,
          MaxLaunch, MaxVersion, MaxModel

VARIABLES config,     \* maya.json: None, Torn, or what it says
          tmp,        \* maya.json.tmp, the same name for every writer
          legacy,     \* memory/records.json: absent or empty, or with records (or unreadable)
          hermes,     \* hermes/config.yaml: Maya's, another's (or absent), or not a mapping
          policyFile, \* default.json: None, Torn or "policy"
          updates,    \* version of each file under updates/, 0 for none, or Torn
          installed,  \* version of the installed payload
          governed,   \* the payload's Hermes has the governance contract
          keys,       \* references the secret store holds a value for
          launches, models,
          run         \* per process: what it is, where it is, what it read

vars == <<config, tmp, legacy, hermes, policyFile, updates, installed, governed, keys,
          launches, models, run>>

configVars == <<config, tmp>>
stateVars == <<legacy, hermes, policyFile, updates, installed, governed, keys>>
countVars == <<launches, models>>

Configs == [edition : {"standard", "enterprise"}, retriever : {"local_json", "local_vector"},
            ref : Refs \cup {NoRef}, model : 0..MaxModel]
Whole(c) == c \notin {None, Torn}

(* standard.json.template: model 0 is the placeholder                       *)
(* "configured-during-setup".                                               *)
Template == [edition |-> "standard", retriever |-> "local_vector", ref |-> NoRef, model |-> 0]

Idle == [kind |-> "none", pc |-> "idle", seen |-> None, file |-> 1,
         alone |-> FALSE, fresh |-> FALSE]

Init ==
    /\ config \in {None} \cup
         [edition : {"standard", "enterprise"}, retriever : {"local_json"}, ref : {NoRef}, model : {1}]
    /\ legacy \in {"empty", "records"}
    /\ hermes \in {"other", "invalid"}
    /\ governed \in BOOLEAN
    /\ tmp = None /\ policyFile = None /\ keys = {}
    /\ updates = [f \in DOMAIN UpdateFiles |-> 0] /\ installed = 1
    /\ launches = 0 /\ models = 1
    /\ run = [p \in Processes |-> Idle]

Active(p) == run[p].pc # "idle"
At(p, pc) == run[p].pc = pc
Go(p, pc) == run' = [run EXCEPT ![p].pc = pc]
Read(p, pc) == run' = [run EXCEPT ![p].pc = pc, ![p].seen = config]
(* The script returns 1, or an exception ends it.                           *)
Stop(p) == run' = [run EXCEPT ![p] = Idle]

(* setup-maya.cmd, maya.cmd, maya-doctor.cmd and maya-cli.cmd               *)
(* import-config.  "alone" remembers whether another launch came in between *)
(* before the server ran, "fresh" whether another first run, which copies   *)
(* the release metadata again, or an upgrade of the payload ever did.       *)
Quiet(q) == run[q].pc \in {"idle", "serving"}

Launch(p, kind) ==
    /\ ~Active(p) /\ launches < MaxLaunch
    /\ launches' = launches + 1
    /\ run' = [q \in Processes |->
          IF q = p THEN [kind |-> kind, seen |-> None, file |-> 1,
                         alone |-> \A o \in Processes : Quiet(o),
                         fresh |-> \A o \in Processes : Quiet(o) \/ run[o].kind = "import",
                         pc |-> IF kind = "import" THEN "import" ELSE "config"]
          ELSE [run[q] EXCEPT !.alone = @ /\ At(q, "serving"),
                              !.fresh = @ /\ kind = "import"]]
    /\ UNCHANGED <<configVars, stateVars, models>>

-----------------------------------------------------------------------------
(* _prepare_standard_config.                                                *)
LegacyEmpty == legacy = "empty"

PrepareConfig(p) ==
    /\ At(p, "config")
    /\ CASE config = None -> Go(p, "create")
         [] config = Torn -> Stop(p)
         [] OTHER ->
              IF config.edition # "standard" \/ config.retriever # "local_json" THEN Go(p, "dirs")
              ELSE IF LegacyEmpty THEN Read(p, "upgrade") ELSE Stop(p)
    /\ UNCHANGED <<configVars, stateVars, countVars>>

(* The template is written in place ...                                     *)
CreateConfig(p) ==
    /\ At(p, "create") /\ config' = Torn /\ Go(p, "created")
    /\ UNCHANGED <<tmp, stateVars, countVars>>
CreateFinish(p) ==
    /\ At(p, "created") /\ config' = Template /\ Go(p, "dirs")
    /\ UNCHANGED <<tmp, stateVars, countVars>>

(* The choice is written over the file, not beside it.                      *)
OpenInPlace(p) ==
    /\ run[p].pc \in {"upgrade", "choose", "import_write"}
    /\ config' = Torn /\ tmp' = run[p].seen
    /\ Go(p, CASE At(p, "upgrade") -> "upgrade_replace"
               [] At(p, "choose") -> "choose_replace"
               [] OTHER -> "imported_replace")
    /\ UNCHANGED <<stateVars, countVars>>

(* ... while an upgrade, a model choice and an import go through maya.json.tmp. *)
OpenTmp(p) ==
    /\ run[p].pc \in {"upgrade", "choose", "import_write"}
    /\ tmp' = Torn
    /\ Go(p, CASE At(p, "upgrade") -> "upgrade_write"
               [] At(p, "choose") -> "choose_write"
               [] OTHER -> "imported_write")
    /\ UNCHANGED <<config, stateVars, countVars>>

WriteTmp(p) ==
    /\ run[p].pc \in {"upgrade_write", "choose_write", "imported_write"}
    /\ tmp' = IF At(p, "upgrade_write") THEN [run[p].seen EXCEPT !.retriever = "local_vector"]
                                        ELSE run[p].seen
    /\ Go(p, CASE At(p, "upgrade_write") -> "upgrade_replace"
               [] At(p, "choose_write") -> "choose_replace"
               [] OTHER -> "imported_replace")
    /\ UNCHANGED <<config, stateVars, countVars>>

(* temporary.replace(config_path): whatever the temporary file holds by now;*)
(* a file that another process has moved away raises.                       *)
ReplaceConfig(p) ==
    /\ run[p].pc \in {"upgrade_replace", "choose_replace", "imported_replace"}
    /\ IF tmp = None THEN Stop(p) /\ UNCHANGED configVars
       ELSE /\ config' = tmp /\ tmp' = None
            /\ CASE At(p, "upgrade_replace") -> Go(p, "dirs")
                 [] At(p, "choose_replace") -> Go(p, "setup")
                 [] OTHER -> Stop(p)
    /\ UNCHANGED <<stateVars, countVars>>

-----------------------------------------------------------------------------
(* The directories, and the default policy unless there is a file: one that *)
(* a killed run left torn stays.                                            *)
MakeDirs(p) ==
    /\ At(p, "dirs") /\ Go(p, IF policyFile = None THEN "policy" ELSE "copy")
    /\ UNCHANGED <<configVars, stateVars, countVars>>

CopyPolicy(p) ==
    /\ \/ At(p, "policy") /\ policyFile' = Torn /\ Go(p, "policy_write")
       \/ At(p, "policy_write") /\ policyFile' = "policy" /\ Go(p, "copy")
    /\ UNCHANGED <<configVars, legacy, hermes, updates, installed, governed, keys, countVars>>

(* The release metadata of the installed payload: every file on every run,  *)
(* one after the other, each written in place.                              *)
CopyUpdateMetadata(p) ==
    LET f == run[p].file
    IN /\ \/ /\ At(p, "copy") /\ f \in DOMAIN UpdateFiles
             /\ updates' = [updates EXCEPT ![f] = Torn] /\ Go(p, "copy_write")
          \/ /\ At(p, "copy_write")
             /\ updates' = [updates EXCEPT ![f] = installed]
             /\ run' = [run EXCEPT ![p].pc = "copy", ![p].file = f + 1]
          \/ /\ At(p, "copy") /\ f \notin DOMAIN UpdateFiles
             /\ UNCHANGED updates /\ Go(p, "memory")
       /\ UNCHANGED <<configVars, legacy, hermes, policyFile, installed, governed, keys,
                      countVars>>

(* _initialize_hermes_memory: makes Maya the provider, keeps the user's     *)
(* other settings, then asks the provider whether it is available and lets  *)
(* it load the policy.                                                      *)
InitializeHermesMemory(p) ==
    /\ At(p, "memory")
    /\ hermes' = IF hermes = "invalid" THEN hermes ELSE "maya"
    /\ IF hermes # "invalid" /\ Whole(config) /\ config.retriever = "local_vector"
          /\ policyFile = "policy"
       THEN Go(p, "governance") ELSE Stop(p)
    /\ UNCHANGED <<configVars, legacy, policyFile, updates, installed, governed, keys, countVars>>

(* _initialize_hermes_governance.                                           *)
InitializeGovernance(p) ==
    /\ At(p, "governance")
    /\ IF governed THEN Go(p, "token") ELSE Stop(p)
    /\ UNCHANGED <<configVars, stateVars, countVars>>

(* _initialize_local_api_secret: a new token on every run (LocalAPI); a     *)
(* store that fails is reported and the script goes on.                     *)
InitializeToken(p) ==
    /\ At(p, "token") /\ Go(p, "credential")
    /\ UNCHANGED <<configVars, stateVars, countVars>>

-----------------------------------------------------------------------------
(* _initialize_model_credential: the reference is written into the file in  *)
(* place ...                                                                *)
ReadCredential(p) ==
    /\ At(p, "credential")
    /\ IF Whole(config) THEN Read(p, IF config.ref = NoRef THEN "ref" ELSE "key") ELSE Stop(p)
    /\ UNCHANGED <<configVars, stateVars, countVars>>

WriteRef(p) ==
    /\ At(p, "ref") /\ config' = Torn /\ Go(p, "ref_write")
    /\ UNCHANGED <<tmp, stateVars, countVars>>
WriteRefFinish(p) ==
    \E ref \in Refs :
        /\ At(p, "ref_write")
        /\ config' = [run[p].seen EXCEPT !.ref = ref]
        /\ run' = [run EXCEPT ![p].pc = "key", ![p].seen.ref = ref]
        /\ UNCHANGED <<tmp, stateVars, countVars>>

(* A first run that goes on without a key.                                  *)
StoreKeyUnasked(p) ==
    /\ At(p, "key") /\ UNCHANGED keys /\ Go(p, "model")
    /\ UNCHANGED <<configVars, legacy, hermes, policyFile, updates, installed, governed, countVars>>

(* ... and a key is asked for, by Setup Maya only, if the store has none.   *)
StoreKey(p) ==
    /\ At(p, "key")
    /\ \/ run[p].seen.ref \in keys /\ UNCHANGED keys /\ Go(p, "model")
       \/ /\ run[p].seen.ref \notin keys /\ run[p].kind = "setup"
          /\ keys' = keys \cup {run[p].seen.ref} /\ Go(p, "model")
       \/ run[p].seen.ref \notin keys /\ UNCHANGED keys /\ Stop(p)
    /\ UNCHANGED <<configVars, legacy, hermes, policyFile, updates, installed, governed, countVars>>

(* _initialize_model_selection: the file is read, the user asked, and what  *)
(* was read is written back with the answer.                                *)
SelectModel(p) ==
    /\ At(p, "model")
    /\ IF ~Whole(config) THEN Stop(p)
       ELSE IF config.model # 0 THEN Go(p, "setup")
       ELSE IF run[p].kind = "setup" THEN Read(p, "ask") ELSE Stop(p)
    /\ UNCHANGED <<configVars, stateVars, countVars>>

AskModel(p) ==
    /\ At(p, "ask")
    /\ \/ models < MaxModel /\ models' = models + 1
          /\ run' = [run EXCEPT ![p].seen.model = models + 1, ![p].pc = "choose"]
       \/ Stop(p) /\ UNCHANGED models
    /\ UNCHANGED <<configVars, stateVars, launches>>

-----------------------------------------------------------------------------
(* setup plan and setup init --apply: both exit 0 even when they report a   *)
(* blocked profile, 1 when the configuration or a directory is unusable.    *)
SetupInit(p) ==
    /\ At(p, "setup")
    /\ \/ /\ Whole(config) /\ run[p].kind \in {"start", "doctor"} /\ Go(p, run[p].kind)
       \/ Stop(p)
    /\ UNCHANGED <<configVars, stateVars, countVars>>

(* serve-local-api loads the file anew and assembles the product: the model *)
(* must be chosen, Hermes governed; a missing key is not an error.          *)
Serve(p) ==
    /\ At(p, "start")
    /\ \/ Whole(config) /\ config.model # 0 /\ governed /\ Read(p, "serving")
       \/ Stop(p)
    /\ UNCHANGED <<configVars, stateVars, countVars>>

(* doctor reports and leaves; a server runs until it is stopped.            *)
Leave(p) ==
    /\ run[p].pc \in {"doctor", "serving"} /\ Stop(p)
    /\ UNCHANGED <<configVars, stateVars, countVars>>

(* Any process may be killed between two steps.                             *)
Kill(p) ==
    /\ run[p].pc \notin {"idle", "doctor", "serving"} /\ Stop(p)
    /\ UNCHANGED <<configVars, stateVars, countVars>>

-----------------------------------------------------------------------------
(* import-config --apply --allow-overwrite: any valid configuration.        *)
ReadImport(p) ==
    /\ At(p, "import")
    /\ \/ \E c \in Imports : run' = [run EXCEPT ![p].pc = "import_write", ![p].seen = c]
       \/ Stop(p)
    /\ UNCHANGED <<configVars, stateVars, countVars>>

(* rotate-secret stores a key for any reference.                            *)
RotateSecret(ref) ==
    /\ Whole(config) /\ ref \notin keys /\ keys' = keys \cup {ref}
    /\ UNCHANGED <<configVars, legacy, hermes, policyFile, updates, installed, governed,
                   countVars, run>>

(* The installer puts a newer payload in place; the user clears away what   *)
(* blocked the first run.                                                   *)
Upgrade ==
    /\ installed < MaxVersion /\ installed' = installed + 1
    /\ governed' \in BOOLEAN
    /\ run' = [p \in Processes |-> [run[p] EXCEPT !.fresh = FALSE]]
    /\ UNCHANGED <<configVars, legacy, hermes, policyFile, updates, keys, countVars>>

UserClears ==
    /\ \A p \in Processes : ~Active(p)
    /\ \/ config = Torn /\ config' = None /\ UNCHANGED <<legacy, hermes, policyFile>>
       \/ ~LegacyEmpty /\ legacy' = "empty" /\ UNCHANGED <<config, hermes, policyFile>>
       \/ hermes = "invalid" /\ hermes' = "other" /\ UNCHANGED <<config, legacy, policyFile>>
       \/ policyFile = Torn /\ policyFile' = None /\ UNCHANGED <<config, legacy, hermes>>
    /\ UNCHANGED <<tmp, updates, installed, governed, keys, countVars, run>>

Step(p) ==
    \/ PrepareConfig(p) \/ CreateConfig(p) \/ CreateFinish(p) \/ OpenTmp(p) \/ WriteTmp(p)
    \/ ReplaceConfig(p) \/ MakeDirs(p) \/ CopyPolicy(p) \/ CopyUpdateMetadata(p) \/ InitializeHermesMemory(p)
    \/ InitializeGovernance(p) \/ InitializeToken(p) \/ ReadCredential(p) \/ WriteRef(p)
    \/ WriteRefFinish(p) \/ StoreKey(p) \/ SelectModel(p) \/ AskModel(p) \/ SetupInit(p)
    \/ Serve(p) \/ Leave(p) \/ Kill(p) \/ ReadImport(p)
    \/ \E kind \in {"setup", "start", "doctor", "import"} : Launch(p, kind)

Next ==
    \/ \E p \in Processes : Step(p)
    \/ \E ref \in Refs : RotateSecret(ref)
    \/ Upgrade \/ UserClears

Spec == Init /\ [][Next]_vars

-----------------------------------------------------------------------------
TypeOK ==
    /\ {config, tmp} \subseteq Configs \cup {None, Torn}
    /\ updates \in [DOMAIN UpdateFiles -> 0..MaxVersion \cup {Torn}] /\ keys \subseteq Refs

Overlap == \E p \in Processes : ~run[p].alone /\ ~Quiet(p)

(* What the file says, or says again once the reference is written over it. *)
Writing == {p \in Processes : At(p, "ref_write")}
Said == IF Writing = {} THEN config ELSE run[CHOOSE p \in Writing : TRUE].seen

Keeps(c, d) ==
    /\ d.edition = c.edition
    /\ c.ref # NoRef => d.ref = c.ref
    /\ c.model # 0 => d.model = c.model
    /\ c.retriever = "local_vector" => d.retriever = "local_vector"

(* Launched one at a time, first runs and imports lose a configuration in   *)
(* one way only: killed while the credential reference is written over the  *)
(* file in place.  Wherever else one is killed, and in what it writes, the  *)
(* edition, the reference and the model that were there stay, and local     *)
(* memory is not switched back; only an import puts another configuration   *)
(* in its place, and that as a whole (_prepare_standard_config,             *)
(* _initialize_model_credential, _initialize_model_selection,               *)
(* _import_config).                                                         *)
ConfigurationKept ==
    [][Whole(Said) /\ ~Overlap =>
         \/ \E p \in Writing : run'[p].pc = "idle"
         \/ Whole(Said') /\ Keeps(Said, Said')
         \/ \E p \in Processes : run[p].kind = "import" /\ config' = run[p].seen
                                 /\ Whole(config')]_vars

(* A server that Start Maya launched with no other launch in between runs   *)
(* on a chosen model whose key is in the secret store, on governed Hermes   *)
(* and under a whole policy: what the script checked still holds when       *)
(* serve-local-api, which does not look for the key, reads the file again.  *)
(* And the update metadata that `maya update` will inspect is whole and     *)
(* that of the installed payload, although earlier runs may have died in    *)
(* the middle of a copy, until the payload is upgraded or another first run *)
(* begins to copy it again.                                                 *)
LaunchedIsComplete ==
    \A p \in Processes : At(p, "serving") =>
        /\ run[p].alone => /\ run[p].seen.model # 0 /\ run[p].seen.ref \in keys
                           /\ policyFile = "policy" /\ hermes = "maya"
        /\ run[p].fresh => \A f \in DOMAIN UpdateFiles : updates[f] = installed
=============================================================================
