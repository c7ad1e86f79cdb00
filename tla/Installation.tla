----------------------------- MODULE Installation -----------------------------
(***************************************************************************)
(* A Maya installation outside its sessions and its memory: the release it *)
(* comes from, the first runs that configure it, the commands that judge   *)
(* it, the local API and the document commands that use it, and the        *)
(* migration of older memory into it.  The parts meet only in files whose  *)
(* effect each module states for itself (the policy, the token, the        *)
(* directories), so that one of them is followed at a time.                *)
(***************************************************************************)
EXTENDS Naturals, Sequences

CONSTANTS None, Torn, Altered, Invalid, NoRef
CONSTANTS Slots, ArgSets, MaxBuilds
CONSTANTS Processes, UpdateFiles, Refs, Imports, MaxLaunch, MaxVersion, MaxModel
CONSTANTS Base, Alternatives, MaxDeviations
CONSTANTS Requests, Policies, MaxToken
CONSTANTS Jobs, Sources, Stems, StemOf, MaxEdits
CONSTANTS Keys, Vector, MaxMigrations, MaxWrites

VARIABLE part        \* the part that is followed
VARIABLES args, step, build, outcome, dir, damaged, verdict
VARIABLES config, tmp, legacy, hermes, policyFile, updates, installed, governed, keys,
          launches, models, run
VARIABLE machine
VARIABLES stored, issued, writer, policy, server, log, req
VARIABLES edition, files, job
VARIABLES entries, embeddings, exists, backup, report, migration, migrations, writes

RB == INSTANCE ReleaseBuild
FR == INSTANCE FirstRun
RE == INSTANCE Readiness
LA == INSTANCE LocalAPI
DO == INSTANCE Documents
LM == INSTANCE LegacyMigration

(* The marks for what is absent or broken are none of the values that a     *)
(* registry row, a converted document or its path may have.                 *)
ASSUME NoneIsNoEntry == None \notin {"legacy", "own"}
ASSUME ReleaseConstants ==
    /\ ArgSets \subseteq RB!Args
    /\ \A m \in {None, Torn, Altered} : \A f \in RB!Files : m \notin RB!ContentsOf(f)
ASSUME FirstRunConstants ==
    /\ MaxModel \in Nat \ {0}
    /\ NoRef \notin Refs /\ {None, Torn} \cap FR!Configs = {}
    /\ Imports \subseteq FR!Configs /\ "policy" \notin {None, Torn}
    /\ Len(UpdateFiles) \in Nat /\ DOMAIN UpdateFiles = 1..Len(UpdateFiles)
ASSUME ReadinessConstants ==
    /\ "paths" \in DOMAIN Base
    /\ {Base["paths"]} \cup Alternatives["paths"]
         \subseteq [DOMAIN RE!Parent -> {"dir", "file", "missing"}]
ASSUME DocumentConstants ==
    /\ StemOf \in [Sources -> Stems]
    /\ None \notin Sources \cup Stems
    /\ {None, Torn} \cap [of : Sources \cup {DO!TextOnly}, edition : Nat] = {}

buildVars == <<args, step, build, outcome, dir, damaged, verdict>>
runVars == <<config, tmp, legacy, hermes, policyFile, updates, installed, governed, keys,
             launches, models, run>>
apiVars == <<stored, issued, writer, policy, server, log, req>>
documentVars == <<edition, files, job>>
migrationVars == <<entries, embeddings, exists, backup, report, migration, migrations, writes>>

vars == <<part, buildVars, runVars, machine, apiVars, documentVars,
          migrationVars>>

(* The parts that are not followed stay at one of their initial states.     *)
RestOf(p) ==
    /\ p # "release" => args = CHOOSE a \in ArgSets : TRUE
    /\ p # "first run" => config = None /\ legacy = "empty" /\ hermes = "other" /\ governed
    /\ p # "local api" => stored = 0 /\ policy = CHOOSE q \in Policies : TRUE
    /\ p # "migration" => ~exists

Init ==
    /\ part \in {"release", "first run", "readiness", "local api", "documents",
                "migration"}
    /\ RB!Init /\ FR!Init /\ RE!Init /\ LA!Init /\ DO!Init /\ LM!Init
    /\ RestOf(part)

Next ==
    \/ /\ part = "release" /\ RB!Next
       /\ UNCHANGED <<part, runVars, machine, apiVars, documentVars, migrationVars>>
    \/ /\ part = "first run" /\ FR!Next
       /\ UNCHANGED <<part, buildVars, machine, apiVars, documentVars, migrationVars>>
    \/ /\ part = "readiness" /\ RE!Next
       /\ UNCHANGED <<part, buildVars, runVars, apiVars, documentVars, migrationVars>>
    \/ /\ part = "local api" /\ LA!Next
       /\ UNCHANGED <<part, buildVars, runVars, machine, documentVars, migrationVars>>
    \/ /\ part = "documents" /\ DO!Next
       /\ UNCHANGED <<part, buildVars, runVars, machine, apiVars, migrationVars>>
    \/ /\ part = "migration" /\ LM!Next
       /\ UNCHANGED <<part, buildVars, runVars, machine, apiVars, documentVars>>

Spec == Init /\ [][Next]_vars

-----------------------------------------------------------------------------
(* Release: an accepted directory holds the output of one build, whole      *)
(* (verify_phase6_release.py).                                              *)
AcceptedIsOneBuild == part = "release" => RB!AcceptedIsOneBuild

(* Release: what a build that was given no Inno compiler leaves verifies,   *)
(* unless it was damaged or took in what the verifier forbids (caches of a  *)
(* service, a tests directory of a service or a skill)                      *)
(* (build_phase6_release.py, verify_phase6_release.py).                     *)
UncompiledVerifies == part = "release" => RB!UncompiledVerifies

(* Release: a release whose installers the builder compiled verifies: the   *)
(* words on --inno-compiler in phase6_production_distribution.md            *)
(* (_update_inno_compile_manifest).                                         *)
CompiledVerifies == part = "release" => RB!CompiledVerifies

(* First run: one launch at a time loses a configuration only when it is    *)
(* killed while the credential reference is written over it in place        *)
(* (maya_first_run.py, import-config).                                      *)
ConfigurationKept == FR!ConfigurationKept

(* First run: a server that Start Maya launched by itself has a model, its  *)
(* key, a policy and the governed Hermes, and the update metadata of its    *)
(* payload until the next upgrade or first run (maya_first_run.py,          *)
(* serve-local-api).                                                        *)
LaunchedIsComplete == part = "first run" => FR!LaunchedIsComplete

(* Readiness: what fails `maya doctor` also fails `maya health summary`,    *)
(* unless nothing but the audit log check fails (doctor.py, health.py).     *)
HealthCoversDoctor == part = "readiness" => RE!HealthCoversDoctor

(* Local API: a rotated token takes effect for the running server           *)
(* (BearerTokenAuthenticator).                                              *)
RotationTakesEffect == part = "local api" => LA!RotationTakesEffect

(* Local API: Hermes runs only what the loaded rules allow and the audit    *)
(* log records (GovernedAgentRuntime.run).                                  *)
RuntimeIsAuthorized == part = "local api" => LA!RuntimeIsAuthorized

(* Documents: a conversion that ran by itself and got a file from           *)
(* LibreOffice reports its own source at its own output (convert_document). *)
ConvertedIsOwn == part = "documents" => DO!ConvertedIsOwn

(* Migration: a report is true of the destination nobody else writes to     *)
(* (migrate).                                                               *)
ReportIsTrue == part = "migration" => LM!ReportIsTrue
=============================================================================
