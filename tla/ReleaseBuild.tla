---------------------------- MODULE ReleaseBuild ----------------------------
(***************************************************************************)
(* The release pipeline: scripts/build_phase6_release.py fills an empty    *)
(* output directory step by step (wheel, staged payload, installer bundle, *)
(* Inno sources, SBOM, signed manifests, compiled installers) and          *)
(* scripts/verify_phase6_release.py later decides whether the directory is *)
(* a release.  Every file is written in place, so a build that dies leaves *)
(* a torn file and everything it wrote before; files may also be damaged   *)
(* on their way to the verifier.  A digest is the content itself.          *)
(***************************************************************************)
EXTENDS Naturals, FiniteSets, Sequences

CONSTANTS None, Torn, Altered,  \* a file that is absent, half written, damaged
          Slots,                \* HEAVY_DEPENDENCY_SLOTS
          ArgSets,              \* the command lines builds are started with
          MaxBuilds             \* bound on the builds started

VARIABLES args,     \* the command line of the newest build
          step,     \* the step that build is at; 0 when no build runs
          build,    \* how many builds were started
          outcome,  \* of the newest build: "none" | "ok" | "error"
          dir,      \* the release directory: file -> content
          damaged,  \* a file was damaged since the directory was empty
          verdict   \* of the verifier on the directory as it is now

vars == <<args, step, build, outcome, dir, damaged, verdict>>

Artifacts == {"wheel", "bundle", "innoManifest", "standard", "enterprise"}
Installers == {"exeStandard", "exeEnterprise"}
Manifests == {"release", "update", "rollback"}
Files == Artifacts \cup Installers \cup Manifests \cup {"payload", "sbom", "provenance"}

\* How each input of the command line turns out: left out, refused, or staged.
\* A service archive may carry Python caches or a tests directory, and so may a
\* skill, whose caches are left behind; a Hermes wheel may have the
\* mandatory-middleware contract ("governed"); the Inno compiler of the command
\* line may not be there ("unavailable").
Args == [python: {"absent", "rejected", "supplied"},
         hermes: {"absent", "rejected", "supplied", "governed"},
         wheelhouse: {"absent", "rejected", "empty", "conflicting", "supplied"},
         services: [Slots -> {"absent", "rejected", "cached", "tests", "supplied"}],
         skills: {"absent", "rejected", "tests", "supplied"},
         icon: {"absent", "rejected", "supplied"},
         compiler: {"absent", "unavailable", "supplied"},
         signtool: {"absent", "missing", "supplied"}, selectors: 0..2, allowUnsigned: BOOLEAN]

\* The files in the order main() writes them; an Inno compiler that is there adds,
\* for each edition, the installer and its signing, and the Inno manifest comes again.
Steps ==
    IF args.compiler = "supplied"
    THEN <<"wheel", "payload", "bundle", "innoManifest", "standard", "enterprise",
           "sbom", "provenance", "release", "update", "rollback",
           "exeStandard", "sign", "exeEnterprise", "sign", "compileManifest">>
    ELSE <<"wheel", "payload", "bundle", "innoManifest", "standard", "enterprise",
           "sbom", "provenance", "release", "update", "rollback", "compileManifest">>

Whole(c) == c \notin {None, Torn, Altered}

-----------------------------------------------------------------------------
(* Staging the payload *)

\* The wheel setuptools builds, or the minimal one packed by hand when it fails:
\* nothing later tells the two apart.
BuildWheel == [build |-> build]

StagePython(a) ==
    IF a.python = "absent" THEN "local_smoke_external_fallback" ELSE "included"

StageHermes(a) ==
    IF a.hermes = "absent" THEN "missing_blocked" ELSE "wheelhouse_artifact_included"

\* Wheels already in the wheelhouse are skipped: a directory that adds none is missing.
StageWheelhouse(a) ==
    IF a.wheelhouse \in {"absent", "empty"} THEN "missing_blocked" ELSE "included"

\* The wheels (Maya's own is always one) are unpacked into site-packages; a
\* member that conflicts with one already unpacked stops the build.
Materialized(a) == IF a.wheelhouse = "conflicting" THEN "conflict" ELSE "materialized"

StageIcon(a) == IF a.icon = "absent" THEN "not_configured" ELSE "included"

\* The digest of a service is taken of the tree as it was unpacked, caches included.
StageService(a, s) ==
    [included |-> a.services[s] # "absent",
     recorded |-> IF a.services[s] = "cached" THEN "tree with caches" ELSE "tree",
     tree |-> IF a.services[s] = "cached" THEN "tree with caches" ELSE "tree",
     tests |-> a.services[s] = "tests"]

\* The caches below the whole payload go once the payload has been tried out.
RemoveCaches(service) == [service EXCEPT !.tree = "tree"]

\* An allowlisted skill is copied with all it has but Python caches.
StageSkills(a) == [included |-> a.skills # "absent", tests |-> a.skills = "tests"]

StagingRaises(a) ==
    \/ a.python = "rejected"
    \/ a.hermes = "rejected"
    \/ a.wheelhouse = "rejected"
    \/ Materialized(a) = "conflict"
    \/ \E s \in Slots : a.services[s] = "rejected"
    \/ a.skills = "rejected"
    \/ a.icon = "rejected"

HERMES_GOVERNANCE_QUALIFIED == FALSE

QualificationMode(a) ==
    IF /\ StagePython(a) = "included"
       /\ StageHermes(a) # "missing_blocked"
       /\ StageWheelhouse(a) = "included"
       /\ \A s \in Slots : StageService(a, s).included
       /\ HERMES_GOVERNANCE_QUALIFIED
    THEN "production"
    ELSE "local_smoke_blocked"

\* The maya-core, governance and messaging entries never vary.
ComponentReadiness(a) ==
    [hermes |-> IF StageHermes(a) # "missing_blocked"
                THEN "installed" ELSE "blocked_until_runtime_artifact_available",
     metabase |-> IF \A s \in Slots \cap {"metabase", "java"} : StageService(a, s).included
                  THEN "setup_required" ELSE "blocked_until_managed_artifacts_available",
     documents |-> IF \A s \in Slots \cap {"libreoffice"} : StageService(a, s).included
                   THEN "setup_required" ELSE "blocked_until_document_runtime_available",
     skills |-> IF StageSkills(a).included THEN "installed" ELSE "empty_overlay"]

\* maya_qualification.py runs the first run and then the product's commands
\* against the payload: a command that exits 1 blocks (the first run's refusal
\* for want of a key is expected), any other failure fails the qualification,
\* and the builder with it.  Without these parts some command always blocks.
Qualifications(a) ==
    IF /\ a.hermes = "governed"
       /\ StageWheelhouse(a) = "included"
       /\ \A s \in Slots \ {"poppler"} : StageService(a, s).included
    THEN {"ready", "blocked"}
    ELSE {"blocked"}

Payload(a, qualification) ==
    [build |-> build, mode |-> QualificationMode(a), boundaryQualified |-> FALSE,
     python |-> StagePython(a), hermes |-> StageHermes(a), wheelhouse |-> StageWheelhouse(a),
     site |-> Materialized(a), icon |-> StageIcon(a), skills |-> StageSkills(a),
     readiness |-> ComponentReadiness(a), qualification |-> qualification,
     services |-> [s \in Slots |-> RemoveCaches(StageService(a, s))]]

-----------------------------------------------------------------------------
(* Bundle, installers and signed metadata *)

Bundle == [build |-> build, wheel |-> dir["wheel"], payload |-> dir["payload"]]

InnoManifest ==
    [build |-> build, compiler |-> "absent", compiled |-> {}, signing |-> "external-release-signing-required",
     production |-> dir["payload"].mode]

\* The Inno script of an edition takes the payload directory and the manifests.
InnoScript(edition) == [build |-> build, edition |-> edition, icon |-> dir["payload"].icon]

\* The manifest is rewritten after every build.
CompileManifestAlways(a) ==
    [dir["innoManifest"] EXCEPT !.compiler = "supplied"]

\* The manifest again, with the compiler the command line named, there or not,
\* and what it compiled; unsigned installers make it a local smoke manifest.
CompileManifest(a) ==
    LET compiled == {f \in Installers : dir[f] # None}
        smoke == compiled # {} /\ a.signtool = "absent" /\ a.allowUnsigned
    IN  [dir["innoManifest"] EXCEPT !.compiler = a.compiler,
                                    !.compiled = {dir[f] : f \in compiled},
                                    !.signing = IF smoke THEN "unsigned-local-smoke-only" ELSE @,
                                    !.production = IF smoke THEN "local-smoke" ELSE @]

ArtifactDigests == [f \in Artifacts |-> dir[f]]

Sbom == [build |-> build, components |-> {dir[f] : f \in Artifacts}]
Provenance == [build |-> build]
ReleaseManifest == [build |-> build, artifacts |-> ArtifactDigests, bundle |-> dir["bundle"]]
UpdateManifest == [build |-> build, artifact |-> dir["bundle"]]
RollbackManifest == [build |-> build, artifact |-> dir["wheel"]]

\* What the step writes.
Content(f) ==
    CASE f = "bundle" -> Bundle
      [] f = "innoManifest" -> InnoManifest
      [] f \in {"standard", "enterprise"} -> InnoScript(f)
      [] f = "sbom" -> Sbom
      [] f = "provenance" -> Provenance
      [] f = "release" -> ReleaseManifest
      [] f = "update" -> UpdateManifest
      [] f = "rollback" -> RollbackManifest
      [] f = "compileManifest" -> CompileManifest(args)

\* The file a step writes to; the signing tool is given the installer just compiled.
Target(f) ==
    CASE f = "compileManifest" -> "innoManifest"
      [] f = "sign" -> Steps[step - 1]
      [] OTHER -> f

-----------------------------------------------------------------------------
(* The builder *)

Init ==
    /\ args \in ArgSets
    /\ step = 0 /\ build = 0 /\ outcome = "none"
    /\ dir = [f \in Files |-> None]
    /\ damaged = FALSE /\ verdict = "none"

EmptyDirectory == \A f \in Files : dir[f] = None

Start(a) ==
    /\ step = 0 /\ build < MaxBuilds
    /\ EmptyDirectory
    /\ args' = a /\ step' = 1 /\ build' = build + 1 /\ outcome' = "none"
    /\ verdict' = "none"
    /\ UNCHANGED <<dir, damaged>>

\* The next step of the build, and the end of the build with it.
Advance ==
    /\ step' = IF step = Len(Steps) THEN 0 ELSE step + 1
    /\ outcome' = IF step = Len(Steps) THEN "ok" ELSE outcome
    /\ verdict' = "none"
    /\ UNCHANGED <<args, build, damaged>>

WriteWheel ==
    /\ step > 0 /\ Steps[step] = "wheel"
    /\ dir' = [dir EXCEPT !["wheel"] = BuildWheel]
    /\ Advance

\* The payload is staged and tried out: it starts and its qualification ends.
WritePayload ==
    /\ step > 0 /\ Steps[step] = "payload" /\ ~StagingRaises(args)
    /\ \E q \in Qualifications(args) : dir' = [dir EXCEPT !["payload"] = Payload(args, q)]
    /\ Advance

WriteStep ==
    /\ step > 0 /\ Steps[step] \notin {"wheel", "payload", "sign"} \cup Installers
    /\ dir' = [dir EXCEPT ![Target(Steps[step])] = Content(Steps[step])]
    /\ Advance

\* The compiler leaves an installer, or none: then there is nothing to sign.
CompileStep ==
    /\ step > 0 /\ Steps[step] \in Installers
    /\ \/ /\ dir' = [dir EXCEPT ![Steps[step]] = [build |-> build, signed |-> FALSE]]
          /\ step' = step + 1
       \/ step' = step + 2 /\ UNCHANGED dir
    /\ verdict' = "none"
    /\ UNCHANGED <<args, build, outcome, damaged>>

SigningRaises(a) ==
    \/ a.signtool = "absent" /\ ~a.allowUnsigned
    \/ a.signtool = "missing"
    \/ a.signtool = "supplied" /\ a.selectors # 1

SignStep ==
    /\ step > 0 /\ Steps[step] = "sign" /\ ~SigningRaises(args)
    /\ dir' = [dir EXCEPT ![Target("sign")].signed = (args.signtool = "supplied")]
    /\ Advance

\* The build raises or dies: a refused input, a failing tool, a full disk.  The
\* file in hand stays as the step found it, or half written.
Abort ==
    /\ step > 0
    /\ dir' \in {dir, [dir EXCEPT ![Target(Steps[step])] = Torn]}
    /\ step' = 0 /\ outcome' = "error" /\ verdict' = "none"
    /\ UNCHANGED <<args, build, damaged>>

\* Whoever runs the builder empties the directory.
Clean ==
    /\ step = 0 /\ ~EmptyDirectory
    /\ dir' = [f \in Files |-> None]
    /\ damaged' = FALSE /\ outcome' = "none" /\ verdict' = "none"
    /\ UNCHANGED <<args, step, build>>

\* A file of a finished release is damaged where the release is kept.
Damage(f) ==
    /\ step = 0 /\ outcome = "ok" /\ Whole(dir[f]) /\ ~damaged
    /\ dir' = [dir EXCEPT ![f] = Altered]
    /\ damaged' = TRUE /\ verdict' = "none"
    /\ UNCHANGED <<args, step, build, outcome>>

-----------------------------------------------------------------------------
(* The verifier *)

\* Signatures: a manifest the builder signed verifies, a damaged one does not.
SignaturesVerify(d) == \A f \in Manifests : Whole(d[f])

ArtifactsVerify(d) ==
    \A f \in Artifacts : d[f] # None /\ d[f] = d["release"].artifacts[f]

\* Off Windows no signature can be checked and every installer is refused.
InstallersSigned(d, host) ==
    \A f \in Installers :
        d[f] # None => host = "win32" /\ Whole(d[f]) /\ d[f].signed

ProductionComplete(p) ==
    /\ p.boundaryQualified
    /\ p.python = "included" /\ p.hermes # "missing_blocked"
    /\ p.wheelhouse = "included" /\ p.site = "materialized"
    /\ \A s \in Slots \cap {"embedding_model"} : p.services[s].included

ManagedPayloadVerifies(p) ==
    /\ p.mode = "production" => ProductionComplete(p)
    /\ \A s \in Slots : p.services[s].included => p.services[s].tree = p.services[s].recorded

\* The payload starts, its launchers run product actions, and its own
\* qualification ends ready or blocked.
PayloadQualifies(p) == p.qualification \in {"ready", "blocked"}

InnoProductsVerify(d, host) ==
    /\ \A f \in {"innoManifest", "standard", "enterprise"} : Whole(d[f])
    /\ InstallersSigned(d, host)
    /\ Whole(d["payload"])
    /\ ManagedPayloadVerifies(d["payload"])
    /\ PayloadQualifies(d["payload"])

\* No entry of the bundle comes from a cache or a tests directory.
BundleVerifies(b) ==
    ~b.payload.skills.tests /\ \A s \in Slots : ~b.payload.services[s].tests

\* The signatures are trusted and no digest is compared.
AcceptsSigned(d, host) ==
    /\ SignaturesVerify(d)
    /\ d["sbom"] # None /\ d["provenance"] # None
    /\ \A f \in Artifacts : d[f] # None
    /\ InnoProductsVerify(d, host)
    /\ d["bundle"] # Torn /\ d["bundle"] # Altered /\ BundleVerifies(d["bundle"])

Accepts(d, host) ==
    /\ SignaturesVerify(d)
    /\ d["sbom"] # None /\ d["provenance"] # None
    /\ ArtifactsVerify(d)
    /\ InnoProductsVerify(d, host)
    /\ d["bundle"] = d["update"].artifact
    /\ d["wheel"] = d["rollback"].artifact
    /\ BundleVerifies(d["bundle"])

Verify(host) ==
    /\ step = 0
    /\ verdict' = IF Accepts(dir, host) THEN "accepted" ELSE "rejected"
    /\ UNCHANGED <<args, step, build, outcome, dir, damaged>>

Next ==
    \/ \E a \in ArgSets : Start(a)
    \/ WriteWheel \/ WritePayload \/ WriteStep \/ CompileStep \/ SignStep
    \/ Abort \/ Clean
    \/ \E f \in Files \ {"payload"} : Damage(f)
    \/ \E host \in {"win32", "linux"} : Verify(host)

Spec == Init /\ [][Next]_vars

-----------------------------------------------------------------------------
(* Properties *)

\* What each file holds when it is neither absent nor broken.
Trees == {"tree", "tree with caches"}
WheelFile == [build : Nat]
ReadinessEntries ==
    [hermes : {"installed", "blocked_until_runtime_artifact_available"},
     metabase : {"setup_required", "blocked_until_managed_artifacts_available"},
     documents : {"setup_required", "blocked_until_document_runtime_available"},
     skills : {"empty_overlay", "installed"}]
PayloadFile ==
    [build : Nat, mode : {"production", "local_smoke_blocked"}, boundaryQualified : BOOLEAN,
     python : {"local_smoke_external_fallback", "included"},
     hermes : {"missing_blocked", "wheelhouse_artifact_included"},
     wheelhouse : {"missing_blocked", "included"}, site : {"conflict", "materialized"},
     icon : {"not_configured", "included"}, skills : [included : BOOLEAN, tests : BOOLEAN],
     qualification : {"ready", "blocked"}, readiness : ReadinessEntries,
     services : [Slots -> [included : BOOLEAN, recorded : Trees, tree : Trees, tests : BOOLEAN]]]
InstallerFile == [build : Nat, signed : BOOLEAN]
BundleFile == [build : Nat, wheel : WheelFile, payload : PayloadFile]
InnoManifestFile ==
    [build : Nat, compiler : {"absent", "unavailable", "supplied"}, compiled : SUBSET InstallerFile,
     signing : {"external-release-signing-required", "unsigned-local-smoke-only"},
     production : {"production", "local_smoke_blocked", "local-smoke"}]
ScriptFile ==
    [build : Nat, edition : {"standard", "enterprise"}, icon : {"not_configured", "included"}]
ArtifactFile == WheelFile \cup BundleFile \cup InnoManifestFile \cup ScriptFile

ContentsOf(f) ==
    CASE f \in {"wheel", "provenance"} -> WheelFile
      [] f = "payload" -> PayloadFile
      [] f = "bundle" -> BundleFile
      [] f = "innoManifest" -> InnoManifestFile
      [] f \in {"standard", "enterprise"} -> ScriptFile
      [] f \in Installers -> InstallerFile
      [] f = "sbom" -> [build : Nat, components : SUBSET ArtifactFile]
      [] f = "release" -> [build : Nat, artifacts : [Artifacts -> ArtifactFile], bundle : BundleFile]
      [] f = "update" -> [build : Nat, artifact : BundleFile]
      [] f = "rollback" -> [build : Nat, artifact : WheelFile]

TypeOK ==
    /\ args \in Args /\ step \in 0..Len(Steps) /\ build \in 0..MaxBuilds
    /\ outcome \in {"none", "ok", "error"}
    /\ DOMAIN dir = Files
    /\ \A f \in Files : dir[f] \in ContentsOf(f) \cup {None, Torn, Altered}
    /\ damaged \in BOOLEAN /\ verdict \in {"none", "accepted", "rejected"}

\* What the verifier accepts is the undamaged work of one run of the builder:
\* no artifact is torn or altered, and no file of an earlier, interrupted build
\* (an installer its compile step left behind, say) is among the others.  The
\* verifier looks installers up by pattern and never asks which build they are
\* from; the builder's refusal of a directory that is not empty is what decides.
AcceptedIsOneBuild ==
    verdict = "accepted" =>
        /\ \A f \in Artifacts : Whole(dir[f])
        /\ \A f \in Files : Whole(dir[f]) => dir[f].build = dir["release"].build

\* No service archive brought Python caches (they are removed after their digest
\* was taken), and nothing brought a tests directory (the bundle may not hold one).
CleanInputs == /\ \A s \in Slots : args.services[s] \notin {"cached", "tests"}
               /\ args.skills # "tests"

\* A build that returned 0 and was not given an Inno compiler verifies on any
\* host, if its inputs are clean.  (A compiler that is given and not there is
\* no such build: its path is written over the manifest that was signed.)
UncompiledVerifies ==
    outcome = "ok" /\ ~damaged /\ args.compiler = "absent" /\ CleanInputs
    => \A host \in {"win32", "linux"} : Accepts(dir, host)

\* A finished build whose installers were compiled and signed verifies on Windows.
CompiledVerifies ==
    /\ outcome = "ok" /\ ~damaged /\ CleanInputs
    /\ args.compiler = "supplied" /\ args.signtool = "supplied"
    => Accepts(dir, "win32")
=============================================================================
