------------------------------ MODULE Readiness ------------------------------
(***************************************************************************)
(* What the operator commands conclude about an installation: the          *)
(* validation of the configuration (config.py, connectors.py,              *)
(* model_config.py), the readiness of the managed dependencies             *)
(* (dependencies.py), `maya repair` and `maya setup` (repair.py,           *)
(* setup.py), `maya doctor` (doctor.py) and `maya health summary`          *)
(* (health.py).  The installation is one record, changed by its user, by   *)
(* the operating system and by the commands; a verdict is an operator on   *)
(* that record.                                                            *)
(***************************************************************************)
EXTENDS Naturals, FiniteSets, Sequences

CONSTANTS Base,           \* the installation one starts from
          Alternatives,   \* for each of its fields, the values it may take
          MaxDeviations   \* how many fields may differ from Base at a time

VARIABLE machine

Profiles == {"core", "documents", "metabase", "browser", "messaging", "local-models"}
Connectors == {"google", "slack", "telegram"}

-----------------------------------------------------------------------------
(* Configuration.  "fault" names a setting that is wrong in itself, one for *)
(* each test of MayaConfig.validate; the others relate several settings.    *)

(* ConnectorCredentialContract.validate_integration: the required modes of  *)
(* every contract are its supported ones without "disabled".                *)
SupportedModes(name) ==
    IF name = "telegram" THEN {"customer_owned", "disabled"}
                         ELSE {"broker", "customer_owned", "disabled"}

ValidIntegration(name, i, broker) ==
    /\ name \in Connectors
    /\ i.mode \in SupportedModes(name)
    /\ ~(i.enabled /\ i.mode = "disabled")
    /\ ~(i.mode = "broker" /\ broker = "disabled")
    /\ i.ref = IF i.mode = "disabled" THEN "none" ELSE "secret"

Configured(m) == {name \in Connectors \cup {"other"} : m[name].mode # "absent"}

(* MayaConfig._validate_integration: other names only meet two tests.       *)
IntegrationLoads(name, m) ==
    IF name \in Connectors THEN ValidIntegration(name, m[name], m.broker)
    ELSE /\ ~(m[name].enabled /\ m[name].mode = "disabled")
         /\ m[name].ref # "raw"

(* MayaConfig.validate, which config_from_mapping ends with.                *)
ConfigLoads(m) ==
    /\ m.fault = "none"
    /\ \A name \in Configured(m) : IntegrationLoads(name, m)
    /\ m.metabase.enabled => m.metabase.appdb = "secret"

(* model_config._first_invalid_reason.                                      *)
ModelValid(m) ==
    /\ m.llm.mode \in {"maya_managed", "customer_owned", "local"}
    /\ m.llm.model = "chosen"
    /\ m.llm.ref # "raw"
    /\ m.llm.endpoint # "invalid"
    /\ m.llm.mode = "customer_owned" => m.llm.ref = "secret"
    /\ m.llm.mode = "local" => m.llm.endpoint = "valid" /\ m.llm.compatible
    /\ ~(m.llm.mode = "maya_managed" /\ m.edition = "enterprise" /\ m.broker = "disabled")

(* validate_local_model_endpoint.                                           *)
LocalEndpointReady(m) == m.llm.mode = "local" /\ ModelValid(m)

-----------------------------------------------------------------------------
(* Dependencies.  A contract names its profile, how it is checked, whether  *)
(* it is required, and the health category whose prefixes match its check,  *)
(* "none" where CHECK_CATEGORIES has no such prefix.                        *)
Contract(id, profile, kind, requirement, category) ==
    [id |-> id, profile |-> profile, kind |-> kind,
     requirement |-> requirement, category |-> category]

DocumentContracts ==
    {Contract(package, "documents", "package", "required", "documents") :
        package \in {"reportlab", "pypdf", "markdown", "pillow"}}
    \cup {Contract("pymupdf", "documents", "package", "optional", "documents"),
          Contract("pdftoppm", "documents", "command", "optional", "documents"),
          Contract("soffice", "documents", "command", "required", "documents"),
          Contract("ms-office", "documents", "application", "customer", "documents")}

MetabaseContracts ==
    {Contract("java", "metabase", "command", "required", "none"),
     Contract("metabase", "metabase", "metabase", "customer", "metabase"),
     Contract("application-db", "metabase", "application_db", "customer", "metabase"),
     Contract("analytics", "metabase", "analytics", "optional", "metabase")}

BrowserContracts ==
    {Contract("browser", "browser", "command", "required", "none"),
     Contract("driver", "browser", "application", "customer", "none"),
     Contract("browser-policy", "browser", "application", "customer", "none")}

(* A connector has a service, a contract and a governance dependency, which *)
(* are decided alike; only the service has a category.                      *)
ConnectorContracts ==
    {Contract(name, "messaging", "connector", "customer", category) :
        name \in Connectors, category \in {"connectors", "none"}}

ModelContracts ==
    {Contract("endpoint", "local-models", "endpoint", "required", "none"),
     Contract("family", "local-models", "local_model", "customer", "none"),
     Contract("artifact", "local-models", "local_model", "customer", "models")}

CoreContracts == {Contract("project_maya", "core", "package", "required", "documents")}

Contracts == CoreContracts \cup DocumentContracts \cup MetabaseContracts
             \cup BrowserContracts \cup ConnectorContracts \cup ModelContracts

(* _missing_dependency.                                                     *)
Missing(c) == IF c.requirement = "required" THEN "missing_required" ELSE "missing_optional"

(* _evaluate_external_service and _evaluate_connector_dependency.           *)
ConnectorReadiness(name, m) ==
    IF name \notin Configured(m) \/ ~m[name].enabled THEN "disabled"
    ELSE IF ValidIntegration(name, m[name], m.broker) THEN "customer_managed"
    ELSE "missing_required"

(* _evaluate_metabase_service.                                              *)
MetabaseReadiness(m) ==
    IF ~m.metabase.enabled \/ m.metabase.deployment = "disabled" \/ m.metabase.endpoint = "none"
    THEN "missing_required" ELSE "customer_managed"

ApplicationDatabaseReadiness(m) ==
    IF ~m.metabase.enabled THEN "disabled"
    ELSE IF m.metabase.appdb = "none" THEN "missing_required" ELSE "customer_managed"

AnalyticsReadiness(m) ==
    IF ~m.metabase.enabled THEN "disabled"
    ELSE IF m.metabase.sources = 0 THEN "missing_optional" ELSE "customer_managed"

(* _evaluate_local_model_runtime_family and _evaluate_local_model_artifact. *)
LocalModelReadiness(m) ==
    IF LocalEndpointReady(m) THEN "customer_managed" ELSE "missing_required"

EndpointReadiness(m) ==
    IF m.llm.mode # "local" THEN "disabled" ELSE LocalModelReadiness(m)

(* _evaluate_python_package and _evaluate_system_command.                   *)
LookedUp(c, m) == IF c.id \in m.available THEN "available" ELSE Missing(c)

(* evaluate_dependency.                                                     *)
EvaluateDependency(c, m) ==
    IF m.system \notin {"Windows", "Darwin", "Linux"} THEN "unsupported_os"
    ELSE CASE c.kind \in {"package", "command"} -> LookedUp(c, m)
           [] c.kind = "application" -> "customer_managed"
           [] c.kind = "connector" -> ConnectorReadiness(c.id, m)
           [] c.kind = "endpoint" -> EndpointReadiness(m)
           [] c.kind = "local_model" -> LocalModelReadiness(m)
           [] c.kind = "metabase" -> MetabaseReadiness(m)
           [] c.kind = "application_db" -> ApplicationDatabaseReadiness(m)
           [] c.kind = "analytics" -> AnalyticsReadiness(m)

Enabled(m) == {c \in Contracts : c.profile \in m.profiles}

(* A profile only looks at its optional dependencies.                       *)
ProfileReadinessOptional(profile, m) ==
    IF \E c \in Enabled(m) :
           c.profile = profile /\ EvaluateDependency(c, m) = "missing_optional"
    THEN "missing_optional" ELSE "available"

(* evaluate_profile_readiness.                                              *)
ProfileReadiness(profile, m) ==
    LET statuses == {EvaluateDependency(c, m) : c \in {e \in Enabled(m) : e.profile = profile}}
    IN IF "missing_required" \in statuses THEN "missing_required"
       ELSE IF "missing_optional" \in statuses THEN "missing_optional" ELSE "available"

-----------------------------------------------------------------------------
(* Directories.  "other" stands for the required directories that no check  *)
(* of the doctor looks at.                                                  *)
Targets == <<"data", "memory", "governance", "audit", "integrations", "google", "documents",
             "outputs", "cache", "updates", "backups", "migrations", "other">>
Parent == [t \in {Targets[i] : i \in DOMAIN Targets} |->
              CASE t = "audit" -> "governance"
                [] t = "google" -> "integrations"
                [] t \in {"outputs", "cache"} -> "documents"
                [] OTHER -> "data"]

(* _ensure_repairable_root and the walk of repair_local_state: it stops at  *)
(* the first target that is not a directory.                                *)
RepairRaises(m) == ~m.root \/ \E t \in DOMAIN m.paths : m.paths[t] = "file"

CreatedBefore(m, i) == \A j \in 1..i : m.paths[Targets[j]] # "file"

RepairedPaths(m) ==
    [t \in DOMAIN m.paths |->
        IF m.root /\ m.paths[t] = "missing"
           /\ \E i \in DOMAIN Targets : Targets[i] = t /\ CreatedBefore(m, i)
        THEN "dir" ELSE m.paths[t]]

(* plan_setup: a missing requirement blocks, everything else only warns.    *)
SetupBlocked(m) == \E p \in m.profiles : ProfileReadiness(p, m) = "missing_required"

-----------------------------------------------------------------------------
(* build_local_product, which doctor and health call first: it raises on an *)
(* invalid model, on a credential that cannot be read, on a store it cannot *)
(* open and on a policy file it cannot parse.                               *)
AssemblyRaises(m) ==
    \/ ~ModelValid(m)
    \/ m.secrets = "torn" /\ m.llm.ref = "secret"
    \/ m.policy = "invalid"
    \/ m.store = "unreadable" \/ (m.store = "corrupt" /\ m.retriever = "local_json")
    \/ m.retriever = "local_vector" /\ "file" \in {m.paths["data"], m.paths["memory"]}

(* Opening the local_vector store creates it and the directories above it.  *)
Assembled(m) ==
    IF m.retriever # "local_vector" THEN m
    ELSE [m EXCEPT !.root = TRUE, !.paths["data"] = "dir", !.paths["memory"] = "dir",
                   !.store = IF @ = "missing" THEN "ready" ELSE @]

-----------------------------------------------------------------------------
(* The doctor.  A check has a name, a status and the health category its    *)
(* name falls into.                                                         *)
CheckOf(group, name, status, category) ==
    [group |-> group, name |-> name, status |-> status, category |-> category]
Check(name, status, category) == CheckOf("product", name, status, category)

DataDirCheck(m) ==
    Check("filesystem.data_dir",
          CASE m.paths["data"] = "dir" -> "pass"
            [] m.paths["data"] = "missing" /\ m.root -> "warn"
            [] OTHER -> "fail", "filesystem")

DiskSpaceCheck(m) ==
    Check("filesystem.disk_space",
          CASE m.paths["data"] = "missing" /\ ~m.root -> "fail"
            [] m.disk = "unknown" -> "warn"
            [] OTHER -> IF m.disk = "free" THEN "pass" ELSE "fail", "filesystem")

MemoryStoreCheck(m) ==
    Check("memory.store",
          CASE m.store = "missing" -> "warn" [] m.store = "ready" -> "pass" [] OTHER -> "fail",
          "memory")

EmbeddingModelCheck(m) ==
    Check("memory.embedding",
          IF m.retriever = "local_vector" /\ m.embedding THEN "pass" ELSE "warn", "memory")

GovernancePolicyCheck(m) ==
    Check("governance.policy",
          CASE m.policy = "allows" -> "pass"
            [] m.policy \in {"missing", "denies"} -> "warn"
            [] OTHER -> "fail", "governance")

(* The audit log is only read back here; no category has its prefix.        *)
AuditLogCheck(m) ==
    Check("audit.runtime",
          CASE m.paths["audit"] = "file" -> "fail"
            [] m.paths["audit"] = "dir" /\ m.audit = "torn" -> "fail"
            [] m.paths["audit"] = "dir" /\ m.audit = "valid" -> "pass"
            [] OTHER -> "warn", "none")

ManagedDirectoryCheck(m, name, directory, category) ==
    Check(name,
          CASE m.paths[directory] = "file" -> "fail"
            [] m.paths[directory] = "dir" -> "pass"
            [] OTHER -> IF m.paths["data"] = "dir" \/ (m.paths["data"] = "missing" /\ m.root)
                        THEN "warn" ELSE "fail", category)

DependencyStatus(status) ==
    CASE status \in {"available", "customer_managed", "disabled"} -> "pass"
      [] status = "missing_required" -> "fail"
      [] OTHER -> "warn"

DependencyChecks(m) ==
    {CheckOf("profile", p, DependencyStatus(ProfileReadiness(p, m)), "none") : p \in m.profiles}
    \cup {CheckOf(c.profile, c.id, DependencyStatus(EvaluateDependency(c, m)), c.category) :
             c \in Enabled(m)}

(* document_capability_checks looks for the same tools a second time.       *)
DocumentChecks(m) ==
    IF "documents" \notin m.profiles THEN {}
    ELSE {CheckOf("documents", d,
                CASE m.paths[d] = "dir" -> "pass" [] m.paths[d] = "file" -> "fail" [] OTHER -> "warn",
                "documents") : d \in {"documents", "outputs", "cache"}}
         \cup {CheckOf("documents", tool, IF tool \in m.available THEN "pass" ELSE "fail",
                     "documents") : tool \in {"pypdf", "reportlab", "soffice"}}

(* validate_metabase_health: an endpoint that is not a URL still counts.    *)
MetabaseHealth(m) ==
    CASE ~m.metabase.enabled -> "disabled"
      [] m.metabase.enabled /\ m.metabase.deployment = "disabled" -> "unsupported_deployment"
      [] OTHER -> IF m.metabase.endpoint \in {"none", "empty"} \/ m.metabase.appdb # "secret"
                  THEN "not_ready" ELSE "ready"

(* inspect_metabase_lifecycle.                                              *)
MetabaseLifecycle(m) ==
    CASE ~m.metabase.enabled -> "disabled"
      [] m.metabase.enabled /\ m.metabase.deployment = "managed_local" ->
             IF "metabase.jar" \in m.available THEN "managed_local_ready"
                                               ELSE "managed_local_artifact_missing"
      [] OTHER -> IF m.metabase.deployment = "disabled" THEN "unsupported_deployment"
                                                        ELSE "customer_managed"

(* plan_metabase_provisioning, never applied here, so that a blocked plan   *)
(* is a warning.                                                            *)
ProvisioningPlan(m) ==
    IF m.metabase.sources > 0 /\ MetabaseHealth(m) = "ready" THEN "planned" ELSE "blocked"

MetabaseChecks(m) ==
    IF "metabase" \notin m.profiles THEN {}
    ELSE {Check("metabase.health",
                IF MetabaseHealth(m) \in {"not_ready", "unsupported_deployment"}
                THEN "fail" ELSE "pass", "metabase"),
          Check("metabase.lifecycle",
                CASE MetabaseLifecycle(m) = "unsupported_deployment" -> "fail"
                  [] MetabaseLifecycle(m) = "managed_local_artifact_missing" -> "warn"
                  [] OTHER -> "pass", "metabase"),
          Check("metabase.provisioning",
                IF ProvisioningPlan(m) = "blocked" THEN "warn" ELSE "pass", "metabase")}

SkillCheck(m) ==
    Check("skills", IF m.skill = "packaged" THEN "pass" ELSE "fail", "skills")

(* validate_configured_connectors also refuses a connector nobody supports. *)
ConnectorCheck(m) ==
    Check("connectors.config",
          CASE Configured(m) = {} -> "warn"
            [] \A name \in Configured(m) : ValidIntegration(name, m[name], m.broker) -> "pass"
            [] OTHER -> "fail", "connectors")

SecretsCheck(m) ==
    Check("secrets.backend", IF m.secrets = "unavailable" THEN "warn" ELSE "pass", "secrets")

(* The commands ask a runtime they never started.                           *)
RuntimeChecks(m) ==
    {Check("hermes.compatibility", IF m.compatible THEN "pass" ELSE "fail", "runtime"),
     Check("hermes.health", IF m.compatible THEN "warn" ELSE "fail", "runtime"),
     Check("lifecycle.agent", "pass", "runtime")}

(* run_doctor.                                                              *)
DoctorReport(m) ==
    {Check("config", IF ConfigLoads(m) THEN "pass" ELSE "fail", "configuration"),
     DataDirCheck(m), DiskSpaceCheck(m), MemoryStoreCheck(m), EmbeddingModelCheck(m),
     GovernancePolicyCheck(m), AuditLogCheck(m),
     ManagedDirectoryCheck(m, "backup.state", "backups", "backup"),
     ManagedDirectoryCheck(m, "migration.state", "migrations", "none"),
     Check("release.platform", IF m.system = "Windows" THEN "pass" ELSE "warn", "platform"),
     Check("profiles.enabled", "pass", "configuration"),
     SkillCheck(m),
     Check("model.config", IF ModelValid(m) THEN "pass" ELSE "fail", "models"),
     ConnectorCheck(m), SecretsCheck(m)}
    \cup DependencyChecks(m) \cup DocumentChecks(m) \cup MetabaseChecks(m) \cup RuntimeChecks(m)

Failing(m) == {c \in DoctorReport(m) : c.status = "fail"}

(* cli._doctor: the exit status.                                            *)
DoctorFails(m) ==
    \/ ~ConfigLoads(m) \/ AssemblyRaises(m)
    \/ Failing(Assembled(m)) # {}

-----------------------------------------------------------------------------
(* check_updates and rollback_update: metadata that cannot be parsed, or    *)
(* that lacks a field, raises out of the summary; rejected metadata blocks. *)
UpdateRaises(m) == "unreadable" \in {m.update, m.rollback}

(* _category_from_report.                                                   *)
CategoryStatus(m, category) ==
    LET statuses == {c.status : c \in {d \in DoctorReport(m) : d.category = category}}
    IN CASE statuses = {} -> "not_configured"
         [] "fail" \in statuses -> "blocked"
         [] "warn" \in statuses /\ "fail" \notin statuses -> "degraded"
         [] OTHER -> "ready"

CheckCategories == {"configuration", "platform", "filesystem", "governance", "memory", "secrets",
                    "runtime", "connectors", "models", "documents", "metabase", "backup"}

(* summarize_health and _overall_status, then the exit status of            *)
(* cli._health_summary.                                                     *)
HealthFails(m) ==
    \/ ~ConfigLoads(m) \/ AssemblyRaises(m)
    \/ LET a == Assembled(m)
       IN \/ UpdateRaises(a) \/ RepairRaises(a) \/ SetupBlocked(a)
          \/ \E category \in CheckCategories : CategoryStatus(a, category) = "blocked"
          \/ a.update = "rejected" \/ a.skill # "packaged"

-----------------------------------------------------------------------------
(* The installation changes.                                                *)
Init == machine = Base

Deviations(m) == {f \in DOMAIN Base : m[f] # Base[f]}

Consistent(paths) == \A t \in DOMAIN paths \ {"data"} :
                        paths[Parent[t]] # "dir" => paths[t] = "missing"

(* A setting is edited, a tool, a file or a directory comes or goes.        *)
Change(f, value) ==
    LET changed == [machine EXCEPT ![f] = value]
    IN /\ machine[f] # value
       /\ Cardinality(Deviations(changed)) <= MaxDeviations
       /\ ~changed.root => changed.paths["data"] = "missing"
       /\ machine' = changed

(* maya repair --apply and maya setup init --apply: what was created stays  *)
(* when the walk raises.                                                    *)
Repair ==
    /\ ConfigLoads(machine)
    /\ machine' = [machine EXCEPT !.paths = RepairedPaths(machine)]

(* doctor, health, run and serve-local-api assemble the product.            *)
Assemble ==
    /\ ConfigLoads(machine) /\ ~AssemblyRaises(machine)
    /\ machine' = Assembled(machine)

(* maya reset-integration google --apply: removes the local state.          *)
ResetIntegration ==
    /\ ConfigLoads(machine) /\ "google" \in Configured(machine)
    /\ machine.paths["google"] = "dir"
    /\ machine' = [machine EXCEPT !.paths["google"] = "missing"]

Next ==
    \/ \E f \in DOMAIN Base : \E value \in Alternatives[f] : Change(f, value)
    \/ Repair \/ Assemble \/ ResetIntegration

Spec == Init /\ [][Next]_machine

-----------------------------------------------------------------------------
TypeOK == /\ \A f \in DOMAIN Base \ {"paths", "root", "store"} : machine[f] \in Alternatives[f] \cup {Base[f]}
          /\ Consistent(machine.paths)

(* An installation the doctor calls unhealthy never has a ready health      *)
(* summary, although the two commands decide through different tables: a    *)
(* dependency without a health category must come back through the setup    *)
(* plan, a directory through the repair plan (summarize_health).  The check *)
(* of the runtime audit log, which no category counts, is missed where it   *)
(* is all that fails.                                                       *)
HealthCoversDoctor ==
    DoctorFails(machine) =>
        \/ HealthFails(machine)
        \/ Failing(Assembled(machine)) = {AuditLogCheck(Assembled(machine))}
=============================================================================
