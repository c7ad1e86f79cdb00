--------------------------- MODULE MCInstallation ---------------------------
(* The parts of an installation on small instances.                         *)
EXTENDS Installation, TLC

CONSTANTS r1, r2, note_docx, plan_odt, note, plan

-----------------------------------------------------------------------------
(* Release: a two-slot payload and the command lines that make the builder  *)
(* go every way.                                                            *)
Plain == [python |-> "absent", hermes |-> "absent", wheelhouse |-> "absent",
          services |-> [s \in Slots |-> "absent"], skills |-> "absent", icon |-> "absent",
          compiler |-> "absent", signtool |-> "absent", selectors |-> 0, allowUnsigned |-> FALSE]

Full == [Plain EXCEPT !.python = "supplied", !.hermes = "governed", !.wheelhouse = "supplied",
                      !.services = [s \in Slots |-> "supplied"], !.skills = "supplied",
                      !.icon = "supplied"]

\* One input at a time turns out differently.
Inputs ==
    {Plain, Full}
    \cup {[Full EXCEPT !.python = v] : v \in {"absent", "rejected"}}
    \cup {[Full EXCEPT !.hermes = v] : v \in {"absent", "rejected", "supplied"}}
    \cup {[Full EXCEPT !.wheelhouse = v] : v \in {"empty", "rejected", "conflicting"}}
    \cup {[Full EXCEPT !.services["java"] = v] : v \in {"absent", "rejected", "cached", "tests"}}
    \cup {[Full EXCEPT !.skills = v] : v \in {"rejected", "tests"}}
    \cup {[Full EXCEPT !.icon = "rejected"], [Full EXCEPT !.compiler = "unavailable"]}

\* The ways of signing that differ: a selector matters to a tool that is there, and
\* leave to go unsigned only without one.
Signing == {<<"absent", 0, FALSE>>, <<"absent", 0, TRUE>>, <<"missing", 0, FALSE>>,
            <<"supplied", 0, FALSE>>, <<"supplied", 1, FALSE>>}
Compiling ==
    {[Full EXCEPT !.compiler = "supplied", !.signtool = w[1], !.selectors = w[2],
                  !.allowUnsigned = w[3]] : w \in Signing}

CommandLines == Inputs \cup Compiling

-----------------------------------------------------------------------------
(* Readiness: the installer's configuration with Google and Slack by broker,*)
(* and for each field what may be wrong with it.                            *)
\* The directory tree and the profiles, which depend on no parameter.
Layout == INSTANCE Readiness WITH Base <- None, Alternatives <- None, MaxDeviations <- 0,
                                  machine <- None
Absent == [enabled |-> FALSE, mode |-> "absent", ref |-> "none"]
Integration(mode, ref) == [enabled |-> TRUE, mode |-> mode, ref |-> ref]
Llm(mode, model, ref, endpoint, compatible) ==
    [mode |-> mode, model |-> model, ref |-> ref, endpoint |-> endpoint, compatible |-> compatible]
Metabase(enabled, deployment, endpoint, appdb, sources) ==
    [enabled |-> enabled, deployment |-> deployment, endpoint |-> endpoint, appdb |-> appdb,
     sources |-> sources]
AllDirs == [t \in DOMAIN Layout!Parent |-> "dir"]
WithFile(t) == [u \in DOMAIN Layout!Parent |->
    IF u = t THEN "file" ELSE IF Layout!Parent[u] = t \/ t = "data" THEN "missing" ELSE "dir"]
Without(t) == [u \in DOMAIN Layout!Parent |->
    IF u = t \/ Layout!Parent[u] = t \/ t = "data" THEN "missing" ELSE "dir"]
Tools == {"project_maya", "reportlab", "pypdf", "markdown", "pillow", "pymupdf", "pdftoppm",
          "soffice", "java", "browser", "metabase.jar"}
Standard ==
    [fault |-> "none", edition |-> "standard", broker |-> "runtime", system |-> "Windows",
     profiles |-> Layout!Profiles \ {"browser", "local-models"}, available |-> Tools,
     google |-> Integration("broker", "secret"), slack |-> Integration("broker", "secret"),
     telegram |-> Absent, other |-> Absent,
     llm |-> Llm("maya_managed", "chosen", "secret", "none", FALSE),
     metabase |-> Metabase(TRUE, "managed_local", "loopback", "secret", 0),
     retriever |-> "local_vector", store |-> "ready", embedding |-> FALSE, policy |-> "allows",
     audit |-> "valid", secrets |-> "healthy", skill |-> "packaged", compatible |-> TRUE,
     root |-> TRUE, disk |-> "free", paths |-> AllDirs, update |-> "verified",
     rollback |-> "verified"]
Others ==
    [fault |-> {"schema", "no_core", "bind", "audit_off"}, edition |-> {"enterprise"},
     broker |-> {"disabled", "setup_only"}, system |-> {"Linux", "Other"},
     profiles |-> {{"core"}, Layout!Profiles, {"core", "browser"}, {"core", "local-models"}},
     available |-> {Tools \ {tool} : tool \in Tools \ {"project_maya"}},
     google |-> {Absent, Integration("customer_owned", "none"), Integration("disabled", "none")},
     slack |-> {Integration("customer_owned", "raw")},
     telegram |-> {Integration("broker", "secret"), Integration("customer_owned", "secret")},
     other |-> {Integration("local_only", "secret"), Integration("broker", "raw")},
     llm |-> {Llm("maya_managed", "placeholder", "none", "none", FALSE),
              Llm("customer_owned", "chosen", "none", "valid", FALSE),
              Llm("local", "chosen", "none", "valid", TRUE),
              Llm("local", "chosen", "none", "none", TRUE)},
     metabase |-> {Metabase(FALSE, "disabled", "none", "none", 0),
                   Metabase(TRUE, "disabled", "loopback", "secret", 1),
                   Metabase(TRUE, "customer_managed", "empty", "secret", 1),
                   Metabase(TRUE, "customer_managed", "invalid", "secret", 1)},
     retriever |-> {"local_json"}, store |-> {"missing", "corrupt", "unreadable"},
     embedding |-> {TRUE}, policy |-> {"missing", "denies", "invalid"},
     audit |-> {"missing", "torn"}, secrets |-> {"unavailable", "torn"},
     skill |-> {"unsanitized", "missing"}, compatible |-> {FALSE}, root |-> {FALSE},
     disk |-> {"full", "unknown"},
     paths |-> {Without("data"), Without("migrations")}
               \cup {WithFile(t) : t \in DOMAIN Layout!Parent},
     update |-> {"missing", "rejected", "unreadable"},
     rollback |-> {"missing", "rejected", "unreadable"}]

-----------------------------------------------------------------------------
(* Local API: a policy that allows all, and one with an earlier rule that   *)
(* forbids the model.                                                       *)
Allow(capability) == [capability |-> capability, decision |-> "allow"]
Deny(capability) == [capability |-> capability, decision |-> "deny"]
PolicySet == {<<Allow("*")>>, <<Deny("model.egress"), Allow("*")>>}

(* First run: one file stands for the release metadata; an import brings     *)
(* local memory with or without a reference and a model, or Enterprise.     *)
Imported ==
    {[edition |-> "standard", retriever |-> "local_vector", ref |-> r,
      model |-> IF r = NoRef THEN 0 ELSE 1] : r \in {r1, r2, NoRef}}
    \cup {[edition |-> "enterprise", retriever |-> "local_json", ref |-> NoRef, model |-> 1]}
ReleaseMetadata == <<"manifest">>

(* Documents: two sources, and the files named after their stems.           *)
StemTable == (note_docx :> note) @@ (plan_odt :> plan)

(* Migration: one legacy value is a vector.                                 *)
VectorTable == [k \in Keys |-> k = "k1"]

-----------------------------------------------------------------------------
(* The parts never meet: p1 and p2 are the launches, the requests or the    *)
(* document commands, and an exchange of the two references changes as      *)
(* little as one of the two sources together with their stems.              *)
Exchange == (r1 :> r2) @@ (r2 :> r1) @@ (note_docx :> plan_odt) @@ (plan_odt :> note_docx)
              @@ (note :> plan) @@ (plan :> note)

Symmetry == Permutations(Processes) \cup {Exchange}
=============================================================================
