-------------------------- MODULE InstallValidation --------------------------
(***************************************************************************)
(* The acceptance of an installation: seventeen checks over the state of   *)
(* the deployment and over the evidence files the operator collected, and  *)
(* the report drawn from them.  The checks are a function of the input;    *)
(* the behaviours walk over the inputs, one correction (or one regression) *)
(* of the operator at a time, from an installation with everything in      *)
(* order and from one with no evidence at all.                             *)
(*                                                                         *)
(* An evidence file is absent, unreadable (or of another schema), bad (one *)
(* of the facts its check asks for is missing) or good.                    *)
(***************************************************************************)
EXTENDS Naturals, FiniteSets

CONSTANT MaxChanges   \* bound of the changes away from a baseline

VARIABLES input, changes

vars == <<input, changes>>

CustomerOperated == {"private", "air_gapped", "production"}
ReleaseAcceptance == CustomerOperated \cup {"cloud"}
Modes == ReleaseAcceptance \cup {"local"}

Gates == {"demo", "workspace", "reuse", "browser", "sandbox"}

Files == {"migration", "redis", "storage", "secret", "model", "sandbox", "kubernetes",
          "browser", "event", "audit", "trace", "support", "restore", "loop", "transfer"}

\* What can be found in each place; a set of gates is what a run of the
\* closed-loop verification asked for or reached.
Options ==
    [f \in Files |->
        {"absent", "unreadable", "bad", "good"}
        \cup (CASE f = "redis" -> {"worker_bad"} [] f = "transfer" -> {"elsewhere"}
                [] OTHER -> {})]
Facts ==
    [package |-> {"none", "invalid", "valid"},
     api |-> {"down", "unhealthy", "unready", "ok"},
     model |-> {"missing", "configured"}, modelMatches |-> BOOLEAN,
     sandboxReady |-> {"missing", "unchecked", "incapable", "configured"},
     sandboxReports |-> {"docker", "e2b", "kubernetes"},
     sandboxProven |-> {"docker", "e2b", "kubernetes"},
     browserReady |-> {"unreported", "disabled", "missing", "unchecked", "incapable", "configured"},
     browserUp |-> BOOLEAN, browserMatches |-> BOOLEAN,
     defaultKey |-> {"none", "sandbox", "browser"},
     web |-> {"none", "down", "bad", "ok"},
     eventRun |-> 0..2, auditRun |-> 0..2, sourceRun |-> 0..2,
     loopAsked |-> {Gates, Gates \ {"sandbox"}, {"demo"}},
     loopReached |-> {Gates, Gates \ {"reuse"}, Gates \ {"sandbox"}},
     source |-> {"missing", "unparsable", "present"},
     sourceReached |-> {Gates, Gates \ {"reuse"}, Gates \ {"sandbox"}}]

InOrder(mode) ==
    [mode |-> mode, file |-> [f \in Files |-> "good"],
     package |-> "valid", api |-> "ok", model |-> "configured", modelMatches |-> TRUE,
     sandboxReady |-> "configured", sandboxReports |-> "kubernetes",
     sandboxProven |-> "kubernetes", browserReady |-> "configured", browserUp |-> TRUE,
     browserMatches |-> TRUE, defaultKey |-> "none", web |-> "ok",
     eventRun |-> 1, auditRun |-> 1, sourceRun |-> 1,
     loopAsked |-> Gates, loopReached |-> Gates, source |-> "present",
     sourceReached |-> Gates]

NothingCollected(mode) ==
    [InOrder(mode) EXCEPT !.file = [f \in Files |-> "absent"], !.package = "none",
                          !.web = "none"]

Init ==
    /\ input \in {InOrder(m) : m \in Modes} \cup {NothingCollected(m) : m \in Modes}
    /\ changes = 0

-----------------------------------------------------------------------------
(* Which evidence a mode asks for *)

ReleaseAcceptanceRequired == input.mode \in ReleaseAcceptance
CustomerOperatedRequired == input.mode \in CustomerOperated

\* readiness_body of check_api_health: empty unless /readyz answered 2xx
ReadinessRead == input.api \in {"unhealthy", "ok"}

\* Mutant: the modes of the customer's own operation only.
MutModelGatewayEvidenceRequired == CustomerOperatedRequired /\ input.model = "configured"

ModelGatewayEvidenceRequired == ReleaseAcceptanceRequired /\ input.model = "configured"

SandboxLifecycleEvidenceRequired ==
    ReleaseAcceptanceRequired /\ input.sandboxReady = "configured"

BrowserLifecycleEvidenceRequired ==
    ReleaseAcceptanceRequired /\ ReadinessRead /\ input.browserReady = "configured"

-----------------------------------------------------------------------------
(* The checks *)

Passes(ok) == IF ok THEN "passed" ELSE "failed"

\* The shape most checks have: no file is a failure where the mode asks for
\* one and a skip elsewhere, and a file counts when every fact in it does.
Judge(file, required, sound) ==
    CASE input.file[file] = "absent" -> IF required THEN "failed" ELSE "skipped"
      [] input.file[file] = "unreadable" -> "failed"
      [] OTHER -> Passes(sound)

Good(file) == input.file[file] = "good"

\* check_release_package_integrity: the transfer evidence may stand for the
\* path of the package; the package itself is verified in any case.
CheckReleasePackageIntegrity ==
    IF input.file["transfer"] \in {"unreadable", "bad"} THEN "failed"
    ELSE IF input.package = "none" /\ input.file["transfer"] = "absent"
    THEN IF ReleaseAcceptanceRequired THEN "failed" ELSE "skipped"
    ELSE Passes(input.package # "invalid" /\ input.file["transfer"] # "elsewhere")

CheckDatabaseMigrationPlan == Judge("migration", ReleaseAcceptanceRequired, Good("migration"))
CheckObjectStorage == Judge("storage", ReleaseAcceptanceRequired, Good("storage"))
CheckSecretManager == Judge("secret", ReleaseAcceptanceRequired, Good("secret"))
CheckTraceCollector == Judge("trace", ReleaseAcceptanceRequired, Good("trace"))
CheckSupportBundleRedaction == Judge("support", CustomerOperatedRequired, Good("support"))

\* Mutant: a result that can be read is taken for one that is ready.
MutCheckRestoreDrill == Judge("restore", ReleaseAcceptanceRequired, TRUE)

CheckRestoreDrill == Judge("restore", ReleaseAcceptanceRequired, Good("restore"))

\* One result, two checks: connectivity and the queue's life cycle.
CheckRedisConnectivity ==
    Judge("redis", ReleaseAcceptanceRequired, input.file["redis"] # "bad")
CheckWorkerQueue == Judge("redis", ReleaseAcceptanceRequired, Good("redis"))

CheckEventStream ==
    Judge("event", ReleaseAcceptanceRequired, Good("event") /\ input.eventRun # 0)

\* The run of another piece of evidence, when both can be read and name one.
SameRun(run, file, other) ==
    input.file[file] \in {"absent", "unreadable"} \/ run = 0 \/ other = 0 \/ run = other

CheckAuditWrite ==
    Judge("audit", ReleaseAcceptanceRequired,
          Good("audit") /\ input.auditRun # 0
          /\ SameRun(input.auditRun, "event", input.eventRun))

CheckApiHealth == Passes(input.api = "ok")

CheckModelGateway ==
    IF ~ReadinessRead \/ input.model # "configured" THEN "failed"
    ELSE Judge("model", ModelGatewayEvidenceRequired, Good("model") /\ input.modelMatches)

\* Mutant: the provider of the evidence is not compared with the deployment's.
MutEnterpriseProvider ==
    CustomerOperatedRequired =>
        /\ ~(input.mode = "air_gapped" /\ input.sandboxProven = "e2b")
        /\ input.sandboxProven \in {"kubernetes", "e2b"}

\* sandbox_enterprise_provider_evidence_details
EnterpriseProvider ==
    CustomerOperatedRequired =>
        /\ input.sandboxReports = input.sandboxProven
        /\ ~(input.mode = "air_gapped" /\ input.sandboxProven = "e2b")
        /\ input.sandboxProven \in {"kubernetes", "e2b"}

\* kubernetes_sandbox_provider_evidence_details, asked for when the deployment
\* says its sandboxes are pods.
KubernetesEvidence == input.sandboxReports = "kubernetes" => Good("kubernetes")

DefaultOperatorToken(name) == CustomerOperatedRequired /\ input.defaultKey = name

CheckSandbox ==
    IF ~ReadinessRead \/ input.sandboxReady # "configured"
       \/ DefaultOperatorToken("sandbox")
    THEN "failed"
    ELSE Judge("sandbox", SandboxLifecycleEvidenceRequired,
               Good("sandbox") /\ EnterpriseProvider /\ KubernetesEvidence)

CheckBrowserController ==
    LET reported == ReadinessRead /\ input.browserReady # "unreported" IN
    CASE ~reported /\ ReleaseAcceptanceRequired -> "failed"
      [] reported /\ input.browserReady = "disabled" -> "skipped"
      [] reported /\ input.browserReady # "configured" -> "failed"
      [] DefaultOperatorToken("browser") \/ ~input.browserUp -> "failed"
      [] OTHER -> Judge("browser", BrowserLifecycleEvidenceRequired,
                        Good("browser") /\ (reported => input.browserMatches))

CheckWebWorkspace ==
    IF input.web = "none" THEN "skipped" ELSE Passes(input.web = "ok")

-----------------------------------------------------------------------------
(* The closed loop: a gate report and the verification result it was drawn from *)

\* run_demo_readiness_gate
GateReport(asked, reached) ==
    [passed |-> asked \subseteq reached, asked |-> asked, results |-> reached]

\* runtime_closed_loop_required_gates
RequiredGates ==
    IF CustomerOperatedRequired THEN Gates ELSE Gates \ {"sandbox"}

\* Mutant: the run of the source is not compared with the other evidence.
MutSourceContext == input.sourceRun # 0

\* runtime_closed_loop_source_context_failure_details
SourceContext ==
    /\ input.sourceRun # 0
    /\ SameRun(input.sourceRun, "event", input.eventRun)
    /\ SameRun(input.sourceRun, "audit", input.auditRun)

\* Mutant: the report is believed without drawing it again from its source.
MutSourceResult == input.source = "present" /\ SourceContext

\* runtime_closed_loop_source_result_failure_details draws the report again.
SourceResult ==
    /\ input.source = "present"
    /\ SourceContext
    /\ GateReport(input.loopAsked, input.loopReached)
         = GateReport(input.loopAsked, input.sourceReached)

\* check_runtime_closed_loop_evidence_result
CheckRuntimeClosedLoop ==
    LET report == GateReport(input.loopAsked, input.loopReached) IN
    Judge("loop", ReleaseAcceptanceRequired,
          /\ Good("loop") /\ report.passed
          /\ RequiredGates \subseteq report.asked
          /\ RequiredGates \subseteq report.results
          /\ SourceResult)

-----------------------------------------------------------------------------
(* run_install_validation and the status of its report *)

Checks ==
    [release |-> CheckReleasePackageIntegrity, migration |-> CheckDatabaseMigrationPlan,
     redis |-> CheckRedisConnectivity, storage |-> CheckObjectStorage,
     secret |-> CheckSecretManager, model |-> CheckModelGateway, sandbox |-> CheckSandbox,
     browser |-> CheckBrowserController, web |-> CheckWebWorkspace, api |-> CheckApiHealth,
     event |-> CheckEventStream, queue |-> CheckWorkerQueue, audit |-> CheckAuditWrite,
     trace |-> CheckTraceCollector, support |-> CheckSupportBundleRedaction,
     restore |-> CheckRestoreDrill, loop |-> CheckRuntimeClosedLoop]

\* validate_report_contract
Status ==
    LET outcomes == {Checks[c] : c \in DOMAIN Checks} IN
    CASE "failed" \in outcomes -> "failed"
      [] "skipped" \in outcomes -> "skipped"
      [] OTHER -> "passed"

-----------------------------------------------------------------------------

ChangeFile(f, value) ==
    /\ value # input.file[f]
    /\ input' = [input EXCEPT !.file[f] = value]

ChangeFact(f, value) ==
    /\ value # input[f]
    /\ input' = [input EXCEPT ![f] = value]

Next ==
    /\ changes < MaxChanges /\ changes' = changes + 1
    /\ \/ \E f \in Files : \E value \in Options[f] : ChangeFile(f, value)
       \/ \E f \in DOMAIN Facts : \E value \in Facts[f] : ChangeFact(f, value)

Spec == Init /\ [][Next]_vars

-----------------------------------------------------------------------------
(* Properties *)

\* A report that is ready stands on sound evidence for every dependency, in
\* every mode: nothing absent, unreadable or bad was passed over
\* (run_install_validation, InstallValidationReport.is_ready).
ReadyIsVerified ==
    Status = "passed" =>
        /\ \A f \in Files \ {"kubernetes", "transfer"} : input.file[f] = "good"
        /\ input.api = "ok" /\ input.web = "ok" /\ input.browserUp
        /\ input.model = "configured" /\ input.sandboxReady = "configured"
        /\ input.package # "invalid"

\* Where an installation is accepted for release no check is skipped for want
\* of evidence: only a web workspace whose address is not given and a browser
\* that is switched off are left out; without the customer's operation the
\* redaction of support bundles too.
NoSilentSkip ==
    input.mode \in ReleaseAcceptance =>
        \A c \in DOMAIN Checks : Checks[c] = "skipped" =>
            \/ c = "web" /\ input.web = "none"
            \/ c = "browser" /\ input.browserReady = "disabled"
            \/ c = "support" /\ input.mode = "cloud"

\* The event stream, the audit trail and the closed loop that a ready report
\* rests on are of one and the same run.
OneRunBehindEvidence ==
    Status = "passed" =>
        input.eventRun # 0 /\ input.eventRun = input.auditRun
        /\ input.auditRun = input.sourceRun

\* A closed-loop report that passes still agrees with the verification result
\* it was drawn from: the gates the mode asks for are reached in that result as
\* it is now, whatever happened to the file since.
GatesStillReached ==
    CheckRuntimeClosedLoop = "passed" =>
        input.source = "present" /\ RequiredGates \subseteq input.sourceReached

\* Where the customer operates the installation, a ready report proves the
\* sandbox provider that is deployed: of an enterprise kind, not e2b behind an
\* air gap, and with the evidence of its pods when it is Kubernetes.
SandboxProven ==
    Status = "passed" /\ input.mode \in CustomerOperated =>
        /\ input.sandboxReports \in {"kubernetes", "e2b"}
        /\ input.mode = "air_gapped" => input.sandboxReports = "kubernetes"
        /\ input.sandboxReports = "kubernetes" => input.file["kubernetes"] = "good"

=============================================================================
