--------------------------- MODULE PocVerification ---------------------------
(***************************************************************************)
(* The end-to-end verification of an installation: one script that walks   *)
(* through the product, over the HTTP API and over the workspace page in a  *)
(* remote browser, and writes a report only when no stage raised.  Every   *)
(* stage may raise; two stretches of the script sit in a try with a        *)
(* finally that gives back the sandbox session and the browser session.    *)
(*                                                                         *)
(* The installation has at most one defect, and a stage raises when the    *)
(* defect is among those it looks for.  The page is a program of its own:  *)
(* it starts on the run of the address, and may follow the run a message   *)
(* or a skill has started at any time afterwards.  What the script reads   *)
(* from it is about the run it shows at that moment.                       *)
(***************************************************************************)
EXTENDS Naturals

VARIABLES config,    \* what the operator asked for
          world,     \* the installation: a model or none, and its defect
          pc,        \* the stage the script is in
          error,     \* a stage has raised
          sandbox,   \* the sandbox session of the script
          browser,   \* the browser session of the script
          page,      \* the run the page shows
          shown,     \* what the stages on the page have found, until they return
          seen,      \* the fields of the result
          report     \* the report of the script

vars == <<config, world, pc, error, sandbox, browser, page, shown, seen, report>>

None == "none"
Runs == {"api", "sent", "skill"}   \* started over the API, by the page's composer, by a skill

BaseDefects ==
    {"sandbox_unconfigured", "no_limits", "page_contract", "script_contract",
     "raw_renderer", "tenant_unready", "login",
     "queued", "run_failed", "artifact_missing", "artifact_empty", "artifact_text",
     "cleanup_failed", "no_command", "raw_output", "no_output", "output_unresolved",
     "promoted_other", "event_order", "state_differs", "other_session", "trace_incomplete",
     "trace_raw", "command_fails", "output_lost", "screenshot", "survives_destroy",
     "scope_leak", "probe_deletes", "smoke_text"}
PageDefects ==
    {"page_bootstrap", "page_token", "page_login", "preflight", "page_answer"}
StrictPageDefects ==
    {"route", "summary", "page_events", "page_trace", "rating", "candidate", "eval_review",
     "missing_skill", "pack_candidate", "pack_review", "draft", "install", "skill_unready",
     "not_invoked", "skill_elsewhere", "skill_events", "history", "unpublished",
     "scopes_missing", "other_route", "runtime_hidden"}
Defects == {None, "open_controller"} \cup BaseDefects \cup PageDefects \cup StrictPageDefects

\* The stretch between the acknowledged opening of the browser session and its
\* finally
BrowserTry ==
    {"scope", "smoke", "latest", "workspace", "page_bootstrap", "page_login", "page_readiness",
     "submit", "evidence", "delivery", "terminal", "preview", "trace", "feedback", "candidate",
     "eval_review", "missing_skill", "pack_candidate", "pack_review", "draft", "install",
     "skill_ready", "invoke", "skill_run", "history", "select", "select_runtime", "select_chain",
     "select_output", "select_rating", "return", "reuse"}

Configs == [strict : BOOLEAN, key : BOOLEAN, web : BOOLEAN, url : BOOLEAN, api : BOOLEAN,
            submit : BOOLEAN, succeeded : BOOLEAN]

\* The configurations LocalCloudPocVerificationConfig accepts
ValidateUrls(c) ==
    /\ c.api => c.url
    /\ c.strict /\ c.url => c.api
    /\ c.submit => c.url /\ c.api
    /\ c.strict /\ c.url /\ c.succeeded => c.submit

\* The defaults of the stages on the page: a stage that is skipped leaves them
NothingShown ==
    [submit |-> FALSE, summary |-> FALSE, chain |-> None, terminal |-> None,
     preview |-> None, trace |-> FALSE, feedback |-> None, draft |-> FALSE,
     installed |-> FALSE, skillRun |-> None, selected |-> {}]

Init ==
    /\ config \in {c \in Configs : ValidateUrls(c)}
    /\ world \in [model : BOOLEAN, defect : Defects]
    /\ pc = "readyz" /\ error = FALSE
    /\ sandbox = "none" /\ browser = "none" /\ page = None
    /\ shown = NothingShown
    /\ seen = [web |-> FALSE, execute |-> 0, model |-> FALSE, output |-> FALSE,
               destroyed |-> FALSE, scope |-> FALSE, text |-> FALSE,
               workspace |-> NothingShown, reuse |-> FALSE]
    /\ report = "none"

-----------------------------------------------------------------------------
(* The control of the script *)

Without(ds) == world.defect \notin ds

\* A stage ends: what it found goes into the result
Pass(s, next, found) ==
    /\ pc = s
    /\ pc' = next
    /\ seen' = found
    /\ UNCHANGED <<config, world, error, sandbox, browser, shown, report>>

\* A stage on the page ends: what it found stays with the page's stages
PassPage(s, next, found) ==
    /\ pc = s
    /\ pc' = next
    /\ shown' = found
    /\ UNCHANGED <<config, world, error, sandbox, browser, seen, report>>

\* Mutant: the finally covers only the stages before the workspace page.
MutRaise ==
    /\ pc \notin {"done", "failed", "report", "destroy_sandbox", "delete", "sandbox", "open"}
    /\ error' = TRUE
    /\ pc' = CASE pc \in {"command", "screenshot"} -> "destroy_sandbox"
               [] pc \in {"scope", "smoke", "latest"} -> "delete"
               [] OTHER -> "failed"
    /\ UNCHANGED <<config, world, sandbox, browser, page, shown, seen, report>>

\* assert_status, RuntimeError, a lost connection: the stage raises, and the
\* finally of the stretch it is in runs first
Raise ==
    /\ pc \notin {"done", "failed", "report", "destroy_sandbox", "delete", "sandbox", "open"}
    /\ error' = TRUE
    /\ pc' = CASE pc \in {"command", "screenshot"} -> "destroy_sandbox"
               [] pc \in BrowserTry -> "delete"
               [] OTHER -> "failed"
    /\ UNCHANGED <<config, world, sandbox, browser, page, shown, seen, report>>

-----------------------------------------------------------------------------
(* Services, tenant and run *)

\* /healthz and /readyz of the API: a strict run needs a configured model
Readyz ==
    /\ Without({"sandbox_unconfigured"})
    /\ config.strict => world.model
    /\ Pass("readyz", "auth", seen) /\ UNCHANGED page

\* Only a configured key makes the script ask without one
InspectAuthChallenge ==
    /\ config.key => Without({"open_controller"})
    /\ Pass("auth", "capabilities", seen) /\ UNCHANGED page

VerifyCapabilities ==
    /\ Without({"no_limits"})
    /\ Pass("capabilities", "web", seen) /\ UNCHANGED page

\* The page has every element the later stages read or click; skipped without
\* the page's address
VerifyWebPage ==
    /\ config.web => Without({"page_contract"})
    /\ Pass("web", IF config.web THEN "web_script" ELSE "bootstrap", seen)
    /\ UNCHANGED page

\* Its script, a request of its own, holds what drives the page and none of the
\* renderers that would show raw output
VerifyWebScript ==
    /\ Without({"script_contract", "raw_renderer"})
    /\ Pass("web_script", "bootstrap", [seen EXCEPT !.web = TRUE]) /\ UNCHANGED page

BootstrapTenant ==
    /\ Without({"tenant_unready"})
    /\ Pass("bootstrap", "login", seen) /\ UNCHANGED page

\* A strict run with the page registers the pack its draft will extend
Login ==
    /\ Without({"login"})
    /\ Pass("login", IF config.strict /\ config.url THEN "pack" ELSE "execute", seen)
    /\ UNCHANGED page

EnsureSolutionPack == Pass("pack", "execute", seen) /\ UNCHANGED page

\* create_run and execute_run: 200, 202 when the run was queued, and the
\* refusal a gateway without a model must give
ExecuteRun ==
    /\ ~world.model => ~config.strict
    /\ Pass("execute", "model",
            [seen EXCEPT !.execute = CASE ~world.model -> 503
                                       [] world.defect = "queued" -> 202
                                       [] OTHER -> 200])
    /\ UNCHANGED page

WaitForRunSuccess == Without({"run_failed"})

ArtifactsDownloaded == Without({"artifact_missing", "artifact_empty", "artifact_text"})

\* Mutant: the clean-up events of the run are not looked at.
MutEventsSound == Without({"no_command", "raw_output", "output_unresolved", "promoted_other"})

\* The cleanup left nothing, the command ran and the artifact was promoted from
\* it, no payload holds raw output
EventsSound ==
    Without({"cleanup_failed", "no_command", "raw_output", "output_unresolved",
             "promoted_other"})

EventOrderClosed == Without({"event_order"})

RuntimeStateAgrees == Without({"state_differs"})

SessionsMatch == Without({"other_session"})

TraceComplete == Without({"trace_incomplete", "trace_raw"})

\* Skipped without a model.  The command's output may be without an address.
VerifyModelExecution ==
    /\ world.model => WaitForRunSuccess /\ ArtifactsDownloaded /\ EventsSound
    /\ Pass("model", IF world.model THEN "model_state" ELSE "sandbox", seen)
    /\ UNCHANGED page

\* The order of the events, the run's state and its trace; only then does the
\* stage return what it has found
VerifyModelState ==
    /\ EventOrderClosed /\ RuntimeStateAgrees /\ SessionsMatch /\ TraceComplete
    /\ Pass("model_state", "sandbox",
            [seen EXCEPT !.model = TRUE, !.output = Without({"no_output"})])
    /\ UNCHANGED page

-----------------------------------------------------------------------------
(* The sandbox session *)

\* The session's id is known once the 201 is read: a creation whose answer is
\* lost, or that is answered with an error, is not cleaned up
CreateSandbox ==
    /\ pc = "sandbox"
    /\ \/ sandbox' = "open" /\ pc' = "command" /\ UNCHANGED error
       \/ sandbox' \in {"none", "lost"} /\ pc' = "failed" /\ error' = TRUE
    /\ UNCHANGED <<config, world, browser, page, shown, seen, report>>

SandboxCommand ==
    /\ Without({"command_fails", "output_lost"})
    /\ Pass("command", "screenshot", seen) /\ UNCHANGED page

ApiBrowserScreenshot ==
    /\ Without({"screenshot"})
    /\ Pass("screenshot", "destroy_sandbox", seen) /\ UNCHANGED page

\* The finally of verify_sandbox: DELETE, the status confirmed, the session
\* probed with a command that must be refused
DestroySandbox ==
    /\ pc = "destroy_sandbox"
    /\ \/ /\ Without({"survives_destroy"})
          /\ sandbox' = "deleted"
          /\ error' = error
          /\ pc' = IF error THEN "failed" ELSE "open"
          /\ seen' = [seen EXCEPT !.destroyed = TRUE]
       \/ /\ sandbox' \in {"deleted", "kept"}   \* the DELETE or the probe failed
          /\ error' = TRUE
          /\ pc' = "failed"
          /\ UNCHANGED seen
    /\ UNCHANGED <<config, world, browser, page, shown, report>>

-----------------------------------------------------------------------------
(* The browser session *)

OpenBrowserSession ==
    /\ pc = "open"
    /\ \/ browser' = "open" /\ pc' = "scope" /\ UNCHANGED error
       \/ browser' \in {"none", "lost"} /\ pc' = "failed" /\ error' = TRUE
    /\ UNCHANGED <<config, world, sandbox, page, shown, seen, report>>

\* The session is listed for its tenant only; reading and deleting it with
\* another workspace and run is refused and leaves it alone
VerifyBrowserSessionScope ==
    /\ Without({"scope_leak", "probe_deletes"})
    /\ Pass("scope", "smoke", [seen EXCEPT !.scope = TRUE]) /\ UNCHANGED page

VerifyBrowser ==
    /\ Without({"smoke_text"})
    /\ Pass("smoke", IF config.strict THEN "latest" ELSE "workspace",
            [seen EXCEPT !.text = TRUE])
    /\ UNCHANGED page

\* A strict run reads the events and the trace again, the sandbox stage has
\* added to them
LatestEvidence ==
    /\ TraceComplete
    /\ Pass("latest", "workspace", seen) /\ UNCHANGED page

\* Nothing without an address; the page opens on the run of the API
OpenWorkspace ==
    /\ PassPage("workspace", IF config.api THEN "page_bootstrap" ELSE "return", NothingShown)
    /\ page' = IF config.url THEN "api" ELSE None

PageBootstrap ==
    /\ Without({"page_bootstrap", "page_token"})
    /\ PassPage("page_bootstrap", "page_login", shown) /\ UNCHANGED page

PageLogin ==
    /\ Without({"page_login"})
    /\ PassPage("page_login", "page_readiness", shown) /\ UNCHANGED page

\* Only a strict run insists on a ready model and sandbox
PageReadiness ==
    /\ config.strict => Without({"preflight"})
    /\ PassPage("page_readiness", IF config.submit THEN "submit" ELSE "return", shown)
    /\ UNCHANGED page

PageSubmit ==
    /\ Without({"page_answer"})
    /\ PassPage("submit", "evidence", [shown EXCEPT !.submit = TRUE]) /\ UNCHANGED page

\* The page follows the run a message or a skill has started
Follow ==
    /\ pc \in BrowserTry /\ page # None
    /\ \/ shown.submit /\ page = "api" /\ page' = "sent"
       \/ shown.installed /\ page # "skill" /\ page' = "skill"
    /\ UNCHANGED <<config, world, pc, error, sandbox, browser, shown, seen, report>>

ExecutionModelRoute == Without({"route"})

\* A strict run wants the route of the API and the proven summary; the others
\* report what is shown and stop here
EvidenceSummary ==
    /\ config.strict => ExecutionModelRoute /\ Without({"summary"})
    /\ PassPage("evidence", IF config.strict THEN "delivery" ELSE "return",
                [shown EXCEPT !.summary = Without({"summary"})])
    /\ UNCHANGED page

\* The event count, range and closure are those of the events read just before
EventIntegrity == Without({"page_events"})

\* The run, session and storage objects of the page's chain are compared with
\* the API's
DeliveryChain(expected) == page = expected

PageDelivery ==
    /\ DeliveryChain("api") /\ EventIntegrity
    /\ PassPage("delivery", "terminal", [shown EXCEPT !.chain = page]) /\ UNCHANGED page

\* Compared only when the API had an address and a storage object for them
TerminalOutput(expected) == seen.output => page = expected

PageTerminal ==
    /\ TerminalOutput("api")
    /\ PassPage("terminal", "preview", [shown EXCEPT !.terminal = page]) /\ UNCHANGED page

\* The storage object behind the preview, and the downloaded one
ArtifactShown(expected) == page = expected

PagePreview ==
    /\ ArtifactShown("api")
    /\ PassPage("preview", "trace", [shown EXCEPT !.preview = page]) /\ UNCHANGED page

\* The counts are those of the trace read after the download
PageTrace ==
    /\ TraceComplete /\ Without({"page_trace"})
    /\ PassPage("trace", "feedback", [shown EXCEPT !.trace = TRUE]) /\ UNCHANGED page

\* Mutant: that the page says "Feedback recorded" is enough.
MutRunFeedback(expected) == page \in Runs /\ Without({"rating"})

\* The click rates the run the page shows; the API must hold the rating of the
\* expected run
RunFeedback(expected) == page = expected /\ Without({"rating"})

PageFeedback ==
    /\ RunFeedback("api")
    /\ PassPage("feedback", "candidate", [shown EXCEPT !.feedback = page]) /\ UNCHANGED page

-----------------------------------------------------------------------------
(* From the rating to a reusable skill, each step confirmed over the API *)

CandidateGeneration ==
    /\ Without({"candidate"})
    /\ PassPage("candidate", "eval_review", shown) /\ UNCHANGED page

EvalCandidateReview ==
    /\ Without({"eval_review"})
    /\ PassPage("eval_review", "missing_skill", shown) /\ UNCHANGED page

MissingSkillFeedback ==
    /\ Without({"missing_skill"})
    /\ PassPage("missing_skill", "pack_candidate", shown) /\ UNCHANGED page

PackCandidateGeneration ==
    /\ Without({"pack_candidate"})
    /\ PassPage("pack_candidate", "pack_review", shown) /\ UNCHANGED page

PackCandidateReview ==
    /\ Without({"pack_review"})
    /\ PassPage("pack_review", "draft", shown) /\ UNCHANGED page

\* Save, submit, approve, apply; the API shows the accepted candidate's draft
\* applied
DraftLifecycle ==
    /\ Without({"draft"})
    /\ PassPage("draft", "install", [shown EXCEPT !.draft = TRUE]) /\ UNCHANGED page

PackInstall ==
    /\ Without({"install"})
    /\ PassPage("install", "skill_ready", [shown EXCEPT !.installed = TRUE])
    /\ UNCHANGED page

SkillReady ==
    /\ Without({"skill_unready"})
    /\ PassPage("skill_ready", "invoke", shown) /\ UNCHANGED page

SkillInvoke ==
    /\ Without({"not_invoked"})
    /\ PassPage("invoke", "skill_run", shown) /\ UNCHANGED page

InspectRunWorkspace == Without({"skill_elsewhere"})

\* The run the page names succeeded, in this workspace, of this skill, with
\* its artifact, events, output, state and trace
SkillRunArtifact ==
    /\ InspectRunWorkspace
    /\ Without({"skill_events"}) /\ TraceComplete
    /\ PassPage("skill_run", "history", [shown EXCEPT !.skillRun = "skill"])
    /\ UNCHANGED page

\* A history that is not empty is taken for one that holds the run
RunHistory ==
    /\ Without({"history"})
    /\ PassPage("history", "select", shown) /\ UNCHANGED page

\* A click on the run in the history.  "Loaded" may still be the trace of the
\* run shown before.
SelectFromHistory ==
    /\ PassPage("select", "select_runtime", shown)
    /\ page' \in {page, shown.skillRun}

\* The state, the model's route and the sandbox session the page shows for the
\* run: the session is compared with the one of the skill's run
SelectedRuntime ==
    /\ Without({"other_route", "runtime_hidden"})
    /\ page = shown.skillRun
    /\ PassPage("select_runtime", "select_chain", [shown EXCEPT !.selected = {page}])
    /\ UNCHANGED page

\* The chain of the run, and its events read again
SelectedChain ==
    /\ DeliveryChain(shown.skillRun) /\ EventIntegrity
    /\ PassPage("select_chain", "select_output", [shown EXCEPT !.selected = @ \cup {page}])
    /\ UNCHANGED page

\* The terminal's output and the download, which a skill's run always has
SelectedOutput ==
    /\ ArtifactShown(shown.skillRun)
    /\ PassPage("select_output", "select_rating", [shown EXCEPT !.selected = @ \cup {page}])
    /\ UNCHANGED page

\* The rating of the run and the preview the click has brought
SelectedRating ==
    /\ RunFeedback(shown.skillRun) /\ ArtifactShown(shown.skillRun)
    /\ PassPage("select_rating", "return", [shown EXCEPT !.selected = @ \cup {page}])
    /\ UNCHANGED page

\* What the stages on the page return; a stage that raises returns nothing
WorkspaceResult == shown

ReturnWorkspace ==
    /\ Pass("return", IF shown.draft THEN "reuse" ELSE "delete",
            [seen EXCEPT !.workspace = WorkspaceResult])
    /\ UNCHANGED page

\* The applied version is published, installed and listed; whether the skill is
\* ready to be invoked is only reported
SolutionPackReuse ==
    /\ Without({"unpublished"})
    /\ Pass("reuse", "delete", [seen EXCEPT !.reuse = Without({"scopes_missing"})])
    /\ UNCHANGED page

\* Mutant: a deletion that fails is tolerated.
MutDeleteBrowserSession ==
    /\ pc = "delete"
    /\ browser' \in {"deleted", "kept"}
    /\ pc' = IF error THEN "failed" ELSE "report"
    /\ page' = None
    /\ UNCHANGED <<config, world, error, sandbox, shown, seen, report>>

\* The finally around the browser stages: DELETE, the answer names the session,
\* reading it again is a 404
DeleteBrowserSession ==
    /\ pc = "delete"
    /\ \/ /\ browser' = "deleted"
          /\ error' = error
          /\ pc' = IF error THEN "failed" ELSE "report"
       \/ /\ browser' \in {"deleted", "kept"}
          /\ error' = TRUE
          /\ pc' = "failed"
    /\ page' = None
    /\ UNCHANGED <<config, world, sandbox, shown, seen, report>>

-----------------------------------------------------------------------------
(* The report *)

\* The fields the report is made of; without a model the run's fields keep
\* their defaults
Result == [seen EXCEPT !.output = @ /\ seen.model]

LocalSmokeReady(r) == r.web /\ r.destroyed /\ r.scope /\ r.text

StrictModelReady(r) == r.execute = 200 /\ r.model /\ r.output

WorkspaceExecutionReady(w) ==
    /\ w.submit /\ w.summary /\ w.trace
    /\ None \notin {w.chain, w.terminal, w.preview, w.feedback}

SkillReuseReady(r) ==
    /\ r.workspace.installed
    /\ r.workspace.skillRun # None /\ r.workspace.selected # {}
    /\ r.reuse

DemoReady(r) ==
    /\ LocalSmokeReady(r)
    /\ StrictModelReady(r)
    /\ r.workspace.submit => WorkspaceExecutionReady(r.workspace)
    /\ (r.workspace.draft \/ r.workspace.skillRun # None) => SkillReuseReady(r)

WriteReport ==
    /\ pc = "report"
    /\ report' = IF DemoReady(Result) THEN "demo_ready" ELSE "not_ready"
    /\ pc' = "done"
    /\ UNCHANGED <<config, world, error, sandbox, browser, page, shown, seen>>

Next ==
    \/ Readyz \/ InspectAuthChallenge \/ VerifyCapabilities \/ VerifyWebPage
    \/ VerifyWebScript \/ BootstrapTenant
    \/ Login \/ EnsureSolutionPack \/ ExecuteRun \/ VerifyModelExecution
    \/ VerifyModelState
    \/ CreateSandbox \/ SandboxCommand \/ ApiBrowserScreenshot \/ DestroySandbox
    \/ OpenBrowserSession \/ VerifyBrowserSessionScope \/ VerifyBrowser \/ LatestEvidence
    \/ OpenWorkspace \/ PageBootstrap \/ PageLogin \/ PageReadiness \/ PageSubmit \/ Follow
    \/ EvidenceSummary \/ PageDelivery \/ PageTerminal \/ PagePreview \/ PageTrace
    \/ PageFeedback \/ CandidateGeneration \/ EvalCandidateReview \/ MissingSkillFeedback
    \/ PackCandidateGeneration \/ PackCandidateReview \/ DraftLifecycle \/ PackInstall
    \/ SkillReady \/ SkillInvoke \/ SkillRunArtifact \/ RunHistory \/ SelectFromHistory
    \/ SelectedRuntime \/ SelectedChain \/ SelectedOutput \/ SelectedRating
    \/ ReturnWorkspace \/ SolutionPackReuse \/ DeleteBrowserSession \/ WriteReport \/ Raise

Spec == Init /\ [][Next]_vars

-----------------------------------------------------------------------------
(* Properties *)

\* Whatever stage raises, a session whose creation the script has read is
\* deleted, or its deletion was tried and failed, before the script ends: the
\* finally blocks of verify_sandbox and verify_local_cloud_poc.
NoSessionForgotten == pc \in {"done", "failed"} => "open" \notin {sandbox, browser}

\* A report is written only when no stage raised and both sessions are gone:
\* a verification that leaves a session behind is no evidence.
ReportLeavesNothing ==
    report # "none" => ~error /\ sandbox = "deleted" /\ browser = "deleted"

\* "demo_ready" of a script that sent a message through the page is about one
\* run: the chain, the command's output, the previewed and downloaded artifact
\* and the rating are those of the run verified over the API, although the
\* page may move to another run between any two of these stages.  Likewise
\* everything read after the selection in the history is the skill's run.
ReadyIsOneRun ==
    report = "demo_ready" /\ config.submit =>
        LET w == seen.workspace
        IN /\ {w.chain, w.terminal, w.preview, w.feedback} = {"api"}
           /\ w.skillRun # None => w.selected = {w.skillRun}

\* "demo_ready" stands for an installation with a model and without any of the
\* defects the configuration has asked the script to look for.  In particular a
\* run that only was queued, a strict run with the page that skips the skill,
\* or a report without the page's contract is not ready.
ReadyIsSound ==
    report = "demo_ready" =>
        /\ world.model
        /\ Without(BaseDefects)
        /\ config.api => Without(PageDefects \ {"preflight", "page_answer"})
        /\ config.submit => Without(PageDefects \cup StrictPageDefects)
        /\ config.key => Without({"open_controller"})
=============================================================================
