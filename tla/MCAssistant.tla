---------------------------- MODULE MCAssistant -----------------------------
(***************************************************************************)
(* What the assistant is built from: its decisions and the guardrails      *)
(* around them, skills and the feedback on them, memory, connectors, knowledge, triggers, browser profiles, the *)
(* registry of agents with its evaluations, engines and coding workspaces. *)
(* A behaviour belongs to one component, named by part and chosen at the   *)
(* start; s1, s2, ... are that component's variables in the order it declares*)
(* them, and the ones it does not need stay 0.                             *)
(***************************************************************************)
EXTENDS Naturals, Sequences, TLC

CONSTANTS p1, p2   \* two requests or workers that are alike

\* What a case of an evaluation may show, and the limits of the gate.
Sound == [score |-> 2, effects |-> {}, error |-> FALSE,
          calls |-> 2, errors |-> 0, human |-> 0, time |-> 2, cost |-> 1]

Observed == {Sound, [Sound EXCEPT !.score = 1], [Sound EXCEPT !.score = 0],
             [Sound EXCEPT !.error = TRUE, !.calls = 0], [Sound EXCEPT !.cost = 2],
             [Sound EXCEPT !.effects = {"w"}], [Sound EXCEPT !.errors = 1],
             [Sound EXCEPT !.human = 1], [Sound EXCEPT !.time = 1], [Sound EXCEPT !.time = 3]}

GateLimits ==
    [minimumScore |-> 60, minimumSuccess |-> 50, maximumErrors |-> 25,
     maximumHuman |-> 50, maximumP95 |-> 3, scoreDrop |-> 20, successDrop |-> 10,
     errorRise |-> 10, humanRise |-> 10, latencyRise |-> 20, costRise |-> 10]

VARIABLES part, s1, s2, s3, s4, s5, s6, s7, s8, s9, s10, s11, s12, s13

vars == <<part, s1, s2, s3, s4, s5, s6, s7, s8, s9, s10, s11, s12, s13>>

Symmetry == Permutations({p1, p2})

\* What calls have in common that the controller compares: a and b are alike.
Signatures == [a |-> 1, b |-> 1, c |-> 2, d |-> 3, r |-> 4, f |-> 5, g |-> 6,
               s |-> 7, t |-> 8]

\* Two tool calls, one of them a command; a call may fail in two ways, a command by
\* its exit status too; one death.
Agent == INSTANCE NextDecision WITH acts <- s1, mem <- s2, saved <- s3, pc <- s4,
    reply <- s5, asked <- s6, died <- s7, Mode <- "agent",
    Calls <- {"a", "c"}, Signature <- Signatures, Drafts <- {}, Renders <- {},
    Commands <- {"c"}, Saves <- {}, Fetches <- {}, Plan <- <<>>, Errors <- {"x", "y", "e"},
    Transient <- {}, Exits <- {"e"}, MaxRetries <- 0, MaxActions <- 3, MaxTrouble <- 1

\* An agent without tools.
Direct == INSTANCE NextDecision WITH acts <- s1, mem <- s2, saved <- s3, pc <- s4,
    reply <- s5, asked <- s6, died <- s7, Mode <- "direct",
    Calls <- {"a"}, Signature <- Signatures, Drafts <- {}, Renders <- {},
    Commands <- {}, Saves <- {}, Fetches <- {}, Plan <- <<>>, Errors <- {"x"},
    Transient <- {}, Exits <- {}, MaxRetries <- 0, MaxActions <- 1, MaxTrouble <- 0

\* A streamed chat: two calls with the same required input, a draft, a card, two
\* pages to fetch, two memories to save.
Chat == INSTANCE NextDecision WITH acts <- s1, mem <- s2, saved <- s3, pc <- s4,
    reply <- s5, asked <- s6, died <- s7, Mode <- "chat",
    Calls <- {"a", "b", "d", "r", "f", "g", "s", "t"}, Signature <- Signatures, Drafts <- {"d"}, Renders <- {"r"},
    Commands <- {}, Saves <- {"s", "t"}, Fetches <- {"f", "g"}, Plan <- <<>>, Errors <- {"x"},
    Transient <- {}, Exits <- {}, MaxRetries <- 0, MaxActions <- 3, MaxTrouble <- 0

\* A streamed chat with a command, and a death.
Talk == INSTANCE NextDecision WITH acts <- s1, mem <- s2, saved <- s3, pc <- s4,
    reply <- s5, asked <- s6, died <- s7, Mode <- "chat",
    Calls <- {"a", "c"}, Signature <- Signatures, Drafts <- {}, Renders <- {},
    Commands <- {"c"}, Saves <- {}, Fetches <- {}, Plan <- <<>>, Errors <- {"x", "e"},
    Transient <- {}, Exits <- {"e"}, MaxRetries <- 0, MaxActions <- 3, MaxTrouble <- 1

\* A static plan of three steps, one retry of a step, and a death.
Static == INSTANCE NextDecision WITH acts <- s1, mem <- s2, saved <- s3, pc <- s4,
    reply <- s5, asked <- s6, died <- s7, Mode <- "plan",
    Calls <- {"a", "c", "d"}, Signature <- Signatures, Drafts <- {}, Renders <- {},
    Commands <- {}, Saves <- {}, Fetches <- {}, Plan <- <<"a", "c", "d">>, Errors <- {"x", "y"},
    Transient <- {"x"}, Exits <- {}, MaxRetries <- 1, MaxActions <- 6, MaxTrouble <- 1

\* A compiled playbook, another call, and a death.
Book == INSTANCE NextDecision WITH acts <- s1, mem <- s2, saved <- s3, pc <- s4,
    reply <- s5, asked <- s6, died <- s7, Mode <- "playbook",
    Calls <- {"a", "c"}, Signature <- Signatures, Drafts <- {}, Renders <- {},
    Commands <- {"c"}, Saves <- {}, Fetches <- {}, Plan <- <<"c">>, Errors <- {"x", "e"},
    Transient <- {}, Exits <- {"e"}, MaxRetries <- 0, MaxActions <- 3, MaxTrouble <- 1

\* At every stage b is blocked, s redacted and p held; the detectors know of x.
GuardedTerms == [b |-> "block", s |-> "redact", p |-> "require_approval"]

GuardRules == {[stage |-> at, term |-> t, action |-> GuardedTerms[t]] :
    at \in {"retrieval", "model_request", "model_response", "tool_request"}, t \in {"b", "s", "p"}}

Suspect(at) == {[stage |-> at, term |-> "x", action |-> "require_approval"]}

\* A run that plans and calls a tool; the process dies once.
Guard == INSTANCE Guardrails WITH pc <- s1, context <- s2, plan <- s3, keys <- s4,
    held <- s5, approved <- s6, policy <- s7, workflow <- s8, passed <- s9,
    money <- s10, trouble <- s11, Mode <- "graph", Rules <- GuardRules,
    Detectors <- Suspect("model_response"), Remote <- Suspect("tool_request"),
    FailureAction <- "warn", Goal <- {"g"}, Docs <- {{"b"}, {"s"}},
    Memories <- {{"p"}, {"b"}}, Answers <- {{"p"}, {"x", "s"}, {"s"}, {"b"}},
    MaxTrouble <- 1

\* The preview of a workflow; two failures, and an HTTP detector that blocks then.
Preview == INSTANCE Guardrails WITH pc <- s1, context <- s2, plan <- s3, keys <- s4,
    held <- s5, approved <- s6, policy <- s7, workflow <- s8, passed <- s9,
    money <- s10, trouble <- s11, Mode <- "workflow", Rules <- GuardRules,
    Detectors <- Suspect("model_response"), Remote <- Suspect("model_request"),
    FailureAction <- "block", Goal <- {"g"}, Docs <- {{"b"}, {"s"}},
    Memories <- {{"p"}, {"x"}}, Answers <- {{"p"}, {"x", "s"}, {"s"}, {"b"}},
    MaxTrouble <- 2

\* The action ledger, one action of one worker.
Ledger == INSTANCE AgentActions WITH status <- s1, gen <- s2, lease <- s3, obs <- s4,
    reconnects <- s5, pc <- s6, current <- s7, held <- s8, outcome <- s9,
    cancelled <- s10, effects <- s11, granted <- s12, Workers <- {"w"},
    Actions <- {"a"}, None <- "none", LeaseSeconds <- 1, MaxRetry <- 2

\* One version with two archives, high risk; two requests and a failure.
Skill == INSTANCE SkillPackages WITH rows <- s1, entry <- s2, pkg <- s3,
    status <- s4, ran <- s5, byId <- s6, inst <- s7, allowed <- s8, halted <- s9,
    req <- s10, run <- s11, trouble <- s12, Versions <- {1},
    Archives <- {<<1, "a">>, <<1, "b">>}, Workspaces <- {"w"}, Runs <- {},
    Requests <- {p1, p2}, PackVersion <- 1, PackContent <- "a", Risky <- {1},
    MaxTrouble <- 1

\* Two versions; a run uses the skill while a request changes it.
Use == INSTANCE SkillPackages WITH rows <- s1, entry <- s2, pkg <- s3, status <- s4,
    ran <- s5, byId <- s6, inst <- s7, allowed <- s8, halted <- s9, req <- s10,
    run <- s11, trouble <- s12, Versions <- {1, 2},
    Archives <- {<<1, "a">>, <<2, "c">>}, Workspaces <- {"w"}, Runs <- {"w"},
    Requests <- {p1}, PackVersion <- 1, PackContent <- "a", Risky <- {},
    MaxTrouble <- 0

\* Two gaps, one of them with a test case; two requests and a failure.
Feed == INSTANCE PackFeedback WITH feedback <- s1, cand <- s2, draft <- s3,
    pack <- s4, released <- s5, approved <- s6, overlap <- s7, crossed <- s8,
    req <- s9, trouble <- s10, Gaps <- {"g", "h"}, CaseGaps <- {"h"}, Needed <- 1,
    Ids <- {1}, Proposals <- {[ver |-> 2, skills |-> {"x"}]}, Requests <- {p1, p2},
    MaxTrouble <- 1

\* Two drafts of one pack, one request at a time.
Draft == INSTANCE PackFeedback WITH feedback <- s1, cand <- s2, draft <- s3,
    pack <- s4, released <- s5, approved <- s6, overlap <- s7, crossed <- s8,
    req <- s9, trouble <- s10, Gaps <- {"g", "h"}, CaseGaps <- {}, Needed <- 1,
    Ids <- {1, 2},
    Proposals <- {[ver |-> 2, skills |-> {"x"}], [ver |-> 3, skills |-> {"y"}]},
    Requests <- {p1}, MaxTrouble <- 0

\* Two saves of one fact, forgetting, a failure.
Facts == INSTANCE Memories WITH rec <- s1, kept <- s2, mixed <- s3, forgotten <- s4,
    entry <- s5, review <- s6, crossed <- s7, req <- s8, trouble <- s9,
    Ids <- {1, 2}, Keys <- {"k"}, Reviews <- {}, Slots <- {}, Requests <- {p1, p2},
    MaxTrouble <- 1

\* Two reviews of one slot of short-term memory.
Reviews == INSTANCE Memories WITH rec <- s1, kept <- s2, mixed <- s3,
    forgotten <- s4, entry <- s5, review <- s6, crossed <- s7, req <- s8,
    trouble <- s9, Ids <- {}, Keys <- {}, Reviews <- {"v", "w"}, Slots <- {"s"},
    Requests <- {p1, p2}, MaxTrouble <- 1

\* One manifest of a writing action, of a call or of a run, two requests, two failures.
Man == INSTANCE ActionManifests WITH man <- s1, enabled <- s2, effects <- s3,
    answers <- s4, billed <- s5, crossed <- s6, contested <- s7, uncertain <- s8,
    forked <- s9, run <- s10, req <- s11, trouble <- s12, Manifests <- {"m"}, Inputs <- {"i"},
    Requests <- {p1, p2}, Writes <- TRUE, MaxCalls <- 2, MaxTrouble <- 2

\* One authorization, one action that waits for it, two requests.
Auth == INSTANCE ConnectorOAuth WITH status <- s1, said <- s2, store <- s3,
    issued <- s4, valid <- s5, states <- s6, spent <- s7, act <- s8, crossed <- s9,
    smeared <- s10, lost <- s11, req <- s12, trouble <- s13, States <- {"s"},
    Actions <- {"a"}, Requests <- {p1, p2}, MaxTokens <- 2, MaxTrouble <- 1

\* A batch of two documents and an upload, two workers, a failure.
Know == INSTANCE KnowledgeSync WITH base <- s1, doc <- s2, call <- s3, job <- s4,
    run <- s5, sync <- s6, meters <- s7, w <- s8, up <- s9, crossed <- s10,
    overtaken <- s11, trouble <- s12, Batch <- [j |-> <<"a", "b">>],
    Uploads <- {"u"}, Contents <- {"a", "b"}, Workers <- {p1, p2}, MaxAttempts <- 2,
    MaxTrouble <- 2

\* A webhook trigger and one delivery, made twice.
Hook == INSTANCE EventTriggers WITH status <- s1, runs <- s2, saved <- s3,
    req <- s4, told <- s5, crossed <- s6, quiet <- s7, trouble <- s8,
    Kind <- [t |-> "webhook"], Deliveries <- {"d"}, Requests <- {p1, p2},
    MaxRuns <- 2, MaxTrouble <- 1

\* A trigger by which one run hands over to another.
Hand == INSTANCE EventTriggers WITH status <- s1, runs <- s2, saved <- s3,
    req <- s4, told <- s5, crossed <- s6, quiet <- s7, trouble <- s8,
    Kind <- [t |-> "handoff"], Deliveries <- {"d"}, Requests <- {p1, p2},
    MaxRuns <- 2, MaxTrouble <- 1

\* Two triggers wait for one event.
Event == INSTANCE EventTriggers WITH status <- s1, runs <- s2, saved <- s3,
    req <- s4, told <- s5, crossed <- s6, quiet <- s7, trouble <- s8,
    Kind <- [v |-> "event", u |-> "event"], Deliveries <- {"d"}, Requests <- {p1},
    MaxRuns <- 1, MaxTrouble <- 1

\* Two sessions of a profile that allows one at a time.
Browse == INSTANCE BrowserProfiles WITH prof <- s1, vault <- s2, rec <- s3,
    ctx <- s4, req <- s5, saved <- s6, mixed <- s7, settled <- s8, refused <- s9,
    started <- s10, trouble <- s11, Profiles <- {"a"}, Sessions <- {"s", "t"},
    Requests <- {p1, p2}, MaxSessions <- 1, Exports <- TRUE, MaxStarted <- 4,
    MaxTrouble <- 1

\* Two profiles, two sessions, one request at a time.
Profiles == INSTANCE BrowserProfiles WITH prof <- s1, vault <- s2, rec <- s3,
    ctx <- s4, req <- s5, saved <- s6, mixed <- s7, settled <- s8, refused <- s9,
    started <- s10, trouble <- s11, Profiles <- {"a", "b"}, Sessions <- {"s", "t"},
    Requests <- {p1}, MaxSessions <- 2, Exports <- TRUE, MaxStarted <- 5,
    MaxTrouble <- 1

\* Publications and evaluations of one version.
Gated == INSTANCE AgentRegistry WITH definition <- s1, version <- s2, evals <- s3,
    clock <- s4, key <- s5, owner <- s6, runs <- s7, req <- s8, seen <- s9,
    started <- s10, trouble <- s11, Requests <- {p1, p2},
    Ops <- {"create", "publish", "evaluate"}, MaxVersion <- 1, MaxEvaluations <- 2,
    MaxRuns <- 2, MaxStarted <- 5, Bundle <- <<"none", "s">>, BundleShows <- 1,
    MaxTrouble <- 1

\* Versions are created, published and imported.
Vers == INSTANCE AgentRegistry WITH definition <- s1, version <- s2, evals <- s3,
    clock <- s4, key <- s5, owner <- s6, runs <- s7, req <- s8, seen <- s9,
    started <- s10, trouble <- s11, Requests <- {p1, p2},
    Ops <- {"create", "publish", "version", "import"}, MaxVersion <- 2,
    MaxEvaluations <- 2, MaxRuns <- 2, MaxStarted <- 5,
    Bundle <- <<"none", "none">>, BundleShows <- 1, MaxTrouble <- 1

\* The published agent is run with keys, edited and made public.
Pub == INSTANCE AgentRegistry WITH definition <- s1, version <- s2, evals <- s3,
    clock <- s4, key <- s5, owner <- s6, runs <- s7, req <- s8, seen <- s9,
    started <- s10, trouble <- s11, Requests <- {p1, p2},
    Ops <- {"import", "publish", "key", "public", "run", "patch"}, MaxVersion <- 2,
    MaxEvaluations <- 2, MaxRuns <- 2, MaxStarted <- 5,
    Bundle <- <<"none", "none">>, BundleShows <- 1, MaxTrouble <- 0

\* Two cases, the first one critical, run twice.
Gate == INSTANCE EvaluationGate WITH results <- s1, verdict <- s2, saved <- s3,
    baseline <- s4, Weight <- <<1, 2>>, Critical <- {1}, FullScore <- 2,
    Budget <- 1, AllowedEffects <- {}, MatchRatio <- 50, Observations <- Observed,
    Gate <- GateLimits, Longest <- 24, MaxRuns <- 2

\* One request at a time; the engine loses an answer.
Solo == INSTANCE EngineSessions WITH active <- s1, row <- s2, remote <- s3,
    log <- s4, history <- s5, run <- s6, req <- s7, started <- s8, crossed <- s9,
    trouble <- s10, Native <- FALSE, Requests <- {p1}, MaxEvents <- 2,
    MaxStarted <- 4, MaxTrouble <- 1

\* Two requests at once.
Both == INSTANCE EngineSessions WITH active <- s1, row <- s2, remote <- s3,
    log <- s4, history <- s5, run <- s6, req <- s7, started <- s8, crossed <- s9,
    trouble <- s10, Native <- FALSE, Requests <- {p1, p2}, MaxEvents <- 1,
    MaxStarted <- 3, MaxTrouble <- 0

\* The built-in engine.
Own == INSTANCE EngineSessions WITH active <- s1, row <- s2, remote <- s3,
    log <- s4, history <- s5, run <- s6, req <- s7, started <- s8, crossed <- s9,
    trouble <- s10, Native <- TRUE, Requests <- {p1, p2}, MaxEvents <- 0,
    MaxStarted <- 3, MaxTrouble <- 0

\* Change reports, test reports and a run that attaches the workspace.
Code == INSTANCE CodingWorkspaces WITH bound <- s1, row <- s2, evidence <- s3,
    req <- s4, started <- s5, crossed <- s6, trouble <- s7, Requests <- {p1, p2},
    Heads <- {"h"}, MaxEvidence <- 3, MaxStarted <- 4, MaxTrouble <- 1

-----------------------------------------------------------------------------
rest13 == <<s13>>
rest12 == <<s12, rest13>>
rest11 == <<s11, rest12>>
rest10 == <<s10, rest11>>
rest9 == <<s9, rest10>>
rest8 == <<s8, rest9>>
rest5 == <<s5, s6, s7, rest8>>

Idle13 == s13 = 0
Idle12 == s12 = 0 /\ Idle13
Idle11 == s11 = 0 /\ Idle12
Idle10 == s10 = 0 /\ Idle11
Idle9 == s9 = 0 /\ Idle10
Idle8 == s8 = 0 /\ Idle9
Idle5 == s5 = 0 /\ s6 = 0 /\ s7 = 0 /\ Idle8

Init ==
    \/ part = "agent" /\ Agent!Init /\ Idle8
    \/ part = "direct" /\ Direct!Init /\ Idle8
    \/ part = "talk" /\ Talk!Init /\ Idle8
    \/ part = "playbook" /\ Book!Init /\ Idle8
    \/ part = "chat" /\ Chat!Init /\ Idle8
    \/ part = "plan" /\ Static!Init /\ Idle8
    \/ part = "guarded" /\ Guard!Init /\ Idle12
    \/ part = "preview" /\ Preview!Init /\ Idle12
    \/ part = "skills" /\ Skill!Init /\ Idle13
    \/ part = "skill run" /\ Use!Init /\ Idle13
    \/ part = "feedback" /\ Feed!Init /\ Idle11
    \/ part = "drafts" /\ Draft!Init /\ Idle11
    \/ part = "facts" /\ Facts!Init /\ Idle10
    \/ part = "reviews" /\ Reviews!Init /\ Idle10
    \/ part = "manifests" /\ Man!Init /\ Idle13
    \/ part = "oauth" /\ Auth!Init
    \/ part = "knowledge" /\ Know!Init /\ Idle13
    \/ part = "webhook" /\ Hook!Init /\ Idle9
    \/ part = "handoff" /\ Hand!Init /\ Idle9
    \/ part = "event" /\ Event!Init /\ Idle9
    \/ part = "browser" /\ Browse!Init /\ Idle12
    \/ part = "profiles" /\ Profiles!Init /\ Idle12
    \/ part = "gated" /\ Gated!Init /\ Idle12
    \/ part = "versions" /\ Vers!Init /\ Idle12
    \/ part = "access" /\ Pub!Init /\ Idle12
    \/ part = "gate" /\ Gate!Init /\ Idle5
    \/ part = "engine" /\ Solo!Init /\ Idle11
    \/ part = "engine pair" /\ Both!Init /\ Idle11
    \/ part = "own engine" /\ Own!Init /\ Idle11
    \/ part = "coding" /\ Code!Init /\ Idle8

Next ==
    /\ UNCHANGED part
    /\ \/ part = "agent" /\ Agent!Next /\ UNCHANGED rest8
       \/ part = "direct" /\ Direct!Next /\ UNCHANGED rest8
       \/ part = "talk" /\ Talk!Next /\ UNCHANGED rest8
       \/ part = "playbook" /\ Book!Next /\ UNCHANGED rest8
       \/ part = "chat" /\ Chat!Next /\ UNCHANGED rest8
       \/ part = "plan" /\ Static!Next /\ UNCHANGED rest8
       \/ part = "guarded" /\ Guard!Next /\ UNCHANGED rest12
       \/ part = "preview" /\ Preview!Next /\ UNCHANGED rest12
       \/ part = "skills" /\ Skill!Next /\ UNCHANGED rest13
       \/ part = "skill run" /\ Use!Next /\ UNCHANGED rest13
       \/ part = "feedback" /\ Feed!Next /\ UNCHANGED rest11
       \/ part = "drafts" /\ Draft!Next /\ UNCHANGED rest11
       \/ part = "facts" /\ Facts!Next /\ UNCHANGED rest10
       \/ part = "reviews" /\ Reviews!Next /\ UNCHANGED rest10
       \/ part = "manifests" /\ Man!Next /\ UNCHANGED rest13
       \/ part = "oauth" /\ Auth!Next
       \/ part = "knowledge" /\ Know!Next /\ UNCHANGED rest13
       \/ part = "webhook" /\ Hook!Next /\ UNCHANGED rest9
       \/ part = "handoff" /\ Hand!Next /\ UNCHANGED rest9
       \/ part = "event" /\ Event!Next /\ UNCHANGED rest9
       \/ part = "browser" /\ Browse!Next /\ UNCHANGED rest12
       \/ part = "profiles" /\ Profiles!Next /\ UNCHANGED rest12
       \/ part = "gated" /\ Gated!Next /\ UNCHANGED rest12
       \/ part = "versions" /\ Vers!Next /\ UNCHANGED rest12
       \/ part = "access" /\ Pub!Next /\ UNCHANGED rest12
       \/ part = "gate" /\ Gate!Next /\ UNCHANGED rest5
       \/ part = "engine" /\ Solo!Next /\ UNCHANGED rest11
       \/ part = "engine pair" /\ Both!Next /\ UNCHANGED rest11
       \/ part = "own engine" /\ Own!Next /\ UNCHANGED rest11
       \/ part = "coding" /\ Code!Next /\ UNCHANGED rest8

Spec == Init /\ [][Next]_vars

-----------------------------------------------------------------------------
\* Whatever the model answers and wherever the process dies, no action is taken
\* whose tool and required input have succeeded before in the run, none that
\* failed twice alike is tried a third time in a row, no command whose exit status was
\* a failure is run again at once, one decision asks the model
\* four times at most; a static plan goes step by step and no step follows one that
\* failed; a compiled playbook runs once and first (_decide, observe_result).  Nothing
\* passes a guardrail that blocks it, or that holds it unless a person of the run has
\* approved that rule or the step, and every call of the planning model is billed or
\* its answer is not used (evaluate, _create_plan, execute_request).
DecisionsProgress ==
    /\ part = "agent" => /\ Agent!SuccessNotRepeated /\ Agent!NoThirdFailure
                         /\ Agent!CallsBounded
    /\ part = "chat" => /\ Chat!SuccessNotRepeated /\ Chat!NoThirdFailure
                        /\ Chat!CallsBounded
    /\ part = "direct" => Direct!CallsBounded
    /\ part = "talk" => /\ Talk!SuccessNotRepeated /\ Talk!NoThirdFailure
                        /\ Talk!CallsBounded
    /\ part = "playbook" => /\ Book!PlaybookOnce /\ Book!SuccessNotRepeated
                            /\ Book!NoThirdFailure /\ Book!CallsBounded
    /\ part = "plan" => Static!PlanInOrder /\ Static!PlanNotReversed
    /\ part = "guarded" => /\ Guard!NothingSlipsThrough /\ Guard!ContextStaysClean
                           /\ Guard!ToolsArePermitted /\ Guard!CallsAccounted
    /\ part = "preview" => /\ Preview!NothingSlipsThrough /\ Preview!ContextStaysClean
                           /\ Preview!ToolsArePermitted /\ Preview!CallsAccounted

\* A package is published only after an evaluation of that version passed, what a
\* workspace has pinned is what the registry holds, and a skill that wants an
\* approval is on only where an administrator turned it on (skills/service.py).
\* The instructions of a run are of one content, those of the version it was
\* started with (_prepare_selected_skill).  Every skill that feedback has brought
\* into a pack was approved as it is, no rejected candidate leaves a draft behind,
\* and an applied draft is a version of the pack (customer_success/feedback.py).
SkillsAreReviewed ==
    /\ part = "skills" => /\ Skill!GateKept /\ Skill!PinnedContent
                          /\ Skill!RiskyWaits
    /\ part = "skill run" => Use!ContextIsPinned
    /\ part = "feedback" => /\ Feed!ShippedWasApproved /\ Feed!VerdictHasRecord
    /\ part = "drafts" => Draft!AppliedIsShipped

\* What was forgotten is never readable again, a fact that was saved stays until a
\* person takes it back, and what a reviewer refused is no entry of the run
\* (memory/service.py).  A sync run succeeds only when its own job has put every
\* document of the batch into the base, billed once; the connector says of it what
\* the run says; and an uploaded document has its content (connector_sync_worker).
KnowledgeIsFaithful ==
    /\ part = "facts" => /\ Facts!ForgottenIsEmpty /\ Facts!FactIsKept
                         /\ Facts!OneRecordPerFact
    /\ part = "reviews" => Reviews!RefusedStaysOut
    /\ part = "knowledge" => /\ Know!SucceededIsIndexed /\ Know!StateIsLastWord
                             /\ Know!UploadedIsWhole

\* An approved action reaches the outside system once, shows the outcome it had and
\* is never shown as rejected after it was carried out (apply_action_manifest).  An
\* authorization is used once, the stored refresh token is one the provider takes,
\* and a retried action has newer tokens (connectors/oauth.py).  A delivery that is
\* sent again makes no second run, an accepted event has a run for every trigger it
\* matched, and a disabled trigger makes none (triggers/service.py).
OutsideIsMetOnce ==
    /\ part = "manifests" => /\ Man!AppliedOnce /\ Man!OutcomeIsShown
                             /\ Man!SentNotRefused
    /\ part = "oauth" => /\ Auth!StateSpentOnce /\ Auth!RefreshStillWorks
                         /\ Auth!RetriedWithNewTokens /\ Auth!StatusIsLastWord
    /\ part = "webhook" => /\ Hook!WebhookRunsOnce /\ Hook!NothingAfterDisable
    /\ part = "handoff" => Hand!NothingAfterDisable
    /\ part = "event" => /\ Event!NothingAfterDisable /\ Event!EventIsComplete

\* A version of an agent keeps its spec; it was published only if its latest
\* evaluation allowed it; the version the definition names is the published one; a
\* revoked key starts nothing (agents/service.py).  The gate judges by nearest-rank
\* percentiles, never blocks what is better than what it allowed, and a baseline
\* clears the suite's own thresholds (evaluation/service.py).
AgentsAreGoverned ==
    /\ [](part = "gated" => Gated!GateUsedLatest)
    /\ [](part = "versions" => /\ Vers!PublishedAgrees /\ Vers!ImportIsFaithful)
    /\ [](part = "access" => /\ Pub!RevokedStartsNothing
                             /\ Pub!RefusedOnlyWhenOvertaken
                             /\ Pub!AutonomyIsLastWord)
    /\ [](part = "gate" => /\ Gate!PercentileIsRank /\ Gate!BetterIsAllowed
                           /\ Gate!BaselineClearsGate)
    /\ [][part = "versions" => Vers!VersionsKept]_vars

\* The record of a workplace elsewhere is true of it.  Browser profiles: the service
\* never holds more sessions than its limit, a session recorded closed is gone and
\* its state was saved, and cookies of one profile never reach another
\* (close_session).  Engines: no event is lost, none shows twice, the statuses agree
\* (agent_engines/service.py).  Coding workspaces: "tested" is said of the code the
\* test saw, head and row never run ahead of the stored evidence.
RecordsMatchWorkplaces ==
    /\ part = "browser" => /\ Browse!LimitKept /\ Browse!ClosedIsComplete
                           /\ Browse!DisabledHasNoSession
    /\ part = "profiles" => /\ Profiles!StateStaysInProfile /\ Profiles!WorkIsKept
    /\ part = "engine" => /\ Solo!NothingLost /\ Solo!EventsOnce
                          /\ Solo!StatusAgrees
    /\ part = "engine pair" => /\ Both!NothingLost /\ Both!EventsOnce
                               /\ Both!StatusAgrees
    /\ part = "own engine" => /\ Own!NothingLost /\ Own!EventsOnce
                              /\ Own!StatusAgrees
    /\ part = "coding" => /\ Code!TestedIsCurrent /\ Code!HeadHasEvidence
                          /\ Code!RowHasEvidence

\* Two versions in the registry; one run, one workspace.
SkillRun == Init /\ part = "skill run" /\ [][Next]_vars

\* The files a run finds in its sandbox belong to the instructions it works by:
\* "one run does not quietly switch a skill's content" (_prepare_selected_skill).
FilesMatchContext == part = "skill run" => Use!FilesMatchContext

\* The action ledger by itself, with a history of how often a reconnection resumed the
\* action.
ReconnectRun ==
    /\ part = "reconnect" /\ Ledger!Init /\ s13 = 0
    /\ [][/\ UNCHANGED part /\ Ledger!Next
          /\ s13' = s13 + (IF Ledger!RetryConnectorActionAfterReconnect("a") THEN 1 ELSE 0)]_vars

\* "Reconnect the Connector to retry this action once": an action is resumed by a
\* reconnection at most once (retry_connector_action_after_reconnect).
ResumedOnce == part = "reconnect" => s13 <= 1
=============================================================================
