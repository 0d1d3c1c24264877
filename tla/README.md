# A TLA+ verification of Taroai

Taroai (`src/apps/api/src/taroai/`; paths below are relative to it) is a multi-tenant
workspace for agents.  A FastAPI application accepts chat messages, workflows,
approvals and triggers; agent loops execute *runs*, either inline in background tasks
of the API process or in worker processes behind a Redis queue.  Around the runs stand
services for skills, memory, knowledge, connectors, sandboxes, browsers, model
providers, tenants and the acceptance of an installation.  Everything shared is in one
relational store, and there are hardly any transactions that span two store calls:
almost all of the difficulty lies in what several processes, threads and people do to
the same rows, and in what is left when one of them stops half way.

This project models those protocols in TLA+, checks them with TLC on small instances,
and proves the ones the execution of runs rests on with TLAPS, for every size.

## 1. Inventory

### The execution of runs

| part | state it keeps | operations | source |
|---|---|---|---|
| action ledger | rows of `agent_actions`: status, lease (owner, generation, expiry), observation, usage | create, claim, renew, commit, cancel, recover, resolve, pause / retry after reconnection | `store.py`, `db/repository.py`, called by `agent/nodes.py`, `agent/loop.py` |
| agent loop | the run's status, the runtime-state row, the checkpoint log, approval requests, the trigger message | the nodes of `agent/graph.py`; approve, reject, cancel, retry; restore and persist a checkpoint | `agent/*.py`, `db/repository.py` |
| decisions | the actions taken so far, the corrections asked for | `_decide` and what it calls | `agent/loop.py`, `model_gateway/gateway.py` |
| job queue, agent worker | a Redis hash of jobs, a pending and a dead-letter list per type | enqueue, claim, ack, reject, reap; `process_next` | `workers/queue.py`, `workers/agent_worker.py` |
| workflow coordinator | `workflow_runs`, `workflow_tasks`, child runs, parent run | approve, reject, ready_runs, mark_running, complete_child, retry_task, pause, resume, cancel | `workflow.py`, `agent/runtime.py`, `app.py` |
| chat threads | thread status, messages with a dispatch status, runs of the thread | post, continue, steer, delete, promote, archive; dispatch, cancel and retry | `chat/service.py`, `app.py`, `agent/loop.py` |
| idempotent requests | one record per key: hash, response, time | reserve, wait, replay, reclaim, delete | `chat/service.py`, `api/`, `app.py` |
| triggers | next due time, trigger jobs, runs; webhooks, events, hand-offs | `process_due`, `process_next`, enable, disable, delete, receive | `triggers/*.py`, `workers/scheduler_worker.py`, `workers/trigger_worker.py` |

How they interact.  `post_message` creates a run and `dispatch_chat_run` gives it a job
(or a background task).  `AgentWorker.process_next` claims the job and calls
`execute_run`, whose graph goes through the ledger for every tool call, pauses for
approvals and writes checkpoints.  When the run is over the worker calls
`complete_child` (the run may be a workflow task) and `continue_thread` (the next queued
message gets its run), and acknowledges the job.  Users cancel, retry, approve, pause
and steer through the API at any time.  The only lock (`ChatService._named_lock`) is
local to a process.

### The services around it

Sandboxes (`sandbox/`, the thread's session in `agent/runtime.py`), model gateway and
its administration (`model_gateway/`, `app.py`), stored objects and artifacts
(`storage/`, `artifacts/`), restore drills, legal holds and offboarding (`lifecycle/`,
`workers/restore_drill*.py`), accounts and membership (`auth/`, `identity/`, `scim/`),
the acceptance of an installation (`deployment/`), skills and solution packs
(`skills/`, `solution_packs/`, `customer_success/`), memory and knowledge (`memory/`,
`knowledge/`, `workers/connector_sync_worker.py`), connectors (`connectors/`), the
agents registry with its evaluation gate and engines (`agents/`, `evaluation/`,
`agent_engines/`), coding workspaces and browser profiles.  Each is a set of requests
that read rows, call something outside and write rows, each of these steps in a
transaction of its own.

### What is hard

Interleavings between any two store calls or Redis commands; leases that expire while
their holder is still at work; crashes between two steps; jobs delivered twice; late
results; statuses read by one call and relied on by a later one; exceptions in the
middle of a handler; limits that are checked before and drawn on after a call;
messages, jobs, workflows and due times that must be served in the end without a
client's help.  `PROJECT.json` lists each such place under `hazards`, with its line and
the properties about it, and every component under `components`, the ones left out too.

## 2. The modules

Common conventions.  A store call is one atomic step (a lock in `store.py`, one SQL
transaction in `db/repository.py`); a Redis command, a kubectl call or a request to an
outside service is one step.  A handler that makes several calls is a program counter
and the variables that hold what it has read.  What a language model, a tool, a
provider or a person decides is a free choice.  Variables under "history" are written
and never guard an action; disturbances (crashes, failures, expiries) are counted and
bounded by a constant named `Max...` in the guards of the actions that cause them.
Definitions named `Mut...` are plausible bugs of the definition that follows them; no
specification uses them, they serve to show that each property can fail.  `PROJECT.json`
maps every definition to the lines it models.

### The execution of runs

- **`AgentActions`** - one run's ledger, its overlapping executions, the clock, people
  and connectors.  `status, gen, lease, obs, reconnects` are columns; `pc, current,
  held, outcome` what an execution has in memory.  The actions follow `observe, decide,
  policy, act, observe_result`; all processes share the lease owner `agent-loop-v2`
  (`agent/runtime.py:151`), so the owner tells nobody apart and is not a variable.
  `Crash` forgets what an execution has in memory, `Tick` lets leases run down.
- **`SideEffects`** - what the ledger promises, without workers, leases or a clock.
  `AgentActions` implements it (`Promise`, a refinement mapping of expressions).
- **`AgentLoop`** - the graph: `Observe`, `Recover`, `Decide`, `Answered`, `Policy`,
  `Act`, `Commit`, `Record`, `ObserveResult`, `Verify`, `Repair`, `Replan`, `Complete`,
  `WaitUser`, `Fail`, with the run's row, the runtime-state row `saved`, the newest
  checkpoint `ckpt`, the actions, the approval requests and the trigger message, written
  by the nodes in the code's order.  A person's approval is
  `ResumeAfterApproval`, `Resume` and `SaveResumed`: the request is granted, the run set
  to RUNNING, the state saved and executed, and a death, a cancellation or another
  execution may come between.  `RejectApproval`, `CancelRun` and `RetryRun` are one step
  each for a chain of store calls (section 7).  A checkpoint is numbered by the state in memory and refused if
  the number is taken (`Fits`); `update_run_status` has no guard, and `upset` records
  when it replaced a terminal status or a number was refused.
- **`NextDecision`** - `_decide`: which answers of the model are corrected, repeated,
  refused or taken, by an agent, an agent without tools, a streamed chat, a static plan or
  a compiled playbook, and what the outcome of an action does to the next decision.
- **`Guardrails`** - a plan on its way through the guardrails (`_create_plan`,
  `tool_gateway/service.py`): what is retrieved, asked, answered and given to a tool, what
  is held for a person, what is billed; the run of a graph or the preview of a workflow.
  A content is the set of the terms in it, rules and detectors name terms.
- **`JobQueue`** - `RedisJobQueue` uses no transaction, so `EnqueueWrite`/`EnqueuePush`,
  `ReapScan`/`ReapWrite`/`ReapPush`, `ClaimPop`/`ClaimRead`/`ClaimWrite`,
  `AckRead`/`AckWrite`, `RejectRead`/`RejectWrite`/`RejectPush` are separate steps on
  what the worker has read; `CheckRetrying`, `MarkRetrying` are what `process_next`
  writes to the run.  Time is left out: a lease may expire and a delay end at any moment.
- **`Workflow`** - one workflow over an arbitrary task graph: each handler of
  `WorkflowCoordinator` is a chain of store calls; `wfSeen`, `todo`, `stop`, `made` are
  what it has read.
- **`ChatThread`** - one conversation.  A run is identified by the message that
  triggered it; `Inline` selects the two dispatch modes: one process, whose handlers
  exclude each other in `post_message` and `continue_thread`, or a process per handler.
- **`Idempotency`**, **`OncePerKey`** - `execute_idempotently` and the endpoints that
  only look for a replay; what a key promises, which `Idempotency` implements.
- **`TriggerScheduler`** - one schedule: `ProcessDue` lists it and evaluates its due
  times, `EnqueueDue` and `UpdateNextRunAt` write the jobs and the row; `ClaimDue` to
  `AckDue` are a worker's way from a job to a run and the job that executes it.  A cron
  expression is the set of the minutes it matches.  **`EventTriggers`** - webhooks,
  connector events, hand-offs.
- **`ThreadSandbox`**, **`SandboxSessions`** - the session the runs of a thread share;
  the controller over kubectl, whose memory every request rebuilds from a listing, pod
  by pod: a policy is read for each, and one that is missing ends the rebuilding half way.

### The services

| module | what it is |
|---|---|
| `ModelCalls`, `ModelProviders` | candidates, fallback, streams, rate limits and budgets of model calls; changes of providers, their approval, history and the refresh of gateways |
| `StoredObjects`, `TenantOffboarding`, `RestoreDrills` | publication, upload, deletion and retention of files; plan, export and deletion of a tenant; due days, executions and evidence of restore drills |
| `Accounts` | registration, login, reset, invitation, membership and directory import |
| `InstallValidation`, `PocVerification`, `ProviderChecks`, `ReleasePackage` | the report on an installation, the end-to-end verification script, the provider scripts, the release package |
| `SkillPackages`, `PackFeedback` | import, gate, publication, installation and use of skills; feedback that becomes a new pack version |
| `Memories`, `KnowledgeSync` | saving, superseding, reviewing and forgetting memory; ingestion by sync jobs and uploads |
| `ActionManifests`, `ConnectorOAuth` | connector calls behind approved manifests, made by an invocation or by a run that pauses: applying such a manifest resumes the run, which sends the call through the action ledger, and rejecting it cancels the run; the OAuth life cycle |
| `AgentRegistry`, `EvaluationGate`, `EngineSessions` | versions, publication, keys and runs of agents; metrics, gate and baselines; sessions of engines |
| `CodingWorkspaces`, `BrowserProfiles` | evidence, head and status of a workspace; profiles, secrets and sessions |

### Instances and proofs

`MCWorkflow` instantiates one module; `AgentActions`, `JobQueue`, `AgentLoop` and
`ChatThread` are checked as they are, under a `.cfg`.  The three suites
`MCLive`, `MCPlatform` and `MCAssistant` instantiate several modules each: a behaviour
belongs to one component, named by `part` and chosen at the start, whose variables are
`s1, s2, ...` in the order the module declares them.  The components of a suite do not
interact: a suite is the disjoint union of its instances, and its properties are bundles,
`part = "x" => X!Property`.  Each bundle has one mutant in `PROJECT.json`; the other
conjuncts of a bundle were each shown to fail for a `Mut...` definition of their module.

`AgentActionsProofs`, `JobQueueProofs`, `WorkflowProofs`, `ChatThreadProofs`,
`AgentLoopProofs`, `TriggerSchedulerProofs` and `SandboxSessionsProofs` hold the theorems;
`ChatThreadProofs` also those about `Idempotency`, the other half of `chat/service.py`.
`MCLive` instantiates the proof modules of its five components, leaves their constants
open, and states their results for the suite.

## 3. What the runs check

Every passing run reaches all states of its instance; the numbers are distinct states.

| run (module) | instance | what it shows |
|---|---|---|
| `ledger` (`AgentActions`; 170 000) | 2 executions, 1 action, 2 retries, a lease of 2 ticks | `EffectsAuthorised`: a side effect happens at most once per creation or granted retry, never by replay. `ObservationIsCurrent`: a settled action never carries a superseded result. `SingleHolder`: one execution at a time passes the fence. `SettledIsFinal`. `RunningIsResolved`: a running action of a run that keeps being dispatched is committed or becomes uncertain. `KeepsPromise`: the ledger implements `SideEffects`. |
| `job_queue` (`JobQueue`; 2 336 000) | 2 workers, 2 jobs, 2 attempts, 2 expiries, 1 crash | `NoJobLost`: a waiting job is in the list or in the hands of a live process, unless a crash stranded it. `BudgetKept`: waiting jobs have an attempt left and dead letters none, although stale copies are written back. |
| `workflow` (`MCWorkflow`; 2 363 000) | 2 workers, 2 requests, 3 calls of seven kinds, a chain of 2 tasks | `StartedAfterDependencies`, `SynthesisIsComplete`. |
| `chat_inline` (`ChatThread`; 167 000) | one process, 2 messages, 2 handlers, 1 exception, retry and cancellation | `RunOncePerMessage`, `NothingStranded`, `QueuedGetsItsTurn`. |
| `chat_replicas` (`ChatThread`; 1 350 000) | a process per handler, 1 each of exception, retry, cancellation, closing | `OneFreshRun`, `InflightIsOwned`. |
| `liveness` (`MCLive`; 285 000) | jobs: 1 worker, 2 jobs, 4 expiries, 1 crash; workflow: 1 worker, 4 tasks, one of which joins two; loop: 1 executor, 2 attempts, 2 actions, 1 disturbance; triggers: 2 schedulers, 1 worker, a window with 2 due times, 1 disturbance; sandbox: 1 thread, 2 sessions, 2 disturbances | `JobSettles`, `WorkflowSettles`, `ExecutionEnds`, `SlotsServed`, `PodsReclaimed`, and what holds on the way: `OneWorkerKeepsOrder`, `ApprovedWhileOpen`, `RunsAreAnswered`, `SlotsAreAccounted`, `PodsAreKept`. |
| `platform` (`MCPlatform`; 1 180 000) | 17 instances of the services of an installation | `KeepsPromise` (idempotent requests implement `OncePerKey`), `ReportsAreProven`, `GatewayIsGoverned`, `SandboxesAreAccounted`, `ContentIsAccounted`, `AccountsHold`. |
| `assistant` (`MCAssistant`; 1 660 000) | 25 instances of what the assistant is built from | `DecisionsProgress`, `SkillsAreReviewed`, `KnowledgeIsFaithful`, `OutsideIsMetOnce`, `AgentsAreGoverned`, `RecordsMatchWorkplaces`. |
| `reconnect_twice`, `chat_wakeup`, `approval_gate`, `skill_files` | the smallest instance with a counterexample | a statement of the repository that the code does not keep (section 6) |

`TypeOK` is a property of its own in `ledger`, `job_queue` and `chat_inline`; in the
suites it is a conjunct of a bundle.

Why the bounds are enough.  The races are between two actors: one holds something it has
read, another outdates it.  Two executions, workers, handlers or requests with two
objects to fight over show every pair of steps in every order.  A third generation of a
lease (`MaxRetry = 2`), a second attempt of a job or run (`MaxAttempts`, `MaxTries`) and
two rounds of a task (`MaxStarts = 2`) let a late actor meet its successor's successor.
One crash or failure at any point is what the requests of the services have to survive;
where a second matters (a retry that fails too) the bound is two, as the comment at the
instance says.  A request that is repeated is another request; `MaxStarted` and `MaxOps`
bound how many begin.  Instances of one module with different constants (`Drill` and
`Days`, `Pub` and `Obj` of `StoredObjects`, ...) each bring one kind of operation to its limits instead of
all of them half way.  The theorems of section 5 lift the bounds for the execution of
runs.  `JobQueue.cfg` adds the constraint `ExecsBounded` because two overlapping workers can
hand out a job without end (stale attempts are written back); with one worker the
constraint is not needed: `ExecutionsBounded` is proved there.  `CHECK_DEADLOCK FALSE`
stands where a workflow, a conversation, a run or a service may come to rest.  Symmetry
(interchangeable workers, messages, requests) is used in runs without liveness only.

## 4. Liveness and the fairness it assumes

- `RunningIsResolved` (AgentActions).  The clock runs (`WF` on `Tick`), and nothing else is
  assumed of the schedule: the code does not promise that a run is dispatched again.  The
  queue dead-letters a job after `worker_job_max_attempts`, inline dispatch never
  redelivers, and an execution whose renewal is refused returns, so that its job is
  acknowledged and the row stays `running` (`agent/loop.py:2688`).  The property therefore
  has the premise `Redelivered`: executions of the run get to the recovery again and
  again.  What it then says is that a lease is always outlived, and that no execution
  passes the recovery of an action that is left behind without marking it.
- `QueuedGetsItsTurn` (ChatThread).  Handlers go on, and the locks they wait for are free
  again and again (`SF`: a lock may be taken by the other handler in between); the loop
  comes to an end because of its time and iteration budget; an enqueued job is taken
  sooner or later.
- `JobSettles` (MCLive, jobs).  `WF` on a worker's next step (it polls for ever and every
  call returns), on the second half of an enqueue that has begun, on the end of leases
  and delays.  No fairness on failures, crashes or successes.
- `WorkflowSettles` (workflow).  `WF` on handlers that have begun and on workers taking a
  job.  No user is obliged to call anything.
- `ExecutionEnds` (loop).  `WF` on the graph's next node: LangGraph runs node after node,
  and every call in a node has a time limit.  Not on dispatch, approval or retry.
- `SlotsServed` (triggers).  `WF` on schedulers, the worker and the clock.  Schedulers may
  die, once; dispatch by a live one is not assumed beyond its own steps.
- `PodsReclaimed` (sandbox).  `WF` on the steps of the request thread, on the arrival of
  further requests (each begins with a clean-up) and on the expiry of a session.

No fairness is assumed in `MCPlatform` and `MCAssistant`, which check safety only.
The fairness of a component of `MCLive` is on its own steps within the part it runs in.  The constants of a component
are the suite's; `JobSettles` and `PodsReclaimed` are stated of one job and one session,
which is enough because they are alike.

## 5. What is proved

TLAPS checks all of this for every value of the constants; "with" names a hypothesis of
the theorem beyond the module's named `ASSUME`s.

| theorem | statement |
|---|---|
| `AgentActionsProofs`: `TypeCorrect`, `AtMostOncePerAuthorisation`, `NoLateObservation`, `FenceIsExclusive` | `Spec => []TypeOK`, `[]EffectsAuthorised`, `[]ObservationIsCurrent`, `[]SingleHolder` |
| `SettledActionsAreFinal` | `Spec => SettledIsFinal` (an action property) |
| `LedgerKeepsPromise` | `Spec => KeepsPromise`: the ledger implements `SideEffects` |
| `AgentLoopProofs`: `LoopInvariant`, `StatesAreWellFormed`, `ApprovalComesFirst` | `Spec => []IndInv`, `[]TypeOK`, `[]ApprovedWhileOpen`, with `Settings` |
| `EndsAreAnnounced`, `WaitingRunsAreAnswerable` | `Spec => []EndedIsAnnounced`, `[]WaitingIsAnswerable`, with `Settings` |
| `DecisionsAreBounded` | `Spec => []DecisionsBounded`, with `Settings` and `MaxIterations \in Nat` |
| `MCLive`: `ToolsWaitForApproval`, `RunsCanBeFollowed` | `LiveSpec => []ApprovedWhileOpen`, `[]RunsAreAnswered` |
| `JobQueueProofs`: `QueueTypes`, `WaitingJobsAreFound`, `RetryBudgetIsKept` | `Spec => []TypeOK`, `[]NoJobLost`, `[]BudgetKept` |
| `HandoutsAreBounded`, `EndedRunsStayEnded` | `Spec => []ExecutionsBounded`, `TerminalIsFinal`, with `OneWorker` |
| `WorkflowProofs`: `WorkflowTypes`, `DependenciesComeFirst`, `NothingIsLeftOut` | `Spec => []TypeOK`, `[]StartedAfterDependencies`, `[]SynthesisIsComplete` |
| `ConcurrencyIsKept`, `TasksStartOnce`, `OneFinalAnswer`, `ParentTellsTheSame` | `Spec => []ConcurrencyKept`, `[]StartedOnce`, `[]SynthesizedOnce`, `[]ParentAgrees`, with `Undisturbed` |
| `ChatThreadProofs`: `ThreadTypes`, `RunsStartOneAtATime`, `NoOrphanInFlight` | `Spec => []TypeOK`, `[]OneFreshRun`, `[]InflightIsOwned` |
| `ThreadIsLocked`, `MessageRunsOnce`, `QueueNeverStrands` | `Spec => []OneInLock`, `[]RunOncePerMessage`, `[]NothingStranded`, with `Inline` |
| `ReservedKeyIsAnsweredOnce` | `Keys!Spec => Keys!KeepsPromise`: idempotent requests implement `OncePerKey`, with `KeyConstants` |
| `TriggerSchedulerProofs`: `HoldsOn`, `Evaluated` | the invariant of a schedule is preserved by every step; what `evaluate_trigger_schedule` returns, with `Settings` |
| `MCLive`: `TriggersAreServed` | `LiveSpec => []SlotsAreAccounted`: no due time is skipped or fires twice, no run is lost, for every cron expression and window |
| `SandboxSessionsProofs`: `SafetyGoesOn`, `DestroyedPodsAreGone` | every step preserves the invariant; `Spec => []DestroyedIsGone /\ KeptWhileYoung`, with `Settings` |
| `CountingGoesOn`, `LimitsHoldButForOthers` | every step preserves the counting invariant; `Spec => []OvershootBounded`, with `Settings` and `Limits` |
| `MCLive`: `OrderIsKept`, `SessionsKeepTheirPods` | `LiveSpec => OneWorkerKeepsOrder`, `PodsAreKept` |

The `ASSUME`s: bounds are naturals, `None` is no action, job or message, a lease lasts at
least one tick, a job has at least one attempt, the sets of tasks and messages are
finite, workers and users are disjoint.  TLC evaluates them on every run.  No assumption
is made on the task graph (not even that it is acyclic) nor on the number of workers.

The hypotheses, and why they are where they are:

- `Settings` (AgentLoop): `worker_job_max_attempts` is at least 1 and the number of
  actions is a natural.  `LoopConstants` of `MCLive` assumes the same, and that
  `loop_max_iterations` is a natural, where TLC evaluates it.
- `OneWorker` (JobQueue): a deployment with a single agent worker, the one the comment at
  `workflow.py:230` presumes.  With two workers a stale attempt count is written back and
  a run that ended is put back to RETRYING: both statements are false.
- `Undisturbed` (Workflow): a single worker and a single request about the workflow (its
  approval).  With two workers `StartedOnce` and `SynthesizedOnce` fail; with a retry a
  task starts again by intention; with a pause or cancellation `ParentAgrees` can be
  crossed by the worker's own writes.
- `Inline` (ChatThread): dispatch mode "inline", where the handlers of `post_message` and
  `continue_thread` exclude each other.  In the other mode both statements are false:
  `chat_wakeup` is the counterexample to the second, section 6 names the first.
- `Settings` (TriggerScheduler): the clock and the bounds are naturals, a job has an
  attempt, the workers are finite in number, and the cron expression matches some minute
  after the horizon and not before `starts_at` (where there is none, `next_after` raises and
  the schedule is not evaluated).  Nothing is assumed of the number of
  schedulers, of `max_catch_up_runs` or of the window.  `TriggerConstants` of `MCLive`
  assumes the same, where TLC evaluates it.
- `Settings` (SandboxSessions): sessions are numbered with positive naturals, the bound on
  faults is a natural and the endpoints are the four there are.  Nothing is assumed of the
  limits, of the runs or of the number of threads.  `BoxConstants` of `MCLive` assumes it.
- `Limits` (SandboxSessions), for `OvershootBounded`: sessions and threads are finite in
  number, there is a thread at least, and both limits are naturals, 0 included.
  `BoxConstants` assumes it too.
- `KeyConstants` (Idempotency): the mark of a missing record is neither a request nor a hash.
- `QueueConstants`, `FlowConstants` (MCLive): what `JobQueue` and `Workflow` assume of their
  constants, with `OneWorker` and `Undisturbed`, which hold of the deployment that
  `OneWorkerKeepsOrder` is about.

Each proof rests on an inductive invariant, checked with TLC before it was proved.

- **AgentActions.**  `EffectsAuthorised` counts effects, which says nothing about what a
  worker is about to do.  `ClaimBudget` says that a claim uses up an authorisation,
  `WorkerHasAction` and `GenerationsDistinct` that workers past their claim hold different
  generations, `OneEffectPerGeneration` that a generation has not performed until its
  worker reached the tool call.  The fence of the commit then yields
  `ObservationIsCurrent`, and `GenerationsDistinct` yields `SingleHolder`.  For the
  refinement, a claim is no abstract step, a tool call is `Perform`, a resolution or
  reconnection is `Permit` or `Reopen`, a commit is `Settle`.
- **AgentLoop.**  The difficulty is that an execution works on a copy of the state that
  may be older than the row, and the row older than the log.  `Sound` says of a state
  that each gated step it takes for approved was approved by a person; `Matches`, that
  the request it names was made for the step it pauses at.  Both fail for states that fell
  behind, so they are claimed up to `Stale`: a state whose checkpoint number is below
  the log's can do no harm, because `_restore_state` prefers the log and
  `create_agent_checkpoint` refuses its number.  The thread of an approval is the exception:
  it holds the state it read, and trusts it, while the run may be retried; so between
  `ResumeAfterApproval` and `SaveResumed` even `Sound` is claimed only up to `Stale`.
  `Guarded` collects this for the row, the log and every executor.  It is claimed while
  no status was written over a terminal one
  (`Clean`), since that is how a run comes back into execution with a request that was
  meant for an earlier one: `approval_gate` is that counterexample.  Proving it showed
  that a write that is followed by a refused checkpoint number overwrites too; the
  bookkeeping of `upset` had left that case out.

  Three more invariants stand on this one.  `EndsAreTold`: the event, the message, the
  status and the flag `emitted` are written one by one, so it says of every state that
  could still be restored that it claims no more than was told.  `Answerable`: an
  execution about to pause names a pending request, and nobody is beyond `observe` while
  the run awaits; a death between the writes of status and state leaves either.
  `Budgeted`: what is counted is saved only later, so `IsCounted` compares `asked` with
  the count in the state that a new execution *would* restore, plus one at the nodes where
  a decision has been asked for and not saved (`Lag`); each death adds one to `lost`.  The
  last two rest on `OneByOne`: until a second execution begins there is one at a time.
- **JobQueue.**  `HandsOK` says that a worker past `lpop` has a job and only takes one
  with an attempt left; with it, `BudgetKept` and `NoJobLost` are inductive.  With one
  worker, `SoleWorker` adds that its copies of the attempts are those of the hash.
- **Workflow.**  `ListingsSound` says that what a listing showed of dependencies remains
  true of the history `done`; `RunsCreated` and `ReportsFinal` tie what is executed and
  reported to runs that exist and have ended.  Undisturbed, `OneAtATime` says that the
  request and the worker take turns, `HeadsInStep` which handler still owes the parent
  or the workflow its write, `TasksInStep` that what a handler has read of a task still
  holds when it acts, `RunsInStep` and `SlotsKept` bound the active and claimed tasks.
- **ChatThread.**  `EndsRecorded` and `RunsKnown` tie handlers to the messages and runs
  they act on.  `OneFreshRun` follows because only `CreateRun` makes a run active that has
  never ended, and it looks for active runs in its transaction; `InflightIsOwned` because
  every exit of the handlers writes the message first.  Inline, `OneInLock` makes the
  sweep of `continue_thread` sound (`FreshAreWaiting`), and `SomeoneCares` says that
  whoever waits has an active run before him or a continuation under way that finds him.
- **TriggerScheduler.**  Schedulers and workers share the jobs only: a worker leaves every
  job's due time alone and a scheduler only adds jobs, so the invariant has two halves,
  each of which survives the other side's steps (`SlotsUntouched`, `RunsUntouched`).
  `NoSlotSkipped` says nothing of an evaluation in progress.  `NoGap` does: from the first
  due time up to the one a scheduler will write, each has a job or is still to be
  enqueued by this scheduler.  Every death or overlap only evaluates again from the same
  row, since `next_run_at` is written last; but without `starts_at` the first evaluation
  starts from the clock, so a death before it was written loses what was due, and the
  statement is claimed for schedules with `starts_at`, or until schedulers have overlapped
  or died.  `InOrder` says that what has a job lies before what has none, whence
  `SlotFiresOnce`, claimed until an overlap, a death or an evaluation that clears
  `next_run_at` inside the window (section 6): after each of them the code does enqueue a
  due time again.  It rests on `Evaluated`: the loop collects the first `CatchUp` due
  times from `next_run_at` on and goes on with the one after the last, leaving none out.
  For the workers, `AttemptsCounted` counts the runs of a job together with every worker
  that may still create one or put the job back, and with the job itself while it waits:
  there is one more than the attempts that broke off, at most.  `HoldsItsRun` ties a worker to its
  job and its run, whence a job that is acknowledged has a run with an execution.
- **SandboxSessions.**  A step may rely on what its thread read several calls ago, while
  others create, delete and rebuild.  `MemoryIsSound` says what never becomes wrong by
  waiting: a pod that was created stays created or deleted, so whatever is remembered, listed
  or to be deleted exists; and what `Confirm` is about to report has been deleted.
  `OnlyWhatIsDue` says, of every session a request is about to delete, that it is too old, or
  an orphan while the cleanup is on, or what the request was asked to destroy; `OneCreator`,
  that a session has one creator, so that the deletion of a pod that does not get ready hits no
  session that was handed out.  `PhasesInOrder` keeps the phases of a request apart.  A step
  changes the record of one thread: `Moved` reduces the invariant to what the step does to
  cluster and memory (`Grows`) and to that record (`Fits`).
  `OvershootBounded` needs `CountInv` besides.  `Taken` are the sessions with a pod and those
  whose pod is about to be applied; the claim is made for `Taken`, since an admission is no
  pod yet.  `Followed`: while the provider counts for a thread, the sessions it misses map
  one-to-one to other threads, each of which is creating its session or will list it before
  it is admitted again (`AboutToSee`).  An admission then takes the total to at most the limit
  and one for every other thread (`AdmittedWithin`), and becomes the session that the
  threads still counting find with this one (`AdmissionCounts`).  It rests on `SafeInv`: what
  a counting thread skips as destroyed has no pod, so it is not missed.
- **Idempotency.**  `OneExecution`: while no execution has outlived its reservation there
  is one at most, and it finds its own pending record when it saves or deletes.

Only model-checked: all liveness, which is out of the prover's reach (fairness and
`ENABLED`); the bundles of `MCPlatform` and `MCAssistant`
(`ReportsAreProven`, `GatewayIsGoverned`, `SandboxesAreAccounted`, `ContentIsAccounted`,
`AccountsHold`, `DecisionsProgress`, `SkillsAreReviewed`, `KnowledgeIsFaithful`,
`OutsideIsMetOnce`, `AgentsAreGoverned`, `RecordsMatchWorkplaces`), each of which is about
several modules with constants fixed by the suite, so that a theorem about a bundle would need the
inductive invariants of all of them; and the counterexamples.  Of `SandboxesAreAccounted`,
the conjunct about the session limits is `OvershootBounded` of `SandboxSessions`, which is
proved.

## 6. Where code and repository disagree

Runs with `expect: violation`; the quotations are in `PROJECT.json`.

1. `reconnect_twice`: the commit drops the counter that limits a reconnection to one retry
   (`store.py:1040`).
2. `chat_wakeup`: a message is queued behind a run that has just ended and nobody continues
   the thread (`chat/service.py:426`).
3. `approval_gate`: a request left pending by an earlier execution is approved after
   policy failed the run; the tool is called (`agent/runtime.py:423`).
4. `skill_files`: a run gets the instructions of one version of a skill and the files of
   another (`agent/loop.py:1059`).

### Deviations met while modelling, without a run of their own

Some are properties of a module that no run lists because the code does not keep them;
the name is given, and adding it to an instance of the module produces the
counterexample.  The others are kept out of the properties by their hypotheses or
history variables, at the place named.

- *Ledger and loop.*  `CancelIsFinal` (AgentActions): `observe` writes RUNNING over a
  cancellation that arrived after its check (`agent/nodes.py:145`); `pause` and
  `wait_user` overwrite likewise, also when their checkpoint is refused.
  `graph.py` has no edge from verify and repair to its end.  A crash inside `_fail` or
  after an approval leaves the run without event or job.  `_complete_approval_request`
  has no guard on the status (`db/repository.py:2547`), and a request that is approved
  already can be resumed again.  A static plan's step is popped and saved before its
  action exists, so that a crash skips it; the final response after a failed interface is
  streamed without a check of the budget (`agent/loop.py:1421`); tools withdrawn from the
  offer are not refused when named.
- *Queue.*  `RunIsSerialized`: the lease of a job is shorter than a run may take and is
  not renewed, so two workers execute one run (`workers/queue.py:296`).
  `DeadLetterEndsRun`: the reap inside `claim` drops the dead letters it makes
  (`workers/queue.py:272`), so that their runs stay RUNNING.
- *Workflow.*  `ready_runs` and `complete_child` presume one worker, two are deployed
  (`workflow.py:230`, `src/infra/k8s/worker.yaml:10`): `StartedOnce`, `SynthesizedOnce`
  and `ConcurrencyKept` fail.  `PausedIsQuiet`: `complete_child` tests a status it read
  before its own writes (`workflow.py:245`).
- *Chat.*  `OneActiveRun`: each answer to a waiting run enqueues it, and a second
  execution writes WAITING_FOR_USER over an ended run (`agent/loop.py:3027`).
  `RunOncePerMessage` without `Inline`: two continuations list the same steering message
  and the later one requeues it after its run has started (`chat/service.py:343`).
  `QueueMovesOn` after an exception: `execute_chat_run_chain` returns without
  `continue_thread` (`app.py:2021`).  `SteeringIsHeard`: a message that arrives before the
  first checkpoint of a run that then waits is neither applied nor requeued
  (`agent/loop.py:3504`).
- *Decisions and guardrails.*  The guardrails of a model call stand in `_create_plan` only:
  `_decide` and `execute_chat` ask without them.  An approval key names the rules that
  matched and no detector's finding beside them, approved content passes unredacted, and
  an answer that is held or blocked is not billed.  A workflow's preview raises where a
  graph would wait for a person, and dies between the workflow and its approval request
  with nobody to approve it.  A death between the checkpoint of a failed plan step and the
  fail node makes the next execution go on with the step after it.
- *Triggers.*  When the next due time lies beyond `ends_at` it is cleared and the trigger
  fires again from `starts_at` (`triggers/scheduler.py:115`); due times that are late are
  dropped after `ends_at`; without `starts_at` a scheduler that dies before it has written
  `next_run_at` skips what was due.  Connector events are not deduplicated; endpoints create runs
  of triggers without a job; the depth of a hand-off is the caller's word.
- *Models.*  The in-memory limiter counts successes, after the call; the change of a
  provider between reading its row and numbering its version is lost
  (`model_gateway/repository.py:917`); a death between applying and saving leaves the
  request pending; other replicas are never refreshed.
- *Sandboxes.*  An apply that stops between a pod and its policy makes every later listing
  fail; a listing that is out of date resurrects a destroyed session in memory or lets
  the orphan clean-up delete a new one.  A run that overtakes another one loses the paused
  session; the clean-up of a cancellation can hit the next run's session; an error while a
  snapshot is captured clears the reference of a live session (`agent/runtime.py:2718`);
  `attachments_materialized` survives the replacement of a lost session.
- *Stored objects and tenants.*  The delete endpoint does not look at legal holds and the
  retention job not at agents' pins; a deletion that races an upload leaves content without
  a row; approving one artifact's guardrail key approves later ones with the same rules.
  Racing requests about a plan write whole rows; the deletion of a second plan deletes the
  first one's export.
- *Acceptance.*  `object_missing` takes any error for a deletion
  (`storage/object_storage_verification.py:184`), the scope checks count a 401 as enforced
  (`deployment/api_verification.py:319`), two scripts exit 0 on a flaw they report, a
  session whose creation's answer was lost is not cleaned up; the package is opened again
  after its hash was verified (`deployment/release_package.py:437`).
- *Restore drills.*  A racing job or request overwrites a verdict; a schedule without a
  next day skips one if its scheduler dies.
- *Skills.*  Publishing by id and the installation of a pack bypass the evaluation gate;
  an interrupted installation leaves a high-risk skill on; installing from the store again
  disables an approved skill; an explicit evaluation may be an old pass.  Two drafts applied
  at once lose skills; reviewing an applied candidate again deletes its draft.
- *Accounts.*  A login that checked the old password opens a session after the revocation;
  two resets by one link both succeed; an invitation revoked while it is accepted still
  makes a member; the directory never enables or withdraws roles.
- *Memory and knowledge.*  Review of a long-term record checks no status; overlapping or
  interrupted saves leave two records; a sync batch that failed half way can never
  succeed; the endpoint writes PENDING after the job was enqueued (`app.py:5150`).
- *Connectors.*  An invocation that names an approved manifest sends its own request's
  input; overlapping or interrupted applies send twice; whole-row saves lose a status
  change; two refreshes lose the refresh token.
- *Agents.*  Two publications leave two published rows (`agents/repository.py:219`); a run
  is refused when a publication commits between two reads (`agents/service.py:463`); the
  weighted score counts cases with errors; baselines can ratchet down.  `refresh_events`
  never reads the engine's status, and a cancellation never reaches the engine;
  attaching a workspace after the session started overwrites its status
  (`agent/runtime.py:369`).
- *Browser profiles.*  `CloseIsPossible`: the browser service has no route for exporting
  a session's state (`sandbox/playwright_service.py:84`), which
  `sandbox/browser.py:308` calls, so closing a session with a profile fails with that
  provider (`Exports = FALSE`); the instances assume a service that has it.

## 7. What is left out

- *AgentActions*: planning, approvals and checkpoint contents are `AgentLoop`'s; a pause is
  one action there.  *AgentLoop*: prompts, tools, cost and time budgets other than
  iterations and repairs, the contents of observations.  *NextDecision*: the wording of
  corrections; whether a call is well-formed is the model's choice.
- *AgentLoop*, the handlers of people: `reject_approval`, `cancel_run` and the retry write
  the request, the run, the action, the state and the checkpoint by separate store calls;
  each is one step of the model, so that deaths and other requests between those calls are
  not explored.  `resume_after_approval` (`agent/runtime.py:423`) is three: reading the
  state and granting the request are one, and so are saving the state and the load with
  which `execute_run` begins.
- *NextDecision*: which calls are commands or save a memory (`Commands`, `Saves`) and which
  errors are a command's own exit status (`Exits`, the class `command_failed`) are constants
  of an instance.
- *JobQueue*: `InMemoryJobQueue` (the sequential special case), `fail` (no worker calls it),
  two jobs for one run.  *Workflow*: the status "blocked" (never written), graph
  validation, summaries, the 100-iteration bound of the inline chain, crashes of a
  coordinator.  *ChatThread*: text and edits, the death of a process between two steps, the
  policy that refuses steering (never configured).  A succeeded run counts as retryable,
  which the code refuses; no property rests on it.  *TriggerScheduler*: parsing of cron
  expressions (due times are a set of numbers), delivery of results.
- *SandboxSessions*: `list_known_sandbox_sessions` lists once for sessions without a tenant
  and once for each known tenant, and `enforce_sandbox_session_limits` lists again; the
  model lists once in each phase.  *BrowserProfiles*: `Close` reads the profile and exports
  the session's state in one step.
- *ActionManifests*: one execution of the run asks at a time, and the pause after a tool
  that reports the need for an approval (`agent/nodes.py:650`), retries of the run and a
  person's verdict on an uncertain action are left to `AgentLoop` and `AgentActions`.
  `CancelRun` is one step.  The check of `validation_payload` (`app.py:13608`) is left out:
  a missing scope is refused before a manifest is made, so that it never fails.
- *Services*: prompts, prices and token limits; cluster details below a kubectl call; the
  E2B and Docker adapters beyond their checks; retrieval and ranking; the text of
  manifests, specs and reports; leases of secrets; MCP discovery; single sign-on.
- *Guardrails*: patterns, text spans and the wording of a redaction; the guardrails on artifacts and memory.
- Not modelled at all: observability and audit, sharing and support, billing and licensing, rendering,
  configuration, migrations, the web client.  `PROJECT.json` gives each its reason.

## 8. Next steps

1. `ChatThread` with a process that dies between the creation of a run and its job; the
   hazard at `workers/agent_worker.py:144` has no property until then.

## 9. Running it

    tlc -config AgentActions.cfg AgentActions
    tlc -config MCLive.cfg MCLive
    tlapm SandboxSessionsProofs.tla
    tlapm MCLive.tla

`PROJECT.json` names the module and the configuration of every run.
