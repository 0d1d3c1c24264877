------------------------------- MODULE MCLive -------------------------------
(***************************************************************************)
(* What must eventually happen, component by component.  A behaviour        *)
(* belongs to one component, named by part and chosen at the start; s1, s2, *)
(* ... are that component's variables in the order it declares them, and    *)
(* the ones it does not need stay 0.                                        *)
(***************************************************************************)
EXTENDS Naturals, Sequences, FiniteSets, TLAPS

CONSTANTS
    None,            \* no job, no due time
    QueueWorkers,    \* the agent worker of the queue
    QueuedJobs,      \* its jobs
    MaxExpiry,       \* bound of the leases that expire
    MaxCrash,        \* bound of the processes that crash
    Tasks, DependsOn,  \* the workflow's graph of tasks
    MaxConcurrency,  \* what it may run at once
    FlowWorkers,     \* the worker that executes its tasks
    Users, UserOps,  \* the request about it, and what it may be
    MaxStarts,       \* bound of the child runs of a task
    Executors,       \* threads that may execute the agent's run
    MaxIterations,   \* loop_max_iterations
    MaxRepairs,      \* loop_max_repairs
    MaxTries,        \* worker_job_max_attempts
    MaxActions,      \* bound of the actions the model chooses
    MaxTrouble,      \* bound of crashes, cancellations and retries of the run
    CronSlots,       \* minutes the trigger's cron expression matches
    StartsAt, EndsAt,  \* window of its schedule
    CatchUp,         \* max_catch_up_runs
    Horizon,         \* bound of the clock
    Schedulers,      \* processes that evaluate the schedule
    DueWorkers,      \* workers that serve its due times
    MaxAttempts,     \* attempts of a job, also of that of a due time
    MaxJobs,         \* bound of the jobs of due times
    MaxFault,        \* bound of exceptions, crashes and overlaps
    MaxSwitch,       \* bound of enabling, disabling and deleting the trigger
    Threads,         \* request threads of the sandbox controller
    SessionIds,      \* its sessions
    RunOf,           \* the run each is for
    SessionLimit, RunLimit,  \* of sessions at once, and of those of a run
    MaxFailures      \* bound of kubectl calls that fail and restarts

\* For TLC: four tasks of which the last joins two, sessions of one run.
Joined == [t \in Tasks |-> IF t = 4 THEN {1, 2} ELSE {}]
OneRun == [s \in SessionIds |-> "r"]

ASSUME LoopConstants ==
    MaxTries \in Nat \ {0} /\ MaxActions \in Nat /\ MaxIterations \in Nat

VARIABLES part, s1, s2, s3, s4, s5, s6, s7, s8, s9, s10, s11, s12, s13, s14, s15,
          s16, s17, s18

vars == <<part, s1, s2, s3, s4, s5, s6, s7, s8, s9, s10, s11, s12, s13, s14, s15,
        s16, s17, s18>>

\* One agent worker: leases expire and processes crash.
Jobs == INSTANCE JobQueueProofs WITH status <- s1, attempts <- s2, expired <- s3,
    delayed <- s4, pending <- s5, dead <- s6, pc <- s7, job <- s8, seen <- s9,
    todo <- s10, buried <- s11, submitting <- s12, run <- s13, stranded <- s14,
    execs <- s15, expiries <- s16, crashes <- s17, Workers <- QueueWorkers,
    Jobs <- QueuedJobs

\* One worker runs a workflow after one request.
Flow == INSTANCE WorkflowProofs WITH wf <- s1, parent <- s2, approval <- s3, task <- s4,
    child <- s5, started <- s6, run <- s7, jobs <- s8, pc <- s9, cur <- s10,
    wfSeen <- s11, todo <- s12, stop <- s13, made <- s14, goal <- s15, ops <- s16,
    done <- s17, synths <- s18, Workers <- FlowWorkers, MaxOps <- 1

\* The executions of one run, which may crash, be cancelled or be retried.
Loop == INSTANCE AgentLoopProofs WITH run <- s1, saved <- s2, ckpt <- s3, acts <- s4,
    appr <- s5, msg <- s6, jobs <- s7, at <- s8, st <- s9, via <- s10,
    effects <- s11, finals <- s12, asked <- s13, lost <- s14, upset <- s15,
    trouble <- s16

\* Schedulers and workers serve a trigger.
Trig == INSTANCE TriggerSchedulerProofs WITH now <- s1, status <- s2, nextRun <- s3,
    read <- s4, due <- s5, upcoming <- s6, spc <- s7, jobs <- s8, wpc <- s9,
    job <- s10, run <- s11, runs <- s12, faults <- s13, switches <- s14,
    first <- s15, overlap <- s16, reopened <- s17, interrupted <- s18,
    Slots <- CronSlots, Workers <- DueWorkers

ASSUME TriggerConstants == Trig!Settings

\* The controller of the sandboxes: the process restarts, kubectl fails.
Box == INSTANCE SandboxSessionsProofs WITH pod <- s1, mem <- s2, old <- s3, req <- s4,
    tenants <- s5, orphanCleanup <- s6, given <- s7, trouble <- s8,
    Handlers <- Threads, Sessions <- SessionIds, MaxSessions <- SessionLimit,
    MaxSessionsPerRun <- RunLimit, MaxTrouble <- MaxFailures, CleanupModes <- BOOLEAN,
    Ops <- {"probe", "create", "destroy", "command"}

ASSUME BoxConstants == Box!Settings /\ Box!Limits

ASSUME QueueConstants ==
    /\ None \notin QueuedJobs /\ MaxAttempts \in Nat \ {0}
    /\ MaxExpiry \in Nat /\ MaxCrash \in Nat /\ Jobs!OneWorker
ASSUME FlowConstants ==
    /\ Tasks # {} /\ IsFiniteSet(Tasks) /\ DependsOn \in [Tasks -> SUBSET Tasks]
    /\ MaxConcurrency \in Nat \ {0} /\ MaxStarts \in Nat
    /\ FlowWorkers \cap Users = {} /\ Flow!Undisturbed

rest18 == <<s18>>
rest17 == <<s17, rest18>>
rest9 == <<s9, s10, s11, s12, s13, s14, s15, s16, rest17>>

Idle18 == s18 = 0
Idle17 == s17 = 0 /\ Idle18
Idle9 == s9 = 0 /\ s10 = 0 /\ s11 = 0 /\ s12 = 0 /\ s13 = 0 /\ s14 = 0 /\ s15 = 0 /\ s16 = 0 /\ Idle17

LiveInit ==
    \/ part = "jobs" /\ Jobs!Init /\ Idle18
    \/ part = "workflow" /\ Flow!Init
    \/ part = "loop" /\ Loop!Init /\ Idle17
    \/ part = "triggers" /\ Trig!Init
    \/ part = "sandbox" /\ Box!Init /\ Idle9

\* A step of the component named, the rest standing still.
Only(p, A) == part = p /\ A /\ UNCHANGED part

JobsStep(A) == Only("jobs", A) /\ UNCHANGED rest18
FlowStep(A) == Only("workflow", A)
LoopStep(A) == Only("loop", A) /\ UNCHANGED rest17
TrigStep(A) == Only("triggers", A)
BoxStep(A) == Only("sandbox", A) /\ UNCHANGED rest9

LiveNext ==
    \/ JobsStep(Jobs!Next)
    \/ FlowStep(Flow!Next)
    \/ LoopStep(Loop!Next)
    \/ TrigStep(Trig!Next)
    \/ BoxStep(Box!Next)

\* Each component has the fairness its own module states and the README
\* argues for: threads, workers and schedulers are not stopped for ever.
LiveSpec ==
    /\ LiveInit /\ [][LiveNext]_vars
    /\ \A w \in QueueWorkers : WF_vars(JobsStep(Jobs!ProcessNext(w)))
    /\ \A j \in QueuedJobs : /\ WF_vars(JobsStep(Jobs!EnqueuePush(j)))
                            /\ WF_vars(JobsStep(Jobs!Expire(j)))
                            /\ WF_vars(JobsStep(Jobs!Elapse(j)))
    /\ \A a \in FlowWorkers \cup Users : WF_vars(FlowStep(Flow!Coordinate(a)))
    /\ \A w \in FlowWorkers : WF_vars(FlowStep(Flow!Work(w)))
    /\ \A u \in Users : WF_vars(FlowStep(Flow!Serve(u)))
    /\ \A w \in Executors : WF_vars(LoopStep(Loop!Graph(w)))
    /\ \A p \in Schedulers : WF_vars(TrigStep(Trig!SchedulerNext(p)))
    /\ \A w \in DueWorkers : WF_vars(TrigStep(Trig!WorkerNext(w)))
    /\ WF_vars(TrigStep(Trig!Tick))
    /\ \A h \in Threads : WF_vars(BoxStep(Box!Arrive(h))) /\ WF_vars(BoxStep(Box!Step(h)))
    /\ \A s \in SessionIds : WF_vars(BoxStep(Box!Expire(s)))

-----------------------------------------------------------------------------
\* One agent worker, the deployment the repository's comments name: a job is
\* handed out max_attempts times at most (queue.reject, _reap), and a run that is
\* terminal is not put back to RETRYING (agent_worker).  A workflow keeps its
\* max_concurrency and starts a task once unless it is retried (ready_runs), its
\* thread gets one final answer (complete_child), and when no handler is in
\* progress the parent run tells the same story as the workflow (workflow.py).
OneWorkerKeepsOrder ==
    /\ [](part = "jobs" => Jobs!ExecutionsBounded)
    /\ [](part = "workflow" => /\ Flow!TypeOK
                               /\ Flow!ConcurrencyKept /\ Flow!StartedOnce
                               /\ Flow!SynthesizedOnce /\ Flow!ParentAgrees)
    /\ [][part = "jobs" => Jobs!StaysTerminal]_vars

\* The tool of an action that requires approval is called only after a person
\* approved that very action, whatever was cancelled, retried, restored from an
\* older checkpoint or executed again in between, as long as no write of a status
\* took a run that had ended back into execution (_requires_approval).
ApprovedWhileOpen == part = "loop" => Loop!ApprovedWhileOpen

\* A person can always follow a run: while it awaits an approval and nobody
\* executes it, its saved state names a request that is still pending
\* (_pause_for_approval); once it has ended it has told so exactly once and its
\* trigger message is settled the same way (_emit_terminal_once,
\* _complete_trigger_message); and an attempt asks the model at most
\* loop_max_iterations times, plus once for every execution of it that raised
\* or died (_budget_failure).
RunsAreAnswered ==
    part = "loop" => /\ Loop!TypeOK /\ Loop!WaitingIsAnswerable
                     /\ Loop!EndedIsAnnounced /\ Loop!DecisionsBounded

\* Schedulers may work from one listing, write back in any order and die:
\* next_run_at never passes a due time that has no job (of a schedule without
\* starts_at, unless one died or two overlapped), and a due time gets one job unless a
\* scheduler died before it moved next_run_at, two overlapped or an evaluation within
\* the window left next_run_at empty (process_due, update_next_run_at).  A job creates one
\* run, and one more for each attempt that was broken off; once it is
\* acknowledged a run is queued and has a job to execute it (process_next).
SlotsAreAccounted ==
    part = "triggers" => /\ Trig!TypeOK /\ Trig!NoSlotSkipped /\ Trig!SlotFiresOnce
                         /\ Trig!RunsAccounted /\ Trig!AckedHasExecution

\* A session the Kubernetes controller reports as destroyed has no pod left,
\* although other threads keep rebuilding its memory from earlier listings
\* (destroy); and with the orphan cleanup off, a session handed to a client is
\* not taken away before its time unless its destruction was asked for (cleanup).
PodsAreKept ==
    /\ [](part = "sandbox" => Box!TypeOK /\ Box!DestroyedIsGone)
    /\ [][part = "sandbox" => Box!NotTakenEarly]_vars

\* Every job that was enqueued ends as succeeded or as a dead letter, unless a
\* crash strands it, whatever runs fail and whatever leases expire (queue.py).
\* The two jobs are alike: it is checked of one.
JobSettles ==
    LET j == CHOOSE x \in QueuedJobs : TRUE
    IN  (part = "jobs" /\ Jobs!IsPending(j)) ~> (part = "jobs" /\ Jobs!IsSettled(j))

\* An approved workflow ends: no task is forgotten between two handlers.
WorkflowSettles ==
    (part = "workflow" /\ Flow!IsRunning) ~> (part = "workflow" /\ Flow!HasSettled)

\* No execution goes round in the agent's graph for ever, whatever the model
\* answers and wherever the run is cancelled (build_runtime_graph).
ExecutionEnds == \A w \in Executors :
    (part = "loop" /\ Loop!Executing(w)) ~> (part = "loop" /\ ~Loop!Executing(w))

\* Every due time of a trigger that stays enabled gets a run that is executed, or
\* its job ends as a dead letter, also after downtime (process_due).
SlotsServed == \A s \in {t \in CronSlots : t <= Horizon} :
    (part = "triggers" /\ Trig!IsDue(s)) ~> (part = "triggers" /\ Trig!ServedOrOff(s))

\* Every pod is reclaimed in the end, also one whose creation failed half way or
\* that a dead controller left behind, unless an apply stopped between a pod and
\* its policy (kubernetes.cleanup, _sync_sessions_from_cluster).
\* The two sessions are alike: it is checked of one.
PodsReclaimed ==
    LET s == CHOOSE x \in SessionIds : TRUE
    IN  (part = "sandbox" /\ Box!Runs(s)) ~> (part = "sandbox" /\ Box!GoneOrStuck(s))

-----------------------------------------------------------------------------
(* The agent loop keeps its invariant here, for every value of its constants *)

LoopHolds == part = "loop" => Loop!LoopSafe

LEMMA LoopStarts == LiveInit => LoopHolds
<1>1. Loop!Settings
  BY LoopConstants DEF Loop!Settings
<1>2. LiveInit /\ part = "loop" => Loop!Init
  BY DEF LiveInit
<1> QED BY <1>1, <1>2, LoopConstants, Loop!SafeAtFirst DEF LoopHolds

LEMMA LoopGoesOn == LoopHolds /\ [LiveNext]_vars => LoopHolds'
<1>1. Loop!Settings
  BY LoopConstants DEF Loop!Settings
<1>2. SUFFICES ASSUME LoopHolds, [LiveNext]_vars, part' = "loop" PROVE Loop!LoopSafe'
  BY DEF LoopHolds
<1>3. part = "loop" /\ [Loop!Next]_(Loop!vars)
  BY <1>2 DEF LiveNext, JobsStep, FlowStep, LoopStep, TrigStep, BoxStep, Only, vars,
              Loop!vars, Loop!rows, Loop!threads, Loop!history, Loop!tally
<1>4. Loop!LoopSafe
  BY <1>2, <1>3 DEF LoopHolds
<1> QED BY <1>1, <1>3, <1>4, LoopConstants, Loop!SafeStep

LEMMA LoopIsSafe == LiveSpec => []LoopHolds
BY LoopStarts, LoopGoesOn, PTL DEF LiveSpec

\* No tool that requires approval is called before a person approved that very
\* action, for any number of executions of a run at the same time, retries,
\* actions and iterations (_requires_approval, resume_after_approval).
THEOREM ToolsWaitForApproval == LiveSpec => []ApprovedWhileOpen
<1>1. LoopHolds => ApprovedWhileOpen
  BY LoopConstants, Loop!SafeMeans DEF LoopHolds, ApprovedWhileOpen, Loop!Settings
<1> QED BY <1>1, LoopIsSafe, PTL

\* A person can always follow a run, for any number of executions, retries,
\* actions and iterations: it can be answered while it waits, tells its end once
\* and asks for no more decisions than its budget (_pause_for_approval,
\* _emit_terminal_once, _budget_failure).
THEOREM RunsCanBeFollowed == LiveSpec => []RunsAreAnswered
<1>1. LoopHolds => RunsAreAnswered
  BY LoopConstants, Loop!SafeMeans DEF LoopHolds, RunsAreAnswered, Loop!Settings
<1> QED BY <1>1, LoopIsSafe, PTL

-----------------------------------------------------------------------------
(* The trigger keeps its invariant here, for every value of its constants *)

TriggerHolds == part = "triggers" => Trig!IndInv

LEMMA TriggerStarts == LiveInit => TriggerHolds
<1>1. LiveInit /\ part = "triggers" => Trig!Init
  BY DEF LiveInit
<1> QED BY <1>1, TriggerConstants, Trig!HoldsAtFirst DEF TriggerHolds

LEMMA TriggerGoesOn == TriggerHolds /\ [LiveNext]_vars => TriggerHolds'
<1>1. SUFFICES ASSUME TriggerHolds, [LiveNext]_vars, part' = "triggers" PROVE Trig!IndInv'
  BY DEF TriggerHolds
<1>2. part = "triggers" /\ [Trig!Next]_(Trig!vars)
  BY <1>1 DEF LiveNext, JobsStep, FlowStep, LoopStep, TrigStep, BoxStep, Only, vars,
              Trig!vars, Trig!trigger, Trig!schedulers, Trig!workers, Trig!history
<1>3. Trig!IndInv
  BY <1>1, <1>2 DEF TriggerHolds
<1> QED BY <1>2, <1>3, TriggerConstants, Trig!HoldsOn

LEMMA TriggerIsSafe == LiveSpec => []TriggerHolds
BY TriggerStarts, TriggerGoesOn, PTL DEF LiveSpec

\* A trigger neither skips nor repeats a due time, and a job it acknowledged has a run
\* that will be executed, for any cron expression, window and catch-up limit and any
\* number of schedulers, workers and attempts (process_due, process_next).
THEOREM TriggersAreServed == LiveSpec => []SlotsAreAccounted
<1>1. TriggerHolds => SlotsAreAccounted
  BY TriggerConstants, Trig!InvariantMeans DEF TriggerHolds, SlotsAreAccounted
<1> QED BY <1>1, TriggerIsSafe, PTL

-----------------------------------------------------------------------------
(* One worker keeps the queue and the workflow in order *)

QueueHolds == part = "jobs" => Jobs!IndInv /\ Jobs!SoleWorker
FlowHolds == part = "workflow" => Flow!UndisturbedInv

LEMMA OrderAtFirst == LiveInit => QueueHolds /\ FlowHolds
<1>1. LiveInit => (part = "jobs" => Jobs!Init) /\ (part = "workflow" => Flow!Init)
  BY DEF LiveInit
<1>2. Jobs!Init => Jobs!IndInv /\ Jobs!SoleWorker
  BY QueueConstants, Jobs!SoleAtFirst
<1>3. Flow!Init => Flow!UndisturbedInv
  BY FlowConstants, Flow!InitUndisturbed DEF Flow!Undisturbed, IsFiniteSet, Flow!IsFiniteSet
<1> QED BY <1>1, <1>2, <1>3 DEF QueueHolds, FlowHolds

LEMMA QueueGoesOn == QueueHolds /\ [LiveNext]_vars => QueueHolds'
<1>1. SUFFICES ASSUME QueueHolds, [LiveNext]_vars, part' = "jobs"
               PROVE  (Jobs!IndInv /\ Jobs!SoleWorker)'
  BY DEF QueueHolds
<1>2. part = "jobs" /\ [Jobs!Next]_(Jobs!vars)
  BY <1>1 DEF LiveNext, JobsStep, FlowStep, LoopStep, TrigStep, BoxStep, Only, vars,
              Jobs!vars, Jobs!hash, Jobs!lists, Jobs!crew, Jobs!counts
<1>3. Jobs!IndInv /\ Jobs!SoleWorker
  BY <1>1, <1>2 DEF QueueHolds
<1> QED BY <1>2, <1>3, QueueConstants, Jobs!SoleKept

LEMMA FlowGoesOn == FlowHolds /\ [LiveNext]_vars => FlowHolds'
<1>1. SUFFICES ASSUME FlowHolds, [LiveNext]_vars, part' = "workflow" PROVE Flow!UndisturbedInv'
  BY DEF FlowHolds
<1>2. part = "workflow" /\ [Flow!Next]_(Flow!vars)
  BY <1>1 DEF LiveNext, JobsStep, FlowStep, LoopStep, TrigStep, BoxStep, Only, vars,
              Flow!vars, Flow!heads, Flow!records, Flow!memory, Flow!history
<1>3. Flow!UndisturbedInv
  BY <1>1, <1>2 DEF FlowHolds
<1>4. Flow!Undisturbed
  BY FlowConstants
<1> QED BY <1>2, <1>3, <1>4, FlowConstants, Flow!NextUndisturbed DEF IsFiniteSet, Flow!IsFiniteSet

\* What the invariants say of a step of the suite.
LEMMA TerminalRunsStay == QueueHolds /\ [LiveNext]_vars => (part = "jobs" => Jobs!StaysTerminal)
<1>1. SUFFICES ASSUME QueueHolds, [LiveNext]_vars, part = "jobs" PROVE Jobs!StaysTerminal
  OBVIOUS
<1>2. [Jobs!Next]_(Jobs!vars)
  BY <1>1 DEF LiveNext, JobsStep, FlowStep, LoopStep, TrigStep, BoxStep, Only, vars,
              Jobs!vars, Jobs!hash, Jobs!lists, Jobs!crew, Jobs!counts
<1>3. Jobs!IndInv /\ Jobs!SoleWorker
  BY <1>1 DEF QueueHolds
<1> QED BY <1>2, <1>3, QueueConstants, Jobs!TerminalStep

\* With one worker a job is handed out as often as it may be and an ended run stays
\* ended, for any number of jobs, attempts, expiries and crashes; and for any graph of
\* tasks a workflow starts each task once, within its concurrency, and tells one
\* final answer (queue.py, workflow.py).
THEOREM OrderIsKept == LiveSpec => OneWorkerKeepsOrder
<1>1. QueueHolds => (part = "jobs" => Jobs!ExecutionsBounded)
  BY QueueConstants, Jobs!SoleMeans DEF QueueHolds
<1>2. FlowHolds => (part = "workflow" => /\ Flow!TypeOK
                                          /\ Flow!ConcurrencyKept /\ Flow!StartedOnce
                                          /\ Flow!SynthesizedOnce /\ Flow!ParentAgrees)
  <2>1. SUFFICES ASSUME Flow!UndisturbedInv
                 PROVE  /\ Flow!TypeOK /\ Flow!ConcurrencyKept /\ Flow!StartedOnce
                        /\ Flow!SynthesizedOnce /\ Flow!ParentAgrees
    BY DEF FlowHolds
  <2>2. Flow!ConcurrencyKept
    BY <2>1, FlowConstants, Flow!LiveRunsBounded DEF Flow!Undisturbed, IsFiniteSet, Flow!IsFiniteSet
  <2>3. Flow!TypeOK /\ Flow!StartedOnce /\ Flow!SynthesizedOnce
    BY <2>1 DEF Flow!UndisturbedInv, Flow!IndInv, Flow!TasksInStep, Flow!StartedOnce,
                Flow!SynthesizedOnce
  <2>4. Flow!ParentAgrees
    BY <2>1 DEF Flow!UndisturbedInv, Flow!OneAtATime, Flow!HeadsInStep, Flow!ParentAgrees
  <2> QED BY <2>2, <2>3, <2>4
<1> QED BY <1>1, <1>2, OrderAtFirst, QueueGoesOn, FlowGoesOn, TerminalRunsStay, PTL
        DEF LiveSpec, OneWorkerKeepsOrder

-----------------------------------------------------------------------------
(* Sessions keep their pods *)

BoxHolds == part = "sandbox" => Box!SafeInv

LEMMA BoxAtFirst == LiveInit => BoxHolds
<1>1. LiveInit => (part = "sandbox" => Box!Init)
  BY DEF LiveInit
<1>2. Box!Init => Box!SafeInv
  BY BoxConstants, Box!SafeAtFirst
<1> QED BY <1>1, <1>2 DEF BoxHolds

\* A step of the suite is a step of the controller, or none.
LEMMA BoxMoves == part' = "sandbox" /\ [LiveNext]_vars => part = "sandbox" /\ [Box!Next]_(Box!vars)
BY DEF LiveNext, JobsStep, FlowStep, LoopStep, TrigStep, BoxStep, Only, vars, Box!vars

LEMMA BoxGoesOn == BoxHolds /\ [LiveNext]_vars => BoxHolds'
<1>1. SUFFICES ASSUME BoxHolds, [LiveNext]_vars, part' = "sandbox" PROVE Box!SafeInv'
  BY DEF BoxHolds
<1>2. Box!SafeInv /\ [Box!Next]_(Box!vars)
  BY <1>1, BoxMoves DEF BoxHolds
<1> QED BY <1>2, BoxConstants, Box!SafetyGoesOn

LEMMA YoungSessionsStay ==
    BoxHolds /\ [LiveNext]_vars => (part = "sandbox" => Box!NotTakenEarly)
<1>1. SUFFICES ASSUME BoxHolds, [LiveNext]_vars, part = "sandbox" PROVE Box!NotTakenEarly
  OBVIOUS
<1>2. part' = "sandbox"
  BY <1>1 DEF LiveNext, JobsStep, FlowStep, LoopStep, TrigStep, BoxStep, Only, vars
<1>3. Box!SafeInv /\ [Box!Next]_(Box!vars)
  BY <1>1, <1>2, BoxMoves DEF BoxHolds
<1> QED BY <1>3, BoxConstants, Box!YoungStay

\* A session the controller reports as destroyed has no pod left, and one that was
\* handed out keeps its pod until it is too old or its destruction is asked for, for
\* any number of threads, sessions, failing calls and restarts (kubernetes.py,
\* controller_service.py).
THEOREM SessionsKeepTheirPods == LiveSpec => PodsAreKept
<1>1. BoxHolds => (part = "sandbox" => Box!TypeOK /\ Box!DestroyedIsGone)
  BY DEF BoxHolds, Box!SafeInv, Box!Kinds
<1> QED BY <1>1, BoxAtFirst, BoxGoesOn, YoungSessionsStay, PTL DEF LiveSpec, PodsAreKept

=============================================================================
