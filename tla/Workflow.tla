------------------------------ MODULE Workflow ------------------------------
(***************************************************************************)
(* WorkflowCoordinator (workflow.py): an approved plan is a graph of tasks, *)
(* each executed as a child run of its own.  Agent workers execute the      *)
(* child runs and report them with complete_child; users approve, reject,   *)
(* pause, resume and cancel the workflow and retry its tasks.               *)
(*                                                                         *)
(* Every store call is one transaction and no lock spans two of them: a     *)
(* handler is a sequence of steps, one per read or write that matters, and  *)
(* the handlers of different processes interleave between them.  What a     *)
(* handler has read and still acts on is kept in wfSeen, todo and stop.     *)
(***************************************************************************)
EXTENDS Naturals, FiniteSets

CONSTANTS
    Tasks,            \* task ids of the WorkflowSpec
    DependsOn,        \* task -> the tasks it depends on
    MaxConcurrency,   \* WorkflowSpec.max_concurrency
    Workers,          \* agent worker processes
    Users,            \* API requests that may be in progress at once
    UserOps,          \* the API operations they call
    MaxOps,           \* bound: number of API calls
    MaxStarts         \* bound: child runs created per task

ASSUME SpecAssumption ==
    /\ Tasks # {}
    /\ IsFiniteSet(Tasks)
    /\ DependsOn \in [Tasks -> SUBSET Tasks]
    /\ MaxConcurrency \in Nat \ {0}
    /\ MaxOps \in Nat
    /\ MaxStarts \in Nat
    /\ Workers \cap Users = {}

VARIABLES
    wf,        \* workflow_runs.status
    parent,    \* status of the parent run
    approval,  \* status of the approval request of the preview
    task,      \* workflow_tasks.status
    child,     \* which child run of the task child_run_id names; 0: none
    started,   \* number of child runs created for the task
    run,       \* status of the n-th child run of a task, by <<task, n>>
    jobs,      \* child runs enqueued and not yet taken by a worker
    pc,        \* where each handler is
    cur,       \* the child run a worker executes; the task a handler is at
    wfSeen,    \* the workflow status complete_child has read
    todo,      \* tasks a handler still has to start or to cancel
    stop,      \* child runs the listing of a sweep found active
    made,      \* child runs a handler created and has not enqueued yet
    goal,      \* whether a sweep cancels or fails the workflow
    ops,       \* API calls so far
    done,      \* history: tasks that have succeeded at some time
    synths     \* history: final answers appended to the parent's thread

heads   == <<wf, parent, approval>>
records == <<task, child, started, run, jobs>>
memory  == <<cur, wfSeen, todo, stop, made, goal>>
history == <<ops, done, synths>>
vars    == <<heads, records, pc, memory, history>>

Actors       == Workers \cup Users
Settled      == {"succeeded", "failed", "cancelled"}
Active       == {"queued", "running"}
WorkflowStatus == {"awaiting_approval", "running", "paused"} \cup Settled
ParentStatus == {"awaiting_approval", "running", "waiting_for_user"} \cup Settled
TaskStatus   == {"pending"} \cup Active \cup Settled
Unfinished   == {"live", "waiting"}
RunStatus    == {"absent"} \cup Unfinished \cup Settled
ChildRuns    == Tasks \X (1..MaxStarts)
Executing    == {"mark", "execute", "complete", "completeWf", "settle"}
Steps        ==
    Executing \cup
    {"idle", "listed", "synth", "synthParent", "ready", "readyList", "create",
     "dispatch", "sweepList", "sweepRun", "sweepTask", "sweepParent",
     "approveParent", "rejectWf", "pauseWf", "pauseParent", "resumeWf",
     "resumeParent", "resumeList", "retryTask", "retryWf", "retryParent"}

\* A preview was planned and stored (create_workflow); its approval is pending.
Init ==
    /\ wf = "awaiting_approval"
    /\ parent = "awaiting_approval"
    /\ approval = "pending"
    /\ task = [t \in Tasks |-> "pending"]
    /\ child = [t \in Tasks |-> 0]
    /\ started = [t \in Tasks |-> 0]
    /\ run = [r \in ChildRuns |-> "absent"]
    /\ jobs = {}
    /\ pc = [a \in Actors |-> "idle"]
    /\ cur = [a \in Actors |-> <<CHOOSE t \in Tasks : TRUE, 0>>]
    /\ wfSeen = [a \in Actors |-> "awaiting_approval"]
    /\ todo = [a \in Actors |-> {}]
    /\ stop = [a \in Actors |-> {}]
    /\ made = [a \in Actors |-> {}]
    /\ goal = [a \in Actors |-> "failed"]
    /\ ops = 0
    /\ done = {}
    /\ synths = 0

GoTo(a, step) == pc' = [pc EXCEPT ![a] = step]

\* update_workflow and update_run_status write whatever the record holds.
WriteWorkflow(a, from, status, to) ==
    /\ pc[a] = from
    /\ wf' = status
    /\ GoTo(a, to)
    /\ UNCHANGED <<parent, approval, records, memory, history>>

WriteParent(a, from, status, to) ==
    /\ pc[a] = from
    /\ parent' = status
    /\ GoTo(a, to)
    /\ UNCHANGED <<wf, approval, records, memory, history>>

-----------------------------------------------------------------------------
(* Starting tasks: ready_runs and the dispatch of the runs it returns.      *)

ReadyWorkflow(a) ==
    /\ pc[a] = "ready"
    /\ GoTo(a, IF wf = "running" THEN "readyList" ELSE "idle")
    /\ UNCHANGED <<heads, records, memory, history>>

MutReadyAnyOutcome(list) ==
    {t \in Tasks : /\ list[t] = "pending"
                   /\ \A d \in DependsOn[t] : list[d] \in Settled}

MutReadyQueuedAgain(list) ==
    {t \in Tasks : /\ list[t] \in {"pending", "queued"}
                   /\ \A d \in DependsOn[t] : list[d] = "succeeded"}

\* The tasks of a listing whose dependencies have all succeeded.
Ready(list) ==
    {t \in Tasks : /\ list[t] = "pending"
                   /\ \A d \in DependsOn[t] : list[d] = "succeeded"}

MutSlotsOffByOne(list) ==
    LET active == Cardinality({t \in Tasks : list[t] \in Active})
    IN  IF active <= MaxConcurrency THEN MaxConcurrency + 1 - active ELSE 0

\* How many more tasks max_concurrency allows.
Slots(list) ==
    LET active == Cardinality({t \in Tasks : list[t] \in Active})
    IN  IF active < MaxConcurrency THEN MaxConcurrency - active ELSE 0

\* ready[:slots]; the order of the listing is left open.
ReadyRuns(list) ==
    LET n == Cardinality(Ready(list))
    IN  {S \in SUBSET Ready(list) :
            Cardinality(S) = IF n < Slots(list) THEN n ELSE Slots(list)}

ReadyList(a) ==
    /\ pc[a] = "readyList"
    /\ \E S \in ReadyRuns(task) :
          /\ todo' = [todo EXCEPT ![a] = S]
          /\ GoTo(a, IF S = {} THEN "idle" ELSE "create")
    /\ UNCHANGED <<heads, records, cur, wfSeen, stop, made, goal, history>>

\* _create_task_run: a child run, then the task record that names it.
CreateTaskRun(a, t) ==
    /\ pc[a] = "create"
    /\ t \in todo[a]
    /\ started[t] < MaxStarts
    /\ started' = [started EXCEPT ![t] = @ + 1]
    /\ run' = [run EXCEPT ![<<t, started[t] + 1>>] = "live"]
    /\ task' = [task EXCEPT ![t] = "queued"]
    /\ child' = [child EXCEPT ![t] = started[t] + 1]
    /\ made' = [made EXCEPT ![a] = @ \cup {<<t, started[t] + 1>>}]
    /\ todo' = [todo EXCEPT ![a] = @ \ {t}]
    /\ GoTo(a, IF todo[a] = {t} THEN "dispatch" ELSE "create")
    /\ UNCHANGED <<heads, jobs, cur, wfSeen, stop, goal, history>>

Dispatch(a) ==
    /\ pc[a] = "dispatch"
    /\ jobs' = jobs \cup made[a]
    /\ made' = [made EXCEPT ![a] = {}]
    /\ GoTo(a, "idle")
    /\ UNCHANGED <<heads, task, child, started, run, cur, wfSeen, todo, stop,
                   goal, history>>

-----------------------------------------------------------------------------
(* The agent worker: mark_running, execute_run, complete_child.             *)

\* get_workflow_task_for_child_run finds a task only by its current child.
Named(r) == child[r[1]] = r[2]

TakeJob(w) ==
    /\ pc[w] = "idle"
    /\ \E r \in jobs :
          /\ jobs' = jobs \ {r}
          /\ cur' = [cur EXCEPT ![w] = r]
          /\ GoTo(w, IF Named(r) /\ task[r[1]] = "queued" THEN "mark" ELSE "execute")
    /\ UNCHANGED <<heads, task, child, started, run, wfSeen, todo, stop, made,
                   goal, history>>

MarkRunning(w) ==
    /\ pc[w] = "mark"
    /\ task' = [task EXCEPT ![cur[w][1]] = "running"]
    /\ GoTo(w, "execute")
    /\ UNCHANGED <<heads, child, started, run, jobs, memory, history>>

MutExecuteUnfinished(w) ==
    /\ pc[w] = "execute"
    /\ GoTo(w, "complete")
    /\ UNCHANGED <<heads, records, memory, history>>

\* A child run that was cancelled meanwhile returns its terminal state.
ExecuteRun(w) ==
    /\ pc[w] = "execute"
    /\ \E outcome \in {"succeeded", "failed"} :
          run' = [run EXCEPT ![cur[w]] = IF @ \in Settled THEN @ ELSE outcome]
    /\ GoTo(w, "complete")
    /\ UNCHANGED <<heads, task, child, started, jobs, memory, history>>

\* The child stops for an approval of its own: its state is not terminal, the
\* worker acknowledges the job and does not report the child.
ChildWaits(w) ==
    /\ pc[w] = "execute"
    /\ "approve_child" \in UserOps
    /\ run[cur[w]] = "live"
    /\ run' = [run EXCEPT ![cur[w]] = "waiting"]
    /\ GoTo(w, "idle")
    /\ UNCHANGED <<heads, task, child, started, jobs, memory, history>>

CompleteChild(w) ==
    /\ pc[w] = "complete"
    /\ GoTo(w, IF Named(cur[w]) /\ task[cur[w][1]] \notin Settled
               THEN "completeWf" ELSE "idle")
    /\ UNCHANGED <<heads, records, memory, history>>

CompleteReadWorkflow(w) ==
    /\ pc[w] = "completeWf"
    /\ wfSeen' = [wfSeen EXCEPT ![w] = wf]
    /\ GoTo(w, "settle")
    /\ UNCHANGED <<heads, records, cur, todo, stop, made, goal, history>>

MutAfterSettle(outcome, status) ==
    IF outcome = "succeeded" THEN "listed" ELSE "idle"

\* What follows the update of the task: a success is listed, any other outcome
\* fails the workflow unless it was cancelled or paused when it was read.
AfterSettle(outcome, status) ==
    IF outcome = "succeeded" THEN "listed"
    ELSE IF status \in {"cancelled", "paused"} THEN "idle" ELSE "sweepList"

SettleTask(w) ==
    /\ pc[w] = "settle"
    /\ task' = [task EXCEPT ![cur[w][1]] = run[cur[w]]]
    /\ done' = IF run[cur[w]] = "succeeded" THEN done \cup {cur[w][1]} ELSE done
    /\ goal' = [goal EXCEPT ![w] = "failed"]
    /\ GoTo(w, AfterSettle(run[cur[w]], wfSeen[w]))
    /\ UNCHANGED <<heads, child, started, run, jobs, cur, wfSeen, todo, stop,
                   made, ops, synths>>

MutNonePending(list) == \A t \in Tasks : list[t] # "pending"

AllSucceeded(list) == \A t \in Tasks : list[t] = "succeeded"

ListTasks(w) ==
    /\ pc[w] = "listed"
    /\ GoTo(w, IF ~AllSucceeded(task) THEN "ready"
               ELSE IF wfSeen[w] = "paused" THEN "idle" ELSE "synth")
    /\ UNCHANGED <<heads, records, memory, history>>

-----------------------------------------------------------------------------
(* Ends of a workflow: _synthesize, and the sweep over the tasks that       *)
(* _fail_workflow and cancel share, which stops the children and settles    *)
(* their tasks.                                                             *)

Synthesize(a) ==
    /\ pc[a] = "synth"
    /\ synths' = synths + 1
    /\ wf' = "succeeded"
    /\ GoTo(a, "synthParent")
    /\ UNCHANGED <<parent, approval, records, memory, ops, done>>

SynthesizeParent(a) == WriteParent(a, "synthParent", "succeeded", "idle")

SweepList(a) ==
    /\ pc[a] = "sweepList"
    /\ stop' = [stop EXCEPT ![a] = {<<t, child[t]>> : t \in {u \in Tasks : task[u] \in Active}}]
    /\ todo' = [todo EXCEPT ![a] =
                  {t \in Tasks : \/ task[t] \in Active
                                 \/ goal[a] = "cancelled" /\ task[t] = "pending"}]
    /\ GoTo(a, "sweepRun")
    /\ UNCHANGED <<heads, records, cur, wfSeen, made, goal, history>>

\* The child the listing names is stopped, if it is not terminal.
SweepRun(a, t) ==
    /\ pc[a] = "sweepRun"
    /\ t \in todo[a]
    /\ cur' = [cur EXCEPT ![a] = <<t, 0>>]
    /\ run' = [r \in ChildRuns |-> IF r[1] = t /\ r \in stop[a] /\ run[r] \in Unfinished
                                   THEN "cancelled" ELSE run[r]]
    /\ GoTo(a, "sweepTask")
    /\ UNCHANGED <<heads, task, child, started, jobs, wfSeen, todo, stop, made,
                   goal, history>>

SweepTask(a) ==
    /\ pc[a] = "sweepTask"
    /\ task' = [task EXCEPT ![cur[a][1]] = "cancelled"]
    /\ todo' = [todo EXCEPT ![a] = @ \ {cur[a][1]}]
    /\ GoTo(a, "sweepRun")
    /\ UNCHANGED <<heads, child, started, run, jobs, cur, wfSeen, stop, made,
                   goal, history>>

SweepWorkflow(a) ==
    /\ todo[a] = {}
    /\ WriteWorkflow(a, "sweepRun", goal[a], "sweepParent")

MutSweepLeavesParent(a) ==
    /\ pc[a] = "sweepParent"
    /\ GoTo(a, "idle")
    /\ UNCHANGED <<heads, records, memory, history>>

\* _fail_workflow writes FAILED whatever the parent is; cancel leaves a
\* terminal parent alone and cancels an approval still pending.
SweepParent(a) ==
    /\ pc[a] = "sweepParent"
    /\ parent' = IF goal[a] = "cancelled" /\ parent \in Settled
                 THEN parent ELSE goal[a]
    /\ approval' = IF goal[a] = "cancelled" /\ approval = "pending"
                   THEN "cancelled" ELSE approval
    /\ GoTo(a, "idle")
    /\ UNCHANGED <<wf, records, memory, history>>

-----------------------------------------------------------------------------
(* The API: approvals, pause, resume, cancel, retry of a task.              *)

Call(u, op) ==
    /\ pc[u] = "idle"
    /\ op \in UserOps
    /\ ops < MaxOps
    /\ ops' = ops + 1
    /\ UNCHANGED <<done, synths>>

\* resume_after_approval takes a pending or an already approved request, and
\* does not look at the status of the workflow.
Approve(u) ==
    /\ Call(u, "approve")
    /\ approval \in {"pending", "approved"}
    /\ approval' = "approved"
    /\ wf' = "running"
    /\ GoTo(u, "approveParent")
    /\ UNCHANGED <<parent, records, memory>>

ApproveParent(u) == WriteParent(u, "approveParent", "running", "ready")

\* cancel_run raises on a terminal parent, and the workflow is not written.
Reject(u) ==
    /\ Call(u, "reject")
    /\ approval = "pending"
    /\ approval' = "rejected"
    /\ parent' = IF parent \in Settled THEN parent ELSE "cancelled"
    /\ GoTo(u, IF parent \in Settled THEN "idle" ELSE "rejectWf")
    /\ UNCHANGED <<wf, records, memory>>

RejectWorkflow(u) == WriteWorkflow(u, "rejectWf", "cancelled", "idle")

Pause(u) ==
    /\ Call(u, "pause")
    /\ wf = "running"
    /\ GoTo(u, "pauseWf")
    /\ UNCHANGED <<heads, records, memory>>

PauseWorkflow(u) == WriteWorkflow(u, "pauseWf", "paused", "pauseParent")
PauseParent(u)   == WriteParent(u, "pauseParent", "waiting_for_user", "idle")

Resume(u) ==
    /\ Call(u, "resume")
    /\ wf = "paused"
    /\ GoTo(u, "resumeWf")
    /\ UNCHANGED <<heads, records, memory>>

ResumeWorkflow(u) == WriteWorkflow(u, "resumeWf", "running", "resumeParent")
ResumeParent(u)   == WriteParent(u, "resumeParent", "running", "resumeList")

ResumeList(u) ==
    /\ pc[u] = "resumeList"
    /\ GoTo(u, IF AllSucceeded(task) THEN "synth" ELSE "ready")
    /\ UNCHANGED <<heads, records, memory, history>>

Cancel(u) ==
    /\ Call(u, "cancel")
    /\ wf \notin Settled
    /\ goal' = [goal EXCEPT ![u] = "cancelled"]
    /\ GoTo(u, "sweepList")
    /\ UNCHANGED <<heads, records, cur, wfSeen, todo, stop, made>>

RetryTask(u, t) ==
    /\ Call(u, "retry")
    /\ task[t] \in {"failed", "cancelled"}
    /\ cur' = [cur EXCEPT ![u] = <<t, 0>>]
    /\ GoTo(u, "retryTask")
    /\ UNCHANGED <<heads, records, wfSeen, todo, stop, made, goal>>

RetryWriteTask(u) ==
    /\ pc[u] = "retryTask"
    /\ task' = [task EXCEPT ![cur[u][1]] = "pending"]
    /\ child' = [child EXCEPT ![cur[u][1]] = 0]
    /\ GoTo(u, "retryWf")
    /\ UNCHANGED <<heads, started, run, jobs, memory, history>>

\* resume_after_approval executes the child to its end within the request; the
\* endpoint does not report it to the coordinator.
ApproveChild(u, r) ==
    /\ Call(u, "approve_child")
    /\ run[r] = "waiting"
    /\ \E outcome \in {"succeeded", "failed"} : run' = [run EXCEPT ![r] = outcome]
    /\ UNCHANGED <<heads, task, child, started, jobs, pc, memory>>

RetryWriteWorkflow(u) == WriteWorkflow(u, "retryWf", "running", "retryParent")
RetryWriteParent(u)   == WriteParent(u, "retryParent", "running", "ready")

-----------------------------------------------------------------------------
Coordinate(a) ==
    \/ ReadyWorkflow(a) \/ ReadyList(a) \/ Dispatch(a)
    \/ \E t \in Tasks : CreateTaskRun(a, t) \/ SweepRun(a, t)
    \/ Synthesize(a) \/ SynthesizeParent(a)
    \/ SweepList(a) \/ SweepTask(a) \/ SweepWorkflow(a) \/ SweepParent(a)

Work(w) ==
    \/ TakeJob(w) \/ MarkRunning(w) \/ ExecuteRun(w) \/ ChildWaits(w)
    \/ CompleteChild(w)
    \/ CompleteReadWorkflow(w) \/ SettleTask(w) \/ ListTasks(w)

Request(u) ==
    \/ Approve(u) \/ Reject(u) \/ Pause(u) \/ Resume(u) \/ Cancel(u)
    \/ \E t \in Tasks : RetryTask(u, t)
    \/ \E r \in ChildRuns : ApproveChild(u, r)

Serve(u) ==
    \/ ApproveParent(u) \/ RejectWorkflow(u)
    \/ PauseWorkflow(u) \/ PauseParent(u)
    \/ ResumeWorkflow(u) \/ ResumeParent(u) \/ ResumeList(u)
    \/ RetryWriteTask(u) \/ RetryWriteWorkflow(u) \/ RetryWriteParent(u)

Next ==
    \/ \E a \in Actors : Coordinate(a)
    \/ \E w \in Workers : Work(w)
    \/ \E u \in Users : Request(u) \/ Serve(u)

Spec == Init /\ [][Next]_vars

\* Every process runs on: a worker polls its queue and finishes what it took,
\* a request that has been received is served to its end.  No user is obliged
\* to call anything.
FairSpec ==
    /\ Spec
    /\ \A a \in Actors : WF_vars(Coordinate(a))
    /\ \A w \in Workers : WF_vars(Work(w))
    /\ \A u \in Users : WF_vars(Serve(u))

-----------------------------------------------------------------------------
(* Properties                                                               *)

\* The rows and the handlers have the shapes declared above, and what a handler
\* reports or enqueues are child runs that exist.
TypeOK ==
    /\ wf \in WorkflowStatus
    /\ parent \in ParentStatus
    /\ approval \in {"pending", "approved", "rejected", "cancelled"}
    /\ task \in [Tasks -> TaskStatus]
    /\ child \in [Tasks -> 0..MaxStarts]
    /\ started \in [Tasks -> 0..MaxStarts]
    /\ run \in [ChildRuns -> RunStatus]
    /\ jobs \subseteq ChildRuns
    /\ pc \in [Actors -> Steps]
    /\ cur \in [Actors -> Tasks \X (0..MaxStarts)]
    /\ wfSeen \in [Actors -> WorkflowStatus]
    /\ todo \in [Actors -> SUBSET Tasks]
    /\ stop \in [Actors -> SUBSET (Tasks \X (0..MaxStarts))]
    /\ made \in [Actors -> SUBSET ChildRuns]
    /\ goal \in [Actors -> {"failed", "cancelled"}]
    /\ ops \in 0..MaxOps
    /\ done \in SUBSET Tasks
    /\ synths \in Nat

\* A child run is created for a task only after every task it depends on has
\* succeeded (its summary is what the prompt hands over): ready_runs acts on a
\* listing that retries, cancellations and other handlers outdate, and this
\* must hold all the same.
StartedAfterDependencies ==
    \A t \in Tasks : started[t] > 0 => DependsOn[t] \subseteq done

\* The final answer is written only when every task has delivered a result,
\* whichever handler writes it and whatever was paused, cancelled or retried.
SynthesisIsComplete == synths > 0 => done = Tasks

LiveRuns == {r \in ChildRuns : run[r] \in Unfinished}

\* At most max_concurrency child runs exist unfinished at any time.
ConcurrencyKept == Cardinality(LiveRuns) <= MaxConcurrency

\* Without a retry, a task is executed by one child run.
StartedOnce == \A t \in Tasks : started[t] <= 1

\* The parent's thread gets one final answer.
SynthesizedOnce == synths <= 1

\* When no handler is in progress, the parent run tells the same story as the
\* workflow: both are written one after the other by every handler.
ParentAgrees ==
    (\A a \in Actors : pc[a] = "idle") =>
        CASE wf = "paused" -> parent = "waiting_for_user"
          [] OTHER         -> parent = wf

IsRunning == wf = "running"
HasSettled == wf \in Settled

\* An approved workflow ends: no task is forgotten between two handlers.
WorkflowSettles == IsRunning ~> HasSettled

\* No final answer is begun for a workflow that is paused: its pause holds
\* until resume (complete_child looks at workflow.status before it synthesizes).
\* The code does not keep this: the status it looks at may be outdated.
PausedIsQuiet ==
    [][\A w \in Workers : pc[w] = "listed" /\ pc'[w] = "synth" => wf # "paused"]_vars
-----------------------------------------------------------------------------
(* The inductive invariant.                                                 *)

\* A job, a run about to be enqueued and a run being executed were created.
RunsCreated ==
    /\ \A r \in jobs : r[2] <= started[r[1]]
    /\ \A a \in Actors : \A r \in made[a] : r[2] <= started[r[1]]
    /\ \A a \in Actors : pc[a] \in Executing =>
          cur[a] \in ChildRuns /\ cur[a][2] <= started[cur[a][1]]

\* What complete_child reports is final.
ReportsFinal ==
    \A a \in Actors : pc[a] \in {"complete", "completeWf", "settle"} =>
        run[cur[a]] \in Settled

\* What a listing said of the dependencies stays true of the history.
ListingsSound ==
    /\ \A t \in Tasks : task[t] = "succeeded" => t \in done
    /\ \A a \in Actors : pc[a] = "create" =>
          \A t \in todo[a] : DependsOn[t] \subseteq done
    /\ \A a \in Actors : pc[a] = "synth" => done = Tasks

IndInv ==
    /\ TypeOK
    /\ RunsCreated
    /\ ReportsFinal
    /\ ListingsSound
    /\ StartedAfterDependencies
    /\ SynthesisIsComplete
=============================================================================
