--------------------------- MODULE WorkflowProofs ---------------------------
(***************************************************************************)
(* Proofs about Workflow for every task graph, every number of workers and  *)
(* users and every interleaving of their handlers.                          *)
(***************************************************************************)
EXTENDS Workflow, FiniteSetTheorems, TLAPS

\* Steps at which no part of the invariant speaks of the handler.
Plain == Steps \ (Executing \cup {"create", "synth"})

-----------------------------------------------------------------------------
(* Updates that many steps share *)

\* A step that writes only statuses of the workflow or of the parent, and moves
\* the handler to a plain step.
LEMMA PlainMove ==
    ASSUME IndInv, NEW a \in Actors, NEW step \in Plain,
           wf' \in WorkflowStatus, parent' \in ParentStatus,
           approval' \in {"pending", "approved", "rejected", "cancelled"},
           ops' \in 0..MaxOps, GoTo(a, step),
           UNCHANGED <<records, memory, done, synths>>
    PROVE  IndInv'
<1> USE DEF IndInv
<1>1. TypeOK'
  BY DEF TypeOK, GoTo, records, memory, Plain
<1>2. \A b \in Actors : pc'[b] = pc[b] \/ pc'[b] \in Plain
  BY DEF TypeOK, GoTo
<1>3. RunsCreated'
  BY <1>2 DEF RunsCreated, Plain, records, memory
<1>4. ReportsFinal'
  BY <1>2 DEF ReportsFinal, Plain, records, memory, Executing
<1>5. ListingsSound'
  BY <1>2 DEF ListingsSound, Plain, records, memory
<1>6. StartedAfterDependencies'
  BY DEF StartedAfterDependencies, records
<1>7. SynthesisIsComplete'
  BY DEF SynthesisIsComplete
<1> QED
  BY <1>1, <1>3, <1>4, <1>5, <1>6, <1>7

\* update_workflow with a status, alone.
LEMMA WriteWorkflowKeeps ==
    ASSUME IndInv, NEW a \in Actors, NEW from, NEW status \in WorkflowStatus,
           NEW step \in Plain, WriteWorkflow(a, from, status, step)
    PROVE  IndInv'
<1>1. /\ wf' \in WorkflowStatus
      /\ parent' \in ParentStatus
      /\ approval' \in {"pending", "approved", "rejected", "cancelled"}
      /\ ops' \in 0..MaxOps
  BY DEF WriteWorkflow, IndInv, TypeOK, history
<1>2. GoTo(a, step) /\ UNCHANGED <<records, memory, done, synths>>
  BY DEF WriteWorkflow, history
<1> QED
  BY <1>1, <1>2, PlainMove

\* update_run_status of the parent, alone.
LEMMA WriteParentKeeps ==
    ASSUME IndInv, NEW a \in Actors, NEW from, NEW status \in ParentStatus,
           NEW step \in Plain, WriteParent(a, from, status, step)
    PROVE  IndInv'
<1>1. /\ wf' \in WorkflowStatus
      /\ parent' \in ParentStatus
      /\ approval' \in {"pending", "approved", "rejected", "cancelled"}
      /\ ops' \in 0..MaxOps
  BY DEF WriteParent, IndInv, TypeOK, history
<1>2. GoTo(a, step) /\ UNCHANGED <<records, memory, done, synths>>
  BY DEF WriteParent, history
<1> QED
  BY <1>1, <1>2, PlainMove

\* The initial preview satisfies the invariant.
LEMMA InitInv == Init => IndInv
<1> SUFFICES ASSUME Init PROVE IndInv
  OBVIOUS
<1>0. (CHOOSE t \in Tasks : TRUE) \in Tasks
  BY SpecAssumption
<1>1. TypeOK
  BY <1>0, SpecAssumption DEF Init, TypeOK, WorkflowStatus, ParentStatus, TaskStatus,
     RunStatus, Steps
<1>2. RunsCreated /\ ReportsFinal /\ ListingsSound
  BY DEF Init, RunsCreated, ReportsFinal, ListingsSound, Executing
<1>3. StartedAfterDependencies /\ SynthesisIsComplete
  BY DEF Init, StartedAfterDependencies, SynthesisIsComplete
<1> QED
  BY <1>1, <1>2, <1>3 DEF IndInv

-----------------------------------------------------------------------------
(* Starting tasks *)

\* ready_runs reads the workflow and writes nothing.
LEMMA ReadyWorkflowKeeps ==
    ASSUME IndInv, NEW a \in Actors, ReadyWorkflow(a)
    PROVE  IndInv'
<1>1. PICK step \in Plain : GoTo(a, step)
  BY DEF ReadyWorkflow, Plain, Steps, Executing
<1>2. /\ wf' \in WorkflowStatus
      /\ parent' \in ParentStatus
      /\ approval' \in {"pending", "approved", "rejected", "cancelled"}
      /\ ops' \in 0..MaxOps
  BY DEF ReadyWorkflow, IndInv, TypeOK, heads, history
<1>3. UNCHANGED <<records, memory, done, synths>>
  BY DEF ReadyWorkflow, history
<1> QED
  BY <1>1, <1>2, <1>3, PlainMove

\* ready_runs lists the tasks: those it plans to start have their
\* dependencies in the history, because a succeeded task always is.
LEMMA ReadyListKeeps ==
    ASSUME IndInv, NEW a \in Actors, ReadyList(a)
    PROVE  IndInv'
<1> USE DEF IndInv
<1>1. TypeOK'
  BY SpecAssumption DEF ReadyList, TypeOK, GoTo, heads, records, history, Executing,
     Steps, ReadyRuns, Ready
<1>2. RunsCreated'
  BY DEF ReadyList, RunsCreated, TypeOK, GoTo, records, Executing
<1>3. ReportsFinal'
  BY DEF ReadyList, ReportsFinal, TypeOK, GoTo, records, Executing
<1>4. ListingsSound'
  BY SpecAssumption DEF ReadyList, ListingsSound, TypeOK, GoTo, records, history,
     ReadyRuns, Ready
<1>5. StartedAfterDependencies'
  BY DEF ReadyList, StartedAfterDependencies, TypeOK, records, history
<1>6. SynthesisIsComplete'
  BY DEF ReadyList, SynthesisIsComplete, history
<1> QED
  BY <1>1, <1>2, <1>3, <1>4, <1>5, <1>6

\* _create_task_run: the new child is none of those being executed or
\* reported, and its task was planned from a listing.
LEMMA CreateTaskRunKeeps ==
    ASSUME IndInv, NEW a \in Actors, NEW t \in Tasks, CreateTaskRun(a, t)
    PROVE  IndInv'
<1> USE DEF IndInv
<1>1. TypeOK'
  BY SpecAssumption DEF CreateTaskRun, TypeOK, GoTo, heads, history, Executing,
     Steps, ChildRuns, TaskStatus, Active, RunStatus, Unfinished
<1>2. RunsCreated'
  BY SpecAssumption DEF CreateTaskRun, RunsCreated, TypeOK, GoTo, Executing, ChildRuns
<1>3. ReportsFinal'
  <2> SUFFICES ASSUME NEW b \in Actors,
                      pc'[b] \in {"complete", "completeWf", "settle"}
               PROVE  run'[cur'[b]] \in Settled
    BY DEF ReportsFinal
  <2>1. pc'[b] = pc[b] /\ cur'[b] = cur[b]
    BY DEF CreateTaskRun, GoTo, TypeOK
  <2>2. /\ cur[b] \in ChildRuns /\ cur[b][2] <= started[cur[b][1]]
        /\ run[cur[b]] \in Settled
    BY <2>1 DEF RunsCreated, ReportsFinal, Executing
  <2>3. cur[b] # <<t, started[t] + 1>>
    BY <2>2, SpecAssumption DEF TypeOK
  <2> QED
    BY <2>1, <2>2, <2>3 DEF CreateTaskRun, TypeOK
<1>4. ListingsSound'
  BY DEF CreateTaskRun, ListingsSound, TypeOK, GoTo, history, Active
<1>5. StartedAfterDependencies'
  BY DEF CreateTaskRun, StartedAfterDependencies, ListingsSound, TypeOK, history
<1>6. SynthesisIsComplete'
  BY DEF CreateTaskRun, SynthesisIsComplete, history
<1> QED
  BY <1>1, <1>2, <1>3, <1>4, <1>5, <1>6

\* Enqueueing hands created runs over to the workers.
LEMMA DispatchKeeps ==
    ASSUME IndInv, NEW a \in Actors, Dispatch(a)
    PROVE  IndInv'
<1> USE DEF IndInv
<1>1. TypeOK'
  BY DEF Dispatch, TypeOK, GoTo, heads, history, Executing, Steps
<1>2. RunsCreated'
  BY DEF Dispatch, RunsCreated, TypeOK, GoTo, Executing
<1>3. ReportsFinal'
  BY DEF Dispatch, ReportsFinal, TypeOK, GoTo, Executing
<1>4. ListingsSound'
  BY DEF Dispatch, ListingsSound, TypeOK, GoTo, history
<1>5. StartedAfterDependencies'
  BY DEF Dispatch, StartedAfterDependencies, TypeOK, history
<1>6. SynthesisIsComplete'
  BY DEF Dispatch, SynthesisIsComplete, history
<1> QED
  BY <1>1, <1>2, <1>3, <1>4, <1>5, <1>6

-----------------------------------------------------------------------------
(* The worker *)

\* A worker takes a run that was created.
LEMMA TakeJobKeeps ==
    ASSUME IndInv, NEW a \in Actors, TakeJob(a)
    PROVE  IndInv'
<1> USE DEF IndInv
<1>1. TypeOK'
  BY DEF TakeJob, TypeOK, GoTo, heads, history, Executing, Steps, ChildRuns
<1>2. RunsCreated'
  BY DEF TakeJob, RunsCreated, TypeOK, GoTo, Executing, ChildRuns
<1>3. ReportsFinal'
  BY DEF TakeJob, ReportsFinal, TypeOK, GoTo, Executing
<1>4. ListingsSound'
  BY DEF TakeJob, ListingsSound, TypeOK, GoTo, history
<1>5. StartedAfterDependencies'
  BY DEF TakeJob, StartedAfterDependencies, TypeOK, history
<1>6. SynthesisIsComplete'
  BY DEF TakeJob, SynthesisIsComplete, history
<1> QED
  BY <1>1, <1>2, <1>3, <1>4, <1>5, <1>6

\* mark_running writes "running", never "succeeded".
LEMMA MarkRunningKeeps ==
    ASSUME IndInv, NEW a \in Actors, MarkRunning(a)
    PROVE  IndInv'
<1> USE DEF IndInv
<1>1. TypeOK'
  BY DEF MarkRunning, TypeOK, GoTo, heads, memory, history, Executing, Steps,
     TaskStatus, Active
<1>2. RunsCreated'
  BY DEF MarkRunning, RunsCreated, TypeOK, GoTo, memory, Executing, ChildRuns
<1>3. ReportsFinal'
  BY DEF MarkRunning, ReportsFinal, TypeOK, GoTo, memory, Executing
<1>4. ListingsSound'
  BY DEF MarkRunning, ListingsSound, TypeOK, GoTo, memory, history, Active
<1>5. StartedAfterDependencies'
  BY DEF MarkRunning, StartedAfterDependencies, TypeOK, history
<1>6. SynthesisIsComplete'
  BY DEF MarkRunning, SynthesisIsComplete, history
<1> QED
  BY <1>1, <1>2, <1>3, <1>4, <1>5, <1>6

\* execute_run leaves the child in a final status.
LEMMA ExecuteRunKeeps ==
    ASSUME IndInv, NEW a \in Actors, ExecuteRun(a)
    PROVE  IndInv'
<1> USE DEF IndInv
<1>1. TypeOK'
  BY DEF ExecuteRun, RunsCreated, TypeOK, GoTo, heads, memory, history, Executing,
     Steps, RunStatus, Settled, ChildRuns
<1>2. RunsCreated'
  BY DEF ExecuteRun, RunsCreated, TypeOK, GoTo, memory, Executing, ChildRuns,
     RunsCreated
<1>3. ReportsFinal'
  BY DEF ExecuteRun, ReportsFinal, TypeOK, GoTo, memory, Executing, RunsCreated,
     Settled, ChildRuns, RunStatus
<1>4. ListingsSound'
  BY DEF ExecuteRun, ListingsSound, TypeOK, GoTo, memory, history
<1>5. StartedAfterDependencies'
  BY DEF ExecuteRun, StartedAfterDependencies, TypeOK, history
<1>6. SynthesisIsComplete'
  BY DEF ExecuteRun, SynthesisIsComplete, history
<1> QED
  BY <1>1, <1>2, <1>3, <1>4, <1>5, <1>6

\* A child that waits is not one that a worker reports.
LEMMA ChildWaitsKeeps ==
    ASSUME IndInv, NEW a \in Actors, ChildWaits(a)
    PROVE  IndInv'
<1> USE DEF IndInv
<1>1. TypeOK'
  BY DEF ChildWaits, TypeOK, GoTo, heads, memory, history, Executing, Steps,
     RunStatus, Unfinished
<1>2. RunsCreated'
  BY DEF ChildWaits, RunsCreated, TypeOK, GoTo, memory, Executing, ChildRuns
<1>3. ReportsFinal'
  BY DEF ChildWaits, ReportsFinal, TypeOK, GoTo, memory, Executing, RunsCreated,
     Settled, ChildRuns, RunStatus
<1>4. ListingsSound'
  BY DEF ChildWaits, ListingsSound, TypeOK, GoTo, memory, history
<1>5. StartedAfterDependencies'
  BY DEF ChildWaits, StartedAfterDependencies, TypeOK, history
<1>6. SynthesisIsComplete'
  BY DEF ChildWaits, SynthesisIsComplete, history
<1> QED
  BY <1>1, <1>2, <1>3, <1>4, <1>5, <1>6

\* complete_child reads the task of a finished child.
LEMMA CompleteChildKeeps ==
    ASSUME IndInv, NEW a \in Actors, CompleteChild(a)
    PROVE  IndInv'
<1> USE DEF IndInv
<1>1. TypeOK'
  BY DEF CompleteChild, TypeOK, GoTo, heads, records, memory, history, Executing, Steps
<1>2. RunsCreated'
  BY DEF CompleteChild, RunsCreated, TypeOK, GoTo, records, memory, Executing
<1>3. ReportsFinal'
  BY DEF CompleteChild, ReportsFinal, TypeOK, GoTo, records, memory, Executing
<1>4. ListingsSound'
  BY DEF CompleteChild, ListingsSound, TypeOK, GoTo, records, memory, history
<1>5. StartedAfterDependencies'
  BY DEF CompleteChild, StartedAfterDependencies, TypeOK, records, history
<1>6. SynthesisIsComplete'
  BY DEF CompleteChild, SynthesisIsComplete, history
<1> QED
  BY <1>1, <1>2, <1>3, <1>4, <1>5, <1>6

\* complete_child reads the workflow.
LEMMA CompleteReadWorkflowKeeps ==
    ASSUME IndInv, NEW a \in Actors, CompleteReadWorkflow(a)
    PROVE  IndInv'
<1> USE DEF IndInv
<1>1. TypeOK'
  BY DEF CompleteReadWorkflow, TypeOK, GoTo, heads, records, history, Executing, Steps
<1>2. RunsCreated'
  BY DEF CompleteReadWorkflow, RunsCreated, TypeOK, GoTo, records, Executing
<1>3. ReportsFinal'
  BY DEF CompleteReadWorkflow, ReportsFinal, TypeOK, GoTo, records, Executing
<1>4. ListingsSound'
  BY DEF CompleteReadWorkflow, ListingsSound, TypeOK, GoTo, records, history
<1>5. StartedAfterDependencies'
  BY DEF CompleteReadWorkflow, StartedAfterDependencies, TypeOK, records, history
<1>6. SynthesisIsComplete'
  BY DEF CompleteReadWorkflow, SynthesisIsComplete, history
<1> QED
  BY <1>1, <1>2, <1>3, <1>4, <1>5, <1>6

\* complete_child writes a final status, and a success enters the history
\* in the same step.
LEMMA SettleTaskKeeps ==
    ASSUME IndInv, NEW a \in Actors, SettleTask(a)
    PROVE  IndInv'
<1> USE DEF IndInv
<1>1. TypeOK'
  BY DEF SettleTask, TypeOK, GoTo, heads, Executing, Steps, AfterSettle,
     ReportsFinal, TaskStatus, Settled
<1>2. RunsCreated'
  BY DEF SettleTask, RunsCreated, TypeOK, GoTo, Executing, AfterSettle
<1>3. ReportsFinal'
  BY DEF SettleTask, ReportsFinal, TypeOK, GoTo, Executing, AfterSettle
<1>4. ListingsSound'
  BY DEF SettleTask, ListingsSound, TypeOK, GoTo, AfterSettle
<1>5. StartedAfterDependencies'
  BY DEF SettleTask, StartedAfterDependencies, TypeOK
<1>6. SynthesisIsComplete'
  BY DEF SettleTask, SynthesisIsComplete, TypeOK
<1> QED
  BY <1>1, <1>2, <1>3, <1>4, <1>5, <1>6

\* The synthesis begins only after a listing in which all tasks succeeded.
LEMMA ListTasksKeeps ==
    ASSUME IndInv, NEW a \in Actors, ListTasks(a)
    PROVE  IndInv'
<1> USE DEF IndInv
<1>1. TypeOK'
  BY DEF ListTasks, TypeOK, GoTo, heads, records, memory, history, Executing, Steps
<1>2. RunsCreated'
  BY DEF ListTasks, RunsCreated, TypeOK, GoTo, records, memory, Executing
<1>3. ReportsFinal'
  BY DEF ListTasks, ReportsFinal, TypeOK, GoTo, records, memory, Executing
<1>4. ListingsSound'
  BY DEF ListTasks, ListingsSound, TypeOK, GoTo, records, memory, history, AllSucceeded
<1>5. StartedAfterDependencies'
  BY DEF ListTasks, StartedAfterDependencies, TypeOK, records, history
<1>6. SynthesisIsComplete'
  BY DEF ListTasks, SynthesisIsComplete, history
<1> QED
  BY <1>1, <1>2, <1>3, <1>4, <1>5, <1>6

-----------------------------------------------------------------------------
(* Ends of a workflow *)

\* _synthesize: the history is complete since the listing.
LEMMA SynthesizeKeeps ==
    ASSUME IndInv, NEW a \in Actors, Synthesize(a)
    PROVE  IndInv'
<1> USE DEF IndInv
<1>1. TypeOK'
  BY DEF Synthesize, TypeOK, GoTo, records, memory, Executing, Steps, WorkflowStatus,
     Settled
<1>2. RunsCreated'
  BY DEF Synthesize, RunsCreated, TypeOK, GoTo, records, memory, Executing
<1>3. ReportsFinal'
  BY DEF Synthesize, ReportsFinal, TypeOK, GoTo, records, memory, Executing
<1>4. ListingsSound'
  BY DEF Synthesize, ListingsSound, TypeOK, GoTo, records, memory
<1>5. StartedAfterDependencies'
  BY DEF Synthesize, StartedAfterDependencies, TypeOK, records
<1>6. SynthesisIsComplete'
  BY DEF Synthesize, SynthesisIsComplete, TypeOK, ListingsSound
<1> QED
  BY <1>1, <1>2, <1>3, <1>4, <1>5, <1>6

\* The sweep of _fail_workflow and cancel lists the tasks.
LEMMA SweepListKeeps ==
    ASSUME IndInv, NEW a \in Actors, SweepList(a)
    PROVE  IndInv'
<1> USE DEF IndInv
<1>1. TypeOK'
  BY DEF SweepList, TypeOK, GoTo, heads, records, history, Executing, Steps
<1>2. RunsCreated'
  BY DEF SweepList, RunsCreated, TypeOK, GoTo, records, Executing
<1>3. ReportsFinal'
  BY DEF SweepList, ReportsFinal, TypeOK, GoTo, records, Executing
<1>4. ListingsSound'
  BY DEF SweepList, ListingsSound, TypeOK, GoTo, records, history
<1>5. StartedAfterDependencies'
  BY DEF SweepList, StartedAfterDependencies, TypeOK, records, history
<1>6. SynthesisIsComplete'
  BY DEF SweepList, SynthesisIsComplete, history
<1> QED
  BY <1>1, <1>2, <1>3, <1>4, <1>5, <1>6

\* A sweep cancels unfinished children only: a reported one is final.
LEMMA SweepRunKeeps ==
    ASSUME IndInv, NEW a \in Actors, NEW t \in Tasks, SweepRun(a, t)
    PROVE  IndInv'
<1> USE DEF IndInv
<1>1. TypeOK'
  BY SpecAssumption DEF SweepRun, TypeOK, GoTo, heads, history, Executing, Steps,
     RunStatus, Settled, ChildRuns
<1>2. RunsCreated'
  BY DEF SweepRun, RunsCreated, TypeOK, GoTo, Executing
<1>3. ReportsFinal'
  BY DEF SweepRun, ReportsFinal, TypeOK, GoTo, Executing, RunsCreated, Settled,
     Unfinished, ChildRuns
<1>4. ListingsSound'
  BY DEF SweepRun, ListingsSound, TypeOK, GoTo, history
<1>5. StartedAfterDependencies'
  BY DEF SweepRun, StartedAfterDependencies, TypeOK, history
<1>6. SynthesisIsComplete'
  BY DEF SweepRun, SynthesisIsComplete, history
<1> QED
  BY <1>1, <1>2, <1>3, <1>4, <1>5, <1>6

\* A sweep writes "cancelled" on a task, even on one that succeeded
\* meanwhile; the history keeps the success.
LEMMA SweepTaskKeeps ==
    ASSUME IndInv, NEW a \in Actors, SweepTask(a)
    PROVE  IndInv'
<1> USE DEF IndInv
<1>1. TypeOK'
  BY DEF SweepTask, TypeOK, GoTo, heads, history, Executing, Steps, TaskStatus, Settled
<1>2. RunsCreated'
  BY DEF SweepTask, RunsCreated, TypeOK, GoTo, Executing
<1>3. ReportsFinal'
  BY DEF SweepTask, ReportsFinal, TypeOK, GoTo, Executing
<1>4. ListingsSound'
  BY DEF SweepTask, ListingsSound, TypeOK, GoTo, history, Settled
<1>5. StartedAfterDependencies'
  BY DEF SweepTask, StartedAfterDependencies, TypeOK, history
<1>6. SynthesisIsComplete'
  BY DEF SweepTask, SynthesisIsComplete, history
<1> QED
  BY <1>1, <1>2, <1>3, <1>4, <1>5, <1>6

\* A sweep ends with the parent run.
LEMMA SweepParentKeeps ==
    ASSUME IndInv, NEW a \in Actors, SweepParent(a)
    PROVE  IndInv'
<1>1. PICK step \in Plain : GoTo(a, step)
  BY DEF SweepParent, Plain, Steps, Executing
<1>2. /\ wf' \in WorkflowStatus
      /\ parent' \in ParentStatus
      /\ approval' \in {"pending", "approved", "rejected", "cancelled"}
      /\ ops' \in 0..MaxOps
  BY SpecAssumption DEF SweepParent, IndInv, TypeOK, heads, history, ParentStatus,
     Settled
<1>3. UNCHANGED <<records, memory, done, synths>>
  BY DEF SweepParent, history
<1> QED
  BY <1>1, <1>2, <1>3, PlainMove

-----------------------------------------------------------------------------
(* The API *)

\* An approval starts the workflow.
LEMMA ApproveKeeps ==
    ASSUME IndInv, NEW a \in Actors, Approve(a)
    PROVE  IndInv'
<1>1. PICK step \in Plain : GoTo(a, step)
  BY DEF Approve, Plain, Steps, Executing
<1>2. /\ wf' \in WorkflowStatus
      /\ parent' \in ParentStatus
      /\ approval' \in {"pending", "approved", "rejected", "cancelled"}
      /\ ops' \in 0..MaxOps
  BY SpecAssumption DEF Approve, IndInv, TypeOK, heads, history, Call,
     WorkflowStatus, ParentStatus, Settled
<1>3. UNCHANGED <<records, memory, done, synths>>
  BY DEF Approve, history, Call
<1> QED
  BY <1>1, <1>2, <1>3, PlainMove

\* A rejection ends the preview.
LEMMA RejectKeeps ==
    ASSUME IndInv, NEW a \in Actors, Reject(a)
    PROVE  IndInv'
<1>1. PICK step \in Plain : GoTo(a, step)
  BY DEF Reject, Plain, Steps, Executing
<1>2. /\ wf' \in WorkflowStatus
      /\ parent' \in ParentStatus
      /\ approval' \in {"pending", "approved", "rejected", "cancelled"}
      /\ ops' \in 0..MaxOps
  BY SpecAssumption DEF Reject, IndInv, TypeOK, heads, history, Call, WorkflowStatus,
     ParentStatus, Settled
<1>3. UNCHANGED <<records, memory, done, synths>>
  BY DEF Reject, history, Call
<1> QED
  BY <1>1, <1>2, <1>3, PlainMove

\* pause checks the status it is about to overwrite.
LEMMA PauseKeeps ==
    ASSUME IndInv, NEW a \in Actors, Pause(a)
    PROVE  IndInv'
<1>1. PICK step \in Plain : GoTo(a, step)
  BY DEF Pause, Plain, Steps, Executing
<1>2. /\ wf' \in WorkflowStatus
      /\ parent' \in ParentStatus
      /\ approval' \in {"pending", "approved", "rejected", "cancelled"}
      /\ ops' \in 0..MaxOps
  BY SpecAssumption DEF Pause, IndInv, TypeOK, heads, history, Call, WorkflowStatus,
     ParentStatus, Settled
<1>3. UNCHANGED <<records, memory, done, synths>>
  BY DEF Pause, history, Call
<1> QED
  BY <1>1, <1>2, <1>3, PlainMove

\* resume checks the status it is about to overwrite.
LEMMA ResumeKeeps ==
    ASSUME IndInv, NEW a \in Actors, Resume(a)
    PROVE  IndInv'
<1>1. PICK step \in Plain : GoTo(a, step)
  BY DEF Resume, Plain, Steps, Executing
<1>2. /\ wf' \in WorkflowStatus
      /\ parent' \in ParentStatus
      /\ approval' \in {"pending", "approved", "rejected", "cancelled"}
      /\ ops' \in 0..MaxOps
  BY SpecAssumption DEF Resume, IndInv, TypeOK, heads, history, Call, WorkflowStatus,
     ParentStatus, Settled
<1>3. UNCHANGED <<records, memory, done, synths>>
  BY DEF Resume, history, Call
<1> QED
  BY <1>1, <1>2, <1>3, PlainMove

\* resume synthesizes only after a listing in which all tasks succeeded.
LEMMA ResumeListKeeps ==
    ASSUME IndInv, NEW a \in Actors, ResumeList(a)
    PROVE  IndInv'
<1> USE DEF IndInv
<1>1. TypeOK'
  BY DEF ResumeList, TypeOK, GoTo, heads, records, memory, history, Executing, Steps
<1>2. RunsCreated'
  BY DEF ResumeList, RunsCreated, TypeOK, GoTo, records, memory, Executing
<1>3. ReportsFinal'
  BY DEF ResumeList, ReportsFinal, TypeOK, GoTo, records, memory, Executing
<1>4. ListingsSound'
  BY DEF ResumeList, ListingsSound, TypeOK, GoTo, records, memory, history, AllSucceeded
<1>5. StartedAfterDependencies'
  BY DEF ResumeList, StartedAfterDependencies, TypeOK, records, history
<1>6. SynthesisIsComplete'
  BY DEF ResumeList, SynthesisIsComplete, history
<1> QED
  BY <1>1, <1>2, <1>3, <1>4, <1>5, <1>6

\* cancel begins a sweep.
LEMMA CancelKeeps ==
    ASSUME IndInv, NEW a \in Actors, Cancel(a)
    PROVE  IndInv'
<1> USE DEF IndInv
<1>1. TypeOK'
  BY SpecAssumption DEF Cancel, TypeOK, GoTo, heads, records, history, Executing,
     Steps, Call
<1>2. RunsCreated'
  BY DEF Cancel, RunsCreated, TypeOK, GoTo, records, Executing, Call
<1>3. ReportsFinal'
  BY DEF Cancel, ReportsFinal, TypeOK, GoTo, records, Executing, Call
<1>4. ListingsSound'
  BY DEF Cancel, ListingsSound, TypeOK, GoTo, records, Call
<1>5. StartedAfterDependencies'
  BY DEF Cancel, StartedAfterDependencies, TypeOK, records, Call
<1>6. SynthesisIsComplete'
  BY DEF Cancel, SynthesisIsComplete, Call
<1> QED
  BY <1>1, <1>2, <1>3, <1>4, <1>5, <1>6

\* retry_task reads the task.
LEMMA RetryTaskKeeps ==
    ASSUME IndInv, NEW a \in Actors, NEW t \in Tasks, RetryTask(a, t)
    PROVE  IndInv'
<1> USE DEF IndInv
<1>1. TypeOK'
  BY SpecAssumption DEF RetryTask, TypeOK, GoTo, heads, records, history, Executing,
     Steps, Call
<1>2. RunsCreated'
  BY DEF RetryTask, RunsCreated, TypeOK, GoTo, records, Executing, Call
<1>3. ReportsFinal'
  BY DEF RetryTask, ReportsFinal, TypeOK, GoTo, records, Executing, Call
<1>4. ListingsSound'
  BY DEF RetryTask, ListingsSound, TypeOK, GoTo, records, Call
<1>5. StartedAfterDependencies'
  BY DEF RetryTask, StartedAfterDependencies, TypeOK, records, Call
<1>6. SynthesisIsComplete'
  BY DEF RetryTask, SynthesisIsComplete, Call
<1> QED
  BY <1>1, <1>2, <1>3, <1>4, <1>5, <1>6

\* retry_task makes the task pending again; the history keeps what it was.
LEMMA RetryWriteTaskKeeps ==
    ASSUME IndInv, NEW a \in Actors, RetryWriteTask(a)
    PROVE  IndInv'
<1> USE DEF IndInv
<1>1. TypeOK'
  BY SpecAssumption DEF RetryWriteTask, TypeOK, GoTo, heads, memory, history,
     Executing, Steps, TaskStatus
<1>2. RunsCreated'
  BY DEF RetryWriteTask, RunsCreated, TypeOK, GoTo, memory, Executing
<1>3. ReportsFinal'
  BY DEF RetryWriteTask, ReportsFinal, TypeOK, GoTo, memory, Executing
<1>4. ListingsSound'
  BY DEF RetryWriteTask, ListingsSound, TypeOK, GoTo, memory, history
<1>5. StartedAfterDependencies'
  BY DEF RetryWriteTask, StartedAfterDependencies, TypeOK, history
<1>6. SynthesisIsComplete'
  BY DEF RetryWriteTask, SynthesisIsComplete, history
<1> QED
  BY <1>1, <1>2, <1>3, <1>4, <1>5, <1>6

\* An approved child runs to its end: no finished child changes.
LEMMA ApproveChildKeeps ==
    ASSUME IndInv, NEW a \in Actors, NEW r \in ChildRuns, ApproveChild(a, r)
    PROVE  IndInv'
<1> USE DEF IndInv
<1>1. TypeOK'
  BY SpecAssumption DEF ApproveChild, TypeOK, GoTo, heads, memory, history,
     Executing, Steps, Call, RunStatus, Settled
<1>2. RunsCreated'
  BY DEF ApproveChild, RunsCreated, TypeOK, GoTo, memory, Executing, Call
<1>3. ReportsFinal'
  BY DEF ApproveChild, ReportsFinal, TypeOK, GoTo, memory, Executing, Call, Settled,
     RunsCreated
<1>4. ListingsSound'
  BY DEF ApproveChild, ListingsSound, TypeOK, GoTo, memory, Call
<1>5. StartedAfterDependencies'
  BY DEF ApproveChild, StartedAfterDependencies, TypeOK, Call
<1>6. SynthesisIsComplete'
  BY DEF ApproveChild, SynthesisIsComplete, Call
<1> QED
  BY <1>1, <1>2, <1>3, <1>4, <1>5, <1>6

\* The steps that only write a status.
LEMMA StatusWritesKeep ==
    ASSUME IndInv, NEW a \in Actors,
           \/ SynthesizeParent(a) \/ SweepWorkflow(a) \/ ApproveParent(a)
           \/ RejectWorkflow(a) \/ PauseWorkflow(a) \/ PauseParent(a)
           \/ ResumeWorkflow(a) \/ ResumeParent(a)
           \/ RetryWriteWorkflow(a) \/ RetryWriteParent(a)
    PROVE  IndInv'
<1>0. /\ {"idle", "ready", "sweepParent", "pauseParent", "resumeParent",
           "resumeList", "retryParent"} \subseteq Plain
      /\ goal[a] \in WorkflowStatus
      /\ {"running", "paused", "cancelled"} \subseteq WorkflowStatus
      /\ {"running", "waiting_for_user", "succeeded"} \subseteq ParentStatus
  BY DEF Plain, Steps, Executing, IndInv, TypeOK, WorkflowStatus, ParentStatus, Settled
<1>1. CASE SynthesizeParent(a)
  BY <1>0, <1>1, WriteParentKeeps DEF SynthesizeParent
<1>2. CASE SweepWorkflow(a)
  BY <1>0, <1>2, WriteWorkflowKeeps DEF SweepWorkflow
<1>3. CASE ApproveParent(a)
  BY <1>0, <1>3, WriteParentKeeps DEF ApproveParent
<1>4. CASE RejectWorkflow(a)
  BY <1>0, <1>4, WriteWorkflowKeeps DEF RejectWorkflow
<1>5. CASE PauseWorkflow(a)
  BY <1>0, <1>5, WriteWorkflowKeeps DEF PauseWorkflow
<1>6. CASE PauseParent(a)
  BY <1>0, <1>6, WriteParentKeeps DEF PauseParent
<1>7. CASE ResumeWorkflow(a)
  BY <1>0, <1>7, WriteWorkflowKeeps DEF ResumeWorkflow
<1>8. CASE ResumeParent(a)
  BY <1>0, <1>8, WriteParentKeeps DEF ResumeParent
<1>9. CASE RetryWriteWorkflow(a)
  BY <1>0, <1>9, WriteWorkflowKeeps DEF RetryWriteWorkflow
<1>10. CASE RetryWriteParent(a)
  BY <1>0, <1>10, WriteParentKeeps DEF RetryWriteParent
<1> QED
  BY <1>1, <1>2, <1>3, <1>4, <1>5, <1>6, <1>7, <1>8, <1>9, <1>10

-----------------------------------------------------------------------------
\* Every step of every handler keeps the invariant.
LEMMA NextInv == IndInv /\ [Next]_vars => IndInv'
<1> SUFFICES ASSUME IndInv, [Next]_vars PROVE IndInv'
  OBVIOUS
<1>1. ASSUME NEW a \in Actors, Coordinate(a) PROVE IndInv'
  BY <1>1, ReadyWorkflowKeeps, ReadyListKeeps, DispatchKeeps, CreateTaskRunKeeps,
     SweepRunKeeps, SynthesizeKeeps, StatusWritesKeep, SweepListKeeps,
     SweepTaskKeeps, SweepParentKeeps
     DEF Coordinate
<1>2. ASSUME NEW a \in Actors, Work(a) PROVE IndInv'
  BY <1>2, TakeJobKeeps, MarkRunningKeeps, ExecuteRunKeeps, ChildWaitsKeeps,
     CompleteChildKeeps, CompleteReadWorkflowKeeps, SettleTaskKeeps, ListTasksKeeps
     DEF Work
<1>3. ASSUME NEW a \in Actors, Request(a) PROVE IndInv'
  BY <1>3, ApproveKeeps, RejectKeeps, PauseKeeps, ResumeKeeps, CancelKeeps,
     RetryTaskKeeps, ApproveChildKeeps
     DEF Request
<1>4. ASSUME NEW a \in Actors, Serve(a) PROVE IndInv'
  BY <1>4, StatusWritesKeep, ResumeListKeeps, RetryWriteTaskKeeps DEF Serve
<1>5. CASE UNCHANGED vars
  BY <1>5 DEF vars, heads, records, memory, history, IndInv, TypeOK, RunsCreated,
     ReportsFinal, ListingsSound, StartedAfterDependencies, SynthesisIsComplete
<1> QED
  BY <1>1, <1>2, <1>3, <1>4, <1>5 DEF Next, Actors

\* IndInv holds in every reachable state.
THEOREM CoordinatorInvariant == Spec => []IndInv
  BY InitInv, NextInv, PTL DEF Spec

\* Every variable keeps its type.
THEOREM WorkflowTypes == Spec => []TypeOK
<1>1. IndInv => TypeOK
  BY DEF IndInv
<1> QED
  BY <1>1, CoordinatorInvariant, PTL

\* For every graph, no child run is created before the dependencies of its task
\* have succeeded, however the handlers of ready_runs interleave.
THEOREM DependenciesComeFirst == Spec => []StartedAfterDependencies
<1>1. IndInv => StartedAfterDependencies
  BY DEF IndInv
<1> QED
  BY <1>1, CoordinatorInvariant, PTL

\* The final answer is never written before every task has delivered a result.
THEOREM NothingIsLeftOut == Spec => []SynthesisIsComplete
<1>1. IndInv => SynthesisIsComplete
  BY DEF IndInv
<1> QED
  BY <1>1, CoordinatorInvariant, PTL

-----------------------------------------------------------------------------
(* One worker, one request: an approved plan is carried out undisturbed      *)

\* A single agent worker, and a single request for the workflow: what the
\* request does overlaps with nothing but the worker.
Undisturbed == MaxOps = 1 /\ \A v, w \in Workers : v = w

\* Steps of the requests that need an earlier request.
Interventions == {"pauseWf", "pauseParent", "resumeWf", "resumeParent",
                  "resumeList", "retryTask", "retryWf", "retryParent"}

Sweeping == {"sweepList", "sweepRun", "sweepTask"}

\* Handlers take turns: the worker has nothing to take until the request has
\* dispatched its runs, and before the request nothing has happened.
OneAtATime ==
    /\ \A a, b \in Actors : pc[a] # "idle" /\ pc[b] # "idle" => a = b
    /\ \A u \in Users : pc[u] # "idle" => jobs = {}
    /\ \A a \in Actors : pc[a] \notin Interventions
    /\ wf # "paused"
    /\ ops = 0 =>
          /\ \A a \in Actors : pc[a] = "idle"
          /\ jobs = {} /\ synths = 0
          /\ wf = "awaiting_approval" /\ parent = wf
          /\ \A t \in Tasks : task[t] = "pending"
          /\ \A r \in ChildRuns : run[r] = "absent"

\* Between the write of the workflow and that of the parent, the handler in
\* between knows what it still has to write; at other times they agree.
HeadsInStep ==
    /\ \/ parent = wf
       \/ \E a \in Actors :
             pc[a] \in {"approveParent", "rejectWf", "synthParent", "sweepParent"}
    /\ \A a \in Actors :
          /\ pc[a] = "approveParent" => wf = "running"
          /\ pc[a] = "rejectWf" => parent = "cancelled"
          /\ pc[a] = "synthParent" => wf = "succeeded"
          /\ pc[a] \in Sweeping /\ goal[a] = "cancelled" => wf \notin Settled
          /\ pc[a] = "sweepParent" =>
                wf = goal[a] /\ (goal[a] = "cancelled" => parent \notin Settled)

\* A task that is pending has had no child run, and what a handler has read of
\* a task still holds when it acts on it.
TasksInStep ==
    /\ \A t \in Tasks : started[t] <= 1 /\ (task[t] = "pending" => started[t] = 0)
    /\ synths <= 1
    /\ synths > 0 => AllSucceeded(task)
    /\ \A a \in Actors :
          /\ pc[a] = "create" => \A t \in todo[a] : task[t] = "pending"
          /\ pc[a] = "mark" => task[cur[a][1]] = "queued"
          /\ pc[a] \in {"completeWf", "settle"} =>
                Named(cur[a]) /\ task[cur[a][1]] \notin Settled
          /\ pc[a] = "synth" => AllSucceeded(task)
          /\ pc[a] \in {"listed", "synth"} \cup Sweeping => synths = 0

\* An unfinished child run is the current one of an active task, and a sweep
\* knows all of those it still has to stop.
RunsInStep ==
    /\ \A r \in LiveRuns : Named(r) /\ task[r[1]] \in Active
    /\ \A a \in Actors : \A r \in LiveRuns :
          /\ pc[a] \in {"sweepRun", "sweepTask"} /\ r[1] \in todo[a] => r \in stop[a]
          /\ pc[a] = "sweepTask" => r[1] # cur[a][1]

\* The active tasks, and those a handler is about to start.
Claimed ==
    {t \in Tasks : \/ task[t] \in Active
                   \/ \E a \in Actors : pc[a] = "create" /\ t \in todo[a]}

SlotsKept == Cardinality(Claimed) <= MaxConcurrency

UndisturbedInv ==
    IndInv /\ OneAtATime /\ HeadsInStep /\ TasksInStep /\ RunsInStep /\ SlotsKept

\* A handler's move that claims no task more keeps max_concurrency.
LEMMA SlotsShrink ==
    ASSUME SlotsKept, Claimed' \subseteq Claimed
    PROVE  SlotsKept'
<1>1. IsFiniteSet(Claimed)
  BY SpecAssumption, FS_Subset DEF Claimed
<1>2. /\ Cardinality(Claimed') \in Nat /\ Cardinality(Claimed) \in Nat
      /\ Cardinality(Claimed') <= Cardinality(Claimed)
  BY <1>1, FS_Subset, FS_CardinalityType
<1> QED
  BY <1>2, SpecAssumption DEF SlotsKept

\* ready_runs reads the workflow.
LEMMA ReadyWorkflowUndisturbed ==
    ASSUME UndisturbedInv, Undisturbed, NEW a \in Actors, ReadyWorkflow(a)
    PROVE  /\ OneAtATime' /\ HeadsInStep' /\ TasksInStep'
           /\ RunsInStep' /\ SlotsKept'
<1>1. OneAtATime'
  BY SpecAssumption DEF UndisturbedInv, Undisturbed, IndInv, TypeOK, Actors,
     GoTo, OneAtATime, TasksInStep, Interventions, Steps, Executing,
     ReadyWorkflow, records, memory, heads, history
<1>2. HeadsInStep'
  BY SpecAssumption DEF UndisturbedInv, Undisturbed, IndInv, TypeOK, Actors,
     GoTo, OneAtATime, HeadsInStep, TasksInStep, Sweeping, Settled,
     Interventions, ReadyWorkflow, records, memory, heads, history
<1>3. TasksInStep'
  BY SpecAssumption DEF UndisturbedInv, Undisturbed, IndInv, TypeOK, Actors,
     GoTo, OneAtATime, TasksInStep, Sweeping, Settled, Active, AllSucceeded,
     Named, ReadyWorkflow, records, memory, heads, history
<1>4. RunsInStep'
  BY SpecAssumption DEF UndisturbedInv, Undisturbed, IndInv, TypeOK, Actors,
     GoTo, OneAtATime, TasksInStep, RunsInStep, LiveRuns, Unfinished,
     Settled, Active, Named, ChildRuns, ReadyWorkflow, records, memory,
     heads, history
<1>5. SlotsKept'
  <2>1. Claimed' \subseteq Claimed
    BY SpecAssumption DEF UndisturbedInv, Undisturbed, IndInv, TypeOK,
       Actors, GoTo, OneAtATime, TasksInStep, Claimed, Active, Settled,
       ReadyWorkflow, records, memory, heads, history
  <2> QED BY <2>1, SlotsShrink DEF UndisturbedInv
<1> QED BY <1>1, <1>2, <1>3, <1>4, <1>5

\* ready_runs takes no more tasks than there are slots.
LEMMA ReadyListUndisturbed ==
    ASSUME UndisturbedInv, Undisturbed, NEW a \in Actors, ReadyList(a)
    PROVE  /\ OneAtATime' /\ HeadsInStep' /\ TasksInStep'
           /\ RunsInStep' /\ SlotsKept'
<1>1. OneAtATime'
  BY SpecAssumption DEF UndisturbedInv, Undisturbed, IndInv, TypeOK, Actors,
     GoTo, OneAtATime, TasksInStep, Interventions, Steps, Executing,
     ReadyRuns, Ready, ReadyList, heads, records, history
<1>2. HeadsInStep'
  BY SpecAssumption DEF UndisturbedInv, Undisturbed, IndInv, TypeOK, Actors,
     GoTo, OneAtATime, HeadsInStep, TasksInStep, Sweeping, Settled,
     Interventions, ReadyRuns, Ready, ReadyList, heads, records, history
<1>3. TasksInStep'
  BY SpecAssumption DEF UndisturbedInv, Undisturbed, IndInv, TypeOK, Actors,
     GoTo, OneAtATime, TasksInStep, Sweeping, Settled, Active, AllSucceeded,
     Named, ReadyRuns, Ready, ReadyList, heads, records, history
<1>4. RunsInStep'
  BY SpecAssumption DEF UndisturbedInv, Undisturbed, IndInv, TypeOK, Actors,
     GoTo, OneAtATime, TasksInStep, RunsInStep, LiveRuns, Unfinished,
     Settled, Active, Named, ChildRuns, ReadyRuns, Ready, ReadyList, heads,
     records, history
<1>5. SlotsKept'
  <2> DEFINE active == {t \in Tasks : task[t] \in Active}
  <2>1. PICK S \in ReadyRuns(task) :
          /\ todo' = [todo EXCEPT ![a] = S]
          /\ GoTo(a, IF S = {} THEN "idle" ELSE "create")
    BY DEF ReadyList
  <2>2. S \subseteq Tasks /\ Cardinality(S) <= Slots(task)
    <3>1. /\ S \subseteq Ready(task)
          /\ Cardinality(S) = IF Cardinality(Ready(task)) < Slots(task)
                              THEN Cardinality(Ready(task)) ELSE Slots(task)
      BY DEF ReadyRuns
    <3>2. Cardinality(Ready(task)) \in Nat
      BY SpecAssumption, FS_Subset, FS_CardinalityType DEF Ready
    <3>3. Cardinality(active) \in Nat
      BY SpecAssumption, FS_Subset, FS_CardinalityType
    <3>4. Slots(task) \in Nat
      BY <3>3, SpecAssumption DEF Slots
    <3> QED BY <3>1, <3>2, <3>4 DEF Ready
  <2>3. /\ IsFiniteSet(active) /\ IsFiniteSet(S) /\ IsFiniteSet(active \cap S)
        /\ Cardinality(active) \in Nat /\ Cardinality(S) \in Nat
        /\ Cardinality(active \cap S) \in Nat
    BY <2>2, SpecAssumption, FS_Subset, FS_CardinalityType
  <2>4. Cardinality(active) <= MaxConcurrency
    <3>1. active \subseteq Claimed
      BY DEF Claimed
    <3>2. IsFiniteSet(Claimed)
      BY SpecAssumption, FS_Subset DEF Claimed
    <3>3. Cardinality(active) <= Cardinality(Claimed) /\ Cardinality(Claimed) \in Nat
      BY <3>1, <3>2, FS_Subset, FS_CardinalityType
    <3> QED BY <3>3, <2>3, SpecAssumption DEF UndisturbedInv, SlotsKept
  <2>5. Cardinality(active \cup S) <= MaxConcurrency
    <3>1. Cardinality(active \cup S) = Cardinality(active) + Cardinality(S) - Cardinality(active \cap S)
      BY <2>3, FS_Union
    <3>2. Cardinality(S) <= MaxConcurrency - Cardinality(active)
      BY <2>2, <2>3, <2>4, SpecAssumption DEF Slots
    <3> QED BY <3>1, <3>2, <2>3, SpecAssumption
  <2>6. Claimed' \subseteq active \cup S
    BY <2>1 DEF ReadyList, UndisturbedInv, IndInv, TypeOK, Claimed, GoTo,
       OneAtATime, records
  <2>7. IsFiniteSet(active \cup S) /\ Cardinality(active \cup S) \in Nat
    BY <2>3, FS_Union, FS_CardinalityType
  <2>8. Cardinality(Claimed') <= Cardinality(active \cup S) /\ Cardinality(Claimed') \in Nat
    BY <2>6, <2>7, FS_Subset, FS_CardinalityType
  <2> QED BY <2>5, <2>7, <2>8, SpecAssumption DEF SlotsKept
<1> QED BY <1>1, <1>2, <1>3, <1>4, <1>5

\* The request hands over to the worker.
LEMMA DispatchUndisturbed ==
    ASSUME UndisturbedInv, Undisturbed, NEW a \in Actors, Dispatch(a)
    PROVE  /\ OneAtATime' /\ HeadsInStep' /\ TasksInStep'
           /\ RunsInStep' /\ SlotsKept'
<1>1. OneAtATime'
  BY SpecAssumption DEF UndisturbedInv, Undisturbed, IndInv, TypeOK, Actors,
     GoTo, OneAtATime, TasksInStep, Interventions, Steps, Executing,
     Dispatch, heads, history
<1>2. HeadsInStep'
  BY SpecAssumption DEF UndisturbedInv, Undisturbed, IndInv, TypeOK, Actors,
     GoTo, OneAtATime, HeadsInStep, TasksInStep, Sweeping, Settled,
     Interventions, Dispatch, heads, history
<1>3. TasksInStep'
  BY SpecAssumption DEF UndisturbedInv, Undisturbed, IndInv, TypeOK, Actors,
     GoTo, OneAtATime, TasksInStep, Sweeping, Settled, Active, AllSucceeded,
     Named, Dispatch, heads, history
<1>4. RunsInStep'
  BY SpecAssumption DEF UndisturbedInv, Undisturbed, IndInv, TypeOK, Actors,
     GoTo, OneAtATime, TasksInStep, RunsInStep, LiveRuns, Unfinished,
     Settled, Active, Named, ChildRuns, Dispatch, heads, history
<1>5. SlotsKept'
  <2>1. Claimed' \subseteq Claimed
    BY SpecAssumption DEF UndisturbedInv, Undisturbed, IndInv, TypeOK,
       Actors, GoTo, OneAtATime, TasksInStep, Claimed, Active, Settled,
       Dispatch, heads, history
  <2> QED BY <2>1, SlotsShrink DEF UndisturbedInv
<1> QED BY <1>1, <1>2, <1>3, <1>4, <1>5

\* The first child run of a task that had none.
LEMMA CreateTaskRunUndisturbed ==
    ASSUME UndisturbedInv, Undisturbed, NEW a \in Actors, NEW t \in Tasks,
           CreateTaskRun(a, t)
    PROVE  /\ OneAtATime' /\ HeadsInStep' /\ TasksInStep'
           /\ RunsInStep' /\ SlotsKept'
<1>1. OneAtATime'
  BY SpecAssumption DEF UndisturbedInv, Undisturbed, IndInv, TypeOK, Actors,
     GoTo, OneAtATime, TasksInStep, Interventions, Steps, Executing,
     CreateTaskRun, heads, history
<1>2. HeadsInStep'
  BY SpecAssumption DEF UndisturbedInv, Undisturbed, IndInv, TypeOK, Actors,
     GoTo, OneAtATime, HeadsInStep, TasksInStep, Sweeping, Settled,
     Interventions, CreateTaskRun, heads, history
<1>3. TasksInStep'
  BY SpecAssumption DEF UndisturbedInv, Undisturbed, IndInv, TypeOK, Actors,
     GoTo, OneAtATime, TasksInStep, Sweeping, Settled, Active, AllSucceeded,
     Named, CreateTaskRun, heads, history
<1>4. RunsInStep'
  BY SpecAssumption DEF UndisturbedInv, Undisturbed, IndInv, TypeOK, Actors,
     GoTo, OneAtATime, TasksInStep, RunsInStep, LiveRuns, Unfinished,
     Settled, Active, Named, ChildRuns, CreateTaskRun, heads, history
<1>5. SlotsKept'
  <2>1. Claimed' \subseteq Claimed
    BY SpecAssumption DEF UndisturbedInv, Undisturbed, IndInv, TypeOK,
       Actors, GoTo, OneAtATime, TasksInStep, Claimed, Active, Settled,
       CreateTaskRun, heads, history
  <2> QED BY <2>1, SlotsShrink DEF UndisturbedInv
<1> QED BY <1>1, <1>2, <1>3, <1>4, <1>5

\* The sweep stops the child it has listed.
LEMMA SweepRunUndisturbed ==
    ASSUME UndisturbedInv, Undisturbed, NEW a \in Actors, NEW t \in Tasks,
           SweepRun(a, t)
    PROVE  /\ OneAtATime' /\ HeadsInStep' /\ TasksInStep'
           /\ RunsInStep' /\ SlotsKept'
<1>1. OneAtATime'
  BY SpecAssumption DEF UndisturbedInv, Undisturbed, IndInv, TypeOK, Actors,
     GoTo, OneAtATime, TasksInStep, Interventions, Steps, Executing,
     SweepRun, heads, history
<1>2. HeadsInStep'
  BY SpecAssumption DEF UndisturbedInv, Undisturbed, IndInv, TypeOK, Actors,
     GoTo, OneAtATime, HeadsInStep, TasksInStep, Sweeping, Settled,
     Interventions, SweepRun, heads, history
<1>3. TasksInStep'
  BY SpecAssumption DEF UndisturbedInv, Undisturbed, IndInv, TypeOK, Actors,
     GoTo, OneAtATime, TasksInStep, Sweeping, Settled, Active, AllSucceeded,
     Named, SweepRun, heads, history
<1>4. RunsInStep'
  BY SpecAssumption DEF UndisturbedInv, Undisturbed, IndInv, TypeOK, Actors,
     GoTo, OneAtATime, TasksInStep, RunsInStep, LiveRuns, Unfinished,
     Settled, Active, Named, ChildRuns, SweepRun, heads, history
<1>5. SlotsKept'
  <2>1. Claimed' \subseteq Claimed
    BY SpecAssumption DEF UndisturbedInv, Undisturbed, IndInv, TypeOK,
       Actors, GoTo, OneAtATime, TasksInStep, Claimed, Active, Settled,
       SweepRun, heads, history
  <2> QED BY <2>1, SlotsShrink DEF UndisturbedInv
<1> QED BY <1>1, <1>2, <1>3, <1>4, <1>5

\* The final answer is the first one.
LEMMA SynthesizeUndisturbed ==
    ASSUME UndisturbedInv, Undisturbed, NEW a \in Actors, Synthesize(a)
    PROVE  /\ OneAtATime' /\ HeadsInStep' /\ TasksInStep'
           /\ RunsInStep' /\ SlotsKept'
<1>1. OneAtATime'
  BY SpecAssumption DEF UndisturbedInv, Undisturbed, IndInv, TypeOK, Actors,
     GoTo, OneAtATime, TasksInStep, Interventions, Steps, Executing,
     Synthesize, records, memory
<1>2. HeadsInStep'
  BY SpecAssumption DEF UndisturbedInv, Undisturbed, IndInv, TypeOK, Actors,
     GoTo, OneAtATime, HeadsInStep, TasksInStep, Sweeping, Settled,
     Interventions, Synthesize, records, memory
<1>3. TasksInStep'
  BY SpecAssumption DEF UndisturbedInv, Undisturbed, IndInv, TypeOK, Actors,
     GoTo, OneAtATime, TasksInStep, Sweeping, Settled, Active, AllSucceeded,
     Named, Synthesize, records, memory
<1>4. RunsInStep'
  BY SpecAssumption DEF UndisturbedInv, Undisturbed, IndInv, TypeOK, Actors,
     GoTo, OneAtATime, TasksInStep, RunsInStep, LiveRuns, Unfinished,
     Settled, Active, Named, ChildRuns, Synthesize, records, memory
<1>5. SlotsKept'
  <2>1. Claimed' \subseteq Claimed
    BY SpecAssumption DEF UndisturbedInv, Undisturbed, IndInv, TypeOK,
       Actors, GoTo, OneAtATime, TasksInStep, Claimed, Active, Settled,
       Synthesize, records, memory
  <2> QED BY <2>1, SlotsShrink DEF UndisturbedInv
<1> QED BY <1>1, <1>2, <1>3, <1>4, <1>5

\* The parent follows the workflow.
LEMMA SynthesizeParentUndisturbed ==
    ASSUME UndisturbedInv, Undisturbed, NEW a \in Actors, SynthesizeParent(a)
    PROVE  /\ OneAtATime' /\ HeadsInStep' /\ TasksInStep'
           /\ RunsInStep' /\ SlotsKept'
<1>1. OneAtATime'
  BY SpecAssumption DEF UndisturbedInv, Undisturbed, IndInv, TypeOK, Actors,
     GoTo, OneAtATime, TasksInStep, Interventions, Steps, Executing,
     SynthesizeParent, WriteParent, records, memory, history
<1>2. HeadsInStep'
  BY SpecAssumption DEF UndisturbedInv, Undisturbed, IndInv, TypeOK, Actors,
     GoTo, OneAtATime, HeadsInStep, TasksInStep, Sweeping, Settled,
     Interventions, SynthesizeParent, WriteParent, records, memory, history
<1>3. TasksInStep'
  BY SpecAssumption DEF UndisturbedInv, Undisturbed, IndInv, TypeOK, Actors,
     GoTo, OneAtATime, TasksInStep, Sweeping, Settled, Active, AllSucceeded,
     Named, SynthesizeParent, WriteParent, records, memory, history
<1>4. RunsInStep'
  BY SpecAssumption DEF UndisturbedInv, Undisturbed, IndInv, TypeOK, Actors,
     GoTo, OneAtATime, TasksInStep, RunsInStep, LiveRuns, Unfinished,
     Settled, Active, Named, ChildRuns, SynthesizeParent, WriteParent,
     records, memory, history
<1>5. SlotsKept'
  <2>1. Claimed' \subseteq Claimed
    BY SpecAssumption DEF UndisturbedInv, Undisturbed, IndInv, TypeOK,
       Actors, GoTo, OneAtATime, TasksInStep, Claimed, Active, Settled,
       SynthesizeParent, WriteParent, records, memory, history
  <2> QED BY <2>1, SlotsShrink DEF UndisturbedInv
<1> QED BY <1>1, <1>2, <1>3, <1>4, <1>5

\* The listing names every unfinished child.
LEMMA SweepListUndisturbed ==
    ASSUME UndisturbedInv, Undisturbed, NEW a \in Actors, SweepList(a)
    PROVE  /\ OneAtATime' /\ HeadsInStep' /\ TasksInStep'
           /\ RunsInStep' /\ SlotsKept'
<1>1. OneAtATime'
  BY SpecAssumption DEF UndisturbedInv, Undisturbed, IndInv, TypeOK, Actors,
     GoTo, OneAtATime, TasksInStep, Interventions, Steps, Executing,
     SweepList, heads, records, history
<1>2. HeadsInStep'
  BY SpecAssumption DEF UndisturbedInv, Undisturbed, IndInv, TypeOK, Actors,
     GoTo, OneAtATime, HeadsInStep, TasksInStep, Sweeping, Settled,
     Interventions, SweepList, heads, records, history
<1>3. TasksInStep'
  BY SpecAssumption DEF UndisturbedInv, Undisturbed, IndInv, TypeOK, Actors,
     GoTo, OneAtATime, TasksInStep, Sweeping, Settled, Active, AllSucceeded,
     Named, SweepList, heads, records, history
<1>4. RunsInStep'
  BY SpecAssumption DEF UndisturbedInv, Undisturbed, IndInv, TypeOK, Actors,
     GoTo, OneAtATime, TasksInStep, RunsInStep, LiveRuns, Unfinished,
     Settled, Active, Named, ChildRuns, SweepList, heads, records, history
<1>5. SlotsKept'
  <2>1. Claimed' \subseteq Claimed
    BY SpecAssumption DEF UndisturbedInv, Undisturbed, IndInv, TypeOK,
       Actors, GoTo, OneAtATime, TasksInStep, Claimed, Active, Settled,
       SweepList, heads, records, history
  <2> QED BY <2>1, SlotsShrink DEF UndisturbedInv
<1> QED BY <1>1, <1>2, <1>3, <1>4, <1>5

\* The task of a child just stopped.
LEMMA SweepTaskUndisturbed ==
    ASSUME UndisturbedInv, Undisturbed, NEW a \in Actors, SweepTask(a)
    PROVE  /\ OneAtATime' /\ HeadsInStep' /\ TasksInStep'
           /\ RunsInStep' /\ SlotsKept'
<1>1. OneAtATime'
  BY SpecAssumption DEF UndisturbedInv, Undisturbed, IndInv, TypeOK, Actors,
     GoTo, OneAtATime, TasksInStep, Interventions, Steps, Executing,
     SweepTask, heads, history
<1>2. HeadsInStep'
  BY SpecAssumption DEF UndisturbedInv, Undisturbed, IndInv, TypeOK, Actors,
     GoTo, OneAtATime, HeadsInStep, TasksInStep, Sweeping, Settled,
     Interventions, SweepTask, heads, history
<1>3. TasksInStep'
  BY SpecAssumption DEF UndisturbedInv, Undisturbed, IndInv, TypeOK, Actors,
     GoTo, OneAtATime, TasksInStep, Sweeping, Settled, Active, AllSucceeded,
     Named, SweepTask, heads, history
<1>4. RunsInStep'
  BY SpecAssumption DEF UndisturbedInv, Undisturbed, IndInv, TypeOK, Actors,
     GoTo, OneAtATime, TasksInStep, RunsInStep, LiveRuns, Unfinished,
     Settled, Active, Named, ChildRuns, SweepTask, heads, history
<1>5. SlotsKept'
  <2>1. Claimed' \subseteq Claimed
    BY SpecAssumption DEF UndisturbedInv, Undisturbed, IndInv, TypeOK,
       Actors, GoTo, OneAtATime, TasksInStep, Claimed, Active, Settled,
       SweepTask, heads, history
  <2> QED BY <2>1, SlotsShrink DEF UndisturbedInv
<1> QED BY <1>1, <1>2, <1>3, <1>4, <1>5

\* The workflow takes the outcome of the sweep.
LEMMA SweepWorkflowUndisturbed ==
    ASSUME UndisturbedInv, Undisturbed, NEW a \in Actors, SweepWorkflow(a)
    PROVE  /\ OneAtATime' /\ HeadsInStep' /\ TasksInStep'
           /\ RunsInStep' /\ SlotsKept'
<1>1. OneAtATime'
  BY SpecAssumption DEF UndisturbedInv, Undisturbed, IndInv, TypeOK, Actors,
     GoTo, OneAtATime, TasksInStep, Interventions, Steps, Executing,
     SweepWorkflow, WriteWorkflow, records, memory, history
<1>2. HeadsInStep'
  BY SpecAssumption DEF UndisturbedInv, Undisturbed, IndInv, TypeOK, Actors,
     GoTo, OneAtATime, HeadsInStep, TasksInStep, Sweeping, Settled,
     Interventions, SweepWorkflow, WriteWorkflow, records, memory, history
<1>3. TasksInStep'
  BY SpecAssumption DEF UndisturbedInv, Undisturbed, IndInv, TypeOK, Actors,
     GoTo, OneAtATime, TasksInStep, Sweeping, Settled, Active, AllSucceeded,
     Named, SweepWorkflow, WriteWorkflow, records, memory, history
<1>4. RunsInStep'
  BY SpecAssumption DEF UndisturbedInv, Undisturbed, IndInv, TypeOK, Actors,
     GoTo, OneAtATime, TasksInStep, RunsInStep, LiveRuns, Unfinished,
     Settled, Active, Named, ChildRuns, SweepWorkflow, WriteWorkflow,
     records, memory, history
<1>5. SlotsKept'
  <2>1. Claimed' \subseteq Claimed
    BY SpecAssumption DEF UndisturbedInv, Undisturbed, IndInv, TypeOK,
       Actors, GoTo, OneAtATime, TasksInStep, Claimed, Active, Settled,
       SweepWorkflow, WriteWorkflow, records, memory, history
  <2> QED BY <2>1, SlotsShrink DEF UndisturbedInv
<1> QED BY <1>1, <1>2, <1>3, <1>4, <1>5

\* The parent follows the workflow.
LEMMA SweepParentUndisturbed ==
    ASSUME UndisturbedInv, Undisturbed, NEW a \in Actors, SweepParent(a)
    PROVE  /\ OneAtATime' /\ HeadsInStep' /\ TasksInStep'
           /\ RunsInStep' /\ SlotsKept'
<1>1. OneAtATime'
  BY SpecAssumption DEF UndisturbedInv, Undisturbed, IndInv, TypeOK, Actors,
     GoTo, OneAtATime, TasksInStep, Interventions, Steps, Executing,
     SweepParent, records, memory, history
<1>2. HeadsInStep'
  BY SpecAssumption DEF UndisturbedInv, Undisturbed, IndInv, TypeOK, Actors,
     GoTo, OneAtATime, HeadsInStep, TasksInStep, Sweeping, Settled,
     Interventions, SweepParent, records, memory, history
<1>3. TasksInStep'
  BY SpecAssumption DEF UndisturbedInv, Undisturbed, IndInv, TypeOK, Actors,
     GoTo, OneAtATime, TasksInStep, Sweeping, Settled, Active, AllSucceeded,
     Named, SweepParent, records, memory, history
<1>4. RunsInStep'
  BY SpecAssumption DEF UndisturbedInv, Undisturbed, IndInv, TypeOK, Actors,
     GoTo, OneAtATime, TasksInStep, RunsInStep, LiveRuns, Unfinished,
     Settled, Active, Named, ChildRuns, SweepParent, records, memory,
     history
<1>5. SlotsKept'
  <2>1. Claimed' \subseteq Claimed
    BY SpecAssumption DEF UndisturbedInv, Undisturbed, IndInv, TypeOK,
       Actors, GoTo, OneAtATime, TasksInStep, Claimed, Active, Settled,
       SweepParent, records, memory, history
  <2> QED BY <2>1, SlotsShrink DEF UndisturbedInv
<1> QED BY <1>1, <1>2, <1>3, <1>4, <1>5

\* Every other handler is through when the worker takes a job.
LEMMA TakeJobUndisturbed ==
    ASSUME UndisturbedInv, Undisturbed, NEW w \in Workers, TakeJob(w)
    PROVE  /\ OneAtATime' /\ HeadsInStep' /\ TasksInStep'
           /\ RunsInStep' /\ SlotsKept'
<1>1. OneAtATime'
  BY SpecAssumption DEF UndisturbedInv, Undisturbed, IndInv, TypeOK, Actors,
     GoTo, OneAtATime, TasksInStep, Interventions, Steps, Executing,
     TakeJob, heads, history
<1>2. HeadsInStep'
  BY SpecAssumption DEF UndisturbedInv, Undisturbed, IndInv, TypeOK, Actors,
     GoTo, OneAtATime, HeadsInStep, TasksInStep, Sweeping, Settled,
     Interventions, TakeJob, heads, history
<1>3. TasksInStep'
  BY SpecAssumption DEF UndisturbedInv, Undisturbed, IndInv, TypeOK, Actors,
     GoTo, OneAtATime, TasksInStep, Sweeping, Settled, Active, AllSucceeded,
     Named, TakeJob, heads, history
<1>4. RunsInStep'
  BY SpecAssumption DEF UndisturbedInv, Undisturbed, IndInv, TypeOK, Actors,
     GoTo, OneAtATime, TasksInStep, RunsInStep, LiveRuns, Unfinished,
     Settled, Active, Named, ChildRuns, TakeJob, heads, history
<1>5. SlotsKept'
  <2>1. Claimed' \subseteq Claimed
    BY SpecAssumption DEF UndisturbedInv, Undisturbed, IndInv, TypeOK,
       Actors, GoTo, OneAtATime, TasksInStep, Claimed, Active, Settled,
       TakeJob, heads, history
  <2> QED BY <2>1, SlotsShrink DEF UndisturbedInv
<1> QED BY <1>1, <1>2, <1>3, <1>4, <1>5

\* A queued task stays active.
LEMMA MarkRunningUndisturbed ==
    ASSUME UndisturbedInv, Undisturbed, NEW w \in Workers, MarkRunning(w)
    PROVE  /\ OneAtATime' /\ HeadsInStep' /\ TasksInStep'
           /\ RunsInStep' /\ SlotsKept'
<1>1. OneAtATime'
  BY SpecAssumption DEF UndisturbedInv, Undisturbed, IndInv, TypeOK, Actors,
     GoTo, OneAtATime, TasksInStep, Interventions, Steps, Executing,
     MarkRunning, heads, memory, history
<1>2. HeadsInStep'
  BY SpecAssumption DEF UndisturbedInv, Undisturbed, IndInv, TypeOK, Actors,
     GoTo, OneAtATime, HeadsInStep, TasksInStep, Sweeping, Settled,
     Interventions, MarkRunning, heads, memory, history
<1>3. TasksInStep'
  BY SpecAssumption DEF UndisturbedInv, Undisturbed, IndInv, TypeOK, Actors,
     GoTo, OneAtATime, TasksInStep, Sweeping, Settled, Active, AllSucceeded,
     Named, MarkRunning, heads, memory, history
<1>4. RunsInStep'
  BY SpecAssumption DEF UndisturbedInv, Undisturbed, IndInv, TypeOK, Actors,
     GoTo, OneAtATime, TasksInStep, RunsInStep, LiveRuns, Unfinished,
     Settled, Active, Named, ChildRuns, MarkRunning, heads, memory, history
<1>5. SlotsKept'
  <2>1. Claimed' \subseteq Claimed
    BY SpecAssumption DEF UndisturbedInv, Undisturbed, IndInv, TypeOK,
       Actors, GoTo, OneAtATime, TasksInStep, Claimed, Active, Settled,
       MarkRunning, heads, memory, history
  <2> QED BY <2>1, SlotsShrink DEF UndisturbedInv
<1> QED BY <1>1, <1>2, <1>3, <1>4, <1>5

\* An execution finishes a child and starts none.
LEMMA ExecuteRunUndisturbed ==
    ASSUME UndisturbedInv, Undisturbed, NEW w \in Workers, ExecuteRun(w)
    PROVE  /\ OneAtATime' /\ HeadsInStep' /\ TasksInStep'
           /\ RunsInStep' /\ SlotsKept'
<1>1. OneAtATime'
  BY SpecAssumption DEF UndisturbedInv, Undisturbed, IndInv, TypeOK, Actors,
     GoTo, OneAtATime, TasksInStep, Interventions, Steps, Executing,
     ExecuteRun, heads, memory, history
<1>2. HeadsInStep'
  BY SpecAssumption DEF UndisturbedInv, Undisturbed, IndInv, TypeOK, Actors,
     GoTo, OneAtATime, HeadsInStep, TasksInStep, Sweeping, Settled,
     Interventions, ExecuteRun, heads, memory, history
<1>3. TasksInStep'
  BY SpecAssumption DEF UndisturbedInv, Undisturbed, IndInv, TypeOK, Actors,
     GoTo, OneAtATime, TasksInStep, Sweeping, Settled, Active, AllSucceeded,
     Named, ExecuteRun, heads, memory, history
<1>4. RunsInStep'
  BY SpecAssumption DEF UndisturbedInv, Undisturbed, IndInv, TypeOK, Actors,
     GoTo, OneAtATime, TasksInStep, RunsInStep, LiveRuns, Unfinished,
     Settled, Active, Named, ChildRuns, RunsCreated, ReportsFinal,
     Executing, ExecuteRun, heads, memory, history
<1>5. SlotsKept'
  <2>1. Claimed' \subseteq Claimed
    BY SpecAssumption DEF UndisturbedInv, Undisturbed, IndInv, TypeOK,
       Actors, GoTo, OneAtATime, TasksInStep, Claimed, Active, Settled,
       ExecuteRun, heads, memory, history
  <2> QED BY <2>1, SlotsShrink DEF UndisturbedInv
<1> QED BY <1>1, <1>2, <1>3, <1>4, <1>5

\* A waiting child is unfinished still.
LEMMA ChildWaitsUndisturbed ==
    ASSUME UndisturbedInv, Undisturbed, NEW w \in Workers, ChildWaits(w)
    PROVE  /\ OneAtATime' /\ HeadsInStep' /\ TasksInStep'
           /\ RunsInStep' /\ SlotsKept'
<1>1. OneAtATime'
  BY SpecAssumption DEF UndisturbedInv, Undisturbed, IndInv, TypeOK, Actors,
     GoTo, OneAtATime, TasksInStep, Interventions, Steps, Executing,
     ChildWaits, heads, memory, history
<1>2. HeadsInStep'
  BY SpecAssumption DEF UndisturbedInv, Undisturbed, IndInv, TypeOK, Actors,
     GoTo, OneAtATime, HeadsInStep, TasksInStep, Sweeping, Settled,
     Interventions, ChildWaits, heads, memory, history
<1>3. TasksInStep'
  BY SpecAssumption DEF UndisturbedInv, Undisturbed, IndInv, TypeOK, Actors,
     GoTo, OneAtATime, TasksInStep, Sweeping, Settled, Active, AllSucceeded,
     Named, ChildWaits, heads, memory, history
<1>4. RunsInStep'
  BY SpecAssumption DEF UndisturbedInv, Undisturbed, IndInv, TypeOK, Actors,
     GoTo, OneAtATime, TasksInStep, RunsInStep, LiveRuns, Unfinished,
     Settled, Active, Named, ChildRuns, RunsCreated, ReportsFinal,
     Executing, ChildWaits, heads, memory, history
<1>5. SlotsKept'
  <2>1. Claimed' \subseteq Claimed
    BY SpecAssumption DEF UndisturbedInv, Undisturbed, IndInv, TypeOK,
       Actors, GoTo, OneAtATime, TasksInStep, Claimed, Active, Settled,
       ChildWaits, heads, memory, history
  <2> QED BY <2>1, SlotsShrink DEF UndisturbedInv
<1> QED BY <1>1, <1>2, <1>3, <1>4, <1>5

\* Only the current child of an unsettled task is reported.
LEMMA CompleteChildUndisturbed ==
    ASSUME UndisturbedInv, Undisturbed, NEW w \in Workers, CompleteChild(w)
    PROVE  /\ OneAtATime' /\ HeadsInStep' /\ TasksInStep'
           /\ RunsInStep' /\ SlotsKept'
<1>1. OneAtATime'
  BY SpecAssumption DEF UndisturbedInv, Undisturbed, IndInv, TypeOK, Actors,
     GoTo, OneAtATime, TasksInStep, Interventions, Steps, Executing,
     CompleteChild, heads, records, memory, history
<1>2. HeadsInStep'
  BY SpecAssumption DEF UndisturbedInv, Undisturbed, IndInv, TypeOK, Actors,
     GoTo, OneAtATime, HeadsInStep, TasksInStep, Sweeping, Settled,
     Interventions, CompleteChild, heads, records, memory, history
<1>3. TasksInStep'
  BY SpecAssumption DEF UndisturbedInv, Undisturbed, IndInv, TypeOK, Actors,
     GoTo, OneAtATime, TasksInStep, Sweeping, Settled, Active, AllSucceeded,
     Named, CompleteChild, heads, records, memory, history
<1>4. RunsInStep'
  BY SpecAssumption DEF UndisturbedInv, Undisturbed, IndInv, TypeOK, Actors,
     GoTo, OneAtATime, TasksInStep, RunsInStep, LiveRuns, Unfinished,
     Settled, Active, Named, ChildRuns, CompleteChild, heads, records,
     memory, history
<1>5. SlotsKept'
  <2>1. Claimed' \subseteq Claimed
    BY SpecAssumption DEF UndisturbedInv, Undisturbed, IndInv, TypeOK,
       Actors, GoTo, OneAtATime, TasksInStep, Claimed, Active, Settled,
       CompleteChild, heads, records, memory, history
  <2> QED BY <2>1, SlotsShrink DEF UndisturbedInv
<1> QED BY <1>1, <1>2, <1>3, <1>4, <1>5

\* complete_child reads the workflow.
LEMMA CompleteReadWorkflowUndisturbed ==
    ASSUME UndisturbedInv, Undisturbed, NEW w \in Workers,
           CompleteReadWorkflow(w)
    PROVE  /\ OneAtATime' /\ HeadsInStep' /\ TasksInStep'
           /\ RunsInStep' /\ SlotsKept'
<1>1. OneAtATime'
  BY SpecAssumption DEF UndisturbedInv, Undisturbed, IndInv, TypeOK, Actors,
     GoTo, OneAtATime, TasksInStep, Interventions, Steps, Executing,
     CompleteReadWorkflow, heads, records, history
<1>2. HeadsInStep'
  BY SpecAssumption DEF UndisturbedInv, Undisturbed, IndInv, TypeOK, Actors,
     GoTo, OneAtATime, HeadsInStep, TasksInStep, Sweeping, Settled,
     Interventions, CompleteReadWorkflow, heads, records, history
<1>3. TasksInStep'
  BY SpecAssumption DEF UndisturbedInv, Undisturbed, IndInv, TypeOK, Actors,
     GoTo, OneAtATime, TasksInStep, Sweeping, Settled, Active, AllSucceeded,
     Named, CompleteReadWorkflow, heads, records, history
<1>4. RunsInStep'
  BY SpecAssumption DEF UndisturbedInv, Undisturbed, IndInv, TypeOK, Actors,
     GoTo, OneAtATime, TasksInStep, RunsInStep, LiveRuns, Unfinished,
     Settled, Active, Named, ChildRuns, CompleteReadWorkflow, heads,
     records, history
<1>5. SlotsKept'
  <2>1. Claimed' \subseteq Claimed
    BY SpecAssumption DEF UndisturbedInv, Undisturbed, IndInv, TypeOK,
       Actors, GoTo, OneAtATime, TasksInStep, Claimed, Active, Settled,
       CompleteReadWorkflow, heads, records, history
  <2> QED BY <2>1, SlotsShrink DEF UndisturbedInv
<1> QED BY <1>1, <1>2, <1>3, <1>4, <1>5

\* The child reported was the task's only unfinished one.
LEMMA SettleTaskUndisturbed ==
    ASSUME UndisturbedInv, Undisturbed, NEW w \in Workers, SettleTask(w)
    PROVE  /\ OneAtATime' /\ HeadsInStep' /\ TasksInStep'
           /\ RunsInStep' /\ SlotsKept'
<1>1. OneAtATime'
  BY SpecAssumption DEF UndisturbedInv, Undisturbed, IndInv, TypeOK, Actors,
     GoTo, OneAtATime, TasksInStep, Interventions, Steps, Executing,
     RunsCreated, ReportsFinal, Executing, ChildRuns, SettleTask,
     AfterSettle, heads
<1>2. HeadsInStep'
  BY SpecAssumption DEF UndisturbedInv, Undisturbed, IndInv, TypeOK, Actors,
     GoTo, OneAtATime, HeadsInStep, TasksInStep, Sweeping, Settled,
     Interventions, RunsCreated, ReportsFinal, Executing, ChildRuns,
     SettleTask, AfterSettle, heads
<1>3. TasksInStep'
  BY SpecAssumption DEF UndisturbedInv, Undisturbed, IndInv, TypeOK, Actors,
     GoTo, OneAtATime, TasksInStep, Sweeping, Settled, Active, AllSucceeded,
     Named, RunsCreated, ReportsFinal, Executing, ChildRuns, SettleTask,
     AfterSettle, heads
<1>4. RunsInStep'
  <2>0. /\ w \in Actors /\ cur[w] \in ChildRuns /\ cur[w][1] \in Tasks
        /\ run[cur[w]] \in Settled /\ Named(cur[w])
    BY DEF UndisturbedInv, IndInv, RunsCreated, ReportsFinal, TasksInStep,
       Executing, SettleTask, Actors, ChildRuns
  <2>1. UNCHANGED <<child, run, cur, todo, stop>> /\ LiveRuns' = LiveRuns
    BY DEF SettleTask, LiveRuns, ChildRuns
  <2>2. \A r \in LiveRuns : Named(r) /\ task[r[1]] \in Active
    BY DEF UndisturbedInv, RunsInStep
  <2>3. ASSUME NEW r \in LiveRuns PROVE r[1] # cur[w][1]
    <3> SUFFICES ASSUME r[1] = cur[w][1] PROVE FALSE
      OBVIOUS
    <3>1. r[2] = cur[w][2]
      BY <2>0, <2>2 DEF Named
    <3>2. r = cur[w]
      BY <2>0, <3>1 DEF ChildRuns, LiveRuns
    <3> QED BY <2>0, <3>2 DEF LiveRuns, Settled, Unfinished
  <2>4. \A r \in LiveRuns : Named(r)' /\ task'[r[1]] \in Active
    BY <2>1, <2>2, <2>3 DEF SettleTask, Named, UndisturbedInv, IndInv, TypeOK,
       LiveRuns, ChildRuns
  <2>5. \A b \in Actors : pc'[b] \notin {"sweepRun", "sweepTask"}
    BY <2>0 DEF SettleTask, AfterSettle, GoTo, UndisturbedInv, IndInv, TypeOK,
       OneAtATime
  <2> QED BY <2>1, <2>4, <2>5 DEF RunsInStep
<1>5. SlotsKept'
  <2>1. cur[w][1] \in Tasks /\ run[cur[w]] \notin Active
    BY DEF UndisturbedInv, IndInv, RunsCreated, ReportsFinal, Executing, SettleTask,
       Actors, ChildRuns, Settled, Active
  <2>2. \A b \in Actors : pc'[b] = "create" => pc[b] = "create"
    BY DEF SettleTask, AfterSettle, GoTo, UndisturbedInv, IndInv, TypeOK, Actors
  <2>3. Claimed' \subseteq Claimed
    BY <2>1, <2>2 DEF Claimed, SettleTask, UndisturbedInv, IndInv, TypeOK
  <2> QED BY <2>3, SlotsShrink DEF UndisturbedInv
<1> QED BY <1>1, <1>2, <1>3, <1>4, <1>5

\* complete_child lists the tasks.
LEMMA ListTasksUndisturbed ==
    ASSUME UndisturbedInv, Undisturbed, NEW w \in Workers, ListTasks(w)
    PROVE  /\ OneAtATime' /\ HeadsInStep' /\ TasksInStep'
           /\ RunsInStep' /\ SlotsKept'
<1>1. OneAtATime'
  BY SpecAssumption DEF UndisturbedInv, Undisturbed, IndInv, TypeOK, Actors,
     GoTo, OneAtATime, TasksInStep, Interventions, Steps, Executing,
     ListTasks, heads, records, memory, history
<1>2. HeadsInStep'
  BY SpecAssumption DEF UndisturbedInv, Undisturbed, IndInv, TypeOK, Actors,
     GoTo, OneAtATime, HeadsInStep, TasksInStep, Sweeping, Settled,
     Interventions, ListTasks, heads, records, memory, history
<1>3. TasksInStep'
  BY SpecAssumption DEF UndisturbedInv, Undisturbed, IndInv, TypeOK, Actors,
     GoTo, OneAtATime, TasksInStep, Sweeping, Settled, Active, AllSucceeded,
     Named, ListTasks, heads, records, memory, history
<1>4. RunsInStep'
  BY SpecAssumption DEF UndisturbedInv, Undisturbed, IndInv, TypeOK, Actors,
     GoTo, OneAtATime, TasksInStep, RunsInStep, LiveRuns, Unfinished,
     Settled, Active, Named, ChildRuns, ListTasks, heads, records, memory,
     history
<1>5. SlotsKept'
  <2>1. Claimed' \subseteq Claimed
    BY SpecAssumption DEF UndisturbedInv, Undisturbed, IndInv, TypeOK,
       Actors, GoTo, OneAtATime, TasksInStep, Claimed, Active, Settled,
       ListTasks, heads, records, memory, history
  <2> QED BY <2>1, SlotsShrink DEF UndisturbedInv
<1> QED BY <1>1, <1>2, <1>3, <1>4, <1>5

\* The one request approves the plan.
LEMMA ApproveUndisturbed ==
    ASSUME UndisturbedInv, Undisturbed, NEW u \in Users, Approve(u)
    PROVE  /\ OneAtATime' /\ HeadsInStep' /\ TasksInStep'
           /\ RunsInStep' /\ SlotsKept'
<1>1. OneAtATime'
  BY SpecAssumption DEF UndisturbedInv, Undisturbed, IndInv, TypeOK, Actors,
     GoTo, OneAtATime, TasksInStep, Interventions, Steps, Executing,
     Approve, Call, records, memory
<1>2. HeadsInStep'
  BY SpecAssumption DEF UndisturbedInv, Undisturbed, IndInv, TypeOK, Actors,
     GoTo, OneAtATime, HeadsInStep, TasksInStep, Sweeping, Settled,
     Interventions, Approve, Call, records, memory
<1>3. TasksInStep'
  BY SpecAssumption DEF UndisturbedInv, Undisturbed, IndInv, TypeOK, Actors,
     GoTo, OneAtATime, TasksInStep, Sweeping, Settled, Active, AllSucceeded,
     Named, Approve, Call, records, memory
<1>4. RunsInStep'
  BY SpecAssumption DEF UndisturbedInv, Undisturbed, IndInv, TypeOK, Actors,
     GoTo, OneAtATime, TasksInStep, RunsInStep, LiveRuns, Unfinished,
     Settled, Active, Named, ChildRuns, Approve, Call, records, memory
<1>5. SlotsKept'
  <2>1. Claimed' \subseteq Claimed
    BY SpecAssumption DEF UndisturbedInv, Undisturbed, IndInv, TypeOK,
       Actors, GoTo, OneAtATime, TasksInStep, Claimed, Active, Settled,
       Approve, Call, records, memory
  <2> QED BY <2>1, SlotsShrink DEF UndisturbedInv
<1> QED BY <1>1, <1>2, <1>3, <1>4, <1>5

\* Or it rejects it.
LEMMA RejectUndisturbed ==
    ASSUME UndisturbedInv, Undisturbed, NEW u \in Users, Reject(u)
    PROVE  /\ OneAtATime' /\ HeadsInStep' /\ TasksInStep'
           /\ RunsInStep' /\ SlotsKept'
<1>1. OneAtATime'
  BY SpecAssumption DEF UndisturbedInv, Undisturbed, IndInv, TypeOK, Actors,
     GoTo, OneAtATime, TasksInStep, Interventions, Steps, Executing, Reject,
     Call, records, memory
<1>2. HeadsInStep'
  BY SpecAssumption DEF UndisturbedInv, Undisturbed, IndInv, TypeOK, Actors,
     GoTo, OneAtATime, HeadsInStep, TasksInStep, Sweeping, Settled,
     Interventions, Reject, Call, records, memory
<1>3. TasksInStep'
  BY SpecAssumption DEF UndisturbedInv, Undisturbed, IndInv, TypeOK, Actors,
     GoTo, OneAtATime, TasksInStep, Sweeping, Settled, Active, AllSucceeded,
     Named, Reject, Call, records, memory
<1>4. RunsInStep'
  BY SpecAssumption DEF UndisturbedInv, Undisturbed, IndInv, TypeOK, Actors,
     GoTo, OneAtATime, TasksInStep, RunsInStep, LiveRuns, Unfinished,
     Settled, Active, Named, ChildRuns, Reject, Call, records, memory
<1>5. SlotsKept'
  <2>1. Claimed' \subseteq Claimed
    BY SpecAssumption DEF UndisturbedInv, Undisturbed, IndInv, TypeOK,
       Actors, GoTo, OneAtATime, TasksInStep, Claimed, Active, Settled,
       Reject, Call, records, memory
  <2> QED BY <2>1, SlotsShrink DEF UndisturbedInv
<1> QED BY <1>1, <1>2, <1>3, <1>4, <1>5

\* Or it cancels the workflow.
LEMMA CancelUndisturbed ==
    ASSUME UndisturbedInv, Undisturbed, NEW u \in Users, Cancel(u)
    PROVE  /\ OneAtATime' /\ HeadsInStep' /\ TasksInStep'
           /\ RunsInStep' /\ SlotsKept'
<1>1. OneAtATime'
  BY SpecAssumption DEF UndisturbedInv, Undisturbed, IndInv, TypeOK, Actors,
     GoTo, OneAtATime, TasksInStep, Interventions, Steps, Executing, Cancel,
     Call, heads, records
<1>2. HeadsInStep'
  BY SpecAssumption DEF UndisturbedInv, Undisturbed, IndInv, TypeOK, Actors,
     GoTo, OneAtATime, HeadsInStep, TasksInStep, Sweeping, Settled,
     Interventions, Cancel, Call, heads, records
<1>3. TasksInStep'
  BY SpecAssumption DEF UndisturbedInv, Undisturbed, IndInv, TypeOK, Actors,
     GoTo, OneAtATime, TasksInStep, Sweeping, Settled, Active, AllSucceeded,
     Named, Cancel, Call, heads, records
<1>4. RunsInStep'
  BY SpecAssumption DEF UndisturbedInv, Undisturbed, IndInv, TypeOK, Actors,
     GoTo, OneAtATime, TasksInStep, RunsInStep, LiveRuns, Unfinished,
     Settled, Active, Named, ChildRuns, Cancel, Call, heads, records
<1>5. SlotsKept'
  <2>1. Claimed' \subseteq Claimed
    BY SpecAssumption DEF UndisturbedInv, Undisturbed, IndInv, TypeOK,
       Actors, GoTo, OneAtATime, TasksInStep, Claimed, Active, Settled,
       Cancel, Call, heads, records
  <2> QED BY <2>1, SlotsShrink DEF UndisturbedInv
<1> QED BY <1>1, <1>2, <1>3, <1>4, <1>5

\* The parent follows the workflow.
LEMMA ApproveParentUndisturbed ==
    ASSUME UndisturbedInv, Undisturbed, NEW u \in Users, ApproveParent(u)
    PROVE  /\ OneAtATime' /\ HeadsInStep' /\ TasksInStep'
           /\ RunsInStep' /\ SlotsKept'
<1>1. OneAtATime'
  BY SpecAssumption DEF UndisturbedInv, Undisturbed, IndInv, TypeOK, Actors,
     GoTo, OneAtATime, TasksInStep, Interventions, Steps, Executing,
     ApproveParent, WriteParent, records, memory, history
<1>2. HeadsInStep'
  BY SpecAssumption DEF UndisturbedInv, Undisturbed, IndInv, TypeOK, Actors,
     GoTo, OneAtATime, HeadsInStep, TasksInStep, Sweeping, Settled,
     Interventions, ApproveParent, WriteParent, records, memory, history
<1>3. TasksInStep'
  BY SpecAssumption DEF UndisturbedInv, Undisturbed, IndInv, TypeOK, Actors,
     GoTo, OneAtATime, TasksInStep, Sweeping, Settled, Active, AllSucceeded,
     Named, ApproveParent, WriteParent, records, memory, history
<1>4. RunsInStep'
  BY SpecAssumption DEF UndisturbedInv, Undisturbed, IndInv, TypeOK, Actors,
     GoTo, OneAtATime, TasksInStep, RunsInStep, LiveRuns, Unfinished,
     Settled, Active, Named, ChildRuns, ApproveParent, WriteParent, records,
     memory, history
<1>5. SlotsKept'
  <2>1. Claimed' \subseteq Claimed
    BY SpecAssumption DEF UndisturbedInv, Undisturbed, IndInv, TypeOK,
       Actors, GoTo, OneAtATime, TasksInStep, Claimed, Active, Settled,
       ApproveParent, WriteParent, records, memory, history
  <2> QED BY <2>1, SlotsShrink DEF UndisturbedInv
<1> QED BY <1>1, <1>2, <1>3, <1>4, <1>5

\* The workflow follows the parent.
LEMMA RejectWorkflowUndisturbed ==
    ASSUME UndisturbedInv, Undisturbed, NEW u \in Users, RejectWorkflow(u)
    PROVE  /\ OneAtATime' /\ HeadsInStep' /\ TasksInStep'
           /\ RunsInStep' /\ SlotsKept'
<1>1. OneAtATime'
  BY SpecAssumption DEF UndisturbedInv, Undisturbed, IndInv, TypeOK, Actors,
     GoTo, OneAtATime, TasksInStep, Interventions, Steps, Executing,
     RejectWorkflow, WriteWorkflow, records, memory, history
<1>2. HeadsInStep'
  BY SpecAssumption DEF UndisturbedInv, Undisturbed, IndInv, TypeOK, Actors,
     GoTo, OneAtATime, HeadsInStep, TasksInStep, Sweeping, Settled,
     Interventions, RejectWorkflow, WriteWorkflow, records, memory, history
<1>3. TasksInStep'
  BY SpecAssumption DEF UndisturbedInv, Undisturbed, IndInv, TypeOK, Actors,
     GoTo, OneAtATime, TasksInStep, Sweeping, Settled, Active, AllSucceeded,
     Named, RejectWorkflow, WriteWorkflow, records, memory, history
<1>4. RunsInStep'
  BY SpecAssumption DEF UndisturbedInv, Undisturbed, IndInv, TypeOK, Actors,
     GoTo, OneAtATime, TasksInStep, RunsInStep, LiveRuns, Unfinished,
     Settled, Active, Named, ChildRuns, RejectWorkflow, WriteWorkflow,
     records, memory, history
<1>5. SlotsKept'
  <2>1. Claimed' \subseteq Claimed
    BY SpecAssumption DEF UndisturbedInv, Undisturbed, IndInv, TypeOK,
       Actors, GoTo, OneAtATime, TasksInStep, Claimed, Active, Settled,
       RejectWorkflow, WriteWorkflow, records, memory, history
  <2> QED BY <2>1, SlotsShrink DEF UndisturbedInv
<1> QED BY <1>1, <1>2, <1>3, <1>4, <1>5

\* After its one request nobody can call anything, and before it there is nothing
\* to pause, resume, retry or approve but the plan.
LEMMA NoIntervention ==
    ASSUME UndisturbedInv, Undisturbed, NEW u \in Users
    PROVE  /\ ~Pause(u) /\ ~Resume(u)
           /\ \A t \in Tasks : ~RetryTask(u, t)
           /\ \A r \in ChildRuns : ~ApproveChild(u, r)
           /\ ~PauseWorkflow(u) /\ ~PauseParent(u) /\ ~ResumeWorkflow(u)
           /\ ~ResumeParent(u) /\ ~ResumeList(u) /\ ~RetryWriteTask(u)
           /\ ~RetryWriteWorkflow(u) /\ ~RetryWriteParent(u)
<1> USE DEF UndisturbedInv, Undisturbed, IndInv, TypeOK, OneAtATime, Actors
<1>1. ops < MaxOps => ops = 0
  OBVIOUS
<1>2. ~Pause(u) /\ ~Resume(u)
  BY <1>1 DEF Pause, Resume, Call
<1>3. \A t \in Tasks : ~RetryTask(u, t)
  BY <1>1 DEF RetryTask, Call
<1>4. \A r \in ChildRuns : ~ApproveChild(u, r)
  BY <1>1 DEF ApproveChild, Call
<1>5. pc[u] \notin Interventions
  OBVIOUS
<1> QED
  BY <1>2, <1>3, <1>4, <1>5 DEF Interventions, PauseWorkflow, PauseParent,
     ResumeWorkflow, ResumeParent, ResumeList, RetryWriteTask,
     RetryWriteWorkflow, RetryWriteParent, WriteWorkflow, WriteParent

\* The invariant holds of the preview.
LEMMA InitUndisturbed == Init => UndisturbedInv
<1> SUFFICES ASSUME Init PROVE UndisturbedInv
  OBVIOUS
<1>1. IndInv
  BY InitInv
<1>2. OneAtATime /\ HeadsInStep
  BY DEF Init, OneAtATime, HeadsInStep, Interventions, Sweeping
<1>3. TasksInStep /\ RunsInStep
  BY DEF Init, TasksInStep, RunsInStep, LiveRuns, Unfinished, Sweeping
<1>4. Claimed = {}
  BY DEF Init, Claimed, Active
<1>5. SlotsKept
  BY <1>4, FS_EmptySet, SpecAssumption DEF SlotsKept
<1> QED BY <1>1, <1>2, <1>3, <1>5 DEF UndisturbedInv

\* Every step of an undisturbed workflow keeps its invariant.
LEMMA NextUndisturbed == Undisturbed /\ UndisturbedInv /\ [Next]_vars => UndisturbedInv'
<1> SUFFICES ASSUME Undisturbed, UndisturbedInv, [Next]_vars PROVE UndisturbedInv'
  OBVIOUS
<1> DEFINE Kept == OneAtATime' /\ HeadsInStep' /\ TasksInStep' /\ RunsInStep' /\ SlotsKept'
<1>1. ASSUME NEW a \in Actors, Coordinate(a) PROVE Kept
  BY <1>1, ReadyWorkflowUndisturbed, ReadyListUndisturbed,
     DispatchUndisturbed, CreateTaskRunUndisturbed, SweepRunUndisturbed,
     SynthesizeUndisturbed, SynthesizeParentUndisturbed,
     SweepListUndisturbed, SweepTaskUndisturbed, SweepWorkflowUndisturbed,
     SweepParentUndisturbed DEF Coordinate
<1>2. ASSUME NEW w \in Workers, Work(w) PROVE Kept
  BY <1>2, TakeJobUndisturbed, MarkRunningUndisturbed,
     ExecuteRunUndisturbed, ChildWaitsUndisturbed, CompleteChildUndisturbed,
     CompleteReadWorkflowUndisturbed, SettleTaskUndisturbed,
     ListTasksUndisturbed DEF Work
<1>3. ASSUME NEW u \in Users, Request(u) PROVE Kept
  BY <1>3, NoIntervention, ApproveUndisturbed, RejectUndisturbed, CancelUndisturbed
     DEF Request
<1>4. ASSUME NEW u \in Users, Serve(u) PROVE Kept
  BY <1>4, NoIntervention, ApproveParentUndisturbed, RejectWorkflowUndisturbed
     DEF Serve
<1>5. ASSUME UNCHANGED vars PROVE Kept
  <2>1. OneAtATime' /\ HeadsInStep'
    BY <1>5 DEF UndisturbedInv, OneAtATime, HeadsInStep, vars, heads, records, memory, history
  <2>2. TasksInStep' /\ RunsInStep'
    BY <1>5 DEF UndisturbedInv, TasksInStep, RunsInStep, LiveRuns, Named, AllSucceeded,
       vars, heads, records, memory, history
  <2>3. SlotsKept'
    BY <1>5 DEF UndisturbedInv, SlotsKept, Claimed, vars, heads, records, memory, history
  <2> QED BY <2>1, <2>2, <2>3
<1>6. Kept
  BY <1>1, <1>2, <1>3, <1>4, <1>5 DEF Next
<1>7. IndInv'
  BY NextInv DEF UndisturbedInv
<1> QED BY <1>6, <1>7 DEF UndisturbedInv

\* The unfinished child runs are as many as their tasks, which are active.
LEMMA LiveRunsBounded == UndisturbedInv => ConcurrencyKept
<1> SUFFICES ASSUME UndisturbedInv PROVE Cardinality(LiveRuns) <= MaxConcurrency
  BY DEF ConcurrencyKept
<1> DEFINE taskOf == [r \in LiveRuns |-> r[1]]
<1>1. taskOf \in Injection(LiveRuns, Claimed)
  <2>1. \A r \in LiveRuns : r[1] \in Claimed /\ r[2] = child[r[1]]
    BY DEF UndisturbedInv, RunsInStep, Named, Claimed, LiveRuns, ChildRuns
  <2>2. \A r, q \in LiveRuns : r[1] = q[1] => r = q
    BY <2>1 DEF LiveRuns, ChildRuns
  <2> QED BY <2>1, <2>2 DEF Injection, IsInjective
<1>2. IsFiniteSet(Claimed)
  BY SpecAssumption, FS_Subset DEF Claimed
<1>3. IsFiniteSet(LiveRuns) /\ Cardinality(LiveRuns) <= Cardinality(Claimed)
  BY <1>1, <1>2, FS_Injection
<1>4. Cardinality(LiveRuns) \in Nat /\ Cardinality(Claimed) \in Nat
  BY <1>2, <1>3, FS_CardinalityType
<1> QED BY <1>3, <1>4, SpecAssumption DEF UndisturbedInv, SlotsKept

\* UndisturbedInvariant: UndisturbedInv holds throughout a workflow that one worker
\* carries out after one request.
THEOREM UndisturbedInvariant == ASSUME Undisturbed PROVE Spec => []UndisturbedInv
<1>1. Init => UndisturbedInv
  BY InitUndisturbed
<1>2. UndisturbedInv /\ [Next]_vars => UndisturbedInv'
  BY NextUndisturbed
<1> QED BY <1>1, <1>2, PTL DEF Spec

\* ConcurrencyIsKept: for every task graph and every max_concurrency, one worker
\* never has more child runs unfinished than ready_runs may start.
THEOREM ConcurrencyIsKept == ASSUME Undisturbed PROVE Spec => []ConcurrencyKept
<1> QED BY LiveRunsBounded, UndisturbedInvariant, PTL

\* TasksStartOnce: no task of an undisturbed workflow gets a second child run.
THEOREM TasksStartOnce == ASSUME Undisturbed PROVE Spec => []StartedOnce
<1>1. UndisturbedInv => StartedOnce
  BY DEF UndisturbedInv, TasksInStep, StartedOnce
<1> QED BY <1>1, UndisturbedInvariant, PTL

\* OneFinalAnswer: the parent's thread gets one final answer, although every
\* report of a child may be the one that finds all tasks done.
THEOREM OneFinalAnswer == ASSUME Undisturbed PROVE Spec => []SynthesizedOnce
<1>1. UndisturbedInv => SynthesizedOnce
  BY DEF UndisturbedInv, TasksInStep, SynthesizedOnce
<1> QED BY <1>1, UndisturbedInvariant, PTL

\* ParentTellsTheSame: whenever all handlers are through, the parent run and the
\* workflow agree, whichever way the workflow ended.
THEOREM ParentTellsTheSame == ASSUME Undisturbed PROVE Spec => []ParentAgrees
<1>1. UndisturbedInv => ParentAgrees
  BY DEF UndisturbedInv, OneAtATime, HeadsInStep, ParentAgrees
<1> QED BY <1>1, UndisturbedInvariant, PTL
=============================================================================
