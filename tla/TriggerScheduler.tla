-------------------------- MODULE TriggerScheduler --------------------------
(***************************************************************************)
(* One schedule trigger: the schedulers that turn the due times of its     *)
(* cron expression into jobs (TriggerSchedulerWorker.process_due), the     *)
(* workers that turn a job into a run and the job that executes it         *)
(* (TriggerDueWorker.process_next), and the people who enable, disable and *)
(* delete it.  The queue is the one of JobQueue; a call of it is one step  *)
(* here.  Time is counted in the minutes of the cron expression.           *)
(***************************************************************************)
EXTENDS FiniteSetsExt, Naturals, Sequences

CONSTANTS
    Slots,        \* minutes the cron expression matches, one beyond Horizon
    StartsAt, EndsAt,  \* window of the schedule, None: open
    CatchUp,      \* max_catch_up_runs
    Horizon,      \* bound on the clock
    Schedulers,   \* scheduler processes (two overlap during an update)
    Workers,      \* trigger_due workers
    MaxAttempts,  \* attempts of a job
    MaxJobs,      \* bound on the jobs enqueued
    MaxFault,     \* bound on exceptions, expired leases, crashes and overlaps
    MaxSwitch,    \* bound on enabling, disabling and deleting
    None

VARIABLES
    now,
    status, nextRun,   \* the row in trigger_definitions
    read,              \* read[p]: next_run_at as scheduler p listed it
    due,               \* due[p]: slots p has still to enqueue, the earliest first
    upcoming,          \* upcoming[p]: next_run_at of p's evaluation
    spc,               \* where each scheduler is
    jobs,              \* the jobs of type TRIGGER_DUE, in order of creation
    wpc, job, run,     \* where each worker is, its job, the run it created
    runs,              \* the runs, in order of creation
    faults, switches,
    \* history
    first,             \* first slot of the first evaluation
    overlap,           \* did a scheduler die or two of them overlap?
    reopened,          \* did an evaluation end the schedule before its window?
    interrupted        \* interrupted[j]: attempts at job j that broke off

trigger == <<status, nextRun>>
schedulers == <<read, due, upcoming, spc>>
workers == <<wpc, job, run>>
history == <<first, overlap, reopened, interrupted>>
vars == <<now, trigger, schedulers, jobs, workers, runs, faults, switches,
          history>>

JobIds == 1..MaxJobs

-----------------------------------------------------------------------------
(* evaluate_trigger_schedule. *)

\* CronSchedule.next_at_or_after
NextAtOrAfter(t) == Min({s \in Slots : s >= t})

InWindow(t) == EndsAt = None \/ t <= EndsAt

\* _initial_next_run_at
InitialNextRunAt ==
    IF nextRun # None THEN nextRun
    ELSE NextAtOrAfter(IF StartsAt # None THEN StartsAt ELSE now)

\* The slots the loop collects, starting from n.
DueSlots(n) ==
    {s \in Slots :
        /\ n <= s /\ s <= now /\ InWindow(s)
        /\ Cardinality({q \in Slots : n <= q /\ q < s}) < CatchUp}

\* next_run_at after the loop: the first slot it does not collect (next_after), None
\* at the end of the window.
NextAfterLoop(n) ==
    LET next == Min({s \in Slots : n <= s} \ DueSlots(n))
    IN  IF InWindow(next) THEN next ELSE None

-----------------------------------------------------------------------------
(* TriggerSchedulerWorker.process_due *)

\* Scheduler p is through; its local variables are gone.
Rest(p) ==
    /\ spc' = [spc EXCEPT ![p] = "idle"]
    /\ read' = [read EXCEPT ![p] = None]
    /\ due' = [due EXCEPT ![p] = {}]
    /\ upcoming' = [upcoming EXCEPT ![p] = None]

\* The listing of the triggers and the evaluation of this one.
ProcessDue(p) ==
    /\ spc[p] = "idle" /\ status = "enabled"
    /\ LET n == InitialNextRunAt
           open == InWindow(now)
       IN  /\ due' = [due EXCEPT ![p] = IF open THEN DueSlots(n) ELSE {}]
           /\ upcoming' = [upcoming EXCEPT ![p] =
                             IF open THEN NextAfterLoop(n) ELSE None]
           /\ first' = IF first = None /\ open THEN n ELSE first
    /\ read' = [read EXCEPT ![p] = nextRun]
    /\ spc' = [spc EXCEPT ![p] = "enqueue"]
    /\ IF \E q \in Schedulers : spc[q] # "idle"
       THEN faults < MaxFault /\ faults' = faults + 1 /\ overlap' = TRUE
       ELSE UNCHANGED <<faults, overlap>>
    /\ UNCHANGED <<now, trigger, jobs, workers, runs, switches, reopened,
                   interrupted>>

EnqueueDue(p) ==
    /\ spc[p] = "enqueue" /\ Len(jobs) < MaxJobs
    /\ \E s \in due[p] :
         /\ \A t \in due[p] : s <= t
         /\ jobs' = Append(jobs, [slot |-> s, st |-> "pending", attempts |-> 0])
         /\ due' = [due EXCEPT ![p] = @ \ {s}]
    /\ UNCHANGED <<now, trigger, read, upcoming, spc, workers, runs, faults,
                   switches, history>>

\* update_next_run_at, when the evaluation differs from what was listed; the
\* update of a deleted trigger raises.
MutUpdateNextRunAt(p) ==
    /\ spc[p] = "enqueue" /\ due[p] = {}
    /\ nextRun' = IF nextRun = None THEN upcoming[p] ELSE nextRun
    /\ Rest(p)
    /\ UNCHANGED <<now, status, jobs, workers, runs, faults, switches, history>>
UpdateNextRunAt(p) ==
    /\ spc[p] = "enqueue" /\ due[p] = {}
    /\ nextRun' = IF upcoming[p] # read[p] /\ status # "deleted"
                  THEN upcoming[p] ELSE nextRun
    /\ reopened' = (reopened \/ (upcoming[p] = None /\ InWindow(now)))
    /\ Rest(p)
    /\ UNCHANGED <<now, status, jobs, workers, runs, faults, switches, first,
                   overlap, interrupted>>

SchedulerDies(p) ==
    /\ spc[p] # "idle" /\ faults < MaxFault
    /\ Rest(p)
    /\ overlap' = TRUE
    /\ faults' = faults + 1
    /\ UNCHANGED <<now, trigger, jobs, workers, runs, switches, first,
                   reopened, interrupted>>

-----------------------------------------------------------------------------
(* TriggerDueWorker.process_next *)

Goto(w, label) == wpc' = [wpc EXCEPT ![w] = label]

\* process_next of w returns.
Done(w) ==
    /\ Goto(w, "idle")
    /\ job' = [job EXCEPT ![w] = 0]
    /\ run' = [run EXCEPT ![w] = 0]

\* queue.claim
MutClaimFresh(w) ==
    /\ wpc[w] = "idle"
    /\ \E j \in 1..Len(jobs) :
         /\ jobs[j].st = "pending" /\ jobs[j].attempts = 0
         /\ jobs' = [jobs EXCEPT ![j].st = "running", ![j].attempts = @ + 1]
         /\ job' = [job EXCEPT ![w] = j]
    /\ Goto(w, "build")
    /\ UNCHANGED <<now, trigger, schedulers, run, runs, faults, switches,
                   history>>
ClaimDue(w) ==
    /\ wpc[w] = "idle"
    /\ \E j \in 1..Len(jobs) :
         /\ jobs[j].st = "pending"
         /\ jobs' = [jobs EXCEPT ![j].st = "running", ![j].attempts = @ + 1]
         /\ job' = [job EXCEPT ![w] = j]
    /\ Goto(w, "build")
    /\ UNCHANGED <<now, trigger, schedulers, run, runs, faults, switches,
                   history>>

\* build_run_request: a disabled or deleted trigger raises.
BuildRunRequest(w) ==
    /\ wpc[w] = "build"
    /\ Goto(w, IF status = "enabled" THEN "create" ELSE "reject")
    /\ UNCHANGED <<now, trigger, schedulers, jobs, job, run, runs, faults,
                   switches, history>>

\* _create_run: the thread and the message of an agent's trigger, the run.
CreateRun(w) ==
    /\ wpc[w] = "create"
    /\ runs' = Append(runs, [job |-> job[w], queued |-> FALSE, execs |-> 0])
    /\ run' = [run EXCEPT ![w] = Len(runs) + 1]
    /\ Goto(w, "queue")
    /\ UNCHANGED <<now, trigger, schedulers, jobs, job, faults, switches,
                   history>>

\* _enqueue_run_execution: update_run_status(QUEUED), then the job.
MarkQueued(w) ==
    /\ wpc[w] = "queue"
    /\ runs' = [runs EXCEPT ![run[w]].queued = TRUE]
    /\ Goto(w, "execute")
    /\ UNCHANGED <<now, trigger, schedulers, jobs, job, run, faults, switches,
                   history>>

EnqueueExecution(w) ==
    /\ wpc[w] = "execute"
    /\ runs' = [runs EXCEPT ![run[w]].execs = @ + 1]
    /\ Goto(w, "ack")
    /\ UNCHANGED <<now, trigger, schedulers, jobs, job, run, faults, switches,
                   history>>

AckDue(w) ==
    /\ wpc[w] = "ack"
    /\ jobs' = [jobs EXCEPT ![job[w]].st = "done"]
    /\ Done(w)
    /\ UNCHANGED <<now, trigger, schedulers, runs, faults, switches,
                   history>>

\* Any call inside the try block raises.
RaiseDue(w) ==
    /\ wpc[w] \in {"build", "create", "queue", "execute"} /\ faults < MaxFault
    /\ faults' = faults + 1
    /\ Goto(w, "reject")
    /\ interrupted' = [interrupted EXCEPT ![job[w]] = @ + 1]
    /\ UNCHANGED <<now, trigger, schedulers, jobs, job, run, runs, switches,
                   first, overlap, reopened>>

\* queue.reject: another attempt, or a dead letter.
RejectDue(w) ==
    /\ wpc[w] = "reject"
    /\ jobs' = [jobs EXCEPT ![job[w]].st =
                  IF jobs[job[w]].attempts < MaxAttempts
                  THEN "pending" ELSE "dead"]
    /\ Done(w)
    /\ UNCHANGED <<now, trigger, schedulers, runs, faults, switches,
                   history>>

\* The lease of a running job ends, its worker dead or slow.
LeaseExpires(j) ==
    /\ jobs[j].st = "running" /\ faults < MaxFault
    /\ jobs' = [jobs EXCEPT ![j].st =
                  IF jobs[j].attempts < MaxAttempts THEN "pending" ELSE "dead"]
    /\ interrupted' = [interrupted EXCEPT ![j] = @ + 1]
    /\ faults' = faults + 1
    /\ UNCHANGED <<now, trigger, schedulers, workers, runs, switches, first,
                   overlap, reopened>>

\* The worker dies; its job is handed out again when the lease has ended.
WorkerDies(w) ==
    /\ wpc[w] # "idle" /\ faults < MaxFault
    /\ jobs' = [jobs EXCEPT ![job[w]].st =
                  IF @ # "running" THEN @
                  ELSE IF jobs[job[w]].attempts < MaxAttempts THEN "pending"
                  ELSE "dead"]
    /\ interrupted' = [interrupted EXCEPT ![job[w]] = @ + 1]
    /\ Done(w)
    /\ faults' = faults + 1
    /\ UNCHANGED <<now, trigger, schedulers, runs, switches, first,
                   overlap, reopened>>

-----------------------------------------------------------------------------
(* The API and the clock. *)

EnableTrigger ==
    /\ status \in {"enabled", "disabled"} /\ switches < MaxSwitch
    /\ status' = "enabled"
    /\ switches' = switches + 1
    /\ UNCHANGED <<now, nextRun, schedulers, jobs, workers, runs, faults,
                   history>>

DisableTrigger ==
    /\ status \in {"enabled", "disabled"} /\ switches < MaxSwitch
    /\ status' = "disabled"
    /\ switches' = switches + 1
    /\ UNCHANGED <<now, nextRun, schedulers, jobs, workers, runs, faults,
                   history>>

\* delete_trigger refuses an enabled trigger.
DeleteTrigger ==
    /\ status = "disabled" /\ switches < MaxSwitch
    /\ status' = "deleted"
    /\ switches' = switches + 1
    /\ UNCHANGED <<now, nextRun, schedulers, jobs, workers, runs, faults,
                   history>>

Tick ==
    /\ now < Horizon
    /\ now' = now + 1
    /\ UNCHANGED <<trigger, schedulers, jobs, workers, runs, faults, switches,
                   history>>

Init ==
    /\ now = 1
    /\ status = "enabled" /\ nextRun = None
    /\ read = [p \in Schedulers |-> None]
    /\ due = [p \in Schedulers |-> {}]
    /\ upcoming = [p \in Schedulers |-> None]
    /\ spc = [p \in Schedulers |-> "idle"]
    /\ jobs = <<>>
    /\ wpc = [w \in Workers |-> "idle"]
    /\ job = [w \in Workers |-> 0]
    /\ run = [w \in Workers |-> 0]
    /\ runs = <<>>
    /\ faults = 0 /\ switches = 0
    /\ first = None /\ overlap = FALSE /\ reopened = FALSE
    /\ interrupted = [j \in JobIds |-> 0]

SchedulerNext(p) == ProcessDue(p) \/ EnqueueDue(p) \/ UpdateNextRunAt(p)

WorkerNext(w) ==
    \/ ClaimDue(w) \/ BuildRunRequest(w) \/ CreateRun(w) \/ MarkQueued(w)
    \/ EnqueueExecution(w) \/ AckDue(w) \/ RejectDue(w)

Next ==
    \/ \E p \in Schedulers : SchedulerNext(p) \/ SchedulerDies(p)
    \/ \E w \in Workers : WorkerNext(w) \/ RaiseDue(w) \/ WorkerDies(w)
    \/ \E j \in 1..Len(jobs) : LeaseExpires(j)
    \/ EnableTrigger \/ DisableTrigger \/ DeleteTrigger
    \/ Tick

\* Schedulers and workers poll for ever (runner.py), and time passes.
Fairness ==
    /\ \A p \in Schedulers : WF_vars(SchedulerNext(p))
    /\ \A w \in Workers : WF_vars(WorkerNext(w))
    /\ WF_vars(Tick)

Spec == Init /\ [][Next]_vars /\ Fairness

-----------------------------------------------------------------------------
TypeOK ==
    /\ Len(jobs) <= MaxJobs
    /\ now \in 1..Horizon
    /\ status \in {"enabled", "disabled", "deleted"}
    /\ nextRun \in Slots \cup {None}
    /\ \A p \in Schedulers : /\ read[p] \in Slots \cup {None}
                             /\ upcoming[p] \in Slots \cup {None}
                             /\ due[p] \subseteq Slots /\ Cardinality(due[p]) <= CatchUp
                             /\ spc[p] \in {"idle", "enqueue"}
    /\ \A j \in 1..Len(jobs) : /\ jobs[j].slot \in Slots
                               /\ jobs[j].attempts \in 0..MaxAttempts
                               /\ jobs[j].st \in {"pending", "running", "done",
                                                  "dead"}
    /\ \A w \in Workers : /\ job[w] \in 0..Len(jobs)
                          /\ run[w] \in 0..Len(runs)

JobsFor(s) == {j \in 1..Len(jobs) : jobs[j].slot = s}
RunsOf(j) == {k \in 1..Len(runs) : runs[k].job = j}

(* next_run_at never passes a due time that has no job, although two       *)
(* schedulers may work from the same listing, write back what they         *)
(* evaluated in any order, and die half way (process_due enqueues first);  *)
(* of a schedule without starts_at, unless one died or two overlapped.     *)
NoSlotSkipped ==
    nextRun # None /\ (StartsAt # None \/ ~overlap) =>
        \A s \in Slots : first <= s /\ s < nextRun => JobsFor(s) # {}

(* A due time gets one job, unless a scheduler died before it moved        *)
(* next_run_at, two schedulers overlapped, or an evaluation inside the     *)
(* window found no further due time and left next_run_at empty.            *)
SlotFiresOnce ==
    ~overlap /\ ~reopened => \A s \in Slots : Cardinality(JobsFor(s)) <= 1

(* A job creates one run, and one more for each attempt that was broken    *)
(* off: process_next does not look for the run of an earlier attempt.      *)
RunsAccounted ==
    \A j \in 1..Len(jobs) : Cardinality(RunsOf(j)) <= 1 + interrupted[j]

(* A due job that was acknowledged has a run that is queued and has a job  *)
(* to execute it, whichever attempt acknowledged it.                       *)
AckedHasExecution ==
    \A j \in 1..Len(jobs) : jobs[j].st = "done" =>
        \E k \in RunsOf(j) : runs[k].queued /\ runs[k].execs > 0

Served(s) == \E j \in JobsFor(s) :
                 \/ jobs[j].st = "dead"
                 \/ \E k \in RunsOf(j) : runs[k].execs > 0
IsDue(s) == first # None /\ first <= s /\ s <= now
ServedOrOff(s) == Served(s) \/ status # "enabled"

(* Every due time of a trigger that stays enabled gets a run that is       *)
(* executed, or its job ends as a dead letter, also after downtime, as     *)
(* long as the window is open.                                             *)
SlotsServed == \A s \in Slots : IsDue(s) ~> ServedOrOff(s)
=============================================================================
