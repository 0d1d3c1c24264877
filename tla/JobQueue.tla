------------------------------ MODULE JobQueue ------------------------------
(***************************************************************************)
(* The Redis job queue and the Agent workers that drain it.                *)
(*                                                                         *)
(* A job is an entry of one Redis hash and, while it waits, an element of  *)
(* the pending list.  RedisJobQueue uses no transaction: hset, hget,       *)
(* hvals, lpop and rpush are separate commands, and a client may crash, or *)
(* another client may run, between any two of them.  A worker's            *)
(* process_next reaps expired leases, claims a job, executes its run and   *)
(* acknowledges or rejects the job; a job that used up its attempts is a   *)
(* dead letter, whose run is failed.                                       *)
(*                                                                         *)
(* There is one job per run, so a job also names its run.  Time is left    *)
(* out: the lease of a running job may expire at any moment (the worker    *)
(* does not renew it), and a delay may end at any moment.                  *)
(***************************************************************************)
EXTENDS Integers, Sequences, TLC

CONSTANTS
    Workers,       \* AgentWorker processes
    Jobs,          \* the jobs that may be enqueued, each with its run
    None,          \* no job
    MaxAttempts,   \* max_attempts of every job
    MaxExpiry,     \* bound of the leases that expire
    MaxCrash       \* bound of the processes that crash

ASSUME NoneAssumption == None \notin Jobs
ASSUME AttemptsAssumption == MaxAttempts \in Nat \ {0}
ASSUME BoundsAssumption == MaxExpiry \in Nat /\ MaxCrash \in Nat

VARIABLES
    \* Redis: the hash of the jobs and the two lists of job ids
    status,      \* status
    attempts,    \* attempts
    expired,     \* lease_expires_at has passed
    delayed,     \* available_at has not come
    pending,     \* the pending list
    dead,        \* the ids in the dead-letter list
    \* what a worker holds in memory
    pc,          \* how far process_next is
    job,         \* the job in its hands
    seen,        \* attempts of that job as the worker read them
    todo,        \* reap_expired_leases: what is left of the snapshot
    buried,      \* the dead letters it returned, whose runs are to be failed
    \* the API
    submitting,  \* jobs that enqueue has written and not yet pushed
    \* the control plane
    run,         \* the run's status
    \* histories
    stranded,    \* jobs to push or to finish that died with their process
    execs,       \* how often each job was handed to a worker
    expiries, crashes

hash == <<status, attempts, expired, delayed>>
lists == <<pending, dead>>
crew == <<pc, job, seen, todo, buried>>
counts == <<expiries, crashes>>
vars == <<hash, lists, crew, submitting, run, stranded, execs, counts>>

-----------------------------------------------------------------------------
(* State *)

JobStatus == {"absent", "pending", "running", "succeeded", "dead_letter"}

RunStatus == {"queued", "running", "waiting", "retrying", "terminal"}

Phase == {"idle", "reaping", "burying", "claiming", "reclaiming", "popping",
          "popped", "returning", "taking", "taken", "executing",
          "acking", "acked", "rejecting", "rejected", "pushing",
          "failed", "retrying", "closing"}

Init ==
    /\ status = [j \in Jobs |-> "absent"]
    /\ attempts = [j \in Jobs |-> 0]
    /\ expired = [j \in Jobs |-> FALSE]
    /\ delayed = [j \in Jobs |-> FALSE]
    /\ pending = <<>>
    /\ dead = {}
    /\ pc = [w \in Workers |-> "idle"]
    /\ job = [w \in Workers |-> None]
    /\ seen = [w \in Workers |-> 0]
    /\ todo = [w \in Workers |-> {}]
    /\ buried = [w \in Workers |-> {}]
    /\ submitting = {}
    /\ run = [j \in Jobs |-> "queued"]
    /\ stranded = {}
    /\ execs = [j \in Jobs |-> 0]
    /\ expiries = 0
    /\ crashes = 0

-----------------------------------------------------------------------------
(* Updates the operations share *)

\* _write: the whole envelope replaces the entry, whatever it is by now; a
\* lease is not expired when it is written.
Write(j, s, n, later) ==
    /\ status' = [status EXCEPT ![j] = s]
    /\ attempts' = [attempts EXCEPT ![j] = n]
    /\ expired' = [expired EXCEPT ![j] = FALSE]
    /\ delayed' = [delayed EXCEPT ![j] = later]

\* rpush on the pending list.
PushPending(j) ==
    /\ pending' = Append(pending, j)
    /\ stranded' = stranded \ {j}
    /\ UNCHANGED dead

\* rpush on the list that the status just written calls for.
Push(j, n) ==
    \/ n < MaxAttempts /\ PushPending(j)
    \/ /\ n >= MaxAttempts
       /\ dead' = dead \cup {j}
       /\ UNCHANGED <<pending, stranded>>

Goto(w, phase) ==
    /\ pc' = [pc EXCEPT ![w] = phase]
    /\ UNCHANGED <<job, seen, todo, buried>>

\* The worker goes on with the job j, whose attempts it read as n.
Take(w, phase, j, n) ==
    /\ pc' = [pc EXCEPT ![w] = phase]
    /\ job' = [job EXCEPT ![w] = j]
    /\ seen' = [seen EXCEPT ![w] = n]
    /\ UNCHANGED <<todo, buried>>

Drop(w, phase) == Take(w, phase, None, 0)

-----------------------------------------------------------------------------
(* enqueue, called by the API and by the workers themselves *)

EnqueueWrite(j) ==
    /\ status[j] = "absent"
    /\ Write(j, "pending", 0, FALSE)
    /\ submitting' = submitting \cup {j}
    /\ UNCHANGED <<lists, crew, run, stranded, execs, counts>>

EnqueuePush(j) ==
    /\ j \in submitting
    /\ PushPending(j)
    /\ submitting' = submitting \ {j}
    /\ UNCHANGED <<hash, crew, run, execs, counts>>

\* The process that enqueues dies between the two commands.
EnqueueCrash(j) ==
    /\ j \in submitting
    /\ crashes < MaxCrash
    /\ crashes' = crashes + 1
    /\ submitting' = submitting \ {j}
    /\ stranded' = stranded \cup {j}
    /\ UNCHANGED <<hash, lists, crew, run, execs, expiries>>

-----------------------------------------------------------------------------
(* reap_expired_leases: once at the start of process_next, once in claim *)

\* hvals: the expired jobs and their attempts, as they are at this moment.
ReapScan(w) ==
    /\ \/ pc[w] = "idle" /\ pc' = [pc EXCEPT ![w] = "reaping"]
       \/ pc[w] = "claiming" /\ pc' = [pc EXCEPT ![w] = "reclaiming"]
    /\ todo' = [todo EXCEPT ![w] =
                  {<<j, attempts[j]>> :
                     j \in {i \in Jobs : status[i] = "running" /\ expired[i]}}]
    /\ UNCHANGED <<hash, lists, job, seen, buried, submitting, run, stranded,
                   execs, counts>>

\* Mutant: a job is given up one attempt too early.
MutReapGivesUpEarly(w) ==
    /\ pc[w] \in {"reaping", "reclaiming"}
    /\ job[w] = None
    /\ \E x \in todo[w] :
        LET over == x[2] + 1 >= MaxAttempts
        IN  /\ Write(x[1], IF over THEN "dead_letter" ELSE "pending", x[2], FALSE)
            /\ job' = [job EXCEPT ![w] = x[1]]
            /\ seen' = [seen EXCEPT ![w] = x[2]]
            /\ todo' = [todo EXCEPT ![w] = @ \ {x}]
    /\ UNCHANGED <<pc, buried, lists, submitting, run, stranded, execs, counts>>

\* hset for the next expired job of the snapshot.  Only the first of the two
\* reaps hands its dead letters on.
ReapWrite(w) ==
    /\ pc[w] \in {"reaping", "reclaiming"}
    /\ job[w] = None
    /\ \E x \in todo[w] :
        LET j == x[1]
            n == x[2]
            over == n >= MaxAttempts
        IN  /\ Write(j, IF over THEN "dead_letter" ELSE "pending", n, FALSE)
            /\ job' = [job EXCEPT ![w] = j]
            /\ seen' = [seen EXCEPT ![w] = n]
            /\ todo' = [todo EXCEPT ![w] = @ \ {x}]
            /\ buried' = IF over /\ pc[w] = "reaping"
                         THEN [buried EXCEPT ![w] = @ \cup {j}]
                         ELSE buried
    /\ UNCHANGED <<pc, lists, submitting, run, stranded, execs, counts>>

\* Mutant: a reaped job is written and not pushed.
MutReapWithoutPush(w) ==
    /\ pc[w] \in {"reaping", "reclaiming"}
    /\ job[w] # None
    /\ Drop(w, pc[w])
    /\ UNCHANGED <<hash, lists, submitting, run, stranded, execs, counts>>

\* rpush for that job.
ReapPush(w) ==
    /\ pc[w] \in {"reaping", "reclaiming"}
    /\ job[w] # None
    /\ Push(job[w], seen[w])
    /\ Drop(w, pc[w])
    /\ UNCHANGED <<hash, submitting, run, execs, counts>>

ReapDone(w) ==
    /\ job[w] = None
    /\ todo[w] = {}
    /\ \/ pc[w] = "reaping" /\ Goto(w, "burying")
       \/ pc[w] = "reclaiming" /\ Goto(w, "popping")
    /\ UNCHANGED <<hash, lists, submitting, run, stranded, execs, counts>>

\* _finish_dead_letter for the dead letters the first reap returned.
FinishReaped(w) ==
    /\ pc[w] = "burying"
    /\ \/ \E j \in buried[w] :
            /\ run' = [run EXCEPT ![j] = "terminal"]
            /\ buried' = [buried EXCEPT ![w] = @ \ {j}]
            /\ UNCHANGED <<pc, job, seen, todo>>
       \/ buried[w] = {} /\ Goto(w, "claiming") /\ UNCHANGED run
    /\ UNCHANGED <<hash, lists, submitting, stranded, execs, counts>>

-----------------------------------------------------------------------------
(* claim *)

\* lpop; an empty list ends process_next.
ClaimPop(w) ==
    /\ pc[w] = "popping"
    /\ \/ pending = <<>> /\ Goto(w, "idle") /\ UNCHANGED pending
       \/ /\ pending # <<>>
          /\ Take(w, "popped", Head(pending), 0)
          /\ pending' = Tail(pending)
    /\ UNCHANGED <<hash, dead, submitting, run, stranded, execs, counts>>

\* Mutant: a delayed job is skipped like one that does not wait.
MutClaimSkipsDelayed(w) ==
    LET j == job[w]
    IN  /\ pc[w] = "popped"
        /\ \/ /\ status[j] # "pending" \/ delayed[j]
              /\ Drop(w, "popping")
           \/ /\ status[j] = "pending" /\ ~delayed[j]
              /\ Take(w, "taking", j, attempts[j])
        /\ UNCHANGED <<hash, lists, submitting, run, stranded, execs, counts>>

\* Mutant: a claim trusts the list and does not look at the job's status.
MutClaimAnyStatus(w) ==
    LET j == job[w]
    IN  /\ pc[w] = "popped"
        /\ \/ delayed[j] /\ Goto(w, "returning")
           \/ ~delayed[j] /\ Take(w, "taking", j, attempts[j])
        /\ UNCHANGED <<hash, lists, submitting, run, stranded, execs, counts>>

\* hget: an id whose job does not wait is skipped, a delayed job is returned
\* to the list, any other is claimed.
ClaimRead(w) ==
    LET j == job[w]
    IN  /\ pc[w] = "popped"
        /\ \/ status[j] # "pending" /\ Drop(w, "popping")
           \/ status[j] = "pending" /\ delayed[j] /\ Goto(w, "returning")
           \/ /\ status[j] = "pending" /\ ~delayed[j]
              /\ Take(w, "taking", j, attempts[j])
        /\ UNCHANGED <<hash, lists, submitting, run, stranded, execs, counts>>

\* rpush of a delayed job; process_next then finds nothing to do.
ClaimReturn(w) ==
    /\ pc[w] = "returning"
    /\ PushPending(job[w])
    /\ Drop(w, "idle")
    /\ UNCHANGED <<hash, submitting, run, execs, counts>>

\* Mutant: a claim does not count as an attempt.
MutClaimDoesNotCount(w) ==
    LET j == job[w]
    IN  /\ pc[w] = "taking"
        /\ Write(j, "running", seen[w], FALSE)
        /\ execs' = [execs EXCEPT ![j] = @ + 1]
        /\ Goto(w, "taken")
        /\ UNCHANGED <<lists, submitting, run, stranded, counts>>

\* hset: the job is running under a new lease.
ClaimWrite(w) ==
    LET j == job[w]
    IN  /\ pc[w] = "taking"
        /\ Write(j, "running", seen[w] + 1, FALSE)
        /\ execs' = [execs EXCEPT ![j] = @ + 1]
        /\ Goto(w, "taken")
        /\ UNCHANGED <<lists, submitting, run, stranded, counts>>

-----------------------------------------------------------------------------
(* The execution of the run *)

\* execute_run: a terminal run is left alone, any other is RUNNING.
ExecuteRun(w) ==
    /\ pc[w] = "taken"
    /\ Goto(w, "executing")
    /\ run' = IF run[job[w]] = "terminal"
              THEN run ELSE [run EXCEPT ![job[w]] = "running"]
    /\ UNCHANGED <<hash, lists, submitting, stranded, execs, counts>>

\* execute_run returns: the run is terminal, or waits for a person.  Starting
\* what follows a terminal run may still raise.
Return(w) ==
    /\ pc[w] = "executing"
    /\ \/ /\ run' = [run EXCEPT ![job[w]] = "terminal"]
          /\ Goto(w, "acking") \/ Goto(w, "rejecting")
       \/ /\ run[job[w]] # "terminal"
          /\ run' = [run EXCEPT ![job[w]] = "waiting"]
          /\ Goto(w, "acking")
    /\ UNCHANGED <<hash, lists, submitting, stranded, execs, counts>>

\* execute_run raises, or reports that another worker owns the action.
Raise(w) ==
    /\ pc[w] = "executing"
    /\ Goto(w, "rejecting")
    /\ UNCHANGED <<hash, lists, submitting, run, stranded, execs, counts>>

\* ack: hget, then hset.  Neither ack nor reject asks whether the job is
\* still this worker's.
AckRead(w) ==
    /\ pc[w] = "acking"
    /\ Take(w, "acked", job[w], attempts[job[w]])
    /\ UNCHANGED <<hash, lists, submitting, run, stranded, execs, counts>>

AckWrite(w) ==
    /\ pc[w] = "acked"
    /\ Write(job[w], "succeeded", seen[w], FALSE)
    /\ Drop(w, "idle")
    /\ UNCHANGED <<lists, submitting, run, stranded, execs, counts>>

\* reject: hget, hset, rpush.
RejectRead(w) ==
    /\ pc[w] = "rejecting"
    /\ Take(w, "rejected", job[w], attempts[job[w]])
    /\ UNCHANGED <<hash, lists, submitting, run, stranded, execs, counts>>

RejectWrite(w) ==
    /\ pc[w] = "rejected"
    /\ IF seen[w] < MaxAttempts
       THEN Write(job[w], "pending", seen[w], TRUE)
       ELSE Write(job[w], "dead_letter", seen[w], FALSE)
    /\ Goto(w, "pushing")
    /\ UNCHANGED <<lists, submitting, run, stranded, execs, counts>>

RejectPush(w) ==
    /\ pc[w] = "pushing"
    /\ Push(job[w], seen[w])
    /\ Goto(w, IF seen[w] < MaxAttempts THEN "failed" ELSE "closing")
    /\ UNCHANGED <<hash, submitting, run, execs, counts>>

\* Mutant: the run is marked for retry without looking at its status.
MutRetryAnyRun(w) ==
    /\ pc[w] = "failed"
    /\ Goto(w, "retrying")
    /\ UNCHANGED <<hash, lists, submitting, run, stranded, execs, counts>>

\* After a reject that allows a retry the run is RETRYING unless it is
\* terminal: a read, then a write.
CheckRetrying(w) ==
    /\ pc[w] = "failed"
    /\ \/ run[job[w]] = "terminal" /\ Drop(w, "idle")
       \/ run[job[w]] # "terminal" /\ Goto(w, "retrying")
    /\ UNCHANGED <<hash, lists, submitting, run, stranded, execs, counts>>

MarkRetrying(w) ==
    /\ pc[w] = "retrying"
    /\ run' = [run EXCEPT ![job[w]] = "retrying"]
    /\ Drop(w, "idle")
    /\ UNCHANGED <<hash, lists, submitting, stranded, execs, counts>>

\* _finish_dead_letter after the last attempt.
FinishRejected(w) ==
    /\ pc[w] = "closing"
    /\ run' = [run EXCEPT ![job[w]] = "terminal"]
    /\ Drop(w, "idle")
    /\ UNCHANGED <<hash, lists, submitting, stranded, execs, counts>>

-----------------------------------------------------------------------------
(* The environment *)

\* The job in a worker's hands that waits and that no list has: it was popped,
\* or it was written as pending and is not pushed yet.
InHands(w) ==
    IF \/ pc[w] \in {"popped", "returning", "taking"}
       \/ /\ seen[w] < MaxAttempts
          /\ \/ pc[w] = "pushing"
             \/ pc[w] \in {"reaping", "reclaiming"} /\ job[w] # None
    THEN {job[w]} ELSE {}

\* The dead letters whose runs a worker is about to fail.
ToFinish(w) ==
    buried[w] \cup (IF pc[w] \in {"pushing", "closing"} THEN {job[w]} ELSE {})

\* A worker dies and is started again.
Crash(w) ==
    /\ pc[w] # "idle"
    /\ crashes < MaxCrash
    /\ crashes' = crashes + 1
    /\ stranded' = stranded
                    \cup {j \in InHands(w) : status[j] = "pending"}
                    \cup {j \in ToFinish(w) : status[j] = "dead_letter"}
    /\ pc' = [pc EXCEPT ![w] = "idle"]
    /\ job' = [job EXCEPT ![w] = None]
    /\ seen' = [seen EXCEPT ![w] = 0]
    /\ todo' = [todo EXCEPT ![w] = {}]
    /\ buried' = [buried EXCEPT ![w] = {}]
    /\ UNCHANGED <<hash, lists, submitting, run, execs, expiries>>

\* Time passes: a lease ends, a delay is over.
Expire(j) ==
    /\ status[j] = "running"
    /\ ~expired[j]
    /\ expiries < MaxExpiry
    /\ expiries' = expiries + 1
    /\ expired' = [expired EXCEPT ![j] = TRUE]
    /\ UNCHANGED <<status, attempts, delayed, lists, crew, submitting, run,
                   stranded, execs, crashes>>

Elapse(j) ==
    /\ delayed[j]
    /\ delayed' = [delayed EXCEPT ![j] = FALSE]
    /\ UNCHANGED <<status, attempts, expired, lists, crew, submitting, run,
                   stranded, execs, counts>>

-----------------------------------------------------------------------------

ProcessNext(w) ==
    \/ ReapScan(w) \/ ReapWrite(w) \/ ReapPush(w) \/ ReapDone(w)
    \/ FinishReaped(w)
    \/ ClaimPop(w) \/ ClaimRead(w) \/ ClaimReturn(w) \/ ClaimWrite(w)
    \/ ExecuteRun(w) \/ Return(w) \/ Raise(w)
    \/ AckRead(w) \/ AckWrite(w)
    \/ RejectRead(w) \/ RejectWrite(w) \/ RejectPush(w)
    \/ CheckRetrying(w) \/ MarkRetrying(w)
    \/ FinishRejected(w)

Next ==
    \/ \E w \in Workers : ProcessNext(w) \/ Crash(w)
    \/ \E j \in Jobs : \/ EnqueueWrite(j) \/ EnqueuePush(j) \/ EnqueueCrash(j)
                       \/ Expire(j) \/ Elapse(j)

Spec == Init /\ [][Next]_vars

\* A worker that was started polls for ever, an API call that was begun ends,
\* and time passes.
Fairness ==
    /\ \A w \in Workers : WF_vars(ProcessNext(w))
    /\ \A j \in Jobs : /\ WF_vars(EnqueuePush(j))
                       /\ WF_vars(Expire(j))
                       /\ WF_vars(Elapse(j))

FairSpec == Spec /\ Fairness

-----------------------------------------------------------------------------
(* Properties *)

HashTypeOK ==
    /\ status \in [Jobs -> JobStatus]
    /\ attempts \in [Jobs -> 0..MaxAttempts]
    /\ expired \in [Jobs -> BOOLEAN]
    /\ delayed \in [Jobs -> BOOLEAN]

ListsTypeOK == pending \in Seq(Jobs) /\ dead \in SUBSET Jobs

CrewTypeOK ==
    /\ pc \in [Workers -> Phase]
    /\ job \in [Workers -> Jobs \cup {None}]
    /\ seen \in [Workers -> 0..MaxAttempts]
    /\ todo \in [Workers -> SUBSET (Jobs \X (0..MaxAttempts))]
    /\ buried \in [Workers -> SUBSET Jobs]

\* The hash, the lists and the workers have the shapes declared above; the
\* attempts in the hash never exceed max_attempts, even when stale copies of
\* an entry are written back.
TypeOK ==
    /\ HashTypeOK
    /\ ListsTypeOK
    /\ CrewTypeOK
    /\ submitting \in SUBSET Jobs
    /\ run \in [Jobs -> RunStatus]
    /\ stranded \in SUBSET Jobs
    /\ execs \in [Jobs -> Nat]
    /\ expiries \in 0..MaxExpiry
    /\ crashes \in 0..MaxCrash

Listed(j) == \E i \in 1..Len(pending) : pending[i] = j

\* A job that waits can be found: it is in the pending list, or a live process
\* is about to push or to claim it.  Only a process that dies with the job in
\* its hands, between two commands to Redis, strands it: no interleaving of
\* live workers does, although claims, reaps, acks and rejects overwrite each
\* other's entries.
NoJobLost ==
    \A j \in Jobs :
        status[j] = "pending" =>
            \/ Listed(j)
            \/ j \in submitting \cup stranded
            \/ \E w \in Workers : j \in InHands(w)

\* A waiting job has an attempt left and a dead letter has none: no overlap of
\* reap, claim and reject gives a job up early or keeps it beyond its budget.
BudgetKept ==
    \A j \in Jobs :
        /\ status[j] = "pending" => attempts[j] < MaxAttempts
        /\ status[j] = "dead_letter" => attempts[j] = MaxAttempts

\* With one worker a job is handed out at most max_attempts times, and it is
\* given up only after that many executions.
ExecutionsBounded ==
    \A j \in Jobs :
        /\ execs[j] <= MaxAttempts
        /\ status[j] = "dead_letter" => execs[j] = MaxAttempts

StaysTerminal == \A j \in Jobs : run[j] = "terminal" => run'[j] = "terminal"

\* With one worker a run that is terminal stays terminal: a retry that is
\* scheduled after the run ended does not put it back to RETRYING.
TerminalIsFinal == [][StaysTerminal]_vars

IsPending(j) == status[j] = "pending"
IsSettled(j) == status[j] \in {"succeeded", "dead_letter"} \/ j \in stranded

\* Every job that was enqueued ends as succeeded or as a dead letter, unless a
\* crash strands it, whatever runs fail and whatever leases expire.
JobSettles == \A j \in Jobs : IsPending(j) ~> IsSettled(j)

\* The comment in _append_assistant_message: the lease of the job serializes
\* the executions of its run.
RunIsSerialized ==
    \A v, w \in Workers :
        pc[v] = "executing" /\ pc[w] = "executing" /\ job[v] = job[w] => v = w

\* test_agent_worker_terminates_run_after_final_lease_expires: the run of a
\* dead letter is terminal, or a live worker is about to fail it.  The code does
\* not keep this: claim drops the dead letters its own reap makes.
DeadLetterEndsRun ==
    \A j \in Jobs :
        status[j] = "dead_letter" =>
            \/ run[j] = "terminal"
            \/ j \in stranded
            \/ \E w \in Workers : j \in ToFinish(w)

-----------------------------------------------------------------------------
(* The inductive invariant behind TypeOK, BudgetKept and NoJobLost *)

\* The phases in which a worker has a job.
Busy == {"popped", "returning", "taking", "taken", "executing", "acking",
         "acked", "rejecting", "rejected", "pushing", "failed", "retrying",
         "closing"}

\* A worker past lpop has a job, and it only takes one that had an attempt
\* left when it read it, so a stale copy cannot exceed the budget.
HandsOK ==
    \A w \in Workers :
        /\ pc[w] \in Busy => job[w] \in Jobs
        /\ pc[w] = "taking" => seen[w] < MaxAttempts

IndInv == TypeOK /\ HandsOK /\ BudgetKept /\ NoJobLost

-----------------------------------------------------------------------------
(* For TLC: workers and jobs are interchangeable, and two workers that      *)
(* overlap, which can hand a job out without end, are followed as far as    *)
(* max_attempts executions of it.                                           *)
Symmetry == Permutations(Workers) \cup Permutations(Jobs)

ExecsBounded == \A j \in Jobs : execs[j] <= MaxAttempts
=============================================================================
