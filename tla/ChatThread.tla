----------------------------- MODULE ChatThread -----------------------------
(***************************************************************************)
(* One conversation of ChatService (chat/service.py): messages posted while *)
(* a run is active wait in the thread's queue or steer the run, and when a  *)
(* run ends the next queued message gets its run (continue_thread).         *)
(*                                                                         *)
(* Handlers are API requests and run executions in progress.  Handlers of   *)
(* one process exclude each other inside post_message and continue_thread   *)
(* (_named_lock); those of two processes share only the store, whose calls  *)
(* are atomic.  A run is identified by the message that triggered it.       *)
(***************************************************************************)
EXTENDS Naturals, FiniteSets

LOCAL INSTANCE TLC

CONSTANTS
    Messages,      \* the messages users may post
    Handlers,      \* requests and executions that may be in progress at once
    Inline,        \* run_execution_dispatch_mode: TRUE "inline", one process;
                   \* FALSE "queue", every handler in a process of its own
    Limit,         \* bound: how often each kind of disturbance may happen
    None

Disturbances == {"fault", "retry", "cancel", "close"}

ASSUME ThreadAssumption ==
    /\ IsFiniteSet(Messages)
    /\ Inline \in BOOLEAN
    /\ Limit \in [Disturbances -> Nat]
    /\ None \notin Messages

VARIABLES
    open,      \* the thread is ACTIVE, neither archived nor deleted
    order,     \* sequence number of each message; 0 before it is posted
    status,    \* dispatch_status of each message; "absent" before it is posted
    run,       \* status of the run the message triggered
    jobs,      \* executions of the run that are enqueued
    pc,        \* where each handler is
    work,      \* the run a handler executes
    msg,       \* the message it posts, claims or deletes
    target,    \* the run it found active, or the run it started
    dest,      \* what becomes of its message if no run starts for it
    sweep,     \* steering messages it has listed and not written yet
    used,      \* exceptions, retries, cancellations, closures so far
    starts,    \* history: number of runs started for the message
    finished   \* history: runs that have ended at some time

thread == <<open, order, status, run, jobs>>
frames == <<work, msg, target, dest, sweep>>
vars   == <<thread, pc, frames, used, starts, finished>>

DeliveryModes == {"auto", "queue", "manual", "steer"}
Waiting       == {"queued", "steering"}
MsgStatus     == {"absent", "ready", "inflight", "completed", "cancelled",
                  "deleted"} \cup Waiting
Active        == {"queued", "running", "waiting"}
Terminal      == {"ended", "cancelled"}   \* "ended": succeeded, failed or timed out
RunStatus     == {"none"} \cup Active \cup Terminal
Locked        == {"append", "start", "create", "fallback", "contList",
                  "contRequeue", "contClaim", "contCreate"}
Steps         == {"idle", "dispatch", "enqueue", "delete", "continue", "loop",
                  "apply", "yield", "retried"} \cup Locked

Init ==
    /\ open = TRUE
    /\ order = [m \in Messages |-> 0]
    /\ status = [m \in Messages |-> "absent"]
    /\ run = [m \in Messages |-> "none"]
    /\ jobs = [m \in Messages |-> 0]
    /\ pc = [h \in Handlers |-> "idle"]
    /\ work = [h \in Handlers |-> None]
    /\ msg = [h \in Handlers |-> None]
    /\ target = [h \in Handlers |-> None]
    /\ dest = [h \in Handlers |-> "queued"]
    /\ sweep = [h \in Handlers |-> {}]
    /\ used = [d \in Disturbances |-> 0]
    /\ starts = [m \in Messages |-> 0]
    /\ finished = {}

\* get_active_thread_run and list_pending_steering_messages
ActiveRuns == {r \in Messages : run[r] \in Active}
Steering   == {m \in Messages : status[m] = "steering"}

\* A lock object per call excludes nobody.
MutLockFree(h) == TRUE

\* _named_lock("thread:..."): one holder among the handlers of a process.
LockFree(h) == Inline => \A g \in Handlers \ {h} : pc[g] \notin Locked

GoTo(h, step) == pc' = [pc EXCEPT ![h] = step]

\* The handler is through; what it had read is forgotten.
Return(h) ==
    /\ GoTo(h, "idle")
    /\ work' = [work EXCEPT ![h] = None]
    /\ msg' = [msg EXCEPT ![h] = None]
    /\ target' = [target EXCEPT ![h] = None]
    /\ dest' = [dest EXCEPT ![h] = "queued"]
    /\ sweep' = [sweep EXCEPT ![h] = {}]

\* update_chat_message(dispatch_status), which raises on a deleted message
Write(m, s) == status' = [status EXCEPT ![m] = IF @ = "deleted" THEN @ ELSE s]

\* append_chat_message: the next sequence number of the thread
Numbered(m) ==
    order' = [order EXCEPT ![m] = 1 + Cardinality({n \in Messages : order[n] > 0})]

End(r, s) ==
    /\ run' = [run EXCEPT ![r] = s]
    /\ finished' = finished \cup {r}

Enqueued(r) == jobs' = [jobs EXCEPT ![r] = @ + 1]

Count(d) == used' = [used EXCEPT ![d] = @ + 1]

Within(d) == used[d] < Limit[d]

\* An exception that leaves handler h outside of the loop.  An agent worker
\* has its job retried, or buries it and continues the thread once more; a
\* request or a background task just ends.
Raise(h) ==
    /\ Count("fault")
    /\ \/ /\ ~Inline /\ work[h] # None
          /\ Enqueued(work[h])
          /\ Return(h)
       \/ /\ ~Inline /\ work[h] # None
          /\ GoTo(h, "continue")
          /\ UNCHANGED <<jobs, frames>>
       \/ /\ Inline \/ work[h] = None
          /\ Return(h)
          /\ UNCHANGED jobs

-----------------------------------------------------------------------------
(* post_message                                                             *)

\* What becomes of a message that finds a run active: _append_to_active_run.
Delivery(d, waiting) ==
    CASE d = "manual"                                -> "ready"
      [] d = "steer" \/ (d = "auto" /\ waiting)      -> "steering"
      [] OTHER                                       -> "queued"

\* The thread and its active run are read; no run is active: _start_run.
Post(h, m, d) ==
    /\ pc[h] = "idle"
    /\ LockFree(h)
    /\ open
    /\ status[m] = "absent"
    /\ \A g \in Handlers : msg[g] # m
    /\ msg' = [msg EXCEPT ![h] = m]
    /\ \/ /\ ActiveRuns = {}
          /\ GoTo(h, "start")
          /\ dest' = [dest EXCEPT ![h] = Delivery(d, FALSE)]
          /\ UNCHANGED target
       \/ \E r \in ActiveRuns :
             /\ GoTo(h, "append")
             /\ dest' = [dest EXCEPT ![h] = Delivery(d, run[r] = "waiting")]
             /\ target' = [target EXCEPT ![h] = r]
    /\ UNCHANGED <<thread, work, sweep, used, starts, finished>>

\* A steering message may have to wake its run (dispatch_chat_run).
Dispatched(h) ==
    \/ /\ dest[h] = "steering"
       /\ GoTo(h, "dispatch")
       /\ UNCHANGED frames
    \/ /\ dest[h] # "steering"
       /\ Return(h)

AppendToActiveRun(h) ==
    /\ pc[h] = "append"
    /\ status' = [status EXCEPT ![msg[h]] = dest[h]]
    /\ Numbered(msg[h])
    /\ Dispatched(h)
    /\ UNCHANGED <<open, run, jobs, used, starts, finished>>

StartAppend(h) ==
    /\ pc[h] = "start"
    /\ status' = [status EXCEPT ![msg[h]] = "inflight"]
    /\ Numbered(msg[h])
    /\ GoTo(h, "create")
    /\ UNCHANGED <<open, run, jobs, frames, used, starts, finished>>

\* The active run is not looked at in the transaction.
MutCreateRun(h) ==
    /\ pc[h] \in {"create", "contCreate"}
    /\ run' = [run EXCEPT ![msg[h]] = "queued"]
    /\ starts' = [starts EXCEPT ![msg[h]] = @ + 1]
    /\ target' = [target EXCEPT ![h] = msg[h]]
    /\ GoTo(h, "enqueue")
    /\ UNCHANGED <<open, order, status, jobs, work, msg, dest, sweep, used, finished>>

\* create_queued_thread_run_if_absent: one transaction that holds the thread.
CreateRun(h) ==
    /\ pc[h] \in {"create", "contCreate"}
    /\ \/ /\ ActiveRuns = {}
          /\ run' = [run EXCEPT ![msg[h]] = "queued"]
          /\ starts' = [starts EXCEPT ![msg[h]] = @ + 1]
          /\ target' = [target EXCEPT ![h] = msg[h]]
          /\ GoTo(h, "enqueue")
       \/ \E r \in ActiveRuns :
             /\ target' = [target EXCEPT ![h] = r]
             /\ GoTo(h, "fallback")
             /\ UNCHANGED <<run, starts>>
    /\ UNCHANGED <<open, order, status, jobs, work, msg, dest, sweep, used, finished>>

\* Another run was active after all; continue_thread puts its message back.
Fallback(h) ==
    /\ pc[h] = "fallback"
    /\ \/ /\ status[msg[h]] # "deleted"
          /\ Write(msg[h], dest[h])
          /\ Dispatched(h)
          /\ UNCHANGED <<jobs, used>>
       \/ /\ status[msg[h]] = "deleted"
          /\ Raise(h)
          /\ UNCHANGED status
    /\ UNCHANGED <<open, order, run, starts, finished>>

\* The exception passes without the message being put back.
MutCreateFails(h) ==
    /\ Within("fault")
    /\ pc[h] \in {"create", "contCreate"}
    /\ Raise(h)
    /\ UNCHANGED <<open, run, order, status, starts, finished>>

\* The run cannot be created: post_message deletes its message,
\* continue_thread returns it to the queue, and both raise.
CreateFails(h) ==
    /\ Within("fault")
    /\ \/ /\ pc[h] = "create"
          /\ Write(msg[h], "deleted")
       \/ /\ pc[h] = "contCreate"
          /\ Write(msg[h], "queued")
    /\ Raise(h)
    /\ UNCHANGED <<open, order, run, starts, finished>>

\* dispatch_chat_run: the run just started gets a job, and so does a run that
\* waits for the message (its status is read again).
Enqueue(h) ==
    /\ pc[h] = "enqueue"
    /\ Enqueued(target[h])
    /\ Return(h)
    /\ UNCHANGED <<open, order, status, run, used, starts, finished>>

Dispatch(h) ==
    /\ pc[h] = "dispatch"
    /\ IF run[target[h]] = "waiting" THEN Enqueued(target[h]) ELSE UNCHANGED jobs
    /\ Return(h)
    /\ UNCHANGED <<open, order, status, run, used, starts, finished>>

-----------------------------------------------------------------------------
(* continue_thread                                                          *)

\* POST /threads/{id}/continue
Continue(h) ==
    /\ pc[h] = "idle"
    /\ GoTo(h, "continue")
    /\ UNCHANGED <<thread, frames, used, starts, finished>>

ContRead(h) ==
    /\ pc[h] = "continue"
    /\ LockFree(h)
    /\ IF open /\ ActiveRuns = {}
         THEN GoTo(h, "contList") /\ UNCHANGED frames
         ELSE Return(h)
    /\ UNCHANGED <<thread, used, starts, finished>>

ContList(h) ==
    /\ pc[h] = "contList"
    /\ sweep' = [sweep EXCEPT ![h] = Steering]
    /\ GoTo(h, "contRequeue")
    /\ UNCHANGED <<thread, work, msg, target, dest, used, starts, finished>>

\* Listed steering messages go back to the queue one by one, whatever has
\* become of them; a deleted one raises.
ContRequeue(h) ==
    /\ pc[h] = "contRequeue"
    /\ \/ /\ sweep[h] = {}
          /\ GoTo(h, "contClaim")
          /\ UNCHANGED <<status, jobs, frames, used>>
       \/ \E m \in sweep[h] :
             \/ /\ status[m] # "deleted"
                /\ Write(m, "queued")
                /\ sweep' = [sweep EXCEPT ![h] = @ \ {m}]
                /\ UNCHANGED <<jobs, pc, work, msg, target, dest, used>>
             \/ /\ status[m] = "deleted"
                /\ Raise(h)
                /\ UNCHANGED status
    /\ UNCHANGED <<open, order, run, starts, finished>>

NextInQueue(m) ==
    /\ status[m] = "queued"
    /\ \A n \in Messages : status[n] = "queued" => order[m] <= order[n]

\* claim_next_queued_message: the first by sequence number.  Messages that
\* are ready are manual ones, which the claim leaves alone.
ContClaim(h) ==
    /\ pc[h] = "contClaim"
    /\ \/ /\ \A m \in Messages : status[m] # "queued"
          /\ Return(h)
          /\ UNCHANGED status
       \/ \E m \in Messages :
             /\ NextInQueue(m)
             /\ Write(m, "inflight")
             /\ msg' = [msg EXCEPT ![h] = m]
             /\ dest' = [dest EXCEPT ![h] = "queued"]
             /\ GoTo(h, "contCreate")
             /\ UNCHANGED <<work, target, sweep>>
    /\ UNCHANGED <<open, order, run, jobs, used, starts, finished>>

-----------------------------------------------------------------------------
(* Execution of a run: by an agent worker, or by execute_chat_run_chain      *)

\* A job is taken twice.
MutStartJob(h, r) ==
    /\ pc[h] = "idle"
    /\ run[r] # "none"
    /\ jobs' = [jobs EXCEPT ![r] = @ - 1]
    /\ work' = [work EXCEPT ![h] = r]
    /\ GoTo(h, "loop")
    /\ UNCHANGED <<open, order, status, run, msg, target, dest, sweep, used, starts, finished>>

\* A job of a run that has ended only continues the thread.
StartJob(h, r) ==
    /\ pc[h] = "idle"
    /\ jobs[r] > 0
    /\ jobs' = [jobs EXCEPT ![r] = @ - 1]
    /\ work' = [work EXCEPT ![h] = r]
    /\ \/ /\ run[r] \in Terminal
          /\ GoTo(h, "continue")
          /\ UNCHANGED run
       \/ /\ run[r] \notin Terminal
          /\ run' = [run EXCEPT ![r] = "running"]
          /\ GoTo(h, "loop")
    /\ UNCHANGED <<open, order, status, msg, target, dest, sweep, used, starts, finished>>

\* _consume_steering_at_checkpoint: pending steering messages are listed, ...
LoopList(h) ==
    /\ pc[h] = "loop"
    /\ Steering # {}
    /\ sweep' = [sweep EXCEPT ![h] = Steering]
    /\ GoTo(h, "apply")
    /\ UNCHANGED <<thread, work, msg, target, dest, used, starts, finished>>

\* An exception inside execute_run.  The worker's job is retried (RETRYING)
\* or becomes a dead letter, which fails the run and continues the thread;
\* execute_chat_run_chain fails the run and returns; a request that retries a
\* run (its target) leaves the run as it is.
LoopFails(h) ==
    /\ Count("fault")
    /\ \/ /\ ~Inline
          /\ Enqueued(work[h])
          /\ run' = [run EXCEPT ![work[h]] = IF @ \in Terminal THEN @ ELSE "queued"]
          /\ Return(h)
          /\ UNCHANGED <<status, finished>>
       \/ /\ ~Inline
          /\ IF run[work[h]] \in Terminal
               THEN UNCHANGED <<status, run, finished>>
               ELSE End(work[h], "ended") /\ Write(work[h], "completed")
          /\ GoTo(h, "continue")
          /\ sweep' = [sweep EXCEPT ![h] = {}]
          /\ UNCHANGED <<jobs, work, msg, target, dest>>
       \/ /\ Inline
          /\ IF run[work[h]] \in Terminal \/ target[h] # None
               THEN UNCHANGED <<status, run, finished>>
               ELSE End(work[h], "ended") /\ Write(work[h], "completed")
          /\ Return(h)
          /\ UNCHANGED jobs

\* ... and marked applied one by one; mark_steering_applied raises if the
\* message is no longer pending.
LoopApply(h) ==
    /\ pc[h] = "apply"
    /\ \/ /\ sweep[h] = {}
          /\ GoTo(h, "loop")
          /\ UNCHANGED <<status, run, jobs, frames, used, finished>>
       \/ \E m \in sweep[h] :
             \/ /\ status[m] = "steering"
                /\ Write(m, "completed")
                /\ sweep' = [sweep EXCEPT ![h] = @ \ {m}]
                /\ UNCHANGED <<run, jobs, pc, work, msg, target, dest, used, finished>>
             \/ /\ status[m] # "steering"
                /\ LoopFails(h)
    /\ UNCHANGED <<open, order, starts>>

LoopRaises(h) ==
    /\ pc[h] = "loop"
    /\ Within("fault")
    /\ LoopFails(h)
    /\ UNCHANGED <<open, order, starts>>

\* The worker acknowledges the job and does not continue the thread.
MutLoopFinish(h) ==
    /\ pc[h] = "loop"
    /\ End(work[h], "ended")
    /\ Write(work[h], "completed")
    /\ Return(h)
    /\ UNCHANGED <<open, order, jobs, used, starts>>

\* _finalize or _fail: the status is written whatever it has become.
LoopFinish(h) ==
    /\ pc[h] = "loop"
    /\ End(work[h], "ended")
    /\ Write(work[h], "completed")
    /\ GoTo(h, "continue")
    /\ UNCHANGED <<open, order, jobs, frames, used, starts>>

\* _stop_if_cancelled
LoopStops(h) ==
    /\ pc[h] = "loop"
    /\ run[work[h]] = "cancelled"
    /\ GoTo(h, "continue")
    /\ UNCHANGED <<thread, frames, used, starts, finished>>

\* The decision asks the user; the run was not cancelled when it was checked.
LoopYields(h) ==
    /\ pc[h] = "loop"
    /\ run[work[h]] # "cancelled"
    /\ GoTo(h, "yield")
    /\ UNCHANGED <<thread, frames, used, starts, finished>>

\* _wait_for_user: the status is written whatever it has become.
LoopWaits(h) ==
    /\ pc[h] = "yield"
    /\ run' = [run EXCEPT ![work[h]] = "waiting"]
    /\ Write(work[h], "completed")
    /\ Return(h)
    /\ UNCHANGED <<open, order, jobs, used, starts, finished>>

-----------------------------------------------------------------------------
(* Other requests of users                                                  *)

\* Cancelling a run returns its message to the queue.
MutCancelRun(h, r) ==
    /\ pc[h] = "idle"
    /\ run[r] \in Active
    /\ Within("cancel") /\ Count("cancel")
    /\ End(r, "cancelled")
    /\ Write(r, "queued")
    /\ GoTo(h, "continue")
    /\ UNCHANGED <<open, order, jobs, frames, starts>>

\* cancel_run and dispatch_next_after_terminal_run
CancelRun(h, r) ==
    /\ pc[h] = "idle"
    /\ run[r] \in Active
    /\ Within("cancel") /\ Count("cancel")
    /\ End(r, "cancelled")
    /\ Write(r, "cancelled")
    /\ GoTo(h, "continue")
    /\ UNCHANGED <<open, order, jobs, frames, starts>>

\* POST /runs/{id}/retry: no other run of the thread is looked at.  Inline,
\* the request executes the run itself; with a queue the run gets a job and is
\* put to QUEUED afterwards, whatever it has become.
RetryRun(h, r) ==
    /\ pc[h] = "idle"
    /\ run[r] \in Terminal
    /\ Within("retry") /\ Count("retry")
    /\ target' = [target EXCEPT ![h] = r]
    /\ \/ /\ Inline
          /\ run' = [run EXCEPT ![r] = "running"]
          /\ work' = [work EXCEPT ![h] = r]
          /\ GoTo(h, "loop")
          /\ UNCHANGED jobs
       \/ /\ ~Inline
          /\ run' = [run EXCEPT ![r] = "queued"]
          /\ Enqueued(r)
          /\ GoTo(h, "retried")
          /\ UNCHANGED work
    /\ UNCHANGED <<open, order, status, msg, dest, sweep, starts, finished>>

RetryQueued(h) ==
    /\ pc[h] = "retried"
    /\ run' = [run EXCEPT ![target[h]] = "queued"]
    /\ Return(h)
    /\ UNCHANGED <<open, order, status, jobs, used, starts, finished>>

\* delete_message and promote_manual_message: the status is checked, and the
\* message is deleted in a second call.
DeleteMessage(h, m) ==
    /\ pc[h] = "idle"
    /\ status[m] \in Waiting \cup {"ready", "cancelled"}
    /\ msg' = [msg EXCEPT ![h] = m]
    /\ GoTo(h, "delete")
    /\ UNCHANGED <<thread, work, target, dest, sweep, used, starts, finished>>

DeleteWrite(h) ==
    /\ pc[h] = "delete"
    /\ Write(msg[h], "deleted")
    /\ Return(h)
    /\ UNCHANGED <<open, order, run, jobs, used, starts, finished>>

\* update_thread and delete_thread
CloseThread ==
    /\ open
    /\ Within("close") /\ Count("close")
    /\ open' = FALSE
    /\ UNCHANGED <<order, status, run, jobs, pc, frames, starts, finished>>

ReopenThread ==
    /\ ~open
    /\ open' = TRUE
    /\ UNCHANGED <<order, status, run, jobs, pc, frames, used, starts, finished>>

-----------------------------------------------------------------------------

\* What handler h does on its own once its request or its job is taken.
Progress(h) ==
    \/ AppendToActiveRun(h) \/ StartAppend(h) \/ CreateRun(h) \/ Fallback(h)
    \/ Enqueue(h) \/ Dispatch(h)
    \/ ContRead(h) \/ ContList(h) \/ ContRequeue(h) \/ ContClaim(h)
    \/ LoopApply(h) \/ LoopWaits(h) \/ RetryQueued(h) \/ DeleteWrite(h)

LoopEnds(h) == LoopFinish(h) \/ LoopStops(h) \/ LoopYields(h)

UserActs(h) ==
    \/ \E m \in Messages, d \in DeliveryModes : Post(h, m, d)
    \/ Continue(h)
    \/ \E m \in Messages : CancelRun(h, m) \/ RetryRun(h, m) \/ DeleteMessage(h, m)

Next ==
    \/ \E h \in Handlers :
          \/ UserActs(h)
          \/ Progress(h)
          \/ LoopEnds(h)
          \/ LoopList(h) \/ LoopRaises(h) \/ CreateFails(h)
          \/ \E r \in Messages : StartJob(h, r)
    \/ CloseThread \/ ReopenThread

Spec == Init /\ [][Next]_vars

\* A handler that has begun goes on, an execution comes to an end (the loop
\* has a time and an iteration budget), and every enqueued job is taken by
\* some handler sooner or later.
FairSpec ==
    /\ Spec
    /\ \A h \in Handlers : SF_vars(Progress(h)) /\ SF_vars(LoopEnds(h))
    /\ \A r \in Messages : SF_vars(\E h \in Handlers : StartJob(h, r))

-----------------------------------------------------------------------------
(* Properties                                                               *)

\* The rows and the handlers have the shapes declared above; a job is taken
\* at most as often as it was enqueued.
TypeOK ==
    /\ open \in BOOLEAN
    /\ order \in [Messages -> Nat]
    /\ status \in [Messages -> MsgStatus]
    /\ run \in [Messages -> RunStatus]
    /\ jobs \in [Messages -> Nat]
    /\ pc \in [Handlers -> Steps]
    /\ work \in [Handlers -> Messages \cup {None}]
    /\ msg \in [Handlers -> Messages \cup {None}]
    /\ target \in [Handlers -> Messages \cup {None}]
    /\ dest \in [Handlers -> {"ready", "queued", "steering"}]
    /\ sweep \in [Handlers -> SUBSET Messages]
    /\ used \in [Disturbances -> Nat]
    /\ starts \in [Messages -> Nat]
    /\ finished \in SUBSET Messages

\* Whoever acts on a message or on a run knows which one, and the runs that
\* are executed, enqueued or woken have been created.
RunsKnown ==
    /\ \A h \in Handlers :
          /\ work[h] # None => run[work[h]] # "none"
          /\ pc[h] \in {"loop", "apply", "yield"} => work[h] # None
          /\ pc[h] \in {"append", "fallback", "dispatch", "enqueue", "retried"} =>
                target[h] # None /\ run[target[h]] # "none"
          /\ pc[h] = "retried" => target[h] \in finished
          /\ pc[h] \in {"append", "start", "create", "contCreate", "fallback", "delete"} =>
                msg[h] # None
    /\ \A r \in Messages : jobs[r] > 0 => run[r] # "none"

\* A run that is over is recorded as such.
EndsRecorded == \A r \in Messages : run[r] \in Terminal => r \in finished

\* At most one run of a thread is active, as post_message and continue_thread
\* assume when they ask get_active_thread_run for "the" active run.  Neither
\* RetryRun nor LoopWaits keeps this.
OneActiveRun == Cardinality(ActiveRuns) <= 1

\* Of the runs that have never ended at most one is active: two processes that
\* post and continue at once never start two runs side by side
\* (create_queued_thread_run_if_absent).
OneFreshRun ==
    \A r, q \in ActiveRuns \ finished : r = q

\* A message in flight has its run, or a handler that is creating one: no
\* interleaving or exception of _start_run and continue_thread leaves a message
\* behind that neither continue_thread nor its author can reach any more.
InflightIsOwned ==
    \A m \in Messages : status[m] = "inflight" =>
        \/ run[m] \in Active
        \/ \E h \in Handlers :
              /\ pc[h] \in {"create", "contCreate", "fallback"}
              /\ msg[h] = m

\* The inductive invariant behind OneFreshRun and InflightIsOwned.
IndInv ==
    /\ TypeOK
    /\ RunsKnown
    /\ EndsRecorded
    /\ OneFreshRun
    /\ InflightIsOwned

\* A run is started for a message at most once: claim_next_queued_message hands
\* it to one continuation, and returning steering messages to the queue, a
\* cancellation or an exception does not bring back one that had its run.
RunOncePerMessage == \A m \in Messages : starts[m] <= 1

\* Nobody is working on the thread, or about to.
Quiet ==
    /\ \A h \in Handlers : pc[h] = "idle"
    /\ \A r \in Messages : jobs[r] = 0

\* When a thread that was never closed is at rest with no active run, no
\* message waits: continue_thread was called after every run that ended.
QueueMovesOn ==
    Quiet /\ used["close"] = 0 /\ ActiveRuns = {} =>
        \A m \in Messages : status[m] \notin Waiting

\* The same, as long as no exception escaped from an execution or from
\* continue_thread.
NothingStranded == used["fault"] = 0 => QueueMovesOn

\* When a thread is at rest no steering message is pending, even if a run
\* waits for the user: _consume_steering_at_checkpoint has applied it or
\* continue_thread has returned it to the queue.  A run that goes to wait while
\* the message arrives does not keep this.
SteeringIsHeard ==
    Quiet /\ used["close"] = 0 /\ used["fault"] = 0 => Steering = {}

\* A queued message gets its turn, unless the thread is closed, a run waits
\* for the user, or creating or executing a run raised: the run before it ends
\* and continue_thread claims it.
QueuedGetsItsTurn ==
    \A m \in Messages :
        status[m] = "queued" ~>
            \/ status[m] # "queued"
            \/ ~open
            \/ \E r \in Messages : run[r] = "waiting"
            \/ used["fault"] > 0

-----------------------------------------------------------------------------
(* Values for TLC: which disturbances may happen, and who is alike.         *)

Calm      == [d \in Disturbances |-> 0]
Disturbed == [d \in Disturbances |-> 1]
Steady    == [Disturbed EXCEPT !["close"] = 0]

Symmetry == Permutations(Messages) \cup Permutations(Handlers)
=============================================================================
