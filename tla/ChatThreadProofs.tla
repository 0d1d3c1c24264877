-------------------------- MODULE ChatThreadProofs --------------------------
(***************************************************************************)
(* ChatThread's invariant: one lemma per action, one step per conjunct of   *)
(* IndInv, then the theorems.  The last section is about the requests of    *)
(* the same service that carry an idempotency key.                          *)
(***************************************************************************)
EXTENDS ChatThread, FiniteSetTheorems, TLAPS

\* append_chat_message numbers messages with naturals.
LEMMA NumberedType ==
    ASSUME TypeOK, NEW m \in Messages, Numbered(m)
    PROVE  order' \in [Messages -> Nat]
<1>1. IsFiniteSet({n \in Messages : order[n] > 0})
  BY ThreadAssumption, FS_Subset
<1>2. Cardinality({n \in Messages : order[n] > 0}) \in Nat
  BY <1>1, FS_CardinalityType
<1> QED BY <1>2 DEF Numbered, TypeOK

\* Counting a disturbance keeps the counters naturals.
LEMMA CountType ==
    ASSUME TypeOK, NEW d \in Disturbances, Count(d)
    PROVE  used' \in [Disturbances -> Nat]
BY DEF TypeOK, Count

\* Steps that write no run status keep what is said of runs alone.
LEMMA RunsUntouched ==
    ASSUME IndInv, UNCHANGED <<run, finished>>
    PROVE  EndsRecorded' /\ OneFreshRun'
BY DEF IndInv, EndsRecorded, OneFreshRun, ActiveRuns

\* A handler that returns is idle again, its frame well-formed.
LEMMA ReturnTypes ==
    ASSUME TypeOK, NEW h \in Handlers, Return(h)
    PROVE  /\ pc' \in [Handlers -> Steps]
           /\ work' \in [Handlers -> Messages \cup {None}]
           /\ msg' \in [Handlers -> Messages \cup {None}]
           /\ target' \in [Handlers -> Messages \cup {None}]
           /\ dest' \in [Handlers -> {"ready", "queued", "steering"}]
           /\ sweep' \in [Handlers -> SUBSET Messages]
BY DEF TypeOK, Return, GoTo, Steps

\* So is one that raises, or it goes on to continue the thread.
LEMMA RaiseTypes ==
    ASSUME TypeOK, NEW h \in Handlers, Raise(h)
    PROVE  /\ pc' \in [Handlers -> Steps]
           /\ work' \in [Handlers -> Messages \cup {None}]
           /\ msg' \in [Handlers -> Messages \cup {None}]
           /\ target' \in [Handlers -> Messages \cup {None}]
           /\ dest' \in [Handlers -> {"ready", "queued", "steering"}]
           /\ sweep' \in [Handlers -> SUBSET Messages]
           /\ jobs' \in [Messages -> Nat]
           /\ used' \in [Disturbances -> Nat]
<1>1. used' \in [Disturbances -> Nat]
  BY CountType DEF Raise, Disturbances
<1>2. jobs' \in [Messages -> Nat]
  BY DEF TypeOK, Raise, Enqueued
<1>3. CASE Return(h)
  BY <1>1, <1>2, <1>3, ReturnTypes
<1>4. CASE GoTo(h, "continue") /\ UNCHANGED frames
  BY <1>1, <1>2, <1>4 DEF TypeOK, GoTo, Steps, frames
<1> QED BY <1>3, <1>4 DEF Raise

\* An exception inside execute_run leaves well-formed rows and frames.
LEMMA LoopFailsTypes ==
    ASSUME TypeOK, NEW h \in Handlers, work[h] \in Messages, LoopFails(h)
    PROVE  /\ pc' \in [Handlers -> Steps]
           /\ work' \in [Handlers -> Messages \cup {None}]
           /\ msg' \in [Handlers -> Messages \cup {None}]
           /\ target' \in [Handlers -> Messages \cup {None}]
           /\ dest' \in [Handlers -> {"ready", "queued", "steering"}]
           /\ sweep' \in [Handlers -> SUBSET Messages]
           /\ status' \in [Messages -> MsgStatus]
           /\ run' \in [Messages -> RunStatus]
           /\ jobs' \in [Messages -> Nat]
           /\ used' \in [Disturbances -> Nat]
           /\ finished' \in SUBSET Messages
<1>1. used' \in [Disturbances -> Nat]
  BY CountType DEF LoopFails, Disturbances
<1>2. jobs' \in [Messages -> Nat]
  BY DEF TypeOK, LoopFails, Enqueued
<1>3. status' \in [Messages -> MsgStatus]
  BY DEF TypeOK, LoopFails, Write, MsgStatus
<1>4. run' \in [Messages -> RunStatus] /\ finished' \in SUBSET Messages
  BY DEF TypeOK, LoopFails, End, RunStatus, Active, Terminal
<1>5. CASE Return(h)
  BY <1>1, <1>2, <1>3, <1>4, <1>5, ReturnTypes
<1>6. CASE /\ GoTo(h, "continue")
           /\ sweep' = [sweep EXCEPT ![h] = {}]
           /\ UNCHANGED <<work, msg, target, dest>>
  BY <1>1, <1>2, <1>3, <1>4, <1>6 DEF TypeOK, GoTo, Steps
<1> QED BY <1>5, <1>6 DEF LoopFails

\* post_message: thread and active run are read, nothing is written.
LEMMA PostKeeps ==
    ASSUME IndInv, NEW h \in Handlers, NEW m \in Messages, NEW d \in DeliveryModes,
           Post(h, m, d)
    PROVE  IndInv'
<1>1. TypeOK'
  BY ThreadAssumption DEF IndInv, TypeOK, RunsKnown, Post, Delivery, GoTo,
     ActiveRuns, thread, DeliveryModes, Steps, Locked
<1>2. RunsKnown'
  BY ThreadAssumption DEF IndInv, TypeOK, RunsKnown, Post, Delivery, GoTo,
     ActiveRuns, thread, DeliveryModes, Active, Terminal
<1>3. EndsRecorded' /\ OneFreshRun'
  BY RunsUntouched DEF Post, thread
<1>4. InflightIsOwned'
  BY ThreadAssumption DEF IndInv, TypeOK, RunsKnown, InflightIsOwned, Post,
     GoTo, ActiveRuns, thread, Active, Terminal
<1> QED BY <1>1, <1>2, <1>3, <1>4 DEF IndInv

\* _append_to_active_run never writes INFLIGHT.
LEMMA AppendToActiveRunKeeps ==
    ASSUME IndInv, NEW h \in Handlers, AppendToActiveRun(h)
    PROVE  IndInv'
<1>1. TypeOK'
  BY ThreadAssumption, NumberedType, ReturnTypes DEF IndInv, TypeOK,
     RunsKnown, AppendToActiveRun, Dispatched, GoTo, frames, Steps, Locked,
     MsgStatus, Waiting
<1>2. RunsKnown'
  BY ThreadAssumption DEF IndInv, TypeOK, RunsKnown, AppendToActiveRun,
     Dispatched, GoTo, Return, frames
<1>3. EndsRecorded' /\ OneFreshRun'
  BY RunsUntouched DEF AppendToActiveRun
<1>4. InflightIsOwned'
  BY ThreadAssumption DEF IndInv, TypeOK, RunsKnown, InflightIsOwned,
     AppendToActiveRun, Dispatched, GoTo, Return, frames, Active, Terminal
<1> QED BY <1>1, <1>2, <1>3, <1>4 DEF IndInv

\* _start_run: the message in flight belongs to the handler that appends it.
LEMMA StartAppendKeeps ==
    ASSUME IndInv, NEW h \in Handlers, StartAppend(h)
    PROVE  IndInv'
<1>1. TypeOK'
  BY ThreadAssumption, NumberedType DEF IndInv, TypeOK, RunsKnown,
     StartAppend, GoTo, frames, Steps, Locked, MsgStatus, Waiting
<1>2. RunsKnown'
  BY ThreadAssumption DEF IndInv, TypeOK, RunsKnown, StartAppend, GoTo, frames
<1>3. EndsRecorded' /\ OneFreshRun'
  BY RunsUntouched DEF StartAppend
<1>4. InflightIsOwned'
  BY ThreadAssumption DEF IndInv, TypeOK, RunsKnown, InflightIsOwned,
     StartAppend, GoTo, frames, Active, Terminal
<1> QED BY <1>1, <1>2, <1>3, <1>4 DEF IndInv

\* create_queued_thread_run_if_absent: a run is created only if none is active.
LEMMA CreateRunKeeps ==
    ASSUME IndInv, NEW h \in Handlers, CreateRun(h)
    PROVE  IndInv'
<1>1. TypeOK'
  BY ThreadAssumption DEF IndInv, TypeOK, RunsKnown, CreateRun, GoTo,
     ActiveRuns, Steps, Locked, RunStatus, Active, Terminal
<1>2. RunsKnown'
  BY ThreadAssumption DEF IndInv, TypeOK, RunsKnown, CreateRun, GoTo,
     ActiveRuns, Active, Terminal
<1>3. EndsRecorded'
  BY DEF IndInv, TypeOK, RunsKnown, EndsRecorded, CreateRun, Active, Terminal
<1>4. OneFreshRun'
  BY DEF IndInv, TypeOK, RunsKnown, EndsRecorded, OneFreshRun, CreateRun,
     ActiveRuns, Active, Terminal, RunStatus
<1>5. InflightIsOwned'
  BY ThreadAssumption DEF IndInv, TypeOK, RunsKnown, InflightIsOwned,
     CreateRun, GoTo, ActiveRuns, Active, Terminal
<1> QED BY <1>1, <1>2, <1>3, <1>4, <1>5 DEF IndInv

\* The handler gives up a message that it first puts back.
LEMMA FallbackKeeps ==
    ASSUME IndInv, NEW h \in Handlers, Fallback(h)
    PROVE  IndInv'
<1>1. TypeOK'
  BY ThreadAssumption, RaiseTypes, ReturnTypes DEF IndInv, TypeOK, RunsKnown,
     Fallback, Write, Dispatched, GoTo, frames, Steps, Locked, MsgStatus,
     Waiting
<1>2. RunsKnown'
  BY ThreadAssumption DEF IndInv, TypeOK, RunsKnown, Fallback, Dispatched,
     Raise, Enqueued, GoTo, Return, frames
<1>3. EndsRecorded' /\ OneFreshRun'
  BY RunsUntouched DEF Fallback
<1>4. InflightIsOwned'
  BY ThreadAssumption DEF IndInv, TypeOK, RunsKnown, InflightIsOwned,
     Fallback, Write, Dispatched, Raise, GoTo, Return, frames, Active,
     Terminal
<1> QED BY <1>1, <1>2, <1>3, <1>4 DEF IndInv

\* The exception handlers of _start_run and continue_thread take the message out of flight.
LEMMA CreateFailsKeeps ==
    ASSUME IndInv, NEW h \in Handlers, CreateFails(h)
    PROVE  IndInv'
<1>1. TypeOK'
  BY ThreadAssumption, RaiseTypes DEF IndInv, TypeOK, RunsKnown, CreateFails,
     Write, GoTo, frames, MsgStatus, Waiting
<1>2. RunsKnown'
  BY ThreadAssumption DEF IndInv, TypeOK, RunsKnown, CreateFails, Raise,
     Enqueued, GoTo, Return, frames
<1>3. EndsRecorded' /\ OneFreshRun'
  BY RunsUntouched DEF CreateFails
<1>4. InflightIsOwned'
  BY ThreadAssumption DEF IndInv, TypeOK, RunsKnown, InflightIsOwned,
     CreateFails, Write, Raise, GoTo, Return, frames, Active, Terminal
<1> QED BY <1>1, <1>2, <1>3, <1>4 DEF IndInv

\* dispatch_chat_run of a run just started.
LEMMA EnqueueKeeps ==
    ASSUME IndInv, NEW h \in Handlers, Enqueue(h)
    PROVE  IndInv'
<1>1. TypeOK'
  BY ThreadAssumption, ReturnTypes DEF IndInv, TypeOK, RunsKnown, Enqueue,
     Enqueued, GoTo
<1>2. RunsKnown'
  BY ThreadAssumption DEF IndInv, TypeOK, RunsKnown, Enqueue, Enqueued, GoTo,
     Return
<1>3. EndsRecorded' /\ OneFreshRun'
  BY RunsUntouched DEF Enqueue
<1>4. InflightIsOwned'
  BY ThreadAssumption DEF IndInv, TypeOK, RunsKnown, InflightIsOwned, Enqueue,
     GoTo, Return, Active, Terminal
<1> QED BY <1>1, <1>2, <1>3, <1>4 DEF IndInv

\* dispatch_chat_run of a run that may wait for the message.
LEMMA DispatchKeeps ==
    ASSUME IndInv, NEW h \in Handlers, Dispatch(h)
    PROVE  IndInv'
<1>1. TypeOK'
  BY ThreadAssumption, ReturnTypes DEF IndInv, TypeOK, RunsKnown, Dispatch,
     Enqueued, GoTo
<1>2. RunsKnown'
  BY ThreadAssumption DEF IndInv, TypeOK, RunsKnown, Dispatch, Enqueued, GoTo,
     Return
<1>3. EndsRecorded' /\ OneFreshRun'
  BY RunsUntouched DEF Dispatch
<1>4. InflightIsOwned'
  BY ThreadAssumption DEF IndInv, TypeOK, RunsKnown, InflightIsOwned,
     Dispatch, GoTo, Return, Active, Terminal
<1> QED BY <1>1, <1>2, <1>3, <1>4 DEF IndInv

\* POST /threads/{id}/continue.
LEMMA ContinueKeeps ==
    ASSUME IndInv, NEW h \in Handlers, Continue(h)
    PROVE  IndInv'
<1>1. TypeOK'
  BY ThreadAssumption DEF IndInv, TypeOK, RunsKnown, Continue, GoTo, thread,
     frames, Steps, Locked
<1>2. RunsKnown'
  BY ThreadAssumption DEF IndInv, TypeOK, RunsKnown, Continue, GoTo, thread,
     frames
<1>3. EndsRecorded' /\ OneFreshRun'
  BY RunsUntouched DEF Continue, thread
<1>4. InflightIsOwned'
  BY ThreadAssumption DEF IndInv, TypeOK, RunsKnown, InflightIsOwned,
     Continue, GoTo, thread, frames, Active, Terminal
<1> QED BY <1>1, <1>2, <1>3, <1>4 DEF IndInv

\* continue_thread: the thread and its active run are read.
LEMMA ContReadKeeps ==
    ASSUME IndInv, NEW h \in Handlers, ContRead(h)
    PROVE  IndInv'
<1>1. TypeOK'
  BY ThreadAssumption, ReturnTypes DEF IndInv, TypeOK, RunsKnown, ContRead,
     GoTo, thread, frames, Steps, Locked
<1>2. RunsKnown'
  BY ThreadAssumption DEF IndInv, TypeOK, RunsKnown, ContRead, GoTo, Return,
     thread, frames
<1>3. EndsRecorded' /\ OneFreshRun'
  BY RunsUntouched DEF ContRead, thread
<1>4. InflightIsOwned'
  BY ThreadAssumption DEF IndInv, TypeOK, RunsKnown, InflightIsOwned,
     ContRead, GoTo, Return, thread, frames, Active, Terminal
<1> QED BY <1>1, <1>2, <1>3, <1>4 DEF IndInv

\* continue_thread: steering messages are listed.
LEMMA ContListKeeps ==
    ASSUME IndInv, NEW h \in Handlers, ContList(h)
    PROVE  IndInv'
<1>1. TypeOK'
  BY ThreadAssumption DEF IndInv, TypeOK, RunsKnown, ContList, GoTo, Steering,
     thread, Steps, Locked
<1>2. RunsKnown'
  BY ThreadAssumption DEF IndInv, TypeOK, RunsKnown, ContList, GoTo, Steering,
     thread
<1>3. EndsRecorded' /\ OneFreshRun'
  BY RunsUntouched DEF ContList, thread
<1>4. InflightIsOwned'
  BY ThreadAssumption DEF IndInv, TypeOK, RunsKnown, InflightIsOwned,
     ContList, GoTo, Steering, thread, Active, Terminal
<1> QED BY <1>1, <1>2, <1>3, <1>4 DEF IndInv

\* continue_thread: listed messages are returned to the queue.
LEMMA ContRequeueKeeps ==
    ASSUME IndInv, NEW h \in Handlers, ContRequeue(h)
    PROVE  IndInv'
<1>1. TypeOK'
  BY ThreadAssumption, RaiseTypes DEF IndInv, TypeOK, RunsKnown, ContRequeue,
     Write, GoTo, frames, Steps, Locked, MsgStatus, Waiting
<1>2. RunsKnown'
  BY ThreadAssumption DEF IndInv, TypeOK, RunsKnown, ContRequeue, Raise,
     Enqueued, GoTo, Return, frames
<1>3. EndsRecorded' /\ OneFreshRun'
  BY RunsUntouched DEF ContRequeue
<1>4. InflightIsOwned'
  BY ThreadAssumption DEF IndInv, TypeOK, RunsKnown, InflightIsOwned,
     ContRequeue, Write, Raise, GoTo, Return, frames, Active, Terminal
<1> QED BY <1>1, <1>2, <1>3, <1>4 DEF IndInv

\* claim_next_queued_message: the message in flight belongs to the handler that claims it.
LEMMA ContClaimKeeps ==
    ASSUME IndInv, NEW h \in Handlers, ContClaim(h)
    PROVE  IndInv'
<1>1. TypeOK'
  BY ThreadAssumption, ReturnTypes DEF IndInv, TypeOK, RunsKnown, ContClaim,
     NextInQueue, Write, GoTo, Steps, Locked, MsgStatus, Waiting
<1>2. RunsKnown'
  BY ThreadAssumption DEF IndInv, TypeOK, RunsKnown, ContClaim, NextInQueue,
     GoTo, Return
<1>3. EndsRecorded' /\ OneFreshRun'
  BY RunsUntouched DEF ContClaim
<1>4. InflightIsOwned'
  BY ThreadAssumption DEF IndInv, TypeOK, RunsKnown, InflightIsOwned,
     ContClaim, NextInQueue, Write, GoTo, Return, Active, Terminal
<1> QED BY <1>1, <1>2, <1>3, <1>4 DEF IndInv

\* A job puts its run to RUNNING only if the run was active already.
LEMMA StartJobKeeps ==
    ASSUME IndInv, NEW h \in Handlers, NEW r \in Messages, StartJob(h, r)
    PROVE  IndInv'
<1>1. TypeOK'
  BY ThreadAssumption DEF IndInv, TypeOK, RunsKnown, StartJob, GoTo, Steps,
     Locked, RunStatus, Active, Terminal
<1>2. RunsKnown'
  BY ThreadAssumption DEF IndInv, TypeOK, RunsKnown, StartJob, GoTo, Active,
     Terminal
<1>3. EndsRecorded'
  BY DEF IndInv, TypeOK, RunsKnown, EndsRecorded, StartJob, Active, Terminal
<1>4. OneFreshRun'
  BY DEF IndInv, TypeOK, RunsKnown, EndsRecorded, OneFreshRun, StartJob,
     ActiveRuns, Active, Terminal, RunStatus
<1>5. InflightIsOwned'
  BY ThreadAssumption DEF IndInv, TypeOK, RunsKnown, InflightIsOwned,
     StartJob, GoTo, Active, Terminal
<1> QED BY <1>1, <1>2, <1>3, <1>4, <1>5 DEF IndInv

\* _consume_steering_at_checkpoint lists.
LEMMA LoopListKeeps ==
    ASSUME IndInv, NEW h \in Handlers, LoopList(h)
    PROVE  IndInv'
<1>1. TypeOK'
  BY ThreadAssumption DEF IndInv, TypeOK, RunsKnown, LoopList, GoTo, Steering,
     thread, Steps, Locked
<1>2. RunsKnown'
  BY ThreadAssumption DEF IndInv, TypeOK, RunsKnown, LoopList, GoTo, Steering,
     thread
<1>3. EndsRecorded' /\ OneFreshRun'
  BY RunsUntouched DEF LoopList, thread
<1>4. InflightIsOwned'
  BY ThreadAssumption DEF IndInv, TypeOK, RunsKnown, InflightIsOwned,
     LoopList, GoTo, Steering, thread, Active, Terminal
<1> QED BY <1>1, <1>2, <1>3, <1>4 DEF IndInv

\* _consume_steering_at_checkpoint applies, or raises.
LEMMA LoopApplyKeeps ==
    ASSUME IndInv, NEW h \in Handlers, LoopApply(h)
    PROVE  IndInv'
<1>1. TypeOK'
  BY ThreadAssumption, LoopFailsTypes DEF IndInv, TypeOK, RunsKnown,
     LoopApply, Write, GoTo, frames, Steps, Locked, MsgStatus, Waiting
<1>2. RunsKnown'
  BY ThreadAssumption DEF IndInv, TypeOK, RunsKnown, LoopApply, LoopFails,
     End, Enqueued, GoTo, Return, frames, Active, Terminal
<1>3. EndsRecorded'
  BY DEF IndInv, TypeOK, RunsKnown, EndsRecorded, LoopApply, LoopFails, End,
     Active, Terminal
<1>4. OneFreshRun'
  BY DEF IndInv, TypeOK, RunsKnown, EndsRecorded, OneFreshRun, LoopApply,
     LoopFails, End, ActiveRuns, Active, Terminal, RunStatus
<1>5. InflightIsOwned'
  BY ThreadAssumption DEF IndInv, TypeOK, RunsKnown, InflightIsOwned,
     LoopApply, LoopFails, End, Write, GoTo, Return, frames, Active, Terminal
<1> QED BY <1>1, <1>2, <1>3, <1>4, <1>5 DEF IndInv

\* An exception in the loop: a run becomes queued only if it was active.
LEMMA LoopRaisesKeeps ==
    ASSUME IndInv, NEW h \in Handlers, LoopRaises(h)
    PROVE  IndInv'
<1>1. TypeOK'
  BY ThreadAssumption, LoopFailsTypes DEF IndInv, TypeOK, RunsKnown,
     LoopRaises, Write, GoTo
<1>2. RunsKnown'
  BY ThreadAssumption DEF IndInv, TypeOK, RunsKnown, LoopRaises, LoopFails,
     End, Enqueued, GoTo, Return, Active, Terminal
<1>3. EndsRecorded'
  BY DEF IndInv, TypeOK, RunsKnown, EndsRecorded, LoopRaises, LoopFails, End,
     Active, Terminal
<1>4. OneFreshRun'
  BY DEF IndInv, TypeOK, RunsKnown, EndsRecorded, OneFreshRun, LoopRaises,
     LoopFails, End, ActiveRuns, Active, Terminal, RunStatus
<1>5. InflightIsOwned'
  BY ThreadAssumption DEF IndInv, TypeOK, RunsKnown, InflightIsOwned,
     LoopRaises, LoopFails, End, Write, GoTo, Return, Active, Terminal
<1> QED BY <1>1, <1>2, <1>3, <1>4, <1>5 DEF IndInv

\* _finalize: the run ends and its message leaves flight with it.
LEMMA LoopFinishKeeps ==
    ASSUME IndInv, NEW h \in Handlers, LoopFinish(h)
    PROVE  IndInv'
<1>1. TypeOK'
  BY ThreadAssumption DEF IndInv, TypeOK, RunsKnown, LoopFinish, End, Write,
     GoTo, frames, Steps, Locked, MsgStatus, Waiting, RunStatus, Active,
     Terminal
<1>2. RunsKnown'
  BY ThreadAssumption DEF IndInv, TypeOK, RunsKnown, LoopFinish, End, GoTo,
     frames, Active, Terminal
<1>3. EndsRecorded'
  BY DEF IndInv, TypeOK, RunsKnown, EndsRecorded, LoopFinish, End, Active,
     Terminal
<1>4. OneFreshRun'
  BY DEF IndInv, TypeOK, RunsKnown, EndsRecorded, OneFreshRun, LoopFinish,
     End, ActiveRuns, Active, Terminal, RunStatus
<1>5. InflightIsOwned'
  BY ThreadAssumption DEF IndInv, TypeOK, RunsKnown, InflightIsOwned,
     LoopFinish, End, Write, GoTo, frames, Active, Terminal
<1> QED BY <1>1, <1>2, <1>3, <1>4, <1>5 DEF IndInv

\* _stop_if_cancelled.
LEMMA LoopStopsKeeps ==
    ASSUME IndInv, NEW h \in Handlers, LoopStops(h)
    PROVE  IndInv'
<1>1. TypeOK'
  BY ThreadAssumption DEF IndInv, TypeOK, RunsKnown, LoopStops, GoTo, thread,
     frames, Steps, Locked
<1>2. RunsKnown'
  BY ThreadAssumption DEF IndInv, TypeOK, RunsKnown, LoopStops, GoTo, thread,
     frames
<1>3. EndsRecorded' /\ OneFreshRun'
  BY RunsUntouched DEF LoopStops, thread
<1>4. InflightIsOwned'
  BY ThreadAssumption DEF IndInv, TypeOK, RunsKnown, InflightIsOwned,
     LoopStops, GoTo, thread, frames, Active, Terminal
<1> QED BY <1>1, <1>2, <1>3, <1>4 DEF IndInv

\* The decision to ask the user.
LEMMA LoopYieldsKeeps ==
    ASSUME IndInv, NEW h \in Handlers, LoopYields(h)
    PROVE  IndInv'
<1>1. TypeOK'
  BY ThreadAssumption DEF IndInv, TypeOK, RunsKnown, LoopYields, GoTo, thread,
     frames, Steps, Locked
<1>2. RunsKnown'
  BY ThreadAssumption DEF IndInv, TypeOK, RunsKnown, LoopYields, GoTo, thread,
     frames
<1>3. EndsRecorded' /\ OneFreshRun'
  BY RunsUntouched DEF LoopYields, thread
<1>4. InflightIsOwned'
  BY ThreadAssumption DEF IndInv, TypeOK, RunsKnown, InflightIsOwned,
     LoopYields, GoTo, thread, frames, Active, Terminal
<1> QED BY <1>1, <1>2, <1>3, <1>4 DEF IndInv

\* _wait_for_user may revive a run, but only one that has ended before.
LEMMA LoopWaitsKeeps ==
    ASSUME IndInv, NEW h \in Handlers, LoopWaits(h)
    PROVE  IndInv'
<1>1. TypeOK'
  BY ThreadAssumption, ReturnTypes DEF IndInv, TypeOK, RunsKnown, LoopWaits,
     Write, GoTo, MsgStatus, Waiting, RunStatus, Active, Terminal
<1>2. RunsKnown'
  BY ThreadAssumption DEF IndInv, TypeOK, RunsKnown, LoopWaits, GoTo, Return,
     Active, Terminal
<1>3. EndsRecorded'
  BY DEF IndInv, TypeOK, RunsKnown, EndsRecorded, LoopWaits, Active, Terminal
<1>4. OneFreshRun'
  BY DEF IndInv, TypeOK, RunsKnown, EndsRecorded, OneFreshRun, LoopWaits,
     ActiveRuns, Active, Terminal, RunStatus
<1>5. InflightIsOwned'
  BY ThreadAssumption DEF IndInv, TypeOK, RunsKnown, InflightIsOwned,
     LoopWaits, Write, GoTo, Return, Active, Terminal
<1> QED BY <1>1, <1>2, <1>3, <1>4, <1>5 DEF IndInv

\* cancel_run: the run ends and its message leaves flight with it.
LEMMA CancelRunKeeps ==
    ASSUME IndInv, NEW h \in Handlers, NEW r \in Messages,
           CancelRun(h, r)
    PROVE  IndInv'
<1>1. TypeOK'
  BY ThreadAssumption, CountType DEF IndInv, TypeOK, RunsKnown, CancelRun,
     End, Write, GoTo, frames, Disturbances, Steps, Locked, MsgStatus,
     Waiting, RunStatus, Active, Terminal
<1>2. RunsKnown'
  BY ThreadAssumption DEF IndInv, TypeOK, RunsKnown, CancelRun, End, GoTo,
     frames, Active, Terminal
<1>3. EndsRecorded'
  BY DEF IndInv, TypeOK, RunsKnown, EndsRecorded, CancelRun, End, Active,
     Terminal
<1>4. OneFreshRun'
  BY DEF IndInv, TypeOK, RunsKnown, EndsRecorded, OneFreshRun, CancelRun, End,
     ActiveRuns, Active, Terminal, RunStatus
<1>5. InflightIsOwned'
  BY ThreadAssumption DEF IndInv, TypeOK, RunsKnown, InflightIsOwned,
     CancelRun, End, Write, GoTo, frames, Active, Terminal
<1> QED BY <1>1, <1>2, <1>3, <1>4, <1>5 DEF IndInv

\* request_run_retry revives a run that has ended before.
LEMMA RetryRunKeeps ==
    ASSUME IndInv, NEW h \in Handlers, NEW r \in Messages, RetryRun(h, r)
    PROVE  IndInv'
<1>1. TypeOK'
  BY ThreadAssumption, CountType DEF IndInv, TypeOK, RunsKnown, RetryRun,
     Enqueued, GoTo, Disturbances, Steps, Locked, RunStatus, Active, Terminal
<1>2. RunsKnown'
  BY ThreadAssumption DEF IndInv, TypeOK, RunsKnown, EndsRecorded, RetryRun,
     Enqueued, GoTo, Active, Terminal
<1>3. EndsRecorded'
  BY DEF IndInv, TypeOK, RunsKnown, EndsRecorded, RetryRun, Active, Terminal
<1>4. OneFreshRun'
  BY DEF IndInv, TypeOK, RunsKnown, EndsRecorded, OneFreshRun, RetryRun,
     ActiveRuns, Active, Terminal, RunStatus
<1>5. InflightIsOwned'
  BY ThreadAssumption DEF IndInv, TypeOK, RunsKnown, InflightIsOwned,
     RetryRun, GoTo, Active, Terminal
<1> QED BY <1>1, <1>2, <1>3, <1>4, <1>5 DEF IndInv

\* So does the QUEUED the endpoint writes after it.
LEMMA RetryQueuedKeeps ==
    ASSUME IndInv, NEW h \in Handlers, RetryQueued(h)
    PROVE  IndInv'
<1>1. TypeOK'
  BY ThreadAssumption, ReturnTypes DEF IndInv, TypeOK, RunsKnown, RetryQueued,
     GoTo, RunStatus, Active, Terminal
<1>2. RunsKnown'
  BY ThreadAssumption DEF IndInv, TypeOK, RunsKnown, RetryQueued, GoTo,
     Return, Active, Terminal
<1>3. EndsRecorded'
  BY DEF IndInv, TypeOK, RunsKnown, EndsRecorded, RetryQueued, Active,
     Terminal
<1>4. OneFreshRun'
  BY DEF IndInv, TypeOK, RunsKnown, EndsRecorded, OneFreshRun, RetryQueued,
     ActiveRuns, Active, Terminal, RunStatus
<1>5. InflightIsOwned'
  BY ThreadAssumption DEF IndInv, TypeOK, RunsKnown, InflightIsOwned,
     RetryQueued, GoTo, Return, Active, Terminal
<1> QED BY <1>1, <1>2, <1>3, <1>4, <1>5 DEF IndInv

\* delete_message checks.
LEMMA DeleteMessageKeeps ==
    ASSUME IndInv, NEW h \in Handlers, NEW m \in Messages,
           DeleteMessage(h, m)
    PROVE  IndInv'
<1>1. TypeOK'
  BY ThreadAssumption DEF IndInv, TypeOK, RunsKnown, DeleteMessage, GoTo,
     thread, Steps, Locked
<1>2. RunsKnown'
  BY ThreadAssumption DEF IndInv, TypeOK, RunsKnown, DeleteMessage, GoTo,
     thread
<1>3. EndsRecorded' /\ OneFreshRun'
  BY RunsUntouched DEF DeleteMessage, thread
<1>4. InflightIsOwned'
  BY ThreadAssumption DEF IndInv, TypeOK, RunsKnown, InflightIsOwned,
     DeleteMessage, GoTo, thread, Active, Terminal
<1> QED BY <1>1, <1>2, <1>3, <1>4 DEF IndInv

\* delete_message deletes.
LEMMA DeleteWriteKeeps ==
    ASSUME IndInv, NEW h \in Handlers, DeleteWrite(h)
    PROVE  IndInv'
<1>1. TypeOK'
  BY ThreadAssumption, ReturnTypes DEF IndInv, TypeOK, RunsKnown, DeleteWrite,
     Write, GoTo, MsgStatus, Waiting
<1>2. RunsKnown'
  BY ThreadAssumption DEF IndInv, TypeOK, RunsKnown, DeleteWrite, GoTo, Return
<1>3. EndsRecorded' /\ OneFreshRun'
  BY RunsUntouched DEF DeleteWrite
<1>4. InflightIsOwned'
  BY ThreadAssumption DEF IndInv, TypeOK, RunsKnown, InflightIsOwned,
     DeleteWrite, Write, GoTo, Return, Active, Terminal
<1> QED BY <1>1, <1>2, <1>3, <1>4 DEF IndInv

\* Archiving or deleting the thread.
LEMMA CloseThreadKeeps ==
    ASSUME IndInv,  CloseThread
    PROVE  IndInv'
<1>1. TypeOK'
  BY CountType DEF IndInv, TypeOK, RunsKnown, CloseThread, frames,
     Disturbances
<1>2. RunsKnown'
  BY ThreadAssumption DEF IndInv, TypeOK, RunsKnown, CloseThread, frames
<1>3. EndsRecorded' /\ OneFreshRun'
  BY RunsUntouched DEF CloseThread
<1>4. InflightIsOwned'
  BY ThreadAssumption DEF IndInv, TypeOK, RunsKnown, InflightIsOwned,
     CloseThread, frames, Active, Terminal
<1> QED BY <1>1, <1>2, <1>3, <1>4 DEF IndInv

\* Unarchiving it.
LEMMA ReopenThreadKeeps ==
    ASSUME IndInv,  ReopenThread
    PROVE  IndInv'
<1>1. TypeOK'
  BY DEF IndInv, TypeOK, RunsKnown, ReopenThread, frames
<1>2. RunsKnown'
  BY ThreadAssumption DEF IndInv, TypeOK, RunsKnown, ReopenThread, frames
<1>3. EndsRecorded' /\ OneFreshRun'
  BY RunsUntouched DEF ReopenThread
<1>4. InflightIsOwned'
  BY ThreadAssumption DEF IndInv, TypeOK, RunsKnown, InflightIsOwned,
     ReopenThread, frames, Active, Terminal
<1> QED BY <1>1, <1>2, <1>3, <1>4 DEF IndInv

\* Nothing has been posted.
LEMMA InitKeeps == Init => IndInv
BY ThreadAssumption DEF Init, IndInv, TypeOK, RunsKnown, EndsRecorded, OneFreshRun,
   InflightIsOwned, ActiveRuns, Active, Terminal, Steps, MsgStatus, RunStatus

LEMMA StutterKeeps == IndInv /\ UNCHANGED vars => IndInv'
BY DEF IndInv, TypeOK, RunsKnown, EndsRecorded, OneFreshRun, InflightIsOwned,
   ActiveRuns, vars, thread, frames

\* Every step of a handler keeps the invariant.
LEMMA HandlerKeeps ==
    ASSUME IndInv, NEW h \in Handlers,
           \/ UserActs(h) \/ Progress(h) \/ LoopEnds(h)
           \/ LoopList(h) \/ LoopRaises(h) \/ CreateFails(h)
           \/ \E r \in Messages : StartJob(h, r)
    PROVE  IndInv'
<1>1. CASE UserActs(h)
  BY <1>1, PostKeeps, ContinueKeeps, CancelRunKeeps, RetryRunKeeps,
     DeleteMessageKeeps DEF UserActs
<1>2. CASE Progress(h)
  BY <1>2, AppendToActiveRunKeeps, StartAppendKeeps, CreateRunKeeps,
     FallbackKeeps, EnqueueKeeps, DispatchKeeps, ContReadKeeps, ContListKeeps,
     ContRequeueKeeps, ContClaimKeeps, LoopApplyKeeps, LoopWaitsKeeps,
     RetryQueuedKeeps, DeleteWriteKeeps DEF Progress
<1>3. CASE LoopEnds(h)
  BY <1>3, LoopFinishKeeps, LoopStopsKeeps, LoopYieldsKeeps DEF LoopEnds
<1>4. CASE LoopList(h) \/ LoopRaises(h) \/ CreateFails(h)
  BY <1>4, LoopListKeeps, LoopRaisesKeeps, CreateFailsKeeps
<1>5. CASE \E r \in Messages : StartJob(h, r)
  BY <1>5, StartJobKeeps
<1> QED BY <1>1, <1>2, <1>3, <1>4, <1>5

\* Whatever requests, executions and exceptions interleave, IndInv is kept.
LEMMA NextKeeps == IndInv /\ [Next]_vars => IndInv'
<1> SUFFICES ASSUME IndInv, [Next]_vars PROVE IndInv'
  OBVIOUS
<1>1. CASE UNCHANGED vars
  BY <1>1, StutterKeeps
<1>2. CASE Next
  BY <1>2, HandlerKeeps, CloseThreadKeeps, ReopenThreadKeeps DEF Next
<1> QED BY <1>1, <1>2

-----------------------------------------------------------------------------

\* ThreadInvariant: IndInv holds in every reachable state of the conversation,
\* in either dispatch mode and for any number of messages, processes and
\* exceptions.
THEOREM ThreadInvariant == Spec => []IndInv
<1> QED BY InitKeeps, NextKeeps, PTL DEF Spec

\* ThreadTypes: rows and handlers keep their shapes; in particular no job is
\* taken (StartJob) more often than dispatch_chat_run enqueued it.
THEOREM ThreadTypes == Spec => []TypeOK
<1>1. IndInv => TypeOK
  BY DEF IndInv
<1> QED BY <1>1, ThreadInvariant, PTL

\* RunsStartOneAtATime: however many processes post and continue at once,
\* create_queued_thread_run_if_absent starts no run beside one that has not
\* ended yet; only a retry can bring back a second one.
THEOREM RunsStartOneAtATime == Spec => []OneFreshRun
<1>1. IndInv => OneFreshRun
  BY DEF IndInv
<1> QED BY <1>1, ThreadInvariant, PTL

\* NoOrphanInFlight: the error paths of _start_run and continue_thread never
\* leave a message INFLIGHT that has no active run and that no handler is about
\* to give one.
THEOREM NoOrphanInFlight == Spec => []InflightIsOwned
<1>1. IndInv => InflightIsOwned
  BY DEF IndInv
<1> QED BY <1>1, ThreadInvariant, PTL

-----------------------------------------------------------------------------
(* One process (Inline): the lock of the thread, and what it protects.      *)

\* _named_lock admits one handler of the process at a time.
OneInLock ==
    \A h, g \in Handlers : pc[h] \in Locked /\ pc[g] \in Locked => h = g

\* A message that still waits, or that a handler is about to append or to give
\* a run, has had no run; the message of a run in creation is in flight, unless
\* its author has deleted it meanwhile.
FreshAreWaiting ==
    /\ \A m \in Messages :
          /\ starts[m] <= 1
          /\ starts[m] = 0 => run[m] = "none"
          /\ status[m] \in Waiting \cup {"absent"} => starts[m] = 0
    /\ \A h \in Handlers :
          /\ pc[h] \in {"append", "start", "create", "contCreate", "fallback"} =>
                starts[msg[h]] = 0
          /\ pc[h] \in {"create", "contCreate", "fallback"} =>
                status[msg[h]] \in {"inflight", "deleted"}
          /\ pc[h] = "contRequeue" => \A m \in sweep[h] : starts[m] = 0

\* Handlers on their way through continue_thread.
Owing == {"continue", "contList", "contRequeue", "contClaim", "contCreate"}

\* Some message waits for a run to end, or is about to.
Demand ==
    \/ \E m \in Messages : status[m] \in Waiting
    \/ \E h \in Handlers : pc[h] \in {"append", "fallback"}

\* Whoever waits has an active run before him or a continuation under way that
\* will find him: the sweep misses no steering message.
SomeoneCares ==
    /\ used["close"] = 0 => open
    /\ \A h \in Handlers :
          /\ pc[h] = "contRequeue" => Steering \subseteq sweep[h]
          /\ pc[h] = "contClaim" => Steering = {}
    /\ Demand /\ used["fault"] = 0 /\ used["close"] = 0 =>
          ActiveRuns # {} \/ \E h \in Handlers : pc[h] \in Owing

InlineInv == IndInv /\ OneInLock /\ FreshAreWaiting /\ SomeoneCares

\* A posted message is new, and the run it will append to is active.
LEMMA PostInline ==
    ASSUME InlineInv, Inline, NEW h \in Handlers, NEW m \in Messages,
           NEW d \in DeliveryModes, Post(h, m, d)
    PROVE  OneInLock' /\ FreshAreWaiting' /\ SomeoneCares'
<1>1. OneInLock'
  <2>1. LockFree(h) /\ (GoTo(h, "start") \/ GoTo(h, "append"))
    BY DEF Post
  <2> QED BY <2>1 DEF InlineInv, IndInv, TypeOK, OneInLock, LockFree, GoTo
<1>2. FreshAreWaiting'
  BY ThreadAssumption DEF InlineInv, IndInv, TypeOK, RunsKnown, OneInLock,
     FreshAreWaiting, LockFree, Locked, Waiting, Active, Terminal, Steering,
     GoTo, Post, Delivery, DeliveryModes, thread
<1>3. SomeoneCares'
  BY ThreadAssumption DEF InlineInv, IndInv, TypeOK, RunsKnown, OneInLock,
     SomeoneCares, Owing, Demand, LockFree, Locked, Waiting, Active,
     Terminal, ActiveRuns, Steering, Disturbances, GoTo, Post, Delivery,
     DeliveryModes, thread
<1> QED BY <1>1, <1>2, <1>3

\* The run may have ended meanwhile: whoever ended it still has to
\* continue the thread.
LEMMA AppendToActiveRunInline ==
    ASSUME InlineInv, Inline, NEW h \in Handlers, AppendToActiveRun(h)
    PROVE  OneInLock' /\ FreshAreWaiting' /\ SomeoneCares'
<1>1. OneInLock'
  BY ThreadAssumption DEF InlineInv, IndInv, TypeOK, OneInLock, LockFree,
     Locked, GoTo, AppendToActiveRun, Dispatched, Return, frames
<1>2. FreshAreWaiting'
  BY ThreadAssumption DEF InlineInv, IndInv, TypeOK, RunsKnown, OneInLock,
     FreshAreWaiting, LockFree, Locked, Waiting, Active, Terminal, Steering,
     GoTo, AppendToActiveRun, Dispatched, Return, frames
<1>3. SomeoneCares'
  BY ThreadAssumption DEF InlineInv, IndInv, TypeOK, RunsKnown, OneInLock,
     SomeoneCares, Owing, Demand, LockFree, Locked, Waiting, Active,
     Terminal, ActiveRuns, Steering, Disturbances, GoTo, AppendToActiveRun,
     Dispatched, Return, frames
<1> QED BY <1>1, <1>2, <1>3

\* The message of a run in creation leaves the queue's reach.
LEMMA StartAppendInline ==
    ASSUME InlineInv, Inline, NEW h \in Handlers, StartAppend(h)
    PROVE  OneInLock' /\ FreshAreWaiting' /\ SomeoneCares'
<1>1. OneInLock'
  BY ThreadAssumption DEF InlineInv, IndInv, TypeOK, OneInLock, LockFree,
     Locked, GoTo, StartAppend, frames
<1>2. FreshAreWaiting'
  BY ThreadAssumption DEF InlineInv, IndInv, TypeOK, RunsKnown, OneInLock,
     FreshAreWaiting, LockFree, Locked, Waiting, Active, Terminal, Steering,
     GoTo, StartAppend, frames
<1>3. SomeoneCares'
  BY ThreadAssumption DEF InlineInv, IndInv, TypeOK, RunsKnown, OneInLock,
     SomeoneCares, Owing, Demand, LockFree, Locked, Waiting, Active,
     Terminal, ActiveRuns, Steering, Disturbances, GoTo, StartAppend, frames
<1> QED BY <1>1, <1>2, <1>3

\* The one place where a run starts: its message was held by nobody else.
LEMMA CreateRunInline ==
    ASSUME InlineInv, Inline, NEW h \in Handlers, CreateRun(h)
    PROVE  OneInLock' /\ FreshAreWaiting' /\ SomeoneCares'
<1>1. OneInLock'
  BY ThreadAssumption DEF InlineInv, IndInv, TypeOK, OneInLock, LockFree,
     Locked, GoTo, CreateRun
<1>2. FreshAreWaiting'
  BY ThreadAssumption DEF InlineInv, IndInv, TypeOK, RunsKnown, OneInLock,
     FreshAreWaiting, LockFree, Locked, Waiting, Active, Terminal, Steering,
     GoTo, CreateRun
<1>3. SomeoneCares'
  BY ThreadAssumption DEF InlineInv, IndInv, TypeOK, RunsKnown, OneInLock,
     SomeoneCares, Owing, Demand, LockFree, Locked, Waiting, Active,
     Terminal, ActiveRuns, Steering, Disturbances, GoTo, CreateRun
<1> QED BY <1>1, <1>2, <1>3

\* The message goes back to wait, for a run that is active or was just
\* ended.
LEMMA FallbackInline ==
    ASSUME InlineInv, Inline, NEW h \in Handlers, Fallback(h)
    PROVE  OneInLock' /\ FreshAreWaiting' /\ SomeoneCares'
<1>1. OneInLock'
  BY ThreadAssumption DEF InlineInv, IndInv, TypeOK, OneInLock, LockFree,
     Locked, GoTo, Fallback, Dispatched, Raise, Return, frames
<1>2. FreshAreWaiting'
  BY ThreadAssumption DEF InlineInv, IndInv, TypeOK, RunsKnown, OneInLock,
     FreshAreWaiting, LockFree, Locked, Waiting, Active, Terminal, Steering,
     GoTo, Fallback, Dispatched, Write, Raise, Return, Count, frames
<1>3. SomeoneCares'
  BY ThreadAssumption DEF InlineInv, IndInv, TypeOK, RunsKnown, OneInLock,
     SomeoneCares, Owing, Demand, LockFree, Locked, Waiting, Active,
     Terminal, ActiveRuns, Steering, Disturbances, GoTo, Fallback,
     Dispatched, Write, Raise, Return, Count, frames
<1> QED BY <1>1, <1>2, <1>3

\* The message had no run; a continuation that raises is a fault.
LEMMA CreateFailsInline ==
    ASSUME InlineInv, Inline, NEW h \in Handlers, CreateFails(h)
    PROVE  OneInLock' /\ FreshAreWaiting' /\ SomeoneCares'
<1>1. OneInLock'
  BY ThreadAssumption DEF InlineInv, IndInv, TypeOK, OneInLock, LockFree,
     Locked, GoTo, CreateFails, Raise, Return, frames
<1>2. FreshAreWaiting'
  BY ThreadAssumption DEF InlineInv, IndInv, TypeOK, RunsKnown, OneInLock,
     FreshAreWaiting, LockFree, Locked, Waiting, Active, Terminal, Steering,
     GoTo, CreateFails, Write, Raise, Return, Count, frames
<1>3. SomeoneCares'
  BY ThreadAssumption DEF InlineInv, IndInv, TypeOK, RunsKnown, OneInLock,
     SomeoneCares, Owing, Demand, LockFree, Locked, Waiting, Active,
     Terminal, ActiveRuns, Steering, Disturbances, GoTo, CreateFails, Write,
     Raise, Return, Count, frames
<1> QED BY <1>1, <1>2, <1>3

\* Dispatching touches no message.
LEMMA EnqueueInline ==
    ASSUME InlineInv, Inline, NEW h \in Handlers, Enqueue(h)
    PROVE  OneInLock' /\ FreshAreWaiting' /\ SomeoneCares'
<1>1. OneInLock'
  BY ThreadAssumption DEF InlineInv, IndInv, TypeOK, OneInLock, LockFree,
     Locked, GoTo, Enqueue, Return
<1>2. FreshAreWaiting'
  BY ThreadAssumption DEF InlineInv, IndInv, TypeOK, RunsKnown, OneInLock,
     FreshAreWaiting, LockFree, Locked, Waiting, Active, Terminal, Steering,
     GoTo, Enqueue, Return
<1>3. SomeoneCares'
  BY ThreadAssumption DEF InlineInv, IndInv, TypeOK, RunsKnown, OneInLock,
     SomeoneCares, Owing, Demand, LockFree, Locked, Waiting, Active,
     Terminal, ActiveRuns, Steering, Disturbances, GoTo, Enqueue, Return
<1> QED BY <1>1, <1>2, <1>3

\* Waking a run touches no message.
LEMMA DispatchInline ==
    ASSUME InlineInv, Inline, NEW h \in Handlers, Dispatch(h)
    PROVE  OneInLock' /\ FreshAreWaiting' /\ SomeoneCares'
<1>1. OneInLock'
  BY ThreadAssumption DEF InlineInv, IndInv, TypeOK, OneInLock, LockFree,
     Locked, GoTo, Dispatch, Return
<1>2. FreshAreWaiting'
  BY ThreadAssumption DEF InlineInv, IndInv, TypeOK, RunsKnown, OneInLock,
     FreshAreWaiting, LockFree, Locked, Waiting, Active, Terminal, Steering,
     GoTo, Dispatch, Return
<1>3. SomeoneCares'
  BY ThreadAssumption DEF InlineInv, IndInv, TypeOK, RunsKnown, OneInLock,
     SomeoneCares, Owing, Demand, LockFree, Locked, Waiting, Active,
     Terminal, ActiveRuns, Steering, Disturbances, GoTo, Dispatch, Return
<1> QED BY <1>1, <1>2, <1>3

\* A requested continuation owes nothing yet.
LEMMA ContinueInline ==
    ASSUME InlineInv, Inline, NEW h \in Handlers, Continue(h)
    PROVE  OneInLock' /\ FreshAreWaiting' /\ SomeoneCares'
<1>1. OneInLock'
  BY ThreadAssumption DEF InlineInv, IndInv, TypeOK, OneInLock, LockFree,
     Locked, GoTo, Continue, thread, frames
<1>2. FreshAreWaiting'
  BY ThreadAssumption DEF InlineInv, IndInv, TypeOK, RunsKnown, OneInLock,
     FreshAreWaiting, LockFree, Locked, Waiting, Active, Terminal, Steering,
     GoTo, Continue, thread, frames
<1>3. SomeoneCares'
  BY ThreadAssumption DEF InlineInv, IndInv, TypeOK, RunsKnown, OneInLock,
     SomeoneCares, Owing, Demand, LockFree, Locked, Waiting, Active,
     Terminal, ActiveRuns, Steering, Disturbances, GoTo, Continue, thread,
     frames
<1> QED BY <1>1, <1>2, <1>3

\* A continuation is given up only because a run is active.
LEMMA ContReadInline ==
    ASSUME InlineInv, Inline, NEW h \in Handlers, ContRead(h)
    PROVE  OneInLock' /\ FreshAreWaiting' /\ SomeoneCares'
<1>1. OneInLock'
  BY ThreadAssumption DEF InlineInv, IndInv, TypeOK, OneInLock, LockFree,
     Locked, GoTo, ContRead, Return, thread, frames
<1>2. FreshAreWaiting'
  BY ThreadAssumption DEF InlineInv, IndInv, TypeOK, RunsKnown, OneInLock,
     FreshAreWaiting, LockFree, Locked, Waiting, Active, Terminal, Steering,
     GoTo, ContRead, Return, thread, frames
<1>3. SomeoneCares'
  BY ThreadAssumption DEF InlineInv, IndInv, TypeOK, RunsKnown, OneInLock,
     SomeoneCares, Owing, Demand, LockFree, Locked, Waiting, Active,
     Terminal, ActiveRuns, Steering, Disturbances, GoTo, ContRead, Return,
     thread, frames
<1> QED BY <1>1, <1>2, <1>3

\* All steering messages are listed, and the lock keeps new ones out.
LEMMA ContListInline ==
    ASSUME InlineInv, Inline, NEW h \in Handlers, ContList(h)
    PROVE  OneInLock' /\ FreshAreWaiting' /\ SomeoneCares'
<1>1. OneInLock'
  BY ThreadAssumption DEF InlineInv, IndInv, TypeOK, OneInLock, LockFree,
     Locked, GoTo, ContList, thread
<1>2. FreshAreWaiting'
  BY ThreadAssumption DEF InlineInv, IndInv, TypeOK, RunsKnown, OneInLock,
     FreshAreWaiting, LockFree, Locked, Waiting, Active, Terminal, Steering,
     GoTo, ContList, thread
<1>3. SomeoneCares'
  BY ThreadAssumption DEF InlineInv, IndInv, TypeOK, RunsKnown, OneInLock,
     SomeoneCares, Owing, Demand, LockFree, Locked, Waiting, Active,
     Terminal, ActiveRuns, Steering, Disturbances, GoTo, ContList, thread
<1> QED BY <1>1, <1>2, <1>3

\* Listed messages go back to the queue; none of them had a run.
LEMMA ContRequeueInline ==
    ASSUME InlineInv, Inline, NEW h \in Handlers, ContRequeue(h)
    PROVE  OneInLock' /\ FreshAreWaiting' /\ SomeoneCares'
<1>1. OneInLock'
  BY ThreadAssumption DEF InlineInv, IndInv, TypeOK, OneInLock, LockFree,
     Locked, GoTo, ContRequeue, Raise, Return, frames
<1>2. FreshAreWaiting'
  BY ThreadAssumption DEF InlineInv, IndInv, TypeOK, RunsKnown, OneInLock,
     FreshAreWaiting, LockFree, Locked, Waiting, Active, Terminal, Steering,
     GoTo, ContRequeue, Write, Raise, Return, Count, frames
<1>3. SomeoneCares'
  BY ThreadAssumption DEF InlineInv, IndInv, TypeOK, RunsKnown, OneInLock,
     SomeoneCares, Owing, Demand, LockFree, Locked, Waiting, Active,
     Terminal, ActiveRuns, Steering, Disturbances, GoTo, ContRequeue, Write,
     Raise, Return, Count, frames
<1> QED BY <1>1, <1>2, <1>3

\* No message left, or the next one is claimed for a run.
LEMMA ContClaimInline ==
    ASSUME InlineInv, Inline, NEW h \in Handlers, ContClaim(h)
    PROVE  OneInLock' /\ FreshAreWaiting' /\ SomeoneCares'
<1>1. OneInLock'
  BY ThreadAssumption DEF InlineInv, IndInv, TypeOK, OneInLock, LockFree,
     Locked, GoTo, ContClaim, Return
<1>2. FreshAreWaiting'
  BY ThreadAssumption DEF InlineInv, IndInv, TypeOK, RunsKnown, OneInLock,
     FreshAreWaiting, LockFree, Locked, Waiting, Active, Terminal, Steering,
     GoTo, ContClaim, NextInQueue, Write, Return
<1>3. SomeoneCares'
  BY ThreadAssumption DEF InlineInv, IndInv, TypeOK, RunsKnown, OneInLock,
     SomeoneCares, Owing, Demand, LockFree, Locked, Waiting, Active,
     Terminal, ActiveRuns, Steering, Disturbances, GoTo, ContClaim,
     NextInQueue, Write, Return
<1> QED BY <1>1, <1>2, <1>3

\* Taking a job ends no run.
LEMMA StartJobInline ==
    ASSUME InlineInv, Inline, NEW h \in Handlers, NEW r \in Messages,
           StartJob(h, r)
    PROVE  OneInLock' /\ FreshAreWaiting' /\ SomeoneCares'
<1>1. OneInLock'
  BY ThreadAssumption DEF InlineInv, IndInv, TypeOK, OneInLock, LockFree,
     Locked, GoTo, StartJob
<1>2. FreshAreWaiting'
  BY ThreadAssumption DEF InlineInv, IndInv, TypeOK, RunsKnown, OneInLock,
     FreshAreWaiting, LockFree, Locked, Waiting, Active, Terminal, Steering,
     GoTo, StartJob
<1>3. SomeoneCares'
  BY ThreadAssumption DEF InlineInv, IndInv, TypeOK, RunsKnown, OneInLock,
     SomeoneCares, Owing, Demand, LockFree, Locked, Waiting, Active,
     Terminal, ActiveRuns, Steering, Disturbances, GoTo, StartJob
<1> QED BY <1>1, <1>2, <1>3

\* An execution lists steering messages and writes nothing.
LEMMA LoopListInline ==
    ASSUME InlineInv, Inline, NEW h \in Handlers, LoopList(h)
    PROVE  OneInLock' /\ FreshAreWaiting' /\ SomeoneCares'
<1>1. OneInLock'
  BY ThreadAssumption DEF InlineInv, IndInv, TypeOK, OneInLock, LockFree,
     Locked, GoTo, LoopList, thread
<1>2. FreshAreWaiting'
  BY ThreadAssumption DEF InlineInv, IndInv, TypeOK, RunsKnown, OneInLock,
     FreshAreWaiting, LockFree, Locked, Waiting, Active, Terminal, Steering,
     GoTo, LoopList, thread
<1>3. SomeoneCares'
  BY ThreadAssumption DEF InlineInv, IndInv, TypeOK, RunsKnown, OneInLock,
     SomeoneCares, Owing, Demand, LockFree, Locked, Waiting, Active,
     Terminal, ActiveRuns, Steering, Disturbances, GoTo, LoopList, thread
<1> QED BY <1>1, <1>2, <1>3

\* Applied messages are through; an exception is a fault.
LEMMA LoopApplyInline ==
    ASSUME InlineInv, Inline, NEW h \in Handlers, LoopApply(h)
    PROVE  OneInLock' /\ FreshAreWaiting' /\ SomeoneCares'
<1>1. OneInLock'
  BY ThreadAssumption DEF InlineInv, IndInv, TypeOK, OneInLock, LockFree,
     Locked, GoTo, LoopApply, LoopFails, Return, frames
<1>2. FreshAreWaiting'
  BY ThreadAssumption DEF InlineInv, IndInv, TypeOK, RunsKnown, OneInLock,
     FreshAreWaiting, LockFree, Locked, Waiting, Active, Terminal, Steering,
     GoTo, LoopApply, LoopFails, End, Write, Return, Count, frames
<1>3. SomeoneCares'
  BY ThreadAssumption DEF InlineInv, IndInv, TypeOK, RunsKnown, OneInLock,
     SomeoneCares, Owing, Demand, LockFree, Locked, Waiting, Active,
     Terminal, ActiveRuns, Steering, Disturbances, GoTo, LoopApply,
     LoopFails, End, Write, Return, Count, frames
<1> QED BY <1>1, <1>2, <1>3

\* An exception is a fault.
LEMMA LoopRaisesInline ==
    ASSUME InlineInv, Inline, NEW h \in Handlers, LoopRaises(h)
    PROVE  OneInLock' /\ FreshAreWaiting' /\ SomeoneCares'
<1>1. OneInLock'
  BY ThreadAssumption DEF InlineInv, IndInv, TypeOK, OneInLock, LockFree,
     Locked, GoTo, LoopRaises, LoopFails, Return, frames
<1>2. FreshAreWaiting'
  BY ThreadAssumption DEF InlineInv, IndInv, TypeOK, RunsKnown, OneInLock,
     FreshAreWaiting, LockFree, Locked, Waiting, Active, Terminal, Steering,
     GoTo, LoopRaises, LoopFails, End, Write, Return, Count, frames
<1>3. SomeoneCares'
  BY ThreadAssumption DEF InlineInv, IndInv, TypeOK, RunsKnown, OneInLock,
     SomeoneCares, Owing, Demand, LockFree, Locked, Waiting, Active,
     Terminal, ActiveRuns, Steering, Disturbances, GoTo, LoopRaises,
     LoopFails, End, Write, Return, Count, frames
<1> QED BY <1>1, <1>2, <1>3

\* Whoever ends a run continues the thread.
LEMMA LoopFinishInline ==
    ASSUME InlineInv, Inline, NEW h \in Handlers, LoopFinish(h)
    PROVE  OneInLock' /\ FreshAreWaiting' /\ SomeoneCares'
<1>1. OneInLock'
  BY ThreadAssumption DEF InlineInv, IndInv, TypeOK, OneInLock, LockFree,
     Locked, GoTo, LoopFinish, frames
<1>2. FreshAreWaiting'
  BY ThreadAssumption DEF InlineInv, IndInv, TypeOK, RunsKnown, OneInLock,
     FreshAreWaiting, LockFree, Locked, Waiting, Active, Terminal, Steering,
     GoTo, LoopFinish, End, Write, frames
<1>3. SomeoneCares'
  BY ThreadAssumption DEF InlineInv, IndInv, TypeOK, RunsKnown, OneInLock,
     SomeoneCares, Owing, Demand, LockFree, Locked, Waiting, Active,
     Terminal, ActiveRuns, Steering, Disturbances, GoTo, LoopFinish, End,
     Write, frames
<1> QED BY <1>1, <1>2, <1>3

\* So does the execution of a cancelled run.
LEMMA LoopStopsInline ==
    ASSUME InlineInv, Inline, NEW h \in Handlers, LoopStops(h)
    PROVE  OneInLock' /\ FreshAreWaiting' /\ SomeoneCares'
<1>1. OneInLock'
  BY ThreadAssumption DEF InlineInv, IndInv, TypeOK, OneInLock, LockFree,
     Locked, GoTo, LoopStops, thread, frames
<1>2. FreshAreWaiting'
  BY ThreadAssumption DEF InlineInv, IndInv, TypeOK, RunsKnown, OneInLock,
     FreshAreWaiting, LockFree, Locked, Waiting, Active, Terminal, Steering,
     GoTo, LoopStops, thread, frames
<1>3. SomeoneCares'
  BY ThreadAssumption DEF InlineInv, IndInv, TypeOK, RunsKnown, OneInLock,
     SomeoneCares, Owing, Demand, LockFree, Locked, Waiting, Active,
     Terminal, ActiveRuns, Steering, Disturbances, GoTo, LoopStops, thread,
     frames
<1> QED BY <1>1, <1>2, <1>3

\* The decision to ask the user writes nothing.
LEMMA LoopYieldsInline ==
    ASSUME InlineInv, Inline, NEW h \in Handlers, LoopYields(h)
    PROVE  OneInLock' /\ FreshAreWaiting' /\ SomeoneCares'
<1>1. OneInLock'
  BY ThreadAssumption DEF InlineInv, IndInv, TypeOK, OneInLock, LockFree,
     Locked, GoTo, LoopYields, thread, frames
<1>2. FreshAreWaiting'
  BY ThreadAssumption DEF InlineInv, IndInv, TypeOK, RunsKnown, OneInLock,
     FreshAreWaiting, LockFree, Locked, Waiting, Active, Terminal, Steering,
     GoTo, LoopYields, thread, frames
<1>3. SomeoneCares'
  BY ThreadAssumption DEF InlineInv, IndInv, TypeOK, RunsKnown, OneInLock,
     SomeoneCares, Owing, Demand, LockFree, Locked, Waiting, Active,
     Terminal, ActiveRuns, Steering, Disturbances, GoTo, LoopYields, thread,
     frames
<1> QED BY <1>1, <1>2, <1>3

\* A run that waits is active; its message had its run.
LEMMA LoopWaitsInline ==
    ASSUME InlineInv, Inline, NEW h \in Handlers, LoopWaits(h)
    PROVE  OneInLock' /\ FreshAreWaiting' /\ SomeoneCares'
<1>1. OneInLock'
  BY ThreadAssumption DEF InlineInv, IndInv, TypeOK, OneInLock, LockFree,
     Locked, GoTo, LoopWaits, Return
<1>2. FreshAreWaiting'
  BY ThreadAssumption DEF InlineInv, IndInv, TypeOK, RunsKnown, OneInLock,
     FreshAreWaiting, LockFree, Locked, Waiting, Active, Terminal, Steering,
     GoTo, LoopWaits, Write, Return
<1>3. SomeoneCares'
  BY ThreadAssumption DEF InlineInv, IndInv, TypeOK, RunsKnown, OneInLock,
     SomeoneCares, Owing, Demand, LockFree, Locked, Waiting, Active,
     Terminal, ActiveRuns, Steering, Disturbances, GoTo, LoopWaits, Write,
     Return
<1> QED BY <1>1, <1>2, <1>3

\* Whoever cancels a run continues the thread.
LEMMA CancelRunInline ==
    ASSUME InlineInv, Inline, NEW h \in Handlers, NEW r \in Messages,
           CancelRun(h, r)
    PROVE  OneInLock' /\ FreshAreWaiting' /\ SomeoneCares'
<1>1. OneInLock'
  BY ThreadAssumption DEF InlineInv, IndInv, TypeOK, OneInLock, LockFree,
     Locked, GoTo, CancelRun, frames
<1>2. FreshAreWaiting'
  BY ThreadAssumption DEF InlineInv, IndInv, TypeOK, RunsKnown, OneInLock,
     FreshAreWaiting, LockFree, Locked, Waiting, Active, Terminal, Steering,
     GoTo, CancelRun, End, Write, Count, frames
<1>3. SomeoneCares'
  BY ThreadAssumption DEF InlineInv, IndInv, TypeOK, RunsKnown, OneInLock,
     SomeoneCares, Owing, Demand, LockFree, Locked, Waiting, Active,
     Terminal, ActiveRuns, Steering, Disturbances, GoTo, CancelRun, End,
     Write, Count, frames
<1> QED BY <1>1, <1>2, <1>3

\* A retry brings no message back.
LEMMA RetryRunInline ==
    ASSUME InlineInv, Inline, NEW h \in Handlers, NEW r \in Messages,
           RetryRun(h, r)
    PROVE  OneInLock' /\ FreshAreWaiting' /\ SomeoneCares'
<1>1. OneInLock'
  BY ThreadAssumption DEF InlineInv, IndInv, TypeOK, OneInLock, LockFree,
     Locked, GoTo, RetryRun
<1>2. FreshAreWaiting'
  BY ThreadAssumption DEF InlineInv, IndInv, TypeOK, RunsKnown, OneInLock,
     FreshAreWaiting, LockFree, Locked, Waiting, Active, Terminal, Steering,
     GoTo, RetryRun, Count
<1>3. SomeoneCares'
  BY ThreadAssumption DEF InlineInv, IndInv, TypeOK, RunsKnown, OneInLock,
     SomeoneCares, Owing, Demand, LockFree, Locked, Waiting, Active,
     Terminal, ActiveRuns, Steering, Disturbances, GoTo, RetryRun, Count
<1> QED BY <1>1, <1>2, <1>3

\* A retry brings no message back.
LEMMA RetryQueuedInline ==
    ASSUME InlineInv, Inline, NEW h \in Handlers, RetryQueued(h)
    PROVE  OneInLock' /\ FreshAreWaiting' /\ SomeoneCares'
<1>1. OneInLock'
  BY ThreadAssumption DEF InlineInv, IndInv, TypeOK, OneInLock, LockFree,
     Locked, GoTo, RetryQueued, Return
<1>2. FreshAreWaiting'
  BY ThreadAssumption DEF InlineInv, IndInv, TypeOK, RunsKnown, OneInLock,
     FreshAreWaiting, LockFree, Locked, Waiting, Active, Terminal, Steering,
     GoTo, RetryQueued, Return
<1>3. SomeoneCares'
  BY ThreadAssumption DEF InlineInv, IndInv, TypeOK, RunsKnown, OneInLock,
     SomeoneCares, Owing, Demand, LockFree, Locked, Waiting, Active,
     Terminal, ActiveRuns, Steering, Disturbances, GoTo, RetryQueued, Return
<1> QED BY <1>1, <1>2, <1>3

\* delete_message only reads.
LEMMA DeleteMessageInline ==
    ASSUME InlineInv, Inline, NEW h \in Handlers, NEW m \in Messages,
           DeleteMessage(h, m)
    PROVE  OneInLock' /\ FreshAreWaiting' /\ SomeoneCares'
<1>1. OneInLock'
  BY ThreadAssumption DEF InlineInv, IndInv, TypeOK, OneInLock, LockFree,
     Locked, GoTo, DeleteMessage, thread
<1>2. FreshAreWaiting'
  BY ThreadAssumption DEF InlineInv, IndInv, TypeOK, RunsKnown, OneInLock,
     FreshAreWaiting, LockFree, Locked, Waiting, Active, Terminal, Steering,
     GoTo, DeleteMessage, thread
<1>3. SomeoneCares'
  BY ThreadAssumption DEF InlineInv, IndInv, TypeOK, RunsKnown, OneInLock,
     SomeoneCares, Owing, Demand, LockFree, Locked, Waiting, Active,
     Terminal, ActiveRuns, Steering, Disturbances, GoTo, DeleteMessage,
     thread
<1> QED BY <1>1, <1>2, <1>3

\* A deleted message waits no more.
LEMMA DeleteWriteInline ==
    ASSUME InlineInv, Inline, NEW h \in Handlers, DeleteWrite(h)
    PROVE  OneInLock' /\ FreshAreWaiting' /\ SomeoneCares'
<1>1. OneInLock'
  BY ThreadAssumption DEF InlineInv, IndInv, TypeOK, OneInLock, LockFree,
     Locked, GoTo, DeleteWrite, Return
<1>2. FreshAreWaiting'
  BY ThreadAssumption DEF InlineInv, IndInv, TypeOK, RunsKnown, OneInLock,
     FreshAreWaiting, LockFree, Locked, Waiting, Active, Terminal, Steering,
     GoTo, DeleteWrite, Write, Return
<1>3. SomeoneCares'
  BY ThreadAssumption DEF InlineInv, IndInv, TypeOK, RunsKnown, OneInLock,
     SomeoneCares, Owing, Demand, LockFree, Locked, Waiting, Active,
     Terminal, ActiveRuns, Steering, Disturbances, GoTo, DeleteWrite, Write,
     Return
<1> QED BY <1>1, <1>2, <1>3

\* A closed thread promises nothing.
LEMMA CloseThreadInline ==
    ASSUME InlineInv, Inline, CloseThread
    PROVE  OneInLock' /\ FreshAreWaiting' /\ SomeoneCares'
<1>1. OneInLock'
  BY ThreadAssumption DEF InlineInv, IndInv, TypeOK, OneInLock, LockFree,
     Locked, CloseThread, frames
<1>2. FreshAreWaiting'
  BY ThreadAssumption DEF InlineInv, IndInv, TypeOK, RunsKnown, OneInLock,
     FreshAreWaiting, LockFree, Locked, Waiting, Active, Terminal, Steering,
     CloseThread, Count, frames
<1>3. SomeoneCares'
  BY ThreadAssumption DEF InlineInv, IndInv, TypeOK, RunsKnown, OneInLock,
     SomeoneCares, Owing, Demand, LockFree, Locked, Waiting, Active,
     Terminal, ActiveRuns, Steering, Disturbances, CloseThread, Count,
     frames
<1> QED BY <1>1, <1>2, <1>3

\* Only a thread that was closed once is reopened.
LEMMA ReopenThreadInline ==
    ASSUME InlineInv, Inline, ReopenThread
    PROVE  OneInLock' /\ FreshAreWaiting' /\ SomeoneCares'
<1>1. OneInLock'
  BY ThreadAssumption DEF InlineInv, IndInv, TypeOK, OneInLock, LockFree,
     Locked, ReopenThread, frames
<1>2. FreshAreWaiting'
  BY ThreadAssumption DEF InlineInv, IndInv, TypeOK, RunsKnown, OneInLock,
     FreshAreWaiting, LockFree, Locked, Waiting, Active, Terminal, Steering,
     ReopenThread, frames
<1>3. SomeoneCares'
  BY ThreadAssumption DEF InlineInv, IndInv, TypeOK, RunsKnown, OneInLock,
     SomeoneCares, Owing, Demand, LockFree, Locked, Waiting, Active,
     Terminal, ActiveRuns, Steering, Disturbances, ReopenThread, frames
<1> QED BY <1>1, <1>2, <1>3

\* Nothing has been posted, and the lock is free.
LEMMA InitInline == Init => OneInLock /\ FreshAreWaiting /\ SomeoneCares
BY DEF Init, OneInLock, FreshAreWaiting, SomeoneCares, Demand, Waiting, Locked

LEMMA StutterInline ==
    ASSUME InlineInv, UNCHANGED vars
    PROVE  OneInLock' /\ FreshAreWaiting' /\ SomeoneCares'
BY DEF InlineInv, OneInLock, FreshAreWaiting, SomeoneCares, Demand, ActiveRuns,
   Steering, vars, thread, frames

\* Every step of a handler of the process keeps the three.
LEMMA HandlerInline ==
    ASSUME InlineInv, Inline, NEW h \in Handlers,
           \/ UserActs(h) \/ Progress(h) \/ LoopEnds(h)
           \/ LoopList(h) \/ LoopRaises(h) \/ CreateFails(h)
           \/ \E r \in Messages : StartJob(h, r)
    PROVE  OneInLock' /\ FreshAreWaiting' /\ SomeoneCares'
<1>1. CASE UserActs(h)
  BY <1>1, PostInline, ContinueInline, CancelRunInline, RetryRunInline,
     DeleteMessageInline DEF UserActs
<1>2. CASE Progress(h)
  BY <1>2, AppendToActiveRunInline, StartAppendInline, CreateRunInline,
     FallbackInline, EnqueueInline, DispatchInline, ContReadInline,
     ContListInline, ContRequeueInline, ContClaimInline, LoopApplyInline,
     LoopWaitsInline, RetryQueuedInline, DeleteWriteInline DEF Progress
<1>3. CASE LoopEnds(h)
  BY <1>3, LoopFinishInline, LoopStopsInline, LoopYieldsInline DEF LoopEnds
<1>4. CASE LoopList(h) \/ LoopRaises(h) \/ CreateFails(h)
  BY <1>4, LoopListInline, LoopRaisesInline, CreateFailsInline
<1>5. CASE \E r \in Messages : StartJob(h, r)
  BY <1>5, StartJobInline
<1> QED BY <1>1, <1>2, <1>3, <1>4, <1>5

LEMMA NextInline == Inline /\ InlineInv /\ [Next]_vars => InlineInv'
<1> SUFFICES ASSUME Inline, InlineInv, [Next]_vars PROVE InlineInv'
  OBVIOUS
<1>1. IndInv'
  BY NextKeeps DEF InlineInv
<1>2. OneInLock' /\ FreshAreWaiting' /\ SomeoneCares'
  <2>1. CASE UNCHANGED vars
    BY <2>1, StutterInline
  <2>2. CASE Next
    BY <2>2, HandlerInline, CloseThreadInline, ReopenThreadInline DEF Next
  <2> QED BY <2>1, <2>2
<1> QED BY <1>1, <1>2 DEF InlineInv

\* InlineInvariant: with one process (dispatch mode "inline") InlineInv holds
\* in every reachable state, however requests, executions and exceptions of the
\* process interleave.
THEOREM InlineInvariant == ASSUME Inline PROVE Spec => []InlineInv
<1>1. Init => InlineInv
  BY InitKeeps, InitInline DEF InlineInv
<1>2. InlineInv /\ [Next]_vars => InlineInv'
  BY NextInline
<1> QED BY <1>1, <1>2, PTL DEF Spec

\* ThreadIsLocked: post_message and continue_thread of one thread never overlap
\* within a process, although their steps are separate calls of the store and
\* every path out of them, exceptions included, has to give the lock back
\* (_named_lock).
THEOREM ThreadIsLocked == ASSUME Inline PROVE Spec => []OneInLock
<1>1. InlineInv => OneInLock
  BY DEF InlineInv
<1> QED BY <1>1, InlineInvariant, PTL

\* MessageRunsOnce: within one process a message gets one run at most: neither
\* the sweep of continue_thread, which writes back what it listed earlier, nor
\* the fallback of _start_run nor an exception returns to the queue a message
\* that had its run.
THEOREM MessageRunsOnce == ASSUME Inline PROVE Spec => []RunOncePerMessage
<1>1. InlineInv => RunOncePerMessage
  BY DEF InlineInv, FreshAreWaiting, RunOncePerMessage
<1> QED BY <1>1, InlineInvariant, PTL

\* QueueNeverStrands: within one process, without a fault or a closure, a thread
\* at rest that has no active run has no message left waiting: a continuation
\* is given up only when another run will call continue_thread again.
THEOREM QueueNeverStrands == ASSUME Inline PROVE Spec => []NothingStranded
<1>1. InlineInv => NothingStranded
  BY DEF InlineInv, SomeoneCares, Demand, Owing, NothingStranded, QueueMovesOn, Quiet
<1> QED BY <1>1, InlineInvariant, PTL

-----------------------------------------------------------------------------
(* The requests of ChatService.execute_idempotently *)

\* They implement OncePerKey.  The invariant behind it is KeyInv: while no execution has
\* outlived its reservation there is one execution at most (OneExecution), and it finds
\* its own pending record when it saves or deletes; the lock of the process (OneInside)
\* makes the death of a process refuse one request.

CONSTANTS Requests, Proc, Body, MaxCrash, Refused
VARIABLES reserving, hash, response, stale, place, answer, crashes, performed, lost, kept

Keys == INSTANCE Idempotency WITH pc <- place

\* A stored hash is not the mark of a missing record, nor is a request.
KeyConstants ==
    /\ None \notin Requests
    /\ \A r \in Requests : Body[r] # None

Types ==
    /\ reserving \in BOOLEAN /\ kept \in BOOLEAN
    /\ response \in Requests \cup {None}
    /\ place \in [Requests -> Keys!Labels]
    /\ answer \in [Requests -> Requests \cup {None, Refused}]

\* Nobody is answered twice.
Unanswered == \A r \in Requests : place[r] # "done" => answer[r] = None

\* Within a process one request at a time is past the lock.
OneInside ==
    reserving =>
      \A q, r \in Requests :
        /\ Proc[q] = Proc[r]
        /\ place[q] \notin {"new", "done"} /\ place[r] \notin {"new", "done"}
        => q = r

\* The execution that holds the reservation finds its own pending record.
OneExecution ==
    reserving /\ kept =>
      /\ \A r \in Requests : Keys!Executing(r) => hash = Body[r] /\ response = None
      /\ \A q, r \in Requests : Keys!Executing(q) /\ Keys!Executing(r) => q = r

KeyInv ==
    /\ Types /\ Unanswered
    /\ Keys!NoRecord => response = None
    /\ OneInside /\ OneExecution

-----------------------------------------------------------------------------
\* No request has arrived yet.
LEMMA InitKeyInv == Keys!Init => KeyInv
  BY DEF Keys!Init, KeyInv, Types, Keys!Labels, Unanswered, Keys!NoRecord, OneInside,
         OneExecution,
         Keys!Executing

\* A step of a request within its process keeps the invariant.
LEMMA StepKeyInv ==
  ASSUME KeyConstants, KeyInv, NEW r \in Requests, Keys!Step(r)
  PROVE  KeyInv'
<1> USE DEF KeyInv
<1>1. CASE Keys!Enter(r)
  <2>1. Types' /\ Unanswered' /\ (Keys!NoRecord => response = None)'
    BY <1>1 DEF Keys!Enter, Keys!Goto, Types, Keys!Labels, Unanswered, Keys!NoRecord,
                Keys!record
  <2>2. OneInside'
    BY <1>1 DEF Keys!Enter, Keys!Goto, OneInside, Types, Keys!Labels
  <2>3. OneExecution'
    BY <1>1 DEF Keys!Enter, Keys!Goto, OneExecution, Types, Keys!Executing, Keys!record
  <2> QED
    BY <2>1, <2>2, <2>3
<1>2. CASE Keys!Find(r)
  <2>1. Types' /\ Unanswered' /\ (Keys!NoRecord => response = None)'
    BY <1>2 DEF Keys!Find, Keys!Goto, Keys!Answer, Types, Keys!Labels, Unanswered,
                Keys!NoRecord, Keys!record
  <2>2. OneInside'
    BY <1>2 DEF Keys!Find, Keys!Goto, Keys!Answer, OneInside, Types
  <2>3. OneExecution'
    BY <1>2 DEF Keys!Find, Keys!Goto, Keys!Answer, OneExecution, Types, Keys!Executing,
                Keys!record
  <2> QED
    BY <2>1, <2>2, <2>3
<1>3. CASE Keys!Reserve(r)
  <2>1. Types' /\ Unanswered' /\ (Keys!NoRecord => response = None)'
    BY <1>3 DEF KeyConstants, Keys!Reserve, Keys!Reservation, Keys!Goto, Types, Keys!Labels,
                Unanswered,
                Keys!NoRecord, Keys!record
  <2>2. OneInside'
    BY <1>3 DEF Keys!Reserve, Keys!Goto, OneInside, Types
  <2>3. OneExecution'
    BY <1>3 DEF KeyConstants, Keys!Reserve, Keys!Reservation, Keys!Goto, OneExecution, Types,
                Keys!Executing,
                Keys!NoRecord, Keys!record
  <2> QED
    BY <2>1, <2>2, <2>3
<1>4. CASE Keys!Reclaim(r)
  <2>1. Types' /\ Unanswered' /\ (Keys!NoRecord => response = None)'
    BY <1>4 DEF Keys!Reclaim, Keys!Reservation, Keys!Goto, Types, Keys!Labels, Unanswered,
                Keys!NoRecord, Keys!record
  <2>2. OneInside'
    BY <1>4 DEF Keys!Reclaim, Keys!Goto, OneInside, Types
  <2>3. OneExecution'
    BY <1>4 DEF Keys!Reclaim, Keys!Reservation, Keys!Goto, OneExecution, Types,
                Keys!Executing, Keys!record
  <2> QED
    BY <2>1, <2>2, <2>3
<1>5. CASE Keys!Operate(r) \/ Keys!OperateRaises(r)
  <2>1. Types' /\ Unanswered' /\ (Keys!NoRecord => response = None)'
    BY <1>5 DEF Keys!Operate, Keys!OperateRaises, Keys!Goto, Keys!Answer, Types, Keys!Labels,
                Unanswered,
                Keys!NoRecord, Keys!record
  <2>2. OneInside'
    BY <1>5 DEF Keys!Operate, Keys!OperateRaises, Keys!Goto, Keys!Answer, OneInside, Types
  <2>3. OneExecution'
    BY <1>5 DEF Keys!Operate, Keys!OperateRaises, Keys!Goto, Keys!Answer, OneExecution,
                Types, Keys!Executing,
                Keys!record
  <2> QED
    BY <2>1, <2>2, <2>3
<1>6. CASE Keys!Delete(r)
  <2>1. Types' /\ Unanswered' /\ (Keys!NoRecord => response = None)'
    BY <1>6 DEF Keys!Delete, Keys!Answer, Types, Keys!Labels, Unanswered, Keys!NoRecord,
                Keys!record
  <2>2. OneInside'
    BY <1>6 DEF Keys!Delete, Keys!Answer, OneInside, Types
  <2>3. OneExecution'
    BY <1>6 DEF Keys!Delete, Keys!Answer, OneExecution, Types, Keys!Executing, Keys!record
  <2> QED
    BY <2>1, <2>2, <2>3
<1>7. CASE Keys!Save(r)
  <2>1. Types' /\ Unanswered' /\ (Keys!NoRecord => response = None)'
    BY <1>7 DEF KeyConstants, Keys!Save, Keys!SaveRecord, Keys!Answer, Types, Keys!Labels,
                Unanswered, Keys!NoRecord
  <2>2. OneInside'
    BY <1>7 DEF Keys!Save, Keys!Answer, OneInside, Types
  <2>3. OneExecution'
    BY <1>7 DEF Keys!Save, Keys!SaveRecord, Keys!Answer, OneExecution, Types, Keys!Executing
  <2> QED
    BY <2>1, <2>2, <2>3
<1>8. CASE Keys!Poll(r) \/ Keys!GiveUp(r)
  <2>1. Types' /\ Unanswered' /\ (Keys!NoRecord => response = None)'
    BY <1>8 DEF Keys!Poll, Keys!GiveUp, Keys!Answer, Types, Keys!Labels, Unanswered,
                Keys!NoRecord, Keys!record
  <2>2. OneInside'
    BY <1>8 DEF Keys!Poll, Keys!GiveUp, Keys!Answer, OneInside, Types
  <2>3. OneExecution'
    BY <1>8 DEF Keys!Poll, Keys!GiveUp, Keys!Answer, OneExecution, Types, Keys!Executing,
                Keys!record
  <2> QED
    BY <2>1, <2>2, <2>3
<1> QED
  BY <1>1, <1>2, <1>3, <1>4, <1>5, <1>6, <1>7, <1>8 DEF Keys!Step

\* Time passing and dying processes keep it too.
LEMMA KeyInvStep ==
  ASSUME KeyConstants, KeyInv, [Keys!Next]_(Keys!vars)
  PROVE  KeyInv'
<1> USE DEF KeyInv
<1>1. ASSUME NEW p, Keys!Crash(p) PROVE KeyInv'
  <2>1. Types' /\ Unanswered' /\ (Keys!NoRecord => response = None)'
    BY <1>1 DEF Keys!Crash, Types, Keys!Labels, Unanswered, Keys!NoRecord, Keys!record
  <2>2. OneInside'
    BY <1>1 DEF Keys!Crash, OneInside, Types
  <2>3. OneExecution'
    BY <1>1 DEF Keys!Crash, OneExecution, Types, Keys!Executing, Keys!record
  <2> QED
    BY <2>1, <2>2, <2>3
<1>2. CASE Keys!Age \/ UNCHANGED Keys!vars
  BY <1>2 DEF Keys!Age, Keys!vars, Keys!record, Types, Unanswered, Keys!NoRecord, OneInside,
              OneExecution,
              Keys!Executing
<1> QED
  BY <1>1, <1>2, StepKeyInv DEF Keys!Next

-----------------------------------------------------------------------------
\* The client of r gets an error, or the stored response.
LEMMA AnswerFits ==
  ASSUME Types, Unanswered, NEW r \in Requests, place[r] # "done", reserving, kept,
         UNCHANGED <<reserving, response, kept>>,
         \/ Keys!Answer(r, Refused)
         \/ response # None /\ Keys!Answer(r, response)
  PROVE  Keys!Promise!Refuse(r) \/ Keys!Promise!Replay(r)
<1>1. answer[r] = None
  BY DEF Unanswered
<1>2. CASE Keys!Answer(r, Refused)
  BY <1>1, <1>2 DEF Keys!Promise!Refuse, Keys!Answer
<1>3. CASE response # None /\ Keys!Answer(r, response)
  BY <1>1, <1>3 DEF Keys!Promise!Replay, Keys!Answer
<1> QED
  BY <1>2, <1>3

\* An endpoint that reserves its key, while no execution has outlived its
\* reservation: a step executes, replays, refuses, or is not seen.
LEMMA ReservedStep ==
  ASSUME KeyConstants, KeyInv, Keys!Next, reserving, kept, kept'
  PROVE  Keys!Promise!Next \/ UNCHANGED <<reserving, response, answer, kept>>
<1> USE DEF KeyInv
<1>1. ASSUME NEW r \in Requests, Keys!Step(r)
      PROVE  Keys!Promise!Next \/ UNCHANGED <<reserving, response, answer, kept>>
  <2>1. CASE Keys!Enter(r) \/ Keys!Operate(r)
    BY <2>1 DEF Keys!Enter, Keys!Operate, Keys!Goto, Keys!record
  <2>2. CASE Keys!Find(r) \/ Keys!Poll(r) \/ Keys!GiveUp(r)
    BY <2>2, AnswerFits DEF Keys!Find, Keys!Poll, Keys!GiveUp, Keys!Goto, Keys!record,
                            Keys!Promise!Next
  <2>3. CASE Keys!Reserve(r) \/ Keys!Reclaim(r)
    BY <2>3 DEF Keys!Reserve, Keys!Reclaim, Keys!Reservation, Keys!Goto, Keys!NoRecord,
                Keys!record
  <2>4. CASE Keys!OperateRaises(r)
    BY <2>4 DEF Keys!OperateRaises, Keys!Goto, Keys!record
  <2>5. CASE Keys!Delete(r)
    <3>1. response = None /\ response' = None
      BY <2>5 DEF Keys!Delete, OneExecution, Keys!Executing, Keys!record
    <3> QED
      BY <2>5, <3>1, AnswerFits DEF Keys!Delete, Keys!Promise!Next
  <2>6. CASE Keys!Save(r)
    <3>1. response = None /\ answer[r] = None
      BY <2>6 DEF Keys!Save, OneExecution, Unanswered, Keys!Executing
    <3>2. Keys!Promise!Execute(r)
      BY <2>6, <3>1 DEF Keys!Save, Keys!SaveRecord, Keys!Answer, Keys!Promise!Execute
    <3> QED
      BY <3>2 DEF Keys!Promise!Next
  <2> QED
    BY <1>1, <2>1, <2>2, <2>3, <2>4, <2>5, <2>6 DEF Keys!Step
<1>2. ASSUME NEW r \in Requests, Keys!Crash(Proc[r])
      PROVE  Keys!Promise!Next
  <2>1. PICK q \in Requests : Proc[q] = Proc[r] /\ place[q] \notin {"new", "done"}
    BY <1>2 DEF Keys!Crash
  <2>2. \A s \in Requests : Proc[s] = Proc[r] /\ place[s] \notin {"new", "done"} => s = q
    BY <2>1 DEF OneInside
  <2>3. answer' = [answer EXCEPT ![q] = Refused]
    BY <1>2, <2>1, <2>2 DEF Keys!Crash, Types
  <2>4. answer[q] = None
    BY <2>1 DEF Unanswered
  <2>5. Keys!Promise!Refuse(q)
    BY <1>2, <2>3, <2>4 DEF Keys!Crash, Keys!record, Keys!Promise!Refuse
  <2> QED
    BY <2>5 DEF Keys!Promise!Next
<1>3. CASE Keys!Age
  BY <1>3 DEF Keys!Age
<1> QED
  BY <1>1, <1>2, <1>3 DEF Keys!Next

\* What never changes: the kind of the endpoint, and a promise that is off.
LEMMA KindAndPromiseStay ==
  ASSUME [Keys!Next]_(Keys!vars)
  PROVE  reserving' = reserving /\ (~kept => ~kept')
<1>1. ASSUME NEW r \in Requests, Keys!Reclaim(r)
      PROVE  reserving' = reserving /\ (~kept => ~kept')
  BY <1>1, Zenon DEF Keys!Reclaim
<1>2. CASE Keys!Next /\ ~\E r \in Requests : Keys!Reclaim(r)
  BY <1>2 DEF Keys!Next, Keys!Step, Keys!Enter, Keys!Find, Keys!Reserve, Keys!Operate,
              Keys!OperateRaises, Keys!Delete, Keys!Save,
              Keys!Poll, Keys!GiveUp, Keys!Age, Keys!Crash
<1> QED
  BY <1>1, <1>2 DEF Keys!vars

\* The promise goes off when a pending record is reclaimed from a live
\* execution, which answers nobody.
LEMMA OutliveStep ==
  ASSUME KeyInv, Keys!Next, kept, ~kept'
  PROVE  UNCHANGED <<reserving, response, answer>>
  BY DEF Keys!Next, Keys!record, Keys!Step, Keys!Enter, Keys!Find, Keys!Reserve,
         Keys!Reclaim, Keys!Reservation, Keys!Goto, Keys!Operate,
         Keys!OperateRaises, Keys!Delete, Keys!Save, Keys!Poll, Keys!GiveUp, Keys!Age,
         Keys!Crash

\* Every step of the requests is a step of OncePerKey or is not seen by it.
LEMMA StepKeepsPromise ==
  ASSUME KeyConstants, KeyInv, [Keys!Next]_(Keys!vars)
  PROVE  [Keys!Promise!Next]_(Keys!Promise!vars)
<1>0. kept \in BOOLEAN /\ kept' \in BOOLEAN
  BY KeyInvStep DEF KeyInv, Types
<1>1. CASE UNCHANGED <<reserving, response, answer, kept>>
  BY <1>1 DEF Keys!Promise!vars
<1>2. CASE ~kept
  BY <1>0, <1>2, KindAndPromiseStay DEF Keys!Promise!Next, Keys!Promise!Unprotected
<1>3. CASE Keys!Next /\ kept /\ ~kept'
  BY <1>3, OutliveStep DEF Keys!Promise!Next, Keys!Promise!Outlive
<1>4. CASE Keys!Next /\ kept /\ kept' /\ reserving
  BY <1>1, <1>4, ReservedStep
<1>5. CASE Keys!Next /\ kept /\ kept' /\ ~reserving
  BY <1>0, <1>5, KindAndPromiseStay DEF Keys!Promise!vars
<1> QED
  BY <1>0, <1>1, <1>2, <1>3, <1>4, <1>5 DEF Keys!vars

\* execute_idempotently implements OncePerKey for any number of requests,
\* processes and crashes: as long as no execution outlives its reservation, every
\* client is refused or gets the result of one execution.
THEOREM ReservedKeyIsAnsweredOnce == ASSUME KeyConstants PROVE Keys!Spec => Keys!KeepsPromise
<1>1. Keys!Init => Keys!Promise!Init
  BY DEF Keys!Init, Keys!Promise!Init
<1>2. KeyInv /\ [Keys!Next]_(Keys!vars) => KeyInv'
  BY KeyInvStep
<1>3. KeyInv /\ [Keys!Next]_(Keys!vars) => [Keys!Promise!Next]_(Keys!Promise!vars)
  BY StepKeepsPromise
<1> QED
  BY <1>1, <1>2, <1>3, InitKeyInv, PTL DEF Keys!Spec, Keys!KeepsPromise, Keys!Promise!Spec
=============================================================================
