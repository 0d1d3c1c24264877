---------------------------- MODULE ThreadSandbox ----------------------------
(***************************************************************************)
(* The remote sandbox the runs of a chat thread share (agent/runtime.py     *)
(* over sandbox/e2b.py).  The thread's row names the session; a run adopts  *)
(* it or creates one, names it in its own state, runs commands in it, and   *)
(* pauses it when it succeeds.  A cancellation runs in another process,     *)
(* works on the state it finds saved, and cleans up beside the worker that  *)
(* may be creating, using or cleaning the same session.  The run after a    *)
(* cancelled one may start while both are still at it.                      *)
(***************************************************************************)
EXTENDS Naturals, FiniteSets

CONSTANTS Runs,          \* of the thread, numbered in the order they are sent
          Sessions,      \* remote sandboxes, in the order they are created
          MaxTrouble,    \* provider calls that fail and workers that die
          MaxCancels,
          MayDelete      \* the thread is deleted at some point

VARIABLES ref,      \* chat_threads.sandbox_session_id
          thread,   \* kept, releasing, deleted
          box,      \* the provider: none, running, paused, killed
          run,      \* runs.status
          saved,    \* sandbox_session_id of the saved runtime state
          step,     \* the saved state names a step
          w,        \* the worker that executes the run
          c,        \* the request that cancels it
          evt,      \* the last sandbox.command.cancel... event of the run
          proc,     \* the session the run's command runs in
          trouble, cancels,
          overtaken \* a run has started, or the thread was deleted, while an earlier
                    \* run's worker or cancellation was still at work

vars == <<ref, thread, box, run, saved, step, w, c, evt, proc, trouble, cancels, overtaken>>

None == 0
Idle == [pc |-> "idle", held |-> None]
NoEvent == [kind |-> "none", of |-> None]

Init == /\ ref = None /\ thread = "kept"
        /\ box = [s \in Sessions |-> "none"]
        /\ run = [r \in Runs |-> "queued"]
        /\ saved = [r \in Runs |-> None] /\ step = [r \in Runs |-> FALSE]
        /\ w = [r \in Runs |-> Idle] /\ c = [r \in Runs |-> Idle]
        /\ evt = [r \in Runs |-> NoEvent] /\ proc = [r \in Runs |-> None]
        /\ trouble = 0 /\ cancels = 0 /\ overtaken = FALSE

-----------------------------------------------------------------------------

Terminal == {"ended", "cancelled"}
\* Neither the worker nor the cancellation of the run has anything left to do.
Left(r) == w[r].pc \in {"idle", "done"} /\ c[r].pc \in {"idle", "done"}
Cancelled(r) == run[r] = "cancelled"

\* get_session finds a running or a paused sandbox.
Live(s) == box[s] \in {"running", "paused"}

\* A call of the provider that fails.
Fault == trouble < MaxTrouble /\ trouble' = trouble + 1

Go(r, pc, held) == w' = [w EXCEPT ![r] = [pc |-> pc, held |-> held]]
GoC(r, pc, held) == c' = [c EXCEPT ![r] = [pc |-> pc, held |-> held]]

Event(kind, s) == [kind |-> kind, of |-> s]

\* _save_state: the row of a cancelled run names no step.  The status is read
\* just before the row is written; here that is one step, since the worker
\* looks at the status again after every save.
Save(r, held) == /\ saved' = [saved EXCEPT ![r] = held]
                 /\ step' = [step EXCEPT ![r] = ~Cancelled(r)]

-----------------------------------------------------------------------------
\* The worker of a run.

\* The next run starts when the one before has a final status.
Start(r) ==
    /\ w[r].pc = "idle" /\ run[r] \in {"queued", "running"}
    /\ \A q \in Runs : q < r => run[q] \in Terminal
    /\ run' = [run EXCEPT ![r] = "running"]
    /\ Go(r, "after", saved[r])
    /\ overtaken' = \/ overtaken \/ thread = "releasing"
                     \/ \E q \in Runs : q < r /\ ~Left(q)
    /\ UNCHANGED <<ref, thread, box, saved, step, c, evt, proc, trouble, cancels>>

\* Between two actions, and after each: a cancelled run is cleaned up; the
\* others go on with a command, succeed or fail -- a failure is written over
\* whatever status the run has by then.
Continue(r) ==
    /\ w[r].pc = "after"
    /\ IF Cancelled(r)
       THEN Go(r, "drop_cancelled", w[r].held) /\ UNCHANGED run
       ELSE \/ Go(r, "ensure", w[r].held) /\ UNCHANGED run
            \/ Go(r, "capture", w[r].held) /\ UNCHANGED run
            \/ Go(r, "fail", w[r].held) /\ UNCHANGED run
    /\ UNCHANGED <<ref, thread, box, saved, step, c, evt, proc, trouble, cancels, overtaken>>

\* _ensure_sandbox_session adopts the thread's session; one that is gone is
\* forgotten if it is the thread's and replaced; one that is no longer the
\* thread's fails the action.
LookUp(r) ==
    /\ w[r].pc = "ensure"
    /\ LET s == IF w[r].held = None THEN ref ELSE w[r].held IN
         \/ /\ Cancelled(r) /\ Save(r, w[r].held) /\ Go(r, "after", w[r].held)
            /\ UNCHANGED ref
         \/ /\ ~Cancelled(r)
            /\ CASE s = None -> Go(r, "create", None) /\ UNCHANGED ref
                 [] s # None /\ ~Live(s) /\ ref = s -> Go(r, "create", None) /\ ref' = None
                 [] s # None /\ Live(s) /\ ref = s -> Go(r, "prepared", s) /\ UNCHANGED ref
                 [] OTHER -> Go(r, "after", s) /\ UNCHANGED ref
            /\ UNCHANGED <<saved, step>>
    /\ UNCHANGED <<thread, box, run, c, evt, proc, trouble, cancels, overtaken>>

Create(r) ==
    /\ w[r].pc = "create"
    /\ \/ \E s \in Sessions :
             /\ box[s] = "none" /\ \A t \in Sessions : t < s => box[t] # "none"
             /\ box' = [box EXCEPT ![s] = "running"]
             /\ Go(r, "record", s)
             /\ UNCHANGED trouble
       \/ Fault /\ Go(r, "after", None) /\ UNCHANGED box
    /\ UNCHANGED <<ref, thread, run, saved, step, c, evt, proc, cancels, overtaken>>

Record(r) ==
    /\ w[r].pc = "record"
    /\ ref' = w[r].held
    /\ Go(r, "expose", w[r].held)
    /\ UNCHANGED <<thread, box, run, saved, step, c, evt, proc, trouble, cancels, overtaken>>

Expose(r) ==
    /\ w[r].pc = "expose"
    /\ Save(r, w[r].held)
    /\ Go(r, "recheck", w[r].held)
    /\ UNCHANGED <<ref, thread, box, run, c, evt, proc, trouble, cancels, overtaken>>

\* The id is saved first, so that a cancellation from now on finds it; one that
\* came before is seen here.
Recheck(r) ==
    /\ w[r].pc = "recheck"
    /\ Go(r, IF Cancelled(r) THEN "drop_cancelled" ELSE "prepared", w[r].held)
    /\ UNCHANGED <<ref, thread, box, run, saved, step, c, evt, proc, trouble, cancels, overtaken>>

\* The tool is called without another look at the status.
MutPrepare(r) ==
    /\ w[r].pc = "prepared"
    /\ Save(r, w[r].held)
    /\ Go(r, "run", w[r].held)
    /\ UNCHANGED <<ref, thread, box, run, c, evt, proc, trouble, cancels, overtaken>>

\* The step with its session id is saved and the run's status looked at once
\* more before the tool is called.
Prepare(r) ==
    /\ w[r].pc = "prepared"
    /\ Save(r, w[r].held)
    /\ Go(r, IF Cancelled(r) THEN "drop_cancelled" ELSE "run", w[r].held)
    /\ UNCHANGED <<ref, thread, box, run, c, evt, proc, trouble, cancels, overtaken>>

\* Connecting resumes a paused sandbox.
Execute(r) ==
    /\ w[r].pc = "run"
    /\ IF Live(w[r].held)
       THEN /\ box' = [box EXCEPT ![w[r].held] = "running"]
            /\ proc' = [proc EXCEPT ![r] = w[r].held]
            /\ Go(r, "wait", w[r].held)
       ELSE Go(r, "after", w[r].held) /\ UNCHANGED <<box, proc>>
    /\ UNCHANGED <<ref, thread, run, saved, step, c, evt, trouble, cancels, overtaken>>

\* The command ends, or its process or its sandbox was killed.
Returned(r) ==
    /\ w[r].pc = "wait"
    /\ proc' = [proc EXCEPT ![r] = None]
    /\ Go(r, "after", w[r].held)
    /\ UNCHANGED <<ref, thread, box, run, saved, step, c, evt, trouble, cancels, overtaken>>

-----------------------------------------------------------------------------
\* How a run gives its session back.

\* _clear_thread_sandbox_reference
Cleared(s) == IF ref = s THEN None ELSE ref

\* Every session is treated as lost when its files cannot be read.
MutCapture(r) ==
    /\ w[r].pc = "capture"
    /\ ref' = Cleared(w[r].held) /\ Save(r, None) /\ Go(r, "close", None)
    /\ UNCHANGED <<thread, box, run, c, evt, proc, trouble, cancels, overtaken>>

\* _finalize_success first reads the session's files for the snapshot; when
\* the provider answers anything but the files, it takes the session for lost.
Capture(r) ==
    /\ w[r].pc = "capture"
    /\ LET lost == /\ ref' = Cleared(w[r].held) /\ Save(r, None)
                   /\ Go(r, "close", None) IN
         IF w[r].held # None /\ ~Live(w[r].held)
         THEN lost /\ UNCHANGED trouble
         ELSE \/ /\ Go(r, IF w[r].held = None THEN "close" ELSE "pause", w[r].held)
                 /\ UNCHANGED <<ref, saved, step, trouble>>
              \/ w[r].held # None /\ Fault /\ lost
    /\ UNCHANGED <<thread, box, run, c, evt, proc, cancels, overtaken>>

\* The thread's session is paused for the next run, also when pausing fails;
\* one that is not the thread's (any more) is destroyed.
Pause(r) ==
    /\ w[r].pc = "pause"
    /\ IF ref = w[r].held
       THEN /\ Go(r, "close", w[r].held)
            /\ \/ box' = [box EXCEPT ![ref] = IF Live(ref) THEN "paused" ELSE @]
                  /\ UNCHANGED trouble
               \/ Fault /\ UNCHANGED box
       ELSE Go(r, "drop_success", w[r].held) /\ UNCHANGED <<box, trouble>>
    /\ UNCHANGED <<ref, thread, run, saved, step, c, evt, proc, cancels, overtaken>>

\* Only then the status is read again and written.
Close(r) ==
    /\ w[r].pc = "close"
    /\ run' = [run EXCEPT ![r] = IF Cancelled(r) THEN @ ELSE "ended"]
    /\ Save(r, w[r].held)
    /\ Go(r, "done", None)
    /\ UNCHANGED <<ref, thread, box, c, evt, proc, trouble, cancels, overtaken>>

\* A failure is written first, then the session destroyed.
FailRun(r) ==
    /\ w[r].pc = "fail"
    /\ run' = [run EXCEPT ![r] = "ended"]
    /\ Go(r, "drop_failure", w[r].held)
    /\ UNCHANGED <<ref, thread, box, saved, step, c, evt, proc, trouble, cancels, overtaken>>

\* A cancellation that has begun to stop the command of the thread's session
\* decides what becomes of it.
LeftToCancel(r, held) ==
    evt[r] \in {Event("requested", held), Event("cancelled", held)} /\ ref = held

\* _destroy_runtime_sandbox_session
Destroy(r) ==
    /\ w[r].pc \in {"drop_cancelled", "drop_success", "drop_failure"}
    /\ LET s == w[r].held
           next == IF w[r].pc = "drop_success" THEN "close" ELSE "done" IN
         CASE s = None -> Go(r, next, s) /\ UNCHANGED <<box, trouble>>
           [] s # None /\ w[r].pc = "drop_cancelled" /\ LeftToCancel(r, s) ->
                 Go(r, next, s) /\ UNCHANGED <<box, trouble>>
           [] OTHER ->
                 \/ /\ box' = [box EXCEPT ![s] = "killed"]
                    /\ Go(r, IF next = "close" THEN "clear_close" ELSE "clear", s)
                    /\ UNCHANGED trouble
                 \/ Fault /\ Live(s) /\ Go(r, next, s) /\ UNCHANGED box
    /\ UNCHANGED <<ref, thread, run, saved, step, c, evt, proc, cancels, overtaken>>

Clear(r) ==
    /\ w[r].pc \in {"clear", "clear_close"}
    /\ ref' = Cleared(w[r].held)
    /\ Save(r, None)
    /\ Go(r, IF w[r].pc = "clear" THEN "done" ELSE "close", None)
    /\ UNCHANGED <<thread, box, run, c, evt, proc, trouble, cancels, overtaken>>

-----------------------------------------------------------------------------
\* The cancellation of a run, in another process.

CancelRun(r) ==
    /\ cancels < MaxCancels /\ c[r].pc = "idle" /\ run[r] \notin Terminal
    /\ cancels' = cancels + 1
    /\ run' = [run EXCEPT ![r] = "cancelled"]
    /\ GoC(r, "load", None)
    /\ UNCHANGED <<ref, thread, box, saved, step, w, evt, proc, trouble, overtaken>>

\* The saved state is loaded, and saved again without its step; with a session
\* and a step in it the command is asked to stop.
LoadState(r) ==
    /\ c[r].pc = "load"
    /\ LET stop == saved[r] # None /\ step[r] IN
         /\ evt' = [evt EXCEPT ![r] = IF stop THEN Event("requested", saved[r]) ELSE @]
         /\ GoC(r, IF stop THEN "stop" ELSE "tidy", saved[r])
    /\ step' = [step EXCEPT ![r] = FALSE]
    /\ UNCHANGED <<ref, thread, box, run, saved, w, proc, trouble, cancels, overtaken>>

\* cancel_command kills the process whose id it finds in the sandbox; the
\* lookup connects to the sandbox, and so resumes it.
StopCommand(r) ==
    /\ c[r].pc = "stop"
    /\ LET s == c[r].held IN
         /\ box' = [box EXCEPT ![s] = IF Live(s) THEN "running" ELSE @]
         /\ \/ /\ proc[r] = s /\ Live(s)
               /\ proc' = [proc EXCEPT ![r] = None]
               /\ evt' = [evt EXCEPT ![r] = Event("cancelled", s)]
               /\ GoC(r, "pause", s) /\ UNCHANGED trouble
            \/ /\ IF proc[r] = s /\ Live(s) THEN Fault ELSE UNCHANGED trouble
               /\ evt' = [evt EXCEPT ![r] = Event("failed", s)]
               /\ GoC(r, "tidy", s) /\ UNCHANGED proc
    /\ UNCHANGED <<ref, thread, run, saved, step, w, cancels, overtaken>>

\* A stopped command's session is paused for the thread.
PauseCancelled(r) ==
    /\ c[r].pc = "pause"
    /\ IF ref = c[r].held
       THEN /\ GoC(r, "done", None)
            /\ \/ box' = [box EXCEPT ![ref] = IF Live(ref) THEN "paused" ELSE @]
                  /\ UNCHANGED trouble
               \/ Fault /\ UNCHANGED box
       ELSE GoC(r, "tidy", c[r].held) /\ UNCHANGED <<box, trouble>>
    /\ UNCHANGED <<ref, thread, run, saved, step, w, evt, proc, cancels, overtaken>>

Tidy(r) ==
    /\ c[r].pc = "tidy"
    /\ LET s == c[r].held IN
         CASE s = None \/ LeftToCancel(r, s) ->
                 GoC(r, "done", None) /\ UNCHANGED <<box, trouble>>
           [] OTHER ->
                 \/ /\ box' = [box EXCEPT ![s] = "killed"]
                    /\ GoC(r, "clear", s) /\ UNCHANGED trouble
                 \/ Fault /\ Live(s) /\ GoC(r, "done", None) /\ UNCHANGED box
    /\ UNCHANGED <<ref, thread, run, saved, step, w, evt, proc, cancels, overtaken>>

ClearCancelled(r) ==
    /\ c[r].pc = "clear"
    /\ ref' = Cleared(c[r].held)
    /\ saved' = [saved EXCEPT ![r] = None]
    /\ GoC(r, "done", None)
    /\ UNCHANGED <<thread, box, run, step, w, evt, proc, trouble, cancels, overtaken>>

-----------------------------------------------------------------------------
\* The thread, the provider and the workers.

\* delete_chat_thread: the session is destroyed, the reference removed; when
\* that fails the thread is deleted all the same.
ReleaseThread ==
    /\ MayDelete /\ thread = "kept"
    /\ CASE ref = None -> thread' = "deleted" /\ UNCHANGED <<box, trouble>>
         [] OTHER -> \/ /\ box' = [box EXCEPT ![ref] = "killed"]
                        /\ thread' = "releasing" /\ UNCHANGED trouble
                     \/ Fault /\ Live(ref) /\ thread' = "deleted" /\ UNCHANGED box
    /\ overtaken' = (overtaken \/ \E r \in Runs : ~Left(r))
    /\ UNCHANGED <<ref, run, saved, step, w, c, evt, proc, cancels>>

DeleteThread ==
    /\ thread = "releasing"
    /\ ref' = None /\ thread' = "deleted"
    /\ UNCHANGED <<box, run, saved, step, w, c, evt, proc, trouble, cancels, overtaken>>

\* A running sandbox reaches its timeout, and a process dies with its sandbox.
Timeout(s) ==
    /\ box[s] = "running"
    /\ box' = [box EXCEPT ![s] = "killed"]
    /\ UNCHANGED <<ref, thread, run, saved, step, w, c, evt, proc, trouble, cancels, overtaken>>

\* The worker dies; its job is handed to another one.
WorkerDies(r) ==
    /\ w[r].pc \notin {"idle", "done"} /\ Fault
    /\ Go(r, "idle", None)
    /\ UNCHANGED <<ref, thread, box, run, saved, step, c, evt, proc, cancels, overtaken>>

Work(r) == \/ Start(r) \/ Continue(r) \/ LookUp(r) \/ Create(r) \/ Record(r)
           \/ Expose(r) \/ Recheck(r) \/ Prepare(r) \/ Execute(r) \/ Returned(r)
           \/ Capture(r) \/ Pause(r) \/ Close(r) \/ FailRun(r) \/ Destroy(r)
           \/ Clear(r)

Cancelling(r) == \/ CancelRun(r) \/ LoadState(r) \/ StopCommand(r)
                 \/ PauseCancelled(r) \/ Tidy(r) \/ ClearCancelled(r)

Next == \/ \E r \in Runs : Work(r) \/ Cancelling(r) \/ WorkerDies(r)
        \/ \E s \in Sessions : Timeout(s)
        \/ ReleaseThread \/ DeleteThread

Spec == Init /\ [][Next]_vars

-----------------------------------------------------------------------------
\* Type correctness.
TypeOK ==
    /\ ref \in Sessions \cup {None}
    /\ thread \in {"kept", "releasing", "deleted"}
    /\ box \in [Sessions -> {"none", "running", "paused", "killed"}]
    /\ run \in [Runs -> {"queued", "running", "ended", "cancelled"}]
    /\ saved \in [Runs -> Sessions \cup {None}] /\ step \in [Runs -> BOOLEAN]
    /\ evt \in [Runs -> [kind: {"none", "requested", "cancelled", "failed"},
                       of: Sessions \cup {None}]]
    /\ proc \in [Runs -> Sessions \cup {None}]

\* When a cancellation has been carried through, no command of the run is
\* running any more, whatever the worker was doing meanwhile -- creating the
\* session, about to call the tool, cleaning up -- unless the provider failed
\* (runtime.cancel_run, _ensure_sandbox_session).
CancelStopsCommand ==
    \A r \in Runs :
        c[r].pc = "done" /\ trouble = 0 =>
            (proc[r] # None => box[proc[r]] # "running")

Quiet == /\ \A r \in Runs : run[r] \in Terminal /\ Left(r)
         /\ thread # "releasing"

\* When nobody works on the thread any more, every sandbox that still costs
\* money is the one the thread names: however cleanups of workers and of
\* cancellations interleave, none is forgotten while the others go on
\* (runtime._clear_thread_sandbox_reference).
NothingForgotten ==
    Quiet /\ trouble = 0 /\ ~overtaken => \A s \in Sessions : Live(s) => ref = s
=============================================================================
