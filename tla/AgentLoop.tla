----------------------------- MODULE AgentLoop -----------------------------
(***************************************************************************)
(* The graph that executes one Agent run: observe, decide, policy, act,    *)
(* observe_result, verify, repair, replan, complete, wait_user, fail.      *)
(*                                                                         *)
(* An execution keeps the run's AgentRuntimeState in memory and writes it  *)
(* to the runtime-state row (_save_state) and, at checkpoints, to the      *)
(* numbered checkpoint log.  It may die between two nodes, and during a    *)
(* model call or a tool call; the job queue then starts another one from   *)
(* what was written.  A person approves, rejects, cancels and retries the  *)
(* run meanwhile, and a retry may start a second execution while the first *)
(* one is still inside a call.                                             *)
(*                                                                         *)
(* The model's decisions, the tools' results and the outcomes of guardrail *)
(* and policy checks are inputs.  Leases of actions are in AgentActions,   *)
(* thread and message queues in ChatThread.                                *)
(***************************************************************************)
EXTENDS Integers, Sequences, FiniteSets

CONSTANTS
    Executors,      \* worker and request threads that may execute the run
    MaxIterations,  \* loop_max_iterations
    MaxRepairs,     \* loop_max_repairs
    MaxTries,       \* worker_job_max_attempts
    MaxActions,     \* bound of the actions the model chooses
    MaxTrouble      \* bound of crashes, cancellations and retries together

VARIABLES
    run,       \* runs.status
    saved,     \* the runtime-state row
    ckpt,      \* the latest agent_checkpoints row: its sequence and payload
    acts,      \* the agent_actions rows
    appr,      \* the approval_requests rows
    msg,       \* dispatch_status of the trigger message
    jobs,      \* pending RUN_EXECUTION envelopes, counted by attempts made
    at,        \* the node each execution is in
    st,        \* its state in memory
    via,       \* attempts of its job, 0 when a request thread executes
    effects,   \* history: how often each action's tool was called
    finals,    \* history: terminal events of the present attempt
    asked,     \* history: decisions the present attempt asked for
    lost,      \* history: executions of the attempt that raised or died
    upset,     \* history: "number" when a checkpoint number was refused,
               \* "overwritten" when a status write hid a terminal status,
               \* "abandoned" when an execution died that no job repeats,
               \* "overlap" when a second execution began, or a retry met one
    trouble    \* crashes, cancellations and retries so far

rows == <<saved, ckpt, acts, appr, msg, jobs>>
threads == <<at, st, via>>
tally == <<effects, finals, asked, lost>>
history == <<tally, upset, trouble>>
vars == <<run, rows, threads, history>>

-----------------------------------------------------------------------------
(* State *)

Terminal == {"succeeded", "failed", "cancelled"}    \* failed: or TIMED_OUT

\* Where the thread of a person's approval is before it executes the run.
Resuming == {"resume", "resumed"}

Nodes == {"observe", "enter", "recover", "decide", "deciding", "policy",
          "pause", "park", "act", "acting", "commit", "record",
          "observe_result", "verify", "verifying", "repair", "replan",
          "complete", "finalizing", "wait_user", "fail", "raised"} \cup Resuming

ActionIds == 1..MaxActions

\* The AgentRuntimeState, without what no decision of the graph reads.
\* start is runtime_metadata.attempt_start_iteration, redo the decision in
\* pending_actions under prefetched_action, gkey and gok the pending and the
\* approved guardrail key, out the result of the tool call at hand.
Blank == [iter |-> 0, start |-> 0, repairs |-> 0,
          act |-> 0, step |-> 0, approved |-> {}, appr |-> 0,
          gkey |-> FALSE, gok |-> FALSE, seq |-> 0, emitted |-> FALSE,
          redo |-> "none", seen |-> {}, out |-> "none"]

Init ==
    /\ run = "queued"
    /\ saved = Blank
    /\ ckpt = [seq |-> 0, state |-> Blank]
    /\ acts = <<>>
    /\ appr = <<>>
    /\ msg = "inflight"
    /\ jobs = [k \in 1..MaxTries |-> IF k = 1 THEN 1 ELSE 0]
    /\ at = [w \in Executors |-> "off"]
    /\ st = [w \in Executors |-> Blank]
    /\ via = [w \in Executors |-> 0]
    /\ effects = [a \in ActionIds |-> 0]
    /\ finals = 0
    /\ asked = 0
    /\ lost = 0
    /\ upset = {}
    /\ trouble = 0

-----------------------------------------------------------------------------
(* Helpers of the nodes *)

\* _save_state: the row of a cancelled run is written as cancelled, and keeps
\* the fact that its terminal event was emitted.
Kept(s, r) ==
    IF r = "cancelled"
    THEN [s EXCEPT !.step = 0, !.appr = 0, !.gkey = FALSE,
                   !.emitted = @ \/ saved.emitted]
    ELSE s

\* _restore_state: a checkpoint replaces the row only when it is newer.
Restore(row, log) ==
    IF log.seq > row.seq THEN [log.state EXCEPT !.seq = log.seq] ELSE row

\* _persist_checkpoint numbers a checkpoint by the state in memory, and
\* create_agent_checkpoint refuses any number but the next one.
Number(s) == (IF s.seq > 0 THEN s.seq ELSE ckpt.seq) + 1
Fits(s) == Number(s) = ckpt.seq + 1

\* Mutant: the state is numbered ahead of its checkpoint.
MutNumbered(s) == [s EXCEPT !.seq = Number(s) + 1]

Numbered(s) == [s EXCEPT !.seq = Number(s)]

\* update_run_status has no guard: it replaces a terminal status too.
Overwritten == IF run \in Terminal THEN {"overwritten"} ELSE {}

SetRun(r) ==
    /\ run' = r
    /\ upset' = upset \cup Overwritten

Go(w, node, s) ==
    /\ at' = [at EXCEPT ![w] = node]
    /\ st' = [st EXCEPT ![w] = s]
    /\ UNCHANGED via

\* The graph returns and the job is acknowledged.
End(w) ==
    /\ at' = [at EXCEPT ![w] = "off"]
    /\ st' = [st EXCEPT ![w] = Blank]
    /\ via' = [via EXCEPT ![w] = 0]

Raise(w) == Go(w, "raised", Blank)

\* cancel_agent_action leaves a settled action alone.
Withdrawn(a) ==
    IF a \in DOMAIN acts /\ acts[a].status \in {"pending", "running", "uncertain"}
    THEN [acts EXCEPT ![a].status = "cancelled"]
    ELSE acts

\* _stop_if_cancelled, found at the start of a node or after a call.
StopWrites(w) ==
    /\ run = "cancelled"
    /\ acts' = Withdrawn(st[w].act)
    /\ saved' = Kept(st[w], run)
    /\ UNCHANGED <<run, ckpt, appr, msg, jobs, history>>

Stopped(w) == StopWrites(w) /\ End(w)

Alive == run /= "cancelled"

\* _persist_checkpoint followed by Next; a refused number is an exception.
Checkpoint(w, s, node) ==
    \/ /\ Fits(s)
       /\ ckpt' = [seq |-> Number(s), state |-> Numbered(s)]
       /\ saved' = Kept(Numbered(s), run)
       /\ Go(w, node, Kept(Numbered(s), run))
       /\ UNCHANGED upset
    \/ /\ ~Fits(s)
       /\ upset' = upset \cup {"number"}
       /\ Raise(w)
       /\ UNCHANGED <<ckpt, saved>>

\* _fail: the terminal status first, then the checkpoint, the trigger message
\* and the terminal event.  The execution ends, or raises when raises says so.
FailNow(w, s, raises) ==
    /\ run' = "failed"
    /\ IF Fits(s)
       THEN LET n == Numbered(s) IN
            /\ ckpt' = [seq |-> n.seq, state |-> n]
            /\ saved' = [n EXCEPT !.emitted = TRUE]
            /\ msg' = "failed"
            /\ finals' = finals + (IF s.emitted THEN 0 ELSE 1)
            /\ upset' = upset \cup Overwritten
            /\ IF raises THEN Raise(w) ELSE End(w)
       ELSE /\ upset' = upset \cup {"number"} \cup Overwritten
            /\ Raise(w)
            /\ UNCHANGED <<ckpt, saved, msg, finals>>
    /\ UNCHANGED <<acts, appr, jobs, effects, asked, lost, trouble>>

\* create_approval_request; step 0 stands for a guardrail stage.
AskFor(step) == appr' = Append(appr, [step |-> step, status |-> "pending"])

-----------------------------------------------------------------------------
(* The nodes *)

\* observe reads the run; a terminal one is left alone.
Observe(w) ==
    /\ at[w] = "observe"
    /\ \/ run \in Terminal /\ End(w)
       \/ run \notin Terminal /\ Go(w, "enter", st[w])
    /\ UNCHANGED <<run, rows, history>>

\* It then writes RUNNING, saves the state, asks the policy service and
\* resolves the resources the run refers to.
Enter(w) ==
    /\ at[w] = "enter"
    /\ LET s == st[w] IN
       \/ /\ SetRun("running")
          /\ saved' = s
          /\ \E node \in {"recover", "fail"} : Go(w, node, s)
          /\ UNCHANGED <<ckpt, acts, appr, msg, jobs, tally, trouble>>
       \/ FailNow(w, s, FALSE)      \* _fail_for_policy_block

Settled(a) == acts[a].status \in {"succeeded", "failed"}

With(status) == {a \in DOMAIN acts : acts[a].status = status}

Oldest(S) == {a \in S : \A b \in S : a <= b}

\* The rest of observe: leases that ran out make their actions uncertain,
\* observations the state does not know are added and checkpointed, and the
\* first open action decides where the graph goes on.
Recover(w) ==
    /\ at[w] = "recover"
    /\ \E expired \in SUBSET With("running") :
       LET now == [a \in DOMAIN acts |->
                     IF a \in expired THEN [acts[a] EXCEPT !.status = "uncertain"]
                     ELSE acts[a]]
           known == {a \in DOMAIN acts : Settled(a)}
           s == [st[w] EXCEPT !.seen = @ \cup known]
           open(status) == {a \in DOMAIN now : now[a].status = status}
       IN
       /\ acts' = now
       /\ \/ /\ ~(known \subseteq st[w].seen)
             /\ Checkpoint(w, s, "recover")
             /\ UNCHANGED run
          \/ /\ known \subseteq st[w].seen
             /\ open("uncertain") /= {}
             /\ SetRun("waiting")
             /\ saved' = s
             /\ End(w)
             /\ UNCHANGED ckpt
          \/ /\ known \subseteq st[w].seen
             /\ open("uncertain") = {}
             /\ open("running") /= {}
             /\ saved' = Kept(s, run)
             /\ Raise(w)
             /\ UNCHANGED <<run, ckpt, upset>>
          \/ /\ known \subseteq st[w].seen
             /\ open("uncertain") \cup open("running") = {}
             /\ \/ \E a \in Oldest(open("pending")) :
                      Go(w, "policy", [s EXCEPT
                             !.iter = IF @ > acts[a].iter THEN @ ELSE acts[a].iter,
                             !.act = a, !.step = a])
                \/ open("pending") = {} /\ Go(w, "decide", s)
             /\ UNCHANGED <<run, saved, ckpt, upset>>
    /\ UNCHANGED <<appr, msg, jobs, tally, trouble>>

\* Mutant: the iterations are counted from the wrong attempt.
MutBudgetSpent(s) == s.iter > s.start + MaxIterations \/ s.repairs > MaxRepairs

\* _budget_failure, as far as the state decides it; the deadline and the cost
\* may run out at any time.
BudgetSpent(s) == s.iter >= s.start + MaxIterations \/ s.repairs > MaxRepairs

\* decide, before the model is asked.  The budget is looked at before the
\* cancellation.
Decide(w) ==
    /\ at[w] = "decide"
    /\ \/ Go(w, "fail", st[w]) /\ UNCHANGED <<run, rows, history>>
       \/ /\ ~BudgetSpent(st[w])
          /\ \/ Stopped(w)
             \/ /\ Alive
                /\ Go(w, "deciding", [st[w] EXCEPT !.iter = @ + 1, !.act = 0,
                                                   !.step = 0, !.out = "none"])
                /\ asked' = asked + 1
                /\ UNCHANGED <<run, rows, effects, finals, lost, upset, trouble>>

\* A decision to act becomes a pending action of the current cycle.
Choose(w, s, gated) ==
    /\ Len(acts) < MaxActions
    /\ LET a == Len(acts) + 1 IN
       /\ acts' = Append(acts, [status |-> "pending", gated |-> gated,
                                iter |-> s.iter])
       /\ Go(w, "policy", [s EXCEPT !.act = a, !.step = a])
    /\ UNCHANGED <<run, ckpt, appr, msg, jobs, history>>

\* The retried decision, prefetched_action, comes before the model is asked.
Redo(w, s) ==
    /\ s.redo /= "none"
    /\ LET t == [s EXCEPT !.redo = "none"] IN
       \/ /\ Alive
          /\ saved' = t
          /\ Choose(w, t, s.redo = "gated")
       \/ Stopped(w)
       \/ /\ Len(acts) = MaxActions       \* only this model's bound
          /\ Go(w, "fail", s)
          /\ UNCHANGED <<run, rows, history>>

\* A valid decision: an action, an answer with or without verification, a
\* question, a new plan, or a failure such as an action that failed repeatedly.
Answered(w, s) ==
    \/ \E gated \in BOOLEAN : Choose(w, s, gated) /\ UNCHANGED saved
    \/ /\ \E node \in {"wait_user", "replan", "verify", "complete", "fail"} :
             Go(w, node, s)
       /\ UNCHANGED <<run, rows, history>>

\* _record_model_gateway_failure; all but a refusal are raised.
GatewayFails(w, s) ==
    \E raises \in BOOLEAN :
       \/ run \notin Terminal /\ FailNow(w, s, raises)
       \/ /\ run \in Terminal
          /\ IF raises THEN Raise(w) ELSE End(w)
          /\ UNCHANGED <<run, rows, history>>

\* _pause_for_guardrail_approval, unless the stage was approved already.
GuardrailPauses(w, s) ==
    /\ ~s.gok
    /\ AskFor(0)
    /\ Go(w, "pause", [s EXCEPT !.gkey = TRUE, !.appr = Len(appr) + 1])
    /\ UNCHANGED <<run, saved, ckpt, acts, msg, jobs, history>>

\* decide, when the model has answered.  What stops the call itself is handled
\* before the cancellation is looked at.
Deciding(w) ==
    /\ at[w] = "deciding"
    /\ LET s == st[w] IN
       \/ Redo(w, s)
       \/ /\ s.redo = "none"
          /\ \/ Stopped(w)
             \/ Alive /\ Answered(w, s)
             \* a guardrail violation, the model budget or the model policy
             \/ Go(w, "fail", s) /\ UNCHANGED <<run, rows, history>>
             \/ GatewayFails(w, s)
             \/ GuardrailPauses(w, s)

\* Mutant: an approval of any earlier step lets the action pass.
MutNeedsApproval(s) == acts[s.act].gated /\ s.approved = {}

\* _requires_approval: the step is not among approved_step_ids.
NeedsApproval(s) == acts[s.act].gated /\ s.act \notin s.approved

Policy(w) ==
    /\ at[w] = "policy"
    /\ \/ Stopped(w)
       \/ Alive /\ FailNow(w, st[w], FALSE)       \* the policy denies the step
       \/ /\ Alive
          /\ NeedsApproval(st[w])
          /\ AskFor(st[w].act)
          /\ Go(w, "pause", [st[w] EXCEPT !.appr = Len(appr) + 1])
          /\ UNCHANGED <<run, saved, ckpt, acts, msg, jobs, history>>
       \/ /\ Alive
          /\ ~NeedsApproval(st[w])
          /\ Go(w, "act", st[w])
          /\ UNCHANGED <<run, rows, history>>

\* _pause_for_approval, after the request is on record: the status ...
Pause(w) ==
    /\ at[w] = "pause"
    /\ SetRun("awaiting")
    /\ Go(w, "park", st[w])
    /\ UNCHANGED <<rows, tally, trouble>>

\* Mutant: the state is saved as it was before the request.
MutPark(w) ==
    /\ at[w] = "park"
    /\ saved' = Kept([st[w] EXCEPT !.appr = 0], run)
    /\ End(w)
    /\ UNCHANGED <<run, ckpt, acts, appr, msg, jobs, history>>

\* ... and then the state that names the request.
Park(w) ==
    /\ at[w] = "park"
    /\ saved' = Kept(st[w], run)
    /\ End(w)
    /\ UNCHANGED <<run, ckpt, acts, appr, msg, jobs, history>>

\* act: the claim is the only way into the side effect.
Act(w) ==
    /\ at[w] = "act"
    /\ LET a == st[w].act IN
       \/ Stopped(w)
       \/ /\ Alive
          /\ acts[a].status = "pending"
          /\ acts' = [acts EXCEPT ![a].status = "running"]
          /\ Go(w, "acting", st[w])
          /\ UNCHANGED <<run, saved, ckpt, appr, msg, jobs, history>>
       \/ /\ Alive
          /\ acts[a].status = "uncertain"
          /\ SetRun("waiting")
          /\ saved' = st[w]
          /\ End(w)
          /\ UNCHANGED <<ckpt, acts, appr, msg, jobs, tally, trouble>>
       \/ /\ Alive
          /\ acts[a].status \notin {"pending", "uncertain"}
          /\ End(w)
          /\ UNCHANGED <<run, rows, history>>

\* The tool is called, unless one of the two checks after the claim stops it.
Acting(w) ==
    /\ at[w] = "acting"
    /\ \/ Stopped(w)
       \/ /\ Alive
          /\ effects' = [effects EXCEPT ![st[w].act] = @ + 1]
          /\ \E out \in {"ok", "raw", "error", "reconnect", "approval"} :
                Go(w, "commit", [st[w] EXCEPT !.out = out])
          /\ UNCHANGED <<run, rows, finals, asked, lost, upset, trouble>>

Good(s) == s.out \in {"ok", "raw"}

\* The lease is renewed, and the observation and a checkpoint are committed
\* behind its fence; without it the result is dropped and the job retried.
Commit(w) ==
    /\ at[w] = "commit"
    /\ LET a == st[w].act
           s == [st[w] EXCEPT !.seen = @ \cup {a}, !.seq = ckpt.seq + 1]
       IN
       \/ Stopped(w)
       \/ /\ Alive
          /\ acts[a].status = "running"
          /\ acts' = [acts EXCEPT ![a].status = IF Good(s) THEN "succeeded" ELSE "failed"]
          /\ ckpt' = [seq |-> s.seq, state |-> s]
          /\ Go(w, "record", s)
          /\ UNCHANGED <<run, saved, appr, msg, jobs, history>>
       \/ /\ Alive
          /\ acts[a].status /= "running"
          /\ saved' = st[w]
          /\ Raise(w)
          /\ UNCHANGED <<run, ckpt, acts, appr, msg, jobs, history>>

\* The state in memory follows the checkpoint and is saved.
Record(w) ==
    /\ at[w] = "record"
    /\ saved' = Kept(st[w], run)
    /\ Go(w, "observe_result", Kept(st[w], run))
    /\ UNCHANGED <<run, ckpt, acts, appr, msg, jobs, history>>

ObserveResult(w) ==
    /\ at[w] = "observe_result"
    /\ LET s == st[w] IN
       \/ Stopped(w)
       \/ /\ Alive
          /\ s.out \in {"ok", "raw", "error"}
          /\ Go(w, CASE s.out = "ok" -> "decide"
                     [] s.out = "raw" -> "complete"
                     [] OTHER -> "repair", s)
          /\ UNCHANGED <<run, rows, history>>
       \* a Playbook's action is not repaired
       \/ Alive /\ s.out = "error" /\ Go(w, "fail", s)
               /\ UNCHANGED <<run, rows, history>>
       \* _pause_for_connector_reconnect: the action waits as uncertain
       \/ /\ Alive
          /\ s.out = "reconnect"
          /\ acts' = [acts EXCEPT ![s.act].status = "uncertain"]
          /\ SetRun("waiting")
          /\ saved' = s
          /\ End(w)
          /\ UNCHANGED <<ckpt, appr, msg, jobs, tally, trouble>>
       \* the tool gateway asks for an approval
       \/ /\ Alive
          /\ s.out = "approval"
          /\ AskFor(s.act)
          /\ Go(w, "pause", [s EXCEPT !.appr = Len(appr) + 1])
          /\ UNCHANGED <<run, saved, ckpt, acts, msg, jobs, history>>

\* verify and repair have no edge for the route "end" that a cancellation
\* gives them: the graph raises.
NoEdge(w) == StopWrites(w) /\ Raise(w)

Verify(w) ==
    /\ at[w] = "verify"
    /\ \/ NoEdge(w)
       \/ Alive /\ Go(w, "verifying", st[w]) /\ UNCHANGED <<run, rows, history>>

Verifying(w) ==
    /\ at[w] = "verifying"
    /\ \/ NoEdge(w)
       \/ /\ Alive
          /\ \E node \in {"complete", "repair", "replan", "wait_user", "fail"} :
                Go(w, node, st[w])
          /\ UNCHANGED <<run, rows, history>>
       \* the model's budget or policy; a chat goes on without verification
       \/ \E node \in {"fail", "replan"} : Go(w, node, st[w])
               /\ UNCHANGED <<run, rows, history>>
       \* a gateway error is raised, a refusal has no edge to "end"
       \/ run \notin Terminal /\ FailNow(w, st[w], TRUE)
       \/ run \in Terminal /\ Raise(w) /\ UNCHANGED <<run, rows, history>>

Repair(w) ==
    /\ at[w] = "repair"
    /\ \/ NoEdge(w)
       \/ /\ Alive
          /\ LET s == [st[w] EXCEPT !.repairs = @ + 1] IN
             Checkpoint(w, s, IF s.repairs > MaxRepairs THEN "fail" ELSE "decide")
          /\ UNCHANGED <<run, acts, appr, msg, jobs, tally, trouble>>

\* Mutant: the edge of a cancelled run leads back to replan.
MutReplan(w) ==
    /\ at[w] = "replan"
    /\ \/ StopWrites(w) /\ Go(w, "replan", Kept(st[w], run))
       \/ /\ Alive
          /\ Checkpoint(w, st[w], "decide")
          /\ UNCHANGED <<run, acts, appr, msg, jobs, tally, trouble>>

\* replan leads to decide even when it finds the run cancelled.
Replan(w) ==
    /\ at[w] = "replan"
    /\ \/ StopWrites(w) /\ Go(w, "decide", Kept(st[w], run))
       \/ /\ Alive
          /\ Checkpoint(w, st[w], "decide")
          /\ UNCHANGED <<run, acts, appr, msg, jobs, tally, trouble>>

Complete(w) ==
    /\ at[w] = "complete"
    /\ \/ Stopped(w)
       \/ Alive /\ Go(w, "finalizing", st[w]) /\ UNCHANGED <<run, rows, history>>

\* _finalize, after the response was streamed and the sandbox released: the
\* run is read once more before it succeeds.
Finalize(w) ==
    /\ at[w] = "finalizing"
    /\ \/ /\ run = "cancelled"
          /\ saved' = Kept(st[w], run)
          /\ UNCHANGED <<run, msg, finals>>
       \/ /\ run /= "cancelled"
          /\ run' = "succeeded"
          /\ saved' = [st[w] EXCEPT !.step = 0, !.emitted = TRUE]
          /\ msg' = "completed"
          /\ finals' = finals + (IF st[w].emitted THEN 0 ELSE 1)
    /\ upset' = upset \cup IF run \in {"succeeded", "failed"} THEN {"overwritten"} ELSE {}
    /\ End(w)
    /\ UNCHANGED <<ckpt, acts, appr, jobs, effects, asked, lost, trouble>>

\* _wait_for_user
WaitUser(w) ==
    /\ at[w] = "wait_user"
    /\ \/ Stopped(w)
       \/ /\ Alive
          /\ run' = "waiting"
          /\ LET s == st[w] IN
             \/ /\ Fits(s)
                /\ ckpt' = [seq |-> Number(s), state |-> Numbered(s)]
                /\ saved' = Numbered(s)
                /\ msg' = "completed"
                /\ End(w)
                /\ upset' = upset \cup Overwritten
             \/ /\ ~Fits(s)
                /\ upset' = upset \cup {"number"} \cup Overwritten
                /\ Raise(w)
                /\ UNCHANGED <<ckpt, saved, msg>>
          /\ UNCHANGED <<acts, appr, jobs, tally, trouble>>

Fail(w) ==
    /\ at[w] = "fail"
    /\ \/ Stopped(w)
       \/ Alive /\ FailNow(w, st[w], FALSE)

-----------------------------------------------------------------------------
(* The job queue and the worker around the graph *)

Overlap == IF \E w \in Executors : at[w] /= "off" THEN {"overlap"} ELSE {}

Dispatch(w) ==
    /\ at[w] = "off"
    /\ \E k \in 1..MaxTries :
       /\ jobs[k] > 0
       /\ jobs' = [jobs EXCEPT ![k] = @ - 1]
       /\ via' = [via EXCEPT ![w] = k]
    /\ at' = [at EXCEPT ![w] = "observe"]
    /\ st' = [st EXCEPT ![w] = Restore(saved, ckpt)]
    /\ upset' = upset \cup Overlap
    /\ UNCHANGED <<run, saved, ckpt, acts, appr, msg, tally, trouble>>

\* The worker's exception handler: the job goes back with one more attempt
\* and the run is RETRYING, or the job is dead and the run fails.  A request
\* thread just answers with an error.
Raised(w) ==
    /\ at[w] = "raised"
    /\ \/ /\ via[w] = 0
          /\ End(w)
          /\ lost' = lost + 1
          /\ UNCHANGED <<run, rows, effects, finals, asked, upset, trouble>>
       \/ /\ via[w] \in 1..(MaxTries - 1)
          /\ jobs' = [jobs EXCEPT ![via[w] + 1] = @ + 1]
          /\ run' = IF run \in Terminal THEN run ELSE "retrying"
          /\ End(w)
          /\ lost' = lost + 1
          /\ UNCHANGED <<saved, ckpt, acts, appr, msg, effects, finals, asked, upset, trouble>>
       \/ /\ via[w] = MaxTries
          /\ \/ run \in Terminal /\ End(w) /\ UNCHANGED <<run, rows, history>>
             \/ run \notin Terminal /\ FailNow(w, Restore(saved, ckpt), FALSE)

\* A disturbance, as long as the model's bound allows one more.
Trouble == trouble < MaxTrouble /\ trouble' = trouble + 1

\* The process dies; the lease of its job runs out.
Crash(w) ==
    /\ at[w] /= "off"
    /\ Trouble
    /\ IF via[w] \in 1..(MaxTries - 1)
       THEN jobs' = [jobs EXCEPT ![via[w] + 1] = @ + 1] /\ UNCHANGED upset
       ELSE upset' = upset \cup {"abandoned"} /\ UNCHANGED jobs
    /\ End(w)
    /\ lost' = lost + 1
    /\ UNCHANGED <<run, saved, ckpt, acts, appr, msg, effects, finals, asked>>

-----------------------------------------------------------------------------
(* What a person does *)

\* resume_after_approval, in the thread of the person's request: the request
\* must be the one the state names.  It is granted, whatever has become of the
\* run, and the state goes on with its step, or its guardrail's stage, approved;
ResumeAfterApproval(w, p) ==
    /\ at[w] = "off"
    /\ appr[p].status \in {"pending", "approved"}
    /\ saved.appr = p
    /\ appr' = [appr EXCEPT ![p].status = "approved"]
    /\ Go(w, "resume", [saved EXCEPT
              !.approved = IF saved.step = 0 THEN @ ELSE @ \cup {saved.step},
              !.gok = @ \/ saved.gkey, !.gkey = FALSE, !.appr = 0])
    /\ upset' = upset \cup Overlap
    /\ UNCHANGED <<run, saved, ckpt, acts, msg, jobs, tally, trouble>>

\* then the run is set to RUNNING, whatever its status is,
Resume(w) ==
    /\ at[w] = "resume"
    /\ SetRun("running")
    /\ Go(w, "resumed", st[w])
    /\ UNCHANGED <<rows, tally, trouble>>

\* and the state that was read before is saved and executed.
SaveResumed(w) ==
    /\ at[w] = "resumed"
    /\ LET s == Kept(st[w], run) IN
       /\ saved' = s
       /\ Go(w, "observe", Restore(s, ckpt))
    /\ UNCHANGED <<run, ckpt, acts, appr, msg, jobs, history>>

\* Mutant: the rejected approval does not end the run's state.
MutRejectApproval(p) ==
    /\ appr[p].status = "pending"
    /\ saved.appr = p
    /\ appr' = [appr EXCEPT ![p].status = "rejected"]
    /\ run' = "cancelled"
    /\ UNCHANGED <<saved, ckpt, acts, msg, jobs, threads, history>>

RejectApproval(p) ==
    /\ appr[p].status = "pending"
    /\ saved.appr = p
    /\ appr' = [appr EXCEPT ![p].status = "rejected"]
    /\ IF run \in Terminal
       THEN UNCHANGED <<run, saved, msg, finals>>
       ELSE /\ run' = "cancelled"
            /\ saved' = [saved EXCEPT !.appr = 0,
                                      !.gkey = FALSE, !.step = 0, !.emitted = TRUE]
            /\ msg' = "cancelled"
            /\ finals' = finals + (IF saved.emitted THEN 0 ELSE 1)
    /\ UNCHANGED <<ckpt, acts, jobs, threads, effects, asked, lost, upset, trouble>>

\* cancel_run: pending approvals, the run, the current action, the state, a
\* checkpoint, the trigger message and the terminal event, in this order.
CancelRun ==
    /\ run \notin Terminal
    /\ Trouble
    /\ appr' = [p \in DOMAIN appr |->
                  IF appr[p].status = "pending"
                  THEN [appr[p] EXCEPT !.status = "cancelled"] ELSE appr[p]]
    /\ run' = "cancelled"
    /\ acts' = Withdrawn(saved.act)
    /\ LET s == [saved EXCEPT !.appr = 0,
                              !.gkey = FALSE, !.step = 0]
       IN IF Fits(s)
          THEN /\ ckpt' = [seq |-> Number(s), state |-> Numbered(s)]
               /\ saved' = [Numbered(s) EXCEPT !.emitted = TRUE]
               /\ msg' = "cancelled"
               /\ finals' = finals + (IF s.emitted THEN 0 ELSE 1)
               /\ UNCHANGED upset
          ELSE /\ saved' = s
               /\ upset' = upset \cup {"number"}
               /\ UNCHANGED <<ckpt, msg, finals>>
    /\ UNCHANGED <<jobs, threads, effects, asked, lost>>

\* request_run_retry and the endpoint around it: a new attempt with fresh
\* budgets that begins with the action the last one did not finish.
RetryRun ==
    /\ run \in {"failed", "cancelled"}
    /\ Trouble
    /\ appr' = [p \in DOMAIN appr |->
                  IF appr[p].status = "pending"
                  THEN [appr[p] EXCEPT !.status = "cancelled"] ELSE appr[p]]
    /\ LET r == Restore(saved, ckpt)
           undone == r.act \in DOMAIN acts /\ acts[r.act].status /= "succeeded"
           s == [r EXCEPT !.repairs = 0, !.act = 0, !.step = 0, !.appr = 0, !.gkey = FALSE,
                   !.emitted = FALSE, !.start = r.iter,
                   !.approved = IF undone THEN @ \ {r.act} ELSE @,
                   !.redo = IF ~undone THEN @
                            ELSE IF acts[r.act].gated THEN "gated" ELSE "free"]
       IN /\ ckpt' = [seq |-> Number(s), state |-> Numbered(s)]
          /\ saved' = Numbered(s)
    /\ run' = "queued"
    /\ msg' = "inflight"
    /\ jobs' = [jobs EXCEPT ![1] = @ + 1]
    /\ finals' = 0 /\ asked' = 0 /\ lost' = 0
    /\ upset' = upset \cup Overlap
    /\ UNCHANGED <<acts, threads, effects>>

-----------------------------------------------------------------------------
(* Specification *)

Graph(w) ==
    \/ Observe(w) \/ Enter(w) \/ Recover(w) \/ Decide(w) \/ Deciding(w)
    \/ Policy(w) \/ Pause(w) \/ Park(w) \/ Act(w) \/ Acting(w) \/ Commit(w)
    \/ Record(w) \/ ObserveResult(w) \/ Verify(w) \/ Verifying(w) \/ Repair(w)
    \/ Replan(w) \/ Complete(w) \/ Finalize(w) \/ WaitUser(w) \/ Fail(w)
    \/ Raised(w) \/ Resume(w) \/ SaveResumed(w)

Next ==
    \/ \E w \in Executors : Graph(w) \/ Dispatch(w) \/ Crash(w)
    \/ \E p \in DOMAIN appr : RejectApproval(p)
                              \/ \E w \in Executors : ResumeAfterApproval(w, p)
    \/ CancelRun
    \/ RetryRun

Spec == Init /\ [][Next]_vars

\* A thread that executes the run goes on: every call it makes returns or times
\* out.  Nothing is assumed of people, of crashes or of the queue.
FairSpec == Spec /\ \A w \in Executors : WF_vars(Graph(w))

-----------------------------------------------------------------------------
(* Properties *)

State ==
    [iter : Nat, start : Nat, repairs : Nat,
     act : 0..MaxActions, step : 0..MaxActions,
     approved : SUBSET ActionIds, appr : 0..Len(appr), gkey : BOOLEAN,
     gok : BOOLEAN, seq : 0..ckpt.seq, emitted : BOOLEAN,
     redo : {"none", "free", "gated"}, seen : SUBSET ActionIds,
     out : {"none", "ok", "raw", "error", "reconnect", "approval"}]

\* Every state, in memory, saved or checkpointed, is an AgentRuntimeState whose
\* checkpoint number, approval and actions exist (state.py).
TypeOK ==
    /\ run \in {"queued", "running", "retrying", "awaiting", "waiting"} \cup Terminal
    /\ saved \in State /\ ckpt.state \in State
    /\ \A w \in Executors : at[w] \in Nodes \cup {"off"} /\ st[w] \in State
    /\ saved.act \in 0..Len(acts) /\ saved.seen \subseteq DOMAIN acts
    /\ \A w \in Executors : via[w] \in 0..MaxTries

\* The tool of an action that requires approval is called only after a person
\* approved that very action (_requires_approval, resume_after_approval).
ApprovedBeforeEffect ==
    \A a \in DOMAIN acts :
        acts[a].gated /\ effects[a] > 0 =>
            \E p \in DOMAIN appr : appr[p].step = a /\ appr[p].status = "approved"

\* That holds whatever was cancelled, retried, restored from an older checkpoint
\* or executed twice in between, as long as no write of a status took a run that
\* had ended back into execution.
ApprovedWhileOpen == "overwritten" \in upset \/ ApprovedBeforeEffect

Quiet == (\A w \in Executors : at[w] = "off") /\ \A k \in 1..MaxTries : jobs[k] = 0

\* A run that awaits an approval while nobody executes it can be answered: the
\* saved state names a request that is still pending (_pause_for_approval).
WaitingIsAnswerable ==
    run = "awaiting" /\ Quiet /\ upset = {} =>
        saved.appr \in DOMAIN appr /\ appr[saved.appr].status = "pending"

\* A run that has ended has told so exactly once, and its trigger message is
\* settled the same way (_emit_terminal_once, _complete_trigger_message).
EndedIsAnnounced ==
    run \in Terminal /\ Quiet /\ upset = {} =>
        /\ finals = 1
        /\ msg = CASE run = "succeeded" -> "completed"
                   [] run = "failed" -> "failed"
                   [] OTHER -> "cancelled"

\* An attempt asks the model for a decision at most loop_max_iterations times,
\* plus once for every execution of it that raised or died: what counts the
\* iterations is saved before the next decision (_budget_failure,
\* _persist_checkpoint).
DecisionsBounded ==
    upset \cap {"overlap", "overwritten"} = {} => asked <= MaxIterations + lost

Executing(w) == at[w] /= "off"

\* No execution goes round in the graph for ever: it finishes, pauses, fails or
\* raises, whatever the model answers and also when the run is cancelled in any
\* node (build_runtime_graph, _budget_failure).
ExecutionEnds == \A w \in Executors : Executing(w) ~> ~Executing(w)

=============================================================================
