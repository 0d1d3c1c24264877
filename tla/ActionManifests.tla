--------------------------- MODULE ActionManifests ---------------------------
(***************************************************************************)
(* Connector calls that need an approval (app.py, connectors/): an           *)
(* invocation leaves a manifest with the input it wants to send, people       *)
(* approve or reject it, and an apply or a second invocation carries it out.  *)
(* A run that needs an approval for its own action leaves one too and pauses; *)
(* applying that one resumes the run, which sends by itself (agent/loop.py).  *)
(* Every request reads the manifest first and writes its verdict later, each  *)
(* in a transaction of its own; the call itself happens in between.           *)
(***************************************************************************)
EXTENDS Naturals, FiniteSets

CONSTANTS Manifests,  \* approval requests a run may get
          Inputs,     \* what invocations want to send
          Requests,
          Writes,     \* FALSE: a database connector, which only ever reads
          MaxCalls,   \* good answers to one manifest, for the size of the model
          MaxTrouble  \* calls that fail, and processes that die

VARIABLES man,       \* approval_requests
          enabled,   \* the connector's status is "enabled"
          effects,   \* calls the outside system has carried out
          answers,   \* calls that were answered well
          billed,    \* usage records
          crossed,   \* manifests two executions of which overlapped
          contested, \* manifests two decisions about which overlapped
          uncertain, \* manifests whose execution died, or failed with an effect
          forked,    \* manifests applied directly although their run had an action
                     \* for them without a result
          run,       \* the run: its action for each manifest (step), the manifest
                     \* it is paused for (awaits), and whether it is cancelled (over)
          req, trouble

vars == <<man, enabled, effects, answers, billed, crossed, contested, uncertain, forked,
          run, req, trouble>>

None == "none"
NoManifest == [status |-> None, exec |-> "not_started", input |-> None, by |-> None]
Rest == [op |-> None, pc |-> None, m |-> None, input |-> None]

Init == /\ man = [m \in Manifests |-> NoManifest] /\ enabled \in BOOLEAN
        /\ effects = [m \in Manifests |-> 0] /\ answers = effects /\ billed = effects
        /\ crossed = {} /\ contested = {} /\ uncertain = {} /\ forked = {}
        /\ run = [step |-> [m \in Manifests |-> None], awaits |-> None, over |-> FALSE]
        /\ req = [r \in Requests |-> Rest] /\ trouble = 0

ledger == <<effects, answers, billed>>
doubts == <<crossed, contested, uncertain, forked>>
Begin(r, record) == req[r] = Rest /\ req' = [req EXCEPT ![r] = record]
Finish(r) == req' = [req EXCEPT ![r] = Rest]
Goto(r, pc) == req' = [req EXCEPT ![r].pc = pc]
At(r, pc) == req[r].pc = pc
Verdict(m, exec) == man' = [man EXCEPT ![m].exec = exec]
Step(m, s) == run' = [run EXCEPT !.step[m] = s]

Executing == {"route", "evaluate", "applying", "resume", "wake", "claim", "send", "ok",
              "failed", "bill", "commit", "expired"}
Deciding == {"approve", "reject", "write", "refuse", "refusing"}
Busy(m, pcs) == {r \in Requests : req[r].m = m /\ req[r].pc \in pcs}

-----------------------------------------------------------------------------
\* An invocation without an approval: policy lets an enabled connector through,
\* and a pending manifest with the same input is used again.
Asked(i) == {m \in Manifests : man[m].status = "pending" /\ man[m].input = i}

Allowed == enabled
InvokeStart(r, i) ==
    /\ Allowed
    /\ Begin(r, [Rest EXCEPT !.op = "invoke", !.pc = IF Asked(i) = {} THEN "create" ELSE None,
                             !.input = i])
    /\ UNCHANGED <<man, enabled, ledger, doubts, run, trouble>>
InvokeReuse(r) == /\ req[r].op = "invoke" /\ At(r, None) /\ Finish(r)
                  /\ UNCHANGED <<man, enabled, ledger, doubts, run, trouble>>
New(m, i, by) == /\ man[m] = NoManifest
                 /\ man' = [man EXCEPT ![m] = [NoManifest EXCEPT !.status = "pending",
                                                                !.input = i, !.by = by]]
CreateManifest(r) ==
    /\ At(r, "create") /\ Finish(r) /\ \E m \in Manifests : New(m, req[r].input, "call")
    /\ UNCHANGED <<enabled, ledger, doubts, run, trouble>>

\* _pause_for_approval: an execution of the run has an action that needs an
\* approval; the manifest is stored first, the pause after it.
PauseForApproval(r) ==
    /\ ~run.over /\ run.awaits = None /\ \A q \in Requests : ~At(q, "pause")
    /\ \A m \in Manifests : run.step[m] \notin {"pending", "running", "reconnect"}
    /\ \E m \in Manifests : /\ New(m, None, "run") /\ Step(m, "asked")
                            /\ Begin(r, [Rest EXCEPT !.op = "run", !.pc = "pause", !.m = m])
    /\ UNCHANGED <<enabled, ledger, doubts, trouble>>
Pause(r) == /\ At(r, "pause") /\ Finish(r) /\ run' = [run EXCEPT !.awaits = req[r].m]
            /\ UNCHANGED <<man, enabled, ledger, doubts, trouble>>

\* approve_action_manifest and reject_action_manifest decide by the manifest they
\* were handed, by a manifest's endpoint or, a rejection, by the run's; the write
\* itself asks no question.
MutUndecided(status) == status \in {"pending", "approved"}
Undecided(status) == status = "pending"

DecideStart(r, m, verdict) ==
    /\ man[m].status # None /\ Undecided(man[m].status)
    /\ Begin(r, [Rest EXCEPT !.op = verdict, !.pc = verdict, !.m = m])
    /\ contested' = contested \cup IF Busy(m, Deciding) # {} THEN {m} ELSE {}
    /\ UNCHANGED <<man, enabled, ledger, crossed, uncertain, forked, run, trouble>>
\* A rejection looks whether the run is paused for this manifest, and leaves it
\* to the runtime then; reject_approval looks at both again.
RejectRoute(r) ==
    /\ At(r, "reject") /\ Goto(r, IF run.awaits = req[r].m THEN "refuse" ELSE "write")
    /\ UNCHANGED <<man, enabled, ledger, doubts, run, trouble>>
Refuse(r) ==
    /\ At(r, "refuse")
    /\ IF man[req[r].m].status = "pending" /\ run.awaits = req[r].m
         THEN Goto(r, "refusing") ELSE Finish(r)
    /\ UNCHANGED <<man, enabled, ledger, doubts, run, trouble>>
DecideWrite(r) ==
    /\ req[r].pc \in {"approve", "write", "refusing"}
    /\ man' = [man EXCEPT ![req[r].m].status = IF At(r, "approve") THEN "approved" ELSE "rejected"]
    /\ IF At(r, "refusing") THEN Goto(r, "end run") ELSE Finish(r)
    /\ UNCHANGED <<enabled, ledger, doubts, run, trouble>>
\* Refusing what a run is paused for cancels it; its action stays as it is.
EndRun(r) == /\ At(r, "end run") /\ Finish(r)
             /\ run' = [run EXCEPT !.over = TRUE, !.awaits = None]
             /\ UNCHANGED <<man, enabled, ledger, doubts, trouble>>
\* The run's own approvals endpoint does not look at the status at all, and for a
\* connector's manifest it only writes the status: the run stays paused.
ResolveApproval(m) ==
    /\ man[m].status # None
    /\ man' = [man EXCEPT ![m].status = "approved"]
    /\ contested' = contested \cup IF Busy(m, Deciding) # {} THEN {m} ELSE {}
    /\ UNCHANGED <<enabled, ledger, crossed, uncertain, forked, run, req, trouble>>
\* Cancelling the run takes its pending requests and its open action along.
CancelRun ==
    /\ ~run.over
    /\ man' = [m \in Manifests |-> IF man[m].status = "pending"
                                   THEN [man[m] EXCEPT !.status = "cancelled"] ELSE man[m]]
    /\ run' = [step |-> [m \in Manifests |-> IF run.step[m] \in {None, "settled"}
                                             THEN run.step[m] ELSE "cancelled"],
               awaits |-> None, over |-> TRUE]
    /\ contested' = contested \cup {m \in Manifests : /\ man[m].status = "pending"
                                                      /\ Busy(m, Deciding) # {}}
    /\ UNCHANGED <<enabled, ledger, crossed, uncertain, forked, req, trouble>>

-----------------------------------------------------------------------------
MutSettled(manifest) == FALSE
Settled(manifest) == manifest.exec = "applied"

\* A request or an execution that may carry the manifest out begins.
Carry(r, op, pc, m) ==
    /\ answers[m] < MaxCalls /\ Begin(r, [Rest EXCEPT !.op = op, !.pc = pc, !.m = m])
    /\ crossed' = crossed \cup IF Busy(m, Executing) # {} THEN {m} ELSE {}
    /\ UNCHANGED <<man, enabled, ledger, contested, uncertain, forked, run, trouble>>

\* apply_action_manifest resumes the run when it is paused for the manifest, and
\* sends what the manifest shows otherwise, whatever the run does meanwhile.  (What
\* it validates first never fails: validation_payload is valid in every manifest
\* that is made.)
ApplyStart(r, m) == /\ man[m].status = "approved" /\ ~Settled(man[m])
                    /\ Carry(r, "apply", "route", m)
HasResult(m) == run.step[m] \in {None, "settled"}
ApplyRoute(r) ==
    /\ At(r, "route")
    /\ IF run.awaits = req[r].m
         THEN req' = [req EXCEPT ![r].op = "run", ![r].pc = "resume"] /\ UNCHANGED forked
         ELSE /\ Goto(r, "evaluate")
              /\ forked' = forked \cup IF HasResult(req[r].m) THEN {} ELSE {req[r].m}
    /\ UNCHANGED <<man, enabled, ledger, crossed, contested, uncertain, run, trouble>>
\* A run's manifest names no scopes, which a capability may require.
ApplyEvaluate(r) ==
    /\ At(r, "evaluate")
    /\ \/ Allowed /\ Goto(r, "applying") /\ UNCHANGED man
       \/ /\ ~Allowed \/ man[req[r].m].by = "run"
          /\ Finish(r) /\ Verdict(req[r].m, "blocked_by_validation")
    /\ UNCHANGED <<enabled, ledger, doubts, run, trouble>>
\* An invocation that names the manifest checks it belongs to the same step and
\* capability (a run's never does: it gives another reason) and is approved, and
\* sends the input of its own request.
InvokeApproved(r, m) ==
    /\ Allowed /\ man[m].by = "call" /\ man[m].status = "approved" /\ ~Settled(man[m])
    /\ Carry(r, "invoke", "applying", m)

\* resume_after_approval: the run's state and the manifest are read again, then
\* the manifest, and the run's status and state, are written.
ResumeAfterApproval(r) ==
    /\ At(r, "resume")
    /\ IF run.awaits = req[r].m /\ man[req[r].m].status = "approved"
         THEN Goto(r, "applying") ELSE Finish(r)
    /\ UNCHANGED <<man, enabled, ledger, doubts, run, trouble>>
\* execute_connector_invocation and resume_after_approval
Applying(r) == /\ At(r, "applying") /\ Verdict(req[r].m, "applying")
               /\ Goto(r, IF req[r].op = "run" THEN "wake" ELSE "send")
               /\ UNCHANGED <<enabled, ledger, doubts, run, trouble>>
Wake(r) == /\ At(r, "wake") /\ Goto(r, "claim")
           /\ run' = [run EXCEPT !.awaits = None, !.over = FALSE,
                                 !.step[req[r].m] = IF @ = "asked" THEN "pending" ELSE @]
           /\ UNCHANGED <<man, enabled, ledger, doubts, trouble>>

\* An execution of the run is delivered after its action went back to pending.
ExecuteRun(r, m) == /\ run.step[m] = "pending" /\ ~run.over /\ run.awaits # m
                    /\ Carry(r, "run", "claim", m)
ClaimAgentAction(r) ==
    /\ At(r, "claim")
    /\ IF run.step[req[r].m] = "pending" /\ ~run.over
         THEN Goto(r, "send") /\ Step(req[r].m, "running")
         ELSE Finish(r) /\ UNCHANGED run
    /\ UNCHANGED <<man, enabled, ledger, doubts, trouble>>

\* What dispatch may meet: an answer, a refusal before or by the other side, an
\* expired credential, or an error after the other side has acted.
Good == "ok"
Refused == "refused"
Expired == "expired"
BadAnswer == IF Writes THEN {"lost"} ELSE {}
Outcomes == {Good, Refused, Expired} \cup BadAnswer

\* A request writes its verdict and bills then; an execution of the run bills and
\* then stores its action's result.
MutAfter(op, outcome) == IF outcome = Refused THEN "ok" ELSE "failed"
After(op, outcome) == IF op # "run" THEN IF outcome = Good THEN "ok" ELSE "failed"
                      ELSE IF outcome = Good THEN "bill"
                      ELSE IF outcome = Expired THEN "expired" ELSE "commit"

Dispatch(r) ==
    /\ At(r, "send")
    /\ \E o \in IF req[r].op = "run" /\ ~Allowed THEN {Refused} ELSE Outcomes :
         /\ trouble' = trouble + (IF o = Good THEN 0 ELSE 1) /\ trouble' <= MaxTrouble
         /\ req' = [req EXCEPT ![r].pc = After(req[r].op, o), ![r].input = o]
         /\ effects' = IF o \in {Refused, Expired} \/ ~Writes THEN effects
                       ELSE [effects EXCEPT ![req[r].m] = @ + 1]
         /\ answers' = IF o = Good THEN [answers EXCEPT ![req[r].m] = @ + 1] ELSE answers
         /\ uncertain' = uncertain \cup IF o = "lost" THEN {req[r].m} ELSE {}
    /\ UNCHANGED <<man, enabled, billed, crossed, contested, forked, run>>
RecordOutcome(r) ==
    /\ req[r].pc \in {"ok", "failed"}
    /\ Verdict(req[r].m, IF At(r, "ok") THEN "applied" ELSE "apply_failed")
    /\ IF At(r, "ok") /\ req[r].op # "run" THEN Goto(r, "bill") ELSE Finish(r)
    /\ UNCHANGED <<enabled, ledger, doubts, run, trouble>>
Bill(r) == /\ At(r, "bill") /\ billed' = [billed EXCEPT ![req[r].m] = @ + 1]
           /\ IF req[r].op = "run" THEN Goto(r, "commit") ELSE Finish(r)
           /\ UNCHANGED <<man, enabled, effects, answers, doubts, run, trouble>>

\* _execute_durable_action: what a cancelled run was doing is dropped, and so is
\* the result of an action that is no longer running.
Commit(r) ==
    /\ At(r, "commit")
    /\ IF run.over \/ run.step[req[r].m] # "running" THEN Finish(r) /\ UNCHANGED run
       ELSE /\ Step(req[r].m, "settled")
            /\ Goto(r, IF req[r].input = Good THEN "ok" ELSE "failed")
    /\ UNCHANGED <<man, enabled, ledger, doubts, trouble>>
\* _pause_for_connector_reconnect: an expired credential leaves the manifest at
\* "applying"; the connector is put aside and the action waits.
AwaitReconnect(r) ==
    /\ At(r, "expired") /\ Finish(r)
    /\ IF run.over \/ run.step[req[r].m] # "running" THEN UNCHANGED <<enabled, run>>
       ELSE enabled' = FALSE /\ Step(req[r].m, "reconnect")
    /\ UNCHANGED <<man, ledger, doubts, trouble>>

\* resume_reconnected_connector_action: the connector is enabled, then the action
\* that was waiting when the authorization began is sent back, if it still waits.
ReconnectStart(r, m) ==
    /\ run.step[m] = "reconnect" /\ Begin(r, [Rest EXCEPT !.op = "reconnect", !.pc = "enable", !.m = m])
    /\ UNCHANGED <<man, enabled, ledger, doubts, run, trouble>>
Reenable(r) == /\ At(r, "enable") /\ enabled' = TRUE /\ Goto(r, "retry")
               /\ UNCHANGED <<man, ledger, doubts, run, trouble>>
RetryAction(r) ==
    /\ At(r, "retry") /\ Finish(r)
    /\ IF run.step[req[r].m] = "reconnect" THEN Step(req[r].m, "pending") ELSE UNCHANGED run
    /\ UNCHANGED <<man, enabled, ledger, doubts, trouble>>

\* An administrator enables or disables the connector.
SetStatus == /\ enabled' = ~enabled
             /\ UNCHANGED <<man, ledger, doubts, run, req, trouble>>
Die(r) == /\ req[r] # Rest /\ trouble < MaxTrouble /\ trouble' = trouble + 1 /\ Finish(r)
          /\ uncertain' = uncertain \cup IF req[r].pc \in Executing THEN {req[r].m} ELSE {}
          /\ UNCHANGED <<man, enabled, ledger, crossed, contested, forked, run>>

Act(r) == \/ \E i \in Inputs : InvokeStart(r, i)
          \/ InvokeReuse(r) \/ CreateManifest(r) \/ PauseForApproval(r) \/ Pause(r)
          \/ \E m \in Manifests, v \in {"approve", "reject"} : DecideStart(r, m, v)
          \/ RejectRoute(r) \/ Refuse(r) \/ DecideWrite(r) \/ EndRun(r)
          \/ \E m \in Manifests : \/ ApplyStart(r, m) \/ InvokeApproved(r, m)
                                  \/ ExecuteRun(r, m) \/ ReconnectStart(r, m)
          \/ ApplyRoute(r) \/ ApplyEvaluate(r) \/ ResumeAfterApproval(r) \/ Applying(r) \/ Wake(r)
          \/ ClaimAgentAction(r) \/ Dispatch(r) \/ RecordOutcome(r) \/ Bill(r) \/ Commit(r)
          \/ AwaitReconnect(r) \/ Reenable(r) \/ RetryAction(r) \/ Die(r)
Next == \/ \E r \in Requests : Act(r)
        \/ \E m \in Manifests : ResolveApproval(m)
        \/ CancelRun \/ SetStatus

Spec == Init /\ [][Next]_vars

-----------------------------------------------------------------------------
\* action_manifest_payload: how far the execution got, or else the decision.
Shown(m) == IF man[m].exec # "not_started" THEN man[m].exec
            ELSE IF man[m].status = "pending" THEN "approval_required"
            ELSE IF man[m].status = "cancelled" THEN "superseded" ELSE man[m].status

\* An approved action reaches the outside system once (app.py,
\* apply_action_manifest, execute_connector_invocation; agent/loop.py), however often
\* it is applied, retried or invoked again and whether a request or the run carries
\* it out: more than once takes executions that overlap, a process that died, an
\* error after the effect, or a manifest applied directly while its run still had
\* an action for it without a result (a 401, a cancelled run).
AppliedOnce == \A m \in Manifests : effects[m] > 1 => m \in crossed \cup uncertain \cup forked

\* A manifest that shows "applied" had a call that was answered well, and usage
\* is recorded once for each such call and for no other (record_billing_meter).
OutcomeIsShown ==
    \A m \in Manifests : m \notin crossed \cup uncertain /\ Busy(m, Executing) = {} =>
        /\ Shown(m) = "applied" => answers[m] > 0
        /\ billed[m] = answers[m]

\* An action that has been carried out is never shown as rejected
\* (reject_action_manifest), unless two decisions about it overlapped.
SentNotRefused ==
    \A m \in Manifests : effects[m] > 0 /\ man[m].status = "rejected" => m \in contested
=============================================================================
