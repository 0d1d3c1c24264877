---------------------------- MODULE AgentActions ----------------------------
(***************************************************************************)
(* The durable action ledger of one Agent run.                             *)
(*                                                                         *)
(* A tool call with side effects is an AgentAction row.  A worker that     *)
(* executes the run claims the row under a lease, performs the side        *)
(* effect, renews the lease and commits the observation behind a fence on  *)
(* (status, owner, generation, expiry).  A row whose lease ran out becomes *)
(* "uncertain" and only a person, or the reconnection of a connector, may  *)
(* send it back to "pending".                                              *)
(*                                                                         *)
(* Every repository call is one atomic step (a lock in store.py, one SQL   *)
(* transaction in db/repository.py); everything a worker does between two  *)
(* calls may be interleaved with the other workers, with the API and with  *)
(* the clock, and a worker may crash anywhere.                             *)
(***************************************************************************)
EXTENDS Integers

CONSTANTS
    Workers,        \* executions of the run's graph that may overlap
    Actions,        \* identifiers the run may give to its actions
    None,           \* no action
    LeaseSeconds,   \* agent_loop_action_lease_seconds, in ticks of the clock
    MaxRetry        \* bound of the retries granted per action

ASSUME NoneAssumption == None \notin Actions
ASSUME LeaseAssumption == LeaseSeconds \in Nat \ {0}
ASSUME RetryAssumption == MaxRetry \in Nat

VARIABLES
    \* the agent_actions rows
    status,      \* status
    gen,         \* lease_generation
    lease,       \* lease_expires_at, as the time that is left
    obs,         \* observation and failure_class
    reconnects,  \* usage.connector_reconnect_retry_count
    \* what an executing worker holds in memory
    pc,          \* how far it is
    current,     \* state.current_action_id
    held,        \* claimed.lease_generation
    outcome,     \* the result of the tool call
    \* the run
    cancelled,   \* the run's status is CANCELLED
    \* histories
    effects,     \* how often each generation performed the side effect
    granted      \* how often each action was sent back to "pending"

ledger == <<status, gen, lease, obs, reconnects>>
crew == <<pc, current, held, outcome>>
history == <<effects, granted>>
vars == <<ledger, crew, cancelled, history>>

-----------------------------------------------------------------------------
(* State *)

Status == {"absent", "pending", "running", "uncertain",
           "succeeded", "failed", "cancelled"}

\* What a finished tool call reports: its success, an error, or that the
\* connector's credential has expired (failure_class).
Outcome == {"ok", "error", "reconnect"}

\* An observation remembers the outcome and the lease generation of the
\* execution that produced it; a person's verdict has generation 0.
Observation == [outcome : Outcome \cup {"none"}, gen : Nat]

NoObservation == [outcome |-> "none", gen |-> 0]

Phase == {"idle", "starting", "recovering", "listing", "deciding", "acting",
          "claiming", "claimed", "executing", "executed", "renewing",
          "committing", "observed", "reviewing"}

\* The lease generations the retries allow; a claim starts the next one.
Generations == 1..(MaxRetry + 1)

Init ==
    /\ status = [a \in Actions |-> "absent"]
    /\ gen = [a \in Actions |-> 0]
    /\ lease = [a \in Actions |-> 0]
    /\ obs = [a \in Actions |-> NoObservation]
    /\ reconnects = [a \in Actions |-> 0]
    /\ pc = [w \in Workers |-> "idle"]
    /\ current = [w \in Workers |-> None]
    /\ held = [w \in Workers |-> 0]
    /\ outcome = [w \in Workers |-> "error"]
    /\ cancelled = FALSE
    /\ effects = [a \in Actions |-> [g \in Generations |-> 0]]
    /\ granted = [a \in Actions |-> 0]

-----------------------------------------------------------------------------
(* Conditions and updates the handlers share *)

\* Mutant: the fence forgets to compare the generation.
MutLeaseHeldByStatus(a, g) == status[a] = "running" /\ lease[a] > 0

\* The fence of renew_agent_action_lease and commit_agent_action_observation.
\* lease_owner_id does not occur in it: every process uses the same
\* loop_worker_id ("agent-loop-v2"), so the comparison of owners always holds
\* and only the generation tells two executions apart.
LeaseHeld(a, g) == status[a] = "running" /\ gen[a] = g /\ lease[a] > 0

Goto(w, phase) ==
    /\ pc' = [pc EXCEPT ![w] = phase]
    /\ UNCHANGED <<current, held, outcome>>

\* The worker returns from the graph, or dies; its state object is gone.
Leave(w) ==
    /\ pc' = [pc EXCEPT ![w] = "idle"]
    /\ current' = [current EXCEPT ![w] = None]
    /\ held' = [held EXCEPT ![w] = 0]
    /\ outcome' = [outcome EXCEPT ![w] = "error"]

\* The worker turns to the action a.
TakeUp(w, a) ==
    /\ pc' = [pc EXCEPT ![w] = "acting"]
    /\ current' = [current EXCEPT ![w] = a]
    /\ UNCHANGED <<held, outcome>>

\* Every change of status but a claim clears the lease.
Release(a, s) ==
    /\ status' = [status EXCEPT ![a] = s]
    /\ lease' = [lease EXCEPT ![a] = 0]
    /\ UNCHANGED gen

\* Mutant: settled actions are cancelled too.
MutCancelAnyAction(a) == Release(a, "cancelled") /\ UNCHANGED <<obs, reconnects>>

\* cancel_agent_action: a settled action is left as it is.
CancelAgentAction(a) ==
    \/ /\ status[a] \in {"pending", "running", "uncertain"}
       /\ Release(a, "cancelled")
       /\ UNCHANGED <<obs, reconnects>>
    \/ /\ status[a] \notin {"pending", "running", "uncertain"}
       /\ UNCHANGED ledger

-----------------------------------------------------------------------------
(* The graph's nodes, as far as they touch the ledger *)

\* observe, first read: the execution of a terminal run ends here.
Observe(w) ==
    /\ pc[w] = "idle"
    /\ ~cancelled
    /\ Goto(w, "starting")
    /\ UNCHANGED <<ledger, cancelled, history>>

\* observe then writes RUNNING whatever the status has become meanwhile.
UpdateRunStatusRunning(w) ==
    /\ pc[w] = "starting"
    /\ cancelled' = FALSE
    /\ Goto(w, "recovering")
    /\ UNCHANGED <<ledger, history>>

\* Mutant: an expired action is queued again instead of becoming uncertain.
MutRecoverRequeues(w) ==
    /\ pc[w] = "recovering"
    /\ status' = [a \in Actions |->
                    IF status[a] = "running" /\ lease[a] = 0
                    THEN "pending" ELSE status[a]]
    /\ Goto(w, "listing")
    /\ UNCHANGED <<gen, lease, obs, reconnects, cancelled, history>>

\* Mutant: the expiry comparison is inverted, so that nothing is recovered.
MutRecoverNothing(w) ==
    /\ pc[w] = "recovering"
    /\ Goto(w, "listing")
    /\ UNCHANGED <<ledger, cancelled, history>>

\* recover_expired_agent_actions: every running action of the tenant whose
\* lease ran out becomes uncertain.
RecoverExpiredAgentActions(w) ==
    /\ pc[w] = "recovering"
    /\ status' = [a \in Actions |->
                    IF status[a] = "running" /\ lease[a] = 0
                    THEN "uncertain" ELSE status[a]]
    /\ Goto(w, "listing")
    /\ UNCHANGED <<gen, lease, obs, reconnects, cancelled, history>>

\* The last part of observe: list the actions and route.  An uncertain or a
\* running action ends the execution, a pending one is resumed.
Route(w) ==
    LET in(s) == {a \in Actions : status[a] = s}
        open == in("uncertain") \cup in("running")
    IN  /\ pc[w] = "listing"
        /\ \/ open # {} /\ Leave(w)
           \/ open = {} /\ \E a \in in("pending") : TakeUp(w, a)
           \/ open \cup in("pending") = {} /\ Goto(w, "deciding")
        /\ UNCHANGED <<ledger, cancelled, history>>

\* decide: the execution ends (an answer, a question, a failure, a cancelled
\* run), or the model chooses a tool and create_agent_action stores the
\* action as pending under a fresh identifier.
Decide(w) ==
    /\ pc[w] = "deciding"
    /\ \/ Leave(w) /\ UNCHANGED status
       \/ \E a \in Actions :
            /\ status[a] = "absent"
            /\ status' = [status EXCEPT ![a] = "pending"]
            /\ TakeUp(w, a)
    /\ UNCHANGED <<gen, lease, obs, reconnects, cancelled, history>>

\* policy: an action that is blocked or needs approval ends the execution
\* and stays pending.
PolicyPause(w) ==
    /\ pc[w] = "acting"
    /\ ~cancelled
    /\ Leave(w)
    /\ UNCHANGED <<ledger, cancelled, history>>

\* _stop_if_cancelled: the places where the code asks whether the run was
\* cancelled, and where it goes on when it was not.
NextPhase == [acting |-> "claiming", claimed |-> "executing",
              executed |-> "renewing", observed |-> "reviewing"]

\* A cancelled run cancels the current action and ends the execution.
StopIfCancelled(w) ==
    /\ pc[w] \in {"acting", "claimed", "executed", "observed"}
    /\ \/ ~cancelled /\ Goto(w, NextPhase[pc[w]]) /\ UNCHANGED ledger
       \/ cancelled /\ Leave(w) /\ CancelAgentAction(current[w])
    /\ UNCHANGED <<cancelled, history>>

\* Mutant: a claim does not start a new generation.
MutClaimSameGeneration(w) ==
    LET a == current[w]
    IN  /\ pc[w] = "claiming"
        /\ status[a] = "pending"
        /\ status' = [status EXCEPT ![a] = "running"]
        /\ gen' = [gen EXCEPT ![a] = 1]
        /\ lease' = [lease EXCEPT ![a] = LeaseSeconds]
        /\ pc' = [pc EXCEPT ![w] = "claimed"]
        /\ held' = [held EXCEPT ![w] = 1]
        /\ UNCHANGED <<current, outcome, obs, reconnects, cancelled, history>>

\* claim_agent_action: only a pending action is claimed; the claim starts a
\* new lease generation.  Without the lease the tool is not executed.
ClaimAgentAction(w) ==
    LET a == current[w]
    IN  /\ pc[w] = "claiming"
        /\ \/ /\ status[a] = "pending"
              /\ status' = [status EXCEPT ![a] = "running"]
              /\ gen' = [gen EXCEPT ![a] = @ + 1]
              /\ lease' = [lease EXCEPT ![a] = LeaseSeconds]
              /\ pc' = [pc EXCEPT ![w] = "claimed"]
              /\ held' = [held EXCEPT ![w] = gen[a] + 1]
              /\ UNCHANGED <<current, outcome>>
           \/ /\ status[a] # "pending"
              /\ Leave(w)
              /\ UNCHANGED <<status, gen, lease>>
        /\ UNCHANGED <<obs, reconnects, cancelled, history>>

\* The tool call returns or raises; o is what the observation will say.
ToolReturns(w, o) ==
    /\ pc' = [pc EXCEPT ![w] = "executed"]
    /\ outcome' = [outcome EXCEPT ![w] = o]
    /\ UNCHANGED <<current, held>>

\* The tool gateway or the connector performs the side effect.
Perform(w) ==
    /\ pc[w] = "executing"
    /\ effects' = [effects EXCEPT ![current[w]] =
                     [g \in Generations |->
                        effects[current[w]][g] + (IF g = held[w] THEN 1 ELSE 0)]]
    /\ \E o \in Outcome : ToolReturns(w, o)
    /\ UNCHANGED <<ledger, cancelled, granted>>

\* Preparing the step fails, a policy blocks the tool, or the connector finds
\* its credential expired: the observation is a failure without side effect.
FailToPerform(w) ==
    /\ pc[w] = "executing"
    /\ \E o \in Outcome \ {"ok"} : ToolReturns(w, o)
    /\ UNCHANGED <<ledger, cancelled, history>>

\* Mutant: the lease is prolonged from its old end, not from now.
MutRenewAddsUp(w) ==
    /\ pc[w] = "renewing"
    /\ LeaseHeld(current[w], held[w])
    /\ lease' = [lease EXCEPT ![current[w]] = @ + LeaseSeconds]
    /\ Goto(w, "committing")
    /\ UNCHANGED <<status, gen, obs, reconnects, cancelled, history>>

\* renew_agent_action_lease: a lease that was lost ends the execution with
\* waiting_reason "action_lease_lost_before_commit".
RenewAgentActionLease(w) ==
    LET a == current[w]
    IN  /\ pc[w] = "renewing"
        /\ \/ /\ LeaseHeld(a, held[w])
              /\ lease' = [lease EXCEPT ![a] = LeaseSeconds]
              /\ Goto(w, "committing")
           \/ /\ ~LeaseHeld(a, held[w])
              /\ Leave(w)
              /\ UNCHANGED lease
        /\ UNCHANGED <<status, gen, obs, reconnects, cancelled, history>>

\* commit_agent_action_observation: behind the fence the observation, the
\* final status and the usage are stored together.  usage is replaced, so
\* the reconnect counter kept in it is gone.
CommitAgentActionObservation(w) ==
    LET a == current[w]
    IN  /\ pc[w] = "committing"
        /\ \/ /\ LeaseHeld(a, held[w])
              /\ Release(a, IF outcome[w] = "ok" THEN "succeeded" ELSE "failed")
              /\ obs' = [obs EXCEPT ![a] = [outcome |-> outcome[w], gen |-> held[w]]]
              /\ reconnects' = [reconnects EXCEPT ![a] = 0]
              /\ Goto(w, "observed")
           \/ /\ ~LeaseHeld(a, held[w])
              /\ Leave(w)
              /\ UNCHANGED ledger
        /\ UNCHANGED <<cancelled, history>>

\* pause_connector_action_for_reconnect raises unless this holds.
ReconnectEligible(a) ==
    status[a] = "failed" /\ obs[a].outcome = "reconnect" /\ reconnects[a] = 0

\* observe_result: an expired credential pauses the action for reconnection;
\* any other result returns to decide or ends the execution.
ObserveResult(w) ==
    LET a == current[w]
    IN  /\ pc[w] = "reviewing"
        /\ \/ /\ outcome[w] = "reconnect"
              /\ status' = IF ReconnectEligible(a)
                           THEN [status EXCEPT ![a] = "uncertain"]
                           ELSE status
              /\ Leave(w)
           \/ /\ outcome[w] # "reconnect"
              /\ Goto(w, "deciding") \/ Leave(w)
              /\ UNCHANGED status
        /\ UNCHANGED <<gen, lease, obs, reconnects, cancelled, history>>

\* The worker process dies; what it held in memory is gone.
Crash(w) ==
    /\ pc[w] # "idle"
    /\ Leave(w)
    /\ UNCHANGED <<ledger, cancelled, history>>

-----------------------------------------------------------------------------
(* The API *)

\* The action goes back to "pending" and loses its observation.
SendBack(a) ==
    /\ granted[a] < MaxRetry
    /\ Release(a, "pending")
    /\ obs' = [obs EXCEPT ![a] = NoObservation]
    /\ granted' = [granted EXCEPT ![a] = @ + 1]

\* resolve_uncertain_agent_action: a person settles an uncertain action, or
\* sends it back to be executed again.
ResolveUncertainAgentAction(a) ==
    /\ status[a] = "uncertain"
    /\ \/ /\ Release(a, "succeeded")
          /\ obs' = [obs EXCEPT ![a] = [outcome |-> "ok", gen |-> 0]]
          /\ UNCHANGED granted
       \/ /\ Release(a, "failed")
          /\ obs' = [obs EXCEPT ![a] = [outcome |-> "error", gen |-> 0]]
          /\ UNCHANGED granted
       \/ SendBack(a)
    /\ UNCHANGED <<reconnects, crew, cancelled, effects>>

\* retry_connector_action_after_reconnect: the connector was authorised again.
RetryConnectorActionAfterReconnect(a) ==
    /\ status[a] = "uncertain"
    /\ obs[a].outcome = "reconnect"
    /\ reconnects[a] = 0
    /\ SendBack(a)
    /\ reconnects' = [reconnects EXCEPT ![a] = 1]
    /\ UNCHANGED <<crew, cancelled, effects>>

\* cancel_run of the runtime: the run is CANCELLED and the action the saved
\* state names (which may be none, or an older one) is cancelled.
CancelRun ==
    /\ ~cancelled
    /\ cancelled' = TRUE
    /\ UNCHANGED ledger \/ \E a \in Actions : CancelAgentAction(a)
    /\ UNCHANGED <<crew, history>>

\* request_run_retry: a cancelled run may be started again.
RequestRunRetry ==
    /\ cancelled
    /\ cancelled' = FALSE
    /\ UNCHANGED <<ledger, crew, history>>

\* The clock advances: every lease is one tick closer to its end.
Tick ==
    /\ \E a \in Actions : lease[a] > 0
    /\ lease' = [a \in Actions |-> IF lease[a] > 0 THEN lease[a] - 1 ELSE 0]
    /\ UNCHANGED <<status, gen, obs, reconnects, crew, cancelled, history>>

-----------------------------------------------------------------------------

\* The steps of an execution that is delivered to a worker.
Execute(w) ==
    \/ Observe(w)
    \/ UpdateRunStatusRunning(w)
    \/ RecoverExpiredAgentActions(w)
    \/ Route(w)
    \/ Decide(w)
    \/ PolicyPause(w)
    \/ StopIfCancelled(w)
    \/ ClaimAgentAction(w)
    \/ Perform(w)
    \/ FailToPerform(w)
    \/ RenewAgentActionLease(w)
    \/ CommitAgentActionObservation(w)
    \/ ObserveResult(w)

Next ==
    \/ \E w \in Workers : Execute(w) \/ Crash(w)
    \/ \E a \in Actions : \/ ResolveUncertainAgentAction(a)
                          \/ RetryConnectorActionAfterReconnect(a)
    \/ CancelRun
    \/ RequestRunRetry
    \/ Tick

Spec == Init /\ [][Next]_vars

\* Only the clock is sure to go on.  A delivery may be the last: a queued job is
\* given up after worker_job_max_attempts, the inline mode never delivers twice,
\* and an execution that lost its lease ends with its job acknowledged.
FairSpec == Spec /\ WF_vars(Tick)

-----------------------------------------------------------------------------
(* Properties *)

LedgerTypeOK ==
    /\ status \in [Actions -> Status]
    /\ gen \in [Actions -> Nat]
    /\ lease \in [Actions -> 0..LeaseSeconds]
    /\ obs \in [Actions -> Observation]
    /\ reconnects \in [Actions -> {0, 1}]

CrewTypeOK ==
    /\ pc \in [Workers -> Phase]
    /\ current \in [Workers -> Actions \cup {None}]
    /\ held \in [Workers -> Nat]
    /\ outcome \in [Workers -> Outcome]

HistoryTypeOK ==
    /\ effects \in [Actions -> [Generations -> Nat]]
    /\ granted \in [Actions -> 0..MaxRetry]

\* The rows, the workers and the histories have the shapes declared above.
TypeOK ==
    /\ LedgerTypeOK
    /\ CrewTypeOK
    /\ HistoryTypeOK
    /\ cancelled \in BOOLEAN

\* A side effect is performed at most once for the creation of its action and
\* once more for every retry a person or a reconnection granted, whatever
\* workers crash, overlap or outlive their lease: _execute_durable_action
\* never replays a tool call on its own.  Each authorisation is one lease
\* generation, and no generation performs twice.
EffectsAuthorised ==
    \A a \in Actions : \A g \in Generations :
        /\ effects[a][g] <= 1
        /\ effects[a][g] > 0 => g <= granted[a] + 1

\* A settled action carries the observation of its latest execution or a
\* person's verdict, never the late result of an execution that was
\* superseded: the generation fence of commit_agent_action_observation works
\* although every process presents the same lease owner.
ObservationIsCurrent ==
    \A a \in Actions :
        status[a] \in {"succeeded", "failed"} =>
            /\ obs[a].outcome # "none"
            /\ obs[a].gen \in {0, gen[a]}

\* The phases in which a worker acts on the strength of its claim.
Claiming == {"claimed", "executing", "executed", "renewing", "committing"}

Holds(w, a) == current[w] = a /\ pc[w] \in Claiming /\ LeaseHeld(a, held[w])

\* At most one worker can pass the fence of an action at any time, so
\* claim_agent_action serialises executions that overlap.
SingleHolder ==
    \A a \in Actions : \A v, w \in Workers : Holds(v, a) /\ Holds(w, a) => v = w

SettledStays(a) ==
    /\ status[a] \in {"succeeded", "cancelled"} =>
          status'[a] = status[a] /\ obs'[a] = obs[a]
    /\ status[a] = "failed" =>
          /\ obs'[a] = obs[a]
          /\ \/ status'[a] = "failed"
             \/ status'[a] = "uncertain" /\ obs[a].outcome = "reconnect"

\* A success, a cancellation and a person's verdict are final; a worker that
\* lost its lease, a recovery or a second resolution cannot change them.
\* Only a failure for an expired credential is reopened, as uncertain.
SettledIsFinal == [][\A a \in Actions : SettledStays(a)]_vars

\* The run is dispatched again and again, by the queue, by a person who resumes
\* or retries it or by its trigger, and executions get through the recovery.
Redelivered == []<><<\E w \in Workers : RecoverExpiredAgentActions(w)>>_vars

\* An action does not stay running as long as its run is dispatched: whether its
\* worker died, hangs in the tool call, was refused the renewal of its lease or
\* lives on and commits late, recover_expired_agent_actions of some execution
\* finds the lease expired.  Of a run nobody dispatches again nothing is said:
\* there the code leaves the row running.
RunningIsResolved ==
    Redelivered => \A a \in Actions : status[a] = "running" ~> status[a] # "running"

\* checkpoint_cancel promises that a cancelled run is not carried on: only
\* request_run_retry takes a run out of CANCELLED.
CancelIsFinal == [][cancelled /\ ~cancelled' => RequestRunRetry]_vars

-----------------------------------------------------------------------------
(* What remains of the ledger when workers, leases and time are left out *)

Open == {"absent", "pending", "running", "uncertain"}

Promise == INSTANCE SideEffects WITH
    permits <- [a \in Actions |-> granted[a] + 1],
    performed <- effects,
    verdict <- [a \in Actions |-> IF status[a] \in Open THEN "open" ELSE status[a]]

\* The ledger implements SideEffects: whatever executions overlap, crash or
\* come late, an observer who sees only tool calls, permissions and verdicts
\* sees each permission used at most once and no verdict overturned but the
\* failure for an expired credential.
KeepsPromise == Promise!Spec

-----------------------------------------------------------------------------
(* The inductive invariant behind these properties *)

\* A claim uses up an authorisation: while an action is pending it has been
\* claimed once less than it may be.
ClaimBudget ==
    \A a \in Actions :
        /\ gen[a] <= granted[a] + 1
        /\ status[a] \in {"absent", "pending"} => gen[a] <= granted[a]

\* A worker past decide works on an action; past the claim it holds one of the
\* generations the action went through.
WorkerHasAction ==
    \A w \in Workers :
        /\ pc[w] \in Claiming \cup {"acting", "claiming", "observed", "reviewing"}
              => current[w] \in Actions
        /\ pc[w] \in Claiming => held[w] \in 1..gen[current[w]]

\* Two workers never hold the same generation of the same action.
GenerationsDistinct ==
    \A v, w \in Workers :
        /\ pc[v] \in Claiming /\ pc[w] \in Claiming
        /\ current[v] = current[w]
        /\ held[v] = held[w]
        => v = w

\* No generation has performed before it was claimed, nor before its worker
\* reached the tool call, nor twice.
OneEffectPerGeneration ==
    /\ \A a \in Actions : \A g \in Generations :
          /\ effects[a][g] <= 1
          /\ g > gen[a] => effects[a][g] = 0
    /\ \A w \in Workers :
          pc[w] \in {"claimed", "executing"} => effects[current[w]][held[w]] = 0

IndInv ==
    /\ TypeOK
    /\ ClaimBudget
    /\ WorkerHasAction
    /\ GenerationsDistinct
    /\ OneEffectPerGeneration
    /\ ObservationIsCurrent

=============================================================================
