------------------------- MODULE AgentActionsProofs -------------------------
(***************************************************************************)
(* Proofs about the durable action ledger, for every number of workers and *)
(* actions, every lease length and every number of retries.                *)
(*                                                                         *)
(* IndInv is inductive.  Its crew part (CrewInv) says which generation a   *)
(* worker holds and that nobody else holds it; its ledger part says how    *)
(* many generations there can be and whose observation a row carries.      *)
(***************************************************************************)
EXTENDS AgentActions, TLAPS

CrewInv == WorkerHasAction /\ GenerationsDistinct /\ OneEffectPerGeneration

LedgerInv == ClaimBudget /\ ObservationIsCurrent

-----------------------------------------------------------------------------
(* The initial state *)

\* The initial ledger is empty and nobody works on it.
LEMMA InitIndInv == Init => IndInv
<1> SUFFICES ASSUME Init PROVE IndInv
  OBVIOUS
<1> USE DEF Init
<1>1. LedgerTypeOK
  BY LeaseAssumption DEF LedgerTypeOK, NoObservation, Observation, Outcome, Status
<1>2. CrewTypeOK
  BY DEF CrewTypeOK, Outcome, Phase
<1>3a. HistoryTypeOK
  BY RetryAssumption DEF HistoryTypeOK
<1>3b. cancelled \in BOOLEAN
  OBVIOUS
<1>4. ClaimBudget /\ ObservationIsCurrent
  BY DEF ClaimBudget, ObservationIsCurrent
<1>5. WorkerHasAction /\ GenerationsDistinct
  BY DEF WorkerHasAction, GenerationsDistinct, Claiming
<1>6. OneEffectPerGeneration
  BY DEF OneEffectPerGeneration
<1> QED
  BY <1>1, <1>2, <1>3a, <1>3b, <1>4, <1>5, <1>6 DEF IndInv, TypeOK

-----------------------------------------------------------------------------
(* What the shared updates do to the types *)

\* Moving to a phase keeps the crew's types.
LEMMA GotoType ==
  ASSUME CrewTypeOK, NEW w \in Workers, NEW p \in Phase, Goto(w, p)
  PROVE  CrewTypeOK'
  BY DEF CrewTypeOK, Goto

\* Leaving the graph keeps the crew's types.
LEMMA LeaveType ==
  ASSUME CrewTypeOK, NEW w \in Workers, Leave(w)
  PROVE  CrewTypeOK'
  BY DEF CrewTypeOK, Leave, Phase, Outcome

\* Turning to an action keeps the crew's types.
LEMMA TakeUpType ==
  ASSUME CrewTypeOK, NEW w \in Workers, NEW a \in Actions, TakeUp(w, a)
  PROVE  CrewTypeOK'
  BY DEF CrewTypeOK, TakeUp, Phase

\* Returning from the tool keeps the crew's types.
LEMMA ToolReturnsType ==
  ASSUME CrewTypeOK, NEW w \in Workers, NEW o \in Outcome, ToolReturns(w, o)
  PROVE  CrewTypeOK'
  BY DEF CrewTypeOK, ToolReturns, Phase

\* Changing the status of an action keeps the types of what it writes.
LEMMA ReleaseType ==
  ASSUME LedgerTypeOK, NEW a \in Actions, NEW s \in Status, Release(a, s)
  PROVE  /\ status' \in [Actions -> Status]
         /\ gen' \in [Actions -> Nat]
         /\ lease' \in [Actions -> 0..LeaseSeconds]
  BY LeaseAssumption DEF LedgerTypeOK, Release

\* Cancelling an action keeps the ledger's types.
LEMMA CancelType ==
  ASSUME LedgerTypeOK, NEW a \in Actions, CancelAgentAction(a)
  PROVE  LedgerTypeOK'
  BY LeaseAssumption DEF LedgerTypeOK, CancelAgentAction, Release, ledger, Status

\* Sending an action back to pending keeps the types of what it writes.
LEMMA SendBackType ==
  ASSUME TypeOK, NEW a \in Actions, SendBack(a)
  PROVE  /\ gen' \in [Actions -> Nat]
         /\ status' \in [Actions -> Status]
         /\ lease' \in [Actions -> 0..LeaseSeconds]
         /\ obs' \in [Actions -> Observation]
         /\ granted' \in [Actions -> 0..MaxRetry]
  BY LeaseAssumption, RetryAssumption
     DEF TypeOK, LedgerTypeOK, HistoryTypeOK, SendBack, Release, Status, Observation,
         Outcome, NoObservation

-----------------------------------------------------------------------------
(* What the shared updates do to the crew's invariant *)

\* A worker that leaves holds nothing any more.
LEMMA LeaveCrew ==
  ASSUME IndInv, NEW w \in Workers, Leave(w), UNCHANGED <<gen, effects>>
  PROVE  CrewInv'
  BY DEF IndInv, TypeOK, CrewTypeOK, CrewInv, Leave, WorkerHasAction,
         GenerationsDistinct, OneEffectPerGeneration, Claiming

\* A worker that goes on within the claim, or after it, keeps what it holds.
LEMMA GotoCrew ==
  ASSUME IndInv, NEW w \in Workers, NEW p \in Phase, Goto(w, p),
         UNCHANGED <<gen, effects>>,
         p \in Claiming => pc[w] \in Claiming,
         p \in {"claimed", "executing"} => pc[w] \in {"claimed", "executing"},
         p \in {"acting", "claiming", "observed", "reviewing"} => current[w] \in Actions
  PROVE  CrewInv'
  BY DEF IndInv, TypeOK, CrewTypeOK, CrewInv, Goto, WorkerHasAction,
         GenerationsDistinct, OneEffectPerGeneration, Claiming

\* A worker that turns to an action has not claimed it yet.
LEMMA TakeUpCrew ==
  ASSUME IndInv, NEW w \in Workers, NEW a \in Actions, TakeUp(w, a),
         UNCHANGED <<gen, effects>>
  PROVE  CrewInv'
  BY DEF IndInv, TypeOK, CrewTypeOK, CrewInv, TakeUp, WorkerHasAction,
         GenerationsDistinct, OneEffectPerGeneration, Claiming

\* Steps of the API and of the clock do not touch what the workers hold.
LEMMA SameCrew ==
  ASSUME IndInv, UNCHANGED <<crew, gen, effects>>
  PROVE  CrewInv'
  BY DEF IndInv, CrewInv, crew, WorkerHasAction, GenerationsDistinct,
         OneEffectPerGeneration

\* A cancelled action keeps its budget and is not settled by an observation.
LEMMA CancelLedger ==
  ASSUME IndInv, NEW a \in Actions, CancelAgentAction(a), UNCHANGED granted
  PROVE  LedgerInv' /\ gen' = gen
  BY DEF IndInv, TypeOK, LedgerTypeOK, LedgerInv, ClaimBudget, ObservationIsCurrent,
         CancelAgentAction, Release, ledger

\* A retry pays for the next claim.
LEMMA SendBackLedger ==
  ASSUME IndInv, NEW a \in Actions, SendBack(a)
  PROVE  LedgerInv' /\ gen' = gen
<1>1. ClaimBudget'
  BY RetryAssumption
     DEF IndInv, TypeOK, LedgerTypeOK, HistoryTypeOK, ClaimBudget, SendBack, Release
<1>2. ObservationIsCurrent' /\ gen' = gen
  BY DEF IndInv, TypeOK, LedgerTypeOK, ObservationIsCurrent, SendBack, Release
<1> QED
  BY <1>1, <1>2 DEF LedgerInv

-----------------------------------------------------------------------------
(* One lemma per kind of step *)

\* Steps that leave the ledger and the histories alone keep their invariants.
LEMMA SameLedger ==
  ASSUME IndInv, UNCHANGED <<ledger, history>>
  PROVE  LedgerTypeOK' /\ HistoryTypeOK' /\ LedgerInv'
  BY DEF IndInv, TypeOK, LedgerTypeOK, HistoryTypeOK, LedgerInv, ClaimBudget,
         ObservationIsCurrent, ledger, history

\* observe, list and route: nothing is claimed before act.
LEMMA ObserveSteps ==
  ASSUME IndInv, NEW w \in Workers,
         \/ Observe(w) \/ UpdateRunStatusRunning(w)
         \/ RecoverExpiredAgentActions(w) \/ Route(w)
  PROVE  IndInv'
<1> USE DEF IndInv, TypeOK
<1>1. CASE Observe(w)
  <2>1. CrewTypeOK' /\ CrewInv'
    BY <1>1, GotoType, GotoCrew DEF Observe, Phase, Claiming, ledger, history
  <2> QED
    BY <1>1, <2>1, SameLedger DEF Observe, CrewInv, LedgerInv
<1>2. CASE UpdateRunStatusRunning(w)
  <2>1. CrewTypeOK' /\ CrewInv'
    BY <1>2, GotoType, GotoCrew DEF UpdateRunStatusRunning, Phase, Claiming, ledger, history
  <2> QED
    BY <1>2, <2>1, SameLedger DEF UpdateRunStatusRunning, CrewInv, LedgerInv
<1>3. CASE RecoverExpiredAgentActions(w)
  <2>1. CrewTypeOK' /\ CrewInv'
    BY <1>3, GotoType, GotoCrew DEF RecoverExpiredAgentActions, Phase, Claiming, history
  <2>2. LedgerTypeOK' /\ HistoryTypeOK'
    BY <1>3 DEF RecoverExpiredAgentActions, LedgerTypeOK, HistoryTypeOK, history, Status
  <2>3. ClaimBudget' /\ ObservationIsCurrent'
    BY <1>3 DEF RecoverExpiredAgentActions, ClaimBudget, ObservationIsCurrent, history
  <2> QED
    BY <1>3, <2>1, <2>2, <2>3 DEF RecoverExpiredAgentActions, CrewInv
<1>4. CASE Route(w)
  <2>1. CrewTypeOK' /\ CrewInv'
    BY <1>4, GotoType, GotoCrew, LeaveType, LeaveCrew, TakeUpType, TakeUpCrew
       DEF Route, Phase, Claiming, ledger, history
  <2> QED
    BY <1>4, <2>1, SameLedger DEF Route, CrewInv, LedgerInv
<1> QED
  BY <1>1, <1>2, <1>3, <1>4

\* decide and policy: a new action starts with its budget unspent.
LEMMA DecideSteps ==
  ASSUME IndInv, NEW w \in Workers, Decide(w) \/ PolicyPause(w) \/ Crash(w)
  PROVE  IndInv'
<1> USE DEF IndInv, TypeOK
<1>1. CASE Decide(w)
  <2>1. CrewTypeOK' /\ CrewInv'
    BY <1>1, LeaveType, LeaveCrew, TakeUpType, TakeUpCrew DEF Decide, history
  <2>2. LedgerTypeOK' /\ HistoryTypeOK'
    BY <1>1 DEF Decide, LedgerTypeOK, HistoryTypeOK, history, Status
  <2>3. ClaimBudget' /\ ObservationIsCurrent'
    BY <1>1 DEF Decide, LedgerTypeOK, ClaimBudget, ObservationIsCurrent, history
  <2> QED
    BY <1>1, <2>1, <2>2, <2>3 DEF Decide, CrewInv
<1>2. CASE PolicyPause(w)
  <2>1. CrewTypeOK' /\ CrewInv'
    BY <1>2, LeaveType, LeaveCrew DEF PolicyPause, ledger, history
  <2> QED
    BY <1>2, <2>1, SameLedger DEF PolicyPause, CrewInv, LedgerInv
<1>3. CASE Crash(w)
  <2>1. CrewTypeOK' /\ CrewInv'
    BY <1>3, LeaveType, LeaveCrew DEF Crash, ledger, history
  <2> QED
    BY <1>3, <2>1, SameLedger DEF Crash, CrewInv, LedgerInv
<1> QED
  BY <1>1, <1>2, <1>3

\* _stop_if_cancelled: the worker goes on with what it holds, or gives it up.
LEMMA StopStep ==
  ASSUME IndInv, NEW w \in Workers, StopIfCancelled(w)
  PROVE  IndInv'
<1> USE DEF IndInv, TypeOK
<1>0. current[w] \in Actions
  BY DEF StopIfCancelled, WorkerHasAction, Claiming
<1>1. CASE ~cancelled
  <2>1. CrewTypeOK' /\ CrewInv'
    BY <1>0, <1>1, GotoType, GotoCrew
       DEF StopIfCancelled, NextPhase, Phase, Claiming, ledger, history
  <2> QED
    BY <1>1, <2>1, SameLedger DEF StopIfCancelled, CrewInv, LedgerInv
<1>2. CASE cancelled
  <2>1. LedgerTypeOK' /\ LedgerInv' /\ gen' = gen
    BY <1>0, <1>2, CancelType, CancelLedger DEF StopIfCancelled, history
  <2>2. CrewTypeOK' /\ CrewInv'
    BY <1>2, <2>1, LeaveType, LeaveCrew DEF StopIfCancelled, history
  <2>3. HistoryTypeOK'
    BY DEF StopIfCancelled, HistoryTypeOK, history
  <2> QED
    BY <2>1, <2>2, <2>3 DEF StopIfCancelled, CrewInv, LedgerInv
<1> QED
  BY <1>1, <1>2

\* claim_agent_action: the new generation is nobody else's and has performed
\* nothing.
LEMMA ClaimStep ==
  ASSUME IndInv, NEW w \in Workers, ClaimAgentAction(w)
  PROVE  IndInv'
<1> USE DEF IndInv, TypeOK
<1>0. current[w] \in Actions
  BY DEF ClaimAgentAction, WorkerHasAction
<1>1. CASE status[current[w]] # "pending"
  <2>1. CrewTypeOK' /\ CrewInv'
    BY <1>1, LeaveType, LeaveCrew DEF ClaimAgentAction, history
  <2>2. UNCHANGED <<ledger, history, cancelled>>
    BY <1>1 DEF ClaimAgentAction, ledger
  <2> QED
    BY <2>1, <2>2, SameLedger DEF CrewInv, LedgerInv
<1>2. CASE status[current[w]] = "pending"
  <2> DEFINE a == current[w]
  <2>0. /\ status' = [status EXCEPT ![a] = "running"]
        /\ gen' = [gen EXCEPT ![a] = gen[a] + 1]
        /\ lease' = [lease EXCEPT ![a] = LeaseSeconds]
        /\ pc' = [pc EXCEPT ![w] = "claimed"]
        /\ held' = [held EXCEPT ![w] = gen[a] + 1]
        /\ UNCHANGED <<current, outcome, obs, reconnects, cancelled, effects, granted>>
    BY <1>2 DEF ClaimAgentAction, history
  <2>1. LedgerTypeOK' /\ HistoryTypeOK'
    BY <1>0, <2>0, LeaseAssumption DEF LedgerTypeOK, HistoryTypeOK, Status
  <2>2. CrewTypeOK'
    BY <1>0, <2>0 DEF LedgerTypeOK, CrewTypeOK, Phase
  <2>3. ClaimBudget'
    BY <1>0, <1>2, <2>0 DEF LedgerTypeOK, HistoryTypeOK, ClaimBudget
  <2>4. ObservationIsCurrent'
    BY <1>0, <2>0 DEF LedgerTypeOK, ObservationIsCurrent
  <2>5. \A v \in Workers : pc[v] \in Claiming => current[v] \in Actions /\ held[v] \in 1..gen[current[v]]
    BY DEF WorkerHasAction
  <2>6. WorkerHasAction'
    BY <1>0, <2>0, <2>5 DEF LedgerTypeOK, CrewTypeOK, WorkerHasAction, Claiming
  <2>7. GenerationsDistinct'
    BY <1>0, <2>0, <2>5 DEF LedgerTypeOK, CrewTypeOK, GenerationsDistinct
  <2>8. gen[a] + 1 \in Generations
    BY <1>0, <1>2, RetryAssumption
       DEF LedgerTypeOK, HistoryTypeOK, ClaimBudget, Generations
  <2>9. OneEffectPerGeneration'
    <3>1. effects[a][gen[a] + 1] = 0
      BY <1>0, <2>8 DEF LedgerTypeOK, OneEffectPerGeneration
    <3> QED
      BY <1>0, <2>0, <2>8, <3>1
         DEF LedgerTypeOK, CrewTypeOK, OneEffectPerGeneration, Generations
  <2> QED
    BY <2>0, <2>1, <2>2, <2>3, <2>4, <2>6, <2>7, <2>9
<1> QED
  BY <1>1, <1>2

\* Returning from the tool call keeps the worker within its claim.
LEMMA ToolReturnsCrew ==
  ASSUME IndInv, NEW w \in Workers, NEW o \in Outcome, pc[w] = "executing",
         ToolReturns(w, o), UNCHANGED gen
  PROVE  WorkerHasAction' /\ GenerationsDistinct'
  BY DEF IndInv, TypeOK, CrewTypeOK, ToolReturns, WorkerHasAction,
         GenerationsDistinct, Claiming

\* The tool call: the generation that performs has not performed before, and
\* no other worker may still perform for it.
LEMMA PerformSteps ==
  ASSUME IndInv, NEW w \in Workers, Perform(w) \/ FailToPerform(w)
  PROVE  IndInv'
<1> USE DEF IndInv, TypeOK
<1>1. PICK o \in Outcome : ToolReturns(w, o)
  BY DEF Perform, FailToPerform
<1>2. /\ pc[w] = "executing"
      /\ UNCHANGED <<ledger, cancelled, granted>>
  BY DEF Perform, FailToPerform, history
<1>3. CrewTypeOK' /\ WorkerHasAction' /\ GenerationsDistinct'
  BY <1>1, <1>2, ToolReturnsType, ToolReturnsCrew DEF ledger
<1>4. LedgerTypeOK' /\ ClaimBudget' /\ ObservationIsCurrent'
  BY <1>2 DEF ledger, LedgerTypeOK, ClaimBudget, ObservationIsCurrent
<1>5. /\ current[w] \in Actions
      /\ held[w] \in 1..gen[current[w]]
      /\ held[w] \in Generations
      /\ effects[current[w]][held[w]] = 0
  BY <1>2, RetryAssumption
     DEF WorkerHasAction, OneEffectPerGeneration, ClaimBudget, Claiming, LedgerTypeOK,
         HistoryTypeOK, Generations
<1>6. CASE FailToPerform(w)
  <2>1. HistoryTypeOK'
    BY <1>6 DEF FailToPerform, HistoryTypeOK, history
  <2>2. OneEffectPerGeneration'
    BY <1>1, <1>2, <1>6
       DEF FailToPerform, ToolReturns, CrewTypeOK, OneEffectPerGeneration, ledger, history
  <2> QED
    BY <1>2, <1>3, <1>4, <2>1, <2>2
<1>7. CASE Perform(w)
  <2> DEFINE f == [g \in Generations |->
                     effects[current[w]][g] + (IF g = held[w] THEN 1 ELSE 0)]
  <2>1. f \in [Generations -> Nat]
    BY <1>5 DEF HistoryTypeOK
  <2>2. effects' = [effects EXCEPT ![current[w]] = f]
    BY <1>7 DEF Perform
  <2>3. f[held[w]] = 1 /\ \A g \in Generations : g # held[w] => f[g] = effects[current[w]][g]
    BY <1>5 DEF HistoryTypeOK
  <2> HIDE DEF f
  <2>4. HistoryTypeOK'
    BY <1>2, <2>1, <2>2 DEF HistoryTypeOK
  <2>5. \A a \in Actions : \A g \in Generations :
           effects'[a][g] = IF a = current[w] /\ g = held[w] THEN 1 ELSE effects[a][g]
    BY <1>5, <2>2, <2>3 DEF HistoryTypeOK
  <2>6. \A a \in Actions : \A g \in Generations :
           /\ effects'[a][g] <= 1
           /\ g > gen'[a] => effects'[a][g] = 0
    BY <1>2, <1>5, <2>5 DEF OneEffectPerGeneration, ledger, LedgerTypeOK
  <2>7. ASSUME NEW v \in Workers, pc'[v] \in {"claimed", "executing"}
        PROVE  effects'[current'[v]][held'[v]] = 0
    <3>1. v # w /\ pc[v] \in {"claimed", "executing"}
      BY <1>1, <2>7 DEF ToolReturns, CrewTypeOK
    <3>2. current'[v] = current[v] /\ held'[v] = held[v]
      BY <1>1 DEF ToolReturns
    <3>3. /\ current[v] \in Actions
          /\ held[v] \in 1..gen[current[v]]
          /\ held[v] \in Generations
          /\ effects[current[v]][held[v]] = 0
      BY <3>1, RetryAssumption
         DEF WorkerHasAction, OneEffectPerGeneration, ClaimBudget, Claiming,
             LedgerTypeOK, HistoryTypeOK, Generations
    <3>4. ~(current[v] = current[w] /\ held[v] = held[w])
      BY <1>2, <3>1 DEF GenerationsDistinct, Claiming
    <3> QED
      BY <2>5, <3>2, <3>3, <3>4
  <2> QED
    BY <1>2, <1>3, <1>4, <2>4, <2>6, <2>7 DEF OneEffectPerGeneration
<1> QED
  BY <1>6, <1>7

\* renew_agent_action_lease changes the lease only.
LEMMA RenewStep ==
  ASSUME IndInv, NEW w \in Workers, RenewAgentActionLease(w)
  PROVE  IndInv'
<1> USE DEF IndInv, TypeOK
<1>1. CrewTypeOK' /\ CrewInv'
  BY GotoType, GotoCrew, LeaveType, LeaveCrew
     DEF RenewAgentActionLease, Phase, Claiming, history
<1>2. LedgerTypeOK' /\ HistoryTypeOK'
  BY LeaseAssumption DEF RenewAgentActionLease, LedgerTypeOK, HistoryTypeOK, history
<1>3. ClaimBudget' /\ ObservationIsCurrent'
  BY DEF RenewAgentActionLease, ClaimBudget, ObservationIsCurrent, history
<1> QED
  BY <1>1, <1>2, <1>3 DEF RenewAgentActionLease, CrewInv

\* commit_agent_action_observation: behind the fence the worker's generation
\* is the action's, so the observation stored is the current one.
LEMMA CommitStep ==
  ASSUME IndInv, NEW w \in Workers, CommitAgentActionObservation(w)
  PROVE  IndInv'
<1> USE DEF IndInv, TypeOK
<1> DEFINE a == current[w]
<1>0. a \in Actions
  BY DEF CommitAgentActionObservation, WorkerHasAction, Claiming
<1>1. CASE ~LeaseHeld(a, held[w])
  <2>1. CrewTypeOK' /\ CrewInv'
    BY <1>1, LeaveType, LeaveCrew DEF CommitAgentActionObservation, ledger, history
  <2> QED
    BY <1>1, <2>1, SameLedger DEF CommitAgentActionObservation, CrewInv, LedgerInv
<1>2. CASE LeaseHeld(a, held[w])
  <2> DEFINE o == [outcome |-> outcome[w], gen |-> held[w]]
  <2>a. outcome[w] \in Outcome /\ held[w] \in Nat
    BY DEF CrewTypeOK
  <2>0. /\ Release(a, IF outcome[w] = "ok" THEN "succeeded" ELSE "failed")
        /\ obs' = [obs EXCEPT ![a] = o]
        /\ reconnects' = [reconnects EXCEPT ![a] = 0]
        /\ Goto(w, "observed")
        /\ pc[w] = "committing"
        /\ UNCHANGED <<cancelled, history>>
    BY <1>2 DEF CommitAgentActionObservation
  <2>1. o \in Observation /\ o.outcome # "none" /\ o.gen = held[w]
    BY <2>a DEF Observation, Outcome
  <2> HIDE DEF o
  <2>2. CrewTypeOK' /\ CrewInv'
    BY <1>0, <2>0, GotoType, GotoCrew DEF Release, Phase, Claiming, history
  <2>3. LedgerTypeOK' /\ HistoryTypeOK'
    <3>1. \E s \in Status : Release(a, s)
      BY <2>0 DEF Status
    <3>2. /\ status' \in [Actions -> Status]
          /\ gen' \in [Actions -> Nat]
          /\ lease' \in [Actions -> 0..LeaseSeconds]
      BY <1>0, <3>1, ReleaseType
    <3>3. obs' \in [Actions -> Observation]
      BY <2>0, <2>1 DEF LedgerTypeOK
    <3>4. reconnects' \in [Actions -> {0, 1}]
      BY <2>0 DEF LedgerTypeOK
    <3> QED
      BY <2>0, <3>2, <3>3, <3>4 DEF LedgerTypeOK, HistoryTypeOK, history
  <2>4. ClaimBudget'
    BY <1>0, <2>0 DEF LedgerTypeOK, ClaimBudget, Release, history
  <2>5. ObservationIsCurrent'
    BY <1>0, <1>2, <2>0, <2>1 DEF LedgerTypeOK, ObservationIsCurrent, Release, LeaseHeld
  <2> QED
    BY <2>0, <2>2, <2>3, <2>4, <2>5 DEF CrewInv
<1> QED
  BY <1>1, <1>2

\* observe_result: a failure is reopened as uncertain, or the loop goes on.
LEMMA ObserveResultStep ==
  ASSUME IndInv, NEW w \in Workers, ObserveResult(w)
  PROVE  IndInv'
<1> USE DEF IndInv, TypeOK
<1>1. CrewTypeOK' /\ CrewInv'
  BY GotoType, GotoCrew, LeaveType, LeaveCrew DEF ObserveResult, Phase, Claiming, history
<1>2. LedgerTypeOK' /\ HistoryTypeOK'
  BY DEF ObserveResult, LedgerTypeOK, HistoryTypeOK, Status, history
<1>3. ClaimBudget' /\ ObservationIsCurrent'
  BY DEF ObserveResult, LedgerTypeOK, ClaimBudget, ObservationIsCurrent, history
<1> QED
  BY <1>1, <1>2, <1>3 DEF ObserveResult, CrewInv

\* A person's verdict is an observation of its own; a retry pays for one claim.
LEMMA ResolveStep ==
  ASSUME IndInv, NEW a \in Actions, ResolveUncertainAgentAction(a)
  PROVE  IndInv'
<1> USE DEF IndInv, TypeOK
<1> DEFINE yes == [outcome |-> "ok", gen |-> 0]
           no == [outcome |-> "error", gen |-> 0]
<1>1. CASE SendBack(a)
  <2>1. LedgerTypeOK' /\ HistoryTypeOK'
    BY <1>1, SendBackType DEF ResolveUncertainAgentAction, LedgerTypeOK, HistoryTypeOK
  <2>2. LedgerInv' /\ gen' = gen
    BY <1>1, SendBackLedger
  <2>3. CrewTypeOK' /\ CrewInv'
    BY <2>2, SameCrew DEF ResolveUncertainAgentAction, CrewTypeOK, crew
  <2> QED
    BY <2>1, <2>2, <2>3 DEF ResolveUncertainAgentAction, LedgerInv, CrewInv
<1>2. ASSUME NEW s \in {"succeeded", "failed"}, NEW o \in {yes, no},
             Release(a, s), obs' = [obs EXCEPT ![a] = o],
             UNCHANGED <<granted, reconnects, crew, cancelled, effects>>
      PROVE  IndInv'
  <2>0. o \in Observation /\ o.outcome # "none" /\ o.gen = 0
    BY DEF Observation, Outcome
  <2> HIDE DEF yes, no
  <2>1. LedgerTypeOK' /\ HistoryTypeOK'
    BY <1>2, <2>0, LeaseAssumption DEF LedgerTypeOK, HistoryTypeOK, Release, Status
  <2>2. ClaimBudget'
    BY <1>2 DEF LedgerTypeOK, ClaimBudget, Release
  <2>3. ObservationIsCurrent'
    BY <1>2, <2>0 DEF LedgerTypeOK, ObservationIsCurrent, Release
  <2>4. CrewTypeOK' /\ CrewInv'
    BY <1>2, SameCrew DEF CrewTypeOK, crew, Release
  <2> QED
    BY <1>2, <2>1, <2>2, <2>3, <2>4 DEF CrewInv
<1> QED
  BY <1>1, <1>2 DEF ResolveUncertainAgentAction

\* A reconnection sends the action back in the same way.
LEMMA ReconnectStep ==
  ASSUME IndInv, NEW a \in Actions, RetryConnectorActionAfterReconnect(a)
  PROVE  IndInv'
<1> USE DEF IndInv, TypeOK
<1>1. LedgerTypeOK' /\ HistoryTypeOK'
  BY SendBackType DEF RetryConnectorActionAfterReconnect, LedgerTypeOK, HistoryTypeOK
<1>2. LedgerInv' /\ gen' = gen
  BY SendBackLedger DEF RetryConnectorActionAfterReconnect
<1>3. CrewTypeOK' /\ CrewInv'
  BY <1>2, SameCrew DEF RetryConnectorActionAfterReconnect, CrewTypeOK, crew
<1> QED
  BY <1>1, <1>2, <1>3 DEF RetryConnectorActionAfterReconnect, LedgerInv, CrewInv

\* Cancelling and retrying the run, and the clock.
LEMMA RunSteps ==
  ASSUME IndInv, CancelRun \/ RequestRunRetry \/ Tick
  PROVE  IndInv'
<1> USE DEF IndInv, TypeOK
<1>1. CASE CancelRun
  <2>1. CASE UNCHANGED ledger
    <3>1. CrewTypeOK' /\ CrewInv'
      BY <1>1, <2>1, SameCrew DEF CancelRun, CrewTypeOK, crew, ledger, history
    <3>2. cancelled' \in BOOLEAN
      BY <1>1 DEF CancelRun
    <3> QED
      BY <1>1, <2>1, <3>1, <3>2, SameLedger DEF CancelRun, CrewInv, LedgerInv
  <2>2. ASSUME NEW a \in Actions, CancelAgentAction(a) PROVE IndInv'
    <3>1. LedgerTypeOK' /\ LedgerInv' /\ gen' = gen
      BY <1>1, <2>2, CancelType, CancelLedger DEF CancelRun, history
    <3>2. CrewTypeOK' /\ CrewInv'
      BY <1>1, <3>1, SameCrew DEF CancelRun, CrewTypeOK, crew, history
    <3>3. HistoryTypeOK'
      BY <1>1 DEF CancelRun, HistoryTypeOK, history
    <3>4. cancelled' \in BOOLEAN
      BY <1>1 DEF CancelRun
    <3> QED
      BY <3>1, <3>2, <3>3, <3>4 DEF CrewInv, LedgerInv
  <2> QED
    BY <1>1, <2>1, <2>2 DEF CancelRun
<1>2. CASE RequestRunRetry
  <2>1. CrewTypeOK' /\ CrewInv'
    BY <1>2, SameCrew DEF RequestRunRetry, CrewTypeOK, crew, ledger, history
  <2>2. cancelled' \in BOOLEAN
    BY <1>2 DEF RequestRunRetry
  <2> QED
    BY <1>2, <2>1, <2>2, SameLedger DEF RequestRunRetry, CrewInv, LedgerInv
<1>3. CASE Tick
  <2>1. CrewTypeOK' /\ CrewInv'
    BY <1>3, SameCrew DEF Tick, CrewTypeOK, crew, history
  <2>2. LedgerTypeOK' /\ HistoryTypeOK'
    BY <1>3, LeaseAssumption DEF Tick, LedgerTypeOK, HistoryTypeOK, history
  <2>3. ClaimBudget' /\ ObservationIsCurrent'
    BY <1>3 DEF Tick, ClaimBudget, ObservationIsCurrent, history
  <2> QED
    BY <1>3, <2>1, <2>2, <2>3 DEF Tick, CrewInv
<1> QED
  BY <1>1, <1>2, <1>3

-----------------------------------------------------------------------------
(* The theorems *)

\* IndInv is inductive.
LEMMA IndInvStep == IndInv /\ [Next]_vars => IndInv'
<1> SUFFICES ASSUME IndInv, [Next]_vars PROVE IndInv'
  OBVIOUS
<1>1. ASSUME NEW w \in Workers, Execute(w) \/ Crash(w) PROVE IndInv'
  BY <1>1, ObserveSteps, DecideSteps, StopStep, ClaimStep, PerformSteps, RenewStep,
     CommitStep, ObserveResultStep DEF Execute
<1>2. CASE UNCHANGED vars
  <2>1. CrewTypeOK' /\ CrewInv'
    BY <1>2, SameCrew DEF IndInv, TypeOK, CrewTypeOK, vars, crew, ledger, history
  <2> QED
    BY <1>2, <2>1, SameLedger DEF IndInv, TypeOK, vars, CrewInv, LedgerInv
<1> QED
  BY <1>1, <1>2, ResolveStep, ReconnectStep, RunSteps DEF Next

\* In every state of the ledger the inductive invariant holds.
THEOREM LedgerInvariant == Spec => []IndInv
  BY InitIndInv, IndInvStep, PTL DEF Spec

\* The rows of the ledger, the workers' memory and the histories keep their
\* types in every behaviour.
THEOREM TypeCorrect == Spec => []TypeOK
<1>1. IndInv => TypeOK
  BY DEF IndInv
<1> QED
  BY <1>1, LedgerInvariant, PTL

\* _execute_durable_action performs a side effect at most once per
\* authorisation (creation, human retry or reconnection), for any number of
\* overlapping, crashing and late workers.
THEOREM AtMostOncePerAuthorisation == Spec => []EffectsAuthorised
<1>1. ASSUME IndInv PROVE EffectsAuthorised
  <2>1. SUFFICES ASSUME NEW a \in Actions, NEW g \in Generations
                 PROVE  effects[a][g] <= 1 /\ (effects[a][g] > 0 => g <= granted[a] + 1)
    BY DEF EffectsAuthorised
  <2>2. gen[a] \in Nat /\ granted[a] \in Nat /\ effects[a][g] \in Nat /\ g \in Nat
    BY <1>1, RetryAssumption
       DEF IndInv, TypeOK, LedgerTypeOK, HistoryTypeOK, Generations
  <2>3. /\ effects[a][g] <= 1
        /\ g > gen[a] => effects[a][g] = 0
        /\ gen[a] <= granted[a] + 1
    BY <1>1 DEF IndInv, OneEffectPerGeneration, ClaimBudget
  <2> QED
    BY <2>2, <2>3
<1> QED
  BY <1>1, LedgerInvariant, PTL

\* A settled action never carries the observation of a superseded execution.
THEOREM NoLateObservation == Spec => []ObservationIsCurrent
<1>1. IndInv => ObservationIsCurrent
  BY DEF IndInv
<1> QED
  BY <1>1, LedgerInvariant, PTL

\* At most one worker at a time passes the fence of renewal and commit.
THEOREM FenceIsExclusive == Spec => []SingleHolder
<1>1. IndInv => SingleHolder
  BY DEF IndInv, GenerationsDistinct, SingleHolder, Holds, LeaseHeld
<1> QED
  BY <1>1, LedgerInvariant, PTL

\* A status that Release gives to an action that was not settled, or a
\* cancellation, settles or reopens nothing else.
LEMMA ReleaseSettled ==
  ASSUME TypeOK, NEW b \in Actions, NEW s, Release(b, s), NEW a \in Actions,
         status[b] \in {"pending", "running", "uncertain"},
         \A c \in Actions : c # b => obs'[c] = obs[c]
  PROVE  SettledStays(a)
  BY DEF TypeOK, LedgerTypeOK, Release, SettledStays

\* No step of a worker, of the API or of the clock changes a settled action,
\* except that observe_result reopens a failure for an expired credential.
THEOREM SettledActionsAreFinal == Spec => SettledIsFinal
<1>1. ASSUME IndInv, [Next]_vars, NEW a \in Actions PROVE SettledStays(a)
  <2> USE <1>1 DEF IndInv
  <2>1. CASE UNCHANGED <<status, obs>>
    BY <2>1 DEF SettledStays
  <2>2. ASSUME NEW b \in Actions, CancelAgentAction(b) PROVE SettledStays(a)
    BY <2>1, <2>2, ReleaseSettled DEF CancelAgentAction, ledger
  <2>3. ASSUME NEW w \in Workers, Execute(w) \/ Crash(w) PROVE SettledStays(a)
    <3>1. CASE RecoverExpiredAgentActions(w)
      BY <3>1 DEF RecoverExpiredAgentActions, SettledStays
    <3>2. CASE Decide(w)
      BY <3>2 DEF Decide, SettledStays, TypeOK, LedgerTypeOK
    <3>3. CASE StopIfCancelled(w)
      <4>1. current[w] \in Actions
        BY <3>3 DEF StopIfCancelled, WorkerHasAction, Claiming
      <4> QED
        BY <2>1, <2>2, <3>3, <4>1 DEF StopIfCancelled, ledger
    <3>4. CASE ClaimAgentAction(w)
      BY <3>4 DEF ClaimAgentAction, SettledStays, TypeOK, LedgerTypeOK
    <3>5. CASE CommitAgentActionObservation(w)
      <4>1. current[w] \in Actions
        BY <3>5 DEF CommitAgentActionObservation, WorkerHasAction, Claiming
      <4>2. CASE LeaseHeld(current[w], held[w])
        <5>1. \A c \in Actions : c # current[w] => obs'[c] = obs[c]
          BY <3>5, <4>2 DEF CommitAgentActionObservation, TypeOK, LedgerTypeOK
        <5>2. PICK s : Release(current[w], s)
          BY <3>5, <4>2 DEF CommitAgentActionObservation
        <5> QED
          BY <4>1, <4>2, <5>1, <5>2, ReleaseSettled DEF LeaseHeld
      <4>3. CASE ~LeaseHeld(current[w], held[w])
        BY <2>1, <3>5, <4>3 DEF CommitAgentActionObservation, ledger
      <4> QED
        BY <4>2, <4>3
    <3>6. CASE ObserveResult(w)
      BY <3>6 DEF ObserveResult, ReconnectEligible, SettledStays, TypeOK, LedgerTypeOK
    <3>7. CASE \/ Observe(w) \/ UpdateRunStatusRunning(w) \/ Route(w)
               \/ PolicyPause(w) \/ Perform(w) \/ FailToPerform(w)
               \/ RenewAgentActionLease(w) \/ Crash(w)
      BY <2>1, <3>7 DEF Observe, UpdateRunStatusRunning, Route, PolicyPause, Perform,
         FailToPerform, RenewAgentActionLease, Crash, ledger
    <3> QED
      BY <2>3, <3>1, <3>2, <3>3, <3>4, <3>5, <3>6, <3>7 DEF Execute
  <2>4. ASSUME NEW b \in Actions,
               ResolveUncertainAgentAction(b) \/ RetryConnectorActionAfterReconnect(b)
        PROVE  SettledStays(a)
    <3>1. \A c \in Actions : c # b => obs'[c] = obs[c]
      BY <2>4 DEF ResolveUncertainAgentAction, RetryConnectorActionAfterReconnect,
                  SendBack, TypeOK, LedgerTypeOK
    <3>2. PICK s : Release(b, s)
      BY <2>4 DEF ResolveUncertainAgentAction, RetryConnectorActionAfterReconnect, SendBack
    <3> QED
      BY <2>4, <3>1, <3>2, ReleaseSettled
         DEF ResolveUncertainAgentAction, RetryConnectorActionAfterReconnect
  <2>5. CASE CancelRun \/ RequestRunRetry \/ Tick \/ UNCHANGED vars
    BY <2>1, <2>2, <2>5 DEF CancelRun, RequestRunRetry, Tick, vars, ledger
  <2> QED
    BY <2>3, <2>4, <2>5 DEF Next
<1>2. IndInv /\ [Next]_vars => [\A a \in Actions : SettledStays(a)]_vars
  BY <1>1
<1> QED
  BY <1>2, LedgerInvariant, PTL DEF Spec, SettledIsFinal

-----------------------------------------------------------------------------
(* The ledger implements SideEffects *)

\* The verdict an observer of SideEffects sees for a status.
Verdict(s) == IF s \in Open THEN "open" ELSE s

\* Nothing an observer of SideEffects sees has changed.
Unseen ==
    /\ UNCHANGED <<granted, effects>>
    /\ \A a \in Actions : Verdict(status'[a]) = Verdict(status[a])

\* An unseen step is a stutter of SideEffects.
LEMMA UnseenStutters == Unseen => UNCHANGED Promise!vars
  BY DEF Unseen, Verdict, Promise!vars

\* What Release does to one status.
LEMMA ReleaseStatus ==
  ASSUME TypeOK, NEW a \in Actions, NEW s, Release(a, s)
  PROVE  /\ status'[a] = s
         /\ \A b \in Actions : b # a => status'[b] = status[b]
  BY DEF TypeOK, LedgerTypeOK, Release

\* An action that was open gets its final status.
LEMMA ReleaseSettles ==
  ASSUME TypeOK, NEW a \in Actions, NEW s \in {"succeeded", "failed", "cancelled"},
         Release(a, s), status[a] \in Open, UNCHANGED <<granted, effects>>
  PROVE  Promise!Settle(a)
<1> DEFINE old == [b \in Actions |-> IF status[b] \in Open THEN "open" ELSE status[b]]
           new == [b \in Actions |-> IF status'[b] \in Open THEN "open" ELSE status'[b]]
<1>1. status'[a] = s /\ \A b \in Actions : b # a => status'[b] = status[b]
  BY ReleaseStatus
<1>2. old[a] = "open"
  OBVIOUS
<1>3. new = [old EXCEPT ![a] = s]
  BY <1>1 DEF Open
<1> QED
  BY <1>2, <1>3 DEF Promise!Settle

\* A cancelled action is settled, or was and stays it.
LEMMA CancelSettles ==
  ASSUME TypeOK, NEW a \in Actions, CancelAgentAction(a), UNCHANGED <<granted, effects>>
  PROVE  Promise!Settle(a) \/ Unseen
<1>1. CASE UNCHANGED ledger
  BY <1>1 DEF Unseen, ledger
<1>2. CASE status[a] \in {"pending", "running", "uncertain"} /\ Release(a, "cancelled")
  BY <1>2, ReleaseSettles DEF Open
<1> QED
  BY <1>1, <1>2 DEF CancelAgentAction

\* An action that is sent back gets one more permission.
LEMMA SendBackPermits ==
  ASSUME TypeOK, NEW a \in Actions, SendBack(a), status[a] = "uncertain",
         UNCHANGED effects
  PROVE  Promise!Permit(a)
<1> DEFINE old == [b \in Actions |-> IF status[b] \in Open THEN "open" ELSE status[b]]
           new == [b \in Actions |-> IF status'[b] \in Open THEN "open" ELSE status'[b]]
           had == [b \in Actions |-> granted[b] + 1]
           has == [b \in Actions |-> granted'[b] + 1]
<1>1. status'[a] = "pending" /\ \A b \in Actions : b # a => status'[b] = status[b]
  BY ReleaseStatus DEF SendBack
<1>2. old[a] = "open" /\ new = old
  BY <1>1 DEF Open
<1>3. granted \in [Actions -> 0..MaxRetry]
  BY DEF TypeOK, HistoryTypeOK
<1>4. granted' = [granted EXCEPT ![a] = @ + 1]
  BY DEF SendBack
<1>5. has = [had EXCEPT ![a] = @ + 1]
  BY <1>3, <1>4
<1> QED
  BY <1>2, <1>5 DEF Promise!Permit

\* A failed action is open again.
LEMMA FailureReopens ==
  ASSUME TypeOK, NEW a \in Actions, status[a] = "failed",
         status' = [status EXCEPT ![a] = "uncertain"], UNCHANGED <<granted, effects>>
  PROVE  Promise!Reopen(a)
<1> DEFINE old == [b \in Actions |-> IF status[b] \in Open THEN "open" ELSE status[b]]
           new == [b \in Actions |-> IF status'[b] \in Open THEN "open" ELSE status'[b]]
<1>1. status'[a] = "uncertain" /\ \A b \in Actions : b # a => status'[b] = status[b]
  BY DEF TypeOK, LedgerTypeOK
<1>2. old[a] = "failed"
  BY DEF Open
<1>3. new = [old EXCEPT ![a] = "open"]
  BY <1>1 DEF Open
<1> QED
  BY <1>2, <1>3 DEF Promise!Reopen

\* A tool call uses the permission whose generation its worker holds.
LEMMA PerformUsesPermit ==
  ASSUME IndInv, NEW w \in Workers, Perform(w)
  PROVE  \E a \in Actions : \E g \in Generations : Promise!Perform(a, g)
<1> DEFINE a == current[w]
           g == held[w]
<1>1. pc[w] = "executing" /\ a \in Actions /\ g \in 1..gen[a]
  BY DEF Perform, IndInv, WorkerHasAction, Claiming
<1>2. /\ gen[a] <= granted[a] + 1 /\ gen[a] \in Nat /\ granted[a] \in 0..MaxRetry
      /\ effects[a] \in [Generations -> Nat]
  BY <1>1 DEF IndInv, ClaimBudget, TypeOK, LedgerTypeOK, HistoryTypeOK
<1>3. g \in Generations /\ g <= granted[a] + 1
  BY <1>1, <1>2, RetryAssumption DEF Generations
<1>4. effects[a][g] = 0
  BY <1>1 DEF IndInv, OneEffectPerGeneration
<1>5. [h \in Generations |-> effects[a][h] + (IF h = g THEN 1 ELSE 0)]
        = [effects[a] EXCEPT ![g] = 1]
  <2>1. \A h \in Generations : effects[a][h] \in Nat
    BY <1>2
  <2> QED
    BY <1>2, <1>3, <1>4, <2>1
<1>6. effects' = [effects EXCEPT ![a] = [@ EXCEPT ![g] = 1]]
  BY <1>5 DEF Perform
<1>7. UNCHANGED <<granted, status>>
  BY DEF Perform, ledger
<1>8. Promise!Perform(a, g)
  BY <1>1, <1>3, <1>4, <1>6, <1>7 DEF Promise!Perform
<1> QED
  BY <1>1, <1>3, <1>8

\* Every step of the ledger is a step of SideEffects or is not seen by it.
LEMMA StepKeepsPromise ==
  ASSUME IndInv, [Next]_vars
  PROVE  [Promise!Next]_(Promise!vars)
<1> SUFFICES Promise!Next \/ Unseen
  BY UnseenStutters
<1>1. TypeOK
  BY DEF IndInv
<1>2. ASSUME NEW a \in Actions, CancelAgentAction(a), UNCHANGED <<granted, effects>>
      PROVE  Promise!Next \/ Unseen
  BY <1>1, <1>2, CancelSettles DEF Promise!Next
<1>3. ASSUME NEW w \in Workers, Execute(w) \/ Crash(w) PROVE Promise!Next \/ Unseen
  <2>1. CASE Perform(w)
    BY <2>1, PerformUsesPermit DEF Promise!Next
  <2>2. CASE StopIfCancelled(w)
    <3>1. current[w] \in Actions
      BY <2>2 DEF StopIfCancelled, IndInv, WorkerHasAction, Claiming
    <3> QED
      BY <1>2, <2>2, <3>1 DEF StopIfCancelled, Unseen, ledger, history
  <2>3. CASE CommitAgentActionObservation(w)
    <3>1. current[w] \in Actions
      BY <2>3 DEF CommitAgentActionObservation, IndInv, WorkerHasAction, Claiming
    <3>2. CASE LeaseHeld(current[w], held[w])
      <4>1. \E s \in {"succeeded", "failed", "cancelled"} : Release(current[w], s)
        BY <2>3, <3>2 DEF CommitAgentActionObservation
      <4>2. status[current[w]] \in Open /\ UNCHANGED <<granted, effects>>
        BY <2>3, <3>2 DEF CommitAgentActionObservation, LeaseHeld, Open, history
      <4> QED
        BY <1>1, <3>1, <4>1, <4>2, ReleaseSettles DEF Promise!Next
    <3>3. CASE ~LeaseHeld(current[w], held[w])
      BY <2>3, <3>3 DEF CommitAgentActionObservation, Unseen, ledger, history
    <3> QED
      BY <3>2, <3>3
  <2>4. CASE ObserveResult(w)
    <3>1. current[w] \in Actions
      BY <2>4 DEF ObserveResult, IndInv, WorkerHasAction, Claiming
    <3>2. CASE status' = status
      BY <2>4, <3>2 DEF ObserveResult, Unseen, history
    <3>3. CASE /\ status[current[w]] = "failed"
               /\ status' = [status EXCEPT ![current[w]] = "uncertain"]
      BY <1>1, <2>4, <3>1, <3>3, FailureReopens DEF ObserveResult, Promise!Next, history
    <3> QED
      BY <2>4, <3>2, <3>3 DEF ObserveResult, ReconnectEligible
  <2>5. CASE RecoverExpiredAgentActions(w)
    BY <2>5 DEF RecoverExpiredAgentActions, Unseen, Verdict, Open, history
  <2>6. CASE Decide(w)
    BY <1>1, <2>6 DEF Decide, Unseen, Verdict, Open, history, TypeOK, LedgerTypeOK
  <2>7. CASE ClaimAgentAction(w)
    BY <1>1, <2>7 DEF ClaimAgentAction, Unseen, Verdict, Open, history, TypeOK,
                      LedgerTypeOK
  <2>8. CASE \/ Observe(w) \/ UpdateRunStatusRunning(w) \/ Route(w) \/ PolicyPause(w)
             \/ FailToPerform(w) \/ RenewAgentActionLease(w) \/ Crash(w)
    BY <2>8 DEF Observe, UpdateRunStatusRunning, Route, PolicyPause, FailToPerform,
                RenewAgentActionLease, Crash, Unseen, ledger, history
  <2> QED
    BY <1>3, <2>1, <2>2, <2>3, <2>4, <2>5, <2>6, <2>7, <2>8 DEF Execute
<1>4. ASSUME NEW a \in Actions,
             ResolveUncertainAgentAction(a) \/ RetryConnectorActionAfterReconnect(a)
      PROVE  Promise!Next \/ Unseen
  <2>1. status[a] = "uncertain" /\ status[a] \in Open /\ UNCHANGED effects
    BY <1>4 DEF ResolveUncertainAgentAction, RetryConnectorActionAfterReconnect, Open
  <2>2. CASE SendBack(a)
    BY <1>1, <2>1, <2>2, SendBackPermits DEF Promise!Next
  <2>3. CASE \/ Release(a, "succeeded") /\ UNCHANGED granted
             \/ Release(a, "failed") /\ UNCHANGED granted
    BY <1>1, <2>1, <2>3, ReleaseSettles DEF Promise!Next
  <2> QED
    BY <1>4, <2>2, <2>3
       DEF ResolveUncertainAgentAction, RetryConnectorActionAfterReconnect
<1>5. CASE CancelRun \/ RequestRunRetry \/ Tick \/ UNCHANGED vars
  BY <1>2, <1>5 DEF CancelRun, RequestRunRetry, Tick, vars, Unseen, ledger, history
<1> QED
  BY <1>3, <1>4, <1>5 DEF Next

\* The ledger implements SideEffects for any number of actions, executions and
\* retries and any lease: an observer of tool calls, permissions and verdicts sees
\* each permission used at most once and no verdict overturned, except that a
\* failure for an expired credential is reopened.
THEOREM LedgerKeepsPromise == Spec => KeepsPromise
<1>1. Init => Promise!Init
  BY RetryAssumption DEF Init, Promise!Init, Open
<1>2. IndInv /\ [Next]_vars => [Promise!Next]_(Promise!vars)
  BY StepKeepsPromise
<1> QED
  BY <1>1, <1>2, LedgerInvariant, PTL DEF Spec, KeepsPromise, Promise!Spec

=============================================================================
