---------------------------- MODULE SideEffects ----------------------------
(***************************************************************************)
(* What the action ledger promises, without workers, leases or a clock: a  *)
(* tool call is performed at most once per permission, permissions come    *)
(* from the model's decision and then only from a person or a reconnected  *)
(* connector while the action is open, and a verdict stands.               *)
(***************************************************************************)
EXTENDS Naturals

CONSTANTS Actions, Generations

VARIABLES
    permits,    \* permits[a]: permissions given so far
    performed,  \* performed[a][g]: uses of the g-th permission
    verdict     \* verdict[a]: "open" or the final status

vars == <<permits, performed, verdict>>

Init ==
    /\ permits = [a \in Actions |-> 1]
    /\ performed = [a \in Actions |-> [g \in Generations |-> 0]]
    /\ verdict = [a \in Actions |-> "open"]

\* An effect uses up a permission; it may come late, when the verdict of a
\* person is in already.
Perform(a, g) ==
    /\ g <= permits[a] /\ performed[a][g] = 0
    /\ performed' = [performed EXCEPT ![a] = [@ EXCEPT ![g] = 1]]
    /\ UNCHANGED <<permits, verdict>>

\* A person or a reconnection allows another attempt.
Permit(a) ==
    /\ verdict[a] = "open"
    /\ permits' = [permits EXCEPT ![a] = @ + 1]
    /\ UNCHANGED <<performed, verdict>>

Settle(a) ==
    /\ verdict[a] = "open"
    /\ \E v \in {"succeeded", "failed", "cancelled"} :
         verdict' = [verdict EXCEPT ![a] = v]
    /\ UNCHANGED <<permits, performed>>

\* A failure for an expired credential is opened again.
Reopen(a) ==
    /\ verdict[a] = "failed"
    /\ verdict' = [verdict EXCEPT ![a] = "open"]
    /\ UNCHANGED <<permits, performed>>

Next ==
    \E a \in Actions : \/ \E g \in Generations : Perform(a, g)
                       \/ Permit(a) \/ Settle(a) \/ Reopen(a)

Spec == Init /\ [][Next]_vars
=============================================================================
