----------------------------- MODULE OncePerKey -----------------------------
(***************************************************************************)
(* What an idempotency key promises a client: all requests that carry the  *)
(* key are answered with the result of one execution, or are refused.  The *)
(* promise is off once an execution has outlived its reservation.          *)
(***************************************************************************)
CONSTANTS Requests, None, Refused

VARIABLES
    result,   \* the request whose result is the key's answer, or None
    answers,  \* answers[r]: None, Refused, or the request whose result r got
    kept      \* FALSE once an execution has outlived its reservation

vars == <<result, answers, kept>>

Init ==
    /\ result = None
    /\ answers = [r \in Requests |-> None]
    /\ kept = TRUE

\* r was the one to execute, and is answered with its own result.
Execute(r) ==
    /\ kept /\ result = None /\ answers[r] = None
    /\ result' = r
    /\ answers' = [answers EXCEPT ![r] = r]
    /\ UNCHANGED kept

\* r gets the answer another request has produced.
Replay(r) ==
    /\ kept /\ result # None /\ answers[r] = None
    /\ answers' = [answers EXCEPT ![r] = result]
    /\ UNCHANGED <<result, kept>>

\* r gets an error, which promises nothing.
Refuse(r) ==
    /\ kept /\ answers[r] = None
    /\ answers' = [answers EXCEPT ![r] = Refused]
    /\ UNCHANGED <<result, kept>>

\* The reservation expires under a live execution; from then on anything goes.
Outlive == kept /\ ~kept' /\ UNCHANGED <<result, answers>>

Unprotected == ~kept /\ ~kept'

Next ==
    \/ \E r \in Requests : Execute(r) \/ Replay(r) \/ Refuse(r)
    \/ Outlive
    \/ Unprotected

Spec == Init /\ [][Next]_vars
=============================================================================
