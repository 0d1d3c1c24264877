----------------------------- MODULE MCWorkflow -----------------------------
(* The task graph of the run.                                               *)
EXTENDS Workflow, TLC

CONSTANTS t1, t2

\* One task after the other.
Chain == [t \in {t1, t2} |-> IF t = t2 THEN {t1} ELSE {}]

\* Workers are alike, and so are users.
Symmetry == Permutations(Workers) \cup Permutations(Users)
=============================================================================
