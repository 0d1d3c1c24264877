--------------------------- MODULE CodingWorkspaces ---------------------------
(***************************************************************************)
(* The coding workspace of a run (coding_workspaces/service.py and           *)
(* repository.py, agent/runtime.py _ensure_coding_workspace, app.py).  The   *)
(* runner reports changes, tests, checkpoints and deliveries; a worker makes *)
(* sure the run has a workspace, starts an engine session, which takes a     *)
(* while, and attaches it.  Evidence is appended in a transaction of its own *)
(* and the workspace row is saved afterwards, whole, as it was read before.  *)
(***************************************************************************)
EXTENDS Naturals, Sequences, FiniteSets

CONSTANTS Requests,
          Heads,       \* revisions a report may name
          MaxEvidence, \* reports stored
          MaxStarted,  \* requests made
          MaxTrouble   \* requests that die

None == "none"

VARIABLES bound,    \* the repository binding is active
          row,      \* the run's workspace row: status, head revision, engine session attached
          evidence, \* the reports, in the order they were stored
          req, started,
          crossed,  \* two requests overlapped or one stopped half-way
          trouble

vars == <<bound, row, evidence, req, started, crossed, trouble>>

NoRow == [status |-> None, head |-> None, engine |-> FALSE]
NoReport == [kind |-> None, ok |-> FALSE, head |-> None]
Idle == [pc |-> None, row |-> NoRow, report |-> NoReport]

Init == /\ bound = TRUE /\ row = NoRow /\ evidence = <<>>
        /\ req = [p \in Requests |-> Idle] /\ started = 0 /\ crossed = FALSE /\ trouble = 0

Begin(p) == /\ req[p] = Idle /\ started < MaxStarted /\ started' = started + 1
            /\ crossed' = (crossed \/ \E q \in Requests : req[q] # Idle)
At(p, pc) == req[p].pc = pc /\ UNCHANGED <<bound, started, crossed, trouble>>

-----------------------------------------------------------------------------
\* create_workspace: the binding must be active, and a run has one workspace
\* (a unique key).  The endpoint asks for it outright.
Creatable == bound /\ row = NoRow

CreateWorkspace(p) ==
    /\ Begin(p) /\ Creatable /\ row' = [NoRow EXCEPT !.status = "preparing"]
    /\ UNCHANGED <<bound, evidence, req, trouble>>

\* _ensure_coding_workspace: the one the run has, or else a new one.
Ensure(p) ==
    /\ Begin(p)
    /\ req' = [req EXCEPT ![p] = IF row # NoRow THEN [Idle EXCEPT !.pc = "attach", !.row = row]
                                               ELSE [Idle EXCEPT !.pc = "create"]]
    /\ UNCHANGED <<bound, row, evidence, trouble>>

EnsureCreates(p) ==
    /\ At(p, "create")
    /\ IF Creatable THEN /\ row' = [NoRow EXCEPT !.status = "preparing"]
                         /\ req' = [req EXCEPT ![p].pc = "attach", ![p].row = row']
                    ELSE row' = row /\ req' = [req EXCEPT ![p] = Idle]
    /\ UNCHANGED evidence

\* The engine session has been started meanwhile; the row goes back as it was
\* read, with the session.
Attach(p) ==
    /\ At(p, "attach") /\ row' = [req[p].row EXCEPT !.engine = TRUE]
    /\ req' = [req EXCEPT ![p] = Idle] /\ UNCHANGED evidence

-----------------------------------------------------------------------------
\* A report: the row is read, the evidence stored, and then the row saved;
\* a failed test, a failed delivery and a checkpoint leave the row alone.
MutOrder == [read |-> "save", save |-> "store", store |-> None]
Order == [read |-> "store", store |-> "save", save |-> None]

Onward(r) == IF Order[r.pc] = None \/ (Order[r.pc] = "save" /\ ~r.report.ok) THEN Idle
             ELSE [r EXCEPT !.pc = Order[@]]

Report(p, kind, ok, head) ==
    /\ Begin(p) /\ row # NoRow /\ Len(evidence) < MaxEvidence
    /\ req' = [req EXCEPT ![p] = [pc |-> Order["read"], row |-> row,
                                  report |-> [kind |-> kind, ok |-> ok, head |-> head]]]
    /\ UNCHANGED <<bound, row, evidence, trouble>>

SubmitChanges(p, head) == Report(p, "changes", TRUE, head)
AddTest(p, ok) == Report(p, "test", ok, None)
AddCheckpoint(p) == Report(p, "checkpoint", FALSE, None)
AddDelivery(p, ok, head) == Report(p, "delivery", ok, head)

StoreReport(p) ==
    /\ At(p, "store") /\ evidence' = Append(evidence, req[p].report)
    /\ req' = [req EXCEPT ![p] = Onward(@)] /\ UNCHANGED row

MutStatusAfter == [changes |-> row.status, test |-> "tested", delivery |-> "delivered"]
StatusAfter == [changes |-> "dirty", test |-> "tested", delivery |-> "delivered"]

\* Changes name the new head, or none; a delivery keeps it unless it has a commit.
MutHeadAfter(r, e) == IF e.kind \in {"changes", "delivery"} THEN e.head ELSE r.head
HeadAfter(r, e) == IF e.kind = "changes" \/ (e.kind = "delivery" /\ e.head # None) THEN e.head ELSE r.head

SaveWorkspace(p) ==
    /\ At(p, "save")
    /\ row' = [req[p].row EXCEPT !.status = StatusAfter[req[p].report.kind],
                                 !.head = HeadAfter(req[p].row, req[p].report)]
    /\ req' = [req EXCEPT ![p] = Onward(@)] /\ UNCHANGED evidence

UpdateRepository == /\ bound' = ~bound /\ started < MaxStarted /\ started' = started + 1
                    /\ UNCHANGED <<row, evidence, req, crossed, trouble>>

Die(p) == /\ req[p] # Idle /\ trouble < MaxTrouble /\ trouble' = trouble + 1 /\ crossed' = TRUE
          /\ req' = [req EXCEPT ![p] = Idle] /\ UNCHANGED <<bound, row, evidence, started>>

Next == \/ \E p \in Requests :
             \/ CreateWorkspace(p) \/ Ensure(p) \/ EnsureCreates(p) \/ Attach(p)
             \/ StoreReport(p) \/ SaveWorkspace(p) \/ Die(p) \/ AddCheckpoint(p)
             \/ \E ok \in BOOLEAN : AddTest(p, ok)
             \/ \E h \in Heads \cup {None} : \/ SubmitChanges(p, h)
                                             \/ \E ok \in BOOLEAN : AddDelivery(p, ok, h)
        \/ UpdateRepository

Spec == Init /\ [][Next]_vars

-----------------------------------------------------------------------------
\* The reports of some kind, stored after the i-th.
Since(i, kind) == {j \in (i + 1)..Len(evidence) : evidence[j].kind = kind}

\* A workspace says "tested" only of the code the passing test saw: no change
\* was stored after it, unless requests crossed or one stopped half-way.
TestedIsCurrent == ~crossed /\ (\A p \in Requests : req[p] = Idle) /\ row.status = "tested" =>
    \E i \in 1..Len(evidence) : /\ evidence[i].kind = "test" /\ evidence[i].ok /\ Since(i, "changes") = {}

\* The workspace's head is what the stored evidence says it is: the head of
\* the changes it shows, or the commit delivered since (same exception).
HeadHasEvidence == ~crossed /\ (\A p \in Requests : req[p] = Idle) /\ evidence # <<>> =>
    \/ row.head = None /\ \A i \in 1..Len(evidence) :
            evidence[i].ok /\ evidence[i].head # None => Since(i, "changes") # {}
    \/ \E i \in 1..Len(evidence) : /\ evidence[i].ok /\ evidence[i].head = row.head /\ row.head # None
                                   /\ Since(i, "changes") = {}
                                   /\ \A j \in Since(i, "delivery") : evidence[j].head = None \/ ~evidence[j].ok

\* A workspace shows changes, or a delivered status, whose report is stored: the
\* row never runs ahead of the evidence, even when requests cross or die.
RowHasEvidence == row.status \notin {None, "preparing"} =>
    \E i \in 1..Len(evidence) : evidence[i].ok /\ StatusAfter[evidence[i].kind] = row.status
=============================================================================
