-------------------------- MODULE TenantOffboarding --------------------------
(***************************************************************************)
(* A tenant leaves (lifecycle/offboarding.py, offboarding_deletion.py): a    *)
(* plan is requested, approved, its data exported and then deleted, unless a *)
(* legal hold forbids it.  Each step is a request that reads the plan, works *)
(* on the stores one after another and writes the whole plan back; several   *)
(* requests, and the people who place holds, do so at the same time.         *)
(***************************************************************************)
EXTENDS Naturals, FiniteSets

CONSTANTS Plans, Requests,
          Files,        \* storage objects the tenant has
          Holdable,     \* categories and objects people place holds on
          Bundles,      \* ids of export bundles
          MaxTrouble    \* failing calls of the bucket

VARIABLES plan,      \* the stored plan, or none
          alive,     \* what has not been deleted: stores, objects, bundles
          hold,      \* what is under a legal hold: categories, objects
          guarded,   \* holds placed on living data while no deletion was running
          req,       \* requests at work
          doubled,   \* plans two requests were at work on at once
          trouble

vars == <<plan, alive, hold, guarded, req, doubled, trouble>>

Stores == {"memory", "knowledge"}    \* category and content go by one name
Categories == Stores \cup {"storage"}
None == "none"
NoBundle == "no bundle"
NoPlan == [state |-> None, cats |-> {}, export |-> FALSE, approved |-> FALSE, bundle |-> NoBundle]
Rest == [op |-> None, pc |-> None, of |-> 0, read |-> NoPlan, todo |-> {}, bundle |-> NoBundle]

Init == /\ plan = [n \in Plans |-> NoPlan]
        /\ alive = Stores \cup Files
        /\ hold = {} /\ guarded = {}
        /\ req = [r \in Requests |-> Rest]
        /\ doubled = {} /\ trouble = 0

Fault == trouble < MaxTrouble /\ trouble' = trouble + 1
Write(n, state) == plan' = [plan EXCEPT ![n] = state]
Answer(r) == req' = [req EXCEPT ![r] = Rest]
Step(r, pc) == req' = [req EXCEPT ![r].pc = pc]
State(n) == plan[n].state

\* Objects that are not the plan's own export: _storage_deletion_candidates.
MutCandidates(p) == IF "storage" \in p.cats THEN alive \ Stores ELSE {}
Candidates(p) == IF "storage" \in p.cats THEN alive \ (Stores \cup {p.bundle}) ELSE {}

\* A request past its first check for holds.
Deleting == \E r \in Requests : req[r].pc \in {"categories", "stores", "object", "finish"}

-----------------------------------------------------------------------------
\* create_plan: blocked from the start by a hold on one of its categories.
CreatePlan(n) ==
    /\ State(n) = None
    /\ \E cats \in SUBSET Categories \ {{}}, export \in BOOLEAN :
           Write(n, [cats |-> cats, export |-> export, approved |-> FALSE,
                     bundle |-> NoBundle,
                     state |-> IF hold \cap cats # {} THEN "blocked" ELSE "requested"])
    /\ UNCHANGED <<alive, hold, guarded, req, doubled, trouble>>

\* A request reads the plan and refuses one in another state.
Begin(r, op, n, state, pc) ==
    /\ req[r] = Rest /\ State(n) = state
    /\ req' = [req EXCEPT ![r] = [op |-> op, pc |-> pc, of |-> n, read |-> plan[n],
                                  todo |-> {}, bundle |-> NoBundle]]

Note(r, n) == doubled' = doubled \cup {m \in {n} : \E q \in Requests \ {r} : req[q].of = n}

BeginApprove(r, n) ==
    /\ Begin(r, "approve", n, "requested", "write")
    /\ Note(r, n)
    /\ UNCHANGED <<plan, alive, hold, guarded, trouble>>

\* approve_plan writes the plan it has read, in its next state.
Approve(r) ==
    /\ req[r].op = "approve"
    /\ Write(req[r].of, [req[r].read EXCEPT !.approved = TRUE,
                                            !.state = IF @ # "requested" THEN @
                                                      ELSE IF req[r].read.export
                                                      THEN "export_pending"
                                                      ELSE "deletion_pending"])
    /\ Answer(r)
    /\ UNCHANGED <<alive, hold, guarded, doubled, trouble>>

BeginExport(r, n) ==
    /\ Begin(r, "export", n, "export_pending", "bundle")
    /\ Note(r, n)
    /\ UNCHANGED <<plan, alive, hold, guarded, trouble>>

NewBundles == {b \in Bundles \ alive : /\ \A n \in Plans : plan[n].bundle # b
                                       /\ \A r \in Requests : req[r].bundle # b}

\* create_bundle; without it the request fails and the plan stays as it is.
ExportBundle(r) ==
    /\ req[r].pc = "bundle"
    /\ \/ /\ NewBundles # {}
          /\ LET b == CHOOSE x \in NewBundles : TRUE IN
               /\ alive' = alive \cup {b}
               /\ req' = [req EXCEPT ![r].bundle = b, ![r].pc = "complete"]
          /\ UNCHANGED trouble
       \/ Fault /\ Answer(r) /\ UNCHANGED alive
    /\ UNCHANGED <<plan, hold, guarded, doubled>>

\* complete_export reads the plan again.
CompleteExport(r) ==
    /\ req[r].pc = "complete"
    /\ IF State(req[r].of) = "export_pending"
       THEN req' = [req EXCEPT ![r].pc = "write", ![r].read = plan[req[r].of]]
       ELSE Answer(r)
    /\ UNCHANGED <<plan, alive, hold, guarded, doubled, trouble>>

WriteExport(r) ==
    /\ req[r].op = "export" /\ req[r].pc = "write"
    /\ Write(req[r].of, [req[r].read EXCEPT !.state = "deletion_pending",
                                            !.bundle = req[r].bundle])
    /\ Answer(r)
    /\ UNCHANGED <<alive, hold, guarded, doubled, trouble>>

-----------------------------------------------------------------------------
\* execute: the plan and the objects are read first.

\* Any plan that is not blocked is carried out.
MutBeginDelete(r, n) ==
    /\ State(n) \notin {None, "blocked", "deleted"}
    /\ Begin(r, "delete", n, State(n), "holds")
    /\ Note(r, n)
    /\ UNCHANGED <<plan, alive, hold, guarded, trouble>>

BeginDelete(r, n) ==
    /\ Begin(r, "delete", n, "deletion_pending", "list")
    /\ Note(r, n)
    /\ UNCHANGED <<plan, alive, hold, guarded, trouble>>

ListObjects(r) ==
    /\ req[r].pc = "list"
    /\ req' = [req EXCEPT ![r].pc = "holds", ![r].todo = Candidates(req[r].read)]
    /\ UNCHANGED <<plan, alive, hold, guarded, doubled, trouble>>

\* Only the categories are looked at.
MutCheckObjects(r) ==
    /\ req[r].pc = "holds" /\ Step(r, "categories")
    /\ UNCHANGED <<plan, alive, hold, guarded, doubled, trouble>>

\* One hold, on an object or on a category, stops the whole deletion.
CheckObjects(r) ==
    /\ req[r].pc = "holds"
    /\ Step(r, IF req[r].todo \cap hold # {} THEN "block" ELSE "categories")
    /\ UNCHANGED <<plan, alive, hold, guarded, doubled, trouble>>

CheckCategories(r) ==
    /\ req[r].pc = "categories"
    /\ Step(r, IF req[r].read.cats \cap hold # {} THEN "block" ELSE "stores")
    /\ UNCHANGED <<plan, alive, hold, guarded, doubled, trouble>>

Block(r) ==
    /\ req[r].pc = "block"
    /\ Write(req[r].of, [req[r].read EXCEPT !.state = "blocked"])
    /\ Answer(r)
    /\ UNCHANGED <<alive, hold, guarded, doubled, trouble>>

\* The memory first, then the knowledge.
DeleteStores(r) ==
    /\ req[r].pc = "stores"
    /\ LET left == alive \cap Stores \cap req[r].read.cats IN
         IF left = {} THEN Step(r, "object") /\ UNCHANGED alive
         ELSE /\ alive' = alive \ {IF "memory" \in left THEN "memory" ELSE "knowledge"}
              /\ UNCHANGED req
    /\ UNCHANGED <<plan, hold, guarded, doubled, trouble>>

\* An object the bucket does not delete is left for the next time.
MutDeleteObject(r) ==
    /\ req[r].pc = "object"
    /\ IF req[r].todo = {} THEN Step(r, "finish") /\ UNCHANGED <<alive, trouble>>
       ELSE \E o \in req[r].todo :
            /\ req' = [req EXCEPT ![r].todo = @ \ {o}]
            /\ \/ alive' = alive \ {o} /\ UNCHANGED trouble
               \/ Fault /\ UNCHANGED alive
    /\ UNCHANGED <<plan, hold, guarded, doubled>>

\* Object by object; a failing call, and an object another request has
\* deleted meanwhile, end the request and leave the plan as it is.
DeleteObject(r) ==
    /\ req[r].pc = "object"
    /\ IF req[r].todo = {} THEN Step(r, "finish") /\ UNCHANGED <<alive, trouble>>
       ELSE \E o \in req[r].todo :
            \/ /\ o \in alive /\ alive' = alive \ {o}
               /\ req' = [req EXCEPT ![r].todo = @ \ {o}] /\ UNCHANGED trouble
            \/ o \notin alive /\ Answer(r) /\ UNCHANGED <<alive, trouble>>
            \/ Fault /\ Answer(r) /\ UNCHANGED alive
    /\ UNCHANGED <<plan, hold, guarded, doubled>>

Finish(r) ==
    /\ req[r].pc = "finish"
    /\ Write(req[r].of, [req[r].read EXCEPT !.state = "deleted"])
    /\ Answer(r)
    /\ UNCHANGED <<alive, hold, guarded, doubled, trouble>>

-----------------------------------------------------------------------------
\* Legal holds on a category of the tenant or on one object.

PlaceHold(x) ==
    /\ x \notin hold /\ hold' = hold \cup {x}
    /\ LET covered == {y \in alive : y = x \/ (x = "storage" /\ y \in Files)} IN
         guarded' = IF Deleting THEN guarded ELSE guarded \cup ({x} \X covered)
    /\ UNCHANGED <<plan, alive, req, doubled, trouble>>

ReleaseHold(x) ==
    /\ x \in hold /\ hold' = hold \ {x}
    /\ guarded' = {g \in guarded : g[1] # x}
    /\ UNCHANGED <<plan, alive, req, doubled, trouble>>

Next == \/ \E n \in Plans : CreatePlan(n)
        \/ \E r \in Requests, n \in Plans :
             BeginApprove(r, n) \/ BeginExport(r, n) \/ BeginDelete(r, n)
        \/ \E r \in Requests :
             \/ Approve(r) \/ ExportBundle(r) \/ CompleteExport(r) \/ WriteExport(r)
             \/ ListObjects(r) \/ CheckObjects(r) \/ CheckCategories(r) \/ Block(r)
             \/ DeleteStores(r) \/ DeleteObject(r) \/ Finish(r)
        \/ \E x \in Holdable : PlaceHold(x) \/ ReleaseHold(x)

Spec == Init /\ [][Next]_vars

-----------------------------------------------------------------------------
\* Type correctness.
TypeOK ==
    /\ \A n \in Plans :
         plan[n].state \in {None, "requested", "blocked", "export_pending",
                            "deletion_pending", "deleted"}
    /\ alive \subseteq Stores \cup Files \cup Bundles
    /\ hold \subseteq Categories \cup Files

\* Data disappears only for a plan that was approved and covers it, whichever
\* requests met and wrote over one another's plan (offboarding.py:148).
DeletedWasApproved ==
    \A x \in (Stores \cup Files) \ alive : \E n \in Plans :
        /\ plan[n].approved
        /\ (IF x \in Stores THEN x ELSE "storage") \in plan[n].cats

\* Data under a hold that was placed while no deletion was running survives
\* every deletion until the hold is released: the check covers everything
\* before the first thing is deleted (offboarding_deletion.py:63-66).
HeldSurvives == \A g \in guarded : g[2] \in alive

\* A plan that says deleted has nothing left of its categories, also when a
\* deletion failed half-way and was requested again
\* (offboarding_deletion.py:96-117).
DeletedIsComplete ==
    \A n \in Plans : State(n) = "deleted" =>
        /\ alive \cap Stores \cap plan[n].cats = {}
        /\ "storage" \in plan[n].cats => alive \cap Files = {}

\* The export a tenant asked for is there after the deletion, also when the
\* deletion failed half-way and was requested again, unless two requests
\* worked on the plan at once or another plan was carried out as well
\* (offboarding_deletion.py:154-167).
ExportSurvives ==
    \A n \in Plans :
        State(n) = "deleted" /\ plan[n].export /\ n \notin doubled
        /\ (\A m \in Plans \ {n} : State(m) \notin {"deletion_pending", "deleted"})
            => plan[n].bundle \in alive
=============================================================================
