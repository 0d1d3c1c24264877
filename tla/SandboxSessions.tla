--------------------------- MODULE SandboxSessions ---------------------------
(***************************************************************************)
(* The sandbox controller (sandbox/controller_service.py) over the         *)
(* kubectl-backed provider (sandbox/kubernetes.py).  Every request is       *)
(* served on a thread of its own and starts by removing what has expired;  *)
(* the provider keeps the sessions it knows in memory and rebuilds them     *)
(* from the pods of the cluster, one kubectl call at a time, so requests    *)
(* interleave between any two calls.  A controller that dies forgets its    *)
(* memory and leaves the pods behind.                                       *)
(***************************************************************************)
EXTENDS Naturals, FiniteSets, FiniteSetsExt

CONSTANTS Handlers,      \* request threads
          Sessions,      \* session ids, numbered in the order pods are listed
          RunOf,         \* the run a session would be created for
          MaxSessions, MaxSessionsPerRun,
          Ops,           \* endpoints that are called: probe, create, destroy, command
          CleanupModes,  \* values of kubernetes_orphan_cleanup_enabled tried
          MaxTrouble     \* kubectl calls that fail and deaths of the controller

VARIABLES pod,           \* the cluster: absent, bare (no policy yet), running, deleted
          mem,           \* adapter.sessions: none, active, destroyed
          old,           \* sessions past session_ttl_seconds, which is also
                         \* the timeout every creation asks for
          req,           \* what each thread is doing
          tenants,       \* runtime.known_tenant_ids is not empty
          orphanCleanup, \* kubernetes_orphan_cleanup_enabled
          given,         \* sessions a creation was answered with
          trouble        \* faults so far

vars == <<pod, mem, old, req, tenants, orphanCleanup, given, trouble>>

Idle == [pc |-> "idle", op |-> "probe", phase |-> "reap", id |-> 0,
         todo |-> {}, cur |-> 0, known |-> {}]

Init == /\ pod = [s \in Sessions |-> "absent"]
        /\ mem = [s \in Sessions |-> "none"]
        /\ req = [h \in Handlers |-> Idle]
        /\ tenants = FALSE /\ orphanCleanup \in CleanupModes
        /\ old = {} /\ given = {} /\ trouble = 0

-----------------------------------------------------------------------------
\* What the provider's calls see.

Listed == {s \in Sessions : pod[s] \in {"bare", "running"}}

Active == {s \in Sessions : mem[s] = "active"}

\* The limits checked one too late.
MutLimitReached(active, s) ==
    \/ Cardinality(active) > MaxSessions
    \/ Cardinality({t \in active : RunOf[t] = RunOf[s]}) > MaxSessionsPerRun

LimitReached(active, s) ==
    \/ Cardinality(active) >= MaxSessions
    \/ Cardinality({t \in active : RunOf[t] = RunOf[s]}) >= MaxSessionsPerRun

\* The controller compares the same counts before it calls the provider.
SessionLimitReached(active, s) == LimitReached(active, s)

\* Every active session, whatever its age.
MutOverdue(active) == active

Overdue(active) == active \cap old

\* Only sessions this process already knows are refreshed.
MutRebuilt(s) == IF mem[s] = "none" THEN mem ELSE [mem EXCEPT ![s] = "active"]

\* What was found is written, whatever another thread recorded meanwhile.
Rebuilt(s) == [mem EXCEPT ![s] = "active"]

-----------------------------------------------------------------------------
\* The stages of a request.

Set(h, fields) == req' = [req EXCEPT ![h] = fields]

Answer(h) == Set(h, Idle)

Stage(h, pc, phase, todo) ==
    Set(h, [req[h] EXCEPT !.pc = pc, !.phase = phase, !.todo = todo, !.cur = 0,
                          !.known = IF phase = "orphans" THEN @ ELSE {}])

\* Where the endpoint itself starts, after prepare_controller_request.
Serve(h) ==
    /\ tenants' = (tenants \/ req[h].op # "probe")
    /\ CASE req[h].op = "create" -> Stage(h, "list", "limit", {})
         [] req[h].op = "probe" -> Answer(h)
         [] OTHER -> Stage(h, "look", "target", {})

\* A phase goes on with what is left to delete; with nothing left, the next
\* phase starts; a creation then meets the controller's limits.
Continue(h, todo) ==
    CASE todo # {} -> Stage(h, "delete", req[h].phase, todo) /\ UNCHANGED tenants
      [] todo = {} /\ req[h].phase = "reap" /\ orphanCleanup ->
            Stage(h, "list", "known", {}) /\ UNCHANGED tenants
      [] todo = {} /\ req[h].phase = "limit" ->
            /\ IF SessionLimitReached(Active', req[h].id)
               THEN Answer(h) ELSE Stage(h, "list", "create", {})
            /\ UNCHANGED tenants
      [] todo = {} /\ req[h].phase = "target" -> Answer(h) /\ UNCHANGED tenants
      [] OTHER -> Serve(h)

\* A request reaches the controller.
Arrive(h) ==
    /\ req[h].pc = "idle"
    /\ \E op \in Ops, s \in Sessions :
          /\ op = "create" => /\ pod[s] = "absent"
                              /\ \A g \in Handlers : req[g].op = "create" => req[g].id # s
          /\ op \in {"destroy", "command"} => s \in given
          /\ op = "probe" => s = Min(Sessions)
          /\ Set(h, [Idle EXCEPT !.pc = "list", !.op = op, !.id = s])
    /\ UNCHANGED <<pod, mem, old, tenants, orphanCleanup, given, trouble>>

\* kubectl get pods: the pods that are not being deleted.
ListPods(h) ==
    /\ req[h].pc = "list"
    /\ IF req[h].phase = "orphans"
       THEN Continue(h, {s \in Listed : s \notin req[h].known \/ s \in old})
       ELSE Stage(h, "sync", req[h].phase, Listed) /\ UNCHANGED tenants
    /\ UNCHANGED <<pod, mem, old, orphanCleanup, given, trouble>>

\* The pods of a listing are taken one by one: one that is known as destroyed is
\* skipped, the policy of any other is read, and one that cannot be read fails
\* the whole request; the sessions of the pods before it have been written.
ReadPolicy(h) ==
    /\ req[h].pc = "sync"
    /\ \E s \in req[h].todo :
         CASE mem[s] = "destroyed" -> Stage(h, "sync", req[h].phase, req[h].todo \ {s})
           [] mem[s] # "destroyed" /\ pod[s] = "running" ->
                Set(h, [req[h] EXCEPT !.pc = "write", !.cur = s])
           [] OTHER -> Answer(h)
    /\ UNCHANGED <<pod, mem, old, tenants, orphanCleanup, given, trouble>>

WriteSession(h) ==
    /\ req[h].pc = "write"
    /\ mem' = Rebuilt(req[h].cur)
    /\ Stage(h, "sync", req[h].phase, req[h].todo \ {req[h].cur})
    /\ UNCHANGED <<pod, old, tenants, orphanCleanup, given, trouble>>

\* The listing is worked off and the memory is read.  Then expired sessions are
\* picked for removal, or the active ones are noted for the orphan cleanup, or
\* the provider checks the limits.
SyncSessions(h) ==
    /\ req[h].pc = "sync" /\ req[h].todo = {} /\ UNCHANGED mem
    /\ CASE req[h].phase \in {"reap", "limit"} -> Continue(h, Overdue(Active))
         [] req[h].phase = "known" ->
              IF Active = {} /\ ~tenants
              THEN Serve(h)
              ELSE /\ Set(h, [req[h] EXCEPT !.pc = "list", !.phase = "orphans",
                                            !.todo = {}, !.known = Active])
                   /\ UNCHANGED tenants
         [] OTHER ->
              /\ IF LimitReached(Active, req[h].id) THEN Answer(h)
                 ELSE Stage(h, "apply", "create", {})
              /\ UNCHANGED tenants
    /\ UNCHANGED <<pod, old, orphanCleanup, given, trouble>>

\* A cleanup that takes what it asked to be deleted for deleted.
MutDeleteResources(h) ==
    /\ req[h].pc = "delete"
    /\ LET s == Min(req[h].todo) IN
         /\ \/ pod' = [pod EXCEPT ![s] = "deleted"] /\ UNCHANGED trouble
            \/ trouble < MaxTrouble /\ trouble' = trouble + 1 /\ UNCHANGED pod
         /\ Set(h, [req[h] EXCEPT !.pc = "confirm", !.cur = s])
    /\ UNCHANGED <<mem, old, tenants, orphanCleanup, given>>

\* kubectl delete of the pod and its policy, then the confirmation that both
\* are gone, and only then the session is marked; orphans only if tracked.
DeleteResources(h) ==
    /\ req[h].pc = "delete"
    /\ LET s == Min(req[h].todo) IN
         /\ pod' = [pod EXCEPT ![s] = IF @ = "absent" THEN @ ELSE "deleted"]
         /\ Set(h, [req[h] EXCEPT !.pc = "confirm", !.cur = s])
    /\ UNCHANGED <<mem, old, tenants, orphanCleanup, given, trouble>>

Confirm(h) ==
    /\ req[h].pc = "confirm"
    /\ LET s == req[h].cur IN
         /\ mem' = [mem EXCEPT ![s] = IF req[h].phase = "orphans" /\ @ = "none"
                                      THEN @ ELSE "destroyed"]
         /\ Continue(h, req[h].todo \ {s})
    /\ UNCHANGED <<pod, old, orphanCleanup, given, trouble>>

\* DELETE of a session the provider knows, whatever its status.
DestroySession(h) ==
    /\ req[h].pc = "look" /\ req[h].op = "destroy"
    /\ IF mem[req[h].id] = "none" THEN Answer(h)
       ELSE Stage(h, "delete", "target", {req[h].id})
    /\ UNCHANGED <<pod, mem, old, tenants, orphanCleanup, given, trouble>>

\* Commands, files and snapshots need an active session; the provider removes
\* one it finds past its time and refuses.
UseSession(h) ==
    /\ req[h].pc = "look" /\ req[h].op = "command"
    /\ IF req[h].id \in Active \cap old
       THEN Stage(h, "delete", "target", {req[h].id})
       ELSE Answer(h)
    /\ UNCHANGED <<pod, mem, old, tenants, orphanCleanup, given, trouble>>

\* kubectl apply of the list creates the pod, then its policy.
ApplyPod(h) ==
    /\ req[h].pc = "apply" /\ pod[req[h].id] = "absent"
    /\ pod' = [pod EXCEPT ![req[h].id] = "bare"]
    /\ UNCHANGED <<mem, old, req, tenants, orphanCleanup, given, trouble>>

ApplyPolicy(h) ==
    /\ req[h].pc = "apply" /\ pod[req[h].id] # "absent"
    /\ pod' = [pod EXCEPT ![req[h].id] = IF @ = "bare" THEN "running" ELSE @]
    /\ Stage(h, "ready", "create", {})
    /\ UNCHANGED <<mem, old, tenants, orphanCleanup, given, trouble>>

\* The pod is ready and read back; a pod that is gone by then, or never gets
\* ready, is deleted and the creation refused.
ReadBack(h) ==
    /\ req[h].pc = "ready"
    /\ IF pod[req[h].id] = "running"
       THEN Stage(h, "register", "create", {})
       ELSE Answer(h)
    /\ UNCHANGED <<pod, mem, old, tenants, orphanCleanup, given, trouble>>

Register(h) ==
    /\ req[h].pc = "register"
    /\ mem' = [mem EXCEPT ![req[h].id] = "active"]
    /\ given' = given \cup {req[h].id}
    /\ Answer(h)
    /\ UNCHANGED <<pod, old, tenants, orphanCleanup, trouble>>

-----------------------------------------------------------------------------
\* Faults.

\* A kubectl call fails: the request is answered 503 where it stands.  A
\* failed apply leaves whatever it created; a pod that never gets ready is
\* deleted by a call whose own result is ignored.
KubectlFails(h) ==
    /\ trouble < MaxTrouble /\ trouble' = trouble + 1
    /\ \/ /\ req[h].pc \in {"list", "delete", "confirm", "apply"}
          /\ UNCHANGED pod
       \/ /\ req[h].pc = "sync" /\ \E s \in req[h].todo : mem[s] # "destroyed"
          /\ UNCHANGED pod
       \/ /\ req[h].pc = "ready"
          /\ \E lost \in BOOLEAN :
                pod' = [pod EXCEPT ![req[h].id] = IF lost THEN @ ELSE "deleted"]
    /\ Answer(h)
    /\ UNCHANGED <<mem, old, tenants, orphanCleanup, given>>

\* The controller restarts: its memory is gone, the pods are not.
Restart ==
    /\ trouble < MaxTrouble /\ trouble' = trouble + 1
    /\ mem' = [s \in Sessions |-> "none"]
    /\ req' = [h \in Handlers |-> Idle]
    /\ tenants' = FALSE
    /\ UNCHANGED <<pod, old, orphanCleanup, given>>

\* A session passes its time limit.
Expire(s) ==
    /\ pod[s] # "absent" /\ s \in (Listed \cup Active) \ old
    /\ old' = old \cup {s}
    /\ UNCHANGED <<pod, mem, req, tenants, orphanCleanup, given, trouble>>

Step(h) ==
    \/ ListPods(h) \/ ReadPolicy(h) \/ WriteSession(h) \/ SyncSessions(h)
    \/ DeleteResources(h) \/ Confirm(h) \/ DestroySession(h) \/ UseSession(h)
    \/ ApplyPod(h) \/ ApplyPolicy(h) \/ ReadBack(h) \/ Register(h)

Next == \/ \E h \in Handlers : Arrive(h) \/ Step(h) \/ KubectlFails(h)
        \/ Restart
        \/ \E s \in Sessions : Expire(s)

\* Threads run, requests keep coming (the API's readiness check asks for the
\* capabilities) and time passes.
Fairness == /\ \A h \in Handlers : WF_vars(Arrive(h)) /\ WF_vars(Step(h))
            /\ \A s \in Sessions : WF_vars(Expire(s))

Spec == Init /\ [][Next]_vars /\ Fairness

-----------------------------------------------------------------------------
\* Type correctness.
TypeOK ==
    /\ pod \in [Sessions -> {"absent", "bare", "running", "deleted"}]
    /\ mem \in [Sessions -> {"none", "active", "destroyed"}]
    /\ old \subseteq Sessions
    /\ given \subseteq Sessions 
    /\ trouble \in 0 .. MaxTrouble

\* The session limit is checked against a listing and acted upon calls later
\* (controller_service.enforce_sandbox_session_limits, kubernetes.create):
\* requests that are admitted together may pass it together, but never by
\* more than the other threads, whatever fails, restarts or is rebuilt.
OvershootBounded ==
    /\ Cardinality(Listed) <= MaxSessions + Cardinality(Handlers) - 1
    /\ \A s \in Sessions :
          Cardinality({t \in Listed : RunOf[t] = RunOf[s]})
             <= MaxSessionsPerRun + Cardinality(Handlers) - 1

\* A session the controller reports as destroyed has no pod left, although
\* the report is made from memory and other threads keep rebuilding that
\* memory from listings taken earlier (kubernetes.destroy, cleanup).
DestroyedIsGone == \A s \in Sessions : mem[s] = "destroyed" => pod[s] = "deleted"

NotTakenEarly ==
    ~orphanCleanup =>
        \A s \in given : pod[s] = "running" /\ pod'[s] = "deleted"
                            => \/ s \in old
                               \/ \E h \in Handlers : req[h].op = "destroy" /\ req[h].id = s

\* A session handed to a client is not taken away before its time unless its
\* destruction was asked for -- when the orphan cleanup is off
\* (controller_service.cleanup_expired_sandbox_sessions).
KeptWhileYoung == [][NotTakenEarly]_vars

Stuck(s) == pod[s] = "bare" /\ \A h \in Handlers : req[h].pc = "apply" => req[h].id # s
Runs(s) == pod[s] = "running"
GoneOrStuck(s) == pod[s] = "deleted" \/ \E t \in Sessions : Stuck(t)

\* Every pod is reclaimed in the end, also one whose creation failed half way
\* and one a dead controller left behind -- unless an apply stopped between a
\* pod and its policy: that pod fails every later listing
\* (kubernetes._sync_sessions_from_cluster), cleanup included.
PodsReclaimed == \A s \in Sessions : Runs(s) ~> GoneOrStuck(s)
=============================================================================
