----------------------- MODULE SandboxSessionsProofs -----------------------
(***************************************************************************)
(* That a session reported as destroyed has no pod left, that one which was*)
(* handed out keeps its pod while it is young, and that the session limits *)
(* are exceeded by no more than the other request threads, for any number  *)
(* of threads, sessions and faults.                                        *)
(*                                                                         *)
(* The invariant behind the first two is SafeInv.  Every step of a request *)
(* changes the record of its thread only, so a step keeps SafeInv when what*)
(* it does to the cluster and the memory Grows and what it makes of its    *)
(* request Fits (lemma Moved); the other lemmas are one per kind of move   *)
(* and one per action.  The limits rest on CountInv, and it on SafeInv.    *)
(***************************************************************************)
EXTENDS SandboxSessions, FiniteSetTheorems, NaturalsInduction, WellFoundedInduction, TLAPS

Settings == /\ Sessions \subseteq Nat \ {0} /\ MaxTrouble \in Nat
            /\ Ops \subseteq {"probe", "create", "destroy", "command"}

Request == [pc : {"idle", "list", "sync", "write", "delete", "confirm", "look", "apply",
                  "ready", "register"},
            op : {"probe", "create", "destroy", "command"},
            phase : {"reap", "known", "orphans", "limit", "create", "target"},
            id : Sessions \cup {0}, todo : SUBSET Sessions, cur : Sessions \cup {0},
            known : SUBSET Sessions]

Kinds == /\ TypeOK
         /\ req \in [Handlers -> Request]
         /\ tenants \in BOOLEAN /\ orphanCleanup \in BOOLEAN

\* A pod was created: it may be gone by now, but its id never comes back.
Exists(s) == pod[s] # "absent"

\* Whatever is remembered, listed or to be deleted has been created; what is about to
\* be reported as gone is gone.
MemoryIsSound ==
    /\ \A s \in Sessions : mem[s] # "none" \/ s \in given => Exists(s)
    /\ \A h \in Handlers :
         /\ \A s \in req[h].todo : Exists(s)
         /\ req[h].pc = "write" => req[h].cur \in Sessions /\ Exists(req[h].cur)
         /\ req[h].pc = "delete" => req[h].todo # {}
         /\ req[h].pc = "confirm" => /\ req[h].cur \in Sessions
                                     /\ pod[req[h].cur] = "deleted"
         /\ req[h].pc = "register" => Exists(req[h].id)
         /\ req[h].pc # "idle" => req[h].id \in Sessions

\* What a request is about to delete is too old, an orphan, or what it was asked to.
OnlyWhatIsDue ==
    \A h \in Handlers :
      /\ req[h].phase \in {"known", "orphans"} => orphanCleanup
      /\ req[h].pc \in {"delete", "confirm"} /\ ~orphanCleanup =>
           \A s \in req[h].todo : s \in old \/ (req[h].op = "destroy" /\ req[h].id = s)

\* A session is created by one request, which has not yet answered with it.
OneCreator ==
    /\ \A h \in Handlers : /\ req[h].pc \in {"apply", "ready", "register"} => req[h].op = "create"
                           /\ req[h].op = "create" => req[h].id \notin given
    /\ \A g, h \in Handlers :
         req[g].op = "create" /\ req[h].op = "create" /\ req[g].id = req[h].id => g = h

\* Sessions are counted for a creation only; orphans and targets are not rebuilt.
PhasesInOrder ==
    \A h \in Handlers :
      /\ req[h].phase \in {"limit", "create"} => req[h].op = "create"
      /\ req[h].pc = "list" => req[h].phase # "target"
      /\ req[h].pc \in {"sync", "write"} => req[h].phase \notin {"orphans", "target"}

SafeInv == /\ Kinds /\ DestroyedIsGone /\ MemoryIsSound
           /\ OnlyWhatIsDue /\ OneCreator /\ PhasesInOrder

-----------------------------------------------------------------------------
(* How a request moves on *)

\* The least of the sessions to delete is one of them.
LEMMA OneOfThem ==
    ASSUME Settings, NEW S \in SUBSET Sessions, S # {}
    PROVE  Min(S) \in S
<1>1. S \in SUBSET Nat
  BY DEF Settings
<1>2. IsWellFoundedOn(OpToRel(<, Nat), Nat)
  BY NatLessThanWellFounded, Zenon
<1>3. PICK x \in S : \A y \in S : <<y, x>> \notin OpToRel(<, Nat)
  BY <1>1, <1>2, WFMin, Zenon
<1>4. \A y \in S : x <= y
  <2>1. \A y \in S : ~(y < x)
    BY <1>1, <1>3, Zenon DEF OpToRel
  <2> QED BY <1>1, <2>1
<1> QED BY <1>4 DEF Min

\* Where a phase goes on: with what is left to delete, or with a fresh listing, or at
\* the endpoint, or not at all.
GoesOn(h, r, todo) ==
    \/ r = Idle
    \/ /\ r.op = req[h].op /\ r.id = req[h].id
       /\ \/ r.pc = "delete" /\ r.todo = todo /\ todo # {} /\ r.phase = req[h].phase
          \/ r.pc \in {"list", "look"} /\ r.todo = {}
       /\ r.phase \in {"known", "orphans"} => r.phase = req[h].phase \/ orphanCleanup
       /\ r.phase = "limit" => r.phase = req[h].phase \/ r.op = "create"
       /\ r.phase = "create" => req[h].phase \in {"limit", "create"}
       /\ r.pc = "list" => r.phase # "target"

LEMMA IdleIsRequest == Idle \in Request
BY DEF Idle, Request

LEMMA Staged ==
    ASSUME Kinds, NEW h \in Handlers,
           NEW p \in {"list", "sync", "write", "delete", "look", "apply", "ready", "register"},
           NEW f \in {"reap", "known", "orphans", "limit", "create", "target"},
           NEW todo \in SUBSET Sessions, Stage(h, p, f, todo)
    PROVE  \E r \in Request : /\ req' = [req EXCEPT ![h] = r]
                              /\ r.pc = p /\ r.phase = f /\ r.todo = todo
                              /\ r.op = req[h].op /\ r.id = req[h].id
<1>1. req[h] \in Request
  BY DEF Kinds
<1> DEFINE k == IF f = "orphans" THEN req[h].known ELSE {}
           r == [req[h] EXCEPT !.pc = p, !.phase = f, !.todo = todo, !.cur = 0, !.known = k]
<1>2. req' = [req EXCEPT ![h] = r]
  BY DEF Stage, Set
<1>3. k \in SUBSET Sessions
  BY <1>1 DEF Request
<1>4. r \in Request /\ r.pc = p /\ r.phase = f /\ r.todo = todo /\ r.op = req[h].op /\ r.id = req[h].id
  <2> HIDE DEF k
  <2> QED BY <1>1, <1>3 DEF Request
<1> QED BY <1>2, <1>4

LEMMA Answered ==
    ASSUME NEW h \in Handlers, Answer(h)
    PROVE  \E r \in Request : req' = [req EXCEPT ![h] = r] /\ r = Idle
BY IdleIsRequest DEF Answer, Set

LEMMA Continued ==
    ASSUME Kinds, NEW h \in Handlers, NEW todo \in SUBSET Sessions, Continue(h, todo)
    PROVE  /\ \E r \in Request : req' = [req EXCEPT ![h] = r] /\ GoesOn(h, r, todo)
           /\ tenants' \in BOOLEAN
<1>0. req[h] \in Request /\ tenants \in BOOLEAN
  BY DEF Kinds
<1> DEFINE Ok == /\ \E r \in Request : req' = [req EXCEPT ![h] = r] /\ GoesOn(h, r, todo)
                 /\ tenants' \in BOOLEAN
<1>1. ASSUME Serve(h) PROVE Ok
  <2>0. tenants' \in BOOLEAN
    BY <1>0, <1>1 DEF Serve
  <2>1. CASE req[h].op = "create"
    <3>1. Stage(h, "list", "limit", {})
      BY <1>1, <2>1 DEF Serve
    <3>2. PICK r \in Request : /\ req' = [req EXCEPT ![h] = r]
                               /\ r.pc = "list" /\ r.phase = "limit" /\ r.todo = {}
                              /\ r.op = req[h].op /\ r.id = req[h].id
      BY <3>1, Staged
    <3> QED BY <2>0, <2>1, <3>2 DEF GoesOn
  <2>2. CASE req[h].op = "probe"
    <3>1. Answer(h)
      BY <1>1, <2>2 DEF Serve
    <3> QED BY <2>0, <3>1, Answered DEF GoesOn
  <2>3. CASE req[h].op \notin {"create", "probe"}
    <3>1. Stage(h, "look", "target", {})
      BY <1>1, <2>3 DEF Serve
    <3>2. PICK r \in Request : /\ req' = [req EXCEPT ![h] = r]
                               /\ r.pc = "look" /\ r.phase = "target" /\ r.todo = {}
                              /\ r.op = req[h].op /\ r.id = req[h].id
      BY <3>1, Staged
    <3> QED BY <2>0, <3>2 DEF GoesOn
  <2> QED BY <2>1, <2>2, <2>3
<1>2. CASE todo # {}
  <2>1. Stage(h, "delete", req[h].phase, todo) /\ UNCHANGED tenants
    BY <1>2 DEF Continue
  <2>2. req[h].phase \in {"reap", "known", "orphans", "limit", "create", "target"}
    BY <1>0 DEF Request
  <2>3. PICK r \in Request : /\ req' = [req EXCEPT ![h] = r]
                             /\ r.pc = "delete" /\ r.phase = req[h].phase /\ r.todo = todo
                            /\ r.op = req[h].op /\ r.id = req[h].id
    BY <2>1, <2>2, Staged
  <2> QED BY <1>0, <1>2, <2>1, <2>3 DEF GoesOn
<1>3. CASE todo = {} /\ req[h].phase = "reap" /\ orphanCleanup
  <2>1. Stage(h, "list", "known", {}) /\ UNCHANGED tenants
    BY <1>3 DEF Continue
  <2>2. PICK r \in Request : /\ req' = [req EXCEPT ![h] = r]
                             /\ r.pc = "list" /\ r.phase = "known" /\ r.todo = {}
                            /\ r.op = req[h].op /\ r.id = req[h].id
    BY <2>1, Staged
  <2> QED BY <1>0, <1>3, <2>1, <2>2 DEF GoesOn
<1>4. CASE todo = {} /\ req[h].phase = "limit"
  <2>1. (Answer(h) \/ Stage(h, "list", "create", {})) /\ UNCHANGED tenants
    BY <1>4 DEF Continue
  <2>2. CASE Answer(h)
    BY <1>0, <2>1, <2>2, Answered DEF GoesOn
  <2>3. CASE Stage(h, "list", "create", {})
    <3>1. PICK r \in Request : /\ req' = [req EXCEPT ![h] = r]
                               /\ r.pc = "list" /\ r.phase = "create" /\ r.todo = {}
                              /\ r.op = req[h].op /\ r.id = req[h].id
      BY <2>3, Staged
    <3> QED BY <1>0, <1>4, <2>1, <3>1 DEF GoesOn
  <2> QED BY <2>1, <2>2, <2>3
<1>5. CASE todo = {} /\ req[h].phase = "target"
  <2>1. Answer(h) /\ UNCHANGED tenants
    BY <1>5 DEF Continue
  <2> QED BY <1>0, <2>1, Answered DEF GoesOn
<1>6. CASE todo = {} /\ ~(req[h].phase = "reap" /\ orphanCleanup) /\ req[h].phase \notin {"limit", "target"}
  <2>1. Serve(h)
    BY <1>6 DEF Continue
  <2> QED BY <1>1, <2>1
<1> QED BY <1>2, <1>3, <1>4, <1>5, <1>6

\* What a step does to the cluster and to the memory of the controller.
Grows ==
    /\ pod' \in [Sessions -> {"absent", "bare", "running", "deleted"}]
    /\ \A s \in Sessions : /\ Exists(s) => pod'[s] # "absent"
                           /\ pod[s] = "deleted" => pod'[s] = "deleted"
    /\ mem' \in [Sessions -> {"none", "active", "destroyed"}]
    /\ \A s \in Sessions : /\ mem'[s] # "none" => pod'[s] # "absent"
                           /\ mem'[s] = "destroyed" => pod'[s] = "deleted"
    /\ old \subseteq old' /\ old' \subseteq Sessions
    /\ given' \subseteq Sessions /\ \A s \in given' : pod'[s] # "absent"
    /\ trouble' \in 0 .. MaxTrouble /\ tenants' \in BOOLEAN
    /\ orphanCleanup' = orphanCleanup

\* What it may make of its request.
Fits(h, r) ==
    /\ \A s \in r.todo : pod'[s] # "absent"
    /\ r.pc = "write" => r.cur \in Sessions /\ pod'[r.cur] # "absent"
    /\ r.pc = "delete" => r.todo # {}
    /\ r.pc = "confirm" => r.cur \in Sessions /\ pod'[r.cur] = "deleted"
    /\ r.pc = "register" => pod'[r.id] # "absent"
    /\ r.pc # "idle" => r.id \in Sessions
    /\ r.phase \in {"known", "orphans"} => orphanCleanup
    /\ r.pc \in {"delete", "confirm"} /\ ~orphanCleanup =>
         \A s \in r.todo : s \in old' \/ (r.op = "destroy" /\ r.id = s)
    /\ r.pc \in {"apply", "ready", "register"} => r.op = "create"
    /\ r.op = "create" => r.id \notin given'
    /\ r.phase \in {"limit", "create"} => r.op = "create"
    /\ r.pc = "list" => r.phase # "target"
    /\ r.pc \in {"sync", "write"} => r.phase \notin {"orphans", "target"}
    /\ \A g \in Handlers : g # h /\ req[g].op = "create" =>
         /\ req[g].id \notin given'
         /\ r.op = "create" => r.id # req[g].id

LEMMA Moved ==
    ASSUME SafeInv, NEW h \in Handlers, NEW r \in Request, req' = [req EXCEPT ![h] = r],
           Grows, Fits(h, r)
    PROVE  SafeInv'
<1>1. /\ req \in [Handlers -> Request] /\ req' \in [Handlers -> Request]
      /\ req'[h] = r /\ \A g \in Handlers : g # h => req'[g] = req[g]
  BY DEF SafeInv, Kinds
<1>2. Kinds'
  BY <1>1 DEF SafeInv, Kinds, TypeOK, Grows, Request
<1>3. DestroyedIsGone'
  BY DEF Grows, DestroyedIsGone
<1>4. MemoryIsSound'
  <2>1. \A s \in Sessions : mem'[s] # "none" \/ s \in given' => pod'[s] # "absent"
    BY DEF Grows
  <2>2. ASSUME NEW g \in Handlers
        PROVE  /\ \A s \in req'[g].todo : pod'[s] # "absent"
               /\ req'[g].pc = "write" => req'[g].cur \in Sessions /\ pod'[req'[g].cur] # "absent"
               /\ req'[g].pc = "delete" => req'[g].todo # {}
               /\ req'[g].pc = "confirm" => req'[g].cur \in Sessions /\ pod'[req'[g].cur] = "deleted"
               /\ req'[g].pc = "register" => pod'[req'[g].id] # "absent"
               /\ req'[g].pc # "idle" => req'[g].id \in Sessions
    <3>1. CASE g = h
      BY <1>1, <3>1 DEF Fits
    <3>2. CASE g # h
      <4>1. req[g] \in Request /\ req'[g] = req[g]
        BY <1>1, <3>2
      <4> QED BY <4>1 DEF SafeInv, MemoryIsSound, Grows, Exists, Request
    <3> QED BY <3>1, <3>2
  <2> QED BY <2>1, <2>2 DEF MemoryIsSound, Exists
<1>5. OnlyWhatIsDue'
  <2>1. ASSUME NEW g \in Handlers
        PROVE  /\ req'[g].phase \in {"known", "orphans"} => orphanCleanup
               /\ req'[g].pc \in {"delete", "confirm"} /\ ~orphanCleanup =>
                    \A s \in req'[g].todo : s \in old' \/ (req'[g].op = "destroy" /\ req'[g].id = s)
    <3>1. CASE g = h
      BY <1>1, <3>1 DEF Fits
    <3>2. CASE g # h
      BY <1>1, <3>2 DEF SafeInv, OnlyWhatIsDue, Grows
    <3> QED BY <3>1, <3>2
  <2> QED BY <2>1 DEF OnlyWhatIsDue, Grows
<1>6. OneCreator'
  <2>1. ASSUME NEW g \in Handlers
        PROVE  /\ req'[g].pc \in {"apply", "ready", "register"} => req'[g].op = "create"
               /\ req'[g].op = "create" => req'[g].id \notin given'
    BY <1>1 DEF Fits, SafeInv, OneCreator
  <2>2. ASSUME NEW f \in Handlers, NEW g \in Handlers,
               req'[f].op = "create", req'[g].op = "create", req'[f].id = req'[g].id
        PROVE  f = g
    <3>1. CASE f = h /\ g # h
      BY <1>1, <2>2, <3>1 DEF Fits
    <3>2. CASE f # h /\ g = h
      BY <1>1, <2>2, <3>2 DEF Fits
    <3>3. CASE f # h /\ g # h
      BY <1>1, <2>2, <3>3 DEF SafeInv, OneCreator
    <3> QED BY <3>1, <3>2, <3>3
  <2> QED BY <2>1, <2>2 DEF OneCreator
<1>7. PhasesInOrder'
  <2>1. ASSUME NEW g \in Handlers
        PROVE  /\ req'[g].phase \in {"limit", "create"} => req'[g].op = "create"
               /\ req'[g].pc = "list" => req'[g].phase # "target"
               /\ req'[g].pc \in {"sync", "write"} => req'[g].phase \notin {"orphans", "target"}
    BY <1>1 DEF Fits, SafeInv, PhasesInOrder
  <2> QED BY <2>1 DEF PhasesInOrder
<1> QED BY <1>2, <1>3, <1>4, <1>5, <1>6, <1>7 DEF SafeInv

\* Most steps leave the cluster and the memory as they are.
LEMMA GrowsAtRest ==
    ASSUME SafeInv, UNCHANGED <<pod, mem, given, orphanCleanup>>,
           old' = old, trouble' \in 0 .. MaxTrouble, tenants' \in BOOLEAN
    PROVE  Grows
BY DEF SafeInv, Kinds, TypeOK, DestroyedIsGone, MemoryIsSound, Exists, Grows

\* A request that has answered makes no trouble.
LEMMA IdleFits ==
    ASSUME SafeInv, NEW h \in Handlers,
           \A g \in Handlers : g # h /\ req[g].op = "create" => req[g].id \notin given'
    PROVE  Fits(h, Idle)
BY DEF Fits, Idle

\* One that goes on deletes only what it may.
LEMMA NextPhaseFits ==
    ASSUME SafeInv, Grows, given' = given, NEW h \in Handlers, req[h].pc # "idle",
           NEW todo \in SUBSET Sessions, NEW r \in Request, GoesOn(h, r, todo),
           \A s \in todo : /\ pod'[s] # "absent"
                           /\ \/ orphanCleanup \/ s \in old'
                              \/ req[h].op = "destroy" /\ req[h].id = s
    PROVE  Fits(h, r)
<1>0. \A g \in Handlers : req[g].op = "create" => req[g].id \notin given'
  BY DEF SafeInv, OneCreator
<1>1. CASE r = Idle
  BY <1>0, <1>1, IdleFits
<1>2. CASE r # Idle
  <2>1. r.op = req[h].op /\ r.id = req[h].id
    BY <1>2 DEF GoesOn
  <2>2. req[h].id \in Sessions /\ (req[h].phase \in {"known", "orphans"} => orphanCleanup)
    BY DEF SafeInv, MemoryIsSound, OnlyWhatIsDue
  <2>3. r.phase \in {"known", "orphans"} => orphanCleanup
    BY <1>2, <2>2 DEF GoesOn
  <2>4. \A g \in Handlers : g # h /\ req[g].op = "create" /\ r.op = "create" => r.id # req[g].id
    BY <2>1 DEF SafeInv, OneCreator
  <2>5. \A s \in r.todo : s \in todo
    BY <1>2 DEF GoesOn
  <2>6. r.pc \in {"delete", "list", "look"}
    BY <1>2 DEF GoesOn
  <2>8. ASSUME r.pc = "delete" PROVE r.todo # {}
    <3>1. r.todo = todo /\ todo # {}
      BY <1>2, <2>8 DEF GoesOn
    <3> QED BY <3>1
  <2>7. /\ r.phase \in {"limit", "create"} => r.op = "create"
        /\ r.pc = "list" => r.phase # "target"
    BY <1>2, <2>1 DEF GoesOn, SafeInv, PhasesInOrder
  <2> QED BY <1>0, <2>1, <2>2, <2>3, <2>4, <2>5, <2>6, <2>7, <2>8 DEF Fits
<1> QED BY <1>1, <1>2

-----------------------------------------------------------------------------
(* One lemma per kind of move *)

LEMMA AnswerKeeps ==
    ASSUME SafeInv, NEW h \in Handlers, Answer(h), Grows,
           \A g \in Handlers : g # h /\ req[g].op = "create" => req[g].id \notin given'
    PROVE  SafeInv'
BY Answered, IdleFits, Moved

LEMMA ContinueKeeps ==
    ASSUME SafeInv, NEW h \in Handlers, NEW todo \in SUBSET Sessions, Continue(h, todo),
           tenants' \in BOOLEAN => Grows, given' = given, req[h].pc # "idle",
           \A s \in todo : /\ pod'[s] # "absent"
                           /\ \/ orphanCleanup \/ s \in old'
                              \/ req[h].op = "destroy" /\ req[h].id = s
    PROVE  SafeInv'
<1>1. Kinds
  BY DEF SafeInv
<1>2. PICK r \in Request : req' = [req EXCEPT ![h] = r] /\ GoesOn(h, r, todo)
  BY <1>1, Continued
<1>3. Grows
  BY <1>1, Continued
<1>4. Fits(h, r)
  BY <1>2, <1>3, NextPhaseFits
<1> QED BY <1>2, <1>3, <1>4, Moved

LEMMA StageKeeps ==
    ASSUME SafeInv, NEW h \in Handlers, Grows, given' = given, req[h].pc # "idle",
           NEW p \in {"list", "sync", "delete", "look", "apply", "ready", "register"},
           NEW f \in {"reap", "known", "orphans", "limit", "create", "target"},
           NEW todo \in SUBSET Sessions, Stage(h, p, f, todo),
           \A s \in todo : pod'[s] # "absent",
           f \in {"known", "orphans"} => orphanCleanup,
           f \in {"limit", "create"} => req[h].op = "create",
           p = "list" => f # "target", p = "sync" => f \notin {"orphans", "target"},
           p = "delete" => todo # {} /\ \A s \in todo : s \in old' \/ (req[h].op = "destroy" /\ req[h].id = s),
           p \in {"apply", "ready", "register"} => req[h].op = "create",
           p = "register" => pod'[req[h].id] # "absent"
    PROVE  SafeInv'
<1>1. PICK r \in Request : /\ req' = [req EXCEPT ![h] = r]
                           /\ r.pc = p /\ r.phase = f /\ r.todo = todo
                           /\ r.op = req[h].op /\ r.id = req[h].id
  BY Staged DEF SafeInv
<1>2. /\ req[h].id \in Sessions
      /\ \A g \in Handlers : req[g].op = "create" => req[g].id \notin given'
      /\ \A g \in Handlers : g # h /\ req[g].op = "create" /\ req[h].op = "create" => req[h].id # req[g].id
  BY DEF SafeInv, MemoryIsSound, OneCreator
<1>3. Fits(h, r)
  BY <1>1, <1>2 DEF Fits
<1> QED BY <1>1, <1>3, Moved

\* The phase of a request is one of those there are, and says when it may delete.
LEMMA PhaseOf ==
    ASSUME SafeInv, NEW h \in Handlers
    PROVE  /\ req[h] \in Request
           /\ req[h].phase \in {"reap", "known", "orphans", "limit", "create", "target"}
           /\ req[h].phase \in {"known", "orphans"} => orphanCleanup
           /\ req[h].phase \in {"limit", "create"} => req[h].op = "create"
           /\ req[h].pc = "list" => req[h].phase # "target"
           /\ req[h].pc \in {"sync", "write"} => req[h].phase \notin {"orphans", "target"}
           /\ req[h].todo \in SUBSET Sessions /\ \A s \in req[h].todo : Exists(s)
BY DEF SafeInv, Kinds, Request, OnlyWhatIsDue, MemoryIsSound, PhasesInOrder

-----------------------------------------------------------------------------
(* One lemma per action *)

LEMMA ArriveKeeps ==
    ASSUME Settings, SafeInv, NEW h \in Handlers, Arrive(h)
    PROVE  SafeInv'
<1>1. PICK op \in Ops, s \in Sessions :
          /\ op = "create" => /\ pod[s] = "absent"
                              /\ \A g \in Handlers : req[g].op = "create" => req[g].id # s
          /\ Set(h, [Idle EXCEPT !.pc = "list", !.op = op, !.id = s])
  BY DEF Arrive
<1> DEFINE r == [Idle EXCEPT !.pc = "list", !.op = op, !.id = s]
<1>2. /\ r.pc = "list" /\ r.op = op /\ r.phase = "reap" /\ r.id = s /\ r.todo = {}
  BY DEF Idle
<1>3. r \in Request
  <2>1. op \in {"probe", "create", "destroy", "command"}
    BY DEF Settings
  <2> QED BY <2>1, IdleIsRequest DEF Request
<1>4. Grows
  BY GrowsAtRest DEF Arrive, SafeInv, Kinds, TypeOK
<1>5. op = "create" => s \notin given
  BY <1>1 DEF SafeInv, MemoryIsSound, Exists
<1>6. Fits(h, r)
  BY <1>1, <1>2, <1>5 DEF Fits, Arrive, SafeInv, OneCreator
<1>7. req' = [req EXCEPT ![h] = r]
  BY <1>1 DEF Set
<1> QED BY <1>3, <1>4, <1>6, <1>7, Moved

LEMMA ListPodsKeeps ==
    ASSUME SafeInv, NEW h \in Handlers, ListPods(h)
    PROVE  SafeInv'
<1>0. UNCHANGED <<pod, mem, given, orphanCleanup>> /\ old' = old /\ trouble' \in 0 .. MaxTrouble
  BY DEF ListPods, SafeInv, Kinds, TypeOK
<1>1. tenants' \in BOOLEAN => Grows
  BY <1>0, GrowsAtRest
<1>2. \A s \in Listed : s \in Sessions /\ pod'[s] # "absent"
  BY <1>0 DEF Listed
<1>3. req[h].pc # "idle"
  BY DEF ListPods
<1>4. CASE req[h].phase = "orphans"
  <2> DEFINE found == {s \in Listed : s \notin req[h].known \/ s \in old}
  <2>1. Continue(h, found)
    BY <1>4 DEF ListPods
  <2>2. orphanCleanup
    BY <1>4, PhaseOf
  <2>3. found \in SUBSET Sessions /\ \A s \in found : pod'[s] # "absent"
    BY <1>2
  <2> HIDE DEF found
  <2>4. \A s \in found : /\ pod'[s] # "absent"
                        /\ \/ orphanCleanup \/ s \in old'
                           \/ req[h].op = "destroy" /\ req[h].id = s
    BY <2>2, <2>3
  <2> QED BY <1>0, <1>1, <1>3, <2>1, <2>3, <2>4, ContinueKeeps
<1>5. CASE req[h].phase # "orphans"
  <2>1. Stage(h, "sync", req[h].phase, Listed) /\ tenants' \in BOOLEAN /\ req[h].pc = "list"
    BY <1>5 DEF ListPods, SafeInv, Kinds
  <2>2. Listed \in SUBSET Sessions
    BY <1>2
  <2> QED BY <1>0, <1>1, <1>2, <1>3, <1>5, <2>1, <2>2, PhaseOf, StageKeeps
<1> QED BY <1>4, <1>5

LEMMA ReadPolicyKeeps ==
    ASSUME SafeInv, NEW h \in Handlers, ReadPolicy(h)
    PROVE  SafeInv'
<1>1. Grows /\ given' = given /\ UNCHANGED pod /\ UNCHANGED old
  BY GrowsAtRest DEF ReadPolicy, SafeInv, Kinds, TypeOK
<1>2. PICK s \in req[h].todo :
         CASE mem[s] = "destroyed" -> Stage(h, "sync", req[h].phase, req[h].todo \ {s})
           [] mem[s] # "destroyed" /\ pod[s] = "running" ->
                Set(h, [req[h] EXCEPT !.pc = "write", !.cur = s])
           [] OTHER -> Answer(h)
  BY DEF ReadPolicy
<1>3. req[h].pc = "sync" /\ s \in Sessions /\ Exists(s)
  BY PhaseOf DEF ReadPolicy
<1>4. CASE Stage(h, "sync", req[h].phase, req[h].todo \ {s})
  <2> DEFINE left == req[h].todo \ {s}
  <2>1. left \in SUBSET Sessions /\ \A t \in left : pod'[t] # "absent"
    BY <1>1, PhaseOf DEF Exists
  <2>2. Stage(h, "sync", req[h].phase, left)
    BY <1>4
  <2> HIDE DEF left
  <2> QED BY <1>1, <1>3, <2>1, <2>2, PhaseOf, StageKeeps
<1>5. CASE Set(h, [req[h] EXCEPT !.pc = "write", !.cur = s])
  <2> DEFINE r == [req[h] EXCEPT !.pc = "write", !.cur = s]
  <2>1. req' = [req EXCEPT ![h] = r]
    BY <1>5 DEF Set
  <2>2. /\ r \in Request /\ r.pc = "write" /\ r.cur = s
        /\ r.todo = req[h].todo /\ r.op = req[h].op /\ r.id = req[h].id /\ r.phase = req[h].phase
    BY <1>3, PhaseOf DEF Request
  <2> HIDE DEF r
  <2>3. \A t \in r.todo : pod'[t] # "absent"
    BY <1>1, <2>2, PhaseOf DEF Exists
  <2>4. Fits(h, r)
    <3>1. /\ r.id \in Sessions /\ pod'[s] # "absent"
          /\ r.phase \in {"known", "orphans"} => orphanCleanup
      BY <1>1, <1>3, <2>2, PhaseOf DEF SafeInv, MemoryIsSound, Exists
    <3>2. /\ r.phase \in {"limit", "create"} => r.op = "create"
          /\ r.phase \notin {"orphans", "target"}
      BY <1>3, <2>2, PhaseOf
    <3>3. /\ r.op = "create" => r.id \notin given'
          /\ \A g \in Handlers : g # h /\ req[g].op = "create" =>
               /\ req[g].id \notin given'
               /\ r.op = "create" => r.id # req[g].id
      BY <1>1, <2>2 DEF SafeInv, OneCreator
    <3> QED BY <1>3, <2>2, <2>3, <3>1, <3>2, <3>3 DEF Fits
  <2> QED BY <1>1, <2>1, <2>2, <2>4, Moved
<1>6. CASE Answer(h)
  BY <1>1, <1>6, AnswerKeeps DEF SafeInv, OneCreator
<1> QED BY <1>2, <1>4, <1>5, <1>6

\* Recording sessions that exist as active makes nothing of what was never created.
LEMMA RecordingGrows ==
    ASSUME SafeInv, UNCHANGED <<pod, old, given, trouble, orphanCleanup>>, tenants' \in BOOLEAN,
           mem' \in [Sessions -> {"none", "active", "destroyed"}],
           \A s \in Sessions : /\ mem'[s] # "none" => pod'[s] # "absent"
                               /\ mem'[s] = "destroyed" => pod'[s] = "deleted"
    PROVE  Grows
<1>1. /\ pod' \in [Sessions -> {"absent", "bare", "running", "deleted"}]
      /\ old' \subseteq Sessions /\ given' \subseteq Sessions /\ trouble' \in 0 .. MaxTrouble
  BY DEF SafeInv, Kinds, TypeOK
<1>2. \A s \in given' : pod'[s] # "absent"
  BY <1>1 DEF SafeInv, MemoryIsSound, Exists
<1> QED BY <1>1, <1>2 DEF Grows, Exists

LEMMA WriteSessionKeeps ==
    ASSUME SafeInv, NEW h \in Handlers, WriteSession(h)
    PROVE  SafeInv'
<1> DEFINE c == req[h].cur
           left == req[h].todo \ {c}
<1>1. /\ req[h].pc = "write" /\ mem' = [mem EXCEPT ![c] = "active"]
      /\ Stage(h, "sync", req[h].phase, left)
      /\ UNCHANGED <<pod, old, tenants, orphanCleanup, given, trouble>>
  BY DEF WriteSession, Rebuilt
<1>2. c \in Sessions /\ pod[c] # "absent"
  BY <1>1 DEF SafeInv, MemoryIsSound, Exists
<1>3. left \in SUBSET Sessions /\ \A t \in left : pod'[t] # "absent"
  BY <1>1, PhaseOf DEF Exists
<1> HIDE DEF c, left
<1>4. /\ mem' \in [Sessions -> {"none", "active", "destroyed"}]
      /\ \A t \in Sessions : /\ mem'[t] # "none" => pod'[t] # "absent"
                             /\ mem'[t] = "destroyed" => pod'[t] = "deleted"
  BY <1>1, <1>2 DEF SafeInv, Kinds, TypeOK, MemoryIsSound, DestroyedIsGone, Exists
<1>5. tenants' \in BOOLEAN
  BY <1>1 DEF SafeInv, Kinds
<1>6. Grows
  BY <1>1, <1>4, <1>5, RecordingGrows
<1> QED BY <1>1, <1>3, <1>6, PhaseOf, StageKeeps

LEMMA SyncSessionsKeeps ==
    ASSUME SafeInv, NEW h \in Handlers, SyncSessions(h)
    PROVE  SafeInv'
<1>1. UNCHANGED <<pod, mem, old, orphanCleanup, given, trouble>> /\ trouble' \in 0 .. MaxTrouble
  BY DEF SyncSessions, SafeInv, Kinds, TypeOK
<1>g. tenants' \in BOOLEAN => Grows
  BY <1>1, GrowsAtRest
<1>2. req[h].pc # "idle" /\ given' = given /\ old' = old /\ UNCHANGED orphanCleanup
  BY DEF SyncSessions
<1>3. \A s \in Active : s \in Sessions /\ pod'[s] # "absent"
  BY <1>1 DEF Active, SafeInv, MemoryIsSound, Exists
<1>4. CASE req[h].phase \in {"reap", "limit"}
  <2>1. Continue(h, Overdue(Active))
    BY <1>4 DEF SyncSessions
  <2>2. \A s \in Overdue(Active) : s \in Sessions /\ pod'[s] # "absent" /\ s \in old'
    BY <1>2, <1>3 DEF Overdue
  <2> DEFINE found == Overdue(Active)
  <2>3. found \in SUBSET Sessions
    BY <2>2
  <2>4. \A s \in found : /\ pod'[s] # "absent"
                        /\ \/ orphanCleanup \/ s \in old'
                           \/ req[h].op = "destroy" /\ req[h].id = s
    BY <2>2
  <2>5. Continue(h, found)
    BY <2>1
  <2> HIDE DEF found
  <2> QED BY <1>g, <1>2, <2>3, <2>4, <2>5, ContinueKeeps
<1>5. CASE req[h].phase = "known" /\ Active = {} /\ ~tenants
  <2>1. Continue(h, {})
    BY <1>5 DEF SyncSessions, Continue
  <2> QED BY <1>g, <1>2, <2>1, ContinueKeeps
<1>6. CASE req[h].phase = "known" /\ ~(Active = {} /\ ~tenants)
  <2> DEFINE r == [req[h] EXCEPT !.pc = "list", !.phase = "orphans", !.todo = {}, !.known = Active]
  <2>1. req' = [req EXCEPT ![h] = r] /\ UNCHANGED tenants
    BY <1>6 DEF SyncSessions, Set
  <2>2. Active \in SUBSET Sessions
    BY <1>3
  <2>3. r \in Request /\ r.pc = "list" /\ r.phase = "orphans" /\ r.todo = {}
        /\ r.op = req[h].op /\ r.id = req[h].id
    BY <2>2, PhaseOf DEF Request
  <2>4. Grows
    BY <1>g, <2>1 DEF SafeInv, Kinds
  <2>5. GoesOn(h, r, {})
    BY <1>6, <2>3, PhaseOf DEF GoesOn
  <2> HIDE DEF r
  <2>6. Fits(h, r)
    BY <1>2, <2>3, <2>4, <2>5, NextPhaseFits
  <2> QED BY <2>1, <2>3, <2>4, <2>6, Moved
<1>7. CASE req[h].phase \notin {"reap", "limit", "known"}
  <2>1. (Answer(h) \/ Stage(h, "apply", "create", {})) /\ UNCHANGED tenants
    BY <1>7 DEF SyncSessions
  <2>2. Grows
    BY <1>g, <2>1 DEF SafeInv, Kinds
  <2>3. CASE Answer(h)
    BY <1>2, <2>2, <2>3, AnswerKeeps DEF SafeInv, OneCreator
  <2>4. CASE Stage(h, "apply", "create", {})
    <3>1. req[h].op = "create"
      BY <1>7, PhaseOf DEF SyncSessions
    <3> QED BY <1>2, <2>2, <2>4, <3>1, StageKeeps
  <2> QED BY <2>1, <2>3, <2>4
<1> QED BY <1>4, <1>5, <1>6, <1>7

\* kubectl delete leaves no pod of the session it was called for.
LEMMA DeleteResourcesKeeps ==
    ASSUME Settings, SafeInv, NEW h \in Handlers, DeleteResources(h)
    PROVE  SafeInv'
<1> DEFINE s == Min(req[h].todo)
           r == [req[h] EXCEPT !.pc = "confirm", !.cur = s]
<1>1. /\ req[h].pc = "delete" /\ pod' = [pod EXCEPT ![s] = IF @ = "absent" THEN @ ELSE "deleted"]
      /\ req' = [req EXCEPT ![h] = r]
      /\ UNCHANGED <<mem, old, tenants, orphanCleanup, given, trouble>>
  BY DEF DeleteResources, Set
<1>2. req[h] \in Request /\ req[h].todo \in SUBSET Sessions /\ req[h].todo # {} /\ req[h].id \in Sessions
  BY <1>1, PhaseOf DEF SafeInv, MemoryIsSound
<1>3. s \in req[h].todo
  BY <1>2, OneOfThem
<1> HIDE DEF s
<1>4. s \in Sessions /\ Exists(s)
  BY <1>2, <1>3, PhaseOf
<1>5. /\ r \in Request /\ r.pc = "confirm" /\ r.cur = s
      /\ r.todo = req[h].todo /\ r.op = req[h].op /\ r.id = req[h].id /\ r.phase = req[h].phase
  BY <1>2, <1>4 DEF Request
<1>6. /\ pod' \in [Sessions -> {"absent", "bare", "running", "deleted"}] /\ pod'[s] = "deleted"
      /\ \A t \in Sessions : /\ Exists(t) => pod'[t] # "absent"
                             /\ pod[t] = "deleted" => pod'[t] = "deleted"
  BY <1>1, <1>4 DEF SafeInv, Kinds, TypeOK, Exists
<1>7. Grows
  BY <1>1, <1>6 DEF Grows, SafeInv, Kinds, TypeOK, DestroyedIsGone, MemoryIsSound, Exists
<1> HIDE DEF r
<1>8. \A t \in r.todo : pod'[t] # "absent"
  BY <1>2, <1>5, <1>6, PhaseOf
<1>9. Fits(h, r)
  <2>1. /\ r.phase \in {"known", "orphans"} => orphanCleanup
        /\ ~orphanCleanup => \A t \in r.todo : t \in old' \/ (r.op = "destroy" /\ r.id = t)
    BY <1>1, <1>5 DEF SafeInv, OnlyWhatIsDue
  <2>2. /\ r.phase \in {"limit", "create"} => r.op = "create"
        /\ r.op = "create" => r.id \notin given'
        /\ \A g \in Handlers : g # h /\ req[g].op = "create" =>
             /\ req[g].id \notin given'
             /\ r.op = "create" => r.id # req[g].id
    BY <1>1, <1>5 DEF SafeInv, OneCreator, PhasesInOrder
  <2> QED BY <1>2, <1>4, <1>5, <1>6, <1>8, <2>1, <2>2 DEF Fits
<1> QED BY <1>1, <1>5, <1>7, <1>9, Moved

LEMMA ConfirmKeeps ==
    ASSUME SafeInv, NEW h \in Handlers, Confirm(h)
    PROVE  SafeInv'
<1> DEFINE s == req[h].cur
           left == req[h].todo \ {s}
<1>1. /\ req[h].pc = "confirm" /\ Continue(h, left)
      /\ mem' = [mem EXCEPT ![s] = IF req[h].phase = "orphans" /\ @ = "none"
                                   THEN @ ELSE "destroyed"]
      /\ UNCHANGED <<pod, old, orphanCleanup, given, trouble>>
  BY DEF Confirm
<1>2. s \in Sessions /\ pod[s] = "deleted"
  BY <1>1 DEF SafeInv, MemoryIsSound
<1> HIDE DEF s
<1>3. /\ mem' \in [Sessions -> {"none", "active", "destroyed"}]
      /\ \A t \in Sessions : /\ mem'[t] # "none" => pod'[t] # "absent"
                             /\ mem'[t] = "destroyed" => pod'[t] = "deleted"
  BY <1>1, <1>2 DEF SafeInv, Kinds, TypeOK, MemoryIsSound, DestroyedIsGone, Exists
<1>4. tenants' \in BOOLEAN => Grows
  BY <1>1, <1>3, RecordingGrows
<1>5. left \in SUBSET Sessions /\ \A t \in left : t \in req[h].todo /\ pod'[t] # "absent"
  BY <1>1, PhaseOf DEF Exists
<1>6. \A t \in left : orphanCleanup \/ t \in old' \/ (req[h].op = "destroy" /\ req[h].id = t)
  BY <1>1, <1>5 DEF SafeInv, OnlyWhatIsDue
<1> HIDE DEF left
<1> QED BY <1>1, <1>4, <1>5, <1>6, ContinueKeeps

LEMMA DestroySessionKeeps ==
    ASSUME SafeInv, NEW h \in Handlers, DestroySession(h)
    PROVE  SafeInv'
<1>1. /\ req[h].pc = "look" /\ req[h].op = "destroy"
      /\ UNCHANGED <<pod, mem, old, tenants, orphanCleanup, given, trouble>>
      /\ Answer(h) \/ (mem[req[h].id] # "none" /\ Stage(h, "delete", "target", {req[h].id}))
  BY DEF DestroySession
<1>2. Grows /\ given' = given
  BY <1>1, GrowsAtRest DEF SafeInv, Kinds, TypeOK
<1>3. CASE Answer(h)
  BY <1>2, <1>3, AnswerKeeps DEF SafeInv, OneCreator
<1>4. CASE mem[req[h].id] # "none" /\ Stage(h, "delete", "target", {req[h].id})
  <2>1. req[h].id \in Sessions /\ pod'[req[h].id] # "absent"
    BY <1>1, <1>4 DEF SafeInv, MemoryIsSound, Exists
  <2> QED BY <1>1, <1>2, <1>4, <2>1, StageKeeps
<1> QED BY <1>1, <1>3, <1>4

LEMMA UseSessionKeeps ==
    ASSUME SafeInv, NEW h \in Handlers, UseSession(h)
    PROVE  SafeInv'
<1>1. /\ req[h].pc = "look"
      /\ UNCHANGED <<pod, mem, old, tenants, orphanCleanup, given, trouble>>
      /\ Answer(h) \/ (req[h].id \in Active \cap old /\ Stage(h, "delete", "target", {req[h].id}))
  BY DEF UseSession
<1>2. Grows /\ given' = given
  BY <1>1, GrowsAtRest DEF SafeInv, Kinds, TypeOK
<1>3. CASE Answer(h)
  BY <1>2, <1>3, AnswerKeeps DEF SafeInv, OneCreator
<1>4. CASE req[h].id \in Active \cap old /\ Stage(h, "delete", "target", {req[h].id})
  <2>1. req[h].id \in Sessions /\ pod'[req[h].id] # "absent" /\ req[h].id \in old'
    BY <1>1, <1>4 DEF SafeInv, MemoryIsSound, Exists, Active
  <2> QED BY <1>1, <1>2, <1>4, <2>1, StageKeeps
<1> QED BY <1>1, <1>3, <1>4

\* A request that stays where it is while nothing is forgotten.
LEMMA StaysKeeps ==
    ASSUME SafeInv, Grows, given' = given, UNCHANGED req, NEW h \in Handlers, req[h].pc # "confirm"
    PROVE  SafeInv'
<1>1. req[h] \in Request /\ req' = [req EXCEPT ![h] = req[h]]
  BY DEF SafeInv, Kinds
<1>2. Fits(h, req[h])
  <2>1. /\ \A s \in req[h].todo : pod'[s] # "absent"
        /\ req[h].pc = "write" => req[h].cur \in Sessions /\ pod'[req[h].cur] # "absent"
        /\ req[h].pc = "delete" => req[h].todo # {}
        /\ req[h].pc = "register" => pod'[req[h].id] # "absent"
        /\ req[h].pc # "idle" => req[h].id \in Sessions
    BY <1>1 DEF SafeInv, MemoryIsSound, Grows, Exists, Request
  <2>2. /\ req[h].phase \in {"known", "orphans"} => orphanCleanup
        /\ req[h].pc \in {"delete", "confirm"} /\ ~orphanCleanup =>
             \A s \in req[h].todo : s \in old' \/ (req[h].op = "destroy" /\ req[h].id = s)
    BY DEF SafeInv, OnlyWhatIsDue, Grows
  <2>3. /\ req[h].pc \in {"apply", "ready", "register"} => req[h].op = "create"
        /\ req[h].op = "create" => req[h].id \notin given'
        /\ \A g \in Handlers : g # h /\ req[g].op = "create" =>
             /\ req[g].id \notin given'
             /\ req[h].op = "create" => req[h].id # req[g].id
    BY DEF SafeInv, OneCreator
  <2>4. /\ req[h].phase \in {"limit", "create"} => req[h].op = "create"
        /\ req[h].pc = "list" => req[h].phase # "target"
        /\ req[h].pc \in {"sync", "write"} => req[h].phase \notin {"orphans", "target"}
    BY DEF SafeInv, PhasesInOrder
  <2> QED BY <2>1, <2>2, <2>3, <2>4 DEF Fits
<1> QED BY <1>1, <1>2, Moved

\* A pod that appears, gets its policy or goes.
LEMMA PodMoves ==
    ASSUME SafeInv, NEW s \in Sessions, NEW to \in {"bare", "running", "deleted"},
           pod' = [pod EXCEPT ![s] = to], pod[s] = "deleted" => to = "deleted",
           UNCHANGED <<mem, old, given, orphanCleanup>>, trouble' \in 0 .. MaxTrouble,
           UNCHANGED tenants
    PROVE  Grows /\ pod'[s] = to
<1>1. /\ pod' \in [Sessions -> {"absent", "bare", "running", "deleted"}] /\ pod'[s] = to
      /\ \A t \in Sessions : t # s => pod'[t] = pod[t]
  BY DEF SafeInv, Kinds, TypeOK
<1>2. \A t \in Sessions : /\ Exists(t) => pod'[t] # "absent"
                          /\ pod[t] = "deleted" => pod'[t] = "deleted"
  BY <1>1 DEF Exists
<1> QED BY <1>1, <1>2 DEF Grows, SafeInv, Kinds, TypeOK, DestroyedIsGone, MemoryIsSound, Exists

LEMMA ApplyPodKeeps ==
    ASSUME SafeInv, NEW h \in Handlers, ApplyPod(h)
    PROVE  SafeInv'
<1>1. /\ req[h].pc = "apply" /\ pod[req[h].id] = "absent"
      /\ pod' = [pod EXCEPT ![req[h].id] = "bare"]
      /\ UNCHANGED <<mem, old, req, tenants, orphanCleanup, given, trouble>>
  BY DEF ApplyPod
<1>2. req[h].id \in Sessions /\ trouble' \in 0 .. MaxTrouble
  BY <1>1 DEF SafeInv, Kinds, TypeOK, MemoryIsSound
<1>3. Grows
  BY <1>1, <1>2, PodMoves
<1> QED BY <1>1, <1>3, StaysKeeps

LEMMA ApplyPolicyKeeps ==
    ASSUME SafeInv, NEW h \in Handlers, ApplyPolicy(h)
    PROVE  SafeInv'
<1> DEFINE s == req[h].id
<1>1. /\ req[h].pc = "apply" /\ pod[s] # "absent" /\ Stage(h, "ready", "create", {})
      /\ pod' = [pod EXCEPT ![s] = IF @ = "bare" THEN "running" ELSE @]
      /\ UNCHANGED <<mem, old, tenants, orphanCleanup, given, trouble>>
  BY DEF ApplyPolicy
<1>2. s \in Sessions /\ trouble' \in 0 .. MaxTrouble /\ req[h].op = "create"
  BY <1>1 DEF SafeInv, Kinds, TypeOK, MemoryIsSound, OneCreator
<1>3. PICK to \in {"running", "deleted"} : /\ pod' = [pod EXCEPT ![s] = to]
                                           /\ pod[s] = "deleted" => to = "deleted"
  BY <1>1, <1>2 DEF SafeInv, Kinds, TypeOK
<1>4. Grows
  BY <1>1, <1>2, <1>3, PodMoves
<1> QED BY <1>1, <1>2, <1>4, StageKeeps

LEMMA ReadBackKeeps ==
    ASSUME SafeInv, NEW h \in Handlers, ReadBack(h)
    PROVE  SafeInv'
<1>1. /\ req[h].pc = "ready"
      /\ UNCHANGED <<pod, mem, old, tenants, orphanCleanup, given, trouble>>
      /\ Answer(h) \/ (pod[req[h].id] = "running" /\ Stage(h, "register", "create", {}))
  BY DEF ReadBack
<1>2. Grows /\ given' = given
  BY <1>1, GrowsAtRest DEF SafeInv, Kinds, TypeOK
<1>3. CASE Answer(h)
  BY <1>2, <1>3, AnswerKeeps DEF SafeInv, OneCreator
<1>4. CASE pod[req[h].id] = "running" /\ Stage(h, "register", "create", {})
  <2>1. req[h].op = "create" /\ pod'[req[h].id] # "absent"
    BY <1>1, <1>4 DEF SafeInv, OneCreator
  <2> QED BY <1>1, <1>2, <1>4, <2>1, StageKeeps
<1> QED BY <1>1, <1>3, <1>4

LEMMA RegisterKeeps ==
    ASSUME SafeInv, NEW h \in Handlers, Register(h)
    PROVE  SafeInv'
<1> DEFINE s == req[h].id
<1>1. /\ req[h].pc = "register" /\ mem' = [mem EXCEPT ![s] = "active"]
      /\ given' = given \cup {s} /\ Answer(h)
      /\ UNCHANGED <<pod, old, tenants, orphanCleanup, trouble>>
  BY DEF Register
<1>2. s \in Sessions /\ Exists(s) /\ req[h].op = "create"
  BY <1>1 DEF SafeInv, MemoryIsSound, OneCreator
<1>3. \A g \in Handlers : g # h /\ req[g].op = "create" => req[g].id \notin given'
  BY <1>1, <1>2 DEF SafeInv, OneCreator
<1>4. Grows
  <2>1. /\ mem' \in [Sessions -> {"none", "active", "destroyed"}]
        /\ \A t \in Sessions : /\ mem'[t] # "none" => pod'[t] # "absent"
                               /\ mem'[t] = "destroyed" => pod'[t] = "deleted"
    BY <1>1, <1>2 DEF SafeInv, Kinds, TypeOK, MemoryIsSound, DestroyedIsGone, Exists
  <2>2. given' \subseteq Sessions /\ \A t \in given' : pod'[t] # "absent"
    BY <1>1, <1>2 DEF SafeInv, Kinds, TypeOK, MemoryIsSound, Exists
  <2> QED BY <1>1, <2>1, <2>2 DEF Grows, SafeInv, Kinds, TypeOK, Exists
<1> QED BY <1>1, <1>3, <1>4, AnswerKeeps

LEMMA KubectlFailsKeeps ==
    ASSUME Settings, SafeInv, NEW h \in Handlers, KubectlFails(h)
    PROVE  SafeInv'
<1>1. /\ Answer(h) /\ UNCHANGED <<mem, old, tenants, orphanCleanup, given>>
      /\ trouble < MaxTrouble /\ trouble' = trouble + 1
  BY DEF KubectlFails
<1>2. trouble' \in 0 .. MaxTrouble
  BY <1>1 DEF Settings, SafeInv, Kinds, TypeOK
<1>3. CASE UNCHANGED pod
  <2>1. Grows
    BY <1>1, <1>2, <1>3, GrowsAtRest DEF SafeInv, Kinds
  <2> QED BY <1>1, <2>1, AnswerKeeps DEF SafeInv, OneCreator
<1>4. CASE req[h].pc = "ready" /\ pod' = [pod EXCEPT ![req[h].id] = "deleted"]
  <2>1. req[h].id \in Sessions
    BY <1>4 DEF SafeInv, MemoryIsSound
  <2>2. Grows
    BY <1>1, <1>2, <1>4, <2>1, PodMoves
  <2> QED BY <1>1, <2>2, AnswerKeeps DEF SafeInv, OneCreator
<1>5. UNCHANGED pod \/ (req[h].pc = "ready" /\ pod' = [pod EXCEPT ![req[h].id] = "deleted"])
  BY DEF KubectlFails, SafeInv, Kinds, TypeOK
<1> QED BY <1>3, <1>4, <1>5

\* A controller that restarts knows of no session and asks for nothing.
LEMMA RestartKeeps == ASSUME Settings, SafeInv, Restart PROVE SafeInv'
<1>1. /\ mem' = [s \in Sessions |-> "none"] /\ req' = [h \in Handlers |-> Idle]
      /\ tenants' = FALSE /\ trouble < MaxTrouble /\ trouble' = trouble + 1
      /\ UNCHANGED <<pod, old, orphanCleanup, given>>
  BY DEF Restart
<1>2. Kinds'
  <2>1. req' \in [Handlers -> Request]
    BY <1>1, IdleIsRequest
  <2>2. trouble' \in 0 .. MaxTrouble
    BY <1>1 DEF Settings, SafeInv, Kinds, TypeOK
  <2> QED BY <1>1, <2>1, <2>2 DEF SafeInv, Kinds, TypeOK
<1>3. DestroyedIsGone' /\ MemoryIsSound'
  BY <1>1 DEF DestroyedIsGone, SafeInv, MemoryIsSound, Exists, Idle
<1>4. OnlyWhatIsDue' /\ OneCreator' /\ PhasesInOrder'
  BY <1>1 DEF OnlyWhatIsDue, OneCreator, PhasesInOrder, Idle
<1> QED BY <1>2, <1>3, <1>4 DEF SafeInv

LEMMA ExpireKeeps == ASSUME SafeInv, NEW s \in Sessions, Expire(s) PROVE SafeInv'
<1>1. old' = old \cup {s} /\ UNCHANGED <<pod, mem, req, tenants, orphanCleanup, given, trouble>>
  BY DEF Expire
<1>2. Kinds'
  BY <1>1 DEF SafeInv, Kinds, TypeOK, Request
<1>3. DestroyedIsGone' /\ MemoryIsSound'
  BY <1>1 DEF SafeInv, DestroyedIsGone, MemoryIsSound, Exists
<1>4. OnlyWhatIsDue'
  BY <1>1 DEF SafeInv, OnlyWhatIsDue
<1>5. OneCreator' /\ PhasesInOrder'
  BY <1>1 DEF SafeInv, OneCreator, PhasesInOrder
<1> QED BY <1>2, <1>3, <1>4, <1>5 DEF SafeInv

-----------------------------------------------------------------------------
(* The invariant, and what a step says of a session that was handed out *)

LEMMA SafeAtFirst == ASSUME Settings, CleanupModes \subseteq BOOLEAN, Init PROVE SafeInv
<1>1. Kinds
  <2>1. req \in [Handlers -> Request]
    BY IdleIsRequest DEF Init
  <2>2. trouble \in 0 .. MaxTrouble
    BY DEF Settings, Init
  <2> QED BY <2>1, <2>2 DEF Init, Kinds, TypeOK
<1>2. DestroyedIsGone /\ MemoryIsSound
  BY DEF Init, DestroyedIsGone, MemoryIsSound, Exists, Idle
<1>3. OnlyWhatIsDue /\ OneCreator /\ PhasesInOrder
  BY DEF Init, OnlyWhatIsDue, OneCreator, PhasesInOrder, Idle
<1> QED BY <1>1, <1>2, <1>3 DEF SafeInv

\* Every step keeps the invariant.
THEOREM SafetyGoesOn == ASSUME Settings PROVE SafeInv /\ [Next]_vars => SafeInv'
<1>1. SUFFICES ASSUME SafeInv, [Next]_vars PROVE SafeInv'
  OBVIOUS
<1>2. CASE UNCHANGED vars
  BY <1>1, <1>2 DEF vars, SafeInv, Kinds, TypeOK, Request, DestroyedIsGone, MemoryIsSound, Exists,
                    OnlyWhatIsDue, OneCreator, PhasesInOrder
<1>3. ASSUME NEW h \in Handlers, Arrive(h) PROVE SafeInv'
  BY <1>1, <1>3, ArriveKeeps
<1>4. ASSUME NEW h \in Handlers, Step(h) PROVE SafeInv'
  BY <1>1, <1>4, ListPodsKeeps, ReadPolicyKeeps, WriteSessionKeeps, SyncSessionsKeeps, DeleteResourcesKeeps,
     ConfirmKeeps, DestroySessionKeeps, UseSessionKeeps, ApplyPodKeeps, ApplyPolicyKeeps,
     ReadBackKeeps, RegisterKeeps DEF Step
<1>5. ASSUME NEW h \in Handlers, KubectlFails(h) PROVE SafeInv'
  BY <1>1, <1>5, KubectlFailsKeeps
<1>6. CASE Restart
  BY <1>1, <1>6, RestartKeeps
<1>7. ASSUME NEW s \in Sessions, Expire(s) PROVE SafeInv'
  BY <1>1, <1>7, ExpireKeeps
<1> QED BY <1>1, <1>2, <1>3, <1>4, <1>5, <1>6, <1>7 DEF Next

\* Only two calls take a running pod away: the deletion of what a request is about to
\* delete, and that of a pod which did not get ready.
LEMMA TakenByTwo ==
    ASSUME SafeInv, NEW h \in Handlers, Arrive(h) \/ Step(h) \/ KubectlFails(h),
           NEW s \in Sessions, pod[s] = "running", pod'[s] = "deleted"
    PROVE  \/ DeleteResources(h) /\ s = Min(req[h].todo)
           \/ KubectlFails(h) /\ req[h].pc = "ready" /\ s = req[h].id
<1>1. pod \in [Sessions -> {"absent", "bare", "running", "deleted"}]
  BY DEF SafeInv, Kinds, TypeOK
<1>2. CASE Arrive(h)
  BY <1>2 DEF Arrive
<1>3. CASE Step(h)
  BY <1>1, <1>3 DEF Step, ListPods, ReadPolicy, WriteSession, SyncSessions, DeleteResources, Confirm,
     DestroySession, UseSession, ApplyPod, ApplyPolicy, ReadBack, Register
<1>4. CASE KubectlFails(h)
  BY <1>1, <1>4 DEF KubectlFails
<1> QED BY <1>2, <1>3, <1>4

\* A session handed to a client is too old, or was to be destroyed, when its pod goes.
THEOREM YoungStay == ASSUME Settings PROVE SafeInv /\ [Next]_vars => NotTakenEarly
<1>1. SUFFICES ASSUME SafeInv, [Next]_vars, ~orphanCleanup,
                      NEW s \in given, pod[s] = "running", pod'[s] = "deleted"
               PROVE  \/ s \in old
                      \/ \E h \in Handlers : req[h].op = "destroy" /\ req[h].id = s
  BY DEF NotTakenEarly
<1>2. s \in Sessions
  BY <1>1 DEF SafeInv, Kinds, TypeOK
<1>3. PICK h \in Handlers : Arrive(h) \/ Step(h) \/ KubectlFails(h)
  BY <1>1 DEF Next, Restart, Expire, vars
<1>4. CASE DeleteResources(h) /\ s = Min(req[h].todo)
  <2>1. req[h].pc = "delete"
    BY <1>4 DEF DeleteResources
  <2>2. req[h].todo \in SUBSET Sessions /\ req[h].todo # {}
    BY <1>1, <2>1, PhaseOf DEF SafeInv, MemoryIsSound
  <2>3. s \in req[h].todo
    BY <1>4, <2>2, OneOfThem
  <2> QED BY <1>1, <2>1, <2>3 DEF SafeInv, OnlyWhatIsDue
<1>5. CASE req[h].pc = "ready" /\ s = req[h].id
  BY <1>1, <1>5 DEF SafeInv, OneCreator
<1> QED BY <1>1, <1>2, <1>3, <1>4, <1>5, TakenByTwo

\* What is reported as destroyed is gone, for any number of threads, sessions and faults.
THEOREM DestroyedPodsAreGone ==
    ASSUME Settings, CleanupModes \subseteq BOOLEAN
    PROVE  Spec => []DestroyedIsGone /\ KeptWhileYoung
<1>1. SafeInv => DestroyedIsGone
  BY DEF SafeInv
<1> QED BY <1>1, SafeAtFirst, SafetyGoesOn, YoungStay, PTL DEF Spec, KeptWhileYoung

-----------------------------------------------------------------------------
(***************************************************************************)
(* How far the session limits are exceeded.  A thread that is admitted     *)
(* misses the sessions created since its listing; each of them has a       *)
(* thread of its own that has not counted since.                           *)
(***************************************************************************)

Limits == /\ IsFiniteSet(Sessions) /\ IsFiniteSet(Handlers) /\ Handlers # {}
          /\ MaxSessions \in Nat /\ MaxSessionsPerRun \in Nat

\* Sessions that have a pod, or whose pod is about to be applied.
Pending == {s \in Sessions : pod[s] = "absent" /\ \E g \in Handlers :
                                req[g].pc = "apply" /\ req[g].id = s}
Taken == Listed \cup Pending

\* Thread g is creating session u, or will meet it before it creates another one.
AboutToSee(g, u) ==
    \/ req[g].pc \in {"apply", "ready", "register"} /\ req[g].id = u
    \/ /\ pod[u] # "absent"
       /\ \/ req[g].pc = "idle"
          \/ req[g].pc = "list" /\ req[g].phase # "orphans"
          \/ req[g].pc \in {"sync", "write"} /\ u \in req[g].todo

\* The provider counts the sessions for thread h; those it does not see belong to as
\* many other threads, which is why an admission takes the total past the limit by no
\* more than one for each.
Counts(h) == req[h].pc \in {"sync", "write"} /\ req[h].phase = "create"
Unseen(h) == Taken \ (Active \cup req[h].todo)
Followed(h) == \E f \in [Unseen(h) -> Handlers \ {h}] :
                  /\ \A u, v \in Unseen(h) : f[u] = f[v] => u = v
                  /\ \A u \in Unseen(h) : AboutToSee(f[u], u)

OfRun(s) == {t \in Sessions : RunOf[t] = RunOf[s]}
Within(K, L) == Cardinality(Taken \cap K) <= L + Cardinality(Handlers) - 1

CountInv == /\ \A h \in Handlers : Counts(h) => Followed(h)
            /\ Within(Sessions, MaxSessions)
            /\ \A s \in Sessions : Within(OfRun(s), MaxSessionsPerRun)

\* Sets of sessions are finite, and so is what is counted.
LEMMA Countable ==
    ASSUME Limits, NEW S \in SUBSET Sessions
    PROVE  IsFiniteSet(S) /\ Cardinality(S) \in Nat
BY FS_Subset, FS_CardinalityType DEF Limits

LEMMA ThreadsCounted == Limits => Cardinality(Handlers) \in Nat \ {0}
<1>1. ASSUME Limits PROVE Cardinality(Handlers) \in Nat /\ Cardinality(Handlers) # 0
  BY <1>1, FS_CardinalityType, FS_EmptySet DEF Limits
<1> QED BY <1>1

\* What gets no larger stays within its bound.
LEMMA WithinStays ==
    ASSUME Limits, NEW K, NEW L \in Nat, Within(K, L), Taken' \cap K \subseteq Taken
    PROVE  Within(K, L)'
<1>1. Taken \cap K \in SUBSET Sessions /\ Taken' \cap K \subseteq Taken \cap K
  BY DEF Taken, Listed, Pending
<1>2. IsFiniteSet(Taken \cap K)
  BY <1>1, Countable
<1>3. Cardinality(Taken' \cap K) <= Cardinality(Taken \cap K)
  BY <1>1, <1>2, FS_Subset
<1>4. Cardinality(Taken \cap K) \in Nat /\ Cardinality(Taken' \cap K) \in Nat
  BY <1>1, Countable
<1>5. Cardinality(Handlers) \in Nat
  BY ThreadsCounted
<1> QED BY <1>3, <1>4, <1>5 DEF Within

\* A thread's count stays good while nothing it has not seen is added or let go.
LEMMA FollowStays ==
    ASSUME NEW h \in Handlers, Followed(h), Unseen(h)' \subseteq Unseen(h),
           \A u \in Unseen(h)', g \in Handlers \ {h} : AboutToSee(g, u) => AboutToSee(g, u)'
    PROVE  Followed(h)'
<1>1. PICK f \in [Unseen(h) -> Handlers \ {h}] :
         /\ \A u, v \in Unseen(h) : f[u] = f[v] => u = v
         /\ \A u \in Unseen(h) : AboutToSee(f[u], u)
  BY DEF Followed
<1>2. PICK U : U = Unseen(h)'
  OBVIOUS
<1> DEFINE e == [u \in U |-> f[u]]
<1>3. U \subseteq Unseen(h)
  BY <1>2
<1>4. e \in [U -> Handlers \ {h}] /\ \A u, v \in U : e[u] = e[v] => u = v
  BY <1>1, <1>3
<1>5. \A u \in U : AboutToSee(e[u], u)'
  <2>1. SUFFICES ASSUME NEW u \in U PROVE AboutToSee(f[u], u)'
    OBVIOUS
  <2>2. u \in Unseen(h)' /\ f[u] \in Handlers \ {h} /\ AboutToSee(f[u], u)
    BY <1>1, <1>2, <1>3
  <2> QED BY <2>2
<1> HIDE DEF e
<1> QED BY <1>2, <1>4, <1>5 DEF Followed

\* A step that takes no session, of a thread that goes on seeing what it was about to.
LEMMA QuietStep ==
    ASSUME Limits, SafeInv, CountInv, NEW h \in Handlers, NEW r \in Request,
           req' = [req EXCEPT ![h] = r], r.pc # "apply",
           \A s \in Sessions : /\ pod'[s] \in {"bare", "running"} => pod[s] \in {"bare", "running"}
                               /\ pod[s] # "absent" => pod'[s] # "absent",
           \A u \in Taken' : u \in Active => u \in Active',
           \A u \in Taken' : u \notin Active' /\ AboutToSee(h, u) => AboutToSee(h, u)',
           Counts(h)' => Followed(h)'
    PROVE  CountInv'
<1>1. req'[h] = r /\ \A g \in Handlers : g # h => req'[g] = req[g]
  BY DEF SafeInv, Kinds
<1>2. Taken' \subseteq Taken
  BY <1>1 DEF Taken, Listed, Pending
<1>3. ASSUME NEW g \in Handlers, Counts(g)' PROVE Followed(g)'
  <2>1. CASE g = h
    BY <1>3, <2>1
  <2>2. CASE g # h
    <3>1. req'[g] = req[g] /\ Counts(g)
      BY <1>1, <1>3, <2>2 DEF Counts
    <3>2. Followed(g)
      BY <3>1 DEF CountInv
    <3>3. Unseen(g)' \subseteq Unseen(g)
      BY <1>2, <3>1 DEF Unseen
    <3>4. ASSUME NEW u \in Unseen(g)', NEW x \in Handlers \ {g}, AboutToSee(x, u)
          PROVE  AboutToSee(x, u)'
      <4>0. u \in Taken' /\ u \notin Active' /\ u \in Sessions
        BY DEF Unseen, Taken, Listed, Pending
      <4>1. CASE x = h
        BY <3>4, <4>0, <4>1
      <4>2. CASE x # h
        BY <1>1, <3>4, <4>0, <4>2 DEF AboutToSee
      <4> QED BY <4>1, <4>2
    <3> QED BY <3>2, <3>3, <3>4, FollowStays
  <2> QED BY <2>1, <2>2
<1>4. Within(Sessions, MaxSessions)' /\ \A s \in Sessions : Within(OfRun(s), MaxSessionsPerRun)'
  <2>1. Within(Sessions, MaxSessions)'
    BY <1>2, WithinStays DEF CountInv, Limits
  <2>2. ASSUME NEW s \in Sessions PROVE Within(OfRun(s), MaxSessionsPerRun)'
    BY <1>2, WithinStays DEF CountInv, Limits
  <2> QED BY <2>1, <2>2
<1> QED BY <1>3, <1>4 DEF CountInv

\* A thread that answers will see what it leaves behind.
LEMMA AnswerCounts ==
    ASSUME Limits, SafeInv, CountInv, NEW h \in Handlers, Answer(h),
           \A s \in Sessions : /\ pod'[s] \in {"bare", "running"} => pod[s] \in {"bare", "running"}
                               /\ pod[s] # "absent" => pod'[s] # "absent",
           \A u \in Taken' : u \in Active => u \in Active'
    PROVE  CountInv'
<1>1. Idle \in Request /\ req' = [req EXCEPT ![h] = Idle] /\ Idle.pc = "idle"
  BY IdleIsRequest DEF Answer, Set, Idle
<1>2. req'[h].pc = "idle" /\ \A g \in Handlers : g # h => req'[g] = req[g]
  BY <1>1 DEF SafeInv, Kinds
<1>3. ASSUME NEW u \in Taken', AboutToSee(h, u) PROVE AboutToSee(h, u)'
  <2>0. u \in Sessions
    BY DEF Taken, Listed, Pending
  <2>1. CASE pod[u] # "absent"
    BY <1>2, <2>0, <2>1 DEF AboutToSee
  <2>2. CASE pod[u] = "absent"
    <3>1. req[h].pc \in {"apply", "ready", "register"} /\ req[h].id = u
      BY <1>3, <2>2 DEF AboutToSee
    <3>2. ~ \E g \in Handlers : req'[g].pc = "apply" /\ req'[g].id = u
      BY <1>2, <3>1 DEF SafeInv, OneCreator
    <3>3. pod'[u] # "absent"
      BY <3>2 DEF Taken, Listed, Pending
    <3> QED BY <1>2, <3>3 DEF AboutToSee
  <2> QED BY <2>1, <2>2
<1>4. ~Counts(h)'
  BY <1>2 DEF Counts
<1> QED BY <1>1, <1>3, <1>4, QuietStep

\* A thread that was about to see nothing goes on to another phase.
LEMMA BlindCounts ==
    ASSUME Limits, SafeInv, CountInv, NEW h \in Handlers, NEW r \in Request,
           req' = [req EXCEPT ![h] = r], r.pc \notin {"apply", "sync", "write"},
           \A s \in Sessions : /\ pod'[s] \in {"bare", "running"} => pod[s] \in {"bare", "running"}
                               /\ pod[s] # "absent" => pod'[s] # "absent",
           \A u \in Taken' : u \in Active => u \in Active',
           \A u \in Taken' : u \notin Active' => ~AboutToSee(h, u)
    PROVE  CountInv'
<1>1. req'[h] = r
  BY DEF SafeInv, Kinds
<1>2. ~Counts(h)'
  BY <1>1 DEF Counts
<1> QED BY <1>2, QuietStep

LEMMA ContinueCounts ==
    ASSUME Limits, SafeInv, CountInv, NEW h \in Handlers, NEW todo \in SUBSET Sessions,
           Continue(h, todo), UNCHANGED pod,
           \A u \in Taken' : u \in Active => u \in Active',
           \A u \in Taken' : u \notin Active' => ~AboutToSee(h, u)
    PROVE  CountInv'
<1>1. PICK r \in Request : req' = [req EXCEPT ![h] = r] /\ GoesOn(h, r, todo)
  BY Continued DEF SafeInv
<1>2. r.pc \notin {"apply", "sync", "write"}
  BY <1>1 DEF GoesOn, Idle
<1> QED BY <1>1, <1>2, BlindCounts

LEMMA ArriveCounts ==
    ASSUME Settings, Limits, SafeInv, CountInv, NEW h \in Handlers, Arrive(h)
    PROVE  CountInv'
<1>1. PICK op \in Ops, s \in Sessions : Set(h, [Idle EXCEPT !.pc = "list", !.op = op, !.id = s])
  BY DEF Arrive
<1> DEFINE r == [Idle EXCEPT !.pc = "list", !.op = op, !.id = s]
<1>2. r \in Request /\ r.pc = "list" /\ r.phase = "reap"
  <2>1. op \in {"probe", "create", "destroy", "command"}
    BY DEF Settings
  <2> QED BY <2>1 DEF Request, Idle
<1>3. req' = [req EXCEPT ![h] = r]
  BY <1>1 DEF Set
<1> HIDE DEF r
<1>4. req'[h] = r /\ req[h].pc = "idle" /\ UNCHANGED <<pod, mem>>
  BY <1>3 DEF Arrive, SafeInv, Kinds
<1>5. \A u \in Taken' : AboutToSee(h, u) => AboutToSee(h, u)'
  BY <1>2, <1>4 DEF AboutToSee
<1>6. ~Counts(h)' /\ Active' = Active
  BY <1>2, <1>4 DEF Counts, Active
<1> QED BY <1>2, <1>3, <1>4, <1>5, <1>6, QuietStep

\* What a listing does not show is about to be applied, by a thread each.
LEMMA ListPodsCounts ==
    ASSUME Limits, SafeInv, CountInv, NEW h \in Handlers, ListPods(h)
    PROVE  CountInv'
<1>0. req[h].pc = "list" /\ UNCHANGED <<pod, mem>> /\ Active' = Active
  BY DEF ListPods, Active
<1>1. CASE req[h].phase = "orphans"
  <2> DEFINE found == {s \in Listed : s \notin req[h].known \/ s \in old}
  <2>1. Continue(h, found) /\ found \in SUBSET Sessions
    BY <1>1 DEF ListPods, Listed
  <2>2. \A u \in Taken' : ~AboutToSee(h, u)
    BY <1>0, <1>1 DEF AboutToSee
  <2> HIDE DEF found
  <2> QED BY <1>0, <2>1, <2>2, ContinueCounts
<1>2. CASE req[h].phase # "orphans"
  <2>1. Stage(h, "sync", req[h].phase, Listed) /\ Listed \in SUBSET Sessions
    BY <1>2 DEF ListPods, Listed
  <2>2. PICK r \in Request : /\ req' = [req EXCEPT ![h] = r]
                             /\ r.pc = "sync" /\ r.phase = req[h].phase /\ r.todo = Listed
                             /\ r.op = req[h].op /\ r.id = req[h].id
    BY <2>1, PhaseOf, Staged DEF SafeInv
  <2>3. req'[h] = r /\ \A g \in Handlers : g # h => req'[g] = req[g]
    BY <2>2 DEF SafeInv, Kinds
  <2>4. Listed' = Listed
    BY <1>0 DEF Listed
  <2>5. \A u \in Taken' : AboutToSee(h, u) => AboutToSee(h, u)'
    BY <1>0, <2>2, <2>3, <2>4 DEF AboutToSee, Taken, Pending
  <2>6. Followed(h)'
    <3>1. PICK U : U = Unseen(h)'
      OBVIOUS
    <3>2. \A u \in U : \E g \in Handlers : req'[g].pc = "apply" /\ req'[g].id = u
      BY <2>2, <2>3, <2>4, <3>1 DEF Unseen, Taken, Pending
    <3>3. \A u \in U : \E g \in Handlers \ {h} : req'[g].pc = "apply" /\ req'[g].id = u
      BY <2>2, <2>3, <3>2
    <3> DEFINE e == [u \in U |-> CHOOSE g \in Handlers \ {h} : req'[g].pc = "apply" /\ req'[g].id = u]
    <3>4. e \in [U -> Handlers \ {h}] /\ \A u \in U : req'[e[u]].pc = "apply" /\ req'[e[u]].id = u
      BY <3>3
    <3> HIDE DEF e
    <3>5. PICK f \in [U -> Handlers \ {h}] : \A u \in U : req'[f[u]].pc = "apply" /\ req'[f[u]].id = u
      BY <3>4
    <3>6. \A u, v \in U : f[u] = f[v] => u = v
      BY <3>5
    <3>7. \A u \in U : AboutToSee(f[u], u)'
      BY <3>5 DEF AboutToSee
    <3> QED BY <3>1, <3>5, <3>6, <3>7 DEF Followed
  <2> QED BY <1>0, <2>2, <2>5, <2>6, QuietStep
<1> QED BY <1>1, <1>2

\* A thread stays with its listing while what it drops from it is remembered or has
\* no pod.
LEMMA SyncCounts ==
    ASSUME Limits, SafeInv, CountInv, NEW h \in Handlers, NEW r \in Request,
           req' = [req EXCEPT ![h] = r], UNCHANGED pod,
           req[h].pc \in {"sync", "write"}, r.pc \in {"sync", "write"}, r.phase = req[h].phase,
           \A u \in Taken' : u \in Active => u \in Active',
           \A u \in Taken' : u \in req[h].todo => u \in r.todo \/ u \in Active'
    PROVE  CountInv'
<1>1. req'[h] = r /\ \A g \in Handlers : g # h => req'[g] = req[g]
  BY DEF SafeInv, Kinds
<1>2. Taken' \subseteq Taken
  BY <1>1 DEF Taken, Listed, Pending
<1>3. \A u \in Taken' : u \notin Active' /\ AboutToSee(h, u) => AboutToSee(h, u)'
  BY <1>1 DEF AboutToSee
<1>4. ASSUME Counts(h)' PROVE Followed(h)'
  <2>1. Followed(h)
    BY <1>1, <1>4 DEF CountInv, Counts
  <2>2. Unseen(h)' \subseteq Unseen(h)
    BY <1>1, <1>2 DEF Unseen
  <2>3. \A u \in Unseen(h)', g \in Handlers \ {h} : AboutToSee(g, u) => AboutToSee(g, u)'
    BY <1>1 DEF AboutToSee
  <2> QED BY <2>1, <2>2, <2>3, FollowStays
<1> QED BY <1>3, <1>4, QuietStep

\* What is known as destroyed has no pod, so nothing that counts is skipped.
LEMMA ReadPolicyCounts ==
    ASSUME Limits, SafeInv, CountInv, NEW h \in Handlers, ReadPolicy(h)
    PROVE  CountInv'
<1>0. req[h].pc = "sync" /\ UNCHANGED <<pod, mem>> /\ Active' = Active
  BY DEF ReadPolicy, Active
<1>1. PICK s \in req[h].todo :
         CASE mem[s] = "destroyed" -> Stage(h, "sync", req[h].phase, req[h].todo \ {s})
           [] mem[s] # "destroyed" /\ pod[s] = "running" ->
                Set(h, [req[h] EXCEPT !.pc = "write", !.cur = s])
           [] OTHER -> Answer(h)
  BY DEF ReadPolicy
<1>2. CASE Answer(h)
  BY <1>0, <1>2, AnswerCounts
<1>3. CASE mem[s] = "destroyed" /\ Stage(h, "sync", req[h].phase, req[h].todo \ {s})
  <2> DEFINE left == req[h].todo \ {s}
  <2>1. left \in SUBSET Sessions /\ Stage(h, "sync", req[h].phase, left)
    BY <1>3, PhaseOf
  <2>2. \A u \in req[h].todo : u \in left \/ u = s
    OBVIOUS
  <2> HIDE DEF left
  <2>3. PICK r \in Request : /\ req' = [req EXCEPT ![h] = r]
                             /\ r.pc = "sync" /\ r.phase = req[h].phase /\ r.todo = left
    BY <2>1, PhaseOf, Staged DEF SafeInv
  <2>4. req'[h] = r /\ \A g \in Handlers : g # h => req'[g] = req[g]
    BY <2>3 DEF SafeInv, Kinds
  <2>5. s \in Sessions /\ pod'[s] = "deleted"
    BY <1>0, <1>3, PhaseOf DEF SafeInv, DestroyedIsGone
  <2>6. s \notin Taken'
    BY <2>5 DEF Taken, Listed, Pending
  <2> QED BY <1>0, <2>2, <2>3, <2>6, SyncCounts
<1>4. CASE Set(h, [req[h] EXCEPT !.pc = "write", !.cur = s])
  <2> DEFINE r == [req[h] EXCEPT !.pc = "write", !.cur = s]
  <2>1. req' = [req EXCEPT ![h] = r]
    BY <1>4 DEF Set
  <2>2. r \in Request /\ r.pc = "write" /\ r.phase = req[h].phase /\ r.todo = req[h].todo
    BY PhaseOf DEF Request
  <2> HIDE DEF r
  <2> QED BY <1>0, <2>1, <2>2, SyncCounts
<1> QED BY <1>1, <1>2, <1>3, <1>4

\* A session is taken off the listing when it is remembered.
LEMMA WriteSessionCounts ==
    ASSUME Limits, SafeInv, CountInv, NEW h \in Handlers, WriteSession(h)
    PROVE  CountInv'
<1> DEFINE left == req[h].todo \ {req[h].cur}
<1>1. /\ req[h].pc = "write" /\ UNCHANGED pod /\ Stage(h, "sync", req[h].phase, left)
      /\ mem' = [mem EXCEPT ![req[h].cur] = "active"]
  BY DEF WriteSession, Rebuilt
<1>2. left \in SUBSET Sessions /\ \A u \in req[h].todo : u \in left \/ u = req[h].cur
  BY PhaseOf
<1>3. req[h].cur \in Sessions
  BY <1>1 DEF SafeInv, MemoryIsSound
<1>4. Active' = Active \cup {req[h].cur}
  BY <1>1, <1>3 DEF Active, SafeInv, Kinds, TypeOK
<1> HIDE DEF left
<1>5. PICK r \in Request : /\ req' = [req EXCEPT ![h] = r]
                           /\ r.pc = "sync" /\ r.phase = req[h].phase /\ r.todo = left
  BY <1>1, <1>2, PhaseOf, Staged DEF SafeInv
<1> QED BY <1>1, <1>2, <1>4, <1>5, SyncCounts

\* What the provider saw is under the limit when it admits a creation; what it did not
\* see belongs to other threads, one session each.
LEMMA AdmittedWithin ==
    ASSUME Limits, NEW h \in Handlers, Followed(h), NEW K, NEW L \in Nat,
           NEW A \in SUBSET Sessions, Active \cup req[h].todo \subseteq A,
           Cardinality(A \cap K) < L,
           NEW x \in Sessions, Taken' \subseteq Taken \cup {x}
    PROVE  Within(K, L)'
<1>1. PICK f \in [Unseen(h) -> Handlers \ {h}] : \A u, v \in Unseen(h) : f[u] = f[v] => u = v
  BY DEF Followed
<1>2. f \in Injection(Unseen(h), Handlers \ {h})
  BY <1>1 DEF Injection, IsInjective
<1>3. /\ IsFiniteSet(Handlers \ {h})
      /\ Cardinality(Handlers \ {h}) = Cardinality(Handlers) - 1
  BY FS_RemoveElement DEF Limits
<1>4. IsFiniteSet(Unseen(h)) /\ Cardinality(Unseen(h)) <= Cardinality(Handlers) - 1
  BY <1>2, <1>3, FS_Injection
<1>5. Cardinality(Handlers) \in Nat \ {0} /\ Cardinality(Unseen(h)) \in Nat
  BY <1>4, ThreadsCounted, FS_CardinalityType
<1>6. IsFiniteSet(A \cap K) /\ Cardinality(A \cap K) \in Nat
  <2>1. A \cap K \in SUBSET Sessions
    OBVIOUS
  <2> QED BY <2>1, Countable
<1> DEFINE B == (A \cap K) \cup Unseen(h)
<1>7. /\ IsFiniteSet(B) /\ Cardinality(B) \in Nat
      /\ Cardinality(B) <= Cardinality(A \cap K) + Cardinality(Unseen(h))
  <2>1. /\ IsFiniteSet(B)
        /\ Cardinality(B) = Cardinality(A \cap K) + Cardinality(Unseen(h))
                            - Cardinality((A \cap K) \cap Unseen(h))
    BY <1>4, <1>6, FS_Union
  <2>2. Cardinality(B) \in Nat
    BY <2>1, FS_CardinalityType
  <2>3. Cardinality((A \cap K) \cap Unseen(h)) \in Nat
    BY <1>4, FS_Subset, FS_CardinalityType
  <2> HIDE DEF B
  <2> QED BY <1>5, <1>6, <2>1, <2>2, <2>3
<1>8. Taken' \cap K \subseteq B \cup {x}
  BY DEF Unseen
<1> HIDE DEF B
<1>9. IsFiniteSet(B \cup {x}) /\ Cardinality(B \cup {x}) <= Cardinality(B) + 1
  <2>1. /\ IsFiniteSet(B \cup {x})
        /\ Cardinality(B \cup {x}) = IF x \in B THEN Cardinality(B) ELSE Cardinality(B) + 1
    BY <1>7, FS_AddElement
  <2> QED BY <1>7, <2>1
<1>10. Cardinality(Taken' \cap K) <= Cardinality(B \cup {x})
  BY <1>8, <1>9, FS_Subset
<1>11. Cardinality(Taken' \cap K) \in Nat /\ Cardinality(B \cup {x}) \in Nat
  <2>1. IsFiniteSet(Taken' \cap K)
    BY <1>8, <1>9, FS_Subset
  <2> QED BY <1>9, <2>1, FS_CardinalityType
<1>12. Cardinality(Taken' \cap K) <= L + Cardinality(Handlers) - 1
  BY <1>4, <1>5, <1>6, <1>7, <1>9, <1>10, <1>11
<1> QED BY <1>12 DEF Within

\* The creation that is admitted takes one session; the other threads that count will
\* find it with the thread that creates it.
LEMMA AdmissionCounts ==
    ASSUME Limits, SafeInv, CountInv, NEW h \in Handlers, Counts(h), req[h].pc = "sync", req[h].todo = {},
           UNCHANGED pod, Active' = Active,
           ~LimitReached(Active', req[h].id), Stage(h, "apply", "create", {})
    PROVE  CountInv'
<1>1. PICK id \in Sessions : id = req[h].id
  BY DEF SafeInv, MemoryIsSound
<1>2. req'[h].pc = "apply" /\ req'[h].id = id /\ \A g \in Handlers : g # h => req'[g] = req[g]
  <2>1. PICK r \in Request : req' = [req EXCEPT ![h] = r] /\ r.pc = "apply" /\ r.id = req[h].id
    BY Staged DEF SafeInv
  <2> QED BY <1>1, <2>1 DEF SafeInv, Kinds
<1>3. Taken' \subseteq Taken \cup {id}
  BY <1>2 DEF Taken, Listed, Pending
<1>4. Active' \in SUBSET Sessions
  BY DEF Active
<1>5. /\ Cardinality(Active') < MaxSessions
      /\ Cardinality({t \in Active' : RunOf[t] = RunOf[id]}) < MaxSessionsPerRun
  <2>1. Active' \in SUBSET Sessions /\ {t \in Active' : RunOf[t] = RunOf[id]} \in SUBSET Sessions
    BY <1>4
  <2>2. /\ Cardinality(Active') \in Nat
        /\ Cardinality({t \in Active' : RunOf[t] = RunOf[id]}) \in Nat
    BY <2>1, Countable
  <2> QED BY <1>1, <2>2 DEF LimitReached, Limits
<1>6. Followed(h)
  BY DEF CountInv
<1>7. Within(Sessions, MaxSessions)'
  <2>1. Active' \cap Sessions = Active'
    BY <1>4
  <2>2. Cardinality(Active' \cap Sessions) < MaxSessions
    BY <1>5, <2>1
  <2>3. PICK A \in SUBSET Sessions : A = Active'
    BY <1>4
  <2> QED BY <1>1, <1>3, <1>6, <2>2, <2>3, AdmittedWithin DEF Limits
<1>8. ASSUME NEW s \in Sessions PROVE Within(OfRun(s), MaxSessionsPerRun)'
  <2>1. CASE RunOf[s] = RunOf[id]
    <3>1. Active' \cap OfRun(s) = {t \in Active' : RunOf[t] = RunOf[id]}
      BY <1>4, <2>1 DEF OfRun
    <3>2. Cardinality(Active' \cap OfRun(s)) < MaxSessionsPerRun
      BY <1>5, <3>1
    <3>3. PICK A \in SUBSET Sessions : A = Active'
      BY <1>4
    <3>4. PICK K : K = OfRun(s)
      OBVIOUS
    <3>5. Within(K, MaxSessionsPerRun)'
      BY <1>1, <1>3, <1>6, <3>2, <3>3, <3>4, AdmittedWithin DEF Limits
    <3> QED BY <3>4, <3>5 DEF Within, OfRun
  <2>2. CASE RunOf[s] # RunOf[id]
    <3>1. Taken' \cap OfRun(s) \subseteq Taken
      BY <1>3, <2>2 DEF OfRun
    <3>2. Within(OfRun(s), MaxSessionsPerRun)
      BY DEF CountInv
    <3>4. PICK K : K = OfRun(s)
      OBVIOUS
    <3>5. Within(K, MaxSessionsPerRun)'
      BY <3>1, <3>2, <3>4, WithinStays DEF Limits
    <3> QED BY <3>4, <3>5 DEF Within, OfRun
  <2> QED BY <2>1, <2>2
<1>9. ASSUME NEW g \in Handlers, Counts(g)' PROVE Followed(g)'
  <2>1. g # h /\ Counts(g) /\ req'[g] = req[g]
    BY <1>2, <1>9 DEF Counts
  <2>2. PICK f \in [Unseen(g) -> Handlers \ {g}] :
           /\ \A u, v \in Unseen(g) : f[u] = f[v] => u = v
           /\ \A u \in Unseen(g) : AboutToSee(f[u], u)
    BY <2>1 DEF CountInv, Followed
  <2>3. PICK U : U = Unseen(g)'
    OBVIOUS
  <2>4. \A u \in U : u # id => u \in Unseen(g)
    BY <1>3, <2>1, <2>3 DEF Unseen
  <2>5. \A u \in U : u # id => f[u] # h
    BY <2>2, <2>4 DEF AboutToSee
  <2> DEFINE d == [u \in U |-> IF u = id THEN h ELSE f[u]]
  <2>6. d \in [U -> Handlers \ {g}]
    BY <2>1, <2>2, <2>4
  <2>7. /\ \A u, v \in U : d[u] = d[v] => u = v
        /\ \A u \in U : IF u = id THEN d[u] = h ELSE d[u] = f[u]
    BY <2>2, <2>4, <2>5
  <2> HIDE DEF d
  <2>e. PICK e \in [U -> Handlers \ {g}] :
           /\ \A u, v \in U : e[u] = e[v] => u = v
           /\ \A u \in U : IF u = id THEN e[u] = h ELSE e[u] = f[u]
    BY <2>6, <2>7
  <2>8. \A u \in U : AboutToSee(e[u], u)'
    <3>1. SUFFICES ASSUME NEW u \in U PROVE AboutToSee(e[u], u)'
      OBVIOUS
    <3>2. CASE u = id
      BY <1>2, <2>e, <3>2 DEF AboutToSee
    <3>3. CASE u # id
      <4>1. u \in Unseen(g) /\ f[u] # h /\ f[u] \in Handlers /\ AboutToSee(f[u], u)
        BY <2>2, <2>4, <2>5, <3>3
      <4>2. req'[f[u]] = req[f[u]]
        BY <1>2, <4>1
      <4>3. AboutToSee(f[u], u)'
        BY <4>1, <4>2 DEF AboutToSee
      <4> QED BY <2>e, <3>3, <4>3
    <3> QED BY <3>2, <3>3
  <2> QED BY <2>3, <2>e, <2>8 DEF Followed
<1> QED BY <1>7, <1>8, <1>9 DEF CountInv

\* What a thread was about to see it has written, and goes on with; or it is admitted.
LEMMA SyncSessionsCounts ==
    ASSUME Limits, SafeInv, CountInv, NEW h \in Handlers, SyncSessions(h)
    PROVE  CountInv'
<1>1. req[h].pc = "sync" /\ req[h].todo = {} /\ UNCHANGED <<pod, mem>>
  BY DEF SyncSessions
<1>2. Active' = Active
  BY <1>1 DEF Active
<1>3. \A u \in Taken' : u \in Active => u \in Active'
  BY <1>2
<1>4. \A u \in Taken' : u \notin Active' => ~AboutToSee(h, u)
  BY <1>1, <1>2 DEF AboutToSee
<1>5. CASE req[h].phase \in {"reap", "limit"}
  <2>1. Continue(h, Overdue(Active))
    BY <1>5 DEF SyncSessions
  <2> DEFINE found == Overdue(Active)
  <2>2. found \in SUBSET Sessions
    BY DEF Overdue, Active
  <2>3. Continue(h, found)
    BY <2>1
  <2> HIDE DEF found
  <2> QED BY <1>1, <1>3, <1>4, <2>2, <2>3, ContinueCounts
<1>6. CASE req[h].phase = "known" /\ Active = {} /\ ~tenants
  <2>1. Continue(h, {})
    BY <1>6 DEF SyncSessions, Continue
  <2> QED BY <1>1, <1>3, <1>4, <2>1, ContinueCounts
<1>7. CASE req[h].phase = "known" /\ ~(Active = {} /\ ~tenants)
  <2> DEFINE r == [req[h] EXCEPT !.pc = "list", !.phase = "orphans", !.todo = {}, !.known = Active]
  <2>1. req' = [req EXCEPT ![h] = r]
    BY <1>7 DEF SyncSessions, Set
  <2>2. Active \in SUBSET Sessions
    BY DEF Active
  <2>3. r \in Request /\ r.pc = "list"
    BY <2>2, PhaseOf DEF Request
  <2> HIDE DEF r
  <2> QED BY <1>1, <1>3, <1>4, <2>1, <2>3, BlindCounts
<1>8. CASE req[h].phase \notin {"reap", "limit", "known"}
  <2>1. CASE Answer(h)
    BY <1>1, <1>3, <2>1, AnswerCounts
  <2>2. CASE ~LimitReached(Active', req[h].id) /\ Stage(h, "apply", "create", {})
    <3>1. Counts(h)
      BY <1>1, <1>8, PhaseOf DEF Counts
    <3> QED BY <1>1, <1>2, <2>2, <3>1, AdmissionCounts
  <2> QED BY <1>2, <1>8, <2>1, <2>2 DEF SyncSessions
<1> QED BY <1>5, <1>6, <1>7, <1>8

LEMMA DeleteResourcesCounts ==
    ASSUME Settings, Limits, SafeInv, CountInv, NEW h \in Handlers, DeleteResources(h)
    PROVE  CountInv'
<1> DEFINE s == Min(req[h].todo)
           r == [req[h] EXCEPT !.pc = "confirm", !.cur = s]
<1>1. /\ req[h].pc = "delete" /\ req' = [req EXCEPT ![h] = r] /\ UNCHANGED mem
      /\ pod' = [pod EXCEPT ![s] = IF @ = "absent" THEN @ ELSE "deleted"]
  BY DEF DeleteResources, Set
<1>2. PICK t : t = s
  OBVIOUS
<1>3. \A u \in Sessions : /\ pod'[u] \in {"bare", "running"} => pod[u] \in {"bare", "running"}
                          /\ pod[u] # "absent" => pod'[u] # "absent"
  BY <1>1, <1>2 DEF SafeInv, Kinds, TypeOK
<1>4. \A u \in Taken' : u \notin Active' => ~AboutToSee(h, u)
  BY <1>1 DEF AboutToSee
<1>5. \A u \in Taken' : u \in Active => u \in Active'
  BY <1>1 DEF Active
<1>6. r \in Request /\ r.pc = "confirm"
  <2>1. req[h] \in Request /\ req[h].todo \in SUBSET Sessions /\ req[h].todo # {}
    BY <1>1, PhaseOf DEF SafeInv, MemoryIsSound
  <2>2. s \in Sessions
    BY <2>1, OneOfThem
  <2> HIDE DEF s
  <2> QED BY <2>1, <2>2 DEF Request
<1> HIDE DEF r
<1> QED BY <1>1, <1>3, <1>4, <1>5, <1>6, BlindCounts

\* What is recorded as destroyed has no pod.
LEMMA ConfirmCounts ==
    ASSUME Limits, SafeInv, CountInv, NEW h \in Handlers, Confirm(h)
    PROVE  CountInv'
<1> DEFINE left == req[h].todo \ {req[h].cur}
<1>1. req[h].pc = "confirm" /\ UNCHANGED pod /\ Continue(h, left)
  BY DEF Confirm
<1>2. left \in SUBSET Sessions
  BY PhaseOf
<1>3. \A u \in Sessions : u # req[h].cur => mem'[u] = mem[u]
  BY DEF Confirm, SafeInv, Kinds, TypeOK
<1>4. req[h].cur \notin Taken'
  BY <1>1 DEF Taken, Listed, Pending, SafeInv, MemoryIsSound
<1>5. \A u \in Taken' : u \in Active => u \in Active'
  BY <1>3, <1>4 DEF Active
<1>6. \A u \in Taken' : u \notin Active' => ~AboutToSee(h, u)
  BY <1>1 DEF AboutToSee
<1> HIDE DEF left
<1> QED BY <1>1, <1>2, <1>5, <1>6, ContinueCounts

LEMMA LookCounts ==
    ASSUME Limits, SafeInv, CountInv, NEW h \in Handlers,
           DestroySession(h) \/ UseSession(h)
    PROVE  CountInv'
<1>1. req[h].pc = "look" /\ UNCHANGED <<pod, mem>> /\ Active' = Active
  BY DEF DestroySession, UseSession, Active
<1>2. CASE Answer(h)
  BY <1>1, <1>2, AnswerCounts
<1>3. CASE Stage(h, "delete", "target", {req[h].id})
  <2>1. {req[h].id} \in SUBSET Sessions
    BY <1>1 DEF SafeInv, MemoryIsSound
  <2>2. PICK r \in Request : req' = [req EXCEPT ![h] = r] /\ r.pc = "delete"
    BY <1>3, <2>1, Staged DEF SafeInv
  <2>3. \A u \in Taken' : u \notin Active' => ~AboutToSee(h, u)
    BY <1>1 DEF AboutToSee
  <2> QED BY <1>1, <2>2, <2>3, BlindCounts
<1> QED BY <1>2, <1>3 DEF DestroySession, UseSession

\* Threads that stay where they are go on counting.
LEMMA RestCounts ==
    ASSUME Limits, SafeInv, CountInv, req' = req, Taken' \subseteq Taken, Active' = Active,
           \A s \in Sessions : pod[s] # "absent" => pod'[s] # "absent"
    PROVE  CountInv'
<1>1. ASSUME NEW g \in Handlers, Counts(g)' PROVE Followed(g)'
  <2>1. Followed(g)
    BY <1>1 DEF CountInv, Counts
  <2>2. Unseen(g)' \subseteq Unseen(g)
    BY DEF Unseen
  <2>3. ASSUME NEW u \in Unseen(g)', NEW x \in Handlers \ {g}, AboutToSee(x, u)
        PROVE  AboutToSee(x, u)'
    <3>1. u \in Sessions
      BY DEF Unseen, Taken, Listed, Pending
    <3> QED BY <2>3, <3>1 DEF AboutToSee
  <2> QED BY <2>1, <2>2, <2>3, FollowStays
<1>2. Within(Sessions, MaxSessions)'
  BY WithinStays DEF CountInv, Limits
<1>3. ASSUME NEW s \in Sessions PROVE Within(OfRun(s), MaxSessionsPerRun)'
  BY WithinStays DEF CountInv, Limits
<1> QED BY <1>1, <1>2, <1>3 DEF CountInv

LEMMA ApplyPodCounts ==
    ASSUME Limits, SafeInv, CountInv, NEW h \in Handlers, ApplyPod(h)
    PROVE  CountInv'
<1>1. /\ req[h].pc = "apply" /\ pod[req[h].id] = "absent" /\ UNCHANGED <<mem, req>>
      /\ pod' = [pod EXCEPT ![req[h].id] = "bare"]
  BY DEF ApplyPod
<1>2. PICK id \in Sessions : id = req[h].id
  BY <1>1 DEF SafeInv, MemoryIsSound
<1>3. pod'[id] = "bare" /\ \A s \in Sessions : s # id => pod'[s] = pod[s]
  BY <1>1, <1>2 DEF SafeInv, Kinds, TypeOK
<1>4. Taken' \subseteq Taken
  BY <1>1, <1>2, <1>3 DEF Taken, Listed, Pending
<1>5. \A s \in Sessions : pod[s] # "absent" => pod'[s] # "absent"
  BY <1>1, <1>2, <1>3
<1>6. Active' = Active /\ req' = req
  BY <1>1 DEF Active
<1> QED BY <1>4, <1>5, <1>6, RestCounts

\* A creation that goes on holds its session.
LEMMA CreationCounts ==
    ASSUME Limits, SafeInv, CountInv, NEW h \in Handlers,
           NEW p \in {"ready", "register"}, Stage(h, p, "create", {}),
           req[h].pc \in {"apply", "ready"}, UNCHANGED mem,
           \A s \in Sessions : /\ pod'[s] \in {"bare", "running"} => pod[s] \in {"bare", "running"}
                               /\ pod[s] # "absent" => pod'[s] # "absent"
    PROVE  CountInv'
<1>1. PICK r \in Request : req' = [req EXCEPT ![h] = r] /\ r.pc = p /\ r.id = req[h].id
  BY Staged DEF SafeInv
<1>2. req'[h] = r
  BY <1>1 DEF SafeInv, Kinds
<1>3. \A u \in Taken' : AboutToSee(h, u) => AboutToSee(h, u)'
  BY <1>1, <1>2 DEF AboutToSee
<1>4. ~Counts(h)' /\ Active' = Active
  BY <1>1, <1>2 DEF Counts, Active
<1> QED BY <1>1, <1>3, <1>4, QuietStep

LEMMA ApplyPolicyCounts ==
    ASSUME Limits, SafeInv, CountInv, NEW h \in Handlers, ApplyPolicy(h)
    PROVE  CountInv'
<1>1. /\ req[h].pc = "apply" /\ Stage(h, "ready", "create", {}) /\ UNCHANGED mem
      /\ pod' = [pod EXCEPT ![req[h].id] = IF @ = "bare" THEN "running" ELSE @]
  BY DEF ApplyPolicy
<1>2. PICK id : id = req[h].id
  OBVIOUS
<1>3. \A s \in Sessions : /\ pod'[s] \in {"bare", "running"} => pod[s] \in {"bare", "running"}
                          /\ pod[s] # "absent" => pod'[s] # "absent"
  BY <1>1, <1>2 DEF SafeInv, Kinds, TypeOK
<1> QED BY <1>1, <1>3, CreationCounts

LEMMA ReadBackCounts ==
    ASSUME Limits, SafeInv, CountInv, NEW h \in Handlers, ReadBack(h)
    PROVE  CountInv'
<1>1. req[h].pc = "ready" /\ UNCHANGED <<pod, mem>> /\ Active' = Active
  BY DEF ReadBack, Active
<1>2. CASE Answer(h)
  BY <1>1, <1>2, AnswerCounts
<1>3. CASE Stage(h, "register", "create", {})
  BY <1>1, <1>3, CreationCounts
<1> QED BY <1>2, <1>3 DEF ReadBack

LEMMA RegisterCounts ==
    ASSUME Limits, SafeInv, CountInv, NEW h \in Handlers, Register(h)
    PROVE  CountInv'
<1>1. Answer(h) /\ UNCHANGED pod
  BY DEF Register
<1>2. \A u \in Taken' : u \in Active => u \in Active'
  BY DEF Register, Active, SafeInv, Kinds, TypeOK
<1> QED BY <1>1, <1>2, AnswerCounts

LEMMA KubectlFailsCounts ==
    ASSUME Limits, SafeInv, CountInv, NEW h \in Handlers, KubectlFails(h)
    PROVE  CountInv'
<1>1. Answer(h) /\ Active' = Active
  BY DEF KubectlFails, Active
<1>2. \A s \in Sessions : /\ pod'[s] \in {"bare", "running"} => pod[s] \in {"bare", "running"}
                          /\ pod[s] # "absent" => pod'[s] # "absent"
  <2>1. CASE UNCHANGED pod
    BY <2>1
  <2>2. ASSUME req[h].pc = "ready", NEW lost \in BOOLEAN,
               pod' = [pod EXCEPT ![req[h].id] = IF lost THEN @ ELSE "deleted"]
        PROVE  \A s \in Sessions : /\ pod'[s] \in {"bare", "running"} => pod[s] \in {"bare", "running"}
                                   /\ pod[s] # "absent" => pod'[s] # "absent"
    BY <2>2 DEF SafeInv, Kinds, TypeOK
  <2> QED BY <2>1, <2>2 DEF KubectlFails
<1> QED BY <1>1, <1>2, AnswerCounts

\* A controller that restarts counts afresh.
LEMMA RestartCounts ==
    ASSUME Limits, SafeInv, CountInv, Restart
    PROVE  CountInv'
<1>1. UNCHANGED pod /\ \A h \in Handlers : req'[h].pc = "idle"
  BY DEF Restart, Idle
<1>2. Taken' \subseteq Taken
  BY <1>1 DEF Taken, Listed, Pending
<1>3. \A h \in Handlers : ~Counts(h)'
  BY <1>1 DEF Counts
<1>4. Within(Sessions, MaxSessions)'
  BY <1>2, WithinStays DEF CountInv, Limits
<1>5. ASSUME NEW s \in Sessions PROVE Within(OfRun(s), MaxSessionsPerRun)'
  BY <1>2, WithinStays DEF CountInv, Limits
<1> QED BY <1>3, <1>4, <1>5 DEF CountInv

LEMMA CountsAtFirst == ASSUME Limits, Init PROVE CountInv
<1>1. Taken = {} /\ \A h \in Handlers : ~Counts(h)
  BY DEF Init, Taken, Listed, Pending, Counts, Idle
<1>2. ASSUME NEW K, NEW L \in Nat PROVE Within(K, L)
  <2>1. Cardinality(Taken \cap K) = 0
    BY <1>1, FS_EmptySet
  <2> QED BY <2>1, ThreadsCounted DEF Within
<1> QED BY <1>1, <1>2 DEF CountInv, Limits

\* Every step keeps what the limits rest on.
THEOREM CountingGoesOn == ASSUME Settings, Limits PROVE SafeInv /\ CountInv /\ [Next]_vars => CountInv'
<1>1. SUFFICES ASSUME SafeInv, CountInv, [Next]_vars PROVE CountInv'
  OBVIOUS
<1>2. CASE UNCHANGED vars
  <2>1. req' = req /\ Taken' \subseteq Taken /\ Active' = Active /\ UNCHANGED pod
    BY <1>2 DEF vars, Taken, Listed, Pending, Active
  <2> QED BY <1>1, <2>1, RestCounts
<1>3. ASSUME NEW h \in Handlers, Arrive(h) PROVE CountInv'
  BY <1>1, <1>3, ArriveCounts
<1>4. ASSUME NEW h \in Handlers, Step(h) PROVE CountInv'
  BY <1>1, <1>4, ListPodsCounts, ReadPolicyCounts, WriteSessionCounts, SyncSessionsCounts, DeleteResourcesCounts,
     ConfirmCounts, LookCounts, ApplyPodCounts, ApplyPolicyCounts, ReadBackCounts,
     RegisterCounts DEF Step
<1>5. ASSUME NEW h \in Handlers, KubectlFails(h) PROVE CountInv'
  BY <1>1, <1>5, KubectlFailsCounts
<1>6. CASE Restart
  BY <1>1, <1>6, RestartCounts
<1>7. ASSUME NEW s \in Sessions, Expire(s) PROVE CountInv'
  <2>1. req' = req /\ Taken' \subseteq Taken /\ Active' = Active /\ UNCHANGED pod
    BY <1>7 DEF Expire, Taken, Listed, Pending, Active
  <2> QED BY <1>1, <2>1, RestCounts
<1> QED BY <1>1, <1>2, <1>3, <1>4, <1>5, <1>6, <1>7 DEF Next

\* Listed sessions are taken.
LEMMA CountedIsBounded == ASSUME Limits, CountInv PROVE OvershootBounded
<1>1. ASSUME NEW K, NEW L \in Nat, Within(K, L)
      PROVE  Cardinality(Listed \cap K) <= L + Cardinality(Handlers) - 1
  <2>1. Taken \cap K \in SUBSET Sessions /\ Listed \cap K \in SUBSET (Taken \cap K)
    BY DEF Taken, Listed, Pending
  <2>2. IsFiniteSet(Taken \cap K) /\ Cardinality(Taken \cap K) \in Nat
    BY <2>1, Countable
  <2>3. Cardinality(Listed \cap K) <= Cardinality(Taken \cap K)
    BY <2>1, <2>2, FS_Subset
  <2>4. Cardinality(Listed \cap K) \in Nat
    BY <2>1, Countable
  <2> QED BY <1>1, <2>2, <2>3, <2>4, ThreadsCounted DEF Within
<1>2. Cardinality(Listed) <= MaxSessions + Cardinality(Handlers) - 1
  <2>1. Listed \cap Sessions = Listed
    BY DEF Listed
  <2>2. Cardinality(Listed \cap Sessions) <= MaxSessions + Cardinality(Handlers) - 1
    BY <1>1 DEF CountInv, Limits
  <2> QED BY <2>1, <2>2
<1>3. ASSUME NEW s \in Sessions
      PROVE  Cardinality({t \in Listed : RunOf[t] = RunOf[s]})
                <= MaxSessionsPerRun + Cardinality(Handlers) - 1
  <2>1. Listed \cap OfRun(s) = {t \in Listed : RunOf[t] = RunOf[s]}
    BY DEF Listed, OfRun
  <2>2. Cardinality(Listed \cap OfRun(s)) <= MaxSessionsPerRun + Cardinality(Handlers) - 1
    BY <1>1 DEF CountInv, Limits
  <2> QED BY <2>1, <2>2
<1> QED BY <1>2, <1>3 DEF OvershootBounded

\* However requests, faults and restarts fall, the pods of the cluster, and those of one
\* run, exceed the limit by no more than one for every other request thread.
THEOREM LimitsHoldButForOthers ==
    ASSUME Settings, Limits, CleanupModes \subseteq BOOLEAN
    PROVE  Spec => []OvershootBounded
<1>1. Init => SafeInv /\ CountInv
  BY SafeAtFirst, CountsAtFirst
<1>2. SafeInv /\ CountInv /\ [Next]_vars => SafeInv' /\ CountInv'
  BY SafetyGoesOn, CountingGoesOn
<1>3. CountInv => OvershootBounded
  BY CountedIsBounded
<1> QED BY <1>1, <1>2, <1>3, PTL DEF Spec

=============================================================================
