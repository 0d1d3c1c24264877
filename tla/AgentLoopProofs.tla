-------------------------- MODULE AgentLoopProofs ---------------------------
(***************************************************************************)
(* Why no tool call slips past its approval: AgentLoop's invariant, one     *)
(* lemma per action, one step per conjunct.  The heart of it is that a      *)
(* checkpoint is numbered by the state in memory: a state that fell behind  *)
(* the log (Stale) can name a request that was made for another step, but   *)
(* it is never restored, and every checkpoint it tries to write is refused. *)
(* With it: a run that ended has told so once, a run that waits can be      *)
(* answered, and an attempt asks for a bounded number of decisions.         *)
(***************************************************************************)
EXTENDS AgentLoop, TLAPS

\* The settings loop_max_actions (here a bound of the model) and
\* worker_job_max_attempts.
Settings == MaxTries \in Nat \ {0} /\ MaxActions \in Nat

ActStatus == {"pending", "running", "uncertain", "succeeded", "failed", "cancelled"}
ActRow == [status : ActStatus, gated : BOOLEAN, iter : Nat]
ApprStatus == {"pending", "approved", "rejected", "cancelled"}
ApprRow == [step : Nat, status : ApprStatus]

\* The AgentRuntimeState without the bounds that State puts on its references.
Loose ==
    [iter : Nat, start : Nat, repairs : Nat, act : Nat, step : Nat,
     approved : SUBSET Nat, appr : Nat, gkey : BOOLEAN, gok : BOOLEAN,
     seq : Nat, emitted : BOOLEAN, redo : {"none", "free", "gated"},
     seen : SUBSET Nat,
     out : {"none", "ok", "raw", "error", "reconnect", "approval"}]

RowTypes ==
    /\ run \in {"queued", "running", "retrying", "awaiting", "waiting"} \cup Terminal
    /\ acts \in Seq(ActRow)
    /\ Len(acts) <= MaxActions
    /\ appr \in Seq(ApprRow)
    /\ saved \in Loose
    /\ ckpt \in [seq : Nat, state : Loose]
    /\ effects \in [ActionIds -> Nat]
    /\ \A a \in ActionIds : effects[a] > 0 => a <= Len(acts)

ThreadTypes ==
    /\ at \in [Executors -> Nodes \cup {"off"}]
    /\ st \in [Executors -> Loose]
    /\ via \in [Executors -> 0..MaxTries]
    /\ jobs \in [1..MaxTries -> Nat]

\* What a state refers to exists: actions, requests, checkpoints.
Refers(s, A, P, c) ==
    /\ s.act <= Len(A) /\ s.step <= Len(A)
    /\ s.approved \subseteq 1..Len(A) /\ s.seen \subseteq 1..Len(A)
    /\ s.appr <= Len(P) /\ s.seq <= c

\* A person approved every gated action among approved_step_ids.
Sound(s, A, P) ==
    \A a \in s.approved : A[a].gated =>
        \E p \in 1..Len(P) : P[p].step = a /\ P[p].status = "approved"

\* The request that the state names is the one for the step it pauses at,
\* unless that step needs none or was approved before.
Matches(s, A, P) ==
    \/ s.appr = 0 \/ s.step = 0 \/ ~A[s.step].gated \/ s.step \in s.approved
    \/ P[s.appr].step = s.step

\* The log of checkpoints has gone on without the state.
Stale(s, c) == 0 < s.seq /\ s.seq < c

Holding == {"policy", "act", "acting", "commit", "record", "observe_result"}

\* A state in memory refers to what exists, and between policy and
\* observe_result it holds an action.
ThreadOK(s, n) ==
    /\ Refers(s, acts, appr, ckpt.seq)
    /\ n \in Holding => s.act > 0 /\ s.step \in {0, s.act}
    /\ n = "deciding" => s.step = 0

\* (A thread that was granted an approval from an old row loads a newer state.)
ThreadGuarded(s, n) ==
    /\ \/ Sound(s, acts, appr)
       \/ n \in {"resume", "resumed"} /\ Stale(s, ckpt.seq)
       \/ (n = "resume" /\ run \in Terminal /\ s.seq > 0)
    /\ \/ Matches(s, acts, appr)
       \/ Stale(s, ckpt.seq)
       \/ n = "policy"
       \/ (n = "observe" /\ run \in Terminal /\ s.seq > 0)
    /\ n \in {"act", "acting", "commit"} /\ acts[s.act].gated => s.act \in s.approved

SavedGuarded(s) ==
    /\ Sound(s, acts, appr) \/ Stale(s, ckpt.seq)
    /\ \/ Matches(s, acts, appr)
       \/ Stale(s, ckpt.seq)
       \/ (run \in Terminal /\ s.seq > 0)

LogGuarded(s) ==
    /\ Sound(s, acts, appr)
    /\ Matches(s, acts, appr) \/ run \in Terminal

\* The part that a status written over a terminal one destroys.
Guarded ==
    /\ SavedGuarded(saved) /\ LogGuarded(ckpt.state)
    /\ \A w \in Executors : ThreadGuarded(st[w], at[w])
    /\ ApprovedBeforeEffect

Clean == "overwritten" \notin upset

IndInv ==
    /\ RowTypes /\ ThreadTypes
    /\ Refers(saved, acts, appr, ckpt.seq)
    /\ Refers(ckpt.state, acts, appr, ckpt.seq)
    /\ \A w \in Executors : ThreadOK(st[w], at[w])
    /\ Clean => Guarded

-----------------------------------------------------------------------------
(* The operators on states *)

LEMMA KeptState ==
    ASSUME saved \in Loose, NEW s \in Loose, NEW r
    PROVE  /\ Kept(s, r) \in Loose
           /\ Kept(s, r).act = s.act /\ Kept(s, r).approved = s.approved
           /\ Kept(s, r).seen = s.seen /\ Kept(s, r).seq = s.seq
           /\ Kept(s, r).step \in {0, s.step} /\ Kept(s, r).appr \in {0, s.appr}
           /\ Kept(s, r).step = 0 \/ Kept(s, r).appr = s.appr
<1>1. CASE r /= "cancelled"
  BY <1>1 DEF Loose, Kept
<1>2. CASE r = "cancelled"
  <2> DEFINE k == [s EXCEPT !.step = 0, !.appr = 0, !.gkey = FALSE,
                            !.emitted = s.emitted \/ saved.emitted]
  <2>1. Kept(s, r) = k
    BY <1>2 DEF Kept
  <2>2. /\ k \in Loose /\ k.act = s.act /\ k.approved = s.approved
        /\ k.seen = s.seen /\ k.seq = s.seq /\ k.step = 0 /\ k.appr = 0
    BY DEF Loose
  <2> HIDE DEF k
  <2> QED BY <2>1, <2>2
<1> QED BY <1>1, <1>2

LEMMA NumberedState ==
    ASSUME ckpt \in [seq : Nat, state : Loose], NEW s \in Loose, s.seq <= ckpt.seq
    PROVE  /\ Number(s) \in Nat /\ Number(s) > 0
           /\ Numbered(s) \in Loose
           /\ Numbered(s).act = s.act /\ Numbered(s).approved = s.approved
           /\ Numbered(s).seen = s.seen /\ Numbered(s).seq = Number(s)
           /\ Numbered(s).step = s.step /\ Numbered(s).appr = s.appr
           /\ Fits(s) => Number(s) = ckpt.seq + 1 /\ ~Stale(s, ckpt.seq)
BY DEF Loose, Numbered, Number, Fits, Stale

LEMMA RestoredState ==
    ASSUME saved \in Loose, ckpt \in [seq : Nat, state : Loose]
    PROVE  \A s \in Loose : LET r == Restore(s, ckpt) IN
           /\ r \in Loose
           /\ \/ r = s /\ s.seq >= ckpt.seq
              \/ /\ r.act = ckpt.state.act /\ r.approved = ckpt.state.approved
                 /\ r.seen = ckpt.state.seen /\ r.step = ckpt.state.step
                 /\ r.appr = ckpt.state.appr /\ r.seq = ckpt.seq /\ s.seq < ckpt.seq
BY DEF Loose, Restore

\* A row only grows: actions keep what they require, a granted approval stays.
Grown(A, B) == Len(A) <= Len(B) /\ \A a \in 1..Len(A) : B[a].gated = A[a].gated
Carried(P, Q) ==
    /\ Len(P) <= Len(Q)
    /\ \A p \in 1..Len(P) : /\ Q[p].step = P[p].step
                            /\ P[p].status = "approved" => Q[p].status = "approved"
Grows == Grown(acts, acts') /\ Carried(appr, appr') /\ ckpt.seq <= ckpt'.seq

LEMMA Lengths ==
    ASSUME RowTypes
    PROVE  /\ Len(acts) \in Nat /\ DOMAIN acts = 1..Len(acts)
           /\ Len(appr) \in Nat /\ DOMAIN appr = 1..Len(appr)
           /\ ckpt.seq \in Nat
BY DEF RowTypes

LEMMA NextLengths ==
    ASSUME RowTypes'
    PROVE  /\ Len(acts') \in Nat /\ DOMAIN acts' = 1..Len(acts')
           /\ Len(appr') \in Nat /\ DOMAIN appr' = 1..Len(appr')
           /\ ckpt'.seq \in Nat
BY DEF RowTypes

LEMMA CalledExist ==
    ASSUME Settings, RowTypes, RowTypes', Grows, NEW a \in 1..Len(acts'), effects[a] > 0
    PROVE  a \in 1..Len(acts)
<1>1. a \in ActionIds
  BY NextLengths DEF RowTypes, ActionIds, Settings
<1> QED BY <1>1, Lengths DEF RowTypes

LEMMA StatesKeep ==
    ASSUME RowTypes, RowTypes', Grows, NEW s \in Loose, Refers(s, acts, appr, ckpt.seq)
    PROVE  /\ Refers(s, acts', appr', ckpt'.seq)
           /\ Sound(s, acts, appr) => Sound(s, acts', appr')
           /\ Matches(s, acts, appr) => Matches(s, acts', appr')
           /\ Stale(s, ckpt.seq) => Stale(s, ckpt'.seq)
<1>1. Refers(s, acts', appr', ckpt'.seq) /\ (Stale(s, ckpt.seq) => Stale(s, ckpt'.seq))
  <2>1. /\ Len(acts) \in Nat /\ Len(appr) \in Nat /\ ckpt.seq \in Nat
        /\ Len(acts') \in Nat /\ Len(appr') \in Nat /\ ckpt'.seq \in Nat
        /\ Len(acts) <= Len(acts') /\ Len(appr) <= Len(appr') /\ ckpt.seq <= ckpt'.seq
    BY Lengths, NextLengths DEF Grows, Grown, Carried
  <2>2. s.act \in Nat /\ s.step \in Nat /\ s.appr \in Nat /\ s.seq \in Nat
    BY DEF Loose
  <2>3. 1..Len(acts) \subseteq 1..Len(acts')
    BY <2>1
  <2> QED BY <2>1, <2>2, <2>3 DEF Refers, Stale
<1>2. Sound(s, acts, appr) => Sound(s, acts', appr')
  <2> SUFFICES ASSUME Sound(s, acts, appr), NEW a \in s.approved, acts'[a].gated
               PROVE  \E p \in 1..Len(appr') : appr'[p].step = a /\ appr'[p].status = "approved"
    BY DEF Sound
  <2>1. acts[a].gated
    BY DEF Refers, Grows, Grown
  <2>2. PICK p \in 1..Len(appr) : appr[p].step = a /\ appr[p].status = "approved"
    BY <2>1 DEF Sound
  <2> QED BY <2>2, Lengths, NextLengths DEF Grows, Carried
<1>3. Matches(s, acts, appr) => Matches(s, acts', appr')
  BY Lengths, NextLengths DEF Matches, Refers, Grows, Grown, Carried, Loose
<1> QED BY <1>1, <1>2, <1>3

RunKept == run \in Terminal /\ Clean' => run' \in Terminal

\* A thread that does not move is none the worse for a step.
LEMMA ThreadKeeps ==
    ASSUME IndInv, RowTypes', Grows, NEW v \in Executors,
           st'[v] = st[v], at'[v] = at[v]
    PROVE  /\ ThreadOK(st[v], at[v])'
           /\ Clean /\ Clean' /\ RunKept => ThreadGuarded(st[v], at[v])'
<1>1. st[v] \in Loose /\ ThreadOK(st[v], at[v])
  BY DEF IndInv, ThreadTypes
<1>2. /\ Refers(st[v], acts', appr', ckpt'.seq)
      /\ Sound(st[v], acts, appr) => Sound(st[v], acts', appr')
      /\ Matches(st[v], acts, appr) => Matches(st[v], acts', appr')
      /\ Stale(st[v], ckpt.seq) => Stale(st[v], ckpt'.seq)
  BY <1>1, StatesKeep DEF IndInv, ThreadOK
<1>3. ThreadOK(st[v], at[v])'
  BY <1>1, <1>2 DEF ThreadOK
<1>4. ASSUME Clean, Clean', RunKept PROVE ThreadGuarded(st[v], at[v])'
  <2>1. ThreadGuarded(st[v], at[v])
    BY <1>4 DEF IndInv, Guarded
  <2>2. at[v] \in {"act", "acting", "commit"} => acts'[st[v].act].gated = acts[st[v].act].gated
    BY <1>1, Lengths DEF ThreadOK, Refers, Grows, Grown, Holding, IndInv, Loose
  <2> QED BY <1>2, <1>4, <2>1, <2>2 DEF ThreadGuarded, RunKept
<1> QED BY <1>3, <1>4

\* What one step has to show.
LEMMA Assemble ==
    ASSUME Settings, IndInv, RowTypes', ThreadTypes', Grows, Clean' => Clean,
           \/ saved' = saved /\ RunKept
           \/ /\ Refers(saved, acts, appr, ckpt.seq)'
              /\ Clean' => SavedGuarded(saved)',
           \/ ckpt' = ckpt /\ RunKept
           \/ /\ Refers(ckpt.state, acts, appr, ckpt.seq)'
              /\ Clean' => LogGuarded(ckpt.state)',
           \A v \in Executors :
              \/ st'[v] = st[v] /\ at'[v] = at[v] /\ RunKept
              \/ ThreadOK(st[v], at[v])' /\ (Clean' => ThreadGuarded(st[v], at[v])'),
           \/ effects' = effects
           \/ Clean' => ApprovedBeforeEffect'
    PROVE  IndInv'
<1>1. Refers(saved, acts, appr, ckpt.seq)' /\ (Clean' => SavedGuarded(saved)')
  <2>1. CASE saved' = saved /\ RunKept
    <3>1. /\ Refers(saved, acts', appr', ckpt'.seq)
          /\ Sound(saved, acts, appr) => Sound(saved, acts', appr')
          /\ Matches(saved, acts, appr) => Matches(saved, acts', appr')
          /\ Stale(saved, ckpt.seq) => Stale(saved, ckpt'.seq)
      BY StatesKeep DEF IndInv, RowTypes
    <3> QED BY <2>1, <3>1 DEF IndInv, Guarded, SavedGuarded, RunKept
  <2> QED BY <2>1
<1>2. Refers(ckpt.state, acts, appr, ckpt.seq)' /\ (Clean' => LogGuarded(ckpt.state)')
  <2>1. CASE ckpt' = ckpt /\ RunKept
    <3>1. /\ Refers(ckpt.state, acts', appr', ckpt'.seq)
          /\ Sound(ckpt.state, acts, appr) => Sound(ckpt.state, acts', appr')
          /\ Matches(ckpt.state, acts, appr) => Matches(ckpt.state, acts', appr')
      BY StatesKeep DEF IndInv, RowTypes
    <3> QED BY <2>1, <3>1 DEF IndInv, Guarded, LogGuarded, RunKept
  <2> QED BY <2>1
<1>3. \A v \in Executors : ThreadOK(st[v], at[v])' /\ (Clean' => ThreadGuarded(st[v], at[v])')
  BY ThreadKeeps
<1>4. Clean' => ApprovedBeforeEffect'
  <2>1. CASE effects' = effects /\ Clean'
    <3> SUFFICES ASSUME NEW a \in 1..Len(acts'), acts'[a].gated, effects[a] > 0
                 PROVE  \E p \in 1..Len(appr') : appr'[p].step = a /\ appr'[p].status = "approved"
      BY <2>1, NextLengths DEF ApprovedBeforeEffect
    <3>1. a \in 1..Len(acts)
      BY CalledExist DEF IndInv
    <3>2. acts[a].gated
      BY <3>1, Lengths DEF IndInv, Grows, Grown
    <3>3. PICK p \in 1..Len(appr) : appr[p].step = a /\ appr[p].status = "approved"
      BY <2>1, <3>1, <3>2, Lengths DEF IndInv, Guarded, ApprovedBeforeEffect
    <3> QED BY <3>3, Lengths, NextLengths DEF Grows, Carried, IndInv
  <2> QED BY <2>1
<1> QED BY <1>1, <1>2, <1>3, <1>4 DEF IndInv, Guarded

-----------------------------------------------------------------------------
(* Steps of one execution *)

LEMMA OneMoves ==
    ASSUME Settings, IndInv, NEW w \in Executors, NEW n \in Nodes \cup {"off"},
           NEW s \in Loose,
           at' = [at EXCEPT ![w] = n], st' = [st EXCEPT ![w] = s],
           via' \in [Executors -> 0..MaxTries], jobs' \in [1..MaxTries -> Nat],
           RowTypes', Grows, Clean' => Clean, RunKept,
           \/ saved' = saved
           \/ /\ Refers(saved, acts, appr, ckpt.seq)'
              /\ Clean' => SavedGuarded(saved)',
           \/ ckpt' = ckpt
           \/ /\ Refers(ckpt.state, acts, appr, ckpt.seq)'
              /\ Clean' => LogGuarded(ckpt.state)',
           ThreadOK(s, n)', Clean' => ThreadGuarded(s, n)',
           effects' = effects \/ (Clean' => ApprovedBeforeEffect')
    PROVE  IndInv'
<1>1. ThreadTypes'
  BY DEF IndInv, ThreadTypes
<1>2. ASSUME NEW v \in Executors
      PROVE  \/ st'[v] = st[v] /\ at'[v] = at[v] /\ RunKept
             \/ ThreadOK(st[v], at[v])' /\ (Clean' => ThreadGuarded(st[v], at[v])')
  <2>1. CASE v /= w
    BY <2>1 DEF IndInv, ThreadTypes
  <2>2. CASE v = w
    <3>1. st'[v] = s /\ at'[v] = n
      BY <2>2 DEF IndInv, ThreadTypes
    <3>2. ThreadOK(st[v], at[v])' /\ (Clean' => ThreadGuarded(st[v], at[v])')
      BY <3>1 DEF ThreadOK, ThreadGuarded
    <3> QED BY <3>2
  <2> QED BY <2>1, <2>2
<1> QED BY <1>1, <1>2, Assemble

LEMMA SameRows == ASSUME RowTypes, UNCHANGED <<acts, appr, ckpt>> PROVE Grows
BY Lengths DEF Grows, Grown, Carried

\* A step that writes nothing another one reads.
LEMMA Moves ==
    ASSUME Settings, IndInv, NEW w \in Executors, NEW n \in Nodes \cup {"off"},
           NEW s \in Loose, ThreadOK(s, n), Clean => ThreadGuarded(s, n),
           at' = [at EXCEPT ![w] = n], st' = [st EXCEPT ![w] = s],
           via' \in [Executors -> 0..MaxTries],
           UNCHANGED <<run, rows, effects, upset>>
    PROVE  IndInv'
<1>1. RowTypes'
  BY DEF IndInv, RowTypes, rows, ActionIds
<1>2. jobs' \in [1..MaxTries -> Nat] /\ Grows
  BY SameRows DEF IndInv, ThreadTypes, rows
<1>3. ThreadOK(s, n)' /\ (Clean' => ThreadGuarded(s, n)')
  BY DEF ThreadOK, ThreadGuarded, rows, Clean
<1>4. RunKept /\ (Clean' => Clean)
  BY DEF RunKept, Clean
<1> QED BY <1>1, <1>2, <1>3, <1>4, OneMoves DEF rows

LEMMA BlankState ==
    ASSUME RowTypes
    PROVE  /\ Blank \in Loose
           /\ \A n : n \notin Holding => ThreadOK(Blank, n)
           /\ \A n : n \notin {"act", "acting", "commit"} => ThreadGuarded(Blank, n)
<1>1. Blank \in Loose
  BY DEF Blank, Loose
<1>2. Refers(Blank, acts, appr, ckpt.seq)
  BY Lengths DEF Blank, Refers
<1> QED BY <1>1, <1>2 DEF ThreadOK, ThreadGuarded, Sound, Matches, Blank

LEMMA NextBlank ==
    ASSUME RowTypes'
    PROVE  /\ Blank \in Loose
           /\ \A n : n \notin Holding => ThreadOK(Blank, n)'
           /\ \A n : n \notin {"act", "acting", "commit"} => ThreadGuarded(Blank, n)'
<1>1. Blank \in Loose
  BY DEF Blank, Loose
<1>2. Refers(Blank, acts', appr', ckpt'.seq)
  BY NextLengths DEF Blank, Refers
<1> QED BY <1>1, <1>2 DEF ThreadOK, ThreadGuarded, Sound, Matches, Blank

\* An execution that is over, or raised.
LEMMA Leaves ==
    ASSUME Settings, IndInv, NEW w \in Executors, End(w) \/ Raise(w)
    PROVE  \E n \in {"off", "raised"} :
              /\ at' = [at EXCEPT ![w] = n] /\ st' = [st EXCEPT ![w] = Blank]
              /\ via' \in [Executors -> 0..MaxTries]
              /\ n \in Nodes \cup {"off"} /\ n \notin Holding
<1>1. CASE End(w)
  <2>1. via' \in [Executors -> 0..MaxTries]
    BY <1>1 DEF End, IndInv, ThreadTypes, Settings
  <2> QED BY <1>1, <2>1 DEF End, Holding
<1>2. CASE Raise(w)
  <2>1. via' \in [Executors -> 0..MaxTries]
    BY <1>2 DEF Raise, Go, IndInv, ThreadTypes
  <2> QED BY <1>2, <2>1 DEF Raise, Go, Holding, Nodes
<1> QED BY <1>1, <1>2

LEMMA Gone ==
    ASSUME Settings, IndInv, NEW w \in Executors, End(w) \/ Raise(w),
           UNCHANGED <<run, rows, effects, upset>>
    PROVE  IndInv'
<1>1. PICK n \in {"off", "raised"} :
              /\ at' = [at EXCEPT ![w] = n] /\ st' = [st EXCEPT ![w] = Blank]
              /\ via' \in [Executors -> 0..MaxTries]
              /\ n \in Nodes \cup {"off"} /\ n \notin Holding
  BY Leaves
<1>2. Blank \in Loose /\ ThreadOK(Blank, n) /\ ThreadGuarded(Blank, n)
  BY <1>1, BlankState DEF IndInv
<1> QED BY <1>1, <1>2, Moves

\* An action gets another status and keeps what it requires.
LEMMA StatusSet ==
    ASSUME acts \in Seq(ActRow), NEW a \in 1..Len(acts), NEW x \in ActStatus
    PROVE  /\ [acts EXCEPT ![a].status = x] \in Seq(ActRow)
           /\ Len([acts EXCEPT ![a].status = x]) = Len(acts)
           /\ \A b \in 1..Len(acts) : [acts EXCEPT ![a].status = x][b].gated = acts[b].gated
<1> DEFINE r == [acts[a] EXCEPT !.status = x]
<1>1. acts[a] \in ActRow
  OBVIOUS
<1>2. r \in ActRow /\ r.gated = acts[a].gated
  BY <1>1 DEF ActRow
<1>3. [acts EXCEPT ![a].status = x] = [acts EXCEPT ![a] = r]
  OBVIOUS
<1> HIDE DEF r
<1>4. [acts EXCEPT ![a] = r] \in Seq(ActRow) /\ Len([acts EXCEPT ![a] = r]) = Len(acts)
  BY <1>2
<1>5. \A b \in 1..Len(acts) : [acts EXCEPT ![a] = r][b].gated = acts[b].gated
  BY <1>2
<1> QED BY <1>3, <1>4, <1>5

\* So does the action that Withdrawn cancels.
LEMMA WithdrawnActs ==
    ASSUME acts \in Seq(ActRow), NEW a
    PROVE  /\ Withdrawn(a) \in Seq(ActRow)
           /\ Len(Withdrawn(a)) = Len(acts)
           /\ \A b \in 1..Len(acts) : Withdrawn(a)[b].gated = acts[b].gated
<1>1. DOMAIN acts = 1..Len(acts) /\ "cancelled" \in ActStatus
  BY DEF ActStatus
<1> QED BY <1>1, StatusSet DEF Withdrawn

\* _fail ends the run whatever the state is: only what it approved matters.
LEMMA FailNowKeeps ==
    ASSUME Settings, IndInv, NEW w \in Executors, NEW s \in Loose, NEW raises,
           Refers(s, acts, appr, ckpt.seq), Clean => Sound(s, acts, appr),
           FailNow(w, s, raises)
    PROVE  IndInv'
<1>1. /\ run' = "failed" /\ UNCHANGED <<acts, appr, jobs, effects>>
      /\ (End(w) \/ Raise(w)) /\ (Clean' => Clean)
  BY DEF FailNow, Clean
<1>2. PICK n \in {"off", "raised"} :
              /\ at' = [at EXCEPT ![w] = n] /\ st' = [st EXCEPT ![w] = Blank]
              /\ via' \in [Executors -> 0..MaxTries]
              /\ n \in Nodes \cup {"off"} /\ n \notin Holding
  BY <1>1, Leaves
<1>3. RunKept
  BY <1>1 DEF RunKept, Terminal
<1>4. jobs' \in [1..MaxTries -> Nat]
  BY <1>1 DEF IndInv, ThreadTypes
<1>5. CASE Fits(s)
  <2> DEFINE k == Numbered(s)
             e == [k EXCEPT !.emitted = TRUE]
  <2>1. ckpt' = [seq |-> k.seq, state |-> k] /\ saved' = e
    BY <1>5 DEF FailNow
  <2>2. /\ k \in Loose /\ k.seq = ckpt.seq + 1
        /\ k.act = s.act /\ k.approved = s.approved /\ k.seen = s.seen
        /\ k.step = s.step /\ k.appr = s.appr
    BY <1>5, NumberedState DEF IndInv, RowTypes, Refers
  <2>3. /\ e \in Loose /\ e.seq = k.seq /\ e.act = k.act /\ e.approved = k.approved
        /\ e.seen = k.seen /\ e.step = k.step /\ e.appr = k.appr
    BY <2>2 DEF Loose
  <2> HIDE DEF k, e
  <2>4. k.seq \in Nat /\ ckpt.seq \in Nat
    BY <2>2, Lengths DEF IndInv
  <2>5. RowTypes'
    BY <1>1, <2>1, <2>2, <2>3, <2>4 DEF IndInv, RowTypes, Terminal
  <2>6. Grows
    BY <1>1, <2>1, <2>2, <2>4, Lengths DEF IndInv, Grows, Grown, Carried
  <2>7. Refers(saved, acts, appr, ckpt.seq)' /\ Refers(ckpt.state, acts, appr, ckpt.seq)'
    BY <1>1, <2>1, <2>2, <2>3, <2>4 DEF Refers
  <2>8. Clean' => SavedGuarded(saved)' /\ LogGuarded(ckpt.state)'
    BY <1>1, <2>1, <2>2, <2>3, <2>4 DEF Sound, SavedGuarded, LogGuarded, Terminal
  <2> QED BY <1>1, <1>2, <1>3, <1>4, <2>5, <2>6, <2>7, <2>8, NextBlank, OneMoves DEF Holding
<1>6. CASE ~Fits(s)
  <2>1. UNCHANGED <<ckpt, saved>>
    BY <1>6 DEF FailNow
  <2>2. RowTypes'
    BY <1>1, <2>1 DEF IndInv, RowTypes, Terminal
  <2>3. Grows
    BY <1>1, <2>1, SameRows DEF IndInv
  <2> QED BY <1>1, <1>2, <1>3, <1>4, <2>1, <2>2, <2>3, NextBlank, OneMoves DEF Holding
<1> QED BY <1>5, <1>6

\* A checkpoint that is accepted was numbered by a state that is not stale.
LEMMA CheckpointKeeps ==
    ASSUME Settings, IndInv, NEW w \in Executors, NEW s \in Loose,
           NEW node \in Nodes, node \notin Holding \cup {"deciding"},
           Refers(s, acts, appr, ckpt.seq),
           Clean => /\ Sound(s, acts, appr)
                    /\ Matches(s, acts, appr) \/ Stale(s, ckpt.seq),
           Checkpoint(w, s, node),
           acts' \in Seq(ActRow), Grown(acts, acts'), Len(acts') = Len(acts),
           UNCHANGED <<run, appr, jobs, effects>>
    PROVE  IndInv'
<1>1. RunKept /\ jobs' \in [1..MaxTries -> Nat]
  BY DEF RunKept, IndInv, ThreadTypes
<1>2. CASE Fits(s)
  <2> DEFINE k == Numbered(s)
             e == Kept(k, run)
  <2>1. /\ ckpt' = [seq |-> Number(s), state |-> k] /\ saved' = e /\ Go(w, node, e)
        /\ UNCHANGED upset
    BY <1>2 DEF Checkpoint
  <2>2. /\ k \in Loose /\ k.seq = ckpt.seq + 1 /\ Number(s) = k.seq
        /\ k.act = s.act /\ k.approved = s.approved /\ k.seen = s.seen
        /\ k.step = s.step /\ k.appr = s.appr /\ ~Stale(s, ckpt.seq)
    BY <1>2, NumberedState DEF IndInv, RowTypes, Refers
  <2> HIDE DEF k
  <2>3. /\ e \in Loose /\ e.seq = k.seq /\ e.act = k.act /\ e.approved = k.approved
        /\ e.seen = k.seen /\ e.step \in {0, k.step} /\ e.appr \in {0, k.appr}
    BY <2>2, KeptState DEF IndInv, RowTypes
  <2> HIDE DEF e
  <2>4. k.seq \in Nat /\ ckpt.seq \in Nat /\ Len(acts) \in Nat /\ Len(appr) \in Nat
    BY <2>2, Lengths DEF IndInv
  <2>5. RowTypes'
    BY <2>1, <2>2, <2>3, <2>4 DEF IndInv, RowTypes, Terminal
  <2>6. Grows
    BY <2>1, <2>2, <2>4, Lengths DEF IndInv, Grows, Carried
  <2>7. Refers(k, acts', appr', ckpt'.seq) /\ Refers(e, acts', appr', ckpt'.seq)
    BY <2>1, <2>2, <2>3, <2>4 DEF Refers
  <2>8. ASSUME Clean'
        PROVE  /\ Sound(k, acts', appr') /\ Matches(k, acts', appr')
               /\ Sound(e, acts', appr') /\ Matches(e, acts', appr')
    <3>1. Sound(s, acts, appr) /\ Matches(s, acts, appr)
      BY <2>1, <2>2, <2>8 DEF Clean
    <3>2. Sound(s, acts', appr') /\ Matches(s, acts', appr')
      BY <3>1, <2>5, <2>6, StatesKeep DEF IndInv
    <3> QED BY <3>2, <2>2, <2>3 DEF Sound, Matches
  <2>9. Refers(saved, acts, appr, ckpt.seq)' /\ Refers(ckpt.state, acts, appr, ckpt.seq)'
    BY <2>1, <2>7
  <2>10. Clean' => SavedGuarded(saved)' /\ LogGuarded(ckpt.state)'
    BY <2>1, <2>8 DEF SavedGuarded, LogGuarded
  <2>11. PICK x : x = e
    OBVIOUS
  <2>12. ThreadOK(x, node)' /\ (Clean' => ThreadGuarded(x, node)')
    BY <2>7, <2>8, <2>11 DEF ThreadOK, ThreadGuarded, Holding
  <2>13. /\ at' = [at EXCEPT ![w] = node] /\ st' = [st EXCEPT ![w] = x] /\ x \in Loose
         /\ via' \in [Executors -> 0..MaxTries] /\ (Clean' => Clean)
    BY <2>1, <2>3, <2>11 DEF Go, IndInv, ThreadTypes, Clean
  <2> QED BY <1>1, <2>5, <2>6, <2>9, <2>10, <2>12, <2>13, OneMoves
<1>3. CASE ~Fits(s)
  <2>1. UNCHANGED <<ckpt, saved>> /\ Raise(w) /\ (Clean' => Clean)
    BY <1>3 DEF Checkpoint, Clean
  <2>2. RowTypes'
    BY <2>1 DEF IndInv, RowTypes, Terminal
  <2>3. Grows
    BY <2>1, Lengths DEF IndInv, Grows, Carried
  <2>4. PICK n \in {"off", "raised"} :
              /\ at' = [at EXCEPT ![w] = n] /\ st' = [st EXCEPT ![w] = Blank]
              /\ via' \in [Executors -> 0..MaxTries]
              /\ n \in Nodes \cup {"off"} /\ n \notin Holding
    BY <2>1, Leaves
  <2> QED BY <1>1, <2>1, <2>2, <2>3, <2>4, NextBlank, OneMoves DEF Holding
<1> QED BY <1>2, <1>3

\* The run was cancelled: the state is saved without the step it paused at.
LEMMA StopKeeps ==
    ASSUME Settings, IndInv, NEW w \in Executors, StopWrites(w),
           at[w] \notin {"resume", "resumed"},
           \/ End(w) \/ Raise(w) \/ Go(w, "decide", Kept(st[w], run))
    PROVE  IndInv'
<1> DEFINE e == Kept(st[w], run)
<1>1. /\ run = "cancelled" /\ acts' = Withdrawn(st[w].act) /\ saved' = e
      /\ UNCHANGED <<run, ckpt, appr, jobs, effects, upset>>
  BY DEF StopWrites, history, tally
<1>2. st[w] \in Loose /\ ThreadOK(st[w], at[w]) /\ (Clean => Sound(st[w], acts, appr))
  BY DEF IndInv, ThreadTypes, Guarded, ThreadGuarded
<1>3. /\ e \in Loose /\ e.seq = st[w].seq /\ e.act = st[w].act
      /\ e.approved = st[w].approved /\ e.seen = st[w].seen
      /\ e.step = 0 /\ e.appr \in {0, st[w].appr}
  <2>1. e.step = 0
    BY <1>1, <1>2 DEF Kept, Loose
  <2> QED BY <1>2, <2>1, KeptState DEF IndInv, RowTypes
<1> HIDE DEF e
<1>4. acts' \in Seq(ActRow) /\ Len(acts') = Len(acts) /\ Grown(acts, acts')
  <2>1. acts \in Seq(ActRow) /\ st[w].act \in Nat /\ Len(acts) \in Nat
    BY <1>2, Lengths DEF IndInv, RowTypes, Loose
  <2> QED BY <1>1, <2>1, WithdrawnActs DEF Grown
<1>5. RowTypes'
  BY <1>1, <1>3, <1>4 DEF IndInv, RowTypes
<1>6. Grows
  BY <1>1, <1>4, Lengths DEF IndInv, Grows, Carried
<1>7. Refers(e, acts', appr', ckpt'.seq)
  BY <1>1, <1>2, <1>3, <1>4 DEF ThreadOK, Refers
<1>8. Clean' => Sound(e, acts', appr') /\ Matches(e, acts', appr')
  <2>1. Clean' => Sound(st[w], acts', appr')
    BY <1>1, <1>2, <1>5, <1>6, StatesKeep DEF IndInv, ThreadOK, Clean
  <2> QED BY <2>1, <1>3 DEF Sound, Matches
<1>9. Refers(saved, acts, appr, ckpt.seq)' /\ (Clean' => SavedGuarded(saved)')
  BY <1>1, <1>7, <1>8 DEF SavedGuarded
<1>10. RunKept /\ jobs' \in [1..MaxTries -> Nat] /\ (Clean' => Clean)
  BY <1>1 DEF RunKept, IndInv, ThreadTypes, Clean
<1>11. CASE End(w) \/ Raise(w)
  <2>1. PICK n \in {"off", "raised"} :
              /\ at' = [at EXCEPT ![w] = n] /\ st' = [st EXCEPT ![w] = Blank]
              /\ via' \in [Executors -> 0..MaxTries]
              /\ n \in Nodes \cup {"off"} /\ n \notin Holding
    BY <1>11, Leaves
  <2> QED BY <1>1, <1>5, <1>6, <1>9, <1>10, <2>1, NextBlank, OneMoves DEF Holding
<1>12. CASE Go(w, "decide", e)
  <2>1. PICK x : x = e
    OBVIOUS
  <2>2. /\ at' = [at EXCEPT ![w] = "decide"] /\ st' = [st EXCEPT ![w] = x]
        /\ via' \in [Executors -> 0..MaxTries] /\ "decide" \in Nodes /\ x \in Loose
    BY <1>3, <1>12, <2>1 DEF Go, IndInv, ThreadTypes, Nodes
  <2>3. ThreadOK(x, "decide")' /\ (Clean' => ThreadGuarded(x, "decide")')
    BY <1>7, <1>8, <2>1 DEF ThreadOK, ThreadGuarded, Holding
  <2> QED BY <1>1, <1>5, <1>6, <1>9, <1>10, <2>2, <2>3, OneMoves
<1> QED BY <1>11, <1>12 DEF e

RunStatus == {"queued", "running", "retrying", "awaiting", "waiting"} \cup Terminal

\* Any other step of an execution: it may grow the rows of actions and
\* requests and save a state, and it writes no checkpoint.
LEMMA Writes ==
    ASSUME Settings, IndInv, NEW w \in Executors, NEW n \in Nodes \cup {"off"},
           NEW x \in Loose,
           at' = [at EXCEPT ![w] = n], st' = [st EXCEPT ![w] = x],
           via' \in [Executors -> 0..MaxTries], UNCHANGED <<ckpt, jobs, effects>>,
           Clean' => Clean, RunKept, run' \in RunStatus,
           acts' \in Seq(ActRow), Len(acts') <= MaxActions, Grown(acts, acts'),
           appr' \in Seq(ApprRow), Carried(appr, appr'),
           \/ saved' = saved
           \/ \E y \in Loose :
                /\ saved' = y /\ Refers(y, acts, appr, ckpt.seq)
                /\ Clean => /\ Sound(y, acts, appr)
                            /\ Matches(y, acts, appr) \/ Stale(y, ckpt.seq),
           Refers(x, acts', appr', ckpt.seq),
           n \in Holding => x.act > 0 /\ x.step \in {0, x.act},
           n = "deciding" => x.step = 0,
           Clean' => /\ Sound(x, acts', appr')
                     /\ Matches(x, acts', appr') \/ Stale(x, ckpt.seq) \/ n = "policy"
                     /\ n \in {"act", "acting", "commit"} /\ acts'[x.act].gated
                          => x.act \in x.approved
    PROVE  IndInv'
<1>1. \A a \in ActionIds : effects[a] > 0 => a <= Len(acts')
  <2>1. Len(acts) <= Len(acts') /\ Len(acts) \in Nat /\ Len(acts') \in Nat
    BY Lengths DEF IndInv, Grown
  <2> QED BY <2>1 DEF IndInv, RowTypes, ActionIds
<1>2. RowTypes'
  <2>1. saved' \in Loose
    BY DEF IndInv, RowTypes
  <2> QED BY <1>1, <2>1 DEF IndInv, RowTypes, RunStatus, ActionIds
<1>3. Grows
  BY Lengths DEF IndInv, Grows
<1>4. jobs' \in [1..MaxTries -> Nat]
  BY DEF IndInv, ThreadTypes
<1>5. \/ saved' = saved
      \/ /\ Refers(saved, acts, appr, ckpt.seq)'
         /\ Clean' => SavedGuarded(saved)'
  <2>1. ASSUME NEW y \in Loose, saved' = y, Refers(y, acts, appr, ckpt.seq),
               Clean => /\ Sound(y, acts, appr)
                        /\ Matches(y, acts, appr) \/ Stale(y, ckpt.seq)
        PROVE  /\ Refers(saved, acts, appr, ckpt.seq)'
               /\ Clean' => SavedGuarded(saved)'
    <3>1. /\ Refers(y, acts', appr', ckpt'.seq)
          /\ Sound(y, acts, appr) => Sound(y, acts', appr')
          /\ Matches(y, acts, appr) => Matches(y, acts', appr')
          /\ Stale(y, ckpt.seq) => Stale(y, ckpt'.seq)
      BY <1>2, <1>3, <2>1, StatesKeep DEF IndInv
    <3> QED BY <2>1, <3>1 DEF SavedGuarded
  <2> QED BY <2>1
<1>6. ThreadOK(x, n)' /\ (Clean' => ThreadGuarded(x, n)')
  BY DEF ThreadOK, ThreadGuarded
<1> QED BY <1>2, <1>3, <1>4, <1>5, <1>6, OneMoves

\* The same for a thread that goes on with a state it could have stopped with.
LEMMA Continues ==
    ASSUME Settings, IndInv, NEW w \in Executors, NEW n \in Nodes \cup {"off"},
           NEW x \in Loose,
           at' = [at EXCEPT ![w] = n], st' = [st EXCEPT ![w] = x],
           via' \in [Executors -> 0..MaxTries], UNCHANGED <<ckpt, jobs, effects>>,
           Clean' => Clean, RunKept, run' \in RunStatus,
           acts' \in Seq(ActRow), Len(acts') <= MaxActions, Grown(acts, acts'),
           appr' \in Seq(ApprRow), Carried(appr, appr'),
           \/ saved' = saved
           \/ \E y \in Loose :
                /\ saved' = y /\ Refers(y, acts, appr, ckpt.seq)
                /\ Clean => /\ Sound(y, acts, appr)
                            /\ Matches(y, acts, appr) \/ Stale(y, ckpt.seq),
           Refers(x, acts, appr, ckpt.seq),
           n \in Holding => x.act > 0 /\ x.step \in {0, x.act},
           n = "deciding" => x.step = 0,
           n \in {"act", "acting", "commit"} =>
               x.act <= Len(acts) /\ (Clean /\ acts[x.act].gated => x.act \in x.approved),
           Clean => /\ Sound(x, acts, appr)
                    /\ Matches(x, acts, appr) \/ Stale(x, ckpt.seq) \/ n = "policy"
    PROVE  IndInv'
<1>1. \A a \in ActionIds : effects[a] > 0 => a <= Len(acts')
  <2>1. Len(acts) <= Len(acts') /\ Len(acts) \in Nat /\ Len(acts') \in Nat
    BY Lengths DEF IndInv, Grown
  <2> QED BY <2>1 DEF IndInv, RowTypes, ActionIds
<1>2. RowTypes'
  <2>1. saved' \in Loose
    BY DEF IndInv, RowTypes
  <2> QED BY <1>1, <2>1 DEF IndInv, RowTypes, RunStatus, ActionIds
<1>3. Grows
  BY Lengths DEF IndInv, Grows
<1>4. /\ Refers(x, acts', appr', ckpt.seq)
      /\ Sound(x, acts, appr) => Sound(x, acts', appr')
      /\ Matches(x, acts, appr) => Matches(x, acts', appr')
  BY <1>2, <1>3, StatesKeep DEF IndInv
<1>5. n \in {"act", "acting", "commit"} => acts'[x.act].gated = acts[x.act].gated
  <2>1. x.act \in Nat /\ Len(acts) \in Nat
    BY Lengths DEF IndInv, Loose
  <2> QED BY <2>1 DEF Grown, Holding
<1> QED BY <1>4, <1>5, Writes

\* What the acting thread brings along.
LEMMA Brings ==
    ASSUME IndInv, NEW w \in Executors
    PROVE  /\ st[w] \in Loose /\ Refers(st[w], acts, appr, ckpt.seq)
           /\ at[w] \in Holding => st[w].act \in 1..Len(acts) /\ st[w].step \in {0, st[w].act}
           /\ at[w] = "deciding" => st[w].step = 0
           /\ Clean /\ at[w] \notin {"resume", "resumed"} => Sound(st[w], acts, appr)
           /\ Clean /\ at[w] \notin {"policy", "observe"} =>
                Matches(st[w], acts, appr) \/ Stale(st[w], ckpt.seq)
           /\ Clean /\ at[w] \in {"act", "acting", "commit"} /\ acts[st[w].act].gated =>
                st[w].act \in st[w].approved
           /\ via \in [Executors -> 0..MaxTries] /\ Len(acts) <= MaxActions
           /\ acts \in Seq(ActRow) /\ appr \in Seq(ApprRow) /\ run \in RunStatus
           /\ Grown(acts, acts) /\ Carried(appr, appr)
<1>1. st[w] \in Loose /\ ThreadOK(st[w], at[w]) /\ (Clean => ThreadGuarded(st[w], at[w]))
  BY DEF IndInv, ThreadTypes, Guarded
<1>2. st[w].act \in Nat /\ Len(acts) \in Nat /\ Len(appr) \in Nat
  BY <1>1, Lengths DEF Loose, IndInv
<1>3. Grown(acts, acts) /\ Carried(appr, appr)
  BY <1>2 DEF Grown, Carried
<1>4. /\ via \in [Executors -> 0..MaxTries] /\ Len(acts) <= MaxActions
      /\ acts \in Seq(ActRow) /\ appr \in Seq(ApprRow) /\ run \in RunStatus
  BY DEF IndInv, RowTypes, ThreadTypes, RunStatus
<1> QED BY <1>1, <1>2, <1>3, <1>4 DEF ThreadOK, ThreadGuarded, Refers

LEMMA AskForRows ==
    ASSUME appr \in Seq(ApprRow), NEW step \in Nat, AskFor(step)
    PROVE  /\ appr' \in Seq(ApprRow) /\ Carried(appr, appr')
           /\ Len(appr') = Len(appr) + 1 /\ appr'[Len(appr) + 1].step = step
<1>1. [step |-> step, status |-> "pending"] \in ApprRow
  BY DEF ApprRow, ApprStatus
<1>2. /\ appr' \in Seq(ApprRow) /\ Len(appr') = Len(appr) + 1
      /\ appr'[Len(appr) + 1] = [step |-> step, status |-> "pending"]
      /\ \A p \in 1..Len(appr) : appr'[p] = appr[p]
  BY <1>1 DEF AskFor
<1> QED BY <1>2 DEF Carried

\* An execution ends or raises after it wrote actions, requests or its state.
LEMMA Finishes ==
    ASSUME Settings, IndInv, NEW w \in Executors, End(w) \/ Raise(w),
           UNCHANGED <<ckpt, jobs, effects>>,
           Clean' => Clean, RunKept, run' \in RunStatus,
           acts' \in Seq(ActRow), Len(acts') <= MaxActions, Grown(acts, acts'),
           appr' \in Seq(ApprRow), Carried(appr, appr'),
           \/ saved' = saved
           \/ \E y \in Loose :
                /\ saved' = y /\ Refers(y, acts, appr, ckpt.seq)
                /\ Clean => /\ Sound(y, acts, appr)
                            /\ Matches(y, acts, appr) \/ Stale(y, ckpt.seq)
    PROVE  IndInv'
<1>1. PICK n \in {"off", "raised"} :
              /\ at' = [at EXCEPT ![w] = n] /\ st' = [st EXCEPT ![w] = Blank]
              /\ via' \in [Executors -> 0..MaxTries]
              /\ n \in Nodes \cup {"off"} /\ n \notin Holding
  BY Leaves
<1>2. Blank \in Loose /\ ThreadOK(Blank, n) /\ Sound(Blank, acts, appr) /\ Matches(Blank, acts, appr)
  BY <1>1, BlankState DEF IndInv, Blank, Sound, Matches
<1> QED BY <1>1, <1>2, Continues DEF ThreadOK, Holding

-----------------------------------------------------------------------------
(* The nodes *)

LEMMA ObserveKeeps ==
    ASSUME Settings, IndInv, NEW w \in Executors, Observe(w)
    PROVE  IndInv'
<1>1. UNCHANGED <<run, rows, effects, upset>> /\ at[w] = "observe"
  BY DEF Observe, history, tally
<1>2. CASE End(w)
  BY <1>1, <1>2, Gone
<1>3. CASE run \notin Terminal /\ Go(w, "enter", st[w])
  <2>1. PICK x : x = st[w]
    OBVIOUS
  <2>2. /\ x \in Loose /\ ThreadOK(x, "observe") /\ (Clean => ThreadGuarded(x, "observe"))
    BY <1>1, <2>1 DEF IndInv, ThreadTypes, Guarded
  <2>3. ThreadOK(x, "enter") /\ (Clean => ThreadGuarded(x, "enter"))
    BY <1>3, <2>2 DEF ThreadOK, ThreadGuarded, Holding
  <2> QED BY <1>1, <1>3, <2>1, <2>2, <2>3, Moves DEF Go, Nodes, IndInv, ThreadTypes
<1> QED BY <1>2, <1>3 DEF Observe

LEMMA EnterKeeps ==
    ASSUME Settings, IndInv, NEW w \in Executors, Enter(w)
    PROVE  IndInv'
<1>1. CASE FailNow(w, st[w], FALSE)
  BY <1>1, Brings, FailNowKeeps DEF Enter
<1>2. ASSUME NEW node \in {"recover", "fail"}, SetRun("running"), saved' = st[w],
             Go(w, node, st[w]), UNCHANGED <<ckpt, acts, appr, msg, jobs, tally, trouble>>
      PROVE  IndInv'
  <2>1. PICK x : x = st[w]
    OBVIOUS
  <2>2. /\ at' = [at EXCEPT ![w] = node] /\ st' = [st EXCEPT ![w] = x]
        /\ UNCHANGED <<via, effects>>
        /\ run' \in RunStatus /\ (Clean' => Clean /\ run \notin Terminal) /\ RunKept
    BY <1>2, <2>1 DEF Go, SetRun, RunStatus, Overwritten, Clean, RunKept, tally
  <2>3. at[w] = "enter" /\ node \in Nodes /\ node \notin Holding /\ node /= "deciding"
    BY <1>2 DEF Enter, Nodes, Holding
  <2> QED BY <1>2, <2>1, <2>2, <2>3, Brings, Continues DEF Holding
<1> QED BY <1>1, <1>2 DEF Enter

LEMMA DecidedState ==
    ASSUME NEW s \in Loose,
           NEW x, x = [s EXCEPT !.iter = @ + 1, !.act = 0, !.step = 0, !.out = "none"]
    PROVE  /\ x \in Loose /\ x.act = 0 /\ x.step = 0 /\ x.approved = s.approved
           /\ x.seen = s.seen /\ x.appr = s.appr /\ x.seq = s.seq
<1>1. s.iter + 1 \in Nat
  BY DEF Loose
<1> QED BY <1>1 DEF Loose

LEMMA DecideKeeps ==
    ASSUME Settings, IndInv, NEW w \in Executors, Decide(w)
    PROVE  IndInv'
<1>1. at[w] = "decide" /\ st[w] \in Loose
  BY Brings DEF Decide
<1>2. CASE Stopped(w)
  BY <1>1, <1>2, StopKeeps DEF Stopped
<1>3. CASE Go(w, "fail", st[w]) /\ UNCHANGED <<run, rows, history>>
  <2>1. PICK x : x = st[w]
    OBVIOUS
  <2>2. ThreadOK(x, "fail") /\ (Clean => ThreadGuarded(x, "fail"))
    BY <1>1, <2>1, Brings DEF ThreadOK, ThreadGuarded, Holding
  <2> QED BY <1>1, <1>3, <2>1, <2>2, Brings, Moves DEF Go, Nodes, history, tally
<1>4. CASE /\ Go(w, "deciding", [st[w] EXCEPT !.iter = @ + 1, !.act = 0,
                                              !.step = 0, !.out = "none"])
           /\ UNCHANGED <<run, rows, effects, upset>>
  <2>1. PICK x : x = [st[w] EXCEPT !.iter = @ + 1, !.act = 0, !.step = 0, !.out = "none"]
    OBVIOUS
  <2>2. /\ x \in Loose /\ x.act = 0 /\ x.step = 0 /\ x.approved = st[w].approved
        /\ x.seen = st[w].seen /\ x.appr = st[w].appr /\ x.seq = st[w].seq
    BY <1>1, <2>1, DecidedState
  <2>3. ThreadOK(x, "deciding") /\ (Clean => ThreadGuarded(x, "deciding"))
    <3>1. Refers(x, acts, appr, ckpt.seq)
      BY <2>2, Brings, Lengths DEF IndInv, Refers
    <3>2. Clean => Sound(x, acts, appr)
      BY <1>1, <2>2, Brings DEF Sound
    <3> QED BY <2>2, <3>1, <3>2 DEF ThreadOK, ThreadGuarded, Holding, Matches
  <2> QED BY <1>4, <2>1, <2>2, <2>3, Brings, Moves DEF Go, Nodes
<1> QED BY <1>2, <1>3, <1>4 DEF Decide, history, tally

\* A decision becomes the next action, which nobody asked for yet.
LEMMA ChosenRow ==
    ASSUME acts \in Seq(ActRow), NEW g \in BOOLEAN, NEW i \in Nat,
           acts' = Append(acts, [status |-> "pending", gated |-> g, iter |-> i])
    PROVE  acts' \in Seq(ActRow) /\ Len(acts') = Len(acts) + 1 /\ Grown(acts, acts')
<1>1. [status |-> "pending", gated |-> g, iter |-> i] \in ActRow
  BY DEF ActRow, ActStatus
<1> QED BY <1>1 DEF Grown

LEMMA ChosenState ==
    \A s \in Loose, a \in Nat : \E x \in Loose :
       /\ x = [s EXCEPT !.act = a, !.step = a]
       /\ x.act = a /\ x.step = a /\ x.approved = s.approved
       /\ x.seen = s.seen /\ x.appr = s.appr /\ x.seq = s.seq
<1> TAKE s \in Loose, a \in Nat
<1> DEFINE x == [s EXCEPT !.act = a, !.step = a]
<1>1. /\ x \in Loose
      /\ x.act = a /\ x.step = a /\ x.approved = s.approved
      /\ x.seen = s.seen /\ x.appr = s.appr /\ x.seq = s.seq
  BY DEF Loose
<1> QED BY <1>1

LEMMA ChooseKeeps ==
    ASSUME Settings, IndInv, NEW w \in Executors, NEW s \in Loose, NEW g \in BOOLEAN,
           Choose(w, s, g),
           Refers(s, acts, appr, ckpt.seq),
           Clean => /\ Sound(s, acts, appr)
                    /\ Matches(s, acts, appr) \/ Stale(s, ckpt.seq),
           saved' = saved \/ saved' = s
    PROVE  IndInv'
<1>0. PICK a \in Nat : a = Len(acts) + 1
  BY Lengths DEF IndInv
<1>1. PICK x \in Loose :
         /\ x = [s EXCEPT !.act = a, !.step = a]
         /\ x.act = a /\ x.step = a /\ x.approved = s.approved
         /\ x.seen = s.seen /\ x.appr = s.appr /\ x.seq = s.seq
  BY <1>0, ChosenState
<1>2. s.iter \in Nat /\ Len(acts) \in Nat /\ Len(appr) \in Nat /\ acts \in Seq(ActRow)
  BY Lengths DEF IndInv, RowTypes, Loose
<1>3. acts' \in Seq(ActRow) /\ Len(acts') = Len(acts) + 1 /\ Grown(acts, acts') /\ Len(acts) < MaxActions
  BY <1>2, ChosenRow DEF Choose
<1>4. /\ x \in Loose /\ x.act = a /\ x.step = a /\ x.approved = s.approved
      /\ x.seen = s.seen /\ x.appr = s.appr /\ x.seq = s.seq
  BY <1>1
<1>5. /\ at' = [at EXCEPT ![w] = "policy"] /\ st' = [st EXCEPT ![w] = x]
      /\ UNCHANGED <<run, ckpt, appr, jobs, effects, upset, via>>
  BY <1>0, <1>1 DEF Choose, Go, history, tally
<1>6. Refers(x, acts', appr', ckpt.seq)
  BY <1>0, <1>2, <1>3, <1>4, <1>5 DEF Refers, Loose
<1>7. Clean => Sound(x, acts', appr')
  <2> SUFFICES ASSUME Clean, NEW b \in s.approved, acts'[b].gated
               PROVE  \E p \in 1..Len(appr) : appr[p].step = b /\ appr[p].status = "approved"
    BY <1>4, <1>5 DEF Sound
  <2>1. acts[b].gated
    BY <1>3 DEF Grown, Refers
  <2> QED BY <2>1 DEF Sound
<1>8. run' \in RunStatus /\ (Clean' => Clean) /\ RunKept /\ "policy" \in Nodes
  BY <1>5 DEF IndInv, RowTypes, RunStatus, Clean, RunKept, Nodes
<1>9. appr' \in Seq(ApprRow) /\ Carried(appr, appr') /\ via' \in [Executors -> 0..MaxTries]
  BY <1>5, Brings
<1>10. x.act > 0 /\ x.step \in {0, x.act} /\ Len(acts') <= MaxActions
  BY <1>0, <1>2, <1>3, <1>4 DEF Settings
<1>11. UNCHANGED <<ckpt, jobs, effects>>
  BY <1>5
<1>12. \/ saved' = saved
       \/ \E y \in Loose :
             /\ saved' = y /\ Refers(y, acts, appr, ckpt.seq)
             /\ Clean => /\ Sound(y, acts, appr)
                         /\ Matches(y, acts, appr) \/ Stale(y, ckpt.seq)
  OBVIOUS
<1> QED BY <1>3, <1>4, <1>5, <1>6, <1>7, <1>8, <1>9, <1>10, <1>11, <1>12, Writes

\* An edge of the graph along which nothing is written.
LEMMA GoesOn ==
    ASSUME Settings, IndInv, NEW w \in Executors, NEW node \in Nodes,
           node \notin Holding, node /= "deciding", at[w] \notin {"policy", "observe", "resume", "resumed"},
           Go(w, node, st[w]), UNCHANGED <<run, rows, effects, upset>>
    PROVE  IndInv'
<1>1. PICK x : x = st[w]
  OBVIOUS
<1>2. ThreadOK(x, node) /\ (Clean => ThreadGuarded(x, node)) /\ x \in Loose
  BY <1>1, Brings DEF ThreadOK, ThreadGuarded, Holding
<1> QED BY <1>1, <1>2, Brings, Moves DEF Go

LEMMA RedoneState ==
    \A s \in Loose : \E t \in Loose :
       /\ t = [s EXCEPT !.redo = "none"]
       /\ t.act = s.act /\ t.step = s.step /\ t.approved = s.approved
       /\ t.seen = s.seen /\ t.appr = s.appr /\ t.seq = s.seq
<1> TAKE s \in Loose
<1> DEFINE t == [s EXCEPT !.redo = "none"]
<1>1. /\ t \in Loose
      /\ t.act = s.act /\ t.step = s.step /\ t.approved = s.approved
      /\ t.seen = s.seen /\ t.appr = s.appr /\ t.seq = s.seq
  BY DEF Loose
<1> QED BY <1>1

LEMMA RedoKeeps ==
    ASSUME Settings, IndInv, NEW w \in Executors, at[w] = "deciding", Redo(w, st[w])
    PROVE  IndInv'
<1>1. PICK t \in Loose :
         /\ t = [st[w] EXCEPT !.redo = "none"]
         /\ t.act = st[w].act /\ t.step = st[w].step /\ t.approved = st[w].approved
         /\ t.seen = st[w].seen /\ t.appr = st[w].appr /\ t.seq = st[w].seq
  BY Brings, RedoneState
<1>2. CASE saved' = t /\ Choose(w, t, st[w].redo = "gated")
  <2>1. /\ Refers(t, acts, appr, ckpt.seq)
        /\ Clean => /\ Sound(t, acts, appr)
                    /\ Matches(t, acts, appr) \/ Stale(t, ckpt.seq)
    BY <1>1, Brings DEF Refers, Sound, Matches, Stale
  <2>2. PICK g \in BOOLEAN : g = (st[w].redo = "gated")
    OBVIOUS
  <2> QED BY <1>2, <2>1, <2>2, ChooseKeeps
<1>3. CASE Stopped(w)
  BY <1>3, StopKeeps DEF Stopped
<1>4. CASE Go(w, "fail", st[w]) /\ UNCHANGED <<run, rows, history>>
  BY <1>4, GoesOn DEF Nodes, Holding, history, tally
<1> QED BY <1>1, <1>2, <1>3, <1>4 DEF Redo

LEMMA AnsweredKeeps ==
    ASSUME Settings, IndInv, NEW w \in Executors, at[w] = "deciding",
           Answered(w, st[w])
    PROVE  IndInv'
<1>1. ASSUME NEW g \in BOOLEAN, Choose(w, st[w], g), UNCHANGED saved
      PROVE  IndInv'
  BY <1>1, Brings, ChooseKeeps
<1>2. ASSUME NEW node \in {"wait_user", "replan", "verify", "complete", "fail"},
             Go(w, node, st[w]), UNCHANGED <<run, rows, history>>
      PROVE  IndInv'
  BY <1>2, GoesOn DEF Nodes, Holding, history, tally
<1> QED BY <1>1, <1>2 DEF Answered

\* A request for an approval, which the state now names.
LEMMA AskedState ==
    \A s \in Loose, p \in Nat, g \in BOOLEAN :
       /\ \E x \in Loose :
            /\ x = [s EXCEPT !.appr = p]
            /\ x.act = s.act /\ x.step = s.step /\ x.approved = s.approved
            /\ x.seen = s.seen /\ x.appr = p /\ x.seq = s.seq
       /\ \E x \in Loose :
            /\ x = [s EXCEPT !.gkey = g, !.appr = p]
            /\ x.act = s.act /\ x.step = s.step /\ x.approved = s.approved
            /\ x.seen = s.seen /\ x.appr = p /\ x.seq = s.seq
<1> TAKE s \in Loose, p \in Nat, g \in BOOLEAN
<1> DEFINE x == [s EXCEPT !.appr = p]
           y == [s EXCEPT !.gkey = g, !.appr = p]
<1>1. /\ x \in Loose
      /\ x.act = s.act /\ x.step = s.step /\ x.approved = s.approved
      /\ x.seen = s.seen /\ x.appr = p /\ x.seq = s.seq
  BY DEF Loose
<1>2. /\ y \in Loose
      /\ y.act = s.act /\ y.step = s.step /\ y.approved = s.approved
      /\ y.seen = s.seen /\ y.appr = p /\ y.seq = s.seq
  BY DEF Loose
<1> QED BY <1>1, <1>2

LEMMA AskKeeps ==
    ASSUME Settings, IndInv, NEW w \in Executors, NEW step \in Nat, AskFor(step),
           NEW x \in Loose, Go(w, "pause", x), UNCHANGED <<run, saved, ckpt, acts, jobs, effects, upset>>,
           x.step = 0 \/ x.step = step,
           x.act = st[w].act, x.step = st[w].step, x.approved = st[w].approved,
           x.seen = st[w].seen, x.appr = Len(appr) + 1, x.seq = st[w].seq,
           at[w] \notin {"resume", "resumed"}
    PROVE  IndInv'
<1>1. /\ appr' \in Seq(ApprRow) /\ Carried(appr, appr')
      /\ Len(appr') = Len(appr) + 1 /\ appr'[Len(appr) + 1].step = step
  BY Brings, AskForRows
<1>2. Len(acts) \in Nat /\ Len(appr) \in Nat /\ DOMAIN acts = 1..Len(acts)
  BY Lengths DEF IndInv
<1>3. Refers(x, acts', appr', ckpt.seq)
  BY <1>1, <1>2, Brings DEF Refers
<1>4. Matches(x, acts', appr')
  BY <1>1, <1>2 DEF Matches
<1>5. Clean' => Sound(x, acts', appr')
  <2> SUFFICES ASSUME Clean, NEW b \in st[w].approved, acts[b].gated
               PROVE  \E p \in 1..Len(appr') : appr'[p].step = b /\ appr'[p].status = "approved"
    BY DEF Sound, Clean
  <2>1. PICK p \in 1..Len(appr) : appr[p].step = b /\ appr[p].status = "approved"
    BY Brings DEF Sound
  <2> QED BY <1>1, <1>2, <2>1 DEF Carried
<1>6. /\ at' = [at EXCEPT ![w] = "pause"] /\ st' = [st EXCEPT ![w] = x]
      /\ via' \in [Executors -> 0..MaxTries] /\ "pause" \in Nodes
      /\ UNCHANGED <<ckpt, jobs, effects>> /\ (Clean' => Clean) /\ RunKept
      /\ run' \in RunStatus /\ saved' = saved
  BY Brings DEF Go, Nodes, Clean, RunKept
<1>7. acts' \in Seq(ActRow) /\ Len(acts') <= MaxActions /\ Grown(acts, acts')
  BY Brings
<1> QED BY <1>1, <1>3, <1>4, <1>5, <1>6, <1>7, Writes DEF Holding

LEMMA GuardrailKeeps ==
    ASSUME Settings, IndInv, NEW w \in Executors, at[w] = "deciding",
           GuardrailPauses(w, st[w])
    PROVE  IndInv'
<1>1. Len(appr) + 1 \in Nat /\ st[w] \in Loose /\ st[w].step = 0
  BY Lengths, Brings DEF IndInv
<1>2. PICK x \in Loose :
            /\ x = [st[w] EXCEPT !.gkey = TRUE, !.appr = Len(appr) + 1]
            /\ x.act = st[w].act /\ x.step = st[w].step /\ x.approved = st[w].approved
            /\ x.seen = st[w].seen /\ x.appr = Len(appr) + 1 /\ x.seq = st[w].seq
  BY <1>1, AskedState
<1>3. /\ AskFor(0) /\ Go(w, "pause", x) /\ 0 \in Nat
      /\ UNCHANGED <<run, saved, ckpt, acts, jobs, effects, upset>>
  BY <1>2 DEF GuardrailPauses, history, tally
<1> QED BY <1>1, <1>2, <1>3, AskKeeps

LEMMA DecidingKeeps ==
    ASSUME Settings, IndInv, NEW w \in Executors, Deciding(w)
    PROVE  IndInv'
<1>1. at[w] = "deciding"
  BY DEF Deciding
<1>2. CASE Go(w, "fail", st[w]) /\ UNCHANGED <<run, rows, history>>
  BY <1>1, <1>2, GoesOn DEF Nodes, Holding, history, tally
<1>3. CASE GatewayFails(w, st[w])
  <2>1. ASSUME NEW raises \in BOOLEAN, FailNow(w, st[w], raises) PROVE IndInv'
    BY <1>1, <2>1, Brings, FailNowKeeps
  <2>2. CASE (End(w) \/ Raise(w)) /\ UNCHANGED <<run, rows, history>>
    BY <2>2, Gone DEF history, tally
  <2> QED BY <1>3, <2>1, <2>2 DEF GatewayFails
<1>4. CASE Stopped(w)
  BY <1>1, <1>4, StopKeeps DEF Stopped
<1> QED BY <1>1, <1>2, <1>3, <1>4, RedoKeeps, AnsweredKeeps, GuardrailKeeps DEF Deciding

LEMMA PolicyKeeps ==
    ASSUME Settings, IndInv, NEW w \in Executors, Policy(w)
    PROVE  IndInv'
<1>1. at[w] = "policy" /\ st[w] \in Loose /\ st[w].act \in 1..Len(acts) /\ st[w].step \in {0, st[w].act}
  BY Brings DEF Policy, Holding
<1>2. CASE Stopped(w)
  BY <1>1, <1>2, StopKeeps DEF Stopped
<1>3. CASE FailNow(w, st[w], FALSE)
  BY <1>1, <1>3, Brings, FailNowKeeps
<1>4. CASE /\ AskFor(st[w].act)
           /\ Go(w, "pause", [st[w] EXCEPT !.appr = Len(appr) + 1])
           /\ UNCHANGED <<run, saved, ckpt, acts, msg, jobs, history>>
  <2>1. Len(appr) + 1 \in Nat /\ st[w].act \in Nat
    BY <1>1, Lengths DEF IndInv, Loose
  <2>2. PICK x \in Loose :
            /\ x = [st[w] EXCEPT !.appr = Len(appr) + 1]
            /\ x.act = st[w].act /\ x.step = st[w].step /\ x.approved = st[w].approved
            /\ x.seen = st[w].seen /\ x.appr = Len(appr) + 1 /\ x.seq = st[w].seq
    BY <1>1, <2>1, AskedState
  <2> QED BY <1>1, <1>4, <2>1, <2>2, AskKeeps DEF history, tally
<1>5. CASE /\ ~NeedsApproval(st[w]) /\ Go(w, "act", st[w])
           /\ UNCHANGED <<run, rows, history>>
  <2>1. PICK x : x = st[w]
    OBVIOUS
  <2>2. ThreadOK(x, "act")
    BY <1>1, <2>1, Brings DEF ThreadOK, Loose
  <2>3. Clean => ThreadGuarded(x, "act")
    BY <1>1, <1>5, <2>1, Brings DEF ThreadGuarded, NeedsApproval, Matches
  <2> QED BY <1>1, <1>5, <2>1, <2>2, <2>3, Brings, Moves DEF Go, Nodes, history, tally
<1> QED BY <1>2, <1>3, <1>4, <1>5 DEF Policy

LEMMA ExpiredActs ==
    ASSUME acts \in Seq(ActRow), NEW X,
           acts' = [a \in DOMAIN acts |->
                      IF a \in X THEN [acts[a] EXCEPT !.status = "uncertain"]
                      ELSE acts[a]]
    PROVE  acts' \in Seq(ActRow) /\ Len(acts') = Len(acts) /\ Grown(acts, acts')
<1>1. Len(acts) \in Nat /\ DOMAIN acts = 1..Len(acts)
  OBVIOUS
<1>2. ASSUME NEW a \in 1..Len(acts)
      PROVE  /\ [acts[a] EXCEPT !.status = "uncertain"] \in ActRow
             /\ [acts[a] EXCEPT !.status = "uncertain"].gated = acts[a].gated
  <2>1. acts[a] \in ActRow /\ "uncertain" \in ActStatus
    BY DEF ActStatus
  <2> QED BY <2>1 DEF ActRow
<1>3. \A a \in 1..Len(acts) : acts'[a] \in ActRow /\ acts'[a].gated = acts[a].gated
  BY <1>1, <1>2
<1>4. DOMAIN acts' = 1..Len(acts)
  BY <1>1
<1>5. acts' \in [1..Len(acts) -> ActRow]
  BY <1>1, <1>3
<1>6. acts' \in Seq(ActRow) /\ Len(acts') = Len(acts)
  BY <1>1, <1>5
<1> QED BY <1>1, <1>3, <1>6 DEF Grown

LEMMA SeenState ==
    \A s \in Loose, K \in SUBSET Nat : \E x \in Loose :
       /\ x = [s EXCEPT !.seen = @ \cup K]
       /\ x.act = s.act /\ x.step = s.step /\ x.approved = s.approved
       /\ x.seen = s.seen \cup K /\ x.appr = s.appr /\ x.seq = s.seq
<1> TAKE s \in Loose, K \in SUBSET Nat
<1>1. s.seen \cup K \in SUBSET Nat
  BY DEF Loose
<1> DEFINE x == [s EXCEPT !.seen = @ \cup K]
<1>2. /\ x \in Loose
      /\ x.act = s.act /\ x.step = s.step /\ x.approved = s.approved
      /\ x.seen = s.seen \cup K /\ x.appr = s.appr /\ x.seq = s.seq
  BY <1>1 DEF Loose
<1> QED BY <1>2

LEMMA RecoverKeeps ==
    ASSUME Settings, IndInv, NEW w \in Executors, Recover(w)
    PROVE  IndInv'
<1>0. PICK expired \in SUBSET With("running") :
       LET now == [a \in DOMAIN acts |->
                     IF a \in expired THEN [acts[a] EXCEPT !.status = "uncertain"]
                     ELSE acts[a]]
           known == {a \in DOMAIN acts : Settled(a)}
           s == [st[w] EXCEPT !.seen = @ \cup known]
           open(status) == {a \in DOMAIN now : now[a].status = status}
       IN
       /\ acts' = now
       /\ \/ /\ Checkpoint(w, s, "recover")
             /\ UNCHANGED run
          \/ /\ SetRun("waiting")
             /\ saved' = s
             /\ End(w)
             /\ UNCHANGED ckpt
          \/ /\ saved' = Kept(s, run)
             /\ Raise(w)
             /\ UNCHANGED <<run, ckpt, upset>>
          \/ /\ \/ \E a \in Oldest(open("pending")) :
                      Go(w, "policy", [s EXCEPT
                             !.iter = IF @ > acts[a].iter THEN @ ELSE acts[a].iter,
                             !.act = a, !.step = a])
                \/ Go(w, "decide", s)
             /\ UNCHANGED <<run, saved, ckpt, upset>>
  BY DEF Recover
<1> DEFINE known == {a \in DOMAIN acts : Settled(a)}
<1>1. at[w] = "recover" /\ st[w] \in Loose /\ UNCHANGED <<appr, jobs, effects>>
  BY Brings DEF Recover, tally
<1>2. /\ Len(acts) \in Nat /\ Len(appr) \in Nat /\ DOMAIN acts = 1..Len(acts)
      /\ acts \in Seq(ActRow) /\ Len(acts) <= MaxActions /\ known \in SUBSET (1..Len(acts))
  BY Lengths, Brings DEF IndInv
<1>3. PICK s \in Loose :
         /\ s = [st[w] EXCEPT !.seen = @ \cup known]
         /\ s.act = st[w].act /\ s.step = st[w].step /\ s.approved = st[w].approved
         /\ s.seen = st[w].seen \cup known /\ s.appr = st[w].appr /\ s.seq = st[w].seq
  <2> HIDE DEF known
  <2>1. known \in SUBSET Nat
    BY <1>2
  <2> QED BY <1>1, <2>1, SeenState
<1>4. /\ Refers(s, acts, appr, ckpt.seq)
      /\ Clean => Sound(s, acts, appr) /\ (Matches(s, acts, appr) \/ Stale(s, ckpt.seq))
  <2>1. /\ Refers(st[w], acts, appr, ckpt.seq)
        /\ Clean => /\ Sound(st[w], acts, appr)
                    /\ Matches(st[w], acts, appr) \/ Stale(st[w], ckpt.seq)
    BY <1>1, Brings
  <2> HIDE DEF known
  <2> QED BY <1>2, <1>3, <2>1 DEF Refers, Sound, Matches, Stale
<1>5. acts' \in Seq(ActRow) /\ Len(acts') = Len(acts) /\ Grown(acts, acts')
  BY <1>0, <1>2, ExpiredActs
<1>6. appr' \in Seq(ApprRow) /\ Carried(appr, appr') /\ via \in [Executors -> 0..MaxTries] /\ run \in RunStatus
  BY <1>1, Brings
<1> HIDE DEF known
<1>7. CASE Checkpoint(w, s, "recover") /\ UNCHANGED run
  BY <1>1, <1>4, <1>5, <1>7, CheckpointKeeps DEF Nodes, Holding
<1>8. CASE SetRun("waiting") /\ saved' = s /\ End(w) /\ UNCHANGED ckpt
  <2>1. run' \in RunStatus /\ (Clean' => Clean) /\ RunKept
    BY <1>8 DEF SetRun, RunStatus, Overwritten, Clean, RunKept
  <2> QED BY <1>1, <1>2, <1>4, <1>5, <1>6, <1>8, <2>1, Finishes
<1>9. CASE saved' = Kept(s, run) /\ Raise(w) /\ UNCHANGED <<run, ckpt, upset>>
  <2>1. PICK y \in Loose : y = Kept(s, run) /\ y.act = s.act /\ y.approved = s.approved
           /\ y.seen = s.seen /\ y.seq = s.seq /\ y.step \in {0, s.step} /\ y.appr \in {0, s.appr}
    BY KeptState DEF IndInv, RowTypes
  <2>2. /\ Refers(y, acts, appr, ckpt.seq)
        /\ Clean => Sound(y, acts, appr) /\ (Matches(y, acts, appr) \/ Stale(y, ckpt.seq))
    <3>1. Refers(y, acts, appr, ckpt.seq)
      BY <1>2, <1>4, <2>1 DEF Refers
    <3>2. Clean => Sound(y, acts, appr)
      BY <1>4, <2>1 DEF Sound
    <3>3. Clean => Matches(y, acts, appr) \/ Stale(y, ckpt.seq)
      BY <1>4, <2>1 DEF Matches, Stale
    <3> QED BY <3>1, <3>2, <3>3
  <2>3. run' \in RunStatus /\ (Clean' => Clean) /\ RunKept
    BY <1>6, <1>9 DEF Clean, RunKept
  <2> QED BY <1>1, <1>2, <1>5, <1>6, <1>9, <2>1, <2>2, <2>3, Finishes
<1>10. ASSUME NEW a \in 1..Len(acts), UNCHANGED <<run, saved, ckpt, upset>>,
              Go(w, "policy", [s EXCEPT
                             !.iter = IF @ > acts[a].iter THEN @ ELSE acts[a].iter,
                             !.act = a, !.step = a])
       PROVE  IndInv'
  <2>0. acts[a] \in ActRow
    BY <1>2
  <2>1. acts[a].iter \in Nat /\ a \in Nat
    BY <1>2, <2>0 DEF ActRow
  <2>6. PICK j \in Nat : j = IF s.iter > acts[a].iter THEN s.iter ELSE acts[a].iter
    BY <2>1 DEF Loose
  <2>7. PICK x : x = [s EXCEPT !.iter = j, !.act = a, !.step = a]
    OBVIOUS
  <2>8. /\ x \in Loose /\ x.act = a /\ x.step = a /\ x.approved = s.approved
        /\ x.seen = s.seen /\ x.appr = s.appr /\ x.seq = s.seq
    BY <2>1, <2>7 DEF Loose
  <2>2. /\ x = [s EXCEPT !.iter = IF @ > acts[a].iter THEN @ ELSE acts[a].iter,
                         !.act = a, !.step = a]
        /\ x.act = a /\ x.step = a /\ x.approved = s.approved
        /\ x.seen = s.seen /\ x.appr = s.appr /\ x.seq = s.seq
    BY <2>6, <2>7, <2>8
  <2>3. Refers(x, acts, appr, ckpt.seq) /\ (Clean => Sound(x, acts, appr))
    <3>1. Refers(x, acts, appr, ckpt.seq)
      BY <1>2, <1>4, <2>2 DEF Refers
    <3>2. Clean => Sound(x, acts, appr)
      BY <1>4, <2>2 DEF Sound
    <3> QED BY <3>1, <3>2
  <2>4. /\ at' = [at EXCEPT ![w] = "policy"] /\ st' = [st EXCEPT ![w] = x]
        /\ UNCHANGED via /\ "policy" \in Nodes /\ x.act > 0 /\ x.step \in {0, x.act}
    BY <1>10, <2>1, <2>2 DEF Go, Nodes
  <2>5. run' \in RunStatus /\ (Clean' => Clean) /\ RunKept
    BY <1>6, <1>10 DEF Clean, RunKept
  <2> QED BY <1>1, <1>2, <1>5, <1>6, <1>10, <2>3, <2>4, <2>5, <2>8, Continues
<1>11. CASE Go(w, "decide", s) /\ UNCHANGED <<run, saved, ckpt, upset>>
  <2>1. /\ at' = [at EXCEPT ![w] = "decide"] /\ st' = [st EXCEPT ![w] = s]
        /\ UNCHANGED via /\ "decide" \in Nodes
    BY <1>11 DEF Go, Nodes
  <2>2. run' \in RunStatus /\ (Clean' => Clean) /\ RunKept
    BY <1>6, <1>11 DEF Clean, RunKept
  <2> QED BY <1>1, <1>2, <1>4, <1>5, <1>6, <1>11, <2>1, <2>2, Continues DEF Holding
<1> QED
  <2>1. \A a \in Oldest({b \in DOMAIN acts' : acts'[b].status = "pending"}) : a \in 1..Len(acts)
    <3>1. DOMAIN acts' = 1..Len(acts)
      BY <1>5
    <3> QED BY <3>1 DEF Oldest
  <2> QED BY <1>0, <1>3, <1>7, <1>8, <1>9, <1>10, <1>11, <2>1 DEF known


\* A node that saves the state, as _save_state does, and ends or raises.
LEMMA KeptRows ==
    ASSUME IndInv, NEW w \in Executors,
           at[w] \notin {"policy", "observe", "resume", "resumed"}
    PROVE  \E y \in Loose :
              /\ y = Kept(st[w], run) /\ Refers(y, acts, appr, ckpt.seq)
              /\ y.act = st[w].act /\ y.step \in {0, st[w].step}
              /\ Clean => /\ Sound(y, acts, appr)
                          /\ Matches(y, acts, appr) \/ Stale(y, ckpt.seq)
<1>1. PICK y \in Loose : y = Kept(st[w], run) /\ y.act = st[w].act /\ y.approved = st[w].approved
         /\ y.seen = st[w].seen /\ y.seq = st[w].seq /\ y.step \in {0, st[w].step}
         /\ y.appr \in {0, st[w].appr}
  BY Brings, KeptState DEF IndInv, RowTypes
<1>2. Refers(y, acts, appr, ckpt.seq)
  BY <1>1, Brings, Lengths DEF IndInv, Refers
<1>3. Clean => Sound(y, acts, appr)
  BY <1>1, Brings DEF Sound
<1>4. Clean => Matches(y, acts, appr) \/ Stale(y, ckpt.seq)
  BY <1>1, Brings DEF Matches, Stale
<1> QED BY <1>1, <1>2, <1>3, <1>4

LEMMA PauseKeeps ==
    ASSUME Settings, IndInv, NEW w \in Executors, Pause(w)
    PROVE  IndInv'
<1>1. PICK x : x = st[w]
  OBVIOUS
<1>2. /\ at[w] = "pause" /\ at' = [at EXCEPT ![w] = "park"] /\ st' = [st EXCEPT ![w] = x]
      /\ UNCHANGED <<via, ckpt, jobs, effects, acts, appr, saved>>
      /\ run' \in RunStatus /\ (Clean' => Clean) /\ RunKept /\ "park" \in Nodes
  BY <1>1 DEF Pause, Go, rows, tally, SetRun, RunStatus, Overwritten, Clean, RunKept, Nodes
<1> QED BY <1>1, <1>2, Brings, Continues DEF Holding

LEMMA ParkKeeps ==
    ASSUME Settings, IndInv, NEW w \in Executors, Park(w)
    PROVE  IndInv'
<1>1. /\ at[w] = "park" /\ End(w) /\ UNCHANGED <<run, ckpt, jobs, effects, acts, appr, upset>>
      /\ saved' = Kept(st[w], run)
  BY DEF Park, history, tally
<1>2. run' \in RunStatus /\ (Clean' => Clean) /\ RunKept
  BY <1>1, Brings DEF Clean, RunKept
<1>3. \E y \in Loose :
        /\ saved' = y /\ Refers(y, acts, appr, ckpt.seq)
        /\ Clean => /\ Sound(y, acts, appr)
                    /\ Matches(y, acts, appr) \/ Stale(y, ckpt.seq)
  BY <1>1, KeptRows
<1> QED BY <1>1, <1>2, <1>3, Brings, Finishes

\* The same for a state that is saved as it is.
LEMMA SavesAndFinishes ==
    ASSUME Settings, IndInv, NEW w \in Executors, End(w) \/ Raise(w),
           at[w] \notin {"policy", "observe", "resume", "resumed"},
           saved' = st[w], UNCHANGED <<ckpt, jobs, effects, appr>>,
           Clean' => Clean, RunKept, run' \in RunStatus,
           acts' \in Seq(ActRow), Len(acts') = Len(acts), Grown(acts, acts')
    PROVE  IndInv'
<1>1. \E y \in Loose :
        /\ saved' = y /\ Refers(y, acts, appr, ckpt.seq)
        /\ Clean => /\ Sound(y, acts, appr)
                    /\ Matches(y, acts, appr) \/ Stale(y, ckpt.seq)
  BY Brings
<1> QED BY <1>1, Brings, Finishes

\* The status of an action changes, and the thread goes on or keeps its state.
LEMMA StatusRows ==
    ASSUME IndInv, NEW a \in 1..Len(acts), NEW x \in ActStatus,
           acts' = [acts EXCEPT ![a].status = x]
    PROVE  acts' \in Seq(ActRow) /\ Len(acts') = Len(acts) /\ Grown(acts, acts')
<1>1. acts \in Seq(ActRow) /\ Len(acts) \in Nat
  BY Lengths DEF IndInv, RowTypes
<1> QED BY <1>1, StatusSet DEF Grown

LEMMA ActKeeps ==
    ASSUME Settings, IndInv, NEW w \in Executors, Act(w)
    PROVE  IndInv'
<1>1. at[w] = "act" /\ st[w].act \in 1..Len(acts) /\ st[w].step \in {0, st[w].act}
  BY Brings DEF Act, Holding
<1>2. CASE Stopped(w)
  BY <1>1, <1>2, StopKeeps DEF Stopped
<1>3. CASE /\ acts' = [acts EXCEPT ![st[w].act].status = "running"]
           /\ Go(w, "acting", st[w])
           /\ UNCHANGED <<run, saved, ckpt, appr, msg, jobs, history>>
  <2>1. PICK x : x = st[w]
    OBVIOUS
  <2>2. acts' \in Seq(ActRow) /\ Len(acts') = Len(acts) /\ Grown(acts, acts')
    BY <1>1, <1>3, StatusRows DEF ActStatus
  <2>3. /\ at' = [at EXCEPT ![w] = "acting"] /\ st' = [st EXCEPT ![w] = x]
        /\ UNCHANGED <<via, ckpt, jobs, effects, appr, saved, run, upset>>
        /\ (Clean' => Clean) /\ RunKept /\ "acting" \in Nodes
    BY <1>3, <2>1 DEF Go, history, tally, Clean, RunKept, Nodes
  <2>4. x.act > 0 /\ x.step \in {0, x.act} /\ x.act <= Len(acts) /\ x \in Loose
    BY <1>1, <2>1, Brings
  <2>5. Clean /\ acts[x.act].gated => x.act \in x.approved
    BY <1>1, <2>1, Brings
  <2>6. /\ Refers(x, acts, appr, ckpt.seq)
        /\ Clean => /\ Sound(x, acts, appr)
                    /\ Matches(x, acts, appr) \/ Stale(x, ckpt.seq)
    BY <1>1, <2>1, Brings
  <2> QED BY <2>2, <2>3, <2>4, <2>5, <2>6, Brings, Continues
<1>4. CASE /\ SetRun("waiting") /\ saved' = st[w] /\ End(w)
           /\ UNCHANGED <<ckpt, acts, appr, msg, jobs, tally, trouble>>
  <2>1. run' \in RunStatus /\ (Clean' => Clean) /\ RunKept /\ UNCHANGED <<ckpt, jobs, effects, appr, acts>>
    BY <1>4 DEF SetRun, RunStatus, Overwritten, Clean, RunKept, tally
  <2> QED BY <1>1, <1>4, <2>1, Brings, SavesAndFinishes
<1>5. CASE End(w) /\ UNCHANGED <<run, rows, history>>
  BY <1>5, Gone DEF history, tally
<1> QED BY <1>2, <1>3, <1>4, <1>5 DEF Act

LEMMA ResultState ==
    \A s \in Loose, o \in {"ok", "raw", "error", "reconnect", "approval"} : \E x \in Loose :
       /\ x = [s EXCEPT !.out = o]
       /\ x.act = s.act /\ x.step = s.step /\ x.approved = s.approved
       /\ x.seen = s.seen /\ x.appr = s.appr /\ x.seq = s.seq
<1> TAKE s \in Loose, o \in {"ok", "raw", "error", "reconnect", "approval"}
<1> DEFINE x == [s EXCEPT !.out = o]
<1>1. /\ x \in Loose /\ x.act = s.act /\ x.step = s.step /\ x.approved = s.approved
      /\ x.seen = s.seen /\ x.appr = s.appr /\ x.seq = s.seq
  BY DEF Loose
<1> QED BY <1>1

\* The tool is called: the action is among the approved ones of a sound state.
LEMMA ActingKeeps ==
    ASSUME Settings, IndInv, NEW w \in Executors, Acting(w)
    PROVE  IndInv'
<1>1. /\ at[w] = "acting" /\ st[w].act \in 1..Len(acts) /\ st[w].step \in {0, st[w].act}
      /\ st[w] \in Loose
  BY Brings DEF Acting, Holding
<1>2. CASE Stopped(w)
  BY <1>1, <1>2, StopKeeps DEF Stopped
<1>3. ASSUME NEW o \in {"ok", "raw", "error", "reconnect", "approval"},
             effects' = [effects EXCEPT ![st[w].act] = @ + 1],
             Go(w, "commit", [st[w] EXCEPT !.out = o]),
             UNCHANGED <<run, rows, finals, asked, lost, upset, trouble>>
      PROVE  IndInv'
  <2>1. PICK x \in Loose :
           /\ x = [st[w] EXCEPT !.out = o]
           /\ x.act = st[w].act /\ x.step = st[w].step /\ x.approved = st[w].approved
           /\ x.seen = st[w].seen /\ x.appr = st[w].appr /\ x.seq = st[w].seq
    BY <1>1, ResultState
  <2>2. /\ at' = [at EXCEPT ![w] = "commit"] /\ st' = [st EXCEPT ![w] = x]
        /\ UNCHANGED <<via, ckpt, jobs, acts, appr, saved, run, upset>>
        /\ (Clean' => Clean) /\ RunKept /\ "commit" \in Nodes
    BY <1>3, <2>1 DEF Go, rows, Clean, RunKept, Nodes
  <2>3. PICK a \in ActionIds : a = st[w].act
    <3>1. Len(acts) \in Nat /\ Len(acts) <= MaxActions
      BY Lengths, Brings DEF IndInv
    <3> QED BY <1>1, <3>1 DEF ActionIds, Settings
  <2>4. /\ effects' \in [ActionIds -> Nat] /\ effects' = [effects EXCEPT ![a] = @ + 1]
        /\ \A b \in ActionIds : effects'[b] > 0 => b = a \/ effects[b] > 0
    <3>1. effects' = [effects EXCEPT ![a] = @ + 1] /\ effects \in [ActionIds -> Nat]
      BY <1>3, <2>3 DEF IndInv, RowTypes
    <3> QED BY <3>1
  <2>5. RowTypes'
    BY <1>1, <2>2, <2>3, <2>4 DEF IndInv, RowTypes, ActionIds
  <2>6. Grows /\ jobs' \in [1..MaxTries -> Nat] /\ via' \in [Executors -> 0..MaxTries]
    BY <2>2, SameRows DEF IndInv, ThreadTypes
  <2>7. ThreadOK(x, "commit")' /\ (Clean' => ThreadGuarded(x, "commit")')
    <3>1. ThreadOK(x, "commit")
      BY <1>1, <2>1, Brings DEF ThreadOK, Refers
    <3>2. Clean => ThreadGuarded(x, "commit")
      <4>1. Clean => Sound(st[w], acts, appr) /\ (Matches(st[w], acts, appr) \/ Stale(st[w], ckpt.seq))
        BY <1>1, Brings DEF ThreadGuarded
      <4>2. Clean => Sound(x, acts, appr) /\ (Matches(x, acts, appr) \/ Stale(x, ckpt.seq))
        BY <2>1, <4>1 DEF Sound, Matches, Stale
      <4>3. Clean /\ acts[x.act].gated => x.act \in x.approved
        BY <1>1, <2>1, Brings
      <4> QED BY <4>2, <4>3 DEF ThreadGuarded
    <3> QED BY <3>1, <3>2, <2>2 DEF ThreadOK, ThreadGuarded
  <2>8. Clean' => ApprovedBeforeEffect'
    <3> SUFFICES ASSUME Clean, NEW b \in 1..Len(acts), acts[b].gated, effects'[b] > 0
                 PROVE  \E p \in 1..Len(appr) : appr[p].step = b /\ appr[p].status = "approved"
      BY <2>2, Lengths DEF ApprovedBeforeEffect, IndInv
    <3>1. CASE b = a
      BY <1>1, <2>3, <3>1, Brings DEF Sound
    <3>2. CASE b /= a
      <4>1. b \in ActionIds
        BY Brings, Lengths DEF ActionIds, IndInv, Settings
      <4> QED BY <2>4, <3>2, <4>1, Lengths DEF IndInv, Guarded, ApprovedBeforeEffect
    <3> QED BY <3>1, <3>2
  <2> QED BY <2>2, <2>5, <2>6, <2>7, <2>8, OneMoves
<1> QED BY <1>2, <1>3 DEF Acting, rows

\* The observation and its checkpoint: the log may take over a state it had
\* left behind, whose action was approved and is the only step it can name.
LEMMA CommitKeeps ==
    ASSUME Settings, IndInv, NEW w \in Executors, Commit(w)
    PROVE  IndInv'
<1>1. /\ at[w] = "commit" /\ st[w].act \in 1..Len(acts) /\ st[w].step \in {0, st[w].act}
      /\ st[w] \in Loose
  BY Brings DEF Commit, Holding
<1>2. CASE Stopped(w)
  BY <1>1, <1>2, StopKeeps DEF Stopped
<1>3. CASE saved' = st[w] /\ Raise(w) /\ UNCHANGED <<run, ckpt, acts, appr, msg, jobs, history>>
  <2>1. /\ UNCHANGED <<ckpt, jobs, effects, appr, acts>> /\ (Clean' => Clean) /\ RunKept
        /\ run' \in RunStatus
    BY <1>3, Brings DEF history, tally, Clean, RunKept
  <2> QED BY <1>1, <1>3, <2>1, Brings, SavesAndFinishes
<1>4. ASSUME NEW s, s = [st[w] EXCEPT !.seen = @ \cup {st[w].act}, !.seq = ckpt.seq + 1],
             acts' = [acts EXCEPT ![st[w].act].status = IF Good(s) THEN "succeeded" ELSE "failed"],
             ckpt' = [seq |-> s.seq, state |-> s], Go(w, "record", s),
             UNCHANGED <<run, saved, appr, msg, jobs, history>>
      PROVE  IndInv'
  <2>0. ckpt.seq \in Nat /\ Len(acts) \in Nat /\ Len(appr) \in Nat /\ {st[w].act} \in SUBSET Nat
    BY <1>1, Lengths DEF IndInv, Loose
  <2>1. PICK n \in Nat : n = ckpt.seq + 1
    BY <2>0
  <2>13. PICK K \in SUBSET Nat : K = {st[w].act}
    BY <2>0
  <2>14. PICK x : x = [st[w] EXCEPT !.seen = @ \cup K, !.seq = n]
    OBVIOUS
  <2>2. /\ x \in Loose
        /\ x.act = st[w].act /\ x.step = st[w].step /\ x.approved = st[w].approved
        /\ x.seen = st[w].seen \cup {st[w].act} /\ x.appr = st[w].appr /\ x.seq = n
    <3>1. st[w] \in Loose
      BY <1>1
    <3>2. /\ x \in Loose
          /\ x.act = st[w].act /\ x.step = st[w].step /\ x.approved = st[w].approved
          /\ x.seen = st[w].seen \cup K /\ x.appr = st[w].appr /\ x.seq = n
      <4>1. st[w].seen \cup K \in SUBSET Nat
        BY <3>1 DEF Loose
      <4> QED BY <2>14, <3>1, <4>1 DEF Loose
    <3> QED BY <2>13, <3>2
  <2>3. x = s
    BY <1>4, <2>1, <2>13, <2>14
  <2>4. /\ UNCHANGED <<run, saved, appr, jobs, effects, via>> /\ (Clean' => Clean) /\ RunKept
        /\ at' = [at EXCEPT ![w] = "record"] /\ st' = [st EXCEPT ![w] = x] /\ "record" \in Nodes
        /\ ckpt' = [seq |-> n, state |-> x]
    BY <1>4, <2>2, <2>3 DEF Go, history, tally, Clean, RunKept, Nodes
  <2>5. acts' \in Seq(ActRow) /\ Len(acts') = Len(acts) /\ Grown(acts, acts')
    <3>1. PICK v \in ActStatus : v = IF Good(s) THEN "succeeded" ELSE "failed"
      BY DEF ActStatus
    <3> QED BY <1>1, <1>4, <3>1, StatusRows
  <2>6. RowTypes'
    BY <2>1, <2>2, <2>4, <2>5 DEF IndInv, RowTypes
  <2>7. Grows
    BY <2>0, <2>1, <2>4, <2>5 DEF Grows, Carried
  <2>8. jobs' \in [1..MaxTries -> Nat] /\ via' \in [Executors -> 0..MaxTries]
    BY <2>4 DEF IndInv, ThreadTypes
  <2>9. Refers(x, acts', appr', ckpt'.seq)
    <3>1. Refers(st[w], acts, appr, ckpt.seq)
      BY Brings
    <3>2. x.seen \subseteq 1..Len(acts)
      BY <1>1, <2>2, <3>1 DEF Refers
    <3> QED BY <2>0, <2>1, <2>2, <2>4, <2>5, <3>1, <3>2 DEF Refers
  <2>10. Clean' => /\ Sound(x, acts', appr') /\ Matches(x, acts', appr')
    <3> SUFFICES ASSUME Clean PROVE Sound(x, acts', appr') /\ Matches(x, acts', appr')
      BY <2>4
    <3>1. Sound(st[w], acts', appr')
      BY <1>1, <2>6, <2>7, Brings, StatesKeep DEF IndInv
    <3>2. Sound(x, acts', appr')
      BY <2>2, <3>1 DEF Sound
    <3>3. x.step = 0 \/ ~acts'[x.step].gated \/ x.step \in x.approved
      <4>1. acts'[st[w].act].gated = acts[st[w].act].gated
        BY <1>1, <2>5 DEF Grown
      <4> QED BY <1>1, <2>2, <4>1, Brings
    <3> QED BY <3>2, <3>3 DEF Matches
  <2>11. Refers(ckpt.state, acts, appr, ckpt.seq)' /\ (Clean' => LogGuarded(ckpt.state)')
    BY <2>4, <2>9, <2>10 DEF LogGuarded
  <2>12. ThreadOK(x, "record")' /\ (Clean' => ThreadGuarded(x, "record")')
    <3>1. x.act > 0 /\ x.step \in {0, x.act}
      BY <1>1, <2>2
    <3> QED BY <2>9, <2>10, <3>1 DEF ThreadOK, ThreadGuarded
  <2> QED BY <2>2, <2>4, <2>6, <2>7, <2>8, <2>11, <2>12, OneMoves
<1> QED BY <1>2, <1>3, <1>4 DEF Commit

LEMMA RecordKeeps ==
    ASSUME Settings, IndInv, NEW w \in Executors, Record(w)
    PROVE  IndInv'
<1>1. /\ at[w] = "record" /\ st[w].act \in 1..Len(acts) /\ st[w].step \in {0, st[w].act}
      /\ UNCHANGED <<run, ckpt, jobs, effects, acts, appr, upset>>
      /\ saved' = Kept(st[w], run) /\ Go(w, "observe_result", Kept(st[w], run))
  BY Brings DEF Record, Holding, history, tally
<1>2. PICK y \in Loose :
              /\ y = Kept(st[w], run) /\ Refers(y, acts, appr, ckpt.seq)
              /\ y.act = st[w].act /\ y.step \in {0, st[w].step}
              /\ Clean => /\ Sound(y, acts, appr)
                          /\ Matches(y, acts, appr) \/ Stale(y, ckpt.seq)
  BY <1>1, KeptRows
<1>3. /\ run' \in RunStatus /\ (Clean' => Clean) /\ RunKept
      /\ at' = [at EXCEPT ![w] = "observe_result"] /\ st' = [st EXCEPT ![w] = y]
      /\ UNCHANGED via /\ "observe_result" \in Nodes /\ saved' = y
      /\ y.act > 0 /\ y.step \in {0, y.act}
  BY <1>1, <1>2, Brings DEF Clean, RunKept, Go, Nodes
<1> QED BY <1>1, <1>2, <1>3, Brings, Continues

LEMMA ObserveResultKeeps ==
    ASSUME Settings, IndInv, NEW w \in Executors, ObserveResult(w)
    PROVE  IndInv'
<1>1. /\ at[w] = "observe_result" /\ st[w] \in Loose
      /\ st[w].act \in 1..Len(acts) /\ st[w].step \in {0, st[w].act}
  BY Brings DEF ObserveResult, Holding
<1>2. CASE Stopped(w)
  BY <1>1, <1>2, StopKeeps DEF Stopped
<1>3. ASSUME NEW node \in {"decide", "complete", "repair", "fail"},
             Go(w, node, st[w]), UNCHANGED <<run, rows, history>>
      PROVE  IndInv'
  BY <1>1, <1>3, GoesOn DEF Nodes, Holding, history, tally
<1>4. CASE /\ acts' = [acts EXCEPT ![st[w].act].status = "uncertain"]
           /\ SetRun("waiting") /\ saved' = st[w] /\ End(w)
           /\ UNCHANGED <<ckpt, appr, msg, jobs, tally, trouble>>
  <2>1. acts' \in Seq(ActRow) /\ Len(acts') = Len(acts) /\ Grown(acts, acts')
    BY <1>1, <1>4, StatusRows DEF ActStatus
  <2>2. run' \in RunStatus /\ (Clean' => Clean) /\ RunKept /\ UNCHANGED <<ckpt, jobs, effects, appr>>
    BY <1>4 DEF SetRun, RunStatus, Overwritten, Clean, RunKept, tally
  <2> QED BY <1>1, <1>4, <2>1, <2>2, SavesAndFinishes
<1>5. CASE /\ AskFor(st[w].act)
           /\ Go(w, "pause", [st[w] EXCEPT !.appr = Len(appr) + 1])
           /\ UNCHANGED <<run, saved, ckpt, acts, msg, jobs, history>>
  <2>1. Len(appr) + 1 \in Nat /\ st[w].act \in Nat
    BY <1>1, Lengths DEF IndInv, Loose
  <2>2. PICK x \in Loose :
            /\ x = [st[w] EXCEPT !.appr = Len(appr) + 1]
            /\ x.act = st[w].act /\ x.step = st[w].step /\ x.approved = st[w].approved
            /\ x.seen = st[w].seen /\ x.appr = Len(appr) + 1 /\ x.seq = st[w].seq
    BY <1>1, <2>1, AskedState
  <2> QED BY <1>1, <1>5, <2>1, <2>2, AskKeeps DEF history, tally
<1>6. ASSUME st[w].out \in {"ok", "raw", "error"},
             Go(w, CASE st[w].out = "ok" -> "decide"
                     [] st[w].out = "raw" -> "complete"
                     [] OTHER -> "repair", st[w]),
             UNCHANGED <<run, rows, history>>
      PROVE  IndInv'
  BY <1>3, <1>6
<1> QED BY <1>2, <1>3, <1>4, <1>5, <1>6 DEF ObserveResult

LEMMA VerifyKeeps ==
    ASSUME Settings, IndInv, NEW w \in Executors, Verify(w)
    PROVE  IndInv'
<1>1. at[w] = "verify"
  BY DEF Verify
<1>2. CASE NoEdge(w)
  BY <1>1, <1>2, StopKeeps DEF NoEdge
<1>3. CASE Go(w, "verifying", st[w]) /\ UNCHANGED <<run, rows, history>>
  BY <1>1, <1>3, GoesOn DEF Nodes, Holding, history, tally
<1> QED BY <1>2, <1>3 DEF Verify

LEMMA VerifyingKeeps ==
    ASSUME Settings, IndInv, NEW w \in Executors, Verifying(w)
    PROVE  IndInv'
<1>1. at[w] = "verifying"
  BY DEF Verifying
<1>2. CASE NoEdge(w)
  BY <1>1, <1>2, StopKeeps DEF NoEdge
<1>3. ASSUME NEW node \in {"complete", "repair", "replan", "wait_user", "fail"},
             Go(w, node, st[w]), UNCHANGED <<run, rows, history>>
      PROVE  IndInv'
  BY <1>1, <1>3, GoesOn DEF Nodes, Holding, history, tally
<1>4. CASE FailNow(w, st[w], TRUE)
  BY <1>1, <1>4, Brings, FailNowKeeps
<1>5. CASE Raise(w) /\ UNCHANGED <<run, rows, history>>
  BY <1>5, Gone DEF history, tally
<1> QED BY <1>2, <1>3, <1>4, <1>5 DEF Verifying

LEMMA RepairedState ==
    \A s \in Loose : \E x \in Loose :
       /\ x = [s EXCEPT !.repairs = @ + 1]
       /\ x.act = s.act /\ x.step = s.step /\ x.approved = s.approved
       /\ x.seen = s.seen /\ x.appr = s.appr /\ x.seq = s.seq
<1> TAKE s \in Loose
<1> DEFINE x == [s EXCEPT !.repairs = @ + 1]
<1>1. s.repairs + 1 \in Nat
  BY DEF Loose
<1>2. /\ x \in Loose /\ x.act = s.act /\ x.step = s.step /\ x.approved = s.approved
      /\ x.seen = s.seen /\ x.appr = s.appr /\ x.seq = s.seq
  BY <1>1 DEF Loose
<1> QED BY <1>2

LEMMA RepairKeeps ==
    ASSUME Settings, IndInv, NEW w \in Executors, Repair(w)
    PROVE  IndInv'
<1>1. at[w] = "repair"
  BY DEF Repair
<1>2. CASE NoEdge(w)
  BY <1>1, <1>2, StopKeeps DEF NoEdge
<1>3. PICK x \in Loose :
         /\ x = [st[w] EXCEPT !.repairs = @ + 1]
         /\ x.act = st[w].act /\ x.step = st[w].step /\ x.approved = st[w].approved
         /\ x.seen = st[w].seen /\ x.appr = st[w].appr /\ x.seq = st[w].seq
  BY Brings, RepairedState
<1>4. ASSUME NEW node \in {"fail", "decide"}, Checkpoint(w, x, node),
             UNCHANGED <<run, acts, appr, msg, jobs, tally, trouble>>
      PROVE  IndInv'
  <2>1. Refers(x, acts, appr, ckpt.seq)
    BY <1>3, Brings DEF Refers
  <2>2. Clean => Sound(x, acts, appr) /\ (Matches(x, acts, appr) \/ Stale(x, ckpt.seq))
    <3>1. Clean => Sound(x, acts, appr)
      BY <1>1, <1>3, Brings DEF Sound
    <3>2. Clean => Matches(x, acts, appr) \/ Stale(x, ckpt.seq)
      BY <1>1, <1>3, Brings DEF Matches, Stale
    <3> QED BY <3>1, <3>2
  <2>3. /\ acts' \in Seq(ActRow) /\ Grown(acts, acts') /\ Len(acts') = Len(acts)
        /\ UNCHANGED <<run, appr, jobs, effects>>
    BY <1>4, Brings DEF tally
  <2> QED BY <1>4, <2>1, <2>2, <2>3, CheckpointKeeps DEF Nodes, Holding
<1>5. CASE /\ Checkpoint(w, x, IF x.repairs > MaxRepairs THEN "fail" ELSE "decide")
           /\ UNCHANGED <<run, acts, appr, msg, jobs, tally, trouble>>
  BY <1>4, <1>5
<1> QED BY <1>2, <1>3, <1>5 DEF Repair

LEMMA ReplanKeeps ==
    ASSUME Settings, IndInv, NEW w \in Executors, Replan(w)
    PROVE  IndInv'
<1>1. at[w] = "replan"
  BY DEF Replan
<1>2. CASE StopWrites(w) /\ Go(w, "decide", Kept(st[w], run))
  BY <1>1, <1>2, StopKeeps
<1>3. CASE Checkpoint(w, st[w], "decide") /\ UNCHANGED <<run, acts, appr, msg, jobs, tally, trouble>>
  <2>1. PICK x \in Loose : x = st[w]
    BY Brings
  <2>2. /\ Refers(x, acts, appr, ckpt.seq)
        /\ Clean => Sound(x, acts, appr) /\ (Matches(x, acts, appr) \/ Stale(x, ckpt.seq))
    BY <1>1, <2>1, Brings
  <2>3. /\ acts' \in Seq(ActRow) /\ Grown(acts, acts') /\ Len(acts') = Len(acts)
        /\ UNCHANGED <<run, appr, jobs, effects>>
    BY <1>3, Brings DEF tally
  <2> QED BY <1>3, <2>1, <2>2, <2>3, CheckpointKeeps DEF Nodes, Holding
<1> QED BY <1>2, <1>3 DEF Replan

LEMMA CompleteKeeps ==
    ASSUME Settings, IndInv, NEW w \in Executors, Complete(w)
    PROVE  IndInv'
<1>1. at[w] = "complete"
  BY DEF Complete
<1>2. CASE Stopped(w)
  BY <1>1, <1>2, StopKeeps DEF Stopped
<1>3. CASE Go(w, "finalizing", st[w]) /\ UNCHANGED <<run, rows, history>>
  BY <1>1, <1>3, GoesOn DEF Nodes, Holding, history, tally
<1> QED BY <1>2, <1>3 DEF Complete

LEMMA FinalState ==
    \A s \in Loose : \E x \in Loose :
       /\ x = [s EXCEPT !.step = 0, !.emitted = TRUE]
       /\ x.act = s.act /\ x.step = 0 /\ x.approved = s.approved
       /\ x.seen = s.seen /\ x.appr = s.appr /\ x.seq = s.seq
<1> TAKE s \in Loose
<1> DEFINE x == [s EXCEPT !.step = 0, !.emitted = TRUE]
<1>1. /\ x \in Loose /\ x.act = s.act /\ x.step = 0 /\ x.approved = s.approved
      /\ x.seen = s.seen /\ x.appr = s.appr /\ x.seq = s.seq
  BY DEF Loose
<1> QED BY <1>1

LEMMA FinalizeKeeps ==
    ASSUME Settings, IndInv, NEW w \in Executors, Finalize(w)
    PROVE  IndInv'
<1>1. /\ at[w] = "finalizing" /\ st[w] \in Loose /\ End(w)
      /\ UNCHANGED <<ckpt, jobs, effects, acts, appr>>
  BY Brings DEF Finalize
<1>2. run' \in RunStatus /\ (Clean' => Clean) /\ RunKept
  BY Brings DEF Finalize, RunStatus, Terminal, Clean, RunKept
<1>3. CASE saved' = Kept(st[w], run)
  <2>1. \E y \in Loose :
          /\ saved' = y /\ Refers(y, acts, appr, ckpt.seq)
          /\ Clean => /\ Sound(y, acts, appr)
                      /\ Matches(y, acts, appr) \/ Stale(y, ckpt.seq)
    BY <1>1, <1>3, KeptRows
  <2> QED BY <1>1, <1>2, <2>1, Brings, Finishes
<1>4. CASE saved' = [st[w] EXCEPT !.step = 0, !.emitted = TRUE]
  <2>1. PICK x \in Loose :
           /\ x = [st[w] EXCEPT !.step = 0, !.emitted = TRUE]
           /\ x.act = st[w].act /\ x.step = 0 /\ x.approved = st[w].approved
           /\ x.seen = st[w].seen /\ x.appr = st[w].appr /\ x.seq = st[w].seq
    BY <1>1, FinalState
  <2>2. Refers(x, acts, appr, ckpt.seq)
    BY <2>1, Brings, Lengths DEF Refers, IndInv
  <2>3. (Clean => Sound(x, acts, appr)) /\ Matches(x, acts, appr)
    BY <1>1, <2>1, Brings DEF Sound, Matches
  <2>4. saved' = x
    BY <1>4, <2>1
  <2>5. \E y \in Loose :
          /\ saved' = y /\ Refers(y, acts, appr, ckpt.seq)
          /\ Clean => /\ Sound(y, acts, appr)
                      /\ Matches(y, acts, appr) \/ Stale(y, ckpt.seq)
    BY <2>2, <2>3, <2>4
  <2> QED BY <1>1, <1>2, <2>5, Brings, Finishes
<1> QED BY <1>3, <1>4 DEF Finalize

LEMMA WaitUserKeeps ==
    ASSUME Settings, IndInv, NEW w \in Executors, WaitUser(w)
    PROVE  IndInv'
<1>1. at[w] = "wait_user" /\ st[w] \in Loose /\ Refers(st[w], acts, appr, ckpt.seq)
  BY Brings DEF WaitUser
<1>2. CASE Stopped(w)
  BY <1>1, <1>2, StopKeeps DEF Stopped
<1>3. CASE /\ run' = "waiting" /\ Fits(st[w])
           /\ ckpt' = [seq |-> Number(st[w]), state |-> Numbered(st[w])]
           /\ saved' = Numbered(st[w]) /\ End(w)
           /\ upset' = upset \cup Overwritten
           /\ UNCHANGED <<acts, appr, jobs, tally, trouble>>
  <2>1. PICK k \in Loose :
           /\ k = Numbered(st[w]) /\ k.seq = ckpt.seq + 1 /\ Number(st[w]) = k.seq
           /\ k.act = st[w].act /\ k.approved = st[w].approved /\ k.seen = st[w].seen
           /\ k.step = st[w].step /\ k.appr = st[w].appr /\ ~Stale(st[w], ckpt.seq)
    BY <1>1, <1>3, NumberedState DEF IndInv, RowTypes, Refers
  <2>2. /\ ckpt' = [seq |-> k.seq, state |-> k] /\ saved' = k
        /\ UNCHANGED <<acts, appr, jobs, effects>>
        /\ (Clean' => Clean) /\ RunKept /\ run' = "waiting"
    BY <1>3, <2>1 DEF tally, Overwritten, Clean, RunKept
  <2>3. k.seq \in Nat /\ ckpt.seq \in Nat /\ ckpt.seq <= k.seq
    BY <2>1, Lengths DEF IndInv
  <2>4. RowTypes'
    BY <2>1, <2>2, <2>3 DEF IndInv, RowTypes
  <2>5. Grows
    BY <2>2, <2>3, Lengths DEF IndInv, Grows, Grown, Carried
  <2>6. Refers(k, acts', appr', ckpt'.seq)
    BY <1>1, <2>1, <2>2, <2>3 DEF Refers
  <2>7. Clean' => Sound(k, acts', appr') /\ Matches(k, acts', appr')
    <3> SUFFICES ASSUME Clean PROVE Sound(k, acts, appr) /\ Matches(k, acts, appr)
      BY <2>2
    <3>1. Sound(st[w], acts, appr) /\ Matches(st[w], acts, appr)
      BY <1>1, <2>1, Brings
    <3> QED BY <2>1, <3>1 DEF Sound, Matches
  <2>8. Refers(saved, acts, appr, ckpt.seq)' /\ Refers(ckpt.state, acts, appr, ckpt.seq)'
    BY <2>2, <2>6
  <2>9. Clean' => SavedGuarded(saved)' /\ LogGuarded(ckpt.state)'
    BY <2>2, <2>7 DEF SavedGuarded, LogGuarded
  <2>10. PICK n \in {"off", "raised"} :
              /\ at' = [at EXCEPT ![w] = n] /\ st' = [st EXCEPT ![w] = Blank]
              /\ via' \in [Executors -> 0..MaxTries]
              /\ n \in Nodes \cup {"off"} /\ n \notin Holding
    BY <1>3, Leaves
  <2>11. jobs' \in [1..MaxTries -> Nat]
    BY <2>2 DEF IndInv, ThreadTypes
  <2> QED BY <2>2, <2>4, <2>5, <2>8, <2>9, <2>10, <2>11, NextBlank, OneMoves DEF Holding
<1>4. CASE /\ run' = "waiting" /\ Raise(w)
           /\ upset' = upset \cup {"number"} \cup Overwritten
           /\ UNCHANGED <<ckpt, saved, msg, acts, appr, jobs, tally, trouble>>
  <2>1. /\ run' \in RunStatus /\ (Clean' => Clean) /\ RunKept
        /\ UNCHANGED <<ckpt, jobs, effects, acts, appr, saved>>
    BY <1>4 DEF tally, RunStatus, Overwritten, Clean, RunKept
  <2> QED BY <1>4, <2>1, Brings, Finishes
<1> QED BY <1>2, <1>3, <1>4 DEF WaitUser

LEMMA FailKeeps ==
    ASSUME Settings, IndInv, NEW w \in Executors, Fail(w)
    PROVE  IndInv'
<1>1. CASE Stopped(w)
  BY <1>1, StopKeeps DEF Stopped, Fail
<1>2. CASE FailNow(w, st[w], FALSE)
  BY <1>2, Brings, FailNowKeeps DEF Fail
<1> QED BY <1>1, <1>2 DEF Fail

-----------------------------------------------------------------------------
(* The queue and the worker *)

\* What an execution starts from: the newer of row and log, which no request
\* for another step can name unless the run is over.
LEMMA LoadedState ==
    ASSUME Settings, IndInv
    PROVE  \E x \in Loose :
              /\ x = Restore(saved, ckpt) /\ Refers(x, acts, appr, ckpt.seq)
              /\ Clean => Sound(x, acts, appr)
              /\ Clean => Matches(x, acts, appr) \/ (run \in Terminal /\ x.seq > 0)
              /\ x.seq >= ckpt.seq
<1>1. PICK x \in Loose : x = Restore(saved, ckpt)
  BY RestoredState DEF IndInv, RowTypes
<1>2. saved \in Loose /\ saved.seq \in Nat /\ ckpt.seq \in Nat /\ Len(acts) \in Nat /\ Len(appr) \in Nat
  BY Lengths DEF IndInv, RowTypes, Loose
<1>3. \/ x = saved /\ saved.seq >= ckpt.seq
      \/ /\ x.act = ckpt.state.act /\ x.approved = ckpt.state.approved
         /\ x.seen = ckpt.state.seen /\ x.step = ckpt.state.step
         /\ x.appr = ckpt.state.appr /\ x.seq = ckpt.seq /\ saved.seq < ckpt.seq
  BY <1>1, <1>2, RestoredState DEF IndInv, RowTypes
<1>4. CASE x = saved /\ saved.seq >= ckpt.seq
  <2>1. ~Stale(saved, ckpt.seq)
    BY <1>2, <1>4 DEF Stale
  <2> QED BY <1>1, <1>4, <2>1 DEF IndInv, Guarded, SavedGuarded
<1>5. CASE /\ x.act = ckpt.state.act /\ x.approved = ckpt.state.approved
           /\ x.seen = ckpt.state.seen /\ x.step = ckpt.state.step
           /\ x.appr = ckpt.state.appr /\ x.seq = ckpt.seq /\ saved.seq < ckpt.seq
  <2>1. Refers(x, acts, appr, ckpt.seq)
    BY <1>2, <1>5 DEF IndInv, Refers
  <2>2. Clean => Sound(x, acts, appr)
    BY <1>5 DEF IndInv, Guarded, LogGuarded, Sound
  <2>3. Clean => Matches(x, acts, appr) \/ run \in Terminal
    BY <1>5 DEF IndInv, Guarded, LogGuarded, Matches
  <2>4. x.seq > 0 /\ x.seq >= ckpt.seq
    BY <1>2, <1>5
  <2> QED BY <1>1, <2>1, <2>2, <2>3, <2>4
<1> QED BY <1>3, <1>4, <1>5

LEMMA DispatchKeeps ==
    ASSUME Settings, IndInv, NEW w \in Executors, Dispatch(w)
    PROVE  IndInv'
<1>1. PICK x \in Loose :
         /\ x = Restore(saved, ckpt) /\ Refers(x, acts, appr, ckpt.seq)
         /\ Clean => Sound(x, acts, appr)
         /\ Clean => Matches(x, acts, appr) \/ (run \in Terminal /\ x.seq > 0)
         /\ x.seq >= ckpt.seq
  BY LoadedState
<1>2. /\ at' = [at EXCEPT ![w] = "observe"] /\ st' = [st EXCEPT ![w] = x] /\ "observe" \in Nodes
      /\ UNCHANGED <<run, saved, ckpt, acts, appr, effects>>
      /\ (Clean' => Clean) /\ RunKept
  BY <1>1 DEF Dispatch, Nodes, tally, Overlap, Clean, RunKept
<1>3. via' \in [Executors -> 0..MaxTries] /\ jobs' \in [1..MaxTries -> Nat]
  <2>1. PICK k \in 1..MaxTries : /\ jobs[k] > 0 /\ jobs' = [jobs EXCEPT ![k] = @ - 1]
                                 /\ via' = [via EXCEPT ![w] = k]
    BY DEF Dispatch
  <2>3. jobs \in [1..MaxTries -> Nat] /\ via \in [Executors -> 0..MaxTries]
    BY DEF IndInv, ThreadTypes
  <2>4. PICK v \in Nat : v = jobs[k]
    BY <2>3
  <2>2. v - 1 \in Nat /\ jobs' = [jobs EXCEPT ![k] = v - 1]
    BY <2>1, <2>4
  <2> QED BY <2>1, <2>2, <2>3 DEF Settings
<1>4. RowTypes' /\ Grows
  BY <1>2, SameRows DEF IndInv, RowTypes
<1>5. ThreadOK(x, "observe")' /\ (Clean' => ThreadGuarded(x, "observe")')
  BY <1>1, <1>2 DEF ThreadOK, ThreadGuarded, Holding
<1> QED BY <1>1, <1>2, <1>3, <1>4, <1>5, OneMoves

\* An execution ends and its job, the run's status or the history change.
LEMMA Drops ==
    ASSUME Settings, IndInv, NEW w \in Executors, End(w),
           UNCHANGED <<saved, ckpt, acts, appr, effects>>,
           jobs' \in [1..MaxTries -> Nat], run' \in RunStatus, RunKept, Clean' => Clean
    PROVE  IndInv'
<1>1. PICK n \in {"off", "raised"} :
              /\ at' = [at EXCEPT ![w] = n] /\ st' = [st EXCEPT ![w] = Blank]
              /\ via' \in [Executors -> 0..MaxTries]
              /\ n \in Nodes \cup {"off"} /\ n \notin Holding
  BY Leaves
<1>2. RowTypes' /\ Grows
  BY SameRows DEF IndInv, RowTypes, RunStatus
<1> QED BY <1>1, <1>2, NextBlank, OneMoves DEF Holding

LEMMA Requeued ==
    ASSUME Settings, IndInv, NEW w \in Executors, via[w] \in 1..(MaxTries - 1),
           jobs' = [jobs EXCEPT ![via[w] + 1] = @ + 1]
    PROVE  jobs' \in [1..MaxTries -> Nat]
<1>1. via[w] + 1 \in 1..MaxTries
  BY DEF Settings
<1>2. jobs[via[w] + 1] + 1 \in Nat /\ jobs \in [1..MaxTries -> Nat]
  BY <1>1 DEF IndInv, ThreadTypes
<1> QED BY <1>1, <1>2

LEMMA RaisedKeeps ==
    ASSUME Settings, IndInv, NEW w \in Executors, Raised(w)
    PROVE  IndInv'
<1>1. CASE /\ End(w) /\ UNCHANGED <<run, rows, effects, upset>>
  BY <1>1, Gone
<1>2. CASE /\ via[w] \in 1..(MaxTries - 1)
           /\ jobs' = [jobs EXCEPT ![via[w] + 1] = @ + 1]
           /\ run' = IF run \in Terminal THEN run ELSE "retrying"
           /\ End(w)
           /\ UNCHANGED <<saved, ckpt, acts, appr, effects, upset>>
  <2>1. run' \in RunStatus /\ RunKept /\ (Clean' => Clean)
    BY <1>2, Brings DEF RunStatus, RunKept, Clean
  <2> QED BY <1>2, <2>1, Requeued, Drops
<1>3. CASE FailNow(w, Restore(saved, ckpt), FALSE)
  <2>1. PICK x \in Loose :
           /\ x = Restore(saved, ckpt) /\ Refers(x, acts, appr, ckpt.seq)
           /\ Clean => Sound(x, acts, appr)
           /\ Clean => Matches(x, acts, appr) \/ (run \in Terminal /\ x.seq > 0)
           /\ x.seq >= ckpt.seq
    BY LoadedState
  <2> QED BY <1>3, <2>1, FailNowKeeps
<1> QED BY <1>1, <1>2, <1>3 DEF Raised, history, tally

LEMMA CrashKeeps ==
    ASSUME Settings, IndInv, NEW w \in Executors, Crash(w)
    PROVE  IndInv'
<1>1. jobs' \in [1..MaxTries -> Nat]
  BY Requeued DEF Crash, IndInv, ThreadTypes
<1>2. /\ End(w) /\ UNCHANGED <<saved, ckpt, acts, appr, effects, run>>
      /\ run' \in RunStatus /\ RunKept /\ (Clean' => Clean)
  BY Brings DEF Crash, RunKept, Clean
<1> QED BY <1>1, <1>2, Drops

-----------------------------------------------------------------------------
(* What a person does *)

\* The answer to a request takes no granted approval back.
LEMMA AnswerRows ==
    ASSUME appr \in Seq(ApprRow), NEW p \in 1..Len(appr), NEW v \in ApprStatus,
           appr' = [appr EXCEPT ![p].status = v],
           appr[p].status = "approved" => v = "approved"
    PROVE  /\ appr' \in Seq(ApprRow) /\ Carried(appr, appr') /\ Len(appr') = Len(appr)
           /\ appr'[p].status = v
<1>1. appr[p] \in ApprRow /\ Len(appr) \in Nat /\ DOMAIN appr = 1..Len(appr)
  OBVIOUS
<1>2. PICK r \in ApprRow : r = [appr[p] EXCEPT !.status = v] /\ r.step = appr[p].step /\ r.status = v
  <2> DEFINE r == [appr[p] EXCEPT !.status = v]
  <2>1. r \in ApprRow /\ r.step = appr[p].step /\ r.status = v
    BY <1>1 DEF ApprRow
  <2> QED BY <2>1
<1>3. appr' = [appr EXCEPT ![p] = r]
  BY <1>2
<1>4. appr' \in Seq(ApprRow) /\ Len(appr') = Len(appr)
  BY <1>3
<1>5. \A q \in 1..Len(appr) : appr'[q] = IF q = p THEN r ELSE appr[q]
  BY <1>3
<1> QED BY <1>1, <1>2, <1>4, <1>5 DEF Carried

LEMMA WithdrawnRequests ==
    ASSUME appr \in Seq(ApprRow),
           appr' = [p \in DOMAIN appr |->
                      IF appr[p].status = "pending"
                      THEN [appr[p] EXCEPT !.status = "cancelled"] ELSE appr[p]]
    PROVE  appr' \in Seq(ApprRow) /\ Carried(appr, appr') /\ Len(appr') = Len(appr)
<1>1. Len(appr) \in Nat /\ DOMAIN appr = 1..Len(appr)
  OBVIOUS
<1>2. ASSUME NEW p \in 1..Len(appr)
      PROVE  /\ [appr[p] EXCEPT !.status = "cancelled"] \in ApprRow
             /\ [appr[p] EXCEPT !.status = "cancelled"].step = appr[p].step
  <2>1. appr[p] \in ApprRow /\ "cancelled" \in ApprStatus
    BY DEF ApprStatus
  <2> QED BY <2>1 DEF ApprRow
<1>3. \A p \in 1..Len(appr) : /\ appr'[p] \in ApprRow /\ appr'[p].step = appr[p].step
                              /\ appr[p].status = "approved" => appr'[p].status = "approved"
  BY <1>1, <1>2
<1>4. appr' \in [1..Len(appr) -> ApprRow]
  BY <1>1, <1>3
<1>5. appr' \in Seq(ApprRow) /\ Len(appr') = Len(appr)
  BY <1>1, <1>4
<1> QED BY <1>1, <1>3, <1>5 DEF Carried

LEMMA ResumedRow ==
    ASSUME saved \in Loose
    PROVE  \E x \in Loose :
       /\ x = [saved EXCEPT
                 !.approved = IF saved.step = 0 THEN @ ELSE @ \cup {saved.step},
                 !.gok = @ \/ saved.gkey, !.gkey = FALSE, !.appr = 0]
       /\ x.act = saved.act /\ x.step = saved.step
       /\ x.approved = IF saved.step = 0 THEN saved.approved
                       ELSE saved.approved \cup {saved.step}
       /\ x.seen = saved.seen /\ x.appr = 0 /\ x.seq = saved.seq
       /\ x.iter = saved.iter /\ x.start = saved.start /\ x.emitted = saved.emitted
<1> DEFINE A == IF saved.step = 0 THEN saved.approved ELSE saved.approved \cup {saved.step}
           x == [saved EXCEPT !.approved = A, !.gok = saved.gok \/ saved.gkey,
                              !.gkey = FALSE, !.appr = 0]
<1>1. A \in SUBSET Nat
  BY DEF Loose
<1>2. /\ x \in Loose /\ x.act = saved.act /\ x.step = saved.step /\ x.approved = A
      /\ x.seen = saved.seen /\ x.appr = 0 /\ x.seq = saved.seq
      /\ x.iter = saved.iter /\ x.start = saved.start /\ x.emitted = saved.emitted
  <2> HIDE DEF A
  <2> QED BY <1>1 DEF Loose
<1> QED BY <1>2

\* The approval is for the step that the state waits at, so that the step may
\* join the approved ones; a state left behind is not what gets executed.
LEMMA GrantKeeps ==
    ASSUME Settings, IndInv, NEW w \in Executors, NEW p \in DOMAIN appr,
           ResumeAfterApproval(w, p)
    PROVE  IndInv'
<1>1. /\ saved \in Loose /\ saved.step \in Nat /\ saved.appr = p /\ saved.approved \in SUBSET Nat
      /\ ckpt \in [seq : Nat, state : Loose] /\ appr \in Seq(ApprRow)
      /\ Len(acts) \in Nat /\ Len(appr) \in Nat /\ p \in 1..Len(appr) /\ ckpt.seq \in Nat
      /\ Refers(saved, acts, appr, ckpt.seq) /\ saved.seq \in Nat
  BY Lengths DEF ResumeAfterApproval, IndInv, RowTypes, Loose
<1>2. PICK s \in Loose :
         /\ s = [saved EXCEPT
                   !.approved = IF saved.step = 0 THEN @ ELSE @ \cup {saved.step},
                   !.gok = @ \/ saved.gkey, !.gkey = FALSE, !.appr = 0]
         /\ s.act = saved.act /\ s.step = saved.step
         /\ s.approved = IF saved.step = 0 THEN saved.approved
                         ELSE saved.approved \cup {saved.step}
         /\ s.seen = saved.seen /\ s.appr = 0 /\ s.seq = saved.seq
  BY <1>1, ResumedRow
<1>3. s.act = saved.act /\ s.step = saved.step /\ s.seen = saved.seen /\ s.appr = 0 /\ s.seq = saved.seq
  BY <1>2
<1>4. s.approved = IF saved.step = 0 THEN saved.approved ELSE saved.approved \cup {saved.step}
  BY <1>2
<1>5. /\ appr' = [appr EXCEPT ![p].status = "approved"]
      /\ at' = [at EXCEPT ![w] = "resume"] /\ st' = [st EXCEPT ![w] = s]
      /\ UNCHANGED <<run, saved, ckpt, acts, msg, jobs, via, effects>>
      /\ upset' = upset \cup Overlap
  BY <1>2 DEF ResumeAfterApproval, Go, tally
<1>6. /\ appr' \in Seq(ApprRow) /\ Carried(appr, appr') /\ Len(appr') = Len(appr)
      /\ appr'[p].status = "approved" /\ appr'[p].step = appr[p].step
  <2>1. /\ appr' \in Seq(ApprRow) /\ Carried(appr, appr') /\ Len(appr') = Len(appr)
        /\ appr'[p].status = "approved"
    BY <1>1, <1>5, AnswerRows DEF ApprStatus
  <2> QED BY <1>1, <2>1 DEF Carried
<1>7. RowTypes'
  BY <1>5, <1>6 DEF IndInv, RowTypes
<1>8. Grows
  BY <1>1, <1>5, <1>6 DEF Grows, Grown
<1>9. (Clean' => Clean) /\ RunKept
  BY <1>5 DEF Clean, RunKept
<1>10. jobs' \in [1..MaxTries -> Nat] /\ via' \in [Executors -> 0..MaxTries]
  BY <1>5 DEF IndInv, ThreadTypes
<1>11. Refers(s, acts', appr', ckpt'.seq)
  <2>1. s.approved \subseteq 1..Len(acts)
    BY <1>1, <1>4 DEF Refers
  <2> QED BY <1>1, <1>3, <1>5, <1>6, <2>1 DEF Refers
<1>12. ASSUME Clean', ~Stale(saved, ckpt.seq), ~(run \in Terminal /\ saved.seq > 0)
       PROVE  Sound(s, acts', appr')
  <2>1. Sound(saved, acts, appr) /\ Matches(saved, acts, appr)
    BY <1>9, <1>12 DEF IndInv, Guarded, SavedGuarded
  <2>2. Sound(saved, acts', appr')
    BY <1>1, <1>7, <1>8, <2>1, StatesKeep DEF IndInv
  <2> SUFFICES ASSUME NEW a \in s.approved, acts'[a].gated
               PROVE  \E q \in 1..Len(appr') : appr'[q].step = a /\ appr'[q].status = "approved"
    BY <1>3 DEF Sound
  <2>3. CASE a \in saved.approved
    BY <2>2, <2>3 DEF Sound
  <2>4. CASE a \notin saved.approved
    <3>1. a = saved.step /\ saved.step /= 0
      BY <1>4, <2>4
    <3>2. appr[p].step = a
      BY <1>1, <1>5, <2>1, <2>4, <3>1 DEF Matches
    <3> QED BY <1>1, <1>6, <3>2
  <2> QED BY <2>3, <2>4
<1>13. Matches(s, acts', appr')
  BY <1>3 DEF Matches
<1>14. Stale(saved, ckpt.seq) => Stale(s, ckpt'.seq)
  BY <1>3, <1>5 DEF Stale
<1>15. ThreadOK(s, "resume")' /\ (Clean' => ThreadGuarded(s, "resume")')
  BY <1>3, <1>5, <1>11, <1>12, <1>13, <1>14 DEF ThreadOK, ThreadGuarded, Holding
<1> QED BY <1>5, <1>7, <1>8, <1>9, <1>10, <1>15, OneMoves DEF Nodes, Resuming

LEMMA ResumeKeeps ==
    ASSUME Settings, IndInv, NEW w \in Executors, Resume(w)
    PROVE  IndInv'
<1>1. PICK s : s = st[w]
  OBVIOUS
<1>2. /\ at[w] = "resume" /\ at' = [at EXCEPT ![w] = "resumed"] /\ st' = [st EXCEPT ![w] = s]
      /\ UNCHANGED <<via, saved, ckpt, jobs, effects, acts, appr>>
      /\ run' = "running" /\ (Clean' => Clean /\ run \notin Terminal) /\ RunKept
  BY <1>1 DEF Resume, Go, rows, tally, SetRun, Overwritten, Clean, RunKept
<1>3. s \in Loose /\ ThreadOK(s, "resume") /\ (Clean => ThreadGuarded(s, "resume"))
  BY <1>1, <1>2 DEF IndInv, ThreadTypes, Guarded
<1>4. RowTypes' /\ Grows
  BY <1>2, SameRows DEF IndInv, RowTypes
<1>5. jobs' \in [1..MaxTries -> Nat] /\ via' \in [Executors -> 0..MaxTries]
  BY <1>2 DEF IndInv, ThreadTypes
<1>6. ThreadOK(s, "resumed")' /\ (Clean' => ThreadGuarded(s, "resumed")')
  BY <1>2, <1>3 DEF ThreadOK, ThreadGuarded, Holding
<1> QED BY <1>2, <1>3, <1>4, <1>5, <1>6, OneMoves DEF Nodes, Resuming

LEMMA SaveResumedKeeps ==
    ASSUME Settings, IndInv, NEW w \in Executors, SaveResumed(w)
    PROVE  IndInv'
<1>1. PICK s \in Loose : s = st[w] /\ ThreadOK(s, "resumed") /\ (Clean => ThreadGuarded(s, "resumed"))
  BY DEF SaveResumed, IndInv, ThreadTypes, Guarded
<1>2. /\ Refers(s, acts, appr, ckpt.seq)
      /\ Clean => Sound(s, acts, appr) \/ Stale(s, ckpt.seq)
      /\ Clean => Matches(s, acts, appr) \/ Stale(s, ckpt.seq)
  BY <1>1 DEF ThreadOK, ThreadGuarded
<1>3. PICK k \in Loose : /\ k = Kept(s, run) /\ k.act = s.act /\ k.approved = s.approved
                         /\ k.seen = s.seen /\ k.seq = s.seq
                         /\ k.step \in {0, s.step} /\ k.appr \in {0, s.appr}
  BY KeptState DEF IndInv, RowTypes
<1>4. PICK x \in Loose : x = Restore(k, ckpt)
  BY RestoredState DEF IndInv, RowTypes
<1>5. \/ x = k /\ k.seq >= ckpt.seq
      \/ /\ x.act = ckpt.state.act /\ x.approved = ckpt.state.approved
         /\ x.seen = ckpt.state.seen /\ x.step = ckpt.state.step
         /\ x.appr = ckpt.state.appr /\ x.seq = ckpt.seq /\ k.seq < ckpt.seq
  BY <1>3, <1>4, RestoredState DEF IndInv, RowTypes
<1>6. /\ saved' = k /\ at' = [at EXCEPT ![w] = "observe"] /\ st' = [st EXCEPT ![w] = x]
      /\ UNCHANGED <<run, ckpt, acts, appr, jobs, via, effects, upset>>
  BY <1>1, <1>3, <1>4 DEF SaveResumed, Go, history, tally
<1>7. RowTypes' /\ Grows
  BY <1>3, <1>6, SameRows DEF IndInv, RowTypes
<1>8. /\ jobs' \in [1..MaxTries -> Nat] /\ via' \in [Executors -> 0..MaxTries]
      /\ (Clean' => Clean) /\ RunKept
  BY <1>6 DEF IndInv, ThreadTypes, Clean, RunKept
<1>9. k.seq \in Nat /\ ckpt.seq \in Nat /\ Len(acts) \in Nat /\ Len(appr) \in Nat
  BY <1>3, Lengths DEF IndInv, Loose
<1>10. /\ Refers(k, acts, appr, ckpt.seq)
       /\ Clean => Sound(k, acts, appr) \/ Stale(k, ckpt.seq)
       /\ Clean => Matches(k, acts, appr) \/ Stale(k, ckpt.seq)
  <2>1. Refers(k, acts, appr, ckpt.seq)
    BY <1>2, <1>3, <1>9 DEF Refers
  <2>2. Sound(s, acts, appr) => Sound(k, acts, appr)
    BY <1>3 DEF Sound
  <2>3. Matches(s, acts, appr) => Matches(k, acts, appr)
    BY <1>3 DEF Matches
  <2>4. Stale(s, ckpt.seq) => Stale(k, ckpt.seq)
    BY <1>3 DEF Stale
  <2> QED BY <1>2, <2>1, <2>2, <2>3, <2>4
<1>11. Refers(saved, acts, appr, ckpt.seq)' /\ (Clean' => SavedGuarded(saved)')
  BY <1>6, <1>8, <1>10 DEF SavedGuarded
<1>12. ThreadOK(x, "observe")' /\ (Clean' => ThreadGuarded(x, "observe")')
  <2>1. CASE x = k /\ k.seq >= ckpt.seq
    <3>1. ~Stale(k, ckpt.seq)
      BY <1>9, <2>1 DEF Stale
    <3> QED BY <1>6, <1>8, <1>10, <2>1, <3>1 DEF ThreadOK, ThreadGuarded, Holding
  <2>2. CASE /\ x.act = ckpt.state.act /\ x.approved = ckpt.state.approved
             /\ x.seen = ckpt.state.seen /\ x.step = ckpt.state.step
             /\ x.appr = ckpt.state.appr /\ x.seq = ckpt.seq /\ k.seq < ckpt.seq
    <3>1. Refers(x, acts, appr, ckpt.seq)
      BY <1>9, <2>2 DEF IndInv, Refers
    <3>2. Clean => Sound(x, acts, appr)
      BY <2>2 DEF IndInv, Guarded, LogGuarded, Sound
    <3>3. Clean => Matches(x, acts, appr) \/ run \in Terminal
      BY <2>2 DEF IndInv, Guarded, LogGuarded, Matches
    <3>4. x.seq > 0
      BY <1>9, <2>2
    <3> QED BY <1>6, <1>8, <3>1, <3>2, <3>3, <3>4 DEF ThreadOK, ThreadGuarded, Holding
  <2> QED BY <1>5, <2>1, <2>2
<1> QED BY <1>6, <1>7, <1>8, <1>11, <1>12, OneMoves DEF Nodes

\* A person's step touches no execution.
LEMMA OutsideKeeps ==
    ASSUME Settings, IndInv, UNCHANGED <<at, st, via, effects>>,
           jobs' \in [1..MaxTries -> Nat], RowTypes', Grows, Clean' => Clean, RunKept,
           \/ saved' = saved
           \/ /\ Refers(saved, acts, appr, ckpt.seq)'
              /\ Clean' => SavedGuarded(saved)',
           \/ ckpt' = ckpt
           \/ /\ Refers(ckpt.state, acts, appr, ckpt.seq)'
              /\ Clean' => LogGuarded(ckpt.state)'
    PROVE  IndInv'
<1>1. ThreadTypes'
  BY DEF IndInv, ThreadTypes
<1>2. \A v \in Executors : st'[v] = st[v] /\ at'[v] = at[v] /\ RunKept
  OBVIOUS
<1> QED BY <1>1, <1>2, Assemble

LEMMA ClearedState ==
    \A s \in Loose :
       /\ \E x \in Loose :
            /\ x = [s EXCEPT !.appr = 0, !.gkey = FALSE, !.step = 0]
            /\ x.act = s.act /\ x.step = 0 /\ x.approved = s.approved
            /\ x.seen = s.seen /\ x.appr = 0 /\ x.seq = s.seq
       /\ \E x \in Loose :
            /\ x = [s EXCEPT !.appr = 0, !.gkey = FALSE, !.step = 0, !.emitted = TRUE]
            /\ x.act = s.act /\ x.step = 0 /\ x.approved = s.approved
            /\ x.seen = s.seen /\ x.appr = 0 /\ x.seq = s.seq
       /\ \E x \in Loose :
            /\ x = [s EXCEPT !.emitted = TRUE]
            /\ x.act = s.act /\ x.step = s.step /\ x.approved = s.approved
            /\ x.seen = s.seen /\ x.appr = s.appr /\ x.seq = s.seq
<1> TAKE s \in Loose
<1> DEFINE x == [s EXCEPT !.appr = 0, !.gkey = FALSE, !.step = 0]
           y == [s EXCEPT !.appr = 0, !.gkey = FALSE, !.step = 0, !.emitted = TRUE]
           z == [s EXCEPT !.emitted = TRUE]
<1>1. /\ x \in Loose /\ x.act = s.act /\ x.step = 0 /\ x.approved = s.approved
      /\ x.seen = s.seen /\ x.appr = 0 /\ x.seq = s.seq
  BY DEF Loose
<1>2. /\ y \in Loose /\ y.act = s.act /\ y.step = 0 /\ y.approved = s.approved
      /\ y.seen = s.seen /\ y.appr = 0 /\ y.seq = s.seq
  BY DEF Loose
<1>3. /\ z \in Loose /\ z.act = s.act /\ z.step = s.step /\ z.approved = s.approved
      /\ z.seen = s.seen /\ z.appr = s.appr /\ z.seq = s.seq
  BY DEF Loose
<1> QED BY <1>1, <1>2, <1>3

LEMMA RejectKeeps ==
    ASSUME Settings, IndInv, NEW p \in DOMAIN appr, RejectApproval(p)
    PROVE  IndInv'
<1>1. /\ saved \in Loose /\ appr \in Seq(ApprRow) /\ Len(acts) \in Nat /\ Len(appr) \in Nat
      /\ p \in 1..Len(appr) /\ ckpt.seq \in Nat /\ Refers(saved, acts, appr, ckpt.seq)
  BY Lengths DEF IndInv, RowTypes
<1>2. /\ appr' = [appr EXCEPT ![p].status = "rejected"] /\ appr[p].status = "pending"
      /\ UNCHANGED <<ckpt, acts, jobs, at, st, via, effects, upset>>
  BY DEF RejectApproval, threads
<1>3. appr' \in Seq(ApprRow) /\ Carried(appr, appr') /\ Len(appr') = Len(appr)
  BY <1>1, <1>2, AnswerRows DEF ApprStatus
<1>4. jobs' \in [1..MaxTries -> Nat] /\ (Clean' => Clean)
  BY <1>2 DEF IndInv, ThreadTypes, Clean
<1>5. Grows
  BY <1>1, <1>2, <1>3 DEF Grows, Grown
<1>6. CASE UNCHANGED <<run, saved>>
  <2>1. RowTypes' /\ RunKept
    BY <1>2, <1>3, <1>6 DEF IndInv, RowTypes, RunKept
  <2> QED BY <1>2, <1>4, <1>5, <1>6, <2>1, OutsideKeeps
<1>7. CASE /\ run' = "cancelled"
           /\ saved' = [saved EXCEPT !.appr = 0,
                                      !.gkey = FALSE, !.step = 0, !.emitted = TRUE]
  <2>1. PICK x \in Loose :
            /\ x = [saved EXCEPT !.appr = 0, !.gkey = FALSE, !.step = 0, !.emitted = TRUE]
            /\ x.act = saved.act /\ x.step = 0 /\ x.approved = saved.approved
            /\ x.seen = saved.seen /\ x.appr = 0 /\ x.seq = saved.seq
    BY <1>1, ClearedState
  <2>2. saved' = x /\ run' = "cancelled"
    BY <1>7, <2>1
  <2>3. RowTypes' /\ RunKept
    BY <1>2, <1>3, <2>2 DEF IndInv, RowTypes, RunKept, Terminal
  <2>4. Refers(saved, acts, appr, ckpt.seq)'
    BY <1>1, <1>2, <1>3, <2>1, <2>2 DEF Refers
  <2>5. Clean' => SavedGuarded(saved)'
    <3> SUFFICES ASSUME Clean PROVE SavedGuarded(x)'
      BY <1>4, <2>2 DEF SavedGuarded
    <3>1. Sound(saved, acts, appr) \/ Stale(saved, ckpt.seq)
      BY DEF IndInv, Guarded, SavedGuarded
    <3>2. Sound(saved, acts', appr') \/ Stale(saved, ckpt.seq)
      BY <1>1, <1>5, <2>3, <3>1, StatesKeep DEF IndInv
    <3>3. Sound(x, acts', appr') \/ Stale(x, ckpt'.seq)
      BY <1>2, <2>1, <3>2 DEF Sound, Stale
    <3> QED BY <2>1, <3>3 DEF SavedGuarded, Matches
  <2> QED BY <1>2, <1>4, <1>5, <2>3, <2>4, <2>5, OutsideKeeps
<1> QED BY <1>6, <1>7 DEF RejectApproval

LEMMA CancelKeeps ==
    ASSUME Settings, IndInv, CancelRun
    PROVE  IndInv'
<1>1. /\ saved \in Loose /\ appr \in Seq(ApprRow) /\ Len(acts) \in Nat /\ Len(appr) \in Nat
      /\ ckpt.seq \in Nat /\ Refers(saved, acts, appr, ckpt.seq) /\ acts \in Seq(ActRow)
      /\ ckpt \in [seq : Nat, state : Loose] /\ Len(acts) <= MaxActions
  BY Lengths DEF IndInv, RowTypes
<1>2. /\ UNCHANGED <<jobs, at, st, via, effects>> /\ run' = "cancelled"
      /\ run \notin Terminal /\ acts' = Withdrawn(saved.act)
      /\ Clean' => Clean
  <2>1. /\ UNCHANGED <<jobs, at, st, via, effects>> /\ run' = "cancelled"
        /\ run \notin Terminal /\ acts' = Withdrawn(saved.act)
    BY Zenon DEF CancelRun, threads
  <2>2. upset' = upset \/ upset' = upset \cup {"number"}
    BY Zenon DEF CancelRun
  <2> QED BY <2>1, <2>2 DEF Clean
<1>3. appr' \in Seq(ApprRow) /\ Carried(appr, appr') /\ Len(appr') = Len(appr)
  BY <1>1, WithdrawnRequests DEF CancelRun
<1>4. acts' \in Seq(ActRow) /\ Len(acts') = Len(acts) /\ Grown(acts, acts')
  <2>1. /\ Withdrawn(saved.act) \in Seq(ActRow)
        /\ Len(Withdrawn(saved.act)) = Len(acts)
        /\ \A b \in 1..Len(acts) : Withdrawn(saved.act)[b].gated = acts[b].gated
    BY <1>1, WithdrawnActs, Zenon
  <2> QED BY <1>1, <1>2, <2>1 DEF Grown
<1>5. jobs' \in [1..MaxTries -> Nat] /\ RunKept
  BY <1>2 DEF IndInv, ThreadTypes, RunKept
<1>6. PICK s \in Loose :
            /\ s = [saved EXCEPT !.appr = 0, !.gkey = FALSE, !.step = 0]
            /\ s.act = saved.act /\ s.step = 0 /\ s.approved = saved.approved
            /\ s.seen = saved.seen /\ s.appr = 0 /\ s.seq = saved.seq
  BY <1>1, ClearedState
<1>7. CASE /\ Fits(s)
           /\ ckpt' = [seq |-> Number(s), state |-> Numbered(s)]
           /\ saved' = [Numbered(s) EXCEPT !.emitted = TRUE]
  <2>1. PICK k \in Loose :
           /\ k = Numbered(s) /\ k.seq = ckpt.seq + 1 /\ Number(s) = k.seq
           /\ k.act = s.act /\ k.approved = s.approved /\ k.seen = s.seen
           /\ k.step = s.step /\ k.appr = s.appr /\ ~Stale(s, ckpt.seq)
    <3>1. s.seq <= ckpt.seq
      BY <1>1, <1>6 DEF Refers
    <3>2. s \in Loose /\ Fits(s) /\ ckpt \in [seq : Nat, state : Loose]
      BY <1>1, <1>7
    <3> QED BY <3>1, <3>2, NumberedState
  <2>2. PICK e \in Loose :
            /\ e = [k EXCEPT !.emitted = TRUE]
            /\ e.act = k.act /\ e.step = k.step /\ e.approved = k.approved
            /\ e.seen = k.seen /\ e.appr = k.appr /\ e.seq = k.seq
    BY ClearedState
  <2>3. ckpt' = [seq |-> k.seq, state |-> k] /\ saved' = e
    BY <1>7, <2>1, <2>2
  <2>4. k.seq \in Nat /\ ckpt.seq <= k.seq
    BY <1>1, <2>1
  <2>5. RowTypes'
    BY <1>1, <1>2, <1>3, <1>4, <2>3, <2>4 DEF IndInv, RowTypes, Terminal
  <2>6. Grows
    BY <1>3, <1>4, <2>3, <2>4 DEF Grows
  <2>7. Refers(k, acts', appr', ckpt'.seq) /\ Refers(e, acts', appr', ckpt'.seq)
    BY <1>1, <1>3, <1>4, <1>6, <2>1, <2>2, <2>3, <2>4 DEF Refers
  <2>8. ASSUME Clean' PROVE Sound(k, acts', appr') /\ Sound(e, acts', appr')
    <3>1. ~Stale(saved, ckpt.seq)
      BY <1>6, <2>1 DEF Stale
    <3>2. Sound(saved, acts, appr)
      BY <1>2, <2>8, <3>1 DEF IndInv, Guarded, SavedGuarded
    <3>3. Sound(saved, acts', appr')
      BY <1>1, <2>5, <2>6, <3>2, StatesKeep DEF IndInv
    <3> QED BY <1>6, <2>1, <2>2, <3>3 DEF Sound
  <2>9. Refers(saved, acts, appr, ckpt.seq)' /\ Refers(ckpt.state, acts, appr, ckpt.seq)'
    BY <2>3, <2>7
  <2>10. Clean' => SavedGuarded(saved)' /\ LogGuarded(ckpt.state)'
    BY <1>6, <2>1, <2>2, <2>3, <2>8 DEF SavedGuarded, LogGuarded, Matches
  <2> QED BY <1>2, <1>5, <2>5, <2>6, <2>9, <2>10, OutsideKeeps
<1>8. CASE saved' = s /\ UNCHANGED ckpt
  <2>1. RowTypes'
    BY <1>1, <1>2, <1>3, <1>4, <1>8 DEF IndInv, RowTypes, Terminal
  <2>2. Grows
    BY <1>1, <1>3, <1>4, <1>8 DEF Grows
  <2>3. Refers(s, acts', appr', ckpt'.seq)
    BY <1>1, <1>3, <1>4, <1>6, <1>8 DEF Refers
  <2>4. Clean' => Sound(s, acts', appr') \/ Stale(s, ckpt'.seq)
    <3> SUFFICES ASSUME Clean PROVE Sound(s, acts', appr') \/ Stale(s, ckpt'.seq)
      BY <1>2
    <3>1. Sound(saved, acts, appr) \/ Stale(saved, ckpt.seq)
      BY DEF IndInv, Guarded, SavedGuarded
    <3>2. Sound(saved, acts', appr') \/ Stale(saved, ckpt.seq)
      BY <1>1, <2>1, <2>2, <3>1, StatesKeep DEF IndInv
    <3> QED BY <1>6, <1>8, <3>2 DEF Sound, Stale
  <2>5. Refers(saved, acts, appr, ckpt.seq)' /\ (Clean' => SavedGuarded(saved)')
    BY <1>6, <1>8, <2>3, <2>4 DEF SavedGuarded, Matches
  <2> QED BY <1>2, <1>5, <1>8, <2>1, <2>2, <2>5, OutsideKeeps
<1> QED BY <1>6, <1>7, <1>8 DEF CancelRun

\* What a new attempt begins with.
LEMMA RetriedState ==
    ASSUME Settings, IndInv
    PROVE  \A r \in Loose : \E x \in Loose :
       /\ x = LET undone == r.act \in DOMAIN acts /\ acts[r.act].status /= "succeeded" IN
              [r EXCEPT !.repairs = 0, !.act = 0, !.step = 0, !.appr = 0, !.gkey = FALSE,
                   !.emitted = FALSE, !.start = r.iter,
                   !.approved = IF undone THEN @ \ {r.act} ELSE @,
                   !.redo = IF ~undone THEN @
                            ELSE IF acts[r.act].gated THEN "gated" ELSE "free"]
       /\ x.act = 0 /\ x.step = 0 /\ x.approved \subseteq r.approved
       /\ x.seen = r.seen /\ x.appr = 0 /\ x.seq = r.seq
<1> TAKE r \in Loose
<1> DEFINE undone == r.act \in DOMAIN acts /\ acts[r.act].status /= "succeeded"
           A == IF undone THEN r.approved \ {r.act} ELSE r.approved
           d == IF ~undone THEN r.redo
                ELSE IF acts[r.act].gated THEN "gated" ELSE "free"
           x == [r EXCEPT !.repairs = 0, !.act = 0, !.step = 0, !.appr = 0, !.gkey = FALSE,
                   !.emitted = FALSE, !.start = r.iter, !.approved = A, !.redo = d]
<1>1. A \in SUBSET Nat /\ A \subseteq r.approved
  BY DEF Loose
<1>2. d \in {"none", "free", "gated"} /\ r.iter \in Nat
  BY DEF Loose
<1>3. /\ x \in Loose /\ x.act = 0 /\ x.step = 0 /\ x.approved = A
      /\ x.seen = r.seen /\ x.appr = 0 /\ x.seq = r.seq
  <2> HIDE DEF A, d
  <2> QED BY <1>1, <1>2 DEF Loose
<1>4. x = LET undoes == r.act \in DOMAIN acts /\ acts[r.act].status /= "succeeded" IN
          [r EXCEPT !.repairs = 0, !.act = 0, !.step = 0, !.appr = 0, !.gkey = FALSE,
                    !.emitted = FALSE, !.start = r.iter,
                    !.approved = IF undoes THEN @ \ {r.act} ELSE @,
                    !.redo = IF ~undoes THEN @
                             ELSE IF acts[r.act].gated THEN "gated" ELSE "free"]
  BY Zenon
<1> HIDE DEF x
<1> QED BY <1>1, <1>3, <1>4, ZenonT(30)

\* The new attempt is a checkpoint that leaves every older state behind.
LEMMA RetryKeeps ==
    ASSUME Settings, IndInv, RetryRun
    PROVE  IndInv'
<1>1. /\ saved \in Loose /\ appr \in Seq(ApprRow) /\ Len(acts) \in Nat /\ Len(appr) \in Nat
      /\ ckpt.seq \in Nat /\ acts \in Seq(ActRow)
      /\ ckpt \in [seq : Nat, state : Loose] /\ Len(acts) <= MaxActions
  BY Lengths DEF IndInv, RowTypes
<1>2. /\ UNCHANGED <<at, st, via, effects, acts>> /\ run' = "queued" /\ run \in Terminal
      /\ Clean' => Clean
  BY DEF RetryRun, threads, Clean, Overlap, Terminal
<1>3. appr' \in Seq(ApprRow) /\ Carried(appr, appr') /\ Len(appr') = Len(appr)
  BY <1>1, WithdrawnRequests DEF RetryRun
<1>4. ThreadTypes'
  <2>1. jobs \in [1..MaxTries -> Nat] /\ 1 \in 1..MaxTries
    BY DEF IndInv, ThreadTypes, Settings
  <2>2. PICK n \in Nat : n = jobs[1] + 1
    BY <2>1
  <2>3. jobs' = [jobs EXCEPT ![1] = n]
    BY <2>2 DEF RetryRun
  <2> QED BY <1>2, <2>1, <2>3 DEF IndInv, ThreadTypes
<1>5. PICK r \in Loose :
         /\ r = Restore(saved, ckpt) /\ Refers(r, acts, appr, ckpt.seq)
         /\ Clean => Sound(r, acts, appr)
         /\ r.seq >= ckpt.seq
  BY LoadedState
<1>6. PICK s \in Loose :
       /\ s = LET undone == r.act \in DOMAIN acts /\ acts[r.act].status /= "succeeded" IN
              [r EXCEPT !.repairs = 0, !.act = 0, !.step = 0, !.appr = 0, !.gkey = FALSE,
                   !.emitted = FALSE, !.start = r.iter,
                   !.approved = IF undone THEN @ \ {r.act} ELSE @,
                   !.redo = IF ~undone THEN @
                            ELSE IF acts[r.act].gated THEN "gated" ELSE "free"]
       /\ s.act = 0 /\ s.step = 0 /\ s.approved \subseteq r.approved
       /\ s.seen = r.seen /\ s.appr = 0 /\ s.seq = r.seq
  BY RetriedState
<1>7. ckpt' = [seq |-> Number(s), state |-> Numbered(s)] /\ saved' = Numbered(s)
  BY <1>5, <1>6 DEF RetryRun
<1>17. /\ s.act = 0 /\ s.step = 0 /\ s.approved \subseteq r.approved
       /\ s.seen = r.seen /\ s.appr = 0 /\ s.seq = r.seq
  BY <1>6
<1>18. /\ s.seq = ckpt.seq /\ s.seen \subseteq 1..Len(acts)
       /\ s.approved \subseteq 1..Len(acts)
  <2>1. r.seq \in Nat
    BY DEF Loose
  <2> QED BY <1>1, <1>5, <1>17, <2>1 DEF Refers
<1>8. PICK k \in Loose :
           /\ k = Numbered(s) /\ Number(s) = k.seq
           /\ k.act = s.act /\ k.approved = s.approved /\ k.seen = s.seen
           /\ k.step = s.step /\ k.appr = s.appr
  BY <1>1, <1>18, NumberedState
<1>9. k.seq = ckpt.seq + 1
  BY <1>1, <1>8, <1>18 DEF Number
<1>10. ckpt' = [seq |-> k.seq, state |-> k] /\ saved' = k
  BY <1>7, <1>8
<1>11. RowTypes'
  BY <1>1, <1>2, <1>3, <1>9, <1>10 DEF IndInv, RowTypes
<1>12. Grows
  BY <1>1, <1>2, <1>3, <1>9, <1>10 DEF Grows, Grown
<1>13. Refers(k, acts', appr', ckpt'.seq)
  BY <1>1, <1>2, <1>3, <1>8, <1>9, <1>10, <1>17, <1>18 DEF Refers
<1>14. Clean' => Sound(k, acts', appr') /\ Matches(k, acts', appr')
  <2> SUFFICES ASSUME Clean PROVE Sound(k, acts', appr') /\ Matches(k, acts', appr')
    BY <1>2
  <2>1. Sound(r, acts', appr')
    BY <1>5, <1>11, <1>12, StatesKeep DEF IndInv
  <2>2. k.approved \subseteq r.approved
    BY <1>8, <1>17
  <2>3. Sound(k, acts', appr')
    BY <2>1, <2>2 DEF Sound
  <2> QED BY <1>8, <1>17, <2>3 DEF Matches
<1>15. /\ Refers(saved, acts, appr, ckpt.seq)' /\ Refers(ckpt.state, acts, appr, ckpt.seq)'
       /\ Clean' => SavedGuarded(saved)' /\ LogGuarded(ckpt.state)'
  BY <1>10, <1>13, <1>14 DEF SavedGuarded, LogGuarded
<1>16. ASSUME NEW v \in Executors
       PROVE  ThreadOK(st[v], at[v])' /\ (Clean' => ThreadGuarded(st[v], at[v])')
  <2>1. /\ st[v] \in Loose /\ Refers(st[v], acts, appr, ckpt.seq) /\ st[v].seq \in Nat
        /\ ThreadOK(st[v], at[v])
    BY Brings DEF IndInv, Loose
  <2>2. /\ Refers(st[v], acts', appr', ckpt'.seq)
        /\ Sound(st[v], acts, appr) => Sound(st[v], acts', appr')
        /\ Matches(st[v], acts, appr) => Matches(st[v], acts', appr')
        /\ Stale(st[v], ckpt.seq) => Stale(st[v], ckpt'.seq)
    BY <1>11, <1>12, <2>1, StatesKeep DEF IndInv
  <2>3. st[v].seq > 0 => Stale(st[v], ckpt'.seq)
    BY <1>1, <1>9, <1>10, <2>1 DEF Refers, Stale
  <2>4. ThreadOK(st[v], at[v])'
    BY <1>2, <2>1, <2>2 DEF ThreadOK
  <2>5. ASSUME Clean' PROVE ThreadGuarded(st[v], at[v])'
    <3>1. ThreadGuarded(st[v], at[v])
      BY <1>2, <2>5 DEF IndInv, Guarded
    <3> QED BY <1>2, <2>2, <2>3, <3>1 DEF ThreadGuarded
  <2> QED BY <2>4, <2>5
<1> QED BY <1>2, <1>4, <1>11, <1>12, <1>15, <1>16, Assemble

-----------------------------------------------------------------------------
(* The theorems *)

LEMMA InitHolds == ASSUME Settings, Init PROVE IndInv
<1>1. Blank \in Loose
  BY DEF Blank, Loose
<1>2. RowTypes
  BY <1>1 DEF Init, RowTypes, ActionIds, Settings
<1>3. ThreadTypes
  BY <1>1 DEF Init, ThreadTypes, Settings
<1>4. Refers(Blank, acts, appr, 0) /\ Sound(Blank, acts, appr) /\ Matches(Blank, acts, appr)
  BY DEF Init, Refers, Blank, Sound, Matches
<1>5. ckpt.seq = 0 /\ ckpt.state = Blank /\ saved = Blank
  BY DEF Init
<1>6. \A w \in Executors : ThreadOK(st[w], at[w]) /\ ThreadGuarded(st[w], at[w])
  BY <1>4, <1>5 DEF Init, ThreadOK, ThreadGuarded, Holding
<1>7. ApprovedBeforeEffect
  BY DEF Init, ApprovedBeforeEffect
<1> QED BY <1>2, <1>3, <1>4, <1>5, <1>6, <1>7 DEF IndInv, Guarded, SavedGuarded, LogGuarded

LEMMA StepKeeps == ASSUME Settings, IndInv, [Next]_vars PROVE IndInv'
<1>1. CASE UNCHANGED vars
  <2>1. UNCHANGED <<run, saved, ckpt, acts, appr, jobs, at, st, via, effects, upset>>
    BY <1>1 DEF vars, rows, threads, history, tally
  <2>2. IndInv' = IndInv
    BY <2>1 DEF IndInv, RowTypes, ThreadTypes, ThreadOK, Guarded, SavedGuarded, LogGuarded,
                ThreadGuarded, ApprovedBeforeEffect, Clean
  <2> QED BY <2>2
<1>2. ASSUME NEW w \in Executors, Graph(w) PROVE IndInv'
  BY <1>2, ObserveKeeps, EnterKeeps, RecoverKeeps, DecideKeeps, DecidingKeeps, PolicyKeeps,
     PauseKeeps, ParkKeeps, ActKeeps, ActingKeeps, CommitKeeps, RecordKeeps,
     ObserveResultKeeps, VerifyKeeps, VerifyingKeeps, RepairKeeps, ReplanKeeps,
     CompleteKeeps, FinalizeKeeps, WaitUserKeeps, FailKeeps, RaisedKeeps, ResumeKeeps,
     SaveResumedKeeps DEF Graph
<1>3. ASSUME NEW w \in Executors, Dispatch(w) \/ Crash(w) PROVE IndInv'
  BY <1>3, DispatchKeeps, CrashKeeps
<1>4. ASSUME NEW p \in DOMAIN appr,
             RejectApproval(p) \/ \E w \in Executors : ResumeAfterApproval(w, p)
      PROVE  IndInv'
  BY <1>4, RejectKeeps, GrantKeeps
<1> QED BY <1>1, <1>2, <1>3, <1>4, CancelKeeps, RetryKeeps DEF Next

\* In every state of every run, whatever the number of executors and retries,
\* the states kept in memory, in the row and in the log agree with the actions
\* and the requests on record (_restore_state, _persist_checkpoint).
THEOREM LoopInvariant == ASSUME Settings PROVE Spec => []IndInv
<1>1. Init => IndInv
  BY InitHolds
<1>2. IndInv /\ [Next]_vars => IndInv'
  BY StepKeeps
<1> QED BY <1>1, <1>2, PTL DEF Spec

LEMMA BoundedState ==
    ASSUME Settings, RowTypes, NEW s \in Loose, Refers(s, acts, appr, ckpt.seq)
    PROVE  s \in State
<1>1. /\ Len(acts) \in Nat /\ Len(appr) \in Nat /\ ckpt.seq \in Nat /\ Len(acts) <= MaxActions
      /\ s.act \in Nat /\ s.step \in Nat /\ s.appr \in Nat /\ s.seq \in Nat
  BY Lengths DEF RowTypes, Loose
<1>2. s.act \in 0..MaxActions /\ s.step \in 0..MaxActions /\ s.appr \in 0..Len(appr) /\ s.seq \in 0..ckpt.seq
  BY <1>1 DEF Refers, Settings
<1>3. s.approved \in SUBSET ActionIds /\ s.seen \in SUBSET ActionIds
  <2>1. 1..Len(acts) \subseteq 1..MaxActions
    BY <1>1 DEF Settings
  <2> QED BY <2>1 DEF Refers, ActionIds
<1> QED BY <1>2, <1>3 DEF Loose, State

LEMMA InvariantTypes == ASSUME Settings, IndInv PROVE TypeOK
<1>1. saved \in State /\ ckpt.state \in State
  BY BoundedState DEF IndInv, RowTypes
<1>2. \A w \in Executors : at[w] \in Nodes \cup {"off"} /\ st[w] \in State /\ via[w] \in 0..MaxTries
  BY BoundedState DEF IndInv, ThreadTypes, ThreadOK
<1>3. saved.act \in 0..Len(acts) /\ saved.seen \subseteq DOMAIN acts
  <2>1. saved.act \in Nat /\ Len(acts) \in Nat /\ Refers(saved, acts, appr, ckpt.seq)
    BY Lengths DEF IndInv, RowTypes, Loose
  <2> QED BY <2>1, Lengths DEF IndInv, Refers
<1>4. run \in {"queued", "running", "retrying", "awaiting", "waiting"} \cup Terminal
  BY DEF IndInv, RowTypes
<1> QED BY <1>1, <1>2, <1>3, <1>4 DEF TypeOK

\* Every state of the run, in memory, saved or checkpointed, refers to actions,
\* requests and checkpoints that exist (AgentRuntimeState, state.py).
THEOREM StatesAreWellFormed == ASSUME Settings PROVE Spec => []TypeOK
BY InvariantTypes, LoopInvariant, PTL

\* No tool that requires approval is called before a person approved that very
\* action, whatever was cancelled, retried, restored or executed twice in
\* between, as long as no write of a status took an ended run back into
\* execution (_requires_approval, resume_after_approval).
THEOREM ApprovalComesFirst == ASSUME Settings PROVE Spec => []ApprovedWhileOpen
<1>1. IndInv => ApprovedWhileOpen
  BY DEF IndInv, Guarded, Clean, ApprovedWhileOpen
<1> QED BY <1>1, LoopInvariant, PTL

-----------------------------------------------------------------------------
(* What the step of one execution leaves to the others *)

\* Where a step of one execution leaves the others.
Stays(v) == at'[v] = at[v] /\ st'[v] = st[v]

LEMMA GoFrame ==
    ASSUME ThreadTypes, NEW w \in Executors, NEW n, NEW s, Go(w, n, s)
    PROVE  at'[w] = n /\ st'[w] = s /\ \A v \in Executors \ {w} : Stays(v)
BY DEF ThreadTypes, Go, Stays

LEMMA LeaveFrame ==
    ASSUME ThreadTypes, NEW w \in Executors, End(w) \/ Raise(w)
    PROVE  /\ at'[w] \in {"off", "raised"} /\ st'[w] = Blank
           /\ \A v \in Executors \ {w} : Stays(v)
BY DEF ThreadTypes, Go, Stays, End, Raise

Frame(w) ==
    /\ at[w] # "off" /\ upset \subseteq upset' /\ \A v \in Executors \ {w} : Stays(v)
    /\ at[w] # "resume" => at'[w] \notin {"resume", "resumed"}

LEMMA FailFrame ==
    ASSUME ThreadTypes, NEW w \in Executors, NEW s, NEW raises, FailNow(w, s, raises)
    PROVE  /\ upset \subseteq upset' /\ at'[w] \in {"off", "raised"}
           /\ \A v \in Executors \ {w} : Stays(v)
BY LeaveFrame DEF FailNow

LEMMA StopFrame ==
    ASSUME NEW w \in Executors, StopWrites(w)
    PROVE  upset' = upset
BY DEF StopWrites, history

LEMMA CheckFrame ==
    ASSUME ThreadTypes, NEW w \in Executors, NEW s, NEW node, Checkpoint(w, s, node)
    PROVE  /\ upset \subseteq upset' /\ at'[w] \in {node, "raised"}
           /\ \A v \in Executors \ {w} : Stays(v)
<1>1. CASE Go(w, node, Kept(Numbered(s), run)) /\ UNCHANGED upset
  BY <1>1, GoFrame
<1>2. CASE Raise(w) /\ upset \subseteq upset'
  BY <1>2, GoFrame DEF Raise
<1> QED BY <1>1, <1>2 DEF Checkpoint

LEMMA GraphFrame == ASSUME ThreadTypes, NEW w \in Executors, Graph(w) PROVE Frame(w)
<1>1. CASE Observe(w) BY <1>1, GoFrame, LeaveFrame DEF Observe, Frame, history
<1>2. CASE Enter(w) BY <1>2, GoFrame, LeaveFrame, FailFrame DEF Enter, Frame, SetRun
<1>3. CASE Recover(w)
  <2>1. at[w] = "recover"
    BY <1>3 DEF Recover
  <2>2. ASSUME NEW s, Checkpoint(w, s, "recover") PROVE Frame(w)
    BY <2>1, <2>2, CheckFrame DEF Frame
  <2>3. ASSUME NEW n \in {"policy", "decide", "raised"}, NEW s, Go(w, n, s), upset' = upset PROVE Frame(w)
    BY <2>1, <2>3, GoFrame DEF Frame
  <2>4. ASSUME End(w), upset \subseteq upset' PROVE Frame(w)
    BY <2>1, <2>4, LeaveFrame DEF Frame
  <2> QED BY <1>3, <2>2, <2>3, <2>4 DEF Recover, Raise, SetRun
<1>4. CASE Decide(w) BY <1>4, GoFrame, LeaveFrame, StopFrame DEF Decide, Frame, Stopped, history
<1>5. CASE Deciding(w)
  <2>1. at[w] = "deciding"
    BY <1>5 DEF Deciding
  <2>2. ASSUME NEW n \in {"policy", "wait_user", "replan", "verify", "complete", "fail", "pause"}, NEW s,
               Go(w, n, s), upset' = upset
        PROVE  Frame(w)
    BY <2>1, <2>2, GoFrame DEF Frame
  <2>3. ASSUME NEW s, NEW gated, Choose(w, s, gated) PROVE Frame(w)
    BY <2>2, <2>3 DEF Choose, history
  <2>4. ASSUME End(w) \/ Raise(w), upset' = upset PROVE Frame(w)
    BY <2>1, <2>4, LeaveFrame DEF Frame
  <2>5. ASSUME NEW s, NEW raises, FailNow(w, s, raises) PROVE Frame(w)
    BY <2>1, <2>5, FailFrame DEF Frame
  <2>6. CASE Stopped(w)
    BY <2>4, <2>6, StopFrame DEF Stopped
  <2>7. CASE Redo(w, st[w])
    BY <2>2, <2>3, <2>6, <2>7 DEF Redo, history
  <2>8. CASE Answered(w, st[w])
    BY <2>2, <2>3, <2>8 DEF Answered, history
  <2>9. CASE GatewayFails(w, st[w])
    BY <2>4, <2>5, <2>9 DEF GatewayFails, history
  <2>10. CASE GuardrailPauses(w, st[w])
    BY <2>2, <2>10 DEF GuardrailPauses, history
  <2>11. CASE Go(w, "fail", st[w]) /\ UNCHANGED <<run, rows, history>>
    BY <2>2, <2>11 DEF history
  <2> QED BY <1>5, <2>6, <2>7, <2>8, <2>9, <2>10, <2>11 DEF Deciding
<1>6. CASE Policy(w)
  <2>1. at[w] = "policy"
    BY <1>6 DEF Policy
  <2>2. ASSUME NEW n \in {"pause", "act"}, NEW s, Go(w, n, s), upset' = upset PROVE Frame(w)
    BY <2>1, <2>2, GoFrame DEF Frame
  <2>3. CASE FailNow(w, st[w], FALSE)
    BY <2>1, <2>3, FailFrame DEF Frame
  <2>4. CASE Stopped(w)
    BY <2>1, <2>4, LeaveFrame, StopFrame DEF Frame, Stopped
  <2> QED BY <1>6, <2>2, <2>3, <2>4 DEF Policy, history
<1>7. CASE Pause(w) BY <1>7, GoFrame DEF Pause, Frame, SetRun
<1>8. CASE Park(w) BY <1>8, LeaveFrame DEF Park, Frame, history
<1>9. CASE Act(w) BY <1>9, GoFrame, LeaveFrame, StopFrame DEF Act, Frame, Stopped, SetRun, history
<1>10. CASE Acting(w) BY <1>10, GoFrame, LeaveFrame, StopFrame DEF Acting, Frame, Stopped
<1>11. CASE Commit(w) BY <1>11, GoFrame, LeaveFrame, StopFrame DEF Commit, Frame, Stopped, history
<1>12. CASE Record(w) BY <1>12, GoFrame DEF Record, Frame, history
<1>13. CASE ObserveResult(w) BY <1>13, GoFrame, LeaveFrame, StopFrame DEF ObserveResult, Frame, Stopped, SetRun, history
<1>14. CASE Verify(w) BY <1>14, GoFrame, LeaveFrame, StopFrame DEF Verify, Frame, NoEdge, history
<1>15. CASE Verifying(w) BY <1>15, GoFrame, LeaveFrame, StopFrame, FailFrame DEF Verifying, Frame, NoEdge, history
<1>16. CASE Repair(w) BY <1>16, CheckFrame, LeaveFrame, StopFrame DEF Repair, Frame, NoEdge
<1>17. CASE Replan(w) BY <1>17, CheckFrame, GoFrame, StopFrame DEF Replan, Frame
<1>18. CASE Complete(w) BY <1>18, GoFrame, LeaveFrame, StopFrame DEF Complete, Frame, Stopped, history
<1>19. CASE Finalize(w) BY <1>19, LeaveFrame DEF Finalize, Frame
<1>20. CASE WaitUser(w) BY <1>20, LeaveFrame, StopFrame DEF WaitUser, Frame, Stopped
<1>21. CASE Fail(w) BY <1>21, LeaveFrame, StopFrame, FailFrame DEF Fail, Frame, Stopped
<1>22. CASE Raised(w) BY <1>22, LeaveFrame, FailFrame DEF Raised, Frame, history
<1>23. CASE Resume(w) BY <1>23, GoFrame DEF Resume, Frame, SetRun
<1>24. CASE SaveResumed(w) BY <1>24, GoFrame DEF SaveResumed, Frame, history
<1> QED BY <1>1, <1>2, <1>3, <1>4, <1>5, <1>6, <1>7, <1>8, <1>9, <1>10, <1>11, <1>12, <1>13, <1>14, <1>15, <1>16, <1>17, <1>18, <1>19, <1>20, <1>21, <1>22, <1>23, <1>24 DEF Graph

-----------------------------------------------------------------------------
(* The end of a run is announced *)

Announced ==
    /\ finals = 1
    /\ msg = CASE run = "succeeded" -> "completed"
               [] run = "failed" -> "failed"
               [] OTHER -> "cancelled"

Unannounced ==
    /\ finals = 0 /\ ~saved.emitted /\ ~ckpt.state.emitted
    /\ \A v \in Executors : at[v] # "off" => ~st[v].emitted

\* The same as an invariant: a run that goes on has announced nothing, and no
\* state that may be restored claims that it had.
EndsAreTold == upset = {} => IF run \in Terminal THEN Announced ELSE Unannounced

\* A step that announces nothing.
Silent(w) ==
    /\ finals' = finals
    /\ run \in Terminal => run' = run /\ msg' = msg
    /\ run \notin Terminal =>
          /\ run' \notin Terminal /\ ~saved'.emitted /\ ~ckpt'.state.emitted
          /\ at'[w] = "off" \/ ~st'[w].emitted

Ends == run' \in Terminal /\ Announced'

LEMMA SilentKeeps ==
    ASSUME EndsAreTold, upset = {}, NEW w \in Executors, Frame(w), Silent(w)
    PROVE  EndsAreTold'
BY DEF EndsAreTold, Announced, Unannounced, Silent, Frame, Stays

LEMMA BlankTells == ~Blank.emitted
BY DEF Blank

\* What an execution of a run that goes on finds.
Open(w) == run \notin Terminal =>
    /\ finals = 0 /\ ~saved.emitted /\ ~ckpt.state.emitted /\ ~st[w].emitted
    /\ run # "cancelled"

LEMMA KeptTells == ASSUME NEW s, run # "cancelled" PROVE Kept(s, run) = s
BY DEF Kept

LEMMA NumberedTells ==
    ASSUME NEW s \in Loose PROVE Numbered(s).emitted = s.emitted
BY DEF Numbered, Loose

\* A stop finds the run cancelled, and says nothing.
LEMMA StopTells ==
    ASSUME NEW w \in Executors, StopWrites(w)
    PROVE  Silent(w)
BY DEF StopWrites, Silent, history, tally, Terminal

LEMMA CheckpointTells ==
    ASSUME ThreadTypes, NEW w \in Executors, NEW s \in Loose, NEW node, Checkpoint(w, s, node),
           run \notin Terminal => ~saved.emitted /\ ~ckpt.state.emitted /\ ~s.emitted,
           run' = run, msg' = msg, finals' = finals, upset' = {}
    PROVE  Silent(w)
<1>1. /\ ckpt' = [seq |-> Number(s), state |-> Numbered(s)]
      /\ saved' = Kept(Numbered(s), run)
      /\ Go(w, node, Kept(Numbered(s), run))
  BY DEF Checkpoint
<1> QED BY <1>1, GoFrame, NumberedTells, KeptTells DEF Silent, Terminal

LEMMA FailTells ==
    ASSUME NEW w \in Executors, NEW s \in Loose, NEW raises, FailNow(w, s, raises),
           upset' = {}, finals = 0, ~s.emitted
    PROVE  Ends
BY DEF FailNow, Ends, Announced, Terminal

\* _fail of a run that has ended already overwrites its status.
LEMMA FailOverwrites ==
    ASSUME NEW w \in Executors, NEW s, NEW raises, FailNow(w, s, raises), run \in Terminal
    PROVE  upset' # {}
BY DEF FailNow, Overwritten


\* The graph's changes of a state in memory leave what it announced alone.
LEMMA ChangesTell ==
    ASSUME NEW s \in Loose, NEW a, NEW i
    PROVE  /\ [s EXCEPT !.act = a, !.step = a].emitted = s.emitted
           /\ [s EXCEPT !.iter = i, !.act = a, !.step = a].emitted = s.emitted
           /\ [s EXCEPT !.gkey = TRUE, !.appr = i].emitted = s.emitted
           /\ [s EXCEPT !.appr = i].emitted = s.emitted
           /\ [s EXCEPT !.iter = i, !.act = 0, !.step = 0, !.out = "none"].emitted = s.emitted
           /\ [s EXCEPT !.out = i].emitted = s.emitted
           /\ [s EXCEPT !.repairs = i].emitted = s.emitted
           /\ [s EXCEPT !.step = 0, !.emitted = TRUE].emitted = TRUE
BY DEF Loose

LEMMA OpenHolds ==
    ASSUME EndsAreTold, upset = {}, NEW w \in Executors, at[w] # "off"
    PROVE  Open(w)
BY DEF EndsAreTold, Unannounced, Open, Terminal

LEMMA DecidingTells ==
    ASSUME IndInv, NEW w \in Executors, Open(w), upset' = {}, Deciding(w)
    PROVE  Silent(w) \/ Ends
<1>1. st[w] \in Loose /\ ThreadTypes
  BY DEF IndInv, ThreadTypes
<1>2. CASE Stopped(w)
  BY <1>2, StopTells DEF Stopped
<1>3. ASSUME NEW t \in Loose, NEW g, Choose(w, t, g), t.emitted = st[w].emitted,
             saved' = saved \/ saved' = t
      PROVE  Silent(w)
  <2>1. st'[w].emitted = t.emitted
    <3>1. PICK x : x = [t EXCEPT !.act = Len(acts) + 1, !.step = Len(acts) + 1]
      OBVIOUS
    <3>2. Go(w, "policy", x)
      BY <1>3, <3>1 DEF Choose
    <3>3. st'[w] = x
      BY <1>1, <3>2, GoFrame
    <3> QED BY <3>1, <3>3, <1>3, ChangesTell
  <2> QED BY <1>3, <2>1 DEF Choose, Silent, Open, history, tally
<1>4. CASE Redo(w, st[w])
  <2> DEFINE t == [st[w] EXCEPT !.redo = "none"]
  <2>1. t \in Loose /\ t.emitted = st[w].emitted
    BY <1>1 DEF Loose
  <2>2. CASE saved' = t /\ Choose(w, t, st[w].redo = "gated")
    BY <2>1, <2>2, <1>3
  <2>3. CASE Go(w, "fail", st[w]) /\ UNCHANGED <<run, rows, history>>
    BY <1>1, <2>3, GoFrame DEF Silent, Open, rows, history, tally
  <2> QED BY <1>2, <1>4, <2>2, <2>3 DEF Redo
<1>5. CASE Answered(w, st[w])
  <2>1. ASSUME NEW g \in BOOLEAN, Choose(w, st[w], g) /\ UNCHANGED saved PROVE Silent(w)
    BY <1>1, <1>3, <2>1
  <2>2. ASSUME NEW node, Go(w, node, st[w]), UNCHANGED <<run, rows, history>> PROVE Silent(w)
    BY <1>1, <2>2, GoFrame DEF Silent, Open, rows, history, tally
  <2> QED BY <1>5, <2>1, <2>2 DEF Answered
<1>6. CASE Go(w, "fail", st[w]) /\ UNCHANGED <<run, rows, history>>
  BY <1>1, <1>6, GoFrame DEF Silent, Open, rows, history, tally
<1>7. CASE GatewayFails(w, st[w])
  <2>1. ASSUME NEW raises \in BOOLEAN, run \notin Terminal, FailNow(w, st[w], raises) PROVE Ends
    BY <1>1, <2>1, FailTells DEF Open
  <2>2. ASSUME run \in Terminal, UNCHANGED <<run, rows, history>> PROVE Silent(w)
    BY <2>2 DEF Silent, rows, history, tally
  <2> QED BY <1>7, <2>1, <2>2 DEF GatewayFails
<1>8. CASE GuardrailPauses(w, st[w])
  <2>1. st'[w].emitted = st[w].emitted
    <3>1. PICK x : x = [st[w] EXCEPT !.gkey = TRUE, !.appr = Len(appr) + 1]
      OBVIOUS
    <3>2. st'[w] = x
      BY <1>1, <1>8, <3>1, GoFrame DEF GuardrailPauses
    <3> QED BY <1>1, <3>1, <3>2, ChangesTell
  <2> QED BY <1>8, <2>1 DEF GuardrailPauses, Silent, Open, history, tally, AskFor
<1> QED BY <1>2, <1>4, <1>5, <1>6, <1>7, <1>8 DEF Deciding

LEMMA RecoverTells ==
    ASSUME IndInv, NEW w \in Executors, Open(w), upset' = {}, Recover(w)
    PROVE  Silent(w)
<1>1. st[w] \in Loose /\ ThreadTypes
  BY DEF IndInv, ThreadTypes
<1> DEFINE known == {a \in DOMAIN acts : Settled(a)}
           s == [st[w] EXCEPT !.seen = @ \cup known]
<1>2. s \in Loose /\ s.emitted = st[w].emitted
  <2>1. known \subseteq Nat
    BY Lengths DEF IndInv
  <2> QED BY <1>1, <2>1 DEF Loose
<1>3. UNCHANGED <<msg, finals>>
  BY DEF Recover, tally
<1> HIDE DEF s
<1>4. CASE Checkpoint(w, s, "recover") /\ UNCHANGED run
  BY <1>1, <1>2, <1>3, <1>4, CheckpointTells DEF Open
<1>5. CASE SetRun("waiting") /\ saved' = s /\ End(w) /\ UNCHANGED ckpt
  BY <1>1, <1>2, <1>3, <1>5, LeaveFrame, BlankTells DEF Silent, Open, SetRun, Overwritten, Terminal
<1>6. CASE saved' = Kept(s, run) /\ Raise(w) /\ UNCHANGED <<run, ckpt, upset>>
  BY <1>1, <1>2, <1>3, <1>6, LeaveFrame, BlankTells, KeptTells DEF Silent, Open
<1>7. ASSUME NEW a, NEW i, Go(w, "policy", [s EXCEPT !.iter = i, !.act = a, !.step = a]),
             UNCHANGED <<run, saved, ckpt, upset>>
      PROVE  Silent(w)
  <2>1. st'[w].emitted = s.emitted
    <3>1. PICK x : x = [s EXCEPT !.iter = i, !.act = a, !.step = a]
      OBVIOUS
    <3>2. st'[w] = x
      BY <1>1, <1>7, <3>1, GoFrame
    <3> QED BY <1>2, <3>1, <3>2, ChangesTell
  <2> QED BY <1>2, <1>3, <1>7, <2>1 DEF Silent, Open
<1>8. CASE Go(w, "decide", s) /\ UNCHANGED <<run, saved, ckpt, upset>>
  BY <1>1, <1>2, <1>3, <1>8, GoFrame DEF Silent, Open
<1> QED BY <1>4, <1>5, <1>6, <1>7, <1>8 DEF Recover, s

LEMMA CommitTells ==
    ASSUME IndInv, NEW w \in Executors, Open(w), upset' = {}, Commit(w)
    PROVE  Silent(w)
<1>1. st[w] \in Loose /\ ThreadTypes
  BY DEF IndInv, ThreadTypes
<1> DEFINE s == [st[w] EXCEPT !.seen = @ \cup {st[w].act}, !.seq = ckpt.seq + 1]
<1>2. s.emitted = st[w].emitted
  BY <1>1 DEF Loose
<1> HIDE DEF s
<1>3. CASE Stopped(w)
  BY <1>3, StopTells DEF Stopped
<1>4. CASE /\ ckpt' = [seq |-> s.seq, state |-> s] /\ Go(w, "record", s)
           /\ UNCHANGED <<run, saved, appr, msg, jobs, history>>
  BY <1>1, <1>2, <1>4, GoFrame DEF Silent, Open, history, tally
<1>5. CASE saved' = st[w] /\ Raise(w) /\ UNCHANGED <<run, ckpt, acts, appr, msg, jobs, history>>
  BY <1>1, <1>5, LeaveFrame, BlankTells DEF Silent, Open, history, tally
<1> QED BY <1>3, <1>4, <1>5 DEF Commit, s

LEMMA ObserveResultTells ==
    ASSUME IndInv, NEW w \in Executors, Open(w), upset' = {}, ObserveResult(w)
    PROVE  Silent(w)
<1>1. st[w] \in Loose /\ ThreadTypes
  BY DEF IndInv, ThreadTypes
<1>2. CASE Stopped(w)
  BY <1>2, StopTells DEF Stopped
<1>3. ASSUME NEW node, Go(w, node, st[w]), UNCHANGED <<run, rows, history>> PROVE Silent(w)
  BY <1>1, <1>3, GoFrame DEF Silent, Open, rows, history, tally
<1>4. CASE SetRun("waiting") /\ saved' = st[w] /\ End(w) /\ UNCHANGED <<ckpt, msg, tally>>
  BY <1>1, <1>4, LeaveFrame, BlankTells DEF Silent, Open, SetRun, Overwritten, Terminal, tally
<1>5. CASE /\ Go(w, "pause", [st[w] EXCEPT !.appr = Len(appr) + 1])
           /\ UNCHANGED <<run, saved, ckpt, msg, history>>
  <2>1. st'[w].emitted = st[w].emitted
    BY <1>1, <1>5, GoFrame DEF Loose
  <2> QED BY <1>5, <2>1 DEF Silent, Open, history, tally
<1> QED BY <1>2, <1>3, <1>4, <1>5 DEF ObserveResult


\* A step that leaves the run and the rows alone, or a node that only goes on.
LEMMA PassesTell ==
    ASSUME IndInv, NEW w \in Executors, Open(w), UNCHANGED <<run, saved, ckpt, msg, finals>>,
           at'[w] = "off" \/ ~st'[w].emitted \/ st'[w].emitted = st[w].emitted
    PROVE  Silent(w)
BY DEF Silent, Open

LEMMA RestoredTells ==
    ASSUME NEW s \in Loose, ckpt \in [seq : Nat, state : Loose]
    PROVE  Restore(s, ckpt).emitted \in {s.emitted, ckpt.state.emitted}
BY DEF Restore, Loose

LEMMA GraphTells ==
    ASSUME IndInv, NEW w \in Executors, Open(w), upset' = {}, Graph(w)
    PROVE  Silent(w) \/ Ends
<1> USE DEF rows, history, tally
<1>0. st[w] \in Loose /\ ThreadTypes
  BY DEF IndInv, ThreadTypes
<1>1. CASE Observe(w)
  BY <1>0, <1>1, GoFrame, LeaveFrame, PassesTell, BlankTells DEF Observe
<1>2. CASE Enter(w)
  <2>1. CASE FailNow(w, st[w], FALSE)
    BY <1>0, <2>1, FailTells, FailOverwrites DEF Open
  <2>2. ASSUME NEW node, SetRun("running"), saved' = st[w], Go(w, node, st[w]),
               UNCHANGED <<ckpt, msg, tally>>
        PROVE  Silent(w)
    BY <1>0, <2>2, GoFrame DEF Silent, Open, SetRun, Overwritten, Terminal
  <2> QED BY <1>2, <2>1, <2>2 DEF Enter
<1>3. CASE Recover(w)
  BY <1>3, RecoverTells
<1>4. CASE Decide(w)
  <2>1. CASE Stopped(w)
    BY <2>1, StopTells DEF Stopped
  <2>2. CASE Go(w, "fail", st[w]) /\ UNCHANGED <<run, rows, history>>
    BY <1>0, <2>2, GoFrame, PassesTell
  <2>3. CASE /\ Go(w, "deciding", [st[w] EXCEPT !.iter = @ + 1, !.act = 0, !.step = 0,
                                                !.out = "none"])
             /\ UNCHANGED <<run, rows, finals>>
    <3>1. PICK x : x = [st[w] EXCEPT !.iter = st[w].iter + 1, !.act = 0, !.step = 0,
                                     !.out = "none"]
      OBVIOUS
    <3>2. st'[w] = x
      BY <1>0, <2>3, <3>1, GoFrame
    <3>3. x.emitted = st[w].emitted
      BY <1>0, <3>1, ChangesTell
    <3> QED BY <2>3, <3>2, <3>3, PassesTell
  <2> QED BY <1>4, <2>1, <2>2, <2>3 DEF Decide
<1>5. CASE Deciding(w)
  BY <1>5, DecidingTells
<1>6. CASE Policy(w)
  <2>1. CASE Stopped(w)
    BY <2>1, StopTells DEF Stopped
  <2>2. CASE FailNow(w, st[w], FALSE)
    BY <1>0, <2>2, FailTells, FailOverwrites DEF Open
  <2>3. CASE /\ Go(w, "pause", [st[w] EXCEPT !.appr = Len(appr) + 1])
             /\ UNCHANGED <<run, saved, ckpt, msg, history>>
    <3>1. PICK x : x = [st[w] EXCEPT !.appr = Len(appr) + 1]
      OBVIOUS
    <3>2. st'[w] = x
      BY <1>0, <2>3, <3>1, GoFrame
    <3>3. x.emitted = st[w].emitted
      BY <1>0, <3>1, ChangesTell
    <3> QED BY <2>3, <3>2, <3>3, PassesTell
  <2>4. CASE Go(w, "act", st[w]) /\ UNCHANGED <<run, rows, history>>
    BY <1>0, <2>4, GoFrame, PassesTell
  <2> QED BY <1>6, <2>1, <2>2, <2>3, <2>4 DEF Policy
<1>7. CASE Pause(w)
  BY <1>0, <1>7, GoFrame DEF Pause, SetRun, Overwritten, Silent, Open, Terminal
<1>8. CASE Park(w)
  BY <1>0, <1>8, LeaveFrame, BlankTells, KeptTells DEF Park, Silent, Open, End
<1>9. CASE Act(w)
  <2>1. CASE Stopped(w)
    BY <2>1, StopTells DEF Stopped
  <2>2. CASE Go(w, "acting", st[w]) /\ UNCHANGED <<run, saved, ckpt, appr, msg, jobs, history>>
    BY <1>0, <2>2, GoFrame, PassesTell
  <2>3. CASE SetRun("waiting") /\ saved' = st[w] /\ End(w) /\ UNCHANGED <<ckpt, msg, tally>>
    BY <1>0, <2>3, LeaveFrame, BlankTells DEF Silent, Open, SetRun, Overwritten, Terminal
  <2>4. CASE End(w) /\ UNCHANGED <<run, rows, history>>
    BY <1>0, <2>4, LeaveFrame, BlankTells, PassesTell
  <2> QED BY <1>9, <2>1, <2>2, <2>3, <2>4 DEF Act
<1>10. CASE Acting(w)
  <2>1. CASE Stopped(w)
    BY <2>1, StopTells DEF Stopped
  <2>2. ASSUME NEW out, Go(w, "commit", [st[w] EXCEPT !.out = out]), UNCHANGED <<run, rows, finals>>
        PROVE  Silent(w)
    <3>1. PICK x : x = [st[w] EXCEPT !.out = out]
      OBVIOUS
    <3>2. st'[w] = x
      BY <1>0, <2>2, <3>1, GoFrame
    <3>3. x.emitted = st[w].emitted
      BY <1>0, <3>1, ChangesTell
    <3> QED BY <2>2, <3>2, <3>3, PassesTell
  <2> QED BY <1>10, <2>1, <2>2 DEF Acting
<1>11. CASE Commit(w)
  BY <1>11, CommitTells
<1>12. CASE Record(w)
  <2>1. st'[w] = Kept(st[w], run)
    BY <1>0, <1>12, GoFrame DEF Record
  <2> QED BY <1>12, <2>1, KeptTells DEF Record, Silent, Open
<1>13. CASE ObserveResult(w)
  BY <1>13, ObserveResultTells
<1>14. CASE Verify(w)
  <2>1. CASE NoEdge(w)
    BY <2>1, StopTells DEF NoEdge
  <2>2. CASE Go(w, "verifying", st[w]) /\ UNCHANGED <<run, rows, history>>
    BY <1>0, <2>2, GoFrame, PassesTell
  <2> QED BY <1>14, <2>1, <2>2 DEF Verify
<1>15. CASE Verifying(w)
  <2>1. CASE NoEdge(w)
    BY <2>1, StopTells DEF NoEdge
  <2>2. ASSUME NEW node, Go(w, node, st[w]), UNCHANGED <<run, rows, history>> PROVE Silent(w)
    BY <1>0, <2>2, GoFrame, PassesTell
  <2>3. CASE run \notin Terminal /\ FailNow(w, st[w], TRUE)
    BY <1>0, <2>3, FailTells DEF Open
  <2>4. CASE Raise(w) /\ UNCHANGED <<run, rows, history>>
    BY <1>0, <2>4, LeaveFrame, BlankTells, PassesTell
  <2> QED BY <1>15, <2>1, <2>2, <2>3, <2>4 DEF Verifying
<1>16. CASE Repair(w)
  <2>1. CASE NoEdge(w)
    BY <2>1, StopTells DEF NoEdge
  <2>2. PICK s : s = [st[w] EXCEPT !.repairs = @ + 1]
    OBVIOUS
  <2>3. s \in Loose /\ s.emitted = st[w].emitted
    <3>1. st[w].repairs + 1 \in Nat
      BY <1>0 DEF Loose
    <3> QED BY <1>0, <2>2, <3>1, ChangesTell DEF Loose
  <2>4. CASE /\ Checkpoint(w, s, IF s.repairs > MaxRepairs THEN "fail" ELSE "decide")
             /\ UNCHANGED <<run, acts, appr, msg, jobs, tally, trouble>>
    BY <1>0, <2>3, <2>4, CheckpointTells DEF Open
  <2> QED BY <1>16, <2>1, <2>2, <2>4 DEF Repair
<1>17. CASE Replan(w)
  <2>1. CASE StopWrites(w)
    BY <2>1, StopTells
  <2>2. CASE Checkpoint(w, st[w], "decide") /\ UNCHANGED <<run, acts, appr, msg, jobs, tally, trouble>>
    BY <1>0, <2>2, CheckpointTells DEF Open
  <2> QED BY <1>17, <2>1, <2>2 DEF Replan
<1>18. CASE Complete(w)
  <2>1. CASE Stopped(w)
    BY <2>1, StopTells DEF Stopped
  <2>2. CASE Go(w, "finalizing", st[w]) /\ UNCHANGED <<run, rows, history>>
    BY <1>0, <2>2, GoFrame, PassesTell
  <2> QED BY <1>18, <2>1, <2>2 DEF Complete
<1>19. CASE Finalize(w)
  <2>1. CASE run = "cancelled" /\ UNCHANGED <<run, msg, finals>>
    BY <2>1 DEF Silent, Terminal
  <2>2. CASE /\ run # "cancelled" /\ run' = "succeeded" /\ msg' = "completed"
             /\ finals' = finals + (IF st[w].emitted THEN 0 ELSE 1)
    <3>1. run \notin Terminal
      BY <1>19, <2>2 DEF Finalize, Terminal
    <3> QED BY <2>2, <3>1 DEF Ends, Announced, Terminal, Open
  <2> QED BY <1>19, <2>1, <2>2 DEF Finalize
<1>20. CASE WaitUser(w)
  <2>1. CASE Stopped(w)
    BY <2>1, StopTells DEF Stopped
  <2>2. CASE /\ run' = "waiting" /\ UNCHANGED <<acts, appr, jobs, tally, trouble>>
             /\ ckpt' = [seq |-> Number(st[w]), state |-> Numbered(st[w])]
             /\ saved' = Numbered(st[w]) /\ End(w) /\ upset' = upset \cup Overwritten
    BY <1>0, <2>2, NumberedTells, LeaveFrame, BlankTells DEF Silent, Open, Overwritten, Terminal
  <2> QED BY <1>20, <2>1, <2>2 DEF WaitUser
<1>21. CASE Fail(w)
  <2>1. CASE Stopped(w)
    BY <2>1, StopTells DEF Stopped
  <2>2. CASE FailNow(w, st[w], FALSE)
    BY <1>0, <2>2, FailTells, FailOverwrites DEF Open
  <2> QED BY <1>21, <2>1, <2>2 DEF Fail
<1>22. CASE Raised(w)
  <2>1. CASE /\ End(w) /\ (run' = run \/ (run \notin Terminal /\ run' = "retrying"))
             /\ UNCHANGED <<saved, ckpt, msg, finals>>
    BY <1>0, <2>1, LeaveFrame, BlankTells DEF Silent, Open, Terminal
  <2>2. CASE run \notin Terminal /\ FailNow(w, Restore(saved, ckpt), FALSE)
    <3>1. Restore(saved, ckpt) \in Loose
      BY RestoredState DEF IndInv, RowTypes
    <3>2. Restore(saved, ckpt).emitted \in {saved.emitted, ckpt.state.emitted}
      BY DEF Restore, IndInv, RowTypes, Loose
    <3> QED BY <2>2, <3>1, <3>2, FailTells DEF Open
  <2> QED BY <1>22, <2>1, <2>2 DEF Raised
<1>23. CASE Resume(w)
  BY <1>0, <1>23, GoFrame DEF Resume, Silent, Open, SetRun, Overwritten, Terminal
<1>24. CASE SaveResumed(w)
  <2>1. PICK k \in Loose : k = Kept(st[w], run)
    BY <1>0, KeptState DEF IndInv, RowTypes
  <2>2. /\ saved' = k /\ st'[w] = Restore(k, ckpt) /\ UNCHANGED <<run, ckpt, msg, finals>>
    BY <1>0, <1>24, <2>1, GoFrame DEF SaveResumed
  <2>3. Restore(k, ckpt).emitted \in {k.emitted, ckpt.state.emitted}
    BY RestoredTells DEF IndInv, RowTypes
  <2> QED BY <2>1, <2>2, <2>3, KeptTells DEF Silent, Open, Terminal
<1> QED BY <1>1, <1>2, <1>3, <1>4, <1>5, <1>6, <1>7, <1>8, <1>9, <1>10, <1>11, <1>12, <1>13, <1>14, <1>15, <1>16, <1>17, <1>18, <1>19, <1>20, <1>21, <1>22, <1>23, <1>24 DEF Graph

LEMMA DispatchTells ==
    ASSUME IndInv, EndsAreTold, NEW w \in Executors, Dispatch(w)
    PROVE  EndsAreTold'
<1>1. /\ UNCHANGED <<run, saved, ckpt, msg, finals>> /\ upset \subseteq upset'
      /\ st'[w] = Restore(saved, ckpt)
      /\ \A v \in Executors \ {w} : Stays(v)
  BY DEF Dispatch, IndInv, ThreadTypes, Stays, tally
<1>2. st'[w].emitted \in {saved.emitted, ckpt.state.emitted}
  BY <1>1, RestoredTells DEF IndInv, RowTypes
<1> QED BY <1>1, <1>2 DEF EndsAreTold, Announced, Unannounced, Stays

LEMMA CrashTells ==
    ASSUME IndInv, EndsAreTold, NEW w \in Executors, Crash(w)
    PROVE  EndsAreTold'
<1>1. /\ UNCHANGED <<run, saved, ckpt, msg, finals>> /\ upset \subseteq upset'
      /\ \A v \in Executors \ {w} : Stays(v)
  BY LeaveFrame DEF Crash, IndInv
<1>2. at'[w] = "off"
  BY DEF Crash, End, IndInv, ThreadTypes
<1> QED BY <1>1, <1>2 DEF EndsAreTold, Announced, Unannounced, Stays

LEMMA ResumeTells ==
    ASSUME IndInv, EndsAreTold, NEW p, NEW w \in Executors, ResumeAfterApproval(w, p)
    PROVE  EndsAreTold'
<1>1. PICK s \in Loose :
         /\ s = [saved EXCEPT
                   !.approved = IF saved.step = 0 THEN @ ELSE @ \cup {saved.step},
                   !.gok = @ \/ saved.gkey, !.gkey = FALSE, !.appr = 0]
         /\ s.emitted = saved.emitted
  BY ResumedRow DEF IndInv, RowTypes
<1>2. /\ UNCHANGED <<run, saved, ckpt, msg, finals>> /\ upset \subseteq upset'
      /\ st'[w] = s /\ \A v \in Executors \ {w} : Stays(v)
  BY <1>1, GoFrame DEF ResumeAfterApproval, IndInv, tally
<1> QED BY <1>1, <1>2 DEF EndsAreTold, Announced, Unannounced, Stays

LEMMA RejectTells ==
    ASSUME IndInv, EndsAreTold, NEW p, RejectApproval(p)
    PROVE  EndsAreTold'
<1>1. UNCHANGED <<at, st, ckpt, upset>>
  BY DEF RejectApproval, threads
<1>2. CASE run \in Terminal
  BY <1>1, <1>2 DEF RejectApproval, EndsAreTold, Announced
<1>3. CASE run \notin Terminal
  BY <1>1, <1>3 DEF RejectApproval, EndsAreTold, Announced, Unannounced, Terminal
<1> QED BY <1>2, <1>3

LEMMA CancelTells ==
    ASSUME IndInv, EndsAreTold, CancelRun
    PROVE  EndsAreTold'
<1>1. PICK s : s = [saved EXCEPT !.appr = 0, !.gkey = FALSE, !.step = 0]
  OBVIOUS
<1>2. s.emitted = saved.emitted
  BY <1>1 DEF IndInv, RowTypes, Loose
<1>3. run \notin Terminal /\ run' = "cancelled"
  BY DEF CancelRun
<1>4. CASE /\ Fits(s) /\ msg' = "cancelled"
           /\ finals' = finals + (IF s.emitted THEN 0 ELSE 1) /\ UNCHANGED upset
  BY <1>2, <1>3, <1>4 DEF EndsAreTold, Announced, Unannounced, Terminal
<1>5. CASE upset' = upset \cup {"number"}
  BY <1>5 DEF EndsAreTold
<1> QED BY <1>1, <1>4, <1>5 DEF CancelRun

LEMMA RetryTells ==
    ASSUME Settings, IndInv, EndsAreTold, RetryRun
    PROVE  EndsAreTold'
<1>1. PICK r \in Loose : r = Restore(saved, ckpt)
  BY LoadedState
<1>2. PICK s \in Loose :
       s = LET undone == r.act \in DOMAIN acts /\ acts[r.act].status /= "succeeded" IN
              [r EXCEPT !.repairs = 0, !.act = 0, !.step = 0, !.appr = 0, !.gkey = FALSE,
                   !.emitted = FALSE, !.start = r.iter,
                   !.approved = IF undone THEN @ \ {r.act} ELSE @,
                   !.redo = IF ~undone THEN @
                            ELSE IF acts[r.act].gated THEN "gated" ELSE "free"]
  BY RetriedState
<1>3. ~s.emitted
  BY <1>2 DEF Loose
<1>4. ckpt' = [seq |-> Number(s), state |-> Numbered(s)] /\ saved' = Numbered(s)
  BY <1>1, <1>2 DEF RetryRun
<1>5. ~Numbered(s).emitted
  BY <1>3, NumberedTells
<1>6. run' = "queued" /\ finals' = 0 /\ UNCHANGED at /\ upset' = upset \cup Overlap
  BY DEF RetryRun, threads
<1>7. upset' = {} => \A v \in Executors : at[v] = "off"
  BY <1>6 DEF Overlap
<1> QED BY <1>4, <1>5, <1>6, <1>7 DEF EndsAreTold, Unannounced, Terminal

LEMMA TellingStep ==
    ASSUME Settings, IndInv, EndsAreTold, [Next]_vars
    PROVE  EndsAreTold'
<1>1. CASE UNCHANGED vars
  BY <1>1 DEF vars, rows, threads, history, tally, EndsAreTold, Announced, Unannounced
<1>2. ASSUME NEW w \in Executors, Graph(w) PROVE EndsAreTold'
  <2>1. Frame(w)
    BY <1>2, GraphFrame DEF IndInv
  <2> SUFFICES ASSUME upset' = {} PROVE EndsAreTold'
    BY DEF EndsAreTold
  <2>2. upset = {} /\ Open(w)
    BY <2>1, OpenHolds DEF Frame
  <2>3. CASE Silent(w)
    BY <2>1, <2>2, <2>3, SilentKeeps
  <2>4. CASE Ends
    BY <2>4 DEF Ends, EndsAreTold
  <2> QED BY <1>2, <2>2, <2>3, <2>4, GraphTells
<1> QED BY <1>1, <1>2, DispatchTells, CrashTells, RejectTells, ResumeTells, CancelTells, RetryTells DEF Next

\* A run that has ended has told so exactly once and its trigger message is
\* settled the same way, whichever of its executions, approvals or cancellations
\* ended it (_emit_terminal_once, _complete_trigger_message).
THEOREM EndsAreAnnounced == ASSUME Settings PROVE Spec => []EndedIsAnnounced
<1>1. Init => EndsAreTold
  BY BlankTells DEF Init, EndsAreTold, Unannounced, Terminal
<1>2. IndInv /\ EndsAreTold /\ [Next]_vars => EndsAreTold'
  BY TellingStep
<1>3. EndsAreTold => EndedIsAnnounced
  BY DEF EndsAreTold, Announced, EndedIsAnnounced
<1> QED BY <1>1, <1>2, <1>3, LoopInvariant, PTL DEF Spec

-----------------------------------------------------------------------------
(* A waiting run can be answered *)

\* Until a second execution begins, the executions follow one another.
Sole == \A v, w \in Executors : at[v] # "off" /\ at[w] # "off" => v = w
OneByOne == "overlap" \notin upset => Sole

LEMMA SoleStep ==
    ASSUME IndInv, OneByOne, [Next]_vars
    PROVE  OneByOne'
<1>0. ThreadTypes
  BY DEF IndInv
<1>1. CASE UNCHANGED vars
  BY <1>1 DEF vars, threads, history, OneByOne, Sole
<1>2. ASSUME NEW w \in Executors, Graph(w) PROVE OneByOne'
  BY <1>0, <1>2, GraphFrame DEF Frame, Stays, OneByOne, Sole
<1>3. ASSUME NEW w \in Executors, Crash(w) PROVE OneByOne'
  <2>1. at[w] # "off" /\ upset \subseteq upset' /\ \A v \in Executors \ {w} : Stays(v)
    BY <1>0, <1>3, LeaveFrame DEF Crash
  <2> QED BY <2>1 DEF Stays, OneByOne, Sole
<1>4. ASSUME NEW w \in Executors, NEW s, at' = [at EXCEPT ![w] = s], Overlap \subseteq upset',
             upset \subseteq upset'
      PROVE  OneByOne'
  BY <1>0, <1>4 DEF ThreadTypes, Overlap, OneByOne, Sole
<1>5. ASSUME NEW w \in Executors, Dispatch(w) PROVE OneByOne'
  BY <1>4, <1>5 DEF Dispatch
<1>6. ASSUME NEW w \in Executors, NEW p, ResumeAfterApproval(w, p) PROVE OneByOne'
  <2>1. at' = [at EXCEPT ![w] = "resume"] /\ upset' = upset \cup Overlap
    BY <1>6 DEF ResumeAfterApproval, Go
  <2> QED BY <1>4, <2>1
<1>7. ASSUME NEW p, RejectApproval(p) PROVE OneByOne'
  BY <1>7 DEF RejectApproval, threads, OneByOne, Sole
<1>8. CASE CancelRun \/ RetryRun
  <2>1. UNCHANGED at /\ upset \subseteq upset'
    BY <1>8 DEF CancelRun, RetryRun, threads
  <2> QED BY <2>1 DEF OneByOne, Sole
<1> QED BY <1>1, <1>2, <1>3, <1>5, <1>6, <1>7, <1>8 DEF Next

Pending(s) == s.appr \in DOMAIN appr /\ appr[s.appr].status = "pending"

\* What makes it so: a thread that is about to pause names its request, and no
\* thread is further than observe or its grant while the run awaits.
Answerable == upset = {} =>
    /\ \A w \in Executors :
          at[w] \in {"pause", "park"} /\ run \notin Terminal => Pending(st[w])
    /\ run = "awaiting" => \A w \in Executors : 
          at[w] \in {"off", "observe", "enter", "park", "resume"}
    /\ run = "awaiting" /\ Quiet => Pending(saved)

Working == Nodes \ {"observe", "enter", "pause", "park", "resume"}

\* A node that does not pause.
Works(w) == (run' = "awaiting" => run = "awaiting") /\ at'[w] \notin {"pause", "park"}

LEMMA AskForNames ==
    ASSUME IndInv, NEW w \in Executors, NEW step, AskFor(step),
           NEW x, Go(w, "pause", x), x.appr = Len(appr) + 1
    PROVE  Pending(st[w])'
<1>1. st'[w] = x /\ Len(appr) \in Nat
  BY GoFrame, Lengths DEF IndInv
<1>2. appr' = Append(appr, [step |-> step, status |-> "pending"]) /\ appr \in Seq(ApprRow)
  BY DEF AskFor, IndInv, RowTypes
<1>3. Len(appr) + 1 \in DOMAIN appr' /\ appr'[Len(appr) + 1].status = "pending"
  BY <1>1, <1>2
<1> QED BY <1>1, <1>3 DEF Pending

LEMMA StopWorks ==
    ASSUME IndInv, NEW w \in Executors, StopWrites(w), End(w) \/ Raise(w)
    PROVE  Works(w)
BY LeaveFrame DEF IndInv, StopWrites, Works

LEMMA FailWorks ==
    ASSUME IndInv, NEW w \in Executors, NEW s, NEW raises, FailNow(w, s, raises)
    PROVE  Works(w)
BY LeaveFrame DEF IndInv, FailNow, Works

LEMMA CheckpointWorks ==
    ASSUME IndInv, NEW w \in Executors, NEW s, NEW node, node \notin {"pause", "park"},
           Checkpoint(w, s, node), UNCHANGED run
    PROVE  Works(w)
BY GoFrame, LeaveFrame DEF IndInv, Checkpoint, Works

LEMMA WorkingStep ==
    ASSUME IndInv, NEW w \in Executors, Graph(w), at[w] \in Working
    PROVE  \/ Works(w)
           \/ /\ at'[w] = "pause" /\ run' = run /\ Pending(st[w])'
<1> USE DEF rows
<1>0. st[w] \in Loose /\ ThreadTypes /\ at[w] \notin {"observe", "enter", "pause", "park", "resume"}
  BY DEF IndInv, ThreadTypes, Working
<1>3. CASE Recover(w)
  <2>1. ASSUME NEW s, Checkpoint(w, s, "recover"), UNCHANGED run PROVE Works(w)
    BY <2>1, CheckpointWorks
  <2>2. ASSUME SetRun("waiting"), End(w) PROVE Works(w)
    BY <1>0, <2>2, LeaveFrame DEF SetRun, Works
  <2>3. ASSUME Raise(w), UNCHANGED run PROVE Works(w)
    BY <1>0, <2>3, LeaveFrame DEF Works
  <2>4. ASSUME NEW n \in {"policy", "decide"}, NEW s, Go(w, n, s), UNCHANGED run PROVE Works(w)
    BY <1>0, <2>4, GoFrame DEF Works
  <2> QED BY <1>3, <2>1, <2>2, <2>3, <2>4, ZenonT(30) DEF Recover
<1>4. CASE Decide(w)
  BY <1>0, <1>4, GoFrame, StopWorks DEF Decide, Stopped, Works
<1>5. CASE Deciding(w)
  <2>1. CASE GuardrailPauses(w, st[w])
    <3>1. PICK x : x = [st[w] EXCEPT !.gkey = TRUE, !.appr = Len(appr) + 1]
      OBVIOUS
    <3>2. Go(w, "pause", x) /\ AskFor(0) /\ run' = run
      BY <2>1, <3>1 DEF GuardrailPauses
    <3>3. x.appr = Len(appr) + 1
      BY <1>0, <3>1 DEF Loose
    <3> QED BY <1>0, <3>2, <3>3, GoFrame, AskForNames
  <2>2. CASE Redo(w, st[w])
    BY <1>0, <2>2, GoFrame, StopWorks DEF Redo, Choose, Stopped, Works
  <2>3. CASE Answered(w, st[w])
    <3>1. ASSUME NEW g, Choose(w, st[w], g) PROVE Works(w)
      BY <1>0, <3>1, GoFrame DEF Choose, Works
    <3>2. ASSUME NEW n \in {"wait_user", "replan", "verify", "complete", "fail"},
                 Go(w, n, st[w]), UNCHANGED run
          PROVE  Works(w)
      BY <1>0, <3>2, GoFrame DEF Works
    <3> QED BY <2>3, <3>1, <3>2 DEF Answered
  <2>4. CASE GatewayFails(w, st[w])
    BY <1>0, <2>4, LeaveFrame, FailWorks DEF GatewayFails, Works
  <2>5. CASE Stopped(w)
    BY <2>5, StopWorks DEF Stopped
  <2>6. CASE Go(w, "fail", st[w]) /\ UNCHANGED <<run, rows, history>>
    BY <1>0, <2>6, GoFrame DEF Works
  <2> QED BY <1>5, <2>1, <2>2, <2>3, <2>4, <2>5, <2>6 DEF Deciding
<1>6. CASE Policy(w)
  <2>1. CASE /\ AskFor(st[w].act) /\ Go(w, "pause", [st[w] EXCEPT !.appr = Len(appr) + 1])
             /\ UNCHANGED run
    <3>1. PICK x : x = [st[w] EXCEPT !.appr = Len(appr) + 1]
      OBVIOUS
    <3>2. x.appr = Len(appr) + 1
      BY <1>0, <3>1 DEF Loose
    <3> QED BY <1>0, <2>1, <3>1, <3>2, GoFrame, AskForNames
  <2>2. CASE Go(w, "act", st[w]) /\ UNCHANGED run
    BY <1>0, <2>2, GoFrame DEF Works
  <2> QED BY <1>6, <2>1, <2>2, StopWorks, FailWorks DEF Policy, Stopped
<1>9. CASE Act(w)
  BY <1>0, <1>9, GoFrame, LeaveFrame, StopWorks DEF Act, Stopped, SetRun, Works
<1>10. CASE Acting(w)
  BY <1>0, <1>10, GoFrame, StopWorks DEF Acting, Stopped, Works
<1>11. CASE Commit(w)
  BY <1>0, <1>11, GoFrame, LeaveFrame, StopWorks DEF Commit, Stopped, Works
<1>12. CASE Record(w)
  BY <1>0, <1>12, GoFrame DEF Record, Works
<1>13. CASE ObserveResult(w)
  <2>1. CASE /\ AskFor(st[w].act) /\ Go(w, "pause", [st[w] EXCEPT !.appr = Len(appr) + 1])
             /\ UNCHANGED run
    <3>1. PICK x : x = [st[w] EXCEPT !.appr = Len(appr) + 1]
      OBVIOUS
    <3>2. x.appr = Len(appr) + 1
      BY <1>0, <3>1 DEF Loose
    <3> QED BY <1>0, <2>1, <3>1, <3>2, GoFrame, AskForNames
  <2>2. ASSUME NEW n \in {"decide", "complete", "repair", "fail"}, Go(w, n, st[w]), UNCHANGED run
        PROVE  Works(w)
    BY <1>0, <2>2, GoFrame DEF Works
  <2>3. CASE SetRun("waiting") /\ End(w)
    BY <1>0, <2>3, LeaveFrame DEF SetRun, Works
  <2>4. CASE Stopped(w)
    BY <2>4, StopWorks DEF Stopped
  <2> QED BY <1>13, <2>1, <2>2, <2>3, <2>4 DEF ObserveResult
<1>14. CASE Verify(w)
  BY <1>0, <1>14, GoFrame, StopWorks DEF Verify, NoEdge, Works
<1>15. CASE Verifying(w)
  BY <1>0, <1>15, GoFrame, LeaveFrame, StopWorks, FailWorks DEF Verifying, NoEdge, Works
<1>16. CASE Repair(w)
  BY <1>0, <1>16, StopWorks, CheckpointWorks DEF Repair, NoEdge
<1>17. CASE Replan(w)
  BY <1>0, <1>17, GoFrame, CheckpointWorks DEF Replan, StopWrites, Works
<1>18. CASE Complete(w)
  BY <1>0, <1>18, GoFrame, StopWorks DEF Complete, Stopped, Works
<1>19. CASE Finalize(w)
  BY <1>0, <1>19, LeaveFrame DEF Finalize, Works
<1>20. CASE WaitUser(w)
  BY <1>0, <1>20, LeaveFrame, StopWorks DEF WaitUser, Stopped, Works
<1>21. CASE Fail(w)
  BY <1>21, StopWorks, FailWorks DEF Fail, Stopped
<1>22. CASE Raised(w)
  BY <1>0, <1>22, LeaveFrame, FailWorks DEF Raised, Works
<1>23. CASE SaveResumed(w)
  BY <1>0, <1>23, GoFrame DEF SaveResumed, Works
<1> QED BY <1>0, <1>3, <1>4, <1>5, <1>6, <1>9, <1>10, <1>11, <1>12, <1>13, <1>14, <1>15, <1>16, <1>17, <1>18, <1>19, <1>20, <1>21, <1>22, <1>23
        DEF Graph, Observe, Enter, Pause, Park, Resume

LEMMA WorkingNodes ==
    ASSUME NEW w \in Executors, Graph(w)
    PROVE  at[w] \in Working \/ Observe(w) \/ Enter(w) \/ Pause(w) \/ Park(w) \/ Resume(w)
BY DEF Graph, Working, Nodes, Resuming, SaveResumed, Recover, Decide, Deciding, Policy, Act, Acting, Commit, Record,
       ObserveResult, Verify, Verifying, Repair, Replan, Complete, Finalize, WaitUser, Fail, Raised

LEMMA GraphAnswers ==
    ASSUME IndInv, OneByOne, Answerable, NEW w \in Executors, Graph(w)
    PROVE  Answerable'
<1> SUFFICES ASSUME upset' = {} PROVE Answerable'
  BY DEF Answerable
<1>1. /\ at[w] # "off" /\ upset = {} /\ \A v \in Executors \ {w} : Stays(v)
  BY GraphFrame DEF IndInv, Frame
<1>2. \A v \in Executors \ {w} : at[v] = "off" /\ at'[v] = "off"
  BY <1>1 DEF OneByOne, Sole, Stays
<1>3. CASE at[w] \in Working
  <2>1. run # "awaiting"
    BY <1>1, <1>3 DEF Answerable, Working
  <2> QED BY <1>2, <1>3, <2>1, WorkingStep DEF Answerable, Works
<1>4. CASE Observe(w)
  <2>1. (run \in Terminal \/ at'[w] = "enter") /\ UNCHANGED run /\ at'[w] \notin {"pause", "park"}
    BY <1>4, GoFrame, LeaveFrame DEF IndInv, Observe
  <2> QED BY <1>2, <2>1 DEF Answerable, Terminal, Quiet
<1>5. CASE Enter(w)
  <2>1. run' # "awaiting" /\ at'[w] \notin {"pause", "park"}
    BY <1>5, GoFrame, LeaveFrame DEF IndInv, Enter, SetRun, FailNow
  <2> QED BY <1>2, <2>1 DEF Answerable
<1>6. CASE Pause(w)
  <2>1. /\ run \notin Terminal /\ at[w] = "pause" /\ at'[w] = "park" /\ st'[w] = st[w]
        /\ UNCHANGED appr
    BY <1>6, GoFrame DEF IndInv, Pause, SetRun, Overwritten, rows
  <2> QED BY <1>1, <1>2, <2>1 DEF Answerable, Quiet, Pending
<1>7. CASE Park(w)
  <2>1. /\ at[w] = "park" /\ at'[w] \notin {"pause", "park"} /\ UNCHANGED <<run, appr>>
        /\ saved' = Kept(st[w], run)
        /\ at'[w] = "off"
    BY <1>7, LeaveFrame DEF IndInv, Park, End, ThreadTypes
  <2>2. run = "awaiting" => Pending(st[w]) /\ saved' = st[w]
    BY <1>1, <2>1, KeptTells DEF Answerable, Terminal
  <2> QED BY <1>2, <2>1, <2>2 DEF Answerable, Pending
<1>8. CASE Resume(w)
  <2>1. run' # "awaiting" /\ at'[w] \notin {"pause", "park"}
    BY <1>8, GoFrame DEF IndInv, Resume, SetRun
  <2> QED BY <1>2, <2>1 DEF Answerable
<1> QED BY <1>3, <1>4, <1>5, <1>6, <1>7, <1>8, WorkingNodes

LEMMA OthersAnswer ==
    ASSUME Settings, IndInv, OneByOne, Answerable,
           \/ \E w \in Executors : Dispatch(w) \/ Crash(w)
           \/ \E p \in DOMAIN appr : \/ RejectApproval(p)
                                     \/ \E w \in Executors : ResumeAfterApproval(w, p)
           \/ CancelRun \/ RetryRun
    PROVE  Answerable'
<1>0. ThreadTypes /\ 1 \in 1..MaxTries
  BY DEF IndInv, Settings
<1>1. ASSUME NEW w \in Executors, Dispatch(w) PROVE Answerable'
  <2>1. /\ UNCHANGED <<run, appr>> /\ upset \subseteq upset' /\ at' = [at EXCEPT ![w] = "observe"]
        /\ \A v \in Executors \ {w} : Stays(v)
    BY <1>0, <1>1 DEF Dispatch, ThreadTypes, Stays
  <2>2. at'[w] = "observe" /\ ~Quiet'
    BY <1>0, <2>1 DEF ThreadTypes, Quiet
  <2> QED BY <2>1, <2>2 DEF Answerable, Stays, Pending
<1>2. ASSUME NEW w \in Executors, Crash(w) PROVE Answerable'
  <2>1. /\ UNCHANGED <<run, appr, saved>> /\ upset \subseteq upset' /\ at'[w] = "off"
        /\ \A v \in Executors \ {w} : Stays(v)
    BY <1>0, <1>2, LeaveFrame DEF Crash, ThreadTypes, End
  <2>2. upset' = {} => ~Quiet'
    <3>1. CASE upset' = upset \cup {"abandoned"}
      BY <3>1
    <3>2. CASE via[w] \in 1..(MaxTries - 1) /\ jobs' = [jobs EXCEPT ![via[w] + 1] = @ + 1]
      <4>1. via[w] + 1 \in 1..MaxTries
        BY <3>2 DEF Settings
      <4>2. PICK k \in 1..MaxTries : k = via[w] + 1
        BY <4>1
      <4>3. jobs[k] \in Nat /\ jobs'[k] = jobs[k] + 1
        BY <1>0, <3>2, <4>2 DEF ThreadTypes
      <4>4. jobs'[k] # 0
        BY <4>3
      <4> QED BY <4>4 DEF Quiet
    <3> QED BY <1>2, <3>1, <3>2 DEF Crash
  <2> QED BY <2>1, <2>2 DEF Answerable, Stays, Pending
<1>3. ASSUME NEW p, RejectApproval(p) PROVE Answerable'
  <2>1. run' \in Terminal /\ UNCHANGED at
    BY <1>3 DEF RejectApproval, Terminal, threads
  <2> QED BY <2>1 DEF Answerable, Terminal
<1>4. ASSUME NEW p, NEW w \in Executors, ResumeAfterApproval(w, p) PROVE Answerable'
  <2>1. at' = [at EXCEPT ![w] = "resume"] /\ upset' = upset \cup Overlap
    BY <1>4 DEF ResumeAfterApproval, Go
  <2>2. /\ at'[w] = "resume" /\ ~Quiet'
        /\ upset' = {} => \A v \in Executors : at'[v] \in {"off", "resume"}
    BY <1>0, <2>1 DEF ThreadTypes, Overlap, Quiet
  <2> QED BY <2>2 DEF Answerable
<1>5. CASE CancelRun
  <2>1. run' = "cancelled"
    BY <1>5 DEF CancelRun
  <2> QED BY <2>1 DEF Answerable, Terminal
<1>6. CASE RetryRun
  <2>1. run' = "queued" /\ UNCHANGED at /\ upset' = upset \cup Overlap
    BY <1>6 DEF RetryRun, threads
  <2>2. upset' = {} => \A v \in Executors : at'[v] = "off"
    BY <2>1 DEF Overlap
  <2> QED BY <2>1, <2>2 DEF Answerable
<1> QED BY <1>1, <1>2, <1>3, <1>4, <1>5, <1>6

LEMMA AnsweringStep ==
    ASSUME Settings, IndInv, OneByOne, Answerable, [Next]_vars
    PROVE  Answerable'
<1>1. CASE UNCHANGED vars
  BY <1>1 DEF vars, rows, threads, history, Answerable, Pending, Quiet
<1>2. CASE \E w \in Executors : Graph(w)
  BY <1>2, GraphAnswers
<1> QED BY <1>1, <1>2, OthersAnswer DEF Next

\* A run that awaits an approval while nobody executes it can be answered: its
\* saved state names a request that is still pending, although the status and the
\* state are written one after the other and the execution may die in between
\* (_pause_for_approval).
THEOREM WaitingRunsAreAnswerable == ASSUME Settings PROVE Spec => []WaitingIsAnswerable
<1>1. Init => OneByOne /\ Answerable
  BY DEF Init, OneByOne, Sole, Answerable
<1>2. IndInv /\ OneByOne /\ Answerable /\ [Next]_vars => OneByOne' /\ Answerable'
  BY SoleStep, AnsweringStep
<1>3. Answerable => WaitingIsAnswerable
  BY DEF Answerable, WaitingIsAnswerable, Pending
<1> QED BY <1>1, <1>2, <1>3, LoopInvariant, PTL DEF Spec

-----------------------------------------------------------------------------
(* The decisions of an attempt are counted *)

Calm == upset \cap {"overlap", "overwritten"} = {}

\* A state of the present attempt, within its budget.
InBudget(s, b) == s.start = b /\ b <= s.iter /\ s.iter <= b + MaxIterations

\* Every action was chosen within the budget.
Chosen(A, b) == \A a \in DOMAIN A : A[a].iter <= b + MaxIterations

IsBudgeted ==
    /\ asked \in Nat /\ lost \in Nat /\ asked <= MaxIterations + lost
    /\ InBudget(saved, saved.start) /\ InBudget(ckpt.state, saved.start)
    /\ Chosen(acts, saved.start)
    /\ \A w \in Executors : at[w] \notin {"off", "raised"} => InBudget(st[w], saved.start)
    /\ run \in {"succeeded", "failed"} =>
          \A w \in Executors : at[w] \in {"off", "observe", "raised", "resume"}

\* The nodes where the state that a new execution would restore has counted
\* every decision; elsewhere it may lack the one at hand.
Exact == {"off", "resume", "resumed", "observe", "enter", "recover", "decide", "record", "observe_result"}

Lag == IF \E w \in Executors : at[w] \notin Exact THEN 1 ELSE 0

\* Two states that no decision separates.
Even(x, s) == x.iter = s.iter /\ x.start = s.start /\ x.seq = s.seq

\* A thread has counted every decision its attempt asked for, except those of
\* executions that raised or died.
Counts(w) ==
    at[w] \notin {"off", "raised", "resume", "resumed"} =>
        /\ st[w].seq = ckpt.seq
        /\ asked + saved.start <= st[w].iter + lost
        /\ at[w] \in {"policy", "act"} => acts[st[w].act].status = "pending"

IsCounted ==
    run \notin Terminal =>
        /\ asked + saved.start <= Restore(saved, ckpt).iter + lost + Lag
        /\ \A w \in Executors : Counts(w)
        /\ \A w \in Executors : at[w] \in {"resume", "resumed"} => Even(st[w], saved)

Budgeted == Calm => IsBudgeted /\ IsCounted

\* What an acting thread finds, the others being off.
Ready(w) ==
    /\ at[w] \notin {"off", "resume", "resumed"}
    /\ \A v \in Executors \ {w} : at[v] = "off" /\ at'[v] = "off"
    /\ IsBudgeted /\ IsCounted /\ Calm'

\* What its step has to leave.
Lagging(w) == IF at[w] \in Exact THEN 0 ELSE 1

Within(w) ==
    /\ asked' \in Nat /\ lost' \in Nat /\ asked' <= MaxIterations + lost'
    /\ InBudget(saved', saved.start) /\ InBudget(ckpt'.state, saved.start)
    /\ Chosen(acts', saved.start)
    /\ at'[w] \notin {"off", "raised"} => InBudget(st'[w], saved.start)
    /\ run' \in {"succeeded", "failed"} => at'[w] \in {"off", "observe", "raised"}
    /\ run' \notin Terminal =>
          /\ asked' + saved.start <= Restore(saved', ckpt').iter + lost' + Lagging(w)'
          /\ Counts(w)'

LEMMA WithinKeeps ==
    ASSUME NEW w \in Executors, Ready(w), Within(w), at'[w] \notin {"resume", "resumed"}
    PROVE  Budgeted'
<1>1. saved'.start = saved.start
  BY DEF Within, InBudget
<1>2. IsBudgeted'
  BY <1>1 DEF Ready, Within, IsBudgeted
<1>3. Lagging(w)' = Lag'
  BY DEF Ready, Lagging, Lag, Exact
<1>4. IsCounted'
  BY <1>1, <1>3 DEF Ready, Within, IsCounted, Counts
<1> QED BY <1>2, <1>4 DEF Budgeted

\* The states the rows and the threads hold, as numbers.
LEMMA CountTypes ==
    ASSUME IndInv, NEW w \in Executors
    PROVE  /\ saved \in Loose /\ ckpt.state \in Loose /\ st[w] \in Loose /\ ckpt.seq \in Nat
           /\ saved.start \in Nat /\ saved.seq \in Nat /\ saved.iter \in Nat
           /\ saved.seq <= ckpt.seq /\ st[w].seq <= ckpt.seq
           /\ st[w].seq \in Nat /\ st[w].iter \in Nat /\ st[w].start \in Nat
           /\ ckpt \in [seq : Nat, state : Loose]
BY Brings, Lengths DEF IndInv, RowTypes, Loose, Refers

\* The rows of the actions keep the iteration they were chosen in.
Dated(A) == DOMAIN A = DOMAIN acts /\ \A a \in DOMAIN acts : A[a].iter = acts[a].iter

LEMMA StatusDates ==
    ASSUME acts \in Seq(ActRow), NEW a, NEW x
    PROVE  Dated([acts EXCEPT ![a].status = x])
BY DEF Dated, ActRow

LEMMA WithdrawnDates ==
    ASSUME acts \in Seq(ActRow), NEW a
    PROVE  Dated(Withdrawn(a))
BY StatusDates DEF Withdrawn, Dated

LEMMA SameDates == Dated(acts)
BY DEF Dated

LEMMA DatedActs ==
    ASSUME IsBudgeted, Dated(acts')
    PROVE  Chosen(acts', saved.start)
BY DEF IsBudgeted, Dated, Chosen

LEMMA KeptEven ==
    ASSUME IndInv, NEW s \in Loose, NEW r
    PROVE  Even(Kept(s, r), s)
<1>1. CASE r # "cancelled"
  BY <1>1 DEF Kept, Even
<1>2. CASE r = "cancelled"
  <2>1. PICK e : e = (s.emitted \/ saved.emitted)
    OBVIOUS
  <2>2. Kept(s, r) = [s EXCEPT !.step = 0, !.appr = 0, !.gkey = FALSE, !.emitted = e]
    BY <1>2, <2>1 DEF Kept
  <2> QED BY <2>2 DEF Even, Loose
<1> QED BY <1>1, <1>2

LEMMA NumberedEven ==
    ASSUME NEW s \in Loose
    PROVE  /\ Numbered(s).iter = s.iter /\ Numbered(s).start = s.start
           /\ Numbered(s).seq = Number(s)
BY DEF Numbered, Loose

LEMMA RestoredEven ==
    ASSUME NEW s \in Loose, NEW c \in [seq : Nat, state : Loose]
    PROVE  /\ s.seq >= c.seq => Restore(s, c) = s
           /\ s.seq < c.seq => /\ Restore(s, c).iter = c.state.iter
                               /\ Restore(s, c).start = c.state.start
                               /\ Restore(s, c).seq = c.seq
BY DEF Restore, Loose

\* A thread goes on, with nothing written but perhaps actions.
LEMMA PassesWithin ==
    ASSUME IndInv, NEW w \in Executors, Ready(w), UNCHANGED <<saved, ckpt, asked, lost>>,
           run' = run \/ (run' \notin Terminal /\ run \notin Terminal),
           run' \notin {"succeeded", "failed"},
           Chosen(acts', saved.start),
           at'[w] \in Nodes, at[w] # "raised",
           at[w] \notin Exact => at'[w] \notin Exact,
           st'[w].start = st[w].start, st'[w].seq = st[w].seq, st'[w].iter \in Nat,
           st[w].iter <= st'[w].iter, st'[w].iter <= saved.start + MaxIterations,
           run \notin Terminal /\ at'[w] \in {"policy", "act"} => acts'[st'[w].act].status = "pending"
    PROVE  Within(w)
<1>1. InBudget(st[w], saved.start) /\ st[w].iter \in Nat /\ st[w].start \in Nat
  BY CountTypes DEF Ready, IsBudgeted
<1>2. at'[w] # "off" /\ InBudget(st'[w], saved.start)
  BY <1>1 DEF InBudget, Nodes, Resuming
<1>3. run' \notin Terminal =>
         /\ st[w].seq = ckpt.seq /\ asked + saved.start <= st[w].iter + lost
         /\ asked + saved.start <= Restore(saved, ckpt).iter + lost + Lagging(w)
  BY DEF Ready, IsCounted, Counts, Lag, Lagging, Exact
<1>4. Lagging(w) \in {0, 1} /\ Lagging(w)' \in {0, 1} /\ Lagging(w) <= Lagging(w)'
  BY DEF Lagging
<1>5. Restore(saved, ckpt).iter \in Nat
  BY CountTypes, RestoredState DEF Loose
<1>6. asked \in Nat /\ lost \in Nat /\ saved.start \in Nat
  BY CountTypes DEF Ready, IsBudgeted
<1>7. run' \notin Terminal => asked' + saved.start <= Restore(saved', ckpt').iter + lost' + Lagging(w)'
  BY <1>3, <1>4, <1>5, <1>6
<1>8. run' \notin Terminal => Counts(w)'
  BY <1>1, <1>3, <1>6 DEF Counts
<1> QED BY <1>2, <1>7, <1>8 DEF Within, Ready, IsBudgeted

\* A thread saves its state and goes on with it, or ends or raises.
LEMMA SavesWithin ==
    ASSUME IndInv, NEW w \in Executors, Ready(w), UNCHANGED <<ckpt, asked, lost>>,
           run' = run \/ (run' \notin Terminal /\ run \notin Terminal)
             \/ (run' = "succeeded" /\ at'[w] \in {"off", "raised"}),
           run' # "failed",
           run' = "succeeded" => at'[w] \in {"off", "observe", "raised"},
           at[w] # "raised",
           Chosen(acts', saved.start),
           saved' \in Loose, Even(saved', st[w]),
           at'[w] \notin {"off", "raised"} => Even(st'[w], st[w]),
           run \notin Terminal /\ at'[w] \in {"policy", "act"} => acts'[st'[w].act].status = "pending"
    PROVE  Within(w)
<1>1. InBudget(st[w], saved.start) /\ st[w].iter \in Nat /\ st[w].seq \in Nat
  BY CountTypes DEF Ready, IsBudgeted
<1>2. run' \notin Terminal =>
         st[w].seq = ckpt.seq /\ asked + saved.start <= st[w].iter + lost
  BY DEF Ready, IsCounted, Counts, Terminal
<1>3. run' \notin Terminal => Restore(saved', ckpt').iter = st[w].iter
  BY <1>1, <1>2, CountTypes, RestoredEven DEF Even
<1>4. Lagging(w)' \in {0, 1}
  BY DEF Lagging
<1>5. asked \in Nat /\ lost \in Nat /\ saved.start \in Nat
  BY CountTypes DEF Ready, IsBudgeted
<1>6. run' \notin Terminal => asked' + saved.start <= Restore(saved', ckpt').iter + lost' + Lagging(w)'
  BY <1>1, <1>2, <1>3, <1>4, <1>5
<1>7. run' \notin Terminal => Counts(w)'
  <2>1. run' \notin Terminal => run \notin Terminal
    BY DEF Terminal
  <2> QED BY <1>1, <1>2, <1>5, <2>1 DEF Counts, Even, InBudget
<1> QED BY <1>1, <1>6, <1>7 DEF Within, Ready, IsBudgeted, InBudget, Even

\* The run was cancelled.
LEMMA StopWithin ==
    ASSUME IndInv, NEW w \in Executors, Ready(w), StopWrites(w), at[w] # "raised",
           End(w) \/ Raise(w) \/ Go(w, "decide", Kept(st[w], run))
    PROVE  Within(w)
<1>1. /\ run = "cancelled" /\ UNCHANGED <<run, ckpt, asked, lost>>
      /\ acts' = Withdrawn(st[w].act) /\ saved' = Kept(st[w], run)
  BY DEF StopWrites, history, tally
<1>2. PICK y \in Loose : y = Kept(st[w], run) /\ Even(y, st[w])
  BY KeptState, KeptEven, CountTypes
<1>3. at'[w] \notin {"off", "raised"} => st'[w] = y
  BY <1>2, GoFrame, LeaveFrame DEF IndInv
<1>4. Dated(acts')
  BY <1>1, WithdrawnDates DEF IndInv, RowTypes
<1>5. /\ at'[w] \notin {"off", "raised"} => Even(st'[w], st[w])
      /\ at'[w] \notin {"policy", "act"}
  BY <1>2, <1>3, GoFrame, LeaveFrame DEF IndInv
<1>6. Chosen(acts', saved.start)
  BY <1>4, DatedActs DEF Ready
<1> QED BY <1>1, <1>2, <1>5, <1>6, SavesWithin

LEMMA CheckpointWithin ==
    ASSUME IndInv, NEW w \in Executors, Ready(w), NEW s \in Loose, NEW node,
           at[w] # "raised", node \notin {"off", "raised", "policy", "act"}, Checkpoint(w, s, node),
           s.iter = st[w].iter, s.start = st[w].start, s.seq = st[w].seq,
           UNCHANGED <<run, asked, lost>>, run \notin {"succeeded", "failed"},
           Dated(acts')
    PROVE  Within(w)
<1>1. InBudget(st[w], saved.start) /\ st[w].iter \in Nat /\ st[w].seq \in Nat /\ ckpt.seq \in Nat
  BY CountTypes DEF Ready, IsBudgeted
<1>2. run \notin Terminal =>
         st[w].seq = ckpt.seq /\ asked + saved.start <= st[w].iter + lost
  BY DEF Ready, IsCounted, Counts
<1>3. asked \in Nat /\ lost \in Nat /\ saved.start \in Nat /\ Lagging(w)' \in {0, 1}
  BY CountTypes DEF Ready, IsBudgeted, Lagging
<1>4. Chosen(acts', saved.start)
  BY DatedActs DEF Ready
<1>5. CASE Fits(s)
  <2>1. PICK k \in Loose : /\ k = Numbered(s) /\ k.seq = ckpt.seq + 1 /\ Number(s) = ckpt.seq + 1
                           /\ k.iter = s.iter /\ k.start = s.start
    <3>1. Number(s) = ckpt.seq + 1
      BY <1>5 DEF Fits
    <3> QED BY <3>1, NumberedState, NumberedEven, CountTypes
  <2>2. PICK e \in Loose : e = Kept(k, run) /\ Even(e, k)
    BY KeptState, KeptEven, CountTypes
  <2>3. ckpt' = [seq |-> ckpt.seq + 1, state |-> k] /\ saved' = e /\ Go(w, node, e)
    BY <1>5, <2>1, <2>2 DEF Checkpoint
  <2>4. at'[w] = node /\ st'[w] = e
    BY <2>3, GoFrame DEF IndInv
  <2>5. Restore(e, ckpt') = e
    BY <1>1, <2>1, <2>2, <2>3 DEF Restore, Even
  <2>6. InBudget(e, saved.start) /\ InBudget(k, saved.start)
    BY <1>1, <2>1, <2>2 DEF InBudget, Even
  <2>7. run' \notin Terminal => asked' + saved.start <= Restore(saved', ckpt').iter + lost' + Lagging(w)'
    BY <1>1, <1>2, <1>3, <2>1, <2>2, <2>3, <2>5 DEF Even
  <2>8. run' \notin Terminal => Counts(w)'
    <3>1. e.seq = ckpt'.seq /\ e.iter = st[w].iter /\ e.start = saved.start
      BY <1>1, <2>1, <2>2, <2>3 DEF Even, InBudget
    <3> QED BY <1>2, <1>3, <2>3, <2>4, <3>1 DEF Counts
  <2> QED BY <1>3, <1>4, <2>3, <2>4, <2>6, <2>7, <2>8 DEF Within, Ready, IsBudgeted
<1>6. CASE ~Fits(s)
  <2>1. UNCHANGED <<ckpt, saved>> /\ Raise(w)
    BY <1>6 DEF Checkpoint
  <2>2. run \in Terminal
    BY <1>1, <1>2, <1>6 DEF Fits, Number
  <2>3. at'[w] \in {"off", "raised"}
    BY <2>1, LeaveFrame DEF IndInv
  <2> QED BY <1>3, <1>4, <2>1, <2>2, <2>3 DEF Within, Ready, IsBudgeted
<1> QED BY <1>5, <1>6

LEMMA FailWithin ==
    ASSUME IndInv, NEW w \in Executors, Ready(w), NEW s \in Loose, NEW raises,
           FailNow(w, s, raises), InBudget(s, saved.start)
    PROVE  Within(w)
<1>1. /\ run' = "failed" /\ UNCHANGED <<acts, asked, lost>> /\ at'[w] \in {"off", "raised"}
  BY FailFrame, LeaveFrame DEF IndInv, FailNow
<1>2. InBudget(saved', saved.start) /\ InBudget(ckpt'.state, saved.start)
  <2>1. CASE Fits(s)
    <3>1. PICK k \in Loose : k = Numbered(s) /\ k.iter = s.iter /\ k.start = s.start
      <4>1. Number(s) = ckpt.seq + 1
        BY <2>1 DEF Fits
      <4>2. Numbered(s) \in Loose
        BY <4>1, CountTypes DEF Numbered, Loose
      <4> QED BY <4>2, NumberedEven
    <3>2. PICK e : e = [k EXCEPT !.emitted = TRUE]
      OBVIOUS
    <3>3. e.iter = k.iter /\ e.start = k.start
      BY <3>2 DEF Loose
    <3>4. ckpt' = [seq |-> k.seq, state |-> k] /\ saved' = e
      BY <2>1, <3>1, <3>2 DEF FailNow
    <3> QED BY <3>1, <3>3, <3>4 DEF InBudget
  <2>2. CASE ~Fits(s)
    BY <2>2 DEF FailNow, Ready, IsBudgeted
  <2> QED BY <2>1, <2>2
<1> QED BY <1>1, <1>2 DEF Within, Ready, IsBudgeted, Terminal

LEMMA ChangesCount ==
    ASSUME NEW s \in Loose, NEW a, NEW i
    PROVE  /\ Even([s EXCEPT !.act = a, !.step = a], s)
           /\ Even([s EXCEPT !.gkey = TRUE, !.appr = i], s)
           /\ Even([s EXCEPT !.appr = i], s)
           /\ Even([s EXCEPT !.out = i], s)
           /\ Even([s EXCEPT !.repairs = i], s)
           /\ Even([s EXCEPT !.redo = i], s)
           /\ Even([s EXCEPT !.seen = i], s)
           /\ Even([s EXCEPT !.step = 0, !.emitted = TRUE], s)
           /\ Even([s EXCEPT !.appr = 0, !.gkey = FALSE, !.step = 0], s)
           /\ Even([s EXCEPT !.appr = 0, !.gkey = FALSE, !.step = 0, !.emitted = TRUE], s)
BY DEF Loose, Even

LEMMA AdvancesCount ==
    ASSUME NEW s \in Loose, NEW a, NEW i
    PROVE  /\ [s EXCEPT !.iter = i, !.act = a, !.step = a].iter = i
           /\ [s EXCEPT !.iter = i, !.act = a, !.step = a].start = s.start
           /\ [s EXCEPT !.iter = i, !.act = a, !.step = a].seq = s.seq
           /\ [s EXCEPT !.iter = i, !.act = a, !.step = a].act = a
           /\ [s EXCEPT !.act = a, !.step = a].act = a
           /\ [s EXCEPT !.iter = i, !.act = 0, !.step = 0, !.out = "none"].iter = i
           /\ [s EXCEPT !.iter = i, !.act = 0, !.step = 0, !.out = "none"].start = s.start
           /\ [s EXCEPT !.iter = i, !.act = 0, !.step = 0, !.out = "none"].seq = s.seq
BY DEF Loose

\* A thread goes on with a state that no decision separates from its own.
LEMMA GoesWithin ==
    ASSUME IndInv, NEW w \in Executors, Ready(w), NEW n \in Nodes, NEW x, Go(w, n, x), Even(x, st[w]),
           UNCHANGED <<saved, ckpt, asked, lost>>,
           run' = run \/ (run' \notin Terminal /\ run \notin Terminal),
           run' \in {"succeeded", "failed"} => run = run' /\ n = "observe",
           Chosen(acts', saved.start), at[w] # "raised", n # "raised",
           at[w] \notin Exact => n \notin Exact,
           run \notin Terminal /\ n \in {"policy", "act"} => acts'[x.act].status = "pending"
    PROVE  Within(w)
<1>1. at'[w] = n /\ st'[w] = x
  BY GoFrame DEF IndInv
<1>2. InBudget(st[w], saved.start) /\ st[w].iter \in Nat
  BY CountTypes DEF Ready, IsBudgeted
<1>3. CASE run' \notin {"succeeded", "failed"}
  BY <1>1, <1>2, <1>3, PassesWithin DEF Even, InBudget
<1>4. CASE run' \in {"succeeded", "failed"}
  BY <1>1, <1>2, <1>4 DEF Within, Ready, IsBudgeted, Even, InBudget, Terminal
<1> QED BY <1>3, <1>4

\* The same with nothing written at all.
LEMMA MovesWithin ==
    ASSUME IndInv, NEW w \in Executors, Ready(w), NEW n \in Nodes \ {"raised", "policy", "act"},
           Go(w, n, st[w]), UNCHANGED <<run, rows, history>>, run \notin {"succeeded", "failed"},
           at[w] # "raised", at[w] \notin Exact => n \notin Exact
    PROVE  Within(w)
<1>1. Even(st[w], st[w]) /\ Chosen(acts', saved.start)
  BY DEF Even, Ready, IsBudgeted, rows
<1> QED BY <1>1, GoesWithin DEF rows, history, tally

\* A thread ends or raises without having saved.
LEMMA LeavesWithin ==
    ASSUME IndInv, NEW w \in Executors, Ready(w), End(w) \/ Raise(w),
           UNCHANGED <<run, saved, ckpt, acts, asked, lost>>,
           run \in Terminal
    PROVE  Within(w)
<1>1. at'[w] \in {"off", "raised"}
  BY LeaveFrame DEF IndInv
<1> QED BY <1>1 DEF Within, Ready, IsBudgeted

\* Only these are left of a run that ended.
LEMMA EndedNodes ==
    ASSUME NEW w \in Executors, Ready(w), at[w] \notin {"observe", "raised"}
    PROVE  run \notin {"succeeded", "failed"}
BY DEF Ready, IsBudgeted

LEMMA ChosenActs ==
    ASSUME IndInv, Chosen(acts, saved.start), NEW g, NEW i, i <= saved.start + MaxIterations,
           acts' = Append(acts, [status |-> "pending", gated |-> g, iter |-> i])
    PROVE  Chosen(acts', saved.start) /\ acts'[Len(acts) + 1].status = "pending"
<1>1. acts \in Seq(ActRow) /\ Len(acts) \in Nat
  BY Lengths DEF IndInv, RowTypes
<1> QED BY <1>1 DEF Chosen

LEMMA ChooseWithin ==
    ASSUME IndInv, NEW w \in Executors, Ready(w), at[w] = "deciding",
           NEW t \in Loose, NEW g, Choose(w, t, g), Even(t, st[w]),
           saved' = saved \/ saved' = t
    PROVE  Within(w)
<1>1. PICK x : x = [t EXCEPT !.act = Len(acts) + 1, !.step = Len(acts) + 1]
  OBVIOUS
<1>2. Even(x, st[w]) /\ x.act = Len(acts) + 1
  BY <1>1, ChangesCount, AdvancesCount DEF Even
<1>3. /\ Go(w, "policy", x) /\ UNCHANGED <<run, ckpt, asked, lost>>
      /\ acts' = Append(acts, [status |-> "pending", gated |-> g, iter |-> t.iter])
  BY <1>1 DEF Choose, history, tally
<1>4. t.iter <= saved.start + MaxIterations
  BY DEF Ready, IsBudgeted, InBudget, Even
<1>5. Chosen(acts', saved.start) /\ acts'[x.act].status = "pending"
  BY <1>2, <1>3, <1>4, ChosenActs DEF Ready, IsBudgeted
<1>6. run \notin {"succeeded", "failed"}
  BY EndedNodes
<1>7. at'[w] = "policy" /\ st'[w] = x
  BY <1>3, GoFrame DEF IndInv
<1>8. CASE saved' = saved
  BY <1>2, <1>3, <1>5, <1>6, <1>8, GoesWithin DEF Nodes, Exact
<1>9. CASE saved' = t
  BY <1>2, <1>3, <1>5, <1>6, <1>7, <1>9, SavesWithin
<1> QED BY <1>8, <1>9

\* A status is not written over a terminal one.
LEMMA CalmWrites ==
    ASSUME NEW w \in Executors, Ready(w), NEW r, SetRun(r)
    PROVE  run \notin Terminal /\ run' = r
BY DEF Ready, Calm, SetRun, Overwritten

LEMMA EnterWithin ==
    ASSUME IndInv, NEW w \in Executors, Ready(w), Enter(w)
    PROVE  Within(w)
<1>1. /\ at[w] = "enter" /\ st[w] \in Loose /\ InBudget(st[w], saved.start)
      /\ run \notin {"succeeded", "failed"}
  BY CountTypes, EndedNodes DEF Enter, Ready, IsBudgeted
<1>2. CASE FailNow(w, st[w], FALSE)
  BY <1>1, <1>2, FailWithin
<1>3. ASSUME NEW node \in {"recover", "fail"}, SetRun("running"), saved' = st[w],
             Go(w, node, st[w]), UNCHANGED <<ckpt, acts, tally>>
      PROVE  Within(w)
  <2>1. at'[w] = node /\ st'[w] = st[w] /\ Even(st[w], st[w])
    BY <1>3, GoFrame DEF IndInv, Even
  <2>2. CASE run \notin Terminal
    <3>1. run' \notin Terminal /\ run' # "succeeded" /\ run' # "failed"
      BY <1>3 DEF SetRun, Terminal
    <3>2. Chosen(acts', saved.start) /\ UNCHANGED <<ckpt, asked, lost>>
      BY <1>3 DEF Ready, IsBudgeted, tally
    <3> QED BY <1>1, <1>3, <2>1, <2>2, <3>1, <3>2, SavesWithin
  <2> QED BY <1>3, <2>2, CalmWrites
<1> QED BY <1>1, <1>2, <1>3 DEF Enter

LEMMA RecoverWithin ==
    ASSUME IndInv, MaxIterations \in Nat, NEW w \in Executors, Ready(w), Recover(w)
    PROVE  Within(w)
<1>0. /\ at[w] = "recover" /\ st[w] \in Loose /\ InBudget(st[w], saved.start)
      /\ run \notin {"succeeded", "failed"} /\ Chosen(acts, saved.start)
      /\ UNCHANGED <<asked, lost>>
  BY CountTypes, EndedNodes DEF Recover, Ready, IsBudgeted, tally
<1> DEFINE Now(X) == [a \in DOMAIN acts |->
                     IF a \in X THEN [acts[a] EXCEPT !.status = "uncertain"] ELSE acts[a]]
           known == {a \in DOMAIN acts : Settled(a)}
           s == [st[w] EXCEPT !.seen = @ \cup known]
<1>1. PICK X \in SUBSET With("running") : acts' = Now(X)
  BY DEF Recover
<1>2. Dated(acts') /\ Chosen(acts', saved.start)
  <2>1. acts \in Seq(ActRow)
    BY DEF IndInv, RowTypes
  <2>2. Dated(Now(X))
    BY <2>1 DEF Dated, ActRow
  <2> QED BY <1>1, <2>2, DatedActs DEF Ready
<1>3. s \in Loose /\ Even(s, st[w])
  <2>1. known \subseteq Nat
    BY Lengths DEF IndInv
  <2> QED BY <1>0, <2>1, ChangesCount DEF Loose
<1> HIDE DEF s
<1>4. CASE Checkpoint(w, s, "recover") /\ UNCHANGED run
  BY <1>0, <1>2, <1>3, <1>4, CheckpointWithin DEF Even
<1>5. CASE SetRun("waiting") /\ saved' = s /\ End(w) /\ UNCHANGED ckpt
  <2>1. run \notin Terminal /\ run' = "waiting" /\ at'[w] \in {"off", "raised"}
    BY <1>5, CalmWrites, LeaveFrame DEF IndInv
  <2>2. run' \notin Terminal
    BY <2>1 DEF Terminal
  <2> QED BY <1>0, <1>2, <1>3, <1>5, <2>1, <2>2, SavesWithin
<1>6. CASE saved' = Kept(s, run) /\ Raise(w) /\ UNCHANGED <<run, ckpt, upset>>
  <2>1. saved' \in Loose /\ Even(saved', st[w])
    BY <1>3, <1>6, KeptState, KeptEven, CountTypes DEF Even
  <2>2. at'[w] \in {"off", "raised"} /\ run' # "failed" /\ run' # "succeeded"
    BY <1>0, <1>6, LeaveFrame DEF IndInv
  <2> QED BY <1>0, <1>2, <1>6, <2>1, <2>2, SavesWithin
<1>7. ASSUME NEW a \in {b \in DOMAIN acts' : acts'[b].status = "pending"},
             Go(w, "policy", [s EXCEPT !.iter = IF @ > acts[a].iter THEN @ ELSE acts[a].iter,
                                       !.act = a, !.step = a]),
             UNCHANGED <<run, saved, ckpt, upset>>
      PROVE  Within(w)
  <2>1. PICK i : i = IF s.iter > acts[a].iter THEN s.iter ELSE acts[a].iter
    OBVIOUS
  <2>2. a \in DOMAIN acts /\ acts[a].iter \in Nat /\ acts[a].iter <= saved.start + MaxIterations
    <3>1. a \in DOMAIN acts /\ acts \in Seq(ActRow)
      BY <1>2 DEF Dated, IndInv, RowTypes
    <3>2. acts[a] \in ActRow
      BY <3>1
    <3> QED BY <1>0, <3>1, <3>2 DEF Chosen, ActRow
  <2>3. s.iter \in Nat /\ s.iter = st[w].iter /\ s.iter <= saved.start + MaxIterations
    BY <1>0, <1>3 DEF Loose, Even, InBudget
  <2>4. i \in Nat /\ s.iter <= i /\ i <= saved.start + MaxIterations
    BY <2>1, <2>2, <2>3
  <2>5. PICK x : x = [s EXCEPT !.iter = i, !.act = a, !.step = a]
    OBVIOUS
  <2>6. Go(w, "policy", x)
    BY <1>7, <2>1, <2>5
  <2>7. x.iter = i /\ x.start = s.start /\ x.seq = s.seq /\ x.act = a
    BY <1>3, <2>5, AdvancesCount
  <2>8. at'[w] = "policy" /\ st'[w] = x
    BY <2>6, GoFrame DEF IndInv
  <2>9. acts'[x.act].status = "pending"
    BY <1>7, <2>7
  <2>10. /\ st'[w].start = st[w].start /\ st'[w].seq = st[w].seq /\ st'[w].iter \in Nat
         /\ st[w].iter <= st'[w].iter /\ st'[w].iter <= saved.start + MaxIterations
    BY <1>3, <2>3, <2>4, <2>7, <2>8 DEF Even
  <2>11. at[w] \in Exact /\ at'[w] \in Nodes /\ at[w] # "raised"
         /\ acts'[st'[w].act].status = "pending"
    BY <1>0, <2>8, <2>9 DEF Exact, Nodes
  <2>12. run' = run /\ UNCHANGED <<saved, ckpt, asked, lost>> /\ run' \notin {"succeeded", "failed"}
    BY <1>0, <1>7
  <2> QED BY <1>2, <2>10, <2>11, <2>12, PassesWithin
<1>8. CASE Go(w, "decide", s) /\ UNCHANGED <<run, saved, ckpt, upset>>
  BY <1>0, <1>2, <1>3, <1>8, GoesWithin DEF Exact, Nodes
<1> QED
  <2>1. DOMAIN acts' = DOMAIN acts
    BY <1>2 DEF Dated
  <2>2. \/ Checkpoint(w, s, "recover") /\ UNCHANGED run
        \/ SetRun("waiting") /\ saved' = s /\ End(w) /\ UNCHANGED ckpt
        \/ saved' = Kept(s, run) /\ Raise(w) /\ UNCHANGED <<run, ckpt, upset>>
        \/ \E a \in {b \in DOMAIN acts' : acts'[b].status = "pending"} :
              /\ Go(w, "policy", [s EXCEPT !.iter = IF @ > acts[a].iter THEN @ ELSE acts[a].iter,
                                           !.act = a, !.step = a])
              /\ UNCHANGED <<run, saved, ckpt, upset>>
        \/ Go(w, "decide", s) /\ UNCHANGED <<run, saved, ckpt, upset>>
    BY <2>1 DEF Recover, Oldest, s
  <2> QED BY <1>4, <1>5, <1>6, <1>7, <1>8, <2>2

LEMMA DecideWithin ==
    ASSUME IndInv, MaxIterations \in Nat, NEW w \in Executors, Ready(w), Decide(w)
    PROVE  Within(w)
<1>0. /\ at[w] = "decide" /\ st[w] \in Loose /\ InBudget(st[w], saved.start)
      /\ run \notin {"succeeded", "failed"} /\ Chosen(acts, saved.start)
  BY CountTypes, EndedNodes DEF Decide, Ready, IsBudgeted
<1>1. CASE Stopped(w)
  BY <1>0, <1>1, StopWithin DEF Stopped
<1>2. CASE Go(w, "fail", st[w]) /\ UNCHANGED <<run, rows, history>>
  BY <1>0, <1>2, MovesWithin DEF Nodes, Exact
<1>3. CASE /\ ~BudgetSpent(st[w]) /\ Alive
           /\ Go(w, "deciding", [st[w] EXCEPT !.iter = @ + 1, !.act = 0, !.step = 0,
                                              !.out = "none"])
           /\ asked' = asked + 1
           /\ UNCHANGED <<run, rows, effects, finals, lost, upset, trouble>>
  <2>1. run \notin Terminal
    BY <1>0, <1>3 DEF Alive, Terminal
  <2>2. /\ asked \in Nat /\ lost \in Nat /\ saved.start \in Nat /\ st[w].iter \in Nat
        /\ st[w].start \in Nat
    BY CountTypes DEF Ready, IsBudgeted
  <2>3. PICK i : i = st[w].iter + 1
    OBVIOUS
  <2>4. PICK x : x = [st[w] EXCEPT !.iter = i, !.act = 0, !.step = 0, !.out = "none"]
    OBVIOUS
  <2>5. Go(w, "deciding", x)
    BY <1>3, <2>3, <2>4
  <2>6. x.iter = i /\ x.start = st[w].start /\ x.seq = st[w].seq
    BY <1>0, <2>4, AdvancesCount
  <2>7. at'[w] = "deciding" /\ st'[w] = x
    BY <2>5, GoFrame DEF IndInv
  <2>8. UNCHANGED <<run, saved, ckpt, acts, lost>> /\ asked' = asked + 1
    BY <1>3 DEF rows
  <2>9. /\ st[w].seq = ckpt.seq /\ asked + saved.start <= st[w].iter + lost
        /\ asked + saved.start <= Restore(saved, ckpt).iter + lost
    <3>1. Lag = 0
      BY <1>0 DEF Ready, Lag, Exact
    <3>2. Restore(saved, ckpt).iter \in Nat
      BY CountTypes, RestoredState DEF Loose
    <3>3. Counts(w) /\ asked + saved.start <= Restore(saved, ckpt).iter + lost + Lag
      BY <2>1 DEF Ready, IsCounted
    <3> QED BY <1>0, <2>2, <3>1, <3>2, <3>3 DEF Counts
  <2>10. Restore(saved, ckpt).iter \in Nat
    BY CountTypes, RestoredState DEF Loose
  <2>11. i <= saved.start + MaxIterations /\ asked + 1 <= MaxIterations + lost
    BY <1>0, <1>3, <2>2, <2>3, <2>9 DEF BudgetSpent, InBudget
  <2>12. InBudget(x, saved.start)
    BY <1>0, <2>2, <2>3, <2>6, <2>11 DEF InBudget
  <2>13. asked' + saved.start <= Restore(saved', ckpt').iter + lost' + Lagging(w)'
    <3>1. Lagging(w)' = 1
      BY <2>7 DEF Lagging, Exact
    <3> QED BY <2>2, <2>8, <2>9, <2>10, <3>1
  <2>14. Counts(w)'
    BY <2>2, <2>3, <2>6, <2>7, <2>8, <2>9 DEF Counts
  <2> QED BY <1>0, <2>1, <2>2, <2>7, <2>8, <2>11, <2>12, <2>13, <2>14
          DEF Within, Ready, IsBudgeted, Terminal
<1> QED BY <1>1, <1>2, <1>3 DEF Decide

LEMMA DecidingWithin ==
    ASSUME IndInv, NEW w \in Executors, Ready(w), Deciding(w)
    PROVE  Within(w)
<1>0. /\ at[w] = "deciding" /\ st[w] \in Loose /\ InBudget(st[w], saved.start)
      /\ run \notin {"succeeded", "failed"} /\ Chosen(acts, saved.start) /\ Even(st[w], st[w])
  BY CountTypes, EndedNodes DEF Deciding, Ready, IsBudgeted, Even
<1>1. CASE Stopped(w)
  BY <1>0, <1>1, StopWithin DEF Stopped
<1>2. ASSUME NEW n \in {"wait_user", "replan", "verify", "complete", "fail"},
             Go(w, n, st[w]), UNCHANGED <<run, rows, history>>
      PROVE  Within(w)
  BY <1>0, <1>2, MovesWithin DEF Nodes, Exact
<1>3. CASE Redo(w, st[w])
  <2> DEFINE t == [st[w] EXCEPT !.redo = "none"]
  <2>1. t \in Loose /\ Even(t, st[w])
    BY <1>0, ChangesCount DEF Loose
  <2>2. CASE saved' = t /\ Choose(w, t, st[w].redo = "gated")
    <3> HIDE DEF t
    <3> QED BY <1>0, <2>1, <2>2, ChooseWithin
  <2> QED BY <1>1, <1>2, <1>3, <2>2 DEF Redo
<1>4. CASE Answered(w, st[w])
  <2>1. ASSUME NEW g \in BOOLEAN, Choose(w, st[w], g), UNCHANGED saved PROVE Within(w)
    BY <1>0, <2>1, ChooseWithin
  <2> QED BY <1>2, <1>4, <2>1 DEF Answered
<1>5. CASE GatewayFails(w, st[w])
  <2>1. ASSUME NEW raises, FailNow(w, st[w], raises) PROVE Within(w)
    BY <1>0, <2>1, FailWithin
  <2>2. ASSUME run \in Terminal, End(w) \/ Raise(w), UNCHANGED <<run, rows, history>>
        PROVE  Within(w)
    BY <2>2, LeavesWithin DEF rows, history, tally
  <2> QED BY <1>5, <2>1, <2>2 DEF GatewayFails
<1>6. CASE GuardrailPauses(w, st[w])
  <2>1. PICK x : x = [st[w] EXCEPT !.gkey = TRUE, !.appr = Len(appr) + 1]
    OBVIOUS
  <2>2. Go(w, "pause", x) /\ Even(x, st[w]) /\ UNCHANGED <<run, saved, ckpt, acts, asked, lost>>
    BY <1>0, <1>6, <2>1, ChangesCount DEF GuardrailPauses, history, tally
  <2> QED BY <1>0, <2>2, GoesWithin DEF Nodes, Exact
<1> QED BY <1>1, <1>2, <1>3, <1>4, <1>5, <1>6 DEF Deciding

\* A thread asks for an approval and goes to pause.
LEMMA AsksWithin ==
    ASSUME IndInv, NEW w \in Executors, Ready(w), at[w] \notin {"observe", "raised"},
           Go(w, "pause", [st[w] EXCEPT !.appr = Len(appr) + 1]),
           UNCHANGED <<run, saved, ckpt, acts, asked, lost>>
    PROVE  Within(w)
<1>1. PICK x : x = [st[w] EXCEPT !.appr = Len(appr) + 1]
  OBVIOUS
<1>2. Go(w, "pause", x) /\ Even(x, st[w]) /\ Chosen(acts', saved.start)
  BY <1>1, ChangesCount, CountTypes DEF Ready, IsBudgeted
<1> QED BY <1>2, EndedNodes, GoesWithin DEF Nodes, Exact

\* A thread saves its state as it is and ends or raises.
LEMMA ParksWithin ==
    ASSUME IndInv, NEW w \in Executors, Ready(w), at[w] \notin {"observe", "raised"},
           End(w) \/ Raise(w), saved' = st[w] \/ saved' = Kept(st[w], run),
           UNCHANGED <<ckpt, asked, lost>>, Dated(acts'),
           \/ run' = run
           \/ run' = "waiting" /\ run \notin Terminal
    PROVE  Within(w)
<1>1. saved' \in Loose /\ Even(saved', st[w])
  BY KeptState, KeptEven, CountTypes DEF Even
<1>2. at'[w] \in {"off", "raised"}
  BY LeaveFrame DEF IndInv
<1>3. Chosen(acts', saved.start)
  BY DatedActs DEF Ready
<1>4. run' # "failed" /\ run' # "succeeded" /\ (run' = run \/ (run' \notin Terminal /\ run \notin Terminal))
  BY EndedNodes DEF Terminal
<1> QED BY <1>1, <1>2, <1>3, <1>4, SavesWithin

LEMMA PolicyWithin ==
    ASSUME IndInv, NEW w \in Executors, Ready(w), Policy(w)
    PROVE  Within(w)
<1>0. /\ at[w] = "policy" /\ st[w] \in Loose /\ InBudget(st[w], saved.start)
      /\ run \notin {"succeeded", "failed"} /\ Chosen(acts, saved.start) /\ Even(st[w], st[w])
      /\ run \notin Terminal => acts[st[w].act].status = "pending"
  BY CountTypes, EndedNodes DEF Policy, Ready, IsBudgeted, IsCounted, Counts, Even
<1>1. CASE Stopped(w)
  BY <1>0, <1>1, StopWithin DEF Stopped
<1>2. CASE FailNow(w, st[w], FALSE)
  BY <1>0, <1>2, FailWithin
<1>3. CASE /\ Go(w, "pause", [st[w] EXCEPT !.appr = Len(appr) + 1])
           /\ UNCHANGED <<run, saved, ckpt, acts, msg, jobs, history>>
  BY <1>0, <1>3, AsksWithin DEF history, tally
<1>4. CASE Go(w, "act", st[w]) /\ UNCHANGED <<run, rows, history>>
  BY <1>0, <1>4, GoesWithin DEF Nodes, Exact, rows, history, tally
<1> QED BY <1>1, <1>2, <1>3, <1>4 DEF Policy

\* The state of a thread is restored after a pause in any case.
LEMMA PauseWithin ==
    ASSUME IndInv, NEW w \in Executors, Ready(w), Pause(w) \/ Park(w)
    PROVE  Within(w)
<1>1. CASE Pause(w)
  <2>1. run \notin Terminal /\ run' = "awaiting" /\ at[w] = "pause"
    BY <1>1, CalmWrites DEF Pause
  <2>2. Even(st[w], st[w]) /\ Chosen(acts', saved.start) /\ UNCHANGED <<saved, ckpt, asked, lost>>
    BY <1>1 DEF Pause, Ready, IsBudgeted, Even, rows, tally
  <2>3. Go(w, "park", st[w]) /\ run' \notin Terminal
    BY <1>1, <2>1 DEF Pause, Terminal
  <2> QED BY <2>1, <2>2, <2>3, GoesWithin DEF Nodes, Exact
<1>2. CASE Park(w)
  BY <1>2, ParksWithin, SameDates DEF Park, history, tally
<1> QED BY <1>1, <1>2

LEMMA ActWithin ==
    ASSUME IndInv, NEW w \in Executors, Ready(w), Act(w)
    PROVE  Within(w)
<1>0. /\ at[w] = "act" /\ st[w] \in Loose /\ Even(st[w], st[w])
      /\ run \notin {"succeeded", "failed"} /\ acts \in Seq(ActRow)
      /\ run \notin Terminal => acts[st[w].act].status = "pending"
  BY CountTypes, EndedNodes DEF Act, Ready, IsCounted, Counts, Even, IndInv, RowTypes
<1>1. CASE Stopped(w)
  BY <1>0, <1>1, StopWithin DEF Stopped
<1>2. CASE /\ acts' = [acts EXCEPT ![st[w].act].status = "running"]
           /\ Go(w, "acting", st[w])
           /\ UNCHANGED <<run, saved, ckpt, appr, msg, jobs, history>>
  <2>1. Chosen(acts', saved.start)
    BY <1>0, <1>2, StatusDates, DatedActs DEF Ready
  <2> QED BY <1>0, <1>2, <2>1, GoesWithin DEF Nodes, Exact, history, tally
<1>3. Alive => run \notin Terminal
  BY <1>0 DEF Alive, Terminal
<1> QED BY <1>0, <1>1, <1>2, <1>3 DEF Act

LEMMA ActingWithin ==
    ASSUME IndInv, NEW w \in Executors, Ready(w), Acting(w)
    PROVE  Within(w)
<1>0. /\ at[w] = "acting" /\ st[w] \in Loose
      /\ run \notin {"succeeded", "failed"} /\ Chosen(acts, saved.start)
  BY CountTypes, EndedNodes DEF Acting, Ready, IsBudgeted
<1>1. CASE Stopped(w)
  BY <1>0, <1>1, StopWithin DEF Stopped
<1>2. ASSUME NEW out, Go(w, "commit", [st[w] EXCEPT !.out = out]),
             UNCHANGED <<run, rows, finals, asked, lost, upset, trouble>>
      PROVE  Within(w)
  <2>1. PICK x : x = [st[w] EXCEPT !.out = out]
    OBVIOUS
  <2>2. Go(w, "commit", x) /\ Even(x, st[w]) /\ UNCHANGED <<run, saved, ckpt, acts, asked, lost>>
    BY <1>0, <1>2, <2>1, ChangesCount DEF rows
  <2> QED BY <1>0, <2>2, GoesWithin DEF Nodes, Exact
<1> QED BY <1>1, <1>2 DEF Acting

LEMMA CommitWithin ==
    ASSUME IndInv, NEW w \in Executors, Ready(w), Commit(w)
    PROVE  Within(w)
<1>0. /\ at[w] = "commit" /\ st[w] \in Loose /\ InBudget(st[w], saved.start)
      /\ run \notin {"succeeded", "failed"} /\ acts \in Seq(ActRow)
  BY CountTypes, EndedNodes DEF Commit, Ready, IsBudgeted, IndInv, RowTypes
<1>1. CASE Stopped(w)
  BY <1>0, <1>1, StopWithin DEF Stopped
<1>2. PICK s : s = [st[w] EXCEPT !.seen = @ \cup {st[w].act}, !.seq = ckpt.seq + 1]
  OBVIOUS
<1>3. s.iter = st[w].iter /\ s.start = st[w].start /\ s.seq = ckpt.seq + 1
  BY <1>0, <1>2 DEF Loose
<1>4. CASE /\ Alive
           /\ acts' = [acts EXCEPT ![st[w].act].status = IF Good(s) THEN "succeeded" ELSE "failed"]
           /\ ckpt' = [seq |-> s.seq, state |-> s]
           /\ Go(w, "record", s)
           /\ UNCHANGED <<run, saved, appr, msg, jobs, history>>
  <2>1. Chosen(acts', saved.start)
    BY <1>0, <1>4, StatusDates, DatedActs DEF Ready
  <2>2. run \notin Terminal
    BY <1>0, <1>4 DEF Alive, Terminal
  <2>3. at'[w] = "record" /\ st'[w] = s /\ UNCHANGED <<run, saved, asked, lost>>
    BY <1>4, GoFrame DEF IndInv, history, tally
  <2>4. asked + saved.start <= st[w].iter + lost
    BY <1>0, <2>2 DEF Ready, IsCounted, Counts
  <2>5. Restore(saved', ckpt').iter = s.iter
    <3>1. ckpt'.seq = s.seq /\ ckpt'.state = s /\ saved.seq < s.seq
      BY <1>3, <1>4, CountTypes
    <3>2. Restore(saved, ckpt') = [s EXCEPT !.seq = s.seq]
      BY <3>1 DEF Restore
    <3>3. [s EXCEPT !.seq = s.seq].iter = s.iter
      BY <1>0, <1>2 DEF Loose
    <3> QED BY <2>3, <3>2, <3>3
  <2>6. Lagging(w)' = 0
    BY <2>3 DEF Lagging, Exact
  <2>7. asked' + saved.start <= Restore(saved', ckpt').iter + lost' + Lagging(w)'
    <3>1. st[w].iter \in Nat /\ lost \in Nat /\ asked \in Nat /\ saved.start \in Nat
      BY CountTypes DEF Ready, IsBudgeted
    <3> QED BY <1>3, <2>3, <2>4, <2>5, <2>6, <3>1
  <2>8. Counts(w)'
    BY <1>3, <1>4, <2>3, <2>4 DEF Counts
  <2>9. InBudget(s, saved.start) /\ ckpt'.state = s
    BY <1>0, <1>3, <1>4 DEF InBudget
  <2> QED BY <1>0, <2>1, <2>3, <2>7, <2>8, <2>9 DEF Within, Ready, IsBudgeted
<1>5. CASE saved' = st[w] /\ Raise(w) /\ UNCHANGED <<run, ckpt, acts, appr, msg, jobs, history>>
  BY <1>0, <1>5, ParksWithin, SameDates DEF history, tally
<1> QED BY <1>1, <1>2, <1>4, <1>5 DEF Commit

LEMMA RecordWithin ==
    ASSUME IndInv, NEW w \in Executors, Ready(w), Record(w)
    PROVE  Within(w)
<1>1. PICK y \in Loose : y = Kept(st[w], run) /\ Even(y, st[w])
  BY KeptState, KeptEven, CountTypes
<1>2. /\ saved' = y /\ at'[w] = "observe_result" /\ st'[w] = y /\ at[w] = "record"
      /\ UNCHANGED <<run, ckpt, acts, asked, lost>>
  BY <1>1, GoFrame DEF IndInv, Record, history, tally
<1>3. Chosen(acts', saved.start) /\ run' # "succeeded" /\ run' # "failed"
  BY <1>2, EndedNodes DEF Ready, IsBudgeted
<1> QED BY <1>1, <1>2, <1>3, SavesWithin

LEMMA ObserveResultWithin ==
    ASSUME IndInv, NEW w \in Executors, Ready(w), ObserveResult(w)
    PROVE  Within(w)
<1>0. /\ at[w] = "observe_result" /\ st[w] \in Loose
      /\ run \notin {"succeeded", "failed"} /\ acts \in Seq(ActRow)
  BY CountTypes, EndedNodes DEF ObserveResult, IndInv, RowTypes
<1>1. CASE Stopped(w)
  BY <1>0, <1>1, StopWithin DEF Stopped
<1>2. ASSUME NEW n \in {"decide", "complete", "repair", "fail"}, Go(w, n, st[w]),
             UNCHANGED <<run, rows, history>>
      PROVE  Within(w)
  BY <1>0, <1>2, MovesWithin DEF Nodes, Exact
<1>3. CASE /\ acts' = [acts EXCEPT ![st[w].act].status = "uncertain"]
           /\ SetRun("waiting") /\ saved' = st[w] /\ End(w)
           /\ UNCHANGED <<ckpt, appr, msg, jobs, tally, trouble>>
  <2>1. run \notin Terminal /\ run' = "waiting" /\ Dated(acts')
    BY <1>0, <1>3, CalmWrites, StatusDates
  <2> QED BY <1>0, <1>3, <2>1, ParksWithin DEF tally
<1>4. CASE /\ Go(w, "pause", [st[w] EXCEPT !.appr = Len(appr) + 1])
           /\ UNCHANGED <<run, saved, ckpt, acts, msg, jobs, history>>
  BY <1>0, <1>4, AsksWithin DEF history, tally
<1> QED BY <1>1, <1>2, <1>3, <1>4 DEF ObserveResult

LEMMA RepairWithin ==
    ASSUME IndInv, NEW w \in Executors, Ready(w), Repair(w) \/ Replan(w)
    PROVE  Within(w)
<1>1. CASE Repair(w)
  <2>1. /\ at[w] = "repair" /\ st[w] \in Loose /\ run \notin {"succeeded", "failed"}
        /\ st[w].repairs + 1 \in Nat
    BY <1>1, CountTypes, EndedNodes DEF Repair, Loose
  <2>2. CASE NoEdge(w)
    BY <2>1, <2>2, StopWithin DEF NoEdge
  <2>3. PICK s : s = [st[w] EXCEPT !.repairs = @ + 1]
    OBVIOUS
  <2>4. s \in Loose /\ Even(s, st[w])
    BY <2>1, <2>3, ChangesCount DEF Loose
  <2>5. CASE /\ Checkpoint(w, s, IF s.repairs > MaxRepairs THEN "fail" ELSE "decide")
             /\ UNCHANGED <<run, acts, appr, msg, jobs, tally, trouble>>
    <3>1. PICK n \in {"fail", "decide"} : n = IF s.repairs > MaxRepairs THEN "fail" ELSE "decide"
      OBVIOUS
    <3>2. Checkpoint(w, s, n) /\ Dated(acts') /\ UNCHANGED <<run, asked, lost>>
      BY <2>5, <3>1, SameDates DEF tally
    <3> QED BY <2>1, <2>4, <3>2, CheckpointWithin DEF Even
  <2> QED BY <1>1, <2>2, <2>3, <2>5 DEF Repair
<1>2. CASE Replan(w)
  <2>1. at[w] = "replan" /\ st[w] \in Loose /\ run \notin {"succeeded", "failed"}
    BY <1>2, CountTypes, EndedNodes DEF Replan
  <2>2. CASE StopWrites(w) /\ Go(w, "decide", Kept(st[w], run))
    BY <2>1, <2>2, StopWithin
  <2>3. CASE Checkpoint(w, st[w], "decide") /\ UNCHANGED <<run, acts, appr, msg, jobs, tally, trouble>>
    BY <2>1, <2>3, SameDates, CheckpointWithin DEF tally
  <2> QED BY <1>2, <2>2, <2>3 DEF Replan
<1> QED BY <1>1, <1>2

LEMMA VerifyWithin ==
    ASSUME IndInv, NEW w \in Executors, Ready(w), Verify(w) \/ Verifying(w) \/ Complete(w)
    PROVE  Within(w)
<1>0. /\ at[w] \in {"verify", "verifying", "complete"} /\ st[w] \in Loose
      /\ InBudget(st[w], saved.start) /\ run \notin {"succeeded", "failed"}
  BY CountTypes, EndedNodes DEF Verify, Verifying, Complete, Ready, IsBudgeted
<1>1. CASE NoEdge(w) \/ Stopped(w)
  BY <1>0, <1>1, StopWithin DEF NoEdge, Stopped
<1>2. ASSUME NEW n \in {"verifying", "complete", "repair", "replan", "wait_user", "fail", "finalizing"},
             Go(w, n, st[w]), UNCHANGED <<run, rows, history>>
      PROVE  Within(w)
  BY <1>0, <1>2, MovesWithin DEF Nodes, Exact
<1>3. CASE FailNow(w, st[w], TRUE)
  BY <1>0, <1>3, FailWithin
<1>4. CASE run \in Terminal /\ Raise(w) /\ UNCHANGED <<run, rows, history>>
  BY <1>4, LeavesWithin DEF rows, history, tally
<1> QED BY <1>1, <1>2, <1>3, <1>4 DEF Verify, Verifying, Complete

LEMMA FinalizeWithin ==
    ASSUME IndInv, NEW w \in Executors, Ready(w), Finalize(w)
    PROVE  Within(w)
<1>0. /\ at[w] = "finalizing" /\ st[w] \in Loose /\ run \notin {"succeeded", "failed"}
      /\ End(w) /\ UNCHANGED <<ckpt, acts, asked, lost>>
  BY CountTypes, EndedNodes DEF Finalize
<1>1. at'[w] = "off" /\ Chosen(acts', saved.start)
  BY <1>0 DEF End, IndInv, ThreadTypes, Ready, IsBudgeted
<1>2. CASE run = "cancelled" /\ saved' = Kept(st[w], run) /\ UNCHANGED run
  BY <1>0, <1>2, ParksWithin, SameDates
<1>3. CASE run' = "succeeded" /\ saved' = [st[w] EXCEPT !.step = 0, !.emitted = TRUE]
  <2>1. saved' \in Loose /\ Even(saved', st[w])
    BY <1>0, <1>3, ChangesCount DEF Loose
  <2> QED BY <1>0, <1>1, <1>3, <2>1, SavesWithin
<1> QED BY <1>2, <1>3 DEF Finalize

LEMMA WaitUserWithin ==
    ASSUME IndInv, NEW w \in Executors, Ready(w), WaitUser(w)
    PROVE  Within(w)
<1>0. /\ at[w] = "wait_user" /\ st[w] \in Loose /\ InBudget(st[w], saved.start)
      /\ Chosen(acts, saved.start)
  BY CountTypes DEF WaitUser, Ready, IsBudgeted
<1>1. CASE Stopped(w)
  BY <1>0, <1>1, StopWithin DEF Stopped
<1>2. CASE /\ run' = "waiting" /\ Overwritten \subseteq upset'
           /\ \/ /\ Fits(st[w])
                 /\ ckpt' = [seq |-> Number(st[w]), state |-> Numbered(st[w])]
                 /\ saved' = Numbered(st[w]) /\ End(w)
              \/ ~Fits(st[w])
           /\ UNCHANGED <<acts, asked, lost>>
  <2>1. run \notin Terminal
    BY <1>2 DEF Ready, Calm, Overwritten
  <2>2. st[w].seq = ckpt.seq /\ asked + saved.start <= st[w].iter + lost
    BY <1>0, <2>1 DEF Ready, IsCounted, Counts
  <2>3. /\ st[w].iter \in Nat /\ lost \in Nat /\ asked \in Nat /\ saved.start \in Nat
        /\ ckpt.seq \in Nat
    BY CountTypes DEF Ready, IsBudgeted
  <2>4. Fits(st[w]) /\ Number(st[w]) = ckpt.seq + 1
    BY <2>2, <2>3 DEF Fits, Number
  <2>5. PICK k : k = Numbered(st[w]) /\ k.iter = st[w].iter /\ k.start = st[w].start /\ k.seq = ckpt.seq + 1
    BY <1>0, <2>4, NumberedEven
  <2>6. ckpt' = [seq |-> ckpt.seq + 1, state |-> k] /\ saved' = k /\ at'[w] = "off"
    BY <1>2, <2>4, <2>5 DEF End, IndInv, ThreadTypes
  <2>7. Restore(saved', ckpt') = k
    BY <2>3, <2>5, <2>6 DEF Restore
  <2>8. Lagging(w)' = 0
    BY <2>6 DEF Lagging, Exact
  <2>9. asked' + saved.start <= Restore(saved', ckpt').iter + lost' + Lagging(w)'
    BY <1>2, <2>2, <2>3, <2>5, <2>7, <2>8
  <2>10. InBudget(k, saved.start) /\ ckpt'.state = k /\ Counts(w)'
    BY <1>0, <2>5, <2>6 DEF InBudget, Counts
  <2> QED BY <1>0, <1>2, <2>6, <2>9, <2>10 DEF Within, Ready, IsBudgeted
<1> QED BY <1>1, <1>2 DEF WaitUser, tally

LEMMA FailsWithin ==
    ASSUME IndInv, NEW w \in Executors, Ready(w), Fail(w)
    PROVE  Within(w)
<1>0. at[w] = "fail" /\ st[w] \in Loose /\ InBudget(st[w], saved.start)
  BY CountTypes DEF Fail, Ready, IsBudgeted
<1> QED BY <1>0, StopWithin, FailWithin DEF Fail, Stopped

\* What a new execution would start from is within the budget too.
LEMMA RestoredWithin ==
    ASSUME IndInv, IsBudgeted
    PROVE  /\ Restore(saved, ckpt) \in Loose /\ InBudget(Restore(saved, ckpt), saved.start)
           /\ Restore(saved, ckpt).seq = ckpt.seq
<1>1. /\ saved \in Loose /\ ckpt \in [seq : Nat, state : Loose] /\ saved.seq <= ckpt.seq
      /\ saved.seq \in Nat /\ ckpt.seq \in Nat
  BY Lengths DEF IndInv, RowTypes, Refers, Loose
<1>2. Restore(saved, ckpt) \in Loose
  BY <1>1, RestoredState
<1>3. CASE saved.seq >= ckpt.seq
  BY <1>1, <1>2, <1>3, RestoredEven DEF IsBudgeted
<1>4. CASE saved.seq < ckpt.seq
  BY <1>1, <1>2, <1>4, RestoredEven DEF IsBudgeted, InBudget
<1> QED BY <1>1, <1>2, <1>3, <1>4

\* An execution that raised or died is one more that was lost.
LEMMA LosesWithin ==
    ASSUME IndInv, MaxIterations \in Nat, NEW w \in Executors, Ready(w), End(w), lost' = lost + 1,
           UNCHANGED <<saved, ckpt, acts, asked>>,
           run' = run \/ (run' \notin Terminal /\ run \notin Terminal)
    PROVE  Within(w)
<1>1. at'[w] = "off" /\ Lagging(w)' = 0
  BY DEF End, IndInv, ThreadTypes, Lagging, Exact
<1>2. /\ lost \in Nat /\ asked \in Nat /\ saved.start \in Nat /\ Lag \in {0, 1}
      /\ Restore(saved, ckpt).iter \in Nat /\ asked <= MaxIterations + lost
  BY CountTypes, RestoredWithin DEF Ready, IsBudgeted, Lag, Loose
<1>3. run' \notin Terminal => asked + saved.start <= Restore(saved, ckpt).iter + lost + Lag
  BY DEF Ready, IsCounted
<1>4. run' \notin Terminal => asked' + saved.start <= Restore(saved', ckpt').iter + lost' + Lagging(w)'
  BY <1>1, <1>2, <1>3
<1>5. lost' \in Nat /\ asked' <= MaxIterations + lost'
  BY <1>2
<1> QED BY <1>1, <1>2, <1>4, <1>5 DEF Within, Ready, IsBudgeted, Counts

LEMMA RaisedWithin ==
    ASSUME IndInv, MaxIterations \in Nat, NEW w \in Executors, Ready(w), Raised(w)
    PROVE  Within(w)
<1>1. CASE /\ End(w) /\ lost' = lost + 1 /\ UNCHANGED <<saved, ckpt, acts, asked>>
           /\ run' = run \/ (run \notin Terminal /\ run' = "retrying")
  <2>1. run' = run \/ (run' \notin Terminal /\ run \notin Terminal)
    BY <1>1 DEF Terminal
  <2> QED BY <1>1, <2>1, LosesWithin
<1>2. CASE run \in Terminal /\ End(w) /\ UNCHANGED <<run, rows, history>>
  BY <1>2, LeavesWithin DEF rows, history, tally
<1>3. CASE FailNow(w, Restore(saved, ckpt), FALSE)
  BY <1>3, RestoredWithin, FailWithin DEF Ready
<1> QED BY <1>1, <1>2, <1>3 DEF Raised, rows

LEMMA ObserveWithin ==
    ASSUME IndInv, NEW w \in Executors, Ready(w), Observe(w)
    PROVE  Within(w)
<1>1. at[w] = "observe" /\ UNCHANGED <<run, rows, history>>
  BY DEF Observe
<1>2. CASE run \in Terminal /\ End(w)
  BY <1>1, <1>2, LeavesWithin DEF rows, history, tally
<1>3. CASE run \notin Terminal /\ Go(w, "enter", st[w])
  BY <1>1, <1>3, MovesWithin DEF Nodes, Exact, Terminal
<1> QED BY <1>2, <1>3 DEF Observe

\* A thread that was granted an approval has asked for nothing yet.
LEMMA GrantedThread ==
    ASSUME IndInv, OneByOne, Budgeted, Calm, NEW w \in Executors, at[w] \in {"resume", "resumed"}
    PROVE  /\ IsBudgeted /\ IsCounted /\ InBudget(st[w], saved.start)
           /\ \A v \in Executors \ {w} : at[v] = "off"
           /\ Lag = 0 /\ asked \in Nat /\ lost \in Nat
           /\ Restore(saved, ckpt).iter \in Nat /\ saved.start \in Nat
<1>1. IsBudgeted /\ IsCounted /\ \A v \in Executors \ {w} : at[v] = "off"
  BY DEF Budgeted, OneByOne, Calm, Sole
<1>2. Lag = 0
  BY <1>1 DEF Lag, Exact
<1>3. Restore(saved, ckpt).iter \in Nat /\ saved.start \in Nat
  BY CountTypes, RestoredState DEF Loose
<1> QED BY <1>1, <1>2, <1>3 DEF IsBudgeted

LEMMA ResumeWithin ==
    ASSUME IndInv, OneByOne, Budgeted, Calm', NEW w \in Executors, Resume(w)
    PROVE  Budgeted'
<1>1. /\ at[w] = "resume" /\ at'[w] = "resumed" /\ st'[w] = st[w]
      /\ \A v \in Executors \ {w} : Stays(v)
      /\ UNCHANGED <<saved, ckpt, acts, asked, lost>>
      /\ run' = "running" /\ run \notin Terminal /\ Calm
  BY GoFrame DEF IndInv, Resume, SetRun, Overwritten, Calm, rows, tally
<1>2. /\ IsBudgeted /\ IsCounted /\ InBudget(st[w], saved.start)
      /\ \A v \in Executors \ {w} : at[v] = "off"
      /\ Lag = 0
  BY <1>1, GrantedThread
<1>3. /\ \A v \in Executors \ {w} : at'[v] = "off"
      /\ Lag' = 0
  BY <1>1, <1>2 DEF Stays, Lag, Exact
<1>4. IsBudgeted'
  BY <1>1, <1>2, <1>3 DEF IsBudgeted, Terminal
<1>5. IsCounted'
  BY <1>1, <1>2, <1>3 DEF IsCounted, Counts, Restore
<1> QED BY <1>4, <1>5 DEF Budgeted

LEMMA SaveResumedWithin ==
    ASSUME IndInv, OneByOne, Budgeted, Calm', NEW w \in Executors, SaveResumed(w)
    PROVE  Budgeted'
<1>1. PICK k \in Loose : k = Kept(st[w], run) /\ Even(k, st[w])
  BY KeptState, KeptEven, CountTypes
<1>2. /\ at[w] = "resumed" /\ at'[w] = "observe" /\ st'[w] = Restore(k, ckpt) /\ saved' = k
      /\ \A v \in Executors \ {w} : Stays(v)
      /\ UNCHANGED <<run, ckpt, acts, asked, lost>> /\ Calm
  BY <1>1, GoFrame DEF IndInv, SaveResumed, Calm, history, tally
<1>3. /\ IsBudgeted /\ IsCounted /\ InBudget(st[w], saved.start)
      /\ \A v \in Executors \ {w} : at[v] = "off"
      /\ Lag = 0 /\ asked \in Nat /\ lost \in Nat
      /\ Restore(saved, ckpt).iter \in Nat /\ saved.start \in Nat
  BY <1>2, GrantedThread
<1>4. PICK x \in Loose : x = Restore(k, ckpt)
  BY CountTypes, RestoredState
<1>5. k.iter = st[w].iter /\ k.start = saved.start /\ k.seq = st[w].seq /\ InBudget(k, saved.start)
  BY <1>1, <1>3 DEF Even, InBudget
<1>6. /\ k.seq \in Nat /\ ckpt.seq \in Nat /\ k.seq <= ckpt.seq
      /\ ckpt \in [seq : Nat, state : Loose] /\ saved \in Loose /\ saved.seq \in Nat
  BY <1>5, CountTypes
<1>7. x.seq = ckpt.seq /\ InBudget(x, saved.start)
  <2>1. CASE k.seq >= ckpt.seq
    BY <1>4, <1>5, <1>6, <2>1, RestoredEven
  <2>2. CASE k.seq < ckpt.seq
    BY <1>3, <1>4, <1>6, <2>2, RestoredEven DEF IsBudgeted, InBudget
  <2> QED BY <1>6, <2>1, <2>2
<1>8. /\ \A v \in Executors \ {w} : at'[v] = "off"
      /\ Lag' = 0
  BY <1>2, <1>3 DEF Stays, Lag, Exact
<1>9. IsBudgeted'
  BY <1>2, <1>3, <1>4, <1>5, <1>7, <1>8 DEF IsBudgeted
<1>10. IsCounted'
  <2> SUFFICES ASSUME run \notin Terminal PROVE IsCounted'
    BY <1>2 DEF IsCounted
  <2>1. /\ asked + saved.start <= Restore(saved, ckpt).iter + lost + Lag
        /\ Even(st[w], saved)
    BY <1>2, <1>3 DEF IsCounted
  <2>2. k.iter = saved.iter /\ k.seq = saved.seq
    BY <1>5, <2>1 DEF Even
  <2>3. x.iter = Restore(saved, ckpt).iter
    <3>1. CASE saved.seq >= ckpt.seq
      BY <1>4, <1>6, <2>2, <3>1, RestoredEven
    <3>2. CASE saved.seq < ckpt.seq
      BY <1>4, <1>6, <2>2, <3>2, RestoredEven
    <3> QED BY <1>6, <3>1, <3>2
  <2>4. asked + saved.start <= x.iter + lost
    BY <1>3, <2>1, <2>3
  <2>5. asked' + saved'.start <= Restore(saved', ckpt').iter + lost' + Lag'
    <3>1. x.iter + lost + 0 = x.iter + lost
      BY <1>3, <2>3
    <3> QED BY <1>2, <1>4, <1>5, <1>8, <2>4, <3>1
  <2>6. Counts(w)'
    BY <1>2, <1>4, <1>5, <1>7, <2>4 DEF Counts
  <2> QED BY <1>2, <1>8, <2>5, <2>6 DEF IsCounted, Counts
<1> QED BY <1>9, <1>10 DEF Budgeted

LEMMA GraphWithin ==
    ASSUME IndInv, MaxIterations \in Nat, OneByOne, Budgeted, NEW w \in Executors, Graph(w)
    PROVE  Budgeted'
<1> SUFFICES ASSUME Calm' PROVE Budgeted'
  BY DEF Budgeted
<1>1. Frame(w)
  BY GraphFrame DEF IndInv
<1>2. CASE Resume(w) \/ SaveResumed(w)
  BY <1>2, ResumeWithin, SaveResumedWithin
<1>3. CASE ~(Resume(w) \/ SaveResumed(w))
  <2>1. at[w] \notin {"resume", "resumed"}
    BY <1>3 DEF Graph, Observe, Enter, Recover, Decide, Deciding, Policy, Pause, Park, Act,
       Acting, Commit, Record, ObserveResult, Verify, Verifying, Repair, Replan, Complete,
       Finalize, WaitUser, Fail, Raised
  <2>2. Ready(w) /\ at'[w] \notin {"resume", "resumed"}
    BY <1>1, <2>1 DEF Frame, Calm, OneByOne, Sole, Stays, Ready, Budgeted
  <2>3. Within(w)
    BY <1>3, <2>2, ObserveWithin, EnterWithin, RecoverWithin, DecideWithin, DecidingWithin,
       PolicyWithin, PauseWithin, ActWithin, ActingWithin, CommitWithin, RecordWithin,
       ObserveResultWithin, VerifyWithin, RepairWithin, FinalizeWithin, WaitUserWithin,
       FailsWithin, RaisedWithin DEF Graph
  <2> QED BY <2>2, <2>3, WithinKeeps
<1> QED BY <1>2, <1>3

LEMMA CrashWithin ==
    ASSUME IndInv, MaxIterations \in Nat, OneByOne, Budgeted, NEW w \in Executors, Crash(w)
    PROVE  Budgeted'
<1> SUFFICES ASSUME Calm' PROVE Budgeted'
  BY DEF Budgeted
<1>1. /\ at[w] # "off" /\ upset \subseteq upset' /\ End(w) /\ at'[w] = "off"
      /\ \A v \in Executors \ {w} : Stays(v)
  BY LeaveFrame DEF IndInv, Crash, End, ThreadTypes
<1>2. CASE at[w] \notin {"resume", "resumed"}
  <2>1. Ready(w)
    BY <1>1, <1>2 DEF Calm, OneByOne, Sole, Stays, Ready, Budgeted
  <2>2. Within(w)
    BY <1>1, <2>1, LosesWithin DEF Crash
  <2> QED BY <1>1, <2>1, <2>2, WithinKeeps
<1>3. CASE at[w] \in {"resume", "resumed"}
  <2>1. Calm /\ UNCHANGED <<run, saved, ckpt, acts, asked>> /\ lost' = lost + 1
    BY <1>1 DEF Calm, Crash
  <2>2. /\ IsBudgeted /\ IsCounted
        /\ \A v \in Executors \ {w} : at[v] = "off"
        /\ Lag = 0 /\ asked \in Nat /\ lost \in Nat
        /\ Restore(saved, ckpt).iter \in Nat /\ saved.start \in Nat
    BY <1>3, <2>1, GrantedThread
  <2>3. Lag' = 0 /\ \A v \in Executors : at'[v] = "off"
    BY <1>1, <2>2 DEF Stays, Lag, Exact
  <2>4. IsBudgeted'
    <3>1. lost' \in Nat /\ asked' <= MaxIterations + lost'
      BY <2>1, <2>2 DEF IsBudgeted
    <3> QED BY <2>1, <2>2, <2>3, <3>1 DEF IsBudgeted
  <2>5. run \notin Terminal => asked' + saved'.start <= Restore(saved', ckpt').iter + lost' + Lag'
    <3> SUFFICES ASSUME run \notin Terminal
                 PROVE  asked + saved.start <= Restore(saved, ckpt).iter + (lost + 1) + 0
      BY <2>1, <2>3
    <3> QED BY <2>2 DEF IsCounted
  <2>6. IsCounted'
    BY <2>1, <2>3, <2>5 DEF IsCounted, Counts
  <2> QED BY <2>4, <2>6 DEF Budgeted
<1> QED BY <1>2, <1>3

\* A new execution starts with everything counted.
LEMMA StartsWithin ==
    ASSUME IndInv, MaxIterations \in Nat, Budgeted, Calm, NEW w \in Executors,
           \A v \in Executors : at[v] = "off",
           at' = [at EXCEPT ![w] = "observe"], st' = [st EXCEPT ![w] = Restore(saved', ckpt)],
           saved' \in Loose, Even(saved', saved), UNCHANGED <<ckpt, acts, asked, lost>>,
           run' \in Terminal => run \in Terminal,
           run \in Terminal => run' \in Terminal
    PROVE  Budgeted'
<1>1. /\ at'[w] = "observe" /\ st'[w] = Restore(saved', ckpt)
      /\ \A v \in Executors \ {w} : at'[v] = "off"
  BY DEF IndInv, ThreadTypes
<1>2. IsBudgeted /\ IsCounted
  BY DEF Budgeted
<1>3. /\ saved'.iter = saved.iter /\ saved'.start = saved.start /\ saved'.seq = saved.seq
      /\ saved.seq <= ckpt.seq /\ saved.seq \in Nat /\ ckpt.seq \in Nat
      /\ saved \in Loose /\ ckpt \in [seq : Nat, state : Loose]
  BY CountTypes DEF Even
<1>4. PICK r \in Loose : r = Restore(saved', ckpt)
  BY <1>3, RestoredState
<1>5. r.iter = Restore(saved, ckpt).iter /\ r.start = saved.start /\ r.seq = ckpt.seq
  <2>1. CASE saved.seq >= ckpt.seq
    BY <1>3, <1>4, <2>1, RestoredEven
  <2>2. CASE saved.seq < ckpt.seq
    BY <1>2, <1>3, <1>4, <2>2, RestoredEven DEF IsBudgeted, InBudget
  <2> QED BY <1>3, <2>1, <2>2
<1>6. InBudget(r, saved.start)
  BY <1>2, <1>5, RestoredWithin DEF InBudget
<1>7. Lag = 0 /\ Lag' = 0
  BY <1>1 DEF Lag, Exact
<1>8. IsBudgeted'
  BY <1>1, <1>2, <1>3, <1>4, <1>6 DEF IsBudgeted, InBudget
<1>9. IsCounted'
  <2> SUFFICES ASSUME run' \notin Terminal PROVE IsCounted'
    BY DEF IsCounted
  <2>1. asked + saved.start <= Restore(saved, ckpt).iter + lost + Lag
    BY <1>2 DEF IsCounted
  <2>2. asked + saved.start <= r.iter + lost
    <3>1. /\ asked \in Nat /\ lost \in Nat /\ saved.start \in Nat
          /\ Restore(saved, ckpt).iter \in Nat
      BY <1>2, <1>3, RestoredState DEF IsBudgeted, Loose
    <3> QED BY <1>5, <1>7, <2>1, <3>1
  <2>3. r.iter \in Nat /\ lost \in Nat
    BY <1>2 DEF IsBudgeted, Loose
  <2>4. asked' + saved'.start <= Restore(saved', ckpt').iter + lost' + Lag'
    BY <1>3, <1>4, <1>7, <2>2, <2>3
  <2>5. Counts(w)'
    BY <1>1, <1>3, <1>4, <1>5, <2>2 DEF Counts
  <2> QED BY <1>1, <2>4, <2>5 DEF IsCounted, Counts
<1> QED BY <1>8, <1>9 DEF Budgeted

LEMMA DispatchWithin ==
    ASSUME IndInv, MaxIterations \in Nat, Budgeted, NEW w \in Executors,
           Dispatch(w) \/ \E p : ResumeAfterApproval(w, p)
    PROVE  Budgeted'
<1> SUFFICES ASSUME Calm' PROVE Budgeted'
  BY DEF Budgeted
<1>1. saved \in Loose
  BY CountTypes
<1>2. CASE Dispatch(w)
  <2>1. /\ UNCHANGED <<run, saved, ckpt, acts, asked, lost>> /\ upset' = upset \cup Overlap
        /\ at' = [at EXCEPT ![w] = "observe"] /\ st' = [st EXCEPT ![w] = Restore(saved, ckpt)]
    BY <1>2 DEF Dispatch, tally
  <2>2. Calm /\ \A v \in Executors : at[v] = "off"
    BY <2>1 DEF Calm, Overlap
  <2>3. Even(saved', saved) /\ saved' \in Loose /\ st' = [st EXCEPT ![w] = Restore(saved', ckpt)]
    BY <1>1, <2>1 DEF Even
  <2> QED BY <2>1, <2>2, <2>3, StartsWithin
<1>3. ASSUME NEW p, ResumeAfterApproval(w, p) PROVE Budgeted'
  <2>1. PICK s \in Loose :
           /\ s = [saved EXCEPT
                     !.approved = IF saved.step = 0 THEN @ ELSE @ \cup {saved.step},
                     !.gok = @ \/ saved.gkey, !.gkey = FALSE, !.appr = 0]
           /\ Even(s, saved)
    BY <1>1, ResumedRow DEF Even
  <2>2. /\ at'[w] = "resume" /\ st'[w] = s /\ \A v \in Executors \ {w} : Stays(v)
        /\ UNCHANGED <<run, saved, ckpt, acts, asked, lost>> /\ upset' = upset \cup Overlap
    BY <1>3, <2>1, GoFrame DEF ResumeAfterApproval, IndInv, tally
  <2>3. Calm /\ \A v \in Executors : at[v] = "off"
    BY <2>2 DEF Calm, Overlap
  <2>4. IsBudgeted /\ IsCounted /\ \A v \in Executors \ {w} : at'[v] = "off"
    BY <2>2, <2>3 DEF Budgeted, Stays
  <2>5. Lag = 0 /\ Lag' = 0
    BY <2>2, <2>3, <2>4 DEF Lag, Exact
  <2>6. IsBudgeted'
    <3>1. InBudget(s, saved.start)
      BY <2>1, <2>4 DEF IsBudgeted, InBudget, Even
    <3>2. \A v \in Executors : at'[v] \notin {"off", "raised"} => v = w /\ st'[v] = s
      BY <2>2, <2>4
    <3>3. \A v \in Executors : at'[v] \in {"off", "resume"}
      BY <2>2, <2>4
    <3> QED BY <2>2, <2>4, <3>1, <3>2, <3>3 DEF IsBudgeted, InBudget
  <2>7. IsCounted'
    BY <2>1, <2>2, <2>4, <2>5 DEF IsCounted, Counts, Restore
  <2> QED BY <2>6, <2>7 DEF Budgeted
<1> QED BY <1>2, <1>3

\* A decision about the run from outside leaves its executions where they are.
LEMMA OutsideWithin ==
    ASSUME IndInv, Budgeted, run' = "cancelled", UNCHANGED <<at, st, asked, lost>>,
           upset \subseteq upset', Dated(acts'),
           InBudget(saved', saved.start), InBudget(ckpt'.state, saved.start)
    PROVE  Budgeted'
<1> SUFFICES ASSUME Calm' PROVE Budgeted'
  BY DEF Budgeted
<1>1. IsBudgeted
  BY DEF Budgeted, Calm
<1>2. saved'.start = saved.start /\ Chosen(acts', saved.start)
  BY <1>1, DatedActs DEF InBudget
<1>3. IsBudgeted'
  BY <1>1, <1>2 DEF IsBudgeted
<1> QED BY <1>3 DEF Budgeted, IsCounted, Terminal

LEMMA RejectWithin ==
    ASSUME IndInv, Budgeted, NEW p, RejectApproval(p)
    PROVE  Budgeted'
<1>0. UNCHANGED <<ckpt, acts, at, st, asked, lost, upset>>
  BY DEF RejectApproval, threads
<1>1. CASE run \in Terminal
  <2>1. UNCHANGED <<run, saved>>
    BY <1>1 DEF RejectApproval
  <2> QED BY <1>0, <1>1, <2>1 DEF Budgeted, Calm, IsBudgeted, IsCounted
<1>2. CASE run \notin Terminal
  <2>1. /\ run' = "cancelled"
        /\ saved' = [saved EXCEPT !.appr = 0, !.gkey = FALSE, !.step = 0, !.emitted = TRUE]
    BY <1>2 DEF RejectApproval
  <2>2. saved'.iter = saved.iter /\ saved'.start = saved.start
    BY <2>1, ChangesCount DEF IndInv, RowTypes, Even
  <2>3. CASE Calm
    <3>1. InBudget(saved', saved.start) /\ InBudget(ckpt'.state, saved.start)
      BY <1>0, <2>2, <2>3 DEF Budgeted, IsBudgeted, InBudget
    <3> QED BY <1>0, <2>1, <3>1, SameDates, OutsideWithin
  <2>4. CASE ~Calm
    BY <1>0, <2>4 DEF Budgeted, Calm
  <2> QED BY <2>3, <2>4
<1> QED BY <1>1, <1>2

LEMMA CancelWithin ==
    ASSUME IndInv, Budgeted, CancelRun
    PROVE  Budgeted'
<1> SUFFICES ASSUME Calm' PROVE Budgeted'
  BY DEF Budgeted
<1>0. /\ run' = "cancelled" /\ UNCHANGED <<at, st, asked, lost>> /\ upset \subseteq upset'
      /\ acts' = Withdrawn(saved.act)
  BY DEF CancelRun, threads
<1>1. IsBudgeted
  BY <1>0 DEF Budgeted, Calm
<1>2. Dated(acts')
  BY <1>0, WithdrawnDates DEF IndInv, RowTypes
<1>3. saved \in Loose
  BY DEF IndInv, RowTypes
<1>4. PICK s \in Loose : s = [saved EXCEPT !.appr = 0, !.gkey = FALSE, !.step = 0] /\ Even(s, saved)
  <2>1. PICK s \in Loose : s = [saved EXCEPT !.appr = 0, !.gkey = FALSE, !.step = 0]
    BY <1>3, ClearedState
  <2>2. Even(s, saved)
    BY <1>3, <2>1, ChangesCount
  <2> QED BY <2>1, <2>2
<1>5. InBudget(s, saved.start)
  BY <1>1, <1>4 DEF IsBudgeted, InBudget, Even
<1>6. CASE /\ Fits(s) /\ ckpt' = [seq |-> Number(s), state |-> Numbered(s)]
           /\ saved' = [Numbered(s) EXCEPT !.emitted = TRUE]
  <2>1. PICK k \in Loose : k = Numbered(s) /\ k.iter = s.iter /\ k.start = s.start
    <3>1. Number(s) = ckpt.seq + 1 /\ ckpt.seq \in Nat
      BY <1>6, Lengths DEF Fits, IndInv
    <3>2. Numbered(s) \in Loose
      BY <3>1 DEF Numbered, Loose
    <3> QED BY <3>2, NumberedEven
  <2>2. PICK e : e = [k EXCEPT !.emitted = TRUE]
    OBVIOUS
  <2>3. e.iter = k.iter /\ e.start = k.start
    BY <2>2 DEF Loose
  <2>4. saved' = e /\ ckpt'.state = k
    BY <1>6, <2>1, <2>2
  <2>5. InBudget(saved', saved.start) /\ InBudget(ckpt'.state, saved.start)
    BY <1>5, <2>1, <2>3, <2>4 DEF InBudget
  <2> QED BY <1>0, <1>2, <2>5, OutsideWithin
<1>7. CASE saved' = s /\ UNCHANGED ckpt
  <2>1. InBudget(saved', saved.start) /\ InBudget(ckpt'.state, saved.start)
    BY <1>1, <1>5, <1>7 DEF IsBudgeted
  <2> QED BY <1>0, <1>2, <2>1, OutsideWithin
<1> QED BY <1>4, <1>6, <1>7 DEF CancelRun

\* A new attempt counts from where the last one stopped.
LEMMA RetryWithin ==
    ASSUME Settings, IndInv, MaxIterations \in Nat, Budgeted, RetryRun
    PROVE  Budgeted'
<1> SUFFICES ASSUME Calm' PROVE Budgeted'
  BY DEF Budgeted
<1>0. /\ run' = "queued" /\ UNCHANGED <<at, acts>> /\ upset' = upset \cup Overlap
      /\ asked' = 0 /\ lost' = 0
  BY DEF RetryRun, threads
<1>1. IsBudgeted /\ \A v \in Executors : at'[v] = "off"
  BY <1>0 DEF Budgeted, Calm, Overlap
<1>2. PICK r \in Loose : r = Restore(saved, ckpt) /\ InBudget(r, saved.start) /\ r.seq = ckpt.seq
  BY <1>1, RestoredWithin
<1>3. PICK s \in Loose :
       /\ s = LET undone == r.act \in DOMAIN acts /\ acts[r.act].status /= "succeeded" IN
              [r EXCEPT !.repairs = 0, !.act = 0, !.step = 0, !.appr = 0, !.gkey = FALSE,
                   !.emitted = FALSE, !.start = r.iter,
                   !.approved = IF undone THEN @ \ {r.act} ELSE @,
                   !.redo = IF ~undone THEN @
                            ELSE IF acts[r.act].gated THEN "gated" ELSE "free"]
       /\ s.seq = r.seq
  BY RetriedState
<1>4. s.iter = r.iter /\ s.start = r.iter
  <2>1. PICK A : A = IF r.act \in DOMAIN acts /\ acts[r.act].status /= "succeeded"
                     THEN r.approved \ {r.act} ELSE r.approved
    OBVIOUS
  <2>2. PICK d : d = IF ~(r.act \in DOMAIN acts /\ acts[r.act].status /= "succeeded") THEN r.redo
                     ELSE IF acts[r.act].gated THEN "gated" ELSE "free"
    OBVIOUS
  <2>3. s = [r EXCEPT !.repairs = 0, !.act = 0, !.step = 0, !.appr = 0, !.gkey = FALSE,
                      !.emitted = FALSE, !.start = r.iter, !.approved = A, !.redo = d]
    BY <1>3, <2>1, <2>2, Zenon
  <2> QED BY <2>3 DEF Loose
<1>5. PICK k : k = Numbered(s) /\ k.iter = r.iter /\ k.start = r.iter
  BY <1>4, NumberedEven
<1>6. ckpt' = [seq |-> Number(s), state |-> k] /\ saved' = k
  BY <1>2, <1>3, <1>5 DEF RetryRun
<1>7. k.seq = Number(s)
  BY <1>5, NumberedEven
<1>8. r.iter \in Nat /\ saved.start <= r.iter /\ saved.start \in Nat
  BY <1>2 DEF InBudget, IndInv, RowTypes, Loose
<1>9. InBudget(k, r.iter)
  BY <1>5, <1>8 DEF InBudget
<1>10. Chosen(acts', r.iter)
  <2> SUFFICES ASSUME NEW a \in DOMAIN acts PROVE acts[a].iter <= r.iter + MaxIterations
    BY <1>0 DEF Chosen
  <2>1. acts \in Seq(ActRow)
    BY DEF IndInv, RowTypes
  <2>2. acts[a] \in ActRow
    BY <2>1
  <2>3. acts[a].iter \in Nat
    BY <2>2 DEF ActRow
  <2>4. acts[a].iter <= saved.start + MaxIterations
    BY <1>1 DEF IsBudgeted, Chosen
  <2> QED BY <1>8, <2>3, <2>4
<1>11. IsBudgeted'
  BY <1>0, <1>1, <1>5, <1>6, <1>9, <1>10 DEF IsBudgeted
<1>12. Restore(saved', ckpt') = k
  <2>1. Number(s) \in Nat
    <3>1. ckpt.seq \in Nat /\ s.seq = ckpt.seq
      BY <1>2, <1>3 DEF IndInv, RowTypes
    <3> QED BY <3>1 DEF Number
  <2> QED BY <1>6, <1>7, <2>1 DEF Restore
<1>13. IsCounted'
  BY <1>0, <1>1, <1>5, <1>6, <1>8, <1>12 DEF IsCounted, Counts, Lag, Exact
<1> QED BY <1>11, <1>13 DEF Budgeted

LEMMA BudgetedStep ==
    ASSUME Settings, MaxIterations \in Nat, IndInv, OneByOne, Budgeted, [Next]_vars
    PROVE  Budgeted'
<1>1. CASE UNCHANGED vars
  BY <1>1 DEF vars, rows, threads, history, tally, Budgeted, Calm, IsBudgeted, IsCounted, Counts, Lag,
              Restore, Chosen
<1>2. CASE \E w \in Executors : Graph(w) \/ Dispatch(w) \/ Crash(w)
  BY <1>2, GraphWithin, DispatchWithin, CrashWithin
<1>3. CASE \E p \in DOMAIN appr : \/ RejectApproval(p)
                                  \/ \E w \in Executors : ResumeAfterApproval(w, p)
  BY <1>3, RejectWithin, DispatchWithin
<1> QED BY <1>1, <1>2, <1>3, CancelWithin, RetryWithin DEF Next

LEMMA NothingAsked == ASSUME MaxIterations \in Nat, Init PROVE OneByOne /\ Budgeted
<1>1. /\ saved = Blank /\ ckpt = [seq |-> 0, state |-> Blank] /\ run = "queued" /\ asked = 0
      /\ lost = 0 /\ acts = <<>> /\ \A w \in Executors : at[w] = "off"
  BY DEF Init
<1>2. Blank.iter = 0 /\ Blank.start = 0 /\ Blank.seq = 0
  BY DEF Blank
<1>3. IsBudgeted
  BY <1>1, <1>2 DEF IsBudgeted, InBudget, Chosen
<1>4. Restore(saved, ckpt) = Blank
  BY <1>1, <1>2 DEF Restore
<1>5. IsCounted
  BY <1>1, <1>2, <1>4 DEF IsCounted, Counts, Lag, Exact
<1> QED BY <1>1, <1>3, <1>5 DEF OneByOne, Sole, Budgeted

\* An attempt asks the model for a decision at most loop_max_iterations times,
\* plus once for every execution of it that raised or died, wherever it broke
\* off, as long as the executions follow one another (_budget_failure,
\* _persist_checkpoint, _restore_state).
THEOREM DecisionsAreBounded ==
    ASSUME Settings, MaxIterations \in Nat
    PROVE  Spec => []DecisionsBounded
<1>1. Init => OneByOne /\ Budgeted
  BY NothingAsked
<1>2. IndInv /\ OneByOne /\ Budgeted /\ [Next]_vars => OneByOne' /\ Budgeted'
  BY SoleStep, BudgetedStep
<1>3. Budgeted => DecisionsBounded
  BY DEF Budgeted, Calm, IsBudgeted, DecisionsBounded
<1> QED BY <1>1, <1>2, <1>3, LoopInvariant, PTL DEF Spec

-----------------------------------------------------------------------------
(* All of it, for a module that composes the loop with other components *)

LoopSafe == IndInv /\ OneByOne /\ EndsAreTold /\ Answerable /\ Budgeted

LEMMA SafeAtFirst ==
    ASSUME Settings, MaxIterations \in Nat, Init
    PROVE  LoopSafe
<1>1. EndsAreTold
  BY BlankTells DEF Init, EndsAreTold, Unannounced, Terminal
<1>2. Answerable
  BY DEF Init, Answerable
<1> QED BY <1>1, <1>2, InitHolds, NothingAsked DEF LoopSafe

LEMMA SafeStep ==
    ASSUME Settings, MaxIterations \in Nat, LoopSafe, [Next]_vars
    PROVE  LoopSafe'
BY StepKeeps, SoleStep, TellingStep, AnsweringStep, BudgetedStep DEF LoopSafe

LEMMA SafeMeans ==
    ASSUME Settings, LoopSafe
    PROVE  /\ TypeOK /\ ApprovedWhileOpen
           /\ WaitingIsAnswerable /\ EndedIsAnnounced /\ DecisionsBounded
<1>1. TypeOK
  BY InvariantTypes DEF LoopSafe
<1>2. ApprovedWhileOpen
  BY DEF LoopSafe, IndInv, Guarded, Clean, ApprovedWhileOpen
<1>3. WaitingIsAnswerable
  BY DEF LoopSafe, Answerable, WaitingIsAnswerable, Pending
<1>4. EndedIsAnnounced
  BY DEF LoopSafe, EndsAreTold, Announced, EndedIsAnnounced
<1>5. DecisionsBounded
  BY DEF LoopSafe, Budgeted, Calm, IsBudgeted, DecisionsBounded
<1> QED BY <1>1, <1>2, <1>3, <1>4, <1>5
=============================================================================
