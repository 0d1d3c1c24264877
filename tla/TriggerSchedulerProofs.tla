---------------------- MODULE TriggerSchedulerProofs ----------------------
(***************************************************************************)
(* Why a trigger neither skips nor repeats a due time: TriggerScheduler's  *)
(* invariant, one lemma per action.  The schedulers and the workers share  *)
(* only the jobs: a worker leaves every job's due time alone, a scheduler  *)
(* only adds jobs, so each half of the invariant survives the other side.  *)
(***************************************************************************)
EXTENDS TriggerScheduler, FiniteSetTheorems, SequenceTheorems, TLAPS

(* The inductive invariant.  What the constants have to satisfy: the cron    *)
(* expression matches some minute after the last one considered, and one     *)
(* after starts_at.                                                          *)
Settings ==
    /\ Slots \subseteq Nat /\ None \notin Nat
    /\ Horizon \in Nat \ {0} /\ CatchUp \in Nat
    /\ MaxJobs \in Nat /\ MaxAttempts \in Nat \ {0} /\ IsFiniteSet(Workers)
    /\ StartsAt \in Nat \cup {None} /\ EndsAt \in Nat \cup {None}
    /\ \E s \in Slots : s > Horizon /\ (StartsAt # None => s >= StartsAt)

Job == [slot : Slots, st : {"pending", "running", "done", "dead"}, attempts : Nat]
RunRow == [job : Nat, queued : BOOLEAN, execs : Nat]

\* Every variable has its kind.
Kinds ==
    /\ now \in 1..Horizon
    /\ status \in {"enabled", "disabled", "deleted"}
    /\ nextRun \in Slots \cup {None} /\ first \in Slots \cup {None}
    /\ read \in [Schedulers -> Slots \cup {None}]
    /\ upcoming \in [Schedulers -> Slots \cup {None}]
    /\ due \in [Schedulers -> SUBSET Slots]
    /\ spc \in [Schedulers -> {"idle", "enqueue"}]
    /\ jobs \in Seq(Job) /\ Len(jobs) <= MaxJobs
    /\ wpc \in [Workers -> {"idle", "build", "create", "queue", "execute", "ack", "reject"}]
    /\ job \in [Workers -> Nat] /\ run \in [Workers -> Nat]
    /\ runs \in Seq(RunRow)
    /\ overlap \in BOOLEAN /\ reopened \in BOOLEAN
    /\ interrupted \in [JobIds -> Nat]

\* Slots that wait in a scheduler were due in one evaluation.
DueIsBounded == \A p \in Schedulers : IsFiniteSet(due[p]) /\ Cardinality(due[p]) <= CatchUp

HasJob(s) == \E j \in 1..Len(jobs) : jobs[j].slot = s
AllIdle == \A p \in Schedulers : spc[p] = "idle"

\* A scheduler that is through holds nothing; while none has died and no two have
\* overlapped, one works at a time and the row is as it has listed it.
OneAtATime ==
    /\ \A p \in Schedulers : spc[p] = "idle" => due[p] = {} /\ upcoming[p] = None
    /\ ~overlap => \A p \in Schedulers : spc[p] # "idle" =>
                     /\ read[p] = nextRun
                     /\ \A q \in Schedulers : spc[q] # "idle" => q = p

\* All slots of the window from the first one on have a job or are in S.
Finished(S) == \/ ~InWindow(now)
               \/ \A s \in Slots : first <= s /\ InWindow(s) => HasJob(s) \/ s \in S

\* What was evaluated leaves no gap before the due time it goes on with.
NoGap ==
    /\ nextRun # None => first # None
    /\ \A p \in Schedulers : upcoming[p] # None => first # None
    /\ StartsAt # None => first \in {None, NextAtOrAfter(StartsAt)}
    /\ StartsAt # None \/ ~overlap =>
         /\ nextRun # None => \A s \in Slots : first <= s /\ s < nextRun => HasJob(s)
         /\ \A p \in Schedulers : upcoming[p] # None =>
              \A s \in Slots : first <= s /\ s < upcoming[p] => HasJob(s) \/ s \in due[p]
    /\ StartsAt = None /\ ~overlap /\ first # None =>
         /\ AllIdle /\ nextRun = None /\ status # "deleted" => Finished({})
         /\ \A p \in Schedulers :
              spc[p] # "idle" /\ upcoming[p] = None => Finished(due[p])

\* What has a job lies before what has none yet.
InOrder ==
    ~overlap /\ ~reopened =>
      /\ \A i, j \in 1..Len(jobs) : jobs[i].slot = jobs[j].slot => i = j
      /\ \A p \in Schedulers : \A s \in due[p] :
           /\ \A j \in 1..Len(jobs) : jobs[j].slot < s
           /\ upcoming[p] # None => s < upcoming[p]
      /\ \A p \in Schedulers : upcoming[p] # None =>
           \A j \in 1..Len(jobs) : jobs[j].slot < upcoming[p]
      /\ AllIdle /\ status # "deleted" =>
           IF nextRun # None THEN \A j \in 1..Len(jobs) : jobs[j].slot < nextRun
           ELSE Len(jobs) = 0 \/ ~InWindow(now)

\* A worker holds a job there is, and the run it has created for it.
HoldsItsRun ==
    /\ \A j \in 1..Len(jobs) : /\ jobs[j].attempts <= MaxAttempts
                               /\ jobs[j].st = "pending" => jobs[j].attempts < MaxAttempts
    /\ \A k \in 1..Len(runs) : runs[k].job \in 1..Len(jobs)
    /\ \A w \in Workers :
         /\ job[w] <= Len(jobs) /\ run[w] <= Len(runs)
         /\ wpc[w] # "idle" => job[w] >= 1
         /\ wpc[w] \in {"queue", "execute", "ack"} =>
              run[w] >= 1 /\ runs[run[w]].job = job[w]
         /\ wpc[w] \in {"execute", "ack"} => runs[run[w]].queued
         /\ wpc[w] = "ack" => runs[run[w]].execs > 0

\* The workers that may yet create a run of j, or put it back.
Open(j) == {w \in Workers : job[w] = j /\ wpc[w] \in {"build", "create", "reject"}}

Waits(j) == IF jobs[j].st = "pending" THEN 1 ELSE 0

\* Every run of a job, and every chance of another, is of the first attempt or of one
\* that follows an attempt that broke off.
AttemptsCounted ==
    \A j \in 1..Len(jobs) :
      Cardinality(RunsOf(j)) + Cardinality(Open(j)) + Waits(j) <= 1 + interrupted[j]

SchedulerInv == DueIsBounded /\ OneAtATime /\ NoGap /\ InOrder
WorkerInv == HoldsItsRun /\ AttemptsCounted /\ AckedHasExecution
IndInv == Kinds /\ SchedulerInv /\ WorkerInv
-----------------------------------------------------------------------------
(* What the operators of the model return *)

\* The least element of a set of minutes.
LEMMA LeastOf ==
    ASSUME NEW S \in SUBSET Nat, S # {}
    PROVE  Min(S) \in S /\ \A t \in S : Min(S) <= t
<1>1. IsWellFoundedOn(OpToRel(<, Nat), Nat)
  BY NatLessThanWellFounded
<1>2. PICK x \in S : \A y \in S : <<y, x>> \notin OpToRel(<, Nat)
  BY <1>1, WFMin, Zenon
<1>3. \A y \in S : ~ (y < x)
  BY <1>2, Zenon DEF OpToRel
<1>4. \A y \in S : x <= y
  BY <1>3
<1> QED BY <1>4 DEF Min

\* A set of minutes that ends has a last one.
LEMMA LastOf ==
    ASSUME NEW S \in SUBSET Nat, S # {}, NEW n \in Nat, \A t \in S : t <= n
    PROVE  \E m \in S : \A t \in S : t <= m
<1> DEFINE D == {n - t : t \in S}
<1>1. D \in SUBSET Nat /\ D # {}
  <2>1. \A t \in S : n - t \in Nat
    OBVIOUS
  <2> QED BY <2>1
<1>2. Min(D) \in D /\ \A d \in D : Min(D) <= d
  BY <1>1, LeastOf
<1>3. PICK m \in S : Min(D) = n - m
  BY <1>2
<1>4. ASSUME NEW t \in S PROVE t <= m
  <2>1. n - t \in D
    OBVIOUS
  <2>2. n - m <= n - t
    BY <1>2, <1>3, <2>1
  <2> QED BY <2>2
<1> QED BY <1>3, <1>4

\* next_at_or_after.
LEMMA NextSlot ==
    ASSUME Settings, NEW t \in Nat, \E s \in Slots : s >= t
    PROVE  /\ NextAtOrAfter(t) \in Slots /\ NextAtOrAfter(t) >= t
           /\ \A s \in Slots : s >= t => NextAtOrAfter(t) <= s
<1> DEFINE S == {s \in Slots : s >= t}
<1>1. S \in SUBSET Nat /\ S # {}
  BY DEF Settings
<1>2. Min(S) \in S /\ \A s \in S : Min(S) <= s
  BY <1>1, LeastOf
<1> QED BY <1>2 DEF NextAtOrAfter

\* The slots before s, as the loop counts them, are finite in number.
LEMMA FewBefore ==
    ASSUME Settings, NEW n \in Slots, NEW s \in Slots
    PROVE  LET B == {q \in Slots : n <= q /\ q < s}
           IN  IsFiniteSet(B) /\ Cardinality(B) \in Nat
<1> DEFINE B == {q \in Slots : n <= q /\ q < s}
<1>0. Slots \subseteq Nat
  BY DEF Settings
<1>1. B \in SUBSET Nat /\ s \in Nat /\ \A q \in B : q <= s
  <2>1. s \in Nat /\ \A q \in B : q \in Slots /\ q < s
    BY <1>0
  <2>2. ASSUME NEW q \in B PROVE q \in Nat /\ q <= s
    <3>1. q \in Slots /\ q < s
      BY <2>1
    <3>2. q \in Nat
      BY <1>0, <3>1
    <3> QED BY <2>1, <3>1, <3>2
  <2> HIDE DEF B
  <2> QED BY <2>1, <2>2
<1>2. IsFiniteSet(B)
  BY <1>1, FS_BoundedSetOfNaturals
<1> QED BY <1>2, FS_CardinalityType

\* The loop of evaluate_trigger_schedule collects at most max_catch_up_runs slots.
LEMMA CatchUpIsKept ==
    ASSUME Settings, now \in 1..Horizon, NEW n \in Slots
    PROVE  IsFiniteSet(DueSlots(n)) /\ Cardinality(DueSlots(n)) <= CatchUp
<1> DEFINE D == DueSlots(n)
           B(s) == {q \in Slots : n <= q /\ q < s}
<1>0. Slots \subseteq Nat /\ CatchUp \in Nat /\ now \in Nat
  BY DEF Settings
<1>1. D \in SUBSET Nat /\ \A s \in D : s <= now /\ n <= s /\ s \in Slots
  BY <1>0 DEF DueSlots
<1>2. IsFiniteSet(D) /\ Cardinality(D) \in Nat
  BY <1>0, <1>1, FS_BoundedSetOfNaturals, FS_CardinalityType
<1>3. CASE D = {}
  BY <1>3, <1>0, FS_EmptySet
<1>4. CASE D # {}
  <2>1. PICK m \in D : \A s \in D : s <= m
    BY <1>0, <1>1, <1>4, LastOf
  <2>2. IsFiniteSet(B(m)) /\ Cardinality(B(m)) \in Nat
    BY <1>1, FewBefore
  <2>3. Cardinality(B(m)) < CatchUp
    BY DEF DueSlots
  <2>4. D \ {m} \in SUBSET B(m)
    BY <1>0, <1>1, <2>1
  <2>5. Cardinality(D \ {m}) <= Cardinality(B(m))
    BY <2>2, <2>4, FS_Subset
  <2>6. Cardinality(D \ {m}) = Cardinality(D) - 1
    BY <1>2, FS_RemoveElement
  <2> QED BY <1>0, <1>2, <2>2, <2>3, <2>5, <2>6
<1> QED BY <1>3, <1>4

\* What evaluate_trigger_schedule returns for a schedule that goes on with slot n: the
\* slots that are due, and the first slot it does not collect, or nothing when that
\* one lies beyond the window.
LEMMA Evaluated ==
    ASSUME Settings, now \in 1..Horizon, NEW n \in Slots
    PROVE  /\ DueSlots(n) \subseteq Slots
           /\ \A d \in DueSlots(n) : n <= d
           /\ NextAfterLoop(n) \in Slots \cup {None}
           /\ NextAfterLoop(n) # None =>
                /\ n <= NextAfterLoop(n)
                /\ \A s \in Slots : n <= s /\ s < NextAfterLoop(n) => s \in DueSlots(n)
                /\ \A d \in DueSlots(n) : d < NextAfterLoop(n)
           /\ NextAfterLoop(n) = None =>
                \A s \in Slots : n <= s /\ InWindow(s) => s \in DueSlots(n)
<1> DEFINE D == DueSlots(n)
           B(s) == {q \in Slots : n <= q /\ q < s}
           R == {s \in Slots : n <= s} \ D
<1>0. /\ Slots \subseteq Nat /\ CatchUp \in Nat
      /\ now \in Nat /\ now <= Horizon /\ None \notin Slots /\ EndsAt \in Nat \cup {None}
  <2>1. Slots \subseteq Nat /\ None \notin Nat
    BY DEF Settings
  <2>2. CatchUp \in Nat /\ EndsAt \in Nat \cup {None}
    BY DEF Settings
  <2>3. now \in Nat /\ now <= Horizon
    BY DEF Settings
  <2>4. None \notin Slots
    BY <2>1
  <2> QED BY <2>1, <2>2, <2>3, <2>4
<1>1. D \subseteq Slots /\ \A s \in D : s <= now /\ n <= s
  BY <1>0 DEF DueSlots
<1>2. R # {}
  <2>1. CASE n > now
    BY <2>1, <1>0, <1>1
  <2>2. CASE ~ (n > now)
    <3>1. PICK s \in Slots : s > Horizon
      BY DEF Settings
    <3>2. s \in Nat /\ n \in Nat /\ Horizon \in Nat
      BY <1>0 DEF Settings
    <3>3. s \notin D /\ n <= s
      BY <1>0, <1>1, <2>2, <3>1, <3>2
    <3> QED BY <3>3
  <2> QED BY <2>1, <2>2
<1>3. R \in SUBSET Nat
  BY <1>0
<1> DEFINE next == Min(R)
<1>4. next \in R /\ \A s \in R : next <= s
  BY <1>2, <1>3, LeastOf
<1>5. next \in Slots /\ next \in Nat /\ n <= next /\ next \notin D
  BY <1>0, <1>4
<1>6. \A s \in Slots : n <= s /\ s < next => s \in D
  BY <1>0, <1>4, <1>5
<1>7. ASSUME NEW d \in D PROVE d < next
  <2>0. d \in Nat /\ next \in Nat
    BY <1>0, <1>1, <1>5
  <2>1. SUFFICES ASSUME next <= d PROVE FALSE
    BY <2>0
  <2>2. /\ d \in Nat /\ d <= now /\ InWindow(d) /\ Cardinality(B(d)) < CatchUp
        /\ d \in Slots
    BY <1>0, <1>1 DEF DueSlots
  <2>3. next <= now /\ InWindow(next)
    BY <1>0, <1>5, <2>1, <2>2 DEF InWindow
  <2>4. B(next) \in SUBSET B(d)
    <3>1. ASSUME NEW q \in Slots, q < next PROVE q < d
      BY <1>0, <2>0, <2>1, <3>1
    <3> QED BY <1>0, <3>1
  <2>5. IsFiniteSet(B(d)) /\ Cardinality(B(d)) \in Nat /\ Cardinality(B(next)) \in Nat
    BY <1>5, <2>2, FewBefore
  <2>6. Cardinality(B(next)) <= Cardinality(B(d))
    BY <2>4, <2>5, FS_Subset
  <2>7. Cardinality(B(next)) < CatchUp
    BY <1>0, <2>2, <2>5, <2>6
  <2>8. next \in D
    BY <1>5, <2>3, <2>7 DEF DueSlots
  <2> QED BY <1>5, <2>8
<1>8. NextAfterLoop(n) = IF InWindow(next) THEN next ELSE None
  BY DEF NextAfterLoop
<1>9. CASE InWindow(next)
  BY <1>0, <1>1, <1>5, <1>6, <1>7, <1>8, <1>9
<1>10. CASE ~InWindow(next)
  <2>1. \A s \in Slots : InWindow(s) => s < next
    BY <1>0, <1>5, <1>10 DEF InWindow
  <2> QED BY <1>0, <1>1, <1>6, <1>8, <1>10, <2>1
<1> QED BY <1>9, <1>10

\* A schedule starts at its next_run_at, or at a slot with none between its start, or
\* now, and itself.
LEMMA InitialSlot ==
    ASSUME Settings, now \in 1..Horizon, nextRun \in Slots \cup {None}
    PROVE  /\ InitialNextRunAt \in Slots
           /\ nextRun # None => InitialNextRunAt = nextRun
           /\ nextRun = None /\ StartsAt # None => InitialNextRunAt = NextAtOrAfter(StartsAt)
           /\ nextRun = None /\ StartsAt = None =>
                \A s \in Slots : s < InitialNextRunAt => s < now
<1>1. PICK s \in Slots : s > Horizon /\ (StartsAt # None => s >= StartsAt)
  BY DEF Settings
<1>2. Slots \subseteq Nat /\ Horizon \in Nat /\ now \in Nat /\ now <= Horizon
  BY DEF Settings
<1>3. s \in Nat /\ s >= now
  BY <1>1, <1>2
<1>4. CASE nextRun # None
  BY <1>4 DEF InitialNextRunAt
<1>5. CASE nextRun = None /\ StartsAt # None
  <2>1. StartsAt \in Nat
    BY <1>5 DEF Settings
  <2>2. NextAtOrAfter(StartsAt) \in Slots
    BY <1>1, <1>5, <2>1, NextSlot
  <2> QED BY <1>5, <2>2 DEF InitialNextRunAt
<1>6. CASE nextRun = None /\ StartsAt = None
  <2>1. /\ NextAtOrAfter(now) \in Slots
        /\ \A q \in Slots : q >= now => NextAtOrAfter(now) <= q
    BY <1>2, <1>3, NextSlot
  <2>2. ASSUME NEW q \in Slots, q < NextAtOrAfter(now) PROVE q < now
    <3>1. q \in Nat /\ NextAtOrAfter(now) \in Nat
      BY <1>2, <2>1
    <3> QED BY <1>2, <2>1, <2>2, <3>1
  <2> QED BY <1>6, <2>1, <2>2 DEF InitialNextRunAt
<1> QED BY <1>4, <1>5, <1>6

-----------------------------------------------------------------------------
(* The jobs *)

\* One element of a sequence is replaced.
LEMMA Replaced ==
    ASSUME NEW S, NEW q \in Seq(S), NEW i \in 1..Len(q), NEW x \in S, NEW r,
           r = [q EXCEPT ![i] = x]
    PROVE  /\ r \in Seq(S) /\ Len(r) = Len(q)
           /\ \A k \in 1..Len(q) : r[k] = IF k = i THEN x ELSE q[k]
  BY ExceptSeq

\* A job is added behind the others.
LEMMA JobAdded ==
    ASSUME jobs \in Seq(Job), NEW x \in Job, jobs' = Append(jobs, x)
    PROVE  /\ jobs' \in Seq(Job) /\ Len(jobs') = Len(jobs) + 1
           /\ \A k \in 1..Len(jobs) : jobs'[k] = jobs[k]
           /\ jobs'[Len(jobs) + 1] = x
           /\ 1..Len(jobs') = 1..Len(jobs) \cup {Len(jobs) + 1}
  OBVIOUS

\* The jobs keep their due times, job j its attempts up to one.
Moved(j) ==
    /\ jobs' \in Seq(Job) /\ Len(jobs') = Len(jobs)
    /\ \A k \in 1..Len(jobs) : jobs'[k].slot = jobs[k].slot
    /\ \A k \in 1..Len(jobs) : k # j => jobs'[k] = jobs[k]

LEMMA JobChecked ==
    ASSUME jobs \in Seq(Job), NEW j \in 1..Len(jobs),
           NEW st \in {"pending", "running", "done", "dead"},
           jobs' = [jobs EXCEPT ![j].st = st]
    PROVE  Moved(j) /\ jobs'[j].st = st /\ jobs'[j].attempts = jobs[j].attempts
<1> DEFINE x == [jobs[j] EXCEPT !.st = st]
<1>1. jobs[j] \in Job
  OBVIOUS
<1>2. x \in Job /\ x.slot = jobs[j].slot /\ x.st = st /\ x.attempts = jobs[j].attempts
  BY <1>1 DEF Job
<1>3. jobs' = [jobs EXCEPT ![j] = x]
  OBVIOUS
<1> HIDE DEF x
<1>4. /\ jobs' \in Seq(Job) /\ Len(jobs') = Len(jobs)
      /\ \A k \in 1..Len(jobs) : jobs'[k] = IF k = j THEN x ELSE jobs[k]
  BY <1>2, <1>3, ExceptSeq
<1> QED BY <1>2, <1>4 DEF Moved

LEMMA JobTaken ==
    ASSUME jobs \in Seq(Job), NEW j \in 1..Len(jobs),
           jobs' = [jobs EXCEPT ![j].st = "running", ![j].attempts = @ + 1]
    PROVE  Moved(j) /\ jobs'[j].st = "running" /\ jobs'[j].attempts = jobs[j].attempts + 1
<1> DEFINE x == [jobs[j] EXCEPT !.st = "running", !.attempts = @ + 1]
<1>1. jobs[j] \in Job
  OBVIOUS
<1>2. /\ x \in Job /\ x.slot = jobs[j].slot /\ x.st = "running"
      /\ x.attempts = jobs[j].attempts + 1
  BY <1>1 DEF Job
<1>3. jobs' = [jobs EXCEPT ![j] = x]
  OBVIOUS
<1> HIDE DEF x
<1>4. /\ jobs' \in Seq(Job) /\ Len(jobs') = Len(jobs)
      /\ \A k \in 1..Len(jobs) : jobs'[k] = IF k = j THEN x ELSE jobs[k]
  BY <1>2, <1>3, ExceptSeq
<1> QED BY <1>2, <1>4 DEF Moved

\* The rows of the runs, likewise.
LEMMA RunAdded ==
    ASSUME runs \in Seq(RunRow), NEW x \in RunRow, runs' = Append(runs, x)
    PROVE  /\ runs' \in Seq(RunRow) /\ Len(runs') = Len(runs) + 1
           /\ \A k \in 1..Len(runs) : runs'[k] = runs[k]
           /\ runs'[Len(runs) + 1] = x
           /\ 1..Len(runs') = 1..Len(runs) \cup {Len(runs) + 1}
  OBVIOUS

LEMMA RunQueued ==
    ASSUME runs \in Seq(RunRow), NEW i \in 1..Len(runs)
    PROVE  runs' = [runs EXCEPT ![i].queued = TRUE] =>
             /\ runs' \in Seq(RunRow) /\ Len(runs') = Len(runs)
             /\ \A k \in 1..Len(runs) : /\ runs'[k].job = runs[k].job
                                        /\ runs'[k].execs = runs[k].execs
                                        /\ runs[k].queued => runs'[k].queued
             /\ runs'[i].queued
<1> DEFINE x == [runs[i] EXCEPT !.queued = TRUE]
<1>1. runs[i] \in RunRow
  OBVIOUS
<1>2. x.job = runs[i].job /\ x.queued = TRUE /\ x.execs = runs[i].execs
  BY <1>1 DEF RunRow
<1>3. x \in RunRow
  BY <1>1 DEF RunRow
<1>4. runs' = [runs EXCEPT ![i].queued = TRUE] => runs' = [runs EXCEPT ![i] = x]
  OBVIOUS
<1> HIDE DEF x
<1>5. runs' = [runs EXCEPT ![i] = x] =>
        /\ runs' \in Seq(RunRow) /\ Len(runs') = Len(runs)
        /\ \A k \in 1..Len(runs) : runs'[k] = IF k = i THEN x ELSE runs[k]
  BY <1>3, Replaced
<1> QED BY <1>2, <1>4, <1>5

LEMMA RunExecuted ==
    ASSUME runs \in Seq(RunRow), NEW i \in 1..Len(runs),
           runs' = [runs EXCEPT ![i].execs = @ + 1]
    PROVE  /\ runs' \in Seq(RunRow) /\ Len(runs') = Len(runs)
           /\ \A k \in 1..Len(runs) : /\ runs'[k].job = runs[k].job
                                      /\ runs'[k].execs >= runs[k].execs
                                      /\ runs'[k].queued = runs[k].queued
           /\ runs'[i].execs > 0
<1> DEFINE x == [runs[i] EXCEPT !.execs = @ + 1]
<1>1. runs[i] \in RunRow
  OBVIOUS
<1>2. /\ x.job = runs[i].job /\ x.queued = runs[i].queued
      /\ x.execs = runs[i].execs + 1 /\ runs[i].execs \in Nat
  BY <1>1 DEF RunRow
<1>5. x \in RunRow
  <2>1. x = [job |-> runs[i].job, queued |-> runs[i].queued, execs |-> runs[i].execs + 1]
    BY <1>1 DEF RunRow
  <2>2. runs[i].job \in Nat /\ runs[i].queued \in BOOLEAN /\ runs[i].execs + 1 \in Nat
    BY <1>1 DEF RunRow
  <2> QED BY <2>1, <2>2 DEF RunRow
<1>3. runs' = [runs EXCEPT ![i] = x]
  OBVIOUS
<1> HIDE DEF x
<1>4. /\ runs' \in Seq(RunRow) /\ Len(runs') = Len(runs)
      /\ \A k \in 1..Len(runs) : runs'[k] = IF k = i THEN x ELSE runs[k]
  BY <1>3, <1>5, Replaced
<1>6. ASSUME NEW k \in 1..Len(runs) PROVE runs[k].execs \in Nat
  <2>1. runs[k] \in RunRow
    OBVIOUS
  <2> QED BY <2>1 DEF RunRow
<1> QED BY <1>2, <1>4, <1>6

-----------------------------------------------------------------------------
(* What the two sides do to each other *)

\* What a worker, a person or the queue does leaves the due times alone.
LEMMA SlotsUntouched ==
    ASSUME SchedulerInv, Len(jobs') = Len(jobs),
           \A k \in 1..Len(jobs) : jobs'[k].slot = jobs[k].slot,
           UNCHANGED <<now, nextRun, schedulers, first, overlap, reopened>>,
           status' # "deleted" => status # "deleted"
    PROVE  SchedulerInv'
<1>1. DueIsBounded'
  BY DEF SchedulerInv, DueIsBounded, schedulers
<1>2. OneAtATime'
  BY DEF SchedulerInv, OneAtATime, schedulers
<1>3. \A s \in Slots : HasJob(s)' <=> HasJob(s)
  BY DEF HasJob
<1>4. AllIdle' <=> AllIdle
  BY DEF AllIdle, schedulers
<1>5. NoGap'
  <2>1. \A S : Finished(S)' <=> Finished(S)
    BY <1>3 DEF Finished, InWindow
  <2>2. due' = due /\ upcoming' = upcoming /\ spc' = spc
    BY DEF schedulers
  <2> QED BY <1>3, <1>4, <2>1, <2>2 DEF SchedulerInv, NoGap
<1>6. InOrder'
  BY <1>4 DEF SchedulerInv, InOrder, schedulers, InWindow
<1> QED BY <1>1, <1>2, <1>5, <1>6 DEF SchedulerInv

\* What a scheduler, a person or the clock does leaves the runs and the attempts alone.
LEMMA RunsUntouched ==
    ASSUME WorkerInv, UNCHANGED <<jobs, workers, runs, interrupted>>
    PROVE  WorkerInv'
<1>1. \A j : RunsOf(j)' = RunsOf(j) /\ Open(j)' = Open(j)
  BY DEF RunsOf, Open, workers
<1>2. HoldsItsRun'
  BY DEF WorkerInv, HoldsItsRun, workers
<1>3. AttemptsCounted'
  BY <1>1 DEF WorkerInv, AttemptsCounted, Waits
<1>4. AckedHasExecution'
  BY <1>1 DEF WorkerInv, AckedHasExecution
<1> QED BY <1>2, <1>3, <1>4 DEF WorkerInv

-----------------------------------------------------------------------------
(* The worker's steps *)

\* The job and the run in a worker's hands.
LEMMA InHand ==
    ASSUME Settings, IndInv, NEW w \in Workers, wpc[w] # "idle"
    PROVE  /\ job[w] \in 1..Len(jobs) /\ job[w] \in JobIds
           /\ wpc[w] \in {"queue", "execute", "ack"} =>
                run[w] \in 1..Len(runs) /\ runs[run[w]].job = job[w]
<1>1. job[w] \in Nat /\ run[w] \in Nat /\ Len(jobs) \in Nat /\ Len(jobs) <= MaxJobs
  BY DEF IndInv, Kinds
<1>2. /\ job[w] >= 1 /\ job[w] <= Len(jobs) /\ run[w] <= Len(runs)
      /\ wpc[w] \in {"queue", "execute", "ack"} =>
           run[w] >= 1 /\ runs[run[w]].job = job[w]
  BY DEF IndInv, WorkerInv, HoldsItsRun
<1>3. job[w] \in 1..Len(jobs)
  BY <1>1, <1>2
<1>4. job[w] \in JobIds
  BY <1>1, <1>2 DEF JobIds, Settings
<1>5. Len(runs) \in Nat
  BY DEF IndInv, Kinds
<1> QED BY <1>1, <1>2, <1>3, <1>4, <1>5

\* The sets that are counted are finite.
LEMMA CountsAreNumbers ==
    ASSUME Settings, Kinds, NEW j
    PROVE  /\ IsFiniteSet(RunsOf(j)) /\ Cardinality(RunsOf(j)) \in Nat
           /\ IsFiniteSet(Open(j)) /\ Cardinality(Open(j)) \in Nat
<1>1. Len(runs) \in Nat
  BY DEF Kinds
<1>2. IsFiniteSet(1..Len(runs))
  BY <1>1, FS_Interval
<1>3. RunsOf(j) \in SUBSET (1..Len(runs))
  BY DEF RunsOf
<1>4. IsFiniteSet(Workers) /\ Open(j) \in SUBSET Workers
  BY DEF Open, Settings
<1> QED BY <1>2, <1>3, <1>4, FS_Subset, FS_CardinalityType

\* The kinds of what a step of a worker or of the queue writes.
LEMMA WorkKinds ==
    ASSUME Kinds, UNCHANGED <<now, trigger, schedulers, first, overlap, reopened>>,
           jobs' \in Seq(Job), Len(jobs') = Len(jobs), runs' \in Seq(RunRow),
           wpc' \in [Workers -> {"idle", "build", "create", "queue", "execute", "ack", "reject"}],
           job' \in [Workers -> Nat], run' \in [Workers -> Nat],
           interrupted' \in [JobIds -> Nat]
    PROVE  Kinds'
  BY DEF Kinds, trigger, schedulers

\* Steps that concern one job keep the count when they keep it for that job.
LEMMA CountKept ==
    ASSUME Settings, IndInv, Len(jobs') = Len(jobs), NEW j \in 1..Len(jobs),
           \A k \in 1..Len(jobs) : k # j =>
             /\ RunsOf(k)' = RunsOf(k) /\ Open(k)' = Open(k) /\ Waits(k)' = Waits(k)
             /\ interrupted'[k] = interrupted[k],
           Cardinality(RunsOf(j)) + Cardinality(Open(j)) + Waits(j) <= 1 + interrupted[j] =>
             Cardinality(RunsOf(j)') + Cardinality(Open(j)') + Waits(j)' <= 1 + interrupted'[j]
    PROVE  AttemptsCounted'
<1>1. ASSUME NEW k \in 1..Len(jobs)
      PROVE  Cardinality(RunsOf(k)') + Cardinality(Open(k)') + Waits(k)' <= 1 + interrupted'[k]
  <2>1. Cardinality(RunsOf(k)) + Cardinality(Open(k)) + Waits(k) <= 1 + interrupted[k]
    BY DEF IndInv, WorkerInv, AttemptsCounted
  <2> QED BY <2>1
<1> QED BY <1>1 DEF AttemptsCounted

\* The attempts of a job are a number.
LEMMA AttemptsAreNumbers ==
    ASSUME Settings, IndInv, NEW k \in 1..Len(jobs)
    PROVE  /\ jobs[k].attempts \in Nat /\ MaxAttempts \in Nat
           /\ interrupted[k] \in Nat
<1>1. jobs[k] \in Job
  BY DEF IndInv, Kinds
<1>2. k \in JobIds
  BY DEF IndInv, Kinds, Settings, JobIds
<1>3. MaxAttempts \in Nat
  BY DEF Settings
<1>4. interrupted \in [JobIds -> Nat]
  BY DEF IndInv, Kinds
<1> QED BY <1>1, <1>2, <1>3, <1>4 DEF Job

LEMMA ClaimDueStep ==
    ASSUME Settings, IndInv, NEW w \in Workers, ClaimDue(w)
    PROVE  IndInv'
<1> USE DEF IndInv
<1>1. PICK j \in 1..Len(jobs) :
        /\ jobs[j].st = "pending"
        /\ jobs' = [jobs EXCEPT ![j].st = "running", ![j].attempts = @ + 1]
        /\ job' = [job EXCEPT ![w] = j]
  BY DEF ClaimDue
<1>2. jobs \in Seq(Job) /\ j \in Nat /\ Len(jobs) \in Nat
  BY DEF Kinds
<1>3. Moved(j) /\ jobs'[j].st = "running" /\ jobs'[j].attempts = jobs[j].attempts + 1
  BY <1>1, <1>2, JobTaken
<1>4. /\ wpc \in [Workers -> {"idle", "build", "create", "queue", "execute", "ack", "reject"}]
      /\ wpc[w] = "idle" /\ wpc' = [wpc EXCEPT ![w] = "build"] /\ job \in [Workers -> Nat]
      /\ run \in [Workers -> Nat] /\ runs \in Seq(RunRow) /\ interrupted \in [JobIds -> Nat]
  BY DEF ClaimDue, Goto, Kinds
<1>5. UNCHANGED <<now, trigger, schedulers, run, runs, first, overlap, reopened, interrupted>>
  BY DEF ClaimDue, history
<1>6. Kinds'
  BY <1>1, <1>2, <1>3, <1>4, <1>5, WorkKinds DEF Moved
<1>7. SchedulerInv'
  BY <1>3, <1>5, SlotsUntouched DEF Moved, trigger
<1>8. HoldsItsRun'
  <2>1. HoldsItsRun
    BY DEF WorkerInv
  <2>2. jobs[j].attempts \in Nat /\ MaxAttempts \in Nat
    BY AttemptsAreNumbers
  <2>4. \A k \in 1..Len(jobs') : /\ jobs'[k].attempts <= MaxAttempts
                                 /\ jobs'[k].st = "pending" => jobs'[k].attempts < MaxAttempts
    <3>1. jobs[j].attempts < MaxAttempts
      BY <1>1, <2>1 DEF HoldsItsRun
    <3>2. jobs'[j].attempts <= MaxAttempts /\ jobs'[j].st # "pending"
      BY <1>3, <2>2, <3>1
    <3> QED BY <1>3, <2>1, <3>2 DEF Moved, HoldsItsRun
  <2>5. Len(jobs') = Len(jobs) /\ runs' = runs /\ run' = run
    BY <1>3, <1>5 DEF Moved
  <2>6. \A v \in Workers : /\ v # w => job'[v] = job[v] /\ wpc'[v] = wpc[v]
                           /\ v = w => job'[v] = j /\ wpc'[v] = "build"
    BY <1>1, <1>4
  <2> QED BY <1>2, <2>1, <2>4, <2>5, <2>6 DEF HoldsItsRun
<1>9. AttemptsCounted'
  <2>1. \A k : RunsOf(k)' = RunsOf(k)
    BY <1>5 DEF RunsOf
  <2>2. ASSUME NEW k \in 1..Len(jobs), k # j
        PROVE  Open(k)' = Open(k) /\ Waits(k)' = Waits(k)
    BY <1>1, <1>3, <1>4, <2>2 DEF Open, Waits, Moved
  <2>3. Open(j)' = Open(j) \cup {w} /\ w \notin Open(j)
    BY <1>1, <1>4 DEF Open
  <2>4. Waits(j) = 1 /\ Waits(j)' = 0
    BY <1>1, <1>3 DEF Waits
  <2>5. Cardinality(Open(j)') = Cardinality(Open(j)) + 1
    BY <2>3, CountsAreNumbers, FS_AddElement
  <2>6. /\ Cardinality(RunsOf(j)) \in Nat /\ Cardinality(Open(j)) \in Nat
        /\ interrupted[j] \in Nat
    BY CountsAreNumbers, AttemptsAreNumbers
  <2> QED BY <1>3, <1>5, <2>1, <2>2, <2>4, <2>5, <2>6, CountKept DEF Moved
<1>10. AckedHasExecution'
  <2>1. \A k : RunsOf(k)' = RunsOf(k)
    BY <1>5 DEF RunsOf
  <2> QED BY <1>3, <1>5, <2>1 DEF WorkerInv, AckedHasExecution, Moved
<1> QED BY <1>6, <1>7, <1>8, <1>9, <1>10 DEF WorkerInv

\* A worker that moves on stays among those that may yet create a run, or not.
LEMMA OpenStays ==
    ASSUME IndInv, NEW w \in Workers, NEW label, job' = job,
           wpc' = [wpc EXCEPT ![w] = label],
           label \in {"build", "create", "reject"} <=> wpc[w] \in {"build", "create", "reject"},
           NEW k
    PROVE  Open(k)' = Open(k)
<1>1. \A v \in Workers : wpc'[v] = IF v = w THEN label ELSE wpc[v]
  BY DEF IndInv, Kinds
<1> QED BY <1>1 DEF Open

\* A worker whose call returns is no longer among them.
LEMMA OpenDrops ==
    ASSUME IndInv, NEW w \in Workers, Done(w), NEW k
    PROVE  Open(k)' = Open(k) \ {w} /\ (k # job[w] => Open(k)' = Open(k))
<1>1. \A v \in Workers : /\ wpc'[v] = IF v = w THEN "idle" ELSE wpc[v]
                         /\ job'[v] = IF v = w THEN 0 ELSE job[v]
  BY DEF IndInv, Kinds, Done, Goto
<1> QED BY <1>1 DEF Open

LEMMA BuildRunRequestStep ==
    ASSUME Settings, IndInv, NEW w \in Workers, BuildRunRequest(w)
    PROVE  IndInv'
<1> USE DEF IndInv
<1>1. PICK label \in {"create", "reject"} :
        wpc[w] = "build" /\ wpc' = [wpc EXCEPT ![w] = label]
  BY DEF BuildRunRequest, Goto
<1>2. UNCHANGED <<now, trigger, schedulers, jobs, job, run, runs, history>>
  BY DEF BuildRunRequest
<1>3. Kinds'
  BY <1>1, <1>2 DEF Kinds, trigger, schedulers, history
<1>4. SchedulerInv'
  BY <1>2, SlotsUntouched DEF trigger, history
<1>5. \A v \in Workers : wpc'[v] = IF v = w THEN label ELSE wpc[v]
  BY <1>1 DEF Kinds
<1>6. HoldsItsRun'
  BY <1>1, <1>2, <1>5 DEF WorkerInv, HoldsItsRun
<1>7. \A k : Open(k)' = Open(k) /\ RunsOf(k)' = RunsOf(k) /\ Waits(k)' = Waits(k)
  BY <1>1, <1>2, OpenStays DEF RunsOf, Waits
<1>8. AttemptsCounted' /\ AckedHasExecution'
  BY <1>2, <1>7 DEF WorkerInv, AttemptsCounted, AckedHasExecution, history
<1> QED BY <1>3, <1>4, <1>6, <1>8 DEF WorkerInv

LEMMA CreateRunStep ==
    ASSUME Settings, IndInv, NEW w \in Workers, CreateRun(w)
    PROVE  IndInv'
<1> USE DEF IndInv
<1>0. PICK j \in 1..Len(jobs) : j = job[w]
  BY InHand DEF CreateRun
<1>00. PICK n \in Nat : n = Len(runs) + 1
  BY DEF Kinds
<1> DEFINE x == [job |-> j, queued |-> FALSE, execs |-> 0]
<1>1. /\ wpc[w] = "create" /\ wpc' = [wpc EXCEPT ![w] = "queue"]
      /\ runs' = Append(runs, x) /\ run' = [run EXCEPT ![w] = n]
  BY <1>0, <1>00 DEF CreateRun, Goto
<1>2. UNCHANGED <<now, trigger, schedulers, jobs, job, history>>
  BY DEF CreateRun
<1>3. j \in 1..Len(jobs) /\ j \in Nat
  OBVIOUS
<1>4. x \in RunRow
  BY <1>3 DEF RunRow
<1>5. runs \in Seq(RunRow) /\ Len(runs) \in Nat /\ n = Len(runs) + 1
  BY <1>00 DEF Kinds
<1>6. /\ runs' \in Seq(RunRow) /\ Len(runs') = n
      /\ \A k \in 1..Len(runs) : runs'[k] = runs[k]
      /\ runs'[n] = x /\ 1..Len(runs') = 1..Len(runs) \cup {n}
  BY <1>1, <1>4, <1>5, RunAdded
<1>7. x.job = j
  OBVIOUS
<1> HIDE DEF x
<1>8. Kinds'
  BY <1>1, <1>2, <1>5, <1>6 DEF Kinds, trigger, schedulers, history
<1>9. SchedulerInv'
  BY <1>2, SlotsUntouched DEF trigger, history
<1>10. \A v \in Workers : /\ wpc'[v] = IF v = w THEN "queue" ELSE wpc[v]
                          /\ run'[v] = IF v = w THEN n ELSE run[v]
  BY <1>1 DEF Kinds
<1>11. HoldsItsRun'
  <2>1. \A k \in 1..Len(runs') : runs'[k].job \in 1..Len(jobs')
    BY <1>2, <1>3, <1>6, <1>7 DEF WorkerInv, HoldsItsRun
  <2>2. \A k \in 1..Len(jobs') :
          /\ jobs'[k].attempts <= MaxAttempts
          /\ jobs'[k].st = "pending" => jobs'[k].attempts < MaxAttempts
    BY <1>2 DEF WorkerInv, HoldsItsRun
  <2>3. ASSUME NEW v \in Workers, v # w
        PROVE  /\ run'[v] <= Len(runs')
               /\ wpc'[v] \in {"queue", "execute", "ack"} =>
                    run'[v] >= 1 /\ runs'[run'[v]].job = job'[v]
               /\ wpc'[v] \in {"execute", "ack"} => runs'[run'[v]].queued
               /\ wpc'[v] = "ack" => runs'[run'[v]].execs > 0
    <3>1. /\ run[v] \in Nat /\ run[v] <= Len(runs)
          /\ wpc[v] \in {"queue", "execute", "ack"} =>
               run[v] >= 1 /\ runs[run[v]].job = job[v]
          /\ wpc[v] \in {"execute", "ack"} => runs[run[v]].queued
          /\ wpc[v] = "ack" => runs[run[v]].execs > 0
      BY DEF WorkerInv, HoldsItsRun, Kinds
    <3>2. run'[v] = run[v] /\ wpc'[v] = wpc[v] /\ job'[v] = job[v]
      BY <1>2, <1>10, <2>3
    <3>3. run[v] >= 1 => runs'[run[v]] = runs[run[v]]
      BY <1>5, <1>6, <3>1
    <3>4. run[v] <= n
      BY <1>5, <3>1
    <3> QED BY <1>6, <3>1, <3>2, <3>3, <3>4
  <2>4. /\ run'[w] <= Len(runs') /\ run'[w] >= 1 /\ wpc'[w] = "queue"
        /\ runs'[run'[w]].job = job'[w]
    BY <1>0, <1>2, <1>5, <1>6, <1>7, <1>10
  <2>5. \A v \in Workers : /\ job'[v] <= Len(jobs')
                           /\ wpc'[v] # "idle" => job'[v] >= 1
    BY <1>1, <1>2, <1>10 DEF WorkerInv, HoldsItsRun
  <2> QED BY <2>1, <2>2, <2>3, <2>4, <2>5 DEF HoldsItsRun
<1>12. AttemptsCounted'
  <2>1. \A k \in 1..Len(jobs) : k # j => Open(k)' = Open(k)
    BY <1>0, <1>1, <1>2, <1>10 DEF Open
  <2>2. Open(j)' = Open(j) \ {w} /\ w \in Open(j)
    BY <1>0, <1>1, <1>2, <1>10 DEF Open
  <2>3. \A k \in 1..Len(jobs) : k # j => RunsOf(k)' = RunsOf(k)
    BY <1>6, <1>7 DEF RunsOf
  <2>4. RunsOf(j)' = RunsOf(j) \cup {n} /\ n \notin RunsOf(j)
    <3>1. n \notin 1..Len(runs)
      BY <1>5
    <3> QED BY <1>6, <1>7, <3>1 DEF RunsOf
  <2>5. Cardinality(Open(j)') = Cardinality(Open(j)) - 1
    BY <2>2, CountsAreNumbers, FS_RemoveElement
  <2>6. Cardinality(RunsOf(j)') = Cardinality(RunsOf(j)) + 1
    BY <2>4, CountsAreNumbers, FS_AddElement
  <2>7. \A k : Waits(k)' = Waits(k) /\ Waits(k) \in Nat /\ interrupted'[k] = interrupted[k]
    BY <1>2 DEF Waits, history
  <2>8. /\ Cardinality(RunsOf(j)) \in Nat /\ Cardinality(Open(j)) \in Nat
        /\ interrupted[j] \in Nat
    BY <1>3, CountsAreNumbers, AttemptsAreNumbers
  <2>9. Cardinality(RunsOf(j)) + Cardinality(Open(j)) + Waits(j) <= 1 + interrupted[j] =>
          Cardinality(RunsOf(j)') + Cardinality(Open(j)') + Waits(j)' <= 1 + interrupted'[j]
    BY <2>5, <2>6, <2>7, <2>8
  <2>10. \A k \in 1..Len(jobs) : k # j =>
           /\ RunsOf(k)' = RunsOf(k) /\ Open(k)' = Open(k) /\ Waits(k)' = Waits(k)
           /\ interrupted'[k] = interrupted[k]
    BY <2>1, <2>3, <2>7
  <2> QED BY <1>2, <1>3, <2>9, <2>10, CountKept
<1>13. AckedHasExecution'
  <2>1. \A k, i : i \in RunsOf(k) => i \in RunsOf(k)' /\ runs'[i] = runs[i]
    BY <1>6 DEF RunsOf
  <2> QED BY <1>2, <2>1 DEF WorkerInv, AckedHasExecution
<1> QED BY <1>8, <1>9, <1>11, <1>12, <1>13 DEF WorkerInv

\* A step that marks a run's row as queued or as having a job to execute it.
LEMMA RunMarked ==
    ASSUME Settings, IndInv, NEW w \in Workers, NEW i \in 1..Len(runs), i = run[w],
           NEW label \in {"execute", "ack"},
           wpc[w] = IF label = "ack" THEN "execute" ELSE "queue",
           wpc' = [wpc EXCEPT ![w] = label],
           UNCHANGED <<now, trigger, schedulers, jobs, job, run, history>>,
           runs' \in Seq(RunRow), Len(runs') = Len(runs),
           \A k \in 1..Len(runs) : /\ runs'[k].job = runs[k].job
                                   /\ runs[k].execs > 0 => runs'[k].execs > 0
                                   /\ runs[k].queued => runs'[k].queued,
           runs'[i].queued, label = "ack" => runs'[i].execs > 0
    PROVE  IndInv'
<1> USE DEF IndInv
<1>1. Kinds'
  BY DEF Kinds, trigger, schedulers, history
<1>2. SchedulerInv'
  BY SlotsUntouched DEF trigger, history
<1>3. \A v \in Workers : wpc'[v] = IF v = w THEN label ELSE wpc[v]
  BY DEF Kinds
<1>4. HoldsItsRun'
  <2>1. \A k \in 1..Len(runs') : runs'[k].job \in 1..Len(jobs')
    BY DEF WorkerInv, HoldsItsRun
  <2>2. \A k \in 1..Len(jobs') :
          /\ jobs'[k].attempts <= MaxAttempts
          /\ jobs'[k].st = "pending" => jobs'[k].attempts < MaxAttempts
    BY DEF WorkerInv, HoldsItsRun
  <2>3. ASSUME NEW v \in Workers
        PROVE  /\ wpc'[v] \in {"queue", "execute", "ack"} =>
                    run'[v] >= 1 /\ runs'[run'[v]].job = job'[v]
               /\ wpc'[v] \in {"execute", "ack"} => runs'[run'[v]].queued
               /\ wpc'[v] = "ack" => runs'[run'[v]].execs > 0
    <3>1. /\ run[v] \in Nat /\ run[v] <= Len(runs) /\ Len(runs) \in Nat
          /\ wpc[v] \in {"queue", "execute", "ack"} =>
               run[v] >= 1 /\ runs[run[v]].job = job[v]
          /\ wpc[v] \in {"execute", "ack"} => runs[run[v]].queued
          /\ wpc[v] = "ack" => runs[run[v]].execs > 0
      BY DEF WorkerInv, HoldsItsRun, Kinds
    <3>2. run[v] >= 1 => run[v] \in 1..Len(runs)
      BY <3>1
    <3>3. CASE v = w
      <4>1. wpc[v] \in {"queue", "execute"} /\ wpc'[v] = label
        BY <1>3, <3>3
      <4> QED BY <3>1, <3>2, <3>3, <4>1
    <3>4. CASE v # w
      <4>1. wpc'[v] = wpc[v]
        BY <1>3, <3>4
      <4> QED BY <3>1, <3>2, <4>1
    <3> QED BY <3>3, <3>4
  <2>4. \A v \in Workers : /\ job'[v] <= Len(jobs') /\ run'[v] <= Len(runs')
                           /\ wpc'[v] # "idle" => job'[v] >= 1
    BY <1>3 DEF WorkerInv, HoldsItsRun
  <2> QED BY <2>1, <2>2, <2>3, <2>4 DEF HoldsItsRun
<1>5. \A k : Open(k)' = Open(k)
  BY OpenStays
<1>6. \A k : RunsOf(k)' = RunsOf(k) /\ Waits(k)' = Waits(k)
  BY DEF RunsOf, Waits
<1>7. AttemptsCounted'
  BY <1>5, <1>6 DEF WorkerInv, AttemptsCounted, history
<1>8. AckedHasExecution'
  <2>1. \A k, r : r \in RunsOf(k) => r \in 1..Len(runs)
    BY DEF RunsOf
  <2> QED BY <1>6, <2>1 DEF WorkerInv, AckedHasExecution
<1> QED BY <1>1, <1>2, <1>4, <1>7, <1>8 DEF WorkerInv

LEMMA MarkQueuedStep ==
    ASSUME Settings, IndInv, NEW w \in Workers, MarkQueued(w)
    PROVE  IndInv'
<1>1. PICK label \in {"execute"} : wpc[w] = "queue" /\ wpc' = [wpc EXCEPT ![w] = label]
  BY DEF MarkQueued, Goto
<1>2. UNCHANGED <<now, trigger, schedulers, jobs, job, run, history>>
  BY DEF MarkQueued
<1>3. PICK i \in 1..Len(runs) : i = run[w]
  BY <1>1, InHand
<1>4. runs' = [runs EXCEPT ![i].queued = TRUE] /\ runs \in Seq(RunRow)
  BY <1>3 DEF MarkQueued, IndInv, Kinds
<1>5. /\ runs' \in Seq(RunRow) /\ Len(runs') = Len(runs)
      /\ \A k \in 1..Len(runs) : /\ runs'[k].job = runs[k].job
                                 /\ runs'[k].execs = runs[k].execs
                                 /\ runs[k].queued => runs'[k].queued
      /\ runs'[i].queued
  BY <1>4, RunQueued
<1>13. /\ wpc[w] = (IF label = "ack" THEN "execute" ELSE "queue")
       /\ wpc' = [wpc EXCEPT ![w] = label] /\ label \in {"execute", "ack"}
  BY <1>1
<1>11. \A k \in 1..Len(runs) : /\ runs'[k].job = runs[k].job
                               /\ runs[k].execs > 0 => runs'[k].execs > 0
                               /\ runs[k].queued => runs'[k].queued
  BY <1>5
<1>12. label = "ack" => runs'[i].execs > 0
  BY <1>1, <1>5
<1> QED BY <1>2, <1>3, <1>5, <1>11, <1>12, <1>13, RunMarked

LEMMA EnqueueExecutionStep ==
    ASSUME Settings, IndInv, NEW w \in Workers, EnqueueExecution(w)
    PROVE  IndInv'
<1>1. PICK label \in {"ack"} : wpc[w] = "execute" /\ wpc' = [wpc EXCEPT ![w] = label]
  BY DEF EnqueueExecution, Goto
<1>2. UNCHANGED <<now, trigger, schedulers, jobs, job, run, history>>
  BY DEF EnqueueExecution
<1>3. PICK i \in 1..Len(runs) : i = run[w]
  BY <1>1, InHand
<1>4. runs' = [runs EXCEPT ![i].execs = @ + 1] /\ runs \in Seq(RunRow)
  BY <1>3 DEF EnqueueExecution, IndInv, Kinds
<1>5. /\ runs' \in Seq(RunRow) /\ Len(runs') = Len(runs)
      /\ \A k \in 1..Len(runs) : /\ runs'[k].job = runs[k].job
                                 /\ runs'[k].execs >= runs[k].execs
                                 /\ runs'[k].queued = runs[k].queued
      /\ runs'[i].execs > 0
  BY <1>4, RunExecuted
<1>6. \A k \in 1..Len(runs) : runs[k].execs \in Nat /\ runs'[k].execs \in Nat
  <2>1. ASSUME NEW k \in 1..Len(runs) PROVE runs[k].execs \in Nat /\ runs'[k].execs \in Nat
    <3>1. runs[k] \in RunRow /\ runs'[k] \in RunRow
      BY <1>4, <1>5
    <3> QED BY <3>1 DEF RunRow
  <2> QED BY <2>1
<1>7. \A k \in 1..Len(runs) : runs[k].execs > 0 => runs'[k].execs > 0
  BY <1>5, <1>6
<1>8. runs'[i].queued
  BY <1>1, <1>3, <1>5 DEF IndInv, WorkerInv, HoldsItsRun
<1>13. /\ wpc[w] = (IF label = "ack" THEN "execute" ELSE "queue")
       /\ wpc' = [wpc EXCEPT ![w] = label] /\ label \in {"execute", "ack"}
  BY <1>1
<1>11. \A k \in 1..Len(runs) : /\ runs'[k].job = runs[k].job
                               /\ runs[k].execs > 0 => runs'[k].execs > 0
                               /\ runs[k].queued => runs'[k].queued
  BY <1>5, <1>7
<1>12. label = "ack" => runs'[i].execs > 0
  BY <1>1, <1>5
<1> QED BY <1>2, <1>3, <1>5, <1>8, <1>11, <1>12, <1>13, RunMarked

\* A call that returns leaves its job's row in a state that is counted: as before, put
\* back by a worker that had created no run, or broken off.
LEMMA JobReturned ==
    ASSUME Settings, IndInv, NEW w \in Workers, Done(w), wpc[w] # "idle",
           NEW j \in 1..Len(jobs), j = job[w], Moved(j),
           jobs'[j].attempts = jobs[j].attempts,
           jobs'[j].st = "pending" => jobs[j].attempts < MaxAttempts,
           jobs'[j].st = "done" => jobs[j].st = "done" \/ wpc[w] = "ack",
           UNCHANGED <<now, trigger, schedulers, runs, first, overlap, reopened>>,
           NEW broken \in {0, 1}, interrupted' = [interrupted EXCEPT ![j] = @ + broken],
           jobs'[j].st = "pending" =>
             jobs[j].st = "pending" \/ broken = 1 \/ wpc[w] \in {"build", "create", "reject"}
    PROVE  IndInv'
<1> USE DEF IndInv
<1>0. /\ \A v \in Workers : /\ wpc'[v] = IF v = w THEN "idle" ELSE wpc[v]
                            /\ job'[v] = IF v = w THEN 0 ELSE job[v]
                            /\ run'[v] = IF v = w THEN 0 ELSE run[v]
      /\ wpc' \in [Workers -> {"idle", "build", "create", "queue", "execute", "ack", "reject"}]
      /\ job' \in [Workers -> Nat] /\ run' \in [Workers -> Nat]
  BY DEF Kinds, Done, Goto
<1>1. j \in JobIds /\ interrupted[j] \in Nat /\ interrupted \in [JobIds -> Nat]
  BY InHand, AttemptsAreNumbers DEF Kinds
<1>2. /\ interrupted' \in [JobIds -> Nat]
      /\ interrupted'[j] = interrupted[j] + broken
      /\ \A k : k # j => interrupted'[k] = interrupted[k]
  BY <1>1
<1>3. Kinds'
  <2>1. runs' \in Seq(RunRow) /\ jobs' \in Seq(Job) /\ Len(jobs') = Len(jobs)
    BY DEF Kinds, Moved
  <2> QED BY <1>0, <1>2, <2>1, WorkKinds
<1>4. SchedulerInv'
  BY SlotsUntouched DEF Moved, trigger
<1>5. HoldsItsRun'
  <2>1. \A k \in 1..Len(jobs') : /\ jobs'[k].attempts <= MaxAttempts
                                 /\ jobs'[k].st = "pending" => jobs'[k].attempts < MaxAttempts
    BY DEF WorkerInv, HoldsItsRun, Moved
  <2>2. Len(runs) \in Nat /\ Len(jobs) \in Nat
    BY DEF Kinds
  <2>3. /\ Len(jobs') = Len(jobs) /\ runs' = runs
        /\ \A k \in 1..Len(runs') : runs'[k].job \in 1..Len(jobs')
    BY DEF WorkerInv, HoldsItsRun, Moved
  <2>4. ASSUME NEW v \in Workers
        PROVE  /\ job'[v] <= Len(jobs') /\ run'[v] <= Len(runs')
               /\ wpc'[v] # "idle" => job'[v] >= 1
               /\ wpc'[v] \in {"queue", "execute", "ack"} =>
                    run'[v] >= 1 /\ runs'[run'[v]].job = job'[v]
               /\ wpc'[v] \in {"execute", "ack"} => runs'[run'[v]].queued
               /\ wpc'[v] = "ack" => runs'[run'[v]].execs > 0
    <3>1. CASE v = w
      BY <1>0, <2>2, <2>3, <3>1
    <3>2. CASE v # w
      <4>1. wpc'[v] = wpc[v] /\ job'[v] = job[v] /\ run'[v] = run[v]
        BY <1>0, <3>2
      <4> QED BY <2>3, <4>1 DEF WorkerInv, HoldsItsRun
    <3> QED BY <3>1, <3>2
  <2> QED BY <2>1, <2>3, <2>4 DEF HoldsItsRun
<1>6. \A k : RunsOf(k)' = RunsOf(k)
  BY DEF RunsOf
<1>7. AttemptsCounted'
  <2>1. Open(j)' = Open(j) \ {w}
    BY OpenDrops
  <2>2. \A k \in 1..Len(jobs) : k # j =>
           /\ RunsOf(k)' = RunsOf(k) /\ Open(k)' = Open(k) /\ Waits(k)' = Waits(k)
           /\ interrupted'[k] = interrupted[k]
    BY <1>2, <1>6, OpenDrops DEF Waits, Moved
  <2>3. Cardinality(Open(j)') = IF w \in Open(j) THEN Cardinality(Open(j)) - 1
                                ELSE Cardinality(Open(j))
    <3>1. IsFiniteSet(Open(j))
      BY CountsAreNumbers
    <3>2. Cardinality(Open(j) \ {w}) = IF w \in Open(j) THEN Cardinality(Open(j)) - 1
                                       ELSE Cardinality(Open(j))
      BY <3>1, FS_RemoveElement
    <3> QED BY <2>1, <3>2
  <2>4. Cardinality(RunsOf(j)) \in Nat /\ Cardinality(Open(j)) \in Nat
    BY CountsAreNumbers
  <2>5. w \in Open(j) <=> wpc[w] \in {"build", "create", "reject"}
    BY DEF Open
  <2>6. /\ Waits(j)' \in {0, 1} /\ Waits(j) \in {0, 1}
        /\ Waits(j)' = 1 => Waits(j) = 1 \/ broken = 1 \/ w \in Open(j)
    BY <2>5 DEF Waits
  <2>7. Cardinality(RunsOf(j)) + Cardinality(Open(j)) + Waits(j) <= 1 + interrupted[j] =>
          Cardinality(RunsOf(j)') + Cardinality(Open(j)') + Waits(j)' <= 1 + interrupted'[j]
    BY <1>1, <1>2, <1>6, <2>3, <2>4, <2>6
  <2> QED BY <2>2, <2>7, CountKept DEF Moved
<1>8. AckedHasExecution'
  <2>1. ASSUME NEW k \in 1..Len(jobs), jobs'[k].st = "done"
        PROVE  \E r \in RunsOf(k) : runs[r].queued /\ runs[r].execs > 0
    <3>1. CASE jobs[k].st = "done"
      BY <3>1 DEF WorkerInv, AckedHasExecution
    <3>2. CASE jobs[k].st # "done"
      <4>1. k = j /\ wpc[w] = "ack"
        BY <2>1, <3>2 DEF Moved
      <4>2. run[w] \in 1..Len(runs) /\ runs[run[w]].job = job[w]
        BY <4>1, InHand
      <4>3. run[w] \in RunsOf(k)
        BY <4>1, <4>2 DEF RunsOf
      <4>4. runs[run[w]].queued /\ runs[run[w]].execs > 0
        BY <4>1 DEF WorkerInv, HoldsItsRun
      <4> QED BY <4>3, <4>4
    <3> QED BY <3>1, <3>2
  <2> QED BY <1>6, <2>1 DEF AckedHasExecution, Moved
<1> QED BY <1>3, <1>4, <1>5, <1>7, <1>8 DEF WorkerInv

\* No attempt was broken off.
LEMMA Unbroken ==
    ASSUME IndInv, NEW j, UNCHANGED interrupted
    PROVE  interrupted' = [interrupted EXCEPT ![j] = @ + 0]
<1>1. interrupted \in [JobIds -> Nat]
  BY DEF IndInv, Kinds
<1>2. \A k \in JobIds : interrupted[k] + 0 = interrupted[k]
  BY <1>1
<1> QED BY <1>1, <1>2

LEMMA AckDueStep ==
    ASSUME Settings, IndInv, NEW w \in Workers, AckDue(w)
    PROVE  IndInv'
<1>1. PICK j \in 1..Len(jobs) : j = job[w]
  BY InHand DEF AckDue
<1>2. wpc[w] = "ack" /\ Done(w) /\ jobs' = [jobs EXCEPT ![j].st = "done"]
  BY <1>1 DEF AckDue
<1>3. Moved(j) /\ jobs'[j].st = "done" /\ jobs'[j].attempts = jobs[j].attempts
  BY <1>2, JobChecked DEF IndInv, Kinds
<1>4. /\ UNCHANGED <<now, trigger, schedulers, runs, first, overlap, reopened>>
      /\ UNCHANGED interrupted
  BY DEF AckDue, history
<1>5. PICK broken \in {0, 1} : interrupted' = [interrupted EXCEPT ![j] = @ + broken]
  BY <1>4, Unbroken
<1> QED BY <1>1, <1>2, <1>3, <1>4, <1>5, JobReturned

LEMMA RejectDueStep ==
    ASSUME Settings, IndInv, NEW w \in Workers, RejectDue(w)
    PROVE  IndInv'
<1>1. PICK j \in 1..Len(jobs) : j = job[w]
  BY InHand DEF RejectDue
<1>2. PICK st \in {"pending", "running", "done", "dead"} :
        /\ jobs' = [jobs EXCEPT ![j].st = st]
        /\ st = "pending" => jobs[j].attempts < MaxAttempts
        /\ st # "done"
  BY <1>1 DEF RejectDue
<1>3. Moved(j) /\ jobs'[j].st = st /\ jobs'[j].attempts = jobs[j].attempts
  BY <1>2, JobChecked DEF IndInv, Kinds
<1>4. /\ UNCHANGED <<now, trigger, schedulers, runs, first, overlap, reopened>>
      /\ UNCHANGED interrupted /\ wpc[w] = "reject" /\ Done(w)
  BY DEF RejectDue, history
<1>5. PICK broken \in {0, 1} : interrupted' = [interrupted EXCEPT ![j] = @ + broken]
  BY <1>4, Unbroken
<1> QED BY <1>1, <1>2, <1>3, <1>4, <1>5, JobReturned

LEMMA WorkerDiesStep ==
    ASSUME Settings, IndInv, NEW w \in Workers, WorkerDies(w)
    PROVE  IndInv'
<1>1. PICK j \in 1..Len(jobs) : j = job[w]
  BY InHand DEF WorkerDies
<1>2. PICK st \in {"pending", "running", "done", "dead"} :
        /\ jobs' = [jobs EXCEPT ![j].st = st]
        /\ st = "pending" => jobs[j].st = "pending" \/ jobs[j].attempts < MaxAttempts
        /\ st = "done" => jobs[j].st = "done"
  <2>1. jobs[j].st \in {"pending", "running", "done", "dead"}
    <3>1. jobs[j] \in Job
      BY DEF IndInv, Kinds
    <3> QED BY <3>1 DEF Job
  <2> QED BY <1>1, <2>1 DEF WorkerDies
<1>3. Moved(j) /\ jobs'[j].st = st /\ jobs'[j].attempts = jobs[j].attempts
  BY <1>2, JobChecked DEF IndInv, Kinds
<1>4. /\ UNCHANGED <<now, trigger, schedulers, runs, first, overlap, reopened>>
      /\ wpc[w] # "idle" /\ Done(w)
  BY DEF WorkerDies
<1>5. PICK broken \in {1} : interrupted' = [interrupted EXCEPT ![j] = @ + broken]
  BY <1>1 DEF WorkerDies
<1>6. st = "pending" => jobs[j].attempts < MaxAttempts
  BY <1>2 DEF IndInv, WorkerInv, HoldsItsRun
<1> QED BY <1>1, <1>2, <1>3, <1>4, <1>5, <1>6, JobReturned

LEMMA RaiseDueStep ==
    ASSUME Settings, IndInv, NEW w \in Workers, RaiseDue(w)
    PROVE  IndInv'
<1> USE DEF IndInv
<1>1. PICK j \in 1..Len(jobs) : j = job[w]
  BY InHand DEF RaiseDue
<1>2. /\ wpc[w] \in {"build", "create", "queue", "execute"}
      /\ wpc' = [wpc EXCEPT ![w] = "reject"]
      /\ interrupted' = [interrupted EXCEPT ![j] = @ + 1]
  BY <1>1 DEF RaiseDue, Goto
<1>3. UNCHANGED <<now, trigger, schedulers, jobs, job, run, runs, first, overlap, reopened>>
  BY DEF RaiseDue
<1>4. j \in JobIds /\ interrupted[j] \in Nat /\ interrupted \in [JobIds -> Nat]
  BY <1>1, <1>2, InHand, AttemptsAreNumbers DEF Kinds
<1>5. /\ interrupted' \in [JobIds -> Nat] /\ interrupted'[j] = interrupted[j] + 1
      /\ \A k : k # j => interrupted'[k] = interrupted[k]
  BY <1>2, <1>4
<1>6. /\ wpc' \in [Workers -> {"idle", "build", "create", "queue", "execute", "ack", "reject"}]
      /\ \A v \in Workers : wpc'[v] = IF v = w THEN "reject" ELSE wpc[v]
  BY <1>2 DEF Kinds
<1>7. Kinds'
  BY <1>3, <1>5, <1>6 DEF Kinds, trigger, schedulers
<1>8. SchedulerInv'
  BY <1>3, SlotsUntouched DEF trigger
<1>9. HoldsItsRun'
  BY <1>2, <1>3, <1>6 DEF WorkerInv, HoldsItsRun
<1>10. \A k : RunsOf(k)' = RunsOf(k) /\ Waits(k)' = Waits(k)
  BY <1>3 DEF RunsOf, Waits
<1>11. AttemptsCounted'
  <2>1. Open(j)' = Open(j) \cup {w}
    BY <1>1, <1>3, <1>6 DEF Open
  <2>2. \A k \in 1..Len(jobs) : k # j =>
           /\ RunsOf(k)' = RunsOf(k) /\ Open(k)' = Open(k) /\ Waits(k)' = Waits(k)
           /\ interrupted'[k] = interrupted[k]
    BY <1>1, <1>3, <1>5, <1>6, <1>10 DEF Open
  <2>3. /\ IsFiniteSet(Open(j)) /\ Cardinality(Open(j)) \in Nat
        /\ Cardinality(RunsOf(j)) \in Nat /\ Waits(j) \in Nat
    BY CountsAreNumbers DEF Waits
  <2>4. Cardinality(Open(j) \cup {w}) <= Cardinality(Open(j)) + 1
    <3>1. Cardinality(Open(j) \cup {w}) = IF w \in Open(j) THEN Cardinality(Open(j))
                                         ELSE Cardinality(Open(j)) + 1
      BY <2>3, FS_AddElement
    <3> QED BY <2>3, <3>1
  <2>5. Cardinality(Open(j) \cup {w}) \in Nat
    BY <2>3, FS_AddElement, FS_CardinalityType
  <2>6. Cardinality(RunsOf(j)) + Cardinality(Open(j)) + Waits(j) <= 1 + interrupted[j] =>
          Cardinality(RunsOf(j)') + Cardinality(Open(j)') + Waits(j)' <= 1 + interrupted'[j]
    BY <1>4, <1>5, <1>10, <2>1, <2>3, <2>4, <2>5
  <2>7. Len(jobs') = Len(jobs)
    BY <1>3
  <2> QED BY <2>2, <2>6, <2>7, CountKept
<1>12. AckedHasExecution'
  BY <1>3, <1>10 DEF WorkerInv, AckedHasExecution
<1> QED BY <1>7, <1>8, <1>9, <1>11, <1>12 DEF WorkerInv

LEMMA LeaseExpiresStep ==
    ASSUME Settings, IndInv, NEW j \in 1..Len(jobs), LeaseExpires(j)
    PROVE  IndInv'
<1> USE DEF IndInv
<1>1. PICK st \in {"pending", "running", "done", "dead"} :
        /\ jobs' = [jobs EXCEPT ![j].st = st]
        /\ st = "pending" => jobs[j].attempts < MaxAttempts
        /\ st # "done"
  BY DEF LeaseExpires
<1>2. Moved(j) /\ jobs'[j].st = st /\ jobs'[j].attempts = jobs[j].attempts
  BY <1>1, JobChecked DEF Kinds
<1>3. /\ UNCHANGED <<now, trigger, schedulers, workers, runs, first, overlap, reopened>>
      /\ interrupted' = [interrupted EXCEPT ![j] = @ + 1]
  BY DEF LeaseExpires
<1>4. j \in JobIds /\ interrupted[j] \in Nat /\ interrupted \in [JobIds -> Nat]
  BY AttemptsAreNumbers DEF Kinds, JobIds, Settings
<1>5. /\ interrupted' \in [JobIds -> Nat] /\ interrupted'[j] = interrupted[j] + 1
      /\ \A k : k # j => interrupted'[k] = interrupted[k]
  BY <1>3, <1>4
<1>6. Kinds'
  BY <1>2, <1>3, <1>5 DEF Kinds, trigger, schedulers, workers, Moved
<1>7. SchedulerInv'
  BY <1>2, <1>3, SlotsUntouched DEF trigger, Moved
<1>8. HoldsItsRun'
  BY <1>1, <1>2, <1>3 DEF WorkerInv, HoldsItsRun, Moved, workers
<1>9. \A k : RunsOf(k)' = RunsOf(k) /\ Open(k)' = Open(k)
  BY <1>3 DEF RunsOf, Open, workers
<1>10. AttemptsCounted'
  <2>1. \A k \in 1..Len(jobs) : k # j =>
           /\ RunsOf(k)' = RunsOf(k) /\ Open(k)' = Open(k) /\ Waits(k)' = Waits(k)
           /\ interrupted'[k] = interrupted[k]
    BY <1>2, <1>5, <1>9 DEF Waits, Moved
  <2>2. /\ Cardinality(Open(j)) \in Nat /\ Cardinality(RunsOf(j)) \in Nat
        /\ Waits(j) \in {0, 1} /\ Waits(j)' \in {0, 1}
    BY CountsAreNumbers DEF Waits
  <2>3. Cardinality(RunsOf(j)) + Cardinality(Open(j)) + Waits(j) <= 1 + interrupted[j] =>
          Cardinality(RunsOf(j)') + Cardinality(Open(j)') + Waits(j)' <= 1 + interrupted'[j]
    BY <1>4, <1>5, <1>9, <2>2
  <2> QED BY <1>2, <2>1, <2>3, CountKept DEF Moved
<1>11. AckedHasExecution'
  BY <1>1, <1>2, <1>3, <1>9 DEF WorkerInv, AckedHasExecution, Moved
<1> QED BY <1>6, <1>7, <1>8, <1>10, <1>11 DEF WorkerInv

-----------------------------------------------------------------------------
(* The schedulers' steps, and the others' *)

\* What has a job keeps it.
LEMMA JobsStay ==
    ASSUME Kinds, NEW s, HasJob(s),
           jobs' = jobs \/ \E x \in Job : jobs' = Append(jobs, x)
    PROVE  HasJob(s)'
<1>1. jobs \in Seq(Job)
  BY DEF Kinds
<1>2. \A x \in Job : jobs' = Append(jobs, x) =>
        1..Len(jobs) \subseteq 1..Len(jobs') /\ \A k \in 1..Len(jobs) : jobs'[k] = jobs[k]
  BY <1>1
<1> QED BY <1>2 DEF HasJob

\* When a schedule has lost its next_run_at, or has none yet, and takes it up again,
\* no slot from the first one on is without a job before the slot it starts from.
LEMMA NothingBefore ==
    ASSUME Settings, IndInv, first # None, InWindow(now), status = "enabled",
           StartsAt # None \/ (~overlap /\ AllIdle),
           NEW s \in Slots, first <= s, s < InitialNextRunAt
    PROVE  HasJob(s)
<1> USE DEF IndInv
<1>0. /\ Slots \subseteq Nat /\ now \in Nat /\ now \in 1..Horizon /\ None \notin Nat
      /\ nextRun \in Slots \cup {None}
  BY DEF Kinds, Settings
<1>1. /\ NoGap /\ first \in Slots
  BY DEF SchedulerInv, Kinds
<1>2. CASE nextRun # None
  BY <1>0, <1>1, <1>2, InitialSlot DEF NoGap
<1>3. CASE nextRun = None /\ StartsAt # None
  <2>1. first = InitialNextRunAt /\ InitialNextRunAt \in Slots
    BY <1>0, <1>1, <1>3, InitialSlot DEF NoGap
  <2>2. s \in Nat /\ first \in Nat
    BY <1>0, <1>1
  <2> QED BY <2>1, <2>2
<1>4. CASE nextRun = None /\ StartsAt = None
  <2>1. s < now /\ s \in Nat
    BY <1>0, <1>4, InitialSlot
  <2>2. InWindow(s)
    <3>1. EndsAt \in Nat \cup {None}
      BY DEF Settings
    <3> QED BY <1>0, <2>1, <3>1 DEF InWindow
  <2>3. Finished({})
    BY <1>1, <1>4 DEF NoGap
  <2> QED BY <2>2, <2>3 DEF Finished
<1> QED BY <1>0, <1>2, <1>3, <1>4

LEMMA ProcessDueStep ==
    ASSUME Settings, IndInv, NEW p \in Schedulers, ProcessDue(p)
    PROVE  IndInv'
<1> USE DEF IndInv
<1> DEFINE open == InWindow(now)
<1>1. PICK n \in Slots : n = InitialNextRunAt
  BY InitialSlot DEF Kinds
<1>2. PICK D \in SUBSET Slots : D = IF open THEN DueSlots(n) ELSE {}
  BY Evaluated DEF Kinds
<1>3. PICK u \in Slots \cup {None} : u = IF open THEN NextAfterLoop(n) ELSE None
  BY Evaluated DEF Kinds
<1>4. /\ IsFiniteSet(D) /\ Cardinality(D) <= CatchUp
      /\ \A d \in D : open /\ n <= d
      /\ u # None => /\ open /\ n <= u
                     /\ \A s \in Slots : n <= s /\ s < u => s \in D
                     /\ \A d \in D : d < u
      /\ u = None /\ open => \A s \in Slots : n <= s /\ InWindow(s) => s \in D
  <2>1. now \in 1..Horizon
    BY DEF Kinds
  <2>2. CASE open
    BY <1>2, <1>3, <2>1, <2>2, Evaluated, CatchUpIsKept
  <2>3. CASE ~open
    <3>1. D = {} /\ u = None /\ CatchUp \in Nat
      BY <1>2, <1>3, <2>3 DEF Settings
    <3> QED BY <2>3, <3>1, FS_EmptySet
  <2> QED BY <2>2, <2>3
<1>5. /\ spc[p] = "idle" /\ status = "enabled"
      /\ due' = [due EXCEPT ![p] = D] /\ upcoming' = [upcoming EXCEPT ![p] = u]
      /\ first' = IF first = None /\ open THEN n ELSE first
      /\ read' = [read EXCEPT ![p] = nextRun] /\ spc' = [spc EXCEPT ![p] = "enqueue"]
      /\ UNCHANGED <<now, status, nextRun, jobs, workers, runs, reopened, interrupted>>
  BY <1>1, <1>2, <1>3 DEF ProcessDue, trigger
<1>6. /\ overlap' \in BOOLEAN
      /\ ~overlap' => ~overlap /\ AllIdle
  BY DEF ProcessDue, Kinds, AllIdle
<1> HIDE DEF open
<1>7. Kinds'
  <2>1. first' \in Slots \cup {None} /\ nextRun \in Slots \cup {None}
    BY <1>5 DEF Kinds
  <2> QED BY <1>5, <1>6, <2>1 DEF Kinds, workers
<1>8. \A q \in Schedulers : /\ due'[q] = IF q = p THEN D ELSE due[q]
                            /\ upcoming'[q] = IF q = p THEN u ELSE upcoming[q]
                            /\ read'[q] = IF q = p THEN nextRun ELSE read[q]
                            /\ spc'[q] = IF q = p THEN "enqueue" ELSE spc[q]
  BY <1>5 DEF Kinds
<1>9. DueIsBounded'
  BY <1>4, <1>8 DEF SchedulerInv, DueIsBounded
<1>10. OneAtATime'
  BY <1>5, <1>6, <1>8 DEF SchedulerInv, OneAtATime, AllIdle
<1>11. /\ Slots \subseteq Nat /\ None \notin Nat
  BY DEF Settings
<1>12. first # None => first' = first
  BY <1>5
<1>13. first = None => nextRun = None /\ \A q \in Schedulers : upcoming[q] = None
  BY DEF SchedulerInv, NoGap
<1>14. \A s : HasJob(s)' <=> HasJob(s)
  BY <1>5 DEF HasJob
\* Slots from the first one on that lie before n have a job.
<1>15. ASSUME open, StartsAt # None \/ ~overlap', NEW s \in Slots, first' <= s, s < n
       PROVE  HasJob(s)
  <2>1. CASE first = None
    <3>1. first' = n
      BY <1>5, <1>15, <2>1
    <3> QED BY <1>11, <1>15, <3>1
  <2>2. CASE first # None
    <3>1. first <= s /\ (StartsAt # None \/ (~overlap /\ AllIdle)) /\ InWindow(now)
      BY <1>6, <1>12, <1>15, <2>2 DEF open
    <3> QED BY <1>1, <1>5, <1>15, <2>2, <3>1, NothingBefore
  <2> QED BY <2>1, <2>2
<1>16. ~AllIdle'
  BY <1>8 DEF AllIdle
<1>17. NoGap'
  <2>1. nextRun' # None => first' # None
    BY <1>5, <1>12, <1>13
  <2>2. ASSUME NEW q \in Schedulers, upcoming'[q] # None PROVE first' # None
    <3>1. CASE q = p
      BY <1>4, <1>5, <1>8, <1>11, <2>2, <3>1
    <3>2. CASE q # p
      BY <1>8, <1>12, <1>13, <2>2, <3>2
    <3> QED BY <3>1, <3>2
  <2>3. StartsAt # None => first' \in {None, NextAtOrAfter(StartsAt)}
    <3>1. first \in {None, NextAtOrAfter(StartsAt)} \/ StartsAt = None
      BY DEF SchedulerInv, NoGap
    <3>2. first = None /\ StartsAt # None => n = NextAtOrAfter(StartsAt)
      BY <1>1, <1>13, InitialSlot DEF Kinds
    <3> QED BY <1>5, <3>1, <3>2
  <2>4. ASSUME StartsAt # None \/ ~overlap', nextRun # None, NEW s \in Slots,
               first' <= s, s < nextRun
        PROVE  HasJob(s)
    BY <1>6, <1>12, <1>13, <2>4 DEF SchedulerInv, NoGap
  <2>5. ASSUME StartsAt # None \/ ~overlap', NEW q \in Schedulers, upcoming'[q] # None,
               NEW s \in Slots, first' <= s, s < upcoming'[q]
        PROVE  HasJob(s) \/ s \in due'[q]
    <3>1. CASE q = p
      <4>1. open /\ s < u /\ due'[q] = D /\ (n <= s => s \in D)
        BY <1>4, <1>8, <2>5, <3>1
      <4>2. n <= s \/ s < n
        BY <1>11
      <4> QED BY <1>15, <2>5, <4>1, <4>2
    <3>2. CASE q # p
      <4>1. upcoming[q] # None /\ s < upcoming[q] /\ due'[q] = due[q] /\ first <= s
        BY <1>8, <1>12, <1>13, <2>5, <3>2
      <4> QED BY <1>6, <2>5, <4>1 DEF SchedulerInv, NoGap
    <3> QED BY <3>1, <3>2
  <2>6. ASSUME StartsAt = None, ~overlap', first' # None, NEW q \in Schedulers,
               spc'[q] # "idle", upcoming'[q] = None
        PROVE  Finished(due[q])'
    <3>1. q = p /\ due'[q] = D /\ u = None
      BY <1>6, <1>8, <2>6 DEF AllIdle
    <3>2. ASSUME open, NEW s \in Slots, first' <= s, InWindow(s)
          PROVE  HasJob(s) \/ s \in D
      <4>1. n <= s => s \in D
        BY <1>4, <3>1, <3>2
      <4>2. n <= s \/ s < n
        BY <1>11
      <4> QED BY <1>15, <2>6, <3>2, <4>1, <4>2
    <3> QED BY <1>5, <1>14, <3>1, <3>2 DEF Finished, InWindow, open
  <2> QED BY <1>5, <1>14, <1>16, <2>1, <2>2, <2>3, <2>4, <2>5, <2>6 DEF NoGap
<1>18. InOrder'
  <2>1. SUFFICES ASSUME ~overlap', ~reopened' PROVE InOrder'
    BY DEF InOrder
  <2>2. InOrder /\ AllIdle /\ ~overlap /\ ~reopened /\ OneAtATime
    BY <1>5, <1>6, <2>1 DEF SchedulerInv
  <2>3. \A q \in Schedulers : q # p => due'[q] = {} /\ upcoming'[q] = None
    BY <1>8, <2>2 DEF OneAtATime, AllIdle
  <2>4. \A j \in 1..Len(jobs) : jobs[j].slot \in Nat
    <3>1. ASSUME NEW j \in 1..Len(jobs) PROVE jobs[j].slot \in Nat
      <4>1. jobs[j] \in Job
        BY DEF Kinds
      <4> QED BY <1>11, <4>1 DEF Job
    <3> QED BY <3>1
  <2>5. open => \A j \in 1..Len(jobs) : jobs[j].slot < n
    <3>1. nextRun # None => n = nextRun
      BY <1>1, InitialSlot DEF Kinds
    <3>2. IF nextRun # None THEN \A j \in 1..Len(jobs) : jobs[j].slot < nextRun
          ELSE Len(jobs) = 0 \/ ~open
      BY <1>5, <2>2 DEF InOrder, open
    <3>3. Len(jobs) = 0 => 1..Len(jobs) = {}
      OBVIOUS
    <3> QED BY <3>1, <3>2, <3>3
  <2>6. \A j \in 1..Len(jobs) : \A d \in D : jobs[j].slot < d
    <3>1. ASSUME NEW j \in 1..Len(jobs), NEW d \in D PROVE jobs[j].slot < d
      <4>1. jobs[j].slot < n /\ n <= d /\ d \in Nat /\ n \in Nat /\ jobs[j].slot \in Nat
        BY <1>4, <1>11, <2>4, <2>5
      <4> QED BY <4>1
    <3> QED BY <3>1
  <2>7. u # None => \A j \in 1..Len(jobs) : jobs[j].slot < u
    <3>1. ASSUME u # None, NEW j \in 1..Len(jobs) PROVE jobs[j].slot < u
      <4>1. jobs[j].slot < n /\ n <= u /\ u \in Nat /\ n \in Nat /\ jobs[j].slot \in Nat
        BY <1>4, <1>11, <2>4, <2>5, <3>1
      <4> QED BY <4>1
    <3> QED BY <3>1
  <2>8. \A q \in Schedulers : \A s \in due'[q] :
          /\ \A j \in 1..Len(jobs) : jobs[j].slot < s
          /\ upcoming'[q] # None => s < upcoming'[q]
    BY <1>4, <1>8, <2>3, <2>6
  <2>9. \A q \in Schedulers : upcoming'[q] # None =>
          \A j \in 1..Len(jobs) : jobs[j].slot < upcoming'[q]
    BY <1>8, <2>3, <2>7
  <2>10. \A i, j \in 1..Len(jobs) : jobs[i].slot = jobs[j].slot => i = j
    BY <2>2 DEF InOrder
  <2> QED BY <1>5, <1>16, <2>8, <2>9, <2>10 DEF InOrder
<1>19. WorkerInv'
  BY <1>5, RunsUntouched
<1> QED BY <1>7, <1>9, <1>10, <1>17, <1>18, <1>19 DEF SchedulerInv

LEMMA EnqueueDueStep ==
    ASSUME Settings, IndInv, NEW p \in Schedulers, EnqueueDue(p)
    PROVE  IndInv'
<1> USE DEF IndInv
<1>1. PICK s \in due[p] :
        /\ \A t \in due[p] : s <= t
        /\ jobs' = Append(jobs, [slot |-> s, st |-> "pending", attempts |-> 0])
        /\ due' = [due EXCEPT ![p] = @ \ {s}]
  BY DEF EnqueueDue
<1>2. /\ spc[p] = "enqueue" /\ Len(jobs) < MaxJobs
      /\ UNCHANGED <<now, status, nextRun, read, upcoming, spc, workers, runs,
                     first, overlap, reopened, interrupted>>
  BY DEF EnqueueDue, trigger, history
<1>3. /\ Slots \subseteq Nat /\ None \notin Nat /\ MaxJobs \in Nat /\ MaxAttempts \in Nat
      /\ MaxAttempts > 0
  BY DEF Settings
<1>4. /\ s \in Slots /\ s \in Nat /\ jobs \in Seq(Job) /\ Len(jobs) \in Nat
      /\ due \in [Schedulers -> SUBSET Slots]
  BY <1>3 DEF Kinds
<1>5. PICK x \in Job : x = [slot |-> s, st |-> "pending", attempts |-> 0]
  BY <1>4 DEF Job
<1>6. x.slot = s /\ x.st = "pending" /\ x.attempts = 0
  BY <1>5
<1>7. PICK n \in Nat : n = Len(jobs) + 1
  BY <1>4
<1>8. /\ jobs' \in Seq(Job) /\ Len(jobs') = n
      /\ \A k \in 1..Len(jobs) : jobs'[k] = jobs[k]
      /\ jobs'[n] = x /\ 1..Len(jobs') = 1..Len(jobs) \cup {n} /\ n \notin 1..Len(jobs)
  BY <1>1, <1>4, <1>5, <1>7, JobAdded
<1>9. \A q \in Schedulers : due'[q] = IF q = p THEN due[p] \ {s} ELSE due[q]
  BY <1>1, <1>4
<1>10. Kinds'
  <2>1. due' \in [Schedulers -> SUBSET Slots]
    BY <1>1, <1>4
  <2>2. Len(jobs') <= MaxJobs
    BY <1>2, <1>3, <1>4, <1>7, <1>8
  <2> QED BY <1>2, <1>8, <2>1, <2>2 DEF Kinds, workers
<1>11. DueIsBounded'
  <2>1. IsFiniteSet(due[p]) /\ Cardinality(due[p]) <= CatchUp /\ CatchUp \in Nat
    BY DEF SchedulerInv, DueIsBounded, Settings
  <2>2. /\ IsFiniteSet(due[p] \ {s}) /\ Cardinality(due[p] \ {s}) <= Cardinality(due[p])
        /\ Cardinality(due[p]) \in Nat /\ Cardinality(due[p] \ {s}) \in Nat
    BY <2>1, FS_Subset, FS_CardinalityType
  <2>3. Cardinality(due[p] \ {s}) <= CatchUp
    BY <2>1, <2>2
  <2> QED BY <1>9, <2>2, <2>3 DEF SchedulerInv, DueIsBounded
<1>12. OneAtATime'
  BY <1>2, <1>9 DEF SchedulerInv, OneAtATime
\* What was due still is, or has got its job.
<1>13. \A t : HasJob(t) => HasJob(t)'
  BY <1>1, <1>5, JobsStay
<1>14. HasJob(s)'
  BY <1>6, <1>8 DEF HasJob
<1>15. \A q \in Schedulers : \A t : HasJob(t) \/ t \in due[q] => HasJob(t)' \/ t \in due'[q]
  BY <1>9, <1>13, <1>14
<1>16. ~AllIdle'
  BY <1>2 DEF AllIdle
<1>17. NoGap'
  <2>1. \A q \in Schedulers : Finished(due[q]) => Finished(due[q])'
    BY <1>2, <1>15 DEF Finished, InWindow
  <2>2. NoGap
    BY DEF SchedulerInv
  <2>3. \A q \in Schedulers : upcoming[q] # None => first # None
    BY <2>2 DEF NoGap
  <2>4. /\ nextRun # None => first # None
        /\ StartsAt # None => first \in {None, NextAtOrAfter(StartsAt)}
    BY <2>2 DEF NoGap
  <2>5. ASSUME StartsAt # None \/ ~overlap
        PROVE  /\ nextRun # None => \A t \in Slots : first <= t /\ t < nextRun => HasJob(t)'
               /\ \A q \in Schedulers : upcoming[q] # None =>
                    \A t \in Slots : first <= t /\ t < upcoming[q] =>
                      HasJob(t)' \/ t \in due'[q]
    BY <1>13, <1>15, <2>2, <2>5 DEF NoGap
  <2>6. ASSUME StartsAt = None, ~overlap, first # None
        PROVE  \A q \in Schedulers :
                 spc[q] # "idle" /\ upcoming[q] = None => Finished(due[q])'
    BY <2>1, <2>2, <2>6 DEF NoGap
  <2> QED BY <1>2, <1>16, <2>3, <2>4, <2>5, <2>6 DEF NoGap
<1>18. InOrder'
  <2>1. SUFFICES ASSUME ~overlap', ~reopened' PROVE InOrder'
    BY DEF InOrder
  <2>2. InOrder /\ ~overlap /\ ~reopened /\ OneAtATime
    BY <1>2, <2>1 DEF SchedulerInv
  <2>3. \A q \in Schedulers : q # p => due'[q] = {} /\ upcoming'[q] = None
    BY <1>2, <1>9, <2>2 DEF OneAtATime
  <2>4. /\ \A j \in 1..Len(jobs) : jobs[j].slot < s
        /\ \A i, j \in 1..Len(jobs) : jobs[i].slot = jobs[j].slot => i = j
    BY <2>2 DEF InOrder
  <2>5. \A j \in 1..Len(jobs) : jobs[j].slot \in Nat
    <3>1. ASSUME NEW j \in 1..Len(jobs) PROVE jobs[j].slot \in Nat
      <4>1. jobs[j] \in Job
        BY DEF Kinds
      <4> QED BY <1>3, <4>1 DEF Job
    <3> QED BY <3>1
  <2>6. \A i, j \in 1..Len(jobs') : jobs'[i].slot = jobs'[j].slot => i = j
    <3>1. \A j \in 1..Len(jobs) : jobs'[j].slot # jobs'[n].slot
      BY <1>4, <1>6, <1>8, <2>4, <2>5
    <3> QED BY <1>8, <2>4, <3>1
  <2>7. ASSUME NEW t \in due'[p]
        PROVE  /\ \A j \in 1..Len(jobs') : jobs'[j].slot < t
               /\ upcoming'[p] # None => t < upcoming'[p]
    <3>1. t \in due[p] /\ t # s /\ t \in Nat
      BY <1>3, <1>4, <1>9
    <3>2. s < t
      BY <1>1, <1>4, <3>1
    <3>3. \A j \in 1..Len(jobs) : jobs[j].slot < t
      BY <2>2, <3>1 DEF InOrder
    <3>4. upcoming[p] # None => t < upcoming[p]
      BY <2>2, <3>1 DEF InOrder
    <3> QED BY <1>2, <1>6, <1>8, <3>2, <3>3, <3>4
  <2>8. upcoming'[p] # None => \A j \in 1..Len(jobs') : jobs'[j].slot < upcoming'[p]
    <3>1. upcoming[p] # None => \A j \in 1..Len(jobs) : jobs[j].slot < upcoming[p]
      BY <2>2 DEF InOrder
    <3>2. upcoming[p] # None => s < upcoming[p]
      BY <2>2 DEF InOrder
    <3> QED BY <1>2, <1>6, <1>8, <3>1, <3>2
  <2> QED BY <1>16, <2>3, <2>6, <2>7, <2>8 DEF InOrder
<1>19. HoldsItsRun'
  <2>1. HoldsItsRun /\ \A v \in Workers : job[v] \in Nat
    BY DEF WorkerInv, Kinds
  <2>2. \A k \in 1..Len(jobs') : /\ jobs'[k].attempts <= MaxAttempts
                                 /\ jobs'[k].st = "pending" => jobs'[k].attempts < MaxAttempts
    BY <1>3, <1>6, <1>8, <2>1 DEF HoldsItsRun
  <2>3. \A v \in Workers : job[v] <= n
    BY <1>4, <1>7, <2>1 DEF HoldsItsRun
  <2>4. \A k \in 1..Len(runs) : runs[k].job \in 1..Len(jobs')
    BY <1>8, <2>1 DEF HoldsItsRun
  <2> QED BY <1>2, <1>8, <2>1, <2>2, <2>3, <2>4 DEF HoldsItsRun, workers
<1>20. AttemptsCounted'
  <2>1. \A k : RunsOf(k)' = RunsOf(k) /\ Open(k)' = Open(k)
    BY <1>2 DEF RunsOf, Open, workers
  <2>2. \A k \in 1..Len(jobs) : Waits(k)' = Waits(k)
    BY <1>8 DEF Waits
  <2>3. RunsOf(n) = {}
    BY <1>8 DEF WorkerInv, HoldsItsRun, RunsOf
  <2>4. Open(n) = {}
    <3>1. ASSUME NEW v \in Workers PROVE job[v] # n
      <4>1. job[v] \in Nat /\ job[v] <= Len(jobs)
        BY DEF WorkerInv, HoldsItsRun, Kinds
      <4> QED BY <1>4, <1>7, <4>1
    <3> QED BY <3>1 DEF Open
  <2>5. Waits(n)' = 1 /\ Cardinality({}) = 0
    BY <1>6, <1>8, FS_EmptySet DEF Waits
  <2>6. interrupted'[n] \in Nat
    <3>1. n \in JobIds /\ interrupted \in [JobIds -> Nat]
      BY <1>2, <1>3, <1>4, <1>7 DEF Kinds, JobIds
    <3> QED BY <1>2, <3>1
  <2>7. Cardinality(RunsOf(n)') + Cardinality(Open(n)') + Waits(n)' <= 1 + interrupted'[n]
    <3>1. Cardinality(RunsOf(n)') = 0 /\ Cardinality(Open(n)') = 0
      BY <2>1, <2>3, <2>4, <2>5
    <3> QED BY <2>5, <2>6, <3>1
  <2>8. \A k \in 1..Len(jobs) :
          Cardinality(RunsOf(k)') + Cardinality(Open(k)') + Waits(k)' <= 1 + interrupted'[k]
    BY <1>2, <2>1, <2>2 DEF WorkerInv, AttemptsCounted
  <2> QED BY <1>8, <2>7, <2>8 DEF AttemptsCounted
<1>21. AckedHasExecution'
  <2>1. \A k : RunsOf(k)' = RunsOf(k)
    BY <1>2 DEF RunsOf
  <2> QED BY <1>2, <1>6, <1>8, <2>1 DEF WorkerInv, AckedHasExecution
<1> QED BY <1>10, <1>11, <1>12, <1>17, <1>18, <1>19, <1>20, <1>21 DEF SchedulerInv, WorkerInv

\* A scheduler that is through holds nothing any more.
LEMMA Rests ==
    ASSUME Settings, IndInv, NEW p \in Schedulers, Rest(p)
    PROVE  /\ read' \in [Schedulers -> Slots \cup {None}]
           /\ upcoming' \in [Schedulers -> Slots \cup {None}]
           /\ due' \in [Schedulers -> SUBSET Slots]
           /\ spc' \in [Schedulers -> {"idle", "enqueue"}]
           /\ \A q \in Schedulers :
                /\ spc'[q] = IF q = p THEN "idle" ELSE spc[q]
                /\ read'[q] = IF q = p THEN None ELSE read[q]
                /\ due'[q] = IF q = p THEN {} ELSE due[q]
                /\ upcoming'[q] = IF q = p THEN None ELSE upcoming[q]
           /\ DueIsBounded'
<1>1. /\ read' \in [Schedulers -> Slots \cup {None}]
      /\ upcoming' \in [Schedulers -> Slots \cup {None}]
      /\ due' \in [Schedulers -> SUBSET Slots]
      /\ spc' \in [Schedulers -> {"idle", "enqueue"}]
      /\ \A q \in Schedulers :
           /\ spc'[q] = IF q = p THEN "idle" ELSE spc[q]
           /\ read'[q] = IF q = p THEN None ELSE read[q]
           /\ due'[q] = IF q = p THEN {} ELSE due[q]
           /\ upcoming'[q] = IF q = p THEN None ELSE upcoming[q]
  BY DEF Rest, IndInv, Kinds
<1>2. IsFiniteSet({}) /\ Cardinality({}) <= CatchUp
  BY FS_EmptySet DEF Settings
<1>3. DueIsBounded'
  BY <1>1, <1>2 DEF IndInv, SchedulerInv, DueIsBounded
<1> QED BY <1>1, <1>3

LEMMA UpdateNextRunAtStep ==
    ASSUME Settings, IndInv, NEW p \in Schedulers, UpdateNextRunAt(p)
    PROVE  IndInv'
<1> USE DEF IndInv
<1>1. /\ spc[p] = "enqueue" /\ due[p] = {} /\ Rest(p)
      /\ nextRun' = IF upcoming[p] # read[p] /\ status # "deleted" THEN upcoming[p]
                    ELSE nextRun
      /\ reopened' = (reopened \/ (upcoming[p] = None /\ InWindow(now)))
      /\ UNCHANGED <<now, status, jobs, workers, runs, first, overlap, interrupted>>
  BY DEF UpdateNextRunAt
<1>2. /\ read' \in [Schedulers -> Slots \cup {None}]
      /\ upcoming' \in [Schedulers -> Slots \cup {None}]
      /\ due' \in [Schedulers -> SUBSET Slots]
      /\ spc' \in [Schedulers -> {"idle", "enqueue"}]
      /\ \A q \in Schedulers :
           /\ spc'[q] = IF q = p THEN "idle" ELSE spc[q]
           /\ read'[q] = IF q = p THEN None ELSE read[q]
           /\ due'[q] = IF q = p THEN {} ELSE due[q]
           /\ upcoming'[q] = IF q = p THEN None ELSE upcoming[q]
      /\ DueIsBounded'
  BY <1>1, Rests
<1>3. Kinds'
  <2>1. nextRun' \in Slots \cup {None}
    BY <1>1 DEF Kinds
  <2>2. reopened' \in BOOLEAN
    BY <1>1 DEF Kinds
  <2> QED BY <1>1, <1>2, <2>1, <2>2 DEF Kinds, workers
<1>4. OneAtATime /\ NoGap /\ InOrder
  BY DEF SchedulerInv
\* Alone, it has listed the row as it is, and writes what it has evaluated.
<1>5. ~overlap => /\ \A q \in Schedulers : spc'[q] = "idle"
                  /\ \A q \in Schedulers : due'[q] = {} /\ upcoming'[q] = None
                  /\ status # "deleted" => nextRun' = upcoming[p]
  BY <1>1, <1>2, <1>4 DEF OneAtATime
<1>6. OneAtATime'
  BY <1>1, <1>2, <1>4, <1>5 DEF OneAtATime
<1>7. \A s : HasJob(s)' <=> HasJob(s)
  BY <1>1 DEF HasJob
<1>8. NoGap'
  <2>1. /\ nextRun' # None => first # None
        /\ \A q \in Schedulers : upcoming'[q] # None => first # None
        /\ StartsAt # None => first \in {None, NextAtOrAfter(StartsAt)}
    BY <1>1, <1>2, <1>4 DEF NoGap
  <2>2. ASSUME StartsAt # None \/ ~overlap
        PROVE  /\ nextRun' # None =>
                    \A s \in Slots : first <= s /\ s < nextRun' => HasJob(s)
               /\ \A q \in Schedulers : upcoming'[q] # None =>
                    \A s \in Slots : first <= s /\ s < upcoming'[q] =>
                      HasJob(s) \/ s \in due'[q]
    <3>1. nextRun' # None => \A s \in Slots : first <= s /\ s < nextRun' => HasJob(s)
      BY <1>1, <1>4, <2>2 DEF NoGap
    <3>2. \A q \in Schedulers : upcoming'[q] # None =>
            \A s \in Slots : first <= s /\ s < upcoming'[q] => HasJob(s) \/ s \in due'[q]
      BY <1>2, <1>4, <2>2 DEF NoGap
    <3> QED BY <3>1, <3>2
  <2>3. ASSUME StartsAt = None, ~overlap, first # None, nextRun' = None, status # "deleted"
        PROVE  Finished({})'
    <3>1. Finished({})
      BY <1>1, <1>4, <1>5, <2>3 DEF NoGap
    <3> QED BY <1>1, <1>7, <3>1 DEF Finished, InWindow
  <2> QED BY <1>1, <1>5, <1>7, <2>1, <2>2, <2>3 DEF NoGap
<1>9. InOrder'
  <2>1. SUFFICES ASSUME ~overlap', ~reopened' PROVE InOrder'
    BY DEF InOrder
  <2>2. ~overlap /\ ~reopened /\ ~(upcoming[p] = None /\ InWindow(now))
    BY <1>1, <2>1
  <2>3. status # "deleted" =>
          IF nextRun' # None THEN \A j \in 1..Len(jobs) : jobs[j].slot < nextRun'
          ELSE Len(jobs) = 0 \/ ~InWindow(now)
    BY <1>4, <1>5, <2>2 DEF InOrder
  <2>4. \A i, j \in 1..Len(jobs) : jobs[i].slot = jobs[j].slot => i = j
    BY <1>4, <2>2 DEF InOrder
  <2> QED BY <1>1, <1>5, <2>2, <2>3, <2>4 DEF InOrder, InWindow
<1>10. WorkerInv'
  BY <1>1, RunsUntouched
<1> QED BY <1>2, <1>3, <1>6, <1>8, <1>9, <1>10 DEF SchedulerInv

LEMMA SchedulerDiesStep ==
    ASSUME Settings, IndInv, NEW p \in Schedulers, SchedulerDies(p)
    PROVE  IndInv'
<1> USE DEF IndInv
<1>1. /\ Rest(p) /\ overlap' = TRUE
      /\ UNCHANGED <<now, status, nextRun, jobs, workers, runs, first, reopened, interrupted>>
  BY DEF SchedulerDies, trigger
<1>2. /\ read' \in [Schedulers -> Slots \cup {None}]
      /\ upcoming' \in [Schedulers -> Slots \cup {None}]
      /\ due' \in [Schedulers -> SUBSET Slots]
      /\ spc' \in [Schedulers -> {"idle", "enqueue"}]
      /\ \A q \in Schedulers :
           /\ spc'[q] = IF q = p THEN "idle" ELSE spc[q]
           /\ read'[q] = IF q = p THEN None ELSE read[q]
           /\ due'[q] = IF q = p THEN {} ELSE due[q]
           /\ upcoming'[q] = IF q = p THEN None ELSE upcoming[q]
      /\ DueIsBounded'
  BY <1>1, Rests
<1>3. Kinds'
  BY <1>1, <1>2 DEF Kinds, workers
<1>4. OneAtATime'
  BY <1>1, <1>2 DEF SchedulerInv, OneAtATime
<1>5. \A s : HasJob(s)' <=> HasJob(s)
  BY <1>1 DEF HasJob
<1>6. NoGap'
  BY <1>1, <1>2, <1>5 DEF SchedulerInv, NoGap
<1>7. InOrder'
  BY <1>1 DEF InOrder
<1>8. WorkerInv'
  BY <1>1, RunsUntouched
<1> QED BY <1>2, <1>3, <1>4, <1>6, <1>7, <1>8 DEF SchedulerInv

\* A window that has closed does not open again.
LEMMA TickStep ==
    ASSUME Settings, IndInv, Tick
    PROVE  IndInv'
<1> USE DEF IndInv
<1>1. /\ now' = now + 1 /\ now \in Nat /\ now' \in 1..Horizon
      /\ EndsAt \in Nat \cup {None}
      /\ UNCHANGED <<status, nextRun, schedulers, jobs, workers, runs, first, overlap,
                     reopened, interrupted>>
  BY DEF Tick, Kinds, Settings, trigger, history
<1>2. ~InWindow(now) => ~InWindow(now)'
  BY <1>1 DEF InWindow
<1>3. Kinds'
  BY <1>1 DEF Kinds, schedulers, workers
<1>4. DueIsBounded' /\ OneAtATime'
  BY <1>1 DEF SchedulerInv, DueIsBounded, OneAtATime, schedulers
<1>5. (\A s : HasJob(s)' <=> HasJob(s)) /\ (AllIdle' <=> AllIdle)
  BY <1>1 DEF HasJob, AllIdle, schedulers
<1>6. NoGap'
  <2>1. Finished({}) => Finished({})'
    BY <1>1, <1>2, <1>5 DEF Finished, InWindow
  <2>2. \A q \in Schedulers : Finished(due[q]) => Finished(due[q])'
    BY <1>1, <1>2, <1>5 DEF Finished, InWindow, schedulers
  <2>3. NoGap /\ due' = due /\ upcoming' = upcoming /\ spc' = spc
    BY <1>1 DEF SchedulerInv, schedulers
  <2> QED BY <1>1, <1>5, <2>1, <2>2, <2>3 DEF NoGap
<1>7. InOrder'
  BY <1>1, <1>2, <1>5 DEF SchedulerInv, InOrder, schedulers
<1>8. WorkerInv'
  BY <1>1, RunsUntouched
<1> QED BY <1>3, <1>4, <1>6, <1>7, <1>8 DEF SchedulerInv

\* Enabling, disabling and deleting the trigger.
LEMMA SwitchStep ==
    ASSUME Settings, IndInv, EnableTrigger \/ DisableTrigger \/ DeleteTrigger
    PROVE  IndInv'
<1> USE DEF IndInv
<1>1. /\ status' \in {"enabled", "disabled", "deleted"}
      /\ status' # "deleted" => status # "deleted"
      /\ UNCHANGED <<now, nextRun, schedulers, jobs, workers, runs, first, overlap,
                     reopened, interrupted>>
  BY DEF EnableTrigger, DisableTrigger, DeleteTrigger, history
<1>2. Kinds'
  BY <1>1 DEF Kinds, schedulers, workers
<1>3. SchedulerInv'
  BY <1>1, SlotsUntouched
<1>4. WorkerInv'
  BY <1>1, RunsUntouched
<1> QED BY <1>2, <1>3, <1>4

-----------------------------------------------------------------------------
(* The invariant holds, and says what the properties say *)

LEMMA HoldsAtFirst == Settings /\ Init => IndInv
<1> SUFFICES ASSUME Settings, Init PROVE IndInv
  OBVIOUS
<1>0. /\ jobs = <<>> /\ runs = <<>> /\ now = 1 /\ status = "enabled" /\ nextRun = None
      /\ first = None /\ overlap = FALSE /\ reopened = FALSE
      /\ read = [p \in Schedulers |-> None] /\ due = [p \in Schedulers |-> {}]
      /\ upcoming = [p \in Schedulers |-> None] /\ spc = [p \in Schedulers |-> "idle"]
      /\ wpc = [w \in Workers |-> "idle"] /\ job = [w \in Workers |-> 0]
      /\ run = [w \in Workers |-> 0] /\ interrupted = [j \in JobIds |-> 0]
  BY DEF Init
<1>1. Len(jobs) = 0 /\ Len(runs) = 0 /\ 1..Len(jobs) = {} /\ 1..Len(runs) = {}
  BY <1>0
<1>2. Kinds
  <2>1. jobs \in Seq(Job) /\ Len(jobs) <= MaxJobs /\ runs \in Seq(RunRow)
    BY <1>0, <1>1 DEF Settings
  <2>2. 1 \in 1..Horizon
    BY DEF Settings
  <2> QED BY <1>0, <2>1, <2>2 DEF Kinds
<1>3. DueIsBounded
  BY <1>0, FS_EmptySet DEF DueIsBounded, Settings
<1>4. OneAtATime
  BY <1>0 DEF OneAtATime
<1>5. NoGap
  BY <1>0 DEF NoGap
<1>6. InOrder
  BY <1>0, <1>1 DEF InOrder
<1>7. HoldsItsRun
  BY <1>0, <1>1 DEF HoldsItsRun
<1>8. AttemptsCounted /\ AckedHasExecution
  BY <1>1 DEF AttemptsCounted, AckedHasExecution
<1> QED BY <1>2, <1>3, <1>4, <1>5, <1>6, <1>7, <1>8 DEF IndInv, SchedulerInv, WorkerInv

LEMMA HoldsOn == Settings /\ IndInv /\ [Next]_vars => IndInv'
<1> SUFFICES ASSUME Settings, IndInv, [Next]_vars PROVE IndInv'
  OBVIOUS
<1>1. ASSUME NEW p \in Schedulers, SchedulerNext(p) \/ SchedulerDies(p) PROVE IndInv'
  BY <1>1, ProcessDueStep, EnqueueDueStep, UpdateNextRunAtStep, SchedulerDiesStep
  DEF SchedulerNext
<1>2. ASSUME NEW w \in Workers, WorkerNext(w) \/ RaiseDue(w) \/ WorkerDies(w) PROVE IndInv'
  BY <1>2, ClaimDueStep, BuildRunRequestStep, CreateRunStep, MarkQueuedStep,
     EnqueueExecutionStep, AckDueStep, RejectDueStep, RaiseDueStep, WorkerDiesStep
  DEF WorkerNext
<1>3. ASSUME NEW j \in 1..Len(jobs), LeaseExpires(j) PROVE IndInv'
  BY <1>3, LeaseExpiresStep
<1>4. ASSUME EnableTrigger \/ DisableTrigger \/ DeleteTrigger PROVE IndInv'
  BY <1>4, SwitchStep
<1>5. ASSUME Tick PROVE IndInv'
  BY <1>5, TickStep
<1>6. ASSUME UNCHANGED vars PROVE IndInv'
  <2>1. SchedulerInv'
    BY <1>6, SlotsUntouched DEF vars, trigger, history, IndInv
  <2>2. WorkerInv'
    BY <1>6, RunsUntouched DEF vars, history, IndInv
  <2>3. Kinds'
    BY <1>6 DEF vars, trigger, schedulers, workers, history, IndInv, Kinds
  <2> QED BY <2>1, <2>2, <2>3 DEF IndInv
<1> QED BY <1>1, <1>2, <1>3, <1>4, <1>5, <1>6 DEF Next

\* The rows a slot has are one at most when no two jobs have the same slot.
LEMMA OneEach ==
    ASSUME Kinds, NEW s, \A i, j \in 1..Len(jobs) : jobs[i].slot = jobs[j].slot => i = j
    PROVE  Cardinality(JobsFor(s)) <= 1
<1>1. CASE JobsFor(s) = {}
  BY <1>1, FS_EmptySet
<1>2. CASE JobsFor(s) # {}
  <2>1. PICK i : i \in JobsFor(s)
    BY <1>2
  <2>2. JobsFor(s) = {i}
    BY <2>1 DEF JobsFor
  <2>3. Cardinality({i}) = 1
    BY FS_Singleton
  <2> QED BY <2>2, <2>3
<1> QED BY <1>1, <1>2

LEMMA InvariantMeans ==
    ASSUME Settings, IndInv
    PROVE  TypeOK /\ NoSlotSkipped /\ SlotFiresOnce /\ RunsAccounted /\ AckedHasExecution
<1> USE DEF IndInv
<1>1. TypeOK
  <2>1. \A j \in 1..Len(jobs) :
          /\ jobs[j].slot \in Slots /\ jobs[j].attempts \in 0..MaxAttempts
          /\ jobs[j].st \in {"pending", "running", "done", "dead"}
    <3>1. ASSUME NEW j \in 1..Len(jobs)
          PROVE  /\ jobs[j].slot \in Slots /\ jobs[j].attempts \in 0..MaxAttempts
                 /\ jobs[j].st \in {"pending", "running", "done", "dead"}
      <4>1. jobs[j] \in Job
        BY DEF Kinds
      <4>2. jobs[j].attempts <= MaxAttempts /\ MaxAttempts \in Nat
        BY DEF WorkerInv, HoldsItsRun, Settings
      <4> QED BY <4>1, <4>2 DEF Job
    <3> QED BY <3>1
  <2>2. \A w \in Workers : job[w] \in 0..Len(jobs) /\ run[w] \in 0..Len(runs)
    <3>1. ASSUME NEW w \in Workers PROVE job[w] \in 0..Len(jobs) /\ run[w] \in 0..Len(runs)
      BY DEF WorkerInv, HoldsItsRun, Kinds
    <3> QED BY <3>1
  <2>3. \A p \in Schedulers :
          /\ read[p] \in Slots \cup {None} /\ upcoming[p] \in Slots \cup {None}
          /\ due[p] \subseteq Slots /\ Cardinality(due[p]) <= CatchUp
          /\ spc[p] \in {"idle", "enqueue"}
    BY DEF Kinds, SchedulerInv, DueIsBounded
  <2>4. /\ Len(jobs) <= MaxJobs /\ now \in 1..Horizon
        /\ status \in {"enabled", "disabled", "deleted"} /\ nextRun \in Slots \cup {None}
    BY DEF Kinds
  <2> QED BY <2>1, <2>2, <2>3, <2>4 DEF TypeOK
<1>2. NoSlotSkipped
  BY DEF NoSlotSkipped, SchedulerInv, NoGap, HasJob, JobsFor
<1>3. SlotFiresOnce
  BY OneEach DEF SlotFiresOnce, SchedulerInv, InOrder
<1>4. RunsAccounted
  <2>1. ASSUME NEW j \in 1..Len(jobs) PROVE Cardinality(RunsOf(j)) <= 1 + interrupted[j]
    <3>1. Cardinality(RunsOf(j)) + Cardinality(Open(j)) + Waits(j) <= 1 + interrupted[j]
      BY DEF WorkerInv, AttemptsCounted
    <3>2. /\ Cardinality(RunsOf(j)) \in Nat /\ Cardinality(Open(j)) \in Nat
          /\ Waits(j) \in Nat /\ interrupted[j] \in Nat
      BY CountsAreNumbers, AttemptsAreNumbers DEF Waits
    <3> QED BY <3>1, <3>2
  <2> QED BY <2>1 DEF RunsAccounted
<1>5. AckedHasExecution
  BY DEF WorkerInv
<1> QED BY <1>1, <1>2, <1>3, <1>4, <1>5
=============================================================================
