--------------------------- MODULE JobQueueProofs ---------------------------
(***************************************************************************)
(* Proofs about JobQueue for every set of workers and jobs and every retry *)
(* budget: IndInv is an inductive invariant, so no interleaving of live    *)
(* clients loses a waiting job or breaks the retry budget.                 *)
(***************************************************************************)
EXTENDS JobQueue, TLAPS

-----------------------------------------------------------------------------
(* What the shared updates do to the types *)

\* _write keeps the hash well-typed.
LEMMA WriteType ==
    ASSUME HashTypeOK, NEW j \in Jobs, NEW s \in JobStatus,
           NEW n \in 0..MaxAttempts, NEW b \in BOOLEAN, Write(j, s, n, b)
    PROVE  HashTypeOK'
  BY DEF HashTypeOK, Write

\* A change of phase keeps the workers well-typed.
LEMMA GotoType ==
    ASSUME CrewTypeOK, NEW w \in Workers, NEW phase \in Phase, Goto(w, phase)
    PROVE  CrewTypeOK'
  BY DEF CrewTypeOK, Goto

\* Taking up a job keeps the workers well-typed.
LEMMA TakeType ==
    ASSUME CrewTypeOK, NEW w \in Workers, NEW phase \in Phase,
           NEW j \in Jobs \cup {None}, NEW n \in 0..MaxAttempts,
           Take(w, phase, j, n)
    PROVE  CrewTypeOK'
  BY DEF CrewTypeOK, Take

\* So does letting it go.
LEMMA DropType ==
    ASSUME CrewTypeOK, NEW w \in Workers, NEW phase \in Phase, Drop(w, phase)
    PROVE  CrewTypeOK'
<1>1. 0 \in 0..MaxAttempts
  BY AttemptsAssumption
<1> QED
  BY <1>1, TakeType DEF Drop

\* rpush keeps the lists well-typed.
LEMMA PushType ==
    ASSUME ListsTypeOK, stranded \in SUBSET Jobs, NEW j \in Jobs, NEW n,
           Push(j, n)
    PROVE  ListsTypeOK' /\ stranded' \in SUBSET Jobs
  BY DEF ListsTypeOK, Push, PushPending

-----------------------------------------------------------------------------
(* What the list and the hands of the workers hold *)

\* An appended job is listed and every listed job stays listed.
LEMMA ListedAfterPush ==
    ASSUME ListsTypeOK, NEW j \in Jobs, pending' = Append(pending, j)
    PROVE  Listed(j)' /\ \A i \in Jobs : Listed(i) => Listed(i)'
<1>1. pending \in Seq(Jobs)
  BY DEF ListsTypeOK
<1>2. /\ Len(pending') = Len(pending) + 1
      /\ Len(pending) \in Nat
      /\ pending'[Len(pending) + 1] = j
      /\ \A i \in 1..Len(pending) : pending'[i] = pending[i]
  BY <1>1
<1>3. Listed(j)'
  <2>1. Len(pending) + 1 \in 1..Len(pending')
    BY <1>2
  <2> QED
    BY <1>2, <2>1 DEF Listed
<1>4. ASSUME NEW i \in Jobs, Listed(i) PROVE Listed(i)'
  <2>1. PICK k \in 1..Len(pending) : pending[k] = i
    BY <1>4 DEF Listed
  <2>2. k \in 1..Len(pending') /\ pending'[k] = i
    BY <1>2, <2>1
  <2> QED
    BY <2>2 DEF Listed
<1> QED
  BY <1>3, <1>4

\* lpop takes one id and leaves the others listed.
LEMMA ListedAfterPop ==
    ASSUME ListsTypeOK, pending # <<>>, pending' = Tail(pending)
    PROVE  /\ Head(pending) \in Jobs
           /\ pending' \in Seq(Jobs)
           /\ \A i \in Jobs : Listed(i) => i = Head(pending) \/ Listed(i)'
<1>1. pending \in Seq(Jobs)
  BY DEF ListsTypeOK
<1>2. /\ Len(pending) \in Nat /\ Len(pending) > 0
      /\ Head(pending) = pending[1]
      /\ Len(pending') = Len(pending) - 1
      /\ \A i \in 1..(Len(pending) - 1) : pending'[i] = pending[i + 1]
      /\ Head(pending) \in Jobs
      /\ pending' \in Seq(Jobs)
  BY <1>1
<1>3. ASSUME NEW i \in Jobs, Listed(i), i # Head(pending) PROVE Listed(i)'
  <2>1. PICK k \in 1..Len(pending) : pending[k] = i
    BY <1>3 DEF Listed
  <2>2. k # 1
    BY <1>2, <1>3, <2>1
  <2>3. k - 1 \in 1..Len(pending') /\ pending'[k - 1] = i
    BY <1>2, <2>1, <2>2
  <2> QED
    BY <2>3 DEF Listed
<1> QED
  BY <1>2, <1>3

\* What keeps NoJobLost when one worker moves: a job that waits afterwards is
\* accounted for afterwards if the list or the API had it before, and if the
\* worker had it before; every other worker keeps what it has.
LEMMA OneWorkerMoves ==
    ASSUME NoJobLost, NEW w \in Workers,
           \A v \in Workers \ {w} : InHands(v)' = InHands(v),
           \A j \in Jobs :
              /\ status'[j] = "pending" =>
                    status[j] = "pending" \/ j \in InHands(w)' \/ Listed(j)'
              /\ Listed(j) => Listed(j)' \/ j \in InHands(w)' \cup stranded'
              /\ j \in submitting \cup stranded =>
                    j \in submitting' \cup stranded' \/ Listed(j)'
              /\ status'[j] = "pending" /\ j \in InHands(w) =>
                    j \in InHands(w)' \cup stranded' \/ Listed(j)'
    PROVE  NoJobLost'
<1> SUFFICES ASSUME NEW j \in Jobs, status'[j] = "pending"
             PROVE  \/ Listed(j)'
                    \/ j \in submitting' \cup stranded'
                    \/ \E v \in Workers : j \in InHands(v)'
  BY DEF NoJobLost
<1>1. CASE status[j] # "pending"
  BY <1>1
<1>2. CASE status[j] = "pending"
  <2>1. CASE Listed(j)
    BY <2>1
  <2>2. CASE j \in submitting \cup stranded
    BY <2>2
  <2>3. CASE \E v \in Workers : j \in InHands(v)
    <3>1. PICK v \in Workers : j \in InHands(v)
      BY <2>3
    <3>2. CASE v = w
      BY <3>1, <3>2
    <3>3. CASE v # w
      BY <3>1, <3>3
    <3> QED
      BY <3>2, <3>3
  <2> QED
    BY <1>2, <2>1, <2>2, <2>3 DEF NoJobLost
<1> QED
  BY <1>1, <1>2

\* The other workers' hands are untouched when their pc, job and seen are.
LEMMA OthersKeep ==
    ASSUME NEW w \in Workers,
           \A v \in Workers \ {w} :
              pc'[v] = pc[v] /\ job'[v] = job[v] /\ seen'[v] = seen[v]
    PROVE  \A v \in Workers \ {w} : InHands(v)' = InHands(v)
  BY DEF InHands

-----------------------------------------------------------------------------
(* Type correctness *)

\* Every step keeps the types.
LEMMA TypeStep ==
    ASSUME TypeOK, HandsOK, Next
    PROVE  TypeOK'
<1> USE AttemptsAssumption, BoundsAssumption
<1>t. /\ HashTypeOK /\ ListsTypeOK /\ CrewTypeOK
      /\ submitting \in SUBSET Jobs
      /\ run \in [Jobs -> RunStatus]
      /\ stranded \in SUBSET Jobs
      /\ execs \in [Jobs -> Nat]
      /\ expiries \in 0..MaxExpiry
      /\ crashes \in 0..MaxCrash
  BY DEF TypeOK
<1>h. \A w \in Workers :
        /\ pc[w] \in Phase
        /\ seen[w] \in 0..MaxAttempts
        /\ job[w] \in Jobs \cup {None}
        /\ pc[w] \in Busy => job[w] \in Jobs
  BY <1>t DEF CrewTypeOK, HandsOK
<1>n. \A w \in Workers : pc[w] = "taking" => seen[w] + 1 \in 0..MaxAttempts
  <2>1. \A w \in Workers : seen[w] \in 0..MaxAttempts
    BY <1>h
  <2>2. \A w \in Workers : pc[w] = "taking" => seen[w] < MaxAttempts
    BY DEF HandsOK
  <2> QED
    BY <2>1, <2>2
<1>a. \A j \in Jobs : attempts[j] \in 0..MaxAttempts
  BY <1>t DEF HashTypeOK
<1>r. ASSUME UNCHANGED lists PROVE ListsTypeOK'
  BY <1>t, <1>r DEF ListsTypeOK, lists
<1>s. ASSUME UNCHANGED hash PROVE HashTypeOK'
  BY <1>t, <1>s DEF HashTypeOK, hash
<1>u. ASSUME UNCHANGED crew PROVE CrewTypeOK'
  BY <1>t, <1>u DEF CrewTypeOK, crew
<1>1. ASSUME NEW w \in Workers, ReapScan(w) PROVE TypeOK'
  <2>1. todo' \in [Workers -> SUBSET (Jobs \X (0..MaxAttempts))]
    BY <1>t, <1>a, <1>1 DEF ReapScan, CrewTypeOK
  <2>2. CrewTypeOK'
    BY <1>t, <1>1, <2>1 DEF ReapScan, CrewTypeOK, Phase
  <2> QED
    BY <1>t, <1>r, <1>s, <1>1, <2>2 DEF ReapScan, TypeOK, counts
<1>2. ASSUME NEW w \in Workers, ReapWrite(w) PROVE TypeOK'
  <2>1. PICK x \in todo[w] :
          /\ Write(x[1], IF x[2] >= MaxAttempts THEN "dead_letter" ELSE "pending", x[2], FALSE)
          /\ job' = [job EXCEPT ![w] = x[1]]
          /\ seen' = [seen EXCEPT ![w] = x[2]]
          /\ todo' = [todo EXCEPT ![w] = @ \ {x}]
          /\ buried' = IF x[2] >= MaxAttempts /\ pc[w] = "reaping"
                       THEN [buried EXCEPT ![w] = @ \cup {x[1]}] ELSE buried
    BY <1>2 DEF ReapWrite
  <2>2. x[1] \in Jobs /\ x[2] \in 0..MaxAttempts
    BY <1>t, <2>1 DEF CrewTypeOK
  <2>3. HashTypeOK'
    <3>1. (IF x[2] >= MaxAttempts THEN "dead_letter" ELSE "pending") \in JobStatus
      BY DEF JobStatus
    <3> QED
      BY <1>t, <2>1, <2>2, <3>1, WriteType
  <2>4. CrewTypeOK'
    BY <1>t, <1>2, <2>1, <2>2 DEF ReapWrite, CrewTypeOK
  <2> QED
    BY <1>t, <1>r, <1>2, <2>3, <2>4 DEF ReapWrite, TypeOK, counts
<1>3. ASSUME NEW w \in Workers, ReapPush(w) PROVE TypeOK'
  <2>1. job[w] \in Jobs /\ Push(job[w], seen[w]) /\ Drop(w, pc[w])
    BY <1>h, <1>3 DEF ReapPush
  <2>2. ListsTypeOK' /\ stranded' \in SUBSET Jobs
    BY <1>t, <2>1, PushType
  <2>3. CrewTypeOK'
    BY <1>t, <1>h, <2>1, DropType
  <2> QED
    BY <1>t, <1>s, <1>3, <2>2, <2>3 DEF ReapPush, TypeOK, counts
<1>4. ASSUME NEW w \in Workers, ReapDone(w) PROVE TypeOK'
  <2>1. CrewTypeOK'
    BY <1>t, <1>4, GotoType DEF ReapDone, Phase
  <2> QED
    BY <1>t, <1>r, <1>s, <1>4, <2>1 DEF ReapDone, TypeOK, counts
<1>5. ASSUME NEW w \in Workers, FinishReaped(w) PROVE TypeOK'
  <2>1. CASE \E j \in buried[w] :
               /\ run' = [run EXCEPT ![j] = "terminal"]
               /\ buried' = [buried EXCEPT ![w] = @ \ {j}]
               /\ UNCHANGED <<pc, job, seen, todo>>
    <3>1. CrewTypeOK'
      BY <1>t, <2>1 DEF CrewTypeOK
    <3>2. run' \in [Jobs -> RunStatus]
      BY <1>t, <2>1 DEF CrewTypeOK, RunStatus
    <3> QED
      BY <1>t, <1>r, <1>s, <1>5, <3>1, <3>2 DEF FinishReaped, TypeOK, counts
  <2>2. CASE Goto(w, "claiming") /\ UNCHANGED run
    <3>1. CrewTypeOK'
      BY <1>t, <2>2, GotoType DEF Phase
    <3> QED
      BY <1>t, <1>r, <1>s, <1>5, <2>2, <3>1 DEF FinishReaped, TypeOK, counts
  <2> QED
    BY <1>5, <2>1, <2>2 DEF FinishReaped
<1>6. ASSUME NEW w \in Workers, ClaimPop(w) PROVE TypeOK'
  <2>1. CASE Goto(w, "idle") /\ UNCHANGED pending
    <3>1. CrewTypeOK'
      BY <1>t, <2>1, GotoType DEF Phase
    <3>2. ListsTypeOK'
      BY <1>t, <1>6, <2>1 DEF ClaimPop, ListsTypeOK
    <3> QED
      BY <1>t, <1>s, <1>6, <3>1, <3>2 DEF ClaimPop, TypeOK, counts
  <2>2. CASE /\ pending # <<>>
             /\ Take(w, "popped", Head(pending), 0)
             /\ pending' = Tail(pending)
    <3>1. Head(pending) \in Jobs /\ pending' \in Seq(Jobs)
      BY <1>t, <2>2, ListedAfterPop
    <3>2. CrewTypeOK'
      BY <1>t, <2>2, <3>1, TakeType DEF Phase
    <3>3. ListsTypeOK'
      BY <1>t, <1>6, <3>1 DEF ClaimPop, ListsTypeOK
    <3> QED
      BY <1>t, <1>s, <1>6, <3>2, <3>3 DEF ClaimPop, TypeOK, counts
  <2> QED
    BY <1>6, <2>1, <2>2 DEF ClaimPop
<1>7. ASSUME NEW w \in Workers, ClaimRead(w) PROVE TypeOK'
  <2>1. job[w] \in Jobs /\ attempts[job[w]] \in 0..MaxAttempts
    BY <1>h, <1>a, <1>7 DEF ClaimRead, Busy
  <2>2. "popping" \in Phase /\ "returning" \in Phase /\ "taking" \in Phase
    BY DEF Phase
  <2>3. \/ Drop(w, "popping") \/ Goto(w, "returning")
        \/ Take(w, "taking", job[w], attempts[job[w]])
    BY <1>7 DEF ClaimRead
  <2>4. CrewTypeOK'
    BY <1>t, <2>1, <2>2, <2>3, DropType, GotoType, TakeType
  <2> QED
    BY <1>t, <1>r, <1>s, <1>7, <2>4 DEF ClaimRead, TypeOK, counts
<1>8. ASSUME NEW w \in Workers, ClaimReturn(w) PROVE TypeOK'
  <2>1. job[w] \in Jobs /\ PushPending(job[w]) /\ Drop(w, "idle")
    BY <1>h, <1>8 DEF ClaimReturn, Busy
  <2>2. ListsTypeOK' /\ stranded' \in SUBSET Jobs
    BY <1>t, <2>1 DEF ListsTypeOK, PushPending
  <2>3. CrewTypeOK'
    BY <1>t, <2>1, DropType DEF Phase
  <2> QED
    BY <1>t, <1>s, <1>8, <2>2, <2>3 DEF ClaimReturn, TypeOK, counts
<1>9. ASSUME NEW w \in Workers, ClaimWrite(w) PROVE TypeOK'
  <2>1. job[w] \in Jobs /\ seen[w] + 1 \in 0..MaxAttempts
    BY <1>h, <1>n, <1>9 DEF ClaimWrite, Busy
  <2>2. HashTypeOK'
    BY <1>t, <1>9, <2>1, WriteType DEF ClaimWrite, JobStatus
  <2>3. CrewTypeOK'
    BY <1>t, <1>9, GotoType DEF ClaimWrite, Phase
  <2>4. execs' \in [Jobs -> Nat]
    BY <1>t, <1>9, <2>1 DEF ClaimWrite
  <2> QED
    BY <1>t, <1>r, <1>9, <2>2, <2>3, <2>4 DEF ClaimWrite, TypeOK, counts
<1>10. ASSUME NEW w \in Workers, ExecuteRun(w) PROVE TypeOK'
  <2>1. CrewTypeOK'
    BY <1>t, <1>10, GotoType DEF ExecuteRun, Phase
  <2>2. run' \in [Jobs -> RunStatus]
    BY <1>t, <1>10 DEF ExecuteRun, RunStatus
  <2> QED
    BY <1>t, <1>r, <1>s, <1>10, <2>1, <2>2 DEF ExecuteRun, TypeOK, counts
<1>11. ASSUME NEW w \in Workers, Return(w) PROVE TypeOK'
  <2>1. CrewTypeOK'
    BY <1>t, <1>11, GotoType DEF Return, Phase
  <2>2. run' \in [Jobs -> RunStatus]
    BY <1>t, <1>11 DEF Return, RunStatus
  <2> QED
    BY <1>t, <1>r, <1>s, <1>11, <2>1, <2>2 DEF Return, TypeOK, counts
<1>12. ASSUME NEW w \in Workers, Raise(w) PROVE TypeOK'
  <2>1. CrewTypeOK'
    BY <1>t, <1>12, GotoType DEF Raise, Phase
  <2> QED
    BY <1>t, <1>r, <1>s, <1>12, <2>1 DEF Raise, TypeOK, counts
<1>13. ASSUME NEW w \in Workers, AckRead(w) PROVE TypeOK'
  <2>1. job[w] \in Jobs /\ attempts[job[w]] \in 0..MaxAttempts
    BY <1>h, <1>a, <1>13 DEF AckRead, Busy
  <2>2. CrewTypeOK'
    BY <1>t, <1>13, <2>1, TakeType DEF AckRead, Phase
  <2> QED
    BY <1>t, <1>r, <1>s, <1>13, <2>2 DEF AckRead, TypeOK, counts
<1>14. ASSUME NEW w \in Workers, AckWrite(w) PROVE TypeOK'
  <2>1. job[w] \in Jobs /\ seen[w] \in 0..MaxAttempts
    BY <1>h, <1>14 DEF AckWrite, Busy
  <2>2. HashTypeOK'
    BY <1>t, <1>14, <2>1, WriteType DEF AckWrite, JobStatus
  <2>3. CrewTypeOK'
    BY <1>t, <1>14, DropType DEF AckWrite, Phase
  <2> QED
    BY <1>t, <1>r, <1>14, <2>2, <2>3 DEF AckWrite, TypeOK, counts
<1>15. ASSUME NEW w \in Workers, RejectRead(w) PROVE TypeOK'
  <2>1. job[w] \in Jobs /\ attempts[job[w]] \in 0..MaxAttempts
    BY <1>h, <1>a, <1>15 DEF RejectRead, Busy
  <2>2. CrewTypeOK'
    BY <1>t, <1>15, <2>1, TakeType DEF RejectRead, Phase
  <2> QED
    BY <1>t, <1>r, <1>s, <1>15, <2>2 DEF RejectRead, TypeOK, counts
<1>16. ASSUME NEW w \in Workers, RejectWrite(w) PROVE TypeOK'
  <2>1. job[w] \in Jobs /\ seen[w] \in 0..MaxAttempts
    BY <1>h, <1>16 DEF RejectWrite, Busy
  <2>2. \/ Write(job[w], "pending", seen[w], TRUE)
        \/ Write(job[w], "dead_letter", seen[w], FALSE)
    BY <1>16 DEF RejectWrite
  <2>3. HashTypeOK'
    BY <1>t, <2>1, <2>2, WriteType DEF JobStatus
  <2>4. CrewTypeOK'
    BY <1>t, <1>16, GotoType DEF RejectWrite, Phase
  <2> QED
    BY <1>t, <1>r, <1>16, <2>3, <2>4 DEF RejectWrite, TypeOK, counts
<1>17. ASSUME NEW w \in Workers, RejectPush(w) PROVE TypeOK'
  <2>1. job[w] \in Jobs /\ Push(job[w], seen[w])
    BY <1>h, <1>17 DEF RejectPush, Busy
  <2>2. ListsTypeOK' /\ stranded' \in SUBSET Jobs
    BY <1>t, <2>1, PushType
  <2>3. Goto(w, "failed") \/ Goto(w, "closing")
    BY <1>17 DEF RejectPush
  <2>4. CrewTypeOK'
    BY <1>t, <2>3, GotoType DEF Phase
  <2> QED
    BY <1>t, <1>s, <1>17, <2>2, <2>4 DEF RejectPush, TypeOK, counts
<1>18. ASSUME NEW w \in Workers, CheckRetrying(w) PROVE TypeOK'
  <2>1. Drop(w, "idle") \/ Goto(w, "retrying")
    BY <1>18 DEF CheckRetrying
  <2>2. CrewTypeOK'
    BY <1>t, <2>1, DropType, GotoType DEF Phase
  <2> QED
    BY <1>t, <1>r, <1>s, <1>18, <2>2 DEF CheckRetrying, TypeOK, counts
<1>19. ASSUME NEW w \in Workers, MarkRetrying(w) PROVE TypeOK'
  <2>1. CrewTypeOK'
    BY <1>t, <1>19, DropType DEF MarkRetrying, Phase
  <2>2. run' \in [Jobs -> RunStatus]
    BY <1>t, <1>19 DEF MarkRetrying, RunStatus
  <2> QED
    BY <1>t, <1>r, <1>s, <1>19, <2>1, <2>2 DEF MarkRetrying, TypeOK, counts
<1>20. ASSUME NEW w \in Workers, FinishRejected(w) PROVE TypeOK'
  <2>1. CrewTypeOK'
    BY <1>t, <1>20, DropType DEF FinishRejected, Phase
  <2>2. run' \in [Jobs -> RunStatus]
    BY <1>t, <1>20 DEF FinishRejected, RunStatus
  <2> QED
    BY <1>t, <1>r, <1>s, <1>20, <2>1, <2>2 DEF FinishRejected, TypeOK, counts
<1>21. ASSUME NEW w \in Workers, Crash(w) PROVE TypeOK'
  <2>1. CrewTypeOK'
    BY <1>t, <1>21 DEF Crash, CrewTypeOK, Phase
  <2>2. \A j \in InHands(w) : j \in Jobs
    BY <1>h, <1>21 DEF InHands, Busy
  <2>3. \A j \in ToFinish(w) : j \in Jobs
    BY <1>t, <1>h, <1>21 DEF ToFinish, Busy, CrewTypeOK
  <2>4. stranded' \in SUBSET Jobs
    BY <1>t, <1>21, <2>2, <2>3 DEF Crash
  <2>5. crashes' \in 0..MaxCrash
    BY <1>t, <1>21 DEF Crash
  <2> QED
    BY <1>t, <1>r, <1>s, <1>21, <2>1, <2>4, <2>5 DEF Crash, TypeOK
<1>22. ASSUME NEW j \in Jobs, EnqueueWrite(j) PROVE TypeOK'
  <2>1. "pending" \in JobStatus /\ 0 \in 0..MaxAttempts
    BY DEF JobStatus
  <2>2. HashTypeOK'
    BY <1>t, <1>22, <2>1, WriteType DEF EnqueueWrite
  <2> QED
    BY <1>t, <1>r, <1>u, <1>22, <2>2 DEF EnqueueWrite, TypeOK, counts
<1>23. ASSUME NEW j \in Jobs, EnqueuePush(j) PROVE TypeOK'
  <2>1. ListsTypeOK' /\ stranded' \in SUBSET Jobs
    BY <1>t, <1>23 DEF EnqueuePush, PushPending, ListsTypeOK
  <2> QED
    BY <1>t, <1>s, <1>u, <1>23, <2>1 DEF EnqueuePush, TypeOK, counts
<1>24. ASSUME NEW j \in Jobs, EnqueueCrash(j) PROVE TypeOK'
  BY <1>t, <1>r, <1>s, <1>u, <1>24 DEF EnqueueCrash, TypeOK
<1>25. ASSUME NEW j \in Jobs, Expire(j) PROVE TypeOK'
  <2>1. HashTypeOK'
    BY <1>t, <1>25 DEF Expire, HashTypeOK
  <2>2. expiries' \in 0..MaxExpiry
    BY <1>t, <1>25 DEF Expire
  <2> QED
    BY <1>t, <1>r, <1>u, <1>25, <2>1, <2>2 DEF Expire, TypeOK
<1>26. ASSUME NEW j \in Jobs, Elapse(j) PROVE TypeOK'
  <2>1. HashTypeOK'
    BY <1>t, <1>26 DEF Elapse, HashTypeOK
  <2> QED
    BY <1>t, <1>r, <1>u, <1>26, <2>1 DEF Elapse, TypeOK, counts
<1> QED
  BY <1>1, <1>2, <1>3, <1>4, <1>5, <1>6, <1>7, <1>8, <1>9, <1>10, <1>11, <1>12, <1>13, <1>14, <1>15, <1>16, <1>17, <1>18, <1>19, <1>20, <1>21, <1>22, <1>23, <1>24, <1>25, <1>26 DEF Next, ProcessNext

-----------------------------------------------------------------------------
(* The hands of the workers *)

\* A worker that enters a phase with the job it has, or with none, keeps
\* HandsOK.
LEMMA HandsAfterGoto ==
    ASSUME CrewTypeOK, HandsOK, NEW w \in Workers, NEW phase \in Phase,
           phase \in Busy => pc[w] \in Busy, phase # "taking", Goto(w, phase)
    PROVE  HandsOK'
  BY DEF CrewTypeOK, HandsOK, Goto

LEMMA HandsAfterTake ==
    ASSUME CrewTypeOK, HandsOK, NEW w \in Workers, NEW phase \in Phase,
           NEW j \in Jobs \cup {None}, NEW n,
           phase \in Busy => j \in Jobs,
           phase = "taking" => n < MaxAttempts, Take(w, phase, j, n)
    PROVE  HandsOK'
  BY DEF CrewTypeOK, HandsOK, Take

\* Every step keeps HandsOK; claim reads a waiting job, which has an attempt
\* left.
LEMMA HandsStep ==
    ASSUME TypeOK, HandsOK, BudgetKept, Next
    PROVE  HandsOK'
<1>t. CrewTypeOK /\ HashTypeOK /\ ListsTypeOK
  BY DEF TypeOK
<1>u. ASSUME UNCHANGED crew PROVE HandsOK'
  BY <1>u DEF HandsOK, crew
<1>d. ASSUME NEW w \in Workers, NEW phase \in Phase \ Busy, Drop(w, phase)
      PROVE  HandsOK'
  BY <1>t, <1>d, HandsAfterTake DEF Drop, Busy
<1>1. ASSUME NEW w \in Workers, ReapScan(w) PROVE HandsOK'
  BY <1>t, <1>1 DEF ReapScan, HandsOK, CrewTypeOK, Busy
<1>2. ASSUME NEW w \in Workers, ReapWrite(w) PROVE HandsOK'
  <2>1. pc[w] \notin Busy /\ pc' = pc
    BY <1>2 DEF ReapWrite, Busy
  <2>2. pc[w] # "taking"
    BY <2>1 DEF Busy
  <2>3. \A v \in Workers \ {w} : job'[v] = job[v] /\ seen'[v] = seen[v]
    BY <1>t, <1>2 DEF ReapWrite, CrewTypeOK
  <2> QED
    BY <2>1, <2>2, <2>3 DEF HandsOK
<1>3. ASSUME NEW w \in Workers, ReapPush(w) PROVE HandsOK'
  <2>1. pc[w] \in Phase \ Busy /\ Drop(w, pc[w])
    BY <1>3 DEF ReapPush, Phase, Busy
  <2> QED
    BY <1>d, <2>1
<1>4. ASSUME NEW w \in Workers, ReapDone(w) PROVE HandsOK'
  BY <1>t, <1>4, HandsAfterGoto DEF ReapDone, Phase, Busy
<1>5. ASSUME NEW w \in Workers, FinishReaped(w) PROVE HandsOK'
  <2>1. CASE UNCHANGED <<pc, job, seen, todo>>
    BY <2>1 DEF HandsOK
  <2>2. CASE Goto(w, "claiming")
    BY <1>t, <2>2, HandsAfterGoto DEF Phase, Busy
  <2> QED
    BY <1>5, <2>1, <2>2 DEF FinishReaped
<1>6. ASSUME NEW w \in Workers, ClaimPop(w) PROVE HandsOK'
  <2>1. CASE Goto(w, "idle")
    BY <1>t, <2>1, HandsAfterGoto DEF Phase, Busy
  <2>2. CASE pending # <<>> /\ pending' = Tail(pending) /\ Take(w, "popped", Head(pending), 0)
    <3>1. Head(pending) \in Jobs
      BY <1>t, <2>2, ListedAfterPop
    <3> QED
      BY <1>t, <2>2, <3>1, HandsAfterTake DEF Phase
  <2> QED
    BY <1>6, <2>1, <2>2 DEF ClaimPop
<1>7. ASSUME NEW w \in Workers, ClaimRead(w) PROVE HandsOK'
  <2>0. pc[w] = "popped" /\ job[w] \in Jobs
    BY <1>7 DEF ClaimRead, HandsOK, Busy
  <2>1. CASE Drop(w, "popping")
    BY <1>d, <2>1 DEF Phase, Busy
  <2>2. CASE Goto(w, "returning")
    BY <1>t, <2>0, <2>2, HandsAfterGoto DEF Phase, Busy
  <2>3. CASE status[job[w]] = "pending" /\ Take(w, "taking", job[w], attempts[job[w]])
    <3>1. attempts[job[w]] < MaxAttempts
      BY <2>0, <2>3 DEF BudgetKept
    <3> QED
      BY <1>t, <2>0, <2>3, <3>1, HandsAfterTake DEF Phase
  <2> QED
    BY <1>7, <2>1, <2>2, <2>3 DEF ClaimRead
<1>8. ASSUME NEW w \in Workers, ClaimReturn(w) PROVE HandsOK'
  BY <1>d, <1>8 DEF ClaimReturn, Phase, Busy
<1>9. ASSUME NEW w \in Workers, ClaimWrite(w) PROVE HandsOK'
  BY <1>t, <1>9, HandsAfterGoto DEF ClaimWrite, Phase, Busy
<1>10. ASSUME NEW w \in Workers, ExecuteRun(w) PROVE HandsOK'
  BY <1>t, <1>10, HandsAfterGoto DEF ExecuteRun, Phase, Busy
<1>11. ASSUME NEW w \in Workers, Return(w) PROVE HandsOK'
  BY <1>t, <1>11, HandsAfterGoto DEF Return, Phase, Busy
<1>12. ASSUME NEW w \in Workers, Raise(w) PROVE HandsOK'
  BY <1>t, <1>12, HandsAfterGoto DEF Raise, Phase, Busy
<1>13. ASSUME NEW w \in Workers, AckRead(w) PROVE HandsOK'
  <2>1. job[w] \in Jobs
    BY <1>13 DEF AckRead, HandsOK, Busy
  <2> QED
    BY <1>t, <1>13, <2>1, HandsAfterTake DEF AckRead, Phase
<1>14. ASSUME NEW w \in Workers, AckWrite(w) PROVE HandsOK'
  BY <1>d, <1>14 DEF AckWrite, Phase, Busy
<1>15. ASSUME NEW w \in Workers, RejectRead(w) PROVE HandsOK'
  <2>1. job[w] \in Jobs
    BY <1>15 DEF RejectRead, HandsOK, Busy
  <2> QED
    BY <1>t, <1>15, <2>1, HandsAfterTake DEF RejectRead, Phase
<1>16. ASSUME NEW w \in Workers, RejectWrite(w) PROVE HandsOK'
  BY <1>t, <1>16, HandsAfterGoto DEF RejectWrite, Phase, Busy
<1>17. ASSUME NEW w \in Workers, RejectPush(w) PROVE HandsOK'
  BY <1>t, <1>17, HandsAfterGoto DEF RejectPush, Phase, Busy
<1>18. ASSUME NEW w \in Workers, CheckRetrying(w) PROVE HandsOK'
  <2>1. CASE Drop(w, "idle")
    BY <1>d, <2>1 DEF Phase, Busy
  <2>2. CASE Goto(w, "retrying")
    BY <1>t, <1>18, <2>2, HandsAfterGoto DEF CheckRetrying, Phase, Busy
  <2> QED
    BY <1>18, <2>1, <2>2 DEF CheckRetrying
<1>19. ASSUME NEW w \in Workers, MarkRetrying(w) PROVE HandsOK'
  BY <1>d, <1>19 DEF MarkRetrying, Phase, Busy
<1>20. ASSUME NEW w \in Workers, FinishRejected(w) PROVE HandsOK'
  BY <1>d, <1>20 DEF FinishRejected, Phase, Busy
<1>21. ASSUME NEW w \in Workers, Crash(w) PROVE HandsOK'
  BY <1>t, <1>21 DEF Crash, HandsOK, CrewTypeOK, Busy
<1>22. ASSUME NEW j \in Jobs, EnqueueWrite(j) PROVE HandsOK'
  BY <1>u, <1>22 DEF EnqueueWrite
<1>23. ASSUME NEW j \in Jobs, EnqueuePush(j) PROVE HandsOK'
  BY <1>u, <1>23 DEF EnqueuePush
<1>24. ASSUME NEW j \in Jobs, EnqueueCrash(j) PROVE HandsOK'
  BY <1>u, <1>24 DEF EnqueueCrash
<1>25. ASSUME NEW j \in Jobs, Expire(j) PROVE HandsOK'
  BY <1>u, <1>25 DEF Expire
<1>26. ASSUME NEW j \in Jobs, Elapse(j) PROVE HandsOK'
  BY <1>u, <1>26 DEF Elapse
<1> QED
  BY <1>1, <1>2, <1>3, <1>4, <1>5, <1>6, <1>7, <1>8, <1>9, <1>10, <1>11,
     <1>12, <1>13, <1>14, <1>15, <1>16, <1>17, <1>18, <1>19, <1>20, <1>21,
     <1>22, <1>23, <1>24, <1>25, <1>26 DEF Next, ProcessNext

-----------------------------------------------------------------------------
(* The retry budget *)

\* Every step keeps the budget: reap and reject compare the attempts they
\* read, stale or not, before they write them back.
LEMMA BudgetStep ==
    ASSUME TypeOK, HandsOK, BudgetKept, Next
    PROVE  BudgetKept'
<1>t. HashTypeOK /\ CrewTypeOK
  BY DEF TypeOK
<1>u. ASSUME UNCHANGED <<status, attempts>> PROVE BudgetKept'
  BY <1>u DEF BudgetKept
<1> USE AttemptsAssumption
<1>1. ASSUME NEW w \in Workers, ReapScan(w) PROVE BudgetKept'
  BY <1>u, <1>1 DEF ReapScan, hash
<1>2. ASSUME NEW w \in Workers, ReapWrite(w) PROVE BudgetKept'
  <2>1. PICK x \in todo[w] :
          Write(x[1], IF x[2] >= MaxAttempts THEN "dead_letter" ELSE "pending",
                x[2], FALSE)
    BY <1>2 DEF ReapWrite
  <2>2. x[1] \in Jobs /\ x[2] \in 0..MaxAttempts
    BY <1>t, <2>1 DEF CrewTypeOK
  <2> QED
    BY <1>t, <2>1, <2>2 DEF HashTypeOK, BudgetKept, Write
<1>3. ASSUME NEW w \in Workers, ReapPush(w) PROVE BudgetKept'
  BY <1>u, <1>3 DEF ReapPush, hash
<1>4. ASSUME NEW w \in Workers, ReapDone(w) PROVE BudgetKept'
  BY <1>u, <1>4 DEF ReapDone, hash
<1>5. ASSUME NEW w \in Workers, FinishReaped(w) PROVE BudgetKept'
  BY <1>u, <1>5 DEF FinishReaped, hash
<1>6. ASSUME NEW w \in Workers, ClaimPop(w) PROVE BudgetKept'
  BY <1>u, <1>6 DEF ClaimPop, hash
<1>7. ASSUME NEW w \in Workers, ClaimRead(w) PROVE BudgetKept'
  BY <1>u, <1>7 DEF ClaimRead, hash
<1>8. ASSUME NEW w \in Workers, ClaimReturn(w) PROVE BudgetKept'
  BY <1>u, <1>8 DEF ClaimReturn, hash
<1>9. ASSUME NEW w \in Workers, ClaimWrite(w) PROVE BudgetKept'
  <2>1. job[w] \in Jobs
    BY <1>9 DEF ClaimWrite, HandsOK, Busy
  <2> QED
    BY <1>t, <1>9, <2>1 DEF ClaimWrite, HashTypeOK, BudgetKept, Write
<1>10. ASSUME NEW w \in Workers, ExecuteRun(w) PROVE BudgetKept'
  BY <1>u, <1>10 DEF ExecuteRun, hash
<1>11. ASSUME NEW w \in Workers, Return(w) PROVE BudgetKept'
  BY <1>u, <1>11 DEF Return, hash
<1>12. ASSUME NEW w \in Workers, Raise(w) PROVE BudgetKept'
  BY <1>u, <1>12 DEF Raise, hash
<1>13. ASSUME NEW w \in Workers, AckRead(w) PROVE BudgetKept'
  BY <1>u, <1>13 DEF AckRead, hash
<1>14. ASSUME NEW w \in Workers, AckWrite(w) PROVE BudgetKept'
  <2>1. job[w] \in Jobs
    BY <1>14 DEF AckWrite, HandsOK, Busy
  <2> QED
    BY <1>t, <1>14, <2>1 DEF AckWrite, HashTypeOK, BudgetKept, Write
<1>15. ASSUME NEW w \in Workers, RejectRead(w) PROVE BudgetKept'
  BY <1>u, <1>15 DEF RejectRead, hash
<1>16. ASSUME NEW w \in Workers, RejectWrite(w) PROVE BudgetKept'
  <2>1. job[w] \in Jobs /\ seen[w] \in 0..MaxAttempts
    BY <1>t, <1>16 DEF RejectWrite, HandsOK, Busy, CrewTypeOK
  <2> QED
    BY <1>t, <1>16, <2>1 DEF RejectWrite, HashTypeOK, BudgetKept, Write
<1>17. ASSUME NEW w \in Workers, RejectPush(w) PROVE BudgetKept'
  BY <1>u, <1>17 DEF RejectPush, hash
<1>18. ASSUME NEW w \in Workers, CheckRetrying(w) PROVE BudgetKept'
  BY <1>u, <1>18 DEF CheckRetrying, hash
<1>19. ASSUME NEW w \in Workers, MarkRetrying(w) PROVE BudgetKept'
  BY <1>u, <1>19 DEF MarkRetrying, hash
<1>20. ASSUME NEW w \in Workers, FinishRejected(w) PROVE BudgetKept'
  BY <1>u, <1>20 DEF FinishRejected, hash
<1>21. ASSUME NEW w \in Workers, Crash(w) PROVE BudgetKept'
  BY <1>u, <1>21 DEF Crash, hash
<1>22. ASSUME NEW j \in Jobs, EnqueueWrite(j) PROVE BudgetKept'
  BY <1>t, <1>22 DEF EnqueueWrite, HashTypeOK, BudgetKept, Write
<1>23. ASSUME NEW j \in Jobs, EnqueuePush(j) PROVE BudgetKept'
  BY <1>u, <1>23 DEF EnqueuePush, hash
<1>24. ASSUME NEW j \in Jobs, EnqueueCrash(j) PROVE BudgetKept'
  BY <1>u, <1>24 DEF EnqueueCrash, hash
<1>25. ASSUME NEW j \in Jobs, Expire(j) PROVE BudgetKept'
  BY <1>u, <1>25 DEF Expire
<1>26. ASSUME NEW j \in Jobs, Elapse(j) PROVE BudgetKept'
  BY <1>u, <1>26 DEF Elapse
<1> QED
  BY <1>1, <1>2, <1>3, <1>4, <1>5, <1>6, <1>7, <1>8, <1>9, <1>10, <1>11,
     <1>12, <1>13, <1>14, <1>15, <1>16, <1>17, <1>18, <1>19, <1>20, <1>21,
     <1>22, <1>23, <1>24, <1>25, <1>26 DEF Next, ProcessNext

-----------------------------------------------------------------------------
(* No job is lost *)

\* Goto, Take and Drop concern one worker only.
LEMMA MoveAlone ==
    ASSUME CrewTypeOK, NEW w \in Workers, NEW phase, NEW j, NEW n,
           Goto(w, phase) \/ Take(w, phase, j, n) \/ Drop(w, phase)
    PROVE  \A v \in Workers \ {w} : InHands(v)' = InHands(v)
<1>1. \A v \in Workers \ {w} :
        pc'[v] = pc[v] /\ job'[v] = job[v] /\ seen'[v] = seen[v]
  BY DEF CrewTypeOK, Goto, Take, Drop
<1> QED
  BY <1>1, OthersKeep

\* A step that leaves the hash and the lists alone, by a worker with empty
\* hands.
LEMMA QuietMove ==
    ASSUME NoJobLost, NEW w \in Workers,
           \A v \in Workers \ {w} : InHands(v)' = InHands(v),
           UNCHANGED <<status, pending, submitting, stranded>>,
           InHands(w) = {}
    PROVE  NoJobLost'
<1>1. \A j \in Jobs : Listed(j)' <=> Listed(j)
  BY DEF Listed
<1> QED
  BY <1>1, OneWorkerMoves

\* Every step keeps NoJobLost.
LEMMA NoLossStep ==
    ASSUME TypeOK, HandsOK, NoJobLost, Next
    PROVE  NoJobLost'
<1>t. CrewTypeOK /\ HashTypeOK /\ ListsTypeOK
  BY DEF TypeOK
<1>h. \A w \in Workers : pc[w] \in Busy => job[w] \in Jobs
  BY DEF HandsOK
<1>p. ASSUME UNCHANGED pending
      PROVE  \A j \in Jobs : Listed(j)' <=> Listed(j)
  BY <1>p DEF Listed
<1>c. ASSUME UNCHANGED crew PROVE \A v \in Workers : InHands(v)' = InHands(v)
  BY <1>c DEF InHands, crew
<1> USE AttemptsAssumption, NoneAssumption
<1>1. ASSUME NEW w \in Workers, ReapScan(w) PROVE NoJobLost'
  <2>1. InHands(w) = {}
    BY <1>1 DEF ReapScan, InHands
  <2>2. \A v \in Workers \ {w} : InHands(v)' = InHands(v)
    BY <1>t, <1>1, OthersKeep DEF ReapScan, CrewTypeOK
  <2>3. UNCHANGED <<status, pending, submitting, stranded>>
    BY <1>1 DEF ReapScan, hash, lists
  <2> QED
    BY <2>1, <2>2, <2>3, QuietMove
<1>2. ASSUME NEW w \in Workers, ReapWrite(w) PROVE NoJobLost'
  <2>1. PICK x \in todo[w] :
          /\ Write(x[1], IF x[2] >= MaxAttempts THEN "dead_letter" ELSE "pending",
                   x[2], FALSE)
          /\ job' = [job EXCEPT ![w] = x[1]]
          /\ seen' = [seen EXCEPT ![w] = x[2]]
    BY <1>2 DEF ReapWrite
  <2>2. x[1] \in Jobs /\ x[2] \in 0..MaxAttempts
    BY <1>t, <2>1 DEF CrewTypeOK
  <2>3. InHands(w) = {}
    BY <1>2 DEF ReapWrite, InHands
  <2>4. \A v \in Workers \ {w} : InHands(v)' = InHands(v)
    BY <1>t, <1>2, <2>1, OthersKeep DEF ReapWrite, CrewTypeOK
  <2>5. UNCHANGED <<pending, submitting, stranded>>
    BY <1>2 DEF ReapWrite, lists
  <2>6. \A j \in Jobs : status'[j] = "pending" =>
           status[j] = "pending" \/ j \in InHands(w)'
    <3>1. job'[w] = x[1] /\ seen'[w] = x[2] /\ pc'[w] \in {"reaping", "reclaiming"}
      BY <1>t, <1>2, <2>1 DEF ReapWrite, CrewTypeOK
    <3>2. x[2] < MaxAttempts => InHands(w)' = {x[1]}
      BY <2>2, <3>1 DEF InHands
    <3>3. \A j \in Jobs : status'[j] = "pending" =>
             status[j] = "pending" \/ (j = x[1] /\ x[2] < MaxAttempts)
      BY <1>t, <2>1, <2>2 DEF Write, HashTypeOK
    <3> QED
      BY <3>2, <3>3
  <2> QED
    BY <1>p, <2>3, <2>4, <2>5, <2>6, OneWorkerMoves
<1>3. ASSUME NEW w \in Workers, ReapPush(w) PROVE NoJobLost'
  <2>1. job[w] \in Jobs /\ Push(job[w], seen[w])
    BY <1>t, <1>h, <1>3 DEF ReapPush, Busy, CrewTypeOK
  <2>2. \A v \in Workers \ {w} : InHands(v)' = InHands(v)
    BY <1>t, <1>3, MoveAlone DEF ReapPush
  <2>3. UNCHANGED <<status, submitting>>
    BY <1>3 DEF ReapPush, hash
  <2>4. InHands(w) \in SUBSET {job[w]}
    BY DEF InHands
  <2>5. CASE PushPending(job[w])
    <3>0. PICK k \in Jobs : k = job[w]
      BY <2>1
    <3>1. pending' = Append(pending, k) /\ stranded' = stranded \ {k}
      BY <2>5, <3>0 DEF PushPending
    <3>2. Listed(k)' /\ \A j \in Jobs : Listed(j) => Listed(j)'
      BY <1>t, <3>1, ListedAfterPush
    <3> QED
      BY <2>2, <2>3, <2>4, <3>0, <3>1, <3>2, OneWorkerMoves
  <2>6. CASE seen[w] >= MaxAttempts /\ UNCHANGED <<pending, stranded>>
    <3>1. seen[w] \in 0..MaxAttempts
      BY <1>t DEF CrewTypeOK
    <3>2. InHands(w) = {}
      BY <1>3, <2>6, <3>1 DEF ReapPush, InHands
    <3> QED
      BY <2>2, <2>3, <2>6, <3>2, QuietMove
  <2> QED
    BY <2>1, <2>5, <2>6 DEF Push
<1>4. ASSUME NEW w \in Workers, ReapDone(w) PROVE NoJobLost'
  <2>1. InHands(w) = {}
    BY <1>4 DEF ReapDone, InHands
  <2>2. \A v \in Workers \ {w} : InHands(v)' = InHands(v)
    BY <1>t, <1>4, MoveAlone DEF ReapDone
  <2>3. UNCHANGED <<status, pending, submitting, stranded>>
    BY <1>4 DEF ReapDone, hash, lists
  <2> QED
    BY <2>1, <2>2, <2>3, QuietMove
<1>5. ASSUME NEW w \in Workers, FinishReaped(w) PROVE NoJobLost'
  <2>1. InHands(w) = {}
    BY <1>5 DEF FinishReaped, InHands
  <2>2. \A v \in Workers \ {w} : InHands(v)' = InHands(v)
    <3>1. CASE UNCHANGED <<pc, job, seen, todo>>
      BY <3>1 DEF InHands
    <3>2. CASE Goto(w, "claiming")
      BY <1>t, <3>2, MoveAlone
    <3> QED
      BY <1>5, <3>1, <3>2 DEF FinishReaped
  <2>3. UNCHANGED <<status, pending, submitting, stranded>>
    BY <1>5 DEF FinishReaped, hash, lists
  <2> QED
    BY <2>1, <2>2, <2>3, QuietMove
<1>6. ASSUME NEW w \in Workers, ClaimPop(w) PROVE NoJobLost'
  <2>1. InHands(w) = {}
    BY <1>6 DEF ClaimPop, InHands
  <2>2. UNCHANGED <<status, submitting, stranded>>
    BY <1>6 DEF ClaimPop, hash
  <2>3. CASE Goto(w, "idle") /\ UNCHANGED pending
    <3>1. \A v \in Workers \ {w} : InHands(v)' = InHands(v)
      BY <1>t, <2>3, MoveAlone
    <3> QED
      BY <2>1, <2>2, <2>3, <3>1, QuietMove
  <2>4. CASE /\ pending # <<>>
             /\ Take(w, "popped", Head(pending), 0)
             /\ pending' = Tail(pending)
    <3>1. \A v \in Workers \ {w} : InHands(v)' = InHands(v)
      BY <1>t, <2>4, MoveAlone
    <3>2. \A j \in Jobs : Listed(j) => j = Head(pending) \/ Listed(j)'
      BY <1>t, <2>4, ListedAfterPop
    <3>3. pc'[w] = "popped" /\ job'[w] = Head(pending)
      BY <1>t, <2>4 DEF Take, CrewTypeOK
    <3>4. InHands(w)' = {Head(pending)}
      BY <3>3 DEF InHands
    <3> QED
      BY <2>1, <2>2, <3>1, <3>2, <3>4, OneWorkerMoves
  <2> QED
    BY <1>6, <2>3, <2>4 DEF ClaimPop
<1>7. ASSUME NEW w \in Workers, ClaimRead(w) PROVE NoJobLost'
  <2>1. pc[w] = "popped" /\ InHands(w) = {job[w]}
    BY <1>7 DEF ClaimRead, InHands
  <2>2. \A v \in Workers \ {w} : InHands(v)' = InHands(v)
    BY <1>t, <1>7, MoveAlone DEF ClaimRead
  <2>3. UNCHANGED <<status, pending, submitting, stranded>>
    BY <1>7 DEF ClaimRead, hash, lists
  <2>4. status[job[w]] # "pending" \/ InHands(w)' = {job[w]}
    <3>1. CASE Goto(w, "returning")
      BY <1>t, <3>1 DEF Goto, InHands, CrewTypeOK
    <3>2. CASE Take(w, "taking", job[w], attempts[job[w]])
      BY <1>t, <3>2 DEF Take, InHands, CrewTypeOK
    <3> QED
      BY <1>7, <3>1, <3>2 DEF ClaimRead
  <2> QED
    BY <1>p, <2>1, <2>2, <2>3, <2>4, OneWorkerMoves
<1>8. ASSUME NEW w \in Workers, ClaimReturn(w) PROVE NoJobLost'
  <2>1. job[w] \in Jobs /\ PushPending(job[w])
    BY <1>t, <1>h, <1>8 DEF ClaimReturn, Busy, CrewTypeOK
  <2>2. \A v \in Workers \ {w} : InHands(v)' = InHands(v)
    BY <1>t, <1>8, MoveAlone DEF ClaimReturn
  <2>3. UNCHANGED <<status, submitting>>
    BY <1>8 DEF ClaimReturn, hash
  <2>4. InHands(w) \in SUBSET {job[w]}
    BY DEF InHands
  <2>5. CASE PushPending(job[w])
    <3>0. PICK k \in Jobs : k = job[w]
      BY <2>1
    <3>1. pending' = Append(pending, k) /\ stranded' = stranded \ {k}
      BY <2>5, <3>0 DEF PushPending
    <3>2. Listed(k)' /\ \A j \in Jobs : Listed(j) => Listed(j)'
      BY <1>t, <3>1, ListedAfterPush
    <3> QED
      BY <2>2, <2>3, <2>4, <3>0, <3>1, <3>2, OneWorkerMoves
  <2> QED
    BY <2>1, <2>5
<1>9. ASSUME NEW w \in Workers, ClaimWrite(w) PROVE NoJobLost'
  <2>1. job[w] \in Jobs
    BY <1>h, <1>9 DEF ClaimWrite, Busy
  <2>2. \A v \in Workers \ {w} : InHands(v)' = InHands(v)
    BY <1>t, <1>9, MoveAlone DEF ClaimWrite
  <2>3. UNCHANGED <<pending, submitting, stranded>>
    BY <1>9 DEF ClaimWrite, lists
  <2>4. \A j \in Jobs : status'[j] = "pending" => status[j] = "pending" /\ j # job[w]
    BY <1>t, <1>9, <2>1 DEF ClaimWrite, Write, HashTypeOK
  <2>5. InHands(w) \in SUBSET {job[w]}
    BY DEF InHands
  <2> QED
    BY <1>p, <2>2, <2>3, <2>4, <2>5, OneWorkerMoves
<1>10. ASSUME NEW w \in Workers, ExecuteRun(w) PROVE NoJobLost'
  <2>1. InHands(w) = {}
    BY <1>10 DEF ExecuteRun, InHands
  <2>2. \A v \in Workers \ {w} : InHands(v)' = InHands(v)
    BY <1>t, <1>10, MoveAlone DEF ExecuteRun
  <2>3. UNCHANGED <<status, pending, submitting, stranded>>
    BY <1>10 DEF ExecuteRun, hash, lists
  <2> QED
    BY <2>1, <2>2, <2>3, QuietMove
<1>11. ASSUME NEW w \in Workers, Return(w) PROVE NoJobLost'
  <2>1. InHands(w) = {}
    BY <1>11 DEF Return, InHands
  <2>2. \A v \in Workers \ {w} : InHands(v)' = InHands(v)
    BY <1>t, <1>11, MoveAlone DEF Return
  <2>3. UNCHANGED <<status, pending, submitting, stranded>>
    BY <1>11 DEF Return, hash, lists
  <2> QED
    BY <2>1, <2>2, <2>3, QuietMove
<1>12. ASSUME NEW w \in Workers, Raise(w) PROVE NoJobLost'
  <2>1. InHands(w) = {}
    BY <1>12 DEF Raise, InHands
  <2>2. \A v \in Workers \ {w} : InHands(v)' = InHands(v)
    BY <1>t, <1>12, MoveAlone DEF Raise
  <2>3. UNCHANGED <<status, pending, submitting, stranded>>
    BY <1>12 DEF Raise, hash, lists
  <2> QED
    BY <2>1, <2>2, <2>3, QuietMove
<1>13. ASSUME NEW w \in Workers, AckRead(w) PROVE NoJobLost'
  <2>1. InHands(w) = {}
    BY <1>13 DEF AckRead, InHands
  <2>2. \A v \in Workers \ {w} : InHands(v)' = InHands(v)
    BY <1>t, <1>13, MoveAlone DEF AckRead
  <2>3. UNCHANGED <<status, pending, submitting, stranded>>
    BY <1>13 DEF AckRead, hash, lists
  <2> QED
    BY <2>1, <2>2, <2>3, QuietMove
<1>14. ASSUME NEW w \in Workers, AckWrite(w) PROVE NoJobLost'
  <2>1. job[w] \in Jobs
    BY <1>h, <1>14 DEF AckWrite, Busy
  <2>2. \A v \in Workers \ {w} : InHands(v)' = InHands(v)
    BY <1>t, <1>14, MoveAlone DEF AckWrite
  <2>3. UNCHANGED <<pending, submitting, stranded>>
    BY <1>14 DEF AckWrite, lists
  <2>4. \A j \in Jobs : status'[j] = "pending" => status[j] = "pending" /\ j # job[w]
    BY <1>t, <1>14, <2>1 DEF AckWrite, Write, HashTypeOK
  <2>5. InHands(w) \in SUBSET {job[w]}
    BY DEF InHands
  <2> QED
    BY <1>p, <2>2, <2>3, <2>4, <2>5, OneWorkerMoves
<1>15. ASSUME NEW w \in Workers, RejectRead(w) PROVE NoJobLost'
  <2>1. InHands(w) = {}
    BY <1>15 DEF RejectRead, InHands
  <2>2. \A v \in Workers \ {w} : InHands(v)' = InHands(v)
    BY <1>t, <1>15, MoveAlone DEF RejectRead
  <2>3. UNCHANGED <<status, pending, submitting, stranded>>
    BY <1>15 DEF RejectRead, hash, lists
  <2> QED
    BY <2>1, <2>2, <2>3, QuietMove
<1>16. ASSUME NEW w \in Workers, RejectWrite(w) PROVE NoJobLost'
  <2>1. job[w] \in Jobs /\ InHands(w) = {}
    BY <1>h, <1>16 DEF RejectWrite, Busy, InHands
  <2>2. \A v \in Workers \ {w} : InHands(v)' = InHands(v)
    BY <1>t, <1>16, MoveAlone DEF RejectWrite
  <2>3. UNCHANGED <<pending, submitting, stranded>>
    BY <1>16 DEF RejectWrite, lists
  <2>4. pc'[w] = "pushing" /\ job'[w] = job[w] /\ seen'[w] = seen[w]
    BY <1>t, <1>16 DEF RejectWrite, Goto, CrewTypeOK
  <2>5. seen[w] < MaxAttempts => InHands(w)' = {job[w]}
    BY <2>4 DEF InHands
  <2>6. \A j \in Jobs : status'[j] = "pending" =>
           status[j] = "pending" \/ (j = job[w] /\ seen[w] < MaxAttempts)
    BY <1>t, <1>16, <2>1 DEF RejectWrite, Write, HashTypeOK
  <2> QED
    BY <1>p, <2>1, <2>2, <2>3, <2>5, <2>6, OneWorkerMoves
<1>17. ASSUME NEW w \in Workers, RejectPush(w) PROVE NoJobLost'
  <2>1. job[w] \in Jobs /\ Push(job[w], seen[w])
    BY <1>t, <1>h, <1>17 DEF RejectPush, Busy, CrewTypeOK
  <2>2. \A v \in Workers \ {w} : InHands(v)' = InHands(v)
    BY <1>t, <1>17, MoveAlone DEF RejectPush
  <2>3. UNCHANGED <<status, submitting>>
    BY <1>17 DEF RejectPush, hash
  <2>4. InHands(w) \in SUBSET {job[w]}
    BY DEF InHands
  <2>5. CASE PushPending(job[w])
    <3>0. PICK k \in Jobs : k = job[w]
      BY <2>1
    <3>1. pending' = Append(pending, k) /\ stranded' = stranded \ {k}
      BY <2>5, <3>0 DEF PushPending
    <3>2. Listed(k)' /\ \A j \in Jobs : Listed(j) => Listed(j)'
      BY <1>t, <3>1, ListedAfterPush
    <3> QED
      BY <2>2, <2>3, <2>4, <3>0, <3>1, <3>2, OneWorkerMoves
  <2>6. CASE seen[w] >= MaxAttempts /\ UNCHANGED <<pending, stranded>>
    <3>1. seen[w] \in 0..MaxAttempts
      BY <1>t DEF CrewTypeOK
    <3>2. InHands(w) = {}
      BY <1>17, <2>6, <3>1 DEF RejectPush, InHands
    <3> QED
      BY <2>2, <2>3, <2>6, <3>2, QuietMove
  <2> QED
    BY <2>1, <2>5, <2>6 DEF Push
<1>18. ASSUME NEW w \in Workers, CheckRetrying(w) PROVE NoJobLost'
  <2>1. InHands(w) = {}
    BY <1>18 DEF CheckRetrying, InHands
  <2>2. \A v \in Workers \ {w} : InHands(v)' = InHands(v)
    BY <1>t, <1>18, MoveAlone DEF CheckRetrying
  <2>3. UNCHANGED <<status, pending, submitting, stranded>>
    BY <1>18 DEF CheckRetrying, hash, lists
  <2> QED
    BY <2>1, <2>2, <2>3, QuietMove
<1>19. ASSUME NEW w \in Workers, MarkRetrying(w) PROVE NoJobLost'
  <2>1. InHands(w) = {}
    BY <1>19 DEF MarkRetrying, InHands
  <2>2. \A v \in Workers \ {w} : InHands(v)' = InHands(v)
    BY <1>t, <1>19, MoveAlone DEF MarkRetrying
  <2>3. UNCHANGED <<status, pending, submitting, stranded>>
    BY <1>19 DEF MarkRetrying, hash, lists
  <2> QED
    BY <2>1, <2>2, <2>3, QuietMove
<1>20. ASSUME NEW w \in Workers, FinishRejected(w) PROVE NoJobLost'
  <2>1. InHands(w) = {}
    BY <1>20 DEF FinishRejected, InHands
  <2>2. \A v \in Workers \ {w} : InHands(v)' = InHands(v)
    BY <1>t, <1>20, MoveAlone DEF FinishRejected
  <2>3. UNCHANGED <<status, pending, submitting, stranded>>
    BY <1>20 DEF FinishRejected, hash, lists
  <2> QED
    BY <2>1, <2>2, <2>3, QuietMove
<1>21. ASSUME NEW w \in Workers, Crash(w) PROVE NoJobLost'
  <2>1. \A v \in Workers \ {w} : InHands(v)' = InHands(v)
    BY <1>t, <1>21, OthersKeep DEF Crash, CrewTypeOK
  <2>2. UNCHANGED <<status, pending, submitting>>
    BY <1>21 DEF Crash, hash, lists
  <2>3. \A j \in Jobs : \/ j \in stranded
                        \/ j \in InHands(w) /\ status[j] = "pending"
                        => j \in stranded'
    BY <1>21 DEF Crash
  <2> QED
    BY <1>p, <2>1, <2>2, <2>3, OneWorkerMoves
<1>22. ASSUME NEW j \in Jobs, EnqueueWrite(j) PROVE NoJobLost'
  <2>1. UNCHANGED <<pending, stranded>> /\ submitting' = submitting \cup {j}
    BY <1>22 DEF EnqueueWrite, lists
  <2>2. \A v \in Workers : InHands(v)' = InHands(v)
    BY <1>c, <1>22 DEF EnqueueWrite
  <2>3. \A i \in Jobs : status'[i] = "pending" => status[i] = "pending" \/ i = j
    BY <1>t, <1>22 DEF EnqueueWrite, Write, HashTypeOK
  <2> QED
    BY <1>p, <2>1, <2>2, <2>3 DEF NoJobLost
<1>23. ASSUME NEW j \in Jobs, EnqueuePush(j) PROVE NoJobLost'
  <2>1. /\ UNCHANGED status
        /\ submitting' = submitting \ {j}
        /\ stranded' = stranded \ {j}
        /\ pending' = Append(pending, j)
    BY <1>23 DEF EnqueuePush, PushPending, hash
  <2>2. \A v \in Workers : InHands(v)' = InHands(v)
    BY <1>c, <1>23 DEF EnqueuePush
  <2>3. Listed(j)' /\ \A i \in Jobs : Listed(i) => Listed(i)'
    BY <1>t, <2>1, ListedAfterPush
  <2> QED
    BY <2>1, <2>2, <2>3 DEF NoJobLost
<1>24. ASSUME NEW j \in Jobs, EnqueueCrash(j) PROVE NoJobLost'
  <2>1. UNCHANGED <<status, pending>> /\ submitting \cup stranded = (submitting \cup stranded)'
    BY <1>24 DEF EnqueueCrash, hash, lists
  <2>2. \A v \in Workers : InHands(v)' = InHands(v)
    BY <1>c, <1>24 DEF EnqueueCrash
  <2> QED
    BY <1>p, <2>1, <2>2 DEF NoJobLost
<1>25. ASSUME NEW j \in Jobs, Expire(j) PROVE NoJobLost'
  <2>1. UNCHANGED <<status, pending>> /\ UNCHANGED <<submitting, stranded>>
    BY <1>25 DEF Expire, hash, lists
  <2>2. \A v \in Workers : InHands(v)' = InHands(v)
    BY <1>c, <1>25 DEF Expire
  <2> QED
    BY <1>p, <2>1, <2>2 DEF NoJobLost
<1>26. ASSUME NEW j \in Jobs, Elapse(j) PROVE NoJobLost'
  <2>1. UNCHANGED <<status, pending>> /\ UNCHANGED <<submitting, stranded>>
    BY <1>26 DEF Elapse, hash, lists
  <2>2. \A v \in Workers : InHands(v)' = InHands(v)
    BY <1>c, <1>26 DEF Elapse
  <2> QED
    BY <1>p, <2>1, <2>2 DEF NoJobLost
<1> QED
  BY <1>1, <1>2, <1>3, <1>4, <1>5, <1>6, <1>7, <1>8, <1>9, <1>10, <1>11,
     <1>12, <1>13, <1>14, <1>15, <1>16, <1>17, <1>18, <1>19, <1>20, <1>21,
     <1>22, <1>23, <1>24, <1>25, <1>26 DEF Next, ProcessNext

-----------------------------------------------------------------------------
(* The theorems *)

\* Nothing is enqueued yet.
LEMMA QueueInit == Init => IndInv
<1>1. Init => TypeOK
  BY AttemptsAssumption, BoundsAssumption
     DEF Init, TypeOK, HashTypeOK, ListsTypeOK, CrewTypeOK, JobStatus,
         RunStatus, Phase
<1>2. Init => HandsOK /\ BudgetKept /\ NoJobLost
  BY DEF Init, HandsOK, BudgetKept, NoJobLost, Busy
<1> QED
  BY <1>1, <1>2 DEF IndInv

\* Every command of every client keeps the invariant.
LEMMA QueueStep == IndInv /\ [Next]_vars => IndInv'
<1> SUFFICES ASSUME IndInv, [Next]_vars PROVE IndInv'
  OBVIOUS
<1>1. CASE Next
  BY <1>1, TypeStep, HandsStep, BudgetStep, NoLossStep DEF IndInv
<1>2. CASE UNCHANGED vars
  <2>1. UNCHANGED <<hash, lists, crew, submitting, run, stranded, execs, counts>>
    BY <1>2 DEF vars
  <2>2. TypeOK'
    BY <2>1 DEF IndInv, TypeOK, HashTypeOK, ListsTypeOK, CrewTypeOK, hash,
                lists, crew, counts
  <2>3. HandsOK' /\ BudgetKept'
    BY <2>1 DEF IndInv, HandsOK, BudgetKept, hash, crew
  <2>4. NoJobLost'
    BY <2>1 DEF IndInv, NoJobLost, Listed, InHands, hash, lists, crew
  <2> QED
    BY <2>2, <2>3, <2>4 DEF IndInv
<1> QED
  BY <1>1, <1>2

\* IndInv is an inductive invariant of the queue and its workers: it holds
\* initially and every command of every client keeps it.
THEOREM QueueInvariant == Spec => []IndInv
<1> QED
  BY QueueInit, QueueStep, PTL DEF Spec

\* The types are kept, and with them attempts <= max_attempts, whatever stale
\* copies of a job are written back.
THEOREM QueueTypes == Spec => []TypeOK
<1>1. IndInv => TypeOK
  BY DEF IndInv
<1> QED
  BY <1>1, QueueInvariant, PTL

\* No interleaving of any number of live workers and producers loses a
\* waiting job.
THEOREM WaitingJobsAreFound == Spec => []NoJobLost
<1>1. IndInv => NoJobLost
  BY DEF IndInv
<1> QED
  BY <1>1, QueueInvariant, PTL

\* reap_expired_leases and reject give a job up exactly when its attempts are
\* used up.
THEOREM RetryBudgetIsKept == Spec => []BudgetKept
<1>1. IndInv => BudgetKept
  BY DEF IndInv
<1> QED
  BY <1>1, QueueInvariant, PTL

-----------------------------------------------------------------------------
(* One worker                                                               *)

\* A deployment with a single agent worker.
OneWorker == \A v, w \in Workers : v = w

\* What the single worker holds is what the hash says: nobody else counts
\* attempts.  So every hand-out is one attempt, a snapshot of the reap or a copy
\* about to be written back is never stale, and a run it is about to mark
\* RETRYING has not ended since it looked.
SoleWorker ==
    /\ \A j \in Jobs :
          /\ execs[j] = attempts[j]
          /\ status[j] = "absent" => attempts[j] = 0
    /\ \A w \in Workers :
          /\ pc[w] \notin {"reaping", "reclaiming"} => todo[w] = {}
          /\ \A x \in todo[w] : x[2] = attempts[x[1]]
          /\ pc[w] \in {"taking", "acked", "rejected"} => seen[w] = attempts[job[w]]
          /\ pc[w] = "retrying" => run[job[w]] # "terminal"

\* Every command of the single worker, and of those who enqueue, keeps its copies
\* up to date.
LEMMA SoleStep ==
    ASSUME IndInv, SoleWorker, OneWorker, Next
    PROVE  SoleWorker'
<1> USE DEF IndInv, TypeOK, HashTypeOK, CrewTypeOK, HandsOK, Busy, OneWorker, SoleWorker
<1>1. ASSUME NEW w \in Workers, ReapScan(w) PROVE SoleWorker'
  BY <1>1 DEF ReapScan, hash
<1>2. ASSUME NEW w \in Workers, ReapWrite(w) PROVE SoleWorker'
  BY <1>2 DEF ReapWrite, Write
<1>3. ASSUME NEW w \in Workers, ReapPush(w) PROVE SoleWorker'
  BY <1>3 DEF ReapPush, Drop, Take, Push, PushPending, hash
<1>4. ASSUME NEW w \in Workers, ReapDone(w) PROVE SoleWorker'
  BY <1>4 DEF ReapDone, Goto, hash
<1>5. ASSUME NEW w \in Workers, FinishReaped(w) PROVE SoleWorker'
  BY <1>5 DEF FinishReaped, Goto, hash
<1>6. ASSUME NEW w \in Workers, ClaimPop(w) PROVE SoleWorker'
  BY <1>6 DEF ClaimPop, Goto, Take, hash
<1>7. ASSUME NEW w \in Workers, ClaimRead(w) PROVE SoleWorker'
  BY <1>7 DEF ClaimRead, Goto, Take, Drop, hash
<1>8. ASSUME NEW w \in Workers, ClaimReturn(w) PROVE SoleWorker'
  BY <1>8 DEF ClaimReturn, Drop, Take, hash
<1>9. ASSUME NEW w \in Workers, ClaimWrite(w) PROVE SoleWorker'
  BY <1>9 DEF ClaimWrite, Write, Goto
<1>10. ASSUME NEW w \in Workers, ExecuteRun(w) PROVE SoleWorker'
  BY <1>10 DEF ExecuteRun, Goto, hash
<1>11. ASSUME NEW w \in Workers, Return(w) PROVE SoleWorker'
  BY <1>11 DEF Return, Goto, hash
<1>12. ASSUME NEW w \in Workers, Raise(w) PROVE SoleWorker'
  BY <1>12 DEF Raise, Goto, hash
<1>13. ASSUME NEW w \in Workers, AckRead(w) PROVE SoleWorker'
  BY <1>13 DEF AckRead, Take, hash
<1>14. ASSUME NEW w \in Workers, AckWrite(w) PROVE SoleWorker'
  BY <1>14 DEF AckWrite, Write, Drop, Take
<1>15. ASSUME NEW w \in Workers, RejectRead(w) PROVE SoleWorker'
  BY <1>15 DEF RejectRead, Take, hash
<1>16. ASSUME NEW w \in Workers, RejectWrite(w) PROVE SoleWorker'
  BY <1>16 DEF RejectWrite, Write, Goto
<1>17. ASSUME NEW w \in Workers, RejectPush(w) PROVE SoleWorker'
  BY <1>17 DEF RejectPush, Goto, Push, hash
<1>18. ASSUME NEW w \in Workers, CheckRetrying(w) PROVE SoleWorker'
  BY <1>18 DEF CheckRetrying, Goto, Drop, Take, hash
<1>19. ASSUME NEW w \in Workers, MarkRetrying(w) PROVE SoleWorker'
  BY <1>19 DEF MarkRetrying, Drop, Take, hash
<1>20. ASSUME NEW w \in Workers, FinishRejected(w) PROVE SoleWorker'
  BY <1>20 DEF FinishRejected, Drop, Take, hash
<1>21. ASSUME NEW w \in Workers, Crash(w) PROVE SoleWorker'
  BY <1>21 DEF Crash, hash
<1>22. ASSUME NEW j \in Jobs, EnqueueWrite(j) PROVE SoleWorker'
  BY <1>22 DEF EnqueueWrite, Write, crew
<1>23. ASSUME NEW j \in Jobs, EnqueuePush(j) PROVE SoleWorker'
  BY <1>23 DEF EnqueuePush, hash, crew
<1>24. ASSUME NEW j \in Jobs, EnqueueCrash(j) PROVE SoleWorker'
  BY <1>24 DEF EnqueueCrash, hash, crew
<1>25. ASSUME NEW j \in Jobs, Expire(j) PROVE SoleWorker'
  BY <1>25 DEF Expire, crew
<1>26. ASSUME NEW j \in Jobs, Elapse(j) PROVE SoleWorker'
  BY <1>26 DEF Elapse, crew
<1> QED
  BY <1>1, <1>2, <1>3, <1>4, <1>5, <1>6, <1>7, <1>8, <1>9, <1>10, <1>11,
     <1>12, <1>13, <1>14, <1>15, <1>16, <1>17, <1>18, <1>19, <1>20, <1>21,
     <1>22, <1>23, <1>24, <1>25, <1>26 DEF Next, ProcessNext

\* No command of the single worker takes a run that has ended back.
LEMMA TerminalStep ==
    ASSUME IndInv, SoleWorker, OneWorker, [Next]_vars
    PROVE  StaysTerminal
<1> USE DEF IndInv, TypeOK, CrewTypeOK, SoleWorker, StaysTerminal
<1>1. ASSUME NEW w \in Workers, ProcessNext(w), UNCHANGED run PROVE StaysTerminal
  BY <1>1
<1>2. ASSUME NEW w \in Workers, FinishReaped(w) PROVE StaysTerminal
  BY <1>2 DEF FinishReaped
<1>3. ASSUME NEW w \in Workers, ExecuteRun(w) PROVE StaysTerminal
  BY <1>3 DEF ExecuteRun
<1>4. ASSUME NEW w \in Workers, Return(w) PROVE StaysTerminal
  BY <1>4 DEF Return
<1>5. ASSUME NEW w \in Workers, MarkRetrying(w) PROVE StaysTerminal
  BY <1>5 DEF MarkRetrying
<1>6. ASSUME NEW w \in Workers, FinishRejected(w) PROVE StaysTerminal
  BY <1>6 DEF FinishRejected
<1>7. ASSUME NEW w \in Workers, ProcessNext(w) PROVE StaysTerminal
  <2>1. CASE UNCHANGED run
    BY <2>1, <1>1, <1>7
  <2>2. CASE \/ FinishReaped(w) \/ ExecuteRun(w) \/ Return(w) \/ MarkRetrying(w)
            \/ FinishRejected(w)
    BY <2>2, <1>2, <1>3, <1>4, <1>5, <1>6
  <2> QED BY <1>7, <2>1, <2>2 DEF ProcessNext, ReapScan, ReapWrite, ReapPush,
     ReapDone, ClaimPop, ClaimRead, ClaimReturn, ClaimWrite, Raise, AckRead,
     AckWrite, RejectRead, RejectWrite, RejectPush, CheckRetrying
<1>8. ASSUME UNCHANGED run PROVE StaysTerminal
  BY <1>8
<1>9. CASE Next
  BY <1>7, <1>8, <1>9 DEF Next, Crash, EnqueueWrite, EnqueuePush, EnqueueCrash,
     Expire, Elapse
<1>10. CASE UNCHANGED vars
  BY <1>8, <1>10 DEF vars
<1> QED BY <1>9, <1>10

\* Before anything is enqueued there are no copies.
LEMMA SoleAtFirst == Init => IndInv /\ SoleWorker
BY QueueInit DEF Init, SoleWorker

\* Every step keeps both.
LEMMA SoleKept == ASSUME IndInv, SoleWorker, OneWorker, [Next]_vars PROVE IndInv' /\ SoleWorker'
<1>1. IndInv'
  BY QueueStep
<1>2. CASE Next
  BY <1>1, <1>2, SoleStep
<1>3. CASE UNCHANGED vars
  BY <1>1, <1>3 DEF SoleWorker, vars, hash, crew
<1> QED BY <1>2, <1>3

\* What the attempts of the hash say of the executions.
LEMMA SoleMeans == IndInv /\ SoleWorker => ExecutionsBounded
BY AttemptsAssumption DEF IndInv, TypeOK, HashTypeOK, BudgetKept, SoleWorker, ExecutionsBounded

\* SoleWorkerInvariant: with one worker, whatever it crashes in the middle of and
\* whatever leases expire, its copies of the jobs are those of the hash.
THEOREM SoleWorkerInvariant == ASSUME OneWorker PROVE Spec => [](IndInv /\ SoleWorker)
<1>1. IndInv /\ SoleWorker /\ [Next]_vars => (IndInv /\ SoleWorker)'
  BY SoleKept
<1> QED
  BY <1>1, SoleAtFirst, PTL DEF Spec

\* HandoutsAreBounded: with one worker a job is handed out max_attempts times at
\* most and buried only after that many executions, although crashes, expired
\* leases and rejects each write the attempts back (claim, reap_expired_leases,
\* reject).
THEOREM HandoutsAreBounded == ASSUME OneWorker PROVE Spec => []ExecutionsBounded
BY SoleMeans, SoleWorkerInvariant, PTL

\* EndedRunsStayEnded: with one worker the retry bookkeeping of process_next,
\* which reads the run and writes RETRYING in a second call, never puts a run that
\* has ended back.
THEOREM EndedRunsStayEnded == ASSUME OneWorker PROVE Spec => TerminalIsFinal
<1>1. IndInv /\ SoleWorker /\ [Next]_vars => StaysTerminal
  BY TerminalStep
<1> QED
  BY <1>1, SoleWorkerInvariant, PTL DEF Spec, TerminalIsFinal
=============================================================================
