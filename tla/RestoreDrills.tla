---------------------------- MODULE RestoreDrills ----------------------------
(***************************************************************************)
(* Restore drills of one schedule: the scheduler turns due days into jobs, *)
(* a worker turns a job into a run record, a person asks for its           *)
(* execution, a worker runs the verifier, and another one collects the     *)
(* evidence.  Evidence may also be uploaded, and a verdict patched, by     *)
(* hand.  Days are counted in intervals of the schedule.                   *)
(*                                                                         *)
(* A job is a record in a bag: the queue delivers it again, MaxTries times *)
(* in all, when its worker raised or died.                                 *)
(***************************************************************************)
EXTENDS Naturals, Sequences, FiniteSets, Bags

CONSTANTS
    Schedulers,   \* scheduler processes
    Threads,      \* worker and request threads
    MaxDay,       \* bound of the clock
    CatchUp,      \* max_catch_up_runs
    MaxTries,     \* worker_job_max_attempts
    MaxAsked,     \* bound of the requests a person makes
    MaxDeaths     \* bound of crashes and of changes of the schedule's status

VARIABLES
    day,       \* the clock
    enabled,   \* status of the schedule
    next,      \* next_run_at, 0 when unset
    recs,      \* the restore_drill_runs rows
    objects,   \* stored evidence: the record it is about, and its verdict
    jobs,      \* the bag of jobs on the queue
    plan,      \* plan[p]: what scheduler p still has to write
    doing,     \* doing[t]: the job or request of thread t and where it is
    asked, deaths,
    dated,     \* history: was the schedule created with its next_run_at?
    skipped    \* history: days whose job was skipped or ended as a dead letter

queue == <<jobs, skipped>>
vars == <<day, enabled, next, recs, objects, queue, plan, doing, asked, deaths, dated>>

Idle == [kind |-> "none", n |-> 0, tries |-> 0, pc |-> "off", good |-> FALSE,
         obj |-> 0]
NoPlan == [due |-> <<>>, then |-> 0, open |-> FALSE]

Init ==
    /\ day = 1 /\ enabled = TRUE
    /\ next \in {0, 1}
    /\ recs = <<>> /\ objects = <<>>
    /\ jobs = EmptyBag
    /\ plan = [p \in Schedulers |-> NoPlan]
    /\ doing = [t \in Threads |-> Idle]
    /\ asked = 0 /\ deaths = 0
    /\ dated = (next = 1)
    /\ skipped = {}

Job(kind, n, tries, good) == [kind |-> kind, n |-> n, tries |-> tries, good |-> good]
Put(j) == jobs' = jobs (+) SetToBag({j})

-----------------------------------------------------------------------------
(* The scheduler *)

Tick ==
    /\ day < MaxDay
    /\ day' = day + 1
    /\ UNCHANGED <<enabled, next, recs, objects, queue, plan, doing, asked, deaths>>

\* Mutant: the next time is computed from the clock.
MutEvaluate(from) == [due |-> IF from <= day THEN <<from>> ELSE <<>>,
                      then |-> day + 1, open |-> TRUE]

\* evaluate_restore_drill_schedule: the days from next_run_at up to now, at most
\* max_catch_up_runs of them, and the day after the last one.
Evaluate(from) ==
    LET n == IF from > day THEN 0
             ELSE IF day - from + 1 < CatchUp THEN day - from + 1 ELSE CatchUp
    IN [due |-> [i \in 1..n |-> from + i - 1], then |-> from + n, open |-> TRUE]

ProcessDue(p) ==
    /\ ~plan[p].open
    /\ enabled
    /\ next <= day         \* else nothing is due and nothing is written
    /\ plan' = [plan EXCEPT ![p] = Evaluate(IF next = 0 THEN day ELSE next)]
    /\ UNCHANGED <<day, enabled, next, recs, objects, queue, doing, asked, deaths>>

EnqueueDue(p) ==
    /\ plan[p].due /= <<>>
    /\ Put(Job("due", Head(plan[p].due), 1, FALSE))
    /\ plan' = [plan EXCEPT ![p].due = Tail(@)]
    /\ UNCHANGED <<day, enabled, next, recs, objects, skipped, doing, asked, deaths>>

\* The next time is written after the jobs; two schedulers may write it in
\* either order.
UpdateNextRunAt(p) ==
    /\ plan[p].open /\ plan[p].due = <<>>
    /\ next' = plan[p].then
    /\ plan' = [plan EXCEPT ![p] = NoPlan]
    /\ UNCHANGED <<day, enabled, recs, objects, queue, doing, asked, deaths>>

SchedulerDies(p) ==
    /\ plan[p].open
    /\ deaths < MaxDeaths /\ deaths' = deaths + 1
    /\ plan' = [plan EXCEPT ![p] = NoPlan]
    /\ UNCHANGED <<day, enabled, next, recs, objects, queue, doing, asked>>

\* update_schedule_status
UpdateScheduleStatus ==
    /\ deaths < MaxDeaths /\ deaths' = deaths + 1
    /\ enabled' = ~enabled
    /\ UNCHANGED <<day, next, recs, objects, queue, plan, doing, asked>>

-----------------------------------------------------------------------------
(* The threads *)

Move(t, pc) == doing' = [doing EXCEPT ![t].pc = pc]
Off(t) == doing' = [doing EXCEPT ![t] = Idle]

Claim(t) ==
    /\ doing[t] = Idle
    /\ \E j \in BagToSet(jobs) :
       /\ jobs' = jobs (-) SetToBag({j})
       /\ doing' = [doing EXCEPT ![t] =
                      [kind |-> j.kind, n |-> j.n, tries |-> j.tries,
                       pc |-> "check", good |-> j.good, obj |-> 0]]
    /\ UNCHANGED <<day, enabled, next, recs, objects, skipped, plan, asked, deaths>>

Ack(t, day0) ==
    /\ Off(t)
    /\ skipped' = skipped \cup day0
    /\ UNCHANGED jobs

\* Mutant: one delivery too many.
MutBack(t) ==
    LET d == doing[t] IN
    /\ Off(t)
    /\ IF d.tries \in 1..MaxTries
       THEN Put(Job(d.kind, d.n, d.tries + 1, d.good)) /\ UNCHANGED skipped
       ELSE UNCHANGED queue

\* queue.reject, or the lease of a dead worker runs out: the job comes back, or
\* is a dead letter.  A request just fails.
Back(t) ==
    LET d == doing[t] IN
    /\ Off(t)
    /\ IF d.tries \in 1..(MaxTries - 1)
       THEN Put(Job(d.kind, d.n, d.tries + 1, d.good)) /\ UNCHANGED skipped
       ELSE /\ skipped' = skipped \cup IF d.kind = "due" THEN {d.n} ELSE {}
            /\ UNCHANGED jobs

Dies(t) ==
    /\ doing[t] /= Idle
    /\ deaths < MaxDeaths /\ deaths' = deaths + 1
    /\ Back(t)
    /\ UNCHANGED <<day, enabled, next, recs, objects, plan, asked>>

Of(d) == {r \in DOMAIN recs : recs[r].day = d}

\* RestoreDrillDueWorker.process_next: a disabled schedule and a day that has
\* its record are skipped.
DueCheck(t) ==
    /\ doing[t].kind = "due" /\ doing[t].pc = "check"
    /\ \/ ~enabled /\ Ack(t, {doing[t].n})
       \/ enabled /\ Of(doing[t].n) /= {} /\ Ack(t, {})
       \/ enabled /\ Of(doing[t].n) = {} /\ Move(t, "create") /\ UNCHANGED queue
    /\ UNCHANGED <<day, enabled, next, recs, objects, plan, asked, deaths>>

\* Mutant: the row is inserted without the unique index.
MutCreateRunRecord(t) ==
    /\ doing[t].pc = "create"
    /\ recs' = Append(recs, [day |-> doing[t].n, status |-> "requested", obj |-> 0])
    /\ Ack(t, {})
    /\ UNCHANGED <<day, enabled, next, objects, plan, asked, deaths>>

\* create_run_record: what another worker inserted meanwhile is returned, and
\* the unique index refuses a second row.
CreateRunRecord(t) ==
    /\ doing[t].pc = "create"
    /\ \/ /\ Of(doing[t].n) = {}
          /\ recs' = Append(recs, [day |-> doing[t].n, status |-> "requested", obj |-> 0])
          /\ Ack(t, {})
       \/ Of(doing[t].n) /= {} /\ Ack(t, {}) /\ UNCHANGED recs
       \/ Of(doing[t].n) /= {} /\ Back(t) /\ UNCHANGED recs
    /\ UNCHANGED <<day, enabled, next, objects, plan, asked, deaths>>

Open(r) == recs[r].status = "requested"

\* RestoreDrillExecutionWorker.process_next, up to the verifier.
ExecutionCheck(t) ==
    /\ doing[t].kind = "execution" /\ doing[t].pc = "check"
    /\ \/ Open(doing[t].n) /\ Move(t, "verify") /\ UNCHANGED queue
       \/ ~Open(doing[t].n) /\ Back(t)
    /\ UNCHANGED <<day, enabled, next, recs, objects, plan, asked, deaths>>

\* The verifier raises, or its result is put on the queue; the worker may die
\* before it acknowledges the job it has done.
Verifier(t) ==
    /\ doing[t].pc = "verify"
    /\ \/ \E good \in BOOLEAN :
             Put(Job("evidence", doing[t].n, 1, good)) /\ Move(t, "done")
             /\ UNCHANGED skipped
       \/ Back(t)
    /\ UNCHANGED <<day, enabled, next, recs, objects, plan, asked, deaths>>

ExecutionAck(t) ==
    /\ doing[t].pc = "done"
    /\ Ack(t, {})
    /\ UNCHANGED <<day, enabled, next, recs, objects, plan, asked, deaths>>

\* The evidence worker, the upload endpoint and the patch endpoint all look
\* whether the record is still open before they work on it.
EvidenceCheck(t) ==
    /\ doing[t].kind \in {"evidence", "upload", "patch"} /\ doing[t].pc = "check"
    /\ \/ /\ Open(doing[t].n)
          /\ Move(t, IF doing[t].kind = "evidence" /\ ~doing[t].good THEN "fail"
                     ELSE IF doing[t].kind = "patch" THEN "patch" ELSE "store")
          /\ UNCHANGED queue
       \/ ~Open(doing[t].n) /\ Back(t)
    /\ UNCHANGED <<day, enabled, next, recs, objects, plan, asked, deaths>>

Verdict(t, status, obj) ==
    recs' = [recs EXCEPT ![doing[t].n].status = status, ![doing[t].n].obj = obj]

EvidenceFailed(t) ==
    /\ doing[t].pc = "fail"
    /\ Verdict(t, "failed", 0)
    /\ Ack(t, {})
    /\ UNCHANGED <<day, enabled, next, objects, plan, asked, deaths>>

\* Mutant: the record is ready before the evidence is stored.
MutStoreEvidence(t) ==
    /\ doing[t].pc = "store"
    /\ Verdict(t, "evidence_ready", Len(objects) + 1)
    /\ Move(t, "ready")
    /\ UNCHANGED <<day, enabled, next, objects, queue, plan, asked, deaths>>

\* _collect_successful_evidence registers and uploads the object, ...
StoreEvidence(t) ==
    /\ doing[t].pc = "store"
    /\ \/ /\ objects' = Append(objects, doing[t].n)
          /\ doing' = [doing EXCEPT ![t].pc = "ready", ![t].obj = Len(objects) + 1]
          /\ UNCHANGED queue
       \/ Back(t) /\ UNCHANGED objects        \* the upload raises
    /\ UNCHANGED <<day, enabled, next, recs, plan, asked, deaths>>

\* ... validates it and only then gives the verdict.
EvidenceReady(t) ==
    /\ doing[t].pc = "ready"
    /\ doing[t].obj \in DOMAIN objects
    /\ Verdict(t, "evidence_ready", doing[t].obj)
    /\ Ack(t, {})
    /\ UNCHANGED <<day, enabled, next, objects, plan, asked, deaths>>

\* update_restore_drill_run_record: evidence_ready needs an object that
\* validates, of any record of the workspace; failed may name one.
PatchRunRecord(t) ==
    /\ doing[t].pc = "patch"
    /\ \/ \E o \in DOMAIN objects \cup {0} : Verdict(t, "failed", o)
       \/ \E o \in DOMAIN objects : Verdict(t, "evidence_ready", o)
    /\ Ack(t, {})
    /\ UNCHANGED <<day, enabled, next, objects, plan, asked, deaths>>

\* The endpoint that queues the execution of an open record, ...
EnqueueExecution(r) ==
    /\ asked < MaxAsked /\ asked' = asked + 1
    /\ Open(r)
    /\ Put(Job("execution", r, 1, FALSE))
    /\ UNCHANGED <<day, enabled, next, recs, objects, skipped, plan, doing, deaths>>

\* ... and the two that settle it by hand.
Ask(t, r) ==
    /\ doing[t] = Idle
    /\ asked < MaxAsked /\ asked' = asked + 1
    /\ \E kind \in {"upload", "patch"} :
          doing' = [doing EXCEPT ![t] = [Idle EXCEPT !.kind = kind, !.n = r,
                                                     !.pc = "check", !.good = TRUE]]
    /\ UNCHANGED <<day, enabled, next, recs, objects, queue, plan, deaths>>

-----------------------------------------------------------------------------

Thread(t) ==
    \/ Claim(t) \/ DueCheck(t) \/ CreateRunRecord(t)
    \/ ExecutionCheck(t) \/ Verifier(t) \/ ExecutionAck(t)
    \/ EvidenceCheck(t) \/ EvidenceFailed(t) \/ StoreEvidence(t)
    \/ EvidenceReady(t) \/ PatchRunRecord(t)

Scheduler(p) == ProcessDue(p) \/ EnqueueDue(p) \/ UpdateNextRunAt(p)

Next ==
    /\ \/ Tick
       \/ UpdateScheduleStatus
       \/ \E p \in Schedulers : Scheduler(p) \/ SchedulerDies(p)
       \/ \E t \in Threads : Thread(t) \/ Dies(t)
       \/ \E r \in DOMAIN recs : EnqueueExecution(r) \/ \E t \in Threads : Ask(t, r)
    /\ UNCHANGED dated

Spec == Init /\ [][Next]_vars

-----------------------------------------------------------------------------
(* Properties *)

TypeOK ==
    /\ day \in 1..MaxDay /\ enabled \in BOOLEAN
    /\ next \in 0..(MaxDay + 1)
    /\ \A r \in DOMAIN recs :
          /\ recs[r].day \in 1..MaxDay
          /\ recs[r].status \in {"requested", "failed", "evidence_ready"}
          /\ recs[r].obj \in Nat
    /\ \A t \in Threads : doing[t].tries \in 0..MaxTries
    /\ \A j \in BagToSet(jobs) : j.tries \in 1..MaxTries

\* A day is drilled once, however many schedulers queue it and however often
\* its job is delivered (get_run_record_by_schedule_time, the unique index).
OneRecordPerDay == \A d \in 1..MaxDay : Cardinality(Of(d)) <= 1

Underway(d) ==
    \/ \E j \in BagToSet(jobs) : j.kind = "due" /\ j.n = d
    \/ \E t \in Threads : doing[t].kind = "due" /\ doing[t].n = d

\* No day a schedule has passed is forgotten: each day before next_run_at has
\* its record, a job under way, or was skipped on record, whichever scheduler
\* died or wrote last (process_due).  A schedule created without next_run_at
\* starts again from the clock until one is written.
NoDaySkipped ==
    dated => \A d \in 1..(next - 1) : Of(d) /= {} \/ Underway(d) \/ d \in skipped

\* A record that is ready names evidence that was stored and validated, also
\* when its worker died half-way or a person patched it (_collect_successful_
\* evidence, validate_update_status).
ReadyHasEvidence ==
    \A r \in DOMAIN recs :
        recs[r].status = "evidence_ready" => recs[r].obj \in DOMAIN objects


=============================================================================
