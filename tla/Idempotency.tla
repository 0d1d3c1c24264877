---------------------------- MODULE Idempotency ----------------------------
(***************************************************************************)
(* One idempotency key of one endpoint and the requests that carry it.     *)
(* Endpoints come in two kinds: those that go through                      *)
(* ChatService.execute_idempotently, which reserves the key before it acts *)
(* (posting a message, invoking a published agent), and those that look    *)
(* for a replay, act and save the response (create_run, webhooks,          *)
(* approvals, restore drills).  A store call is one step.                  *)
(***************************************************************************)
EXTENDS FiniteSets, Naturals

CONSTANTS
    Requests,  \* HTTP requests that carry the key
    Proc,      \* Proc[r]: the API process that serves r
    Body,      \* Body[r]: the hash of r's payload
    MaxCrash,  \* bound on dying processes
    None, Refused

VARIABLES
    reserving,  \* does the endpoint use execute_idempotently?
    hash,       \* request_hash of the stored record, None: there is no record
    response,   \* request whose result the record holds, None: status_code 102
    stale,      \* is the record older than _IDEMPOTENCY_RESERVATION_TTL_SECONDS?
    pc,         \* where each request is
    answer,     \* what the client of each request got
    crashes,
    \* history
    performed,  \* requests whose operation took effect
    lost,       \* requests whose operation raised, died or lost its reservation
    kept        \* no reservation was taken from a live execution so far

vars == <<reserving, hash, response, stale, pc, answer, crashes,
          performed, lost, kept>>

record == <<hash, response, stale>>

-----------------------------------------------------------------------------
(* The record in the store. *)

NoRecord == hash = None

\* _is_pending
Pending == hash # None /\ response = None

\* A fresh reservation for r.
Reservation(r) == hash' = Body[r] /\ response' = None /\ stale' = FALSE

\* save_idempotency_record: replaces whatever is stored under the key.
SaveRecord(r) == hash' = Body[r] /\ response' = r /\ stale' = FALSE

-----------------------------------------------------------------------------
Answer(r, a) ==
    /\ answer' = [answer EXCEPT ![r] = a]
    /\ pc' = [pc EXCEPT ![r] = "done"]

Goto(r, label) == pc' = [pc EXCEPT ![r] = label] /\ UNCHANGED answer

\* Requests that have reserved the key and are not through with it.
Executing(r) == pc[r] \in {"operate", "save", "delete"}

\* execute_idempotently takes the lock of the key, which is local to the
\* process; the other endpoints take none.
Enter(r) ==
    /\ pc[r] = "new"
    /\ reserving =>
         \A q \in Requests : Proc[q] = Proc[r] => pc[q] \in {"new", "done"}
    /\ Goto(r, "find")
    /\ UNCHANGED <<reserving, record, crashes, performed, lost, kept>>

\* find_idempotent_replay and what is done with its result.
MutFind(r) ==
    /\ pc[r] = "find"
    /\ \/ /\ hash # None /\ response # None
          /\ Answer(r, response)
       \/ /\ NoRecord
          /\ Goto(r, IF reserving THEN "reserve" ELSE "operate")
       \/ /\ Pending
          /\ IF reserving THEN Goto(r, "reclaim") ELSE Answer(r, Refused)
    /\ UNCHANGED <<reserving, record, crashes, performed, lost, kept>>
Find(r) ==
    /\ pc[r] = "find"
    /\ \/ /\ hash \notin {None, Body[r]}        \* IdempotencyConflictError
          /\ Answer(r, Refused)
       \/ /\ hash = Body[r] /\ response # None
          /\ Answer(r, response)
       \/ /\ NoRecord
          /\ Goto(r, IF reserving THEN "reserve" ELSE "operate")
       \/ /\ hash = Body[r] /\ Pending
          /\ Goto(r, "reclaim")
    /\ UNCHANGED <<reserving, record, crashes, performed, lost, kept>>

\* reserve_idempotency_record: insert unless there is a record.
MutReserve(r) ==
    /\ pc[r] = "reserve"
    /\ Reservation(r) /\ Goto(r, "operate")
    /\ UNCHANGED <<reserving, crashes, performed, lost, kept>>
Reserve(r) ==
    /\ pc[r] = "reserve"
    /\ IF NoRecord THEN Reservation(r) /\ Goto(r, "operate")
                   ELSE UNCHANGED record /\ Goto(r, "wait")
    /\ UNCHANGED <<reserving, crashes, performed, lost, kept>>

\* reclaim_stale_idempotency_record: the holder may be dead or only slow.
Reclaim(r) ==
    /\ pc[r] = "reclaim"
    /\ IF hash = Body[r] /\ response = None /\ stale
       THEN /\ Reservation(r)
            /\ Goto(r, "operate")
            /\ lost' = lost \cup {q \in Requests : Executing(q)}
            /\ kept' = (kept /\ ~\E q \in Requests : Executing(q))
       ELSE UNCHANGED <<record, lost, kept>> /\ Goto(r, "wait")
    /\ UNCHANGED <<reserving, crashes, performed>>

\* operation() returns: the message is accepted, the run created.
Operate(r) ==
    /\ pc[r] = "operate"
    /\ performed' = performed \cup {r}
    /\ Goto(r, "save")
    /\ UNCHANGED <<reserving, record, crashes, lost, kept>>

\* operation() raises, before or after it has written something (a dispatch
\* that fails follows the creation of the run).
OperateRaises(r) ==
    /\ pc[r] = "operate"
    /\ \/ performed' = performed \cup {r}
       \/ UNCHANGED performed
    /\ lost' = lost \cup {r}
    /\ IF reserving THEN Goto(r, "delete") ELSE Answer(r, Refused)
    /\ UNCHANGED <<reserving, record, crashes, kept>>

\* delete_idempotency_record: any record with this hash, in whatever state.
Delete(r) ==
    /\ pc[r] = "delete"
    /\ IF hash = Body[r] THEN hash' = None /\ response' = None /\ stale' = FALSE
                         ELSE UNCHANGED record
    /\ Answer(r, Refused)
    /\ UNCHANGED <<reserving, crashes, performed, lost, kept>>

\* save_idempotent_response and return.
MutSave(r) ==
    /\ pc[r] = "save"
    /\ Answer(r, r)
    /\ UNCHANGED <<reserving, record, crashes, performed, lost, kept>>
Save(r) ==
    /\ pc[r] = "save"
    /\ SaveRecord(r)
    /\ Answer(r, r)
    /\ UNCHANGED <<reserving, crashes, performed, lost, kept>>

\* One look of _wait_for_idempotent_completion that ends the waiting.
Poll(r) ==
    /\ pc[r] = "wait"
    /\ \/ hash \notin {None, Body[r]} /\ Answer(r, Refused)
       \/ hash = Body[r] /\ response # None /\ Answer(r, response)
    /\ UNCHANGED <<reserving, record, crashes, performed, lost, kept>>

\* Five seconds have passed: "Idempotent request is still in progress".
GiveUp(r) ==
    /\ pc[r] = "wait"
    /\ Answer(r, Refused)
    /\ UNCHANGED <<reserving, record, crashes, performed, lost, kept>>

-----------------------------------------------------------------------------
\* The record ages beyond the time a reservation is respected.
Age ==
    /\ ~NoRecord /\ ~stale
    /\ stale' = TRUE
    /\ UNCHANGED <<reserving, hash, response, pc, answer, crashes, performed,
                   lost, kept>>

\* A process dies with all the requests it serves.
Crash(p) ==
    LET died == {r \in Requests : Proc[r] = p /\ pc[r] \notin {"new", "done"}}
    IN  /\ crashes < MaxCrash /\ died # {}
        /\ crashes' = crashes + 1
        /\ pc' = [r \in Requests |-> IF r \in died THEN "done" ELSE pc[r]]
        /\ answer' = [r \in Requests |-> IF r \in died THEN Refused
                                                       ELSE answer[r]]
        /\ lost' = lost \cup {r \in died : Executing(r)}
        /\ UNCHANGED <<reserving, record, performed, kept>>

Init ==
    /\ reserving \in BOOLEAN
    /\ hash = None /\ response = None /\ stale = FALSE
    /\ pc = [r \in Requests |-> "new"]
    /\ answer = [r \in Requests |-> None]
    /\ crashes = 0
    /\ performed = {} /\ lost = {} /\ kept = TRUE

Step(r) ==
    \/ Enter(r) \/ Find(r) \/ Reserve(r) \/ Reclaim(r) \/ Operate(r)
    \/ OperateRaises(r) \/ Delete(r) \/ Save(r) \/ Poll(r) \/ GiveUp(r)

Next ==
    \/ \E r \in Requests : Step(r)
    \/ Age
    \/ \E r \in Requests : Crash(Proc[r])

Spec == Init /\ [][Next]_vars

-----------------------------------------------------------------------------
Labels == {"new", "find", "reserve", "reclaim", "operate", "delete", "save",
           "wait", "done"}

TypeOK ==
    /\ reserving \in BOOLEAN /\ stale \in BOOLEAN /\ kept \in BOOLEAN
    /\ hash \in {Body[r] : r \in Requests} \cup {None}
    /\ response \in Requests \cup {None}
    /\ pc \in [Requests -> Labels]
    /\ answer \in [Requests -> Requests \cup {None, Refused}]
    /\ crashes \in 0..MaxCrash
    /\ performed \subseteq Requests /\ lost \subseteq Requests

(* An endpoint that reserves its key performs a second operation only when *)
(* the first one raised or died, unless a live execution has lost its      *)
(* reservation after 30 s (reserve_idempotency_record and                  *)
(* reclaim_stale_idempotency_record are the only ways to the operation).   *)
OneEffectPerKey == reserving /\ kept => Cardinality(performed \ lost) <= 1

(* No client gets the answer to another body, whichever records are        *)
(* reclaimed, deleted or replaced meanwhile                                *)
(* (require_matching_idempotency_record).                                  *)
AnswersMatchBody ==
    \A r \in Requests : answer[r] \in Requests => Body[answer[r]] = Body[r]

\* OncePerKey, for the endpoints that reserve their key.
Promise == INSTANCE OncePerKey WITH
    result <- IF reserving THEN response ELSE None,
    answers <- IF reserving THEN answer ELSE [r \in Requests |-> None]

(* As long as no execution outlives its reservation, all requests with the *)
(* key are refused or answered with one and the same result, although      *)
(* processes die, operations raise and records are deleted and replaced    *)
(* (execute_idempotently refines OncePerKey).                              *)
KeepsPromise == Promise!Spec
=============================================================================
