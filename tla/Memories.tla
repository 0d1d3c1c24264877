------------------------------- MODULE Memories -------------------------------
(***************************************************************************)
(* Memory (memory/service.py, repository.py, tools.py): long-term records,   *)
(* saved by agents under a key or proposed as candidates and reviewed, and   *)
(* the short-term entries of a run, of which the guardrail holds back some   *)
(* for review.  Agents, users and reviewers act at the same time, and a      *)
(* process may die between two transactions.                                 *)
(***************************************************************************)
EXTENDS Naturals, FiniteSets

CONSTANTS Ids,        \* long-term records
          Keys,       \* what agents remember
          Reviews,    \* short-term writes held for review
          Slots,      \* keys of short-term entries
          Requests,
          MaxTrouble  \* processes that die

VARIABLES rec,       \* long-term records
          kept,      \* keys that were saved, and not taken back by a person
          mixed,     \* keys whose saves overlapped or stopped half way
          forgotten, \* records a person or a newer save has forgotten
          entry,     \* short-term entries: where the value comes from
          review,    \* reviews of short-term writes
          crossed,   \* reviews two decisions of which overlapped, or stopped
          req, trouble

vars == <<rec, kept, mixed, forgotten, entry, review, crossed, req, trouble>>

None == "none"
NoRecord == [key |-> None, status |-> None, text |-> FALSE]
NoReview == [slot |-> None, state |-> None]
Rest == [op |-> None, pc |-> None, key |-> None, id |-> 0, seen |-> {}, read |-> NoRecord,
         copy |-> NoReview]

Init == /\ rec = [i \in Ids |-> NoRecord] /\ kept = {} /\ mixed = {} /\ forgotten = {}
        /\ entry = [s \in Slots |-> None] /\ review = [v \in Reviews |-> NoReview]
        /\ crossed = {} /\ req = [r \in Requests |-> Rest] /\ trouble = 0

long == <<rec, kept, mixed, forgotten>>
short == <<entry, review, crossed>>
Begin(r, record) == req[r] = Rest /\ req' = [req EXCEPT ![r] = record]
Finish(r) == req' = [req EXCEPT ![r] = Rest]
At(r, pc) == req[r].pc = pc
Active(k) == {i \in Ids : rec[i].key = k /\ rec[i].status = "active"}
Saving(k) == {r \in Requests : req[r].op = "save" /\ req[r].key = k}

-----------------------------------------------------------------------------
\* _save_memory lists what is active, writes the new record, and forgets what
\* it supersedes: what the agent names, and whatever has the same key.
MutOrder == [first |-> "forget", write |-> None, forget |-> "write"]
Order == [first |-> "write", write |-> "forget", forget |-> None]
Continue(r) == IF Order[req[r].pc] = None THEN Finish(r)
               ELSE req' = [req EXCEPT ![r].pc = Order[@]]

MutSuperseded(k, named) == named
Superseded(k, named) == named \cup Active(k)

Save(r, k, named) ==
    /\ Begin(r, [Rest EXCEPT !.op = "save", !.pc = Order["first"], !.key = k,
                             !.seen = Superseded(k, named)])
    /\ mixed' = IF Saving(k) # {} THEN mixed \cup {k} ELSE mixed
    /\ UNCHANGED <<rec, kept, forgotten, short, trouble>>

SaveWrite(r) ==
    LET k == req[r].key
    IN  /\ At(r, "write") /\ Continue(r)
        /\ \E i \in Ids : /\ rec[i] = NoRecord
                          /\ rec' = [rec EXCEPT ![i] = [key |-> k, status |-> "active", text |-> TRUE]]
        /\ kept' = kept \cup {k}
        /\ UNCHANGED <<mixed, forgotten, short, trouble>>

\* forget empties the record and its metadata, the key with them.
Emptied == [key |-> None, status |-> "expired", text |-> FALSE]

SaveForget(r) ==
    /\ At(r, "forget")
    /\ IF req[r].seen = {}
       THEN Continue(r) /\ UNCHANGED <<rec, forgotten>>
       ELSE \E i \in req[r].seen :
                /\ rec' = [rec EXCEPT ![i] = Emptied] /\ forgotten' = forgotten \cup {i}
                /\ req' = [req EXCEPT ![r].seen = @ \ {i}]
    /\ UNCHANGED <<kept, mixed, short, trouble>>

\* propose_candidate: what needs approval is held with the other candidates.
Propose(i) ==
    /\ rec[i] = NoRecord
    /\ rec' = [rec EXCEPT ![i] = [key |-> None, status |-> "candidate", text |-> TRUE]]
    /\ UNCHANGED <<kept, mixed, forgotten, short, req, trouble>>

Forget(i) ==
    /\ rec[i] # NoRecord
    /\ rec' = [rec EXCEPT ![i] = Emptied] /\ forgotten' = forgotten \cup {i}
    /\ kept' = kept \ {rec[i].key}
    /\ UNCHANGED <<mixed, short, req, trouble>>

\* approve and reject read the record, whatever its state, and set its status.
ReviewRecord(r, i, verdict) ==
    /\ rec[i] # NoRecord
    /\ Begin(r, [Rest EXCEPT !.op = verdict, !.pc = "status", !.id = i, !.read = rec[i]])
    /\ UNCHANGED <<long, short, trouble>>

MutWithStatus(r, status) == [req[r].read EXCEPT !.status = status]
WithStatus(r, status) == [rec[req[r].id] EXCEPT !.status = status]

UpdateStatus(r) ==
    LET i == req[r].id
    IN  /\ At(r, "status") /\ Finish(r)
        /\ rec' = [rec EXCEPT ![i] = WithStatus(r, req[r].op)]
        /\ kept' = kept \ {rec[i].key}
        /\ mixed' = mixed \cup ({rec[i].key} \ {None})
        /\ UNCHANGED <<forgotten, short, trouble>>

-----------------------------------------------------------------------------
\* put: an entry for the run, or a review of it if the guardrail wants one.
Put(s) ==
    /\ entry' = [entry EXCEPT ![s] = "plain"]
    /\ UNCHANGED <<long, review, crossed, req, trouble>>

PutHeld(s, v) ==
    /\ review[v] = NoReview
    /\ review' = [review EXCEPT ![v] = [slot |-> s, state |-> "pending"]]
    /\ UNCHANGED <<long, entry, crossed, req, trouble>>

\* The entry's time is up, or it is deleted.
Drop(s) ==
    /\ entry[s] # None /\ entry' = [entry EXCEPT ![s] = None]
    /\ UNCHANGED <<long, review, crossed, req, trouble>>

\* approve_review, reject_review and _expire_pending_reviews read the review,
\* which must be pending, and write the whole row.
MutPending(v) == review[v] # NoReview
Pending(v) == review[v].state = "pending"
Deciding(v) == {r \in Requests : req[r].op \in {"approved", "rejected", "timed_out"} /\ req[r].id = v}

Decide(r, v, state) ==
    /\ Pending(v)
    /\ Begin(r, [Rest EXCEPT !.op = state, !.pc = IF state = "approved" THEN "put" ELSE "row",
                             !.id = v, !.copy = review[v]])
    /\ crossed' = IF Deciding(v) # {} THEN crossed \cup {v} ELSE crossed
    /\ UNCHANGED <<long, entry, review, trouble>>

PutApproved(r) ==
    /\ At(r, "put") /\ req' = [req EXCEPT ![r].pc = "row"]
    /\ entry' = [entry EXCEPT ![req[r].copy.slot] = req[r].id]
    /\ UNCHANGED <<long, review, crossed, trouble>>

SaveReview(r) ==
    /\ At(r, "row") /\ Finish(r)
    /\ review' = [review EXCEPT ![req[r].id] = [req[r].copy EXCEPT !.state = req[r].op]]
    /\ UNCHANGED <<long, entry, crossed, trouble>>

\* The process dies.
Die(r) ==
    /\ trouble < MaxTrouble /\ trouble' = trouble + 1
    /\ req[r] # Rest /\ Finish(r)
    /\ mixed' = IF req[r].op = "save" THEN mixed \cup {req[r].key} ELSE mixed
    /\ crossed' = IF req[r].pc = "row" THEN crossed \cup {req[r].id} ELSE crossed
    /\ UNCHANGED <<rec, kept, forgotten, entry, review>>

-----------------------------------------------------------------------------
Next == \/ \E i \in Ids : Propose(i) \/ Forget(i)
        \/ \E s \in Slots : Put(s) \/ Drop(s) \/ \E v \in Reviews : PutHeld(s, v)
        \/ \E r \in Requests :
              \/ \E k \in Keys, named \in SUBSET {i \in Ids : rec[i].status = "active"} :
                     Save(r, k, named)
              \/ \E i \in Ids, verdict \in {"active", "rejected"} : ReviewRecord(r, i, verdict)
              \/ \E v \in Reviews, state \in {"approved", "rejected", "timed_out"} : Decide(r, v, state)
              \/ SaveWrite(r) \/ SaveForget(r) \/ UpdateStatus(r)
              \/ PutApproved(r) \/ SaveReview(r) \/ Die(r)

Spec == Init /\ [][Next]_vars

-----------------------------------------------------------------------------
\* What was forgotten is never readable again, whatever reviewers and agents
\* were doing with the record at the time.
ForgottenIsEmpty == \A i \in forgotten : ~rec[i].text

\* A fact an agent has saved stays remembered until a person takes it back:
\* saves that supersede one another, and saves that stop, leave a record of it.
FactIsKept == \A k \in kept : Active(k) # {}

\* There is one record of a fact, unless its saves overlapped or stopped.
OneRecordPerFact == \A k \in Keys \ mixed : Saving(k) = {} => Cardinality(Active(k)) <= 1

\* What a reviewer has refused, or left until its time was up, is no entry of
\* the run, unless two decisions overlapped or one stopped half way.
RefusedStaysOut == \A v \in Reviews \ crossed : \A s \in Slots :
    entry[s] = v => review[v].state = "approved" \/ Deciding(v) # {}
=============================================================================
