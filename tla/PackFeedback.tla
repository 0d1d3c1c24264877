---------------------------- MODULE PackFeedback ----------------------------
(***************************************************************************)
(* Customer feedback that changes a solution pack (customer_success/         *)
(* repository.py, feedback.py): repeated feedback becomes a candidate, an    *)
(* accepted candidate a draft, and an approved draft a new version of the    *)
(* pack.  Low-rated runs become candidates for evaluation cases in the same  *)
(* way.  Requests read a record, decide, and write the whole record back.    *)
(***************************************************************************)
EXTENDS Naturals, FiniteSets

CONSTANTS Gaps,       \* what customers complain about
          CaseGaps,   \* those that are low-rated runs
          Needed,     \* feedback a candidate takes
          Ids,        \* ids of candidates, and of their drafts
          Proposals,  \* contents a draft may have: [ver, skills]
          Requests,
          MaxTrouble  \* requests that stop half way

VARIABLES feedback,   \* how often each gap was reported
          cand,       \* candidates
          draft,      \* drafts and evaluation cases
          pack,       \* current entry of the solution pack
          released,   \* versions of the pack
          approved,   \* contents a reviewer has approved
          overlap,    \* some drafts were applied at the same time
          crossed,    \* candidates two reviews of which overlapped
          req, trouble

vars == <<feedback, cand, draft, pack, released, approved, overlap, crossed, req, trouble>>

None == "none"
Blank == [ver |-> 0, skills |-> {}]
NoCand == [gap |-> None, status |-> None, draft |-> 0, applied |-> FALSE]
NoDraft == [of |-> 0, status |-> None, content |-> Blank]
Rest == [op |-> None, pc |-> None, id |-> 0, gap |-> None, cand |-> NoCand,
         draft |-> NoDraft, new |-> Blank]

Init == /\ feedback = [g \in Gaps |-> 0]
        /\ cand = [i \in Ids |-> NoCand] /\ draft = [i \in Ids |-> NoDraft]
        /\ pack = [ver |-> 1, skills |-> {}, status |-> "published"]
        /\ released = {1} /\ approved = {} /\ overlap = FALSE /\ crossed = {}
        /\ req = [r \in Requests |-> Rest] /\ trouble = 0

Finish(r) == req' = [req EXCEPT ![r] = Rest]
Begin(r, record) == req[r] = Rest /\ req' = [req EXCEPT ![r] = record]
Applying(r) == req[r].pc \in {"register", "publish", "save"}

-----------------------------------------------------------------------------
\* capture_feedback.
Report(g) ==
    /\ feedback[g] < Needed
    /\ feedback' = [feedback EXCEPT ![g] = @ + 1]
    /\ UNCHANGED <<cand, draft, pack, released, approved, overlap, crossed, req, trouble>>

\* A candidate for a gap that has been reported often enough and has none.
Wanted(g) == /\ feedback[g] >= (IF g \in CaseGaps THEN 1 ELSE Needed)
             /\ \A i \in Ids : cand[i].gap # g

Propose(r, g) ==
    /\ Wanted(g)
    /\ Begin(r, [Rest EXCEPT !.op = "propose", !.pc = "create", !.gap = g])
    /\ UNCHANGED <<feedback, cand, draft, pack, released, approved, overlap, crossed, trouble>>

Create(r) ==
    /\ req[r].pc = "create"
    /\ \E i \in Ids : /\ cand[i] = NoCand
                      /\ cand' = [cand EXCEPT ![i] = [NoCand EXCEPT !.gap = req[r].gap,
                                                                    !.status = "pending"]]
    /\ Finish(r)
    /\ UNCHANGED <<feedback, draft, pack, released, approved, overlap, crossed, trouble>>

\* A review reads the candidate, whatever was decided about it before.
Review(r, i, verdict) ==
    /\ cand[i] # NoCand
    /\ Begin(r, [Rest EXCEPT !.op = verdict, !.pc = "draft", !.id = i, !.cand = cand[i]])
    /\ crossed' = crossed \cup
           {j \in {i} : \E q \in Requests : req[q].op \in {"accept", "reject"} /\ req[q].id = i}
    /\ UNCHANGED <<feedback, cand, draft, pack, released, approved, overlap, trouble>>

\* An accepted one keeps its draft or gets one, a rejected one loses it.
MutDropDraft(d) == UNCHANGED draft
DropDraft(d) == IF d = 0 THEN UNCHANGED draft ELSE draft' = [draft EXCEPT ![d] = NoDraft]

Named(d) == \/ \E i \in Ids : cand[i].draft = d
            \/ \E r \in Requests : req[r].cand.draft = d \/ (req[r].id = d /\ req[r].draft # NoDraft)

EnsureDraft(r) ==
    LET old == req[r].cand.draft
    IN  IF old # 0 /\ draft[old] # NoDraft
        THEN UNCHANGED draft /\ req' = [req EXCEPT ![r].pc = "candidate"]
        ELSE \E d \in IF old # 0 THEN {old} ELSE {i \in Ids : draft[i] = NoDraft /\ ~Named(i)} :
                 /\ draft' = [draft EXCEPT ![d] = [of |-> req[r].id, status |-> "draft",
                                                   content |-> Blank]]
                 /\ req' = [req EXCEPT ![r].pc = "candidate", ![r].cand.draft = d]

ReviewDraft(r) ==
    /\ req[r].pc = "draft"
    /\ IF req[r].op = "accept"
       THEN EnsureDraft(r)
       ELSE /\ DropDraft(req[r].cand.draft)
            /\ req' = [req EXCEPT ![r].pc = "candidate", ![r].cand.draft = 0]
    /\ UNCHANGED <<feedback, cand, pack, released, approved, overlap, crossed, trouble>>

ReviewCandidate(r) ==
    /\ req[r].pc = "candidate"
    /\ cand' = [cand EXCEPT ![req[r].id] =
                    [req[r].cand EXCEPT !.status = req[r].op, !.applied = FALSE]]
    /\ Finish(r)
    /\ UNCHANGED <<feedback, draft, pack, released, approved, overlap, crossed, trouble>>

-----------------------------------------------------------------------------
\* A request reads a draft of a pack change in one of these states.
Read(r, op, pc, d, states, new) ==
    /\ draft[d].status \in states /\ cand[draft[d].of].gap \notin CaseGaps
    /\ Begin(r, [Rest EXCEPT !.op = op, !.pc = pc, !.id = d, !.draft = draft[d], !.new = new])

Edit(r, d, content) ==
    /\ Read(r, "edit", "write", d, {"draft", "rejected"}, content)
    /\ UNCHANGED <<feedback, cand, draft, pack, released, approved, overlap, crossed, trouble>>

Submit(r, d) ==
    /\ Read(r, "in_review", "write", d, {"draft", "rejected"}, Blank)
    /\ UNCHANGED <<feedback, cand, draft, pack, released, approved, overlap, crossed, trouble>>

Decide(r, d, verdict) ==
    /\ Read(r, verdict, "write", d, {"in_review"}, Blank)
    /\ UNCHANGED <<feedback, cand, draft, pack, released, approved, overlap, crossed, trouble>>

\* _save_solution_pack_publication_draft: the whole row, if it is still there.
Save(d, record) == draft' = IF draft[d] = NoDraft THEN draft ELSE [draft EXCEPT ![d] = record]

WriteDraft(r) ==
    LET d == req[r].id   old == req[r].draft
    IN  /\ req[r].pc = "write"
        /\ Save(d, IF req[r].op = "edit" THEN [old EXCEPT !.content = req[r].new]
                   ELSE [old EXCEPT !.status = req[r].op])
        /\ approved' = IF req[r].op = "approved" THEN approved \cup {old.content} ELSE approved
        /\ Finish(r)
        /\ UNCHANGED <<feedback, cand, pack, released, overlap, crossed, trouble>>

\* apply reads the approved draft and builds its manifest on the current one.
MutApplicable == {"in_review", "approved"}
Applicable == {"approved"}
MutMerged(d) == draft[d].content.skills
Merged(d) == pack.skills \cup draft[d].content.skills

Apply(r, d) ==
    /\ draft[d].content # Blank /\ draft[d].content.ver # pack.ver
    /\ Read(r, "apply", "register", d, Applicable,
            [ver |-> draft[d].content.ver, skills |-> Merged(d)])
    /\ overlap' = (overlap \/ \E q \in Requests : Applying(q))
    /\ UNCHANGED <<feedback, cand, draft, pack, released, approved, crossed, trouble>>

\* register_for_tenant refuses a version the pack has had.
Refused(ver) == ver \in released

RegisterPack(r) ==
    LET new == req[r].new
    IN  /\ req[r].pc = "register"
        /\ IF Refused(new.ver)
           THEN Finish(r) /\ UNCHANGED <<pack, released>>
           ELSE /\ released' = released \cup {new.ver}
                /\ pack' = [ver |-> new.ver, skills |-> new.skills, status |-> "draft"]
                /\ req' = [req EXCEPT ![r].pc = "publish"]
        /\ UNCHANGED <<feedback, cand, draft, approved, overlap, crossed, trouble>>

PublishPack(r) ==
    /\ req[r].pc = "publish"
    /\ pack' = [pack EXCEPT !.status = "published"]
    /\ req' = [req EXCEPT ![r].pc = "save"]
    /\ UNCHANGED <<feedback, cand, draft, released, approved, overlap, crossed, trouble>>

\* The draft, then _mark_solution_pack_candidate_applied.
SaveApplied(r) ==
    /\ req[r].pc = "save"
    /\ Save(req[r].id, [req[r].draft EXCEPT !.status = "applied"])
    /\ req' = [req EXCEPT ![r].pc = "mark"]
    /\ UNCHANGED <<feedback, cand, pack, released, approved, overlap, crossed, trouble>>

MarkApplied(r) ==
    /\ req[r].pc = "mark"
    /\ cand' = [cand EXCEPT ![req[r].draft.of].applied = TRUE]
    /\ Finish(r)
    /\ UNCHANGED <<feedback, draft, pack, released, approved, overlap, crossed, trouble>>

\* The process dies between two transactions of a request.
Stop(r) ==
    /\ trouble < MaxTrouble /\ trouble' = trouble + 1
    /\ req[r] # Rest /\ Finish(r)
    /\ crossed' = crossed \cup {i \in {req[r].id} : req[r].pc = "candidate"}
    /\ UNCHANGED <<feedback, cand, draft, pack, released, approved, overlap>>

-----------------------------------------------------------------------------
Next == \/ \E g \in Gaps : Report(g)
        \/ \E r \in Requests, g \in Gaps : Propose(r, g)
        \/ \E r \in Requests, i \in Ids :
              \/ \E verdict \in {"accept", "reject"} : Review(r, i, verdict)
              \/ \E content \in Proposals : Edit(r, i, content)
              \/ Submit(r, i)
              \/ \E verdict \in {"approved", "rejected"} : Decide(r, i, verdict)
              \/ Apply(r, i)
        \/ \E r \in Requests : \/ Create(r) \/ ReviewDraft(r) \/ ReviewCandidate(r)
                               \/ WriteDraft(r) \/ RegisterPack(r) \/ PublishPack(r)
                               \/ SaveApplied(r) \/ MarkApplied(r) \/ Stop(r)

Spec == Init /\ [][Next]_vars

-----------------------------------------------------------------------------
\* Every skill that feedback has brought into the pack was in a proposal as a
\* reviewer approved it, whatever was edited in the meantime.
ShippedWasApproved == \A s \in pack.skills : \E c \in approved : s \in c.skills

\* A draft that says it was applied is a version the pack has had, and unless
\* drafts were applied at the same time the pack still has what it brought.
AppliedIsShipped == \A d \in Ids : draft[d].status = "applied" =>
    /\ draft[d].content.ver \in released
    /\ overlap \/ draft[d].content.skills \subseteq pack.skills

\* A rejected candidate leaves no draft behind that could still be applied,
\* and an accepted one has its draft, unless two reviews of it crossed.
VerdictHasRecord == \A i \in Ids \ crossed :
    (\A r \in Requests : req[r].op \notin {"accept", "reject"} \/ req[r].id # i) =>
        /\ cand[i].status = "reject" => \A d \in Ids : draft[d].of # i
        /\ cand[i].status = "accept" => draft[cand[i].draft].of = i
=============================================================================
