----------------------------- MODULE EventTriggers -----------------------------
(***************************************************************************)
(* Triggers that the outside pulls (triggers/service.py, events.py, app.py): *)
(* a signed webhook with a delivery id, an event of a connector that starts  *)
(* a run for every trigger it matches, a call of the API, and a hand-off     *)
(* from another run.  Meanwhile people enable, disable and delete triggers.  *)
(***************************************************************************)
EXTENDS Naturals, FiniteSets

CONSTANTS Kind,       \* of each trigger: "webhook", "event" or "handoff"
          Deliveries, \* delivery ids of webhooks, external ids of events
          Requests, MaxRuns, MaxTrouble

Triggers == DOMAIN Kind
None == "none"

VARIABLES status,   \* of the triggers
          runs,     \* runs made for a trigger and a delivery
          saved,    \* deliveries whose response is kept for replay
          req,
          told,     \* events that were answered, with the triggers that matched
          crossed,  \* deliveries two attempts at which overlapped, or one stopped
          quiet,    \* triggers disabled with no request past its check: runs so far
          trouble

vars == <<status, runs, saved, req, told, crossed, quiet, trouble>>

Cells == Triggers \X (Deliveries \cup {None})  \* None: invoked by a person or a run
Rest == [op |-> None, pc |-> None, d |-> None, todo |-> {}, matched |-> {}, t |-> None]
Loud == [known |-> FALSE, runs |-> <<>>]
Cap(r) == IF req[r].d = None THEN 1 ELSE MaxRuns   \* bound of the model
RunsOf(t) == [d \in Deliveries \cup {None} |-> runs[<<t, d>>]]

Init == /\ status = [t \in Triggers |-> "enabled"] /\ runs = [c \in Cells |-> 0]
        /\ saved = {} /\ req = [r \in Requests |-> Rest]
        /\ told = {} /\ crossed = {}
        /\ quiet = [t \in Triggers |-> Loud] /\ trouble = 0

At(r, pc) == req[r].pc = pc
Cell(r) == <<req[r].t, req[r].d>>
Begin(r, record) == req[r] = Rest /\ req' = [req EXCEPT ![r] = record]
Finish(r) == req' = [req EXCEPT ![r] = Rest]
About(t, d) == {r \in Requests : req[r].op # None /\ req[r].d = d /\ t \in req[r].todo \cup {req[r].t}}
Passed(t) == {r \in Requests : req[r].t = t /\ req[r].pc \in {"run", "save"}}
state == <<status, quiet>>

-----------------------------------------------------------------------------
\* A webhook looks for the response of its delivery before it does anything.
MutReplayed(t, d) == FALSE
Replayed(t, d) == <<t, d>> \in saved

Webhook(r, t, d) ==
    /\ Kind[t] = "webhook"
    /\ IF Replayed(t, d)
         THEN req[r] = Rest /\ UNCHANGED <<req, crossed>>
         ELSE /\ Begin(r, [Rest EXCEPT !.op = "webhook", !.pc = "check", !.d = d, !.t = t])
              /\ crossed' = IF About(t, d) # {} THEN crossed \cup {<<t, d>>} ELSE crossed
    /\ UNCHANGED <<state, runs, saved, told, trouble>>

\* ingest_connector_event takes every enabled trigger that matches ...
ConnectorEvent(r, d) ==
    LET matched == {t \in Triggers : Kind[t] = "event" /\ status[t] = "enabled"} IN
    /\ Begin(r, [Rest EXCEPT !.op = "event", !.pc = "next", !.d = d, !.todo = matched, !.matched = matched])
    /\ UNCHANGED <<state, runs, saved, told, crossed, trouble>>

\* ... and makes their runs one after the other.
NextMatch(r) ==
    /\ At(r, "next") /\ req[r].todo # {}
    /\ \E t \in req[r].todo :
          req' = [req EXCEPT ![r].pc = "check", ![r].t = t, ![r].todo = @ \ {t}]
    /\ UNCHANGED <<state, runs, saved, told, crossed, trouble>>

AnswerEvent(r) ==
    /\ At(r, "next") /\ req[r].todo = {} /\ Finish(r)
    /\ told' = told \cup {<<req[r].d, req[r].matched>>}
    /\ UNCHANGED <<state, runs, saved, crossed, trouble>>

\* invoke_trigger starts any trigger; a hand-off only one of its kind, once
\* assert_agent_handoff_allowed agrees.
Invoke(r, t, op) ==
    /\ op = "handoff" => Kind[t] = "handoff"
    /\ Begin(r, [Rest EXCEPT !.op = op, !.pc = "check", !.t = t])
    /\ UNCHANGED <<state, runs, saved, told, crossed, trouble>>

\* build_run_request: a trigger that is disabled or gone ends the request.
MutStarts(t) == status[t] # "deleted"
Starts(t) == status[t] = "enabled"
MutRefusedRun(r) == IF req[r].op = "event" THEN req' = [req EXCEPT ![r].pc = "next", ![r].t = None]
                                        ELSE Finish(r)
RefusedRun(r) == Finish(r)

BuildRunRequest(r) ==
    /\ At(r, "check")
    /\ IF Starts(req[r].t) THEN req' = [req EXCEPT ![r].pc = "run"] ELSE RefusedRun(r)
    /\ UNCHANGED <<state, runs, saved, told, crossed, trouble>>

\* The run, its audit event and its meter.  A webhook then keeps its response,
\* an event goes on with its next trigger, the others are done.
CreateRun(r) ==
    /\ At(r, "run") /\ runs[Cell(r)] < Cap(r) /\ runs' = [runs EXCEPT ![Cell(r)] = @ + 1]
    /\ CASE req[r].op = "webhook" -> req' = [req EXCEPT ![r].pc = "save"]
         [] req[r].op = "event" -> req' = [req EXCEPT ![r].pc = "next", ![r].t = None]
         [] OTHER -> Finish(r)
    /\ UNCHANGED <<state, saved, told, crossed, trouble>>

SaveResponse(r) ==
    /\ At(r, "save") /\ saved' = saved \cup {Cell(r)} /\ Finish(r)
    /\ UNCHANGED <<state, runs, told, crossed, trouble>>

Die(r) ==
    /\ req[r] # Rest /\ trouble < MaxTrouble /\ trouble' = trouble + 1 /\ Finish(r)
    /\ crossed' = crossed \cup (IF req[r].op = "webhook" THEN {Cell(r)} ELSE {})
    /\ UNCHANGED <<state, runs, saved, told>>

-----------------------------------------------------------------------------
SetStatus(t, s) ==
    /\ status' = [status EXCEPT ![t] = s]
    /\ quiet' = [quiet EXCEPT ![t] = IF s # "enabled" /\ Passed(t) = {}
                                       THEN [known |-> TRUE, runs |-> RunsOf(t)] ELSE Loud]
    /\ UNCHANGED <<runs, saved, told, crossed, trouble>>

Disable(t) == status[t] = "enabled" /\ SetStatus(t, "disabled") /\ UNCHANGED req
Enable(t) == status[t] = "disabled" /\ SetStatus(t, "enabled") /\ UNCHANGED req

\* delete_trigger sees that it is disabled, and deletes it in a second step.
AskDelete(r, t) ==
    /\ status[t] = "disabled"
    /\ Begin(r, [Rest EXCEPT !.op = "delete", !.pc = "delete", !.t = t])
    /\ UNCHANGED <<state, runs, saved, told, crossed, trouble>>
Delete(r) == At(r, "delete") /\ SetStatus(req[r].t, "deleted") /\ Finish(r)

-----------------------------------------------------------------------------
Next == \/ \E r \in Requests :
              \/ \E t \in Triggers, d \in Deliveries : Webhook(r, t, d)
              \/ \E t \in Triggers, op \in {"invoke", "handoff"} : Invoke(r, t, op)
              \/ \E d \in Deliveries : ConnectorEvent(r, d)
              \/ \E t \in Triggers : AskDelete(r, t)
              \/ NextMatch(r) \/ AnswerEvent(r) \/ BuildRunRequest(r) \/ CreateRun(r)
              \/ SaveResponse(r) \/ Delete(r) \/ Die(r)
        \/ \E t \in Triggers : Disable(t) \/ Enable(t)

Spec == Init /\ [][Next]_vars

-----------------------------------------------------------------------------
\* A delivery that is sent again makes no second run, unless two attempts at
\* it overlapped or one stopped before its response was kept.
WebhookRunsOnce == \A t \in Triggers, d \in Deliveries :
    Kind[t] = "webhook" /\ <<t, d>> \notin crossed => runs[<<t, d>>] <= 1

\* An event that was accepted has a run for every trigger it matched.
EventIsComplete == \A e \in told : \A t \in e[2] : runs[<<t, e[1]>>] > 0

\* A trigger disabled while no request was past its check makes no more runs
\* until it is enabled again, whatever was matched or read before.
NothingAfterDisable == \A t \in Triggers : quiet[t].known => RunsOf(t) = quiet[t].runs
=============================================================================
