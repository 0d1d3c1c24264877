---------------------------- MODULE EngineSessions ----------------------------
(***************************************************************************)
(* The session a run has with an agent engine (agent_engines/service.py,     *)
(* agent_engines/repository.py, agent/runtime.py).  A remote engine emits    *)
(* numbered events; a refresh fetches those after the session's cursor and   *)
(* copies the new rows of the session's log into the run's history.          *)
(* Requests and workers overlap, answers get lost and processes die between  *)
(* any two writes; every save writes the whole session row as it was read.   *)
(* The native engine has no remote side.                                     *)
(***************************************************************************)
EXTENDS Naturals, Sequences, FiniteSets

CONSTANTS Native,      \* the connection's engine type is "native"
          Requests,
          MaxEvents,   \* events the remote engine emits
          MaxStarted,  \* requests made
          MaxTrouble   \* answers lost and processes dead

None == "none"

VARIABLES active,   \* the connection's status
          row,      \* the session row: status, cursor into the engine's events, rows synced
          remote,   \* the engine: status of its session, events emitted, status last answered
          log,      \* agent_engine_events of the session, by sequence
          history,  \* what of it was appended to the run's events
          run,      \* the run's status
          req,      \* what each request is doing
          started,
          crossed,  \* two requests overlapped, one stopped half-way, or the run was cancelled
          trouble

vars == <<active, row, remote, log, history, run, req, started, crossed, trouble>>

NoRow == [status |-> None, cursor |-> 0, sync |-> 0]
Idle == [op |-> None, pc |-> None, row |-> NoRow, batch |-> <<>>, to |-> 0, seq |-> 0, synced |-> 0]

Init == /\ active = TRUE /\ row = NoRow
        /\ remote = [status |-> None, emitted |-> 0, told |-> None]
        /\ log = <<>> /\ history = <<>> /\ run = "queued"
        /\ req = [p \in Requests |-> Idle] /\ started = 0 /\ crossed = FALSE /\ trouble = 0

Stream(i) == <<"stream", i>>
Own(e) == <<"own", e>>          \* an event Taroai adds itself

Begin(p) == /\ req[p] = Idle /\ started < MaxStarted /\ started' = started + 1
            /\ crossed' = (crossed \/ \E q \in Requests : req[q] # Idle)
At(p, pc) == /\ req[p].pc = pc /\ started' = started /\ crossed' = crossed
Trouble == trouble < MaxTrouble /\ trouble' = trouble + 1
Go(p, pc) == req' = [req EXCEPT ![p].pc = pc]

\* While events are left they are ingested.  Then the cursor moves if the
\* engine had news, and the run is synced; a failed start ends here, a native
\* operation saves its status and a native turn has none to save.
Ingested(r) ==
    CASE r.batch # <<>> -> [r EXCEPT !.pc = "ingest"]
      [] r.batch = <<>> /\ r.op = "failure" -> Idle
      [] r.batch = <<>> /\ r.op = "turn" /\ Native -> Idle
      [] r.batch = <<>> /\ r.op \in {"cancel", "resume"} /\ Native -> [r EXCEPT !.pc = "save"]
      [] r.batch = <<>> /\ r.op = "refresh" /\ r.to # r.row.cursor -> [r EXCEPT !.pc = "cursor"]
      [] OTHER -> [r EXCEPT !.pc = "list"]

-----------------------------------------------------------------------------
\* start_session, of an endpoint or of a worker, which marks the run running first.
StartSession(p, worker) ==
    /\ Begin(p) /\ row.status = None /\ active
    /\ row' = [row EXCEPT !.status = "starting"]
    /\ run' = IF worker THEN "running" ELSE run
    /\ req' = [req EXCEPT ![p] = [Idle EXCEPT !.op = "start", !.row = row',
                                              !.pc = IF Native THEN "save" ELSE "create"]]
    /\ UNCHANGED <<active, remote, log, history, trouble>>

\* The engine's answer gives the status, and perhaps an event of its own.
CreateRemote(p) ==
    /\ At(p, "create") /\ remote' = [remote EXCEPT !.status = "running", !.told = "running"]
    /\ \E batch \in {<<>>, <<Own("created")>>} :
         req' = [req EXCEPT ![p].pc = "save", ![p].batch = batch]
    /\ UNCHANGED <<active, row, log, history, run, trouble>>

SaveCreated(p) ==
    /\ At(p, "save") /\ req[p].op = "start"
    /\ row' = [req[p].row EXCEPT !.status = "running"]
    /\ req' = [req EXCEPT ![p] = Ingested([@ EXCEPT !.row = row',
                                           !.batch = IF Native THEN <<Own("started")>> ELSE @])]
    /\ UNCHANGED <<active, remote, log, history, run, trouble>>

\* Whatever goes wrong with a remote engine's start is written down as a
\* failed session and an event; the engine's own session goes on.
SaveFailed(p) ==
    /\ At(p, "failed") /\ row' = [req[p].row EXCEPT !.status = "failed"]
    /\ req' = [req EXCEPT ![p] = [@ EXCEPT !.op = "failure", !.pc = "ingest", !.row = row',
                                           !.batch = <<Own("failed")>>]]
    /\ UNCHANGED <<active, remote, log, history, run, trouble>>

-----------------------------------------------------------------------------
\* operation: turns, steering and approvals do not change the engine's status,
\* cancel and resume do.
After == [turn |-> remote.status, cancel |-> "cancelled", resume |-> "running"]

Operation(p, op) ==
    /\ Begin(p) /\ row.status # None
    /\ req' = [req EXCEPT ![p] = [Idle EXCEPT !.op = op, !.row = row,
                                              !.batch = IF Native THEN <<Own(op)>> ELSE <<>>,
                                              !.pc = IF Native THEN "ingest" ELSE "call"]]
    /\ UNCHANGED <<active, row, remote, log, history, run, trouble>>

CallRemote(p) ==
    /\ At(p, "call")
    /\ IF remote.status = None THEN req' = [req EXCEPT ![p] = Idle] /\ remote' = remote
       ELSE /\ remote' = [remote EXCEPT !.status = After[req[p].op], !.told = After[req[p].op]]
            /\ req' = [req EXCEPT ![p].pc = "save", ![p].row.status = After[req[p].op]]
    /\ UNCHANGED <<active, row, log, history, run, trouble>>

SaveStatus(p) ==
    /\ At(p, "save") /\ req[p].op # "start"
    /\ row' = [req[p].row EXCEPT !.status = IF Native THEN After[req[p].op] ELSE @]
    /\ req' = [req EXCEPT ![p] = IF Native THEN Idle ELSE Ingested([@ EXCEPT !.row = row'])]
    /\ UNCHANGED <<active, remote, log, history, run, trouble>>

\* refresh_events, of an endpoint or of a worker that goes on with the run.
Refresh(p) ==
    /\ Begin(p) /\ row.status # None
    /\ req' = [req EXCEPT ![p] = [Idle EXCEPT !.op = "refresh", !.row = row,
                                              !.pc = IF Native THEN "list" ELSE "get"]]
    /\ UNCHANGED <<active, row, remote, log, history, run, trouble>>

MutFetched(c) == [i \in 1..(remote.emitted - c - 1) |-> Stream(c + i + 1)]
Fetched(c) == [i \in 1..(remote.emitted - c) |-> Stream(c + i)]

GetEvents(p) ==
    LET c == req[p].row.cursor IN
    /\ At(p, "get")
    /\ req' = [req EXCEPT ![p] = IF remote.status = None THEN Idle
                                 ELSE Ingested([@ EXCEPT !.to = remote.emitted, !.batch = Fetched(c)])]
    /\ UNCHANGED <<active, row, remote, log, history, run, trouble>>

-----------------------------------------------------------------------------
\* _event: the number is one more than the rows there are; the row is refused
\* when another request has taken the number.
NextSequence == Len(log) + 1

CountEvents(p) ==
    /\ At(p, "ingest")
    /\ req' = [req EXCEPT ![p].pc = "append", ![p].seq = NextSequence]
    /\ UNCHANGED <<active, row, remote, log, history, run, trouble>>

Refused(p) == IF req[p].op = "start" /\ ~Native THEN [req[p] EXCEPT !.pc = "failed"] ELSE Idle

AppendEvent(p) ==
    /\ At(p, "append")
    /\ IF req[p].seq = NextSequence
         THEN /\ log' = Append(log, Head(req[p].batch))
              /\ req' = [req EXCEPT ![p] = Ingested([@ EXCEPT !.batch = Tail(@)])]
         ELSE log' = log /\ req' = [req EXCEPT ![p] = Refused(p)]
    /\ UNCHANGED <<active, row, remote, history, run, trouble>>

SaveCursor(p) ==
    /\ At(p, "cursor") /\ row' = [req[p].row EXCEPT !.cursor = req[p].to]
    /\ req' = [req EXCEPT ![p].pc = "list", ![p].row = row']
    /\ UNCHANGED <<active, remote, log, history, run, trouble>>

-----------------------------------------------------------------------------
\* _sync_run: the rows after the last one synced, one by one; then the run's
\* status, whatever it is by now; then how far it got.
ListEvents(p) ==
    /\ At(p, "list")
    /\ req' = [req EXCEPT ![p].pc = "sync", ![p].synced = req[p].row.sync,
                          ![p].batch = SubSeq(log, req[p].row.sync + 1, Len(log))]
    /\ UNCHANGED <<active, row, remote, log, history, run, trouble>>

AppendRunEvent(p) ==
    /\ At(p, "sync") /\ req[p].batch # <<>>
    /\ history' = Append(history, Head(req[p].batch))
    /\ req' = [req EXCEPT ![p].batch = Tail(@), ![p].synced = @ + 1]
    /\ UNCHANGED <<active, row, remote, log, run, trouble>>

StatusMap == [running |-> "running", waiting_approval |-> "awaiting_approval",
              completed |-> "succeeded", failed |-> "failed", cancelled |-> "cancelled"]

MutRunStatus(s) == IF run \in {"succeeded", "failed", "cancelled"} \/ s \notin DOMAIN StatusMap
                     THEN run ELSE StatusMap[s]
RunStatus(s) == IF s \in DOMAIN StatusMap THEN StatusMap[s] ELSE run

UpdateRunStatus(p) ==
    /\ At(p, "sync") /\ req[p].batch = <<>> /\ run' = RunStatus(req[p].row.status) /\ Go(p, "mark")
    /\ UNCHANGED <<active, row, remote, log, history, trouble>>

MutSyncedTo(p) == req[p].row
SyncedTo(p) == [req[p].row EXCEPT !.sync = req[p].synced]

SaveSync(p) ==
    /\ At(p, "mark")
    /\ row' = IF req[p].synced # req[p].row.sync THEN SyncedTo(p) ELSE row
    /\ req' = [req EXCEPT ![p] = Idle]
    /\ UNCHANGED <<active, remote, log, history, run, trouble>>

-----------------------------------------------------------------------------
\* The engine works on, may ask for an approval and may finish; a refresh
\* does not read its status, only the answer to an operation tells it.
EngineEmits == /\ remote.status = "running" /\ remote.emitted < MaxEvents
               /\ remote' = [remote EXCEPT !.emitted = @ + 1]
               /\ UNCHANGED <<active, row, log, history, run, req, started, crossed, trouble>>

EngineTurns == /\ remote.status = "running"
               /\ \E s \in {"waiting_approval", "completed"} : remote' = [remote EXCEPT !.status = s]
               /\ UNCHANGED <<active, row, log, history, run, req, started, crossed, trouble>>

\* An answer is lost: the engine did what it was asked.
LoseAnswer(p) ==
    /\ req[p].pc \in {"create", "call"} /\ Trouble /\ crossed' = TRUE
    /\ remote' = [remote EXCEPT !.status = IF req[p].pc = "create" THEN "running"
                                           ELSE IF @ = None THEN @ ELSE After[req[p].op]]
    /\ req' = [req EXCEPT ![p] = IF req[p].pc = "create" THEN [@ EXCEPT !.pc = "failed"] ELSE Idle]
    /\ UNCHANGED <<active, row, log, history, run, started>>

Die(p) == /\ req[p] # Idle /\ Trouble /\ crossed' = TRUE /\ req' = [req EXCEPT ![p] = Idle]
          /\ UNCHANGED <<active, row, remote, log, history, run, started>>

UpdateConnection == /\ active' = ~active /\ started < MaxStarted /\ started' = started + 1
                    /\ UNCHANGED <<row, remote, log, history, run, req, crossed, trouble>>

\* Cancelling the run does not reach the engine: the next sync writes over it.
CancelRun == /\ run \in {"queued", "running"} /\ run' = "cancelled" /\ crossed' = TRUE /\ Trouble
             /\ UNCHANGED <<active, row, remote, log, history, req, started>>

Next == \/ \E p \in Requests :
             \/ \E worker \in BOOLEAN : StartSession(p, worker)
             \/ \E op \in {"turn", "cancel", "resume"} : Operation(p, op)
             \/ CreateRemote(p) \/ SaveCreated(p) \/ SaveFailed(p) \/ CallRemote(p) \/ SaveStatus(p)
             \/ Refresh(p) \/ GetEvents(p) \/ CountEvents(p) \/ AppendEvent(p)
             \/ SaveCursor(p) \/ ListEvents(p) \/ AppendRunEvent(p) \/ UpdateRunStatus(p) \/ SaveSync(p)
             \/ LoseAnswer(p) \/ Die(p)
        \/ EngineEmits \/ EngineTurns \/ UpdateConnection \/ CancelRun

Spec == Init /\ [][Next]_vars

-----------------------------------------------------------------------------
In(e, s) == \E i \in DOMAIN s : s[i] = e

\* The cursor passes no event that is not in the log, and the sync mark no row
\* that is not in the run's history, however requests overlap and wherever one
\* stops: at worst an event shows twice, none is lost.
NothingLost == /\ \A i \in 1..row.cursor : In(Stream(i), log)
               /\ row.sync <= Len(log)
               /\ \A i \in 1..row.sync : In(log[i], history)

\* Unless requests crossed or stopped half-way the run's history shows every
\* event of the engine once and in its order.
EventsOnce == ~crossed => /\ \A i, j \in DOMAIN history : i # j /\ history[i][1] = "stream" => history[i] # history[j]
                          /\ \A i, j \in DOMAIN history :
                                history[i][1] = "stream" /\ history[j][1] = "stream" /\ i < j
                                    => history[i][2] < history[j][2]

\* When nothing is in flight, and unless requests crossed, stopped half-way or
\* the run was cancelled past the engine, the session has the status the
\* engine answered last and the run the one that follows from it.
StatusAgrees == ~crossed /\ ~Native /\ row.status # None /\ (\A p \in Requests : req[p] = Idle)
                    => row.status = remote.told /\ run = StatusMap[remote.told]
=============================================================================
