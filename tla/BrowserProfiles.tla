---------------------------- MODULE BrowserProfiles ----------------------------
(***************************************************************************)
(* Browser profiles: a workspace keeps the cookies and storage of a        *)
(* browser in a profile, as a secret.  A session opened with a profile     *)
(* starts from the profile's state; closing the session exports the state  *)
(* of the browser, saves it in the profile, deletes the session at the     *)
(* browser service and only then marks its record closed.                  *)
(*                                                                         *)
(* The requests run in several processes of the API and the worker.  The   *)
(* registry has one transaction per call, and update_profile reads the row *)
(* in one and writes the whole row in another.  The browser service is a   *)
(* process of its own whose operations run one at a time on one thread; it *)
(* drops expired sessions at the next request and all of them when it is   *)
(* restarted.  A state is the set of the sessions whose work it holds.     *)
(***************************************************************************)
EXTENDS Naturals, FiniteSets

CONSTANTS Profiles,     \* profiles of one workspace
          Sessions,     \* session ids, each used once
          Requests,     \* requests in flight
          MaxSessions,  \* limit of the browser service
          Exports,      \* the service answers GET /sessions/{id}/state
          MaxStarted,   \* requests in all, a bound
          MaxTrouble    \* crashes, lost answers, expiries, restarts

VARIABLES prof,       \* the rows of the profiles
          vault,      \* the values of the secrets, by the session whose close created them
          rec,        \* the rows of the sessions
          ctx,        \* the sessions of the browser service
          req,        \* the requests
          saved,      \* sessions whose state has reached the vault
          mixed,      \* profiles whose states or rows crossed
          settled,    \* profiles disabled by the endpoint with no opening in flight
          refused,    \* sessions the service held whose closing it refused
          started, trouble

vars == <<prof, vault, rec, ctx, req, saved, mixed, settled, refused, started, trouble>>

None == "none"
Idle == [op |-> "idle"]

\* A row that was not read yet
NoRow == [secret |-> None]

Init ==
    /\ prof = [p \in Profiles |-> [on |-> TRUE, secret |-> None]]
    /\ vault = [k \in Sessions |-> {}]
    /\ rec = [s \in Sessions |-> [p |-> None, status |-> "new"]]
    /\ ctx = [s \in Sessions |-> [up |-> FALSE, work |-> {}]]
    /\ req = [r \in Requests |-> Idle]
    /\ saved = {} /\ mixed = {} /\ settled = {} /\ refused = {}
    /\ started = 0 /\ trouble = 0

-----------------------------------------------------------------------------
(* Requests *)

Begin(r) ==
    /\ req[r].op = "idle"
    /\ started < MaxStarted
    /\ started' = started + 1

Busy(op, p) == {r \in Requests : req[r].op = op /\ req[r].p = p}

Goto(r, at) == req' = [req EXCEPT ![r].at = at]

\* The request ends: an answer, or an error the caller sees or swallows
End(r) == req' = [req EXCEPT ![r] = Idle]

Up == {s \in Sessions : ctx[s].up}

\* Sessions of the profile whose state may still be saved
Live(p) == {s \in Sessions : rec[s].p = p /\ ctx[s].up}

-----------------------------------------------------------------------------
(* Opening *)

\* Mutant: the state of the profile is not loaded into the new browser.
MutStartState(p) == {}

\* The state a session with this profile starts from, read by a lease bound to
\* the session
StartState(p) ==
    IF p = None \/ prof[p].secret = None THEN {} ELSE vault[prof[p].secret]

\* Another request is disabling the profile
Disabling(q, p) == req[q].op \in {"close", "disable"} /\ req[q].of = p

\* The profile asked for, or the workspace's active default, or none
Usable(p) == p # None => prof[p].on

\* Ids no session and no opening has
Unused ==
    {s \in Sessions : /\ rec[s].status = "new" /\ ~ctx[s].up
                      /\ \A q \in Requests : req[q].op = "open" => req[q].s # s}

\* POST /api/browser/profiles/{id}/sessions, or the first browser step of a
\* run: the profile is active.  A run without a profile may start empty.
OpenSession(r, p) ==
    /\ Begin(r) /\ Unused # {}
    /\ Usable(p)
    /\ req' = [q \in Requests |->
                IF q = r THEN [op |-> "open", at |-> "capacity", p |-> p,
                               s |-> CHOOSE s \in Unused : TRUE,
                               state |-> StartState(p)]
                ELSE IF p # None /\ Disabling(q, p) THEN [req[q] EXCEPT !.clean = FALSE]
                ELSE req[q]]
    /\ mixed' = IF p # None /\ (Live(p) # {} \/ Busy("open", p) \cup Busy("close", p) # {})
                THEN mixed \cup {p} ELSE mixed
    /\ settled' = settled \ {p}
    /\ UNCHANGED <<prof, vault, rec, ctx, saved, refused, trouble>>

\* The controller's client lists the sessions before it asks for one
CheckCapacity(r) ==
    /\ req[r].op = "open" /\ req[r].at = "capacity"
    /\ IF Cardinality(Up) < MaxSessions THEN Goto(r, "provider") ELSE End(r)
    /\ UNCHANGED <<prof, vault, rec, ctx, saved, mixed, settled, refused, started, trouble>>

\* Mutant: the service relies on the check of its clients.
MutLimitReached == FALSE

LimitReached == Cardinality(Up) >= MaxSessions

\* POST /sessions: limits and creation are one operation of the service's thread
ProviderOpen(r) ==
    /\ req[r].op = "open" /\ req[r].at = "provider"
    /\ IF LimitReached
       THEN End(r) /\ UNCHANGED ctx
       ELSE /\ ctx' = [ctx EXCEPT ![req[r].s] = [up |-> TRUE, work |-> req[r].state]]
            /\ Goto(r, "record")
    /\ UNCHANGED <<prof, vault, rec, saved, mixed, settled, refused, started, trouble>>

\* The session's row; a start page is an action of its own
RecordSession(r) ==
    /\ req[r].op = "open" /\ req[r].at = "record"
    /\ rec' = [rec EXCEPT ![req[r].s] = [p |-> req[r].p, status |-> "active"]]
    /\ End(r)
    /\ UNCHANGED <<prof, vault, ctx, saved, mixed, settled, refused, started, trouble>>

-----------------------------------------------------------------------------
(* Actions *)

\* The record is active and the address is one its profile allows
StartAction(r, s) ==
    /\ Begin(r)
    /\ rec[s].status = "active"
    /\ req' = [req EXCEPT ![r] = [op |-> "act", at |-> "apply", p |-> rec[s].p, s |-> s]]
    /\ UNCHANGED <<prof, vault, rec, ctx, saved, mixed, settled, refused, trouble>>

\* The state of the session has been exported, what follows is not saved
Exported(s) ==
    \E q \in Requests : req[q].op = "close" /\ req[q].s = s /\ req[q].at # "export"

\* A session the service no longer has is a 404
ApplyAction(r) ==
    /\ req[r].op = "act" /\ req[r].at = "apply"
    /\ IF ctx[req[r].s].up
       THEN ctx' = [ctx EXCEPT ![req[r].s].work = @ \cup {req[r].s}] /\ Goto(r, "record")
       ELSE End(r) /\ UNCHANGED ctx
    /\ mixed' = IF Exported(req[r].s) THEN mixed \cup {req[r].p} ELSE mixed
    /\ UNCHANGED <<prof, vault, rec, saved, settled, refused, started, trouble>>

\* save_session writes the status the request has read: over a close that has
\* finished meanwhile, the record is active again
RecordAction(r) ==
    /\ req[r].op = "act" /\ req[r].at = "record"
    /\ rec' = [rec EXCEPT ![req[r].s].status = "active"]
    /\ End(r)
    /\ UNCHANGED <<prof, vault, ctx, saved, mixed, settled, refused, started, trouble>>

-----------------------------------------------------------------------------
(* Closing *)

\* Where a closing starts once the record was read active
Closing(s, all, of, clean) ==
    [op |-> "close", at |-> "export", p |-> rec[s].p, s |-> s, all |-> all, of |-> of,
     clean |-> clean, state |-> {}, row |-> NoRow]

\* All sessions are closed: the row of the profile is next
ToDisable(p, clean) ==
    [op |-> "disable", at |-> "row", p |-> p, of |-> p, clean |-> clean, row |-> NoRow]

\* A record that is not active is answered as it is
CloseSession(r, s) ==
    /\ Begin(r)
    /\ rec[s].status = "active"
    /\ req' = [req EXCEPT ![r] = Closing(s, {}, None, TRUE)]
    /\ UNCHANGED <<prof, vault, rec, ctx, saved, mixed, settled, refused, trouble>>

\* get_session, then export_session_state for a session with a profile.  Either
\* is a 404 for a session the service does not have; the export is a 404 for
\* every session when the service has no such route.
ExportState(r) ==
    /\ req[r].op = "close" /\ req[r].at = "export"
    /\ LET s == req[r].s
           found == ctx[s].up /\ (req[r].p # None => Exports)
       IN /\ refused' = IF ctx[s].up /\ ~found THEN refused \cup {s} ELSE refused
          /\ CASE ~found -> End(r)
               [] found /\ req[r].p = None -> Goto(r, "delete")
               [] OTHER -> req' = [req EXCEPT ![r].at = "save", ![r].state = ctx[s].work,
                                              ![r].row = prof[req[r].p]]
    /\ UNCHANGED <<prof, vault, rec, ctx, saved, mixed, settled, started, trouble>>

\* Mutant: the state goes to the workspace's first profile.
MutTarget(r) == CHOOSE p \in Profiles : TRUE

\* The profile whose state a closing saves
Target(r) == req[r].p

\* _save_state: a new secret for a profile that had none when it was read, or a
\* new value of its secret
SaveState(r) ==
    /\ req[r].op = "close" /\ req[r].at = "save"
    /\ LET k == IF req[r].row.secret = None THEN req[r].s ELSE req[r].row.secret
       IN /\ vault' = [vault EXCEPT ![k] = req[r].state]
          /\ req' = [req EXCEPT ![r].at = "row", ![r].row = [secret |-> k]]
    /\ saved' = saved \cup {req[r].s}
    /\ UNCHANGED <<prof, rec, ctx, mixed, settled, refused, started, trouble>>

\* update_profile reads the row again, the changes go over it
ReadRow(r) ==
    /\ req[r].op = "close" /\ req[r].at = "row"
    /\ req' = [req EXCEPT ![r].at = "write",
                          ![r].row = [old |-> prof[Target(r)], secret |-> @.secret]]
    /\ UNCHANGED <<prof, vault, rec, ctx, saved, mixed, settled, refused, started, trouble>>

\* ... and writes the whole row
WriteRow(r) ==
    /\ req[r].op = "close" /\ req[r].at = "write"
    /\ prof' = [prof EXCEPT ![Target(r)] = [req[r].row.old EXCEPT !.secret = req[r].row.secret]]
    /\ mixed' = IF prof[Target(r)] # req[r].row.old THEN mixed \cup {Target(r)} ELSE mixed
    /\ settled' = IF prof[Target(r)] # req[r].row.old THEN settled \ {Target(r)} ELSE settled
    /\ Goto(r, "delete")
    /\ UNCHANGED <<vault, rec, ctx, saved, refused, started, trouble>>

\* Mutant: a deletion is taken for done whatever the service answered.
MutDeleteSession(r) ==
    /\ req[r].op = "close" /\ req[r].at = "delete"
    /\ \/ ctx' = [ctx EXCEPT ![req[r].s].up = FALSE] /\ UNCHANGED trouble
       \/ trouble < MaxTrouble /\ trouble' = trouble + 1 /\ UNCHANGED ctx
    /\ Goto(r, "record")
    /\ UNCHANGED <<prof, vault, rec, saved, mixed, settled, refused, started>>

\* DELETE, and the list of sessions read again to confirm it.  A session that
\* is gone already is a 404; an answer that is lost ends the request, with the
\* session deleted or not.
DeleteSession(r) ==
    /\ req[r].op = "close" /\ req[r].at = "delete"
    /\ \/ /\ ctx[req[r].s].up
          /\ ctx' = [ctx EXCEPT ![req[r].s].up = FALSE]
          /\ Goto(r, "record")
          /\ UNCHANGED trouble
       \/ ~ctx[req[r].s].up /\ End(r) /\ UNCHANGED <<ctx, trouble>>
       \/ /\ trouble < MaxTrouble /\ trouble' = trouble + 1
          /\ \E up \in {ctx[req[r].s].up, FALSE} :
                ctx' = [ctx EXCEPT ![req[r].s].up = up]
          /\ End(r)
    /\ UNCHANGED <<prof, vault, rec, saved, mixed, settled, refused, started>>

\* The next active session of a profile that is being disabled, or its row
AfterClose(r) ==
    LET rest == req[r].all \ {req[r].s}
    IN IF req[r].of = None THEN Idle
       ELSE IF rest = {} THEN ToDisable(req[r].of, req[r].clean)
       ELSE LET s == CHOOSE x \in rest : TRUE IN Closing(s, rest, req[r].of, req[r].clean)

RecordClosed(r) ==
    /\ req[r].op = "close" /\ req[r].at = "record"
    /\ rec' = [rec EXCEPT ![req[r].s].status = "closed"]
    /\ req' = [req EXCEPT ![r] = AfterClose(r)]
    /\ UNCHANGED <<prof, vault, ctx, saved, mixed, settled, refused, started, trouble>>

-----------------------------------------------------------------------------
(* Profiles *)

\* Mutant: the profile is disabled, its sessions are left to expire.
MutSessionsOf(p) == {}

SessionsOf(p) == {s \in Sessions : rec[s].p = p /\ rec[s].status = "active"}

\* DELETE /api/browser/profiles/{id}: the active sessions listed now are closed
\* one after the other, an error ends the request; then the profile is disabled
DisableProfile(r, p) ==
    /\ Begin(r) /\ prof[p].on
    /\ LET all == SessionsOf(p)
           clean == Busy("open", p) = {}
       IN req' = [req EXCEPT ![r] =
                    IF all = {} THEN ToDisable(p, clean)
                    ELSE Closing(CHOOSE s \in all : TRUE, all, p, clean)]
    /\ UNCHANGED <<prof, vault, rec, ctx, saved, mixed, settled, refused, trouble>>

\* PATCH of another field or of the status: the same read and write of the row
PatchProfile(r, p) ==
    /\ Begin(r)
    /\ \E on \in BOOLEAN :
          req' = [req EXCEPT ![r] = [op |-> "patch", at |-> "write", p |-> p,
                                     row |-> prof[p], on |-> on]]
    /\ UNCHANGED <<prof, vault, rec, ctx, saved, mixed, settled, refused, trouble>>

ReadToDisable(r) ==
    /\ req[r].op = "disable" /\ req[r].at = "row"
    /\ req' = [req EXCEPT ![r].at = "write", ![r].row = prof[req[r].p]]
    /\ UNCHANGED <<prof, vault, rec, ctx, saved, mixed, settled, refused, started, trouble>>

\* A session whose opening was in flight, or began after the listing, is not
\* closed by the disabling
WriteProfile(r) ==
    /\ req[r].op \in {"disable", "patch"} /\ req[r].at = "write"
    /\ LET p == req[r].p
           on == req[r].op = "patch" /\ req[r].on
       IN /\ prof' = [prof EXCEPT ![p] = [req[r].row EXCEPT !.on = on]]
          /\ mixed' = IF prof[p] # req[r].row THEN mixed \cup {p} ELSE mixed
          /\ settled' = IF req[r].op = "disable" /\ req[r].clean /\ prof[p] = req[r].row
                        THEN settled \cup {p} ELSE settled \ {p}
    /\ End(r)
    /\ UNCHANGED <<vault, rec, ctx, saved, refused, started, trouble>>

-----------------------------------------------------------------------------
(* Faults *)

\* The process dies, or an answer of the service or of the vault is lost
Crash(r) ==
    /\ req[r].op # "idle" /\ trouble < MaxTrouble
    /\ trouble' = trouble + 1
    /\ End(r)
    /\ UNCHANGED <<prof, vault, rec, ctx, saved, mixed, settled, refused, started>>

\* cleanup_expired_browser_sessions, run before every request of the service
ExpireSession(s) ==
    /\ ctx[s].up /\ trouble < MaxTrouble
    /\ trouble' = trouble + 1
    /\ ctx' = [ctx EXCEPT ![s].up = FALSE]
    /\ UNCHANGED <<prof, vault, rec, req, saved, mixed, settled, refused, started>>

\* close() of the service: no session survives it
RestartService ==
    /\ Up # {} /\ trouble < MaxTrouble
    /\ trouble' = trouble + 1
    /\ ctx' = [s \in Sessions |-> [ctx[s] EXCEPT !.up = FALSE]]
    /\ UNCHANGED <<prof, vault, rec, req, saved, mixed, settled, refused, started>>

Next ==
    \/ \E r \in Requests :
          \/ \E s \in Sessions :
                \/ StartAction(r, s)
                \/ CloseSession(r, s)
          \/ \E p \in Profiles \cup {None} : OpenSession(r, p)
          \/ \E p \in Profiles : DisableProfile(r, p) \/ PatchProfile(r, p)
          \/ CheckCapacity(r) \/ ProviderOpen(r) \/ RecordSession(r)
          \/ ApplyAction(r) \/ RecordAction(r)
          \/ ExportState(r) \/ SaveState(r) \/ ReadRow(r) \/ WriteRow(r)
          \/ DeleteSession(r) \/ RecordClosed(r)
          \/ ReadToDisable(r) \/ WriteProfile(r)
          \/ Crash(r)
    \/ \E s \in Sessions : ExpireSession(s)
    \/ RestartService

Spec == Init /\ [][Next]_vars

-----------------------------------------------------------------------------
(* Properties *)

\* However many processes have found room for one more session, the browser
\* service never holds more than its limit.
LimitKept == Cardinality(Up) <= MaxSessions

\* A session recorded closed is gone from the browser service, and if it had a
\* profile its state was saved before: the endpoint's "revision_saved".
ClosedIsComplete ==
    \A s \in Sessions : rec[s].status = "closed" =>
        ~ctx[s].up /\ (rec[s].p # None => s \in saved)

\* Cookies of one profile never reach another: what the profile's secret holds,
\* and what the browser of a session started from, is the work of sessions of
\* that profile.
StateStaysInProfile ==
    /\ \A p \in Profiles : prof[p].secret # None =>
          \A s \in vault[prof[p].secret] : rec[s].p = p
    /\ \A s \in Sessions : ctx[s].up /\ rec[s].status # "new" =>
          \A x \in ctx[s].work : rec[x].p = rec[s].p

\* What was done in a session that was closed is in the profile's state for
\* every later session, unless sessions of the profile overlapped, two
\* requests wrote its row over one another, or an action came after the export.
WorkIsKept ==
    \A s \in saved : \A p \in Profiles \ mixed :
        /\ rec[s].p = p /\ rec[s].status = "closed" /\ s \in ctx[s].work
        => prof[p].secret # None /\ s \in vault[prof[p].secret]

\* Once the endpoint has disabled a profile and no opening was in flight, the
\* browser service holds no session of it.
DisabledHasNoSession ==
    \A p \in settled : ~prof[p].on => Live(p) = {}

\* "Persistent browser profiles": a session that the browser service holds can
\* be closed, and its state is saved, when nothing fails.
CloseIsPossible == refused = {}
=============================================================================
