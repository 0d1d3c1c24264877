---------------------------- MODULE ConnectorOAuth ----------------------------
(***************************************************************************)
(* OAuth connectors (connectors/oauth.py, repository.py, app.py): a one-time  *)
(* state leads an authorization back to its callback, the callback and the    *)
(* refresh exchange tokens with the provider and store them as two secrets,    *)
(* and a callback that was started from a failed agent action lets that        *)
(* action run again.  The connector is one row that every writer reads, and    *)
(* saves whole.  The provider, outside, kills a refresh token when it hands    *)
(* out the next one.                                                          *)
(***************************************************************************)
EXTENDS Naturals, FiniteSets

CONSTANTS States,     \* OAuth states handed out
          Actions,    \* agent actions that use the connector
          Requests,   \* API requests and worker writes in flight
          MaxTokens,  \* answers of the provider
          MaxTrouble  \* exchanges that fail, and processes that die

VARIABLES status,    \* status column of the connector
          said,      \* the status the latest finished decision asked for
          store,     \* the two stored secrets, as numbers of provider answers
          issued,    \* answers the provider has given
          valid,     \* the refresh token the provider still takes
          states,    \* pending authorizations
          spent,     \* callbacks that used each state
          act,       \* agent actions: state, token that failed, token at the retry
          crossed,   \* two token exchanges overlapped
          smeared,   \* two writers of the row overlapped
          lost,      \* a process died with an answer it had not stored
          req, trouble

vars == <<status, said, store, issued, valid, states, spent, act, crossed, smeared, lost,
          req, trouble>>

None == "none"
Rest == [op |-> None, pc |-> None, t |-> None, copy |-> None, new |-> None,
         token |-> 0, access |-> 0, refresh |-> 0]
NewAction == [state |-> "fresh", failed |-> 0, retried |-> 0]

Init == /\ status = "enabled" /\ said = status /\ store = [access |-> 1, refresh |-> 1]
        /\ issued = 1 /\ valid = 1
        /\ states = [t \in States |-> [state |-> "unused", action |-> None]]
        /\ spent = [t \in States |-> 0] /\ act = [a \in Actions |-> NewAction]
        /\ crossed = FALSE /\ smeared = FALSE /\ lost = FALSE
        /\ req = [r \in Requests |-> Rest] /\ trouble = 0

row == <<status, said, smeared>>
tokens == <<store, issued, valid, crossed, lost>>
pending == <<states, spent>>
Begin(r, record) == req[r] = Rest /\ req' = [req EXCEPT ![r] = record]
Finish(r) == req' = [req EXCEPT ![r] = Rest]
Goto(r, pc) == req' = [req EXCEPT ![r].pc = pc]
At(r, pc) == req[r].pc = pc
Others(r, pcs) == {q \in Requests \ {r} : req[q].pc \in pcs}

-----------------------------------------------------------------------------
\* build_authorization_url, for the settings page or for a failed action.
Authorize(t, a) ==
    /\ states[t].state = "unused"
    /\ a # None => act[a].state = "waiting"
    /\ states' = [states EXCEPT ![t] = [state |-> "open", action |-> a]]
    /\ UNCHANGED <<row, tokens, spent, act, req, trouble>>
\* The state store keeps a state for its time to live.
ExpireState(t) == /\ states[t].state = "open"
                  /\ states' = [states EXCEPT ![t].state = "gone"]
                  /\ UNCHANGED <<row, tokens, spent, act, req, trouble>>

\* A redirect from the provider looks the state up before it loads the connector.
PendingAuthorization(r, t) ==
    /\ states[t].state = "open"
    /\ Begin(r, [Rest EXCEPT !.op = "callback", !.pc = "consume", !.t = t])
    /\ UNCHANGED <<row, tokens, pending, act, trouble>>

MutTaken(session) == session
Taken(session) == [session EXCEPT !.state = "gone"]

\* _consume_state pops it (GETDEL in Redis).
ConsumeState(r) ==
    /\ At(r, "consume")
    /\ IF states[req[r].t].state = "open"
       THEN /\ Goto(r, "exchange")
            /\ states' = [states EXCEPT ![req[r].t] = Taken(@)]
            /\ spent' = [spent EXCEPT ![req[r].t] = @ + 1]
       ELSE Finish(r) /\ UNCHANGED pending
    /\ UNCHANGED <<row, tokens, act, trouble>>

\* refresh reads the stored refresh token through a lease.
ReadRefreshToken(r) ==
    /\ Begin(r, [Rest EXCEPT !.op = "refresh", !.pc = "exchange", !.token = store.refresh])
    /\ UNCHANGED <<row, tokens, pending, act, trouble>>

Exchanging == {"exchange", "access", "refresh"}

\* _store_tokens, and then the callback's status and its action.
Refreshing == [exchange |-> "access", access |-> "refresh", refresh |-> None]
Plain == [save |-> None]
Rejecting == [save |-> "pause", pause |-> None]
MutAfter == [callback |-> [exchange |-> "read", read |-> "save", save |-> "retry",
                           retry |-> "access", access |-> "refresh", refresh |-> None],
             refresh |-> Refreshing, change |-> Plain, reject |-> Rejecting]
After == [callback |-> [exchange |-> "access", access |-> "refresh", refresh |-> "read",
                        read |-> "save", save |-> "retry", retry |-> None],
          refresh |-> Refreshing, change |-> Plain, reject |-> Rejecting]
Continue(r) == IF After[req[r].op][req[r].pc] = None THEN Finish(r)
               ELSE Goto(r, After[req[r].op][req[r].pc])

\* The provider takes a code once, and a refresh token until it has given out
\* another; not every answer brings one.
Grant(r, rotates) ==
    /\ At(r, "exchange") /\ issued < MaxTokens
    /\ req[r].op = "refresh" => req[r].token = valid
    /\ issued' = issued + 1 /\ valid' = IF rotates THEN issued' ELSE valid
    /\ req' = [req EXCEPT ![r].pc = After[req[r].op]["exchange"], ![r].access = issued',
                          ![r].refresh = IF rotates THEN issued' ELSE 0]
    /\ crossed' = (crossed \/ Others(r, Exchanging) # {})
    /\ UNCHANGED <<row, store, lost, pending, act, trouble>>
\* No answer, or a refusal: the state is spent all the same.
Refuse(r) == /\ At(r, "exchange") /\ Finish(r)
             /\ \/ req[r].op = "refresh" /\ req[r].token # valid /\ UNCHANGED trouble
                \/ trouble < MaxTrouble /\ trouble' = trouble + 1
             /\ UNCHANGED <<row, tokens, pending, act>>

StoreAccess(r) == /\ At(r, "access") /\ Continue(r)
                  /\ store' = [store EXCEPT !.access = req[r].access]
                  /\ UNCHANGED <<row, issued, valid, crossed, lost, pending, act, trouble>>
MutKept(old, new) == old
Kept(old, new) == IF new = 0 THEN old ELSE new
StoreRefresh(r) == /\ At(r, "refresh") /\ Continue(r)
                   /\ store' = [store EXCEPT !.refresh = Kept(@, req[r].refresh)]
                   /\ UNCHANGED <<row, issued, valid, crossed, lost, pending, act, trouble>>

-----------------------------------------------------------------------------
\* Every change of the connector reads its row and saves the whole of it.
Writing == {"save"}
Change(r, new) == /\ Begin(r, [Rest EXCEPT !.op = "change", !.pc = "save", !.copy = status,
                                         !.new = new])
                  /\ smeared' = (smeared \/ Others(r, Writing) # {})
                  /\ UNCHANGED <<status, said, tokens, pending, act, trouble>>
\* Enabling and disabling, and what has nothing to do with the status: new
\* settings, and the progress of a sync job.
ChangeStatus(r) == \E s \in {"enabled", "disabled"} : Change(r, s)
UpdateSyncState(r) == Change(r, None)

ReadRow(r) == /\ At(r, "read")
              /\ req' = [req EXCEPT ![r].pc = After[req[r].op]["read"], ![r].copy = status,
                                    ![r].new = "enabled"]
              /\ smeared' = (smeared \/ Others(r, Writing) # {})
              /\ UNCHANGED <<status, said, tokens, pending, act, trouble>>
MutSaved(copy, new) == IF new = None THEN "enabled" ELSE new
Saved(copy, new) == IF new = None THEN copy ELSE new
SaveRow(r) ==
    /\ At(r, "save") /\ status' = Saved(req[r].copy, req[r].new)
    /\ said' = IF req[r].new = None THEN said ELSE req[r].new
    /\ Continue(r)
    /\ UNCHANGED <<smeared, tokens, pending, act, trouble>>

\* A call is answered 401: _pause_for_connector_reconnect writes the status
\* first and lets the action wait for a reconnection afterwards.
Rejected(r, a) ==
    /\ act[a].state = "fresh" /\ status = "enabled"
    /\ act' = [act EXCEPT ![a] = [@ EXCEPT !.state = "failing", !.failed = store.access]]
    /\ Begin(r, [Rest EXCEPT !.op = "reject", !.pc = "save", !.t = a, !.copy = status,
                             !.new = "needs_reauth"])
    /\ smeared' = (smeared \/ Others(r, Writing) # {})
    /\ UNCHANGED <<status, said, tokens, pending, trouble>>
PauseAction(r) == /\ At(r, "pause") /\ Continue(r)
                  /\ act' = [act EXCEPT ![req[r].t].state = "waiting"]
                  /\ UNCHANGED <<row, tokens, pending, trouble>>
\* retry_connector_action_after_reconnect takes an action back once.
RetryAction(r) ==
    LET a == states[req[r].t].action IN
    /\ At(r, "retry") /\ Continue(r)
    /\ act' = IF a # None /\ act[a].state = "waiting"
              THEN [act EXCEPT ![a] = [@ EXCEPT !.state = "retried", !.retried = store.access]]
              ELSE act
    /\ UNCHANGED <<row, tokens, pending, trouble>>

Die(r) == /\ req[r] # Rest /\ trouble < MaxTrouble /\ trouble' = trouble + 1 /\ Finish(r)
          /\ lost' = (lost \/ req[r].refresh \notin {0, store.refresh})
          /\ UNCHANGED <<row, store, issued, valid, crossed, pending, act>>

Act(r) == \/ \E t \in States : PendingAuthorization(r, t)
          \/ ConsumeState(r) \/ ReadRefreshToken(r) \/ \E b \in BOOLEAN : Grant(r, b)
          \/ Refuse(r) \/ StoreAccess(r) \/ StoreRefresh(r) \/ ChangeStatus(r)
          \/ UpdateSyncState(r) \/ ReadRow(r) \/ SaveRow(r)
          \/ \E a \in Actions : Rejected(r, a)
          \/ PauseAction(r) \/ RetryAction(r) \/ Die(r)
Next == \/ \E r \in Requests : Act(r)
        \/ \E t \in States : ExpireState(t) \/ \E a \in Actions \cup {None} : Authorize(t, a)

Spec == Init /\ [][Next]_vars

-----------------------------------------------------------------------------
\* A state brings in one set of tokens, however often and on however many
\* replicas its callback arrives (RedisOAuthAuthorizationStateStore.pop).
StateSpentOnce == \A t \in States : spent[t] <= 1

\* Between exchanges the stored refresh token is one the provider still takes
\* (_store_tokens), unless exchanges overlapped or an answer died with its process.
RefreshStillWorks ==
    \/ crossed \/ lost \/ store.refresh = valid
    \/ \E r \in Requests : req[r].refresh = valid

\* An action runs again with newer tokens than the ones it failed with
\* (resume_reconnected_connector_action), unless exchanges overlapped.
RetriedWithNewTokens ==
    \A a \in Actions : act[a].state = "retried" /\ ~crossed => act[a].retried > act[a].failed

\* The status is what the latest decision about it asked for, whatever else was
\* written to the row (update_connector_sync_state), unless writers overlapped.
StatusIsLastWord == smeared \/ status = said
=============================================================================
