------------------------------- MODULE Accounts -------------------------------
(***************************************************************************)
(* Accounts, sessions and membership (auth/service.py, identity/            *)
(* repository.py, tenancy.py, scim/service.py): registration with a mailed   *)
(* verification, login, password reset, invitations to a tenant, removal     *)
(* and restoration of members, and imports from a directory.  A request is   *)
(* a sequence of transactions, and other requests come in between.           *)
(***************************************************************************)
EXTENDS Naturals, FiniteSets

CONSTANTS Owners,     \* people who register
          Members,    \* people who are invited, or imported
          Directory,  \* those of them a directory knows
          Sessions, Invites, Requests,
          MaxPw,      \* passwords an account has had
          MaxTrouble  \* requests that stop half way

VARIABLES acct,      \* accounts: status, number of the password, role
          links,     \* mailed links: <<purpose, account, password it is bound to>>
          sess,      \* sessions
          inv,       \* invitations
          linked,    \* accounts the directory is linked to
          recorded,  \* what the last import recorded of a person
          halted,    \* accounts whose reset stopped before it revoked sessions
          doubled,   \* accounts two resets of which overlapped
          req, trouble

vars == <<acct, links, sess, inv, linked, recorded, halted, doubled, req, trouble>>

None == "none"
People == Owners \cup Members
NoAccount == [status |-> None, pw |-> 0, role |-> FALSE]
NoSession == [of |-> None, pw |-> 0, live |-> FALSE, late |-> FALSE]
NoInvite == [of |-> None, state |-> None, begun |-> FALSE]
Rest == [op |-> None, pc |-> None, who |-> None, pw |-> 0, id |-> 0, fresh |-> FALSE]

Init == /\ acct = [e \in People |-> NoAccount] /\ links = {}
        /\ sess = [s \in Sessions |-> NoSession] /\ inv = [i \in Invites |-> NoInvite]
        /\ linked = {} /\ recorded = [e \in People |-> None]
        /\ halted = {} /\ doubled = {}
        /\ req = [r \in Requests |-> Rest] /\ trouble = 0

Begin(r, op, pc, e) ==
    /\ req[r] = Rest
    /\ req' = [req EXCEPT ![r] = [Rest EXCEPT !.op = op, !.pc = pc, !.who = e, !.pw = acct[e].pw]]
Goto(r, pc) == req' = [req EXCEPT ![r].pc = pc]
Finish(r) == req' = [req EXCEPT ![r] = Rest]
At(r, op, pc) == req[r].op = op /\ req[r].pc = pc

NewAccount(e) == acct' = [acct EXCEPT ![e] = [@ EXCEPT !.status = "active", !.pw = 1]]

-----------------------------------------------------------------------------
\* register: bootstrap creates an active owner, which is then marked pending
\* and sent a verification link.
Register(r, e) ==
    /\ acct[e].status = None
    /\ Begin(r, "register", "pending", e) /\ NewAccount(e)
    /\ UNCHANGED <<links, sess, inv, linked, recorded, halted, doubled, trouble>>

Mail(purpose, e) == links' = links \cup {<<purpose, e, acct[e].pw>>}

MarkPending(r) ==
    LET e == req[r].who
    IN  /\ At(r, "register", "pending") /\ Finish(r)
        /\ acct' = [acct EXCEPT ![e].status = "pending"] /\ Mail("verify", e)
        /\ UNCHANGED <<sess, inv, linked, recorded, halted, doubled, trouble>>

RequestVerification(e) ==
    /\ acct[e].status = "pending" /\ Mail("verify", e)
    /\ UNCHANGED <<acct, sess, inv, linked, recorded, halted, doubled, req, trouble>>

\* _validate_action_token: the link's purpose, and the password it is bound to.
MutLinkHolds(purpose, e) == \E v \in 0 .. MaxPw : <<purpose, e, v>> \in links
LinkHolds(purpose, e) == <<purpose, e, acct[e].pw>> \in links

Confirm(e) ==
    /\ LinkHolds("verify", e) /\ acct[e].status = "pending"
    /\ acct' = [acct EXCEPT ![e].status = "active"]
    /\ UNCHANGED <<links, sess, inv, linked, recorded, halted, doubled, req, trouble>>

\* login checks the password, then opens the session.
Login(r, e) ==
    /\ acct[e].status = "active" /\ \E s \in Sessions : sess[s] = NoSession
    /\ Begin(r, "login", "open", e)
    /\ UNCHANGED <<acct, links, sess, inv, linked, recorded, halted, doubled, trouble>>

OpenSession(r) ==
    LET e == req[r].who
    IN  /\ At(r, "login", "open") /\ Finish(r)
        /\ \E s \in Sessions :
              /\ sess[s] = NoSession
              /\ sess' = [sess EXCEPT ![s] = [of |-> e, pw |-> req[r].pw, live |-> TRUE,
                                              late |-> acct[e].pw # req[r].pw]]
        /\ UNCHANGED <<acct, links, inv, linked, recorded, halted, doubled, trouble>>

Logout(s) ==
    /\ sess[s].live /\ acct[sess[s].of].status = "active"
    /\ sess' = [sess EXCEPT ![s].live = FALSE]
    /\ UNCHANGED <<acct, links, inv, linked, recorded, halted, doubled, req, trouble>>

ForgotPassword(e) ==
    /\ acct[e].status = "active" /\ Mail("reset", e)
    /\ UNCHANGED <<acct, sess, inv, linked, recorded, halted, doubled, req, trouble>>

\* reset_password_action: the token, the new password, then the sessions.
ResetPassword(r, e) ==
    /\ LinkHolds("reset", e) /\ acct[e].status = "active" /\ acct[e].pw < MaxPw
    /\ Begin(r, "reset", "change", e)
    /\ doubled' = doubled \cup
           {f \in {e} : \E q \in Requests : req[q].op = "reset" /\ req[q].who = e}
    /\ UNCHANGED <<acct, links, sess, inv, linked, recorded, halted, trouble>>

UpdatePassword(r) ==
    LET e == req[r].who
    IN  /\ At(r, "reset", "change") /\ acct[e].pw < MaxPw /\ Goto(r, "revoke")
        /\ acct' = [acct EXCEPT ![e].pw = @ + 1]
        /\ UNCHANGED <<links, sess, inv, linked, recorded, halted, doubled, trouble>>

MutRevoked(s, r) == sess[s].of = req[r].who /\ sess[s].pw = acct[req[r].who].pw
Revoked(s, r) == sess[s].of = req[r].who

RevokeUserSessions(r) ==
    LET e == req[r].who
    IN  /\ At(r, "reset", "revoke") /\ Finish(r)
        /\ sess' = [s \in Sessions |-> IF Revoked(s, r) THEN [sess[s] EXCEPT !.live = FALSE]
                                       ELSE sess[s]]
        /\ halted' = halted \ {e}
        /\ UNCHANGED <<acct, links, inv, linked, recorded, doubled, trouble>>

-----------------------------------------------------------------------------
\* invite: no account and no open invitation, then the row.
Invite(r, e) ==
    /\ acct[e].status = None /\ \A i \in Invites : ~(inv[i].of = e /\ inv[i].state = "pending")
    /\ Begin(r, "invite", "create", e)
    /\ UNCHANGED <<acct, links, sess, inv, linked, recorded, halted, doubled, trouble>>

CreateInvitation(r) ==
    /\ At(r, "invite", "create") /\ Finish(r)
    /\ \E i \in Invites :
          /\ inv[i] = NoInvite
          /\ inv' = [inv EXCEPT ![i] = [NoInvite EXCEPT !.of = req[r].who, !.state = "pending"]]
    /\ UNCHANGED <<acct, links, sess, linked, recorded, halted, doubled, trouble>>

\* Revoked, or expired.
Withdraw(i) ==
    /\ inv[i].state = "pending" /\ inv' = [inv EXCEPT ![i].state = "withdrawn"]
    /\ UNCHANGED <<acct, links, sess, linked, recorded, halted, doubled, req, trouble>>

\* accept_invitation checks the invitation, creates the account or checks the
\* one there is, gives it the role, and closes the invitation.
Pending(i) == inv[i].state = "pending"

Accept(r, i) ==
    /\ Pending(i)
    /\ req[r] = Rest
    /\ req' = [req EXCEPT ![r] = [Rest EXCEPT !.op = "accept", !.pc = "account",
                                              !.who = inv[i].of, !.id = i]]
    /\ inv' = [inv EXCEPT ![i].begun = @ \/ inv[i].state = "pending"]
    /\ UNCHANGED <<acct, links, sess, linked, recorded, halted, doubled, trouble>>

MutAfter == [account |-> "close", close |-> "role", role |-> None]
After == [account |-> "role", role |-> "close", close |-> None]
Continue(r) == IF After[req[r].pc] = None THEN Finish(r) ELSE Goto(r, After[req[r].pc])

JoinAccount(r) ==
    LET e == req[r].who
    IN  /\ At(r, "accept", "account")
        /\ \/ acct[e].status = None /\ NewAccount(e) /\ Continue(r)
           \/ acct[e].status = "active" /\ Continue(r) /\ UNCHANGED acct
           \/ acct[e].status # None /\ Finish(r) /\ UNCHANGED acct
        /\ UNCHANGED <<links, sess, inv, linked, recorded, halted, doubled, trouble>>

JoinRole(r) ==
    /\ At(r, "accept", "role") /\ Continue(r)
    /\ acct' = [acct EXCEPT ![req[r].who].role = TRUE]
    /\ UNCHANGED <<links, sess, inv, linked, recorded, halted, doubled, trouble>>

CloseInvitation(r) ==
    LET i == req[r].id
    IN  /\ At(r, "accept", "close") /\ Continue(r)
        /\ inv' = IF inv[i].state = "pending" THEN [inv EXCEPT ![i].state = "accepted"] ELSE inv
        /\ UNCHANGED <<acct, links, sess, linked, recorded, halted, doubled, trouble>>

\* remove_member and restore_member set the status and leave the sessions.
RemoveMember(e) ==
    /\ acct[e].status # None /\ acct' = [acct EXCEPT ![e].status = "disabled"]
    /\ UNCHANGED <<links, sess, inv, linked, recorded, halted, doubled, req, trouble>>

RestoreMember(e) ==
    /\ acct[e].status # None /\ acct' = [acct EXCEPT ![e].status = "active"]
    /\ recorded' = [recorded EXCEPT ![e] = IF @ = "left" THEN None ELSE @]
    /\ UNCHANGED <<links, sess, inv, linked, halted, doubled, req, trouble>>

-----------------------------------------------------------------------------
\* apply_import, for a person the directory reports as active.
ImportActive(r, e) ==
    /\ Begin(r, "import", IF e \in linked THEN "link" ELSE "resolve", e)
    /\ UNCHANGED <<acct, links, sess, inv, linked, recorded, halted, doubled, trouble>>

\* _resolve_or_create_user; a conflicting creation fails the import.
Resolve(r) ==
    LET e == req[r].who
    IN  /\ At(r, "import", "resolve")
        /\ req' = [req EXCEPT ![r].pc = "link", ![r].fresh = acct[e].status = None]
        /\ IF acct[e].status = None THEN NewAccount(e) ELSE UNCHANGED acct
        /\ UNCHANGED <<links, sess, inv, linked, recorded, halted, doubled, trouble>>

UpsertUserLink(r) ==
    /\ At(r, "import", "link") /\ Goto(r, "roles")
    /\ linked' = linked \cup {req[r].who}
    /\ UNCHANGED <<acct, links, sess, inv, recorded, halted, doubled, trouble>>

\* The roles the account does not have yet.
MutMissing(r) == req[r].fresh
Missing(r) == ~acct[req[r].who].role

AssignRoles(r) ==
    /\ At(r, "import", "roles") /\ Goto(r, "record")
    /\ acct' = IF Missing(r) THEN [acct EXCEPT ![req[r].who].role = TRUE] ELSE acct
    /\ UNCHANGED <<links, sess, inv, linked, recorded, halted, doubled, trouble>>

RecordImport(r) ==
    LET e == req[r].who
    IN  /\ At(r, "import", "record") /\ Finish(r)
        /\ recorded' = [recorded EXCEPT ![e] = "member"]
        /\ UNCHANGED <<acct, links, sess, inv, linked, halted, doubled, trouble>>

\* A person who has left is disabled, if the directory is linked to an account.
ImportInactive(e) ==
    /\ e \in linked
    /\ acct' = [acct EXCEPT ![e].status = "disabled"]
    /\ recorded' = [recorded EXCEPT ![e] = "left"]
    /\ UNCHANGED <<links, sess, inv, linked, halted, doubled, req, trouble>>

\* The process dies between two transactions of a request.
Stop(r) ==
    /\ trouble < MaxTrouble /\ trouble' = trouble + 1
    /\ req[r] # Rest /\ Finish(r)
    /\ halted' = IF req[r].pc = "revoke" THEN halted \cup {req[r].who} ELSE halted
    /\ UNCHANGED <<acct, links, sess, inv, linked, recorded, doubled>>

-----------------------------------------------------------------------------
Next == \/ \E e \in Owners : RequestVerification(e) \/ Confirm(e)
        \/ \E e \in People : ForgotPassword(e)
        \/ \E s \in Sessions : Logout(s)
        \/ \E i \in Invites : Withdraw(i)
        \/ \E e \in Members : RemoveMember(e) \/ RestoreMember(e)
        \/ \E e \in Directory : ImportInactive(e)
        \/ \E r \in Requests :
              \/ \E e \in Owners : Register(r, e)
              \/ \E e \in People : Login(r, e) \/ ResetPassword(r, e)
              \/ \E e \in Members : Invite(r, e)
              \/ \E i \in Invites : Accept(r, i)
              \/ \E e \in Directory : ImportActive(r, e)
              \/ MarkPending(r) \/ OpenSession(r)
              \/ UpdatePassword(r) \/ RevokeUserSessions(r)
              \/ CreateInvitation(r) \/ JoinAccount(r) \/ JoinRole(r) \/ CloseInvitation(r)
              \/ Resolve(r) \/ UpsertUserLink(r) \/ AssignRoles(r) \/ RecordImport(r)
              \/ Stop(r)

Spec == Init /\ [][Next]_vars

-----------------------------------------------------------------------------
\* Once a password reset has finished, the sessions opened with an older
\* password are over.  What is left is a login that checked the old password
\* before the reset and opened its session after, and a reset that stopped
\* between its two transactions.
NewPasswordOnly == \A s \in Sessions : sess[s].live /\ ~sess[s].late =>
    \/ sess[s].pw = acct[sess[s].of].pw
    \/ sess[s].of \in halted
    \/ \E r \in Requests : At(r, "reset", "revoke") /\ req[r].who = sess[s].of

\* Every password that was replaced was replaced by a link mailed while it was
\* in use, unless two resets of the account overlapped: a link used once, or
\* mailed for another purpose, changes nothing.
ResetWasAsked == \A e \in People \ doubled : \A v \in 1 .. MaxPw :
    v < acct[e].pw => <<"reset", e, v>> \in links

\* Nobody joins by an invitation withdrawn before they began to accept it, and
\* an invitation that counts as accepted has made a member, whatever stopped.
JoinedByInvitation ==
    /\ \A e \in Members \ Directory : acct[e].status # None =>
           \E i \in Invites : inv[i].of = e /\ inv[i].begun
    /\ \A i \in Invites : inv[i].state = "accepted" => acct[inv[i].of].role

\* An import that was recorded has given the person the role, also when an
\* earlier one stopped half way, and one who left stays out until restored.
ImportIsComplete == \A e \in Directory :
    /\ recorded[e] = "member" => e \in linked /\ acct[e].role
    /\ recorded[e] = "left" => acct[e].status = "disabled"
=============================================================================
