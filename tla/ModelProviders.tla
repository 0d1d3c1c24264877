--------------------------- MODULE ModelProviders ---------------------------
(***************************************************************************)
(* Administration of one model provider of a tenant in the SQL store:      *)
(* direct changes, change requests that are approved or rejected, the      *)
(* version history, and the refresh of the gateway of the process that     *)
(* made the change.                                                        *)
(*                                                                         *)
(* A store method is one transaction, but under READ COMMITTED each of its *)
(* reads sees what is committed at that moment; its writes take effect     *)
(* together at the commit, or not at all.                                  *)
(***************************************************************************)
EXTENDS Naturals, Sequences, FiniteSets

CONSTANTS
    Handlers,     \* request handlers of one API process
    Requests,     \* ids of change requests
    Values,       \* provider settings and credentials
    MaxVersions,  \* bound of the versions
    MaxCrashes    \* bound of the handlers that die

VARIABLES
    record,     \* the row of model_provider_records, or NoRecord
    versions,   \* model_provider_versions, in order of their number
    request,    \* request[r]: [status, op]
    handler,    \* handler[h]: the operation h is in
    gateway,    \* version the process's gateway was built from
    crashes

vars == <<record, versions, request, handler, gateway, crashes>>

NoRecord == [config |-> 0, key |-> 0, status |-> "none"]
NoRequest == [status |-> "none", op |-> [kind |-> "none"]]
Idle == [pc |-> "idle"]

\* The operations of ModelProviderChangeRequestApiCreate and of the endpoints.
Operations ==
    [kind : {"upsert", "credential_rotation"}, value : Values]
    \cup [kind : {"status"}, value : {"active", "disabled"}]
    \cup [kind : {"rollback"}, value : 1..MaxVersions]

Init ==
    /\ record = NoRecord /\ versions = <<>>
    /\ request = [r \in Requests |-> NoRequest]
    /\ handler = [h \in Handlers |-> Idle]
    /\ gateway = 0
    /\ crashes = 0

-----------------------------------------------------------------------------
(* Endpoints: a change request, a direct change, an approval, a rejection *)

Create(r, op) ==
    /\ request[r] = NoRequest
    /\ request' = [request EXCEPT ![r] = [status |-> "pending", op |-> op]]
    /\ UNCHANGED <<record, versions, handler, gateway, crashes>>

Start(h, op, r) ==
    /\ handler[h] = Idle
    /\ handler' = [handler EXCEPT ![h] = [pc |-> "read", op |-> op, r |-> r]]

Change(h, op) ==
    /\ Start(h, op, "direct")
    /\ UNCHANGED <<record, versions, request, gateway, crashes>>

\* Mutant: the request is marked before it is applied.
MutApprove(h, r) ==
    /\ request[r].status = "pending"
    /\ Start(h, request[r].op, r)
    /\ request' = [request EXCEPT ![r].status = "approved"]
    /\ UNCHANGED <<record, versions, gateway, crashes>>

\* _require_pending_change_request looks at what _get_change_request has read.
Approve(h, r) ==
    /\ request[r].status = "pending"
    /\ Start(h, request[r].op, r)
    /\ UNCHANGED <<record, versions, request, gateway, crashes>>

Reject(h, r) ==
    /\ request[r].status = "pending"
    /\ handler[h] = Idle
    /\ handler' = [handler EXCEPT ![h] = [pc |-> "reject", r |-> r]]
    /\ UNCHANGED <<record, versions, request, gateway, crashes>>

-----------------------------------------------------------------------------
(* The transaction of the provider store *)

\* What the operation writes over the row it has read.
Apply(existing, op) ==
    CASE op.kind = "upsert" ->
           [config |-> op.value, key |-> op.value,
            status |-> IF existing = NoRecord THEN "active" ELSE existing.status]
      [] op.kind = "status" -> [existing EXCEPT !.status = op.value]
      [] op.kind = "credential_rotation" -> [existing EXCEPT !.key = op.value]
      [] op.kind = "rollback" -> versions[op.value].record

\* NotFoundError of the row or of the version a rollback names.
Missing(op) ==
    \/ op.kind # "upsert" /\ record = NoRecord
    \/ op.kind = "rollback" /\ op.value \notin DOMAIN versions

ReadExisting(h) ==
    /\ handler[h].pc = "read"
    /\ handler' = [handler EXCEPT ![h] =
          IF Missing(@.op) THEN Idle
          ELSE [pc |-> "number", op |-> @.op, r |-> @.r, new |-> Apply(record, @.op)]]
    /\ UNCHANGED <<record, versions, request, gateway, crashes>>

NextVersion(h) ==
    /\ handler[h].pc = "number"
    /\ Len(versions) < MaxVersions
    /\ handler' = [handler EXCEPT ![h] = [pc |-> "commit", r |-> @.r, new |-> @.new,
                                          version |-> Len(versions) + 1]]
    /\ UNCHANGED <<record, versions, request, gateway, crashes>>

\* Mutant: the insert of a version that exists is ignored.
MutCommit(h) ==
    /\ handler[h].pc = "commit"
    /\ LET me == handler[h] IN
       /\ record' = me.new
       /\ versions' = IF me.version \in DOMAIN versions THEN versions
                      ELSE Append(versions, [record |-> me.new, by |-> me.r])
       /\ handler' = [handler EXCEPT ![h] =
             [pc |-> IF me.r = "direct" THEN "build" ELSE "save",
              r |-> me.r, version |-> me.version]]
    /\ UNCHANGED <<request, gateway, crashes>>

\* The row is written first, the version after it: the primary key of
\* model_provider_versions undoes both when another change has the number.
Commit(h) ==
    /\ handler[h].pc = "commit"
    /\ LET me == handler[h] IN
       \/ /\ me.version \notin DOMAIN versions
          /\ record' = me.new
          /\ versions' = Append(versions, [record |-> me.new, by |-> me.r])
          /\ handler' = [handler EXCEPT ![h] =
                [pc |-> IF me.r = "direct" THEN "build" ELSE "save",
                 r |-> me.r, version |-> me.version]]
       \/ /\ me.version \in DOMAIN versions
          /\ handler' = [handler EXCEPT ![h] = Idle]
          /\ UNCHANGED <<record, versions>>
    /\ UNCHANGED <<request, gateway, crashes>>

\* approve_provider_change_request marks what it has applied.
SaveApproved(h) ==
    /\ handler[h].pc = "save"
    /\ request' = [request EXCEPT ![handler[h].r].status = "approved"]
    /\ handler' = [handler EXCEPT ![h].pc = "build"]
    /\ UNCHANGED <<record, versions, gateway, crashes>>

\* Mutant: the endpoint's word for the status instead of the record's.
MutSaveRejected(h) ==
    /\ handler[h].pc = "reject"
    /\ request' = [request EXCEPT ![handler[h].r].status = "reject"]
    /\ handler' = [handler EXCEPT ![h] = Idle]
    /\ UNCHANGED <<record, versions, gateway, crashes>>

SaveRejected(h) ==
    /\ handler[h].pc = "reject"
    /\ request' = [request EXCEPT ![handler[h].r].status = "rejected"]
    /\ handler' = [handler EXCEPT ![h] = Idle]
    /\ UNCHANGED <<record, versions, gateway, crashes>>

-----------------------------------------------------------------------------
(* refresh_runtime_model_gateway: build from the store, then assign *)

\* Mutant: the gateway is built from the records read before the transaction.
MutBuild(h) ==
    /\ handler[h].pc = "build"
    /\ handler' = [handler EXCEPT ![h] = [pc |-> "assign", version |-> @.version,
                                          built |-> @.version - 1]]
    /\ UNCHANGED <<record, versions, request, gateway, crashes>>

Build(h) ==
    /\ handler[h].pc = "build"
    /\ handler' = [handler EXCEPT ![h] = [pc |-> "assign", version |-> @.version,
                                          built |-> Len(versions)]]
    /\ UNCHANGED <<record, versions, request, gateway, crashes>>

Assign(h) ==
    /\ handler[h].pc = "assign"
    /\ gateway' = handler[h].built
    /\ handler' = [handler EXCEPT ![h] = Idle]
    /\ UNCHANGED <<record, versions, request, crashes>>

\* The process answers an error or dies: what is committed stays.
Crash(h) ==
    /\ handler[h] # Idle
    /\ crashes < MaxCrashes /\ crashes' = crashes + 1
    /\ handler' = [handler EXCEPT ![h] = Idle]
    /\ UNCHANGED <<record, versions, request, gateway>>

-----------------------------------------------------------------------------

Next ==
    \/ \E r \in Requests, op \in Operations : Create(r, op)
    \/ \E h \in Handlers :
          \/ \E op \in Operations : Change(h, op)
          \/ \E r \in Requests : Approve(h, r) \/ Reject(h, r)
          \/ ReadExisting(h) \/ NextVersion(h) \/ Commit(h)
          \/ SaveApproved(h) \/ SaveRejected(h)
          \/ Build(h) \/ Assign(h) \/ Crash(h)

Spec == Init /\ [][Next]_vars

-----------------------------------------------------------------------------
(* Properties *)

TypeOK ==
    /\ record.status \in {"none", "active", "disabled"}
    /\ Len(versions) <= MaxVersions
    /\ gateway \in 0..Len(versions)
    /\ \A r \in Requests : request[r].status \in {"none", "pending", "approved", "rejected"}
    /\ \A h \in Handlers : handler[h].pc \in
          {"idle", "read", "number", "commit", "save", "reject", "build", "assign"}

\* However changes interleave and wherever a handler dies, the row is the last
\* version of its history: no change goes unrecorded and none is recorded that
\* the row does not hold (_save_record_with_connection and
\* _append_version_with_connection in one transaction, the primary key).
RowIsLatestVersion ==
    record = IF versions = <<>> THEN NoRecord ELSE versions[Len(versions)].record

\* A request that reads approved has been applied, whatever failed between.
ApprovedIsApplied ==
    \A r \in Requests :
        request[r].status = "approved" => \E i \in DOMAIN versions : versions[i].by = r

HoldsOwnChange ==
    \A h \in Handlers :
        handler[h].pc = "assign" /\ handler'[h] = Idle /\ crashes' = crashes
            => gateway' >= handler[h].version

\* A change that is answered is one the process's gateway was rebuilt with: the
\* gateway a handler puts in place holds at least its own version
\* (refresh_runtime_model_gateway).
RefreshHoldsChange == [][HoldsOwnChange]_vars

=============================================================================
