----------------------------- MODULE KnowledgeSync -----------------------------
(***************************************************************************)
(* Knowledge (knowledge/repository.py, app.py) and the jobs that fill it     *)
(* from a connector (workers/connector_sync_worker.py).  A document, with    *)
(* its chunks, is one transaction and its content is unique in the tenant.   *)
(* People upload documents while workers take the batches of sync jobs,      *)
(* whose leases run out; the tenant's knowledge may be deleted; processes    *)
(* die between two writes.                                                   *)
(***************************************************************************)
EXTENDS Naturals, Sequences, FiniteSets

CONSTANTS Batch,       \* of each sync job: the contents of its documents
          Uploads,     \* requests that upload a document
          Contents,    \* what they may upload
          Workers,
          MaxAttempts, \* worker_job_max_attempts
          MaxTrouble   \* processes that die, calls that fail, leases outrun

Jobs == DOMAIN Batch
None == "none"

VARIABLES base,     \* the knowledge base is there
          doc,      \* of each content: who registered the document that has it
          call,     \* where the request that asks for a job is
          job,      \* the jobs: state and attempts
          run,      \* their runs
          sync,     \* the connector's sync state: job and status
          meters,   \* documents meters of each run
          w,        \* the workers
          up,       \* the uploads
          crossed,  \* jobs of which two executions overlapped or one stopped
          overtaken,\* jobs a worker had started on before the request was done
          trouble

vars == <<base, doc, call, job, run, sync, meters, w, up, crossed, overtaken, trouble>>

Idle == [at |-> None, job |-> None, next |-> 1, verdict |-> None]

Init == /\ base = TRUE /\ doc = [c \in Contents |-> None]
        /\ call = [j \in Jobs |-> "create_run"]
        /\ job = [j \in Jobs |-> [state |-> None, attempts |-> 0]]
        /\ run = [j \in Jobs |-> None] /\ sync = [job |-> None, status |-> None]
        /\ meters = [j \in Jobs |-> 0] /\ w = [x \in Workers |-> Idle]
        /\ up = [u \in Uploads |-> [pc |-> None, content |-> None, stored |-> FALSE, metered |-> FALSE]]
        /\ crossed = {} /\ overtaken = {} /\ trouble = 0

Trouble == trouble < MaxTrouble /\ trouble' = trouble + 1
On(j) == {x \in Workers : w[x].job = j}

-----------------------------------------------------------------------------
\* The request creates the run, enqueues the job and then writes PENDING.
\* If the queue refuses, or the process dies, it goes no further.
CreateRun(j) ==
    /\ call[j] = "create_run" /\ call' = [call EXCEPT ![j] = "enqueue"]
    /\ run' = [run EXCEPT ![j] = "queued"]
    /\ UNCHANGED <<base, doc, job, sync, meters, w, up, crossed, overtaken, trouble>>

Enqueue(j) ==
    /\ call[j] = "enqueue" /\ call' = [call EXCEPT ![j] = "pending"]
    /\ job' = [job EXCEPT ![j].state = "pending"]
    /\ UNCHANGED <<base, doc, run, sync, meters, w, up, crossed, overtaken, trouble>>

WritePending(j) ==
    /\ call[j] = "pending" /\ call' = [call EXCEPT ![j] = "done"]
    /\ sync' = [job |-> j, status |-> "pending"]
    /\ overtaken' = IF job[j].attempts > 0 THEN overtaken \cup {j} ELSE overtaken
    /\ UNCHANGED <<base, doc, job, run, meters, w, up, crossed, trouble>>

Abandon(j) ==
    /\ call[j] \in {"enqueue", "pending"} /\ call' = [call EXCEPT ![j] = "dead"] /\ Trouble
    /\ UNCHANGED <<base, doc, job, run, sync, meters, w, up, crossed, overtaken>>

-----------------------------------------------------------------------------
\* register_document: the base must be there, and the content new (a unique key).
MutRefuses(c) == ~base
Refuses(c) == ~base \/ doc[c] # None

\* process_next
Claim(x, j) ==
    /\ w[x] = Idle /\ job[j].state = "pending"
    /\ job' = [job EXCEPT ![j] = [state |-> "running", attempts |-> @.attempts + 1]]
    /\ w' = [w EXCEPT ![x] = [Idle EXCEPT !.at = "running", !.job = j]]
    /\ crossed' = IF On(j) # {} THEN crossed \cup {j} ELSE crossed
    /\ UNCHANGED <<base, doc, call, run, sync, meters, up, overtaken, trouble>>

UpdateSyncState(x) ==
    /\ w[x].at \in {"running", "state"}
    /\ sync' = [job |-> w[x].job, status |-> IF w[x].at = "running" THEN "running" ELSE w[x].verdict]
    /\ w' = [w EXCEPT ![x] = IF @.at = "running" THEN [@ EXCEPT !.at = "documents"] ELSE Idle]
    /\ UNCHANGED <<base, doc, call, job, run, meters, up, crossed, overtaken, trouble>>

\* One document after the other: what was registered stays when a later one fails.
SyncDocument(x) ==
    LET c == Batch[w[x].job][w[x].next] IN
    /\ w[x].at = "documents" /\ w[x].next <= Len(Batch[w[x].job])
    /\ IF Refuses(c) THEN doc' = doc /\ w' = [w EXCEPT ![x].at = "reject"]
                     ELSE /\ doc' = [doc EXCEPT ![c] = w[x].job]
                          /\ w' = [w EXCEPT ![x].next = @ + 1]
    /\ UNCHANGED <<base, call, job, run, sync, meters, up, crossed, overtaken, trouble>>

BillDocuments(x) ==
    /\ w[x].at = "documents" /\ w[x].next > Len(Batch[w[x].job])
    /\ meters' = [meters EXCEPT ![w[x].job] = @ + 1] /\ w' = [w EXCEPT ![x].at = "ack"]
    /\ UNCHANGED <<base, doc, call, job, run, sync, up, crossed, overtaken, trouble>>

Trip(x) == /\ w[x].at = "documents" /\ w' = [w EXCEPT ![x].at = "reject"] /\ Trouble
           /\ UNCHANGED <<base, doc, call, job, run, sync, meters, up, crossed, overtaken>>

\* ack and reject write over whatever has become of the job meanwhile.
Retried(j) == IF job[j].attempts < MaxAttempts THEN "pending" ELSE "dead"
Answer(x) ==
    LET j == w[x].job IN
    /\ w[x].at \in {"ack", "reject"}
    /\ job' = [job EXCEPT ![j].state = IF w[x].at = "ack" THEN "succeeded" ELSE Retried(j)]
    /\ w' = [w EXCEPT ![x].at = "run", ![x].verdict = IF w[x].at = "ack" THEN "succeeded" ELSE "failed"]
    /\ UNCHANGED <<base, doc, call, run, sync, meters, up, crossed, overtaken, trouble>>

MutAfterRun(x) == IF w[x].verdict = "failed" THEN Idle ELSE [w[x] EXCEPT !.at = "state"]
AfterRun(x) == [w[x] EXCEPT !.at = "state"]
MarkRun(x) ==
    /\ w[x].at = "run" /\ run' = [run EXCEPT ![w[x].job] = w[x].verdict]
    /\ w' = [w EXCEPT ![x] = AfterRun(x)]
    /\ UNCHANGED <<base, doc, call, job, sync, meters, up, crossed, overtaken, trouble>>

WorkerDies(x) ==
    /\ w[x] # Idle /\ w' = [w EXCEPT ![x] = Idle] /\ Trouble
    /\ crossed' = crossed \cup {w[x].job}
    /\ UNCHANGED <<base, doc, call, job, run, sync, meters, up, overtaken>>

\* reap_expired_leases, of a job whose worker has died or is slow.
ReapLease(j) ==
    /\ job[j].state = "running" /\ job' = [job EXCEPT ![j].state = Retried(j)]
    /\ IF On(j) # {} THEN Trouble ELSE trouble' = trouble
    /\ crossed' = crossed \cup {j}
    /\ UNCHANGED <<base, doc, call, run, sync, meters, w, up, overtaken>>

-----------------------------------------------------------------------------
\* register_knowledge_document: the object, its content, the embeddings and
\* their meters, and the document last.
MutUploadOrder == [none |-> "content", content |-> "embeddings", embeddings |-> "document",
                   document |-> "usage", usage |-> "done"]
UploadOrder == [none |-> "content", content |-> "embeddings", embeddings |-> "usage",
                usage |-> "document", document |-> "done"]

Advance(u) == /\ up[u].pc \in DOMAIN UploadOrder
              /\ UNCHANGED <<call, job, run, sync, meters, w, crossed, overtaken>>
To(u) == [up EXCEPT ![u].pc = UploadOrder[@]]

Upload(u, c) ==
    /\ Advance(u) /\ up[u].pc = None /\ up' = [To(u) EXCEPT ![u].content = c]
    /\ UNCHANGED <<base, doc, trouble>>

StoreContent(u) == /\ Advance(u) /\ up[u].pc = "content" /\ up' = [To(u) EXCEPT ![u].stored = TRUE]
                   /\ UNCHANGED <<base, doc, trouble>>

EmbedChunks(u) == /\ Advance(u) /\ up[u].pc = "embeddings" /\ up' = To(u)
                  /\ UNCHANGED <<base, doc, trouble>>

RecordUsage(u) == /\ Advance(u) /\ up[u].pc = "usage" /\ up' = [To(u) EXCEPT ![u].metered = TRUE]
                  /\ UNCHANGED <<base, doc, trouble>>

RegisterDocument(u) ==
    /\ Advance(u) /\ up[u].pc = "document"
    /\ IF Refuses(up[u].content)
         THEN doc' = doc /\ up' = [up EXCEPT ![u].pc = "failed"]
         ELSE doc' = [doc EXCEPT ![up[u].content] = u] /\ up' = To(u)
    /\ UNCHANGED <<base, trouble>>

\* The scan refuses the content, the embedding gateway fails, the process dies.
FailUpload(u) ==
    /\ Advance(u) /\ up[u].pc # None /\ up' = [up EXCEPT ![u].pc = "failed"] /\ Trouble
    /\ UNCHANGED <<base, doc>>

\* delete_for_tenant, in one transaction.
DeleteForTenant == /\ base /\ base' = FALSE /\ doc' = [c \in Contents |-> None]
                   /\ UNCHANGED <<call, job, run, sync, meters, w, up, crossed, overtaken, trouble>>

-----------------------------------------------------------------------------
Next == \/ \E j \in Jobs : CreateRun(j) \/ Enqueue(j) \/ WritePending(j) \/ Abandon(j) \/ ReapLease(j)
        \/ \E x \in Workers : \/ \E j \in Jobs : Claim(x, j)
                              \/ UpdateSyncState(x) \/ SyncDocument(x) \/ BillDocuments(x)
                              \/ Trip(x) \/ Answer(x) \/ MarkRun(x) \/ WorkerDies(x)
        \/ \E u \in Uploads : \/ \E c \in Contents : Upload(u, c)
                              \/ StoreContent(u) \/ EmbedChunks(u) \/ RecordUsage(u)
                              \/ RegisterDocument(u) \/ FailUpload(u)
        \/ DeleteForTenant

Spec == Init /\ [][Next]_vars

-----------------------------------------------------------------------------
\* A sync run succeeds only when its own job has put every document of the
\* batch into the base, and its documents are billed exactly once, however
\* often the job was taken and whoever else brought the same content.
SucceededIsIndexed == \A j \in Jobs : run[j] = "succeeded" =>
    meters[j] = 1 /\ (base => \A i \in 1..Len(Batch[j]) : doc[Batch[j][i]] = j)

\* When everybody is done with a job the connector says of it what its run
\* says, unless executions crossed or the worker was faster than the request.
StateIsLastWord == \A j \in Jobs \ (crossed \cup overtaken) :
    sync.job = j /\ call[j] \in {"done", "dead"} /\ On(j) = {} /\ run[j] # "queued"
        => sync.status = run[j]

\* A document a person uploaded has its content in the object store, and its
\* embeddings are billed; nothing is left of it once the tenant's is deleted.
UploadedIsWhole == \A c \in Contents : doc[c] \in Uploads =>
    base /\ up[doc[c]].stored /\ up[doc[c]].metered
=============================================================================
