---------------------------- MODULE StoredObjects ----------------------------
(***************************************************************************)
(* Files kept for a tenant: a row of the storage catalog, the content in     *)
(* the bucket and, for what a run publishes, an artifact that names the row. *)
(* The three are written one after another by the worker that publishes the  *)
(* files of a sandbox (agent/runtime.py), by the upload requests, by a       *)
(* deletion and by the retention cleanup (app.py, storage/), and nothing     *)
(* holds them together but the order of these writes and what is undone      *)
(* when one fails.                                                           *)
(***************************************************************************)
EXTENDS Naturals, FiniteSets

CONSTANTS Objects,      \* ids of catalog rows, handed out in ascending order
          Paths,        \* files under /workspace/artifacts, in listing order
          MaxTrouble,   \* failing bucket calls and workers that die
          MaxCommands,  \* sandbox commands of the run
          Uploads, Raws \* whether files are uploaded in one request, in two

VARIABLES kind,      \* what the guardrails and the scanner say of each file
          row,       \* catalog: none, active, deleted
          due,       \* retention_expires_at: never, later, past
          blob,      \* the bucket holds the object's content
          art,       \* artifacts of the run: the path and the row they name
          saved,     \* promoted_sandbox_artifact_paths of the saved state
          approved,  \* the artifact guardrail's key is approved for the run
          w,         \* the worker: pc, files to publish, row at hand, promoted
          u,         \* a request that uploads: pc and row
          p,         \* a request that uploads to a row registered before
          d,         \* a request that deletes: pc and row
          k,         \* the retention cleanup: pc, rows to look at
          held,      \* rows under a legal hold
          touched,   \* rows a deletion or a cleanup has worked on
          raced,     \* those of them somebody was uploading to meanwhile
          commands, trouble

vars == <<kind, row, due, blob, art, saved, approved, w, u, p, d, k, held,
          touched, raced, commands, trouble>>
others == <<kind, due, held, p, k>>   \* what no step of worker, upload, delete changes

Kinds == {"clean", "ask", "blocked", "infected", "big"}
Rest == 0
Idle == [pc |-> "idle", obj |-> Rest]

Init == /\ kind \in [Paths -> Kinds]
        /\ row = [o \in Objects |-> "none"] /\ due = [o \in Objects |-> "never"]
        /\ blob = [o \in Objects |-> FALSE] /\ art = {}
        /\ saved = {} /\ approved = FALSE
        /\ w = [pc |-> "idle", todo |-> {}, obj |-> Rest, done |-> {}]
        /\ u = Idle /\ p = Idle /\ d = Idle /\ k = [pc |-> "idle", todo |-> {}]
        /\ held = {} /\ touched = {} /\ raced = {} /\ commands = 0 /\ trouble = 0

Fault == trouble < MaxTrouble /\ trouble' = trouble + 1

\* Uploads at work on a row.
InFlight == {w.obj} \cup (IF u.pc \in {"content", "mark", "undo"} THEN {u.obj} ELSE {})
                    \cup (IF p.pc \in {"registered", "put"} THEN {p.obj} ELSE {})
Touch(o) == /\ touched' = touched \cup {o}
            /\ raced' = IF o \in InFlight THEN raced \cup {o} ELSE raced

Active(o) == row[o] = "active"
Least(S) == CHOOSE x \in S : \A y \in S : x <= y

\* register: a new row.
Register(o) == /\ row[o] = "none" /\ \A q \in Objects : q < o => row[q] # "none"
               /\ row' = [row EXCEPT ![o] = "active"]

\* mark_deleted and mark_uploaded refuse a row that is deleted.
MarkDeleted(o) == Active(o) /\ row' = [row EXCEPT ![o] = "deleted"]

-----------------------------------------------------------------------------
\* The worker publishes the files of its sandbox (_promote_sandbox_artifacts).

At(pc, todo, obj, done) == w' = [pc |-> pc, todo |-> todo, obj |-> obj, done |-> done]

\* After a sandbox command that ended well: the files not published so far.
Discover ==
    /\ w.pc = "idle" /\ commands < MaxCommands
    /\ commands' = commands + 1
    /\ At("next", Paths \ saved, Rest, saved)
    /\ UNCHANGED <<kind, row, due, blob, art, saved, approved, u, p, d, k, held,
                   touched, raced, trouble>>

\* A file beyond the size limit ends the action; another gets a row.
NextFile ==
    /\ w.pc = "next" /\ w.todo # {}
    /\ IF kind[Least(w.todo)] = "big"
       THEN At("failed", {}, Rest, w.done) /\ UNCHANGED row
       ELSE \E o \in Objects : Register(o) /\ At("guard", w.todo, o, w.done)
    /\ UNCHANGED <<others, blob, art, saved, approved, u, d, touched, raced, commands, trouble>>

\* The pause for an approval that forgets what was published so far.
MutGuard ==
    /\ w.pc = "guard"
    /\ LET file == kind[Least(w.todo)]
           refused == file = "blocked" \/ (file = "ask" /\ ~approved) IN
         IF ~refused THEN At("scan", w.todo, w.obj, w.done) /\ UNCHANGED <<row, saved>>
         ELSE \/ /\ MarkDeleted(w.obj)
                 /\ At(IF file = "ask" THEN "waiting" ELSE "failed", {}, Rest, saved)
                 /\ UNCHANGED saved
              \/ ~Active(w.obj) /\ At("failed", {}, Rest, w.done) /\ UNCHANGED <<row, saved>>
    /\ UNCHANGED <<others, blob, art, approved, u, d, touched, raced, commands, trouble>>

\* The artifact guardrail: a refused file's row is deleted; the run ends, or
\* waits for the approval with its state saved.
Guard ==
    /\ w.pc = "guard"
    /\ LET file == kind[Least(w.todo)]
           refused == file = "blocked" \/ (file = "ask" /\ ~approved) IN
         IF ~refused THEN At("scan", w.todo, w.obj, w.done) /\ UNCHANGED <<row, saved>>
         ELSE \/ /\ MarkDeleted(w.obj)
                 /\ saved' = IF file = "ask" THEN w.done ELSE saved
                 /\ At(IF file = "ask" THEN "waiting" ELSE "failed", {}, Rest, w.done)
              \/ ~Active(w.obj) /\ At("failed", {}, Rest, w.done) /\ UNCHANGED <<row, saved>>
    /\ UNCHANGED <<others, blob, art, approved, u, d, touched, raced, commands, trouble>>

MutScan ==
    /\ w.pc = "scan"
    /\ At("upload", w.todo, w.obj, w.done)
    /\ UNCHANGED <<others, row, blob, art, saved, approved, u, d, touched, raced, commands, trouble>>

\* The content scanner.
Scan ==
    /\ w.pc = "scan"
    /\ IF kind[Least(w.todo)] # "infected"
       THEN At("upload", w.todo, w.obj, w.done) /\ UNCHANGED row
       ELSE /\ IF Active(w.obj) THEN MarkDeleted(w.obj) ELSE UNCHANGED row
            /\ At("failed", {}, Rest, w.done)
    /\ UNCHANGED <<others, blob, art, saved, approved, u, d, touched, raced, commands, trouble>>

\* The artifact is created before its content is in the bucket.
MutUpload ==
    /\ w.pc = "upload"
    /\ art' = art \cup {[path |-> Least(w.todo), obj |-> w.obj]}
    /\ \/ /\ blob' = [blob EXCEPT ![w.obj] = TRUE]
          /\ At("record", w.todo, w.obj, w.done) /\ UNCHANGED trouble
       \/ Fault /\ At("failed", {}, Rest, w.done) /\ UNCHANGED blob
    /\ UNCHANGED <<others, row, saved, approved, u, d, touched, raced, commands>>

\* A failing upload ends the action and leaves the row.
Upload ==
    /\ w.pc = "upload"
    /\ \/ /\ blob' = [blob EXCEPT ![w.obj] = TRUE]
          /\ At("record", w.todo, w.obj, w.done) /\ UNCHANGED trouble
       \/ Fault /\ At("failed", {}, Rest, w.done) /\ UNCHANGED blob
    /\ UNCHANGED <<others, row, art, saved, approved, u, d, touched, raced, commands>>

CreateArtifact ==
    /\ w.pc = "record"
    /\ art' = art \cup {[path |-> Least(w.todo), obj |-> w.obj]}
    /\ At("next", w.todo \ {Least(w.todo)}, Rest, w.done \cup {Least(w.todo)})
    /\ UNCHANGED <<others, row, blob, saved, approved, u, d, touched, raced, commands, trouble>>

\* The state is saved when the action's observation is committed, with an
\* error or without.
Commit ==
    /\ \/ w.pc = "failed"
       \/ w.pc = "next" /\ w.todo = {}
    /\ saved' = w.done
    /\ At("idle", {}, Rest, w.done)
    /\ UNCHANGED <<others, row, blob, art, approved, u, d, touched, raced, commands, trouble>>

\* The approval grants the guardrail's key for the whole run and goes on with
\* the files that are left; a rejection ends the run.
Approve ==
    /\ w.pc = "waiting"
    /\ \/ approved' = TRUE /\ At("next", Paths \ saved, Rest, saved)
       \/ UNCHANGED approved /\ At("ended", {}, Rest, {})
    /\ UNCHANGED <<others, row, blob, art, saved, u, d, touched, raced, commands, trouble>>

\* The worker dies; the run goes on from its saved state.
WorkerDies ==
    /\ w.pc \notin {"idle", "waiting", "ended"} /\ Fault
    /\ At("idle", {}, Rest, saved)
    /\ UNCHANGED <<others, row, blob, art, saved, approved, u, d, touched, raced, commands>>

-----------------------------------------------------------------------------
\* POST /api/uploads: row, scan, content, row again; what fails is undone.

Uploading(pc, obj) == u' = [pc |-> pc, obj |-> obj]
uUNCHANGED == <<others, art, saved, approved, w, d, touched, raced, commands>>

BeginUpload ==
    /\ Uploads /\ u.pc = "idle"
    /\ \E o \in Objects : Register(o) /\ Uploading("content", o)
    /\ UNCHANGED <<uUNCHANGED, blob, trouble>>

PutUpload ==
    /\ u.pc = "content"
    /\ \/ /\ blob' = [blob EXCEPT ![u.obj] = TRUE]
          /\ Uploading("mark", u.obj) /\ UNCHANGED trouble
       \/ Uploading("undo", u.obj) /\ UNCHANGED <<blob, trouble>>   \* rejected by the scanner
       \/ Fault /\ Uploading("undo", u.obj) /\ UNCHANGED blob
    /\ UNCHANGED <<uUNCHANGED, row>>

MarkUploaded ==
    /\ u.pc = "mark"
    /\ Uploading(IF Active(u.obj) THEN "ok" ELSE "undo", u.obj)
    /\ UNCHANGED <<uUNCHANGED, row, blob, trouble>>

\* Only the row is taken back.
MutUndoContent ==
    /\ u.pc = "undo"
    /\ Uploading("undo_row", u.obj)
    /\ UNCHANGED <<uUNCHANGED, row, blob, trouble>>

UndoContent ==
    /\ u.pc = "undo"
    /\ \/ /\ blob' = [blob EXCEPT ![u.obj] = FALSE] /\ UNCHANGED trouble
          /\ Uploading("undo_row", u.obj)
       \/ Fault /\ UNCHANGED blob /\ Uploading("leave_row", u.obj)
    /\ UNCHANGED <<uUNCHANGED, row>>

UndoRow ==
    /\ u.pc \in {"undo_row", "leave_row"}
    /\ IF Active(u.obj) THEN MarkDeleted(u.obj) ELSE UNCHANGED row
    /\ Uploading(IF u.pc = "undo_row" THEN "refused" ELSE "left", u.obj)
    /\ UNCHANGED <<uUNCHANGED, blob, trouble>>

\* POST /api/storage/objects, then PUT .../content: two requests.
RegisterRaw ==
    /\ Raws
    /\ \E o \in Objects : Register(o) /\ \E t \in {"never", "later"} :
           /\ due' = [due EXCEPT ![o] = t]
           /\ p.pc = "idle" /\ p' = [pc |-> "registered", obj |-> o]
    /\ UNCHANGED <<kind, blob, art, saved, approved, w, u, d, k, held, touched, raced,
                   commands, trouble>>

GetRaw ==
    /\ p.pc = "registered" /\ Active(p.obj)
    /\ p' = [p EXCEPT !.pc = "put"]
    /\ UNCHANGED <<kind, row, due, blob, art, saved, approved, w, u, d, k, held,
                   touched, raced, commands, trouble>>

\* The request has found the row; the content follows after the scan.
PutRaw ==
    /\ p.pc = "put"
    /\ p' = [p EXCEPT !.pc = "done"]
    /\ \/ blob' = [blob EXCEPT ![p.obj] = TRUE]
       \/ UNCHANGED blob
    /\ UNCHANGED <<kind, row, due, art, saved, approved, w, u, d, k, held, touched, raced,
                   commands, trouble>>

-----------------------------------------------------------------------------
\* DELETE /api/storage/objects/{id}, of a row found active whose retention is
\* over; whether an agent version refers to it is not modelled: any request
\* may be refused.

BeginDelete(o) ==
    /\ d.pc = "idle" /\ Active(o) /\ due[o] # "later"
    /\ d' = [pc |-> "content", obj |-> o] /\ Touch(o)
    /\ UNCHANGED <<others, row, blob, art, saved, approved, w, u, commands, trouble>>

DeleteContent ==
    /\ d.pc = "content"
    /\ \/ /\ blob' = [blob EXCEPT ![d.obj] = FALSE]
          /\ d' = [d EXCEPT !.pc = "row"] /\ UNCHANGED trouble
       \/ Fault /\ d' = [d EXCEPT !.pc = "done"] /\ UNCHANGED blob
    /\ UNCHANGED <<others, row, art, saved, approved, w, u, touched, raced, commands>>

DeleteRow ==
    /\ d.pc = "row"
    /\ IF Active(d.obj) THEN MarkDeleted(d.obj) ELSE UNCHANGED row
    /\ d' = [d EXCEPT !.pc = "done"]
    /\ UNCHANGED <<others, blob, art, saved, approved, w, u, touched, raced, commands, trouble>>

-----------------------------------------------------------------------------
\* cleanup_expired_objects: the expired rows are listed once; each is checked
\* for a legal hold just before it is deleted.  A row another one has deleted
\* ends the pass.

kUNCHANGED == <<kind, due, art, saved, approved, w, u, p, d, held, commands>>

ListExpired ==
    /\ k.pc = "idle"
    /\ LET found == {o \in Objects : Active(o) /\ due[o] = "past"} IN
         found # {} /\ k' = [pc |-> "look", todo |-> found]
    /\ UNCHANGED <<kUNCHANGED, row, blob, touched, raced, trouble>>

\* _active_legal_holds_for_storage_object
Look ==
    /\ k.pc = "look"
    /\ IF k.todo = {} THEN k' = [k EXCEPT !.pc = "idle"] /\ UNCHANGED <<touched, raced>>
       ELSE IF Least(k.todo) \in held
       THEN k' = [k EXCEPT !.todo = @ \ {Least(@)}] /\ UNCHANGED <<touched, raced>>
       ELSE k' = [k EXCEPT !.pc = "content"] /\ Touch(Least(k.todo))
    /\ UNCHANGED <<kUNCHANGED, row, blob, trouble>>

\* A failing bucket is taken for an object that is gone.
MutCleanContent ==
    /\ k.pc = "content"
    /\ \/ /\ blob' = [blob EXCEPT ![Least(k.todo)] = FALSE] /\ UNCHANGED trouble
       \/ Fault /\ UNCHANGED blob
    /\ k' = [k EXCEPT !.pc = "row"]
    /\ UNCHANGED <<kUNCHANGED, row, touched, raced>>

CleanContent ==
    /\ k.pc = "content"
    /\ \/ /\ blob' = [blob EXCEPT ![Least(k.todo)] = FALSE]
          /\ k' = [k EXCEPT !.pc = "row"] /\ UNCHANGED trouble
       \/ Fault /\ k' = [pc |-> "idle", todo |-> {}] /\ UNCHANGED blob
    /\ UNCHANGED <<kUNCHANGED, row, touched, raced>>

CleanRow ==
    /\ k.pc = "row"
    /\ IF Active(Least(k.todo))
       THEN /\ MarkDeleted(Least(k.todo))
            /\ k' = [pc |-> "look", todo |-> k.todo \ {Least(k.todo)}]
       ELSE k' = [pc |-> "idle", todo |-> {}] /\ UNCHANGED row
    /\ UNCHANGED <<kUNCHANGED, blob, touched, raced, trouble>>

\* A legal hold is placed, and released, on a row the cleanup may meet.
Hold(o) ==
    /\ Active(o) /\ due[o] # "never"
    /\ held' \in {held \cup {o}, held \ {o}} /\ held' # held
    /\ UNCHANGED <<kind, row, due, blob, art, saved, approved, w, u, p, d, k, touched, raced,
                   commands, trouble>>

Expire(o) ==
    /\ due[o] = "later" /\ due' = [due EXCEPT ![o] = "past"]
    /\ UNCHANGED <<kind, row, blob, art, saved, approved, w, u, p, d, k, held, touched, raced,
                   commands, trouble>>

Publish == \/ Discover \/ NextFile \/ Guard \/ Scan \/ Upload \/ CreateArtifact
           \/ Commit \/ Approve \/ WorkerDies
UploadRequest == \/ BeginUpload \/ PutUpload \/ MarkUploaded \/ UndoContent \/ UndoRow
RawRequest == RegisterRaw \/ GetRaw \/ PutRaw
Deletion == (\E o \in Objects : BeginDelete(o)) \/ DeleteContent \/ DeleteRow
Cleanup == ListExpired \/ Look \/ CleanContent \/ CleanRow

Next == \/ Publish \/ UploadRequest \/ RawRequest \/ Deletion \/ Cleanup
        \/ \E o \in Objects : Hold(o) \/ Expire(o)

Spec == Init /\ [][Next]_vars

-----------------------------------------------------------------------------
\* Type correctness.
TypeOK ==
    /\ row \in [Objects -> {"none", "active", "deleted"}]
    /\ due \in [Objects -> {"never", "later", "past"}]
    /\ blob \in [Objects -> BOOLEAN]
    /\ art \subseteq [path: Paths, obj: Objects]
    /\ saved \subseteq Paths /\ w.done \subseteq Paths

\* A file is published once, however often the worker fails on another file,
\* waits for an approval and goes on: only a worker that dies between an
\* artifact and the next save publishes it again (runtime.py:3174).
PublishedOnce ==
    trouble = 0 => \A a, b \in art : a.path = b.path => a = b

\* An artifact's content can be downloaded, whatever failed on the way, until
\* somebody deletes it (runtime.py:3259-3271).
ArtifactHasContent ==
    \A a \in art : a.obj \notin touched => Active(a.obj) /\ blob[a.obj]

\* No file is published, or kept in the bucket, that the guardrails block,
\* that the scanner rejects or that waits for an approval, however the
\* promotion was resumed (runtime.py:3240-3258).
PublishedIsAllowed ==
    \A a \in art : kind[a.path] = "clean" \/ (kind[a.path] = "ask" /\ approved)

\* An upload that was refused leaves neither a row nor content, also when
\* somebody deleted its row meanwhile, unless the bucket fails again while it
\* is taken back (app.create_atomic_upload).
RefusedUploadIsGone ==
    u.pc = "refused" => row[u.obj] = "deleted" /\ ~blob[u.obj]

\* Content in the bucket can be found by its row, and so deleted some day,
\* whichever call of a deletion or of the cleanup failed; only a deletion that
\* meets an upload of the same object may leave content behind
\* (storage/lifecycle.py:65-70).
ContentHasRow ==
    \A o \in Objects :
        blob[o] => \/ Active(o) \/ o \in raced
                   \/ o = u.obj /\ u.pc # "ok"
=============================================================================
