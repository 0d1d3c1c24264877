---------------------------- MODULE SkillPackages ----------------------------
(***************************************************************************)
(* One skill of a tenant (skills/repository.py, skills/service.py): archives *)
(* are imported as immutable versions, evaluated, published and installed in *)
(* workspaces, where a run loads what is installed.  A request is several    *)
(* transactions, so requests overlap and may stop half way; the built-in     *)
(* store and solution packs do all of the steps in one request.              *)
(***************************************************************************)
EXTENDS Naturals

CONSTANTS Versions, Archives,        \* archives people import: <<version, content>>
          Workspaces, Runs,          \* those whose runs load the skill
          Requests,
          PackVersion, PackContent,  \* what the store item and the pack ship
          Risky,                     \* versions that wait for an approval
          MaxTrouble                 \* requests that stop half way

VARIABLES rows,     \* versions with a manifest row
          entry,    \* the current version of the skill and its status
          pkg,      \* content of each version's package
          status,   \* status of each version's package
          ran,      \* outcomes of the evaluations recorded for each version
          byId,     \* versions published through the skill's id
          inst,     \* what each workspace has installed
          allowed,  \* workspaces where an administrator turned the skill on
          halted,   \* workspaces where an installation stopped half way
          req, run, trouble

store == <<rows, entry, pkg, status, ran, byId>>
vars == <<rows, entry, pkg, status, ran, byId, inst, allowed, halted, req, run, trouble>>

None == "none"
NoVersion == 0
NoInst == [v |-> NoVersion, c |-> None, kind |-> None, on |-> FALSE]
NoPin == <<NoVersion, None>>
NoRun == [pc |-> None, ref |-> NoVersion, seen |-> NoPin, ctx |-> NoPin, files |-> NoPin]
Rest == [op |-> None, pc |-> None, v |-> NoVersion, c |-> None, w |-> None]

Init == /\ rows = {} /\ entry = [v |-> NoVersion, status |-> None]
        /\ pkg = [v \in Versions |-> None] /\ status = [v \in Versions |-> None]
        /\ ran = [v \in Versions |-> {}] /\ byId = {}
        /\ inst = [w \in Workspaces |-> NoInst] /\ allowed = {} /\ halted = {}
        /\ req = [r \in Requests |-> Rest]
        /\ run = [w \in Workspaces |-> NoRun] /\ trouble = 0

Pin(w) == <<inst[w].v, inst[w].c>>
Goto(r, pc) == req' = [req EXCEPT ![r].pc = pc]
Finish(r) == req' = [req EXCEPT ![r] = Rest]
Begin(r, op, pc, v, c, w) ==
    req[r] = Rest /\ req' = [req EXCEPT ![r] = [op |-> op, pc |-> pc, v |-> v, c |-> c, w |-> w]]

-----------------------------------------------------------------------------
\* The archive has passed the parser and the scanner: import_zip, import_github.
Import(r, v, c) ==
    /\ pkg[v] = None
    /\ Begin(r, "import", IF v \in rows THEN "insert" ELSE "register", v, c, None)
    /\ UNCHANGED <<store, inst, allowed, halted, run, trouble>>

\* register_for_tenant: the new version becomes the current one, as a draft.
Register(r) ==
    LET v == req[r].v
    IN  /\ req[r].pc = "register"
        /\ IF v \in rows
           THEN Finish(r) /\ UNCHANGED <<rows, entry>>
           ELSE /\ rows' = rows \cup {v}
                /\ entry' = [v |-> v, status |-> "draft"]
                /\ Goto(r, IF req[r].op = "pack" THEN "by id" ELSE "insert")
        /\ UNCHANGED <<pkg, status, ran, byId, inst, allowed, halted, run, trouble>>

\* The package and its files, once per version: register_package_for_tenant.
MutInsertable(v) == TRUE
Insertable(v) == pkg[v] = None

Insert(r) ==
    LET v == req[r].v
    IN  /\ req[r].pc = "insert"
        /\ IF Insertable(v)
           THEN /\ pkg' = [pkg EXCEPT ![v] = req[r].c]
                /\ status' = [status EXCEPT ![v] = "draft"]
                /\ IF req[r].op = "store" THEN Goto(r, "judge") ELSE Finish(r)
           ELSE Finish(r) /\ UNCHANGED <<pkg, status>>
        /\ UNCHANGED <<rows, entry, ran, byId, inst, allowed, halted, run, trouble>>

Evaluate(r, v) ==
    /\ pkg[v] # None
    /\ Begin(r, "evaluate", "judge", v, None, None)
    /\ UNCHANGED <<store, inst, allowed, halted, run, trouble>>

\* The evaluation ends and is recorded; the store publishes with its own run.
Judge(r) ==
    /\ req[r].pc = "judge"
    /\ \E outcome \in {"passed", "failed"} :
           /\ ran' = [ran EXCEPT ![req[r].v] = @ \cup {outcome}]
           /\ IF req[r].op = "store" /\ outcome = "passed"
              THEN Goto(r, "publish") ELSE Finish(r)
    /\ UNCHANGED <<rows, entry, pkg, status, byId, inst, allowed, halted, run, trouble>>

\* assert_publishable on the evaluation named, or the latest one.
MutGate(v) == ran[v] # {}
Gate(v) == "passed" \in ran[v]

Publish(r, v) ==
    /\ pkg[v] # None /\ Gate(v)
    /\ Begin(r, "publish", "publish", v, None, None)
    /\ UNCHANGED <<store, inst, allowed, halted, run, trouble>>

\* _update_package_status: the package, its row, the entry if it is current.
SetStatus(v, to) ==
    /\ status' = [status EXCEPT ![v] = to]
    /\ entry' = IF entry.v = v THEN [entry EXCEPT !.status = to] ELSE entry

Published(r) ==
    /\ req[r].pc = "publish"
    /\ SetStatus(req[r].v, "published")
    /\ IF req[r].op = "store" THEN Goto(r, "write") ELSE Finish(r)
    /\ UNCHANGED <<rows, pkg, ran, byId, inst, allowed, halted, run, trouble>>

Disable(v) ==
    /\ pkg[v] # None
    /\ SetStatus(v, "disabled")
    /\ UNCHANGED <<rows, pkg, ran, byId, inst, allowed, halted, req, run, trouble>>

\* publish(skill_id): whatever version is current, with no evaluation.
PublishCurrent ==
    /\ entry.v # NoVersion
    /\ IF pkg[entry.v] # None
       THEN SetStatus(entry.v, "published") /\ byId' = byId \cup {entry.v}
       ELSE /\ entry' = [entry EXCEPT !.status = "published"]
            /\ UNCHANGED <<status, byId>>
    /\ UNCHANGED <<rows, pkg, ran, inst, halted, run, trouble>>

PublishById == PublishCurrent /\ UNCHANGED <<allowed, req>>

-----------------------------------------------------------------------------
Installable(v) == v # NoVersion /\ (IF pkg[v] # None THEN status[v] = "published"
                                    ELSE entry.v = v /\ entry.status = "published")
AsPackage(v) == [v |-> v, c |-> pkg[v], kind |-> "package", on |-> TRUE]
Installed(v) == IF pkg[v] # None THEN AsPackage(v)
                ELSE [v |-> v, c |-> None, kind |-> "manifest", on |-> TRUE]

\* install, upgrade and rollback read the package and then write the pin: an
\* upgrade names a version, an installation may take the current one.
Install(r, w) ==
    /\ \E v \in Versions : /\ Installable(v)
                           /\ entry.v # v => pkg[v] # None
                           /\ Begin(r, "install", "write", v, pkg[v], w)
    /\ UNCHANGED <<store, inst, allowed, halted, run, trouble>>

Upgrade(r, w) ==
    /\ inst[w] # NoInst
    /\ \E v \in Versions : /\ pkg[v] # None /\ status[v] = "published"
                           /\ Begin(r, "install", "write", v, pkg[v], w)
    /\ UNCHANGED <<store, inst, allowed, halted, run, trouble>>

\* _persist_package_installation: whatever was there, the pin is enabled.
Write(r) ==
    LET v == req[r].v   w == req[r].w   c == req[r].c
    IN  /\ req[r].pc = "write" /\ req[r].op \in {"install", "store"}
        /\ inst' = [inst EXCEPT ![w] = [v |-> v, c |-> c, on |-> TRUE,
                                        kind |-> IF c = None THEN "manifest" ELSE "package"]]
        /\ IF req[r].op = "store" /\ v \in Risky
           THEN allowed' = allowed \ {w} /\ Goto(r, "disable")
           ELSE allowed' = allowed \cup {w} /\ Finish(r)
        /\ UNCHANGED <<store, halted, run, trouble>>

SetEnabled(w, on) ==
    /\ inst[w] # NoInst
    /\ inst' = [inst EXCEPT ![w].on = on]
    /\ allowed' = IF on THEN allowed \cup {w} ELSE allowed \ {w}
    /\ UNCHANGED <<store, halted, req, run, trouble>>

Uninstall(w) ==
    /\ inst[w] # NoInst
    /\ inst' = [inst EXCEPT ![w] = NoInst]
    /\ allowed' = allowed \ {w}
    /\ UNCHANGED <<store, halted, req, run, trouble>>

-----------------------------------------------------------------------------
\* The preflight of install_builtin_store_item, then its first missing step.
NextStep(w) ==
    CASE pkg[PackVersion] = None /\ PackVersion \notin rows -> "register"
      [] pkg[PackVersion] = None -> "insert"
      [] status[PackVersion] # "published" -> "judge"
      [] inst[w] = NoInst -> "write"
      [] OTHER -> "disable"

StoreInstall(r, w) ==
    /\ pkg[PackVersion] \in {None, PackContent}
    /\ inst[w] = NoInst \/ (inst[w].kind = "package" /\ inst[w].c = PackContent)
    /\ inst[w] = NoInst \/ NextStep(w) = "disable"
    /\ Begin(r, "store", NextStep(w), PackVersion, PackContent, w)
    /\ UNCHANGED <<store, inst, allowed, halted, run, trouble>>

\* install_for_tenant: the version the pack ships is registered, but what is
\* published and installed is the current one.
PackInstall(r, w) ==
    /\ inst[w] = NoInst
    /\ Begin(r, "pack", IF PackVersion \in rows THEN "by id" ELSE "register",
             PackVersion, PackContent, w)
    /\ UNCHANGED <<store, inst, allowed, halted, run, trouble>>

PackPublish(r) ==
    /\ req[r].pc = "by id"
    /\ PublishCurrent
    /\ Goto(r, "write")
    /\ UNCHANGED allowed

PackWrite(r) ==
    LET w == req[r].w
    IN  /\ req[r].pc = "write" /\ req[r].op = "pack"
        /\ IF Installable(entry.v)
           THEN /\ inst' = [inst EXCEPT ![w] = Installed(entry.v)]
                /\ IF PackVersion \in Risky
                   THEN allowed' = allowed \ {w} /\ Goto(r, "disable")
                   ELSE allowed' = allowed \cup {w} /\ Finish(r)
           ELSE Finish(r) /\ UNCHANGED <<inst, allowed>>
        /\ UNCHANGED <<store, halted, run, trouble>>

\* A skill that wants an approval is left disabled, one that was found in
\* place too: both installers.
MutUnfinished(w) == inst[w].on /\ w \notin halted
Unfinished(w) == inst[w].on

HoldBack(r) ==
    LET w == req[r].w
    IN  /\ req[r].pc = "disable"
        /\ IF PackVersion \in Risky /\ Unfinished(w)
           THEN inst' = [inst EXCEPT ![w].on = FALSE] /\ allowed' = allowed \ {w}
           ELSE UNCHANGED <<inst, allowed>>
        /\ halted' = halted \ {w}
        /\ Finish(r)
        /\ UNCHANGED <<store, run, trouble>>

\* rollback_installation: the pack's skills are disabled where it put them.
PackRollback(w) ==
    /\ inst[w].on
    /\ inst' = [inst EXCEPT ![w].on = FALSE] /\ allowed' = allowed \ {w}
    /\ UNCHANGED <<store, halted, req, run, trouble>>

\* The process dies; an installation it has written is not yet held back.
Stop(r) ==
    /\ trouble < MaxTrouble /\ trouble' = trouble + 1
    /\ req[r] # Rest /\ Finish(r)
    /\ halted' = halted \cup {w \in {req[r].w} : req[r].pc = "disable"}
    /\ UNCHANGED <<store, inst, allowed, run>>

-----------------------------------------------------------------------------
\* _resolve_complete_package_pin.
Resolved(w) == /\ inst[w].on /\ inst[w].kind = "package"
               /\ status[inst[w].v] = "published" /\ pkg[inst[w].v] = inst[w].c

\* A request invokes the installed version: invoke_workspace_skill.
Invoke(w) ==
    /\ run[w] = NoRun
    /\ entry.status = "published" /\ inst[w].on /\ inst[w].kind = "package"
    /\ run' = [run EXCEPT ![w].pc = "validate", ![w].ref = inst[w].v]
    /\ UNCHANGED <<store, inst, allowed, halted, req, trouble>>

\* _validate_explicit_skill_refs: the summary names the version asked for, and
\* a run that has loaded the skill before finds it unchanged.
Validate(w) ==
    /\ run[w].pc = "validate"
    /\ IF Resolved(w) /\ inst[w].v = run[w].ref /\ run[w].ctx \in {NoPin, Pin(w)}
       THEN run' = [run EXCEPT ![w].pc = IF run[w].ctx = NoPin THEN "load" ELSE "loaded",
                               ![w].seen = Pin(w)]
       ELSE run' = [run EXCEPT ![w] = NoRun]
    /\ UNCHANGED <<store, inst, allowed, halted, req, trouble>>

\* load_skill: the pins of the summary are expected.
MutExpected(w) == TRUE
Expected(w) == run[w].seen = Pin(w)

Load(w) ==
    /\ run[w].pc = "load"
    /\ run' = [run EXCEPT ![w] = IF Resolved(w) /\ Expected(w)
                                 THEN [@ EXCEPT !.pc = "files", !.ctx = Pin(w)]
                                 ELSE NoRun]
    /\ UNCHANGED <<store, inst, allowed, halted, req, trouble>>

\* materialization_plan: the files of what is installed now.
Materialize(w) ==
    /\ run[w].pc = "files"
    /\ run' = [run EXCEPT ![w] = IF Resolved(w)
                                 THEN [@ EXCEPT !.pc = "loaded", !.files = Pin(w)]
                                 ELSE NoRun]
    /\ UNCHANGED <<store, inst, allowed, halted, req, trouble>>

\* The run is executed again, or is over.
Continue(w) ==
    /\ run[w].pc = "loaded"
    /\ \/ run' = [run EXCEPT ![w].pc = "validate"]
       \/ run' = [run EXCEPT ![w] = NoRun]
    /\ UNCHANGED <<store, inst, allowed, halted, req, trouble>>

-----------------------------------------------------------------------------
Next == \/ \E r \in Requests, a \in Archives : Import(r, a[1], a[2])
        \/ \E r \in Requests, v \in Versions : Evaluate(r, v) \/ Publish(r, v)
        \/ \E r \in Requests : \/ Register(r) \/ Insert(r) \/ Judge(r) \/ Published(r)
                               \/ Write(r) \/ PackPublish(r) \/ PackWrite(r)
                               \/ HoldBack(r) \/ Stop(r)
        \/ \E r \in Requests, w \in Workspaces : \/ Install(r, w) \/ Upgrade(r, w)
                                                 \/ StoreInstall(r, w) \/ PackInstall(r, w)
        \/ \E v \in Versions : Disable(v)
        \/ PublishById
        \/ \E w \in Workspaces : \/ \E on \in BOOLEAN : SetEnabled(w, on)
                                 \/ Uninstall(w) \/ PackRollback(w)
        \/ \E w \in Runs : \/ Invoke(w) \/ Validate(w) \/ Load(w)
                         \/ Materialize(w) \/ Continue(w)

Spec == Init /\ [][Next]_vars

-----------------------------------------------------------------------------
\* A package is published only after an evaluation of that version passed,
\* unless the skill was published through its id, which asks for none.
GateKept == \A v \in Versions : status[v] = "published" => "passed" \in ran[v] \/ v \in byId

\* What a workspace has pinned is what the registry holds for that version,
\* whatever is imported, at once or again, under the same version.
PinnedContent == \A w \in Workspaces : inst[w].kind = "package" => pkg[inst[w].v] = inst[w].c

\* A skill that wants an approval is on only where an administrator turned it
\* on, while its installer is at work, or after that stopped half way; doing
\* the store's installation again puts that right.
RiskyWaits == \A w \in Workspaces :
    inst[w].on /\ inst[w].v \in Risky =>
        \/ w \in allowed \/ w \in halted
        \/ \E r \in Requests : req[r].pc = "disable" /\ req[r].w = w

\* The instructions a run works by are those of the version it was started
\* with, and of one content, whatever is upgraded while it loads them.
ContextIsPinned == \A w \in Workspaces :
    run[w].ctx # NoPin => run[w].ctx[1] = run[w].ref /\ run[w].ctx = run[w].seen

\* The files a run finds in its sandbox belong to the instructions it works
\* by: one run does not switch a skill's content.
FilesMatchContext == \A w \in Workspaces :
    run[w].files # NoPin => run[w].files = run[w].ctx
=============================================================================
