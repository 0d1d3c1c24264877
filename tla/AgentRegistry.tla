--------------------------- MODULE AgentRegistry ---------------------------
(***************************************************************************)
(* One reusable agent: its immutable numbered versions, the evaluation     *)
(* gate a version passes before it is published, the runs it is started    *)
(* for, and the API key that lets an outside caller start them.  Every     *)
(* request is a sequence of separate database transactions, and several    *)
(* requests run at once.                                                   *)
(***************************************************************************)
EXTENDS Naturals, FiniteSets

CONSTANTS
  Requests,       \* the requests under way at once
  Ops,            \* the kinds of request of this instance
  MaxVersion,     \* bound: version numbers 1 .. MaxVersion
  MaxEvaluations, \* bound: evaluations started
  MaxRuns,        \* bound: runs created
  MaxStarted,     \* bound: requests started
  Bundle,         \* an imported bundle: the suite of each of its versions
  BundleShows,    \* the published version its metadata names, 0 for none
  MaxTrouble      \* bound: crashes and refused bindings

VARIABLES
  definition, \* latest and published number, and the write autonomy
  version,    \* the version rows, by number
  evals,      \* the saved evaluation runs
  clock,      \* orders the starts and ends of evaluations
  key,        \* the agent's API key
  owner,      \* is the account that made the key active
  runs,       \* the runs the agent was started for
  req,        \* the requests
  seen,       \* what has happened: history for the properties
  started,    \* requests started so far
  trouble     \* failures so far

vars == <<definition, version, evals, clock, key, owner, runs, req, seen,
          started, trouble>>

Numbers == 1 .. MaxVersion
Suites == {"none", "s"}
NoRow == [status |-> "none", suite |-> "none", from |-> 0]
Idle == [op |-> "idle", pc |-> "idle", v |-> 0, number |-> 0, part |-> 0,
         suite |-> "none", time |-> 0, ok |-> FALSE, key |-> "none",
         late |-> FALSE, explicit |-> FALSE, names |-> "same",
         autonomy |-> "asked", others |-> {}]

Exists(v) == v \in Numbers /\ version[v].status # "none"
Begin(r, op) == /\ req[r].pc = "idle"
                /\ op \in Ops
                /\ started < MaxStarted
                /\ started' = started + 1
Finish(r) == req' = [req EXCEPT ![r] = Idle]
Quiet == UNCHANGED <<started, trouble>>

Init ==
  /\ definition = [latest |-> 0, published |-> 0, autonomy |-> "asked"]
  /\ version = [v \in Numbers |-> NoRow]
  /\ evals = {}
  /\ clock = 0
  /\ key = "none"
  /\ owner = TRUE
  /\ runs = {}
  /\ req = [r \in Requests |-> Idle]
  /\ seen = [crossed |-> FALSE, overlapped |-> FALSE, raced |-> {},
             verdict |-> [v \in Numbers |-> "none"], said |-> "asked",
             mixed |-> FALSE, revoked |-> FALSE, imported |-> <<>>,
             refused |-> FALSE]
  /\ started = 0
  /\ trouble = 0

----------------------------------------------------------------------------
(* Creation, versions.                                                     *)

\* A definition and its first version are two rows of one transaction.
Create(r, s) ==
  /\ Begin(r, "create")
  /\ definition.latest = 0
  /\ definition' = [definition EXCEPT !.latest = 1]
  /\ version' = [version EXCEPT ![1] = [status |-> "draft", suite |-> s, from |-> 0]]
  /\ UNCHANGED <<evals, clock, key, owner, runs, req, seen, trouble>>

\* A restored version, or one edited by the chat tool, copies an older spec.
SpecOf(of, s) == IF of = 0 THEN s ELSE version[of].suite

\* create_version: the number is the latest one the service reads, + 1.
BeginVersion(r, of, s) ==
  /\ Begin(r, "version")
  /\ definition.latest > 0
  /\ of = 0 \/ Exists(of)
  /\ req' = [req EXCEPT ![r] = [Idle EXCEPT !.op = "version", !.pc = "check",
                 !.number = definition.latest + 1, !.v = of,
                 !.suite = SpecOf(of, s)]]
  /\ UNCHANGED <<definition, version, evals, clock, key, owner, runs, seen, trouble>>

\* registry.add_version reads the definition again and compares.
CheckNumber(r) ==
  /\ req[r].pc = "check"
  /\ IF req[r].number = definition.latest + 1
     THEN req' = [req EXCEPT ![r].pc = "insert"]
     ELSE Finish(r)
  /\ UNCHANGED <<definition, version, evals, clock, key, owner, runs, seen>>
  /\ Quiet

\* UNIQUE (agent_id, version) refuses a number that was taken meanwhile.
MutFree(v) == v \in Numbers
Free(v) == v \in Numbers /\ version[v].status = "none"

\* The row and the new latest number are one transaction.
InsertVersion(r) ==
  LET v == req[r].number IN
  /\ req[r].pc = "insert"
  /\ IF Free(v)
     THEN /\ version' = [version EXCEPT ![v] = [status |-> "draft",
                            suite |-> req[r].suite,
                            from |-> IF req[r].op = "import" THEN req[r].part
                                                             ELSE req[r].v]]
          /\ definition' = [definition EXCEPT !.latest = v]
          /\ seen' = [seen EXCEPT !.crossed = @ \/ \E o \in Requests \ {r} :
                                                     req[o].op = "import"]
          /\ IF req[r].op = "import"
             THEN req' = [req EXCEPT ![r].pc = "bundle"]
             ELSE Finish(r)
     ELSE Finish(r) /\ UNCHANGED <<definition, version, seen>>
  /\ UNCHANGED <<evals, clock, key, owner, runs>>
  /\ Quiet

\* Import (the bundle's files are stored before): the definition with the
\* bundle's first version, one version after another, then the publication of the version the bundle's metadata names.
BeginImport(r) ==
  /\ Begin(r, "import")
  /\ definition.latest = 0
  /\ definition' = [definition EXCEPT !.latest = 1]
  /\ version' = [version EXCEPT ![1] = [status |-> "draft", suite |-> Bundle[1],
                                        from |-> 1]]
  /\ req' = [req EXCEPT ![r] = [Idle EXCEPT !.op = "import", !.pc = "bundle",
                                            !.part = 1]]
  /\ UNCHANGED <<evals, clock, key, owner, runs, seen, trouble>>

MutIndex == IF BundleShows = 0 THEN Cardinality(DOMAIN Bundle) ELSE BundleShows + 1
Index == IF BundleShows = 0 THEN Cardinality(DOMAIN Bundle)
         ELSE IF BundleShows > Cardinality(DOMAIN Bundle)
              THEN Cardinality(DOMAIN Bundle) ELSE BundleShows

ImportNext(r) ==
  /\ req[r].pc = "bundle"
  /\ IF req[r].part < Cardinality(DOMAIN Bundle)
     THEN req' = [req EXCEPT ![r].pc = "check", ![r].part = @ + 1,
                             ![r].number = definition.latest + 1,
                             ![r].suite = Bundle[req[r].part + 1]]
     ELSE \/ req' = [req EXCEPT ![r].pc = "bindings", ![r].v = Index]
          \/ Finish(r)                    \* the request said publish = false
  /\ UNCHANGED <<definition, version, evals, clock, key, owner, runs, seen>>
  /\ Quiet

----------------------------------------------------------------------------
(* Evaluation.                                                             *)

\* The endpoint digests the version's spec, which never changes.
BeginEvaluation(r, v, s) ==
  /\ Begin(r, "evaluate")
  /\ Exists(v)
  /\ clock < 2 * MaxEvaluations
  /\ clock' = clock + 1
  /\ req' = [req EXCEPT ![r] = [Idle EXCEPT !.op = "evaluate", !.pc = "cases",
                 !.v = v, !.suite = s, !.time = clock + 1]]
  /\ UNCHANGED <<definition, version, evals, key, owner, runs, seen, trouble>>

\* Each case is a real run of that version, published or not; the run that
\* was started is recorded, the verdict and its time are set before the save.
RunCases(r, ok) ==
  /\ req[r].pc = "cases"
  /\ clock' = clock + 1
  /\ Cardinality(runs) < MaxRuns
  /\ runs' = runs \cup {[v |-> req[r].v, explicit |-> TRUE, late |-> FALSE]}
  /\ req' = [req EXCEPT ![r].pc = "save", ![r].ok = ok, ![r].number = clock + 1]
  /\ UNCHANGED <<definition, version, evals, key, owner, seen>>
  /\ Quiet

Record(r) == [v |-> req[r].v, suite |-> req[r].suite, ok |-> req[r].ok,
              start |-> req[r].time, end |-> req[r].number]

SaveEvaluation(r) ==
  /\ req[r].pc = "save"
  /\ evals' = evals \cup {Record(r)}
  /\ seen' = [seen EXCEPT !.raced = @ \cup
                {req[o].v : o \in {p \in Requests : req[p].pc \in {"supersede", "commit"}}}]
  /\ Finish(r)
  /\ UNCHANGED <<definition, version, clock, key, owner, runs>>
  /\ Quiet

----------------------------------------------------------------------------
(* Publication.                                                            *)

BeginPublish(r, v) ==
  /\ Begin(r, "publish")
  /\ Exists(v)
  /\ req' = [req EXCEPT ![r] = [Idle EXCEPT !.op = "publish", !.pc = "bindings",
                                            !.v = v]]
  /\ UNCHANGED <<definition, version, evals, clock, key, owner, runs, seen, trouble>>

\* Skills pinned, files and snapshot files of the workspace, browser profile,
\* engine connection and repository active, model policy a pair: whether they
\* are is outside this module.
CheckBindings(r) ==
  /\ req[r].pc = "bindings"
  /\ \/ /\ req' = [req EXCEPT ![r].pc = "gate"]
        /\ UNCHANGED trouble
     \/ /\ trouble < MaxTrouble
        /\ trouble' = trouble + 1
        /\ Finish(r)
  /\ UNCHANGED <<definition, version, evals, clock, key, owner, runs, seen, started>>

Matching(v) == {e \in evals : e.v = v /\ e.suite = version[v].suite}
MutLatest(v) == CHOOSE e \in Matching(v) : \A o \in Matching(v) : o.start <= e.start
Latest(v) == CHOOSE e \in Matching(v) : \A o \in Matching(v) : o.end <= e.end

CheckEvaluation(r) ==
  LET v == req[r].v IN
  /\ req[r].pc = "gate"
  /\ IF version[v].suite = "none" \/ (Matching(v) # {} /\ Latest(v).ok)
     THEN req' = [req EXCEPT ![r].pc = "supersede"]
     ELSE Finish(r)
  /\ UNCHANGED <<definition, version, evals, clock, key, owner, runs, seen>>
  /\ Quiet

\* The publication is one transaction of three updates, at the database's
\* default isolation.  The first one supersedes the rows that were published
\* when it started; a publication that commits meanwhile is not among them.
Published == {v \in Numbers : version[v].status = "published"}
MutSuperseding(v) == Published \ {v, definition.published}
Superseding(v) == Published

SupersedePublished(r) ==
  /\ req[r].pc = "supersede"
  /\ req' = [req EXCEPT ![r].pc = "commit", ![r].others = Superseding(req[r].v)]
  /\ seen' = [seen EXCEPT !.overlapped = @ \/ \E o \in Requests \ {r} :
                                               req[o].pc = "commit"]
  /\ UNCHANGED <<definition, version, evals, clock, key, owner, runs>>
  /\ Quiet

\* What a reader of the gate's promise would say of this publication.
Judged(v) == IF version[v].suite = "none" THEN "free"
             ELSE IF \E e \in Matching(v) : /\ e.ok
                                            /\ \A o \in Matching(v) : o.end <= e.end
                  THEN "passed" ELSE "failed"

CommitPublish(r) ==
  LET v == req[r].v IN
  /\ req[r].pc = "commit"
  /\ version' = [n \in Numbers |->
                   IF n = v THEN [version[n] EXCEPT !.status = "published"]
                   ELSE IF n \in req[r].others /\ version[n].status = "published"
                        THEN [version[n] EXCEPT !.status = "superseded"]
                        ELSE version[n]]
  /\ definition' = [definition EXCEPT !.published = v]
  /\ seen' = [seen EXCEPT !.verdict[v] = Judged(v),
                 !.imported = IF req[r].op = "import"
                              THEN [n \in DOMAIN Bundle |-> version[n].from] ELSE @]
  /\ req' = [o \in Requests |->
               IF o = r THEN Idle
               ELSE IF req[o].pc = "version" THEN [req[o] EXCEPT !.ok = TRUE]
               ELSE req[o]]
  /\ UNCHANGED <<evals, clock, key, owner, runs>>
  /\ Quiet

----------------------------------------------------------------------------
(* API keys and runs.                                                      *)

CreateKey(r) ==
  /\ Begin(r, "key")
  /\ key = "none"
  /\ definition.published # 0
  /\ key' = "active"
  /\ UNCHANGED <<definition, version, evals, clock, owner, runs, req, seen, trouble>>

RevokeKey(r) ==
  /\ Begin(r, "key")
  /\ key = "active"
  /\ key' = "revoked"
  /\ seen' = [seen EXCEPT !.revoked = TRUE]
  /\ UNCHANGED <<definition, version, evals, clock, owner, runs, req, trouble>>

\* The key's owner is disabled (or enabled again) by an administrator.
SwitchOwner(r) ==
  /\ Begin(r, "key")
  /\ owner' = ~owner
  /\ UNCHANGED <<definition, version, evals, clock, key, runs, req, seen, trouble>>

\* authenticate: the key's row and its owner's account.
KeyHolds == key = "active" /\ owner

Authenticate(r) ==
  /\ Begin(r, "public")
  /\ KeyHolds
  /\ req' = [req EXCEPT ![r] = [Idle EXCEPT !.op = "public", !.pc = "definition",
                                    !.key = key, !.late = seen.revoked]]
  /\ UNCHANGED <<definition, version, evals, clock, key, owner, runs, seen, trouble>>

\* A member of the workspace runs the agent, perhaps an explicit version.
BeginRun(r, v) ==
  /\ Begin(r, "run")
  /\ v = 0 \/ Exists(v)
  /\ definition.latest > 0
  /\ req' = [req EXCEPT ![r] = [Idle EXCEPT !.op = "run", !.pc = "definition",
                                    !.v = v, !.explicit = v # 0]]
  /\ UNCHANGED <<definition, version, evals, clock, key, owner, runs, seen, trouble>>

MutVersionToRun(r) == IF req[r].v # 0 THEN req[r].v ELSE definition.latest
VersionToRun(r) == IF req[r].v # 0 THEN req[r].v ELSE definition.published

ReadDefinition(r) ==
  /\ req[r].pc = "definition"
  /\ IF VersionToRun(r) = 0 THEN Finish(r)
     ELSE req' = [req EXCEPT ![r].pc = "version", ![r].v = VersionToRun(r)]
  /\ UNCHANGED <<definition, version, evals, clock, key, owner, runs, seen>>
  /\ Quiet

\* The version is read in a transaction of its own: it may have been
\* superseded since the definition named it, and the request is refused.
MayRun(r) == version[req[r].v].status = "published" \/ req[r].explicit

ReadVersion(r) ==
  /\ req[r].pc = "version"
  /\ IF MayRun(r)
     THEN req' = [req EXCEPT ![r].pc = "create"] /\ UNCHANGED seen
     ELSE Finish(r) /\ seen' = [seen EXCEPT !.refused = @ \/ ~req[r].ok]
  /\ UNCHANGED <<definition, version, evals, clock, key, owner, runs>>
  /\ Quiet

\* The thread, the message and the queued run, which names the version.
CreateRun(r) ==
  /\ req[r].pc = "create"
  /\ Cardinality(runs) < MaxRuns
  /\ runs' = runs \cup {[v |-> req[r].v, explicit |-> req[r].explicit,
                         late |-> req[r].late]}
  /\ IF req[r].op = "public" THEN req' = [req EXCEPT ![r].pc = "touch"] ELSE Finish(r)
  /\ UNCHANGED <<definition, version, evals, clock, key, owner, seen>>
  /\ Quiet

\* record_use writes last_used_at only, whatever row was authenticated.
MutTouched(r) == req[r].key
Touched(r) == key

RecordUse(r) ==
  /\ req[r].pc = "touch"
  /\ key' = Touched(r)
  /\ Finish(r)
  /\ UNCHANGED <<definition, version, evals, clock, owner, runs, seen>>
  /\ Quiet

----------------------------------------------------------------------------
(* The definition's other fields.                                          *)

\* update_definition reads the row and writes every field it did not change.
BeginPatch(r, a) ==
  /\ Begin(r, "patch")
  /\ definition.latest > 0
  /\ req' = [req EXCEPT ![r] = [Idle EXCEPT !.op = "patch", !.pc = "write",
                            !.names = a, !.autonomy = definition.autonomy]]
  /\ UNCHANGED <<definition, version, evals, clock, key, owner, runs, seen, trouble>>

MutPatched(r) == IF req[r].names = "same" THEN "asked" ELSE req[r].names
Patched(r) == IF req[r].names = "same" THEN req[r].autonomy ELSE req[r].names

WritePatch(r) ==
  /\ req[r].pc = "write"
  /\ definition' = [definition EXCEPT !.autonomy = Patched(r)]
  /\ seen' = [seen EXCEPT !.said = IF req[r].names = "same" THEN @ ELSE req[r].names,
                          !.mixed = @ \/ \E o \in Requests \ {r} : req[o].op = "patch"]
  /\ Finish(r)
  /\ UNCHANGED <<version, evals, clock, key, owner, runs>>
  /\ Quiet

\* The process dies: nothing after the last transaction happens.
Crash(r) ==
  /\ req[r].pc # "idle"
  /\ trouble < MaxTrouble
  /\ trouble' = trouble + 1
  /\ Finish(r)
  /\ UNCHANGED <<definition, version, evals, clock, key, owner, runs, seen, started>>

Next == \E r \in Requests :
  \/ \E s \in Suites : Create(r, s)
  \/ \E of \in 0 .. MaxVersion, s \in Suites : BeginVersion(r, of, s)
  \/ CheckNumber(r) \/ InsertVersion(r)
  \/ BeginImport(r) \/ ImportNext(r)
  \/ \E v \in Numbers, s \in {"s", "t"} : BeginEvaluation(r, v, s)
  \/ \E ok \in BOOLEAN : RunCases(r, ok)
  \/ SaveEvaluation(r)
  \/ \E v \in Numbers : BeginPublish(r, v)
  \/ CheckBindings(r) \/ CheckEvaluation(r)
  \/ SupersedePublished(r) \/ CommitPublish(r)
  \/ CreateKey(r) \/ RevokeKey(r) \/ SwitchOwner(r)
  \/ Authenticate(r)
  \/ \E v \in 0 .. MaxVersion : BeginRun(r, v)
  \/ ReadDefinition(r) \/ ReadVersion(r) \/ CreateRun(r) \/ RecordUse(r)
  \/ \E a \in {"same", "asked", "auto"} : BeginPatch(r, a)
  \/ WritePatch(r)
  \/ Crash(r)

Spec == Init /\ [][Next]_vars

----------------------------------------------------------------------------
(* Properties.                                                             *)

VersionsKept ==
  /\ \A v \in Numbers : Exists(v) =>
        /\ version'[v].suite = version[v].suite
        /\ version'[v].from = version[v].from
        /\ version'[v].status # "none"
  /\ {v \in Numbers : version'[v].status # "none"} = 1 .. definition'.latest

\* A version, once written, keeps its spec, and the rows are numbered without
\* gaps up to the definition's latest_version, whichever requests create,
\* restore, edit or import versions at once (UNIQUE (agent_id, version)).
VersionsImmutable == [][VersionsKept]_vars

\* The version the definition names is a published row, and the only one,
\* unless two publications were committing at the same time (publish).
PublishedAgrees ==
  definition.published # 0 =>
    /\ version[definition.published].status = "published"
    /\ seen.overlapped \/ Published = {definition.published}

\* No version bound to an evaluation suite was published while its latest
\* completed evaluation by that suite had failed or was missing, unless an
\* evaluation was saved between the gate's reading and the commit.
GateUsedLatest ==
  \A v \in Numbers : seen.verdict[v] = "failed" => v \in seen.raced

\* A request that authenticates after the key was revoked starts no run,
\* whatever earlier requests still do with the key row they read (record_use).
RevokedStartsNothing == \A run \in runs : ~run.late

\* A run of a published agent is refused for its version only when another
\* publication committed between the two reads of the request (run).
RefusedOnlyWhenOvertaken == ~seen.refused

\* The write autonomy is the one the last request to name it set, unless two
\* updates of the definition overlapped (update_definition writes the row back).
AutonomyIsLastWord == seen.mixed \/ definition.autonomy = seen.said

\* An import that published did so with its own versions in the bundle's
\* order and with the version the bundle shows, unless another request added
\* a version to the new agent meanwhile.
ImportIsFaithful ==
  seen.imported # <<>> =>
    \/ seen.crossed
    \/ /\ \A n \in DOMAIN Bundle : seen.imported[n] = n
       /\ BundleShows \in DOMAIN Bundle =>
            seen.verdict[BundleShows] # "none"
=============================================================================
