---------------------------- MODULE ReleasePackage ----------------------------
(***************************************************************************)
(* The release package (deployment/release_package.py, package_manifest.py): *)
(* a build reads the repository several times, writes a temporary archive and *)
(* puts it in place; it is signed, and verified where it is installed.  The   *)
(* tree may be edited and the package replaced between any two of the steps,  *)
(* and a step may be the last one a process makes.                            *)
(***************************************************************************)
EXTENDS Naturals, FiniteSets

CONSTANTS Builders,
          MaxEdits,   \* edits of the tree
          MaxTrouble  \* processes that are killed

VARIABLES tree,    \* the repository: content of each path
          build,   \* builders
          edited,  \* builders the tree was edited under
          out,     \* the package in its place
          sig,     \* the signature beside it
          sealed,  \* packages a trusted key has signed
          check,   \* the verification: hash taken, archive read
          swapped, \* the package was replaced between the two
          edits, trouble

vars == <<tree, build, edited, out, sig, sealed, check, swapped, edits, trouble>>

None == "none"
\* A migration, a source file, the upgrade matrix, a local environment file,
\* and the temporary file a killed build leaves beside its output.
Paths == {"sql", "py", "doc", "env", "tmp"}
Order == <<"sql", "py", "doc", "tmp", "env">>
Required == {"sql", "py", "doc"}
Contents(p) == CASE p = "sql" -> {"one", "two", "gone"}
                 [] p = "py"  -> {"one", "two", "secret", "gone"}
                 [] p = "doc" -> {"one", "stale", "gone"}
                 [] p = "env" -> {"secret"}
                 [] p = "tmp" -> {"one", "gone"}
NoPackage == [sql |-> None, files |-> <<>>, plan |-> {}]
Idle == [pc |-> "idle", sql |-> None, plan |-> {}, files |-> <<>>]

Init == /\ tree = [p \in Paths |-> CASE p = "env" -> "secret" [] p = "tmp" -> "gone" [] OTHER -> "one"]
        /\ build = [b \in Builders |-> Idle] /\ edited = {}
        /\ out = NoPackage /\ sig = [of |-> NoPackage, key |-> None] /\ sealed = {}
        /\ check = [pc |-> "idle", hash |-> NoPackage, read |-> NoPackage, valid |-> FALSE]
        /\ swapped = FALSE /\ edits = 0 /\ trouble = 0

Busy == {b \in Builders : build[b].pc # "idle"}

Edit(p, c) ==
    /\ edits < MaxEdits /\ edits' = edits + 1
    /\ tree[p] # c /\ tree' = [tree EXCEPT ![p] = c] /\ edited' = edited \cup Busy
    /\ UNCHANGED <<build, out, sig, sealed, check, swapped, trouble>>

-----------------------------------------------------------------------------
\* build_deployment_package_manifest names the checksum of every migration,
\* and there is no package without one.
Manifest(b) ==
    /\ build[b].pc = "idle" /\ tree["sql"] # "gone"
    /\ build' = [build EXCEPT ![b] = [Idle EXCEPT !.pc = "collect", !.sql = tree["sql"]]]
    /\ edited' = edited \ {b}
    /\ UNCHANGED <<tree, out, sig, sealed, check, swapped, edits, trouble>>

\* should_exclude_path, and should_exclude_archive_entry on the other side.
MutExcluded == {"env"}
Excluded == {"env", "tmp"}
Forbidden == {"env", "tmp"}

Collect(b) ==
    /\ build[b].pc = "collect"
    /\ build' = [build EXCEPT ![b].pc = "scan",
                              ![b].plan = {p \in Paths \ Excluded : tree[p] # "gone"}]
    /\ UNCHANGED <<tree, edited, out, sig, sealed, check, swapped, edits, trouble>>

\* A build that finds secrets, or no file where it collected one, ends and
\* takes its temporary file with it.
GiveUp(b) == build' = [build EXCEPT ![b] = Idle]

Scan(b) ==
    /\ build[b].pc = "scan"
    /\ IF \E p \in build[b].plan : tree[p] \in {"secret", "gone"}
       THEN GiveUp(b)
       ELSE build' = [build EXCEPT ![b].pc = "write"]
    /\ UNCHANGED <<tree, edited, out, sig, sealed, check, swapped, edits, trouble>>

\* Every file is read again when it is written, into the temporary archive.
Packed(b) == [sql |-> build[b].sql, files |-> build[b].files, plan |-> build[b].plan]
MutShown(b) == out' = Packed(b)
Shown(b) == UNCHANGED out
Written(b) == DOMAIN build[b].files
Before(p, q) == \E i, j \in DOMAIN Order : i < j /\ Order[i] = p /\ Order[j] = q
Following(b) == {p \in build[b].plan \ Written(b) :
                    \A q \in build[b].plan : Before(q, p) => q \in Written(b)}

Write(b, p) ==
    /\ build[b].pc = "write" /\ p \in Following(b)
    /\ IF tree[p] = "gone"
       THEN GiveUp(b)
       ELSE build' = [build EXCEPT ![b].files =
                          [q \in Written(b) \cup {p} |-> IF q = p THEN tree[p] ELSE @[q]]]
    /\ Shown(b)
    /\ UNCHANGED <<tree, edited, sig, sealed, check, swapped, edits, trouble>>

\* os.replace.
Replace(b) ==
    /\ build[b].pc = "write" /\ Written(b) = build[b].plan
    /\ out' = Packed(b)
    /\ swapped' = (swapped \/ check.pc = "read")
    /\ build' = [build EXCEPT ![b] = Idle]
    /\ UNCHANGED <<tree, edited, sig, sealed, check, edits, trouble>>

\* A killed build leaves its temporary file.
Kill(b) ==
    /\ trouble < MaxTrouble /\ trouble' = trouble + 1
    /\ b \in Busy /\ GiveUp(b)
    /\ tree' = IF build[b].pc = "write" THEN [tree EXCEPT !["tmp"] = "one"] ELSE tree
    /\ UNCHANGED <<edited, out, sig, sealed, check, swapped, edits>>

-----------------------------------------------------------------------------
\* sign_release_package: hash, sign, and put the envelope in place.
Sign(key) ==
    /\ out # NoPackage
    /\ sig' = [of |-> out, key |-> key]
    /\ sealed' = IF key = "trusted" THEN sealed \cup {out} ELSE sealed
    /\ UNCHANGED <<tree, build, edited, out, check, swapped, edits, trouble>>

\* validate_release_signature: the envelope is for this archive, and its
\* signature verifies under a trusted key.
MutSignatureHolds(package) == sig.key = "trusted"
SignatureHolds(package) == sig.of = package /\ sig.key = "trusted"

\* verify_release_package takes the hash of the file, then opens the file.
Hash ==
    /\ check.pc = "idle" /\ out # NoPackage
    /\ check' = [pc |-> "read", hash |-> out, read |-> NoPackage, valid |-> SignatureHolds(out)]
    /\ swapped' = FALSE
    /\ UNCHANGED <<tree, build, edited, out, sig, sealed, edits, trouble>>

HoldsSecret(package) == \E p \in DOMAIN package.files : package.files[p] = "secret"
MigrationsMatch(package) == "sql" \in DOMAIN package.files /\ package.files["sql"] = package.sql
MatrixCovers(package) == "doc" \in DOMAIN package.files => package.files["doc"] # "stale"
Complete(package) == Required \subseteq DOMAIN package.files
NothingForbidden(package) == DOMAIN package.files \cap Forbidden = {}

Acceptable(package) == /\ Complete(package) /\ NothingForbidden(package)
                       /\ ~HoldsSecret(package) /\ MigrationsMatch(package)
                       /\ MatrixCovers(package)

Inspect ==
    /\ check.pc = "read"
    /\ check' = [check EXCEPT !.pc = "idle", !.read = out, !.valid = @ /\ Acceptable(out)]
    /\ UNCHANGED <<tree, build, edited, out, sig, sealed, swapped, edits, trouble>>

-----------------------------------------------------------------------------
Next == \/ \E p \in Paths \ {"tmp"} : \E c \in Contents(p) : Edit(p, c)
        \/ \E b \in Builders : \/ Manifest(b) \/ Collect(b) \/ Scan(b) \/ Replace(b) \/ Kill(b)
                               \/ \E p \in Paths : Write(b, p)
        \/ \E key \in {"trusted", "other"} : Sign(key)
        \/ Hash \/ Inspect

Spec == Init /\ [][Next]_vars

-----------------------------------------------------------------------------
\* A build that ends over a tree nobody edited, with all it needs in it, makes
\* a package that verification accepts: what the one leaves out is what the
\* other forbids, whatever a killed build has left lying around.
BuildVerifies == \A b \in Builders \ edited :
    /\ build[b].pc = "write" /\ Written(b) = build[b].plan
    /\ \A p \in Required : tree[p] \notin {"gone", "stale"}
    => Acceptable(Packed(b))

\* What a verification calls valid is what a trusted key has signed, unless the
\* package was replaced between the two times the file was opened.
ValidWasSealed == check.pc = "idle" /\ check.valid => check.read \in sealed \/ swapped

\* The package in place is always a whole one, however a build ends.
OutputIsWhole == DOMAIN out.files = out.plan
=============================================================================
