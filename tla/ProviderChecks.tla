---------------------------- MODULE ProviderChecks ----------------------------
(***************************************************************************)
(* The verification scripts an operator runs against the services of an     *)
(* installation: sandbox controller, browser controller, cluster, queue,    *)
(* short-term memory, bucket, secret manager, database and API              *)
(* (the modules named verification).  A script makes a thing *)
(* of its own in the service, probes it, also under a foreign scope, removes *)
(* it and says whether the service passed.  The lenient scripts note each    *)
(* answer and go on; the strict ones raise at the first wrong one.           *)
(***************************************************************************)
EXTENDS Naturals, Sequences

CONSTANTS Scripts,      \* the scripts run
          MaxFlaws,     \* flaws a service has at once
          MaxTrouble    \* calls that fail or lose their answer

VARIABLES script, flaws,   \* what is run, and what is wrong with the service
          keyed,           \* the service is called with a key
          at,              \* the next step, or "ended"
          live,            \* the script's thing is in the service
          shown,           \* checks that came out well
          result,          \* "none", "passed", "failed" (a verdict), "raised"
          lost,            \* a creation or removal the script knows nothing of
          silent,          \* checks whose call was not answered
          trouble

vars == <<script, flaws, keyed, at, live, shown, result, lost, silent, trouble>>

Steps ==
    [sandbox |-> <<"challenge", "capabilities", "create", "foreign_command",
                   "foreign_upload", "foreign_snapshot", "list", "foreign_list",
                   "command", "files", "foreign_read", "remove", "late_command",
                   "late_list">>,
     browser |-> <<"challenge", "capabilities", "create", "duplicate", "foreign_read",
                   "foreign_remove", "foreign_command", "list", "foreign_list",
                   "command", "remove", "late_read", "late_list">>,
     cluster |-> <<"policy", "create", "isolation", "command", "files", "remove">>,
     docker  |-> <<"create", "command", "files", "remove">>,
     queue   |-> <<"clear", "create", "ack", "recovery", "dead_letter">>,
     memory  |-> <<"clear", "create", "read", "expiry", "foreign_read", "remove",
                   "late_read">>,
     bucket  |-> <<"clear", "create", "read", "remove", "late_read">>,
     secret  |-> <<"create", "read", "foreign_read">>,
     database |-> <<"policy", "clear", "create", "read", "foreign_read">>,
     api     |-> <<"create", "read", "replay", "foreign_read">>]

Lenient == {"sandbox", "browser", "api"}
Containers == {"cluster", "docker"}
Range(s) == {s[i] : i \in 1..Len(s)}
After(p) == LET s == Steps[script]
                i == CHOOSE j \in 1..Len(s) : s[j] = p
            IN IF i = Len(s) THEN "end" ELSE s[i + 1]

\* What can be wrong: a check of the script, or removal that removes nothing.
Checks(s) == Range(Steps[s]) \ {"clear", "create", "remove", "late_command", "late_read",
                                "late_list"}
Flaws(s) == Checks(s) \cup (IF "remove" \in Range(Steps[s]) THEN {"remove"} ELSE {})

Init == /\ script \in Scripts /\ keyed \in BOOLEAN
        /\ flaws \in {f \in SUBSET Flaws(script) : \E g \in [1..MaxFlaws -> Flaws(script)] :
                          f \subseteq {g[i] : i \in 1..MaxFlaws}}
        /\ at = Steps[script][1]
        /\ live = FALSE /\ shown = {} /\ result = "none"
        /\ lost = FALSE /\ silent = {} /\ trouble = 0

Fault == trouble < MaxTrouble /\ trouble' = trouble + 1
Note(p, good) == /\ shown' = IF good THEN shown \cup {p} ELSE shown
                 /\ at' = IF <<script, p>> = <<"sandbox", "command">> /\ ~good THEN "remove"
                          ELSE IF good \/ script \in Lenient THEN After(p) ELSE "raise"
Unanswered(p) == Fault /\ silent' = silent \cup {p}
Answered == UNCHANGED <<silent, trouble>>

\* The bucket script takes any failing request for the object's absence, and
\* the API script a token that is refused for a scope that is enforced.
Mistaken(p) == <<script, p>> \in {<<"bucket", "late_read">>, <<"api", "foreign_read">>}

-----------------------------------------------------------------------------
\* What the strict scripts delete before they begin.
Clear(s) ==
    /\ script = s /\ at = "clear"
    /\ \/ at' = After(at) /\ Answered
       \/ at' = "raise" /\ Unanswered(at)
    /\ UNCHANGED <<script, flaws, keyed, live, shown, result, lost>>

\* Requests without the key, made only when there is one.
Challenge(s) ==
    /\ script = s /\ at = "challenge"
    /\ \/ Note(at, keyed /\ at \notin flaws) /\ Answered
       \/ keyed /\ Note(at, FALSE) /\ Unanswered(at)
    /\ UNCHANGED <<script, flaws, keyed, live, result, lost>>

\* Any declaration will do.
MutDeclared(s, p) ==
    /\ script = s /\ at = p
    /\ \/ Note(at, TRUE) /\ Answered
       \/ Note(at, FALSE) /\ Unanswered(at)
    /\ UNCHANGED <<script, flaws, keyed, live, result, lost>>

\* What the service declares of itself.
Declared(s, p) ==
    /\ script = s /\ at = p
    /\ \/ Note(at, at \notin flaws) /\ Answered
       \/ Note(at, FALSE) /\ Unanswered(at)
    /\ UNCHANGED <<script, flaws, keyed, live, result, lost>>

\* A thing whose creation is not answered is one the script does not know: it
\* ends with a verdict at once, or raises.
Create(s) ==
    /\ script = s /\ at = "create"
    /\ \/ live' = TRUE /\ Note(at, TRUE) /\ Answered /\ UNCHANGED <<result, lost>>
       \/ /\ live' \in BOOLEAN /\ lost' = live'
          /\ at' = IF script \in Lenient THEN "ended"
                   ELSE IF script \in Containers \cup {"secret"} THEN "forget" ELSE "raise"
          /\ result' = IF script \in Lenient THEN "failed" ELSE result
          /\ Unanswered(at) /\ UNCHANGED shown
    /\ UNCHANGED <<script, flaws, keyed>>

\* Use of the thing under its own scope.
Use(s, p) ==
    /\ script = s /\ at = p
    /\ \/ Note(at, live /\ at \notin flaws) /\ Answered
       \/ Note(at, FALSE) /\ Unanswered(at)
    /\ UNCHANGED <<script, flaws, keyed, live, result, lost>>

\* Any error counts as the refusal asked for.
MutProbe(s, p) ==
    /\ script = s /\ at = p
    /\ LET done == at \in flaws /\ live IN
         \/ /\ Note(at, ~done) /\ Answered
            /\ live' = (live /\ ~(done /\ at = "foreign_remove"))
         \/ Note(at, TRUE) /\ Unanswered(at) /\ UNCHANGED live
    /\ UNCHANGED <<script, flaws, keyed, result, lost>>

\* Use under a foreign scope.  A service that allows it does what it is asked;
\* the removal is believed refused only when the thing can still be read.
Probe(s, p) ==
    /\ script = s /\ at = p
    /\ LET done == at \in flaws /\ live
           still == at = "foreign_remove" => live IN
         \/ /\ Note(at, ~done /\ still) /\ Answered
            /\ live' = (live /\ ~(done /\ at = "foreign_remove"))
         \/ Note(at, Mistaken(at)) /\ Unanswered(at) /\ UNCHANGED live
    /\ UNCHANGED <<script, flaws, keyed, result, lost>>

\* A thing that is gone, or a removal that fails, ends a lenient script's
\* checks; nothing is asked about a container after its removal.
Remove(s) ==
    /\ script = s /\ at = "remove"
    /\ \/ live /\ live' = ("remove" \in flaws) /\ Note(at, TRUE) /\ Answered /\ UNCHANGED lost
       \/ ~live /\ at' = "end" /\ Answered /\ UNCHANGED <<live, lost, shown>>
       \/ /\ live' \in {live, FALSE} /\ Unanswered(at) /\ UNCHANGED shown
          /\ at' = IF script \in Lenient THEN "end" ELSE "raise"
          /\ lost' = (script \in Lenient /\ live')
    /\ UNCHANGED <<script, flaws, keyed, result>>

\* Is it gone?
Look(s, p) ==
    /\ script = s /\ at = p
    /\ \/ Note(at, ~live) /\ Answered
       \/ Note(at, Mistaken(at)) /\ Unanswered(at)
    /\ UNCHANGED <<script, flaws, keyed, live, result, lost>>

\* Nothing is looked for that the script did not keep.
MutCleanup ==
    /\ at = "raise"
    /\ UNCHANGED <<live, lost>> /\ Answered
    /\ at' = "ended" /\ result' = "raised"
    /\ UNCHANGED <<script, flaws, keyed, shown>>

\* finally: the thing is removed once more.
Cleanup ==
    /\ at = "raise"
    /\ \/ live' = (live /\ "remove" \in flaws) /\ Answered /\ UNCHANGED lost
       \/ Fault /\ lost' = live /\ UNCHANGED <<live, silent>>
    /\ at' = "ended" /\ result' = "raised"
    /\ UNCHANGED <<script, flaws, keyed, shown>>

\* ... unless the script never learnt that it was made.
Forget ==
    /\ at = "forget"
    /\ at' = "ended" /\ result' = "raised"
    /\ UNCHANGED <<script, flaws, keyed, live, shown, lost, silent, trouble>>

\* What a verdict asks for; the challenge only with a key.
Required == Range(Steps[script]) \ ({"clear", "create"}
                                    \cup (IF keyed THEN {} ELSE {"challenge"}))

\* The end of a script that noted or passed every check; the strict scripts
\* remove what is left of their thing first.
End ==
    /\ at = "end"
    /\ result' = IF Required \subseteq shown THEN "passed" ELSE "failed"
    /\ IF script \in Lenient \cup Containers THEN UNCHANGED <<live, lost, trouble>>
       ELSE \/ live' = (live /\ "remove" \in flaws) /\ UNCHANGED <<lost, trouble>>
            \/ Fault /\ lost' = live /\ UNCHANGED live
    /\ at' = "ended"
    /\ UNCHANGED <<script, flaws, keyed, shown, silent>>

-----------------------------------------------------------------------------
\* The sandbox controller (lenient).
SandboxChallenge == Challenge("sandbox")
SandboxCapabilities == Declared("sandbox", "capabilities")
SandboxCreate == Create("sandbox")
SandboxForeignCommand == Probe("sandbox", "foreign_command")
SandboxForeignUpload == Probe("sandbox", "foreign_upload")
SandboxForeignSnapshot == Probe("sandbox", "foreign_snapshot")
SandboxList == Use("sandbox", "list")
SandboxForeignList == Probe("sandbox", "foreign_list")
SandboxCommand == Use("sandbox", "command")
SandboxFiles == Use("sandbox", "files")
SandboxForeignRead == Probe("sandbox", "foreign_read")
SandboxRemove == Remove("sandbox")
SandboxLateCommand == Look("sandbox", "late_command")
SandboxLateList == Look("sandbox", "late_list")

\* The browser controller (lenient).
BrowserChallenge == Challenge("browser")
BrowserCapabilities == Declared("browser", "capabilities")
BrowserCreate == Create("browser")
BrowserDuplicate == Declared("browser", "duplicate")
BrowserForeignRead == Probe("browser", "foreign_read")
BrowserForeignRemove == Probe("browser", "foreign_remove")
BrowserForeignCommand == Probe("browser", "foreign_command")
BrowserList == Use("browser", "list")
BrowserForeignList == Probe("browser", "foreign_list")
BrowserCommand == Use("browser", "command")
BrowserRemove == Remove("browser")
BrowserLateRead == Look("browser", "late_read")
BrowserLateList == Look("browser", "late_list")

\* The cluster and the container host (strict).
ClusterPolicy == Declared("cluster", "policy")
ClusterCreate == Create("cluster")
ClusterIsolation == Use("cluster", "isolation")
ClusterCommand == Use("cluster", "command")
ClusterFiles == Use("cluster", "files")
ClusterRemove == Remove("cluster")

DockerCreate == Create("docker")
DockerCommand == Use("docker", "command")
DockerFiles == Use("docker", "files")
DockerRemove == Remove("docker")

\* The queue and the short-term memory in Redis (strict).
QueueClear == Clear("queue")
QueueCreate == Create("queue")
QueueAck == Use("queue", "ack")
QueueRecovery == Use("queue", "recovery")
QueueDeadLetter == Use("queue", "dead_letter")
MemoryClear == Clear("memory")
MemoryCreate == Create("memory")
MemoryRead == Use("memory", "read")
MemoryExpiry == Use("memory", "expiry")
MemoryForeignRead == Probe("memory", "foreign_read")
MemoryRemove == Remove("memory")
MemoryLateRead == Look("memory", "late_read")

\* The bucket and the secret manager (strict).
BucketClear == Clear("bucket")
BucketCreate == Create("bucket")
BucketRead == Use("bucket", "read")
BucketRemove == Remove("bucket")
BucketLateRead == Look("bucket", "late_read")
SecretCreate == Create("secret")
SecretRead == Use("secret", "read")
SecretForeignRead == Probe("secret", "foreign_read")

\* The database (strict) and the API (lenient).
DatabasePolicy == Declared("database", "policy")
DatabaseClear == Clear("database")
DatabaseCreate == Create("database")
DatabaseRead == Use("database", "read")
DatabaseForeignRead == Probe("database", "foreign_read")
ApiCreate == Create("api")
ApiRead == Use("api", "read")
ApiReplay == Use("api", "replay")
ApiForeignRead == Probe("api", "foreign_read")

Sandbox == \/ SandboxChallenge \/ SandboxCapabilities \/ SandboxCreate \/ SandboxForeignCommand
           \/ SandboxForeignUpload \/ SandboxForeignSnapshot \/ SandboxList
           \/ SandboxForeignList \/ SandboxCommand \/ SandboxFiles \/ SandboxForeignRead
           \/ SandboxRemove \/ SandboxLateCommand \/ SandboxLateList
Browser == \/ BrowserChallenge \/ BrowserCapabilities \/ BrowserCreate \/ BrowserDuplicate
           \/ BrowserForeignRead \/ BrowserForeignRemove \/ BrowserForeignCommand
           \/ BrowserList \/ BrowserForeignList \/ BrowserCommand \/ BrowserRemove
           \/ BrowserLateRead \/ BrowserLateList
Cluster == \/ ClusterPolicy \/ ClusterCreate \/ ClusterIsolation \/ ClusterCommand
           \/ ClusterFiles \/ ClusterRemove
           \/ DockerCreate \/ DockerCommand \/ DockerFiles \/ DockerRemove
Redis == \/ QueueClear \/ QueueCreate \/ QueueAck \/ QueueRecovery \/ QueueDeadLetter
         \/ MemoryClear \/ MemoryCreate \/ MemoryRead \/ MemoryExpiry \/ MemoryForeignRead
         \/ MemoryRemove \/ MemoryLateRead
Stores == \/ BucketClear \/ BucketCreate \/ BucketRead \/ BucketRemove \/ BucketLateRead
          \/ SecretCreate \/ SecretRead \/ SecretForeignRead
          \/ DatabasePolicy \/ DatabaseClear \/ DatabaseCreate \/ DatabaseRead
          \/ DatabaseForeignRead
Api == ApiCreate \/ ApiRead \/ ApiReplay \/ ApiForeignRead

Next == Sandbox \/ Browser \/ Cluster \/ Redis \/ Stores \/ Api \/ Cleanup \/ Forget \/ End

Spec == Init /\ [][Next]_vars
-----------------------------------------------------------------------------
\* What a script cannot see: the challenge without a key, whether a
\* container is gone, and what a mistaken answer hides.
Unseen == (IF keyed THEN {} ELSE {"challenge"})
          \cup (IF script \in Containers THEN {"remove"} ELSE {})
          \cup (IF "late_read" \in silent THEN {"remove"} ELSE {})
          \cup (IF script = "api" THEN silent ELSE {})

\* A script passes no service with a flaw it looks for, although one flaw can
\* hide another: a session that a foreign caller could remove refuses every
\* later probe (browser_verification.py:128-170).
PassedIsSound == result = "passed" => flaws \subseteq Unseen

\* Nothing a script has made is left in the service when the script ends, by a
\* verdict or by an error, except what it could not know or remove and the
\* API script's run (kubernetes_verification.py:624-627).
LeavesNothing ==
    at = "ended" /\ live => lost \/ "remove" \in flaws \/ script = "api"

\* No check that was not answered counts as passed
\* (lifecycle_verification.py:167-197).
SilenceProvesNothing ==
    result = "passed" => \A p \in silent : Mistaken(p)
=============================================================================
