----------------------------- MODULE MCPlatform -----------------------------
(***************************************************************************)
(* The services around the agent: idempotent requests, restore drills, the *)
(* model gateway and its administration, the checks of an installation, the*)
(* sandboxes, stored objects, the end of a tenant, accounts.  A behaviour  *)
(* belongs to one component, named by part and chosen at the start; s1, s2,*)
(* ... are that component's variables in the order it declares them, and   *)
(* the ones it does not need stay 0.                                       *)
(***************************************************************************)
EXTENDS Naturals, Sequences, TLC

CONSTANTS p1, p2,   \* two threads, requests or administrators that are alike
          NoAnswer, Refusal   \* no answer, a refusal

VARIABLES part, s1, s2, s3, s4, s5, s6, s7, s8, s9, s10, s11, s12, s13, s14, s15,
          s16, s17

vars == <<part, s1, s2, s3, s4, s5, s6, s7, s8, s9, s10, s11, s12, s13, s14, s15,
        s16, s17>>

Symmetry == Permutations({p1, p2})

\* Four requests with one key, one of them with another body, in two processes.
Keys == INSTANCE Idempotency WITH reserving <- s1, hash <- s2, response <- s3,
    stale <- s4, pc <- s5, answer <- s6, crashes <- s7, performed <- s8, lost <- s9,
    kept <- s10, Requests <- 1..4, Proc <- <<"x", "y", "y", "x">>,
    Body <- <<"b", "b", "b", "c">>, MaxCrash <- 1, None <- NoAnswer,
    Refused <- Refusal

\* Two schedulers, two threads, one day, a death.
Drill == INSTANCE RestoreDrills WITH day <- s1, enabled <- s2, next <- s3,
    recs <- s4, objects <- s5, jobs <- s6, plan <- s7, doing <- s8, asked <- s9,
    deaths <- s10, dated <- s11, skipped <- s12, Schedulers <- {p1, p2},
    Threads <- {"t", "u"}, MaxDay <- 1, CatchUp <- 1, MaxTries <- 2, MaxAsked <- 1,
    MaxDeaths <- 1

\* Two schedulers, two days.
Days == INSTANCE RestoreDrills WITH day <- s1, enabled <- s2, next <- s3,
    recs <- s4, objects <- s5, jobs <- s6, plan <- s7, doing <- s8, asked <- s9,
    deaths <- s10, dated <- s11, skipped <- s12, Schedulers <- {p1, p2},
    Threads <- {"t"}, MaxDay <- 2, CatchUp <- 1, MaxTries <- 2, MaxAsked <- 1,
    MaxDeaths <- 0

\* Two threads ask two candidate models under a rate and a budget.
Call == INSTANCE ModelCalls WITH clock <- s1, backend <- s2, samples <- s3,
    meters <- s4, th <- s5, shown <- s6, calls <- s7, reserved <- s8, ops <- s9,
    Threads <- {p1, p2}, Candidates <- 2, FallsBack <- {1, 2}, RateLimit <- 1,
    Window <- 2, CallLimit <- 2, RunLimit <- 1, MaxClock <- 2, MaxOps <- 3

\* Two administrators, one request for approval.
Prov == INSTANCE ModelProviders WITH record <- s1, versions <- s2, request <- s3,
    handler <- s4, gateway <- s5, crashes <- s6, Handlers <- {p1, p2},
    Requests <- {"r"}, Values <- {1}, MaxVersions <- 2, MaxCrashes <- 1

\* Two things about the installation differ from a sound one.
Inst == INSTANCE InstallValidation WITH input <- s1, changes <- s2, MaxChanges <- 2

\* The end-to-end verification against every configuration and every failure.
Poc == INSTANCE PocVerification WITH config <- s1, world <- s2, pc <- s3,
    error <- s4, sandbox <- s5, browser <- s6, page <- s7, shown <- s8, seen <- s9,
    report <- s10

\* The verification scripts against providers with two flaws.
Prv == INSTANCE ProviderChecks WITH script <- s1, flaws <- s2, keyed <- s3,
    at <- s4, live <- s5, shown <- s6, result <- s7, lost <- s8, silent <- s9,
    trouble <- s10,
    Scripts <- {"sandbox", "browser", "cluster", "docker", "queue",
                "memory", "bucket", "secret", "database", "api"},
    MaxFlaws <- 2, MaxTrouble <- 2

\* A build, an edit of the tree meanwhile, a death.
Rel == INSTANCE ReleasePackage WITH tree <- s1, build <- s2, edited <- s3,
    out <- s4, sig <- s5, sealed <- s6, check <- s7, swapped <- s8, edits <- s9,
    trouble <- s10, Builders <- {1}, MaxEdits <- 1, MaxTrouble <- 1

\* Two request threads create three sessions, two of them for one run.
Pair == INSTANCE SandboxSessions WITH pod <- s1, mem <- s2, old <- s3, req <- s4,
    tenants <- s5, orphanCleanup <- s6, given <- s7, trouble <- s8,
    Handlers <- {p1, p2}, Sessions <- 1..3, RunOf <- <<"r", "r", "s">>,
    MaxSessions <- 1, MaxSessionsPerRun <- 1, Ops <- {"create"}, MaxTrouble <- 1,
    CleanupModes <- {FALSE}

\* Two runs of a thread, a cancellation and a death.
Tsb == INSTANCE ThreadSandbox WITH ref <- s1, thread <- s2, box <- s3, run <- s4,
    saved <- s5, step <- s6, w <- s7, c <- s8, evt <- s9, proc <- s10,
    trouble <- s11, cancels <- s12, overtaken <- s13, Runs <- 1..2,
    Sessions <- 1..2, MaxTrouble <- 1, MaxCancels <- 1, MayDelete <- FALSE

\* The thread is deleted.
Gone == INSTANCE ThreadSandbox WITH ref <- s1, thread <- s2, box <- s3, run <- s4,
    saved <- s5, step <- s6, w <- s7, c <- s8, evt <- s9, proc <- s10,
    trouble <- s11, cancels <- s12, overtaken <- s13, Runs <- 1..2,
    Sessions <- 1..2, MaxTrouble <- 1, MaxCancels <- 0, MayDelete <- TRUE

\* A run publishes the files its commands leave.
Pub == INSTANCE StoredObjects WITH kind <- s1, row <- s2, due <- s3, blob <- s4,
    art <- s5, saved <- s6, approved <- s7, w <- s8, u <- s9, p <- s10, d <- s11,
    k <- s12, held <- s13, touched <- s14, raced <- s15, commands <- s16,
    trouble <- s17, Objects <- 1..4, Paths <- 1..2, MaxTrouble <- 1,
    MaxCommands <- 2, Uploads <- FALSE, Raws <- FALSE

\* Uploads, deletions, holds and the retention job.
Obj == INSTANCE StoredObjects WITH kind <- s1, row <- s2, due <- s3, blob <- s4,
    art <- s5, saved <- s6, approved <- s7, w <- s8, u <- s9, p <- s10, d <- s11,
    k <- s12, held <- s13, touched <- s14, raced <- s15, commands <- s16,
    trouble <- s17, Objects <- 1..2, Paths <- {}, MaxTrouble <- 2, MaxCommands <- 0,
    Uploads <- TRUE, Raws <- TRUE

\* Two requests about one plan, one file, holds.
Off == INSTANCE TenantOffboarding WITH plan <- s1, alive <- s2, hold <- s3,
    guarded <- s4, req <- s5, doubled <- s6, trouble <- s7, Plans <- {1},
    Requests <- {p1, p2}, Files <- {"f"}, Bundles <- {"b", "c"},
    Holdable <- {"storage", "f"}, MaxTrouble <- 1

\* An owner's password is reset while logging in.
Pass == INSTANCE Accounts WITH acct <- s1, links <- s2, sess <- s3, inv <- s4,
    linked <- s5, recorded <- s6, halted <- s7, doubled <- s8, req <- s9,
    trouble <- s10, Owners <- {"o"}, Members <- {}, Directory <- {},
    Sessions <- {1, 2}, Invites <- {}, Requests <- {p1, p2}, MaxPw <- 3,
    MaxTrouble <- 1

\* Members are invited, removed, restored and imported.
Memb == INSTANCE Accounts WITH acct <- s1, links <- s2, sess <- s3, inv <- s4,
    linked <- s5, recorded <- s6, halted <- s7, doubled <- s8, req <- s9,
    trouble <- s10, Owners <- {}, Members <- {"m", "d"}, Directory <- {"d"},
    Sessions <- {}, Invites <- {1}, Requests <- {p1, p2}, MaxPw <- 1,
    MaxTrouble <- 1

-----------------------------------------------------------------------------
rest14 == <<s14, s15, s16, s17>>
rest13 == <<s13, rest14>>
rest11 == <<s11, s12, rest13>>
rest10 == <<s10, rest11>>
rest9 == <<s9, rest10>>
rest8 == <<s8, rest9>>
rest7 == <<s7, rest8>>
rest3 == <<s3, s4, s5, s6, rest7>>

Idle14 == s14 = 0 /\ s15 = 0 /\ s16 = 0 /\ s17 = 0
Idle13 == s13 = 0 /\ Idle14
Idle11 == s11 = 0 /\ s12 = 0 /\ Idle13
Idle10 == s10 = 0 /\ Idle11
Idle9 == s9 = 0 /\ Idle10
Idle8 == s8 = 0 /\ Idle9
Idle7 == s7 = 0 /\ Idle8
Idle3 == s3 = 0 /\ s4 = 0 /\ s5 = 0 /\ s6 = 0 /\ Idle7

Init ==
    \/ part = "keys" /\ Keys!Init /\ Idle11
    \/ part = "drill" /\ Drill!Init /\ Idle13
    \/ part = "drill days" /\ Days!Init /\ Idle13
    \/ part = "calls" /\ Call!Init /\ Idle10
    \/ part = "providers" /\ Prov!Init /\ Idle7
    \/ part = "install" /\ Inst!Init /\ Idle3
    \/ part = "poc" /\ Poc!Init /\ Idle11
    \/ part = "scripts" /\ Prv!Init /\ Idle11
    \/ part = "release" /\ Rel!Init /\ Idle11
    \/ part = "limits" /\ Pair!Init /\ Idle9
    \/ part = "thread" /\ Tsb!Init /\ Idle14
    \/ part = "deleted thread" /\ Gone!Init /\ Idle14
    \/ part = "artifacts" /\ Pub!Init
    \/ part = "objects" /\ Obj!Init
    \/ part = "offboarding" /\ Off!Init /\ Idle8
    \/ part = "passwords" /\ Pass!Init /\ Idle11
    \/ part = "members" /\ Memb!Init /\ Idle11

Next ==
    /\ UNCHANGED part
    /\ \/ part = "keys" /\ Keys!Next /\ UNCHANGED rest11
       \/ part = "drill" /\ Drill!Next /\ UNCHANGED rest13
       \/ part = "drill days" /\ Days!Next /\ UNCHANGED rest13
       \/ part = "calls" /\ Call!Next /\ UNCHANGED rest10
       \/ part = "providers" /\ Prov!Next /\ UNCHANGED rest7
       \/ part = "install" /\ Inst!Next /\ UNCHANGED rest3
       \/ part = "poc" /\ Poc!Next /\ UNCHANGED rest11
       \/ part = "scripts" /\ Prv!Next /\ UNCHANGED rest11
       \/ part = "release" /\ Rel!Next /\ UNCHANGED rest11
       \/ part = "limits" /\ Pair!Next /\ UNCHANGED rest9
       \/ part = "thread" /\ Tsb!Next /\ UNCHANGED rest14
       \/ part = "deleted thread" /\ Gone!Next /\ UNCHANGED rest14
       \/ part = "artifacts" /\ Pub!Next
       \/ part = "objects" /\ Obj!Next
       \/ part = "offboarding" /\ Off!Next /\ UNCHANGED rest8
       \/ part = "passwords" /\ Pass!Next /\ UNCHANGED rest11
       \/ part = "members" /\ Memb!Next /\ UNCHANGED rest11

Spec == Init /\ [][Next]_vars

-----------------------------------------------------------------------------
\* What the platform says of itself is proven.  A day's restore drill has one
\* record, no day is passed over, and a ready record names evidence that was
\* stored and validated (process_due, validate_update_status).  An installation
\* report is ready only on sound evidence for every dependency, of one and the
\* same run, with no check skipped for want of it (run_install_validation).  A
\* demonstration is ready about one run, and leaves no session behind
\* (verify_local_cloud_poc).  No verification script passes a flaw, counts
\* silence as an answer, or leaves what it made in the service.  A package that
\* verification calls valid was signed, and the one in place is whole
\* (release_package.py).
ReportsAreProven ==
    /\ part = "drill" => /\ Drill!TypeOK /\ Drill!OneRecordPerDay
                         /\ Drill!NoDaySkipped /\ Drill!ReadyHasEvidence
    /\ part = "drill days" => /\ Days!TypeOK /\ Days!OneRecordPerDay
                              /\ Days!NoDaySkipped /\ Days!ReadyHasEvidence
    /\ part = "install" => /\ Inst!ReadyIsVerified /\ Inst!NoSilentSkip
                           /\ Inst!OneRunBehindEvidence /\ Inst!GatesStillReached
                           /\ Inst!SandboxProven
    /\ part = "poc" => /\ Poc!NoSessionForgotten /\ Poc!ReportLeavesNothing
                       /\ Poc!ReadyIsOneRun /\ Poc!ReadyIsSound
    /\ part = "scripts" => /\ Prv!SilenceProvesNothing /\ Prv!PassedIsSound
                           /\ Prv!LeavesNothing
    /\ part = "release" => /\ Rel!BuildVerifies /\ Rel!ValidWasSealed
                           /\ Rel!OutputIsWhole

\* Calls of models stay within what was allowed: a budget is overdrawn by no more
\* than the calls under way when it ran out, no window holds more reservations
\* than the limit, and a user sees the answer of one call of one provider
\* (gateway._stream_operation).  A provider's row is the last version of its
\* history, a request that reads approved has been applied, and the gateway a
\* handler puts in place holds at least its own change
\* (refresh_runtime_model_gateway).
GatewayIsGoverned ==
    /\ [](part = "calls" => /\ Call!TypeOK /\ Call!BudgetOverdraft /\ Call!RateKept
                            /\ Call!OneAnswerShown)
    /\ [](part = "providers" => /\ Prov!TypeOK /\ Prov!RowIsLatestVersion
                                /\ Prov!ApprovedIsApplied)
    /\ [][part = "providers" => Prov!HoldsOwnChange]_vars

\* Requests admitted together may pass the session limit together, but never by
\* more than the other threads (enforce_sandbox_session_limits).  When a
\* cancellation has been carried through, no command of the run is running any
\* more; and when nobody works on a thread, every sandbox that still costs money
\* is the one the thread names (_clear_thread_sandbox_reference).
SandboxesAreAccounted ==
    /\ part = "limits" => /\ Pair!TypeOK /\ Pair!OvershootBounded
    /\ part = "thread" => /\ Tsb!TypeOK /\ Tsb!CancelStopsCommand
                          /\ Tsb!NothingForgotten
    /\ part = "deleted thread" => /\ Gone!TypeOK /\ Gone!NothingForgotten

\* A file of a run is published once, only if guardrails and scanner allow it, and
\* can be downloaded until somebody deletes it (promote_run_artifacts).  A refused
\* upload leaves nothing, and content in the bucket can be found by its row
\* (storage/lifecycle.py).  The end of a tenant deletes only what an approved plan
\* covers, nothing under a hold, and all of it; the export it asked for survives
\* (offboarding_deletion.py).
ContentIsAccounted ==
    /\ part = "artifacts" => /\ Pub!TypeOK /\ Pub!PublishedOnce
                             /\ Pub!PublishedIsAllowed /\ Pub!ArtifactHasContent
    /\ part = "objects" => /\ Obj!TypeOK /\ Obj!RefusedUploadIsGone
                           /\ Obj!ContentHasRow
    /\ part = "offboarding" => /\ Off!TypeOK /\ Off!ExportSurvives
                               /\ Off!DeletedWasApproved /\ Off!HeldSurvives
                               /\ Off!DeletedIsComplete

\* Once a reset has finished, sessions opened with the old password are over, and
\* every password that was replaced was replaced by a link mailed while it was in
\* use (auth/service.py).  Nobody joins by an invitation withdrawn before they
\* began to accept it, an accepted one has made a member, and an import of the
\* directory that was recorded gave its role (identity, scim).
AccountsHold ==
    /\ part = "passwords" => /\ Pass!NewPasswordOnly /\ Pass!ResetWasAsked
    /\ part = "members" => /\ Memb!JoinedByInvitation /\ Memb!ImportIsComplete

\* As long as no execution outlives its reservation, all requests with the
\* key are refused or answered with one and the same result, although
\* processes die, operations raise and records are deleted and replaced
\* (execute_idempotently refines OncePerKey).
\* And no client of any endpoint gets the answer to another body, whichever
\* records are reclaimed, deleted or replaced meanwhile
\* (require_matching_idempotency_record).
KeepsPromise ==
    /\ part = "keys" => Keys!Promise!Init
    /\ [](part = "keys" => Keys!AnswersMatchBody)
    /\ [][part = "keys" => (Keys!Promise!Next \/ UNCHANGED Keys!Promise!vars)]_vars
=============================================================================
