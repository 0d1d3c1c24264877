----------------------------- MODULE ModelCalls -----------------------------
(***************************************************************************)
(* Calls of model providers on behalf of the runs of one tenant: the       *)
(* budget guard, the router's walk over the candidate providers with       *)
(* fallback, the providers' rate limits, the one retry of a model          *)
(* operation and the meters it leaves.                                     *)
(*                                                                         *)
(* What a provider answers is an input; the candidates are numbered in the *)
(* order of ModelProviderRegistry.candidates.                              *)
(***************************************************************************)
EXTENDS Naturals, Sequences, FiniteSets, Functions

CONSTANTS
    Threads,      \* executions of runs, in one process or in several
    Candidates,   \* number of providers that match the request
    FallsBack,    \* providers whose policy allows the next one to be tried
    RateLimit,    \* max_requests_per_minute
    Window,       \* window_seconds of the rate limiter
    CallLimit,    \* max_model_usedper_tenant, 0: none
    RunLimit,     \* max_model_usedper_run, 0: none
    MaxClock,     \* bound of the clock
    MaxOps        \* bound of the model operations

VARIABLES
    clock,
    backend,   \* store of the rate limiter: redis, sql
    samples,   \* samples[p]: times of provider p's samples
    meters,    \* meters[t]: model_call_count of thread t's run
    th,        \* th[t]: the operation thread t is in
    shown,     \* shown[t]: calls whose text the user sees since the last reset
    calls,     \* history: calls made so far
    reserved,  \* history: reserved[p]: times of all reservations
    ops

vars == <<clock, backend, samples, meters, th, shown, calls, reserved, ops>>

Idle == [pc |-> "idle", p |-> 0, attempt |-> 0, stream |-> FALSE,
         yielded |-> FALSE, call |-> 0]

Init ==
    /\ clock = 0
    /\ backend \in {"redis", "sql"}
    /\ samples = [p \in 1..Candidates |-> <<>>]
    /\ meters = [t \in Threads |-> 0]
    /\ th = [t \in Threads |-> Idle]
    /\ shown = [t \in Threads |-> {}]
    /\ calls = 0
    /\ reserved = [p \in 1..Candidates |-> <<>>]
    /\ ops = 0

Tick ==
    /\ clock < MaxClock
    /\ clock' = clock + 1
    /\ UNCHANGED <<backend, samples, meters, th, shown, calls, reserved, ops>>

-----------------------------------------------------------------------------
(* The operation and its attempts *)

\* list_billing_meters of the tenant, whose runs the threads execute
TenantCalls == FoldFunction(+, 0, meters)

\* Mutant: the last call of the budget is free.
MutScopeAllowed(used, limit) == limit > 0 => used <= limit

\* _assert_scope_allowed
ScopeAllowed(used, limit) == limit > 0 => used < limit

\* ModelBudgetGuard.assert_plan_allowed reads the meters; what is under way has
\* left none yet.
Allowed(t) == ScopeAllowed(meters[t], RunLimit) /\ ScopeAllowed(TenantCalls, CallLimit)

\* _decide and the other callers: the guard, then _recorded_model_call.
Begin(t) ==
    /\ th[t] = Idle
    /\ ops < MaxOps /\ ops' = ops + 1
    /\ Allowed(t)
    /\ \E stream \in BOOLEAN :
          th' = [th EXCEPT ![t] = [Idle EXCEPT !.pc = "route", !.p = 1, !.attempt = 1,
                                               !.stream = stream]]
    /\ shown' = [shown EXCEPT ![t] = {}]
    /\ UNCHANGED <<clock, backend, samples, meters, calls, reserved>>

\* Mutant: the retry leaves the text of the first attempt on the screen.
MutEndAttempt(t, retryable) ==
    /\ meters' = [meters EXCEPT ![t] = @ + 1]
    /\ IF retryable /\ th[t].attempt = 1
       THEN th' = [th EXCEPT ![t] = [Idle EXCEPT !.pc = "route", !.p = 1, !.attempt = 2,
                                                  !.stream = th[t].stream]]
       ELSE th' = [th EXCEPT ![t] = Idle]
    /\ UNCHANGED shown

\* _run_model_attempt meters an attempt that raised like one that succeeded; a
\* retryable error of the first attempt is followed by a second one, after
\* assistant.stream.reset.
EndAttempt(t, retryable) ==
    /\ meters' = [meters EXCEPT ![t] = @ + 1]
    /\ IF retryable /\ th[t].attempt = 1
       THEN /\ th' = [th EXCEPT ![t] = [Idle EXCEPT !.pc = "route", !.p = 1,
                                          !.attempt = 2, !.stream = th[t].stream]]
            /\ shown' = [shown EXCEPT ![t] = {}]
       ELSE /\ th' = [th EXCEPT ![t] = Idle]
            /\ UNCHANGED shown

-----------------------------------------------------------------------------
(* The router and the rate limiter *)

\* The samples the script counts: it drops those at the edge of the window.
Recent(p) == SelectSeq(samples[p], LAMBDA s : s + Window > clock)

\* _recent_samples: the other stores keep those at the edge.
RecentListed(p) == SelectSeq(samples[p], LAMBDA s : s + Window >= clock)

\* assert_allowed, or the script's answer
Exceeded(p) ==
    RateLimit <= Len(IF backend = "redis" THEN Recent(p) ELSE RecentListed(p))

\* Mutant: samples are dropped one tick too early.
MutReserveRequest(p) ==
    LET recent == SelectSeq(samples[p], LAMBDA s : s + Window > clock + 1) IN
    /\ Len(recent) < RateLimit
    /\ samples' = [samples EXCEPT ![p] = Append(recent, clock)]

\* RedisModelProviderRateLimitStore.reserve_request: check and sample in one
\* script.
ReserveRequest(p) ==
    /\ Len(Recent(p)) < RateLimit
    /\ samples' = [samples EXCEPT ![p] = Append(Recent(p), clock)]

\* ModelProviderRateLimiter.reserve: without a reserving store the samples are
\* only looked at, and one is recorded when the call has succeeded.
Reserve(t) ==
    /\ th[t].pc = "route"
    /\ LET p == th[t].p IN
       /\ \/ backend = "redis" /\ ReserveRequest(p)
          \/ backend = "sql" /\ ~Exceeded(p) /\ UNCHANGED samples
       /\ reserved' = [reserved EXCEPT ![p] = Append(@, clock)]
    /\ calls' = calls + 1
    /\ th' = [th EXCEPT ![t].pc = "call", ![t].call = calls + 1]
    /\ UNCHANGED <<clock, backend, meters, shown, ops>>

\* Mutant: the walk leaves the list of candidates.
MutFallback(t, allowed, retryable) ==
    \/ /\ allowed
       /\ th' = [th EXCEPT ![t].pc = "route", ![t].p = @ + 1]
       /\ UNCHANGED <<meters, shown>>
    \/ /\ ~(allowed /\ th[t].p < Candidates)
       /\ EndAttempt(t, retryable)

\* The next candidate, or the end of the attempt.
Fallback(t, allowed, retryable) ==
    \/ /\ allowed /\ th[t].p < Candidates
       /\ th' = [th EXCEPT ![t].pc = "route", ![t].p = @ + 1]
       /\ UNCHANGED <<meters, shown>>
    \/ /\ ~(allowed /\ th[t].p < Candidates)
       /\ EndAttempt(t, retryable)

\* ModelProviderRateLimitError: the provider is not called, and the error is
\* not one that is retried.
RateLimited(t) ==
    /\ th[t].pc = "route"
    /\ Exceeded(th[t].p)
    /\ Fallback(t, th[t].p \in FallsBack, FALSE)
    /\ UNCHANGED <<clock, backend, samples, calls, reserved, ops>>

\* A delta of a stream reaches the user at once.
Yield(t) ==
    /\ th[t].pc = "call" /\ th[t].stream
    /\ th' = [th EXCEPT ![t].yielded = TRUE]
    /\ shown' = [shown EXCEPT ![t] = @ \cup {th[t].call}]
    /\ UNCHANGED <<clock, backend, samples, meters, calls, reserved, ops>>

\* record_success
Answer(t) ==
    /\ th[t].pc = "call"
    /\ samples' = IF backend = "sql"
                  THEN [samples EXCEPT ![th[t].p] = Append(RecentListed(th[t].p), clock)]
                  ELSE samples
    /\ EndAttempt(t, FALSE)
    /\ UNCHANGED <<clock, backend, calls, reserved, ops>>

\* Mutant: a stream falls back although its user has seen a part of it.
MutResponseError(t) ==
    /\ th[t].pc = "call"
    /\ \E retryable \in BOOLEAN : Fallback(t, th[t].p \in FallsBack, retryable)
    /\ UNCHANGED <<clock, backend, samples, calls, reserved, ops>>

\* ModelGatewayResponseError; a stream that has yielded does not fall back.
ResponseError(t) ==
    /\ th[t].pc = "call"
    /\ \E retryable \in BOOLEAN :
          Fallback(t, th[t].p \in FallsBack /\ ~th[t].yielded, retryable)
    /\ UNCHANGED <<clock, backend, samples, calls, reserved, ops>>

\* A refusal or a configuration error ends the attempt at any provider.
Refused(t) ==
    /\ th[t].pc = "call"
    /\ EndAttempt(t, FALSE)
    /\ UNCHANGED <<clock, backend, samples, calls, reserved, ops>>

-----------------------------------------------------------------------------

Next ==
    \/ Tick
    \/ \E t \in Threads :
          \/ Begin(t) \/ Reserve(t) \/ RateLimited(t)
          \/ Yield(t) \/ Answer(t) \/ ResponseError(t) \/ Refused(t)

Spec == Init /\ [][Next]_vars

-----------------------------------------------------------------------------
(* Properties *)

TypeOK ==
    /\ clock \in 0..MaxClock /\ backend \in {"redis", "sql"}
    /\ calls \in Nat
    /\ \A p \in 1..Candidates : \A i \in DOMAIN samples[p] : samples[p][i] \in 0..clock
    /\ \A t \in Threads :
          /\ th[t].pc \in {"idle", "route", "call"}
          /\ th[t].p \in 0..Candidates /\ th[t].attempt \in 0..2
          /\ meters[t] \in Nat /\ shown[t] \subseteq 1..calls

\* Whatever the threads interleave, a budget is overdrawn by no more than what
\* was under way when it ran out: two attempts of each thread that draws on it
\* (assert_plan_allowed reads, _record_model_operation writes later).
BudgetOverdraft ==
    /\ CallLimit > 0 => TenantCalls < CallLimit + 2 * Cardinality(Threads)
    /\ RunLimit > 0 => \A t \in Threads : meters[t] < RunLimit + 2

\* With the redis store no window of window_seconds, wherever it begins, holds
\* more reservations than the limit, failed calls and fallbacks included
\* (_reserve_request_script).
RateKept ==
    backend = "redis" =>
        \A p \in 1..Candidates : \A c \in 0..MaxClock :
            Len(SelectSeq(reserved[p], LAMBDA s : c <= s /\ s < c + Window)) <= RateLimit

\* What a user sees of an answer comes from one call of one provider, through
\* fallbacks and the retry (_stream_operation, assistant.stream.reset).
OneAnswerShown == \A t \in Threads : Cardinality(shown[t]) <= 1

=============================================================================
