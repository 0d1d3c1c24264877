--------------------------- MODULE EvaluationGate ---------------------------
(***************************************************************************)
(* The evaluation of an agent version by a suite of golden cases: each     *)
(* case is executed and scored, the results are aggregated, compared with  *)
(* the latest promoted baseline and judged by the promotion gate; a run    *)
(* that passed may become the next baseline.  Scores and rates are the     *)
(* code's fractions, compared without division; thresholds are percents.   *)
(***************************************************************************)
EXTENDS Integers, FiniteSets, FiniteSetsExt

CONSTANTS
  Weight,       \* the weight of each golden case
  Critical,     \* the cases marked critical
  FullScore,    \* a case's score is 0 .. FullScore (1.0 in the code)
  MatchRatio,   \* the share of it a case must reach to pass, in percent
  Budget,       \* what a case may cost
  AllowedEffects, \* the side effects the cases' policy allows
  Observations, \* what an execution of a case can show
  Gate,         \* the suite's gate: thresholds in percent
  Longest,      \* bound: lists of latencies the percentile is tried on
  MaxRuns       \* bound: evaluations run

VARIABLES
  results,  \* the results of the evaluation under way, by case
  verdict,  \* its verdict once it is judged
  saved,    \* the evaluations saved so far, by number
  baseline  \* the numbers of the evaluations promoted, the latest last

vars == <<results, verdict, saved, baseline>>

Cases == DOMAIN Weight
Metric == [score |-> 0, passes |-> 0, calls |-> 1, errors |-> 0, human |-> 0,
           p95 |-> 0, cost |-> 0]
None == [results |-> <<>>, metrics |-> Metric, old |-> Metric, allowed |-> FALSE,
         status |-> "none"]

Total(f, S) == MapThenSumSet(LAMBDA x : f[x], S)
Of(rs, field(_)) == Total([c \in Cases |-> field(rs[c])], Cases)
Count(rs, test(_)) == Cardinality({c \in Cases : test(rs[c])})

----------------------------------------------------------------------------
(* One case.                                                               *)

\* The output's score is the share of the contract it satisfies; the case's
\* contract asks for a share of its own (all of it for an exact value).
OutputPasses(o) == 100 * o.score >= MatchRatio * FullScore

\* Tokens, costs and seconds each have a limit; one stands for them.
OverBudget(o) == o.cost > Budget

\* Effects outside the policy's list, and external writes it does not allow.
Violates(o) == ~(o.effects \subseteq AllowedEffects)

Passes(o) == OutputPasses(o) /\ ~OverBudget(o) /\ ~Violates(o) /\ ~o.error

StatusOf(o) == IF Passes(o) THEN "passed"
               ELSE IF o.error THEN "error"
               ELSE IF OverBudget(o) THEN "budget_exceeded" ELSE "failed"

ResultOf(o) == [passed |-> Passes(o), status |-> StatusOf(o), score |-> o.score,
                effect |-> Violates(o), calls |-> o.calls, errors |-> o.errors,
                human |-> o.human, time |-> o.time, cost |-> o.cost]

----------------------------------------------------------------------------
(* The metrics of an evaluation.                                           *)

\* sorted(values)[k - 1]
Nth(values, k) ==
  CHOOSE v \in {values[i] : i \in DOMAIN values} :
    /\ Cardinality({i \in DOMAIN values : values[i] < v}) < k
    /\ Cardinality({i \in DOMAIN values : values[i] <= v}) >= k

MutPercentile(values, pct) ==
  LET n == Cardinality(DOMAIN values)
  IN  Nth(values, Max({1, Min({n, (n * pct) \div 100})}))
\* the index is ceil(n * fraction), kept between 1 and n
Percentile(values, pct) ==
  LET n == Cardinality(DOMAIN values)
  IN  Nth(values, Max({1, Min({n, (n * pct + 99) \div 100})}))

Metrics(rs) ==
  [score  |-> Total([c \in Cases |-> Weight[c] * rs[c].score], Cases),
   passes |-> Count(rs, LAMBDA x : x.passed),
   calls  |-> Max({1, Of(rs, LAMBDA x : x.calls)}),   \* 0 calls: the rate is 0
   errors |-> IF Of(rs, LAMBDA x : x.calls) = 0 THEN 0
                                                ELSE Of(rs, LAMBDA x : x.errors),
   human  |-> Count(rs, LAMBDA x : x.human > 0),
   p95    |-> Percentile([c \in Cases |-> rs[c].time], 95),
   cost   |-> Of(rs, LAMBDA x : x.cost)]

Perfect == Total(Weight, Cases) * FullScore
N == Cardinality(Cases)

----------------------------------------------------------------------------
(* The gate.                                                               *)

\* compare_metrics: a metric regressed when it fell (or grew) by more than
\* the policy's tolerance; latency and cost tolerances are relative.
MutRegressed(b, m) ==
  \/ 100 * (b.score - m.score) > Gate.scoreDrop * Perfect
  \/ 100 * (b.passes - m.passes) > Gate.successDrop * N
  \/ 100 * (m.human - b.human) > Gate.humanRise * N
  \/ 100 * (m.p95 - b.p95) > Gate.latencyRise * b.p95
  \/ 100 * (b.p95 - m.p95) > Gate.latencyRise * b.p95
Regressed(b, m) ==
  \/ 100 * (b.score - m.score) > Gate.scoreDrop * Perfect
  \/ 100 * (b.passes - m.passes) > Gate.successDrop * N
  \/ 100 * (m.errors * b.calls - b.errors * m.calls) > Gate.errorRise * m.calls * b.calls
  \/ 100 * (m.human - b.human) > Gate.humanRise * N
  \/ 100 * (m.p95 - b.p95) > Gate.latencyRise * b.p95
  \/ 100 * (m.cost - b.cost) > Gate.costRise * b.cost

\* evaluate_promotion_gate
Allowed(rs, m, old) ==
  /\ 100 * m.score >= Gate.minimumScore * Perfect
  /\ 100 * m.passes >= Gate.minimumSuccess * N
  /\ 100 * m.errors <= Gate.maximumErrors * m.calls
  /\ 100 * m.human <= Gate.maximumHuman * N
  /\ Gate.maximumP95 # 0 => m.p95 <= Gate.maximumP95
  /\ \A c \in Cases : (c \in Critical => rs[c].passed) /\ ~rs[c].effect
  /\ old # Metric => ~Regressed(old, m)

RunStatus(rs, allowed) ==
  IF allowed THEN "passed"
  ELSE IF \A c \in Cases : rs[c].status = "error" THEN "error" ELSE "failed"

----------------------------------------------------------------------------
(* The service.                                                            *)

Init ==
  /\ results = <<>>
  /\ verdict = None
  /\ saved = <<>>
  /\ baseline = <<>>

\* The cases run one after another, in the suite's order.
ExecuteCase(o) ==
  /\ Cardinality(DOMAIN saved) < MaxRuns
  /\ verdict = None
  /\ Cardinality(DOMAIN results) < N
  /\ results' = [i \in DOMAIN results \cup {Cardinality(DOMAIN results) + 1} |->
                   IF i \in DOMAIN results THEN results[i] ELSE ResultOf(o)]
  /\ UNCHANGED <<verdict, saved, baseline>>

\* latest_baseline: the one promoted last, for this version and suite.
InForce == IF baseline = <<>> THEN Metric
           ELSE saved[baseline[Cardinality(DOMAIN baseline)]].metrics

\* The baseline is read after the cases have run.
Conclude ==
  LET m == Metrics(results)
      ok == Allowed(results, m, InForce)
  IN
  /\ verdict = None
  /\ Cardinality(DOMAIN results) = N
  /\ verdict' = [results |-> results, metrics |-> m, old |-> InForce, allowed |-> ok,
                 status |-> RunStatus(results, ok)]
  /\ UNCHANGED <<results, saved, baseline>>

Save ==
  LET k == Cardinality(DOMAIN saved) + 1 IN
  /\ verdict # None
  /\ saved' = [i \in 1 .. k |-> IF i = k THEN verdict ELSE saved[i]]
  /\ results' = <<>>
  /\ verdict' = None
  /\ UNCHANGED baseline

\* assert_publishable: status and verdict; a run is promoted once (its id is
\* part of the baseline's primary key), at any later time.
MutPublishable(k) == saved[k].status # "error"
Publishable(k) == saved[k].status = "passed" /\ saved[k].allowed

PromoteToBaseline(k) ==
  LET n == Cardinality(DOMAIN baseline) + 1 IN
  /\ Publishable(k)
  /\ \A i \in DOMAIN baseline : baseline[i] # k
  /\ baseline' = [i \in 1 .. n |-> IF i = n THEN k ELSE baseline[i]]
  /\ UNCHANGED <<results, verdict, saved>>

Next == \/ \E o \in Observations : ExecuteCase(o)
        \/ Conclude
        \/ Save
        \/ \E k \in DOMAIN saved : PromoteToBaseline(k)

Spec == Init /\ [][Next]_vars

----------------------------------------------------------------------------
(* Properties.                                                             *)

IsRank(values, pct, v) ==
  LET n == Cardinality(DOMAIN values)
      AtMost(x) == Cardinality({i \in DOMAIN values : values[i] <= x})
  IN  /\ 100 * AtMost(v) >= pct * n
      /\ \A i \in DOMAIN values :
           100 * AtMost(values[i]) >= pct * n => v <= values[i]

\* The percentile is the nearest-rank one: the least latency that at least
\* that share of the cases did not exceed, for every list length up to
\* Longest and on both sides of the step at 20 cases (_percentile).
PercentileIsRank ==
  saved = <<>> /\ verdict # None =>
    /\ IsRank([c \in Cases |-> results[c].time], 95, verdict.metrics.p95)
    /\ \A n \in 1 .. Longest, pct \in {50, 95} :
         IsRank([i \in 1 .. n |-> i], pct, Percentile([i \in 1 .. n |-> i], pct))

Better(x, y) ==
  /\ x.passed => y.passed
  /\ y.effect => x.effect
  /\ y.score >= x.score
  /\ y.calls = x.calls /\ y.errors <= x.errors
  /\ y.human <= x.human /\ y.time <= x.time /\ y.cost <= x.cost

\* An evaluation whose every case did at least as well as in an allowed one
\* is allowed too: better scores, fewer failures, tool errors, interventions,
\* effects, seconds and costs never block a promotion
\* (evaluate_promotion_gate, compare_metrics).
BetterIsAllowed ==
  verdict.allowed =>
    \A rs \in [Cases -> {ResultOf(o) : o \in Observations}] :
      (\A c \in Cases : Better(verdict.results[c], rs[c]))
        => Allowed(rs, Metrics(rs), verdict.old)

\* Whatever sequence of evaluations and promotions led to it, the baseline in
\* force clears the suite's own thresholds with no critical case failed, and
\* is no worse than the tolerance below the baseline its run was judged by.
BaselineClearsGate ==
  \A i \in DOMAIN baseline :
    LET run == saved[baseline[i]]
        old == saved[baseline[i]].old
    IN  /\ 100 * run.metrics.score >= Gate.minimumScore * Perfect
        /\ 100 * run.metrics.passes >= Gate.minimumSuccess * N
        /\ \A c \in Critical : run.results[c].status = "passed"
        /\ old # Metric => ~Regressed(old, run.metrics)
=============================================================================
