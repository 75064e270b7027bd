-------------------------------- MODULE Metrics --------------------------------
(***************************************************************************)
(* What the telemetry frame says of a run's deliveries: the totals, rate   *)
(* window and latency reservoir of the metrics registry (infra/metrics.ts, *)
(* rate-window.ts, histogram.ts), beside the counters the runtime keeps of *)
(* the same results (engine/scenario-runtime.ts).  The ring of recent      *)
(* events is Telemetry's.                                                  *)
(***************************************************************************)
EXTENDS Naturals, Sequences, FiniteSets, SequencesExt, Filters

CONSTANTS
  Width,       \* seconds of the rate window
  Reservoir,   \* capacity of the latency reservoir
  Latencies,   \* latencies observed, in ms
  MaxSecond,   \* bound: seconds
  MaxResults   \* bound: results reported, over all runs

MetricsAssumption ==
  /\ {Width, Reservoir} \subseteq Nat \ {0}
  /\ {MaxSecond, MaxResults} \subseteq Nat /\ Latencies \subseteq Nat

Outcomes == {"delivered", "retried", "failed", "circuit_open", "dropped"}

VARIABLES
  second,    \* Date.now(), in seconds
  totals,    \* deliveredTotal, failedTotal, droppedTotal
  buckets,   \* the buckets of the rate window
  startSec,  \* the second of the first result, or Never
  latencies, \* the reservoir
  observed,  \* count of the histogram
  largest,   \* its max
  counters,  \* runState.counters
  reported,  \* history: the results since the run began, [outcome, at, latency]
  resultsLeft \* bound: results still to come

metricVars == <<second, totals, buckets, startSec, latencies, observed, largest, counters,
                reported, resultsLeft>>

Never == MaxSecond + 1   \* sec -1: no second ever equals it
Classes == {"delivered", "failed", "dropped"}
Zero == [class \in Classes |-> 0]
NoBucket == [sec |-> Never, tally |-> Zero]
OneMore(tally, class) == [tally EXCEPT ![class] = @ + 1]

\* recordDelivery's classes, and those of applyResult.
Class(outcome) ==
  CASE outcome \in {"delivered", "retried"} -> "delivered"
    [] outcome \in {"failed", "circuit_open"} -> "failed"
    [] OTHER -> "dropped"

\* Mutant: a bucket is not cleared when its slot comes round again.
CurrentStale(slot) == buckets[slot].tally

\* What the bucket of this second holds: its slot may have an older one.
Current(slot) == IF buckets[slot].sec = second THEN buckets[slot].tally ELSE Zero

\* record() of the histogram: beyond its capacity any sample may be replaced, or none.
Observe(latency) ==
  /\ observed' = observed + 1
  /\ largest' = IF latency > largest THEN latency ELSE largest
  /\ IF Len(latencies) < Reservoir
       THEN latencies' = Append(latencies, latency)
       ELSE \E j \in 1..(observed + 1) :
              latencies' = IF j <= Reservoir THEN [latencies EXCEPT ![j] = latency] ELSE latencies

\* A result is reported to the registry and to the run.
Report(outcome, latency) ==
  LET slot == second % Width
      class == Class(outcome)
  IN /\ resultsLeft > 0 /\ resultsLeft' = resultsLeft - 1
     /\ totals' = OneMore(totals, class)
     /\ buckets' = [buckets EXCEPT ![slot] = [sec |-> second, tally |-> OneMore(Current(slot), class)]]
     /\ startSec' = IF startSec = Never THEN second ELSE startSec
     /\ IF class = "delivered" THEN Observe(latency) ELSE UNCHANGED <<latencies, observed, largest>>
     /\ counters' = OneMore(counters, class)
     /\ reported' = Append(reported, [outcome |-> outcome, at |-> second, latency |-> latency])
     /\ UNCHANGED second

\* start() of a run: the registry is reset and the run counts from zero.
Reset ==
  /\ reported # <<>>
  /\ totals' = Zero /\ counters' = Zero
  /\ buckets' = [s \in 0..(Width - 1) |-> NoBucket]
  /\ startSec' = Never
  /\ latencies' = <<>> /\ observed' = 0 /\ largest' = 0
  /\ reported' = <<>>
  /\ UNCHANGED <<second, resultsLeft>>

Second ==
  /\ second < MaxSecond
  /\ second' = second + 1
  /\ UNCHANGED <<totals, buckets, startSec, latencies, observed, largest, counters, reported, resultsLeft>>

MetricsInit ==
  /\ second = 0 /\ totals = Zero /\ counters = Zero
  /\ buckets = [s \in 0..(Width - 1) |-> NoBucket]
  /\ startSec = Never
  /\ latencies = <<>> /\ observed = 0 /\ largest = 0
  /\ reported = <<>> /\ resultsLeft = MaxResults

MetricsNext ==
  \/ \E outcome \in Outcomes, latency \in Latencies : Report(outcome, latency)
  \/ Reset \/ Second

MetricsSpec == MetricsInit /\ [][MetricsNext]_metricVars

-----------------------------------------------------------------------------
(* What a frame is told *)

\* aggregate: the buckets whose second is in the window.
InWindow(b) == b.sec <= second /\ second < b.sec + Width
Aggregate(class) ==
  SumFunction([s \in DOMAIN buckets |-> IF InWindow(buckets[s]) THEN buckets[s].tally[class] ELSE 0])

\* rps(): the deliveries in the window, by the seconds it has been filling.
RpsDivisor ==
  LET elapsed == second - startSec + 1
  IN IF elapsed < Width THEN elapsed ELSE Width

\* The reservoir in ascending order, and its nearestRank for a quantile in hundredths.
Ascending(p) == \A i, j \in DOMAIN p : i < j => latencies[p[i]] <= latencies[p[j]]
Sorted ==
  LET p == CHOOSE p \in Bijection(DOMAIN latencies, DOMAIN latencies) : Ascending(p)
  IN [i \in DOMAIN latencies |-> latencies[p[i]]]
Rank(q) == (q * Len(latencies) + 99) \div 100
NearestRank(q) == IF latencies = <<>> THEN 0 ELSE Sorted[IF Rank(q) = 0 THEN 1 ELSE Rank(q)]

-----------------------------------------------------------------------------
(* Properties *)

Results == [outcome : Outcomes, at : 0..MaxSecond, latency : Latencies]
Of(class) == {r \in Results : Class(r.outcome) = class}
Reported(some) == Cardinality({i \in DOMAIN reported : reported[i] \in some})

\* The frame's totals and the run's counters are what was reported
\* (metrics.ts:12-16, scenario-runtime.ts:412-430).
TotalsAgree ==
  /\ totals = counters
  /\ \A class \in Classes : totals[class] = Reported(Of(class))

\* The window holds exactly the results of its last seconds, whichever slots
\* they share with older ones, and never divides by more seconds than it has
\* been filling (rate-window.ts:58-106).
WindowExact ==
  /\ \A class \in {"delivered", "failed"} :
       Aggregate(class) = Reported({r \in Of(class) : second < r.at + Width})
  /\ startSec # Never => RpsDivisor \in 1..Width /\ \A i \in DOMAIN reported : reported[i].at >= startSec

\* The reservoir holds latencies that were observed, all of them while it has
\* room; the percentiles are in order, and as long as it has room they are exact:
\* so many per cent of all observations are no larger, and fewer are smaller
\* (histogram.ts:58-106).
Successes == Selected(reported, Of("delivered"))
NoLarger(v) == Cardinality({i \in DOMAIN Successes : Successes[i].latency <= v})
Below(v) == Cardinality({i \in DOMAIN Successes : Successes[i].latency < v})
LatencyTrue ==
  /\ observed = Len(Successes)
  /\ Range(latencies) \subseteq {Successes[i].latency : i \in DOMAIN Successes}
  /\ NearestRank(50) <= NearestRank(95) /\ NearestRank(95) <= NearestRank(99)
  /\ NearestRank(99) <= largest
  /\ 0 < observed /\ observed <= Reservoir =>
       \A q \in {50, 95, 99} : /\ 100 * NoLarger(NearestRank(q)) >= q * observed
                              /\ 100 * Below(NearestRank(q)) < q * observed

MetricsTrue == TotalsAgree /\ WindowExact /\ LatencyTrue
=============================================================================
