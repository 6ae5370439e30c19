------------------------------ MODULE Metrics ------------------------------
(***************************************************************************)
(* What a shard reports of itself: the counters and histograms of          *)
(* crates/grommet/src/metrics.rs and the in-flight ages of shard.rs.       *)
(*                                                                         *)
(* The shard's own copy (ShardHot) is `hot`; once per tick, and when it    *)
(* returns, the shard stores it field by field into `stats` (ShardStats),  *)
(* where an exporter reads at any time.  The stores are relaxed, so they   *)
(* become visible in any order.  Of the counters two are kept, without     *)
(* their classes, and of the gauges of the book's snapshot the number in   *)
(* flight; the others are published alike.  A histogram is a bag of times  *)
(* with one bucket per unit and a top bucket; queue waits are recorded     *)
(* like process times.                                                     *)
(*                                                                         *)
(* `running` and `truth` are what really happened.                         *)
(***************************************************************************)
EXTENDS Integers, FiniteSets, FiniteSetsExt

CONSTANTS
  DispatchBudget,\* the sum of max_inflight
  HighestTime,   \* HIGHEST_NANOS
  MaxDispatches, \* bound: dispatches
  MaxTime        \* bound: the clock

ASSUME MetricsConstants ==
  /\ {DispatchBudget, HighestTime, MaxDispatches, MaxTime} \subseteq Nat

VARIABLES
  time,         \* the shard's clock
  running,      \* the dispatches in flight: [sequence, since]
  started_at,   \* InFlightAges::started_at
  alive,        \* InFlightAges::live
  sequence,     \* InFlightAges::next
  hot, stats,   \* the shard's copy and the published one
  unpublished,  \* fields the publish under way has not stored yet
  truth         \* the age at the last look, and the bag of times taken

ages == <<started_at, alive, sequence>>
metricsVars == <<time, running, ages, hot, stats, unpublished, truth>>

AgeSlots == 0 .. Max({DispatchBudget, 1}) - 1
SlotOf(n) == n % Cardinality(AgeSlots)

Latencies == 0 .. HighestTime
Histogram == [t \in Latencies |-> 0]

ShardHot == [completed |-> 0, failed |-> 0, age |-> 0, process |-> Histogram]
Fields == {"inflight"} \cup DOMAIN ShardHot
ShardStats == [f \in Fields |-> IF f = "inflight" THEN 0 ELSE ShardHot[f]]

MetricsInit ==
  /\ time = 0
  /\ running = {}
  /\ started_at = [s \in AgeSlots |-> 0]
  /\ alive = [s \in AgeSlots |-> FALSE]
  /\ sequence = 0
  /\ hot = ShardHot /\ stats = ShardStats
  /\ unpublished = {}
  /\ truth = [age |-> 0, process |-> Histogram]

-----------------------------------------------------------------------------

(* saturating_record.                                                      *)
Record(histogram, t) == [histogram EXCEPT ![Min({t, HighestTime})] = @ + 1]

Dispatched ==
  /\ unpublished = {}
  /\ Cardinality(running) < DispatchBudget
  /\ sequence < MaxDispatches
  /\ running' = running \cup {[sequence |-> sequence, since |-> time]}
  /\ started_at' = [started_at EXCEPT ![SlotOf(sequence)] = time]
  /\ alive' = [alive EXCEPT ![SlotOf(sequence)] = TRUE]
  /\ sequence' = sequence + 1
  /\ UNCHANGED <<time, hot, stats, unpublished, truth>>

(* What a completion adds to the shard's own copy.                         *)
Counted(fails, t) ==
  [hot EXCEPT !.completed = @ + 1,
              !.failed = IF fails THEN @ + 1 ELSE @,
              !.process = Record(@, t)]

AfterFinish_StaysAlive(n) == alive
AfterFinish(n) == [alive EXCEPT ![SlotOf(n)] = FALSE]

(* InFlightAges::finish, from harvest_completions.                         *)
Finished(d, fails) ==
  /\ unpublished = {}
  /\ running' = running \ {d}
  /\ alive' = AfterFinish(d.sequence)
  /\ hot' = Counted(fails, time - started_at[SlotOf(d.sequence)])
  /\ truth' = [truth EXCEPT !.process = Record(@, time - d.since)]
  /\ UNCHANGED <<time, started_at, sequence, stats, unpublished>>

AgeSince(starts) == IF starts = {} THEN 0 ELSE time - Min(starts)

(* InFlightAges::oldest.                                                   *)
OldestAge == AgeSince({started_at[s] : s \in {t \in AgeSlots : alive[t]}})

(* The tick, or the return of run: look at the ages, and publish.          *)
Reports ==
  /\ unpublished = {}
  /\ hot' = [hot EXCEPT !.age = OldestAge]
  /\ truth' = [truth EXCEPT !.age = AgeSince({d.since : d \in running})]
  /\ unpublished' = Fields
  /\ UNCHANGED <<time, running, ages, stats>>

(* Scheduler::snapshot.                                                    *)
Snapshot == Cardinality(running)

(* One store of publish, or one republish under the histogram's lock.      *)
Store(f) ==
  /\ f \in unpublished
  /\ stats' = [stats EXCEPT ![f] = IF f = "inflight" THEN Snapshot ELSE hot[f]]
  /\ unpublished' = unpublished \ {f}
  /\ UNCHANGED <<time, running, ages, hot, truth>>

ClockMoves ==
  /\ time < MaxTime
  /\ time' = time + 1
  /\ UNCHANGED <<running, ages, hot, stats, unpublished, truth>>

MetricsNext ==
  \/ Dispatched \/ Reports \/ ClockMoves
  \/ \E d \in running, fails \in BOOLEAN : Finished(d, fails)
  \/ \E f \in Fields : Store(f)

MetricsSpec == MetricsInit /\ [][MetricsNext]_metricsVars

-----------------------------------------------------------------------------

(* The samples a histogram holds from t up, one by one.                    *)
Samples(histogram, t) ==
  UNION {{u} \X (1 .. histogram[u]) : u \in {v \in Latencies : v >= t}}

AtLeastAs(histogram, t) == Cardinality(Samples(histogram, t))

(* A report may come late or miss something, but it never exaggerates,     *)
(* although slots of the ages are reused while an older dispatch runs and  *)
(* publishing is torn: the age is never more than that of the oldest       *)
(* dispatch in flight, and zero when there is none; no published quantile  *)
(* is above the true one; no published counter is ahead of what happened;  *)
(* and once all of a report is stored, its parts agree: an age is that of  *)
(* something in flight, and every dispatch is counted at most once.        *)
NeverExaggerates ==
  /\ hot.age <= truth.age
  /\ \A t \in Latencies :
       AtLeastAs(stats.process, t) <= AtLeastAs(truth.process, t)
  /\ stats.failed <= hot.failed
  /\ stats.completed + Cardinality(running) <= sequence
  /\ unpublished = {} =>
       /\ stats.age > 0 => stats.inflight > 0
       /\ stats.completed + stats.inflight <= sequence

=============================================================================
