-------------------------- MODULE InventoryBoundary --------------------------
(***************************************************************************)
(* InventoryBoundary: the gate every native operation of an inventory goes *)
(* through (cancel, pause, pacing), with the control handle that changes   *)
(* all three from other threads, and the telemetry of the operations: the  *)
(* collector, its latency histograms and the percentiles of a slice.       *)
(* Time passes in ticks.                                                   *)
(***************************************************************************)
EXTENDS Naturals, Sequences, FiniteSets, FiniteSetsExt, Functions, TLC

CONSTANTS
  Setters,        \* threads that call set_pacing
  Pacings,        \* pacings they set: [interval : Nat, rate : Nat]
  Costs,          \* item costs of the operations
  TicksPerSecond,
  Bounds,         \* INVENTORY_NATIVE_OPERATION_LATENCY_BUCKET_UPPER_BOUNDS_NS
  Percents,       \* 50, 95, 99
  OperationKinds, \* InventoryNativeOperationKind
  Da3Page,        \* the kind of a DA 3 page
  MaxOperations,  \* bound: operations in a slice
  MaxDuration,    \* bound: ticks an operation takes
  Longest,        \* bound: ticks since the last start are counted up to it
  Nil

NoPacing == [interval |-> 0, rate |-> 0]

\* pacing_interval: a rate of 0 is no rate, a cost counts as one item at least.
PacingInterval(interval, rate, cost) ==
  Max({interval, IF rate = 0 THEN 0 ELSE (Max({cost, 1}) * TicksPerSecond) \div rate})

Intervals == {p.interval : p \in Pacings \cup {NoPacing}}
Rates == {p.rate : p \in Pacings \cup {NoPacing}}

ASSUME BoundaryAssumption ==
  /\ Pacings \subseteq [interval : Nat, rate : Nat] /\ Costs \subseteq Nat
  /\ Bounds \in Seq(Nat) /\ \A i \in 1 .. Len(Bounds) - 1 : Bounds[i] < Bounds[i + 1]
  /\ Percents \subseteq 1 .. 100 /\ IsFiniteSet(OperationKinds) /\ Da3Page \in OperationKinds
  /\ MaxOperations \in Nat /\ MaxDuration \in Nat
  /\ Longest \in Nat /\ Nil \notin Nat
  /\ \A i \in Intervals, r \in Rates, c \in Costs : PacingInterval(i, r, c) \in 0 .. Longest - 1

VARIABLES
  cancelled, paused,
  cells,         \* the two atomics of the pacing
  setter,        \* per thread: the pacing whose rate is still to be stored
  at,            \* where the worker is
  op,            \* the operation it is about to start or runs
  read,          \* the pacing it has read
  since,         \* ticks since last_started, Nil before the first start
  stage,         \* run_inventory: capabilities, the turn for the root, later turns
  ops,           \* native_operations beyond operations_before, read at each turn
  stats,         \* the collector: a histogram per kind
  report,        \* observations of the slice that just ended
  ran,           \* external: ticks the running operation has taken
  samples,       \* history: durations since the last take, per kind
  kept,          \* history: operations of a turn that ended without a take
  held,          \* history: values of both cells since the last look
  gap            \* history: ticks since an operation started, up to Longest

controlVars == <<cancelled, paused, cells, setter>>
gateVars == <<at, op, read, since>>
telemetryVars == <<stage, ops, stats, report, ran>>
historyVars == <<samples, kept, held, gap>>
vars == <<controlVars, gateVars, telemetryVars, historyVars>>

EmptyHistogram == [i \in 1 .. Len(Bounds) + 1 |-> 0]
NoStats == [count |-> 0, max |-> 0, buckets |-> EmptyHistogram]
NoSamples == [k \in OperationKinds |-> [d \in 0 .. MaxDuration |-> 0]]

Holding(c) == [interval |-> {c.interval}, rate |-> {c.rate}]

Init ==
  /\ cancelled = FALSE /\ paused = FALSE
  /\ cells = NoPacing /\ setter = [s \in Setters |-> Nil]
  /\ at = "slice" /\ op = Nil /\ read = NoPacing /\ since = Nil
  /\ stage = "startup" /\ ops = 0 /\ stats = [k \in OperationKinds |-> NoStats] /\ report = Nil /\ ran = 0
  /\ samples = NoSamples /\ kept = 0 /\ held = Holding(NoPacing) /\ gap = Longest

-----------------------------------------------------------------------------
(* The control handle, from any thread. *)

Cancel ==
  /\ cancelled' = TRUE
  /\ UNCHANGED <<paused, cells, setter, gateVars, telemetryVars, historyVars>>

PauseOrResume ==
  /\ paused' \in BOOLEAN
  /\ UNCHANGED <<cancelled, cells, setter, gateVars, telemetryVars, historyVars>>

\* set_pacing stores the interval, then the rate.
StoreInterval(s) ==
  /\ setter[s] = Nil
  /\ \E p \in Pacings :
       /\ setter' = [setter EXCEPT ![s] = p]
       /\ cells' = [cells EXCEPT !.interval = p.interval]
       /\ held' = [held EXCEPT !.interval = @ \cup {p.interval}]
  /\ UNCHANGED <<cancelled, paused, gateVars, telemetryVars, samples, kept, gap>>

StoreRate(s) ==
  /\ setter[s] # Nil
  /\ setter' = [setter EXCEPT ![s] = Nil]
  /\ cells' = [cells EXCEPT !.rate = setter[s].rate]
  /\ held' = [held EXCEPT !.rate = @ \cup {setter[s].rate}]
  /\ UNCHANGED <<cancelled, paused, gateVars, telemetryVars, samples, kept, gap>>

-----------------------------------------------------------------------------
(* before_operation_with_cost, one turn of its loop after the other. *)

\* paced_call, or a refill of a string iterator behind the gate.
Begin ==
  /\ at = "slice" /\ ops < MaxOperations
  /\ \E k \in OperationKinds, c \in Costs : op' = [kind |-> k, cost |-> c]
  /\ at' = "look" /\ report' = Nil
  /\ UNCHANGED <<controlVars, read, since, stage, ops, stats, ran, historyVars>>

\* Cancelled: the operation is not started.
GiveUp ==
  /\ at = "look" /\ cancelled
  /\ at' = "slice" /\ op' = Nil
  /\ UNCHANGED <<controlVars, read, since, telemetryVars, historyVars>>

\* Paused: wait in the inner loop, until a resume or a cancel.
Look ==
  /\ at = "look" /\ ~cancelled
  /\ at' = IF paused THEN "paused" ELSE "interval"
  /\ held' = Holding(cells)
  /\ UNCHANGED <<controlVars, op, read, since, telemetryVars, samples, kept, gap>>

\* Mutation: only a resume ends the pause.
ResumeEndsPause == ~paused

PauseEnds == ~paused \/ cancelled

LeavePause ==
  /\ at = "paused" /\ PauseEnds
  /\ at' = "look"
  /\ UNCHANGED <<controlVars, op, read, since, telemetryVars, historyVars>>

\* InventoryControl::pacing loads the two atomics one after the other.
LoadInterval ==
  /\ at = "interval" /\ at' = "rate"
  /\ read' = [read EXCEPT !.interval = cells.interval]
  /\ UNCHANGED <<controlVars, op, since, telemetryVars, historyVars>>

LoadRate ==
  /\ at = "rate" /\ at' = "elapsed"
  /\ read' = [read EXCEPT !.rate = cells.rate]
  /\ UNCHANGED <<controlVars, op, since, telemetryVars, historyVars>>

\* checked_sub is None only when more than the interval has passed; otherwise
\* sleep for a moment and begin anew.
MustWait == since # Nil /\ since <= PacingInterval(read.interval, read.rate, op.cost)

CompareElapsed ==
  /\ at = "elapsed"
  /\ at' = IF MustWait THEN "look" ELSE "recheck"
  /\ UNCHANGED <<controlVars, op, read, since, telemetryVars, historyVars>>

\* Mutation: after the pacing only a pause is looked for.
OnlyPauseRechecked == ~paused

MayStart == ~cancelled /\ ~paused

Recheck ==
  /\ at = "recheck" /\ ~MayStart
  /\ at' = "look"
  /\ UNCHANGED <<controlVars, op, read, since, telemetryVars, historyVars>>

\* Mutation: last_started is the time of the first operation.
FirstStart == IF since = Nil THEN 0 ELSE since

JustStarted == 0

\* Proceed.
Start ==
  /\ at = "recheck" /\ MayStart
  /\ at' = "start"
  /\ UNCHANGED <<controlVars, op, read, since, telemetryVars, historyVars>>

\* The flags may change once more before the operation is entered.
Enter ==
  /\ at = "start"
  /\ at' = "running" /\ since' = JustStarted /\ ops' = ops + 1 /\ ran' = 0
  /\ gap' = 0
  /\ UNCHANGED <<controlVars, op, read, stage, stats, report, samples, kept, held>>

-----------------------------------------------------------------------------
(* Telemetry. *)

\* bucket_index: the first bound that is not exceeded, or the overflow bucket.
BucketIndex(d) == Cardinality({i \in DOMAIN Bounds : Bounds[i] < d}) + 1

Record(s, d) ==
  [count |-> s.count + 1, max |-> Max({s.max, d}),
   buckets |-> [s.buckets EXCEPT ![BucketIndex(d)] = @ + 1]]

\* Mutation: the rank is rounded down.
RankRoundedDown(percent, total) == Max({(total * percent) \div 100, 1})

Rank(percent, total) == Max({(total * percent + 99) \div 100, 1})

\* percentile_from_rank: the bound of the bucket where the cumulated counts
\* reach the rank, or the maximum in the overflow bucket.
Percentile(percent, s) ==
  LET reaching == {i \in DOMAIN s.buckets : SumFunctionOnSet(s.buckets, 1 .. i) >= Rank(percent, s.count)}
  IN IF s.count = 0 THEN 0
     ELSE IF reaching = {} \/ Min(reaching) > Len(Bounds) THEN s.max
     ELSE Bounds[Min(reaching)]

\* The operation returned, with success or an error: it is recorded.
Finish ==
  /\ at = "running"
  /\ stats' = [stats EXCEPT ![op.kind] = Record(@, ran)]
  /\ samples' = [samples EXCEPT ![op.kind][ran] = @ + 1]
  /\ at' = "slice" /\ op' = Nil /\ ran' = 0
  /\ UNCHANGED <<controlVars, read, since, stage, ops, report, kept, held, gap>>

StatsAfterTake == [k \in OperationKinds |-> NoStats]

\* The capabilities are known, or a page is done: the event takes what the
\* collector holds, beside the operations of this turn alone. The first page of
\* the root needs one, by DA 3 or by DA 2; a later page may come from strings an
\* iterator still holds.
EndSlice ==
  /\ at = "slice" /\ (stage = "root" \/ kept > 0 => ops > 0)
  /\ stage' = IF stage = "startup" THEN "root" ELSE "later"
  /\ report' = [operations |-> ops, kept |-> kept, of |-> samples,
                stats |-> [k \in OperationKinds |->
                  [count |-> stats[k].count, max |-> stats[k].max,
                   percentiles |-> [p \in Percents |-> Percentile(p, stats[k])]]]]
  /\ stats' = StatsAfterTake /\ ops' = 0 /\ samples' = NoSamples /\ kept' = 0
  /\ UNCHANGED <<controlVars, gateVars, ran, held, gap>>

\* The DA 3 page of the root failed and the run goes over to DA 2: the next
\* turn counts its operations from there, and nothing takes the record of the page.
FallBack ==
  /\ at = "slice" /\ stage = "root" /\ ops = 1 /\ stats[Da3Page].count = 1
  /\ stage' = "later" /\ ops' = 0 /\ kept' = ops
  /\ UNCHANGED <<controlVars, gateVars, stats, report, ran, samples, held, gap>>

Tick ==
  /\ since' = IF since = Nil \/ since = Longest THEN since ELSE since + 1
  /\ gap' = IF gap = Longest THEN gap ELSE gap + 1
  /\ at = "running" => ran < MaxDuration
  /\ ran' = IF at = "running" THEN ran + 1 ELSE ran
  /\ UNCHANGED <<controlVars, at, op, read, stage, ops, stats, report, samples, kept, held>>

-----------------------------------------------------------------------------
(* Specification. *)

Control == Cancel \/ PauseOrResume \/ \E s \in Setters : StoreInterval(s) \/ StoreRate(s)

Gate == \/ GiveUp \/ Look \/ LeavePause \/ LoadInterval \/ LoadRate \/ CompareElapsed
        \/ Recheck \/ Start \/ Enter

Next == Control \/ Begin \/ Gate \/ Finish \/ EndSlice \/ FallBack \/ Tick

Spec == Init /\ [][Next]_vars

\* The worker thread is scheduled and the clock runs.
FairSpec == Spec /\ WF_vars(Gate) /\ WF_vars(Tick)

-----------------------------------------------------------------------------
(* Properties. *)

Enters == at # "running" /\ at' = "running"

\* An operation starts only after more than the pacing interval since the one
\* before, however often the pacing changes while the worker waits. The two
\* atomics are stored and loaded one by one, so that the interval may be that
\* of a pair nobody set: each half was in its cell since the last look.
Paced ==
  [][Enters =>
       \E i \in held.interval, r \in held.rate :
         gap = Longest \/ gap > PacingInterval(i, r, op.cost)]_vars

\* A cancel that comes before an operation has passed its checks, also while
\* the worker waits in a pause or for the pacing, lets no operation start.
CancelStops ==
  [](cancelled /\ at \notin {"start", "running"} => [](at # "running"))

\* The observations r that the startup or a slice reports: every operation it started
\* is in them once, and besides them only the page of a root that fell back to DA 2,
\* which is reported with the slice after it; a percentile is the smallest bound that the nearest-rank percentile of the
\* recorded durations does not exceed, or the longest duration beyond them all.
Exact(r) ==
  LET total(k) == SumFunction(r.of[k])
      upto(k, d) == SumFunctionOnSet(r.of[k], 0 .. d)
      nearest(k, p) == Min({d \in 0 .. MaxDuration : 100 * upto(k, d) >= p * total(k)
                                                     /\ upto(k, d) > 0})
  IN /\ r.kept \in {0, 1}
     /\ r.operations + r.kept = SumFunction([k \in OperationKinds |-> r.stats[k].count])
     /\ \A k \in OperationKinds :
          /\ r.stats[k].count = total(k)
          /\ total(k) > 0 => \A p \in Percents :
               LET above == {i \in DOMAIN Bounds : nearest(k, p) <= Bounds[i]}
               IN r.stats[k].percentiles[p] =
                    IF above = {} THEN Max({d \in 0 .. MaxDuration : r.of[k][d] > 0})
                    ELSE Bounds[Min(above)]

\* Every report is exact, whatever the turns before it left in the collector.
ReportExact == report # Nil => Exact(report)

\* The gate answers, unless the inventory is paused again and again: a cancel ends a pause,
\* and no sequence of pacing changes holds an operation back for ever.
GateAnswers ==
  (<>[]~paused \/ <>[]cancelled) => (at = "look" ~> at \in {"slice", "running"})

=============================================================================
