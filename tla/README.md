# A TLA+ model of wrkr

wrkr is a load generator. A Lua script declares scenarios; the program spawns
one task per virtual user (VU), lets all VUs start at once, and every VU runs
the script's entry point again and again, as its scenario's executor says,
until the run ends. Metrics are recorded in a shared registry, scripts share
data through a store, and a summary is made of the registry in the end.

The modules in this directory model the program from what the user writes to
the exit code: options, executors, the run and its tasks, the data that scripts
share, metrics and thresholds, and the gRPC client down to the bytes it sends.
They are checked with TLC on small instances and, where noted, proved
with TLAPS for every value of their constants. `PROJECT.json` ties every
definition to the lines it models.

## Inventory

| Component | State | Operations | What is hard | What makes it correct |
|---|---|---|---|---|
| Run lifecycle (`wrkr-core/src/run.rs`, `vu.rs`, `wrkr-lua/src/vu.rs`) | task handles, ready barrier, init error, start signal, start time | spawn, initialise, arrive, start, iterate, abort, join, summarise | one VU fails while others initialise; start flag and wake-up are two steps; join in vu_id order | nobody starts early; an init error ends the run cleanly; the summary is complete |
| Arrival pacer and ramping-arrival-rate executor (`pacer.rs`, feeding task in `run.rs`, loop in `wrkr-lua/src/vu.rs`) | token counters, active VUs, done flag, waiters | update_due, mark_done, claim_next, wait_for_update | lock-free claims, stale reads, wake-ups that keep no permit | every due iteration claimed once or dropped; bounded backlog; VUs end |
| Iteration gate and constant-vus executor (`gate.rs`, loop in `wrkr-lua/src/vu.rs`) | counter, deadline | start_at, next | racing fetch_adds at the limit; time passing between check and use | exactly the configured number; never after the deadline |
| Schedule and ramping-vus executor (`schedule.rs`) | stages (constant) | target_at, stage_snapshot_at, next_recheck_in | interpolation at stage borders, rounding, rechecks that sleep too long | targets between the ends of a stage; a sleeping VU wakes when it is due |
| Active-VU gauges (`wrkr-core/src/vu.rs`) | two gauges per scenario | enter, drop | check-then-insert in the registry; compare-exchange loop | gauge equals VUs inside; peak is the maximum |
| Metrics registry (`wrkr-metrics/src/registry.rs`) | definitions, outer and inner maps | register, lookup, get_handle, visit, fold, summarize | two kinds of locks taken in two orders | one definition per name; ids yield handles; no deadlock |
| Interner (`wrkr-metrics/src/key.rs`) | map and vector | get_or_intern, resolve | check under the read lock, act under the write lock | strings and ids in bijection |
| Metric values and aggregation (`metrics.rs`, `agg.rs`, `metrics_agg.rs`) | counters, rates, histograms | add, fold, group, summarise | hits and total of a rate are read one after the other | sums over series match what was recorded |
| Shared store (`wrkr-shared/src/store.rs`, Lua module `shared`) | values, watch channels, barriers | set, get, delete, incr, counter, wait, barrier | notification after unlock; second reads; parties that differ | no waiter lost; counters saturate; barriers meet |
| Scenario options (`run.rs`, `config.rs`, `options.rs`, `scenario_yaml.rs`) | none | validate and convert options | defaults, zero, conflicting fields | accepted scenarios satisfy what executors assume |
| Thresholds (`thresholds.rs`, `thresholds_eval.rs`) | none | parse, evaluate | empty series, unknown metric | the verdict matches the metric |
| Run command (`wrkr/src/run.rs`, `run_support.rs`, `exit_codes.rs`, `lifecycle.rs`) | phase of the command | setup, run, teardown, handle summary, outputs | errors in each phase | hooks run in order and once; the exit code tells the first failure |
| Request and check metrics, Lua modules `group`, `metrics`, `check`, `http`, `grpc` | group stack, tags | record | tags of nested groups | every request is recorded under the right tags |
| gRPC client (`wrkr-grpc`) | pool of channels, descriptors | connect, invoke, encode, decode | concurrent connects; wire format | a client is connected to one target; a script gets back from an echo what it sent |
| Project scaffolding (`wrkr/src/init`) | files | write | a file of the user is in the way | existing files are kept |
| HTTP client (`wrkr-http`, Lua module `http`) | connections | request | — | every outcome is recorded once, with its tags (transport not modelled) |
| Output, loader, debugger, test server, tools | — | formatting and I/O | — | not modelled |

How they interact: the command builds the scenarios and calls `run_scenarios`;
that spawns VU tasks and, for each arrival-rate scenario, a feeding task. VUs
meet the runner at a barrier and at the start signal, then ask a gate, a pacer
or a schedule for iterations. Scripts call the shared store and record metrics;
the progress task reads the registry every second; the summary is computed when
every task was joined.

## Modules

| Module | Models | Proofs |
|---|---|---|
| `IterationQueue` | abstract specification of an arrival-rate executor: a bounded queue of numbered tokens | |
| `ArrivalPacer` | `ArrivalPacer`, the feeding task, the VU loop of `RampingArrivalRate` | `ArrivalPacerProofs` |
| `IterationGate` | `IterationGate` and the VU loop of `Constant` | `ExecutorsProofs` |
| `Schedule` | `RampingU64Schedule`, as functions | `ExecutorsProofs` |
| `RampingVus` | the VU loop of `RampingVus` over `Schedule` | `ExecutorsProofs` |
| `Options` | Lua options, scenario YAML, flags, `scenarios_from_options`, export, as functions | `ExecutorsProofs` |
| `Executors` | composes `Options`, `IterationGate`, `Schedule` and `RampingVus` | `ExecutorsProofs` |
| `RunLifecycle` | `run_scenarios` and `run_vu` around the executors' loops, `StartSignal` | `RunCommandProofs` |
| `RunCommand` | `main`, `run` with its hooks and output files, `export`, `init`; composes `RunLifecycle` | `RunCommandProofs` |
| `SharedStore` | key/value part of `SharedStore` and the Lua bindings | `SharedStoreProofs` |
| `SharedBarrier` | `barrier_wait`, beside `SharedStore` | `SharedStoreProofs` |
| `ActiveVus` | `enter_active_vu`, `ActiveVuGuard::drop` over `get_handle` | `MetricsProofs` |
| `Interner` | `Interner` | `MetricsProofs` |
| `MetricsRegistry` | `Registry` with its locks, composed with `Interner` | `MetricsProofs` |
| `Thresholds` | threshold keys and expressions, selectors, folds, evaluation, as functions | `RecordingLemmas` |
| `Recording` | requests, checks, iterations, groups and custom metrics, the live totals and the summary; uses `Thresholds` | `RecordingLemmas`, `RecordingProofs` |
| `MetricsParts` | `MetricsRegistry`, `ActiveVus` and `Recording` side by side | `MetricsProofs` |
| `GrpcClient` | the shared clients of `wrkr-grpc` and the Lua client's calls | `GrpcProofs` |
| `WirePrimitives` | `wire/primitives.rs`: varints, fixed and length-delimited fields, zigzag, skipping, as functions | `GrpcProofs` |
| `GrpcWire` | Lua values to protobuf bytes and back, as functions; uses `WirePrimitives` | |
| `Grpc` | composes `GrpcClient` and `GrpcWire` | |
| `MCExecutors`, `MCRunCommand`, `MCSharedStore`, `MCMetricsRegistry`, `RecordingInputs`, `MCRecording`, `MCMetrics`, `MCGrpc` | instances for TLC | |

Each task has a control state (`pc`); a step is one access to shared state: an
atomic operation, a section under a lock, or the creation or completion of a
future. Everything between two accesses is part of the step before. Accesses
are merged only where no other task can tell; the module comments say where.
External code is modelled from how it is used here: tokio's `Notify`
(`notify_waiters` wakes exactly the futures that exist), `watch` (versions),
`Barrier` and task abort; parking_lot's fair `RwLock`; the shards of a DashMap.
Definitions called "Mutant of ..." are plausible bugs; none is used by a
specification. Each property is violated when its mutant takes the place of the
definition it mutates.

### ArrivalPacer

`scheduled_total`, `claimed_total`, `dropped_total`, `active_vus` and `done` are
the atomics; `parked` is the set of `Notified` futures that exist and have not
been woken. `Tick` stands for one 10 ms tick of the feeding task, whose rate
arithmetic is reduced to *some number of iterations becomes due*; `LoadBacklog`
to `NotifyUpdate` are `update_due`, `StoreDone` and `NotifyDone` are
`mark_done`. A VU goes through `CheckDone`, `CheckActive`, `ClaimOrStop`,
`ClaimLoad`, `ClaimExchange` or `ClaimRetry`, `Park` and `Wake`, `RunOne`.
`tokens` and `due_total` are history variables. The refinement `QueueSpec` maps
the counters to `IterationQueue`.

### IterationGate

The configuration (`iterations`, `duration`) is chosen in `Init`, both or either
absent. `now` is the monotonic clock. `ReadClock`, `CheckDeadline` and `Count`
are the steps of `next()`; `granted` counts the iterations it has handed out.

### Options, Schedule, RampingVus, Executors

`Options` is a set of functions on tagged values: a field of a Lua table or of a
YAML mapping is absent, an integer, a float, a duration, another string, a
table or something else, and parsing returns a value or the first error. The
flags, the default scenario, the rules of each executor and the way back to YAML
follow the code branch by branch. `Schedule` keeps the integer arithmetic of
`target_at` and `next_recheck_in`, with the truncation of its divisions.
`binary_search` may return any of several stages that end at the same instant,
so the stage is a parameter (`StagesAt`) and properties hold for each of them.
Where the code has a chain of early returns the definitions are chains of
IF/ELSE IF, never a CASE whose guards overlap: TLC takes the first guard that
holds, while the logic allows any.
In `Executors` an input is resolved, and the VUs of the scenario that comes out
run the gate of `IterationGate` or the loop of `RampingVus`, on one clock.
Arrival-rate scenarios end where `ArrivalPacer` begins. `InputsAssumption` says
which documents a user can write: numbers are integers, lists are lists, and a
YAML scenario has the fields that serde checks. `ExportRoundTrips` asks for the
same thresholds only if no two sets have the same selector (`DistinctSelectors`);
the instance has documents with such a pair.

### RunLifecycle, RunCommand

`main` is the control state of `run_scenarios`, `pc` that of each task. VU tasks
are numbered by vu_id and feeding tasks follow, which is the order of `handles`
and therefore of the join. What an executor does between start and end is
`Iterate` and `Finish`; a panic after the start counts as a failure. A panic
during initialisation, which would leave the barrier short of a VU, is left out.

`RunCommand` puts the process around it: loading and its errors, `Setup`, the
run, `Teardown`, `HandleSummary` with the files it writes one by one, the
verdicts on checks and thresholds and the exit code. `process::exit` ends every
task that is left. Hooks are external: each may fail and may record checks.
Those of `Setup` and `Teardown` are recorded under the name Default, which is
also the name of the scenario of a script without `scenarios`; so that the two
can be told apart, the history variable `blame` keeps who failed a check, the
VUs of a scenario or `Setup`, and `ExitCodeTruthful` compares the code with it.
`Sanitize` pushes the components of a path one by one (`Pushed`), as the loop of
`sanitize_relative_output_path` does.

### SharedStore, SharedBarrier

One channel per key with a version; `Send` is its own step because `set` and
`incr` send after they release the mutex. A value is an i64 or something else,
which `as_i64` turns into 0. In `SharedBarrier` the entry is found or created
under the mutex (`BarrierWait`) and the tokio barrier is joined after it; its
generations are explicit. Keys and barriers have nothing in common but the
mutex, so that a behaviour uses one or the other (`uses`).

### ActiveVus, Interner, MetricsRegistry

`ActiveVus` follows the atomics of `enter_active_vu`; `Find` and `Make` are the
two halves of `get_handle`. `MetricsRegistry` follows the locks: `register`
holds `defs` for writing while it inserts into the outer map, `get_handle` holds
a shard of the outer map while it reads `defs`, `summarize` holds `defs` for
reading. Both `register` and `lookup_metric` begin with the interner's steps.
`Ready(t)` says, lock by lock, when a task can go on, so that `NoCircularWait`
can be stated without ENABLED and proved.

### Recording, Thresholds, MetricsParts

A call of a script becomes a sequence of updates, one for each series, with the
tags that the call, its scenario and the current group give it. An update looks
the series up (`GetHandle`), inserts one if there was none (`InsertSeries`, over
whatever is there by then; a VU that holds the other one's handle is `detached`)
and applies its value (`ApplyTo`). `ids` keeps the order in which tag keys were
interned, because selectors depend on it. The value of a histogram is the bag of
what was recorded. A query of the progress task reads the series of a metric in
one step, where `visit_series` loads them one after the other: counters only
grow, so that such a total lies between two that the model reads. `Thresholds`
evaluates the thresholds over these series with fractions for floats. `log`,
`nested` and `raced` are history variables: the properties compare the series,
the totals and the verdicts with what follows from the calls alone (`Recorded`).
A plan says which scenario each VU is of and what its script may call.
`MetricsParts` has `MetricsRegistry`, `ActiveVus` and `Recording` in one
specification, a behaviour being one of one of them; its instance `MCMetrics`
declares the tasks of the registry symmetric, since nothing tells them apart.

### GrpcClient, WirePrimitives, GrpcWire, Grpc

`GrpcClient` has the registry of shared clients by pool size, `load` under its
lock, the method cache that is read outside of it, `connect` with its recorded
arguments and the OnceCell (a semaphore that passes on when a dial fails), the
channels' turns, the ways in which `invoke` can end, and `encode`, which asks
for a method without a connection. `GrpcWire` is the data path:
`table_to_value`, coercion to the kinds of the schema, the wire encoding,
decoding, and the table that comes back, or the error if it would be too deep.
`WirePrimitives` below it turns numbers into bytes; the bits of a word and of a
varint's group are its parameters. The run scales them down (8-bit words, 3-bit
groups), which keeps every boundary: sign, zigzag, longest varint, overflow. The
proofs are for any widths of which half a word is a whole number of bytes, the
code's 64 and 7 included. `Grpc` follows a request to a server that echoes the
message, repeats its fields, packs its lists, extends it with unknown fields,
drops a part of a map's entry or cuts it off. Two properties look at what comes
back. `ScriptFaithful` compares the tables: what the script sent and what it
got, for all that a field can hold. `WireFaithful` compares the values below,
with the coercions for what a field cannot hold, and the bytes with what
protobuf says they should be; where the code departs from protobuf the property
says what the code does, and the list in "What else was met" names it.

## Runs

| Run | Instance | Shows |
|---|---|---|
| `arrival_pacer` | 2 VUs (1 pre-allocated), 2 ticks, up to 2 due | bounded backlog, tokens claimed once, VUs stop drained, refinement, in-time waiters wake |
| `arrival_pacer_drain` (violation) | 1 VU, 1 tick | the wake-up of `mark_done` can be missed and the VU never stops |
| `executors` | some fifty thousand inputs, up to 3 VUs | accepted scenarios are what executors assume, flags win, export round-trips, exact number of grants, deadline, targets reached, no oversleep, every scenario ends |
| `run_command` | 3 VUs, 1 feeding task, up to 2 output files | no early start, clean init errors, quiet summary, first error, truthful exit code, hooks alone, files confined, liveness of failed initialisation and of the start |
| `run_lifecycle_start` (violation) | 1 VU | the wake-up of `StartSignal::start` can be missed |
| `shared_store` | 3 clients, 1 key, counters 0..1, 1 barrier of 2 or 3 parties | no lost wake-up, saturating increments, waits return and see their key, barriers open for whole groups and leave nobody behind |
| `shared_store_incr` (violation) | 2 clients | `incr` may return a value other than the one it wrote |
| `metrics` | registry: 3 tasks, 2 metrics in 2 shards; gauges: 3 VUs; recording: 2 VUs, 7 plans | interning, one definition per name, handles, no circular wait; gauges exact unless a series was overwritten; series, summary, live totals and thresholds are what the calls made them |
| `active_vus_peak` (violation) | 2 VUs | two VUs create the series twice and the peak misses one |
| `metrics_registry_shard` (violation) | 2 tasks, 2 metrics in 1 shard | `register` and `get_handle` wait for each other |
| `threshold_selector` (violation) | 2 VUs | a selector with `group` and `method` matches no HTTP request |
| `grpc` | 2 VUs, 2 targets, 2 schemas, pool of 2, 3 calls; some 1500 requests | connected to the right target, one dialer, methods of the loaded schema, balanced channels, requests recorded once, connects return; what a script sends comes back from every kind of field that can hold it, or an error does; numbers in protobuf's bytes |

A property that a run names may be a conjunction; its parts are definitions of
their own, next to it, each with a comment:

| Property | Parts |
|---|---|
| `TokensSound` | `BoundedBacklog`, `EachTokenOnce`, `DrainedOnStop` |
| `GrantsExact` | `GrantsBounded`, `NoneLost`, `OnTime` |
| `OptionsFaithful` | `FlagsWin`, `ExportRoundTrips` |
| `ScheduleFollowed` | `NoOversleep`, `TargetsCovered`, `SnapshotConsistent` |
| `StartTogether` | `NoEarlyStart`, `CommonClock` |
| `OutcomeComplete` | `QuietSummary`, `FirstError` |
| `CommandSound` | `CommandTypeOK`, `HooksAlone` |
| `FilesSafe` | `OutputsConfined`, `ScaffoldKeepsFiles` |
| `RunAdvances` | `InitErrorExits`, `ParkedInTimeStarts` |
| `WaitersReturn` | `WaitReturns`, `BarrierReturns` |
| `RegistrySound` | `NamesInterned`, `OneDefPerName`, `HandlesAvailable` |
| `TypesOK`, `NeverAhead`, `NeverFall` | those of the parts of `MetricsParts` |
| `ConnectionsSound` | `ConnectedToTarget`, `OneDialer` |
| `RequestsSound` | `ChannelsBalanced`, `RequestsRecorded` |
| `SchemaSound` | `MethodsOfSchema`, `RecursionRefused` |
| `WireFaithful` | `RoundTrip`, `CutNeverAlters` |
| `RoundTrip` | `EchoFaithful`, `EchoStable`, `PackedFaithful`, `UnknownSkipped`, `RepeatedFields`, `PartialRefused`, `NumbersCanonical` |

Why the bounds suffice: with two VUs a claim can be lost to another and succeed;
with two ticks of two iterations the limit of two is reached, exceeded and
drained. Three VUs let one race at the gate while another is past it, and let
two errors come in both orders around a third VU. The inputs of `executors` are
all combinations of absent, zero, valid and malformed fields for each executor.
Three clients are two waiters and a setter, two setters and a waiter, or a group
of two and one that comes back early. Counters over 0..1 reach the end of the
range; both ends are covered by the proof. Two metrics are the fewest that
share, or do not share, a shard. The plans of `RecordingInputs` have both VUs in
one scenario, so that series are made twice, and apart; nested groups; clashes
of tags and of kinds; and ticks between the updates of a call. Calls per task
(`MaxCalls`, `plan.calls`), ticks, files and the clock (`MaxTime`) are bounded
in guards and named constants.

Runs with `CHECK_DEADLOCK FALSE` model programs that end, or scripts that may
wait for a key that nobody sets.

### What the violations mean

* `DrainsThenStops` and `EveryVuStarts`: both places look at a flag and create
  the `Notified` future afterwards, and `notify_waiters` stores no permit.
  Between the two lies a window of a few instructions; a VU caught in it hangs
  the run, since the runner joins every VU. The positive halves
  (`ParkedInTimeWakes` and, in `RunAdvances`, `ParkedInTimeStarts`) show that nothing else loses a
  wake-up. Creating (and enabling) the future before the check closes the window.
* `IncrReturnsNewValue`: two VUs that use `shared.incr` to draw unique numbers
  may both get the larger one. `shared.wait` reads its key a second time, too,
  but `WaitSeesKey` shows that nil then means a deletion.
* `PeakTracked`: `get_handle` inserts without looking again. All VUs enter right
  after the start signal, so the race is likely at the start of a run.
  `ExactUnlessRaced`, `SeriesExact` and `SummaryExact` show that it is the only
  cause of error, in the gauges and in everything else that is recorded.
* `NoCircularWait` with one shard: it takes a metric that is registered during
  the run, such as a script's custom metric, and another whose series is made
  for the first time, with ids in the same shard.
* `SelectsAll`: a selector's keys are sorted by name, tag sets by the ids of the
  keys, and the two are compared as sequences. `ThresholdsAgree` shows that
  evaluation is right whenever the orders agree. Sorting the projected tags, or
  comparing tag by tag, repairs it.

### What else was met

Divergences and edges seen while modelling, which no run is about:

* `p(N)` is documented for every N from 1 to 100; only 50, 75, 90, 95 and 99
  are ever observed, others always fail. `count` on `request_latency` without a
  selector counts every request twice.
* Thresholds are parsed after the run, and one of a metric that does not exist
  is not parsed at all.
* A script that registers one custom metric under two kinds loses the values of
  the second; histograms drop values above an hour in microseconds.
* A live tick may show more failed requests than requests, as its queries are
  made one after the other.
* `Teardown` is documented as best-effort, but is skipped when the run fails, and
  an error in it suppresses the summary. Checks recorded in `Setup` count only
  if a scenario is named Default, those of `Teardown` never.
* A YAML duration of zero is accepted; an exported file loses a threshold set if
  two keys are the same selector.
* After a failed `connect` its target stays recorded and other targets are
  refused. An empty Lua table is an array, and so no request. Packed enums come
  back as numbers, others as names.
* Protobuf writes a map's key by its own kind. Keys of kinds sint32, sint64,
  fixed32, fixed64, sfixed32 and sfixed64 are written and read as plain varints
  (`wire/map.rs`), which a server of another make misreads or refuses
  (`WrittenAs` in `Grpc`).
* A map's entry without a key or a value, to protobuf one with the default, is
  refused with the whole reply (`PartialRefused`). An embedded message that comes
  twice replaces the earlier one, where protobuf merges them (`RepeatedFields`).
* A string of the script that is no UTF-8 is sent with replacement characters,
  in fields of kind bytes, too (`lua_to_value`); a request as bytes, from
  `encode` or made by the script, is sent as it is.
* A reply that is more than 64 levels deep raises an error in the script, after
  its request was counted as ok; tables that a script sends are half as deep at
  most.
* A barrier whose parties never all come blocks its VUs beyond the deadline.

### Fairness

`ArrivalPacer`: time passes, the runtime polls ready tasks (weak fairness of
the feeding task and of each VU), iterations end, and a weak compare-exchange
does not fail spuriously forever (strong fairness of `ClaimExchange`).
`IterationGate`: time passes, the runner opens the gate, VUs are polled. There,
and in `RampingVus`, a VU sees the start signal whenever it looks
(`Begin`, `Start`), so that `ScenarioEnds` speaks of VUs that were started; that
a VU may miss the signal is the subject of `EveryVuStarts`.
`RunLifecycle`: the runner and VUs are polled; `Finish` is fair because
executors end (that is what `IterationGate` and `ArrivalPacer` are about), and
feeding tasks end with their schedule. `Executors` and `RunCommand` lift these
to the composed systems; hooks return. `SharedStore`, `SharedBarrier`: a call in
progress is polled; scripts need not call. `GrpcClient`: a call in progress is
polled and a dial ends; tokio's semaphore is a fair queue (strong fairness of
`Acquire`). `Recording` states safety only.

## Proofs

| Module | Theorems | Inductive invariant |
|---|---|---|
| `ArrivalPacerProofs` | `TypeCorrect`, `TokensKept` (of `BacklogBounded`, `TokensUnique`, `StopsDrained`), `ImplementsQueue` | the feeding task's and the VUs' last readings of `claimed_total` are never ahead of it; due = scheduled + dropped (+ the update in progress); after `done` nothing is scheduled |
| `ExecutorsProofs`, gate | `ExactGrants` (of `NeverTooMany`, `NeverTooFew`, `NeverLate`), `CounterNeverWraps` | `granted` is the smaller of the counter and the limit; the deadline is the runner's start plus the duration; the counter is past the limit by at most the VUs that have stopped |
| `ExecutorsProofs`, composed | `TypesInExecutors`, `GrantsInExecutors`, `ScenariosReady`, `OptionsKept` (with `FlagsAlwaysWin`), `RampFollowsSchedule` | the gate's; until the options are resolved nothing runs, afterwards the schedule is one with time in it and a VU for every target; the clock is not behind the start; a sleeping VU's alarm is not after its turn |
| `RunCommandProofs`, lifecycle | `TypeCorrect`, `CommonStart` (of `StartsTogether`, `OneClock`), `InitErrorsClean`, `CompleteOutcome` (of `SummaryQuiet`, `ErrorsFirst`) | what each control state of the runner implies about the barrier, the flags and the tasks' states, and what a VU's state implies about the runner |
| `RunCommandProofs`, command | `CommandImplementsRun`, `RunSafeInCommand`, `CommandIsSound`, `ExitCodes`, `FilesAreSafe` (of `OutputsStayBelow`, `ScaffoldSafe`) | the run's, carried over by the refinement; what each stage of the process implies about the run and its tasks; what the summary and the exit code were computed from; which files of the scaffold are in place |
| `SharedStoreProofs` | `TypeCorrect`, `WakeupsKept`, `IncrementsMonotone`, and the same beside barriers (`TypesInShared`, `WakeupsInShared`, `IncrementsInShared`); `WaitFinds`, `BarriersOpenWhole` | a waiter's key has a channel, and its reading of the version is not ahead of it; a client at a barrier is of its current or an earlier generation, and those of the current one are counted in `arrived` |
| `MetricsProofs`, gauges | `GaugeTypes`, `GaugesExact`, `NothingOverstated`, `PeakOnlyRises` | gauges are numbered in the order they were made; no gauge shows more than the VUs that have entered; unraced, there is one gauge of each kind, and the peak is at least what every VU past its loop has seen |
| `MetricsProofs`, registry | `RegistryTypes`, `RegistryKept` (of `NamesUnique`, `DefinitionsUnique`, `HandlesThere`), `OnlyCollisionsBlock`, `NoCircleInOwnShards` | map and vector are inverse; definitions hold distinct interned ids; whoever is between the push and the insertion holds the lock; which locks a task holds in each control state |
| `RecordingProofs` | `RecordTypes`, `TotalsNeverAhead`, `TotalsNeverFall`, `SeriesAreExact`, `SummaryIsExact`, `VerdictsAreRight` | `RInv`: types; every series and every update that is left is one that a logged call reaches, and the other way round (`ReachedOK`); the books of every series balance unless raced (`ExactOK`), and those of a counter are never short of what it shows (`AheadOK`); what the progress task has read is covered by the calls and, unless raced, by the series (`ReadOK`) |
| `MetricsProofs`, composed | `MetricsTypes`, `MetricsNeverAhead`, `MetricsNeverFall`, `MetricsSeriesExact`, `MetricsSummaryExact`, `MetricsVerdicts` | those of the three parts: a step is one of one part, and the others stutter (`PartsBehave`) |
| `GrpcProofs`, clients | `TypeCorrect`, `Connections`, `OneSchema`, `RequestsCounted` | who holds the permit of a client's cell dials it, and nobody does once it is filled; the recorded target is the one the cell was dialled for; requests were given to the channels in turn, starting at the first |
| `GrpcProofs`, bytes | `VariantsReadBack`, `BytesReadBack`, `FixedReadBack`, `ZigzagIsBijective`, `CastsAreInverse`, `SkipsOneValue`, `CutValuesRefused` | none: these are about functions |

The assumptions are those of the `ASSUME`s next to the constants, which TLC
evaluates in each run: what `scenarios_from_options` has checked, finiteness of
the sets of VUs, clients and names, the range of i64 around 0, that `None` is no
name or number, that the paths are sequences of components and the inputs are
documents that a user can write; for `Recording`, that tags come from tables, so
that a key is there once, that recorded values are integers, and that every key
of a selector has its place in the order of names. Three theorems have a
hypothesis of their own. `NoCircleInOwnShards` has that metrics do not share
shards; without it `OnlyCollisionsBlock` names the only way to wait in a circle,
the one that the run `metrics_registry_shard` shows. `SummaryIsExact`, and
`MetricsSummaryExact` after it, have `OrdinaryPlans`: scripts do not add to the
runner's own metrics, and no latency is beyond the range of its histogram. Both
are needed, since a script may register `requests_total` and add to it, and the
histogram drops what is too large; the plans of the run satisfy it.

How `RecordingProofs` is laid out: for a weight on values (each as it is, 1, or 1
for one value and 0 for others), `Credit` is what the logged calls give to a
series, `Due` what the VUs still owe it, and `Balance` the difference. When a
call begins, its updates are logged and owed at once; that the two amounts are
equal is `UpdatesFaithful`, the comparison of the code's order of merging tags
with the documentation's order of precedence. When an update is applied, its
value moves from what is owed to the series. Where no update is left, a series
is what was given to it, and sums over the series a query selects are sums over
the calls that went to them, counted once (`BagWeighs`, `CallsReach`). The
verdicts need, besides, that a projected tag set equals a sorted selector exactly
if it has all its tags (`MatchesIs`), which is where the order of ids enters.
Sums and filters are recursive functions; `RecordingLemmas` shows that they
exist, that a sum does not depend on the order of its summands, and how it
splits, by induction over sets of sets (`SetInduction`).

How `ExecutorsProofs` is laid out: sums over the stages, paths and lists are
recursive functions, and what they compute is shown by taking the least number
for which it fails (`LeastNumber`, from the well-foundedness of the naturals),
since the provers cannot instantiate the library's induction theorems. Then come
division and interpolation (monotone within a stage, between its ends, so that
the next recheck is not too late), parsing (what is accepted has its type),
resolution (what is accepted is ready and whole), the way to YAML and back, and
last the composed system.

How the bytes of `GrpcProofs` are laid out: the digits that a reader adds up are
the remainders of the number by growing powers of two (`DigitMore` for one digit
more, `JoinedIs` for all); a varint has the fewest groups that hold the number
(`VariantIs`), marks all but its last byte, and so ends where the reader looks
for the first byte without a mark, whatever follows. That the recursive
functions exist and follow their definitions comes from primitive recursion over
numbers (`RecursionOverNat`), which is proved there, too.

What the proofs changed in the model: overlapping CASE guards became IF/ELSE IF
(see above); the snapshot of a schedule that begins with two stages of no length
shows the schedule's start as its target at time zero, which
`SnapshotConsistent` now says, and the instance has such a schedule; thresholds
with one selector twice were not in the instance and are now. The order of tag
keys used to be any sequence; `ThresholdAssumption` now says that it lists every
key of a selector once.

Only model-checked: liveness, for which there is no proof rule here; and, in
`Grpc`, `WireFaithful`, `ScriptFaithful` and the `RecursionRefused` of
`SchemaSound`, whose encoders and decoders are recursive operators over messages
of any depth; the numbers, bytes and unknown values that they are made of are
covered by the theorems about `WirePrimitives`. `MethodsOfSchema`, the other half
of `SchemaSound`, is proved (`OneSchema`).

## Not modelled

Console and JSON output format data that other components compute. Script
loading, the debugger and the editor stubs are glue around the Lua interpreter.
The transport of HTTP and gRPC, the test server and the developer tools are
outside. Of what is modelled, floating-point arithmetic is left out (rates per
second, standard deviations, hdrhistogram's rounding), as are the text of
strings and names, the rate arithmetic of the feeding task, and memory use.
Memory orderings weaker than sequential consistency are not modelled: the
relaxed counters of the pacer and the gauges are single locations that are only
combined where a stale value is modelled as an earlier load.

## Plan

1. (done) arrival pacer with its abstract queue and refinement; iteration gate;
   run lifecycle; shared store; gauges; registry with interner; first proofs.
2. (done) options, schedule and ramping-vus, composed with the gate; the run
   command around the lifecycle; barriers; recording, aggregation and
   thresholds; gRPC clients and wire format.
3. (done) proofs: the executors from the options to their VUs; the run command;
   barriers; gauges; locks of the registry; gRPC clients.
4. (done) proofs about what is recorded: types, live totals, series, summary and
   verdicts, alone and in the composition of the metrics.
5. (done) proofs about `wire/primitives.rs` at any width.
6. What remains: the encoders and decoders of messages as recursive functions
   over depth, and with them `WireFaithful` for any schema.
