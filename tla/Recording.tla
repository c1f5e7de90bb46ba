------------------------------ MODULE Recording -----------------------------
(***************************************************************************)
(* What VUs record and what is made of it: requests, checks, iterations    *)
(* and custom metrics, tagged with their scenario, its tags and the        *)
(* current group, go into the series of the registry; the progress task    *)
(* sums the series up every second, and the summary and the thresholds     *)
(* when all VUs have ended.                                                *)
(*                                                                         *)
(* A call is a sequence of updates, one for each series.  An update        *)
(* resolves its tags, gets a handle (a lookup and, if there is no such     *)
(* series, an insertion over whatever is there by then, as in ActiveVus)   *)
(* and applies the value to the handle.  A tag set is a set of pairs: all  *)
(* tag sets are sorted by the ids of their keys, which have at most one    *)
(* value.                                                                  *)
(***************************************************************************)
EXTENDS Thresholds, Bags

CONSTANTS VuIds,
          Scenarios,
          ScenarioTags,  \* the tags in the options of the scenarios: a sequence of pairs
          Plans,         \* what a run may consist of: the scenario of each VU that gets an
                         \* iteration, the groups and calls that scripts make and how many
                         \* of them each VU makes, and how often the progress task runs
          HistogramMax,  \* the largest value that a histogram takes
          Keys, Exprs    \* threshold keys and expressions, as written

NoGroup == ""

Counters   == {"iterations_total", "requests_total", "bytes_received_total", "bytes_sent_total",
               "request_errors_total", "request_errors_by_kind_total", "checks"}
Histograms == {"iteration_duration", "request_latency"}
Builtin    == [m \in Counters \union Histograms |->
                  IF m \in Counters THEN "Counter" ELSE "Histogram"]
Kinds      == {"Counter", "Gauge", "Rate", "Histogram"}

\* Tags are a sequence of pairs; they come from tables and maps, so that a key is
\* there once.
IsTags(tags) ==
    /\ tags \in Seq(ToSet(tags))
    /\ \A i, j \in DOMAIN tags : tags[i][1] = tags[j][1] => i = j

IsRequest(c) ==
    /\ c.op \in {"http", "grpc"}
    /\ IsTags(c.tags)
    /\ c.ok \in BOOLEAN
    /\ c.latency \in Nat /\ c.received \in Nat /\ c.sent \in Nat
IsCheck(c) ==
    c.op = "check" /\ c.passed \in BOOLEAN
IsAdd(c) ==
    /\ c.op = "add"
    /\ c.kind \in Kinds /\ IsTags(c.tags)
    /\ c.value.t \in {"integer", "boolean"} /\ c.value.n \in Int

ASSUME RecordingAssumption ==
    /\ IsFiniteSet(VuIds)
    /\ IsTags(ScenarioTags)
    /\ HistogramMax \in Nat
    /\ \A p \in Plans :
          /\ DOMAIN p.scenario \subseteq VuIds
          /\ \A v \in DOMAIN p.scenario : p.scenario[v] \in Scenarios /\ p.calls[v] \in Nat
          /\ \A c \in p.menu : IsRequest(c) \/ IsCheck(c) \/ IsAdd(c)
          /\ p.ticks \in Nat

\* Every tag key of a selector has its place in the order of the names.
ASSUME ThresholdAssumption ==
    /\ Alphabet \in Seq(ToSet(Alphabet))
    /\ \A i, j \in DOMAIN Alphabet : Alphabet[i] = Alphabet[j] => i = j
    /\ \A raw \in Keys :
          /\ raw.parts \in Seq(ToSet(raw.parts))
          /\ \A p \in ToSet(raw.parts) :
                p.form = "blank" \/ BadPair(p) \/ p.k \in ToSet(Alphabet)
    /\ \A e \in Exprs : e.value \in Int

VARIABLES
    plan,      \* one of the Plans
    ids,       \* the tag keys in the order in which they were interned
    kinds,     \* the kind of each registered metric
    values,    \* the value of each series, by <<metric, tags>>
    detached,  \* the VUs whose handle is of a series that is no longer in the registry
    raced,     \* history: a series was inserted over another one
    phase,     \* the control state of each VU
    todo,      \* the updates left of each VU's call
    group,     \* wrkr_current_group
    saved,     \* the `prev` of each group.group that has not returned
    made,      \* how many calls each VU has made
    ticks,     \* how often the progress task has begun
    left,      \* the queries it has left to make
    read,      \* its last reading of each total
    nested,    \* history: the groups each script is in
    log        \* history: a bag of the calls, with their scenarios and groups

metrics    == <<ids, kinds, values, detached, raced>>
script     == <<group, saved, made, nested, log>>
live       == <<ticks, left, read>>
recordVars == <<plan, metrics, phase, todo, script, live>>

Zero(kind) ==
    CASE kind = "Histogram" -> EmptyBag
      [] kind = "Rate" -> [total |-> 0, hits |-> 0]
      [] OTHER -> 0

\* A function that has a value for one more argument.
With(f, x, y) == [z \in DOMAIN f \union {x} |-> IF z = x THEN y ELSE f[z]]

-----------------------------------------------------------------------------
(* Tags: MetricsContext and the callers of it. *)

KeysOf(tags) == {tags[i][1] : i \in DOMAIN tags}
Has(tags, k) == k \in KeysOf(tags)

MergeScenarioTags(tags, reserved) ==
    tags \o Without(ScenarioTags, reserved \union KeysOf(tags))

\* merge_base_tags_if_missing
MergeBaseTags(s, tags, reserved) ==
    MergeScenarioTags(IF Has(tags, "scenario") THEN tags ELSE Append(tags, <<"scenario", s>>),
                      reserved)

\* What all callers do with current_group.
AddGroup(tags, g) ==
    IF g = NoGroup \/ Has(tags, "group") THEN tags ELSE Append(tags, <<"group", g>>)

\* filter_extra of record_request
Reserved == {"scenario", "protocol", "error_kind"}

\* The extra tags of an HTTP request, and of a gRPC one.
HttpTags(c, g) ==
    LET method == Append(Without(c.tags, {"method"}), <<"method", "GET">>)
        named  == IF c.name = "" THEN method
                  ELSE Append(Without(method, {"name"}), <<"name", c.name>>)
    IN AddGroup(MergeScenarioTags(named, Reserved \union {"group"}), g)

GrpcTags(c, g) == AddGroup(MergeScenarioTags(c.tags, Reserved \union {"group"}), g)

-----------------------------------------------------------------------------
(* The updates that a call consists of. *)

Update(metric, kind, tags, value) ==
    [metric |-> metric, kind |-> kind, tags |-> tags, value |-> value]
Int64(n) == [t |-> "integer", n |-> n]
Increment(metric, tags, n) == Update(metric, "Counter", tags, Int64(n))
Observe(metric, tags, n)   == Update(metric, "Histogram", tags, Int64(IF n < 1 THEN 1 ELSE n))

\* record_request, with what http.rs and grpc/client.rs pass to it: of a request
\* that failed only gRPC counts the bytes sent.
RecordRequest(s, protocol, c, extra) ==
    LET rest     == Without(extra, Reserved)
        overall  == <<<<"scenario", s>>>> \o rest
        scoped   == <<<<"scenario", s>>, <<"protocol", protocol>>>> \o rest
        by_kind  == <<<<"scenario", s>>, <<"protocol", protocol>>,
                      <<"error_kind", c.error>>>> \o rest
    IN <<Increment("requests_total", scoped, 1),
         Increment("bytes_received_total", scoped, IF c.ok THEN c.received ELSE 0),
         Increment("bytes_sent_total", scoped, IF c.ok \/ protocol = "grpc" THEN c.sent ELSE 0)>>
       \o (IF c.ok THEN <<>>
           ELSE <<Increment("request_errors_total", scoped, 1),
                  Increment("request_errors_by_kind_total", by_kind, 1)>>)
       \o <<Observe("request_latency", overall, c.latency),
            Observe("request_latency", scoped, c.latency)>>

\* CheckRecorder::record
RecordCheck(s, c, g) ==
    LET status == IF c.passed THEN "pass" ELSE "fail"
        tags   == MergeBaseTags(s, <<<<"name", c.name>>, <<"status", status>>>>, {"group"})
    IN <<Increment("checks", AddGroup(tags, g), 1)>>

\* IterationMetricIds::record_iteration, called by VuContext::record_iteration
RecordIteration(s, success, duration) ==
    LET status == IF success THEN "success" ELSE "failure"
        tags   == <<<<"scenario", s>>, <<"status", status>>>>
                  \o Without(ScenarioTags, {"scenario", "status", "group"})
    IN <<Increment("iterations_total", tags, 1), Observe("iteration_duration", tags, duration)>>

\* The `add` of a custom metric: it has the kind that the script asked for, whatever
\* the kind of the registered metric.
AddCustom(s, c, g) ==
    <<Update(c.metric, c.kind, AddGroup(MergeBaseTags(s, c.tags, {"group"}), g), c.value)>>

Updates(s, c, g) ==
    CASE c.op = "http"  -> RecordRequest(s, "http", c, HttpTags(c, g))
      [] c.op = "grpc"  -> RecordRequest(s, "grpc", c, GrpcTags(c, g))
      [] c.op = "check" -> RecordCheck(s, c, g)
      [] c.op = "add"   -> AddCustom(s, c, g)

\* InvalidMetricValue: the call throws, and has made its series by then.
Valid(u) ==
    /\ (u.kind = "Rate") = (u.value.t = "boolean")
    /\ u.kind \in {"Counter", "Histogram"} => u.value.n >= 0

\* The methods of MetricHandle.  A handle of another kind takes nothing, and a
\* histogram nothing above its bound.  No reader sees a rate between its two
\* additions: rates are read when all VUs have ended.
Apply(kind, value, u) ==
    LET n == u.value.n IN
    IF kind # u.kind \/ ~Valid(u) THEN value
    ELSE CASE kind = "Rate" -> [total |-> value.total + 1, hits |-> value.hits + n]
           [] kind = "Histogram" -> IF n > HistogramMax THEN value ELSE value (+) SetToBag({n})
           [] OTHER -> value + n

-----------------------------------------------------------------------------
(* What is computed from the series: Query and MetricComputer. *)

\* The series of a metric with all of some tags, and their values: where_eq for each.
Selected(metric, tags) == {p \in DOMAIN values : p[1] = metric /\ tags \subseteq p[2]}
Where(metric, tags)    == Restrict(values, Selected(metric, tags))

\* The tags of the failed checks of a scenario.
Failed(s) == {<<"scenario", s>>, <<"status", "fail">>}

\* The counters that the live metrics and the summary show of a scenario.
Queries == <<"requests_total", "bytes_received_total", "bytes_sent_total",
             "request_errors_total", "iterations_total", "checks">>

\* Of which series a counter of a scenario is the sum.
Scope(s, metric) == IF metric = "checks" THEN Failed(s) ELSE {<<"scenario", s>>}
Total(s, metric) == Sum(Where(metric, Scope(s, metric)))

\* compute_checks_failed, grouped by name.
ChecksFailed(s) ==
    LET found == {p \in Selected("checks", Failed(s)) : values[p] # 0}
        names == {t[2] : t \in {u \in UNION {p[2] : p \in found} : u[1] = "name"}}
    IN [n \in names |-> Sum(Restrict(values, {p \in found : <<"name", n>> \in p[2]}))]

\* Mutant of Latency: also the series with a protocol.
LatencyOfAll(s) == Merged(Where("request_latency", {<<"scenario", s>>}))

\* "For overall scenario latency we only want the series without `protocol`."
Latency(s) ==
    Merged(Restrict(values, {p \in Selected("request_latency", {<<"scenario", s>>}) :
                                \A t \in p[2] : t[1] # "protocol"}))

-----------------------------------------------------------------------------

\* Every VU has interned "scenario" when it entered (enter_active_vu), and the
\* progress task, if there is one, the keys of its queries.
TagKeys == <<"scenario", "protocol", "status", "name">>

\* build_run_summary has a MetricComputer of its own, made before thresholds are
\* evaluated.
IdsAtEnd == InternKeys(ids, [i \in DOMAIN TagKeys |-> <<TagKeys[i], "">>])

RecordInit ==
    /\ plan \in Plans
    /\ ids = IF plan.ticks = 0 THEN <<"scenario">> ELSE TagKeys
    /\ kinds = Builtin
    /\ values = [p \in {} |-> 0]
    /\ detached = {}
    /\ raced = FALSE
    /\ phase = [v \in VuIds |-> IF v \in DOMAIN plan.scenario THEN "script" ELSE "done"]
    /\ todo = [v \in VuIds |-> <<>>]
    /\ group = [v \in VuIds |-> NoGroup]
    /\ saved = [v \in VuIds |-> <<>>]
    /\ made = [v \in VuIds |-> 0]
    /\ ticks = 0
    /\ left = <<>>
    /\ read = [q \in Scenarios \X ToSet(Queries) |-> 0]
    /\ nested = [v \in VuIds |-> <<>>]
    /\ log = EmptyBag

Become(v, to) == phase' = [phase EXCEPT ![v] = to]

\* The script makes a call.
Scripted(v) ==
    /\ phase[v] = "script"
    /\ made[v] < plan.calls[v]
    /\ made' = [made EXCEPT ![v] = @ + 1]

Innermost(v) == IF nested[v] = <<>> THEN NoGroup ELSE Last(nested[v])

Entry(v, c)  == [scenario |-> plan.scenario[v], group |-> Innermost(v), call |-> c]
Logged(v, c) == log' = log (+) SetToBag({Entry(v, c)})

\* A request that has been answered or failed, a check, or a value for a custom
\* metric, which is registered with the kind of whoever comes first.
ScriptCall(v, c) ==
    /\ Scripted(v)
    /\ todo' = [todo EXCEPT ![v] = Updates(plan.scenario[v], c, group[v])]
    /\ kinds' = IF c.op = "add" /\ c.metric \notin DOMAIN kinds
                THEN With(kinds, c.metric, c.kind) ELSE kinds
    /\ Become(v, "find")
    /\ Logged(v, c)
    /\ UNCHANGED <<plan, ids, values, detached, raced, group, saved, live, nested>>

KeyOf(u)    == <<u.metric, ToSet(u.tags)>>
SeriesAt(v) == KeyOf(Head(todo[v]))

\* resolve_tags, and get_handle's lookup.
GetHandle(v) ==
    /\ phase[v] = "find"
    /\ ids' = InternKeys(ids, Head(todo[v]).tags)
    /\ Become(v, IF SeriesAt(v) \in DOMAIN values THEN "apply" ELSE "make")
    /\ UNCHANGED <<plan, kinds, values, detached, raced, todo, script, live>>

\* series_map.insert: who has a handle of the series that was there keeps it.
InsertSeries(v) ==
    LET p == SeriesAt(v) IN
    /\ phase[v] = "make"
    /\ raced' = (raced \/ p \in DOMAIN values)
    /\ values' = With(values, p, Zero(kinds[p[1]]))
    /\ detached' = detached \union {w \in VuIds : phase[w] = "apply" /\ SeriesAt(w) = p}
    /\ Become(v, "apply")
    /\ UNCHANGED <<plan, ids, kinds, todo, script, live>>

\* The value is applied, and the call goes on with its next update.
ApplyTo(v) ==
    LET u == Head(todo[v])
        p == SeriesAt(v)
    IN /\ phase[v] = "apply"
       /\ values' = IF v \in detached THEN values
                    ELSE [values EXCEPT ![p] = Apply(kinds[u.metric], @, u)]
       /\ detached' = detached \ {v}
       /\ todo' = [todo EXCEPT ![v] = Tail(@)]
       /\ Become(v, IF Len(todo[v]) > 1 THEN "find"
                    ELSE IF u.metric = "iteration_duration" THEN "done" ELSE "script")
       /\ UNCHANGED <<plan, ids, kinds, raced, script, live>>

-----------------------------------------------------------------------------
(* group.group *)

EnterGroup(v, g) ==
    /\ Scripted(v)
    /\ saved' = [saved EXCEPT ![v] = Append(@, group[v])]
    /\ group' = [group EXCEPT ![v] = g]
    /\ nested' = [nested EXCEPT ![v] = Append(@, g)]
    /\ UNCHANGED <<plan, metrics, phase, todo, live, log>>

\* Mutant of LeaveGroup: the outer group is forgotten.
LeaveAllGroups(v) ==
    /\ phase[v] = "script"
    /\ saved[v] # <<>>
    /\ group' = [group EXCEPT ![v] = NoGroup]
    /\ saved' = [saved EXCEPT ![v] = Front(@)]
    /\ nested' = [nested EXCEPT ![v] = Front(@)]
    /\ UNCHANGED <<plan, metrics, phase, todo, made, live, log>>

\* f returned, or threw an error that the script catches outside of the group.
LeaveGroup(v) ==
    /\ phase[v] = "script"
    /\ saved[v] # <<>>
    /\ group' = [group EXCEPT ![v] = Last(saved[v])]
    /\ saved' = [saved EXCEPT ![v] = Front(@)]
    /\ nested' = [nested EXCEPT ![v] = Front(@)]
    /\ UNCHANGED <<plan, metrics, phase, todo, made, live, log>>

-----------------------------------------------------------------------------
(* The end of an iteration, and of the VU, which makes one. *)

EndIteration(v, success) ==
    /\ phase[v] = "script"
    /\ success => saved[v] = <<>>
    /\ todo' = [todo EXCEPT ![v] = RecordIteration(plan.scenario[v], success, 0)]
    /\ Become(v, "find")
    /\ Logged(v, [op |-> "iteration", success |-> success])
    /\ UNCHANGED <<plan, metrics, group, saved, made, live, nested>>

-----------------------------------------------------------------------------
(* The progress task: compute_live_metrics, one query after the other. *)

Order == SetToSeq(Range(plan.scenario))

BeginTick ==
    /\ left = <<>>
    /\ ticks < plan.ticks
    /\ ticks' = ticks + 1
    /\ left' = [i \in 1 .. 6 * Len(Order) |->
                   <<Order[((i - 1) \div 6) + 1], Queries[((i - 1) % 6) + 1]>>]
    /\ UNCHANGED <<plan, metrics, phase, todo, script, read>>

\* Mutant of ReadQuery: totals are added up from tick to tick.
ReadQueryAddingUp ==
    LET q == Head(left) IN
    /\ left # <<>>
    /\ left' = Tail(left)
    /\ read' = [read EXCEPT ![q] = @ + Total(q[1], q[2])]
    /\ UNCHANGED <<plan, metrics, phase, todo, script, ticks>>

\* A query of the tick.  visit_series loads one series after the other; they are read
\* in one step here.  Counters only grow, so that a total that is loaded one by one
\* lies between the totals at the first and at the last load.
ReadQuery ==
    LET q == Head(left) IN
    /\ left # <<>>
    /\ left' = Tail(left)
    /\ read' = [read EXCEPT ![q] = Total(q[1], q[2])]
    /\ UNCHANGED <<plan, metrics, phase, todo, script, ticks>>

RecordStep(v) ==
    \/ \E c \in plan.menu : ScriptCall(v, c)
    \/ \E g \in plan.groups : EnterGroup(v, g)
    \/ LeaveGroup(v)
    \/ \E success \in BOOLEAN : EndIteration(v, success)
    \/ GetHandle(v)
    \/ InsertSeries(v)
    \/ ApplyTo(v)

RecordNext == (\E v \in VuIds : RecordStep(v)) \/ BeginTick \/ ReadQuery

RecordSpec == RecordInit /\ [][RecordNext]_recordVars

-----------------------------------------------------------------------------
(* Properties. *)

\* Every variable has its type; in particular a tag set has one value per key,
\* whatever the script, the scenario and the group set.
RecordTypeOK ==
    /\ plan \in Plans
    /\ \A i, j \in DOMAIN ids : ids[i] = ids[j] => i = j
    /\ \A p \in DOMAIN values :
          /\ p[1] \in DOMAIN kinds
          /\ \A t, u \in p[2] : t[1] = u[1] => t = u
          /\ {t[1] : t \in p[2]} \subseteq ToSet(ids)
    /\ phase \in [VuIds -> {"script", "find", "make", "apply", "done"}]
    /\ \A v \in VuIds : (todo[v] = <<>>) = (phase[v] \in {"script", "done"})
    /\ \A v \in VuIds : phase[v] = "apply" => SeriesAt(v) \in DOMAIN values
    /\ detached \subseteq {v \in VuIds : phase[v] = "apply"}
    /\ \A v \in DOMAIN plan.scenario : made[v] \in 0 .. plan.calls[v]
    /\ ticks \in 0 .. plan.ticks

\* build_run_summary is called when all VUs have ended; calls in progress aside,
\* what it computes is looked at in every state.
Quiet == \A v \in VuIds : todo[v] = <<>>

\* What the documentation says of tags: a key of the first wins.
Over(A, B) == A \union {t \in B : \A u \in A : u[1] # t[1]}

Requested(e) == e.call.op \in {"http", "grpc"}
OfScenario   == {t \in ToSet(ScenarioTags) : t[1] # "group"}
InGroup(e)   == IF e.group = NoGroup \/ e.call.op = "iteration" THEN {} ELSE {<<"group", e.group>>}
OfCall(e)    == IF Requested(e) \/ e.call.op = "add" THEN ToSet(e.call.tags) ELSE {}
OfHttp(e)    == IF e.call.op # "http" THEN {}
                ELSE {<<"method", "GET">>} \union
                     (IF e.call.name = "" THEN {} ELSE {<<"name", e.call.name>>})

\* The series a logged call goes to, with its value there.
Goes(e, metric, base, value) ==
    LET own == Over(OfHttp(e), Over(OfCall(e), Over(OfScenario, InGroup(e))))
    IN [metric |-> metric, value |-> value,
        tags |-> Over(base, IF Requested(e) THEN {t \in own : t[1] \notin Reserved} ELSE own)]

Recorded(e) ==
    LET c      == e.call
        in     == {<<"scenario", e.scenario>>}
        via    == in \union {<<"protocol", c.op>>}
        status == IF c.op = "check" THEN (IF c.passed THEN "pass" ELSE "fail")
                  ELSE IF c.success THEN "success" ELSE "failure"
        base   == in \union {<<"status", status>>}
    IN CASE c.op \in {"http", "grpc"} ->
              {Goes(e, "requests_total", via, 1),
               Goes(e, "bytes_received_total", via, IF c.ok THEN c.received ELSE 0),
               Goes(e, "bytes_sent_total", via, IF c.ok \/ c.op = "grpc" THEN c.sent ELSE 0),
               Goes(e, "request_latency", in, IF c.latency < 1 THEN 1 ELSE c.latency),
               Goes(e, "request_latency", via, IF c.latency < 1 THEN 1 ELSE c.latency)}
              \union (IF c.ok THEN {}
                      ELSE {Goes(e, "request_errors_total", via, 1),
                            Goes(e, "request_errors_by_kind_total",
                                 via \union {<<"error_kind", c.error>>}, 1)})
         [] c.op = "check" -> {Goes(e, "checks", base \union {<<"name", c.name>>}, 1)}
         [] c.op = "iteration" -> {Goes(e, "iterations_total", base, 1),
                                   Goes(e, "iteration_duration", base, 1)}
         [] c.op = "add" -> {Goes(e, c.metric, Over(OfCall(e), in), c.value.n)}

Reached(e)    == {<<r.metric, r.tags>> : r \in Recorded(e)}
ValueAt(e, p) == (CHOOSE r \in Recorded(e) : <<r.metric, r.tags>> = p).value

\* A custom value counts if it is valid and the metric has the kind it is meant for,
\* and any value if its histogram takes it.
Counts(e, p) ==
    /\ e.call.op = "add" => e.call.kind = kinds[e.call.metric] /\ Valid(e.call)
    /\ kinds[p[1]] = "Histogram" => ValueAt(e, p) <= HistogramMax

\* The bag of the values that calls have recorded in some series.
Given(P) == {x \in BagToSet(log) \X P : x[2] \in Reached(x[1]) /\ Counts(x[1], x[2])}
Bag(P)   ==
    [n \in {ValueAt(x[1], x[2]) : x \in Given(P)} |->
        Sum([x \in {y \in Given(P) : ValueAt(y[1], y[2]) = n} |-> log[x[1]]])]

Plus(bag) == Sum([n \in DOMAIN bag |-> n * bag[n]])

\* What the values make of a series.
Made(kind, bag) ==
    CASE kind = "Histogram" -> bag
      [] kind = "Rate" -> [total |-> Count(bag), hits |-> Plus(bag)]
      [] OTHER -> Plus(bag)

\* As long as no series was inserted over another, the series are those the
\* documentation tells of, each with the values of its calls: the group is the
\* innermost one the script is in, also when an inner one was left or failed, a tag
\* of the call wins over the group and over the scenario's, and what the runner sets
\* (scenario, protocol, status) wins over both.
SeriesExact ==
    Quiet /\ ~raced =>
        /\ DOMAIN values = UNION {Reached(e) : e \in BagToSet(log)}
        /\ \A p \in DOMAIN values : values[p] = Made(kinds[p[1]], Bag({p}))

\* How many calls of a scenario there were.
Number(s, E) == Sum(Restrict(log, {e \in E : e.scenario = s}))

\* As long as no series was inserted over another, a scenario's summary has each of
\* its requests, errors, iterations and failed checks once, however many series they
\* went to, and its latency has every request once, although record_request records
\* it twice.
SummaryExact ==
    Quiet /\ ~raced =>
        LET calls    == BagToSet(log)
            requests == {e \in calls : Requested(e)}
            bad      == {e \in calls : e.call.op = "check" /\ ~e.call.passed}
        IN \A s \in Scenarios :
             /\ Total(s, "requests_total") = Number(s, requests)
             /\ Total(s, "request_errors_total") = Number(s, {e \in requests : ~e.call.ok})
             /\ Total(s, "iterations_total") =
                    Number(s, {e \in calls : e.call.op = "iteration"})
             /\ Count(Latency(s)) = Number(s, requests)
             /\ Total(s, "checks") = Number(s, bad)
             /\ \A n \in DOMAIN ChecksFailed(s) :
                    ChecksFailed(s)[n] = Number(s, {e \in bad : e.call.name = n})
             /\ Total(s, "checks") > 0 <=> DOMAIN ChecksFailed(s) # {}

\* How the documentation reads an expression.
Holds(e, o) ==
    LET d == o[1] - e.value * o[2]
    IN e.op \in (IF d < 0 THEN {"<", "<="} ELSE IF d = 0 THEN {"<=", ">=", "=="} ELSE {">", ">="})

ThresholdSets == {[metric |-> k.metric, tags |-> k.tags, exprs |-> {e}] :
                     k \in {ParseKey(raw) : raw \in Keys} \ {Refused}, e \in Exprs}

\* The keys of a selector were interned in the order of their names.
Aligned(selector) ==
    \A i, j \in DOMAIN selector :
        i < j => Before(InternKeys(IdsAtEnd, selector), selector[i][1], selector[j][1])

\* What the documentation says an expression is about.
OfBag(kind, e, bag) ==
    CASE kind = "Histogram" -> OfHistogram(e, bag)
      [] kind = "Rate" /\ e.agg = "count" -> <<Count(bag), 1>>
      [] kind = "Rate" /\ e.agg = "rate" /\ Count(bag) > 0 -> <<Plus(bag), Count(bag)>>
      [] kind = "Counter" /\ e.agg = "count" -> <<Plus(bag), 1>>
      [] OTHER -> Nothing

\* As long as no series was inserted over another, a threshold that parses is
\* violated exactly if the values recorded in series with all its tags do not
\* satisfy it, or there is no such series; provided the ids of the selector's keys
\* happen to be in the order of their names.
VerdictsAgree ==
    Quiet /\ ~raced =>
        \A set \in ThresholdSets : Aligned(set.tags) =>
            LET result   == Evaluate(IdsAtEnd, kinds, values, set)
                selected == Selected(set.metric, ToSet(set.tags))
            IN \A e \in set.exprs :
                 /\ result.ok = (set.metric \in DOMAIN kinds => Parses(e))
                 /\ result.ok =>
                      (e \in result.violated) =
                          (selected = {} \/
                           LET o == OfBag(kinds[set.metric], e, Bag(selected))
                           IN o = Nothing \/ ~Holds(e, o))

\* Live totals never run ahead of the calls that have begun, raced or not, although
\* the queries of a tick are made one after the other.
LiveNeverAhead ==
    \A q \in DOMAIN read :
        read[q] > 0 => read[q] <= Plus(Bag(Selected(q[2], Scope(q[1], q[2]))))

\* Unless a series was inserted over another one, no total falls from one tick to
\* the next, so that the saturating differences of the live metrics are exact.
LiveNeverFalls ==
    [][~raced' => \A q \in DOMAIN read : read'[q] >= read[q]]_recordVars

\* "Tag order does not matter." "The selector matches series that contain **all** the
\* specified tags": every series with a selector's tags is selected.
SelectsAll ==
    \A set \in ThresholdSets : \A p \in Selected(set.metric, ToSet(set.tags)) :
        Matches(IdsAtEnd, set.tags, p[2])
=============================================================================
