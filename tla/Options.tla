------------------------------ MODULE Options -------------------------------
(***************************************************************************)
(* From what the user writes to the scenarios that run: the Lua `Options`  *)
(* table (wrkr-lua/src/options.rs), scenario YAML files, read and written  *)
(* (wrkr/src/scenario_yaml.rs), and the command line, all of which         *)
(* scenarios_from_options (wrkr-core/src/run.rs) resolves.                 *)
(*                                                                         *)
(* A value of a field is Nil or tagged: an integer, a float (whole or      *)
(* not), a duration string, another string, a boolean, a table (a function *)
(* of its fields) or something else.  Durations count ticks; a number of   *)
(* seconds is as many ticks.  An absent Option is None.  The results of    *)
(* parsing are values, or Refused(error); the first error is returned.     *)
(***************************************************************************)
EXTENDS Integers, Sequences, FiniteSets

CONSTANT None

Nil == [k |-> "nil"]
Lit(i) == [k |-> "int", v |-> i]
Float(i, whole) == [k |-> "float", v |-> i, whole |-> whole]
Span(d) == [k |-> "span", v |-> d]
Text(s) == [k |-> "text", v |-> s]
Table(f) == [k |-> "table", v |-> f]
Other == [k |-> "other"]

Refused(e) == [error |-> e]
IsRefused(r) == "error" \in DOMAIN r

\* The first refusal among results, or all of them.
FirstRefused(results) == results[CHOOSE i \in DOMAIN results :
    /\ IsRefused(results[i])
    /\ \A j \in DOMAIN results : IsRefused(results[j]) => i <= j]

Collect(results) ==
    IF \E i \in DOMAIN results : IsRefused(results[i]) THEN FirstRefused(results)
    ELSE [all |-> results]

Some(v) == [some |-> v]
Or(a, b) == IF a # None THEN a ELSE b

-----------------------------------------------------------------------------
(* Fields of a Lua table. *)

\* get_vus, get_iterations and get_u64_any: a whole number, perhaps zero.
GetCount(v, allow_zero, error) ==
    CASE v.k = "nil" -> Some(None)
      [] v.k = "int" /\ (v.v > 0 \/ (allow_zero /\ v.v = 0)) -> Some(v.v)
      [] v.k = "float" /\ v.whole /\ (v.v > 0 \/ (allow_zero /\ v.v = 0)) -> Some(v.v)
      [] OTHER -> Refused(error)

\* get_duration and get_duration_any: a number must be positive, a string is what
\* humantime makes of it, which may be zero.  A float between 0 and 1 is positive.
GetDuration(v, error) ==
    CASE v.k = "nil" -> Some(None)
      [] v.k = "int" /\ v.v > 0 -> Some(v.v)
      [] v.k = "float" /\ (v.v > 0 \/ (v.v = 0 /\ ~v.whole)) -> Some(v.v)
      [] v.k = "span" -> Some(v.v)
      [] OTHER -> Refused(error)

\* get_string_any.
GetExecutor(v) ==
    CASE v.k = "nil" -> Some(None)
      [] v.k = "text" -> Some(v.v)
      [] OTHER -> Refused("InvalidExecutor")

\* The first spelling of a field that is not nil.
Spelled(f) ==
    IF \E i \in DOMAIN f : f[i].k # "nil"
    THEN f[CHOOSE i \in DOMAIN f : f[i].k # "nil" /\ \A j \in 1..(i - 1) : f[j].k = "nil"]
    ELSE Nil

\* get_stages: a stage needs both fields.
GetStage(stage) ==
    LET d == GetDuration(stage.duration, "InvalidDuration")
        n == GetCount(stage.target, TRUE, "InvalidStages")
    IN IF IsRefused(d) THEN d
       ELSE IF d.some = None THEN Refused("InvalidStages")
       ELSE IF IsRefused(n) THEN n
       ELSE IF n.some = None THEN Refused("InvalidStages")
       ELSE Some([duration |-> d.some, target |-> n.some])

GetStages(v) ==
    CASE v.k = "nil" -> Some(<<>>)
      [] v.k = "table" ->
           LET all == Collect([i \in DOMAIN v.v |->
                          IF v.v[i].k = "table" THEN GetStage(v.v[i].v)
                          ELSE Refused("InvalidStages")])
           IN IF IsRefused(all) THEN all ELSE Some([i \in DOMAIN v.v |-> all.all[i].some])
      [] OTHER -> Refused("InvalidStages")

\* get_scenario_tags: scalars become strings, other values are skipped.
GetTags(v) ==
    CASE v.k = "nil" -> Some(<<>>)
      [] v.k = "table" ->
           Some([key \in {t \in DOMAIN v.v : v.v[t].k \notin {"nil", "table", "other"}} |->
                    v.v[key].v])
      [] OTHER -> Refused("InvalidScenarioTags")

\* An entry of Options.scenarios.  exec is ignored unless Lua can make a string of it.
ParseScenario(name, t) ==
    LET fields == <<GetTags(t.tags),
                    GetExecutor(t.executor),
                    GetCount(t.vus, FALSE, "InvalidVus"),
                    GetCount(t.iterations, FALSE, "InvalidIterations"),
                    GetDuration(t.duration, "InvalidDuration"),
                    GetCount(Spelled(t.start_vus), TRUE, "InvalidStages"),
                    GetCount(Spelled(t.start_rate), TRUE, "InvalidStages"),
                    GetDuration(Spelled(t.time_unit), "InvalidTimeUnit"),
                    GetCount(Spelled(t.pre_allocated_vus), FALSE, "InvalidStages"),
                    GetCount(Spelled(t.max_vus), FALSE, "InvalidStages"),
                    GetStages(t.stages)>>
        all    == Collect(fields)
        f(i)   == fields[i].some
    IN IF IsRefused(all) THEN all
       ELSE Some([name |-> name,
                  exec |-> IF t.exec.k \in {"nil", "bool", "table", "other"} THEN None
                           ELSE t.exec.v,
                  tags |-> f(1), executor |-> f(2), vus |-> f(3), iterations |-> f(4),
                  duration |-> f(5), start_vus |-> f(6), start_rate |-> f(7),
                  time_unit |-> f(8), pre_allocated_vus |-> f(9), max_vus |-> f(10),
                  stages |-> f(11)])

\* get_thresholds: an empty list of expressions, or one with a number in it, is refused.
GetThreshold(t) ==
    IF t.key = None \/ t.exprs = <<>> \/ \E i \in DOMAIN t.exprs : t.exprs[i].k # "text"
    THEN Refused("InvalidThresholds")
    ELSE Some([metric |-> t.key.metric, tags |-> t.key.tags,
               expressions |-> [i \in DOMAIN t.exprs |-> t.exprs[i].v]])

\* The entries of `scenarios` that are tables; others are skipped.
Tables(entries) ==
    LET kept[i \in 0..Len(entries)] ==
            IF i = 0 THEN <<>>
            ELSE IF entries[i].value.k = "table" THEN Append(kept[i - 1], entries[i])
            ELSE kept[i - 1]
    IN kept[Len(entries)]

\* parse_script_options.
ParseScript(t) ==
    LET top        == Collect(<<GetCount(t.vus, FALSE, "InvalidVus"),
                                GetCount(t.iterations, FALSE, "InvalidIterations"),
                                GetDuration(t.duration, "InvalidDuration")>>)
        thresholds == Collect([i \in DOMAIN t.thresholds |-> GetThreshold(t.thresholds[i])])
        tables     == Tables(t.scenarios)
        scenarios  == Collect([i \in DOMAIN tables |->
                          ParseScenario(tables[i].name, tables[i].value.v)])
    IN IF IsRefused(top) THEN top
       ELSE IF IsRefused(thresholds) THEN thresholds
       ELSE IF IsRefused(scenarios) THEN scenarios
       ELSE [vus |-> top.all[1].some, iterations |-> top.all[2].some,
             duration |-> top.all[3].some,
             thresholds |-> [i \in DOMAIN t.thresholds |-> thresholds.all[i].some],
             scenarios |-> [i \in DOMAIN tables |-> scenarios.all[i].some]]

-----------------------------------------------------------------------------
(* scenarios_from_options. *)

ConstantNames == {"constant-vus", "constant", "per-vu-iterations"}
ArrivalNames == {"ramping-arrival-rate", "ramping-rps"}
ExecutorNames == ConstantNames \union ArrivalNames \union {"ramping-vus"}

\* The durations of the stages, added up.
StagesTotal(stages) ==
    LET sum[i \in 0..Len(stages)] == IF i = 0 THEN 0 ELSE sum[i - 1] + stages[i].duration
    IN sum[Len(stages)]

StagesMax(start, stages) ==
    LET targets == {start} \union {stages[i].target : i \in DOMAIN stages}
    IN CHOOSE m \in targets : \A n \in targets : n <= m

Scenario(s, executor, iterations, duration) ==
    [name |-> s.name, exec |-> Or(s.exec, "Default"), tags |-> s.tags,
     executor |-> executor, iterations |-> iterations, duration |-> duration]

\* A constant-vus scenario: command line, then scenario, then top level.
ConstantVus(s, opts, cfg) ==
    LET vus        == Or(Or(Or(cfg.vus, s.vus), opts.vus), 1)
        iterations == Or(Or(cfg.iterations, s.iterations), opts.iterations)
        duration   == Or(Or(cfg.duration, s.duration), opts.duration)
    IN IF vus = 0 THEN Refused("InvalidVus")
       ELSE IF iterations = 0 THEN Refused("InvalidIterations")
       ELSE Scenario(s, [kind |-> "constant", vus |-> vus], iterations, duration)

\* Mutant of RampingVusScenario: stages that take no time are let through.
RampingVusAnyTime(s, opts) ==
    LET start == Or(s.start_vus, 0)
        total == StagesTotal(s.stages)
    IN IF s.iterations # None \/ opts.iterations # None THEN Refused("InvalidIterations")
       ELSE IF s.stages = <<>> THEN Refused("InvalidStages")
       ELSE IF StagesMax(start, s.stages) = 0 THEN Refused("InvalidVus")
       ELSE Scenario(s, [kind |-> "ramping", start_vus |-> start, stages |-> s.stages],
                     None, total)

RampingVusScenario(s, opts) ==
    LET start == Or(s.start_vus, 0)
        total == StagesTotal(s.stages)
    IN IF s.iterations # None \/ opts.iterations # None THEN Refused("InvalidIterations")
       ELSE IF s.stages = <<>> THEN Refused("InvalidStages")
       ELSE IF StagesMax(start, s.stages) = 0 THEN Refused("InvalidVus")
       ELSE IF total = 0 THEN Refused("InvalidStages")
       ELSE Scenario(s, [kind |-> "ramping", start_vus |-> start, stages |-> s.stages],
                     None, total)

\* OneSecond is the default time unit.
ArrivalScenario(s, opts, OneSecond) ==
    LET rate  == Or(s.start_rate, 0)
        unit  == Or(s.time_unit, OneSecond)
        pre   == Or(s.pre_allocated_vus, 1)
        max   == Or(s.max_vus, pre)
        total == StagesTotal(s.stages)
    IN IF s.iterations # None \/ opts.iterations # None THEN Refused("InvalidIterations")
       ELSE IF s.stages = <<>> THEN Refused("InvalidStages")
       ELSE IF unit = 0 THEN Refused("InvalidTimeUnit")
       ELSE IF pre = 0 THEN Refused("InvalidPreAllocatedVus")
       ELSE IF max < pre THEN Refused("InvalidMaxVus")
       ELSE IF total = 0 THEN Refused("InvalidStages")
       ELSE Scenario(s, [kind |-> "arrival", start_rate |-> rate, time_unit |-> unit,
                         pre_allocated_vus |-> pre, max_vus |-> max,
                         stages |-> s.stages], None, total)

\* Mutant of ResolveScenario: a ramping scenario ignores the flags.
ResolveIgnoringFlags(s, opts, cfg) ==
    LET name == Or(s.executor, "constant-vus")
    IN IF name \notin ExecutorNames THEN Refused("InvalidExecutor")
       ELSE IF name \in ConstantNames THEN ConstantVus(s, opts, cfg)
       ELSE IF name = "ramping-vus" THEN RampingVusScenario(s, opts)
       ELSE ArrivalScenario(s, opts, 1)

\* Flags of the command line turn a ramping scenario into a constant one.
ResolveScenario(s, opts, cfg) ==
    LET name == Or(s.executor, "constant-vus")
    IN IF name \notin ExecutorNames THEN Refused("InvalidExecutor")
       ELSE IF name \in ConstantNames \/ cfg.vus # None \/ cfg.iterations # None
                 \/ cfg.duration # None
            THEN ConstantVus(s, opts, cfg)
       ELSE IF name = "ramping-vus" THEN RampingVusScenario(s, opts)
       ELSE ArrivalScenario(s, opts, 1)

\* Without scenarios there is one, of one iteration unless a limit is given.
DefaultScenario(opts, cfg) ==
    LET vus        == Or(Or(cfg.vus, opts.vus), 1)
        duration   == Or(cfg.duration, opts.duration)
        iterations == Or(Or(cfg.iterations, opts.iterations),
                         IF duration # None THEN None ELSE 1)
    IN IF vus = 0 THEN Refused("InvalidVus")
       ELSE IF iterations = 0 THEN Refused("InvalidIterations")
       ELSE Scenario([name |-> "Default", exec |-> "Default", tags |-> <<>>],
                     [kind |-> "constant", vus |-> vus], iterations, duration)

ScenariosFromOptions(opts, cfg) ==
    Collect(IF opts.scenarios = <<>> THEN <<DefaultScenario(opts, cfg)>>
            ELSE [i \in DOMAIN opts.scenarios |-> ResolveScenario(opts.scenarios[i], opts, cfg)])

-----------------------------------------------------------------------------
(* Scenario YAML. *)

\* YamlDuration: an unsigned integer may be zero, other numbers must be positive,
\* and format_duration writes a string.
YamlDuration(v) ==
    CASE v.k = "int" /\ v.v >= 0 -> Some(v.v)
      [] v.k = "float" /\ (v.v > 0 \/ (v.v = 0 /\ ~v.whole)) -> Some(v.v)
      [] v.k = "span" -> Some(v.v)
      [] OTHER -> Refused("Yaml")

\* A field that may be missing: it has the default, or none.
YamlDefault(v, default) == IF v.k = "nil" THEN Some(default) ELSE YamlDuration(v)

\* build_doc_from_resolved_scenario: the fields the executor has.
ToYaml(r) ==
    LET e      == r.executor
        absent == [name |-> r.name, exec |-> r.exec, tags |-> r.tags,
                   executor |-> "constant-vus", vus |-> None, iterations |-> None,
                   duration |-> Nil, start_vus |-> None, stages |-> <<>>, start_rate |-> None, time_unit |-> Nil,
                   pre_allocated_vus |-> None, max_vus |-> None]
        stages == [i \in DOMAIN e.stages |->
                      [duration |-> Span(e.stages[i].duration), target |-> e.stages[i].target]]
    IN CASE e.kind = "constant" ->
              [absent EXCEPT !.vus = e.vus, !.iterations = r.iterations,
                   !.duration = IF r.duration = None THEN Nil ELSE Span(r.duration)]
         [] e.kind = "ramping" ->
              [absent EXCEPT !.executor = "ramping-vus", !.start_vus = e.start_vus,
                   !.stages = stages]
         [] OTHER ->
              [absent EXCEPT !.executor = "ramping-arrival-rate", !.start_rate = e.start_rate,
                   !.time_unit = Span(e.time_unit), !.pre_allocated_vus = e.pre_allocated_vus, !.max_vus = e.max_vus,
                   !.stages = stages]

\* render_thresholds: the sets in a map by their rendered selectors, where a
\* later set of the same selector takes the place of an earlier one.
RenderThresholds(sets) ==
    LET keys == {[metric |-> sets[i].metric, tags |-> sets[i].tags] : i \in DOMAIN sets}
    IN [key \in keys |->
          sets[CHOOSE i \in DOMAIN sets :
                 /\ sets[i].metric = key.metric /\ sets[i].tags = key.tags
                 /\ \A j \in (i + 1)..Len(sets) :
                      sets[j].metric # key.metric \/ sets[j].tags # key.tags].expressions]

\* build_doc_from_resolved_scenarios.
ExportDoc(scenarios, thresholds) ==
    [scenarios |-> [i \in DOMAIN scenarios |-> ToYaml(scenarios[i])],
     thresholds |-> RenderThresholds(thresholds)]

\* scenario_yaml_into_options, with the name a scenario without one gets.
FromYaml(y, default_name) ==
    LET durations == Collect(<<YamlDefault(y.duration, None), YamlDefault(y.time_unit, None)>>
                   \o [i \in DOMAIN y.stages |-> YamlDefault(y.stages[i].duration, 0)])
    IN IF IsRefused(durations) THEN durations
       ELSE Some([y EXCEPT !.name = Or(y.name, default_name),
                           !.duration = durations.all[1].some,
                           !.time_unit = durations.all[2].some,
                           !.stages = [i \in DOMAIN y.stages |->
                               [duration |-> durations.all[i + 2].some,
                                target |-> y.stages[i].target]]])

\* load_script_options_from_yaml: a file with one scenario lends it its name,
\* others get a number.
LoadYaml(doc, file_stem) ==
    LET n         == Len(doc.scenarios)
        scenarios == Collect([i \in 1..n |->
                         FromYaml(doc.scenarios[i], IF n <= 1 THEN file_stem ELSE <<"scenario", i>>)])
    IN IF IsRefused(scenarios) THEN scenarios
       ELSE IF \E key \in DOMAIN doc.thresholds : doc.thresholds[key] = <<>> THEN Refused("Yaml")
       ELSE [vus |-> None, iterations |-> None, duration |-> None,
             scenarios |-> [i \in 1..n |-> scenarios.all[i].some],
             thresholds |-> {[metric |-> key.metric, tags |-> key.tags,
                              expressions |-> doc.thresholds[key]] :
                                key \in DOMAIN doc.thresholds}]
=============================================================================
