----------------------------- MODULE Executors ------------------------------
(***************************************************************************)
(* From options to executors.  The command resolves the user's options     *)
(* (Options) to scenarios; the VUs of one of them then run its executor:   *)
(* constant-vus (IterationGate) or ramping-vus (RampingVus over Schedule). *)
(* Arrival-rate scenarios end here; ArrivalPacer models their executor.    *)
(***************************************************************************)
EXTENDS IterationGate, Schedule

INSTANCE Options

CONSTANT Inputs   \* what the user may write: [doc, yaml, cli]

VARIABLES
    input,        \* the user's input, until it is resolved
    phase,        \* "options", "refused", or the kind of the scenario's executor
    spawned,      \* the VUs of the scenario
    schedule, state, seen, wake_at   \* see RampingVus

R == INSTANCE RampingVus WITH RampVus <- Vus, NoTime <- None

ramp     == <<state, seen, wake_at>>
scenario == <<input, phase, spawned, schedule>>
execVars == <<vars, ramp, scenario>>

-----------------------------------------------------------------------------

ExecInit ==
    /\ input \in Inputs
    /\ phase = "options"
    /\ iterations = None /\ duration = None
    /\ counter = 0 /\ deadline = None
    /\ now = 0 /\ opened = None
    /\ pc = [v \in Vus |-> "await_start"]
    /\ read = [v \in Vus |-> 0]
    /\ granted = 0
    /\ spawned = {}
    /\ schedule = [start |-> 0, stages |-> <<>>]
    /\ R!Idle

\* The options of a run: those of the script, or of a YAML file.
Load(in) ==
    IF in.yaml THEN LoadYaml(in.doc, "file") ELSE ParseScript(in.doc)

\* The scenarios of a run, or why there is none.  (The options are a bound variable,
\* here and below, so that TLC parses them once.)
Resolved(in) ==
    CHOOSE r \in {IF IsRefused(opts) THEN opts ELSE ScenariosFromOptions(opts, in.cli) :
                     opts \in {Load(in)}} : TRUE

\* scenario_max_vus: how many VUs run_scenarios spawns for a scenario.
ScenarioMaxVus(r) ==
    CASE r.executor.kind = "constant" -> r.executor.vus
      [] r.executor.kind = "ramping"  -> StagesMax(r.executor.start_vus, r.executor.stages)
      [] OTHER                        -> r.executor.max_vus

Counts == Nat \union {None}

IsList(q) == q \in Seq({q[i] : i \in DOMAIN q})

\* What a user can write.  Numbers are integers, a duration is not negative; lists are
\* lists, and tables have the fields that the parser asks for.
IsValue(v) ==
    /\ v.k \in {"int", "float"} => v.v \in Int
    /\ v.k = "span" => v.v \in Nat

IsStagesValue(v) ==
    v.k = "table" =>
        /\ IsList(v.v)
        /\ \A i \in DOMAIN v.v : v.v[i].k = "table" =>
              IsValue(v.v[i].v.duration) /\ IsValue(v.v[i].v.target)

IsScenarioTable(t) ==
    /\ IsValue(t.vus) /\ IsValue(t.iterations) /\ IsValue(t.duration)
    /\ \A f \in {t.start_vus, t.start_rate, t.time_unit, t.pre_allocated_vus, t.max_vus} :
          IsList(f) /\ \A i \in DOMAIN f : IsValue(f[i])
    /\ IsStagesValue(t.stages)

IsScript(d) ==
    /\ IsValue(d.vus) /\ IsValue(d.iterations) /\ IsValue(d.duration)
    /\ IsList(d.scenarios)
    /\ \A i \in DOMAIN d.scenarios :
          /\ d.scenarios[i].name # None
          /\ d.scenarios[i].value.k = "table" => IsScenarioTable(d.scenarios[i].value.v)
    /\ IsList(d.thresholds)
    /\ \A i \in DOMAIN d.thresholds : IsList(d.thresholds[i].exprs)

\* In a scenario of a YAML file serde has checked the fields that hold numbers.
IsYamlScenario(y) ==
    /\ {"name", "duration", "time_unit", "stages"} \subseteq DOMAIN y
    /\ {y.vus, y.iterations, y.start_vus, y.start_rate, y.pre_allocated_vus, y.max_vus}
          \subseteq Counts
    /\ IsValue(y.duration) /\ IsValue(y.time_unit)
    /\ IsList(y.stages)
    /\ \A i \in DOMAIN y.stages : IsValue(y.stages[i].duration) /\ y.stages[i].target \in Nat

IsYaml(d) ==
    /\ IsList(d.scenarios)
    /\ \A i \in DOMAIN d.scenarios : IsYamlScenario(d.scenarios[i]) /\ None # <<"scenario", i>>

\* VUs have numbers, and there are enough of them for every scenario that is accepted.
\* None is no name.
ASSUME InputsAssumption ==
    /\ Vus \subseteq Nat \ {0}
    /\ None \notin {"file", "Default"} \union ExecutorNames
    /\ \A in \in Inputs :
         /\ {in.cli.vus, in.cli.iterations, in.cli.duration} \subseteq Counts
         /\ IF in.yaml THEN IsYaml(in.doc) ELSE IsScript(in.doc)
         /\ \A r \in {Resolved(in)} : ~IsRefused(r) =>
               \A i \in DOMAIN r.all : 1..ScenarioMaxVus(r.all[i]) \subseteq Vus

\* What run_scenarios makes of a scenario: a gate or a schedule, and its VUs.
Prepare(r) ==
    /\ phase' = r.executor.kind
    /\ spawned' = {v \in Vus : v <= ScenarioMaxVus(r)}
    /\ IF r.executor.kind = "constant"
       THEN /\ iterations' = r.iterations
            /\ duration' = r.duration
            /\ UNCHANGED schedule
       ELSE /\ schedule' = [start |-> IF r.executor.kind = "ramping" THEN r.executor.start_vus
                                      ELSE r.executor.start_rate,
                            stages |-> r.executor.stages]
            /\ UNCHANGED <<iterations, duration>>

Resolve ==
    /\ phase = "options"
    /\ \E r \in {Resolved(input)} :
          \/ /\ IsRefused(r)
             /\ phase' = "refused"
             /\ UNCHANGED <<spawned, schedule, iterations, duration>>
          \/ /\ ~IsRefused(r)
             /\ \E i \in DOMAIN r.all : Prepare(r.all[i])
    /\ input' = None
    /\ UNCHANGED <<counter, deadline, now, opened, vus, ramp>>

ConstantStep(v) ==
    /\ phase = "constant"
    /\ v \in spawned
    /\ VuStep(v)
    /\ UNCHANGED <<ramp, scenario>>

RampingStep(v) ==
    /\ phase = "ramping"
    /\ v \in spawned
    /\ R!Step(v)
    /\ UNCHANGED <<vars, scenario>>

Running == phase \in {"constant", "ramping"}
TickStep == Running /\ Tick /\ UNCHANGED <<ramp, scenario>>
OpenStep == Running /\ Open /\ UNCHANGED <<ramp, scenario>>

ExecNext ==
    \/ Resolve
    \/ TickStep
    \/ OpenStep
    \/ \E v \in Vus : ConstantStep(v) \/ RampingStep(v)

\* Time passes, the runner opens the gate, timers fire, iterations come to an end.
ExecFairness ==
    /\ WF_execVars(TickStep)
    /\ WF_execVars(OpenStep)
    /\ \A v \in Vus : WF_execVars(ConstantStep(v) \/ RampingStep(v))

ExecSpec == ExecInit /\ [][ExecNext]_execVars /\ ExecFairness

-----------------------------------------------------------------------------
(* Properties. *)

\* Every variable of the gate, the ramp and the scenario has its type.
ExecTypeOK ==
    /\ TypeOK
    /\ CounterBounded
    /\ R!RampingTypeOK
    /\ phase \in {"options", "refused", "constant", "ramping", "arrival"}
    /\ spawned \subseteq Vus
    /\ schedule.start \in Nat
    /\ \A i \in DOMAIN schedule.stages :
         schedule.stages[i].duration \in Nat /\ schedule.stages[i].target \in Nat

\* What the executors take for granted of a scenario.
Ready(r) ==
    LET e == r.executor
    IN CASE e.kind = "constant" -> e.vus > 0 /\ r.iterations # 0
         [] e.kind = "ramping"  -> /\ StagesTotal(e.stages) > 0
                                   /\ r.duration = StagesTotal(e.stages)
                                   /\ StagesMax(e.start_vus, e.stages) > 0
         [] OTHER               -> /\ 0 < e.pre_allocated_vus
                                   /\ e.pre_allocated_vus <= e.max_vus
                                   /\ e.time_unit > 0
                                   /\ StagesTotal(e.stages) > 0

\* scenarios_from_options lets no scenario through that its executor cannot run:
\* no VU at all, no iterations, no time, a rate over no time, fewer VUs at most
\* than at first; whatever is nil, zero, misspelt or set on the command line.
AcceptedScenariosReady ==
    phase = "options" =>
        \A r \in {Resolved(input)} : ~IsRefused(r) =>
            \A i \in DOMAIN r.all : Ready(r.all[i])

\* The flags of the command line win over the script's options and over its choice
\* of an executor, in every scenario.
FlagsWin ==
    phase = "options" =>
        \A r \in {Resolved(input)} : ~IsRefused(r) =>
            \A i \in DOMAIN r.all :
                /\ input.cli.vus # None =>
                      r.all[i].executor = [kind |-> "constant", vus |-> input.cli.vus]
                /\ input.cli.iterations # None => r.all[i].iterations = input.cli.iterations
                /\ input.cli.duration # None => r.all[i].duration = input.cli.duration

NoFlags == [vus |-> None, iterations |-> None, duration |-> None]

DistinctSelectors(sets) ==
    \A i, j \in DOMAIN sets :
        sets[i].metric = sets[j].metric /\ sets[i].tags = sets[j].tags => i = j

\* `wrkr scenario export` loses nothing: the written YAML file, read again without
\* flags, resolves to the same scenarios and, if no two of them have the same selector,
\* to the same thresholds.
ExportRoundTrips ==
    phase = "options" =>
        \A r \in {Resolved(input)} : ~IsRefused(r) =>
            \A thresholds \in {IF input.yaml THEN <<>> ELSE Load(input).thresholds} :
                \A again \in {[doc |-> ExportDoc(r.all, thresholds), yaml |-> TRUE,
                               cli |-> NoFlags]} :
                    /\ Resolved(again) = [all |-> r.all]
                    /\ DistinctSelectors(thresholds) =>
                          Load(again).thresholds = {thresholds[i] : i \in DOMAIN thresholds}

\* What runs is what was asked for, by the flags now or by the exported file later.
OptionsFaithful == FlagsWin /\ ExportRoundTrips

\* The schedule never asks for more VUs than were spawned for it.
TargetsCovered ==
    phase = "ramping" =>
        \A t \in 0..TotalDuration(schedule) : \A i \in StagesAt(schedule, t) :
            \A v \in 1..TargetAt(schedule, t, i) : v \in spawned

\* A VU that sleeps is not due before its timer (see RampingVus).
NoOversleep == phase = "ramping" => R!Awake

\* The stage that the progress line shows: its times add up to its length and to
\* the time of the run, and the target lies between the ends of the stage.  At the
\* very start the target is the schedule's, even where the search finds the end of
\* a later stage, for stages without a duration come first.
SnapshotConsistent ==
    phase = "ramping" /\ opened # None =>
        LET t == now - opened
            at == AtMost(t, TotalDuration(schedule))
        IN \A i \in StagesAt(schedule, at) :
             LET s == SnapshotAt(schedule, t, i) IN
             /\ s.stage_elapsed >= 0 /\ s.stage_remaining >= 0
             /\ s.stage_elapsed + s.stage_remaining = schedule.stages[s.index].duration
             /\ Ends(schedule)[s.index - 1] + s.stage_elapsed = at
             /\ \/ at = 0 /\ s.current_target = schedule.start
                \/ s.start_target <= s.current_target /\ s.current_target <= s.end_target
                \/ s.end_target <= s.current_target /\ s.current_target <= s.start_target

\* The VUs and the progress line follow the schedule: nobody sleeps who is due, there
\* are as many VUs as it ever asks for, and the stage shown is the one that runs.
ScheduleFollowed == NoOversleep /\ TargetsCovered /\ SnapshotConsistent

\* Every VU of the scenario leaves its loop, by the limit, by the deadline, at the
\* end of the last stage or by an error.  This is about VUs that were started: the
\* start signal is seen whenever a VU looks here, while RunLifecycle has the wait that
\* can miss it (EveryVuStarts).
ScenarioEnds ==
    opened # None ~> \A v \in spawned :
        pc[v] \in {"stopped", "failed"} \/ state[v] \in {"ended", "failed"}
=============================================================================
