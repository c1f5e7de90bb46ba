\* The registry: three tasks, two metrics, each in a shard of its own; two tasks
\* register the same name, a third gets a handle or summarises meanwhile.
\* The gauges: three VUs, two may race to create a series while the third is done.
\* What is recorded: two of the VUs, of one scenario or of two, with the plans of
\* RecordingInputs.
CONSTANTS
    Tasks = {t1, t2, t3}
    Names = {"a", "b"}
    ShardOf <- OwnShards
    MaxCalls = 2
    v1 = v1
    v2 = v2
    Vus = {v1, v2, v3}
    VuIds = {v1, v2}
    Scenarios = {"s1", "s2"}
    ScenarioTags <- TagsOfScenarios
    Plans <- SomePlans
    HistogramMax = 10
    Alphabet <- KeysByName
    Keys <- SomeKeys
    Exprs <- SomeExprs

SYMMETRY TaskSymmetry

SPECIFICATION PartsSpec

INVARIANTS
    TypesOK
    RegistrySound
    NeverAhead
    NoCircularWait
    ExactUnlessRaced
    SeriesExact
    SummaryExact
    ThresholdsAgree

PROPERTIES
    NeverFall

\* Every task makes its calls and stops.
CHECK_DEADLOCK FALSE
