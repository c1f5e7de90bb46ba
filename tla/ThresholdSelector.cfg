\* What two VUs record, with the plans of RecordingInputs: one that makes an HTTP
\* request in a group is enough.
CONSTANTS
    v1 = v1
    v2 = v2
    VuIds = {v1, v2}
    Scenarios = {"s1", "s2"}
    ScenarioTags <- TagsOfScenarios
    Plans <- SomePlans
    HistogramMax = 10
    Alphabet <- KeysByName
    Keys <- SomeKeys
    Exprs <- SomeExprs

SPECIFICATION RecordSpec

INVARIANTS
    SelectsAll

\* Everybody ends.
CHECK_DEADLOCK FALSE
