\* Three VUs; a millisecond is one tick and the longest sleep two.
CONSTANTS
    Vus = {1, 2, 3}
    None = None
    MaxIterations = 3
    MaxDuration = 5
    MaxTime = 6
    Ms = 1
    DefaultSleep = 2
    Inputs <- MCInputs

SPECIFICATION ExecSpec

INVARIANTS
    ExecTypeOK
    GrantsExact
    AcceptedScenariosReady
    OptionsFaithful
    ScheduleFollowed

PROPERTIES
    ScenarioEnds

\* The scenario ends, or is refused.
CHECK_DEADLOCK FALSE
