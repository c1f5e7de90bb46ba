\* Two VUs of which one is pre-allocated, two ticks of at most two iterations
\* each: the backlog limit of two is reached and exceeded, the active VUs go up
\* and down, and both VUs compete for a token.
CONSTANTS
    PreAllocatedVus = 1
    MaxVus = 2
    MaxTicks = 2
    MaxDue = 2

SPECIFICATION Spec

INVARIANTS
    TypeOK
    TokensSound

PROPERTIES
    QueueSpec
    ParkedInTimeWakes

\* The run ends when every VU has ended.
CHECK_DEADLOCK FALSE
