\* Three clients, one key, counters 0 and 1: two may wait for a key that the third
\* sets and deletes, one waits while two setters race to send, and increments
\* reach the end of the range.
CONSTANTS
    Clients = {c1, c2, c3}
    Keys = {k1}
    MinI64 = 0
    MaxI64 = 1
    Deltas = {1}
    SetValues <- MCOther
    MaxCalls = 2
    Names = {b1}
    Parties = {0, 2, 3}

SPECIFICATION BarrierSpec

INVARIANTS
    TypeOK
    NoLostWakeup
    BarrierWhole
    WaitSeesKey

PROPERTIES
    IncrMonotone
    WaitersReturn

\* A waiter may wait forever for a key that nobody sets.
CHECK_DEADLOCK FALSE
