\* Two metrics in the same shard, one task that makes the first series of one and
\* another that registers the other.
CONSTANTS
    Tasks = {t1, t2}
    Names = {"a", "b"}
    ShardOf <- OneShard
    MaxCalls = 2

SPECIFICATION Spec

INVARIANTS
    NoCircularWait

\* Every task makes its calls and stops.
CHECK_DEADLOCK FALSE
