------------------------------ MODULE Schedule ------------------------------
(***************************************************************************)
(* RampingU64Schedule (wrkr-core/src/schedule.rs): a start value and       *)
(* stages, each of which moves the target to a new value in a given time.  *)
(* The target is a number of VUs (ramping-vus) or a rate of iterations     *)
(* (ramping-arrival-rate).                                                 *)
(*                                                                         *)
(* A schedule is a record [start, stages], a stage is a record [duration,  *)
(* target], and times count ticks.  binary_search may return any of the    *)
(* stages that end at the searched instant (there are several after a      *)
(* stage of zero length), so the stage is a parameter, from StagesAt.      *)
(***************************************************************************)
EXTENDS Integers, Sequences

CONSTANTS Ms,            \* ticks in a millisecond
          DefaultSleep   \* the longest sleep, 50 ms in the code

ASSUME ScheduleAssumption ==
    /\ Ms \in Nat \ {0}
    /\ DefaultSleep \in Nat /\ DefaultSleep >= Ms

AtMost(a, b) == IF a <= b THEN a ELSE b
AtLeast(a, b) == IF a >= b THEN a ELSE b

\* Integer division of Rust, which truncates towards zero.
TruncDiv(a, b) == IF a >= 0 THEN a \div b ELSE -((-a) \div b)

-----------------------------------------------------------------------------

\* cumulative_ends, with 0 for the time before the first stage.
Ends(s) ==
    LET ends[i \in 0..Len(s.stages)] ==
            IF i = 0 THEN 0 ELSE ends[i - 1] + s.stages[i].duration
    IN ends

TotalDuration(s) == Ends(s)[Len(s.stages)]

IsDone(s, t) == t >= TotalDuration(s)

\* What binary_search_by over cumulative_ends may return, one-based: a stage that
\* ends at t or, if none does, the first that ends later.
StagesAt(s, t) ==
    LET ends  == Ends(s)
        hits  == {i \in 1..Len(s.stages) : ends[i] = t}
        after == {i \in 1..Len(s.stages) : ends[i - 1] <= t /\ t < ends[i]}
    IN IF hits # {} THEN hits ELSE after

StartTarget(s, i) == IF i = 1 THEN s.start ELSE s.stages[i - 1].target

\* Linear interpolation within stage i, which is reached at t.
Interpolate(s, t, i) ==
    LET start == StartTarget(s, i)
        delta == s.stages[i].target - start
        num   == t - Ends(s)[i - 1]
        den   == s.stages[i].duration
    IN IF den = 0 THEN s.stages[i].target
       ELSE AtLeast(start + TruncDiv(delta * num, den), 0)

\* target_at, when the search returns i.
TargetAt(s, t, i) ==
    IF s.stages = <<>> \/ t = 0 THEN s.start
    ELSE IF IsDone(s, t) THEN s.stages[Len(s.stages)].target
    ELSE Interpolate(s, t, i)

\* stage_snapshot_at, when the search returns i: the stage, its times and targets.
SnapshotAt(s, t, i) ==
    LET clamped == AtMost(t, TotalDuration(s))
        index   == IF IsDone(s, clamped) THEN Len(s.stages) ELSE i
        elapsed == clamped - Ends(s)[index - 1]
    IN [index           |-> index,
        stage_elapsed   |-> elapsed,
        stage_remaining |-> s.stages[index].duration - elapsed,
        start_target    |-> StartTarget(s, index),
        end_target      |-> s.stages[index].target,
        current_target  |-> TargetAt(s, clamped, i)]

\* Mutant of TargetWait: the ramp is taken to reach a VU only at the stage's end.
WaitForStageEnd(s, t, vu, i) == AtMost(Ends(s)[i] - t, DefaultSleep)

\* How long until the rising target of stage i reaches vu.
TargetWait(s, t, vu, i) ==
    LET start   == StartTarget(s, i)
        needed  == ((vu - start) * s.stages[i].duration) \div (s.stages[i].target - start)
        elapsed == t - Ends(s)[i - 1]
    IN AtMost(AtLeast(needed - elapsed, 0), DefaultSleep)

\* next_recheck_in, when the search returns i.
NextRecheckIn(s, t, vu, i) ==
    IF s.stages = <<>> THEN DefaultSleep
    ELSE IF IsDone(s, t) THEN 0
    ELSE IF vu <= TargetAt(s, t, i) THEN Ms
    ELSE IF s.stages[i].target <= StartTarget(s, i) \/ vu > s.stages[i].target
         THEN AtMost(Ends(s)[i] - t, DefaultSleep)
    ELSE IF vu <= StartTarget(s, i) THEN 0
    ELSE TargetWait(s, t, vu, i)
=============================================================================
