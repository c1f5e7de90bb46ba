----------------------------- MODULE RampingVus -----------------------------
(***************************************************************************)
(* The ramping-vus executor: the loop of wrkr-lua/src/vu.rs                *)
(* (VuWork::RampingVus), in which VU number v runs iterations while the    *)
(* schedule's target is at least v and sleeps otherwise.                   *)
(*                                                                         *)
(* The reading of the clock and the timer set from it are one step.  A VU  *)
(* whose timer fired may be polled at any time after.                      *)
(***************************************************************************)
EXTENDS Schedule

CONSTANTS RampVus,       \* VUs that may be spawned, numbered by scenario_vu
          NoTime         \* opened before the start of the run

VARIABLES
    schedule,            \* the scenario's schedule
    now,                 \* the monotonic clock
    opened,              \* the start of the run
    state,               \* control state of each VU
    seen,                \* its last reading of the elapsed time
    wake_at              \* its timer

ramping == <<state, seen, wake_at>>

Idle ==
    /\ state = [v \in RampVus |-> "await_start"]
    /\ seen = [v \in RampVus |-> 0]
    /\ wake_at = [v \in RampVus |-> 0]

To(v, st) == state' = [state EXCEPT ![v] = st]

\* The start signal, which a VU sees whenever it looks; StartSignal is in RunLifecycle.
Start(v) ==
    /\ state[v] = "await_start"
    /\ opened # NoTime
    /\ To(v, "check")
    /\ UNCHANGED <<seen, wake_at>>

\* One turn of the loop: stop, sleep or run.
Check(v) ==
    /\ state[v] = "check"
    /\ LET elapsed == now - opened IN
       /\ seen' = [seen EXCEPT ![v] = elapsed]
       /\ \/ /\ IsDone(schedule, elapsed)
             /\ To(v, "ended")
             /\ UNCHANGED wake_at
          \/ /\ ~IsDone(schedule, elapsed)
             /\ \E i \in StagesAt(schedule, elapsed) :
                  \/ /\ v > TargetAt(schedule, elapsed, i)
                     /\ To(v, "asleep")
                     /\ wake_at' = [wake_at EXCEPT ![v] =
                            now + AtLeast(NextRecheckIn(schedule, elapsed, v, i), Ms)]
                  \/ /\ v <= TargetAt(schedule, elapsed, i)
                     /\ To(v, "run")
                     /\ UNCHANGED wake_at

\* The timer of tokio::time::sleep.
Wake(v) ==
    /\ state[v] = "asleep"
    /\ now >= wake_at[v]
    /\ To(v, "check")
    /\ UNCHANGED <<seen, wake_at>>

\* run_one and record_iteration; an error of the script ends the VU's task.
RunOne(v) ==
    /\ state[v] = "run"
    /\ \E st \in {"check", "failed"} : To(v, st)
    /\ UNCHANGED <<seen, wake_at>>

Step(v) == Start(v) \/ Check(v) \/ Wake(v) \/ RunOne(v)

-----------------------------------------------------------------------------
(* Properties. *)

\* Control states, readings and timers have their types.
RampingTypeOK ==
    /\ state \in [RampVus -> {"await_start", "check", "asleep", "run", "ended", "failed"}]
    /\ seen \in [RampVus -> Nat]
    /\ wake_at \in [RampVus -> Nat]

\* A VU never sleeps through its time: but for the shortest sleep of a
\* millisecond, the target is below its number until its timer fires, across
\* stage borders, jumps and the rounding of the interpolation.
Awake ==
    \A v \in RampVus : state[v] = "asleep" =>
        \A t \in (seen[v] + Ms) .. (wake_at[v] - opened - 1) :
            \A i \in StagesAt(schedule, t) : TargetAt(schedule, t, i) < v
=============================================================================
