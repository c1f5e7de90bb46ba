---------------------------- MODULE IterationGate ---------------------------
(***************************************************************************)
(* The constant-vus executor: IterationGate (wrkr-core/src/gate.rs), which *)
(* hands out iterations up to a number, until a deadline, or once, and the *)
(* loop in which the VUs of the scenario ask it (wrkr-lua/src/vu.rs,       *)
(* VuWork::Constant).                                                      *)
(*                                                                         *)
(* The steps of next() are the reading of the clock, the look at the       *)
(* deadline, which sets it if nobody has, and the fetch_add.  Time passes  *)
(* between any two of them.                                                *)
(***************************************************************************)
EXTENDS Integers, FiniteSets

CONSTANTS Vus,            \* the VUs of the scenario
          None,           \* an absent Option
          MaxIterations,  \* largest `iterations` of the options
          MaxDuration,    \* largest `duration` of the options
          MaxTime         \* the clock stops here

ASSUME GateAssumption ==
    /\ IsFiniteSet(Vus)
    /\ MaxIterations \in Nat /\ MaxDuration \in Nat /\ MaxTime \in Nat
    /\ None \notin Int

VARIABLES
    iterations, duration, \* the fields of the gate's configuration
    counter,              \* AtomicU64
    deadline,             \* OnceLock
    now,                  \* the monotonic clock
    opened,               \* the time of the runner's start_at, or None before it
    pc,                   \* control state of each VU
    read,                 \* the VU's last reading of the clock
    granted               \* history: iterations handed out, if limited in number

gate == <<iterations, duration, counter, deadline>>
vus  == <<pc, read, granted>>
vars == <<gate, now, opened, vus>>

\* scenarios_from_options has refused an iteration count of zero.
Init ==
    /\ iterations \in (1..MaxIterations) \union {None}
    /\ duration \in (0..MaxDuration) \union {None}
    /\ counter = 0
    /\ deadline = None
    /\ now = 0
    /\ opened = None
    /\ pc = [v \in Vus |-> "await_start"]
    /\ read = [v \in Vus |-> 0]
    /\ granted = 0

-----------------------------------------------------------------------------
(* Time and the runner. *)

Tick ==
    /\ now < MaxTime
    /\ now' = now + 1
    /\ UNCHANGED <<gate, opened, vus>>

\* start_at(at): the first deadline stays.
StartAt(at) ==
    deadline' = IF deadline = None /\ duration # None THEN at + duration ELSE deadline

\* The runner calls start_at with the start of the run, and lets the VUs go.
\* MaxTime leaves room for the whole duration.
Open ==
    /\ opened = None
    /\ now + MaxDuration < MaxTime
    /\ opened' = now
    /\ StartAt(now)
    /\ UNCHANGED <<iterations, duration, counter, now, vus>>

-----------------------------------------------------------------------------
(* A virtual user. *)

Goto(v, to) == pc' = [pc EXCEPT ![v] = to]

\* The start signal, which a VU sees whenever it looks; StartSignal is in RunLifecycle.
Begin(v) ==
    /\ pc[v] = "await_start"
    /\ opened # None
    /\ Goto(v, "next")
    /\ UNCHANGED <<gate, now, opened, read, granted>>

\* next(): without a duration the clock is not read.
ReadClock(v) ==
    /\ pc[v] = "next"
    /\ Goto(v, IF duration # None THEN "deadline" ELSE "count")
    /\ read' = [read EXCEPT ![v] = now]
    /\ UNCHANGED <<gate, now, opened, granted>>

\* Mutant of CheckDeadline: the deadline is ignored.
CheckNoDeadline(v) ==
    /\ pc[v] = "deadline"
    /\ StartAt(read[v])
    /\ Goto(v, "count")
    /\ UNCHANGED <<iterations, duration, counter, now, opened, read, granted>>

\* The deadline is set if it is not, and compared with the reading.
CheckDeadline(v) ==
    /\ pc[v] = "deadline"
    /\ StartAt(read[v])
    /\ Goto(v, IF read[v] >= deadline' THEN "stopped" ELSE "count")
    /\ UNCHANGED <<iterations, duration, counter, now, opened, read, granted>>

\* How many iterations the gate hands out, if that is limited.
Total == IF iterations # None THEN iterations ELSE IF duration = None THEN 1 ELSE None

\* Mutant of Count: one iteration too many.
CountOneMore(v) ==
    /\ pc[v] = "count"
    /\ counter' = IF Total # None THEN counter + 1 ELSE counter
    /\ LET grant == Total = None \/ counter <= Total IN
       /\ Goto(v, IF grant THEN "run" ELSE "stopped")
       /\ granted' = IF grant /\ Total # None THEN granted + 1 ELSE granted
    /\ UNCHANGED <<iterations, duration, deadline, now, opened, read>>

\* Mutant of Count: fetch_sub, which goes below zero.
CountDown(v) ==
    /\ pc[v] = "count"
    /\ counter' = IF Total # None THEN counter - 1 ELSE counter
    /\ LET grant == Total = None \/ counter < Total IN
       /\ Goto(v, IF grant THEN "run" ELSE "stopped")
       /\ granted' = IF grant /\ Total # None THEN granted + 1 ELSE granted
    /\ UNCHANGED <<iterations, duration, deadline, now, opened, read>>

\* fetch_add and the comparison of the index it returned.
Count(v) ==
    /\ pc[v] = "count"
    /\ counter' = IF Total # None THEN counter + 1 ELSE counter
    /\ LET grant == Total = None \/ counter < Total IN
       /\ Goto(v, IF grant THEN "run" ELSE "stopped")
       /\ granted' = IF grant /\ Total # None THEN granted + 1 ELSE granted
    /\ UNCHANGED <<iterations, duration, deadline, now, opened, read>>

\* run_one and record_iteration; an error of the script ends the VU's task.
RunOne(v) ==
    /\ pc[v] = "run"
    /\ \E to \in {"next", "failed"} : Goto(v, to)
    /\ UNCHANGED <<gate, now, opened, read, granted>>

VuStep(v) ==
    \/ Begin(v)
    \/ ReadClock(v)
    \/ CheckDeadline(v)
    \/ Count(v)
    \/ RunOne(v)

-----------------------------------------------------------------------------

Next == Tick \/ Open \/ \E v \in Vus : VuStep(v)

\* Time passes, the runner opens the gate, and iterations come to an end.
Fairness ==
    /\ WF_vars(Tick)
    /\ WF_vars(Open)
    /\ \A v \in Vus : WF_vars(VuStep(v))

Spec == Init /\ [][Next]_vars /\ Fairness

-----------------------------------------------------------------------------
(* Properties. *)

States == {"await_start", "next", "deadline", "count", "run", "stopped", "failed"}

\* Every variable has its type.
TypeOK ==
    /\ iterations \in Nat \union {None}
    /\ duration \in Nat \union {None}
    /\ counter \in Nat
    /\ deadline \in Nat \union {None}
    /\ now \in 0..MaxTime
    /\ opened \in Nat \union {None}
    /\ pc \in [Vus -> States]
    /\ read \in [Vus -> Nat]
    /\ granted \in Nat

\* However the VUs' fetch_adds fall, next() never hands out more than
\* `iterations` iterations in all, or one if neither limit is given.
GrantsBounded == Total # None => granted <= Total

\* No iteration is lost: without a deadline, a VU that is sent away finds that
\* all of them have been handed out, even if other VUs failed or are slow.
NoneLost ==
    \A v \in Vus : pc[v] = "stopped" /\ duration = None => granted = Total

\* An iteration starts only on a reading of the clock before the deadline, and
\* the deadline is the runner's start plus the duration: no VU moves it.
OnTime ==
    \A v \in Vus : pc[v] = "run" /\ duration # None => read[v] < opened + duration

\* The counter runs past the limit by at most one per VU, so it cannot wrap
\* around and start handing out iterations again.
CounterBounded == Total # None => counter <= Total + Cardinality(Vus)

\* VUs that race for the last iterations and against the clock get exactly what the
\* options allow: not one too many, not one too few, not one too late.
GrantsExact == GrantsBounded /\ NoneLost /\ OnTime
=============================================================================
