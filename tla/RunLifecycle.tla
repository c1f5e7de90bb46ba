---------------------------- MODULE RunLifecycle ----------------------------
(***************************************************************************)
(* One run of all scenarios: the runner, run_scenarios                     *)
(* (wrkr-core/src/run.rs), and the life of every virtual user around its   *)
(* executor's loop, run_vu (wrkr-lua/src/vu.rs): initialisation, the ready *)
(* barrier, the start signal (wrkr-core/src/vu.rs), iterations and the     *)
(* join.  What the loop of an executor does is left to other modules:      *)
(* here a VU runs some iterations and ends, with or without an error.      *)
(*                                                                         *)
(* tokio is external: a task aborted while it awaits ends there; a dropped *)
(* JoinHandle lets its task go on; a barrier lets everybody go on once all *)
(* have arrived; notify_waiters wakes exactly the futures that exist.      *)
(***************************************************************************)
EXTENDS Integers

CONSTANTS NumVus,     \* total_vus, over all scenarios
          NumPacers,  \* arrival-rate scenarios: one feeding task each
          HasProgress \* whether the output wants progress updates

ASSUME RunAssumption ==
    /\ NumVus \in Nat
    /\ NumPacers \in Nat
    /\ HasProgress \in BOOLEAN

\* Tasks in the order of `handles`: the VUs by vu_id, then the pacers.
Vus    == 1..NumVus
Pacers == NumVus + 1 .. NumVus + NumPacers
Tasks  == 1 .. NumVus + NumPacers

\* Nothing, as an Option.
None == 0

VARIABLES
    main,        \* control state of run_scenarios
    next,        \* the next task to spawn or to join
    pc,          \* control state of each VU and pacer
    arrived,     \* VUs at the ready barrier or past it; the runner is 0
    init_error,  \* the VU whose message is in init_error, or None
    run_started, \* whether run_started and the gates' deadlines are set
    started,     \* StartSignal.started
    parked,      \* VUs whose Notified future exists and has not been woken
    aborted,     \* the runner has aborted every handle
    progress,    \* "off", "on" or "stopped": the progress task
    clock,       \* clock[v]: "none", "runner" or "own": where v's start comes from
    iterated,    \* history: VUs that ran an iteration
    result       \* what run_scenarios returned: "none", "ok", "vu_error",
                 \* "init_error" or "threshold_error"

runner == <<main, next, init_error, run_started, started, aborted, progress, result>>
vus    == <<pc, arrived, parked, clock, iterated>>
vars   == <<runner, vus>>

Init ==
    /\ main = "spawn"
    /\ next = 1
    /\ pc = [t \in Tasks |-> "unspawned"]
    /\ arrived = {}
    /\ init_error = None
    /\ run_started = FALSE
    /\ started = FALSE
    /\ parked = {}
    /\ aborted = FALSE
    /\ progress = "off"
    /\ clock = [v \in Vus |-> "none"]
    /\ iterated = {}
    /\ result = "none"

Ended(t) == pc[t] \in {"ok", "failed", "init_failed", "cancelled"}

\* The barrier of total_vus + 1 is full.
Released == arrived = Vus \union {0}

-----------------------------------------------------------------------------
(* The runner. *)

\* The loop that spawns one task per VU.
SpawnVu ==
    /\ main = "spawn"
    /\ next \in Vus
    /\ pc' = [pc EXCEPT ![next] = "init"]
    /\ next' = next + 1
    /\ UNCHANGED <<main, init_error, run_started, started, aborted, progress, result>>
    /\ UNCHANGED <<arrived, parked, clock, iterated>>

\* ready_barrier.wait()
ArriveRunner ==
    /\ main = "spawn"
    /\ next \notin Vus
    /\ arrived' = arrived \union {0}
    /\ main' = "ready"
    /\ UNCHANGED <<next, init_error, run_started, started, aborted, progress, result>>
    /\ UNCHANGED <<pc, parked, clock, iterated>>

\* Mutant of CheckInit: the runner does not wait for the barrier.
CheckInitEarly ==
    /\ main = "ready"
    /\ main' = IF init_error = None THEN "clock" ELSE "abort"
    /\ UNCHANGED <<next, init_error, run_started, started, aborted, progress, result, vus>>

\* Past the barrier: did any VU fail to initialise?
CheckInit ==
    /\ main = "ready"
    /\ Released
    /\ main' = IF init_error = None THEN "clock" ELSE "abort"
    /\ UNCHANGED <<next, init_error, run_started, started, aborted, progress, result, vus>>

\* Abort every handle.
AbortAll ==
    /\ main = "abort"
    /\ aborted' = TRUE
    /\ main' = "await_aborted"
    /\ UNCHANGED <<next, init_error, run_started, started, progress, result, vus>>

\* Mutant of ReturnInitError: the aborted tasks are not awaited.
ReturnInitErrorEarly ==
    /\ main = "await_aborted"
    /\ result' = "init_error"
    /\ main' = "returned"
    /\ UNCHANGED <<next, init_error, run_started, started, aborted, progress, vus>>

\* Await every handle, then return the error.
ReturnInitError ==
    /\ main = "await_aborted"
    /\ \A v \in Vus : Ended(v)
    /\ result' = "init_error"
    /\ main' = "returned"
    /\ UNCHANGED <<next, init_error, run_started, started, aborted, progress, vus>>

\* run_started.set and gate.start_at for every gate.
StartClock ==
    /\ main = "clock"
    /\ run_started' = TRUE
    /\ main' = "signal"
    /\ UNCHANGED <<next, init_error, started, aborted, progress, result, vus>>

\* StartSignal::start: the flag...
StoreStarted ==
    /\ main = "signal"
    /\ started' = TRUE
    /\ main' = "notify"
    /\ UNCHANGED <<next, init_error, run_started, aborted, progress, result, vus>>

\* ...and the wake-up.
NotifyStarted ==
    /\ main = "notify"
    /\ parked' = {}
    /\ main' = "helpers"
    /\ UNCHANGED <<next, init_error, run_started, started, aborted, progress, result>>
    /\ UNCHANGED <<pc, arrived, clock, iterated>>

\* The progress task, if wanted, and the feeding tasks, whose handles go last.
SpawnHelpers ==
    /\ main = "helpers"
    /\ progress' = IF HasProgress THEN "on" ELSE "off"
    /\ pc' = [t \in Tasks |-> IF t \in Pacers THEN "running" ELSE pc[t]]
    /\ next' = 1
    /\ main' = "join"
    /\ UNCHANGED <<init_error, run_started, started, aborted, result>>
    /\ UNCHANGED <<arrived, parked, clock, iterated>>

\* Mutant of JoinNext: an error of a VU is dropped.
JoinAny ==
    /\ main = "join"
    /\ next \in Tasks
    /\ Ended(next)
    /\ next' = next + 1
    /\ UNCHANGED <<main, init_error, run_started, started, aborted, progress, result, vus>>

\* h.await??, one handle after the other: the first error is returned, and the
\* tasks behind it, and the progress task, are left to themselves.
JoinNext ==
    /\ main = "join"
    /\ next \in Tasks
    /\ Ended(next)
    /\ IF pc[next] = "ok"
       THEN next' = next + 1 /\ UNCHANGED <<main, result>>
       ELSE main' = "returned" /\ result' = "vu_error" /\ UNCHANGED next
    /\ UNCHANGED <<init_error, run_started, started, aborted, progress, vus>>

\* Everything joined: stop the progress task and build the summary, which fails
\* when a threshold cannot be evaluated.
Summarize ==
    /\ main = "join"
    /\ next \notin Tasks
    /\ progress' = IF progress = "on" THEN "stopped" ELSE progress
    /\ result' \in {"ok", "threshold_error"}
    /\ main' = "returned"
    /\ UNCHANGED <<next, init_error, run_started, started, aborted, vus>>

RunnerStep ==
    \/ SpawnVu
    \/ ArriveRunner
    \/ CheckInit
    \/ AbortAll
    \/ ReturnInitError
    \/ StartClock
    \/ StoreStarted
    \/ NotifyStarted
    \/ SpawnHelpers
    \/ JoinNext
    \/ Summarize

-----------------------------------------------------------------------------
(* A virtual user. *)

Goto(v, to) == pc' = [pc EXCEPT ![v] = to]

\* Lua state, modules and script are loaded and the entry point exists.
InitOk(v) ==
    /\ pc[v] = "init"
    /\ Goto(v, "barrier")
    /\ UNCHANGED <<runner, arrived, parked, clock, iterated>>

\* Initialisation failed: the first VU to take the lock leaves its message.
InitFail(v) ==
    /\ pc[v] = "init"
    /\ init_error' = IF init_error = None THEN v ELSE init_error
    /\ Goto(v, "barrier_failed")
    /\ UNCHANGED <<main, next, run_started, started, aborted, progress, result>>
    /\ UNCHANGED <<arrived, parked, clock, iterated>>

\* Mutant of Arrive: a VU that failed returns without waiting at the barrier.
ArriveIfOk(v) ==
    /\ pc[v] = "barrier"
    /\ v \notin arrived
    /\ arrived' = arrived \union {v}
    /\ UNCHANGED <<runner, pc, parked, clock, iterated>>

\* ready_barrier.wait(), by a VU that failed too.
Arrive(v) ==
    /\ pc[v] \in {"barrier", "barrier_failed"}
    /\ v \notin arrived
    /\ arrived' = arrived \union {v}
    /\ UNCHANGED <<runner, pc, parked, clock, iterated>>

Pass(v) ==
    /\ pc[v] \in {"barrier", "barrier_failed"}
    /\ Released
    /\ Goto(v, IF pc[v] = "barrier" THEN "start_check" ELSE "init_failed")
    /\ UNCHANGED <<runner, arrived, parked, clock, iterated>>

\* StartSignal::wait: load the flag...
StartCheck(v) ==
    /\ pc[v] = "start_check"
    /\ Goto(v, IF started THEN "enter" ELSE "start_await")
    /\ UNCHANGED <<runner, arrived, parked, clock, iterated>>

\* ...and, if it is not set, create the future and await it.
Park(v) ==
    /\ pc[v] = "start_await"
    /\ parked' = parked \union {v}
    /\ Goto(v, "start_parked")
    /\ UNCHANGED <<runner, arrived, clock, iterated>>

Wake(v) ==
    /\ pc[v] = "start_parked"
    /\ v \notin parked
    /\ Goto(v, "start_check")
    /\ UNCHANGED <<runner, arrived, parked, clock, iterated>>

\* The VU takes the runner's start time, or its own if there is none.
Enter(v) ==
    /\ pc[v] = "enter"
    /\ clock' = [clock EXCEPT ![v] = IF run_started THEN "runner" ELSE "own"]
    /\ Goto(v, "running")
    /\ UNCHANGED <<runner, arrived, parked, iterated>>

\* The executor's loop: an iteration is run and recorded.
Iterate(v) ==
    /\ pc[v] = "running"
    /\ iterated' = iterated \union {v}
    /\ UNCHANGED <<runner, pc, arrived, parked, clock>>

\* The loop ends; an iteration that raised an error, or a panic, ends it too.
Finish(v) ==
    /\ pc[v] = "running"
    /\ \E end \in {"ok", "failed"} : Goto(v, end)
    /\ UNCHANGED <<runner, arrived, parked, clock, iterated>>

\* Mutant of Cancel: the future outlives its task.
CancelParked(v) ==
    /\ aborted
    /\ \/ pc[v] \in {"barrier", "barrier_failed"} /\ v \in arrived
       \/ pc[v] = "start_parked"
    /\ Goto(v, "cancelled")
    /\ UNCHANGED <<runner, arrived, parked, clock, iterated>>

\* An aborted task ends at an await.
Cancel(v) ==
    /\ aborted
    /\ \/ pc[v] \in {"barrier", "barrier_failed"} /\ v \in arrived
       \/ pc[v] = "start_parked"
    /\ Goto(v, "cancelled")
    /\ parked' = parked \ {v}
    /\ UNCHANGED <<runner, arrived, clock, iterated>>

VuStep(v) ==
    \/ InitOk(v)
    \/ InitFail(v)
    \/ Arrive(v)
    \/ Pass(v)
    \/ StartCheck(v)
    \/ Park(v)
    \/ Wake(v)
    \/ Enter(v)
    \/ Iterate(v)
    \/ Finish(v)
    \/ Cancel(v)

\* A feeding task runs to the end of its schedule.
PacerEnds(t) ==
    /\ pc[t] = "running"
    /\ Goto(t, "ok")
    /\ UNCHANGED <<runner, arrived, parked, clock, iterated>>

-----------------------------------------------------------------------------

Next ==
    \/ RunnerStep
    \/ \E v \in Vus : VuStep(v)
    \/ \E t \in Pacers : PacerEnds(t)

\* The runtime polls every ready task; executors and schedules come to an end.
Fairness ==
    /\ WF_vars(RunnerStep)
    /\ \A v \in Vus : WF_vars(VuStep(v)) /\ WF_vars(Finish(v))
    /\ \A t \in Pacers : WF_vars(PacerEnds(t))

Spec == Init /\ [][Next]_vars /\ Fairness

-----------------------------------------------------------------------------
(* Properties. *)

MainStates == {"spawn", "ready", "clock", "abort", "await_aborted", "signal", "notify",
               "helpers", "join", "returned"}

VuStates == {"unspawned", "init", "barrier", "barrier_failed", "start_check", "start_await",
             "start_parked", "enter", "running", "ok", "failed", "init_failed", "cancelled"}

Results == {"none", "ok", "vu_error", "init_error", "threshold_error"}

\* Every variable has its type; a parked VU awaits the start.
TypeOK ==
    /\ main \in MainStates
    /\ next \in 1 .. NumVus + NumPacers + 1
    /\ pc \in [Tasks -> VuStates]
    /\ arrived \subseteq Vus \union {0}
    /\ init_error \in Vus \union {None}
    /\ run_started \in BOOLEAN
    /\ started \in BOOLEAN
    /\ parked \subseteq {v \in Vus : pc[v] = "start_parked"}
    /\ aborted \in BOOLEAN
    /\ progress \in {"off", "on", "stopped"}
    /\ clock \in [Vus -> {"none", "runner", "own"}]
    /\ iterated \subseteq Vus
    /\ result \in Results

\* "Block until all VUs have created their Lua state and loaded the script":
\* while any VU runs its executor, every VU has initialised without an error,
\* and the common clock and the gates are set.
NoEarlyStart ==
    \A v \in Vus : pc[v] \in {"enter", "running"} =>
        /\ \A w \in Vus : pc[w] \notin {"unspawned", "init", "barrier_failed", "init_failed"}
        /\ run_started

\* No VU ever falls back on a start time of its own.
CommonClock == \A v \in Vus : clock[v] # "own"

\* The executors of all VUs start together, on one clock.
StartTogether == NoEarlyStart /\ CommonClock

\* An initialisation error is returned after every task has ended, before any
\* iteration, and the message is that of a VU that failed to initialise.
InitErrorClean ==
    result = "init_error" =>
        /\ \A v \in Vus : Ended(v)
        /\ iterated = {}
        /\ init_error # None /\ pc[init_error] \in {"init_failed", "cancelled"}

\* A summary is only made of complete data: nobody records metrics any more.
QuietSummary ==
    result \in {"ok", "threshold_error"} =>
        /\ \A t \in Tasks : pc[t] = "ok"
        /\ progress # "on"

\* The error that is returned is the first in the order of vu_id.
FirstError ==
    result = "vu_error" =>
        /\ pc[next] = "failed"
        /\ \A t \in Tasks : t < next => pc[t] = "ok"

\* run_scenarios returns the summary of everything or the first error.
OutcomeComplete == QuietSummary /\ FirstError

\* A VU that awaits the start before the wake-up is sent, or is aborted there,
\* does not stay parked.
ParkedInTimeStarts ==
    \A v \in Vus : (v \in parked /\ main \notin {"helpers", "join", "returned"})
                      ~> (v \notin parked)

\* "Block until the runner starts timing and opens the gate": once the runner
\* has started, every VU gets going.
EveryVuStarts ==
    started ~> \A v \in Vus : pc[v] \in {"running", "ok", "failed"}
=============================================================================
