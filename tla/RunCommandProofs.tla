-------------------------- MODULE RunCommandProofs ---------------------------
(***************************************************************************)
(* Proofs about a run (RunLifecycle), for any number of VUs and feeding    *)
(* tasks, and about the process around it, for any owners, output paths    *)
(* and scaffold.                                                           *)
(*                                                                         *)
(* The safety properties of a run talk about the VUs, or about the result, *)
(* and are not inductive: what rules a violation out is where the runner   *)
(* is.  The invariant therefore says what each state of the runner implies *)
(* for the flags (Phase) and the tasks it has joined (Joined), and what    *)
(* each state of a VU implies for the barrier and the flags (VuFacts).     *)
(*                                                                         *)
(* The steps of the process are steps of run_scenarios or leave the run    *)
(* alone, so that all of this holds in the process; its exit code tells    *)
(* the truth; its hooks run alone; and it writes no file that it must not  *)
(* write.                                                                  *)
(***************************************************************************)
EXTENDS RunCommand, FiniteSetTheorems, TLAPS

-----------------------------------------------------------------------------
(* The run. *)

\* The runner's control state and the flags it sets.
Phase ==
    /\ 0 \in arrived <=> main # "spawn"
    /\ main \notin {"spawn", "ready"} => Released
    /\ main \in {"clock", "signal", "notify", "helpers", "join"} => init_error = None
    /\ main \in {"signal", "notify", "helpers", "join"} => run_started
    /\ main \in {"abort", "await_aborted"} => init_error # None
    /\ run_started => init_error = None
                      /\ main \in {"signal", "notify", "helpers", "join", "returned"}
    /\ started => run_started
    /\ aborted => init_error # None /\ main \in {"await_aborted", "returned"}
    /\ main = "returned" <=> result # "none"
    /\ result = "init_error" => init_error # None
    /\ result \in {"ok", "vu_error", "threshold_error"} => init_error = None

\* A VU's control state, the barrier and the flags.
VuFacts ==
    \A v \in Vus :
        /\ v \in arrived => pc[v] \notin {"unspawned", "init"}
        /\ pc[v] \notin {"unspawned", "init", "barrier", "barrier_failed"} => Released
        /\ pc[v] \in {"barrier_failed", "init_failed"} => init_error # None
        /\ pc[v] \in {"enter", "running", "ok", "failed"} => started
        /\ v \in iterated => started
        /\ pc[v] = "cancelled" => aborted
        /\ clock[v] # "own"
        /\ main = "spawn" /\ v >= next => pc[v] = "unspawned"

\* The VU whose message was kept did fail.
ErrorFacts ==
    init_error # None => pc[init_error] \in {"barrier_failed", "init_failed", "cancelled"}

\* Feeding tasks do not fail.
PacerFacts == \A t \in Pacers : pc[t] \in {"unspawned", "running", "ok"}

\* What has been joined stays as it was found.
Joined ==
    /\ main = "join" \/ result = "vu_error" => \A t \in Tasks : t < next => pc[t] = "ok"
    /\ result = "vu_error" => next \in Tasks /\ pc[next] = "failed"
    /\ result \in {"ok", "threshold_error"} => progress # "on" /\ \A t \in Tasks : pc[t] = "ok"
    /\ result = "init_error" => \A v \in Vus : Ended(v)

IInv == TypeOK /\ Phase /\ VuFacts /\ ErrorFacts /\ PacerFacts /\ Joined

-----------------------------------------------------------------------------

\* Tasks are the VUs and the feeding tasks, and the runner's 0 is neither.
LEMMA TaskSets ==
    /\ Vus \subseteq Tasks /\ Pacers \subseteq Tasks
    /\ Tasks = Vus \union Pacers /\ Vus \intersect Pacers = {}
    /\ \A t \in Tasks : t \in Int /\ t # 0
  BY RunAssumption DEF Vus, Pacers, Tasks

\* The range of `next`, with which the arithmetic of the loops is done.
LEMMA NextRange ==
    TypeOK => next \in Int /\ (next \in Tasks \/ next = NumVus + NumPacers + 1)
  BY RunAssumption DEF TypeOK, Tasks

\* Before anything is spawned the invariant holds.
LEMMA InitEstablishes == Init => IInv
<1> SUFFICES ASSUME Init PROVE IInv
  OBVIOUS
<1> USE TaskSets, RunAssumption DEF Init
<1>1. TypeOK
  <2>1. next \in 1 .. NumVus + NumPacers + 1
    OBVIOUS
  <2>2. pc \in [Tasks -> VuStates] /\ clock \in [Vus -> {"none", "runner", "own"}]
    BY DEF VuStates
  <2>3. run_started \in BOOLEAN /\ started \in BOOLEAN /\ aborted \in BOOLEAN
    OBVIOUS
  <2> QED
    BY <2>1, <2>2, <2>3 DEF TypeOK, MainStates, Results
<1>2. Phase
  BY DEF Phase
<1>3. VuFacts
  BY DEF VuFacts, Released
<1>4. ErrorFacts /\ PacerFacts /\ Joined
  BY DEF ErrorFacts, PacerFacts, Joined
<1> QED
  BY <1>1, <1>2, <1>3, <1>4 DEF IInv

\* The runner's loop that spawns VU tasks.
LEMMA SpawnVuKeeps == ASSUME IInv, SpawnVu PROVE IInv'
<1> USE TaskSets, NextRange DEF IInv, SpawnVu
<1>1. TypeOK'
  <2>1. next + 1 \in 1 .. NumVus + NumPacers + 1
    BY RunAssumption DEF Vus
  <2>2. next \notin parked
    BY DEF TypeOK, VuFacts
  <2> QED
    BY <2>1, <2>2 DEF TypeOK, VuStates
<1>2. Phase'
  BY DEF Phase, Released
<1>3. VuFacts'
  <2> SUFFICES ASSUME NEW v \in Vus PROVE VuFacts!(v)'
    BY DEF VuFacts
  <2>1. pc[next] = "unspawned" /\ next \notin arrived
    BY DEF VuFacts
  <2> QED
    BY <2>1 DEF VuFacts, TypeOK, Released
<1>4. ErrorFacts' /\ PacerFacts' /\ Joined'
  BY DEF ErrorFacts, PacerFacts, Joined, Phase, VuFacts, TypeOK, None
<1> QED
  BY <1>1, <1>2, <1>3, <1>4

\* The progress task and the feeding tasks.
LEMMA SpawnHelpersKeeps == ASSUME IInv, SpawnHelpers PROVE IInv'
<1> USE TaskSets DEF IInv, SpawnHelpers
<1>1. TypeOK'
  BY RunAssumption DEF TypeOK, VuStates, MainStates, Tasks, Vus
<1>2. Phase'
  BY DEF Phase, Released, TypeOK
<1>3. VuFacts'
  BY DEF VuFacts, Phase, TypeOK, Released
<1>4. ErrorFacts' /\ PacerFacts'
  BY DEF ErrorFacts, PacerFacts, TypeOK, None
<1>5. Joined'
  BY DEF Joined, Phase, Tasks
<1> QED
  BY <1>1, <1>2, <1>3, <1>4, <1>5

\* The runner joins one task.
LEMMA JoinNextKeeps == ASSUME IInv, JoinNext PROVE IInv'
<1> USE TaskSets, NextRange DEF IInv, JoinNext, vus
<1>1. TypeOK'
  BY RunAssumption DEF TypeOK, MainStates, Results, Tasks
<1>2. Phase'
  BY DEF Phase, Released, TypeOK
<1>3. VuFacts' /\ ErrorFacts' /\ PacerFacts'
  BY DEF VuFacts, ErrorFacts, PacerFacts, Phase, Released, TypeOK
<1>4. Joined'
  <2>1. pc[next] \in {"ok", "failed"}
    BY DEF Ended, VuFacts, PacerFacts, Phase
  <2> QED
    BY <2>1 DEF Joined, Phase, Ended
<1> QED
  BY <1>1, <1>2, <1>3, <1>4

\* The runner has joined all tasks.
LEMMA SummarizeKeeps == ASSUME IInv, Summarize PROVE IInv'
<1> USE TaskSets, NextRange DEF IInv, Summarize, vus
<1>1. TypeOK'
  BY DEF TypeOK, MainStates, Results
<1>2. Phase'
  BY DEF Phase, Released, TypeOK
<1>3. VuFacts' /\ ErrorFacts' /\ PacerFacts'
  BY DEF VuFacts, ErrorFacts, PacerFacts, Phase, Released, TypeOK
<1>4. Joined'
  <2>1. \A t \in Tasks : pc[t] = "ok"
    BY RunAssumption DEF Joined, Tasks
  <2> QED
    BY <2>1 DEF Joined, TypeOK, Phase
<1> QED
  BY <1>1, <1>2, <1>3, <1>4

\* Every step keeps the invariant.
LEMMA NextKeeps == ASSUME IInv, [Next]_vars PROVE IInv'
<1> USE TaskSets
    DEF IInv, TypeOK, Phase, VuFacts, ErrorFacts, PacerFacts, Joined, Ended, Released, None,
        MainStates, VuStates, Results, runner, vus
<1>1. CASE SpawnVu
  BY <1>1, SpawnVuKeeps
<1>2. CASE ArriveRunner
  BY <1>2 DEF ArriveRunner
<1>3. CASE CheckInit
  BY <1>3 DEF CheckInit
<1>4. CASE AbortAll
  BY <1>4 DEF AbortAll
<1>5. CASE ReturnInitError
  BY <1>5 DEF ReturnInitError
<1>6. CASE StartClock
  BY <1>6 DEF StartClock
<1>7. CASE StoreStarted
  BY <1>7 DEF StoreStarted
<1>8. CASE NotifyStarted
  BY <1>8 DEF NotifyStarted
<1>9. CASE SpawnHelpers
  BY <1>9, SpawnHelpersKeeps
<1>10. CASE JoinNext
  BY <1>10, JoinNextKeeps
<1>11. CASE Summarize
  BY <1>11, SummarizeKeeps
<1>12. ASSUME NEW v \in Vus, VuStep(v) PROVE IInv'
  <2>1. CASE InitOk(v)
    BY <2>1 DEF InitOk, Goto
  <2>2. CASE InitFail(v)
    BY <2>2 DEF InitFail, Goto
  <2>3. CASE Arrive(v)
    BY <2>3 DEF Arrive
  <2>4. CASE Pass(v)
    BY <2>4 DEF Pass, Goto
  <2>5. CASE StartCheck(v)
    BY <2>5 DEF StartCheck, Goto
  <2>6. CASE Park(v)
    BY <2>6 DEF Park, Goto
  <2>7. CASE Wake(v)
    BY <2>7 DEF Wake, Goto
  <2>8. CASE Enter(v)
    BY <2>8 DEF Enter, Goto
  <2>9. CASE Iterate(v)
    BY <2>9 DEF Iterate
  <2>10. CASE Finish(v)
    BY <2>10 DEF Finish, Goto
  <2>11. CASE Cancel(v)
    BY <2>11 DEF Cancel, Goto
  <2> QED
    BY <1>12, <2>1, <2>2, <2>3, <2>4, <2>5, <2>6, <2>7, <2>8, <2>9, <2>10, <2>11
    DEF VuStep
<1>13. ASSUME NEW t \in Pacers, PacerEnds(t) PROVE IInv'
  BY <1>13 DEF PacerEnds, Goto
<1>14. CASE UNCHANGED vars
  BY <1>14 DEF vars
<1> QED
  BY <1>1, <1>2, <1>3, <1>4, <1>5, <1>6, <1>7, <1>8, <1>9, <1>10, <1>11, <1>12, <1>13, <1>14
  DEF Next, RunnerStep

-----------------------------------------------------------------------------
(* Theorems. *)

\* In every reachable state the runner's control state, the flags, the barrier
\* and the tasks agree as IInv says.
THEOREM InductiveInvariant == Spec => []IInv
  BY InitEstablishes, NextKeeps, PTL DEF Spec

\* What a state with the invariant guarantees.
LEMMA InvariantImplies ==
    IInv => /\ TypeOK /\ NoEarlyStart /\ CommonClock
            /\ InitErrorClean /\ QuietSummary /\ FirstError
<1> SUFFICES ASSUME IInv
             PROVE  TypeOK /\ NoEarlyStart /\ CommonClock /\ InitErrorClean /\ QuietSummary /\ FirstError
  OBVIOUS
<1>1. TypeOK /\ NoEarlyStart /\ CommonClock
  BY TaskSets DEF IInv, NoEarlyStart, CommonClock, Phase, VuFacts, Released
<1>2. InitErrorClean
  <2> SUFFICES ASSUME result = "init_error" PROVE InitErrorClean
    BY DEF InitErrorClean
  <2>1. ~started
    BY DEF IInv, Phase
  <2>2. iterated = {}
    BY <2>1 DEF IInv, TypeOK, VuFacts
  <2>3. init_error \in Vus /\ Ended(init_error)
    BY DEF IInv, TypeOK, Phase, Joined
  <2> QED
    BY <2>2, <2>3 DEF IInv, InitErrorClean, Phase, ErrorFacts, Joined, Ended
<1>3. QuietSummary /\ FirstError
  BY DEF IInv, QuietSummary, FirstError, Joined
<1> QED
  BY <1>1, <1>2, <1>3

\* Every variable of the run has its type.
THEOREM TypeCorrect == Spec => []TypeOK
BY InvariantImplies, InductiveInvariant, PTL

\* No VU passes the start signal before run_scenarios has seen every VU at the
\* ready barrier without an error and has set the common clock.
THEOREM StartsTogether == Spec => []NoEarlyStart
BY InvariantImplies, InductiveInvariant, PTL

\* The fallback of run_vu to a start time of its own is never taken.
THEOREM OneClock == Spec => []CommonClock
BY InvariantImplies, InductiveInvariant, PTL

\* The executors of all VUs start together, on the run's clock.
THEOREM CommonStart == Spec => []StartTogether
BY StartsTogether, OneClock, PTL DEF StartTogether

\* run_scenarios returns an initialisation error only when every VU task has
\* ended and none has run an iteration.
THEOREM InitErrorsClean == Spec => []InitErrorClean
BY InvariantImplies, InductiveInvariant, PTL

\* run_scenarios builds the summary when every VU and feeding task has ended well
\* and the progress task is stopped.
THEOREM SummaryQuiet == Spec => []QuietSummary
BY InvariantImplies, InductiveInvariant, PTL

\* The error that the join loop returns is the first in the order of vu_id.
THEOREM ErrorsFirst == Spec => []FirstError
BY InvariantImplies, InductiveInvariant, PTL

\* run_scenarios returns the summary of everything or the first error.
THEOREM CompleteOutcome == Spec => []OutcomeComplete
BY SummaryQuiet, ErrorsFirst, PTL DEF OutcomeComplete

-----------------------------------------------------------------------------
(* The process around it. *)

\* The stages before the run begins, and the ones that only a good run reaches.
Before == {"main", "create", "options", "setup", "export", "init"}
After  == {"teardown", "handle_summary", "write", "print"}

\* Before the run nothing is spawned; after it the run has succeeded.
StageFacts ==
    /\ stage \in Before => main = "spawn" /\ \A t \in Tasks : pc[t] = "unspawned"
    /\ stage \in After => result = "ok"

\* Until the run has ended the registry holds the failed checks of the scenarios' VUs
\* and of Setup and no others; the summary of a good run has those of its scenarios.
\* What the registry gets later, from Teardown, is not in it.
SummaryFacts ==
    /\ stage \in Before \union {"run"} =>
          \A s \in Names : s \in failed <=> (s \in blame \/ (s = "Default" /\ "setup" \in blame))
    /\ result = "ok" => summary.checks = Due

\* The codes of a run's quality, and what they are computed from.
CodeFacts ==
    (code \in {ChecksFailed, ThresholdsFailed, ChecksAndThresholdsFailed}
       \/ (code = Success /\ result # "none")) =>
        /\ result = "ok"
        /\ code = FromQualityGates(summary.checks # {}, summary.violated)

\* The files of the scaffold are written in their order; before that there are none.
DiskFacts ==
    /\ stage = "init" => \E n \in 0..Len(InitFiles) : Scaffolded = 1..n
    /\ stage # "init" /\ stage # "exited" => Scaffolded = {}

Codes == {Running, Success, ChecksFailed, ThresholdsFailed, ChecksAndThresholdsFailed,
          ScriptError, InvalidInput, RuntimeError}

CommandInv == IInv /\ CommandTypeOK /\ StageFacts /\ SummaryFacts /\ CodeFacts /\ DiskFacts

-----------------------------------------------------------------------------
(* The process implements the run. *)

\* Every step of the process is a step of the run or leaves the run alone.
LEMMA StepOfRun == CommandNext => [Next]_vars
BY DEF CommandNext, MainStep, ParseArgs, CreateRuntime, LoadOptions, Setup, AfterRun, Teardown,
       HandleSummary, WriteFile, PrintSummary, Export, WriteScaffold, RunScenarios, RunVu,
       FailCheck, RunPacer, VuStep, Next

\* run and its hooks use run_scenarios as RunLifecycle specifies it, whatever the hooks do.
THEOREM CommandImplementsRun == CommandSpec => Init /\ [][Next]_vars
<1>1. CommandInit => Init
  BY DEF CommandInit
<1>2. [CommandNext]_allVars => [Next]_vars
  BY StepOfRun DEF allVars
<1> QED
  BY <1>1, <1>2, PTL DEF CommandSpec

\* The invariant of the run holds in the process.
THEOREM RunInvariant == CommandSpec => []IInv
<1>1. IInv /\ [Next]_vars => IInv'
  BY NextKeeps
<1> QED
  BY <1>1, InitEstablishes, CommandImplementsRun, PTL

\* In the process, too, the run's variables have their types, the executors of all VUs
\* start together and on one clock, an initialisation error is returned when every VU
\* has ended and before any iteration, and the outcome is complete.
THEOREM RunSafeInCommand ==
    CommandSpec => [](TypeOK /\ StartTogether /\ InitErrorClean /\ OutcomeComplete)
BY InvariantImplies, RunInvariant, PTL DEF StartTogether, OutcomeComplete

-----------------------------------------------------------------------------
(* The invariant of the process. *)

LEMMA ScaffoldedEmpty ==
    ASSUME \A i \in DOMAIN disk : disk[i] # "wrkr" PROVE Scaffolded = {}
BY DEF Scaffolded

LEMMA CommandInitEstablishes == CommandInit => CommandInv
<1> SUFFICES ASSUME CommandInit PROVE CommandInv
  OBVIOUS
<1> USE DEF CommandInit
<1>1. IInv
  BY InitEstablishes
<1>2. CommandTypeOK
  BY DEF CommandTypeOK, NoSummary, Names, Running, Success, ChecksFailed, ThresholdsFailed,
         ChecksAndThresholdsFailed, ScriptError, InvalidInput, RuntimeError
<1>3. StageFacts /\ SummaryFacts /\ CodeFacts
  BY DEF StageFacts, SummaryFacts, CodeFacts, Init, After, Running, Success, ChecksFailed,
         ThresholdsFailed, ChecksAndThresholdsFailed
<1>4. DiskFacts
  BY ScaffoldedEmpty DEF DiskFacts
<1> QED
  BY <1>1, <1>2, <1>3, <1>4 DEF CommandInv

\* The codes of errors.
LEMMA ErrorCodes ==
    /\ \A e \in LuaErrors : ClassifyRuntimeError(e) \in {ScriptError, InvalidInput, RuntimeError}
    /\ {ScriptError, InvalidInput, RuntimeError} \intersect
          {Running, Success, ChecksFailed, ThresholdsFailed, ChecksAndThresholdsFailed} = {}
BY DEF LuaErrors, ClassifyRuntimeError, Running, Success, ChecksFailed, ThresholdsFailed,
       ChecksAndThresholdsFailed, ScriptError, InvalidInput, RuntimeError

\* The result of a run is there from its last step on and stays.
LEMMA ResultStays ==
    ASSUME IInv, [Next]_vars, result # "none"
    PROVE  result' = result
BY DEF IInv, Phase, Next, RunnerStep, SpawnVu, ArriveRunner, CheckInit, AbortAll, ReturnInitError,
       StartClock, StoreStarted, NotifyStarted, SpawnHelpers, JoinNext, Summarize, VuStep, InitOk,
       InitFail, Arrive, Pass, StartCheck, Park, Wake, Enter, Iterate, Finish, Cancel, PacerEnds,
       vars, runner

\* A step of main before the run: everything about the run and its summary stays.
LEMMA EarlyKeeps ==
    ASSUME CommandInv, ParseArgs \/ CreateRuntime \/ LoadOptions \/ Setup \/ Export
    PROVE  CommandInv'
<1> USE DEF CommandInv
<1>1. UNCHANGED <<vars, owner, summary, outputs, written>>
  BY DEF ParseArgs, CreateRuntime, LoadOptions, Setup, Export
<1>2. IInv'
  BY <1>1, NextKeeps
<1>3. stage \in Before /\ stage # "init" /\ code = Running
  BY DEF Before, CommandTypeOK, ParseArgs, CreateRuntime, LoadOptions, Setup, Export
<1>4. result = "none" /\ result' = "none"
  BY <1>1, <1>3 DEF vars, runner, StageFacts, Phase, IInv
<1>5. \/ stage' \in Before \union {"run"} /\ code' = code
      \/ stage' = "exited" /\ code' \in {Success, ScriptError, InvalidInput, RuntimeError}
  BY ErrorCodes DEF Before, ParseArgs, CreateRuntime, LoadOptions, Setup, Export, Hook, To, Exit
<1>6. /\ \/ failed' = failed /\ blame' = blame
         \/ failed' = failed \union {"Default"} /\ blame' = blame \union {"setup"}
      /\ force' \in BOOLEAN
      /\ disk' = disk \/ disk' \in [DOMAIN disk -> {"absent", "user"}]
  BY DEF CommandTypeOK, ParseArgs, CreateRuntime, LoadOptions, Setup, Export
<1>7. CommandTypeOK'
  <2>1. code' \in Codes /\ (stage' = "exited") = (code' # Running)
    BY <1>3, <1>5 DEF Codes, Before, Running, Success, ChecksFailed, ThresholdsFailed,
       ChecksAndThresholdsFailed, ScriptError, InvalidInput, RuntimeError
  <2>2. failed' \subseteq Names /\ blame' \subseteq Names \union {"setup"}
    BY <1>6 DEF CommandTypeOK, Names
  <2>3. disk' \in [1..Len(InitFiles) -> {"absent", "user", "wrkr"}]
    BY <1>6 DEF CommandTypeOK
  <2>4. stage' \in Before \union {"run", "exited"}
    BY <1>5
  <2> QED
    BY <1>1, <1>6, <2>1, <2>2, <2>3, <2>4 DEF CommandTypeOK, Codes, Before
<1>8. StageFacts'
  BY <1>1, <1>3, <1>5 DEF StageFacts, Before, After, vars, runner, vus
<1>9. SummaryFacts'
  BY <1>3, <1>4, <1>6 DEF SummaryFacts, Names
<1>11. CodeFacts'
  BY <1>3, <1>4, <1>5 DEF CodeFacts, Running, Success, ChecksFailed, ThresholdsFailed,
       ChecksAndThresholdsFailed, ScriptError, InvalidInput, RuntimeError
<1>10. DiskFacts'
  <2>1. Scaffolded = {}
    BY <1>3 DEF DiskFacts, Before
  <2>2. Scaffolded' = {}
    BY <2>1, <1>6 DEF Scaffolded
  <2>3. 1..0 = {} /\ 0 \in 0..Len(InitFiles)
    BY CommandAssumption
  <2> QED
    BY <2>2, <2>3 DEF DiskFacts
<1> QED
  BY <1>2, <1>7, <1>8, <1>9, <1>10, <1>11

\* A step of main after the run.
LEMMA LateKeeps ==
    ASSUME CommandInv, AfterRun \/ Teardown \/ HandleSummary \/ WriteFile \/ PrintSummary
    PROVE  CommandInv'
<1> USE DEF CommandInv
<1>1. UNCHANGED <<vars, owner, summary, disk, force, blame>>
  BY DEF AfterRun, Teardown, HandleSummary, WriteFile, PrintSummary
<1>2. IInv'
  BY <1>1, NextKeeps
<1>3. stage \in After \union {"run"} /\ code = Running /\ result # "none" /\ result' = result
  BY <1>1 DEF After, StageFacts, CommandTypeOK, AfterRun, Teardown, HandleSummary, WriteFile, PrintSummary, vars, runner
<1>4. \/ stage' \in After /\ code' = code /\ result = "ok"
      \/ stage' = "exited" /\ code' \in {ScriptError, InvalidInput, RuntimeError}
      \/ /\ stage' = "exited" /\ result = "ok"
         /\ code' = FromQualityGates(summary.checks # {}, summary.violated)
  BY ErrorCodes DEF After, StageFacts, AfterRun, Teardown, HandleSummary, WriteFile, PrintSummary, Hook, To, Exit
<1>5. failed' \in {failed, failed \union {"Default"}}
  BY DEF AfterRun, Teardown, HandleSummary, WriteFile, PrintSummary
<1>6. FromQualityGates(summary.checks # {}, summary.violated)
        \in {Success, ChecksFailed, ThresholdsFailed, ChecksAndThresholdsFailed}
  BY DEF FromQualityGates
<1>7. CommandTypeOK'
  <2>1. code' \in Codes /\ (stage' = "exited") = (code' # Running)
    BY <1>3, <1>4, <1>6 DEF Codes, After, Running, Success, ChecksFailed, ThresholdsFailed,
       ChecksAndThresholdsFailed, ScriptError, InvalidInput, RuntimeError
  <2> QED
    BY <1>1, <1>4, <1>5, <2>1 DEF CommandTypeOK, Codes, Names, After
<1>8. StageFacts'
  BY <1>1, <1>3, <1>4 DEF StageFacts, Before, After, vars, runner, vus
<1>9. SummaryFacts'
  BY <1>1, <1>3, <1>4 DEF SummaryFacts, Due, Before, After
<1>10. CodeFacts'
  BY <1>1, <1>3, <1>4, <1>6, ErrorCodes DEF CodeFacts
<1>11. DiskFacts'
  BY <1>1, <1>3, <1>4 DEF DiskFacts, Scaffolded, After
<1> QED
  BY <1>2, <1>7, <1>8, <1>9, <1>10, <1>11

\* A step of the scaffold.
LEMMA ScaffoldKeeps ==
    ASSUME CommandInv, WriteScaffold
    PROVE  CommandInv'
<1> USE DEF CommandInv
<1>1. UNCHANGED <<vars, owner, failed, summary, outputs, written, force, blame>> /\ stage = "init"
  BY DEF WriteScaffold
<1>2. IInv'
  BY <1>1, NextKeeps
<1>3. code = Running /\ result = "none" /\ result' = "none"
  BY <1>1 DEF vars, runner, StageFacts, Before, Phase, IInv, CommandTypeOK
<1>4. PICK n \in 0..Len(InitFiles) : Scaffolded = 1..n
  BY <1>1 DEF DiskFacts
<1>5. Cardinality(Scaffolded) = n
  BY <1>4, FS_Interval, CommandAssumption
<1>6. \/ stage' = "exited" /\ code' \in {Success, RuntimeError} /\ disk' = disk
      \/ /\ stage' = "init" /\ code' = code /\ n + 1 \in 1..Len(InitFiles)
         /\ disk' = [disk EXCEPT ![n + 1] = "wrkr"]
  BY <1>1, <1>5, CommandAssumption DEF WriteScaffold, Exit
<1>7. CommandTypeOK'
  BY <1>1, <1>3, <1>6 DEF CommandTypeOK, Running, Success, RuntimeError
<1>8. StageFacts' /\ SummaryFacts' /\ CodeFacts'
  BY <1>1, <1>3, <1>6 DEF StageFacts, SummaryFacts, CodeFacts, Before, After, vars, runner, vus,
     Running, Success, ChecksFailed, ThresholdsFailed, ChecksAndThresholdsFailed, RuntimeError
<1>9. DiskFacts'
  <2>1. CASE stage' = "exited"
    BY <2>1 DEF DiskFacts
  <2>2. CASE stage' = "init"
    <3>1. Scaffolded' = 1..n + 1
      BY <1>4, <1>6, <2>2, CommandAssumption DEF Scaffolded, CommandTypeOK
    <3> QED
      BY <3>1, <1>6, <2>2 DEF DiskFacts
  <2> QED
    BY <1>6, <2>1, <2>2
<1> QED
  BY <1>2, <1>7, <1>8, <1>9

\* A step of the run: the summary is made in its last one, and no check is recorded later.
LEMMA RunKeeps ==
    ASSUME CommandInv,
           \/ RunScenarios
           \/ \E v \in Vus : RunVu(v) \/ FailCheck(v)
           \/ \E t \in Pacers : RunPacer(t)
    PROVE  CommandInv'
<1> USE DEF CommandInv
<1>1. [Next]_vars
  BY DEF RunScenarios, RunVu, FailCheck, RunPacer, VuStep, Next
<1>2. IInv'
  BY <1>1, NextKeeps
<1>3. stage = "run" /\ UNCHANGED <<stage, code, owner, outputs, written, disk, force>> /\ code = Running
  BY DEF RunScenarios, RunVu, FailCheck, RunPacer, command, CommandTypeOK
<1>4. result = "none" \/ result' = result
  BY <1>1, ResultStays
<1>5. CASE RunScenarios
  <2>1. failed' = failed /\ blame' = blame
    BY <1>5 DEF RunScenarios
  <2>2. CASE result = "none" /\ result' = "ok"
    <3>1. PICK violated \in BOOLEAN : summary' = [checks |-> Counted, violated |-> violated]
      BY <1>5, <2>2 DEF RunScenarios
    <3>2. Due' = Due /\ Counted = Due /\ Counted \subseteq Names
      BY <1>3, <2>1 DEF Counted, Due, SummaryFacts, CommandTypeOK
    <3> QED
      BY <1>2, <1>3, <2>1, <3>1, <3>2 DEF CommandTypeOK, StageFacts, SummaryFacts, CodeFacts, DiskFacts,
         Scaffolded, Before, After, Running, Success, ChecksFailed, ThresholdsFailed, ChecksAndThresholdsFailed
  <2>3. CASE ~(result = "none" /\ result' = "ok")
    <3>1. summary' = summary
      BY <1>5, <2>3 DEF RunScenarios
    <3> QED
      BY <1>2, <1>3, <1>4, <2>1, <2>3, <3>1 DEF CommandTypeOK, StageFacts, SummaryFacts, CodeFacts, DiskFacts,
         Scaffolded, Due, Before, After, Running, Success, ChecksFailed, ThresholdsFailed, ChecksAndThresholdsFailed
  <2> QED
    BY <2>2, <2>3
<1>6. CASE ~RunScenarios
  <2>1. summary' = summary /\ result' = result /\ result # "ok"
    BY <1>6, TaskSets DEF RunVu, FailCheck, RunPacer, command, VuStep, InitOk, InitFail, Arrive, Pass, StartCheck,
       Park, Wake, Enter, Iterate, Finish, Cancel, PacerEnds, runner, IInv, Joined
  <2>2. /\ failed' \subseteq Names /\ blame' \subseteq Names \union {"setup"}
        /\ \/ failed' = failed /\ blame' = blame
           \/ \E s \in Names : failed' = failed \union {s} /\ blame' = blame \union {s}
    BY <1>6 DEF RunVu, FailCheck, RunPacer, command, CommandTypeOK
  <2>3. CommandTypeOK'
    BY <1>3, <2>1, <2>2 DEF CommandTypeOK
  <2>4. SummaryFacts'
    BY <1>3, <2>1, <2>2 DEF SummaryFacts, Names
  <2> QED
    BY <1>2, <1>3, <2>1, <2>3, <2>4 DEF StageFacts, CodeFacts, DiskFacts, Scaffolded,
       Before, After, Running, Success, ChecksFailed, ThresholdsFailed, ChecksAndThresholdsFailed
<1> QED
  BY <1>5, <1>6

LEMMA CommandNextKeeps == CommandInv /\ [CommandNext]_allVars => CommandInv'
<1> SUFFICES ASSUME CommandInv, [CommandNext]_allVars PROVE CommandInv'
  OBVIOUS
<1>1. CASE UNCHANGED allVars
  <2> USE <1>1 DEF CommandInv, allVars, command
  <2>1. IInv'
    BY NextKeeps
  <2> QED
    BY <2>1 DEF CommandTypeOK, StageFacts, SummaryFacts, CodeFacts, DiskFacts, Scaffolded, Due,
       FromQualityGates, vars, runner, vus
<1> QED
  BY <1>1, EarlyKeeps, LateKeeps, ScaffoldKeeps, RunKeeps DEF CommandNext, MainStep

-----------------------------------------------------------------------------
(* Theorems. *)

\* In every state of the process the stage, the run, the summary, the exit code and the
\* scaffold agree as CommandInv says.
THEOREM CommandInvariant == CommandSpec => []CommandInv
BY CommandInitEstablishes, CommandNextKeeps, PTL DEF CommandSpec

\* main keeps its types, has an exit code exactly when it has ended, and no VU runs its
\* script while one of the hooks does.
THEOREM CommandIsSound == CommandSpec => []CommandSound
<1>1. CommandInv => CommandTypeOK /\ HooksAlone
  BY TaskSets DEF CommandInv, StageFacts, Before, After, HooksAlone, Ended, IInv, Joined
<1> QED
  BY <1>1, CommandInvariant, PTL DEF CommandSound

\* An exit code that speaks of a run's quality is true: the run is complete, thresholds
\* are told as they are in the summary, and failed checks are told exactly when VUs of
\* some scenario, Default or another, failed one, or Setup did in the name of one.
THEOREM ExitCodes == CommandSpec => []ExitCodeTruthful
<1>1. CommandInv => ExitCodeTruthful
  <2> SUFFICES ASSUME CommandInv,
                      code \in {ChecksFailed, ThresholdsFailed, ChecksAndThresholdsFailed}
                        \/ (code = Success /\ result # "none")
               PROVE  /\ \A t \in Tasks : pc[t] = "ok"
                      /\ (code \in {ThresholdsFailed, ChecksAndThresholdsFailed}) = summary.violated
                      /\ (code \in {ChecksFailed, ChecksAndThresholdsFailed}) = (Due # {})
                      /\ summary.checks = Due
    BY DEF ExitCodeTruthful
  <2>1. result = "ok" /\ code = FromQualityGates(summary.checks # {}, summary.violated)
    BY DEF CommandInv, CodeFacts
  <2>2. \A t \in Tasks : pc[t] = "ok"
    BY <2>1 DEF CommandInv, IInv, Joined
  <2>3. summary.violated \in BOOLEAN
    BY DEF CommandInv, CommandTypeOK
  <2>4. /\ code \in {ThresholdsFailed, ChecksAndThresholdsFailed} <=> summary.violated
        /\ code \in {ChecksFailed, ChecksAndThresholdsFailed} <=> summary.checks # {}
    BY <2>1, <2>3 DEF FromQualityGates, Success, ChecksFailed, ThresholdsFailed, ChecksAndThresholdsFailed
  <2>5. summary.checks = Due
    BY <2>1 DEF CommandInv, SummaryFacts
  <2> QED
    BY <2>2, <2>3, <2>4, <2>5
<1> QED
  BY <1>1, CommandInvariant, PTL

-----------------------------------------------------------------------------
(* Files.  What Pushed and Depth, which are recursive, compute is shown by      *)
(* induction over the number of components; the principle is stated for sets.  *)

LEMMA Minimal ==
    ASSUME NEW R, IsWellFoundedOn(R, Nat), NEW S \in SUBSET Nat, S # {}
    PROVE  \E n \in S : \A m \in S : ~(<<m, n>> \in R)
BY WFMin

LEMMA LeastIn ==
    ASSUME NEW R, IsWellFoundedOn(R, Nat), \A m, n \in Nat : m < n => <<m, n>> \in R,
           NEW S \in SUBSET Nat, S # {}
    PROVE  \E n \in S : \A m \in S : n <= m
<1>1. S \subseteq Nat
  OBVIOUS
<1>2. PICK n \in S : \A m \in S : ~(<<m, n>> \in R)
  BY Minimal, Zenon
<1>3. \A m \in S : ~(m < n)
  BY <1>1, <1>2, Zenon
<1>4. \A m \in S : n <= m
  BY <1>1, <1>3
<1> QED
  BY <1>4

\* A set of natural numbers that is not empty has a least member.
LEMMA LeastNumber ==
    ASSUME NEW S \in SUBSET Nat, S # {}
    PROVE  \E n \in S : \A m \in S : n <= m
<1>1. IsWellFoundedOn(OpToRel(<, Nat), Nat)
  BY NatLessThanWellFounded
<1>2. \A m, n \in Nat : m < n => <<m, n>> \in OpToRel(<, Nat)
  BY DEF OpToRel
<1> QED
  BY <1>1, <1>2, LeastIn, Zenon

\* Induction: a set with 0 and, with every member, the next number has all of them.
LEMMA Induction ==
    ASSUME NEW S \in SUBSET Nat, 0 \in S, \A n \in S : n + 1 \in S
    PROVE  S = Nat
<1> SUFFICES ASSUME Nat \ S # {} PROVE FALSE
  OBVIOUS
<1>1. PICK n \in Nat \ S : \A m \in Nat \ S : n <= m
  BY LeastNumber
<1>2. n - 1 \in Nat /\ n - 1 \notin Nat \ S
  BY <1>1
<1>3. (n - 1) + 1 \in S
  BY <1>2
<1> QED
  BY <1>1, <1>3

\* One component more.
Push(path, clean, i) ==
    IF i = 0 THEN <<>> ELSE IF path[i] = "." THEN clean[i - 1] ELSE Append(clean[i - 1], path[i])

LEMMA PushedExists ==
    ASSUME NEW path, NEW n \in Nat
    PROVE  \E g : g = [i \in 0..n |-> Push(path, g, i)]
<1> DEFINE S == {k \in Nat : \E g : g = [i \in 0..k |-> Push(path, g, i)]}
<1>1. 0 \in S
  <2>1. [i \in 0..0 |-> <<>>] = [i \in 0..0 |-> Push(path, [j \in 0..0 |-> <<>>], i)]
    BY DEF Push
  <2> QED
    BY <2>1
<1>2. ASSUME NEW k \in S PROVE k + 1 \in S
  <2>1. PICK g : g = [i \in 0..k |-> Push(path, g, i)]
    OBVIOUS
  <2> DEFINE h == [i \in 0..k + 1 |-> IF i <= k THEN g[i] ELSE Push(path, g, i)]
  <2>2. ASSUME NEW i \in 0..k + 1 PROVE h[i] = Push(path, h, i)
    <3>1. h[i] = Push(path, g, i)
      BY <2>1
    <3>2. i = 0 \/ h[i - 1] = g[i - 1]
      OBVIOUS
    <3> HIDE DEF h
    <3> QED
      BY <3>1, <3>2 DEF Push
  <2>3. h = [i \in 0..k + 1 |-> h[i]]
    OBVIOUS
  <2> HIDE DEF h
  <2>4. h = [i \in 0..k + 1 |-> Push(path, h, i)]
    BY <2>2, <2>3
  <2>5. k + 1 \in Nat
    OBVIOUS
  <2> QED
    BY <2>4, <2>5
<1>3. S \in SUBSET Nat
  OBVIOUS
<1>4. S = Nat
  <2> HIDE DEF S
  <2> QED
    BY <1>1, <1>2, <1>3, Induction
<1> QED
  BY <1>4

\* The recursive definition defines what it says.
LEMMA PushedDef ==
    ASSUME NEW path \in Seq(STRING)
    PROVE  \A i \in 0..Len(path) : Pushed(path)[i] = Push(path, Pushed(path), i)
<1>1. Len(path) \in Nat
  OBVIOUS
<1>2. \E g : g = [i \in 0..Len(path) |-> Push(path, g, i)]
  BY <1>1, PushedExists
<1>3. Pushed(path) = [i \in 0..Len(path) |-> Push(path, Pushed(path), i)]
  BY <1>2 DEF Pushed, Push
<1> QED
  BY <1>3

\* Components of a clean path.
Normal == STRING \ {"/", "..", "."}

\* sanitize_relative_output_path lets only normal components through.
LEMMA SanitizeClean ==
    ASSUME NEW path \in Seq(STRING)
    PROVE  Sanitize(path) \in Seq(Normal)
<1>1. CASE \E i \in DOMAIN path : path[i] \in {"/", ".."}
  BY <1>1 DEF Sanitize
<1>2. CASE \A i \in DOMAIN path : path[i] \notin {"/", ".."}
  <2> DEFINE n == Len(path)
             S == {k \in Nat : k <= n => Pushed(path)[k] \in Seq(Normal)}
  <2>1. n \in Nat
    OBVIOUS
  <2>2. 0 \in S
    <3>1. Pushed(path)[0] = <<>>
      BY <2>1, PushedDef DEF Push
    <3>2. Pushed(path)[0] \in Seq(Normal)
      BY <3>1
    <3> QED
      BY <3>2
  <2>3. ASSUME NEW k \in S PROVE k + 1 \in S
    <3> SUFFICES ASSUME k + 1 <= n PROVE Pushed(path)[k + 1] \in Seq(Normal)
      OBVIOUS
    <3>1. Pushed(path)[k] \in Seq(Normal) /\ k + 1 \in 0..n /\ k + 1 \in DOMAIN path
      BY <2>1
    <3>2. path[k + 1] \in STRING /\ path[k + 1] \notin {"/", ".."}
      BY <1>2, <3>1
    <3>3. Pushed(path)[k + 1] = Push(path, Pushed(path), k + 1)
      BY <3>1, PushedDef
    <3>4. CASE path[k + 1] = "."
      BY <3>1, <3>3, <3>4 DEF Push
    <3>5. CASE path[k + 1] # "."
      <4>1. path[k + 1] \in Normal
        BY <3>2, <3>5 DEF Normal
      <4>2. Pushed(path)[k + 1] = Append(Pushed(path)[k], path[k + 1])
        BY <3>1, <3>3, <3>5 DEF Push
      <4> QED
        BY <3>1, <4>1, <4>2
    <3> QED
      BY <3>4, <3>5
  <2>4. S \in SUBSET Nat
    OBVIOUS
  <2>5. S = Nat
    <3> HIDE DEF S
    <3> QED
      BY <2>2, <2>3, <2>4, Induction
  <2>6. Pushed(path)[n] \in Seq(Normal)
    BY <2>1, <2>5
  <2> QED
    BY <1>2, <2>6 DEF Sanitize
<1> QED
  BY <1>1, <1>2

\* How much one normal component adds to the depth.
Descend(path, d, i) ==
    IF i = 0 THEN 0 ELSE d[i - 1] + (CASE path[i] = ".." -> -1 [] path[i] = "." -> 0 [] OTHER -> 1)

\* A path of normal components goes down with each of them.
LEMMA DepthOfClean ==
    ASSUME NEW path \in Seq(Normal)
    PROVE  \A i \in 0..Len(path) : Depth(path)[i] = i
<1> DEFINE n == Len(path)
           e == [i \in 0..n |-> i]
<1>1. n \in Nat /\ \A i \in 1..n : path[i] # ".." /\ path[i] # "."
  BY DEF Normal
<1>2. e = [i \in 0..n |-> Descend(path, e, i)]
  BY <1>1 DEF Descend
<1>3. \E d : d = [i \in 0..n |-> Descend(path, d, i)]
  <2> HIDE DEF e
  <2> QED
    BY <1>2
<1>4. Depth(path) = [i \in 0..n |-> Descend(path, Depth(path), i)]
  BY <1>3 DEF Depth, Descend
<1> DEFINE S == {k \in Nat : k <= n => Depth(path)[k] = k}
<1>5. 0 \in S
  BY <1>1, <1>4 DEF Descend
<1>6. ASSUME NEW k \in S PROVE k + 1 \in S
  <2> SUFFICES ASSUME k + 1 <= n PROVE Depth(path)[k + 1] = k + 1
    OBVIOUS
  <2>1. Depth(path)[k] = k /\ k + 1 \in 1..n
    BY <1>1
  <2>2. Depth(path)[k + 1] = Descend(path, Depth(path), k + 1)
    BY <1>4, <2>1
  <2> QED
    BY <1>1, <2>1, <2>2 DEF Descend
<1>7. S \in SUBSET Nat
  OBVIOUS
<1>8. S = Nat
  <2> HIDE DEF S
  <2> QED
    BY <1>5, <1>6, <1>7, Induction
<1> QED
  BY <1>1, <1>8

\* What is still to be written are paths, what has been written are clean ones.
OutputInv ==
    /\ outputs \in Seq(Paths)
    /\ written \subseteq Seq(Normal) \ {<<>>}

LEMMA OutputInvConfines == OutputInv => OutputsConfined
<1> SUFFICES ASSUME OutputInv, NEW path \in written
             PROVE  /\ \A i \in DOMAIN path : path[i] # "/" /\ Depth(path)[i] >= 0
                    /\ Depth(path)[Len(path)] > 0
  BY DEF OutputsConfined
<1>1. path \in Seq(Normal) /\ path # <<>>
  BY DEF OutputInv
<1>2. Len(path) \in Nat /\ Len(path) > 0 /\ DOMAIN path = 1..Len(path)
  BY <1>1
<1>3. \A i \in DOMAIN path : path[i] # "/"
  BY <1>1, <1>2 DEF Normal
<1>4. \A i \in 0..Len(path) : Depth(path)[i] = i
  BY <1>1, DepthOfClean
<1> QED
  BY <1>2, <1>3, <1>4

LEMMA OutputInvKept == OutputInv /\ [CommandNext]_allVars => OutputInv'
<1> SUFFICES ASSUME OutputInv, [CommandNext]_allVars PROVE OutputInv'
  OBVIOUS
<1>1. CASE HandleSummary
  <2>1. written' = written
    BY <1>1 DEF HandleSummary
  <2>2. outputs' = outputs \/ \E n \in 0..MaxFiles : outputs' \in [1..n -> Paths]
    BY <1>1 DEF HandleSummary
  <2>3. outputs' \in Seq(Paths)
    BY <2>2, CommandAssumption DEF OutputInv
  <2> QED
    BY <2>1, <2>3 DEF OutputInv
<1>2. CASE WriteFile
  <2>1. CASE UNCHANGED <<outputs, written>>
    BY <2>1 DEF OutputInv
  <2>2. CASE /\ outputs # <<>>
             /\ Sanitize(Head(outputs)) # <<>>
             /\ written' = written \union {Sanitize(Head(outputs))}
             /\ outputs' = Tail(outputs)
    <3>1. Head(outputs) \in Seq(STRING) /\ Tail(outputs) \in Seq(Paths)
      BY <2>2, CommandAssumption DEF OutputInv
    <3>2. Sanitize(Head(outputs)) \in Seq(Normal)
      BY <3>1, SanitizeClean
    <3> QED
      BY <2>2, <3>1, <3>2 DEF OutputInv
  <2> QED
    BY <1>2, <2>1, <2>2 DEF WriteFile
<1>3. CASE UNCHANGED <<outputs, written>>
  BY <1>3 DEF OutputInv
<1> QED
  BY <1>1, <1>2, <1>3 DEF CommandNext, MainStep, ParseArgs, CreateRuntime, LoadOptions, Setup,
     AfterRun, Teardown, PrintSummary, Export, WriteScaffold, RunScenarios, RunVu, FailCheck,
     RunPacer, allVars, command

\* What HandleSummary asks to be written lands below the working directory.
THEOREM OutputsStayBelow == CommandSpec => []OutputsConfined
<1>1. CommandInit => OutputInv
  BY DEF CommandInit, OutputInv
<1> QED
  BY <1>1, OutputInvKept, OutputInvConfines, PTL DEF CommandSpec

\* wrkr init without --force replaces no file of the user's, and it succeeds only when
\* every file of the scaffold is written.
THEOREM ScaffoldSafe == CommandSpec => [][ScaffoldKeepsFiles]_allVars
<1>1. CommandInv /\ CommandNext => ScaffoldKeepsFiles
  <2> SUFFICES ASSUME CommandInv, CommandNext PROVE ScaffoldKeepsFiles
    OBVIOUS
  <2>1. CASE WriteScaffold
    <3>1. PICK n \in 0..Len(InitFiles) : Scaffolded = 1..n
      BY <2>1 DEF CommandInv, DiskFacts, WriteScaffold
    <3>2. Cardinality(Scaffolded) = n
      BY <3>1, FS_Interval, CommandAssumption
    <3>3. disk \in [1..Len(InitFiles) -> {"absent", "user", "wrkr"}] /\ code = Running
      BY <2>1 DEF CommandInv, CommandTypeOK, WriteScaffold
    <3>4. \/ disk' = disk
          \/ MayWrite(n + 1) /\ disk' = [disk EXCEPT ![n + 1] = "wrkr"]
      BY <2>1, <3>2 DEF WriteScaffold
    <3>5. \A i \in DOMAIN disk : disk[i] = "user" /\ disk'[i] = "wrkr" => force
      BY <3>3, <3>4 DEF MayWrite
    <3>6. code' = Success => n = Len(InitFiles)
      BY <2>1, <3>2, <3>3, CommandAssumption DEF WriteScaffold, Exit, Running, Success, RuntimeError
    <3>7. code' = Success => \A i \in DOMAIN disk : disk[i] = "wrkr"
      BY <3>1, <3>3, <3>6 DEF Scaffolded
    <3> QED
      BY <3>5, <3>7 DEF ScaffoldKeepsFiles
  <2>2. CASE ParseArgs
    BY <2>2 DEF ParseArgs, ScaffoldKeepsFiles
  <2>3. CASE UNCHANGED disk /\ stage # "init"
    BY <2>3 DEF ScaffoldKeepsFiles
  <2> QED
    BY <2>1, <2>2, <2>3 DEF CommandNext, MainStep, CreateRuntime, LoadOptions, Setup, AfterRun,
       Teardown, HandleSummary, WriteFile, PrintSummary, Export, RunScenarios, RunVu, FailCheck,
       RunPacer, command
<1> QED
  BY <1>1, CommandInvariant, PTL DEF CommandSpec

\* No step of the process writes outputs outside of the working directory or, unless
\* forced, over a file of the user's.
THEOREM FilesAreSafe == CommandSpec => FilesSafe
<1>1. CommandSpec => []OutputsConfined /\ [][ScaffoldKeepsFiles]_allVars
  BY OutputsStayBelow, ScaffoldSafe
<1> QED
  BY <1>1, PTL DEF FilesSafe
=============================================================================
