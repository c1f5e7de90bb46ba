----------------------------- MODULE RunCommand -----------------------------
(***************************************************************************)
(* The process around a run: main (wrkr/src/main.rs), the commands run     *)
(* (wrkr/src/run.rs), scenario export (wrkr/src/export_scenario.rs) and    *)
(* init (wrkr/src/init.rs), the script's hooks (wrkr-lua/src/lifecycle.rs) *)
(* and the exit code, composed with run_scenarios (RunLifecycle).          *)
(*                                                                         *)
(* The script is external: a hook may fail with any error of the Lua layer *)
(* and may record checks.  process::exit ends every task that is left.     *)
(***************************************************************************)
EXTENDS RunLifecycle, Sequences, FiniteSets

CONSTANTS Defaults,  \* how many VUs may belong to a scenario named Default
          Paths,     \* output paths of HandleSummary: sequences of components
          InitFiles, \* the files of a scaffold, in the order they are written
          MaxFiles   \* bound: files that HandleSummary returns

ASSUME CommandAssumption ==
    /\ Defaults \subseteq 0..NumVus
    /\ Paths \subseteq Seq(STRING)
    /\ Len(InitFiles) \in Nat
    /\ MaxFiles \in Nat

\* Scenario names; the VUs of a scenario are numbered consecutively.
Names == {"Default", "other"}

\* No exit code yet; ExitCode.
Running == 1
Success == 0
ChecksFailed == 10
ThresholdsFailed == 11
ChecksAndThresholdsFailed == 12
ScriptError == 20
InvalidInput == 30
RuntimeError == 40

VARIABLES
    stage,    \* where main is; "exited" at the end
    code,     \* the exit code
    owner,    \* owner[v]: the scenario that VU v belongs to
    failed,   \* scenarios with a failed check in the registry
    summary,  \* RunSummary: scenarios with failed checks, and violated thresholds
    outputs,  \* files that HandleSummary returned and that are not written yet
    written,  \* output files written, as clean paths
    disk,     \* disk[f]: what file f of a scaffold is, "absent", "user" or "wrkr"
    force,    \* init --force
    blame     \* history: who failed a check before the summary, scenarios' VUs or "setup"

command == <<stage, code, owner, failed, summary, outputs, written, disk, force, blame>>
allVars == <<vars, command>>

NoSummary == [checks |-> {}, violated |-> FALSE]

CommandInit ==
    /\ Init
    /\ stage = "main"
    /\ code = Running
    /\ \E n \in Defaults : owner = [v \in Vus |-> IF v <= n THEN "Default" ELSE "other"]
    /\ failed = {}
    /\ summary = NoSummary
    /\ outputs = <<>>
    /\ written = {}
    /\ disk = [i \in 1..Len(InitFiles) |-> "absent"]
    /\ force = FALSE
    /\ blame = {}

-----------------------------------------------------------------------------

To(st) == stage' = st /\ UNCHANGED code

\* process::exit.
Exit(c) == stage' = "exited" /\ code' = c

\* classify_runtime_error: the errors of the Lua layer.
LuaErrors == {"option", "lua", "missing", "path", "metric", "core", "io"}

ClassifyRuntimeError(e) ==
    CASE e \in {"option", "core"} -> InvalidInput
      [] e = "io"                 -> RuntimeError
      [] OTHER                    -> ScriptError

\* A call of the script that may fail.
Hook(then) == To(then) \/ \E e \in LuaErrors : Exit(ClassifyRuntimeError(e))

FromQualityGates(checks_failed, thresholds_failed) ==
    CASE ~checks_failed /\ ~thresholds_failed -> Success
      [] checks_failed /\ ~thresholds_failed  -> ChecksFailed
      [] ~checks_failed /\ thresholds_failed  -> ThresholdsFailed
      [] OTHER                                -> ChecksAndThresholdsFailed

-----------------------------------------------------------------------------
(* main and the commands. *)

\* Cli::try_parse: help and version are no errors; then the command.
ParseArgs ==
    /\ stage = "main"
    /\ \/ \E c \in {Success, InvalidInput} : Exit(c) /\ UNCHANGED <<disk, force>>
       \/ To("create") /\ UNCHANGED <<disk, force>>
       \/ /\ To("init")
          /\ force' \in BOOLEAN
          /\ disk' \in [DOMAIN disk -> {"absent", "user"}]
    /\ UNCHANGED <<vars, owner, failed, summary, outputs, written, blame>>

\* run and export begin with merged_env and create_runtime: all errors are bad input.
CreateRuntime ==
    /\ stage = "create"
    /\ To("options") \/ To("export") \/ Exit(InvalidInput)
    /\ UNCHANGED <<vars, owner, failed, summary, outputs, written, disk, force, blame>>

\* The options, of the script or of a YAML file, are parsed and resolved, the
\* scenario named on the command line, if any, is looked for.
LoadOptions ==
    /\ stage = "options"
    /\ Hook("setup") \/ Exit(InvalidInput)
    /\ UNCHANGED <<vars, owner, failed, summary, outputs, written, disk, force, blame>>

\* run_setup.  Setup's checks are recorded for a scenario called Default.
Setup ==
    /\ stage = "setup"
    /\ Hook("run")
    /\ \/ UNCHANGED <<failed, blame>>
       \/ failed' = failed \union {"Default"} /\ blame' = blame \union {"setup"}
    /\ UNCHANGED <<vars, owner, summary, outputs, written, disk, force>>

\* Mutant of Counted: scenario Default, to which the hooks' checks belong, is left out.
CountedNamed == (failed \ {"Default"}) \intersect {owner[v] : v \in Vus}

\* What build_run_summary counts: the failed checks of the run's scenarios.
Counted == failed \intersect {owner[v] : v \in Vus}

\* run_scenarios, which computes the summary in its last step.
RunScenarios ==
    /\ stage = "run"
    /\ RunnerStep
    /\ IF result = "none" /\ result' = "ok"
       THEN \E violated \in BOOLEAN : summary' = [checks |-> Counted, violated |-> violated]
       ELSE UNCHANGED summary
    /\ UNCHANGED <<stage, code, owner, failed, outputs, written, disk, force, blame>>

RunVu(v) ==
    /\ stage = "run"
    /\ VuStep(v)
    /\ UNCHANGED command

\* An iteration with a check that fails.
FailCheck(v) ==
    /\ stage = "run"
    /\ Iterate(v)
    /\ failed' = failed \union {owner[v]}
    /\ blame' = blame \union {owner[v]}
    /\ UNCHANGED <<stage, code, owner, summary, outputs, written, disk, force>>

RunPacer(t) ==
    /\ stage = "run"
    /\ PacerEnds(t)
    /\ UNCHANGED command

\* Mutant of AfterRun: Teardown is attempted after an error of a VU, too.
TeardownAlways ==
    /\ stage = "run"
    /\ result # "none"
    /\ CASE result \in {"ok", "vu_error"} -> To("teardown")
         [] result = "threshold_error"    -> Exit(InvalidInput)
         [] OTHER                         -> Exit(ScriptError)
    /\ UNCHANGED <<vars, owner, failed, summary, outputs, written, disk, force, blame>>

\* Only a run without errors goes on to Teardown.
AfterRun ==
    /\ stage = "run"
    /\ result # "none"
    /\ CASE result = "ok"              -> To("teardown")
         [] result = "threshold_error" -> Exit(InvalidInput)
         [] OTHER                      -> Exit(ScriptError)
    /\ UNCHANGED <<vars, owner, failed, summary, outputs, written, disk, force, blame>>

\* run_teardown.
Teardown ==
    /\ stage = "teardown"
    /\ Hook("handle_summary")
    /\ failed' \in {failed, failed \union {"Default"}}
    /\ UNCHANGED <<vars, owner, summary, outputs, written, disk, force, blame>>

\* run_handle_summary: no function, or text to print and files to write.
HandleSummary ==
    /\ stage = "handle_summary"
    /\ \/ Hook("print") /\ UNCHANGED outputs
       \/ /\ To("write")
          /\ \E n \in 0..MaxFiles : outputs' \in [1..n -> Paths]
    /\ UNCHANGED <<vars, owner, failed, summary, written, disk, force, blame>>

\* The components pushed to the clean path, after i of them: "." is left out.
Pushed(path) ==
    LET clean[i \in 0..Len(path)] ==
            IF i = 0 THEN <<>>
            ELSE IF path[i] = "." THEN clean[i - 1] ELSE Append(clean[i - 1], path[i])
    IN clean

\* Mutant of Sanitize: parent components are kept.
SanitizeRoot(path) ==
    IF \E i \in DOMAIN path : path[i] = "/" THEN <<>> ELSE Pushed(path)[Len(path)]

\* sanitize_relative_output_path: the clean path, or <<>> for an invalid one.
Sanitize(path) ==
    IF \E i \in DOMAIN path : path[i] \in {"/", ".."} THEN <<>> ELSE Pushed(path)[Len(path)]

\* write_output_files: one file after the other, up to the first error.
WriteFile ==
    /\ stage = "write"
    /\ IF outputs = <<>>
       THEN To("print") /\ UNCHANGED <<outputs, written>>
       ELSE LET clean == Sanitize(Head(outputs)) IN
            \/ /\ clean # <<>>
               /\ written' = written \union {clean}
               /\ outputs' = Tail(outputs)
               /\ UNCHANGED <<stage, code>>
            \/ Exit(RuntimeError) /\ UNCHANGED <<outputs, written>>
    /\ UNCHANGED <<vars, owner, failed, summary, disk, force, blame>>

\* print_summary, which may fail, then the exit code of the quality gates.
PrintSummary ==
    /\ stage = "print"
    /\ \/ Exit(FromQualityGates(summary.checks # {}, summary.violated))
       \/ Exit(RuntimeError)
    /\ UNCHANGED <<vars, owner, failed, summary, outputs, written, disk, force, blame>>

\* export_scenario: the options are parsed and resolved and the YAML file written.
Export ==
    /\ stage = "export"
    /\ \/ \E e \in LuaErrors : Exit(ClassifyRuntimeError(e))
       \/ \E c \in {Success, InvalidInput, RuntimeError} : Exit(c)
    /\ UNCHANGED <<vars, owner, failed, summary, outputs, written, disk, force, blame>>

\* Files of the scaffold that have been written; the next one comes after them.
Scaffolded == {i \in DOMAIN disk : disk[i] = "wrkr"}

\* write_file's test.
MayWrite(i) == force \/ disk[i] = "absent"

\* scaffold: one file after the other; a failure leaves the files before it.
WriteScaffold ==
    /\ stage = "init"
    /\ LET i == Cardinality(Scaffolded) + 1 IN
       \/ i > Len(InitFiles) /\ Exit(Success) /\ UNCHANGED disk
       \/ /\ i <= Len(InitFiles)
          /\ MayWrite(i)
          /\ disk' = [disk EXCEPT ![i] = "wrkr"]
          /\ UNCHANGED <<stage, code>>
       \/ i <= Len(InitFiles) /\ Exit(RuntimeError) /\ UNCHANGED disk
    /\ UNCHANGED <<vars, owner, failed, summary, outputs, written, force, blame>>

MainStep ==
    \/ ParseArgs
    \/ CreateRuntime
    \/ LoadOptions
    \/ Setup
    \/ AfterRun
    \/ Teardown
    \/ HandleSummary
    \/ WriteFile
    \/ PrintSummary
    \/ Export
    \/ WriteScaffold

CommandNext ==
    \/ MainStep
    \/ RunScenarios
    \/ \E v \in Vus : RunVu(v) \/ FailCheck(v)
    \/ \E t \in Pacers : RunPacer(t)

\* Hooks return, the runtime polls every ready task, executors come to an end.
CommandSpec ==
    /\ CommandInit /\ [][CommandNext]_allVars
    /\ WF_allVars(MainStep) /\ WF_allVars(RunScenarios)
    /\ \A v \in Vus : WF_allVars(RunVu(v)) /\ WF_allVars(stage = "run" /\ Finish(v) /\ UNCHANGED command)
    /\ \A t \in Pacers : WF_allVars(RunPacer(t))

-----------------------------------------------------------------------------
(* Properties. *)

\* Stages, codes and files have their types, and the process has a code at its end.
CommandTypeOK ==
    /\ stage \in {"main", "create", "options", "setup", "run", "teardown", "handle_summary",
                  "write", "print", "export", "init", "exited"}
    /\ code \in {Running, Success, ChecksFailed, ThresholdsFailed, ChecksAndThresholdsFailed,
                 ScriptError, InvalidInput, RuntimeError}
    /\ (stage = "exited") = (code # Running)
    /\ owner \in [Vus -> Names]
    /\ failed \subseteq Names
    /\ summary.checks \subseteq Names /\ summary.violated \in BOOLEAN
    /\ disk \in [1..Len(InitFiles) -> {"absent", "user", "wrkr"}]
    /\ force \in BOOLEAN
    /\ blame \subseteq Names \union {"setup"}

\* The run's scenarios in which a check failed before the summary was made: one of a
\* VU's own, or one of Setup's, which is recorded under the name Default.
Due ==
    {s \in {owner[v] : v \in Vus} : s \in blame \/ (s = "Default" /\ "setup" \in blame)}

\* An exit code that speaks of a run's quality is true of a run that is complete:
\* every task ended well, the code tells of the thresholds, and it tells of failed
\* checks exactly when a VU failed one in its scenario, whatever that is called and
\* however late it did, or Setup did and a scenario has the name of Setup's checks.
\* Teardown's checks come too late.
ExitCodeTruthful ==
    (code \in {ChecksFailed, ThresholdsFailed, ChecksAndThresholdsFailed}
       \/ (code = Success /\ result # "none")) =>
        /\ \A t \in Tasks : pc[t] = "ok"
        /\ (code \in {ThresholdsFailed, ChecksAndThresholdsFailed}) = summary.violated
        /\ (code \in {ChecksFailed, ChecksAndThresholdsFailed}) = (Due # {})
        /\ summary.checks = Due

\* The hooks have the shared store and the script's files to themselves: no VU runs
\* its script while Setup, Teardown or HandleSummary does.
HooksAlone ==
    stage \in {"setup", "teardown", "handle_summary"} =>
        \A v \in Vus : pc[v] = "unspawned" \/ Ended(v)

\* The process keeps its types, and its hooks run alone.
CommandSound == CommandTypeOK /\ HooksAlone

\* How deep below the base a path gets, component by component.
Depth(path) ==
    LET d[i \in 0..Len(path)] ==
            IF i = 0 THEN 0 ELSE d[i - 1] + (CASE path[i] = ".." -> -1
                                                [] path[i] = "." -> 0
                                                [] OTHER -> 1)
    IN d

\* "All paths must be relative and must not contain parent traversal": what
\* HandleSummary's files are written to lies below the working directory, however
\* many were refused before.
OutputsConfined ==
    \A path \in written :
        /\ \A i \in DOMAIN path : path[i] # "/" /\ Depth(path)[i] >= 0
        /\ Depth(path)[Len(path)] > 0

\* init without --force never replaces a file of the user's, and it succeeds only
\* with the whole scaffold in place.
ScaffoldKeepsFiles ==
    /\ \A i \in DOMAIN disk : disk[i] = "user" /\ disk'[i] = "wrkr" => force
    /\ stage = "init" /\ code' = Success => \A i \in DOMAIN disk : disk[i] = "wrkr"

\* No step of the process writes outputs outside of the working directory or, unless
\* forced, over a file of the user's, in any command and after any error.
FilesSafe == [][OutputsConfined' /\ ScaffoldKeepsFiles]_allVars

\* When a VU cannot be initialised, the process ends, with the code of a script error.
InitErrorExits == (\E v \in Vus : pc[v] = "barrier_failed") ~> (code = ScriptError)

\* A failed initialisation ends the process, and a VU that waits in time is woken.
RunAdvances == InitErrorExits /\ ParkedInTimeStarts
=============================================================================
