---------------------------------- MODULE Backends ----------------------------------
(***************************************************************************)
(* Running an external program (backends.py): discover_backend looks for   *)
(* it on PATH, run_backend looks again and starts it, and the program then *)
(* takes any time and ends in any way, or not at all, until the timeout.   *)
(* Programs may be installed and removed at any moment.                    *)
(***************************************************************************)
EXTENDS Naturals, Sequences

CONSTANT Programs  \* the configured executables

VARIABLES
  installed,  \* the programs that are on PATH
  stage,      \* where the caller is: see Stages
  cause       \* how the last run ended, for whoever has to report it

backendVars == <<installed, stage, cause>>

\* "discovering" is the discovery of probe_backend, before the one of run_backend.
Stages == {"idle", "discovering", "looking", "starting", "running", "ended"}

\* "not_found" is the answer of discover_backend; "missing" is a BackendUnavailableError,
\* "timeout" a BackendTimeoutError, "exit" a BackendExecutionError; "os_error"
\* (the program vanished between the discovery and the start, or cannot be executed) and
\* "undecodable" (its output is no text) are no BackendErrors, and nobody translates them.
BackendErrors == {"missing", "timeout", "exit"}
Causes == {"none", "completed", "not_found", "os_error", "undecodable"} \cup BackendErrors

BackendInit == installed \in SUBSET Programs /\ stage = "idle" /\ cause = "none"

\* What a run that has ended leaves to its caller.
EndRun(how) == stage' = "ended" /\ cause' = how

-----------------------------------------------------------------------------
\* probe_backend: a program that is missing is not run.
Discover(program) ==
  /\ stage = "discovering"
  /\ IF program \in installed THEN stage' = "looking" /\ UNCHANGED cause
                             ELSE EndRun("not_found")
  /\ UNCHANGED installed

Look(program) ==
  /\ stage = "looking"
  /\ IF program \in installed THEN stage' = "starting" /\ UNCHANGED cause
                             ELSE EndRun("missing")
  /\ UNCHANGED installed

StartProgram(program) ==
  /\ stage = "starting"
  /\ \/ program \in installed /\ stage' = "running" /\ UNCHANGED cause
     \/ EndRun("os_error")
  /\ UNCHANGED installed

\* The program ends: with status zero, with another one, or with output that is no
\* text.  It is not obliged to.
ProgramEnds ==
  /\ stage = "running" /\ \E how \in {"completed", "exit", "undecodable"} : EndRun(how)
  /\ UNCHANGED installed

\* Wrong on purpose: without a timeout the caller waits for the program.
TimeoutNever == stage = "running" /\ EndRun("timeout") /\ UNCHANGED installed /\ FALSE

\* subprocess.run kills the program when the timeout is over.
Timeout == stage = "running" /\ EndRun("timeout") /\ UNCHANGED installed

\* What the caller does, whether the program ends or not.
Supervise(program) ==
  Discover(program) \/ Look(program) \/ StartProgram(program) \/ Timeout

\* Whoever administers the machine (not under src/).
Administer(program) ==
  /\ installed' = IF program \in installed THEN installed \ {program}
                                            ELSE installed \cup {program}
  /\ UNCHANGED <<stage, cause>>
=====================================================================================
