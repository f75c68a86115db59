------------------------------ MODULE MakeTest ------------------------------
(* tools/plugins/make_test.py around nejudge/test.py: the course's checker   *)
(* calls the plugin, which builds a task and runs `make test`, a make that   *)
(* compiles the solution and starts test.py.  A solution may run for ever:   *)
(* test.py waits for it without a limit and only the plugin has a clock.     *)
EXTENDS JudgeRun

VARIABLES plugin,   \* "build", "wait" (for make test), "ok" or "failed"
          make,     \* "absent", "compile", "judge" (test.py runs), "killed",
                    \* "orphan" (killed, test.py runs on), "done"
                    \* (exit code 0) or "error"
          holder    \* a process that a solution left behind holds the pipe on
                    \* which the plugin collects the output

pluginVars == <<plugin, make, holder>>
runVars == <<vars, pluginVars>>

PluginInit == Init /\ plugin = "build" /\ make = "absent" /\ holder = FALSE

\* No directory, a build command that fails, cannot be run or takes too long;
\* without a build command only the first.
BuildFails ==
    /\ plugin = "build" /\ plugin' = "failed"
    /\ UNCHANGED <<vars, make, holder>>

Build ==
    /\ plugin = "build" /\ plugin' = "wait" /\ make' = "compile"
    /\ UNCHANGED <<vars, holder>>

Compile ==
    /\ make = "compile" /\ make' \in {"judge", "error"}
    /\ UNCHANGED <<vars, plugin, holder>>

\* test.py goes on without make too.
TestPy ==
    /\ make \in {"judge", "orphan"} /\ Next
    /\ UNCHANGED pluginVars

\* The running solution starts a process of its own that outlives it, and that
\* ends at some time or never.
LeaveBehind ==
    /\ pc = "run" /\ ~holder /\ holder' = TRUE
    /\ UNCHANGED <<vars, plugin, make>>

HolderEnds ==
    /\ holder /\ holder' = FALSE
    /\ UNCHANGED <<vars, plugin, make>>

\* make exits as test.py does.
MakeEnds ==
    /\ make = "judge" /\ pc \in {"passed", "raised"}
    /\ make' = IF pc = "passed" THEN "done" ELSE "error"
    /\ UNCHANGED <<vars, plugin, holder>>

\* Mutated: the exit code is not looked at.
CollectAny ==
    /\ plugin = "wait" /\ make \in {"done", "error"} /\ ~holder
    /\ plugin' = "ok"
    /\ UNCHANGED <<vars, make, holder>>

\* subprocess.run returns when the output has ended and make has exited.
Collect ==
    /\ plugin = "wait" /\ make \in {"done", "error"} /\ ~holder
    /\ plugin' = IF make = "done" THEN "ok" ELSE "failed"
    /\ UNCHANGED <<vars, make, holder>>

\* Mutated: after the kill the output is read to its end.
TimeoutDrains ==
    /\ plugin = "wait" /\ ~holder /\ pc # "run"
    /\ plugin' = "failed"
    /\ make' = CASE make = "judge" -> "orphan" [] make = "compile" -> "killed" [] OTHER -> make
    /\ UNCHANGED <<vars, holder>>

\* The time is up: make alone is killed; a test.py that it started runs on.
Timeout ==
    /\ plugin = "wait" /\ plugin' = "failed"
    /\ make' = CASE make = "judge" -> "orphan" [] make = "compile" -> "killed" [] OTHER -> make
    /\ UNCHANGED <<vars, holder>>

PluginNext == \/ BuildFails \/ Build \/ Compile \/ TestPy \/ LeaveBehind \/ HolderEnds
              \/ MakeEnds \/ Collect \/ Timeout

\* The build is limited in time as the test is; nothing is assumed of test.py, of
\* make or of the solution.
PluginSpec == /\ PluginInit /\ [][PluginNext]_runVars
              /\ WF_runVars(Build \/ BuildFails) /\ WF_runVars(Timeout)
-----------------------------------------------------------------------------
\* The plugin gives full marks only to a run of test.py that has ended in "All
\* tests passed" with no fault but the tolerated ones, and that make had not been
\* killed in: a late success does not count.
MarksEarned ==
    plugin = "ok" => /\ pc = "passed" /\ make = "done" /\ ~holder
                     /\ \A fault \in faults : Tolerated(fault)

\* The plugin comes to an end, with a solution that hangs in any test and with a
\* process left behind that never ends.
PluginEnds == <>(plugin \in {"ok", "failed"})
=============================================================================
