------------------------------ MODULE JudgeRun ------------------------------
(* nejudge/test.py: main runs every test, EJ_RETESTS_AMOUNT times over, with  *)
(* run_solution, inside the context manager Initializer; an exception that    *)
(* leaves main ends the run.  What the solution and the checker do is         *)
(* nondeterministic.  test.py itself is sequential.                           *)
EXTENDS Integers, FiniteSets

CONSTANTS TestCount,   \* the tests are 1..TestCount, in the order of their names
          Retests      \* EJ_RETESTS_AMOUNT

ASSUME JudgeAssumption == TestCount \in Nat \ {0} /\ Retests \in Nat \ {0}

Tests == 1..TestCount

Options ==
    [pipeline : BOOLEAN,          \* GITLAB_CI is set
     prepare : BOOLEAN,           \* --prepare-answers: no checking
     initializer : {"none", "start/stop", "till end"},
     outputFile : BOOLEAN,        \* --output-file: the answer is a file
     listed : SUBSET Tests]       \* --may-fail-local, as given

Kinds == {"run", "code", "output", "time"}

VARIABLES options,
          round, test,   \* the loops of main
          pc,            \* the step of run_solution, or "passed", "raised"
          cwd,           \* "task" or "run"
          service,       \* "on": the initializer has started something that
                         \* has not been stopped; "off" otherwise
          failed,        \* the initializer's commands that have failed or could
                         \* not be run, of "start" and "stop"
          file,          \* the run directory's output file: "none", "new", or
                         \* "old", left by an earlier run of the script
          faults,        \* <<round, test, fault>> of this run, fault being
                         \* one of Kinds
          answers        \* the tests whose .ans was written

vars == <<options, round, test, pc, cwd, service, failed, file, faults, answers>>

Init ==
    /\ options \in Options
    /\ round = 1 /\ test = 1 /\ pc = "begin"
    /\ cwd = "task" /\ service = "off" /\ failed = {}
    /\ faults = {} /\ answers = {}
    /\ file \in IF options.outputFile THEN {"none", "old"} ELSE {"none"}

\* Mutated: the list counts in the pipeline too.
MayFailAnywhere == options.listed

\* main empties the list in the pipeline.
MayFail == IF options.pipeline THEN {} ELSE options.listed

GoTo(step) ==
    pc' = step
    /\ UNCHANGED <<options, round, test, cwd, service, failed, file, faults, answers>>

\* The style check or an empty set of tests (before the first), a missing answer,
\* a static directory beside the test's own, or a run directory that cannot be
\* made.
BadTest == pc = "begin" /\ GoTo("raised")

\* Mutated: the directory of the run before is used again.
KeepRunDir == UNCHANGED file

\* create_run_dir removes the directory of the run before, with all that is in it.
CreateRunDir == file' = "none"

\* Initializer.__enter__ changes to the run directory and starts the service.
\* A start that cannot be run starts nothing; one that ends with another code
\* than 0 may have started it all the same.  __exit__ is called after neither.
Enter ==
    /\ pc = "begin"
    /\ CreateRunDir /\ cwd' = "run"
    /\ \/ /\ pc' = "run"
          /\ service' = IF options.initializer = "none" THEN "off" ELSE "on"
          /\ UNCHANGED failed
       \/ /\ options.initializer # "none"
          /\ pc' = "raised" /\ failed' = failed \cup {"start"}
          /\ service' \in IF options.initializer = "start/stop"
                         THEN {service, "on"} ELSE {service}
    /\ UNCHANGED <<options, round, test, faults, answers>>

\* Mutated: only the way out without an exception stops the service.
StopAfterSuccess(step) ==
    /\ pc' = step /\ UNCHANGED failed
    /\ service' = IF step = "raised" THEN service ELSE "off"

\* stop exits with 0; a service that runs till the end ends at the SIGINT.
Stop(step) == pc' = step /\ service' = "off" /\ UNCHANGED failed

\* A stop that exits with another code is a warning; one that cannot be run
\* raises, whatever was on its way out.
StopFails(step) ==
    /\ options.initializer = "start/stop"
    /\ pc' \in {step, "raised"} /\ service' \in {service, "off"}
    /\ failed' = failed \cup {"stop"}

\* An exception inside the with block runs __exit__ on its way out.
Leave(step) ==
    /\ cwd' = "task"
    /\ Stop(step) \/ StopFails(step)
    /\ UNCHANGED <<options, round, test, answers>>

\* A program that cannot be started, or an interactor that fails or leaves no
\* output.
RunRaises ==
    /\ pc = "run"
    /\ faults' = faults \cup {<<round, test, "run">>}
    /\ Leave("raised")
    /\ UNCHANGED file

\* The solution ends, having written its output file or not, with the expected
\* exit code or with another one.
SolutionEnds ==
    /\ pc = "run"
    /\ file' \in IF options.outputFile THEN {file, "new"} ELSE {file}
    /\ \/ /\ pc' = "check"
          /\ UNCHANGED <<options, round, test, cwd, service, failed, faults, answers>>
       \/ /\ faults' = faults \cup {<<round, test, "code">>}
          /\ IF test \in MayFail
             THEN pc' = "check" /\ UNCHANGED <<options, round, test, cwd, service, failed, answers>>
             ELSE Leave("raised")

\* With --output-file the standard output must be empty and the file there,
\* whatever test it is; after --prepare-answers nothing else is looked at.
NoOutputFile ==
    /\ pc = "check" /\ options.outputFile
    /\ faults' = faults \cup {<<round, test, "output">>}
    /\ Leave("raised")
    /\ UNCHANGED file

\* A file that was read is removed.
Readable == options.outputFile => file # "none"

Accepted ==
    /\ pc = "check" /\ Readable
    /\ Leave("time") /\ file' = "none"
    /\ UNCHANGED faults

Rejected ==
    /\ pc = "check" /\ ~options.prepare /\ Readable
    /\ faults' = faults \cup {<<round, test, "output">>}
    /\ IF test \in MayFail
       THEN Leave("time") /\ file' = "none"
       ELSE Leave("raised") /\ UNCHANGED file

\* The user time of the children is compared with the limit once they are done.
InTime == pc = "time" /\ GoTo("answer")

\* Mutated: being slow is a warning in the pipeline too.
TooSlowAnywhere ==
    /\ pc = "time"
    /\ faults' = faults \cup {<<round, test, "time">>}
    /\ pc' = "answer"
    /\ UNCHANGED <<options, round, test, cwd, service, failed, file, answers>>

TooSlow ==
    /\ pc = "time"
    /\ faults' = faults \cup {<<round, test, "time">>}
    /\ pc' = IF options.pipeline THEN "raised" ELSE "answer"
    /\ UNCHANGED <<options, round, test, cwd, service, failed, file, answers>>

\* Mutated: the answer is written without --prepare-answers too.
WriteAnyAnswer == answers' = answers \cup {test}

\* Back in main: the answer file, then the next test or the next round.
WriteAnswer == answers' = IF options.prepare THEN answers \cup {test} ELSE answers

NextTest ==
    /\ pc = "answer" /\ test < TestCount
    /\ WriteAnswer
    /\ test' = test + 1 /\ pc' = "begin"
    /\ UNCHANGED <<options, round, cwd, service, failed, file, faults>>

NextRound ==
    /\ pc = "answer" /\ test = TestCount /\ round < Retests
    /\ WriteAnswer
    /\ test' = 1 /\ round' = round + 1 /\ pc' = "begin"
    /\ UNCHANGED <<options, cwd, service, failed, file, faults>>

Pass ==
    /\ pc = "answer" /\ test = TestCount /\ round = Retests
    /\ WriteAnswer
    /\ pc' = "passed"
    /\ UNCHANGED <<options, round, test, cwd, service, failed, file, faults>>

Next == \/ BadTest \/ Enter \/ RunRaises \/ SolutionEnds
        \/ NoOutputFile \/ Accepted \/ Rejected
        \/ InTime \/ TooSlow
        \/ NextTest \/ NextRound \/ Pass

\* Every child the script waits for ends.
Spec == Init /\ [][Next]_vars /\ WF_vars(Next)
-----------------------------------------------------------------------------
\* A fault that does not fail the run: on a developer's machine, slowness, and a
\* wrong code or answer of a test listed as allowed to fail there.
Tolerated(fault) ==
    /\ ~options.pipeline
    /\ fault[3] = "time" \/ fault[2] \in options.listed

\* "All tests passed" is printed only when no run of any test, in any round, had
\* a fault, but for the tolerated ones; in the pipeline none is.
PassedMeansPassed == pc = "passed" => \A fault \in faults : Tolerated(fault)

\* A fault that is not tolerated ends the run at once: it is the only one of its
\* kind, and it belongs to the test that was run last.
StopsAtFirstFault ==
    \A f \in faults :
       ~Tolerated(f) => /\ pc = "raised" /\ f[1] = round /\ f[2] = test
                        /\ \A g \in faults : Tolerated(g) \/ g = f

\* Each test begins in the task's directory, so the relative names it is given
\* mean what they say; inside the block the directory is the test's own and no
\* output judged is older than the test.  Whatever ends a test, the directory has
\* been changed back and what was started has been stopped, but for a service
\* whose stop command failed, and for both after a start command that failed,
\* which is the last thing of a run.
TestsIsolated ==
    /\ pc \notin {"run", "check"} => cwd = "task" \/ "start" \in failed
    /\ pc \in {"run", "check"} => cwd = "run" /\ file # "old"
    /\ service = "on" /\ pc \notin {"run", "check"} =>
          /\ options.initializer = "start/stop"
          /\ "stop" \in failed \/ "start" \in failed
    /\ "start" \in failed => pc = "raised"

\* --prepare-answers that reports success has written the answer of every test,
\* and no other run writes any.
AnswersComplete ==
    /\ options.prepare /\ pc = "passed" => answers = Tests
    /\ ~options.prepare => answers = {}

=============================================================================
