-------------------------- MODULE InteractiveJudge --------------------------
(* JudgeRun for an interactive task: while the judge is at "run", the test   *)
(* is a session of InteractiveRun, and what happens to the judge's step is   *)
(* what the session leads to.  The answer is compared with the one of a      *)
(* correct solution.                                                         *)
EXTENDS JudgeRun, Sequences

CONSTANTS Byte, Inputs, Plans, PipeSize, Missing,
          Correct       \* the plan of the solution that the .ans files are from

VARIABLES runner,      \* run_solution: what InteractiveRun calls test
          sol, int, input, toSol, fromSol, output

Session == INSTANCE InteractiveRun WITH test <- runner

ASSUME SessionAssumption == Correct \in Plans /\ Session!InteractiveAssumption

sessionVars == <<runner, sol, int, input, toSol, fromSol, output>>
allVars == <<vars, sessionVars>>

JudgeInit ==
    /\ Init
    /\ ~options.prepare /\ options.initializer = "none" /\ ~options.outputFile
    /\ Session!Init /\ input = <<>> /\ ~runner.mayFail /\ sol.plan = Correct

\* Mutated: the session finds the file that the one before left.
BeginSessionOverOld ==
    /\ runner' = Session!NewTest(test \in MayFail)
    /\ sol' \in {Session!NewSol(plan) : plan \in Plans} /\ int' = Session!NewInt
    /\ input' \in Inputs /\ toSol' = <<>> /\ fromSol' = <<>> /\ output' = output

\* New pipes, new processes and an empty run directory.
BeginSession ==
    /\ runner' = Session!NewTest(test \in MayFail)
    /\ sol' \in {Session!NewSol(plan) : plan \in Plans} /\ int' = Session!NewInt
    /\ input' \in Inputs /\ toSol' = <<>> /\ fromSol' = <<>> /\ output' = Missing

BeginTest == Enter /\ BeginSession

\* An exception leaves the with block; without one the exit code is looked at.
SessionRaised == runner.pc = "raised" /\ RunRaises /\ UNCHANGED sessionVars

SessionDone ==
    /\ runner.pc = "done" /\ SolutionEnds
    /\ sol.pc = "exit" <=> faults' = faults
    /\ UNCHANGED sessionVars

Answer == [k \in 1..Correct.echo * Len(input) + Correct.tail |-> k]

Compare ==
    /\ IF runner.result = Answer THEN Accepted ELSE Rejected
    /\ UNCHANGED sessionVars

Elsewhere ==
    /\ BadTest \/ InTime \/ TooSlow \/ NextTest \/ NextRound \/ Pass
    /\ UNCHANGED sessionVars

Judge == BeginTest \/ SessionRaised \/ SessionDone \/ Compare \/ Elsewhere

\* The processes of a session; those that are left go on after it.
Started == pc # "begin" /\ UNCHANGED vars
RunnerStep == pc = "run" /\ Started /\ Session!TestRunner
SolutionStep == Started /\ Session!Solution
InteractorStep == Started /\ Session!Interactor

JudgeNext == Judge \/ RunnerStep \/ SolutionStep \/ InteractorStep

JudgeSpec == /\ JudgeInit /\ [][JudgeNext]_allVars
             /\ WF_allVars(Judge) /\ WF_allVars(RunnerStep)
             /\ WF_allVars(SolutionStep) /\ WF_allVars(InteractorStep)
-----------------------------------------------------------------------------
\* The solution receives the test's input in order, and takes the end of its
\* input for the end of the test only when it has all of it.
InputIntact == Session!InputIntact

\* A test that the judge goes on after is one without a fault exactly if the
\* solution of this very session came to its end by itself and wrote the right
\* answer, all of it, whatever it left unread and in whatever order the three
\* processes ended; and none is refused for its output whose output was right.
RightlyJudged ==
    LET right == sol.pc = "exit" /\ sol.sent = Answer
        fault(kind) == <<round, test, kind>> \in faults
    IN  /\ pc \in {"time", "answer"} =>
              (right <=> ~fault("run") /\ ~fault("code") /\ ~fault("output"))
        /\ fault("output") => sol.sent # Answer

\* No process waits for another for ever: every run comes to a verdict, however
\* small the pipes are and whoever writes more than the other reads; and nothing
\* that it started runs on.
EventuallyJudged ==
    <>[](/\ pc \in {"passed", "raised"}
         /\ ~Session!Runs(sol) /\ ~Session!Runs(int))
=============================================================================
