--------------------------- MODULE JudgingProofs ----------------------------
(* What a run of test.py means, for any number of tests and rounds: by       *)
(* itself, under the plugin that starts it and waits for it, and with        *)
(* interactive tests, for any inputs, solutions and pipes.  test.py is the   *)
(* same with and without the plugin around it, so its invariant is proved    *)
(* for its own steps and used twice.                                         *)
EXTENDS InteractiveJudge, MakeTest, TLAPS

Steps == {"begin", "run", "check", "time", "answer", "passed", "raised"}

TypeOK ==
    /\ options \in Options
    /\ round \in 1..Retests /\ test \in Tests
    /\ pc \in Steps /\ cwd \in {"task", "run"}
    /\ service \in {"off", "on"} /\ failed \subseteq {"start", "stop"}
    /\ file \in {"none", "old", "new"}
    /\ faults \subseteq (1..Retests) \X Tests \X Kinds
    /\ answers \subseteq Tests

\* Inside the with block there is the service that the initializer has started.
Inside == pc \in {"run", "check"}
ServiceRight == Inside => service = IF options.initializer = "none" THEN "off" ELSE "on"

\* The answers of the tests before this one, in the first round, are written.
Written ==
    options.prepare =>
        IF round > 1 \/ pc = "passed" THEN answers = Tests ELSE 1..test-1 \subseteq answers

RunInv == /\ TypeOK /\ StopsAtFirstFault /\ TestsIsolated /\ ServiceRight
        /\ AnswersComplete /\ Written

-----------------------------------------------------------------------------
\* A run begins in the task's directory with no fault and no answer.
LEMMA InitRunInv == Init => RunInv
<1> SUFFICES ASSUME Init PROVE RunInv
  OBVIOUS
<1>1. TypeOK
  BY JudgeAssumption DEF Init, TypeOK, Tests, Steps
<1>2. StopsAtFirstFault /\ TestsIsolated /\ ServiceRight /\ AnswersComplete /\ Written
  BY JudgeAssumption DEF Init, StopsAtFirstFault, TestsIsolated, ServiceRight, Inside,
     AnswersComplete, Written, Tests
<1> QED BY <1>1, <1>2 DEF RunInv

\* A step from where every fault was tolerated, with at most one more fault, of
\* this test, which is tolerated if the run goes on.
LEMMA OneMoreFault ==
  ASSUME RunInv, pc # "raised", NEW kind \in Kinds, UNCHANGED <<options, round, test>>,
         \/ faults' = faults
         \/ /\ faults' = faults \cup {<<round, test, kind>>}
            /\ pc' = "raised" \/ Tolerated(<<round, test, kind>>)
  PROVE  StopsAtFirstFault' /\ faults' \subseteq (1..Retests) \X Tests \X Kinds
<1> DEFINE new == <<round, test, kind>>
<1>1. new \in (1..Retests) \X Tests \X Kinds /\ new[1] = round /\ new[2] = test
  BY DEF RunInv, TypeOK
<1>2. \A f \in faults : Tolerated(f)
  BY DEF RunInv, StopsAtFirstFault
<1>3. \A f : Tolerated(f)' <=> Tolerated(f)
  BY DEF Tolerated
<1>4. faults' \subseteq faults \cup {new}
  OBVIOUS
<1>5. ASSUME NEW f \in faults', ~Tolerated(f)
      PROVE  f = new /\ pc' = "raised" /\ \A g \in faults' : Tolerated(g) \/ g = f
  <2> HIDE DEF new
  <2>1. f = new
    BY <1>2, <1>4, <1>5
  <2>2. pc' = "raised"
    BY <1>2, <1>5, <2>1 DEF new
  <2> QED BY <1>2, <1>4, <2>1, <2>2
<1>6. StopsAtFirstFault'
  BY <1>1, <1>3, <1>5 DEF StopsAtFirstFault
<1> QED BY <1>1, <1>6 DEF RunInv, TypeOK

\* MayFail lets a fault of a listed test be tolerated.
LEMMA MayFailTolerated ==
  ASSUME test \in MayFail, NEW kind
  PROVE  Tolerated(<<round, test, kind>>)
  BY DEF MayFail, Tolerated

-----------------------------------------------------------------------------
\* The steps of one test leave the loops alone and write no answer.
LEMMA TestStep ==
  ASSUME RunInv, pc # "raised", TypeOK', StopsAtFirstFault',
         UNCHANGED <<options, round, test, answers>>, pc' # "passed", pc # "passed",
         TestsIsolated', ServiceRight'
  PROVE  RunInv'
  BY DEF RunInv, AnswersComplete, Written

LEMMA EnterStep == ASSUME RunInv, Enter PROVE RunInv'
<1>1. /\ pc = "begin" /\ cwd = "task" /\ "start" \notin failed
      /\ service = "on" => options.initializer = "start/stop" /\ "stop" \in failed
  BY DEF RunInv, TestsIsolated, Enter
<1>2. TypeOK'
  BY DEF RunInv, TypeOK, Enter, CreateRunDir, Steps
<1>3. StopsAtFirstFault'
  BY <1>1, OneMoreFault DEF Enter, Kinds
<1>4. TestsIsolated' /\ ServiceRight'
  BY <1>1 DEF RunInv, TypeOK, TestsIsolated, ServiceRight, Inside, Enter, CreateRunDir, Options
<1> QED BY <1>1, <1>2, <1>3, <1>4, TestStep DEF Enter

LEMMA BadTestStep == ASSUME RunInv, BadTest PROVE RunInv'
<1>1. TypeOK' /\ StopsAtFirstFault'
  BY OneMoreFault DEF RunInv, TypeOK, BadTest, GoTo, Steps, Kinds
<1>2. TestsIsolated' /\ ServiceRight'
  BY DEF RunInv, TestsIsolated, ServiceRight, Inside, BadTest, GoTo
<1> QED BY <1>1, <1>2, TestStep DEF BadTest, GoTo

\* Leaving the with block from inside puts the directory back, and the service
\* unless stopping it fails.
LEMMA LeaveStep ==
  ASSUME RunInv, Inside, NEW step \in {"raised", "time"}, Leave(step),
         file' \in {"none", "old", "new"}, StopsAtFirstFault',
         faults' \subseteq (1..Retests) \X Tests \X Kinds
  PROVE  RunInv'
<1>1. pc # "raised" /\ pc # "passed" /\ "start" \notin failed
  BY DEF Inside, RunInv, TestsIsolated
<1>2. /\ cwd' = "task" /\ pc' \in {"raised", "time"}
      /\ UNCHANGED <<options, round, test, answers>>
      /\ \/ service' = "off" /\ failed' = failed
         \/ /\ options.initializer = "start/stop" /\ failed' = failed \cup {"stop"}
            /\ service' \in {"on", "off"}
  BY DEF RunInv, TypeOK, Leave, Stop, StopFails
<1>3. TypeOK'
  BY <1>2 DEF RunInv, TypeOK, Steps
<1>4. TestsIsolated' /\ ServiceRight'
  BY <1>1, <1>2 DEF TestsIsolated, ServiceRight, Inside
<1> QED BY <1>1, <1>2, <1>3, <1>4, TestStep

LEMMA RunRaisesStep == ASSUME RunInv, RunRaises PROVE RunInv'
<1>1. /\ pc = "run" /\ pc' = "raised" /\ UNCHANGED <<options, round, test>>
      /\ faults' = faults \cup {<<round, test, "run">>}
  BY DEF RunRaises, Leave, Stop, StopFails
<1>2. StopsAtFirstFault' /\ faults' \subseteq (1..Retests) \X Tests \X Kinds
  BY <1>1, OneMoreFault DEF Kinds
<1> QED BY <1>1, <1>2, LeaveStep DEF RunRaises, Inside, RunInv, TypeOK

LEMMA SolutionEndsStep == ASSUME RunInv, SolutionEnds PROVE RunInv'
<1>1. pc = "run" /\ cwd = "run" /\ file # "old" /\ file' \in {"none", "new"}
  BY DEF RunInv, TypeOK, TestsIsolated, SolutionEnds
<1>2. service = (IF options.initializer = "none" THEN "off" ELSE "on") /\ "start" \notin failed
  BY <1>1 DEF RunInv, ServiceRight, Inside, TestsIsolated
<1>3. UNCHANGED <<options, round, test, answers>>
  BY DEF SolutionEnds, Leave
<1>4. CASE /\ pc' = "check" /\ UNCHANGED <<cwd, service, failed>>
           /\ \/ faults' = faults
              \/ faults' = faults \cup {<<round, test, "code">>} /\ test \in MayFail
  <2>1. StopsAtFirstFault' /\ TypeOK'
    BY <1>1, <1>3, <1>4, OneMoreFault, MayFailTolerated DEF RunInv, TypeOK, Kinds, Steps
  <2>2. TestsIsolated' /\ ServiceRight'
    BY <1>1, <1>2, <1>3, <1>4 DEF TestsIsolated, ServiceRight, Inside
  <2> QED BY <1>1, <1>3, <1>4, <2>1, <2>2, TestStep
<1>5. CASE faults' = faults \cup {<<round, test, "code">>} /\ Leave("raised")
  <2>1. pc' = "raised"
    BY <1>5 DEF Leave, Stop, StopFails
  <2>2. StopsAtFirstFault' /\ faults' \subseteq (1..Retests) \X Tests \X Kinds
    BY <1>1, <1>3, <1>5, <2>1, OneMoreFault DEF Kinds
  <2> QED BY <1>1, <1>5, <2>2, LeaveStep DEF Inside
<1> QED BY <1>4, <1>5 DEF SolutionEnds

LEMMA NoOutputFileStep == ASSUME RunInv, NoOutputFile PROVE RunInv'
<1>1. /\ pc = "check" /\ pc' = "raised" /\ UNCHANGED <<options, round, test>>
      /\ faults' = faults \cup {<<round, test, "output">>}
  BY DEF NoOutputFile, Leave, Stop, StopFails
<1>2. StopsAtFirstFault' /\ faults' \subseteq (1..Retests) \X Tests \X Kinds
  BY <1>1, OneMoreFault DEF Kinds
<1> QED BY <1>1, <1>2, LeaveStep DEF NoOutputFile, Inside, RunInv, TypeOK

LEMMA AcceptedStep == ASSUME RunInv, Accepted PROVE RunInv'
<1>1. /\ pc = "check" /\ UNCHANGED <<options, round, test>> /\ faults' = faults
  BY DEF Accepted, Leave
<1>2. StopsAtFirstFault' /\ faults' \subseteq (1..Retests) \X Tests \X Kinds
  BY <1>1, OneMoreFault DEF Kinds
<1> QED BY <1>1, <1>2, LeaveStep DEF Accepted, Inside

LEMMA RejectedStep == ASSUME RunInv, Rejected PROVE RunInv'
<1>1. /\ pc = "check" /\ UNCHANGED <<options, round, test>>
      /\ faults' = faults \cup {<<round, test, "output">>}
  BY DEF Rejected, Leave
<1>2. pc' = "raised" \/ Tolerated(<<round, test, "output">>)
  BY MayFailTolerated DEF Rejected, Leave, Stop, StopFails
<1>3. StopsAtFirstFault' /\ faults' \subseteq (1..Retests) \X Tests \X Kinds
  BY <1>1, <1>2, OneMoreFault DEF Kinds
<1>4. file' \in {"none", "old", "new"} /\ \E step \in {"raised", "time"} : Leave(step)
  BY DEF Rejected, RunInv, TypeOK
<1> QED BY <1>1, <1>3, <1>4, LeaveStep DEF Inside

\* The user time is looked at outside the with block.
LEMMA TimeStep == ASSUME RunInv, InTime \/ TooSlow PROVE RunInv'
<1>1. /\ pc = "time" /\ pc' \in {"answer", "raised"}
      /\ UNCHANGED <<options, round, test, cwd, service, failed, file, answers>>
  BY DEF InTime, TooSlow, GoTo
<1>2. /\ cwd = "task" /\ "start" \notin failed
      /\ service = "on" => options.initializer = "start/stop" /\ "stop" \in failed
  BY <1>1 DEF RunInv, TestsIsolated
<1>3. \/ faults' = faults
      \/ /\ faults' = faults \cup {<<round, test, "time">>}
         /\ pc' = "raised" \/ Tolerated(<<round, test, "time">>)
  BY DEF InTime, TooSlow, GoTo, Tolerated
<1>4. StopsAtFirstFault' /\ faults' \subseteq (1..Retests) \X Tests \X Kinds
  BY <1>1, <1>3, OneMoreFault DEF Kinds
<1>5. TypeOK'
  BY <1>1, <1>4 DEF RunInv, TypeOK, Steps
<1>6. TestsIsolated' /\ ServiceRight'
  BY <1>1, <1>2 DEF TestsIsolated, ServiceRight, Inside
<1> QED BY <1>1, <1>4, <1>5, <1>6, TestStep

\* Back in main, with the answer of this test written.
LEMMA LoopStep == ASSUME RunInv, NextTest \/ NextRound \/ Pass PROVE RunInv'
<1>1. /\ pc = "answer" /\ UNCHANGED <<options, cwd, service, failed, file, faults>>
      /\ WriteAnswer
  BY DEF NextTest, NextRound, Pass
<1>2. /\ cwd = "task" /\ "start" \notin failed
      /\ service = "on" => options.initializer = "start/stop" /\ "stop" \in failed
      /\ \A f \in faults : Tolerated(f)
  BY <1>1 DEF RunInv, TestsIsolated, StopsAtFirstFault
<1>3. StopsAtFirstFault'
  BY <1>1, <1>2 DEF StopsAtFirstFault, Tolerated
<1>4. /\ TypeOK /\ TestCount \in Nat \ {0} /\ Retests \in Nat \ {0}
      /\ test \in 1..TestCount /\ round \in 1..Retests
  BY JudgeAssumption DEF RunInv, TypeOK, Tests
<1>5. answers' \subseteq Tests /\ (~options.prepare => answers' = {})
  BY <1>1, <1>4 DEF RunInv, AnswersComplete, WriteAnswer, TypeOK
<1>6. options.prepare => 1..test \subseteq answers' /\ (round > 1 => answers' = Tests)
  <2> SUFFICES ASSUME options.prepare
               PROVE  1..test \subseteq answers' /\ (round > 1 => answers' = Tests)
    OBVIOUS
  <2>1. answers' = answers \cup {test}
    BY <1>1 DEF WriteAnswer
  <2>2. IF round > 1 THEN answers = Tests ELSE 1..test-1 \subseteq answers
    BY <1>1 DEF RunInv, Written
  <2> QED BY <1>4, <1>5, <2>1, <2>2 DEF Tests
<1>7. (test = TestCount /\ options.prepare) => answers' = Tests
  BY <1>5, <1>6 DEF Tests
<1>8. CASE NextTest
  <2>1. test' = test + 1 /\ pc' = "begin" /\ round' = round /\ test < TestCount
    BY <1>8 DEF NextTest
  <2>2. TypeOK'
    BY <1>1, <1>4, <1>5, <2>1 DEF TypeOK, Tests, Steps
  <2>3. TestsIsolated' /\ ServiceRight' /\ AnswersComplete'
    BY <1>1, <1>2, <1>5, <2>1 DEF TestsIsolated, ServiceRight, Inside, AnswersComplete
  <2>4. Written'
    BY <1>1, <1>4, <1>6, <2>1 DEF Written
  <2> QED BY <1>3, <2>2, <2>3, <2>4 DEF RunInv
<1>9. CASE NextRound
  <2>1. /\ test' = 1 /\ pc' = "begin" /\ round' = round + 1 /\ round < Retests
        /\ test = TestCount
    BY <1>9 DEF NextRound
  <2>2. TypeOK'
    BY <1>1, <1>4, <1>5, <2>1 DEF TypeOK, Tests, Steps
  <2>3. TestsIsolated' /\ ServiceRight' /\ AnswersComplete'
    BY <1>1, <1>2, <1>5, <2>1 DEF TestsIsolated, ServiceRight, Inside, AnswersComplete
  <2>4. Written'
    BY <1>1, <1>4, <1>7, <2>1 DEF Written, Tests
  <2> QED BY <1>3, <2>2, <2>3, <2>4 DEF RunInv
<1>10. CASE Pass
  <2>1. test' = test /\ pc' = "passed" /\ round' = round /\ test = TestCount
    BY <1>10 DEF Pass
  <2>2. TypeOK'
    BY <1>1, <1>4, <1>5, <2>1 DEF TypeOK, Tests, Steps
  <2>3. TestsIsolated' /\ ServiceRight'
    BY <1>1, <1>2, <2>1 DEF TestsIsolated, ServiceRight, Inside
  <2>4. AnswersComplete' /\ Written'
    BY <1>1, <1>5, <1>7, <2>1 DEF AnswersComplete, Written, Tests
  <2> QED BY <1>3, <2>2, <2>3, <2>4 DEF RunInv
<1> QED BY <1>8, <1>9, <1>10

LEMMA StepRunInv == RunInv /\ [Next]_vars => RunInv'
<1> SUFFICES ASSUME RunInv, [Next]_vars PROVE RunInv'
  OBVIOUS
<1>1. CASE UNCHANGED vars
  BY <1>1 DEF vars, RunInv, TypeOK, StopsAtFirstFault, Tolerated, TestsIsolated, ServiceRight,
     Inside, AnswersComplete, Written
<1> QED BY <1>1, BadTestStep, EnterStep, RunRaisesStep, SolutionEndsStep, NoOutputFileStep,
           AcceptedStep, RejectedStep, TimeStep, LoopStep DEF Next

-----------------------------------------------------------------------------
\* What the plugin's verdict rests on: a make that exits with 0 was around a run
\* that had passed, and nothing of a run that passed is left.
PluginInv ==
    /\ make = "done" => pc = "passed"
    /\ plugin = "ok" => make = "done" /\ ~holder

PInv == RunInv /\ PluginInv

LEMMA NothingAfterPassed == ASSUME pc = "passed" PROVE ~Next
  BY DEF Next, BadTest, GoTo, Enter, RunRaises, SolutionEnds, NoOutputFile, Accepted, Rejected,
     InTime, TooSlow, NextTest, NextRound, Pass

LEMMA InitPInv == PluginInit => PInv
  BY InitRunInv DEF PluginInit, PInv, PluginInv

LEMMA StepPInv == PInv /\ [PluginNext]_runVars => PInv'
<1> SUFFICES ASSUME PInv, [PluginNext]_runVars PROVE PInv'
  OBVIOUS
<1>1. RunInv /\ PluginInv
  BY DEF PInv
<1>2. [Next]_vars
  BY DEF runVars, PluginNext, BuildFails, Build, Compile, TestPy, LeaveBehind, HolderEnds,
     MakeEnds, Collect, Timeout
<1>3. RunInv'
  BY <1>1, <1>2, StepRunInv
<1>4. PluginInv'
  <2>1. CASE UNCHANGED runVars
    BY <1>1, <2>1 DEF PluginInv, runVars, vars, pluginVars
  <2>2. CASE TestPy
    BY <1>1, <2>2, NothingAfterPassed DEF PluginInv, TestPy, pluginVars
  <2>3. CASE LeaveBehind \/ HolderEnds
    BY <1>1, <2>3 DEF PluginInv, LeaveBehind, HolderEnds, vars
  <2>4. CASE BuildFails \/ Build \/ Compile
    BY <1>1, <2>4 DEF PluginInv, BuildFails, Build, Compile, vars
  <2>5. CASE MakeEnds
    BY <1>1, <2>5 DEF PluginInv, MakeEnds, vars
  <2>6. CASE Collect \/ Timeout
    BY <1>1, <2>6 DEF PluginInv, Collect, Timeout, vars
  <2> QED BY <2>1, <2>2, <2>3, <2>4, <2>5, <2>6 DEF PluginNext
<1> QED BY <1>3, <1>4 DEF PInv

LEMMA PluginInvariant == PluginSpec => []PInv
  BY InitPInv, StepPInv, PTL DEF PluginSpec

-----------------------------------------------------------------------------
\* test.py alone, without a plugin around it: its state keeps the invariant that
\* the theorems below rest on.
THEOREM JudgeInvariant == Spec => []RunInv
  BY InitRunInv, StepRunInv, PTL DEF Spec

\* A fault that is not tolerated is the last thing of a run (test.py:523-576,
\* the exceptions that leave run_solution and main).
THEOREM StopsAtFirst == PluginSpec => []StopsAtFirstFault
<1>1. PInv => StopsAtFirstFault
  BY DEF PInv, RunInv
<1> QED BY <1>1, PluginInvariant, PTL

\* "All tests passed" is printed only over faults that are tolerated
\* (test.py:682, the list that the pipeline empties).
THEOREM PassedIsPassed == PluginSpec => []PassedMeansPassed
<1>1. StopsAtFirstFault => PassedMeansPassed
  BY DEF StopsAtFirstFault, PassedMeansPassed
<1> QED BY <1>1, StopsAtFirst, PTL

\* Tests do not see each other's directory or output file, nor a service but one
\* whose stop command failed (Initializer and create_run_dir in test.py), in any
\* number of tests and rounds.
THEOREM IsolatedTests == PluginSpec => []TestsIsolated
<1>1. PInv => TestsIsolated
  BY DEF PInv, RunInv
<1> QED BY <1>1, PluginInvariant, PTL

\* A successful --prepare-answers has written every answer (test.py:714).
THEOREM AllAnswers == PluginSpec => []AnswersComplete
<1>1. PInv => AnswersComplete
  BY DEF PInv, RunInv
<1> QED BY <1>1, PluginInvariant, PTL

\* The plugin's full marks are earned (make_test.py:62-87), whenever the timeout
\* comes and whatever test.py does after it.
THEOREM EarnedMarks == PluginSpec => []MarksEarned
<1>1. PInv => MarksEarned
  BY DEF PInv, RunInv, PluginInv, StopsAtFirstFault, MarksEarned
<1> QED BY <1>1, PluginInvariant, PTL

-----------------------------------------------------------------------------
(* One interactive test after another: what the solution reads, and what     *)
(* test.py makes of what it wrote.                                           *)

\* The invariant of a session.

SolEnded == sol.pc \in {"exit", "killed"}
IntEnded == int.pc \in {"exit", "failed"}

SessionTypeOK ==
    /\ runner \in [pc : {"spawnSolution", "spawnInteractor", "close", "wait", "done", "raised"},
                   mayFail : BOOLEAN, holds : BOOLEAN, result : {Missing} \cup Seq(Nat)]
    /\ sol \in [pc : {"absent", "read", "tail", "terminated", "exit", "killed"},
                plan : Plans, owed : Nat, got : Seq(Byte), sent : Seq(Nat)]
    /\ int \in [pc : {"absent", "start", "select", "read", "write", "save", "exit", "failed"},
                p : Nat, ready : SUBSET {0, 1}, captured : Seq(Nat), holds : BOOLEAN]
    /\ input \in Seq(Byte) /\ toSol \in Seq(Byte) /\ fromSol \in Seq(Nat)
    /\ output \in {Missing} \cup Seq(Nat)

\* The bytes the interactor has written are the input's first, and those the
\* solution has not read are in the pipe; only what it will never read is lost.
Delivered ==
    /\ int.p <= Len(input) /\ Len(sol.got) + Len(toSol) <= int.p
    /\ ~SolEnded => Len(sol.got) + Len(toSol) = int.p
    /\ \A k \in 1..Len(sol.got) : sol.got[k] = input[k]
    /\ \A k \in 1..Len(toSol) : toSol[k] = input[Len(sol.got) + k]

\* What the solution has written is with the interactor or on its way there.
Captured ==
    /\ Len(int.captured) + Len(fromSol) = Len(sol.sent)
    /\ \A k \in 1..Len(sol.sent) : sol.sent[k] = k
    /\ \A k \in 1..Len(int.captured) : int.captured[k] = k
    /\ \A k \in 1..Len(fromSol) : fromSol[k] = Len(int.captured) + k

\* Which processes there are at each step of run_solution.
Spawned ==
    /\ runner.holds <=> runner.pc \in {"spawnInteractor", "close"}
    /\ runner.pc = "spawnSolution" => sol.pc = "absent"
    /\ sol.pc = "absent" => runner.pc \in {"spawnSolution", "raised"} /\ int.pc = "absent"
    /\ runner.pc \in {"spawnSolution", "spawnInteractor"} => int.pc = "absent"
    /\ runner.pc \in {"close", "wait", "done"} => int.pc # "absent"

\* The interactor ends the solution's input only after all of it, and its own
\* loop only after the solution's end.
InputEnds ==
    /\ sol.pc = "read" /\ ~runner.holds /\ ~int.holds
          => int.pc = "failed" \/ int.p = Len(input)
    /\ sol.pc = "read" /\ int.pc \notin {"absent", "failed"} /\ ~int.holds
          => int.p = Len(input)
    /\ sol.pc = "tail" /\ int.pc # "failed"
          => Len(sol.got) = Len(input) \/ Len(sol.got) = sol.plan.limit

OutputEnds ==
    /\ int.pc = "read" /\ 0 \in int.ready => fromSol # <<>> \/ SolEnded
    /\ int.pc \in {"save", "exit"} => SolEnded /\ fromSol = <<>>
    /\ output # Missing => int.pc = "exit" /\ output = int.captured
    /\ runner.pc = "done" => SolEnded /\ IntEnded /\ runner.result = sol.sent

SessionInv == /\ SessionTypeOK /\ Delivered /\ Captured
              /\ Spawned /\ InputEnds /\ OutputEnds

\* A session that has not begun.
Fresh ==
    /\ runner \in {Session!NewTest(m) : m \in BOOLEAN}
    /\ sol \in {Session!NewSol(plan) : plan \in Plans} /\ int = Session!NewInt
    /\ input \in Inputs /\ toSol = <<>> /\ fromSol = <<>> /\ output = Missing

LEMMA NewSession == Fresh => SessionInv
<1> SUFFICES ASSUME Fresh PROVE SessionInv
  OBVIOUS
<1>. PICK m \in BOOLEAN, plan \in Plans :
        runner = Session!NewTest(m) /\ sol = Session!NewSol(plan)
  BY DEF Fresh
<1> USE DEF Fresh
<1>0. /\ runner = [pc |-> "spawnSolution", mayFail |-> m, holds |-> FALSE, result |-> Missing]
      /\ sol = [pc |-> "absent", plan |-> plan, owed |-> 0, got |-> <<>>, sent |-> <<>>]
      /\ int = [pc |-> "absent", p |-> 0, ready |-> {}, captured |-> <<>>, holds |-> FALSE]
  BY DEF Session!NewTest, Session!NewSol, Session!NewInt
<1>1. SessionTypeOK
  <2>1. input \in Seq(Byte)
    BY SessionAssumption DEF Session!InteractiveAssumption
  <2>2. <<>> \in Seq(Byte) /\ <<>> \in Seq(Nat) /\ 0 \in Nat
    OBVIOUS
  <2> QED BY <1>0, <2>1, <2>2 DEF SessionTypeOK
<1>2. Delivered /\ Captured
  <2>1. Len(input) \in Nat /\ Len(<<>>) = 0 /\ 1..0 = {}
    BY <1>1 DEF SessionTypeOK
  <2>2. int.p = 0 /\ sol.got = <<>> /\ sol.sent = <<>> /\ int.captured = <<>>
    BY <1>0
  <2> QED BY <2>1, <2>2 DEF Delivered, Captured
<1>3. Spawned /\ InputEnds /\ OutputEnds
  BY DEF Session!NewTest, Session!NewSol, Session!NewInt, Spawned, InputEnds, OutputEnds
<1> QED BY <1>1, <1>2, <1>3 DEF SessionInv

-----------------------------------------------------------------------------
\* The solution.

\* Taking n bytes out of a pipe.
LEMMA TakenApart ==
  ASSUME NEW S, NEW s \in Seq(S), NEW n \in 1..Len(s)
  PROVE  /\ SubSeq(s, 1, n) \in Seq(S) /\ Len(SubSeq(s, 1, n)) = n
         /\ \A k \in 1..n : SubSeq(s, 1, n)[k] = s[k]
         /\ SubSeq(s, n+1, Len(s)) \in Seq(S) /\ Len(SubSeq(s, n+1, Len(s))) = Len(s) - n
         /\ \A k \in 1..Len(s)-n : SubSeq(s, n+1, Len(s))[k] = s[n+k]
  OBVIOUS

LEMMA Joined ==
  ASSUME NEW S, NEW s \in Seq(S), NEW t \in Seq(S)
  PROVE  /\ s \o t \in Seq(S) /\ Len(s \o t) = Len(s) + Len(t)
         /\ \A k \in 1..Len(s) : (s \o t)[k] = s[k]
         /\ \A k \in 1..Len(t) : (s \o t)[Len(s)+k] = t[k]
  OBVIOUS

LEMMA SolReadStep ==
  ASSUME SessionInv, NEW n \in 1..PipeSize, Session!SolRead(n)
  PROVE  SessionInv'
<1>1. /\ sol.pc = "read" /\ n <= Len(toSol) /\ n \in 1..Len(toSol)
      /\ sol' = [sol EXCEPT !.got = @ \o SubSeq(toSol, 1, n), !.owed = sol.plan.echo * n]
      /\ toSol' = SubSeq(toSol, n + 1, Len(toSol))
      /\ UNCHANGED <<runner, int, input, fromSol, output>>
  <2>1. PipeSize \in Nat /\ Len(toSol) \in Nat
    BY SessionAssumption DEF Session!InteractiveAssumption, SessionInv, SessionTypeOK
  <2> QED BY <2>1 DEF Session!SolRead
<1> DEFINE a == SubSeq(toSol, 1, n)
           old == sol.got
<1>2. toSol \in Seq(Byte) /\ old \in Seq(Byte) /\ int.p \in Nat /\ input \in Seq(Byte)
  BY DEF SessionInv, SessionTypeOK
<1>3. /\ a \in Seq(Byte) /\ Len(a) = n /\ \A k \in 1..n : a[k] = toSol[k]
      /\ toSol' \in Seq(Byte) /\ Len(toSol') = Len(toSol) - n
      /\ \A k \in 1..Len(toSol') : toSol'[k] = toSol[n+k]
  BY <1>1, <1>2, TakenApart
<1>4. sol.plan.echo * n \in Nat
  <2>1. sol.plan.echo \in Nat
    BY SessionAssumption DEF Session!InteractiveAssumption, SessionInv, SessionTypeOK
  <2> QED BY <2>1
<1> HIDE DEF a
<1>5. /\ sol' = [sol EXCEPT !.got = old \o a, !.owed = sol.plan.echo * n]
      /\ sol'.pc = sol.pc /\ sol'.got = old \o a /\ sol'.sent = sol.sent
      /\ sol'.plan = sol.plan
  BY <1>1 DEF a, SessionInv, SessionTypeOK
<1>0. \A k \in 1..Len(old) : old[k] = input[k]
  BY DEF SessionInv, Delivered
<1>00. Len(old) + Len(toSol) = int.p
  BY <1>1 DEF SessionInv, Delivered, SolEnded
<1> HIDE DEF old
<1>6. /\ old \o a \in Seq(Byte) /\ Len(old \o a) = Len(old) + n
      /\ \A k \in 1..Len(old) : (old \o a)[k] = old[k]
      /\ \A k \in 1..n : (old \o a)[Len(old)+k] = a[k]
  <2>1. old \in Seq(Byte) /\ a \in Seq(Byte) /\ Len(a) = n
    BY <1>2, <1>3
  <2>2. /\ old \o a \in Seq(Byte) /\ Len(old \o a) = Len(old) + Len(a)
        /\ \A k \in 1..Len(old) : (old \o a)[k] = old[k]
        /\ \A k \in 1..Len(a) : (old \o a)[Len(old)+k] = a[k]
    BY ONLY <2>1
  <2> QED BY ONLY <2>1, <2>2
<1>7. SessionTypeOK'
  BY <1>1, <1>3, <1>4, <1>5, <1>6 DEF SessionInv, SessionTypeOK, old
<1>8. Delivered'
  <2> DEFINE g == sol'.got
             L == Len(old)
  <2>1. /\ Len(g) = L + n /\ L \in Nat /\ Len(toSol) \in Nat /\ n \in Nat
        /\ \A k \in 1..L : g[k] = old[k]
        /\ \A k \in 1..n : g[L+k] = a[k]
    <3>1. g = old \o a
      BY <1>5
    <3>2. Len(old) \in Nat /\ Len(toSol) \in Nat
      BY <1>2
    <3> HIDE DEF g
    <3> QED BY <1>6, <3>1, <3>2
  <2>2. /\ int.p <= Len(input) /\ L + Len(toSol) = int.p
        /\ \A k \in 1..L : old[k] = input[k]
        /\ \A k \in 1..Len(toSol) : toSol[k] = input[L + k]
    BY <1>0, <1>00 DEF SessionInv, Delivered, old
  <2> HIDE DEF g, L
  <2>3. ASSUME NEW k \in 1..Len(g) PROVE g[k] = input[k]
    <3>1. CASE k <= L
      BY <2>1, <2>2, <3>1
    <3>2. CASE k > L
      <4>1. k-L \in 1..n /\ k-L \in 1..Len(toSol) /\ L + (k-L) = k
        BY <1>1, <2>1, <3>2
      <4>2. g[L + (k-L)] = a[k-L] /\ a[k-L] = toSol[k-L] /\ toSol[k-L] = input[L + (k-L)]
        BY <1>3, <2>1, <2>2, <4>1
      <4> QED BY ONLY <4>1, <4>2
    <3> QED BY <2>1, <3>1, <3>2
  <2>4. ASSUME NEW k \in 1..Len(toSol') PROVE toSol'[k] = input[Len(g) + k]
    <3>1. n+k \in 1..Len(toSol) /\ L + (n+k) = Len(g) + k
      BY <1>3, <2>1
    <3> QED BY <1>3, <2>2, <3>1
  <2>5. Len(g) + Len(toSol') = int.p
    BY <1>3, <2>1, <2>2
  <2> DEFINE m == Len(g) + Len(toSol')
  <2>6. m = int.p /\ m <= int.p
    BY <1>2, <2>5
  <2> HIDE DEF m
  <2> QED BY <1>1, <2>2, <2>3, <2>4, <2>6 DEF Delivered, g, m
<1>9. Captured' /\ Spawned'
  BY <1>1, <1>5 DEF SessionInv, Captured, Spawned
<1>10. InputEnds' /\ OutputEnds'
  BY <1>1, <1>5 DEF SessionInv, InputEnds, OutputEnds, SolEnded, IntEnded
<1> QED BY <1>7, <1>8, <1>9, <1>10 DEF SessionInv

\* The end of the input: the interactor has closed it, and nobody else holds it.
LEMMA SolEndOfInputStep == ASSUME SessionInv, Session!SolEndOfInput PROVE SessionInv'
<1>1. /\ sol.pc = "read" /\ sol' = [sol EXCEPT !.pc = "tail", !.owed = sol.plan.tail]
      /\ Len(sol.got) = sol.plan.limit \/ (toSol = <<>> /\ ~runner.holds /\ ~int.holds)
      /\ UNCHANGED <<runner, int, input, toSol, fromSol, output>>
  BY DEF Session!SolEndOfInput, Session!ToSolHasWriter
<1>2. /\ sol'.pc = "tail" /\ sol'.got = sol.got /\ sol'.sent = sol.sent
      /\ sol'.plan = sol.plan
  BY <1>1 DEF SessionInv, SessionTypeOK
<1>3. sol.plan.tail \in Nat
  BY SessionAssumption DEF Session!InteractiveAssumption, SessionInv, SessionTypeOK
<1>4. SessionTypeOK'
  BY <1>1, <1>3 DEF SessionInv, SessionTypeOK
<1>5. Delivered' /\ Captured' /\ Spawned'
  BY <1>1, <1>2 DEF SessionInv, Delivered, Captured, Spawned, SolEnded
<1>6. InputEnds'
  <2>1. int.pc # "failed" => Len(sol.got) = Len(input) \/ Len(sol.got) = sol.plan.limit
    <3>1. CASE toSol = <<>> /\ ~runner.holds /\ ~int.holds
      <4>1. Len(toSol) = 0 /\ Len(sol.got) \in Nat
        BY <3>1 DEF SessionInv, SessionTypeOK
      <4> QED BY <1>1, <3>1, <4>1 DEF SessionInv, Delivered, InputEnds, SolEnded
    <3> QED BY <1>1, <3>1
  <2> QED BY <1>1, <1>2, <2>1 DEF InputEnds
<1>7. OutputEnds'
  BY <1>1, <1>2 DEF SessionInv, OutputEnds, SolEnded, IntEnded
<1> QED BY <1>4, <1>5, <1>6, <1>7 DEF SessionInv

LEMMA SolWriteStep == ASSUME SessionInv, Session!SolWrite PROVE SessionInv'
<1> DEFINE byte == Len(sol.sent) + 1
<1>1. /\ sol.pc \in {"read", "tail"} /\ sol.owed > 0
      /\ UNCHANGED <<runner, int, input, toSol, output>>
      /\ \/ /\ fromSol' = Append(fromSol, byte)
            /\ sol' = [sol EXCEPT !.owed = @ - 1, !.sent = Append(@, byte)]
         \/ sol' = [sol EXCEPT !.pc = "killed"] /\ UNCHANGED fromSol
  BY DEF Session!SolWrite
<1>2. /\ sol.owed \in Nat /\ sol.sent \in Seq(Nat) /\ fromSol \in Seq(Nat) /\ byte \in Nat
      /\ int.captured \in Seq(Nat) /\ Len(sol.sent) \in Nat
  BY DEF SessionInv, SessionTypeOK
<1>3. CASE fromSol' = Append(fromSol, byte)
           /\ sol' = [sol EXCEPT !.owed = @ - 1, !.sent = Append(@, byte)]
  <2>1. /\ sol'.pc = sol.pc /\ sol'.got = sol.got /\ sol'.plan = sol.plan
        /\ sol'.sent = Append(sol.sent, byte) /\ sol.owed - 1 \in Nat
    BY <1>1, <1>2, <1>3 DEF SessionInv, SessionTypeOK
  <2>2. /\ fromSol' \in Seq(Nat) /\ Len(fromSol') = Len(fromSol) + 1
        /\ \A k \in 1..Len(fromSol) : fromSol'[k] = fromSol[k]
        /\ fromSol'[Len(fromSol)+1] = byte
    BY <1>2, <1>3
  <2>3. /\ Append(sol.sent, byte) \in Seq(Nat) /\ Len(sol'.sent) = byte
        /\ \A k \in 1..Len(sol.sent) : sol'.sent[k] = sol.sent[k]
        /\ sol'.sent[byte] = byte
    BY <1>2, <2>1
  <2> HIDE DEF byte
  <2>4. SessionTypeOK'
    BY <1>1, <1>3, <2>1, <2>2, <2>3 DEF SessionInv, SessionTypeOK
  <2>5. Captured'
    <3> DEFINE c == Len(int.captured)
               f == Len(fromSol)
               g == fromSol'
               t == sol'.sent
    <3>1. /\ c + f = byte - 1 /\ byte - 1 = Len(sol.sent) /\ {c, f, byte, byte - 1} \subseteq Nat
          /\ \A k \in 1..f : fromSol[k] = c + k
      BY <1>2 DEF SessionInv, Captured, byte
    <3>2. \A k \in 1..byte-1 : sol.sent[k] = k
      BY <3>1 DEF SessionInv, Captured
    <3>3. Len(g) = f + 1 /\ (\A k \in 1..f : g[k] = fromSol[k]) /\ g[f+1] = byte
      BY <2>2
    <3>4. Len(t) = byte /\ (\A k \in 1..byte-1 : t[k] = sol.sent[k]) /\ t[byte] = byte
      BY <2>3, <3>1
    <3> HIDE DEF c, f, g, t
    <3>5. \A k \in 1..Len(t) : t[k] = k
      <4> TAKE k \in 1..Len(t)
      <4>1. CASE k = byte
        BY <3>4, <4>1
      <4>2. CASE k # byte
        <5>1. k \in 1..byte-1
          BY <3>1, <3>4, <4>2
        <5> QED BY <3>2, <3>4, <5>1
      <4> QED BY <4>1, <4>2
    <3>6. c + Len(g) = Len(t) /\ \A k \in 1..Len(g) : g[k] = c + k
      BY <3>1, <3>3, <3>4
    <3>7. /\ int' = int /\ \A k \in 1..c : int.captured[k] = k
      BY <1>1 DEF SessionInv, Captured, c
    <3> QED BY <3>5, <3>6, <3>7 DEF Captured, c, g, t
  <2>6. fromSol' # <<>>
    BY <1>2, <2>2
  <2>7. Delivered' /\ Spawned' /\ InputEnds' /\ OutputEnds'
    BY <1>1, <2>1, <2>6 DEF SessionInv, Delivered, Spawned, InputEnds, OutputEnds,
       SolEnded, IntEnded
  <2> QED BY <2>4, <2>5, <2>7 DEF SessionInv
<1>4. CASE sol' = [sol EXCEPT !.pc = "killed"] /\ UNCHANGED fromSol
  <2>1. /\ sol'.pc = "killed" /\ sol'.got = sol.got /\ sol'.plan = sol.plan
        /\ sol'.sent = sol.sent
    BY <1>4 DEF SessionInv, SessionTypeOK
  <2>2. SessionTypeOK'
    BY <1>1, <1>4 DEF SessionInv, SessionTypeOK
  <2>3. Delivered' /\ Captured' /\ Spawned' /\ InputEnds' /\ OutputEnds'
    BY <1>1, <1>4, <2>1 DEF SessionInv, Delivered, Captured, Spawned, InputEnds,
       OutputEnds, SolEnded, IntEnded
  <2> QED BY <2>2, <2>3 DEF SessionInv
<1> QED BY <1>1, <1>3, <1>4

LEMMA SolEndsStep ==
  ASSUME SessionInv, Session!SolExit \/ Session!SolTerminated
  PROVE  SessionInv'
<1>1. /\ sol.pc \in {"tail", "terminated"} /\ UNCHANGED <<runner, int, input, toSol, fromSol, output>>
      /\ \E end \in {"exit", "killed"} : sol' = [sol EXCEPT !.pc = end]
  BY DEF Session!SolExit, Session!SolTerminated
<1>2. /\ sol'.pc \in {"exit", "killed"} /\ sol'.got = sol.got /\ sol'.plan = sol.plan
      /\ sol'.sent = sol.sent
  BY <1>1 DEF SessionInv, SessionTypeOK
<1>3. SessionTypeOK'
  <2>1. PICK end \in {"exit", "killed"} : sol' = [sol EXCEPT !.pc = end]
    BY <1>1
  <2> QED BY <1>1, <2>1 DEF SessionInv, SessionTypeOK
<1>4. Delivered' /\ Captured' /\ Spawned' /\ InputEnds' /\ OutputEnds'
  BY <1>1, <1>2 DEF SessionInv, Delivered, Captured, Spawned, InputEnds,
     OutputEnds, SolEnded, IntEnded
<1> QED BY <1>3, <1>4 DEF SessionInv

-----------------------------------------------------------------------------
\* The interactor.

\* A step of the interactor's own: the pipes and the file stay.
LEMMA IntQuietStep ==
  ASSUME SessionInv,
         Session!IntStart \/ Session!IntSelect \/ Session!IntSkip \/ Session!IntEndOfFile
  PROVE  SessionInv'
<1>1. UNCHANGED <<runner, sol, input, toSol, fromSol, output>>
  BY DEF Session!IntStart, Session!IntSelect, Session!IntSkip, Session!NotReady,
     Session!IntEndOfFile
<1>2. CASE Session!IntStart
  <2>1. int.pc = "start" /\ \/ int' = [int EXCEPT !.pc = "select", !.holds = (input # <<>>)]
                            \/ int' = [int EXCEPT !.pc = "failed", !.holds = FALSE]
    BY <1>2 DEF Session!IntStart
  <2>2. /\ int'.p = int.p /\ int'.captured = int.captured
        /\ \/ int'.pc = "select" /\ (int'.holds <=> input # <<>>)
           \/ int'.pc = "failed" /\ ~int'.holds
    BY <2>1 DEF SessionInv, SessionTypeOK
  <2>3. SessionTypeOK'
    BY <1>1, <2>1 DEF SessionInv, SessionTypeOK
  <2>4. input = <<>> => int.p = Len(input)
    BY DEF SessionInv, SessionTypeOK, Delivered
  <2>5. Delivered' /\ Captured' /\ Spawned'
    BY <1>1, <2>1, <2>2 DEF SessionInv, Delivered, Captured, Spawned, SolEnded
  <2>6. InputEnds'
    BY <1>1, <2>1, <2>2, <2>4 DEF SessionInv, InputEnds
  <2>7. OutputEnds'
    BY <1>1, <2>1, <2>2 DEF SessionInv, OutputEnds, SolEnded, IntEnded
  <2> QED BY <2>3, <2>5, <2>6, <2>7 DEF SessionInv
<1>3. CASE Session!IntSelect
  <2>1. int.pc = "select" /\ \E r \in SUBSET {0, 1} :
           /\ int' = [int EXCEPT !.pc = "read", !.ready = r]
           /\ 0 \in r => fromSol # <<>> \/ ~Session!Runs(sol)
    <3> DEFINE readable == {fd \in {0} : fromSol # <<>> \/ ~Session!FromSolHasWriter}
               writable == {fd \in {1} : /\ int.holds
                                         /\ \/ Len(toSol) < PipeSize
                                            \/ ~Session!ToSolHasReader}
               r == readable \cup writable
    <3>1. int.pc = "select" /\ int' = [int EXCEPT !.pc = "read", !.ready = r]
      BY <1>3 DEF Session!IntSelect
    <3>2. r \in SUBSET {0, 1} /\ (0 \in r => fromSol # <<>> \/ ~Session!Runs(sol))
      BY DEF Session!FromSolHasWriter
    <3> HIDE DEF r
    <3> QED BY <3>1, <3>2
  <2>2. PICK r \in SUBSET {0, 1} :
           /\ int' = [int EXCEPT !.pc = "read", !.ready = r]
           /\ 0 \in r => fromSol # <<>> \/ ~Session!Runs(sol)
    BY <2>1
  <2>3. /\ int'.p = int.p /\ int'.captured = int.captured /\ int'.holds = int.holds
        /\ int'.pc = "read" /\ int'.ready = r
    BY <2>2 DEF SessionInv, SessionTypeOK
  <2>4. SessionTypeOK'
    BY <1>1, <2>2 DEF SessionInv, SessionTypeOK
  <2>5. ~Session!Runs(sol) => SolEnded
    BY <2>1 DEF Session!Runs, SolEnded, SessionInv, SessionTypeOK, Spawned
  <2>6. Delivered' /\ Captured' /\ Spawned' /\ InputEnds'
    BY <1>1, <2>1, <2>3 DEF SessionInv, Delivered, Captured, Spawned, InputEnds, SolEnded
  <2>7. OutputEnds'
    BY <1>1, <2>1, <2>2, <2>3, <2>5 DEF SessionInv, OutputEnds, SolEnded, IntEnded
  <2> QED BY <2>4, <2>6, <2>7 DEF SessionInv
<1>4. CASE Session!IntSkip
  <2>1. PICK next \in {"write", "select"} :
           int.pc \in {"read", "write"} /\ int' = [int EXCEPT !.pc = next]
    BY <1>4 DEF Session!IntSkip, Session!NotReady
  <2>2. /\ int'.p = int.p /\ int'.captured = int.captured /\ int'.holds = int.holds
        /\ int'.pc = next
    BY <2>1 DEF SessionInv, SessionTypeOK
  <2>3. SessionTypeOK'
    BY <1>1, <2>1 DEF SessionInv, SessionTypeOK
  <2>4. Delivered' /\ Captured' /\ Spawned' /\ InputEnds' /\ OutputEnds'
    BY <1>1, <2>1, <2>2 DEF SessionInv, Delivered, Captured, Spawned, InputEnds, OutputEnds,
       SolEnded, IntEnded
  <2> QED BY <2>3, <2>4 DEF SessionInv
<1>5. CASE Session!IntEndOfFile
  <2>1. /\ int.pc = "read" /\ 0 \in int.ready /\ fromSol = <<>>
        /\ int' = [int EXCEPT !.pc = "save"]
    BY <1>5 DEF Session!IntEndOfFile
  <2>2. /\ int'.p = int.p /\ int'.captured = int.captured /\ int'.holds = int.holds
        /\ int'.pc = "save"
    BY <2>1 DEF SessionInv, SessionTypeOK
  <2>3. SessionTypeOK'
    BY <1>1, <2>1 DEF SessionInv, SessionTypeOK
  <2>4. Delivered' /\ Captured' /\ Spawned' /\ InputEnds' /\ OutputEnds'
    BY <1>1, <2>1, <2>2 DEF SessionInv, Delivered, Captured, Spawned, InputEnds, OutputEnds,
       SolEnded, IntEnded
  <2> QED BY <2>3, <2>4 DEF SessionInv
<1> QED BY <1>2, <1>3, <1>4, <1>5

LEMMA IntReadStep == ASSUME SessionInv, Session!IntRead PROVE SessionInv'
<1> DEFINE c == int.captured
<1>1. /\ int.pc = "read" /\ fromSol' = <<>>
      /\ int' = [int EXCEPT !.pc = "write", !.captured = c \o fromSol]
      /\ UNCHANGED <<runner, sol, input, toSol, output>>
  BY DEF Session!IntRead
<1>2. /\ int'.p = int.p /\ int'.captured = c \o fromSol /\ int'.holds = int.holds
      /\ int'.pc = "write"
  BY <1>1 DEF SessionInv, SessionTypeOK
<1>3. /\ c \in Seq(Nat) /\ fromSol \in Seq(Nat)
      /\ \A k \in 1..Len(c) : c[k] = k
      /\ \A k \in 1..Len(fromSol) : fromSol[k] = Len(c) + k
  BY DEF SessionInv, SessionTypeOK, Captured
<1>4. Len(c) + Len(fromSol) = Len(sol.sent)
  BY DEF SessionInv, Captured
<1> HIDE DEF c
<1>5. /\ c \o fromSol \in Seq(Nat) /\ Len(c \o fromSol) = Len(c) + Len(fromSol)
      /\ \A k \in 1..Len(c) + Len(fromSol) : (c \o fromSol)[k] = k
  <2>1. /\ c \o fromSol \in Seq(Nat) /\ Len(c \o fromSol) = Len(c) + Len(fromSol)
        /\ \A k \in 1..Len(c) : (c \o fromSol)[k] = c[k]
        /\ \A k \in 1..Len(fromSol) : (c \o fromSol)[Len(c)+k] = fromSol[k]
        /\ Len(c) \in Nat /\ Len(fromSol) \in Nat
    BY <1>3
  <2>2. ASSUME NEW k \in 1..Len(c) + Len(fromSol) PROVE (c \o fromSol)[k] = k
    <3>1. CASE k <= Len(c)
      BY <1>3, <2>1, <3>1
    <3>2. CASE k > Len(c)
      <4>1. k - Len(c) \in 1..Len(fromSol) /\ Len(c) + (k - Len(c)) = k
        BY <2>1, <3>2
      <4> QED BY <1>3, <2>1, <4>1
    <3> QED BY <2>1, <3>1, <3>2
  <2> QED BY <2>1, <2>2
<1>6. SessionTypeOK'
  <2>1. fromSol' \in Seq(Nat)
    BY <1>1
  <2> QED BY <1>1, <1>5, <2>1 DEF SessionInv, SessionTypeOK
<1>7. Captured'
  <2> DEFINE d == int'.captured
  <2>1. Len(d) = Len(sol.sent) /\ \A k \in 1..Len(d) : d[k] = k
    BY <1>2, <1>4, <1>5
  <2>2. Len(fromSol') = 0 /\ Len(d) \in Nat /\ \A k \in 1..Len(fromSol') : FALSE
    BY <1>1, <1>2, <1>3, <1>5
  <2>3. \A k \in 1..Len(sol.sent) : sol.sent[k] = k
    BY DEF SessionInv, Captured
  <2> DEFINE m == Len(d) + Len(fromSol')
  <2> HIDE DEF d
  <2>4. m = Len(sol.sent)
    BY <2>1, <2>2
  <2> HIDE DEF m
  <2> QED BY <1>1, <2>1, <2>2, <2>3, <2>4 DEF Captured, d, m
<1>8. Delivered' /\ Spawned' /\ InputEnds' /\ OutputEnds'
  BY <1>1, <1>2 DEF SessionInv, Delivered, Spawned, InputEnds, OutputEnds,
     SolEnded, IntEnded
<1> QED BY <1>6, <1>7, <1>8 DEF SessionInv

\* A write takes some bytes of what is left, into the pipe in their order.
LEMMA IntWriteStep == ASSUME SessionInv, Session!IntWrite PROVE SessionInv'
<1> DEFINE p == int.p
           L == Len(sol.got)
<1>0. /\ int.pc = "write" /\ Session!Runs(sol) /\ UNCHANGED <<runner, sol, input, fromSol, output>>
      /\ \E ww \in 0..Len(input)-p :
            /\ toSol' = toSol \o SubSeq(input, p + 1, p + ww)
            /\ int' = [int EXCEPT !.pc = "select", !.p = p + ww,
                                  !.holds = (ww < Len(input)-p)]
  BY DEF Session!IntWrite, Session!Remaining, Session!ToSolHasReader
<1>3. /\ p \in Nat /\ L \in Nat /\ Len(input) \in Nat /\ Len(toSol) \in Nat /\ p <= Len(input)
      /\ toSol \in Seq(Byte) /\ input \in Seq(Byte)
      /\ \A k \in 1..Len(toSol) : toSol[k] = input[L + k]
  BY DEF SessionInv, SessionTypeOK, Delivered
<1>1. PICK ww \in Nat, h \in BOOLEAN :
         /\ toSol' = toSol \o SubSeq(input, p + 1, p + ww)
         /\ int' = [int EXCEPT !.pc = "select", !.p = p + ww, !.holds = h]
         /\ p + ww <= Len(input) /\ (~h => p + ww = Len(input))
  <2>1. PICK ww \in 0..Len(input)-p :
            /\ toSol' = toSol \o SubSeq(input, p + 1, p + ww)
            /\ int' = [int EXCEPT !.pc = "select", !.p = p + ww,
                                  !.holds = (ww < Len(input)-p)]
    BY <1>0
  <2> DEFINE h == ww < Len(input)-p
  <2>2. ww \in Nat /\ p + ww <= Len(input) /\ (~h => p + ww = Len(input)) /\ h \in BOOLEAN
    BY <1>3
  <2> HIDE DEF h
  <2>3. int' = [int EXCEPT !.pc = "select", !.p = p + ww, !.holds = h]
    BY <2>1 DEF h
  <2> QED BY <2>1, <2>2, <2>3
<1>2. /\ int.pc = "write" /\ Session!Runs(sol) /\ UNCHANGED <<runner, sol, input, fromSol, output>>
  BY <1>0
<1> DEFINE b == SubSeq(input, p + 1, p + ww)
<1>4. L + Len(toSol) = p
  BY <1>2 DEF SessionInv, Delivered, SolEnded, Session!Runs
<1>5. ww \in Nat /\ p + ww \in Nat /\ p + ww <= Len(input)
  BY <1>1, <1>3
<1>6. /\ int'.p = p + ww /\ int'.captured = int.captured /\ int'.pc = "select"
      /\ (~int'.holds => int'.p = Len(input))
  <2>1. /\ int'.p = p + ww /\ int'.captured = int.captured /\ int'.pc = "select"
        /\ int'.holds = h
    BY <1>1 DEF SessionInv, SessionTypeOK
  <2> QED BY <1>1, <2>1
<1> HIDE DEF p, L
<1>7. b \in Seq(Byte) /\ Len(b) = ww /\ \A k \in 1..ww : b[k] = input[p + k]
  BY <1>3, <1>5
<1>8. toSol' = toSol \o b
  BY <1>1 DEF p
<1> HIDE DEF b
<1>9. /\ toSol' \in Seq(Byte) /\ Len(toSol') = Len(toSol) + ww
      /\ \A k \in 1..Len(toSol) : toSol'[k] = toSol[k]
      /\ \A k \in 1..ww : toSol'[Len(toSol)+k] = b[k]
      /\ Len(toSol') \in Nat
  <2>1. toSol \in Seq(Byte) /\ b \in Seq(Byte)
    BY <1>3, <1>7
  <2>2. /\ toSol \o b \in Seq(Byte) /\ Len(toSol \o b) = Len(toSol) + Len(b)
        /\ \A k \in 1..Len(toSol) : (toSol \o b)[k] = toSol[k]
        /\ \A k \in 1..Len(b) : (toSol \o b)[Len(toSol)+k] = b[k]
        /\ Len(toSol \o b) \in Nat
    BY ONLY <2>1
  <2> QED BY ONLY <1>7, <1>8, <2>2
<1>10. SessionTypeOK'
  BY <1>1, <1>2, <1>5, <1>9 DEF SessionInv, SessionTypeOK, p
<1>11. Delivered'
  <2>1. ASSUME NEW k \in 1..Len(toSol') PROVE toSol'[k] = input[L + k]
    <3>1. CASE k <= Len(toSol)
      BY <1>3, <1>9, <3>1
    <3>2. CASE k > Len(toSol)
      <4>1. k - Len(toSol) \in 1..ww /\ Len(toSol) + (k - Len(toSol)) = k
            /\ p + (k - Len(toSol)) = L + k
        <5> DEFINE z == Len(toSol)
        <5>1. k \in 1..z + ww /\ k > z /\ L + z = p
          BY <1>4, <1>9, <3>2
        <5>2. p \in Nat /\ L \in Nat /\ z \in Nat /\ ww \in Nat
          BY <1>3, <1>5
        <5> HIDE DEF z
        <5>3. k - z \in 1..ww /\ z + (k - z) = k /\ p + (k - z) = L + k
          BY ONLY <5>1, <5>2
        <5> QED BY ONLY <5>3 DEF z
      <4> QED BY <1>7, <1>9, <4>1
    <3> QED BY <1>3, <1>5, <1>9, <3>1, <3>2
  <2> DEFINE m == L + Len(toSol')
  <2>2. m = int'.p /\ m <= int'.p /\ int'.p <= Len(input)
    <3>1. Len(toSol') = Len(toSol) + ww /\ Len(toSol') \in Nat
      BY <1>9
    <3>2. int'.p = p + ww
      BY <1>6
    <3> QED BY ONLY <1>3, <1>4, <1>5, <3>1, <3>2
  <2> HIDE DEF m
  <2>3. \A k \in 1..L : sol.got[k] = input[k]
    BY DEF SessionInv, Delivered, L
  <2> QED BY <1>2, <2>1, <2>2, <2>3 DEF Delivered, m, L
<1>12. Captured' /\ Spawned' /\ InputEnds'
  BY <1>2, <1>6 DEF SessionInv, Captured, Spawned, InputEnds
<1>13. OutputEnds'
  BY <1>2, <1>6 DEF SessionInv, OutputEnds, SolEnded, IntEnded
<1> QED BY <1>10, <1>11, <1>12, <1>13 DEF SessionInv

LEMMA IntEndsStep ==
  ASSUME SessionInv, Session!IntWriteFails \/ Session!IntSave
  PROVE  SessionInv'
<1>1. CASE Session!IntWriteFails
  <2>1. /\ int.pc = "write" /\ ~Session!Runs(sol)
        /\ int' = [int EXCEPT !.pc = "select", !.p = Len(input), !.holds = FALSE]
        /\ UNCHANGED <<runner, sol, input, toSol, fromSol, output>>
    BY <1>1 DEF Session!IntWriteFails, Session!ToSolHasReader
  <2>2. SolEnded
    BY <2>1 DEF Session!Runs, SolEnded, SessionInv, SessionTypeOK, Spawned
  <2>3. /\ int'.p = Len(input) /\ int'.captured = int.captured /\ ~int'.holds
        /\ int'.pc = "select" /\ Len(input) \in Nat /\ int.p \in Nat
    BY <2>1 DEF SessionInv, SessionTypeOK
  <2>4. SessionTypeOK'
    BY <2>1, <2>3 DEF SessionInv, SessionTypeOK
  <2>5. Delivered'
    <3> DEFINE m == Len(sol.got) + Len(toSol)
    <3>1. m <= int.p /\ int.p <= Len(input) /\ m \in Nat
      BY DEF SessionInv, SessionTypeOK, Delivered
    <3> HIDE DEF m
    <3>2. m <= int'.p /\ int'.p <= Len(input)
      BY <2>3, <3>1
    <3> QED BY <2>1, <2>2, <3>2 DEF SessionInv, Delivered, SolEnded, m
  <2>6. Captured' /\ Spawned' /\ InputEnds' /\ OutputEnds'
    BY <2>1, <2>2, <2>3 DEF SessionInv, Captured, Spawned, InputEnds, OutputEnds,
       SolEnded, IntEnded
  <2> QED BY <2>4, <2>5, <2>6 DEF SessionInv
<1>2. CASE Session!IntSave
  <2>1. /\ int.pc = "save" /\ UNCHANGED <<runner, sol, input, toSol, fromSol>>
        /\ \/ output' = int.captured /\ int' = [int EXCEPT !.pc = "exit", !.holds = FALSE]
           \/ int' = [int EXCEPT !.pc = "failed", !.holds = FALSE] /\ output' = output
    BY <1>2 DEF Session!IntSave
  <2>2. /\ int'.p = int.p /\ int'.captured = int.captured
        /\ \/ int'.pc = "exit" /\ output' = int.captured
           \/ int'.pc = "failed" /\ output' = output
    BY <2>1 DEF SessionInv, SessionTypeOK
  <2>3. SessionTypeOK'
    BY <2>1 DEF SessionInv, SessionTypeOK
  <2>4. Delivered' /\ Captured' /\ Spawned' /\ InputEnds' /\ OutputEnds'
    BY <2>1, <2>2 DEF SessionInv, Delivered, Captured, Spawned, InputEnds, OutputEnds,
       SolEnded, IntEnded
  <2> QED BY <2>3, <2>4 DEF SessionInv
<1> QED BY <1>1, <1>2

-----------------------------------------------------------------------------
\* run_solution.

LEMMA SpawnStep ==
  ASSUME SessionInv, Session!SpawnSolution \/ Session!SpawnInteractor
                     \/ Session!SpawnFails \/ Session!CloseEnds
  PROVE  SessionInv'
<1>1. CASE Session!SpawnSolution
  <2>1. /\ runner.pc = "spawnSolution"
        /\ runner' = [runner EXCEPT !.pc = "spawnInteractor", !.holds = TRUE]
        /\ sol' = [sol EXCEPT !.pc = "read"]
        /\ UNCHANGED <<int, input, toSol, fromSol, output>>
    BY <1>1 DEF Session!SpawnSolution
  <2>2. /\ runner'.pc = "spawnInteractor" /\ runner'.holds
        /\ sol'.pc = "read" /\ sol'.got = sol.got /\ sol'.sent = sol.sent /\ sol'.plan = sol.plan
    BY <2>1 DEF SessionInv, SessionTypeOK
  <2>3. SessionTypeOK'
    BY <2>1 DEF SessionInv, SessionTypeOK
  <2>4. sol.pc = "absent" /\ int.pc = "absent"
    BY <2>1 DEF SessionInv, Spawned
  <2>5. Delivered' /\ Captured' /\ Spawned' /\ InputEnds' /\ OutputEnds'
    BY <2>1, <2>2, <2>4 DEF SessionInv, Delivered, Captured, Spawned, InputEnds, OutputEnds,
       SolEnded, IntEnded
  <2> QED BY <2>3, <2>5 DEF SessionInv
<1>2. CASE Session!SpawnInteractor
  <2>1. /\ runner.pc = "spawnInteractor"
        /\ runner' = [runner EXCEPT !.pc = "close"]
        /\ int' = [int EXCEPT !.pc = "start", !.holds = TRUE]
        /\ UNCHANGED <<sol, input, toSol, fromSol, output>>
    BY <1>2 DEF Session!SpawnInteractor
  <2>2. /\ runner'.pc = "close" /\ runner'.holds = runner.holds
        /\ int'.pc = "start" /\ int'.holds /\ int'.p = int.p /\ int'.captured = int.captured
    BY <2>1 DEF SessionInv, SessionTypeOK
  <2>3. SessionTypeOK'
    BY <2>1 DEF SessionInv, SessionTypeOK
  <2>4. int.pc = "absent"
    BY <2>1 DEF SessionInv, Spawned
  <2>5. Delivered' /\ Captured' /\ Spawned' /\ InputEnds' /\ OutputEnds'
    BY <2>1, <2>2, <2>4 DEF SessionInv, Delivered, Captured, Spawned, InputEnds, OutputEnds,
       SolEnded, IntEnded
  <2> QED BY <2>3, <2>5 DEF SessionInv
<1>3. CASE Session!SpawnFails
  <2>1. /\ runner.pc \in {"spawnSolution", "spawnInteractor"}
        /\ runner' = [runner EXCEPT !.pc = "raised", !.holds = FALSE]
        /\ sol' = [sol EXCEPT !.pc = IF Session!Runs(sol) THEN "terminated" ELSE sol.pc]
        /\ UNCHANGED <<int, input, toSol, fromSol, output>>
    BY <1>3 DEF Session!SpawnFails
  <2>2. /\ runner'.pc = "raised" /\ ~runner'.holds
        /\ sol'.pc = IF Session!Runs(sol) THEN "terminated" ELSE sol.pc
        /\ sol'.got = sol.got /\ sol'.sent = sol.sent /\ sol'.plan = sol.plan
    BY <2>1 DEF SessionInv, SessionTypeOK
  <2>3. SessionTypeOK'
    BY <2>1 DEF SessionInv, SessionTypeOK, Session!Runs
  <2>4. int.pc = "absent"
    BY <2>1 DEF SessionInv, Spawned
  <2>5. Delivered' /\ Captured' /\ Spawned' /\ InputEnds' /\ OutputEnds'
    BY <2>1, <2>2, <2>4 DEF SessionInv, Delivered, Captured, Spawned, InputEnds, OutputEnds,
       SolEnded, IntEnded, Session!Runs
  <2> QED BY <2>3, <2>5 DEF SessionInv
<1>4. CASE Session!CloseEnds
  <2>1. /\ runner.pc = "close" /\ runner' = [runner EXCEPT !.pc = "wait", !.holds = FALSE]
        /\ UNCHANGED <<sol, int, input, toSol, fromSol, output>>
    BY <1>4 DEF Session!CloseEnds
  <2>2. runner'.pc = "wait" /\ ~runner'.holds
    BY <2>1 DEF SessionInv, SessionTypeOK
  <2>3. SessionTypeOK'
    BY <2>1 DEF SessionInv, SessionTypeOK
  <2>4. Delivered' /\ Captured' /\ Spawned' /\ InputEnds' /\ OutputEnds'
    BY <2>1, <2>2 DEF SessionInv, Delivered, Captured, Spawned, InputEnds, OutputEnds,
       SolEnded, IntEnded
  <2> QED BY <2>3, <2>4 DEF SessionInv
<1> QED BY <1>1, <1>2, <1>3, <1>4

LEMMA AllCaptured ==
  ASSUME SessionInv, fromSol = <<>>
  PROVE  int.captured = sol.sent
<1> DEFINE c == int.captured
           s == sol.sent
<1>1. /\ c \in Seq(Nat) /\ s \in Seq(Nat)
      /\ \A k \in 1..Len(s) : s[k] = k
      /\ \A k \in 1..Len(c) : c[k] = k
  BY DEF SessionInv, SessionTypeOK, Captured
<1>2. Len(c) + Len(fromSol) = Len(s) /\ Len(fromSol) = 0
  BY DEF SessionInv, Captured
<1> HIDE DEF c, s
<1>3. Len(c) = Len(s)
  BY <1>1, <1>2
<1> QED BY <1>1, <1>3 DEF c, s

LEMMA FinishStep == ASSUME SessionInv, Session!Finish PROVE SessionInv'
<1>1. /\ runner.pc = "wait" /\ ~Session!Runs(sol) /\ ~Session!Runs(int)
      /\ UNCHANGED <<sol, int, input, toSol, fromSol, output>>
      /\ \/ runner' = [runner EXCEPT !.pc = "raised"]
         \/ output # Missing /\ runner' = [runner EXCEPT !.pc = "done", !.result = output]
  BY DEF Session!Finish
<1>2. SolEnded /\ IntEnded
  BY <1>1 DEF Session!Runs, SolEnded, IntEnded, SessionInv, SessionTypeOK, Spawned
<1>3. CASE runner' = [runner EXCEPT !.pc = "raised"]
  <2>1. runner'.pc = "raised" /\ runner'.holds = runner.holds
    BY <1>3 DEF SessionInv, SessionTypeOK
  <2>2. SessionTypeOK'
    BY <1>1, <1>3 DEF SessionInv, SessionTypeOK
  <2>3. Delivered' /\ Captured' /\ Spawned' /\ InputEnds' /\ OutputEnds'
    BY <1>1, <2>1 DEF SessionInv, Delivered, Captured, Spawned, InputEnds, OutputEnds,
       SolEnded, IntEnded
  <2> QED BY <2>2, <2>3 DEF SessionInv
<1>4. CASE output # Missing /\ runner' = [runner EXCEPT !.pc = "done", !.result = output]
  <2>1. /\ runner'.pc = "done" /\ runner'.holds = runner.holds /\ runner'.result = output
    BY <1>4 DEF SessionInv, SessionTypeOK
  <2>2. SessionTypeOK'
    BY <1>1, <1>4 DEF SessionInv, SessionTypeOK
  <2>3. output = sol.sent
    BY <1>4, AllCaptured DEF SessionInv, OutputEnds
  <2>4. Delivered' /\ Captured' /\ Spawned' /\ InputEnds' /\ OutputEnds'
    BY <1>1, <1>2, <2>1, <2>3 DEF SessionInv, Delivered, Captured, Spawned, InputEnds,
       OutputEnds, SolEnded, IntEnded
  <2> QED BY <2>2, <2>4 DEF SessionInv
<1> QED BY <1>1, <1>3, <1>4

LEMMA SessionStutter ==
  ASSUME SessionInv, UNCHANGED sessionVars
  PROVE  SessionInv'
  BY DEF sessionVars, SessionInv, SessionTypeOK, Delivered, Captured, Spawned, InputEnds,
     OutputEnds, SolEnded, IntEnded

LEMMA SessionStep ==
  ASSUME SessionInv, Session!TestRunner \/ Session!Solution \/ Session!Interactor
  PROVE  SessionInv'
<1>1. CASE Session!TestRunner
  BY <1>1, SpawnStep, FinishStep DEF Session!TestRunner
<1>2. CASE Session!Solution
  BY <1>2, SolReadStep, SolEndOfInputStep, SolWriteStep, SolEndsStep DEF Session!Solution
<1>3. CASE Session!Interactor
  BY <1>3, IntQuietStep, IntReadStep, IntWriteStep, IntEndsStep DEF Session!Interactor
<1> QED BY <1>1, <1>2, <1>3

LEMMA SessionInputIntact == ASSUME SessionInv PROVE InputIntact
<1> DEFINE g == sol.got
           n == Len(g) + Len(toSol)
<1>1. /\ g \in Seq(Byte) /\ toSol \in Seq(Byte) /\ input \in Seq(Byte) /\ int.p \in Nat
      /\ \A k \in 1..Len(g) : g[k] = input[k]
      /\ \A k \in 1..Len(toSol) : toSol[k] = input[Len(g) + k]
  BY DEF SessionInv, SessionTypeOK, Delivered
<1>2. n <= int.p /\ int.p <= Len(input)
  BY DEF SessionInv, Delivered
<1>3. sol.pc = "tail" /\ int.pc # "failed" => Len(g) = Len(input) \/ Len(g) = sol.plan.limit
  BY DEF SessionInv, InputEnds
<1> HIDE DEF g
<1>4. Len(g) \in Nat /\ Len(toSol) \in Nat /\ n \in Nat /\ Len(input) \in Nat /\ n <= Len(input)
  BY <1>1, <1>2
<1>5. g \o toSol = SubSeq(input, 1, n)
  <2>1. /\ g \o toSol \in Seq(Byte) /\ Len(g \o toSol) = n
        /\ \A k \in 1..Len(g) : (g \o toSol)[k] = g[k]
        /\ \A k \in 1..Len(toSol) : (g \o toSol)[Len(g)+k] = toSol[k]
    BY <1>1
  <2>2. ASSUME NEW k \in 1..n PROVE (g \o toSol)[k] = input[k]
    <3>1. CASE k <= Len(g)
      BY <1>1, <1>4, <2>1, <3>1
    <3>2. CASE k > Len(g)
      <4>1. k - Len(g) \in 1..Len(toSol) /\ Len(g) + (k - Len(g)) = k
        BY <1>4, <3>2
      <4> QED BY <1>1, <2>1, <4>1
    <3> QED BY <1>4, <3>1, <3>2
  <2> DEFINE t == SubSeq(input, 1, n)
  <2>3. t \in Seq(Byte) /\ Len(t) = n /\ \A k \in 1..n : t[k] = input[k]
    <3> HIDE DEF n
    <3> QED BY <1>1, <1>4
  <2> DEFINE u == g \o toSol
  <2> HIDE DEF t, u, n
  <2>4. u \in Seq(Byte) /\ Len(u) = n /\ \A k \in 1..n : u[k] = input[k]
    BY <2>1, <2>2 DEF u
  <2>5. u = t
    BY <1>4, <2>3, <2>4
  <2> QED BY <2>5 DEF t, u
<1>6. Len(g) = Len(input) => g = input
  BY <1>1
<1> QED BY <1>3, <1>5, <1>6 DEF InputIntact, Session!InputIntact, g

-----------------------------------------------------------------------------
\* The invariant of the judge.

Fault(kind) == <<round, test, kind>> \in faults

\* Every fault is of this test or of an earlier one.
FaultsInOrder ==
    /\ round \in Nat /\ test \in Nat /\ pc \in Steps
    /\ \A f \in faults : \E r \in Nat, t \in Nat, kind \in Kinds :
          /\ f = <<r, t, kind>>
          /\ r < round \/ (r = round /\ t <= test)
    /\ pc \in {"begin", "run"} => \A kind : ~Fault(kind)

\* What the judge has found of this session so far.
Verdict ==
    /\ pc \in {"check", "time", "answer"} =>
          /\ runner.pc = "done" /\ ~Fault("run")
          /\ Fault("code") <=> sol.pc # "exit"
    /\ pc = "check" => ~Fault("output")
    /\ pc \in {"time", "answer"} => (Fault("output") <=> sol.sent # Answer)
    /\ Fault("output") => runner.pc = "done" /\ sol.sent # Answer

IInv == SessionInv /\ FaultsInOrder /\ Verdict

LEMMA InitIInv == JudgeInit => IInv
<1> SUFFICES ASSUME JudgeInit PROVE IInv
  OBVIOUS
<1>1. SessionInv
  <2>1. Fresh
    BY DEF JudgeInit, Session!Init, Fresh
  <2> QED BY <2>1, NewSession
<1>2. FaultsInOrder /\ Verdict
  BY DEF JudgeInit, Init, FaultsInOrder, Verdict, Fault, Steps
<1> QED BY <1>1, <1>2 DEF IInv

\* The session goes on: when it is done nothing in it changes any more.
LEMMA SessionGoesOn ==
  ASSUME IInv, RunnerStep \/ SolutionStep \/ InteractorStep
  PROVE  IInv'
<1>1. UNCHANGED vars /\ (Session!TestRunner \/ Session!Solution \/ Session!Interactor)
  BY DEF RunnerStep, SolutionStep, InteractorStep, Started
<1>2. SessionInv'
  BY <1>1, SessionStep DEF IInv
<1>3. runner.pc = "done" => runner'.pc = "done" /\ sol' = sol /\ input' = input
  <2> SUFFICES ASSUME runner.pc = "done"
               PROVE  runner'.pc = "done" /\ sol' = sol /\ input' = input
    OBVIOUS
  <2>1. sol.pc \in {"exit", "killed"} /\ int.pc \in {"exit", "failed"}
    BY DEF IInv, SessionInv, OutputEnds, SolEnded, IntEnded
  <2>2. ~Session!TestRunner
    BY DEF Session!TestRunner, Session!SpawnSolution, Session!SpawnInteractor,
       Session!SpawnFails, Session!CloseEnds, Session!Finish
  <2>3. ~Session!Solution
    BY <2>1 DEF Session!Solution, Session!SolRead, Session!SolEndOfInput, Session!SolWrite,
       Session!SolExit, Session!SolTerminated
  <2>4. ~Session!Interactor
    BY <2>1 DEF Session!Interactor, Session!IntStart, Session!IntSelect, Session!IntSkip,
       Session!NotReady, Session!IntRead, Session!IntEndOfFile, Session!IntWrite,
       Session!IntWriteFails, Session!IntSave
  <2> QED BY <1>1, <2>2, <2>3, <2>4
<1>4. FaultsInOrder' /\ Verdict'
  BY <1>1, <1>3 DEF vars, IInv, FaultsInOrder, Verdict, Fault, Answer
<1> QED BY <1>2, <1>4 DEF IInv

LEMMA BeginTestStep == ASSUME IInv, BeginTest PROVE IInv'
<1>1. /\ pc = "begin" /\ pc' \in {"run", "raised"} /\ UNCHANGED <<round, test, faults>>
  BY DEF BeginTest, Enter
<1>2. SessionInv'
  <2>1. Fresh'
    <3>1. runner' \in {Session!NewTest(m) : m \in BOOLEAN}
      <4> DEFINE may == test \in MayFail
      <4>1. may \in BOOLEAN /\ runner' = Session!NewTest(may)
        BY DEF BeginTest, BeginSession
      <4> HIDE DEF may
      <4> QED BY <4>1
    <3> QED BY <3>1 DEF BeginTest, BeginSession, Fresh
  <2>2. Fresh' => SessionInv'
    BY NewSession, PTL
  <2> QED BY <2>1, <2>2
<1>3. FaultsInOrder' /\ Verdict'
  BY <1>1 DEF IInv, FaultsInOrder, Verdict, Fault, Steps
<1> QED BY <1>2, <1>3 DEF IInv

\* One more fault, of this test.
LEMMA NewFault ==
  ASSUME FaultsInOrder, NEW kind \in Kinds, faults' = faults \cup {<<round, test, kind>>},
         UNCHANGED <<round, test>>, pc' \in Steps \ {"begin", "run"}
  PROVE  /\ FaultsInOrder' /\ Fault(kind)'
         /\ \A other \in Kinds : other # kind => (Fault(other)' <=> Fault(other))
<1>1. \A other : <<round, test, other>> \in faults'
                    <=> <<round, test, other>> \in faults \/ other = kind
  OBVIOUS
<1>2. FaultsInOrder'
  BY DEF FaultsInOrder
<1> QED BY <1>1, <1>2 DEF Fault

LEMMA SessionRaisedStep == ASSUME IInv, SessionRaised PROVE IInv'
<1>1. /\ faults' = faults \cup {<<round, test, "run">>} /\ pc' = "raised"
      /\ UNCHANGED <<round, test, sessionVars>> /\ pc = "run"
  BY DEF SessionRaised, RunRaises, Leave, Stop, StopFails
<1>2. FaultsInOrder' /\ (Fault("output")' <=> Fault("output"))
  BY <1>1, NewFault DEF IInv, Kinds, Steps
<1>3. SessionInv'
  BY <1>1, SessionStutter DEF IInv
<1>4. Verdict'
  BY <1>1, <1>2 DEF IInv, FaultsInOrder, Verdict
<1> QED BY <1>2, <1>3, <1>4 DEF IInv

LEMMA SessionDoneStep == ASSUME IInv, SessionDone PROVE IInv'
<1>1. /\ pc = "run" /\ runner.pc = "done" /\ (sol.pc = "exit" <=> faults' = faults)
      /\ UNCHANGED <<round, test, runner, sol, int, input, toSol, fromSol, output>>
      /\ \/ pc' = "check" /\ faults' = faults
         \/ faults' = faults \cup {<<round, test, "code">>} /\ pc' \in {"check", "raised"}
  BY DEF SessionDone, SolutionEnds, Leave, Stop, StopFails, sessionVars
<1>2. SessionInv'
  BY <1>1, SessionStutter DEF IInv, sessionVars
<1>3. \A kind : ~Fault(kind)
  BY <1>1 DEF IInv, FaultsInOrder
<1>4. CASE pc' = "check" /\ faults' = faults
  BY <1>1, <1>2, <1>3, <1>4 DEF IInv, FaultsInOrder, Verdict, Fault, Steps
<1>5. CASE faults' = faults \cup {<<round, test, "code">>} /\ pc' \in {"check", "raised"}
  <2>1. sol.pc # "exit"
    BY <1>1, <1>3, <1>5 DEF Fault
  <2>2. /\ FaultsInOrder' /\ Fault("code")'
        /\ \A other \in Kinds : other # "code" => (Fault(other)' <=> Fault(other))
    BY <1>1, <1>5, NewFault DEF IInv, Kinds, Steps
  <2>3. ~Fault("run")' /\ ~Fault("output")'
    BY <1>3, <2>2 DEF Kinds
  <2>4. Verdict'
    BY <1>1, <1>5, <2>1, <2>2, <2>3 DEF Verdict
  <2> QED BY <1>2, <2>2, <2>4 DEF IInv
<1> QED BY <1>1, <1>4, <1>5

LEMMA CompareStep == ASSUME IInv, Compare PROVE IInv'
<1>1. /\ pc = "check"
      /\ UNCHANGED <<round, test, runner, sol, int, input, toSol, fromSol, output>>
      /\ \/ runner.result = Answer /\ faults' = faults /\ pc' \in {"time", "raised"}
         \/ /\ runner.result # Answer /\ pc' \in {"time", "raised"}
            /\ faults' = faults \cup {<<round, test, "output">>}
  BY DEF Compare, Accepted, Rejected, Leave, Stop, StopFails, sessionVars
<1>2. SessionInv'
  BY <1>1, SessionStutter DEF IInv, sessionVars
<1>3. /\ runner.pc = "done" /\ ~Fault("run") /\ ~Fault("output")
      /\ Fault("code") <=> sol.pc # "exit"
  BY <1>1 DEF IInv, Verdict
<1>4. runner.result = sol.sent
  BY <1>3 DEF IInv, SessionInv, OutputEnds
<1>5. Answer' = Answer
  BY <1>1 DEF Answer
<1>6. CASE runner.result = Answer /\ faults' = faults /\ pc' \in {"time", "raised"}
  <2>1. \A kind : Fault(kind)' <=> Fault(kind)
    BY <1>1, <1>6 DEF Fault
  <2>2. FaultsInOrder'
    BY <1>1, <1>6 DEF IInv, FaultsInOrder, Steps
  <2>3. Verdict'
    BY <1>1, <1>3, <1>4, <1>5, <1>6, <2>1 DEF Verdict
  <2> QED BY <1>2, <2>2, <2>3 DEF IInv
<1>7. CASE /\ runner.result # Answer /\ pc' \in {"time", "raised"}
           /\ faults' = faults \cup {<<round, test, "output">>}
  <2>1. /\ FaultsInOrder' /\ Fault("output")'
        /\ \A other \in Kinds : other # "output" => (Fault(other)' <=> Fault(other))
    BY <1>1, <1>7, NewFault DEF IInv, Kinds, Steps
  <2>2. (Fault("run")' <=> Fault("run")) /\ (Fault("code")' <=> Fault("code"))
    BY <2>1 DEF Kinds
  <2>3. Verdict'
    BY <1>1, <1>3, <1>4, <1>5, <1>7, <2>1, <2>2 DEF Verdict
  <2> QED BY <1>2, <2>1, <2>3 DEF IInv
<1> QED BY <1>1, <1>6, <1>7

LEMMA ElsewhereStep == ASSUME IInv, Elsewhere PROVE IInv'
<1>1. UNCHANGED <<runner, sol, int, input, toSol, fromSol, output>>
  BY DEF Elsewhere, sessionVars
<1>2. SessionInv'
  BY <1>1, SessionStutter DEF IInv, sessionVars
<1>3. Answer' = Answer
  BY <1>1 DEF Answer
<1>4. CASE BadTest \/ InTime \/ Pass
  <2>1. /\ UNCHANGED <<round, test, faults>>
        /\ \/ pc = "begin" /\ pc' = "raised"
           \/ pc = "time" /\ pc' = "answer"
           \/ pc = "answer" /\ pc' = "passed"
    BY <1>4 DEF BadTest, InTime, Pass, GoTo
  <2>2. FaultsInOrder' /\ Verdict'
    BY <1>1, <1>3, <2>1 DEF IInv, FaultsInOrder, Verdict, Fault, Steps
  <2> QED BY <1>2, <2>2 DEF IInv
<1>5. CASE TooSlow
  <2>1. /\ pc = "time" /\ pc' \in {"raised", "answer"} /\ UNCHANGED <<round, test>>
        /\ faults' = faults \cup {<<round, test, "time">>}
    BY <1>5 DEF TooSlow
  <2>2. /\ FaultsInOrder'
        /\ \A other \in Kinds : other # "time" => (Fault(other)' <=> Fault(other))
    BY <2>1, NewFault DEF IInv, Kinds, Steps
  <2>3. /\ (Fault("run")' <=> Fault("run")) /\ (Fault("code")' <=> Fault("code"))
        /\ (Fault("output")' <=> Fault("output"))
    BY <2>2 DEF Kinds
  <2>4. Verdict'
    BY <1>1, <1>3, <2>1, <2>3 DEF IInv, Verdict
  <2> QED BY <1>2, <2>2, <2>4 DEF IInv
<1>6. CASE NextTest \/ NextRound
  <2>1. /\ pc' = "begin" /\ faults' = faults /\ round' \in Nat /\ test' \in Nat
        /\ (round' = round /\ test < test') \/ round < round'
    BY <1>6 DEF NextTest, NextRound, IInv, FaultsInOrder
  <2>2. \A r, t \in Nat : r < round \/ (r = round /\ t <= test)
           => r < round' \/ (r = round' /\ t < test')
    BY <2>1 DEF IInv, FaultsInOrder
  <2>3. ASSUME NEW f \in faults
        PROVE  \E r \in Nat, t \in Nat, kind \in Kinds :
                  /\ f = <<r, t, kind>>
                  /\ r < round' \/ (r = round' /\ t < test')
    <3>1. PICK r \in Nat, t \in Nat, kind \in Kinds :
             f = <<r, t, kind>> /\ (r < round \/ (r = round /\ t <= test))
      BY DEF IInv, FaultsInOrder
    <3> QED BY <2>2, <3>1
  <2>4. \A kind : ~Fault(kind)'
    BY <2>1, <2>3 DEF Fault
  <2>5. FaultsInOrder'
    BY <2>1, <2>3, <2>4 DEF FaultsInOrder, Steps
  <2>6. Verdict'
    BY <2>1, <2>4 DEF Verdict
  <2> QED BY <1>2, <2>5, <2>6 DEF IInv
<1> QED BY <1>4, <1>5, <1>6 DEF Elsewhere

LEMMA StepIInv == ASSUME IInv, [JudgeNext]_allVars PROVE IInv'
<1>1. CASE Judge
  BY <1>1, BeginTestStep, SessionRaisedStep, SessionDoneStep, CompareStep, ElsewhereStep
     DEF Judge
<1>2. CASE RunnerStep \/ SolutionStep \/ InteractorStep
  BY <1>2, SessionGoesOn
<1>3. CASE UNCHANGED allVars
  <2>1. SessionInv'
    BY <1>3, SessionStutter DEF IInv, allVars
  <2>2. FaultsInOrder' /\ Verdict'
    BY <1>3 DEF IInv, allVars, vars, sessionVars, FaultsInOrder, Verdict, Fault, Answer
  <2> QED BY <2>1, <2>2 DEF IInv
<1> QED BY <1>1, <1>2, <1>3 DEF JudgeNext

\* What is on its way in a session is what was sent, and the judge's faults are
\* those of the session it has seen.
THEOREM Invariant == JudgeSpec => []IInv
<1>1. IInv /\ [JudgeNext]_allVars => IInv'
  BY StepIInv
<1> QED BY InitIInv, <1>1, PTL DEF JudgeSpec

\* The solution reads the test's input, in order, and its end only at its end.
THEOREM SolutionReadsInput == JudgeSpec => []InputIntact
<1>1. IInv => InputIntact
  BY SessionInputIntact DEF IInv
<1> QED BY <1>1, Invariant, PTL

\* A test passes exactly if this session's solution wrote the right answer.
THEOREM VerdictsAreRight == JudgeSpec => []RightlyJudged
<1>1. IInv => RightlyJudged
  BY DEF IInv, Verdict, RightlyJudged, Fault
<1> QED BY <1>1, Invariant, PTL
=============================================================================
