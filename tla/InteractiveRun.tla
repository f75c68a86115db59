--------------------------- MODULE InteractiveRun ---------------------------
(* One interactive test: run_solution of nejudge/test.py starts the solution *)
(* and the interactor of tasks/files/read-file-fd over two pipes, closes its *)
(* own ends, waits for both and reads the file the interactor leaves.        *)
(* Three processes run concurrently.  The solution is any program that reads *)
(* some of its input, answers as it goes, adds a last answer and exits.      *)
EXTENDS Integers, Sequences

CONSTANTS Byte,
          Inputs,     \* the test's input: sequences of bytes
          Plans,      \* what solutions do: [limit, echo, tail], see below
          PipeSize,   \* the capacity of a pipe
          Missing     \* a file that is not there

InteractiveAssumption ==
    /\ Inputs \subseteq Seq(Byte)
    /\ PipeSize \in Nat \ {0}
    /\ Plans \subseteq [limit : Nat, echo : Nat, tail : Nat]

VARIABLES
    test,     \* test.py: [pc, mayFail, holds (its pipe ends are open), result]
    sol,      \* the solution: [pc, plan, owed (bytes to write), got, sent]
    int,      \* the interactor: [pc, p (bytes written), ready, captured, holds]
    input,
    toSol, fromSol,   \* the contents of the two pipes
    output    \* the file 'output' of the run directory, made anew for the test

vars == <<test, sol, int, input, toSol, fromSol, output>>

\* The processes before they are started.
NewTest(m) == [pc |-> "spawnSolution", mayFail |-> m, holds |-> FALSE, result |-> Missing]
NewSol(plan) == [pc |-> "absent", plan |-> plan, owed |-> 0, got |-> <<>>, sent |-> <<>>]
NewInt == [pc |-> "absent", p |-> 0, ready |-> {}, captured |-> <<>>, holds |-> FALSE]

Init ==
    /\ input \in Inputs /\ output = Missing
    /\ test \in {NewTest(m) : m \in BOOLEAN}
    /\ sol \in {NewSol(plan) : plan \in Plans}
    /\ int = NewInt
    /\ toSol = <<>> /\ fromSol = <<>>

\* A pipe's ends as the kernel sees them.  int.holds: the interactor has its
\* writing end open; its reading end stays open until it exits.
Runs(process) == process.pc \notin {"absent", "exit", "failed", "killed"}
ToSolHasWriter == test.holds \/ int.holds
ToSolHasReader == Runs(sol)
FromSolHasWriter == Runs(sol)
FromSolHasReader == test.holds \/ Runs(int)

-----------------------------------------------------------------------------
(* The solution.  It reads until the end of its input or until it has read   *)
(* limit bytes (an injected failure), owes echo bytes of answer for each     *)
(* byte, then tail bytes more.  An answer is the sequence 1, 2, 3...         *)

SolRead(n) ==
    /\ sol.pc = "read" /\ sol.owed = 0 /\ n <= Len(toSol)
    /\ Len(sol.got) + n <= sol.plan.limit
    /\ sol' = [sol EXCEPT !.got = @ \o SubSeq(toSol, 1, n), !.owed = sol.plan.echo * n]
    /\ toSol' = SubSeq(toSol, n + 1, Len(toSol))
    /\ UNCHANGED <<test, int, input, fromSol, output>>

SolEndOfInput ==
    /\ sol.pc = "read" /\ sol.owed = 0
    /\ Len(sol.got) = sol.plan.limit \/ (toSol = <<>> /\ ~ToSolHasWriter)
    /\ sol' = [sol EXCEPT !.pc = "tail", !.owed = sol.plan.tail]
    /\ UNCHANGED <<test, int, input, toSol, fromSol, output>>

\* A write to a pipe nobody reads kills it; a full pipe makes it wait.
SolWrite ==
    /\ sol.pc \in {"read", "tail"} /\ sol.owed > 0
    /\ IF FromSolHasReader
       THEN LET byte == Len(sol.sent) + 1
            IN  /\ Len(fromSol) < PipeSize
                /\ fromSol' = Append(fromSol, byte)
                /\ sol' = [sol EXCEPT !.owed = @ - 1, !.sent = Append(@, byte)]
       ELSE sol' = [sol EXCEPT !.pc = "killed"] /\ UNCHANGED fromSol
    /\ UNCHANGED <<test, int, input, toSol, output>>

SolExit ==
    /\ sol.pc = "tail" /\ sol.owed = 0
    /\ sol' = [sol EXCEPT !.pc = "exit"]
    /\ UNCHANGED <<test, int, input, toSol, fromSol, output>>

\* SIGTERM arrives.
SolTerminated ==
    /\ sol.pc = "terminated"
    /\ sol' = [sol EXCEPT !.pc = "killed"]
    /\ UNCHANGED <<test, int, input, toSol, fromSol, output>>

Solution == (\E n \in 1..PipeSize : SolRead(n)) \/ SolEndOfInput \/ SolWrite \/ SolExit
            \/ SolTerminated

-----------------------------------------------------------------------------
(* The interactor's main. *)

Remaining == Len(input) - int.p     \* r

\* It reads the whole input file; an empty one closes its output at once.  An
\* error ends it with code 6.
IntStart ==
    /\ int.pc = "start"
    /\ \/ int' = [int EXCEPT !.pc = "select", !.holds = (input # <<>>)]
       \/ int' = [int EXCEPT !.pc = "failed", !.holds = FALSE]
    /\ UNCHANGED <<test, sol, input, toSol, fromSol, output>>

\* select returns once a descriptor is ready: 0 with bytes or at end of file,
\* 1, only while bytes remain, with room or without a reader.
IntSelect ==
    /\ int.pc = "select"
    /\ LET readable == {fd \in {0} : fromSol # <<>> \/ ~FromSolHasWriter}
           writable == {fd \in {1} : /\ int.holds
                                     /\ Len(toSol) < PipeSize \/ ~ToSolHasReader}
       IN  /\ readable \cup writable # {}
           /\ int' = [int EXCEPT !.pc = "read", !.ready = readable \cup writable]
    /\ UNCHANGED <<test, sol, input, toSol, fromSol, output>>

\* After select either descriptor may be left alone.
NotReady(fd, step, next) ==
    /\ int.pc = step /\ fd \notin int.ready
    /\ int' = [int EXCEPT !.pc = next]
    /\ UNCHANGED <<test, sol, input, toSol, fromSol, output>>

IntSkip == NotReady(0, "read", "write") \/ NotReady(1, "write", "select")

\* Everything in the pipe goes into memory.
IntRead ==
    /\ int.pc = "read" /\ 0 \in int.ready /\ fromSol # <<>>
    /\ int' = [int EXCEPT !.pc = "write", !.captured = @ \o fromSol]
    /\ fromSol' = <<>>
    /\ UNCHANGED <<test, sol, input, toSol, output>>

\* The end of file leaves the loop.
IntEndOfFile ==
    /\ int.pc = "read" /\ 0 \in int.ready /\ fromSol = <<>>
    /\ int' = [int EXCEPT !.pc = "save"]
    /\ UNCHANGED <<test, sol, input, toSol, fromSol, output>>

\* Mutated: a short write is taken for a whole one.
IntWriteOnce ==
    /\ int.pc = "write" /\ 1 \in int.ready /\ ToSolHasReader
    /\ \E ww \in 0..Remaining :
          /\ Len(toSol) + ww <= PipeSize
          /\ ww = 0 => Len(toSol) = PipeSize
          /\ toSol' = toSol \o SubSeq(input, int.p + 1, int.p + ww)
    /\ int' = [int EXCEPT !.pc = "select", !.p = Len(input), !.holds = FALSE]
    /\ UNCHANGED <<test, sol, input, fromSol, output>>

\* A write that does not block takes some bytes, or none (EAGAIN).  After the
\* last one the pipe is closed.
IntWrite ==
    /\ int.pc = "write" /\ 1 \in int.ready /\ ToSolHasReader
    /\ \E ww \in 0..Remaining :
          /\ Len(toSol) + ww <= PipeSize
          /\ ww = 0 => Len(toSol) = PipeSize
          /\ toSol' = toSol \o SubSeq(input, int.p + 1, int.p + ww)
          /\ int' = [int EXCEPT !.pc = "select", !.p = @ + ww, !.holds = (ww < Remaining)]
    /\ UNCHANGED <<test, sol, input, fromSol, output>>

\* An error (nobody reads): no more is written.
IntWriteFails ==
    /\ int.pc = "write" /\ 1 \in int.ready /\ ~ToSolHasReader
    /\ int' = [int EXCEPT !.pc = "select", !.p = Len(input), !.holds = FALSE]
    /\ UNCHANGED <<test, sol, input, toSol, fromSol, output>>

\* What was captured goes to the file 'output', if that can be opened.
IntSave ==
    /\ int.pc = "save"
    /\ \/ output' = int.captured /\ int' = [int EXCEPT !.pc = "exit", !.holds = FALSE]
       \/ int' = [int EXCEPT !.pc = "failed", !.holds = FALSE] /\ UNCHANGED output
    /\ UNCHANGED <<test, sol, input, toSol, fromSol>>

Interactor == \/ IntStart \/ IntSelect \/ IntSkip
              \/ IntRead \/ IntEndOfFile \/ IntWrite \/ IntWriteFails \/ IntSave

-----------------------------------------------------------------------------
(* run_solution. *)

SpawnSolution ==
    /\ test.pc = "spawnSolution"
    /\ test' = [test EXCEPT !.pc = "spawnInteractor", !.holds = TRUE]
    /\ sol' = [sol EXCEPT !.pc = "read"]
    /\ UNCHANGED <<int, input, toSol, fromSol, output>>

SpawnInteractor ==
    /\ test.pc = "spawnInteractor"
    /\ test' = [test EXCEPT !.pc = "close"]
    /\ int' = [int EXCEPT !.pc = "start", !.holds = TRUE]
    /\ UNCHANGED <<sol, input, toSol, fromSol, output>>

\* Popen raises: the finally clause terminates the solution, if it was that far,
\* and the exception leaves run_solution.
SpawnFails ==
    /\ test.pc \in {"spawnSolution", "spawnInteractor"}
    /\ test' = [test EXCEPT !.pc = "raised", !.holds = FALSE]
    /\ sol' = [sol EXCEPT !.pc = IF Runs(sol) THEN "terminated" ELSE @]
    /\ UNCHANGED <<int, input, toSol, fromSol, output>>

\* Mutated: test.py keeps its ends of the pipes.
CloseNothing ==
    /\ test.pc = "close"
    /\ test' = [test EXCEPT !.pc = "wait"]
    /\ UNCHANGED <<sol, int, input, toSol, fromSol, output>>

CloseEnds ==
    /\ test.pc = "close"
    /\ test' = [test EXCEPT !.pc = "wait", !.holds = FALSE]
    /\ UNCHANGED <<sol, int, input, toSol, fromSol, output>>

\* p.wait(), i.wait(), then the interactor's code and its file.
Finish ==
    /\ test.pc = "wait" /\ ~Runs(sol) /\ ~Runs(int)
    /\ test' = IF (int.pc = "failed" /\ ~test.mayFail) \/ output = Missing
               THEN [test EXCEPT !.pc = "raised"]
               ELSE [test EXCEPT !.pc = "done", !.result = output]
    /\ UNCHANGED <<sol, int, input, toSol, fromSol, output>>

TestRunner == SpawnSolution \/ SpawnInteractor \/ SpawnFails \/ CloseEnds \/ Finish

Next == TestRunner \/ Solution \/ Interactor

\* Each process is scheduled again and again.
Spec == /\ Init /\ [][Next]_vars
        /\ WF_vars(TestRunner) /\ WF_vars(Solution) /\ WF_vars(Interactor)
-----------------------------------------------------------------------------
\* The solution receives the test's input in order, and takes the end of its
\* input for the end of the test only when it has all of it.
InputIntact ==
    /\ sol.got \o toSol = SubSeq(input, 1, Len(sol.got) + Len(toSol))
    /\ sol.pc = "tail" /\ int.pc # "failed" =>
          sol.got = input \/ Len(sol.got) = sol.plan.limit
=============================================================================
