----------------------------- MODULE BinaryTree -----------------------------
(* tasks/files/binary-tree/solution.c: prints the keys of a binary search    *)
(* tree stored in a file, in descending order, holding one path of it in     *)
(* memory.  Node k of the file has index k - 1; index 0, the root, means "no *)
(* child".  The recursion of print_descending is an explicit stack.  The     *)
(* wrappers it is linked with count its calls of read, and abort the program *)
(* at its exit when they were too few.                                       *)
EXTENDS Integers, Sequences

CONSTANTS MinReads,  \* MIN_READ_CALLS
          Files      \* the files: sequences of [key, left_idx, right_idx]

-----------------------------------------------------------------------------
(* The trees.                                                                *)

Indices(f) == 0..Len(f)-1
Children(f, k) == {f[k + 1].left_idx, f[k + 1].right_idx} \ {0}

\* What a file refers to; a file that was cut short refers to nodes it has not.
Mentioned(f) == {0} \cup UNION {Children(f, k) : k \in Indices(f)}

\* The node k and those below it, as far as the file tells.
Closed(f, S) == \A n \in S \cap Indices(f) : Children(f, n) \subseteq S
Subtree(f, k) == {n \in Mentioned(f) :
                    \A S \in SUBSET Mentioned(f) : k \in S /\ Closed(f, S) => n \in S}

\* As print_descending has it: no tree at all for an index of 0 ...
Below(f, idx) == IF idx = 0 THEN {} ELSE Subtree(f, idx)

\* ... while main starts at the root.
Nodes(f) == Subtree(f, 0)

SearchTree(f) ==
    \A n \in Nodes(f) \cap Indices(f) :
       /\ \A d \in Below(f, f[n + 1].left_idx) \cap Indices(f) : f[d + 1].key < f[n + 1].key
       /\ \A d \in Below(f, f[n + 1].right_idx) \cap Indices(f) : f[d + 1].key > f[n + 1].key

TreeAssumption ==
    /\ MinReads \in Nat
    /\ Files \subseteq Seq([key : Int, left_idx : Nat, right_idx : Nat])
    /\ \A f \in Files : SearchTree(f)
-----------------------------------------------------------------------------
VARIABLES file,
          frames,    \* the calls in progress, innermost last: the node and
                     \* "right", "key" or "left", what it does next
          wanted,    \* the node being read, -1 when none is
          printed,   \* the keys written to stdout
          reads,     \* read_calls, counted up to MinReads
          exit       \* the exit code, -1 while main runs

vars == <<file, frames, wanted, printed, reads, exit>>

\* main reads the root itself and then handles it as print_descending does.
Init ==
    /\ file \in Files
    /\ frames = <<>> /\ wanted = 0 /\ printed = <<>> /\ reads = 0
    /\ exit = -1

Top == frames[Len(frames)]
Advance(step) == [frames EXCEPT ![Len(frames)].step = step]

\* count_read_call.
Count(calls) == reads' = IF reads + calls < MinReads THEN reads + calls ELSE MinReads

\* The exit code, check_read_calls being registered by the first read.
Aborted == 134
AtExit(code) == exit' = IF reads' \in 1..MinReads-1 THEN Aborted ELSE code

\* A node may come in more than one read.
ReadNode ==
    /\ exit = -1 /\ wanted >= 0 /\ wanted < Len(file)
    /\ frames' = Append(frames, [node |-> file[wanted + 1], step |-> "right"])
    /\ wanted' = -1
    /\ \E calls \in 1..2 : Count(calls)
    /\ UNCHANGED <<file, printed, exit>>

\* Mutated: a child that cannot be read is passed over.
ReadFailsUnnoticed ==
    /\ exit = -1 /\ wanted >= 0 /\ frames # <<>>
    /\ wanted' = -1
    /\ UNCHANGED <<file, frames, printed, reads, exit>>

\* A failing call, or the end of the file: -1 goes up through every frame.
ReadFails ==
    /\ exit = -1 /\ wanted >= 0
    /\ \E calls \in 0..2 : Count(calls)
    /\ AtExit(1)
    /\ UNCHANGED <<file, frames, wanted, printed>>

\* print_descending(idx) for a child; an index of 0 returns at once.
Descend(idx, next) ==
    /\ frames' = Advance(next)
    /\ wanted' = IF idx = 0 THEN -1 ELSE idx
    /\ UNCHANGED <<file, printed, reads, exit>>

Running(step) == exit = -1 /\ wanted = -1 /\ frames # <<>> /\ Top.step = step

GoRight == Running("right") /\ Descend(Top.node.right_idx, "key")

PrintKey ==
    /\ Running("key")
    /\ printed' = Append(printed, Top.node.key)
    /\ frames' = Advance("left")
    /\ UNCHANGED <<file, wanted, reads, exit>>

GoLeft == Running("left") /\ Descend(Top.node.left_idx, "return")

\* The call returns 0; the last one is main's, which prints '\n' and exits.
Return ==
    /\ Running("return")
    /\ frames' = SubSeq(frames, 1, Len(frames) - 1)
    /\ UNCHANGED <<file, wanted, printed, reads>>
    /\ IF Len(frames) = 1 THEN AtExit(0) ELSE UNCHANGED exit

Next == ReadNode \/ ReadFails \/ GoRight \/ PrintKey \/ GoLeft \/ Return

Spec == Init /\ [][Next]_vars /\ WF_vars(Next)
-----------------------------------------------------------------------------
Keys == {file[k + 1].key : k \in Nodes(file) \cap Indices(file)}
Printed == {printed[m] : m \in DOMAIN printed}

\* The keys come out in descending order, and what is printed is the part of
\* the tree above some key: an error never makes the program skip a key, repeat
\* one, and go on.
PrintedInOrder ==
    /\ \A m, n \in DOMAIN printed : m < n => printed[m] > printed[n]
    /\ \A k \in Keys : \A m \in DOMAIN printed :
          k > printed[m] => \E n \in 1..m : printed[n] = k

\* On success the whole tree was printed, and none of it was missing; a run that
\* got so far is aborted for too few reads only when it printed fewer keys.
TreeRight ==
    /\ PrintedInOrder
    /\ exit = 0 \/ (exit = Aborted /\ wanted = -1) =>
          Nodes(file) \subseteq Indices(file) /\ Printed = Keys
    /\ exit = Aborted /\ wanted = -1 => Len(printed) < MinReads
=============================================================================
