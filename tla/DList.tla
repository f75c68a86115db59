------------------------------- MODULE DList --------------------------------
(* The doubly linked list of tasks/c_advanced/push-pop-dlink-list: push and  *)
(* pop of solution.c on heap nodes, driven by the command loop of main.c.    *)
(* A node is an address; a freed address may be handed out again by calloc.  *)
EXTENDS Integers, Sequences, FiniteSets

CONSTANTS Addr,        \* the addresses calloc may return
          Null,
          Value,       \* the integers the commands push
          MaxPrinted   \* bound on the pops of a behaviour

ASSUME DListAssumption == /\ IsFiniteSet(Addr) /\ Null \notin Addr
                          /\ MaxPrinted \in Nat /\ Value \subseteq Int

VARIABLES heap,              \* the addresses calloc returned and nobody freed
          next, prev, value, \* the fields of struct Node, by address
          cur,               \* main's cursor
          printed,           \* what main printed, newest last
          exit               \* "run", "done" (end of input), "abort" (assert)

vars == <<heap, next, prev, value, cur, printed, exit>>

Pointer == Addr \cup {Null}

Init ==
    /\ heap = {} /\ cur = Null /\ printed = <<>> /\ exit = "run"
    /\ next = [a \in Addr |-> Null]
    /\ prev = [a \in Addr |-> Null]
    /\ value = [a \in Addr |-> 0]

-----------------------------------------------------------------------------
(* The link updates of push(place, v) into the fresh node n. *)

\* Mutated: the node before place is not linked to n.
NextAfterPushOneSided(n, place) ==
    [a \in Addr |-> IF a = n THEN place ELSE next[a]]

NextAfterPush(n, place) ==
    [a \in Addr |-> IF a = n THEN place
                    ELSE IF place # Null /\ a = prev[place] THEN n
                    ELSE next[a]]

PrevAfterPush(n, place) ==
    [a \in Addr |-> IF a = n THEN (IF place = Null THEN Null ELSE prev[place])
                    ELSE IF a = place THEN n
                    ELSE prev[a]]

(* The link updates of pop(n).  The fields of n itself stay behind in the    *)
(* freed memory.                                                             *)

\* Mutated: the predecessor is written to even when it is NULL.
NextAfterPopUnchecked(n) ==
    [a \in Addr \cup {prev[n]} |-> IF a = prev[n] THEN next[n] ELSE next[a]]

NextAfterPop(n) ==
    [a \in Addr |-> IF a = prev[n] THEN next[n] ELSE next[a]]

PrevAfterPop(n) ==
    [a \in Addr |-> IF a = next[n] THEN prev[n] ELSE prev[a]]

-----------------------------------------------------------------------------
(* The commands of main. *)

Push(v) ==
    /\ exit = "run"
    /\ \E n \in Addr \ heap :
          /\ heap' = heap \cup {n}
          /\ value' = [value EXCEPT ![n] = v]
          /\ next' = NextAfterPush(n, cur)
          /\ prev' = PrevAfterPush(n, cur)
          /\ cur' = n
    /\ UNCHANGED <<printed, exit>>

\* calloc fails on an ordinary push: main assigns NULL to its cursor and its
\* assertion ends the program.
PushOutOfMemory ==
    /\ exit = "run" /\ exit' = "abort" /\ cur' = Null
    /\ UNCHANGED <<heap, next, prev, value, printed>>

\* "push!" makes calloc fail on purpose: push returns NULL before it touches a
\* node, and main keeps its cursor.
PushExpectNull == exit = "run" /\ UNCHANGED vars

\* Mutated: the predecessor, NULL or not.
CursorAfterPopBack == prev[cur]

\* Mutated: the successor is preferred.
CursorAfterPopForward == IF next[cur] = Null THEN prev[cur] ELSE next[cur]

\* The cursor pop leaves behind, read before the node is freed.
CursorAfterPop == IF prev[cur] = Null THEN next[cur] ELSE prev[cur]

Pop ==
    /\ exit = "run" /\ cur # Null /\ Len(printed) < MaxPrinted
    /\ printed' = Append(printed, value[cur])
    /\ next' = NextAfterPop(cur)
    /\ prev' = PrevAfterPop(cur)
    /\ heap' = heap \ {cur}
    /\ cur' = CursorAfterPop
    /\ UNCHANGED <<value, exit>>

\* main asserts that there is a node to pop.
PopNothing ==
    /\ exit = "run" /\ cur = Null /\ exit' = "abort"
    /\ UNCHANGED <<heap, next, prev, value, cur, printed>>

\* "next" and "prev" dereference the cursor, so the input gives them only on a
\* list that is not empty; the assertion stops a walk off either end.
Walk(field) ==
    /\ exit = "run" /\ cur # Null
    /\ cur' = field[cur]
    /\ exit' = IF cur' = Null THEN "abort" ELSE "run"
    /\ UNCHANGED <<heap, next, prev, value, printed>>

EndOfInput == exit = "run" /\ exit' = "done"
              /\ UNCHANGED <<heap, next, prev, value, cur, printed>>

Next == \/ \E v \in Value : Push(v)
        \/ PushOutOfMemory \/ PushExpectNull
        \/ Pop \/ PopNothing
        \/ Walk(next) \/ Walk(prev)
        \/ EndOfInput

Spec == Init /\ [][Next]_vars
-----------------------------------------------------------------------------
TypeOK ==
    /\ heap \subseteq Addr
    /\ next \in [Addr -> Pointer] /\ prev \in [Addr -> Pointer]
    /\ value \in [Addr -> Int]
    /\ cur \in Pointer
    /\ printed \in Seq(Int)
    /\ exit \in {"run", "done", "abort"}

\* Every link of a live node leads to a live node that links back: after any
\* sequence of pushes and pops no field points into freed memory, and the two
\* directions agree.
LinksMutual ==
    \A a \in heap :
       /\ next[a] # Null => next[a] \in heap /\ prev[next[a]] = a
       /\ prev[a] # Null => prev[a] \in heap /\ next[prev[a]] = a

\* While commands are read, main's only pointer into the list is live, and it
\* is NULL only when every node has been freed: main never loses the list.
CursorLive == exit = "run" => IF cur = Null THEN heap = {} ELSE cur \in heap

\* A set of nodes that no link leaves.
LinkClosed(S) ==
    \A a \in S : /\ next[a] # Null => next[a] \in S
                 /\ prev[a] # Null => prev[a] \in S

\* The nodes form one list: no pop splits the list and no push starts a second
\* one, so every live node can be reached from main's cursor and none is leaked.
OneList == \A S \in SUBSET heap : S # {} /\ LinkClosed(S) => S = heap

\* The list is not a ring: every set of nodes has one whose predecessor is
\* outside it, so walking in one direction always ends.
NoCycle == \A S \in SUBSET heap : S # {} => \E a \in S : prev[a] \notin S

\* The live nodes are one doubly linked list, whatever was pushed, popped and
\* allocated again.
WellFormed == LinksMutual /\ OneList /\ NoCycle

-----------------------------------------------------------------------------
(* The list the links spell out, from its first node on. *)

First == CHOOSE a \in heap : prev[a] = Null

Indices == 1..Cardinality(heap)

NodeAt ==
    LET at[k \in Indices] == IF k = 1 THEN First ELSE next[at[k-1]]
    IN  at

Abstract == INSTANCE CursorList
    WITH MaxLen <- Cardinality(Addr),
         list <- [i \in Indices |-> value[NodeAt[i]]],
         pos <- IF cur = Null THEN 0 ELSE CHOOSE i \in Indices : NodeAt[i] = cur

\* push and pop implement the list with a cursor: each command changes the
\* sequence of values exactly as CursorList says, whatever addresses calloc
\* hands out and however freed ones are reused.
ImplementsCursorList == Abstract!Spec
=============================================================================
