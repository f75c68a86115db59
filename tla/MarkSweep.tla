----------------------------- MODULE MarkSweep ------------------------------
(* The garbage collector of tasks/c_advanced/gc/solution.c and the program   *)
(* that main.c drives it with.  Memory is counted in words; an allocation is *)
(* named by the address malloc returned.  malloc is external: the ranges it  *)
(* returns, with the byte after each, do not meet (the allocator keeps a     *)
(* header between two chunks).                                               *)
EXTENDS Integers, Sequences, FiniteSets, SequencesExt, Reachability

CONSTANTS Places,       \* the addresses malloc may return
          Sizes,        \* the sizes, in words, the program asks for
          Var,          \* the program's pointers on the stack
          MaxAllocs,    \* bound on the allocations of a behaviour
          FinalizerKinds   \* TRUE: one that may call gc_malloc; FALSE: one that does not

ASSUME MarkSweepAssumption ==
    /\ Places \subseteq Nat \ {0} /\ Sizes \subseteq Nat
    /\ MaxAllocs \in Nat /\ FinalizerKinds \subseteq BOOLEAN

VARIABLES mem,        \* the words of what malloc has handed out and nobody
                      \* freed, by address
          stack,      \* the words between the stack's top and its bottom
          list,       \* g_allocations: the records, newest first
          alive,      \* the records marked as reachable
          allocating, \* TRUE: the program's finalizer may call gc_malloc
          finalized,  \* how often the finalizer ran for a live allocation
          pc,         \* "run" (the program) or the phase of gc_collect_impl
          i,          \* the record the running loop is at
          changed,    \* the flag of the do loop
          allocs      \* the allocations made so far

gcVars == <<list, alive, pc, i, changed>>
heapVars == <<mem, stack, finalized, allocs, allocating>>
vars == <<heapVars, gcVars>>

Init ==
    /\ mem = [a \in {} |-> <<>>]
    /\ stack = [v \in Var |-> 0] /\ allocating \in FinalizerKinds
    /\ list = <<>> /\ alive = {} /\ finalized = [a \in {} |-> 0]
    /\ pc = "run" /\ i = 0 /\ changed = FALSE /\ allocs = 0

Allocated == DOMAIN mem
Size(a) == Len(mem[a])

-----------------------------------------------------------------------------
(* Marking. *)

\* The allocations that mark_ptr marks for the words of a region: for each
\* word the first record it points to.
Marked(words) ==
    {list[k] : k \in {k \in DOMAIN list :
        \E w \in words : /\ Points(w, list[k], mem[list[k]])
                         /\ \A j \in 1..k-1 : ~Points(w, list[j], mem[list[j]])}}

StackWords == {stack[v] : v \in Var}

-----------------------------------------------------------------------------
(* The program. *)

Room(a, n) ==
    \A b \in Allocated : b + Size(b) < a \/ a + n < b

\* gc_malloc: a zeroed range (the program clears it) and a record in front.
\* When malloc fails for either, nothing changes.
Malloc(a, n) ==
    /\ allocs < MaxAllocs /\ Room(a, n)
    /\ mem' = [b \in Allocated \cup {a} |-> IF b = a THEN [k \in 1..n |-> 0] ELSE mem[b]]
    /\ finalized' = [b \in Allocated \cup {a} |-> IF b = a THEN 0 ELSE finalized[b]]
    /\ list' = <<a>> \o list
    /\ allocs' = allocs + 1

Allocate(v, a, n) ==
    /\ pc = "run" /\ stack[v] = 0
    /\ Malloc(a, n)
    /\ stack' = [stack EXCEPT ![v] = a]
    /\ UNCHANGED <<allocating, alive, pc, i, changed>>

DropVariable(v) ==
    /\ pc = "run" /\ stack[v] # 0
    /\ stack' = [stack EXCEPT ![v] = 0]
    /\ UNCHANGED <<allocating, mem, finalized, allocs, gcVars>>

\* The end of the commands, or an allocation that failed: gc_malloc has released
\* what it got before it returns NULL, and main returns.
Exit ==
    /\ pc = "run" /\ pc' = "exit"
    /\ UNCHANGED <<heapVars, list, alive, i, changed>>

\* A word of an allocation the program has a pointer to is set to the start of
\* another, to the word after its end, or cleared.
SetWord(v, k, w) ==
    /\ pc = "run" /\ stack[v] # 0 /\ k \in 1..Size(stack[v])
    /\ w # mem[stack[v]][k]
    /\ mem' = [mem EXCEPT ![stack[v]][k] = w]
    /\ UNCHANGED <<allocating, stack, finalized, allocs, gcVars>>

MaxSize == Max(Sizes \cup {0})

SetReference == \E v, u \in Var, k \in 1..MaxSize :
    stack[u] # 0 /\ \E off \in {0, Size(stack[u])} : SetWord(v, k, stack[u] + off)

ClearReference == \E v \in Var, k \in 1..MaxSize : SetWord(v, k, 0)

-----------------------------------------------------------------------------
(* gc_collect_impl. *)

\* All records unmarked, then the stack scanned.
Start ==
    /\ pc = "run"
    /\ alive' = Marked(StackWords)
    /\ pc' = "mark" /\ i' = 1 /\ changed' = FALSE
    /\ UNCHANGED <<allocating, mem, stack, finalized, allocs, list>>

\* Mutated: the flag says only what the last record changed.
ScanRecordFlagLost ==
    /\ pc = "mark" /\ i <= Len(list)
    /\ alive' = IF list[i] \in alive THEN alive \cup Marked(Content(mem[list[i]])) ELSE alive
    /\ changed' = (Cardinality(alive') # Cardinality(alive))
    /\ i' = i + 1
    /\ UNCHANGED <<heapVars, list, pc>>

\* One record of a pass: if it is marked its words are scanned, and a growing
\* number of marked records asks for another pass.
ScanRecord ==
    /\ pc = "mark" /\ i <= Len(list)
    /\ alive' = IF list[i] \in alive THEN alive \cup Marked(Content(mem[list[i]])) ELSE alive
    /\ changed' = (changed \/ Cardinality(alive') # Cardinality(alive))
    /\ i' = i + 1
    /\ UNCHANGED <<heapVars, list, pc>>

\* Mutated: one pass is taken for enough.
EndOnlyPass ==
    /\ pc = "mark" /\ i > Len(list)
    /\ i' = 0 /\ pc' = "sweep"
    /\ UNCHANGED <<heapVars, list, alive, changed>>

\* Mutated: the flag is not cleared for the next pass.
EndPassFlagKept ==
    /\ pc = "mark" /\ i > Len(list)
    /\ IF changed THEN i' = 1 /\ pc' = pc ELSE i' = 0 /\ pc' = "sweep"
    /\ UNCHANGED <<heapVars, list, alive, changed>>

EndPass ==
    /\ pc = "mark" /\ i > Len(list)
    /\ IF changed
       THEN changed' = FALSE /\ i' = 1 /\ pc' = pc
       ELSE changed' = changed /\ i' = 0 /\ pc' = "sweep"
    /\ UNCHANGED <<heapVars, list, alive>>

\* Mutated: the mark is not looked at.
KeepAny ==
    /\ pc = "sweep" /\ i < Len(list)
    /\ i' = i + 1
    /\ UNCHANGED <<heapVars, list, alive, pc, changed>>

\* The sweep's link is at the list's head (i = 0) or in the i-th record, all of
\* the first i being kept.
Keep ==
    /\ pc = "sweep" /\ i < Len(list) /\ list[i + 1] \in alive
    /\ i' = i + 1
    /\ UNCHANGED <<heapVars, list, alive, pc, changed>>

\* Mutated: the finalizer of a marked record is called.
CallAnyFinalizer ==
    /\ pc = "sweep" /\ i < Len(list)
    /\ finalized' = [finalized EXCEPT ![list[i + 1]] = @ + 1]
    /\ pc' = "finalizer"
    /\ UNCHANGED <<allocating, mem, stack, allocs, list, alive, i, changed>>

CallFinalizer ==
    /\ pc = "sweep" /\ i < Len(list) /\ list[i + 1] \notin alive
    /\ finalized' = [finalized EXCEPT ![list[i + 1]] = @ + 1]
    /\ pc' = "finalizer"
    /\ UNCHANGED <<allocating, mem, stack, allocs, list, alive, i, changed>>

\* The record being freed: the one the sweep had reached before the finalizer
\* ran, wherever the list's head is now.
Doomed == CHOOSE k \in DOMAIN list : finalized[list[k]] = 1

\* A finalizer calls gc_malloc: the new record goes in front of all the others,
\* unmarked.  A link in a record moves along with it; one at the head does not.
AllocateInFinalizer(a, n) ==
    /\ allocating /\ pc = "finalizer"
    /\ Malloc(a, n)
    /\ i' = IF i = 0 THEN 0 ELSE i + 1
    /\ UNCHANGED <<allocating, stack, alive, pc, changed>>

\* free(ptr): the words are gone.
FreeWords(a) ==
    LET others == Allocated \ {a}
    IN  /\ mem' = [b \in others |-> mem[b]]
        /\ finalized' = [b \in others |-> finalized[b]]

\* Mutated: the record stays in the list.
ReleaseKeepsRecord ==
    /\ pc = "finalizer"
    /\ FreeWords(list[Doomed])
    /\ pc' = "sweep"
    /\ UNCHANGED <<allocating, stack, allocs, list, alive, i, changed>>

\* free(ptr), and the link made to skip the record: what the link passes over
\* goes out of the list.
Release ==
    /\ pc = "finalizer"
    /\ FreeWords(list[Doomed])
    /\ list' = SubSeq(list, 1, i) \o SubSeq(list, Doomed + 1, Len(list))
    /\ pc' = "sweep"
    /\ UNCHANGED <<allocating, stack, allocs, alive, i, changed>>

EndSweep ==
    /\ pc = "sweep" /\ i >= Len(list)
    /\ pc' = "run" /\ i' = 0 /\ alive' = {}   \* the marks are not read again
    /\ UNCHANGED <<heapVars, list, changed>>

Collect == ScanRecord \/ EndPass \/ Keep \/ CallFinalizer \/ Release \/ EndSweep

Next ==
    \/ \E v \in Var, a \in Places, n \in Sizes : Allocate(v, a, n)
    \/ \E v \in Var : DropVariable(v)
    \/ SetReference \/ ClearReference \/ Exit
    \/ Start \/ Collect
    \/ \E a \in Places, n \in Sizes : AllocateInFinalizer(a, n)

\* A collection that has started runs to its end.
Spec == Init /\ [][Next]_vars /\ WF_vars(Collect)
-----------------------------------------------------------------------------
TypeOK ==
    /\ Allocated \subseteq Places /\ mem \in [Allocated -> Seq(Nat)]
    /\ \A a \in Allocated : Size(a) \in Sizes
    /\ finalized \in [Allocated -> Nat]
    /\ stack \in [Var -> Nat]
    /\ list \in Seq(Places) /\ alive \subseteq Places
    /\ pc \in {"run", "mark", "sweep", "finalizer", "exit"}
    /\ i \in 0..Len(list) + (IF pc = "mark" THEN 1 ELSE 0)
    /\ {changed, allocating} \subseteq BOOLEAN /\ allocs \in 0..MaxAllocs

Reachable == Closure(StackWords, mem)

\* gc_malloc and the sweep keep one record for each allocation: no allocation is
\* forgotten (never to be freed) and none is freed twice.
RecordsExact ==
    /\ ToSet(list) = Allocated
    /\ \A j, k \in DOMAIN list : list[j] = list[k] => j = k

\* The same of a program whose finalizer does not allocate.
RecordsKept == ~allocating => RecordsExact

\* When the do loop ends, everything that can be reached is marked, in whatever
\* order the records stand in the list: the flag is not cleared too early.
MarksAll == pc \in {"sweep", "finalizer"} => Reachable \subseteq alive

\* The program cannot tell that there is a collector: what it can reach stays
\* where it is and as it is, through every collection and every finalizer that
\* allocates, and every step it sees is one of its own.
Graph == INSTANCE ObjectGraph WITH
    Address <- Places, objects <- [a \in Reachable |-> mem[a]]

ImplementsGraph == Graph!Spec

\* A finalizer runs once, for an allocation about to be freed that the program
\* cannot reach, and for no other.
FinalizedOnce ==
    \A a \in Allocated :
       /\ finalized[a] <= 1
       /\ finalized[a] = 1 => pc = "finalizer" /\ a \notin Reachable

\* A collection frees exactly what cannot be reached: when it ends nothing
\* unreachable is left, unless the finalizer has allocated.
CollectionComplete ==
    [][pc = "sweep" /\ pc' = "run" /\ ~allocating => Allocated = Reachable]_vars

\* A collection ends.
CollectionEnds == pc = "mark" ~> pc = "run"
=============================================================================
