-------------------------- MODULE MarkSweepProofs ---------------------------
(* The collector of MarkSweep, for any memory, any program and any order of  *)
(* its records: it keeps what can be reached and frees what cannot, and the  *)
(* program cannot tell that it is there.                                     *)
EXTENDS MarkSweep, FiniteSetTheorems, FunctionTheorems, TLAPS

-----------------------------------------------------------------------------
\* Reachability.

LEMMA InTargets ==
  ASSUME NEW words, NEW objects, NEW a
  PROVE  a \in Targets(words, objects)
            <=> a \in DOMAIN objects /\ \E w \in words : Points(w, a, objects[a])
<1> DEFINE pointed(w) == {b \in DOMAIN objects : Points(w, b, objects[b])}
<1>1. Targets(words, objects) = UNION {pointed(w) : w \in words}
  BY DEF Targets
<1>2. a \in Targets(words, objects) <=> \E w \in words : a \in pointed(w)
  <2> HIDE DEF pointed
  <2> QED BY <1>1
<1> QED BY <1>2

\* The closure follows every pointer, and is the least set that does.
LEMMA ClosureClosed ==
  ASSUME NEW roots, NEW objects
  PROVE  /\ Closure(roots, objects) \subseteq DOMAIN objects
         /\ Closed(Closure(roots, objects), roots, objects)
<1>1. \A words : Targets(words, objects) \subseteq DOMAIN objects
  BY InTargets
<1> QED BY <1>1 DEF Closure, Closed

LEMMA ClosureLeast ==
  ASSUME NEW roots, NEW objects, NEW S \in SUBSET DOMAIN objects,
         Closed(S, roots, objects)
  PROVE  Closure(roots, objects) \subseteq S
  BY DEF Closure

\* Two memories in which the objects in reach point to the same objects.
LEMMA ClosureSame ==
  ASSUME NEW roots, NEW O, NEW P,
         Closure(roots, O) \subseteq DOMAIN P,
         Targets(roots, P) = Targets(roots, O),
         \A a \in Closure(roots, O) :
            Targets(Content(P[a]), P) = Targets(Content(O[a]), O)
  PROVE  Closure(roots, P) = Closure(roots, O)
<1> DEFINE C == Closure(roots, O)
           S == Closure(roots, P)
<1>1. C \subseteq DOMAIN O /\ Closed(C, roots, O) /\ Closed(S, roots, P)
  BY ClosureClosed
<1>2. S \subseteq C
  <2>1. Closed(C, roots, P)
    BY <1>1 DEF Closed
  <2> HIDE DEF C
  <2> QED BY <2>1, ClosureLeast DEF C
<1>3. Closed(S, roots, O)
  BY <1>1, <1>2 DEF Closed
<1>4. C \subseteq S
  <2> HIDE DEF S
  <2> QED BY <1>1, <1>2, <1>3, ClosureLeast
<1> QED BY <1>2, <1>4

\* What is out of reach can be left out.
LEMMA ClosureRestricted ==
  ASSUME NEW roots, NEW O, NEW D \in SUBSET DOMAIN O, Closure(roots, O) \subseteq D
  PROVE  Closure(roots, [a \in D |-> O[a]]) = Closure(roots, O)
<1> DEFINE P == [a \in D |-> O[a]]
<1>1. Closed(Closure(roots, O), roots, O)
  BY ClosureClosed
<1>2. ASSUME NEW words, Targets(words, O) \subseteq D
      PROVE  Targets(words, P) = Targets(words, O)
  <2>1. \A a : a \in Targets(words, P) <=> a \in Targets(words, O)
    BY <1>2, InTargets
  <2> QED BY <2>1
<1>3. Targets(roots, P) = Targets(roots, O)
  BY <1>1, <1>2 DEF Closed
<1>4. \A a \in Closure(roots, O) :
         Targets(Content(P[a]), P) = Targets(Content(O[a]), O)
  <2> TAKE a \in Closure(roots, O)
  <2>1. P[a] = O[a] /\ Targets(Content(O[a]), O) \subseteq D
    BY <1>1 DEF Closed
  <2> QED BY <2>1, <1>2
<1> HIDE DEF P
<1>5. DOMAIN P = D
  BY DEF P
<1> QED BY <1>3, <1>4, <1>5, ClosureSame DEF P

-----------------------------------------------------------------------------
\* The invariant.

\* No word points to two allocations.
Spaced ==
    \A a, b \in Allocated : a # b => a + Size(a) < b \/ b + Size(b) < a

\* One record for each allocation in the list, and for all of them unless a
\* finalizer's allocation was lost.
Listed ==
    /\ ToSet(list) \subseteq Allocated /\ (~allocating => ToSet(list) = Allocated)
    /\ \A j, k \in DOMAIN list : list[j] = list[k] => j = k
    /\ alive \subseteq ToSet(list)

\* The program's variables hold starts of allocations, and what it can reach
\* is in the list and has no pointer that dangles.
ReachesObjects ==
    /\ \A v \in Var : stack[v] # 0 => stack[v] \in Allocated
    /\ Reachable \subseteq ToSet(list)
    /\ \A a \in Reachable : \A w \in Content(mem[a]) :
          w # 0 => \E b \in Allocated : Points(w, b, mem[b])

\* Between a collection's start and its end the marks say "reachable"; a pass
\* that has changed nothing so far has followed every pointer behind it.
Collecting == pc \in {"mark", "sweep", "finalizer"}
MarksRight ==
    /\ ~Collecting => alive = {}
    /\ Collecting => alive \subseteq Reachable /\ Targets(StackWords, mem) \subseteq alive
    /\ pc = "mark" /\ ~changed => \A k \in DOMAIN list :
          k < i /\ list[k] \in alive => Targets(Content(mem[list[k]]), mem) \subseteq alive

\* The sweep frees the unmarked record at d and drops with it what a finalizer
\* has put between it and the link.
DoomedAt(d) ==
    /\ i < d /\ \A k \in i+1..d : list[k] \notin alive
    /\ \A a \in Allocated : finalized[a] = IF a = list[d] THEN 1 ELSE 0
    /\ ~allocating => d = i + 1

SweepRight ==
    /\ pc # "finalizer" => \A a \in Allocated : finalized[a] = 0
    /\ pc = "finalizer" => \E d \in DOMAIN list : DoomedAt(d)
    /\ pc \in {"sweep", "finalizer"} /\ ~allocating =>
          \A k \in DOMAIN list : k <= i => list[k] \in alive

IInv == /\ TypeOK /\ Spaced /\ Listed /\ ReachesObjects
        /\ MarksRight /\ MarksAll /\ SweepRight

LEMMA InitIInv == Init => IInv
<1> SUFFICES ASSUME Init PROVE IInv
  OBVIOUS
<1> USE DEF Init
<1>0. Allocated = {} /\ DOMAIN list = {} /\ ToSet(list) = {}
  BY DEF Allocated, ToSet
<1>1. TypeOK
  <2>1. /\ mem \in [Allocated -> Seq(Nat)] /\ finalized \in [Allocated -> Nat]
        /\ Allocated \subseteq Places
    BY DEF Allocated
  <2>2. stack \in [Var -> Nat] /\ alive \subseteq Places /\ allocs \in 0..MaxAllocs
    BY MarkSweepAssumption
  <2>3. list \in Seq(Places) /\ Len(list) = 0
    OBVIOUS
  <2>4. {changed, allocating} \subseteq BOOLEAN
    BY MarkSweepAssumption
  <2> QED BY <1>0, <2>1, <2>2, <2>3, <2>4 DEF TypeOK
<1>2. Spaced /\ Listed
  BY <1>0 DEF Spaced, Listed
<1>3. Reachable = {}
  BY <1>0, ClosureClosed DEF Reachable, Allocated
<1>4. ReachesObjects
  BY <1>3 DEF ReachesObjects
<1>5. MarksRight /\ MarksAll
  BY DEF MarksRight, Collecting, MarksAll
<1>6. SweepRight
  BY <1>0 DEF SweepRight
<1> QED BY <1>1, <1>2, <1>4, <1>5, <1>6 DEF IInv

-----------------------------------------------------------------------------
\* What the invariant says of words and records.

LEMMA ReachableClosed ==
  /\ Reachable \subseteq Allocated
  /\ Targets(StackWords, mem) \subseteq Reachable
  /\ \A a \in Reachable : Targets(Content(mem[a]), mem) \subseteq Reachable
  BY ClosureClosed DEF Reachable, Allocated, Closed

LEMMA WordsAreNumbers ==
  ASSUME TypeOK
  PROVE  /\ StackWords \subseteq Nat
         /\ \A a \in Allocated : Content(mem[a]) \subseteq Nat /\ a \in Nat \ {0}
                                 /\ Size(a) \in Nat
<1>1. StackWords \subseteq Nat
  BY DEF TypeOK, StackWords
<1>2. ASSUME NEW a \in Allocated
      PROVE  Content(mem[a]) \subseteq Nat /\ a \in Nat \ {0} /\ Size(a) \in Nat
  <2>1. mem[a] \in Seq(Nat)
    BY <1>2 DEF TypeOK
  <2>2. a \in Nat \ {0}
    BY <1>2, MarkSweepAssumption DEF TypeOK
  <2>3. \A k \in DOMAIN mem[a] : mem[a][k] \in Nat
    BY <2>1
  <2> QED BY <2>1, <2>2, <2>3 DEF Content, Size
<1> QED BY <1>1, <1>2

LEMMA OnePointed ==
  ASSUME TypeOK, Spaced, NEW w \in Nat, NEW a \in Allocated, NEW b \in Allocated,
         Points(w, a, mem[a]), Points(w, b, mem[b])
  PROVE  a = b
  BY WordsAreNumbers DEF Spaced, Points, Size

\* mark_ptr stops at the first record that a word points to: there is no other.
LEMMA MarkedIsTargets ==
  ASSUME TypeOK, Spaced, Listed, NEW words \in SUBSET Nat
  PROVE  Marked(words) = Targets(words, mem) \cap ToSet(list)
<1>1. \A k \in DOMAIN list : list[k] \in Allocated /\ list[k] \in ToSet(list) /\ k \in Nat
  BY DEF Listed, ToSet, TypeOK
<1>2. Marked(words) \subseteq Targets(words, mem) \cap ToSet(list)
  <2> SUFFICES ASSUME NEW a \in Marked(words)
               PROVE  a \in Targets(words, mem) \cap ToSet(list)
    OBVIOUS
  <2>1. PICK k \in DOMAIN list : a = list[k] /\ \E w \in words : Points(w, list[k], mem[list[k]])
    BY DEF Marked
  <2> QED BY <1>1, <2>1, InTargets DEF Allocated
<1>3. ASSUME NEW a \in Targets(words, mem) \cap ToSet(list)
      PROVE  a \in Marked(words)
  <2>1. PICK w \in words : Points(w, a, mem[a])
    BY InTargets
  <2>2. PICK k \in DOMAIN list : a = list[k]
    BY DEF ToSet
  <2>3. \A j \in 1..k-1 : ~Points(w, list[j], mem[list[j]])
    <3> SUFFICES ASSUME NEW j \in 1..k-1, Points(w, list[j], mem[list[j]]) PROVE FALSE
      OBVIOUS
    <3>1. j \in DOMAIN list /\ j # k
      BY <1>1 DEF TypeOK
    <3>2. list[j] = a
      BY <1>1, <2>1, <2>2, <3>1, OnePointed
    <3> QED BY <2>2, <3>1, <3>2 DEF Listed
  <2> QED BY <2>1, <2>2, <2>3 DEF Marked
<1> QED BY <1>2, <1>3

-----------------------------------------------------------------------------
\* gc_malloc.

LEMMA ZeroedWords ==
  ASSUME NEW n \in Nat
  PROVE  LET z == [k \in 1..n |-> 0]
         IN  z \in Seq(Nat) /\ Len(z) = n /\ Content(z) \subseteq {0}
<1> DEFINE z == [k \in 1..n |-> 0]
<1>1. z \in Seq(Nat) /\ Len(z) = n /\ DOMAIN z = 1..n
  OBVIOUS
<1>2. Content(z) \subseteq {0}
  BY DEF Content
<1> QED BY <1>1, <1>2

LEMMA MallocFresh ==
  ASSUME IInv, NEW a \in Places, NEW n \in Sizes, Malloc(a, n)
  PROVE  /\ a \notin Allocated /\ Allocated' = Allocated \cup {a} /\ a \in Nat \ {0}
         /\ n \in Nat /\ Room(a, n)
         /\ \A b \in Allocated : mem'[b] = mem[b] /\ finalized'[b] = finalized[b]
         /\ mem'[a] = [k \in 1..n |-> 0] /\ Len(mem'[a]) = n /\ finalized'[a] = 0
         /\ mem' \in [Allocated' -> Seq(Nat)] /\ finalized' \in [Allocated' -> Nat]
<1>1. a \in Nat \ {0} /\ n \in Nat
  BY MarkSweepAssumption
<1>2. a \notin Allocated
  BY <1>1, WordsAreNumbers DEF Malloc, Room, IInv
<1>3. Allocated' = Allocated \cup {a}
  BY DEF Malloc, Allocated
<1>4. /\ \A b \in Allocated : mem'[b] = mem[b] /\ finalized'[b] = finalized[b]
      /\ mem'[a] = [k \in 1..n |-> 0] /\ finalized'[a] = 0
  BY <1>2 DEF Malloc
<1>5. mem'[a] \in Seq(Nat) /\ Len(mem'[a]) = n
  BY <1>1, <1>4, ZeroedWords
<1>6. mem' \in [Allocated' -> Seq(Nat)]
  <2>1. \A b \in Allocated' : mem'[b] \in Seq(Nat)
    BY <1>3, <1>4, <1>5 DEF IInv, TypeOK
  <2>2. mem' = [b \in Allocated' |-> mem'[b]]
    BY <1>3 DEF Malloc
  <2> QED BY <2>1, <2>2
<1>7. finalized' \in [Allocated' -> Nat]
  <2>1. \A b \in Allocated' : finalized'[b] \in Nat
    BY <1>3, <1>4 DEF IInv, TypeOK
  <2>2. finalized' = [b \in Allocated' |-> finalized'[b]]
    BY <1>3 DEF Malloc
  <2> QED BY <2>1, <2>2
<1> QED BY <1>1, <1>2, <1>3, <1>4, <1>5, <1>6, <1>7 DEF Malloc

LEMMA MallocSizes ==
  ASSUME IInv, NEW a \in Places, NEW n \in Sizes, Malloc(a, n)
  PROVE  \A b \in Allocated' : Len(mem'[b]) \in Sizes
<1>1. /\ Allocated' = Allocated \cup {a} /\ Len(mem'[a]) = n
      /\ \A b \in Allocated : mem'[b] = mem[b]
  BY MallocFresh
<1>2. \A b \in Allocated : Len(mem[b]) \in Sizes
  BY DEF IInv, TypeOK, Size
<1> QED BY <1>1, <1>2

LEMMA MallocSpaced ==
  ASSUME IInv, NEW a \in Places, NEW n \in Sizes, Malloc(a, n)
  PROVE  Spaced'
<1> SUFFICES ASSUME NEW b \in Allocated', NEW c \in Allocated', b # c
             PROVE  b + Len(mem'[b]) < c \/ c + Len(mem'[c]) < b
  BY DEF Spaced, Size
<1>1. CASE b \in Allocated /\ c \in Allocated
  BY <1>1, MallocFresh DEF IInv, Spaced, Size
<1>0. ASSUME NEW d \in Allocated
      PROVE  /\ d + Size(d) < a \/ a + n < d
             /\ Len(mem'[d]) = Size(d) /\ Len(mem'[a]) = n
  BY <1>0, MallocFresh DEF Room, Size
<1>2. CASE b = a /\ c \in Allocated
  BY <1>0, <1>2
<1>3. CASE c = a /\ b \in Allocated
  BY <1>0, <1>3
<1>4. Allocated' = Allocated \cup {a}
  BY MallocFresh
<1> QED BY <1>1, <1>2, <1>3, <1>4

\* No word in reach points to what malloc returns.
LEMMA FreshUnpointed ==
  ASSUME IInv, NEW a \in Places, NEW n \in Sizes, Malloc(a, n),
         NEW w \in Nat, w # 0 => \E b \in Allocated : Points(w, b, mem[b])
  PROVE  ~Points(w, a, mem'[a])
<1>0. a \in Nat \ {0} /\ n \in Nat /\ Len(mem'[a]) = n
  BY MallocFresh
<1>1. CASE w = 0
  BY <1>0, <1>1 DEF Points
<1>2. CASE w # 0
  <2>1. PICK b \in Allocated : Points(w, b, mem[b])
    BY <1>2
  <2>2. b + Size(b) < a \/ a + n < b
    BY MallocFresh DEF Room
  <2>3. b \in Nat /\ Size(b) \in Nat
    BY WordsAreNumbers DEF IInv
  <2> QED BY <1>0, <2>1, <2>2, <2>3 DEF Points, Size
<1> QED BY <1>1, <1>2

LEMMA ReachWords ==
  ASSUME IInv
  PROVE  /\ \A w \in StackWords : w # 0 => \E b \in Allocated : Points(w, b, mem[b])
         /\ \A a \in Reachable : \A w \in Content(mem[a]) :
               w # 0 => \E b \in Allocated : Points(w, b, mem[b])
<1>1. \A b \in Allocated : Points(b, b, mem[b])
  BY WordsAreNumbers DEF Points, IInv, Size
<1> QED BY <1>1 DEF StackWords, IInv, ReachesObjects

LEMMA FreshTargets ==
  ASSUME IInv, NEW a \in Places, NEW n \in Sizes, Malloc(a, n)
  PROVE  /\ Targets(StackWords, mem') = Targets(StackWords, mem)
         /\ \A b \in Reachable :
               Targets(Content(mem'[b]), mem') = Targets(Content(mem[b]), mem)
<1>1. ASSUME NEW words \in SUBSET Nat,
             \A w \in words : w # 0 => \E b \in Allocated : Points(w, b, mem[b])
      PROVE  Targets(words, mem') = Targets(words, mem)
  <2>1. \A w \in words : ~Points(w, a, mem'[a])
    BY <1>1, FreshUnpointed
  <2>2. /\ DOMAIN mem' = DOMAIN mem \cup {a} /\ a \notin DOMAIN mem
        /\ \A b \in DOMAIN mem : mem'[b] = mem[b]
    BY MallocFresh DEF Allocated
  <2>3. ASSUME NEW b PROVE b \in Targets(words, mem') <=> b \in Targets(words, mem)
    <3>1. b \in Targets(words, mem')
             <=> b \in DOMAIN mem' /\ \E w \in words : Points(w, b, mem'[b])
      BY InTargets
    <3>2. b \in Targets(words, mem)
             <=> b \in DOMAIN mem /\ \E w \in words : Points(w, b, mem[b])
      BY InTargets
    <3> QED BY <2>1, <2>2, <3>1, <3>2
  <2> QED BY <2>3
<1>2. Targets(StackWords, mem') = Targets(StackWords, mem)
  BY <1>1, ReachWords, WordsAreNumbers DEF IInv
<1>3. ASSUME NEW b \in Reachable
      PROVE  Targets(Content(mem'[b]), mem') = Targets(Content(mem[b]), mem)
  <2>1. b \in Allocated /\ mem'[b] = mem[b]
    BY ReachableClosed, MallocFresh
  <2> QED BY <2>1, <1>1, ReachWords, WordsAreNumbers DEF IInv
<1> QED BY <1>2, <1>3

LEMMA MallocListed ==
  ASSUME IInv, NEW a \in Places, NEW n \in Sizes, Malloc(a, n),
         UNCHANGED <<alive, allocating>>
  PROVE  /\ Listed' /\ list' \in Seq(Places) /\ Len(list') = Len(list) + 1
         /\ list'[1] = a /\ \A k \in 1..Len(list) : list'[k+1] = list[k]
         /\ ToSet(list') = ToSet(list) \cup {a}
<1>1. list \in Seq(Places) /\ list' = <<a>> \o list
  BY DEF IInv, TypeOK, Malloc
<1>2. /\ list' \in Seq(Places) /\ Len(list') = Len(list) + 1
      /\ list'[1] = a /\ \A k \in 1..Len(list) : list'[k+1] = list[k]
  BY <1>1
<1>3. /\ Len(list) \in Nat /\ DOMAIN list = 1..Len(list) /\ DOMAIN list' = 1..Len(list)+1
  BY <1>1, <1>2
<1>4. \A k \in DOMAIN list' : k # 1 => k-1 \in DOMAIN list /\ list'[k] = list[k-1]
  <2> TAKE k \in DOMAIN list'
  <2> SUFFICES ASSUME k # 1 PROVE k-1 \in 1..Len(list) /\ list'[k] = list[k-1]
    BY <1>3
  <2>1. k-1 \in 1..Len(list) /\ (k-1)+1 = k
    BY <1>3
  <2> QED BY <1>2, <2>1
<1>5. ToSet(list') = ToSet(list) \cup {a}
  <2>1. ToSet(list') \subseteq ToSet(list) \cup {a}
    BY <1>2, <1>4 DEF ToSet
  <2>2. \A k \in DOMAIN list : k+1 \in DOMAIN list' /\ list'[k+1] = list[k]
    BY <1>2, <1>3
  <2>3. 1 \in DOMAIN list'
    BY <1>3
  <2>4. a \in ToSet(list')
    BY <1>2, <2>3 DEF ToSet
  <2>5. ToSet(list) \subseteq ToSet(list')
    BY <2>2 DEF ToSet
  <2> QED BY <2>1, <2>4, <2>5
<1>6. \A j, k \in DOMAIN list' : list'[j] = list'[k] => j = k
  <2> SUFFICES ASSUME NEW j \in DOMAIN list', NEW k \in DOMAIN list', list'[j] = list'[k]
               PROVE  j = k
    OBVIOUS
  <2>1. \A m \in DOMAIN list : list[m] # a
    <3>1. a \notin ToSet(list)
      BY MallocFresh DEF IInv, Listed
    <3> QED BY <3>1 DEF ToSet
  <2>2. j \in Nat /\ k \in Nat
    BY <1>3
  <2>3. \A m \in DOMAIN list' : m = 1 <=> list'[m] = a
    BY <1>2, <1>4, <2>1
  <2>4. CASE j = 1 \/ k = 1
    BY <2>3, <2>4
  <2>5. CASE j # 1 /\ k # 1
    <3>1. j-1 \in DOMAIN list /\ k-1 \in DOMAIN list /\ list[j-1] = list[k-1]
      BY <1>4, <2>5
    <3>2. j-1 = k-1
      BY <3>1 DEF IInv, Listed
    <3> QED BY <2>2, <3>2
  <2> QED BY <2>4, <2>5
<1>7. Allocated' = Allocated \cup {a}
  BY MallocFresh
<1> QED BY <1>2, <1>5, <1>6, <1>7 DEF IInv, Listed

LEMMA ZeroPointsNowhere ==
  ASSUME TypeOK, NEW words, words \subseteq {0}
  PROVE  Targets(words, mem) = {}
<1>1. \A b \in Allocated : ~Points(0, b, mem[b])
  BY WordsAreNumbers DEF Points
<1>2. ASSUME NEW b PROVE b \notin Targets(words, mem)
  <2>1. b \in Targets(words, mem)
           <=> b \in DOMAIN mem /\ \E w \in words : Points(w, b, mem[b])
    BY InTargets
  <2> QED BY <1>1, <2>1 DEF Allocated
<1> QED BY <1>2

\* An allocation of the program adds one object to what it can reach.
LEMMA AllocateReaches ==
  ASSUME IInv, NEW v \in Var, NEW a \in Places, NEW n \in Sizes, Allocate(v, a, n)
  PROVE  Reachable' = Reachable \cup {a}
<1> DEFINE R == Reachable
           Q == Reachable'
<1>1. Malloc(a, n) /\ stack[v] = 0 /\ stack' = [stack EXCEPT ![v] = a]
  BY DEF Allocate
<1>2. /\ \A u \in Var : stack'[u] = IF u = v THEN a ELSE stack[u]
      /\ a \in StackWords' /\ a \in Nat \ {0} /\ a \in DOMAIN mem'
  BY <1>1, MallocFresh DEF IInv, TypeOK, StackWords, Allocated
<1>3. Points(a, a, mem'[a])
  BY <1>1, MallocFresh, MarkSweepAssumption DEF Points
<1>4. Targets(StackWords', mem') = Targets(StackWords, mem) \cup {a}
  <2>1. \A w : w \in StackWords' => w = a \/ w \in StackWords
    BY <1>2 DEF StackWords
  <2>2. \A w : w \in StackWords => w = 0 \/ w \in StackWords'
    BY <1>1, <1>2 DEF StackWords
  <2>3. \A b \in DOMAIN mem' : Points(a, b, mem'[b]) => b = a
    <3>1. Spaced'
      BY <1>1, MallocSpaced
    <3>2. \A b \in Allocated' : b \in Nat /\ Len(mem'[b]) \in Nat
      <4>1. /\ Allocated' = Allocated \cup {a} /\ a \in Nat
            /\ mem' \in [Allocated' -> Seq(Nat)]
        BY <1>1, MallocFresh
      <4>2. Allocated \subseteq Nat
        BY WordsAreNumbers DEF IInv
      <4> QED BY <4>1, <4>2
    <3> QED BY <1>2, <3>1, <3>2 DEF Spaced, Points, Size, Allocated
  <2>4. \A b \in DOMAIN mem' : ~Points(0, b, mem'[b])
    <3>1. \A b \in DOMAIN mem' : b \in Nat \ {0}
      BY <1>1, MallocFresh, WordsAreNumbers DEF IInv, Allocated
    <3> QED BY <3>1 DEF Points
  <2>5. ASSUME NEW b
        PROVE  b \in Targets(StackWords', mem') <=> b \in Targets(StackWords, mem') \cup {a}
    <3>1. b \in Targets(StackWords', mem')
             <=> b \in DOMAIN mem' /\ \E w \in StackWords' : Points(w, b, mem'[b])
      BY InTargets
    <3>2. b \in Targets(StackWords, mem')
             <=> b \in DOMAIN mem' /\ \E w \in StackWords : Points(w, b, mem'[b])
      BY InTargets
    <3> QED BY <1>2, <1>3, <2>1, <2>2, <2>3, <2>4, <3>1, <3>2
  <2> QED BY <1>1, <2>5, FreshTargets
<1>5. Targets(Content(mem'[a]), mem') = {}
  <2>1. Content(mem'[a]) \subseteq {0}
    BY <1>1, MallocFresh, ZeroedWords
  <2>2. \A b \in DOMAIN mem' : ~Points(0, b, mem'[b])
    <3>1. \A b \in DOMAIN mem' : b \in Nat \ {0}
      BY <1>1, MallocFresh, WordsAreNumbers DEF IInv, Allocated
    <3> QED BY <3>1 DEF Points
  <2>3. \A b : b \notin Targets(Content(mem'[a]), mem')
    BY <2>1, <2>2, InTargets
  <2> QED BY <2>3
<1>6. Q \subseteq R \cup {a}
  <2>1. R \cup {a} \subseteq DOMAIN mem'
    BY <1>1, MallocFresh, ReachableClosed DEF Allocated
  <2>2. Closed(R \cup {a}, StackWords', mem')
    BY <1>1, <1>4, <1>5, FreshTargets, ReachableClosed DEF Closed
  <2> QED BY <2>1, <2>2, ClosureLeast DEF Reachable
<1>7. Closed(Q, StackWords', mem')
  BY ClosureClosed DEF Reachable
<1>8. R \subseteq Q
  <2>1. Targets(StackWords, mem) \subseteq R \cap Q
    BY <1>4, <1>7, ReachableClosed DEF Closed
  <2>2. \A b \in R \cap Q : Targets(Content(mem[b]), mem) \subseteq R \cap Q
    BY <1>1, <1>7, FreshTargets, ReachableClosed DEF Closed
  <2>3. R \cap Q \subseteq DOMAIN mem
    BY ReachableClosed DEF Allocated
  <2> QED BY <2>1, <2>2, <2>3, ClosureLeast DEF Closed, Reachable
<1>9. a \in Q
  BY <1>4, <1>7 DEF Closed
<1> QED BY <1>6, <1>8, <1>9

\* A finalizer's allocation is out of reach.
LEMMA FinalizerAllocationUnreached ==
  ASSUME IInv, NEW a \in Places, NEW n \in Sizes, Malloc(a, n), UNCHANGED stack
  PROVE  Reachable' = Reachable /\ StackWords' = StackWords
<1>1. StackWords' = StackWords
  BY DEF StackWords
<1>2. Reachable \subseteq DOMAIN mem'
  BY ReachableClosed, MallocFresh DEF Allocated
<1> QED BY <1>1, <1>2, FreshTargets, ClosureSame DEF Reachable

\* What can be reached stays free of dangling pointers.
LEMMA MallocReachesObjects ==
  ASSUME IInv, NEW a \in Places, NEW n \in Sizes, Malloc(a, n),
         UNCHANGED <<alive, allocating>>,
         Reachable' \subseteq Reachable \cup {a},
         \A v \in Var : stack'[v] = stack[v] \/ stack'[v] = a
  PROVE  ReachesObjects'
<1>1. Allocated' = Allocated \cup {a} /\ \A b \in Allocated : mem'[b] = mem[b]
  BY MallocFresh
<1>2. \A v \in Var : stack'[v] # 0 => stack'[v] \in Allocated'
  BY <1>1 DEF IInv, ReachesObjects
<1>3. Reachable' \subseteq ToSet(list')
  BY MallocListed DEF IInv, ReachesObjects
<1>4. ASSUME NEW b \in Reachable', NEW w \in Content(mem'[b]), w # 0
      PROVE  \E c \in Allocated' : Points(w, c, mem'[c])
  <2>1. Content(mem'[a]) \subseteq {0}
    BY MallocFresh, ZeroedWords
  <2>2. b \in Reachable /\ b \in Allocated
    BY <1>4, <2>1, ReachableClosed
  <2>3. PICK c \in Allocated : Points(w, c, mem[c])
    BY <1>1, <1>4, <2>2 DEF IInv, ReachesObjects
  <2> QED BY <1>1, <2>3
<1> QED BY <1>2, <1>3, <1>4 DEF ReachesObjects

LEMMA AllocateStep ==
  ASSUME IInv, NEW v \in Var, NEW a \in Places, NEW n \in Sizes, Allocate(v, a, n)
  PROVE  IInv'
<1>1. /\ Malloc(a, n) /\ pc = "run" /\ stack' = [stack EXCEPT ![v] = a]
      /\ UNCHANGED <<allocating, alive, pc, i, changed>>
  BY DEF Allocate
<1>2. TypeOK'
  <2>1. Allocated' \subseteq Places /\ mem' \in [Allocated' -> Seq(Nat)]
    BY <1>1, MallocFresh DEF IInv, TypeOK
  <2>2. \A b \in Allocated' : Len(mem'[b]) \in Sizes
    BY <1>1, MallocSizes
  <2>3. finalized' \in [Allocated' -> Nat]
    BY <1>1, MallocFresh
  <2>4. stack' \in [Var -> Nat]
    BY <1>1, MallocFresh DEF IInv, TypeOK
  <2>5. list' \in Seq(Places) /\ i' \in 0..Len(list')
    BY <1>1, MallocListed DEF IInv, TypeOK
  <2>6. allocs' \in 0..MaxAllocs
    BY <1>1, MarkSweepAssumption DEF IInv, TypeOK, Malloc
  <2> QED BY <1>1, <2>1, <2>2, <2>3, <2>4, <2>5, <2>6 DEF IInv, TypeOK, Size
<1>3. Spaced' /\ Listed'
  BY <1>1, MallocSpaced, MallocListed
<1>4. ReachesObjects'
  <2>1. \A u \in Var : stack'[u] = stack[u] \/ stack'[u] = a
    BY <1>1 DEF IInv, TypeOK
  <2> QED BY <1>1, <2>1, AllocateReaches, MallocReachesObjects
<1>5. MarksRight' /\ MarksAll'
  BY <1>1 DEF IInv, MarksRight, MarksAll, Collecting
<1>6. SweepRight'
  BY <1>1, MallocFresh DEF IInv, SweepRight
<1> QED BY <1>2, <1>3, <1>4, <1>5, <1>6 DEF IInv

LEMMA AllocateInFinalizerStep ==
  ASSUME IInv, NEW a \in Places, NEW n \in Sizes, AllocateInFinalizer(a, n)
  PROVE  IInv'
<1>1. /\ Malloc(a, n) /\ pc = "finalizer" /\ allocating /\ UNCHANGED stack
      /\ i' = (IF i = 0 THEN 0 ELSE i + 1)
      /\ UNCHANGED <<allocating, alive, pc, changed>>
  BY DEF AllocateInFinalizer
<1>2. TypeOK'
  <2>1. Allocated' \subseteq Places /\ mem' \in [Allocated' -> Seq(Nat)]
    BY <1>1, MallocFresh DEF IInv, TypeOK
  <2>2. \A b \in Allocated' : Len(mem'[b]) \in Sizes
    BY <1>1, MallocSizes
  <2>3. finalized' \in [Allocated' -> Nat]
    BY <1>1, MallocFresh
  <2>5. list' \in Seq(Places) /\ i' \in 0..Len(list')
    BY <1>1, MallocListed DEF IInv, TypeOK
  <2>6. allocs' \in 0..MaxAllocs
    BY <1>1, MarkSweepAssumption DEF IInv, TypeOK, Malloc
  <2> QED BY <1>1, <2>1, <2>2, <2>3, <2>5, <2>6 DEF IInv, TypeOK, Size
<1>3. Spaced' /\ Listed'
  BY <1>1, MallocSpaced, MallocListed
<1>4. Reachable' = Reachable /\ StackWords' = StackWords
  BY <1>1, FinalizerAllocationUnreached
<1>5. ReachesObjects'
  BY <1>1, <1>4, MallocReachesObjects
<1>6. MarksRight' /\ MarksAll'
  BY <1>1, <1>4, FreshTargets DEF IInv, MarksRight, MarksAll, Collecting
<1>7. SweepRight'
  <2>1. PICK d \in DOMAIN list : DoomedAt(d)
    BY <1>1 DEF IInv, SweepRight
  <2>2. d+1 \in DOMAIN list' /\ list'[d+1] = list[d] /\ d \in Nat
    BY <1>1, MallocListed DEF IInv, TypeOK
  <2>3. i' < d+1
    BY <1>1, <2>1, <2>2 DEF DoomedAt, IInv, TypeOK
  <2>4. ASSUME NEW k \in i'+1..d+1 PROVE list'[k] \notin alive'
    <3>1. CASE k = 1
      <4>1. a \notin alive
        BY <1>1, MallocFresh DEF IInv, Listed
      <4> QED BY <1>1, <3>1, <4>1, MallocListed
    <3>2. CASE k # 1
      <4>1. k-1 \in i+1..d /\ k-1 \in 1..Len(list) /\ (k-1)+1 = k
        BY <1>1, <2>1, <2>2, <3>2 DEF IInv, TypeOK
      <4>2. list'[k] = list[k-1]
        BY <1>1, <4>1, MallocListed
      <4> QED BY <1>1, <2>1, <4>1, <4>2 DEF DoomedAt
    <3> QED BY <3>1, <3>2
  <2>5. \A b \in Allocated' : finalized'[b] = IF b = list'[d+1] THEN 1 ELSE 0
    <3>1. list[d] \in Allocated
      BY DEF IInv, Listed, ToSet
    <3>2. /\ a \notin Allocated /\ Allocated' = Allocated \cup {a} /\ finalized'[a] = 0
          /\ \A b \in Allocated : finalized'[b] = finalized[b]
      BY <1>1, MallocFresh
    <3>3. \A b \in Allocated : finalized[b] = IF b = list[d] THEN 1 ELSE 0
      BY <2>1 DEF DoomedAt
    <3> QED BY <2>2, <3>1, <3>2, <3>3
  <2>6. DoomedAt(d+1)'
    BY <1>1, <2>3, <2>4, <2>5 DEF DoomedAt
  <2> QED BY <1>1, <2>2, <2>6 DEF SweepRight
<1> QED BY <1>2, <1>3, <1>5, <1>6, <1>7 DEF IInv

-----------------------------------------------------------------------------
\* The program's other steps.

LEMMA SameMemory ==
  ASSUME UNCHANGED <<mem, stack>>
  PROVE  /\ Allocated' = Allocated /\ StackWords' = StackWords /\ Reachable' = Reachable
         /\ Spaced' = Spaced
  BY DEF Allocated, StackWords, Reachable, Spaced, Size

LEMMA DropStep ==
  ASSUME IInv, NEW v \in Var, DropVariable(v)
  PROVE  /\ IInv' /\ Reachable' \subseteq Reachable
         /\ Closed(Reachable, StackWords', mem')
<1>1. /\ pc = "run" /\ stack' = [stack EXCEPT ![v] = 0]
      /\ UNCHANGED <<allocating, mem, finalized, allocs, list, alive, pc, i, changed>>
  BY DEF DropVariable, gcVars
<1>2. \A u \in Var : stack'[u] = IF u = v THEN 0 ELSE stack[u]
  BY <1>1 DEF IInv, TypeOK
<1>3. TypeOK' /\ Spaced' /\ Listed'
  <2>1. stack' \in [Var -> Nat]
    BY <1>1 DEF IInv, TypeOK
  <2>2. Allocated' = Allocated
    BY <1>1 DEF Allocated
  <2> QED BY <1>1, <2>1, <2>2 DEF IInv, TypeOK, Spaced, Listed, Size
<1>4. Targets(StackWords', mem) \subseteq Targets(StackWords, mem)
  <2>1. \A w \in StackWords' : w = 0 \/ w \in StackWords
    BY <1>2 DEF StackWords
  <2>2. \A b \in DOMAIN mem : ~Points(0, b, mem[b])
    BY WordsAreNumbers DEF IInv, Points, Allocated
  <2>3. ASSUME NEW b \in Targets(StackWords', mem)
        PROVE  b \in Targets(StackWords, mem)
    <3>1. b \in DOMAIN mem /\ \E w \in StackWords' : Points(w, b, mem[b])
      BY InTargets
    <3> QED BY <2>1, <2>2, <3>1, InTargets
  <2> QED BY <2>3
<1>0. Closed(Reachable, StackWords', mem)
  BY <1>4, ReachableClosed DEF Closed
<1>5. Reachable' \subseteq Reachable
  <2>1. Closure(StackWords', mem) \subseteq Reachable
    BY <1>0, ReachableClosed, ClosureLeast DEF Allocated
  <2> QED BY <1>1, <2>1 DEF Reachable
<1>6. ReachesObjects'
  BY <1>1, <1>2, <1>5 DEF IInv, ReachesObjects, Allocated
<1>7. MarksRight' /\ MarksAll' /\ SweepRight'
  BY <1>1 DEF IInv, MarksRight, MarksAll, SweepRight, Collecting, Allocated
<1> QED BY <1>0, <1>1, <1>3, <1>5, <1>6, <1>7 DEF IInv

\* A word is overwritten with 0 or with a pointer to an object in reach.
LEMMA SetWordStep ==
  ASSUME IInv, NEW v \in Var, NEW k \in Nat, NEW w \in Nat, SetWord(v, k, w),
         w # 0 => \E b \in Reachable : Points(w, b, mem[b])
  PROVE  /\ IInv' /\ Reachable' \subseteq Reachable
         /\ Closed(Reachable, StackWords, mem') /\ DOMAIN mem' = DOMAIN mem
<1> DEFINE x == stack[v]
<1>1. /\ pc = "run" /\ x # 0 /\ k \in 1..Len(mem[x])
      /\ mem' = [mem EXCEPT ![x][k] = w]
      /\ UNCHANGED <<allocating, stack, finalized, allocs, list, alive, pc, i, changed>>
  BY DEF SetWord, gcVars, Size
<1>2. x \in Allocated /\ mem[x] \in Seq(Nat)
  BY <1>1 DEF IInv, ReachesObjects, TypeOK
<1> HIDE DEF x
<1>3. /\ DOMAIN mem' = DOMAIN mem /\ Allocated' = Allocated
      /\ \A b \in Allocated \ {x} : mem'[b] = mem[b]
      /\ mem'[x] = [mem[x] EXCEPT ![k] = w]
  BY <1>1, <1>2 DEF Allocated
<1>4. /\ mem'[x] \in Seq(Nat) /\ Len(mem'[x]) = Len(mem[x])
      /\ Content(mem'[x]) \subseteq Content(mem[x]) \cup {w}
  <2>1. /\ mem'[x] \in Seq(Nat) /\ Len(mem'[x]) = Len(mem[x])
        /\ DOMAIN mem'[x] = DOMAIN mem[x]
        /\ \A m \in DOMAIN mem[x] : mem'[x][m] = IF m = k THEN w ELSE mem[x][m]
    BY <1>1, <1>2, <1>3
  <2> QED BY <2>1 DEF Content
<1>5. \A b \in Allocated : Len(mem'[b]) = Len(mem[b])
  BY <1>3, <1>4
<1>6. \A u, b : b \in Allocated => (Points(u, b, mem'[b]) <=> Points(u, b, mem[b]))
  BY <1>5 DEF Points
<1>7. ASSUME NEW words PROVE Targets(words, mem') = Targets(words, mem)
  <2>1. ASSUME NEW b PROVE b \in Targets(words, mem') <=> b \in Targets(words, mem)
    <3>1. b \in Targets(words, mem')
             <=> b \in DOMAIN mem' /\ \E u \in words : Points(u, b, mem'[b])
      BY InTargets
    <3>2. b \in Targets(words, mem)
             <=> b \in DOMAIN mem /\ \E u \in words : Points(u, b, mem[b])
      BY InTargets
    <3> QED BY <1>3, <1>6, <3>1, <3>2 DEF Allocated
  <2> QED BY <2>1
<1>8. \A b \in Reachable : Targets(Content(mem'[b]), mem) \subseteq Reachable
  <2> SUFFICES ASSUME NEW b \in Reachable, NEW c \in Targets(Content(mem'[b]), mem)
               PROVE  c \in Reachable
    OBVIOUS
  <2>1. PICK u \in Content(mem'[b]) : c \in DOMAIN mem /\ Points(u, c, mem[c])
    BY InTargets
  <2>2. b \in Allocated
    BY ReachableClosed
  <2>3. CASE u \in Content(mem[b])
    <3>1. c \in Targets(Content(mem[b]), mem)
      BY <2>1, <2>3, InTargets
    <3> QED BY <3>1, ReachableClosed
  <2>4. CASE u = w
    <3>1. w # 0
      BY <2>1, <2>4, WordsAreNumbers DEF IInv, Points, Allocated
    <3>2. PICK r \in Reachable : Points(w, r, mem[r])
      BY <3>1
    <3>3. c = r
      BY <2>1, <2>4, <3>2, OnePointed, ReachableClosed DEF IInv, Allocated
    <3> QED BY <3>2, <3>3
  <2> QED BY <1>3, <1>4, <2>1, <2>2, <2>3, <2>4
<1>9. StackWords' = StackWords
  BY <1>1 DEF StackWords
<1>10. Closed(Reachable, StackWords, mem')
  BY <1>7, <1>8, ReachableClosed DEF Closed
<1>11. Reachable' \subseteq Reachable
  BY <1>3, <1>9, <1>10, ClosureLeast, ReachableClosed DEF Allocated, Reachable
<1>12. TypeOK' /\ Spaced' /\ Listed'
  <2>1. mem' \in [Allocated' -> Seq(Nat)]
    BY <1>1, <1>2, <1>3, <1>4 DEF IInv, TypeOK
  <2>2. \A b \in Allocated' : Len(mem'[b]) = Len(mem[b])
    BY <1>3, <1>5
  <2> QED BY <1>1, <1>3, <2>1, <2>2 DEF IInv, TypeOK, Spaced, Listed, Size
<1>13. ReachesObjects'
  <2>1. ASSUME NEW b \in Reachable', NEW u \in Content(mem'[b]), u # 0
        PROVE  \E c \in Allocated' : Points(u, c, mem'[c])
    <3>1. b \in Reachable /\ b \in Allocated
      BY <1>11, ReachableClosed
    <3>2. \E c \in Allocated : Points(u, c, mem[c])
      <4>1. CASE u \in Content(mem[b])
        BY <2>1, <3>1, <4>1 DEF IInv, ReachesObjects
      <4>2. CASE u = w
        BY <2>1, <4>2, ReachableClosed
      <4> QED BY <1>3, <1>4, <2>1, <3>1, <4>1, <4>2
    <3> QED BY <1>3, <1>6, <3>2
  <2>2. Reachable' \subseteq ToSet(list')
    BY <1>1, <1>11 DEF IInv, ReachesObjects
  <2> QED BY <1>1, <1>3, <2>1, <2>2 DEF IInv, ReachesObjects
<1>14. MarksRight' /\ MarksAll' /\ SweepRight'
  BY <1>1, <1>3 DEF IInv, MarksRight, MarksAll, SweepRight, Collecting
<1> QED BY <1>3, <1>10, <1>11, <1>12, <1>13, <1>14 DEF IInv

\* The words that the program writes are such pointers: it has them from its
\* variables, or makes them by going to an object's end.
LEMMA WordsWritten ==
  ASSUME IInv, SetReference \/ ClearReference
  PROVE  \E v \in Var, k \in Nat, w \in Nat :
            /\ SetWord(v, k, w)
            /\ w # 0 => \E b \in Reachable : Points(w, b, mem[b])
<1>0. \A m \in Int : 1..m \subseteq Nat
  OBVIOUS
<1>1. CASE ClearReference
  <2>1. PICK v \in Var, k \in 1..MaxSize : SetWord(v, k, 0)
    BY <1>1 DEF ClearReference
  <2>2. k \in Nat
    <3>1. k \in 1..Len(mem[stack[v]]) /\ stack[v] \in Allocated
      BY <2>1 DEF SetWord, Size, IInv, ReachesObjects
    <3>2. Len(mem[stack[v]]) \in Nat
      BY <3>1, WordsAreNumbers DEF IInv, Size
    <3> QED BY <3>1, <3>2
  <2> QED BY <2>1, <2>2
<1>2. CASE SetReference
  <2>1. PICK v \in Var, u \in Var, k \in 1..MaxSize :
           stack[u] # 0 /\ \E off \in {0, Size(stack[u])} : SetWord(v, k, stack[u] + off)
    BY <1>2 DEF SetReference
  <2>2. PICK off \in {0, Size(stack[u])} : SetWord(v, k, stack[u] + off)
    BY <2>1
  <2>3. k \in Nat
    <3>1. k \in 1..Len(mem[stack[v]]) /\ stack[v] \in Allocated
      BY <2>2 DEF SetWord, Size, IInv, ReachesObjects
    <3>2. Len(mem[stack[v]]) \in Nat
      BY <3>1, WordsAreNumbers DEF IInv, Size
    <3> QED BY <3>1, <3>2
  <2>4. stack[u] \in Allocated /\ stack[u] \in Nat /\ Size(stack[u]) \in Nat
    BY <2>1, WordsAreNumbers DEF IInv, ReachesObjects
  <2>5. Points(stack[u], stack[u], mem[stack[u]])
        /\ Points(stack[u] + off, stack[u], mem[stack[u]])
    BY <2>2, <2>4 DEF Points, Size
  <2>6. stack[u] \in Reachable
    <3>1. stack[u] \in StackWords
      BY DEF StackWords
    <3>2. stack[u] \in Targets(StackWords, mem)
      BY <2>4, <2>5, <3>1, InTargets DEF Allocated
    <3> QED BY <3>2, ReachableClosed
  <2>7. stack[u] + off \in Nat
    BY <2>2, <2>4
  <2> QED BY <2>2, <2>3, <2>5, <2>6, <2>7
<1> QED BY <1>1, <1>2

-----------------------------------------------------------------------------
\* The collection.

LEMMA StartStep == ASSUME IInv, Start PROVE IInv'
<1>1. /\ pc = "run" /\ pc' = "mark" /\ i' = 1 /\ changed' = FALSE
      /\ alive' = Marked(StackWords)
      /\ UNCHANGED <<allocating, mem, stack, finalized, allocs, list>>
  BY DEF Start
<1>2. alive' = Targets(StackWords, mem)
  <2>1. Targets(StackWords, mem) \subseteq ToSet(list)
    BY ReachableClosed DEF IInv, ReachesObjects
  <2> QED BY <1>1, <2>1, MarkedIsTargets, WordsAreNumbers DEF IInv
<1>3. alive' \subseteq Reachable /\ alive' \subseteq ToSet(list)
  BY <1>2, ReachableClosed DEF IInv, ReachesObjects
<1>4. TypeOK' /\ Listed'
  <2>1. alive' \subseteq Places
    BY <1>3, ReachableClosed DEF IInv, TypeOK
  <2>2. i' \in 0..Len(list) + 1
    BY <1>1 DEF IInv, TypeOK
  <2> QED BY <1>1, <1>3, <2>1, <2>2, SameMemory DEF IInv, TypeOK, Listed, Size
<1>5. Spaced' /\ ReachesObjects'
  BY <1>1, SameMemory DEF IInv, ReachesObjects
<1>6. MarksRight'
  <2>1. \A k \in DOMAIN list : ~(k < 1)
    BY DEF IInv, TypeOK
  <2> QED BY <1>1, <1>2, <1>3, <2>1, SameMemory DEF MarksRight, Collecting
<1>7. MarksAll' /\ SweepRight'
  BY <1>1, SameMemory DEF IInv, MarksAll, SweepRight
<1> QED BY <1>4, <1>5, <1>6, <1>7 DEF IInv

LEMMA ListFinite == ASSUME TypeOK PROVE IsFiniteSet(ToSet(list))
<1>1. Len(list) \in Nat /\ DOMAIN list = 1..Len(list)
  BY DEF TypeOK
<1>2. IsFiniteSet(1..Len(list))
  BY <1>1, FS_Interval
<1>3. list \in Surjection(1..Len(list), ToSet(list))
  <2>1. list \in [1..Len(list) -> ToSet(list)]
    BY <1>1 DEF TypeOK, ToSet
  <2> QED BY <1>1, <2>1 DEF Surjection, ToSet
<1> QED BY <1>2, <1>3, FS_Surjection

\* The number of marks stays the same only if no mark was added.
LEMMA NoNewMark ==
  ASSUME TypeOK, NEW S, NEW T, T \subseteq ToSet(list), S \subseteq T,
         Cardinality(T) = Cardinality(S)
  PROVE  S = T
<1>1. IsFiniteSet(T)
  BY ListFinite, FS_Subset
<1> QED BY <1>1, FS_Subset

LEMMA ScanRecordStep == ASSUME IInv, ScanRecord PROVE IInv'
<1> DEFINE r == list[i]
<1>1. /\ pc = "mark" /\ i <= Len(list) /\ i' = i + 1 /\ pc' = pc
      /\ alive' = IF r \in alive THEN alive \cup Marked(Content(mem[r])) ELSE alive
      /\ changed' = (changed \/ Cardinality(alive') # Cardinality(alive))
      /\ UNCHANGED <<mem, stack, finalized, allocs, allocating, list>>
  BY DEF ScanRecord, heapVars
<1>2. r \in alive => Marked(Content(mem[r])) = Targets(Content(mem[r]), mem)
  <2> SUFFICES ASSUME r \in alive
               PROVE  Marked(Content(mem[r])) = Targets(Content(mem[r]), mem)
    OBVIOUS
  <2>1. r \in Reachable /\ r \in Allocated
    BY <1>1, ReachableClosed DEF IInv, MarksRight, Collecting
  <2>2. Targets(Content(mem[r]), mem) \subseteq ToSet(list)
    BY <2>1, ReachableClosed DEF IInv, ReachesObjects
  <2>3. Content(mem[r]) \subseteq Nat
    BY <2>1, WordsAreNumbers DEF IInv
  <2> HIDE DEF r
  <2> QED BY <2>2, <2>3, MarkedIsTargets DEF IInv
<1>3. /\ alive \subseteq alive' /\ alive' \subseteq Reachable /\ alive' \subseteq ToSet(list)
      /\ r \in alive => Targets(Content(mem[r]), mem) \subseteq alive'
  <2>1. alive \subseteq Reachable
    BY <1>1 DEF IInv, MarksRight, Collecting
  <2>2. r \in alive => Targets(Content(mem[r]), mem) \subseteq Reachable
    BY <2>1, ReachableClosed
  <2>3. Reachable \subseteq ToSet(list)
    BY DEF IInv, ReachesObjects
  <2> HIDE DEF r
  <2> QED BY <1>1, <1>2, <2>1, <2>2, <2>3
<1>4. TypeOK' /\ Listed'
  <2>1. alive' \subseteq Places
    BY <1>3, ReachableClosed DEF IInv, TypeOK
  <2>2. i' \in 0..Len(list) + 1
    BY <1>1 DEF IInv, TypeOK
  <2>3. changed' \in BOOLEAN
    BY <1>1 DEF IInv, TypeOK
  <2> QED BY <1>1, <1>3, <2>1, <2>2, <2>3, SameMemory DEF IInv, TypeOK, Listed, Size
<1>5. Spaced' /\ ReachesObjects'
  BY <1>1, SameMemory DEF IInv, ReachesObjects
<1>6. MarksRight'
  <2>1. /\ Collecting /\ Collecting' /\ alive' \subseteq Reachable'
        /\ Targets(StackWords', mem') \subseteq alive'
    BY <1>1, <1>3, SameMemory DEF IInv, MarksRight, Collecting
  <2>2. ASSUME ~changed', NEW k \in DOMAIN list, k < i + 1, list[k] \in alive'
        PROVE  Targets(Content(mem[list[k]]), mem) \subseteq alive'
    <3>1. ~changed /\ alive' = alive
      <4>1. ~changed /\ Cardinality(alive') = Cardinality(alive)
        BY <1>1, <2>2
      <4> QED BY <4>1, <1>3, NoNewMark DEF IInv
    <3>2. CASE k = i
      BY <1>3, <2>2, <3>1, <3>2
    <3>3. CASE k < i
      BY <1>1, <2>2, <3>1, <3>3 DEF IInv, MarksRight
    <3>4. k \in Nat /\ i \in Nat
      BY DEF IInv, TypeOK
    <3> QED BY <2>2, <3>2, <3>3, <3>4
  <2> QED BY <1>1, <2>1, <2>2 DEF MarksRight
<1>7. MarksAll' /\ SweepRight'
  BY <1>1, SameMemory DEF IInv, MarksAll, SweepRight
<1> QED BY <1>4, <1>5, <1>6, <1>7 DEF IInv

\* A pass that has changed nothing has followed every pointer: what is marked
\* is all that can be reached.
LEMMA EndPassStep == ASSUME IInv, EndPass PROVE IInv'
<1>1. /\ pc = "mark" /\ i > Len(list)
      /\ UNCHANGED <<mem, stack, finalized, allocs, allocating, list, alive>>
      /\ changed => changed' = FALSE /\ i' = 1 /\ pc' = "mark"
      /\ ~changed => changed' = changed /\ i' = 0 /\ pc' = "sweep"
  BY DEF EndPass, heapVars
<1>2. /\ Allocated' = Allocated /\ StackWords' = StackWords /\ Reachable' = Reachable
      /\ Spaced' = Spaced
  BY <1>1, SameMemory
<1>3. \A k \in DOMAIN list : k \in Nat /\ k >= 1 /\ k < i
  BY <1>1 DEF IInv, TypeOK
<1>4. ~changed => Reachable \subseteq alive
  <2> SUFFICES ASSUME ~changed PROVE Reachable \subseteq alive
    OBVIOUS
  <2>1. alive \subseteq Allocated /\ alive \subseteq ToSet(list)
        /\ Targets(StackWords, mem) \subseteq alive
    BY <1>1, ReachableClosed DEF IInv, MarksRight, Collecting, Listed
  <2>2. \A k \in DOMAIN list :
           list[k] \in alive => Targets(Content(mem[list[k]]), mem) \subseteq alive
    BY <1>1, <1>3 DEF IInv, MarksRight
  <2>3. \A a \in alive : Targets(Content(mem[a]), mem) \subseteq alive
    BY <2>1, <2>2 DEF ToSet
  <2>4. Closed(alive, StackWords, mem)
    BY <2>1, <2>3 DEF Closed
  <2> QED BY <2>1, <2>4, ClosureLeast DEF Reachable, Allocated
<1>5. TypeOK' /\ Listed'
  <2>1. i' \in 0..Len(list) + (IF pc' = "mark" THEN 1 ELSE 0)
    BY <1>1 DEF IInv, TypeOK
  <2> QED BY <1>1, <1>2, <2>1 DEF IInv, TypeOK, Listed, Size
<1>6. Spaced' /\ ReachesObjects'
  BY <1>1, <1>2 DEF IInv, ReachesObjects
<1>7. MarksRight'
  BY <1>1, <1>2, <1>3 DEF IInv, MarksRight, Collecting
<1>8. MarksAll'
  BY <1>1, <1>2, <1>4 DEF MarksAll
<1>9. SweepRight'
  BY <1>1, <1>2, <1>3 DEF IInv, SweepRight
<1> QED BY <1>5, <1>6, <1>7, <1>8, <1>9 DEF IInv

LEMMA KeepStep == ASSUME IInv, Keep PROVE IInv'
<1>1. /\ pc = "sweep" /\ i < Len(list) /\ list[i+1] \in alive /\ i' = i + 1 /\ pc' = "sweep"
      /\ UNCHANGED <<mem, stack, finalized, allocs, allocating, list, alive, changed>>
  BY DEF Keep, heapVars
<1>2. /\ Allocated' = Allocated /\ StackWords' = StackWords /\ Reachable' = Reachable
      /\ Spaced' = Spaced
  BY <1>1, SameMemory
<1>3. i \in Nat /\ \A k \in DOMAIN list : k \in Nat
  BY DEF IInv, TypeOK
<1>4. TypeOK' /\ Listed'
  <2>1. i' \in 0..Len(list)
    BY <1>1, <1>3 DEF IInv, TypeOK
  <2> QED BY <1>1, <1>2, <2>1 DEF IInv, TypeOK, Listed, Size
<1>5. Spaced' /\ ReachesObjects'
  BY <1>1, <1>2 DEF IInv, ReachesObjects
<1>6. MarksRight' /\ MarksAll'
  BY <1>1, <1>2 DEF IInv, MarksRight, Collecting, MarksAll
<1>7. SweepRight'
  <2>1. \A k \in DOMAIN list : k <= i' => k <= i \/ k = i + 1
    BY <1>1, <1>3
  <2> QED BY <1>1, <1>2, <2>1 DEF IInv, SweepRight
<1> QED BY <1>4, <1>5, <1>6, <1>7 DEF IInv

LEMMA CallFinalizerStep == ASSUME IInv, CallFinalizer PROVE IInv'
<1>1. /\ pc = "sweep" /\ i < Len(list) /\ list[i+1] \notin alive /\ pc' = "finalizer"
      /\ finalized' = [finalized EXCEPT ![list[i+1]] = @ + 1]
      /\ UNCHANGED <<mem, stack, allocs, allocating, list, alive, i, changed>>
  BY DEF CallFinalizer
<1>2. /\ Allocated' = Allocated /\ StackWords' = StackWords /\ Reachable' = Reachable
      /\ Spaced' = Spaced
  BY <1>1, SameMemory
<1>3. i \in Nat /\ i + 1 \in DOMAIN list /\ i + 1 \in Nat
  BY <1>1 DEF IInv, TypeOK
<1>4. list[i+1] \in Allocated
  BY <1>3 DEF IInv, Listed, ToSet
<1>5. /\ finalized' \in [Allocated -> Nat]
      /\ \A a \in Allocated : finalized'[a] = IF a = list[i+1] THEN 1 ELSE 0
  <2>1. finalized \in [Allocated -> Nat] /\ \A a \in Allocated : finalized[a] = 0
    BY <1>1 DEF IInv, TypeOK, SweepRight
  <2> QED BY <1>1, <1>4, <2>1
<1>6. TypeOK' /\ Listed'
  <2>1. i' \in 0..Len(list)
    BY <1>1, <1>3 DEF IInv, TypeOK
  <2> QED BY <1>1, <1>2, <1>5, <2>1 DEF IInv, TypeOK, Listed, Size
<1>7. Spaced' /\ ReachesObjects'
  BY <1>1, <1>2 DEF IInv, ReachesObjects
<1>8. MarksRight' /\ MarksAll'
  BY <1>1, <1>2 DEF IInv, MarksRight, Collecting, MarksAll
<1>9. SweepRight'
  <2>1. \A k \in i+1..i+1 : k = i + 1
    BY <1>3
  <2>2. DoomedAt(i+1)'
    BY <1>1, <1>2, <1>3, <1>5, <2>1 DEF DoomedAt
  <2> QED BY <1>1, <1>2, <1>3, <2>2 DEF IInv, SweepRight
<1> QED BY <1>6, <1>7, <1>8, <1>9 DEF IInv

LEMMA EndSweepStep == ASSUME IInv, EndSweep PROVE IInv'
<1>1. /\ pc = "sweep" /\ pc' = "run" /\ i' = 0 /\ alive' = {}
      /\ UNCHANGED <<mem, stack, finalized, allocs, allocating, list, changed>>
  BY DEF EndSweep, heapVars
<1>2. /\ Allocated' = Allocated /\ StackWords' = StackWords /\ Reachable' = Reachable
      /\ Spaced' = Spaced
  BY <1>1, SameMemory
<1>3. TypeOK' /\ Listed'
  <2>1. i' \in 0..Len(list)
    BY <1>1 DEF IInv, TypeOK
  <2> QED BY <1>1, <1>2, <2>1 DEF IInv, TypeOK, Listed, Size
<1>4. Spaced' /\ ReachesObjects'
  BY <1>1, <1>2 DEF IInv, ReachesObjects
<1>5. MarksRight' /\ MarksAll' /\ SweepRight'
  BY <1>1, <1>2 DEF IInv, MarksRight, Collecting, MarksAll, SweepRight
<1> QED BY <1>3, <1>4, <1>5 DEF IInv

LEMMA ExitStep == ASSUME IInv, Exit PROVE IInv'
<1>1. /\ pc = "run" /\ pc' = "exit"
      /\ UNCHANGED <<mem, stack, finalized, allocs, allocating, list, alive, i, changed>>
  BY DEF Exit, heapVars
<1>2. /\ Allocated' = Allocated /\ StackWords' = StackWords /\ Reachable' = Reachable
      /\ Spaced' = Spaced
  BY <1>1, SameMemory
<1>3. TypeOK' /\ Listed'
  BY <1>1, <1>2 DEF IInv, TypeOK, Listed, Size
<1>4. Spaced' /\ ReachesObjects'
  BY <1>1, <1>2 DEF IInv, ReachesObjects
<1>5. MarksRight' /\ MarksAll' /\ SweepRight'
  BY <1>1, <1>2 DEF IInv, MarksRight, Collecting, MarksAll, SweepRight
<1> QED BY <1>3, <1>4, <1>5 DEF IInv

\* Skipping the records from the link to the one being freed.
Splice(s, m, d) == SubSeq(s, 1, m) \o SubSeq(s, d + 1, Len(s))

LEMMA Spliced ==
  ASSUME NEW S, NEW s \in Seq(S), NEW m \in Nat, NEW d \in 1..Len(s), m < d
  PROVE  /\ Splice(s, m, d) \in Seq(S)
         /\ Len(Splice(s, m, d)) = Len(s) + m - d /\ m <= Len(Splice(s, m, d))
         /\ \A k \in 1..Len(Splice(s, m, d)) :
               Splice(s, m, d)[k] = IF k <= m THEN s[k] ELSE s[k+d-m]
<1> DEFINE t == SubSeq(s, 1, m)
           u == SubSeq(s, d + 1, Len(s))
           r == t \o u
<1>1. t \in Seq(S) /\ Len(t) = m /\ \A k \in 1..m : t[k] = s[k]
  OBVIOUS
<1>2. /\ u \in Seq(S) /\ Len(u) = Len(s) - d
      /\ \A k \in 1..Len(s)-d : u[k] = s[d+k]
  OBVIOUS
<1>0. Splice(s, m, d) = r
  BY DEF Splice
<1> HIDE DEF t, u
<1>3. /\ r \in Seq(S) /\ Len(r) = Len(s) + m - d /\ m <= Len(r)
      /\ \A k \in 1..Len(r) : r[k] = IF k <= m THEN t[k] ELSE u[k-m]
  <2>1. t \in Seq(S) /\ u \in Seq(S) /\ Len(t) = m /\ Len(u) = Len(s) - d
    BY <1>1, <1>2
  <2>2. r \in Seq(S) /\ Len(r) = Len(t) + Len(u)
    BY <2>1
  <2>3. \A k \in 1..Len(t)+Len(u) : r[k] = IF k <= Len(t) THEN t[k] ELSE u[k-Len(t)]
    BY <2>1
  <2> HIDE DEF r
  <2> QED BY <2>1, <2>2, <2>3
<1> HIDE DEF r
<1>4. ASSUME NEW k \in 1..Len(r)
      PROVE  r[k] = IF k <= m THEN s[k] ELSE s[k+d-m]
  <2>1. CASE k <= m
    BY <1>1, <1>3, <2>1
  <2>2. CASE ~(k <= m)
    <3>1. k - m \in 1..Len(s)-d /\ d + (k - m) = k+d-m
      BY <1>3, <2>2
    <3>2. u[k-m] = s[d + (k - m)]
      BY <1>2, <3>1
    <3> QED BY <1>3, <2>2, <3>1, <3>2
  <2> QED BY <2>1, <2>2
<1> QED BY <1>0, <1>3, <1>4

LEMMA DoomedIs ==
  ASSUME IInv, NEW d \in DOMAIN list, DoomedAt(d)
  PROVE  Doomed = d
<1>1. \A k \in DOMAIN list : finalized[list[k]] = 1 <=> list[k] = list[d]
  BY DEF IInv, Listed, ToSet, DoomedAt
<1>2. \A k \in DOMAIN list : list[k] = list[d] => k = d
  BY DEF IInv, Listed
<1> QED BY <1>1, <1>2 DEF Doomed

\* What is freed cannot be reached, and nothing that can points to it.
LEMMA Freed ==
  ASSUME IInv, NEW x \in Allocated \ Reachable, FreeWords(x), UNCHANGED stack
  PROVE  /\ Allocated' = Allocated \ {x} /\ StackWords' = StackWords
         /\ \A b \in Allocated' : mem'[b] = mem[b] /\ finalized'[b] = finalized[b]
         /\ mem' \in [Allocated' -> Seq(Nat)] /\ finalized' \in [Allocated' -> Nat]
         /\ Reachable' = Reachable
         /\ Targets(StackWords, mem') = Targets(StackWords, mem)
<1>1. /\ Allocated' = Allocated \ {x} /\ StackWords' = StackWords
      /\ mem' = [b \in Allocated \ {x} |-> mem[b]]
      /\ finalized' = [b \in Allocated \ {x} |-> finalized[b]]
  BY DEF FreeWords, Allocated, StackWords
<1>2. /\ \A b \in Allocated' : mem'[b] = mem[b] /\ finalized'[b] = finalized[b]
      /\ mem' \in [Allocated' -> Seq(Nat)] /\ finalized' \in [Allocated' -> Nat]
  BY <1>1 DEF IInv, TypeOK
<1>3. Reachable' = Reachable
  <2>1. /\ Reachable \subseteq Allocated \ {x} /\ Allocated \ {x} \subseteq DOMAIN mem
    BY ReachableClosed DEF Allocated
  <2>2. Closure(StackWords, [b \in Allocated \ {x} |-> mem[b]]) = Closure(StackWords, mem)
    BY <2>1, ClosureRestricted DEF Reachable
  <2> QED BY <1>1, <2>2 DEF Reachable
<1>4. Targets(StackWords, mem') = Targets(StackWords, mem)
  <2>1. x \notin Targets(StackWords, mem)
    BY ReachableClosed
  <2>2. ASSUME NEW b
        PROVE  b \in Targets(StackWords, mem') <=> b \in Targets(StackWords, mem)
    <3>1. b \in Targets(StackWords, mem')
             <=> b \in DOMAIN mem' /\ \E w \in StackWords : Points(w, b, mem'[b])
      BY InTargets
    <3>2. b \in Targets(StackWords, mem)
             <=> b \in DOMAIN mem /\ \E w \in StackWords : Points(w, b, mem[b])
      BY InTargets
    <3> QED BY <1>1, <1>2, <2>1, <3>1, <3>2 DEF Allocated
  <2> QED BY <2>2
<1> QED BY <1>1, <1>2, <1>3, <1>4

LEMMA ReleaseStep == ASSUME IInv, Release PROVE IInv'
<1>1. PICK d \in DOMAIN list : DoomedAt(d)
  BY DEF Release, IInv, SweepRight
<1> DEFINE x == list[d]
<1>2. /\ pc = "finalizer" /\ pc' = "sweep" /\ FreeWords(x)
      /\ list' = SubSeq(list, 1, i) \o SubSeq(list, d + 1, Len(list))
      /\ UNCHANGED <<allocating, stack, allocs, alive, i, changed>>
  BY <1>1, DoomedIs DEF Release
<1>3. i < d /\ i \in Nat /\ d \in Nat /\ d \in i+1..d
      /\ \A k \in DOMAIN list : k \in Nat
  BY <1>1 DEF DoomedAt, IInv, TypeOK
<1>4. x \in Allocated /\ x \notin alive
  BY <1>1, <1>3 DEF DoomedAt, IInv, Listed, ToSet
<1>5. Reachable \subseteq alive /\ x \notin Reachable
  BY <1>2, <1>4 DEF IInv, MarksAll
<1> HIDE DEF x
<1>6. /\ Allocated' = Allocated \ {x} /\ StackWords' = StackWords
      /\ \A b \in Allocated' : mem'[b] = mem[b] /\ finalized'[b] = finalized[b]
      /\ mem' \in [Allocated' -> Seq(Nat)] /\ finalized' \in [Allocated' -> Nat]
      /\ Reachable' = Reachable
      /\ Targets(StackWords, mem') = Targets(StackWords, mem)
  BY <1>2, <1>4, <1>5, Freed
<1>7. /\ list' \in Seq(Places) /\ Len(list') = Len(list) + i - d /\ i <= Len(list')
      /\ \A k \in DOMAIN list' :
            list'[k] = IF k <= i THEN list[k] ELSE list[k+d-i]
  <2>1. list \in Seq(Places) /\ d \in 1..Len(list)
    BY DEF IInv, TypeOK
  <2>2. list' = Splice(list, i, d)
    BY <1>2 DEF Splice
  <2>3. /\ list' \in Seq(Places) /\ Len(list') = Len(list) + i - d /\ i <= Len(list')
        /\ \A k \in 1..Len(list') :
              list'[k] = IF k <= i THEN list[k] ELSE list[k+d-i]
    BY ONLY <1>3, <2>1, <2>2, Spliced
  <2> QED BY ONLY <2>3
\* Where each record of the new list was, and where each one kept went.
<1> DEFINE was(k) == IF k <= i THEN k ELSE k+d-i
<1>8. ASSUME NEW k \in DOMAIN list'
      PROVE  /\ was(k) \in DOMAIN list /\ list'[k] = list[was(k)] /\ k \in Nat
             /\ was(k) # d
  <2>1. k \in 1..Len(list) + i - d /\ Len(list) \in Nat /\ d <= Len(list)
    BY <1>7 DEF IInv, TypeOK
  <2> QED BY <1>3, <1>7, <2>1 DEF IInv, TypeOK
<1>9. ASSUME NEW k \in DOMAIN list, k <= i \/ k > d
      PROVE  list[k] \in ToSet(list')
  <2>1. k \in 1..Len(list) /\ Len(list) \in Nat /\ DOMAIN list' = 1..Len(list) + i - d
    BY <1>7 DEF IInv, TypeOK
  <2>2. CASE k <= i
    <3>1. k \in DOMAIN list'
      BY <1>3, <1>7, <2>1, <2>2
    <3> QED BY <1>7, <2>2, <3>1 DEF ToSet
  <2>3. CASE k > d
    <3>1. k+i-d \in DOMAIN list' /\ ~(k+i-d <= i) /\ (k+i-d)+d-i = k
      BY <1>3, <2>1, <2>3
    <3> QED BY <1>7, <3>1 DEF ToSet
  <2> QED BY <1>9, <2>2, <2>3
<1>10. alive \subseteq ToSet(list')
  <2> SUFFICES ASSUME NEW b \in alive PROVE b \in ToSet(list')
    OBVIOUS
  <2>1. PICK k \in DOMAIN list : b = list[k]
    BY DEF IInv, Listed, ToSet
  <2>2. k <= i \/ k > d
    BY <1>1, <1>3, <2>1 DEF DoomedAt
  <2> QED BY <1>9, <2>1, <2>2
<1>11. Listed'
  <2>1. ToSet(list') \subseteq Allocated'
    <3> SUFFICES ASSUME NEW k \in DOMAIN list' PROVE list'[k] \in Allocated \ {x}
      BY <1>6 DEF ToSet
    <3>1. list[was(k)] \in Allocated /\ list[was(k)] # x
      BY <1>8 DEF IInv, Listed, ToSet, x
    <3> QED BY <1>8, <3>1
  <2>2. ~allocating' => ToSet(list') = Allocated'
    <3> SUFFICES ASSUME ~allocating PROVE Allocated' \subseteq ToSet(list')
      BY <1>2, <2>1
    <3> SUFFICES ASSUME NEW b \in Allocated, b # x PROVE b \in ToSet(list')
      BY <1>6
    <3>1. PICK k \in DOMAIN list : b = list[k]
      BY DEF IInv, Listed, ToSet
    <3>2. d = i + 1 /\ k # d
      BY <1>1, <3>1 DEF DoomedAt, x
    <3>3. k <= i \/ k > d
      BY <1>3, <3>2
    <3> QED BY <1>9, <3>1, <3>3
  <2>3. ASSUME NEW j \in DOMAIN list', NEW k \in DOMAIN list', list'[j] = list'[k]
        PROVE  j = k
    <3>1. was(j) = was(k) /\ j \in Nat /\ k \in Nat
      <4> HIDE DEF was
      <4> QED BY <1>8, <2>3 DEF IInv, Listed
    <3> QED BY <1>3, <3>1
  <2> QED BY <1>2, <1>10, <2>1, <2>2, <2>3 DEF Listed
<1>12. TypeOK'
  <2>1. Allocated' \subseteq Places /\ \A b \in Allocated' : Len(mem'[b]) \in Sizes
    BY <1>6 DEF IInv, TypeOK, Size
  <2>2. i' \in 0..Len(list')
    BY <1>2, <1>3, <1>7
  <2> QED BY <1>2, <1>6, <1>7, <2>1, <2>2 DEF IInv, TypeOK, Size
<1>13. Spaced'
  BY <1>6 DEF IInv, Spaced, Size
<1>14. ReachesObjects'
  <2>1. ASSUME NEW v \in Var, stack[v] # 0 PROVE stack[v] \in Allocated'
    <3>1. stack[v] \in Allocated /\ stack[v] \in StackWords
      BY <2>1 DEF IInv, ReachesObjects, StackWords
    <3>2. Points(stack[v], stack[v], mem[stack[v]])
      BY <3>1, WordsAreNumbers DEF IInv, Points, Size
    <3>3. stack[v] \in Reachable
      BY <3>1, <3>2, InTargets, ReachableClosed DEF Allocated
    <3> QED BY <1>5, <1>6, <3>1, <3>3
  <2>2. ASSUME NEW b \in Reachable, NEW w \in Content(mem'[b]), w # 0
        PROVE  \E c \in Allocated' : Points(w, c, mem'[c])
    <3>1. b \in Allocated /\ b # x
      BY <1>5, ReachableClosed
    <3>2. w \in Content(mem[b])
      BY <1>6, <2>2, <3>1
    <3>3. PICK c \in Allocated : Points(w, c, mem[c])
      BY <2>2, <3>2 DEF IInv, ReachesObjects
    <3>4. c \in Targets(Content(mem[b]), mem)
      BY <3>2, <3>3, InTargets DEF Allocated
    <3>5. c \in Reachable
      BY <3>4, ReachableClosed
    <3> QED BY <1>5, <1>6, <3>3, <3>5
  <2>3. Reachable' \subseteq ToSet(list')
    BY <1>5, <1>6, <1>10
  <2> QED BY <1>2, <1>6, <2>1, <2>2, <2>3 DEF ReachesObjects
<1>15. MarksRight' /\ MarksAll'
  BY <1>2, <1>5, <1>6 DEF IInv, MarksRight, Collecting, MarksAll
<1>16. SweepRight'
  <2>1. \A b \in Allocated' : finalized'[b] = 0
    BY <1>1, <1>6 DEF DoomedAt, x
  <2>2. ASSUME ~allocating, NEW k \in DOMAIN list', k <= i PROVE list'[k] \in alive
    BY <1>2, <1>8, <2>2 DEF IInv, SweepRight
  <2> QED BY <1>2, <2>1, <2>2 DEF SweepRight
<1> QED BY <1>11, <1>12, <1>13, <1>14, <1>15, <1>16 DEF IInv

LEMMA StutterStep == ASSUME IInv, UNCHANGED vars PROVE IInv'
<1>1. UNCHANGED <<mem, stack, finalized, allocs, allocating, list, alive, pc, i, changed>>
  BY DEF vars, heapVars, gcVars
<1>2. /\ Allocated' = Allocated /\ StackWords' = StackWords /\ Reachable' = Reachable
      /\ Spaced' = Spaced
  BY <1>1, SameMemory
<1>3. TypeOK' /\ Listed'
  BY <1>1, <1>2 DEF IInv, TypeOK, Listed, Size
<1>4. Spaced' /\ ReachesObjects'
  BY <1>1, <1>2 DEF IInv, ReachesObjects
<1>5. MarksRight' /\ MarksAll' /\ SweepRight'
  BY <1>1, <1>2 DEF IInv, MarksRight, Collecting, MarksAll, SweepRight, DoomedAt
<1> QED BY <1>3, <1>4, <1>5 DEF IInv

LEMMA StepIInv == ASSUME IInv, [Next]_vars PROVE IInv'
<1>1. CASE \E v \in Var, a \in Places, n \in Sizes : Allocate(v, a, n)
  BY <1>1, AllocateStep
<1>2. CASE \E v \in Var : DropVariable(v)
  BY <1>2, DropStep
<1>3. CASE SetReference \/ ClearReference
  BY <1>3, WordsWritten, SetWordStep
<1>4. CASE Exit \/ Start
  BY <1>4, ExitStep, StartStep
<1>5. CASE Collect
  BY <1>5, ScanRecordStep, EndPassStep, KeepStep, CallFinalizerStep, ReleaseStep,
     EndSweepStep DEF Collect
<1>6. CASE \E a \in Places, n \in Sizes : AllocateInFinalizer(a, n)
  BY <1>6, AllocateInFinalizerStep
<1>7. CASE UNCHANGED vars
  BY <1>7, StutterStep
<1> QED BY <1>1, <1>2, <1>3, <1>4, <1>5, <1>6, <1>7 DEF Next

\* The records, the marks and the link stay as the invariant says.
THEOREM Invariant == Spec => []IInv
<1>1. IInv /\ [Next]_vars => IInv'
  BY StepIInv
<1> QED BY InitIInv, <1>1, PTL DEF Spec

-----------------------------------------------------------------------------
\* Each allocation has one record while no finalizer allocates: none is
\* forgotten and none is freed twice.
THEOREM OneRecordEach == Spec => []RecordsKept
<1>1. IInv => RecordsKept
  BY DEF IInv, Listed, RecordsKept, RecordsExact
<1> QED BY <1>1, Invariant, PTL

\* The do loop of gc_collect_impl ends with everything in reach marked.
THEOREM MarkingIsComplete == Spec => []MarksAll
<1>1. IInv => MarksAll
  BY DEF IInv
<1> QED BY <1>1, Invariant, PTL

\* The finalizer runs once, for what is about to be freed and is out of reach.
THEOREM FinalizersRunOnce == Spec => []FinalizedOnce
<1>1. ASSUME IInv PROVE FinalizedOnce
  <2>1. CASE pc # "finalizer"
    BY <1>1, <2>1 DEF IInv, SweepRight, FinalizedOnce
  <2>2. CASE pc = "finalizer"
    <3>1. PICK d \in DOMAIN list : DoomedAt(d)
      BY <1>1, <2>2 DEF IInv, SweepRight
    <3>2. d \in i+1..d
      BY <1>1, <3>1 DEF IInv, TypeOK, DoomedAt
    <3>3. list[d] \notin Reachable
      BY <1>1, <2>2, <3>1, <3>2 DEF DoomedAt, IInv, MarksAll
    <3> QED BY <2>2, <3>1, <3>3 DEF DoomedAt, FinalizedOnce
  <2> QED BY <2>1, <2>2
<1> QED BY <1>1, Invariant, PTL

\* When a collection ends nothing is left that cannot be reached.
THEOREM CollectionsAreComplete == Spec => CollectionComplete
<1>1. ASSUME IInv, [Next]_vars, pc = "sweep", pc' = "run", ~allocating
      PROVE  Allocated = Reachable
  <2>1. EndSweep
    BY <1>1 DEF Next, Allocate, DropVariable, SetReference, ClearReference, SetWord, Exit,
       Start, Collect, ScanRecord, EndPass, Keep, CallFinalizer, Release,
       AllocateInFinalizer, vars, gcVars
  <2>2. \A k \in DOMAIN list : k <= i
    BY <1>1, <2>1 DEF EndSweep, IInv, TypeOK
  <2>3. Allocated \subseteq alive
    BY <1>1, <2>2 DEF IInv, Listed, SweepRight, ToSet
  <2>4. alive \subseteq Reachable
    BY <1>1 DEF IInv, MarksRight, Collecting
  <2> QED BY <2>3, <2>4, ReachableClosed
<1>2. IInv /\ [Next]_vars
         => [pc = "sweep" /\ pc' = "run" /\ ~allocating => Allocated = Reachable]_vars
  BY <1>1
<1> QED BY <1>2, Invariant, PTL DEF Spec, CollectionComplete

-----------------------------------------------------------------------------
\* The program cannot tell: every step is one of ObjectGraph's or changes
\* nothing there.

InReach == [a \in Reachable |-> mem[a]]

LEMMA GraphOperators ==
  /\ \A words, objs : Graph!Targets(words, objs) = Targets(words, objs)
  /\ \A roots, objs : Graph!Closure(roots, objs) = Closure(roots, objs)
  /\ \A w, a, words : Graph!Points(w, a, words) <=> Points(w, a, words)
  /\ \A words : Graph!Content(words) = Content(words)
<1>1. /\ \A w, a, words : Graph!Points(w, a, words) <=> Points(w, a, words)
      /\ \A words : Graph!Content(words) = Content(words)
  BY DEF Graph!Points, Points, Graph!Content, Content
<1>2. \A words, objs : Graph!Targets(words, objs) = Targets(words, objs)
  BY DEF Graph!Targets, Targets, Graph!Points, Points
<1>3. \A S, roots, objs : Graph!Closed(S, roots, objs) <=> Closed(S, roots, objs)
  BY <1>1, <1>2 DEF Graph!Closed, Closed
<1>4. \A roots, objs : Graph!Closure(roots, objs) = Closure(roots, objs)
  BY <1>3 DEF Graph!Closure, Closure
<1> QED BY <1>1, <1>2, <1>4

\* Once a pointer is gone the graph keeps what can still be reached: the same
\* as can be reached in the whole memory.
LEMMA GraphKeeps ==
  ASSUME IInv, IInv', Closed(Reachable, StackWords', mem'), DOMAIN mem' = DOMAIN mem
  PROVE  Graph!Kept(stack', [a \in Reachable |-> mem'[a]]) = InReach'
<1> DEFINE P == [a \in Reachable |-> mem'[a]]
<1>1. Reachable \in SUBSET DOMAIN mem'
  BY ReachableClosed DEF Allocated
<1>2. Reachable' \subseteq Reachable
  BY <1>1, ClosureLeast DEF Reachable
<1>3. Closure(StackWords', P) = Reachable'
  BY <1>1, <1>2, ClosureRestricted DEF Reachable
<1>4. Graph!Closure({stack'[v] : v \in Var}, P) = Reachable'
  BY <1>3, GraphOperators DEF StackWords
<1>5. Graph!Kept(stack', P) = [a \in Reachable' |-> P[a]]
  BY <1>4 DEF Graph!Kept
<1>6. \A a \in Reachable' : P[a] = mem'[a]
  BY <1>2
<1> HIDE DEF P
<1>7. Graph!Kept(stack', P) = InReach'
  BY <1>5, <1>6 DEF InReach
<1> QED BY <1>7 DEF P

LEMMA AllocateCreates ==
  ASSUME IInv, NEW v \in Var, NEW a \in Places, NEW n \in Sizes, Allocate(v, a, n)
  PROVE  Graph!Create(v, InReach, InReach')
<1>1. Malloc(a, n) /\ stack[v] = 0 /\ stack' = [stack EXCEPT ![v] = a] /\ stack'[v] = a
  BY DEF Allocate, IInv, TypeOK
<1>2. Reachable' = Reachable \cup {a} /\ a \notin Reachable
  BY <1>1, AllocateReaches, MallocFresh, ReachableClosed
<1>3. DOMAIN InReach' = DOMAIN InReach \cup {a} /\ DOMAIN InReach = Reachable
  BY <1>2 DEF InReach
<1>4. InReach'[a] = mem'[a] /\ Content(mem'[a]) \subseteq {0}
  BY <1>1, <1>2, MallocFresh, ZeroedWords DEF InReach
<1>5. ASSUME NEW b \in Reachable
      PROVE  /\ InReach'[b] = InReach[b]
             /\ ~Points(a, b, InReach[b]) /\ ~Points(b, a, InReach'[a])
  <2>1. /\ b \in Allocated /\ b \in Nat /\ Size(b) \in Nat
        /\ InReach[b] = mem[b] /\ InReach'[b] = mem'[b]
    BY <1>2, ReachableClosed, WordsAreNumbers DEF InReach, IInv
  <2>2. mem'[b] = mem[b] /\ Len(mem'[a]) = n /\ n \in Nat /\ a \in Nat
    BY <1>1, <2>1, MallocFresh
  <2>3. b + Size(b) < a \/ a + n < b
    BY <1>1, <2>1, MallocFresh DEF Room
  <2> QED BY <1>4, <2>1, <2>2, <2>3 DEF Points, Size
<1> QED BY <1>1, <1>3, <1>4, <1>5, GraphOperators DEF Graph!Create

LEMMA DropDrops ==
  ASSUME IInv, NEW v \in Var, DropVariable(v)
  PROVE  Graph!Drop(v, InReach, InReach')
<1>1. /\ stack[v] # 0 /\ stack' = [stack EXCEPT ![v] = 0] /\ mem' = mem
  BY DEF DropVariable
<1>2. IInv' /\ Closed(Reachable, StackWords', mem')
  BY <1>1, DropStep
<1>3. InReach = [a \in Reachable |-> mem'[a]]
  BY <1>1 DEF InReach
<1>4. Graph!Kept(stack', InReach) = InReach'
  BY <1>1, <1>2, <1>3, GraphKeeps
<1> QED BY <1>1, <1>4 DEF Graph!Drop

LEMMA SetWordSets ==
  ASSUME IInv, NEW v \in Var, NEW k \in Nat, NEW w \in Nat, SetWord(v, k, w),
         w # 0 => \E b \in Reachable : Points(w, b, mem[b])
  PROVE  Graph!Set(v, InReach, InReach')
<1> DEFINE x == stack[v]
           P == [InReach EXCEPT ![x][k] = w]
<1>1. /\ x # 0 /\ k \in 1..Len(mem[x]) /\ w # mem[x][k]
      /\ mem' = [mem EXCEPT ![x][k] = w] /\ stack' = stack
  BY DEF SetWord, Size
<1>2. x \in Allocated /\ x \in StackWords /\ mem[x] \in Seq(Nat)
  BY <1>1 DEF IInv, ReachesObjects, TypeOK, StackWords
<1>3. /\ IInv' /\ Closed(Reachable, StackWords, mem') /\ DOMAIN mem' = DOMAIN mem
  BY SetWordStep
<1>4. StackWords' = StackWords
  BY <1>1 DEF StackWords
<1>5. \A b \in Allocated : (b \in StackWords => b \in Reachable)
  <2>1. \A b \in Allocated : Points(b, b, mem[b])
    BY WordsAreNumbers DEF IInv, Points, Size
  <2>2. \A b \in Allocated : b \in StackWords => b \in Targets(StackWords, mem)
    BY <2>1, InTargets DEF Allocated
  <2> QED BY <2>2, ReachableClosed
<1>6. x \in Reachable
  BY <1>2, <1>5
<1>7. x \in Reachable'
  <2>1. Points(x, x, mem'[x])
    BY <1>2, <1>3, WordsAreNumbers DEF IInv, Points, Size, Allocated
  <2>2. x \in Targets(StackWords', mem')
    BY <1>2, <1>3, <1>4, <2>1, InTargets DEF Allocated
  <2> QED BY <2>2, ClosureClosed DEF Reachable, Closed
<1> HIDE DEF x
<1>8. /\ mem'[x][k] = w /\ InReach'[x] = mem'[x] /\ InReach[x] = mem[x]
      /\ k \in DOMAIN InReach[x]
  BY <1>1, <1>2, <1>6, <1>7 DEF InReach, Allocated
<1>9. InReach # InReach'
  BY <1>1, <1>8
<1>10. P = [a \in Reachable |-> mem'[a]]
  <2>1. P = [a \in Reachable |-> IF a = x THEN [mem[x] EXCEPT ![k] = w] ELSE mem[a]]
    BY <1>6 DEF InReach
  <2>2. \A a \in Reachable : mem'[a] = IF a = x THEN [mem[x] EXCEPT ![k] = w] ELSE mem[a]
    BY <1>1, ReachableClosed DEF Allocated
  <2> HIDE DEF P
  <2> QED BY <2>1, <2>2
<1>11. w # 0 => Graph!Targets({w}, InReach) # {}
  <2> SUFFICES ASSUME w # 0 PROVE Targets({w}, InReach) # {}
    BY GraphOperators
  <2>1. PICK b \in Reachable : Points(w, b, mem[b])
    OBVIOUS
  <2>2. b \in DOMAIN InReach /\ InReach[b] = mem[b]
    BY DEF InReach
  <2>3. b \in Targets({w}, InReach)
    BY <2>1, <2>2, InTargets
  <2> QED BY <2>3
<1>12. Graph!Kept(stack, P) = InReach'
  BY <1>1, <1>3, <1>4, <1>10, GraphKeeps
<1>13. x \in DOMAIN InReach \cap DOMAIN InReach'
  BY <1>6, <1>7 DEF InReach
<1> QED BY <1>1, <1>8, <1>9, <1>11, <1>12, <1>13 DEF Graph!Set, x

LEMMA GraphUnchanged ==
  ASSUME UNCHANGED stack, Reachable' = Reachable, \A a \in Reachable : mem'[a] = mem[a]
  PROVE  UNCHANGED <<stack, InReach>>
  BY DEF InReach

LEMMA CollectorUnseen ==
  ASSUME IInv, Exit \/ Start \/ Collect \/ UNCHANGED vars
               \/ \E a \in Places, n \in Sizes : AllocateInFinalizer(a, n)
  PROVE  UNCHANGED <<stack, InReach>>
<1>1. CASE Release
  <2>1. PICK d \in DOMAIN list : DoomedAt(d)
    BY <1>1 DEF Release, IInv, SweepRight
  <2>2. FreeWords(list[d]) /\ UNCHANGED stack /\ pc = "finalizer"
    BY <1>1, <2>1, DoomedIs DEF Release
  <2>3. d \in i+1..d
    BY <2>1 DEF IInv, TypeOK, DoomedAt
  <2>4. list[d] \in Allocated \ Reachable
    BY <2>1, <2>2, <2>3 DEF DoomedAt, IInv, MarksAll, Listed, ToSet
  <2>5. \A a \in Reachable : a \in Allocated \ {list[d]}
    BY <2>4, ReachableClosed
  <2> QED BY <2>2, <2>4, <2>5, Freed, GraphUnchanged
<1>2. CASE \E a \in Places, n \in Sizes : AllocateInFinalizer(a, n)
  <2>1. PICK a \in Places, n \in Sizes : Malloc(a, n) /\ UNCHANGED stack
    BY <1>2 DEF AllocateInFinalizer
  <2>2. \A b \in Reachable : mem'[b] = mem[b]
    BY <2>1, MallocFresh, ReachableClosed
  <2> QED BY <2>1, <2>2, FinalizerAllocationUnreached, GraphUnchanged
<1>3. CASE UNCHANGED <<mem, stack>>
  BY <1>3, SameMemory, GraphUnchanged
<1>4. Release \/ UNCHANGED <<mem, stack>>
         \/ \E a \in Places, n \in Sizes : AllocateInFinalizer(a, n)
  BY DEF Exit, Start, Collect, ScanRecord, EndPass, Keep, CallFinalizer, EndSweep,
         vars, heapVars
<1> QED BY <1>1, <1>2, <1>3, <1>4

LEMMA StepImplements ==
  ASSUME IInv, [Next]_vars
  PROVE  [Graph!Next]_(Graph!vars)
<1>1. ASSUME NEW v \in Var, \/ Graph!Create(v, InReach, InReach')
                            \/ Graph!Drop(v, InReach, InReach')
                            \/ Graph!Set(v, InReach, InReach')
      PROVE  Graph!Next
  BY <1>1 DEF Graph!Next, InReach
<1>2. CASE \E v \in Var, a \in Places, n \in Sizes : Allocate(v, a, n)
  BY <1>1, <1>2, AllocateCreates
<1>3. CASE \E v \in Var : DropVariable(v)
  BY <1>1, <1>3, DropDrops
<1>4. CASE SetReference \/ ClearReference
  BY <1>1, <1>4, WordsWritten, SetWordSets
<1>5. CASE Exit \/ Start \/ Collect \/ UNCHANGED vars
           \/ \E a \in Places, n \in Sizes : AllocateInFinalizer(a, n)
  BY <1>5, CollectorUnseen DEF Graph!vars, InReach
<1> QED BY <1>2, <1>3, <1>4, <1>5 DEF Next

\* The collector implements a memory without one: for the program, objects in
\* reach never go or change behind its back.
THEOREM CollectorIsInvisible == Spec => ImplementsGraph
<1>1. Init => Graph!Init
  <2> SUFFICES ASSUME Init PROVE InReach = [a \in {} |-> <<>>]
    BY DEF Init, Graph!Init, InReach
  <2>1. Reachable = {}
    BY ReachableClosed DEF Init, Allocated
  <2> QED BY <2>1 DEF InReach
<1>2. IInv /\ [Next]_vars => [Graph!Next]_(Graph!vars)
  BY StepImplements
<1> QED BY <1>1, <1>2, Invariant, PTL DEF Spec, ImplementsGraph, Graph!Spec
=============================================================================
