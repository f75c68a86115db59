---------------------------- MODULE DListProofs -----------------------------
(* The links of DList stay a single acyclic list for every set of addresses  *)
(* and every sequence of commands, and spell out the list of CursorList.     *)
EXTENDS DList, FiniteSetTheorems, SequenceTheorems, TLAPS

\* The inductive invariant: the cursor is live only because the nodes form one
\* list (pop of the last node must leave an empty heap), and the links of a
\* fresh node are right only because the cursor is live.
IInv == TypeOK /\ LinksMutual /\ OneList /\ NoCycle /\ CursorLive

LEMMA InitIInv == Init => IInv
  BY DListAssumption DEF Init, IInv, TypeOK, Pointer, LinksMutual, OneList, NoCycle,
     CursorLive, LinkClosed

LEMMA PushTypes ==
  ASSUME IInv, NEW v \in Value, Push(v)
  PROVE  TypeOK'
  BY DListAssumption DEF IInv, TypeOK, Pointer, Push, NextAfterPush, PrevAfterPush,
     CursorLive

LEMMA PushLinks ==
  ASSUME IInv, NEW v \in Value, Push(v)
  PROVE  LinksMutual' /\ CursorLive'
<1>1. PICK n \in Addr \ heap :
         /\ heap' = heap \cup {n}
         /\ next' = NextAfterPush(n, cur)
         /\ prev' = PrevAfterPush(n, cur)
         /\ cur' = n
  BY DEF Push
<1>2. IF cur = Null THEN heap = {} ELSE cur \in heap
  BY DEF IInv, CursorLive, Push
<1>3. n # Null /\ Null \notin heap /\ n # cur
  BY <1>2, DListAssumption DEF IInv, TypeOK
<1>4. CursorLive'
  BY <1>1, <1>3 DEF CursorLive
<1>5. ASSUME NEW a \in heap'
      PROVE  /\ next'[a] # Null => next'[a] \in heap' /\ prev'[next'[a]] = a
             /\ prev'[a] # Null => prev'[a] \in heap' /\ next'[prev'[a]] = a
  <2>1. CASE a = n
    BY <1>1, <1>2, <1>3, <2>1
    DEF IInv, TypeOK, LinksMutual, NextAfterPush, PrevAfterPush
  <2>2. CASE a # n
    BY <1>1, <1>2, <1>3, <2>2
    DEF IInv, TypeOK, LinksMutual, NextAfterPush, PrevAfterPush
  <2> QED BY <2>1, <2>2
<1> QED BY <1>4, <1>5 DEF LinksMutual

LEMMA PushShape ==
  ASSUME IInv, NEW v \in Value, Push(v)
  PROVE  OneList' /\ NoCycle'
<1>1. PICK n \in Addr \ heap :
         /\ heap' = heap \cup {n}
         /\ next' = NextAfterPush(n, cur)
         /\ prev' = PrevAfterPush(n, cur)
         /\ cur' = n
  BY DEF Push
<1>2. IF cur = Null THEN heap = {} ELSE cur \in heap
  BY DEF IInv, CursorLive, Push
<1>3. n # Null /\ Null \notin heap /\ n # cur /\ heap \subseteq Addr
  BY <1>2, DListAssumption DEF IInv, TypeOK
<1>4. ASSUME NEW S \in SUBSET heap', S # {}, LinkClosed(S)'
      PROVE  S = heap'
  <2> DEFINE T == S \ {n}
  <2>1. T \in SUBSET heap
    BY <1>1
  <2>2. LinkClosed(T)
    BY <1>1, <1>2, <1>3, <1>4, <2>1
    DEF LinkClosed, NextAfterPush, PrevAfterPush, IInv, LinksMutual
  <2>3. CASE cur = Null
    BY <1>1, <1>2, <1>4, <2>3
  <2>4. CASE cur # Null
    <3>1. T # {}
      BY <1>1, <1>2, <1>3, <1>4, <2>4 DEF LinkClosed, NextAfterPush
    <3>2. T = heap
      BY <2>1, <2>2, <3>1 DEF IInv, OneList
    <3>3. prev'[cur] = n
      BY <1>1, <1>2, <1>3, <2>4 DEF PrevAfterPush
    <3>4. n \in S
      BY <1>2, <1>3, <1>4, <2>4, <3>2, <3>3 DEF LinkClosed
    <3> QED BY <1>1, <3>2, <3>4
  <2> QED BY <2>3, <2>4
<1>5. ASSUME NEW S \in SUBSET heap', S # {}
      PROVE  \E a \in S : prev'[a] \notin S
  <2> DEFINE T == S \ {n}
  <2>1. CASE T = {}
    <3>1. S = {n}
      BY <1>5, <2>1
    <3>2. prev'[n] # n
      <4>1. CASE cur = Null
        BY <1>1, <1>3, <4>1 DEF PrevAfterPush
      <4>2. CASE cur # Null
        <5>1. prev'[n] = prev[cur]
          BY <1>1, <4>2 DEF PrevAfterPush
        <5>2. prev[cur] # n
          BY <1>2, <1>3, <4>2 DEF IInv, LinksMutual
        <5> QED BY <5>1, <5>2
      <4> QED BY <4>1, <4>2
    <3> QED BY <3>1, <3>2
  <2>2. CASE T # {}
    <3>1. PICK a \in T : prev[a] \notin T
      BY <1>1, <2>2 DEF IInv, NoCycle
    <3>2. CASE a # cur
      <4>1. prev'[a] = prev[a]
        BY <1>1, <1>3, <3>2 DEF PrevAfterPush
      <4>2. prev[a] # n
        BY <1>1, <1>3, <3>1 DEF IInv, LinksMutual
      <4> QED BY <3>1, <4>1, <4>2
    <3>3. CASE a = cur
      <4>1. cur # Null /\ prev'[cur] = n /\ prev'[n] = prev[cur]
        BY <1>1, <1>2, <1>3, <3>3 DEF PrevAfterPush
      <4>2. prev[cur] # n
        BY <1>2, <1>3, <4>1 DEF IInv, LinksMutual
      <4>3. CASE n \in S
        BY <3>1, <3>3, <4>1, <4>2, <4>3
      <4>4. CASE n \notin S
        BY <3>1, <3>3, <4>1, <4>4
      <4> QED BY <4>3, <4>4
    <3> QED BY <3>2, <3>3
  <2> QED BY <2>1, <2>2
<1>6. OneList'
  BY <1>4 DEF OneList
<1>7. NoCycle'
  BY <1>5 DEF NoCycle
<1> QED BY <1>6, <1>7

LEMMA PopTypes ==
  ASSUME IInv, Pop
  PROVE  TypeOK'
  BY DListAssumption DEF IInv, TypeOK, Pointer, Pop, NextAfterPop, PrevAfterPop,
     CursorAfterPop

LEMMA PopLinks ==
  ASSUME IInv, Pop
  PROVE  LinksMutual' /\ CursorLive'
<1>1. /\ cur \in heap /\ cur # Null
      /\ heap' = heap \ {cur}
      /\ next' = NextAfterPop(cur)
      /\ prev' = PrevAfterPop(cur)
      /\ cur' = CursorAfterPop
  BY DEF Pop, IInv, CursorLive
<1>2. heap \subseteq Addr /\ Null \notin heap
  BY DListAssumption DEF IInv, TypeOK
<1>3. next[cur] # cur /\ prev[cur] # cur
  <2>1. prev[cur] # cur
    <3>1. {cur} \in SUBSET heap /\ {cur} # {}
      BY <1>1
    <3>2. \E a \in {cur} : prev[a] \notin {cur}
      BY <3>1 DEF IInv, NoCycle
    <3> QED BY <3>2
  <2> QED BY <1>1, <2>1 DEF IInv, LinksMutual
<1>4. ASSUME NEW a \in heap'
      PROVE  /\ next'[a] # Null => next'[a] \in heap' /\ prev'[next'[a]] = a
             /\ prev'[a] # Null => prev'[a] \in heap' /\ next'[prev'[a]] = a
  <2>1. next'[a] # Null => next'[a] \in heap' /\ prev'[next'[a]] = a
    BY <1>1, <1>2, <1>3 DEF IInv, LinksMutual, NextAfterPop, PrevAfterPop
  <2>2. prev'[a] # Null => prev'[a] \in heap' /\ next'[prev'[a]] = a
    BY <1>1, <1>2, <1>3 DEF IInv, LinksMutual, NextAfterPop, PrevAfterPop
  <2> QED BY <2>1, <2>2
<1>5. CursorLive'
  <2>1. CASE cur' = Null
    <3>1. next[cur] = Null /\ prev[cur] = Null
      BY <1>1, <2>1 DEF CursorAfterPop
    <3>2. LinkClosed({cur})
      BY <3>1 DEF LinkClosed
    <3>3. heap = {cur}
      BY <1>1, <3>2 DEF IInv, OneList
    <3> QED BY <1>1, <2>1, <3>3 DEF CursorLive
  <2>2. CASE cur' # Null
    <3>1. cur' \in heap /\ cur' # cur
      BY <1>1, <1>3, <2>2 DEF CursorAfterPop, IInv, LinksMutual
    <3> QED BY <1>1, <2>2, <3>1 DEF CursorLive
  <2> QED BY <2>1, <2>2
<1> QED BY <1>4, <1>5 DEF LinksMutual

LEMMA PopShape ==
  ASSUME IInv, Pop
  PROVE  OneList' /\ NoCycle'
<1>1. /\ cur \in heap /\ cur # Null
      /\ heap' = heap \ {cur}
      /\ next' = NextAfterPop(cur)
      /\ prev' = PrevAfterPop(cur)
  BY DEF Pop, IInv, CursorLive
<1>2. heap \subseteq Addr /\ Null \notin heap
  BY DListAssumption DEF IInv, TypeOK
<1>3. ASSUME NEW S \in SUBSET heap', S # {}, LinkClosed(S)'
      PROVE  S = heap'
  <2>1. S \in SUBSET heap /\ cur \notin S
    BY <1>1
  <2>2. CASE \E a \in S : next[a] = cur \/ prev[a] = cur
    \* A neighbour of the popped node is in S: S with the node was closed.
    <3> DEFINE T == S \cup {cur}
    <3>1. /\ next[cur] # Null => next[cur] \in S
          /\ prev[cur] # Null => prev[cur] \in S
      BY <1>1, <1>2, <1>3, <2>1, <2>2
      DEF LinkClosed, NextAfterPop, PrevAfterPop, IInv, LinksMutual
    <3>2. LinkClosed(T)
      BY <1>1, <1>2, <1>3, <2>1, <3>1
      DEF LinkClosed, NextAfterPop, PrevAfterPop, IInv, LinksMutual
    <3>3. T = heap
      BY <1>1, <2>1, <3>2 DEF IInv, OneList
    <3> QED BY <1>1, <2>1, <3>3
  <2>3. CASE ~ \E a \in S : next[a] = cur \/ prev[a] = cur
    <3>1. LinkClosed(S)
      BY <1>1, <1>2, <1>3, <2>1, <2>3
      DEF LinkClosed, NextAfterPop, PrevAfterPop, IInv, LinksMutual
    <3>2. S = heap
      BY <1>3, <2>1, <3>1 DEF IInv, OneList
    <3> QED BY <1>1, <2>1, <3>2
  <2> QED BY <2>2, <2>3
<1>4. ASSUME NEW S \in SUBSET heap', S # {}
      PROVE  \E a \in S : prev'[a] \notin S
  <2>1. S \in SUBSET heap /\ cur \notin S
    BY <1>1
  <2>2. PICK b \in S : prev[b] \notin S
    BY <1>4, <2>1 DEF IInv, NoCycle
  <2>3. CASE b # next[cur]
    BY <1>1, <1>2, <2>1, <2>2, <2>3 DEF PrevAfterPop
  <2>4. CASE b = next[cur] /\ prev[cur] \notin S
    BY <1>1, <1>2, <2>1, <2>2, <2>4 DEF PrevAfterPop
  <2>5. CASE b = next[cur] /\ prev[cur] \in S
    <3> DEFINE T == S \cup {cur}
    <3>1. PICK c \in T : prev[c] \notin T
      BY <1>1, <2>1 DEF IInv, NoCycle
    <3>2. c \in S /\ c # cur /\ prev[c] \notin S
      BY <2>5, <3>1
    <3>3. c # next[cur]
      BY <1>1, <1>2, <3>1, <3>2, <2>1 DEF IInv, LinksMutual
    <3> QED BY <1>1, <1>2, <2>1, <3>2, <3>3 DEF PrevAfterPop
  <2> QED BY <2>3, <2>4, <2>5
<1>5. OneList'
  BY <1>3 DEF OneList
<1>6. NoCycle'
  BY <1>4 DEF NoCycle
<1> QED BY <1>5, <1>6

LEMMA StepIInv == IInv /\ [Next]_vars => IInv'
<1> SUFFICES ASSUME IInv, [Next]_vars PROVE IInv'
  OBVIOUS
<1> USE DEF IInv
<1>1. ASSUME NEW v \in Value, Push(v) PROVE IInv'
  BY <1>1, PushTypes, PushLinks, PushShape
<1>2. CASE Pop
  BY <1>2, PopTypes, PopLinks, PopShape
<1>3. ASSUME UNCHANGED <<heap, next, prev>> PROVE LinksMutual' /\ OneList' /\ NoCycle'
  \* The other commands leave the nodes and their links alone.
  <2>1. LinksMutual'
    BY <1>3 DEF LinksMutual
  <2>2. OneList'
    BY <1>3 DEF OneList, LinkClosed
  <2>3. NoCycle'
    BY <1>3 DEF NoCycle
  <2> QED BY <2>1, <2>2, <2>3
<1>4. ASSUME NEW field \in {next, prev}, Walk(field) PROVE IInv'
  BY <1>3, <1>4 DEF Walk, TypeOK, Pointer, LinksMutual, CursorLive
<1>5. CASE PushOutOfMemory
  BY <1>3, <1>5 DEF PushOutOfMemory, TypeOK, Pointer, CursorLive
<1>6. CASE EndOfInput \/ PopNothing
  BY <1>3, <1>6 DEF EndOfInput, PopNothing, TypeOK, CursorLive
<1>7. CASE UNCHANGED vars
  BY <1>3, <1>7 DEF vars, TypeOK, Pointer, CursorLive
<1> QED
  BY <1>1, <1>2, <1>4, <1>5, <1>6, <1>7 DEF Next, PushExpectNull

\* Every field of every node keeps its type, for every set of addresses.
THEOREM TypeCorrect == Spec => []TypeOK
  BY InitIInv, StepIInv, PTL DEF Spec, IInv

\* However pushes, pops and walks are mixed, the live nodes stay one list that
\* is not a ring, with no link into freed memory: nothing is leaked beside the
\* list main holds.
THEOREM NodesStayWellFormed == Spec => []WellFormed
<1>1. IInv => WellFormed
  BY DEF IInv, WellFormed
<1> QED BY <1>1, InitIInv, StepIInv, PTL DEF Spec

\* main's cursor never dangles while commands are read, and it is NULL only
\* when every node has been freed.
THEOREM CursorStaysLive == Spec => []CursorLive
  BY InitIInv, StepIInv, PTL DEF Spec, IInv

-----------------------------------------------------------------------------
(* The refinement: the nodes in the order of the list.                       *)

\* s numbers the nodes along the links.
InOrder(s, n, nodes, nx, pv) ==
    /\ s \in [1..n -> nodes]
    /\ \A a \in nodes : \E k \in 1..n : s[k] = a
    /\ \A j, k \in 1..n : s[j] = s[k] => j = k
    /\ \A k \in 1..n : nx[s[k]] = IF k = n THEN Null ELSE s[k + 1]
    /\ \A k \in 1..n : pv[s[k]] = IF k = 1 THEN Null ELSE s[k - 1]

Ordered == IsFiniteSet(heap) /\ \E s : InOrder(s, Cardinality(heap), heap, next, prev)

Inserted(s, n, p, a) == [k \in 1..n + 1 |-> IF k < p THEN s[k] ELSE IF k = p THEN a ELSE s[k - 1]]
Removed(s, n, p) == [k \in 1..n - 1 |-> IF k < p THEN s[k] ELSE s[k + 1]]

LEMMA InsertOrder ==
  ASSUME NEW n \in Nat, NEW nodes, NEW nx, NEW pv, NEW s, InOrder(s, n, nodes, nx, pv),
         NEW p \in 1..n + 1, NEW a, a \notin nodes, NEW nx2, NEW pv2,
         nx2[a] = IF p <= n THEN s[p] ELSE Null,
         pv2[a] = IF p > 1 THEN s[p - 1] ELSE Null,
         \A b \in nodes : /\ nx2[b] = IF p > 1 /\ b = s[p - 1] THEN a ELSE nx[b]
                          /\ pv2[b] = IF p <= n /\ b = s[p] THEN a ELSE pv[b]
  PROVE  InOrder(Inserted(s, n, p, a), n + 1, nodes \cup {a}, nx2, pv2)
<1> DEFINE t == Inserted(s, n, p, a)
<1>1. ASSUME NEW k \in 1..n + 1
      PROVE  /\ k < p => k \in 1..n /\ t[k] = s[k] /\ s[k] \in nodes
             /\ k = p => t[k] = a
             /\ k > p => k - 1 \in 1..n /\ t[k] = s[k - 1] /\ s[k - 1] \in nodes
  BY DEF Inserted, InOrder
<1>2. t \in [1..n + 1 -> nodes \cup {a}]
  BY DEF Inserted, InOrder
<1> HIDE DEF t
<1>3. ASSUME NEW b \in nodes \cup {a} PROVE \E k \in 1..n + 1 : t[k] = b
  <2>1. CASE b = a
    BY <2>1, <1>1
  <2>2. CASE b # a
    <3>1. PICK k \in 1..n : s[k] = b
      BY <2>2 DEF InOrder
    <3>2. CASE k < p
      BY <3>1, <3>2, <1>1
    <3>3. CASE k >= p
      <4>1. k + 1 \in 1..n + 1 /\ k + 1 > p /\ (k + 1) - 1 = k
        BY <3>3
      <4> QED BY <4>1, <3>1, <1>1
    <3> QED BY <3>2, <3>3
  <2> QED BY <2>1, <2>2
<1>4. ASSUME NEW j \in 1..n + 1, NEW k \in 1..n + 1, t[j] = t[k] PROVE j = k
  <2>1. \A x, y \in 1..n : s[x] = s[y] => x = y
    BY DEF InOrder
  <2> QED BY <2>1, <1>1, <1>4
<1>5. ASSUME NEW k \in 1..n + 1 PROVE nx2[t[k]] = IF k = n + 1 THEN Null ELSE t[k + 1]
  <2>1. \A x \in 1..n : nx[s[x]] = IF x = n THEN Null ELSE s[x + 1]
    BY DEF InOrder
  <2>2. \A x, y \in 1..n : s[x] = s[y] => x = y
    BY DEF InOrder
  <2>3. CASE k < p
    <3>1. k \in 1..n /\ t[k] = s[k] /\ s[k] \in nodes /\ k + 1 \in 1..n + 1 /\ k # n + 1
      BY <2>3, <1>1
    <3>2. CASE k + 1 = p
      BY <3>1, <3>2, <1>1
    <3>3. CASE k + 1 < p
      <4>1. p - 1 \in 1..n /\ s[k] # s[p - 1]
        BY <3>1, <3>3, <2>2
      <4>2. nx2[s[k]] = s[k + 1] /\ t[k + 1] = s[k + 1]
        BY <4>1, <3>1, <3>3, <2>1, <1>1
      <4> QED BY <4>2, <3>1
    <3> QED BY <2>3, <3>2, <3>3
  <2>4. CASE k = p
    <3>1. t[k] = a
      BY <2>4, <1>1
    <3>2. CASE p = n + 1
      BY <2>4, <3>1, <3>2
    <3>3. CASE p <= n
      <4>1. k + 1 \in 1..n + 1 /\ k + 1 > p /\ (k + 1) - 1 = p /\ k # n + 1
        BY <2>4, <3>3
      <4>2. t[k + 1] = s[p]
        BY <4>1, <1>1
      <4> QED BY <4>1, <4>2, <3>1, <3>3
    <3> QED BY <3>2, <3>3
  <2>5. CASE k > p
    <3>1. k - 1 \in 1..n /\ t[k] = s[k - 1] /\ s[k - 1] \in nodes
      BY <2>5, <1>1
    <3>2. p > 1 => s[k - 1] # s[p - 1]
      BY <3>1, <2>2, <2>5
    <3>3. nx2[t[k]] = nx[s[k - 1]]
      BY <3>1, <3>2
    <3>4. CASE k = n + 1
      BY <3>1, <3>3, <3>4, <2>1
    <3>5. CASE k # n + 1
      <4>1. k + 1 \in 1..n + 1 /\ k + 1 > p /\ (k + 1) - 1 = k /\ k - 1 # n /\ (k - 1) + 1 = k
        BY <2>5, <3>5
      <4>2. t[k + 1] = s[k]
        BY <4>1, <1>1
      <4> QED BY <4>1, <4>2, <3>1, <3>3, <3>5, <2>1
    <3> QED BY <3>4, <3>5
  <2> QED BY <2>3, <2>4, <2>5
<1>6. ASSUME NEW k \in 1..n + 1 PROVE pv2[t[k]] = IF k = 1 THEN Null ELSE t[k - 1]
  <2>1. \A x \in 1..n : pv[s[x]] = IF x = 1 THEN Null ELSE s[x - 1]
    BY DEF InOrder
  <2>2. \A x, y \in 1..n : s[x] = s[y] => x = y
    BY DEF InOrder
  <2>3. CASE k < p
    <3>1. k \in 1..n /\ t[k] = s[k] /\ s[k] \in nodes
      BY <2>3, <1>1
    <3>2. p <= n => s[k] # s[p]
      BY <3>1, <2>2, <2>3
    <3>3. pv2[t[k]] = pv[s[k]]
      BY <3>1, <3>2
    <3>4. k # 1 => k - 1 \in 1..n + 1 /\ k - 1 < p
      BY <2>3
    <3>5. k # 1 => t[k - 1] = s[k - 1]
      BY <3>4, <1>1
    <3> QED BY <3>1, <3>3, <3>5, <2>1
  <2>4. CASE k = p
    <3>1. t[k] = a
      BY <2>4, <1>1
    <3>2. k # 1 => k - 1 \in 1..n + 1 /\ k - 1 < p
      BY <2>4
    <3>3. k # 1 => t[k - 1] = s[k - 1]
      BY <3>2, <1>1
    <3> QED BY <2>4, <3>1, <3>3
  <2>5. CASE k > p
    <3>1. k - 1 \in 1..n /\ t[k] = s[k - 1] /\ s[k - 1] \in nodes /\ k # 1
      BY <2>5, <1>1
    <3>2. CASE k - 1 = p
      BY <3>1, <3>2, <1>1
    <3>3. CASE k - 1 > p
      <4>1. p \in 1..n /\ s[k - 1] # s[p]
        BY <3>1, <3>3, <2>2
      <4>2. pv2[t[k]] = s[(k - 1) - 1]
        BY <4>1, <3>1, <3>3, <2>1
      <4>3. t[k - 1] = s[(k - 1) - 1]
        BY <3>1, <3>3, <1>1
      <4> QED BY <4>2, <4>3, <3>1
    <3> QED BY <2>5, <3>2, <3>3
  <2> QED BY <2>3, <2>4, <2>5
<1> QED BY <1>2, <1>3, <1>4, <1>5, <1>6 DEF InOrder, t

LEMMA RemoveOrder ==
  ASSUME NEW n \in Nat, NEW nodes, NEW nx, NEW pv, NEW s, InOrder(s, n, nodes, nx, pv),
         Null \notin nodes, NEW p \in 1..n, NEW nx2, NEW pv2,
         \A b \in nodes \ {s[p]} : /\ nx2[b] = IF b = pv[s[p]] THEN nx[s[p]] ELSE nx[b]
                                   /\ pv2[b] = IF b = nx[s[p]] THEN pv[s[p]] ELSE pv[b]
  PROVE  InOrder(Removed(s, n, p), n - 1, nodes \ {s[p]}, nx2, pv2)
<1> DEFINE t == Removed(s, n, p)
<1>0. /\ \A x \in 1..n : nx[s[x]] = IF x = n THEN Null ELSE s[x + 1]
      /\ \A x \in 1..n : pv[s[x]] = IF x = 1 THEN Null ELSE s[x - 1]
      /\ \A x, y \in 1..n : s[x] = s[y] => x = y
      /\ \A x \in 1..n : s[x] \in nodes
  BY DEF InOrder
<1>1. ASSUME NEW k \in 1..n - 1
      PROVE  /\ k \in 1..n /\ k + 1 \in 1..n
             /\ k < p => t[k] = s[k] /\ s[k] \in nodes \ {s[p]}
             /\ k >= p => t[k] = s[k + 1] /\ s[k + 1] \in nodes \ {s[p]}
  <2>1. k \in 1..n /\ k + 1 \in 1..n
    OBVIOUS
  <2>2. k < p => t[k] = s[k] /\ s[k] \in nodes \ {s[p]}
    BY <2>1, <1>0 DEF Removed
  <2>3. k >= p => t[k] = s[k + 1] /\ s[k + 1] \in nodes \ {s[p]}
    BY <2>1, <1>0 DEF Removed
  <2> QED BY <2>1, <2>2, <2>3
<1>2. t \in [1..n - 1 -> nodes \ {s[p]}]
  <2>1. \A k \in 1..n - 1 : t[k] \in nodes \ {s[p]}
    <3> HIDE DEF t
    <3> QED BY <1>1
  <2> QED BY <2>1 DEF Removed
<1> HIDE DEF t
<1>3. ASSUME NEW b \in nodes \ {s[p]} PROVE \E k \in 1..n - 1 : t[k] = b
  <2>1. PICK k \in 1..n : s[k] = b
    BY DEF InOrder
  <2>2. CASE k < p
    <3>1. k \in 1..n - 1
      BY <2>2
    <3> QED BY <3>1, <2>1, <2>2, <1>1
  <2>3. CASE k > p
    <3>1. k - 1 \in 1..n - 1 /\ k - 1 >= p /\ (k - 1) + 1 = k
      BY <2>3
    <3> QED BY <3>1, <2>1, <1>1
  <2>4. k # p
    BY <2>1
  <2> QED BY <2>2, <2>3, <2>4
<1>4. ASSUME NEW j \in 1..n - 1, NEW k \in 1..n - 1, t[j] = t[k] PROVE j = k
  BY <1>0, <1>1, <1>4
\* The neighbours of the node that goes.
<1>5. /\ \A x \in 1..n : s[x] = pv[s[p]] <=> x = p - 1
      /\ \A x \in 1..n : s[x] = nx[s[p]] <=> x = p + 1
  BY <1>0
<1>6. ASSUME NEW k \in 1..n - 1 PROVE nx2[t[k]] = IF k = n - 1 THEN Null ELSE t[k + 1]
  <2>1. CASE k < p - 1
    <3>1. t[k] = s[k] /\ s[k] \in nodes \ {s[p]} /\ k \in 1..n
      BY <2>1, <1>1
    <3>2. nx2[t[k]] = s[k + 1]
      BY <2>1, <3>1, <1>0, <1>5
    <3>3. k + 1 \in 1..n - 1 /\ k + 1 < p
      BY <2>1
    <3> QED BY <3>2, <3>3, <1>1
  <2>2. CASE k = p - 1
    <3>1. t[k] = s[k] /\ s[k] \in nodes \ {s[p]} /\ k \in 1..n
      BY <2>2, <1>1
    <3>2. nx2[t[k]] = IF p = n THEN Null ELSE s[p + 1]
      BY <2>2, <3>1, <1>0, <1>5
    <3>3. k # n - 1 => k + 1 \in 1..n - 1 /\ k + 1 = p
      BY <2>2
    <3>4. k # n - 1 => t[k + 1] = s[p + 1]
      BY <3>3, <1>1
    <3> QED BY <2>2, <3>2, <3>4
  <2>3. CASE k >= p
    <3>1. t[k] = s[k + 1] /\ s[k + 1] \in nodes \ {s[p]} /\ k + 1 \in 1..n
      BY <2>3, <1>1
    <3>2. s[k + 1] # pv[s[p]]
      BY <2>3, <3>1, <1>5
    <3>3. nx2[t[k]] = IF k + 1 = n THEN Null ELSE s[(k + 1) + 1]
      BY <3>1, <3>2, <1>0
    <3>4. k # n - 1 => k + 1 \in 1..n - 1 /\ k + 1 >= p
      BY <2>3
    <3>5. k # n - 1 => t[k + 1] = s[(k + 1) + 1]
      BY <3>4, <1>1
    <3> QED BY <3>3, <3>5
  <2> QED BY <2>1, <2>2, <2>3
<1>7. ASSUME NEW k \in 1..n - 1 PROVE pv2[t[k]] = IF k = 1 THEN Null ELSE t[k - 1]
  <2>1. CASE k < p
    <3>1. t[k] = s[k] /\ s[k] \in nodes \ {s[p]} /\ k \in 1..n
      BY <2>1, <1>1
    <3>2. s[k] # nx[s[p]]
      BY <2>1, <3>1, <1>5
    <3>3. pv2[t[k]] = IF k = 1 THEN Null ELSE s[k - 1]
      BY <3>1, <3>2, <1>0
    <3>4. k # 1 => k - 1 \in 1..n - 1 /\ k - 1 < p
      BY <2>1
    <3>5. k # 1 => t[k - 1] = s[k - 1]
      BY <3>4, <1>1
    <3> QED BY <3>3, <3>5
  <2>2. CASE k = p
    <3>1. t[k] = s[k + 1] /\ s[k + 1] \in nodes \ {s[p]} /\ k + 1 \in 1..n
      BY <2>2, <1>1
    <3>2. pv2[t[k]] = IF p = 1 THEN Null ELSE s[p - 1]
      BY <2>2, <3>1, <1>0, <1>5
    <3>3. k # 1 => k - 1 \in 1..n - 1 /\ k - 1 < p
      BY <2>2
    <3>4. k # 1 => t[k - 1] = s[p - 1]
      BY <2>2, <3>3, <1>1
    <3> QED BY <2>2, <3>2, <3>4
  <2>3. CASE k > p
    <3>1. t[k] = s[k + 1] /\ s[k + 1] \in nodes \ {s[p]} /\ k + 1 \in 1..n
      BY <2>3, <1>1
    <3>2. s[k + 1] # nx[s[p]]
      BY <2>3, <3>1, <1>5
    <3>3. pv2[t[k]] = s[k]
      BY <3>1, <3>2, <1>0
    <3>4. k - 1 \in 1..n - 1 /\ k - 1 >= p /\ (k - 1) + 1 = k /\ k # 1
      BY <2>3
    <3>5. t[k - 1] = s[k]
      BY <3>4, <1>1
    <3> QED BY <3>3, <3>4, <3>5
  <2> QED BY <2>1, <2>2, <2>3
<1> QED BY <1>2, <1>3, <1>4, <1>6, <1>7 DEF InOrder, t

\* There is one order only, and NodeAt is it.
LEMMA NodesInOrder ==
  ASSUME TypeOK, NoCycle, Cardinality(heap) \in Nat,
         NEW s, InOrder(s, Cardinality(heap), heap, next, prev)
  PROVE  NodeAt = s
<1> DEFINE n == Cardinality(heap)
<1>1. /\ \A x \in 1..n : next[s[x]] = IF x = n THEN Null ELSE s[x + 1]
      /\ \A x \in 1..n : prev[s[x]] = IF x = 1 THEN Null ELSE s[x - 1]
      /\ \A x \in 1..n : s[x] \in heap
      /\ \A a \in heap : \E k \in 1..n : s[k] = a
      /\ s = [k \in 1..n |-> s[k]] /\ n \in Nat
  BY DEF InOrder
<1>2. Null \notin heap
  BY DListAssumption DEF TypeOK
<1> HIDE DEF n
<1>3. ASSUME NEW k \in 1..n PROVE s[1] = First
  <2>1. s[1] \in heap /\ prev[s[1]] = Null
    BY <1>1
  <2>2. ASSUME NEW a \in heap, prev[a] = Null PROVE a = s[1]
    <3>1. PICK x \in 1..n : s[x] = a
      BY <1>1
    <3>2. x = 1
      <4>1. CASE x # 1
        <5>1. x - 1 \in 1..n
          BY <4>1, <1>1
        <5> QED BY <5>1, <4>1, <3>1, <2>2, <1>1, <1>2
      <4> QED BY <4>1
    <3> QED BY <3>1, <3>2
  <2> QED BY <2>1, <2>2 DEF First
<1> DEFINE along(f) == [k \in Indices |-> IF k = 1 THEN First ELSE next[f[k - 1]]]
<1>4. s = along(s)
  <2>1. Indices = 1..n
    BY DEF Indices, n
  <2>2. ASSUME NEW k \in 1..n PROVE s[k] = IF k = 1 THEN First ELSE next[s[k - 1]]
    <3>1. CASE k = 1
      BY <3>1, <1>3
    <3>2. CASE k # 1
      <4>1. k - 1 \in 1..n /\ k - 1 # n /\ (k - 1) + 1 = k
        BY <3>2, <1>1
      <4> QED BY <4>1, <3>2, <1>1
    <3> QED BY <3>1, <3>2
  <2> QED BY <2>1, <2>2, <1>1
<1>5. NodeAt = along(NodeAt)
  <2>1. NodeAt = CHOOSE f : f = along(f)
    BY DEF NodeAt
  <2>2. \E f : f = along(f)
    BY <1>4
  <2> HIDE DEF along
  <2> QED BY <2>1, <2>2
<1> DEFINE apart == {k \in 1..n : NodeAt[k] # s[k]}
<1>6. apart = {}
  <2> SUFFICES ASSUME apart # {} PROVE FALSE
    OBVIOUS
  <2> DEFINE S == {s[k] : k \in apart}
  <2>1. S \in SUBSET heap /\ S # {}
    <3>1. PICK k : k \in apart
      OBVIOUS
    <3>2. \A j \in apart : s[j] \in heap
      BY <1>1
    <3> HIDE DEF apart
    <3>3. S \subseteq heap
      BY <3>2
    <3>4. s[k] \in S
      BY <3>1
    <3> QED BY <3>3, <3>4
  <2>2. PICK a \in S : prev[a] \notin S
    BY <2>1 DEF NoCycle
  <2>3. PICK k \in apart : a = s[k]
    BY <2>2
  <2>4. k \in Indices /\ NodeAt[k] = (IF k = 1 THEN First ELSE next[NodeAt[k - 1]])
    <3>1. k \in Indices
      BY DEF Indices, n
    <3> QED BY <3>1, <1>5
  <2>5. CASE k = 1
    BY <2>4, <2>5, <1>3
  <2>6. CASE k # 1
    <3>1. k - 1 \in 1..n /\ k - 1 # n /\ (k - 1) + 1 = k
      BY <2>6, <1>1
    <3>2. k - 1 \notin apart
      BY <2>2, <2>3, <2>6, <1>1
    <3>3. NodeAt[k - 1] = s[k - 1]
      BY <3>1, <3>2
    <3> QED BY <3>1, <3>3, <2>4, <2>6, <1>1
  <2> QED BY <2>5, <2>6
<1>7. \A k \in Indices : NodeAt[k] = s[k]
  BY <1>6 DEF Indices, n
<1>8. NodeAt = [k \in Indices |-> NodeAt[k]] /\ s = [k \in Indices |-> s[k]]
  BY <1>4, <1>5
<1> QED BY <1>7, <1>8

-----------------------------------------------------------------------------
(* The list and the cursor that DList implements.                            *)
List == [k \in Indices |-> value[NodeAt[k]]]
Position == IF cur = Null THEN 0 ELSE CHOOSE k \in Indices : NodeAt[k] = cur

OInv == IInv /\ Ordered

\* Values by place, given an order of the nodes.
Values(s, n, val) == [k \in 1..n |-> val[s[k]]]

LEMMA ListIs ==
  ASSUME OInv, NEW s, NEW n, n = Cardinality(heap), InOrder(s, n, heap, next, prev)
  PROVE  /\ n \in Nat /\ IsFiniteSet(heap)
         /\ List = Values(s, n, value) /\ List \in Seq(Int) /\ Len(List) = n
         /\ \A p \in 1..n : cur = s[p] => Position = p
         /\ cur = Null => Position = 0
<1>1. n \in Nat /\ IsFiniteSet(heap) /\ TypeOK /\ NoCycle
  BY FS_CardinalityType DEF OInv, Ordered, IInv
<1>2. NodeAt = s
  BY <1>1, NodesInOrder
<1>3. List = [k \in 1..n |-> value[s[k]]]
  BY <1>2 DEF List, Indices
<1>4. \A k \in 1..n : s[k] \in heap /\ value[s[k]] \in Int
  BY <1>1 DEF InOrder, TypeOK
<1>5. List \in Seq(Int) /\ Len(List) = n
  BY <1>1, <1>3, <1>4
<1>6. ASSUME NEW p \in 1..n, cur = s[p] PROVE Position = p
  <2>1. cur # Null
    BY <1>1, <1>4, <1>6, DListAssumption DEF TypeOK
  <2>2. Position = CHOOSE k \in 1..n : s[k] = s[p]
    BY <1>2, <1>6, <2>1 DEF Position, Indices
  <2>3. \A k \in 1..n : s[k] = s[p] <=> k = p
    BY DEF InOrder
  <2> QED BY <2>2, <2>3
<1> QED BY <1>1, <1>3, <1>5, <1>6 DEF Position, Values

LEMMA InitOrdered == Init => Ordered
<1> SUFFICES ASSUME Init PROVE IsFiniteSet(heap) /\ \E s : InOrder(s, Cardinality(heap), heap, next, prev)
  BY DEF Ordered
<1>1. heap = {} /\ Cardinality(heap) = 0
  BY FS_EmptySet DEF Init
<1>2. InOrder([k \in 1..0 |-> Null], 0, {}, next, prev)
  BY DEF InOrder
<1> QED BY <1>1, <1>2, FS_EmptySet

\* The place of the cursor, and what push does to the order.
LEMMA PushOrder ==
  ASSUME OInv, NEW v \in Value, Push(v), NEW s, NEW n,
         n = Cardinality(heap), InOrder(s, n, heap, next, prev)
  PROVE  \E p \in 1..n + 1, a \in Addr \ heap :
            /\ IF cur = Null THEN n = 0 /\ p = 1 ELSE p <= n /\ cur = s[p]
            /\ heap' = heap \cup {a} /\ cur' = a
            /\ value' = [value EXCEPT ![a] = v]
            /\ IsFiniteSet(heap') /\ Cardinality(heap') = n + 1
            /\ InOrder(Inserted(s, n, p, a), n + 1, heap', next', prev')
<1>1. PICK a \in Addr \ heap :
         /\ heap' = heap \cup {a} /\ cur' = a /\ value' = [value EXCEPT ![a] = v]
         /\ next' = NextAfterPush(a, cur) /\ prev' = PrevAfterPush(a, cur)
  BY DEF Push
<1>2. /\ n \in Nat /\ IsFiniteSet(heap) /\ heap \subseteq Addr /\ Null \notin heap
      /\ IF cur = Null THEN heap = {} ELSE cur \in heap
      /\ LinksMutual
  BY FS_CardinalityType, DListAssumption DEF OInv, Ordered, IInv, TypeOK, CursorLive, Push
<1>3. IsFiniteSet(heap') /\ Cardinality(heap') = n + 1
  BY <1>1, <1>2, FS_AddElement
<1>4. PICK p \in 1..n + 1 : IF cur = Null THEN n = 0 /\ p = 1 ELSE p <= n /\ cur = s[p]
  <2>1. CASE cur = Null
    BY <2>1, <1>2, FS_EmptySet
  <2>2. CASE cur # Null
    <3>1. PICK k \in 1..n : s[k] = cur
      BY <2>2, <1>2 DEF InOrder
    <3> QED BY <2>2, <3>1, <1>2
  <2> QED BY <2>1, <2>2
<1>5. /\ \A x \in 1..n : prev[s[x]] = IF x = 1 THEN Null ELSE s[x - 1]
      /\ \A x \in 1..n : s[x] \in heap
  BY DEF InOrder
<1>6. p <= n => cur = s[p] /\ cur # Null /\ cur \in heap
  BY <1>2, <1>4
<1>7. p > n => cur = Null /\ n = 0 /\ heap = {}
  BY <1>2, <1>4
<1>8. p <= n => prev[cur] = IF p = 1 THEN Null ELSE s[p - 1]
  BY <1>5, <1>6
<1>9. /\ next'[a] = IF p <= n THEN s[p] ELSE Null
      /\ prev'[a] = IF p > 1 THEN s[p - 1] ELSE Null
  <2>1. next'[a] = cur /\ prev'[a] = (IF cur = Null THEN Null ELSE prev[cur])
    BY <1>1 DEF NextAfterPush, PrevAfterPush
  <2>2. CASE p <= n
    BY <2>1, <2>2, <1>6, <1>8
  <2>3. CASE p > n
    BY <2>1, <2>3, <1>7, <1>4
  <2> QED BY <2>2, <2>3, <1>2
<1>10. ASSUME NEW b \in heap
       PROVE  /\ next'[b] = IF p > 1 /\ b = s[p - 1] THEN a ELSE next[b]
              /\ prev'[b] = IF p <= n /\ b = s[p] THEN a ELSE prev[b]
  <2>1. p <= n
    <3>1. heap # {} /\ n \in Int /\ p \in Int
      BY <1>2
    <3> QED BY <3>1, <1>7
  <2>2. /\ next'[b] = IF b = prev[cur] THEN a ELSE next[b]
        /\ prev'[b] = IF b = cur THEN a ELSE prev[b]
    BY <2>1, <1>1, <1>2, <1>6 DEF NextAfterPush, PrevAfterPush
  <2> QED BY <2>1, <2>2, <1>2, <1>6, <1>8
<1>11. InOrder(Inserted(s, n, p, a), n + 1, heap \cup {a}, next', prev')
  BY <1>1, <1>2, <1>9, <1>10, InsertOrder
<1> QED BY <1>1, <1>3, <1>4, <1>11

LEMMA PopOrder ==
  ASSUME OInv, Pop, NEW s, NEW n, n = Cardinality(heap), InOrder(s, n, heap, next, prev)
  PROVE  \E p \in 1..n :
            /\ cur = s[p] /\ heap' = heap \ {cur}
            /\ IsFiniteSet(heap') /\ Cardinality(heap') = n - 1
            /\ InOrder(Removed(s, n, p), n - 1, heap', next', prev')
            /\ cur' = IF p > 1 THEN s[p - 1] ELSE IF n > 1 THEN s[2] ELSE Null
<1>1. /\ heap' = heap \ {cur} /\ cur' = CursorAfterPop
      /\ next' = NextAfterPop(cur) /\ prev' = PrevAfterPop(cur) /\ cur # Null
  BY DEF Pop
<1>2. /\ n \in Nat /\ IsFiniteSet(heap) /\ heap \subseteq Addr /\ Null \notin heap /\ cur \in heap
  BY <1>1, FS_CardinalityType, DListAssumption DEF OInv, Ordered, IInv, TypeOK, CursorLive, Pop
<1>3. IsFiniteSet(heap') /\ Cardinality(heap') = n - 1
  BY <1>1, <1>2, FS_RemoveElement
<1>4. PICK p \in 1..n : s[p] = cur
  BY <1>2 DEF InOrder
<1>5. ASSUME NEW b \in heap \ {s[p]}
      PROVE  /\ next'[b] = IF b = prev[s[p]] THEN next[s[p]] ELSE next[b]
             /\ prev'[b] = IF b = next[s[p]] THEN prev[s[p]] ELSE prev[b]
  BY <1>1, <1>2, <1>4 DEF NextAfterPop, PrevAfterPop
<1>6. InOrder(Removed(s, n, p), n - 1, heap \ {s[p]}, next', prev')
  BY <1>2, <1>5, RemoveOrder
<1>7. cur' = IF p > 1 THEN s[p - 1] ELSE IF n > 1 THEN s[2] ELSE Null
  <2>1. /\ prev[cur] = IF p = 1 THEN Null ELSE s[p - 1]
        /\ next[cur] = IF p = n THEN Null ELSE s[p + 1]
        /\ \A x \in 1..n : s[x] \in heap
    BY <1>4 DEF InOrder
  <2>2. cur' = IF prev[cur] = Null THEN next[cur] ELSE prev[cur]
    BY <1>1 DEF CursorAfterPop
  <2>3. CASE p > 1
    BY <2>1, <2>2, <2>3, <1>2
  <2>4. CASE p = 1
    BY <2>1, <2>2, <2>4, <1>2
  <2> QED BY <2>3, <2>4
<1> QED BY <1>1, <1>3, <1>4, <1>6, <1>7

-----------------------------------------------------------------------------
(* What the orders mean for the values: the sequences of CursorList.         *)

LEMMA Joined ==
  ASSUME NEW l1 \in Seq(Int), NEW l2 \in Seq(Int), NEW m \in Seq(Int),
         Len(m) = Len(l1) + Len(l2),
         \A k \in 1..Len(l1) : m[k] = l1[k],
         \A k \in 1..Len(l2) : m[Len(l1) + k] = l2[k]
  PROVE  m = l1 \o l2
<1> DEFINE joined == l1 \o l2
<1>1. /\ joined \in Seq(Int) /\ Len(joined) = Len(l1) + Len(l2)
      /\ \A k \in 1..Len(l1) + Len(l2) :
            joined[k] = IF k <= Len(l1) THEN l1[k] ELSE l2[k - Len(l1)]
  BY ConcatProperties
<1> HIDE DEF joined
<1>2. Len(l1) \in Nat /\ Len(l2) \in Nat
  OBVIOUS
<1>3. ASSUME NEW k \in 1..Len(m) PROVE m[k] = joined[k]
  <2>1. CASE k <= Len(l1)
    BY <2>1, <1>1, <1>2
  <2>2. CASE k > Len(l1)
    <3>1. k - Len(l1) \in 1..Len(l2) /\ Len(l1) + (k - Len(l1)) = k
      BY <2>2, <1>2
    <3>2. m[k] = l2[k - Len(l1)]
      BY <3>1
    <3>3. joined[k] = l2[k - Len(l1)]
      BY <2>2, <1>1, <1>2
    <3> QED BY <3>2, <3>3
  <2> QED BY <2>1, <2>2, <1>2
<1>4. m = joined
  BY <1>1, <1>3, SeqEqual
<1> QED BY <1>4 DEF joined

LEMMA InsertedValues ==
  ASSUME NEW l \in Seq(Int), NEW v \in Int, NEW p \in 1..Len(l) + 1,
         NEW m \in Seq(Int), Len(m) = Len(l) + 1,
         \A k \in 1..Len(l) + 1 : m[k] = IF k < p THEN l[k] ELSE IF k = p THEN v ELSE l[k - 1]
  PROVE  m = SubSeq(l, 1, p - 1) \o <<v>> \o SubSeq(l, p, Len(l))
<1> DEFINE front == SubSeq(l, 1, p - 1)
           back == SubSeq(l, p, Len(l))
           head == SubSeq(m, 1, p)
<1>1. Len(l) \in Nat /\ p - 1 \in 0..Len(l)
  OBVIOUS
<1>2. /\ front \in Seq(Int) /\ Len(front) = p - 1
      /\ \A k \in 1..p - 1 : front[k] = l[k]
  BY <1>1, SubSeqProperties
<1>3. /\ back \in Seq(Int) /\ Len(back) = Len(l) - p + 1
      /\ \A k \in 1..Len(l) - p + 1 : back[k] = l[p + k - 1]
  BY <1>1, SubSeqProperties
<1>4. /\ head \in Seq(Int) /\ Len(head) = p
      /\ \A k \in 1..p : head[k] = m[k]
  BY <1>1, SubSeqProperties
<1>5. <<v>> \in Seq(Int) /\ Len(<<v>>) = 1 /\ <<v>>[1] = v
  OBVIOUS
<1> HIDE DEF front, back, head
<1>6. head = front \o <<v>>
  <2>1. ASSUME NEW k \in 1..Len(front) PROVE head[k] = front[k]
    <3>1. k \in 1..p - 1 /\ k \in 1..p /\ k \in 1..Len(l) + 1 /\ k < p
      BY <1>1, <1>2
    <3>2. m[k] = l[k]
      BY <3>1
    <3>3. front[k] = l[k] /\ head[k] = m[k]
      BY <3>1, <1>2, <1>4
    <3> QED BY <3>2, <3>3
  <2>2. \A k \in 1..Len(<<v>>) : head[Len(front) + k] = <<v>>[k]
    BY <1>1, <1>2, <1>4, <1>5
  <2>3. Len(head) = Len(front) + Len(<<v>>)
    BY <1>1, <1>2, <1>4, <1>5
  <2> QED BY <2>1, <2>2, <2>3, <1>2, <1>4, <1>5, Joined
<1>7. m = head \o back
  <2>1. \A k \in 1..Len(head) : m[k] = head[k]
    BY <1>4
  <2>2. ASSUME NEW k \in 1..Len(back) PROVE m[Len(head) + k] = back[k]
    <3>1. PICK x \in 1..Len(l) + 1 : x = p + k /\ x > p /\ x - 1 = p + k - 1
      BY <1>1, <1>3
    <3>2. m[x] = l[x - 1]
      <4>1. ~(x < p) /\ x # p
        BY <3>1, <1>1
      <4>2. m[x] = IF x < p THEN l[x] ELSE IF x = p THEN v ELSE l[x - 1]
        OBVIOUS
      <4> QED BY <4>1, <4>2
    <3>3. back[k] = l[x - 1]
      BY <3>1, <1>3
    <3> QED BY <3>1, <3>2, <3>3, <1>4
  <2>3. Len(m) = Len(head) + Len(back)
    BY <1>1, <1>3, <1>4
  <2> QED BY <2>1, <2>2, <2>3, <1>3, <1>4, Joined
<1> QED BY <1>6, <1>7 DEF front, back

LEMMA RemovedValues ==
  ASSUME NEW l \in Seq(Int), NEW p \in 1..Len(l),
         NEW m \in Seq(Int), Len(m) = Len(l) - 1,
         \A k \in 1..Len(l) - 1 : m[k] = IF k < p THEN l[k] ELSE l[k + 1]
  PROVE  m = SubSeq(l, 1, p - 1) \o SubSeq(l, p + 1, Len(l))
<1> DEFINE front == SubSeq(l, 1, p - 1)
           back == SubSeq(l, p + 1, Len(l))
<1>1. Len(l) \in Nat /\ p - 1 \in 0..Len(l)
  OBVIOUS
<1>2. /\ front \in Seq(Int) /\ Len(front) = p - 1
      /\ \A k \in 1..p - 1 : front[k] = l[k]
  BY <1>1, SubSeqProperties
<1>3. /\ back \in Seq(Int) /\ Len(back) = Len(l) - p
      /\ \A k \in 1..Len(l) - p : back[k] = l[p + k]
  BY <1>1, SubSeqProperties
<1> HIDE DEF front, back
<1>4. ASSUME NEW k \in 1..Len(front) PROVE m[k] = front[k]
  <2>1. k \in 1..p - 1 /\ k \in 1..Len(l) - 1 /\ k < p
    BY <1>1, <1>2
  <2>2. m[k] = l[k]
    BY <2>1
  <2>3. front[k] = l[k]
    BY <2>1, <1>2
  <2> QED BY <2>2, <2>3
<1>5. ASSUME NEW k \in 1..Len(back) PROVE m[Len(front) + k] = back[k]
  <2>1. PICK x \in 1..Len(l) - 1 : x = (p - 1) + k /\ x >= p /\ x + 1 = p + k
    BY <1>1, <1>3
  <2>2. m[x] = l[x + 1]
    <3>1. ~(x < p)
      BY <2>1, <1>1
    <3>2. m[x] = IF x < p THEN l[x] ELSE l[x + 1]
      OBVIOUS
    <3> QED BY <3>1, <3>2
  <2>3. back[k] = l[x + 1]
    BY <2>1, <1>3
  <2> QED BY <2>1, <2>2, <2>3, <1>2
<1>6. Len(m) = Len(front) + Len(back)
  BY <1>1, <1>2, <1>3
<1>7. m = front \o back
  BY <1>2, <1>3, <1>4, <1>5, <1>6, Joined
<1> QED BY <1>7 DEF front, back

-----------------------------------------------------------------------------
(* Every step keeps an order.                                                *)

LEMMA StepOInv == OInv /\ [Next]_vars => OInv'
<1> SUFFICES ASSUME OInv, [Next]_vars PROVE Ordered'
  BY StepIInv DEF OInv
<1>1. PICK s : InOrder(s, Cardinality(heap), heap, next, prev)
  BY DEF OInv, Ordered
<1>2. CASE \E v \in Value : Push(v)
  <2>1. PICK v \in Value : Push(v)
    BY <1>2
  <2>2. IsFiniteSet(heap') /\ \E t : InOrder(t, Cardinality(heap'), heap', next', prev')
    BY <1>1, <2>1, PushOrder
  <2> QED BY <2>2 DEF Ordered
<1>3. CASE Pop
  <2>1. IsFiniteSet(heap') /\ \E t : InOrder(t, Cardinality(heap'), heap', next', prev')
    BY <1>1, <1>3, PopOrder
  <2> QED BY <2>1 DEF Ordered
<1>4. CASE UNCHANGED <<heap, next, prev>>
  BY <1>4 DEF OInv, Ordered
<1>5. \/ \E v \in Value : Push(v)
      \/ Pop
      \/ UNCHANGED <<heap, next, prev>>
  BY DEF Next, PushOutOfMemory, PushExpectNull, PopNothing, Walk, EndOfInput, vars
<1> QED BY <1>2, <1>3, <1>4, <1>5

LEMMA AlwaysOrdered == Spec => []OInv
<1>1. Init => OInv
  BY InitIInv, InitOrdered DEF OInv
<1> QED BY <1>1, StepOInv, PTL DEF Spec

\* ListIs, for the state after a step as well.
Reading(s) ==
    LET n == Cardinality(heap)
    IN  InOrder(s, n, heap, next, prev) =>
           /\ n \in Nat
           /\ List = Values(s, n, value) /\ List \in Seq(Int) /\ Len(List) = n
           /\ \A p \in 1..n : cur = s[p] => Position = p
           /\ cur = Null => Position = 0

LEMMA Readings == OInv => \A s : Reading(s)
<1> SUFFICES ASSUME OInv, NEW s, InOrder(s, Cardinality(heap), heap, next, prev)
             PROVE  Reading(s)
  BY DEF Reading
<1> QED BY ListIs DEF Reading

LEMMA NextReadings == OInv' => \A s : Reading(s)'
<1>1. (OInv => \A s : Reading(s))'
  BY Readings, PTL
<1> QED BY <1>1

-----------------------------------------------------------------------------
(* Every step of DList is one of CursorList, or leaves the list alone.       *)

LEMMA InitMaps == Init => Abstract!Init
<1> SUFFICES ASSUME Init PROVE Abstract!Init
  OBVIOUS
<1>1. Indices = {}
  BY FS_EmptySet DEF Init, Indices
<1>2. List = <<>> /\ Position = 0
  BY <1>1 DEF Init, List, Position
<1> QED BY <1>2 DEF Init, Abstract!Init, List, Position

LEMMA PushMaps ==
  ASSUME OInv, OInv', NEW v \in Value, Push(v)
  PROVE  Abstract!Push(v)
<1>1. PICK s : InOrder(s, Cardinality(heap), heap, next, prev)
  BY DEF OInv, Ordered
<1> DEFINE n == Cardinality(heap)
<1>2. /\ n \in Nat /\ List = Values(s, n, value) /\ List \in Seq(Int) /\ Len(List) = n
      /\ \A p \in 1..n : cur = s[p] => Position = p
  BY <1>1, Readings DEF Reading
<1>3. PICK p \in 1..n + 1, a \in Addr \ heap :
         /\ IF cur = Null THEN n = 0 /\ p = 1 ELSE p <= n /\ cur = s[p]
         /\ heap' = heap \cup {a} /\ cur' = a
         /\ value' = [value EXCEPT ![a] = v]
         /\ IsFiniteSet(heap') /\ Cardinality(heap') = n + 1
         /\ InOrder(Inserted(s, n, p, a), n + 1, heap', next', prev')
  BY <1>1, PushOrder
<1>4. PICK t : t = Inserted(s, n, p, a)
  OBVIOUS
<1>5. InOrder(t, Cardinality(heap'), heap', next', prev')
  BY <1>3, <1>4
<1>6. /\ List' = Values(t, Cardinality(heap'), value') /\ List' \in Seq(Int)
      /\ Len(List') = Cardinality(heap')
      /\ \A k \in 1..Cardinality(heap') : cur' = t[k] => Position' = k
  BY <1>5, NextReadings DEF Reading
<1> HIDE DEF n
<1>7. Position' = p
  <2>1. t[p] = a
    BY <1>4 DEF Inserted
  <2> QED BY <2>1, <1>3, <1>6
<1>8. Position' = IF List = <<>> THEN 1 ELSE Position
  <2>1. CASE cur = Null
    <3>1. List = <<>>
      BY <2>1, <1>2, <1>3
    <3> QED BY <3>1, <2>1, <1>3, <1>7
  <2>2. CASE cur # Null
    <3>1. p \in 1..n /\ cur = s[p]
      BY <2>2, <1>2, <1>3
    <3>2. List # <<>> /\ Position = p
      BY <3>1, <1>2
    <3> QED BY <3>2, <1>7
  <2> QED BY <2>1, <2>2
<1>9. List' = SubSeq(List, 1, p - 1) \o <<v>> \o SubSeq(List, p, Len(List))
  <2>1. ASSUME NEW k \in 1..n + 1
        PROVE  List'[k] = IF k < p THEN List[k] ELSE IF k = p THEN v ELSE List[k - 1]
    <3>1. List'[k] = value'[t[k]]
      BY <1>3, <1>6 DEF Values
    <3>2. value \in [Addr -> Int] /\ heap \subseteq Addr
      BY DEF OInv, IInv, TypeOK
    <3>3. \A x \in 1..n : s[x] \in heap /\ s[x] # a /\ List[x] = value[s[x]] /\ value'[s[x]] = value[s[x]]
      BY <3>2, <1>1, <1>2, <1>3 DEF InOrder, Values, n
    <3>4. CASE k < p
      BY <3>1, <3>3, <3>4, <1>2, <1>4 DEF Inserted
    <3>5. CASE k = p
      <4>1. t[k] = a
        BY <3>5, <1>4 DEF Inserted
      <4> QED BY <4>1, <3>1, <3>2, <3>5, <1>3
    <3>6. CASE k > p
      <4>1. k - 1 \in 1..n /\ t[k] = s[k - 1]
        BY <3>6, <1>2, <1>4 DEF Inserted
      <4> QED BY <4>1, <3>1, <3>3, <3>6
    <3> QED BY <3>4, <3>5, <3>6, <1>2
  <2>2. v \in Int
    BY DListAssumption
  <2>3. Len(List') = Len(List) + 1
    BY <1>2, <1>3, <1>6
  <2>4. PICK l \in Seq(Int), m \in Seq(Int) : l = List /\ m = List'
    BY <1>2, <1>6
  <2>5. /\ Len(m) = Len(l) + 1 /\ Len(l) = n
        /\ \A k \in 1..Len(l) + 1 : m[k] = IF k < p THEN l[k] ELSE IF k = p THEN v ELSE l[k - 1]
    BY <2>1, <2>3, <2>4, <1>2
  <2>6. p \in 1..Len(l) + 1
    BY <2>5
  <2>7. m = SubSeq(l, 1, p - 1) \o <<v>> \o SubSeq(l, p, Len(l))
    BY <2>2, <2>5, <2>6, InsertedValues
  <2> QED BY <2>4, <2>7
<1>10. Len(List) < Cardinality(Addr)
  <2>1. IsFiniteSet(Addr) /\ heap' \subseteq Addr
    BY DListAssumption DEF OInv, IInv, TypeOK
  <2>2. Cardinality(heap') <= Cardinality(Addr) /\ Cardinality(Addr) \in Nat
    BY <2>1, FS_Subset, FS_CardinalityType
  <2> QED BY <2>2, <1>2, <1>3
<1>11. exit = "run" /\ printed' = printed /\ exit' = exit
  BY DEF Push
<1> QED BY <1>7, <1>8, <1>9, <1>10, <1>11 DEF Abstract!Push, List, Position

LEMMA PopMaps ==
  ASSUME OInv, OInv', Pop
  PROVE  Abstract!Pop
<1>1. PICK s : InOrder(s, Cardinality(heap), heap, next, prev)
  BY DEF OInv, Ordered
<1> DEFINE n == Cardinality(heap)
<1>2. /\ n \in Nat /\ List = Values(s, n, value) /\ List \in Seq(Int) /\ Len(List) = n
      /\ \A p \in 1..n : cur = s[p] => Position = p
  BY <1>1, Readings DEF Reading
<1>3. PICK p \in 1..n :
         /\ cur = s[p] /\ heap' = heap \ {cur}
         /\ IsFiniteSet(heap') /\ Cardinality(heap') = n - 1
         /\ InOrder(Removed(s, n, p), n - 1, heap', next', prev')
         /\ cur' = IF p > 1 THEN s[p - 1] ELSE IF n > 1 THEN s[2] ELSE Null
  BY <1>1, PopOrder
<1>4. PICK t : t = Removed(s, n, p)
  OBVIOUS
<1>5. InOrder(t, Cardinality(heap'), heap', next', prev')
  BY <1>3, <1>4
<1>6. /\ List' = Values(t, Cardinality(heap'), value') /\ List' \in Seq(Int)
      /\ Len(List') = Cardinality(heap')
      /\ \A k \in 1..Cardinality(heap') : cur' = t[k] => Position' = k
      /\ cur' = Null => Position' = 0
  BY <1>5, NextReadings DEF Reading
<1>7. value' = value /\ exit = "run" /\ exit' = exit /\ printed' = Append(printed, value[cur])
  BY DEF Pop
<1> HIDE DEF n
<1>8. Position = p /\ List # <<>> /\ value[cur] = List[Position]
  BY <1>2, <1>3 DEF Values
<1>9. Position' = IF Position > 1 THEN Position - 1 ELSE IF Len(List) > 1 THEN 1 ELSE 0
  <2>1. CASE p > 1
    <3>1. p - 1 \in 1..n - 1 /\ t[p - 1] = s[p - 1]
      BY <2>1, <1>2, <1>4 DEF Removed
    <3>2. Position' = p - 1
      BY <3>1, <2>1, <1>3, <1>6
    <3> QED BY <3>2, <2>1, <1>8
  <2>2. CASE p = 1 /\ n > 1
    <3>1. 1 \in 1..n - 1 /\ t[1] = s[2]
      BY <2>2, <1>2, <1>4 DEF Removed
    <3>2. cur' = s[2]
      BY <2>2, <1>2, <1>3
    <3>3. cur' = t[1] /\ 1 \in 1..Cardinality(heap')
      BY <3>1, <3>2, <1>3
    <3>4. Position' = 1
      BY <3>3, <1>6
    <3> QED BY <3>4, <2>2, <1>2, <1>8
  <2>3. CASE p = 1 /\ n = 1
    <3>1. cur' = Null
      BY <2>3, <1>2, <1>3
    <3>2. Position' = 0
      BY <3>1, <1>6
    <3> QED BY <3>2, <2>3, <1>2, <1>8
  <2> QED BY <2>1, <2>2, <2>3, <1>2
<1>10. List' = SubSeq(List, 1, p - 1) \o SubSeq(List, p + 1, Len(List))
  <2>1. ASSUME NEW k \in 1..n - 1
        PROVE  List'[k] = IF k < p THEN List[k] ELSE List[k + 1]
    <3>1. List'[k] = value[t[k]]
      BY <1>3, <1>6, <1>7 DEF Values
    <3>2. \A x \in 1..n : List[x] = value[s[x]]
      BY <1>2 DEF Values
    <3>3. k \in 1..n /\ k + 1 \in 1..n /\ t[k] = IF k < p THEN s[k] ELSE s[k + 1]
      BY <1>2, <1>4 DEF Removed
    <3> QED BY <3>1, <3>2, <3>3
  <2>2. Len(List') = Len(List) - 1
    BY <1>2, <1>3, <1>6
  <2>3. PICK l \in Seq(Int), m \in Seq(Int) : l = List /\ m = List'
    BY <1>2, <1>6
  <2>4. /\ Len(m) = Len(l) - 1 /\ Len(l) = n
        /\ \A k \in 1..Len(l) - 1 : m[k] = IF k < p THEN l[k] ELSE l[k + 1]
    BY <2>1, <2>2, <2>3, <1>2
  <2>5. p \in 1..Len(l)
    BY <2>4
  <2>6. m = SubSeq(l, 1, p - 1) \o SubSeq(l, p + 1, Len(l))
    BY <2>4, <2>5, RemovedValues
  <2> QED BY <2>3, <2>6
<1> QED BY <1>7, <1>8, <1>9, <1>10 DEF Abstract!Pop, List, Position

\* The commands that leave the nodes alone.
LEMMA OtherMaps ==
  ASSUME OInv, OInv',
         PushOutOfMemory \/ PushExpectNull \/ PopNothing \/ Walk(next) \/ Walk(prev) \/ EndOfInput
  PROVE  \/ Abstract!Move(1) \/ Abstract!Move(-1) \/ Abstract!Abort \/ Abstract!Finish
         \/ UNCHANGED Abstract!vars
<1>1. PICK s : InOrder(s, Cardinality(heap), heap, next, prev)
  BY DEF OInv, Ordered
<1> DEFINE n == Cardinality(heap)
<1>2. /\ n \in Nat /\ List = Values(s, n, value) /\ List \in Seq(Int) /\ Len(List) = n
      /\ \A p \in 1..n : cur = s[p] => Position = p
      /\ cur = Null => Position = 0
  BY <1>1, Readings DEF Reading
<1>3. UNCHANGED <<heap, next, prev, value, printed>> /\ exit = "run"
  BY DEF PushOutOfMemory, PushExpectNull, PopNothing, Walk, EndOfInput, vars
<1>4. /\ List' = Values(s, n, value)
      /\ \A p \in 1..n : cur' = s[p] => Position' = p
      /\ cur' = Null => Position' = 0
  BY <1>1, <1>3, NextReadings DEF Reading
<1>5. List' = List /\ printed' = printed
  BY <1>2, <1>3, <1>4
<1> HIDE DEF n
<1>6. CASE PushOutOfMemory \/ PopNothing
  <2>1. cur' = Null /\ exit' = "abort"
    BY <1>6 DEF PushOutOfMemory, PopNothing
  <2>2. Abstract!Abort
    BY <2>1, <1>3, <1>4, <1>5 DEF Abstract!Abort, List, Position
  <2> QED BY <2>2
<1>7. CASE EndOfInput
  <2>1. Position' = Position /\ exit' = "done"
    BY <1>7 DEF EndOfInput, Position, NodeAt, Indices, First
  <2>2. Abstract!Finish
    BY <2>1, <1>3, <1>5 DEF Abstract!Finish, List, Position
  <2> QED BY <2>2
<1>8. CASE PushExpectNull
  <2>1. Position' = Position /\ exit' = exit
    BY <1>8 DEF PushExpectNull, vars, Position, NodeAt, Indices, First
  <2> QED BY <2>1, <1>5 DEF Abstract!vars, List, Position
<1>9. CASE (Walk(next) \/ Walk(prev)) /\ cur' = Null
  <2>1. exit' = "abort"
    BY <1>9 DEF Walk
  <2>2. Abstract!Abort
    BY <2>1, <1>3, <1>4, <1>5, <1>9 DEF Abstract!Abort, List, Position
  <2> QED BY <2>2
<1>10. CASE (Walk(next) \/ Walk(prev)) /\ cur' # Null
  <2>1. cur \in heap /\ exit' = exit
    BY <1>3, <1>10 DEF Walk, OInv, IInv, CursorLive
  <2>2. PICK p \in 1..n : s[p] = cur
    BY <2>1, <1>1 DEF InOrder, n
  <2>3. Position = p
    BY <2>2, <1>2
  <2>4. /\ next[s[p]] = IF p = n THEN Null ELSE s[p + 1]
        /\ prev[s[p]] = IF p = 1 THEN Null ELSE s[p - 1]
    BY <1>1 DEF InOrder, n
  <2>5. CASE Walk(next)
    <3>1. p + 1 \in 1..n /\ cur' = s[p + 1]
      BY <2>2, <2>4, <2>5, <1>2, <1>10 DEF Walk
    <3>2. Position' = Position + 1 /\ Position + 1 \in DOMAIN List
      BY <3>1, <2>3, <1>2, <1>4
    <3>3. Abstract!Move(1)
      BY <3>2, <2>1, <1>3, <1>5 DEF Abstract!Move, List, Position
    <3> QED BY <3>3
  <2>6. CASE Walk(prev)
    <3>1. p - 1 \in 1..n /\ cur' = s[p - 1]
      BY <2>2, <2>4, <2>6, <1>2, <1>10 DEF Walk
    <3>2. Position' = Position + (-1) /\ Position + (-1) \in DOMAIN List
      BY <3>1, <2>3, <1>2, <1>4
    <3>3. Abstract!Move(-1)
      BY <3>2, <2>1, <1>3, <1>5 DEF Abstract!Move, List, Position
    <3> QED BY <3>3
  <2> QED BY <2>5, <2>6, <1>10
<1> QED BY <1>6, <1>7, <1>8, <1>9, <1>10

LEMMA StepMaps == OInv /\ OInv' /\ [Next]_vars => [Abstract!Next]_(Abstract!vars)
<1> SUFFICES ASSUME OInv, OInv', [Next]_vars PROVE [Abstract!Next]_(Abstract!vars)
  OBVIOUS
<1>1. CASE \E v \in Value : Push(v)
  <2>1. \E v \in Value : Abstract!Push(v)
    BY <1>1, PushMaps
  <2> QED BY <2>1 DEF Abstract!Next
<1>2. CASE Pop
  <2>1. Abstract!Pop
    BY <1>2, PopMaps
  <2> QED BY <2>1 DEF Abstract!Next
<1>3. CASE PushOutOfMemory \/ PushExpectNull \/ PopNothing \/ Walk(next) \/ Walk(prev) \/ EndOfInput
  <2>1. \/ Abstract!Move(1) \/ Abstract!Move(-1) \/ Abstract!Abort \/ Abstract!Finish
        \/ UNCHANGED Abstract!vars
    BY <1>3, OtherMaps
  <2>2. (Abstract!Move(1) \/ Abstract!Move(-1)) => \E d \in {-1, 1} : Abstract!Move(d)
    <3> 1 \in {-1, 1} /\ -1 \in {-1, 1}
      OBVIOUS
    <3> QED OBVIOUS
  <2> QED BY <2>1, <2>2 DEF Abstract!Next
<1>4. CASE UNCHANGED vars
  <2>1. UNCHANGED Abstract!vars
    BY <1>4 DEF vars, Abstract!vars, NodeAt, Indices, First
  <2> QED BY <2>1
<1> QED BY <1>1, <1>2, <1>3, <1>4 DEF Next

\* push and pop implement the list with a cursor: for every set of addresses and
\* every order in which calloc hands them out and free takes them back, each
\* command changes the sequence of values as CursorList says.
THEOREM NodesAreAList == Spec => ImplementsCursorList
<1>1. Spec => Abstract!Init
  BY InitMaps DEF Spec
<1>2. OInv /\ OInv' /\ [Next]_vars => [Abstract!Next]_(Abstract!vars)
  BY StepMaps
<1> QED BY <1>1, <1>2, AlwaysOrdered, PTL DEF Spec, ImplementsCursorList, Abstract!Spec
=============================================================================
