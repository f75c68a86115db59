-------------------------- MODULE AllocatorProofs --------------------------
(* The heap and the free list of FreeListAllocator, for any number of slots  *)
(* and any sizes for which the limit test does not wrap around.              *)
EXTENDS FreeListAllocator, TLAPS

Unheld == Blocks \ Held

\* The free list has no cycle and no two of its links meet.
OnePredecessor ==
    \A x \in Unheld : next[x] # Null =>
        /\ next[x] # freelist
        /\ \A y \in Unheld : next[y] = next[x] => y = x

\* alloc_mem's two pointers walk the free list.
InSearch ==
    pc = "search" => /\ cur \in Unheld \cup {Null}
                     /\ IF prev = Null THEN cur = freelist
                        ELSE prev \in Unheld /\ next[prev] = cur

\* What is behind cur: only blocks that are too small have been passed.
Rest(S) == (cur # Null => cur \in S) /\ \A b \in S : next[b] # Null => next[b] \in S
Passed ==
    pc = "search" =>
        \A S \in SUBSET Unheld : Rest(S) => \A b \in Unheld \ S : size[b] < want

IInv == /\ TypeOK /\ BlocksDisjoint /\ LargeEnough
        /\ FreeListExact /\ OnePredecessor /\ InSearch /\ Passed /\ GrowsLast

-----------------------------------------------------------------------------
\* Rounding: a size that passes the first test is not made smaller.
LEMMA AlignType == ASSUME NEW n \in Nat PROVE Align(n) \in Nat
  BY AllocatorAssumption DEF Align

LEMMA ActualSizeType == ASSUME NEW n \in Nat PROVE ActualSize(n) \in Nat
  BY AlignType, AllocatorAssumption DEF ActualSize

LEMMA ActualSizeEnough ==
  ASSUME NEW n \in Nat, n <= SizeMax - (Word - 1)
  PROVE  n <= ActualSize(n)
<1> DEFINE m == n + Word - 1
<1>1. m \in Nat /\ m % Modulus = m
  BY AllocatorAssumption DEF SizeMax
<1>2. m = Word * (m \div Word) + (m % Word) /\ m % Word \in 0..Word-1 /\ m \div Word \in Nat
  BY <1>1, AllocatorAssumption
<1>3. (m \div Word) * Word >= n
  BY <1>2, AllocatorAssumption
<1>4. Align(n) = (m \div Word) * Word
  BY <1>1 DEF Align
<1> QED BY <1>3, <1>4, <1>2, AllocatorAssumption DEF ActualSize

-----------------------------------------------------------------------------
\* Facts about the free list.

LEMMA NullIsNoBlock == ASSUME TypeOK PROVE Null \notin Blocks /\ Blocks \subseteq Nat
<1>1. Blocks \subseteq 0..MaxBrk
  BY DEF TypeOK
<1>2. 0..MaxBrk \subseteq Nat
  OBVIOUS
<1> QED BY <1>1, <1>2, AllocatorAssumption

LEMMA HeldAreBlocks == ASSUME TypeOK PROVE Held \subseteq Blocks
<1>1. \A s \in Slot : addresses[s] \in Blocks \cup {Null}
  BY DEF TypeOK
<1> QED BY <1>1 DEF Held

\* Links of free blocks stay among them.
LEMMA LinksStayFree ==
  ASSUME FreeListExact
  PROVE  /\ freelist # Null => freelist \in Unheld
         /\ \A b \in Unheld : next[b] # Null => next[b] \in Unheld
  BY DEF FreeListExact, Reaches, Unheld

LEMMA OnlyTheWholeList ==
  ASSUME FreeListExact, NEW S, S \subseteq Unheld, Reaches(S)
  PROVE  S = Unheld
  BY DEF FreeListExact, Unheld

\* A block that linked to itself could be left out of the list.
LEMMA NoSelfLink ==
  ASSUME FreeListExact, OnePredecessor, NEW b \in Unheld, b # Null
  PROVE  next[b] # b
<1> SUFFICES ASSUME next[b] = b PROVE FALSE
  OBVIOUS
<1> DEFINE S == Unheld \ {b}
<1>1. freelist # Null => freelist \in S
  BY LinksStayFree DEF OnePredecessor
<1>2. \A x \in S : next[x] # Null => next[x] \in S
  BY LinksStayFree DEF OnePredecessor
<1>3. Reaches(S)
  BY <1>1, <1>2 DEF Reaches
<1>4. S = Unheld
  BY <1>3, OnlyTheWholeList
<1> QED BY <1>4

LEMMA InitIInv == Init => IInv
<1> SUFFICES ASSUME Init PROVE IInv
  OBVIOUS
<1>1. Blocks = {} /\ Held = {} /\ Unheld = {}
  BY DEF Init, Blocks, Held, Unheld
<1>2. TypeOK
  <2>1. /\ brk \in Base..MaxBrk /\ Blocks \subseteq 0..MaxBrk
        /\ want \in Sizes \cup {0} /\ {prev, cur} \subseteq Blocks \cup {Null}
        /\ freelist \in Blocks \cup {Null} /\ pc = "idle"
    BY <1>1, AllocatorAssumption DEF Init
  <2>2. size \in [Blocks -> 0..SizeMax] /\ next \in [Blocks -> Blocks \cup {Null}]
    BY <1>1 DEF Init
  <2>3. addresses \in [Slot -> Blocks \cup {Null}] /\ request \in [Slot -> 0..SizeMax]
    BY AllocatorAssumption DEF Init, SizeMax
  <2> QED BY <2>1, <2>2, <2>3 DEF TypeOK
<1>3. BlocksDisjoint /\ LargeEnough
  BY <1>1 DEF Init, BlocksDisjoint, LargeEnough
<1>4. FreeListExact /\ OnePredecessor
  BY <1>1 DEF Init, FreeListExact, Reaches, OnePredecessor
<1>5. InSearch /\ Passed /\ GrowsLast
  BY DEF Init, InSearch, Passed, GrowsLast
<1> QED BY <1>2, <1>3, <1>4, <1>5 DEF IInv

-----------------------------------------------------------------------------
\* Steps that leave the heap and its holders alone.
LEMMA SameHeap ==
  ASSUME IInv, UNCHANGED <<heapVars, addresses, request>>
  PROVE  /\ BlocksDisjoint' /\ LargeEnough' /\ FreeListExact' /\ OnePredecessor'
         /\ Blocks' = Blocks /\ Held' = Held /\ Unheld' = Unheld
<1>1. /\ UNCHANGED <<brk, size, next, freelist, addresses, request>>
      /\ Blocks' = Blocks /\ Held' = Held /\ Unheld' = Unheld
  BY DEF heapVars, Blocks, Held, Unheld
<1>2. BlocksDisjoint' /\ LargeEnough'
  BY <1>1 DEF IInv, BlocksDisjoint, LargeEnough, End
<1>3. FreeListExact' /\ OnePredecessor'
  BY <1>1 DEF IInv, FreeListExact, Reaches, OnePredecessor
<1> QED BY <1>1, <1>2, <1>3

LEMMA CallStep ==
  ASSUME IInv, NEW s \in Slot, NEW n \in Sizes, Call(s, n)
  PROVE  IInv'
<1>1. /\ UNCHANGED <<heapVars, addresses, request>>
      /\ pc' = "search" /\ slot' = s /\ want' = n /\ prev' = Null /\ cur' = freelist
      /\ UNCHANGED <<brk, size, next, freelist>>
  BY DEF Call, heapVars
<1>2. /\ BlocksDisjoint' /\ LargeEnough' /\ FreeListExact' /\ OnePredecessor'
      /\ Blocks' = Blocks /\ Unheld' = Unheld
  BY <1>1, SameHeap
<1>3. TypeOK'
  BY <1>1, <1>2 DEF IInv, TypeOK, Call
<1>4. InSearch' /\ GrowsLast'
  BY <1>1, <1>2, LinksStayFree DEF IInv, InSearch, GrowsLast
<1>5. Passed'
  <2> SUFFICES ASSUME NEW S \in SUBSET Unheld, Rest(S)' PROVE S = Unheld
    BY <1>2 DEF Passed
  <2>1. Reaches(S)
    BY <1>1 DEF Rest, Reaches
  <2> QED BY <2>1, OnlyTheWholeList DEF IInv
<1> QED BY <1>2, <1>3, <1>4, <1>5 DEF IInv

LEMMA SkipStep == ASSUME IInv, Skip PROVE IInv'
<1>1. /\ UNCHANGED <<heapVars, addresses, request>>
      /\ UNCHANGED <<brk, size, next, freelist, pc, slot, want>>
      /\ pc = "search" /\ cur # Null /\ size[cur] < want /\ prev' = cur /\ cur' = next[cur]
  BY DEF Skip, heapVars
<1>2. /\ BlocksDisjoint' /\ LargeEnough' /\ FreeListExact' /\ OnePredecessor'
      /\ Blocks' = Blocks /\ Unheld' = Unheld
  BY <1>1, SameHeap
<1>3. cur \in Unheld /\ cur \in Blocks
  BY <1>1 DEF IInv, InSearch, Unheld
<1>4. TypeOK'
  BY <1>1, <1>2, <1>3 DEF IInv, TypeOK
<1>5. InSearch' /\ GrowsLast'
  BY <1>1, <1>2, <1>3, LinksStayFree DEF IInv, InSearch, GrowsLast
<1>6. Passed'
  <2> SUFFICES ASSUME NEW S \in SUBSET Unheld, Rest(S)', NEW b \in Unheld \ S
               PROVE  size[b] < want
    BY <1>1, <1>2 DEF Passed
  <2>1. Rest(S \cup {cur}) /\ S \cup {cur} \in SUBSET Unheld
    BY <1>1, <1>3 DEF Rest
  <2>2. CASE b = cur
    BY <1>1, <2>2
  <2>3. CASE b # cur
    BY <1>1, <2>1, <2>3 DEF IInv, Passed
  <2> QED BY <2>2, <2>3
<1> QED BY <1>2, <1>4, <1>5, <1>6 DEF IInv

LEMMA NoFitStep == ASSUME IInv, NoFit PROVE IInv'
<1>1. /\ UNCHANGED <<heapVars, addresses, request>>
      /\ UNCHANGED <<brk, size, next, freelist, slot, want, prev, cur>>
      /\ pc = "search" /\ cur = Null /\ pc' = "grow"
  BY DEF NoFit, heapVars
<1>2. /\ BlocksDisjoint' /\ LargeEnough' /\ FreeListExact' /\ OnePredecessor'
      /\ Blocks' = Blocks /\ Held' = Held /\ Unheld' = Unheld
  BY <1>1, SameHeap
<1>3. TypeOK'
  BY <1>1, <1>2 DEF IInv, TypeOK
<1>4. InSearch' /\ Passed'
  BY <1>1 DEF InSearch, Passed
<1>5. GrowsLast'
  <2>1. Rest({})
    BY <1>1 DEF Rest
  <2>2. \A b \in Unheld : size[b] < want
    BY <1>1, <2>1 DEF IInv, Passed
  <2> QED BY <1>1, <1>2, <2>2 DEF GrowsLast, Unheld
<1> QED BY <1>2, <1>3, <1>4, <1>5 DEF IInv

LEMMA FailStep == ASSUME IInv, Fail PROVE IInv'
<1>1. /\ pc = "grow" /\ pc' = "idle" /\ cur' = Null /\ prev' = Null /\ want' = 0
      /\ addresses' = [addresses EXCEPT ![slot] = Null] /\ request' = request
      /\ UNCHANGED <<brk, size, next, freelist>>
  BY DEF Fail, Return, heapVars
<1>2. addresses' = addresses
  BY <1>1 DEF IInv, TypeOK
<1>3. /\ BlocksDisjoint' /\ LargeEnough' /\ FreeListExact' /\ OnePredecessor'
      /\ Blocks' = Blocks
  BY <1>1, <1>2, SameHeap DEF heapVars
<1>4. TypeOK'
  BY <1>1, <1>2, <1>3 DEF IInv, TypeOK
<1>5. InSearch' /\ Passed' /\ GrowsLast'
  BY <1>1 DEF InSearch, Passed, GrowsLast
<1> QED BY <1>3, <1>4, <1>5 DEF IInv

-----------------------------------------------------------------------------
\* A block that goes to a slot that held none is held from then on, and by that
\* slot alone.
LEMMA HandOut ==
  ASSUME IInv, pc # "idle", NEW b, b # Null, b \notin Held,
         addresses' = [addresses EXCEPT ![slot] = b]
  PROVE  Held' = Held \cup {b}
<1>1. slot \in Slot /\ addresses[slot] = Null /\ addresses \in [Slot -> Blocks \cup {Null}]
  BY DEF IInv, TypeOK
<1>2. \A s \in Slot : addresses'[s] = IF s = slot THEN b ELSE addresses[s]
  BY <1>1
<1>3. Held' \subseteq Held \cup {b}
  BY <1>2 DEF Held
<1>4. b \in Held'
  BY <1>1, <1>2 DEF Held
<1>5. Held \subseteq Held'
  BY <1>1, <1>2 DEF Held
<1> QED BY <1>3, <1>4, <1>5

LEMMA TakeFitStep == ASSUME IInv, TakeFit PROVE IInv'
<1>1. /\ pc = "search" /\ cur # Null /\ want <= size[cur] /\ UNCHANGED <<brk, size>>
      /\ pc' = "idle" /\ cur' = Null /\ prev' = Null /\ want' = 0
      /\ addresses' = [addresses EXCEPT ![slot] = cur]
      /\ request' = [request EXCEPT ![slot] = want]
  BY DEF TakeFit, Return
<1>2. cur \in Unheld /\ cur \in Blocks /\ cur \notin Held
  BY <1>1 DEF IInv, InSearch, Unheld
<1>3. Blocks' = Blocks /\ Held' = Held \cup {cur} /\ Unheld' = Unheld \ {cur}
  BY <1>1, <1>2, HandOut DEF Unheld, Blocks
<1>4. IF prev = Null
      THEN freelist = cur /\ freelist' = next[cur] /\ next' = next
      ELSE /\ prev \in Unheld /\ next[prev] = cur /\ freelist' = freelist
           /\ next' = [next EXCEPT ![prev] = next[cur]]
  BY <1>1 DEF IInv, InSearch, TakeFit
<1>5. /\ next \in [Blocks -> Blocks \cup {Null}] /\ Unheld \subseteq Blocks /\ Null \notin Blocks
      /\ next[cur] # cur
  BY <1>2, NullIsNoBlock, NoSelfLink DEF IInv, TypeOK, Unheld
<1>6. TypeOK'
  <2>1. addresses' \in [Slot -> Blocks \cup {Null}] /\ request' \in [Slot -> 0..SizeMax]
    <3>1. want \in 0..SizeMax
      BY AllocatorAssumption DEF IInv, TypeOK, SizeMax
    <3> QED BY <1>1, <1>2, <3>1 DEF IInv, TypeOK
  <2>2. next' \in [Blocks -> Blocks \cup {Null}] /\ freelist' \in Blocks \cup {Null}
    BY <1>2, <1>4, <1>5 DEF IInv, TypeOK
  <2> QED BY <1>1, <1>3, <2>1, <2>2 DEF IInv, TypeOK
<1>7. BlocksDisjoint'
  BY <1>1, <1>3 DEF IInv, BlocksDisjoint, End
<1>8. LargeEnough'
  <2>1. \A s \in Slot : addresses[s] # cur
    BY <1>1, <1>2 DEF Held
  <2>2. End(cur) <= brk
    BY <1>2 DEF IInv, BlocksDisjoint
  <2>3. slot \in Slot /\ addresses \in [Slot -> Blocks \cup {Null}] /\ request \in [Slot -> 0..SizeMax]
    BY <1>1 DEF IInv, TypeOK
  <2>4. \A s \in Slot : addresses'[s] = IF s = slot THEN cur ELSE addresses[s]
    BY <1>1, <2>3
  <2>5. \A s \in Slot : request'[s] = IF s = slot THEN want ELSE request[s]
    BY <1>1, <2>3
  <2> QED BY <1>1, <2>1, <2>2, <2>3, <2>4, <2>5 DEF IInv, LargeEnough, End
<1>9. FreeListExact' /\ OnePredecessor'
  <2>1. CASE prev = Null
    <3>1. freelist = cur /\ freelist' = next[cur] /\ next' = next
      BY <1>4, <2>1
    <3>2. \A x \in Unheld : next[x] # cur
      BY <1>2, <1>5, <3>1 DEF IInv, OnePredecessor
    <3>3. Reaches(Unheld)'
      BY <1>2, <1>3, <1>5, <3>1, <3>2, LinksStayFree DEF IInv, Reaches
    <3>4. ASSUME NEW S \in SUBSET (Unheld \ {cur}), Reaches(S)' PROVE S = Unheld \ {cur}
      <4>1. Reaches(S \cup {cur})
        BY <3>1, <3>4 DEF Reaches
      <4>2. S \cup {cur} = Unheld
        BY <1>2, <4>1, OnlyTheWholeList DEF IInv
      <4> QED BY <4>2
    <3>5. OnePredecessor'
      BY <1>2, <1>3, <3>1 DEF IInv, OnePredecessor
    <3> QED BY <1>3, <3>3, <3>4, <3>5 DEF FreeListExact, Unheld
  <2>2. CASE prev # Null
    <3>1. /\ prev \in Unheld /\ next[prev] = cur /\ freelist' = freelist /\ prev # cur
          /\ \A x \in Unheld : next'[x] = IF x = prev THEN next[cur] ELSE next[x]
      BY <1>4, <1>5, <2>2
    <3>2. \A x \in Unheld : x # prev => next[x] # cur
      BY <1>1, <3>1 DEF IInv, OnePredecessor
    <3>3. freelist # cur
      BY <1>1, <3>1 DEF IInv, OnePredecessor
    <3>4. Reaches(Unheld)'
      BY <1>2, <1>3, <1>5, <3>1, <3>2, <3>3, LinksStayFree DEF IInv, Reaches
    <3>5. ASSUME NEW S \in SUBSET (Unheld \ {cur}), Reaches(S)' PROVE S = Unheld \ {cur}
      <4>1. CASE prev \in S
        <5>1. Reaches(S \cup {cur})
          BY <1>2, <3>1, <3>5, <4>1 DEF Reaches
        <5>2. S \cup {cur} = Unheld
          BY <1>2, <5>1, OnlyTheWholeList DEF IInv
        <5> QED BY <5>2
      <4>2. CASE prev \notin S
        <5>1. Reaches(S)
          BY <3>1, <3>5, <4>2 DEF Reaches
        <5>2. S = Unheld
          BY <5>1, OnlyTheWholeList DEF IInv
        <5> QED BY <1>2, <5>2
      <4> QED BY <4>1, <4>2
    <3>6. OnePredecessor'
      <4> SUFFICES ASSUME NEW x \in Unheld \ {cur}, next'[x] # Null
                   PROVE  /\ next'[x] # freelist
                          /\ \A y \in Unheld \ {cur} : next'[y] = next'[x] => y = x
        BY <1>3, <3>1 DEF OnePredecessor
      <4>1. PICK o \in Unheld : next'[x] = next[o] /\ (x = prev <=> o = cur) /\ (x # prev => o = x)
        BY <1>2, <3>1
      <4>2. next[o] # freelist /\ \A z \in Unheld : next[z] = next[o] => z = o
        BY <4>1 DEF IInv, OnePredecessor
      <4>3. ASSUME NEW y \in Unheld \ {cur}, next'[y] = next'[x] PROVE y = x
        BY <1>2, <3>1, <4>1, <4>2, <4>3
      <4> QED BY <4>1, <4>2, <4>3
    <3> QED BY <1>3, <3>4, <3>5, <3>6 DEF FreeListExact, Unheld
  <2> QED BY <2>1, <2>2
<1>10. InSearch' /\ Passed' /\ GrowsLast'
  BY <1>1 DEF InSearch, Passed, GrowsLast
<1> QED BY <1>6, <1>7, <1>8, <1>9, <1>10 DEF IInv

\* The break moves past the new block.
LEMMA BreakMoves ==
  ASSUME IInv, NoWrap, Grow
  PROVE  /\ ActualSize(want) \in 0..SizeMax /\ want <= ActualSize(want)
         /\ brk' = brk + Word + ActualSize(want)
<1>1. want \in Sizes /\ MayGrow(want)
  BY DEF IInv, TypeOK, Grow
<1>2. want \in Nat
  BY <1>1, AllocatorAssumption
<1>3. ActualSize(want) \in Nat /\ ActualSize(want) <= SizeMax /\ want <= ActualSize(want)
  BY <1>1, <1>2, ActualSizeType, ActualSizeEnough, AllocatorAssumption DEF MayGrow, SizeMax
<1>4. Word + ActualSize(want) <= Limit
  BY <1>1, <1>2, <1>3, AllocatorAssumption DEF NoWrap, MayGrow, SizeMax
<1>5. Signed(Word + ActualSize(want)) = Word + ActualSize(want)
  BY <1>3, <1>4, AllocatorAssumption DEF Signed, NoWrap
<1> QED BY <1>3, <1>5, AllocatorAssumption DEF Grow, SizeMax, IInv, TypeOK

LEMMA GrowStep == ASSUME IInv, NoWrap, Grow PROVE IInv'
<1> DEFINE A == ActualSize(want)
<1>1. /\ pc = "grow" /\ pc' = "idle" /\ cur' = Null /\ prev' = Null /\ want' = 0
      /\ addresses' = [addresses EXCEPT ![slot] = brk]
      /\ request' = [request EXCEPT ![slot] = want]
      /\ brk' \in Base..MaxBrk /\ freelist' = freelist
      /\ size' = [x \in Blocks \cup {brk} |-> IF x = brk THEN A ELSE size[x]]
  <2>1. size' = Update(size, brk, ActualSize(want))
    BY DEF Grow
  <2>2. size' = [x \in Blocks \cup {brk} |-> IF x = brk THEN A ELSE size[x]]
    BY <2>1 DEF Update, Blocks
  <2>3. brk \in Nat /\ brk # Null
    BY AllocatorAssumption DEF IInv, TypeOK
  <2> QED BY <2>2, <2>3 DEF Grow, Return
<1>2. A \in 0..SizeMax /\ want <= A /\ brk' = brk + Word + A
  BY BreakMoves
<1> HIDE DEF A
<1>3. /\ Word \in Nat \ {0} /\ SizeMax \in Nat /\ brk \in Base..MaxBrk /\ brk \in 0..MaxBrk
      /\ MaxBrk \in Nat /\ Base \in Nat /\ brk # Null /\ brk \in Nat
  BY AllocatorAssumption DEF IInv, TypeOK, SizeMax
<1>4. /\ Blocks \subseteq Nat /\ Null \notin Blocks /\ size \in [Blocks -> 0..SizeMax]
      /\ \A c \in Blocks : size[c] \in Nat
  BY <1>3, NullIsNoBlock DEF IInv, TypeOK
<1>5. \A c \in Blocks : Base <= c /\ c + Word + size[c] <= brk /\ c < brk
  BY <1>3, <1>4 DEF IInv, BlocksDisjoint, End
<1>6. brk \notin Blocks
  BY <1>3, <1>4, <1>5
<1>7. Held \subseteq Blocks
  BY DEF IInv, TypeOK, Held
<1>8. Blocks' = Blocks \cup {brk} /\ Held' = Held \cup {brk} /\ Unheld' = Unheld
  <2>1. Blocks' = Blocks \cup {brk}
    BY <1>1 DEF Blocks
  <2>2. Held' = Held \cup {brk}
    BY <1>1, <1>3, <1>6, <1>7, HandOut
  <2> QED BY <2>1, <2>2, <1>6, <1>7 DEF Unheld
<1>9. /\ size'[brk] = A /\ \A c \in Blocks : size'[c] = size[c]
      /\ size' \in [Blocks' -> 0..SizeMax]
  BY <1>1, <1>2, <1>4, <1>6, <1>8
<1>10. next' \in [Blocks' -> Blocks' \cup {Null}] /\ \A c \in Blocks : next'[c] = next[c]
  <2>1. /\ next \in [Blocks -> Blocks \cup {Null}]
        /\ next' = [x \in DOMAIN next \cup {brk} |-> IF x = brk THEN Null ELSE next[x]]
    BY DEF IInv, TypeOK, Grow, Update
  <2>2. DOMAIN next = Blocks
    BY <2>1
  <2> QED BY <1>6, <1>8, <2>1, <2>2
<1>11. TypeOK'
  <2>1. addresses' \in [Slot -> Blocks' \cup {Null}]
    BY <1>1, <1>8 DEF IInv, TypeOK
  <2>2. want \in 0..SizeMax
    BY <1>1, AllocatorAssumption DEF IInv, TypeOK, SizeMax
  <2>3. request' \in [Slot -> 0..SizeMax]
    BY <1>1, <2>2 DEF IInv, TypeOK
  <2>4. Blocks' \subseteq 0..MaxBrk /\ freelist' \in Blocks' \cup {Null}
    BY <1>1, <1>3, <1>8 DEF IInv, TypeOK
  <2> QED BY <1>1, <1>9, <1>10, <2>1, <2>3, <2>4 DEF TypeOK
<1>12. BlocksDisjoint'
  <2>1. ASSUME NEW c \in Blocks' PROVE Base <= c /\ (End(c))' <= brk'
    <3>1. CASE c = brk
      BY <1>2, <1>3, <1>9, <3>1 DEF End
    <3>2. CASE c \in Blocks
      BY <1>2, <1>3, <1>4, <1>5, <1>9, <3>2 DEF End
    <3> QED BY <1>8, <3>1, <3>2
  <2>2. ASSUME NEW c \in Blocks', NEW d \in Blocks', c < d PROVE (End(c))' <= d
    <3>1. c \in Blocks
      BY <1>3, <1>4, <1>5, <1>8, <2>2
    <3>2. CASE d = brk
      BY <1>5, <1>9, <3>1, <3>2 DEF End
    <3>3. CASE d \in Blocks
      BY <1>9, <2>2, <3>1, <3>3 DEF End, IInv, BlocksDisjoint
    <3> QED BY <1>8, <3>2, <3>3
  <2> QED BY <2>1, <2>2 DEF BlocksDisjoint
<1>13. LargeEnough'
  <2>1. slot \in Slot /\ addresses \in [Slot -> Blocks \cup {Null}] /\ request \in [Slot -> 0..SizeMax]
    BY <1>1 DEF IInv, TypeOK
  <2>2. \A s \in Slot : addresses'[s] = IF s = slot THEN brk ELSE addresses[s]
    BY <1>1, <2>1
  <2>3. \A s \in Slot : request'[s] = IF s = slot THEN want ELSE request[s]
    BY <1>1, <2>1
  <2> SUFFICES ASSUME NEW s \in Slot, addresses'[s] # Null
               PROVE  /\ request'[s] <= size'[addresses'[s]]
                      /\ addresses'[s] + Word + size'[addresses'[s]] <= brk'
                      /\ \A t \in Slot : s # t => addresses'[s] # addresses'[t]
    BY DEF LargeEnough, End
  <2>4. addresses'[s] \in Blocks'
    BY <1>11 DEF TypeOK
  <2>5. addresses'[s] + Word + size'[addresses'[s]] <= brk'
    BY <1>12, <2>4 DEF BlocksDisjoint, End
  <2>6. CASE s = slot
    BY <1>2, <1>6, <1>9, <2>1, <2>2, <2>3, <2>5, <2>6, <1>3
  <2>7. CASE s # slot
    BY <1>6, <1>9, <2>1, <2>2, <2>3, <2>5, <2>7 DEF IInv, LargeEnough
  <2> QED BY <2>6, <2>7
<1>14. FreeListExact' /\ OnePredecessor'
  <2>1. Unheld \subseteq Blocks /\ \A x \in Unheld : next'[x] = next[x]
    BY <1>10 DEF Unheld
  <2> QED BY <1>1, <1>8, <2>1 DEF IInv, FreeListExact, Reaches, OnePredecessor, Unheld
<1>15. InSearch' /\ Passed' /\ GrowsLast'
  BY <1>1 DEF InSearch, Passed, GrowsLast
<1> QED BY <1>11, <1>12, <1>13, <1>14, <1>15 DEF IInv

LEMMA FreeStep == ASSUME IInv, NEW s \in Slot, Free(s) PROVE IInv'
<1> DEFINE b == addresses[s]
<1>1. /\ pc = "idle" /\ pc' = "idle" /\ b # Null /\ freelist' = b
      /\ UNCHANGED <<brk, size, want, prev, cur>>
      /\ next' = [next EXCEPT ![b] = freelist]
      /\ addresses' = [addresses EXCEPT ![s] = Null]
      /\ request' = [request EXCEPT ![s] = 0]
  BY DEF Free
<1>2. /\ addresses \in [Slot -> Blocks \cup {Null}] /\ request \in [Slot -> 0..SizeMax]
      /\ next \in [Blocks -> Blocks \cup {Null}] /\ b \in Blocks /\ b \in Held
      /\ Null \notin Blocks
  BY <1>1, NullIsNoBlock DEF IInv, TypeOK, Held
<1>3. \A t \in Slot : addresses'[t] = IF t = s THEN Null ELSE addresses[t]
  BY <1>1, <1>2
<1>4. \A t \in Slot : t # s => addresses[t] # b
  BY <1>1 DEF IInv, LargeEnough
<1>5. \A x \in Blocks : next'[x] = IF x = b THEN freelist ELSE next[x]
  BY <1>1, <1>2
<1> HIDE DEF b
<1>6. Blocks' = Blocks /\ Held' = Held \ {b} /\ Unheld' = Unheld \cup {b} /\ b \notin Unheld
  <2>1. Blocks' = Blocks
    BY <1>1 DEF Blocks
  <2>2. Held' \subseteq Held \ {b}
    BY <1>3, <1>4 DEF Held
  <2>3. Held \ {b} \subseteq Held'
    BY <1>3 DEF Held, b
  <2> QED BY <1>2, <2>1, <2>2, <2>3 DEF Unheld
<1>7. TypeOK'
  <2>1. addresses' \in [Slot -> Blocks \cup {Null}] /\ 0 \in 0..SizeMax
    BY <1>1, <1>2, AllocatorAssumption DEF SizeMax
  <2>2. request' \in [Slot -> 0..SizeMax]
    BY <1>1, <1>2, <2>1
  <2>3. next' \in [Blocks -> Blocks \cup {Null}] /\ freelist' \in Blocks \cup {Null}
    BY <1>1, <1>2 DEF IInv, TypeOK
  <2> QED BY <1>1, <1>6, <2>1, <2>2, <2>3 DEF IInv, TypeOK
<1>8. BlocksDisjoint'
  BY <1>1, <1>6 DEF IInv, BlocksDisjoint, End
<1>9. LargeEnough'
  <2>1. \A t \in Slot : request'[t] = IF t = s THEN 0 ELSE request[t]
    BY <1>1, <1>2
  <2> QED BY <1>1, <1>3, <2>1 DEF IInv, LargeEnough, End
<1>10. FreeListExact'
  <2>1. \A x \in Unheld : x \in Blocks /\ x # b /\ next'[x] = next[x]
    BY <1>5, <1>6 DEF Unheld
  <2>2. next'[b] = freelist
    BY <1>2, <1>5
  <2>3. Reaches(Unheld)'
    BY <1>1, <1>6, <2>1, <2>2, LinksStayFree DEF IInv, Reaches
  <2>4. ASSUME NEW S \in SUBSET (Unheld \cup {b}), Reaches(S)' PROVE S = Unheld \cup {b}
    <3>1. b \in S
      BY <1>1, <2>4 DEF Reaches, b
    <3>2. Reaches(S \ {b})
      BY <1>6, <2>1, <2>2, <2>4, <3>1, LinksStayFree DEF IInv, Reaches
    <3>3. S \ {b} = Unheld
      BY <2>4, <3>2, OnlyTheWholeList DEF IInv
    <3> QED BY <3>1, <3>3
  <2> QED BY <1>6, <2>3, <2>4 DEF FreeListExact, Unheld
<1>11. OnePredecessor'
  <2>1. \A x \in Unheld : /\ next'[x] = next[x]
                           /\ next[x] # Null => next[x] \in Unheld /\ next[x] # b
    BY <1>5, <1>6, LinksStayFree DEF IInv, Unheld
  <2>2. next'[b] = freelist /\ (freelist # Null => freelist # b)
    BY <1>2, <1>5, <1>6, LinksStayFree DEF IInv
  <2> QED BY <1>1, <1>6, <2>1, <2>2 DEF IInv, OnePredecessor
<1>12. InSearch' /\ Passed' /\ GrowsLast'
  BY <1>1 DEF InSearch, Passed, GrowsLast
<1> QED BY <1>7, <1>8, <1>9, <1>10, <1>11, <1>12 DEF IInv

LEMMA StepIInv == ASSUME NoWrap PROVE IInv /\ [Next]_vars => IInv'
<1> SUFFICES ASSUME IInv, [Next]_vars PROVE IInv'
  OBVIOUS
<1>1. CASE UNCHANGED vars
  <2>1. UNCHANGED <<heapVars, addresses, request>> /\ UNCHANGED <<pc, slot, want, prev, cur>>
        /\ UNCHANGED <<brk, size, next, freelist>>
    BY <1>1 DEF vars, heapVars
  <2>2. /\ BlocksDisjoint' /\ LargeEnough' /\ FreeListExact' /\ OnePredecessor'
        /\ Blocks' = Blocks /\ Held' = Held /\ Unheld' = Unheld
    BY <2>1, SameHeap
  <2>3. TypeOK'
    BY <2>1, <2>2 DEF IInv, TypeOK
  <2>4. InSearch' /\ Passed' /\ GrowsLast'
    BY <2>1, <2>2 DEF IInv, InSearch, Passed, Rest, GrowsLast
  <2> QED BY <2>2, <2>3, <2>4 DEF IInv
<1> QED BY <1>1, CallStep, FreeStep, TakeFitStep, SkipStep, NoFitStep, FailStep, GrowStep
        DEF Next, Alloc

LEMMA Invariant == ASSUME NoWrap PROVE Spec => []IInv
  BY InitIInv, StepIInv, PTL DEF Spec

-----------------------------------------------------------------------------
\* No two blocks share a byte and all lie in the heap, however they are freed and
\* handed out again (alloc_mem, solution.c:16-72), for every size for which the
\* limit test does not wrap around.
THEOREM NoOverlap == ASSUME NoWrap PROVE Spec => []BlocksDisjoint
<1>1. IInv => BlocksDisjoint
  BY DEF IInv
<1> QED BY <1>1, Invariant, PTL

\* For those sizes the block returned is as large as was asked for and nobody
\* else's (README.md:16 of the task), rounding and reuse included.
THEOREM RequestsMet == ASSUME NoWrap PROVE Spec => []LargeEnough
<1>1. IInv => LargeEnough
  BY DEF IInv
<1> QED BY <1>1, Invariant, PTL

\* The free list is exactly the blocks nobody holds, through any sequence of
\* removals from its head and its middle (solution.c:27-31 and free_mem).
THEOREM FreeListIsExact == ASSUME NoWrap PROVE Spec => []FreeListExact
<1>1. IInv => FreeListExact
  BY DEF IInv
<1> QED BY <1>1, Invariant, PTL

\* The search has seen every free block before the heap grows (solution.c:25-38).
THEOREM GrowsOnlyLast == ASSUME NoWrap PROVE Spec => []GrowsLast
<1>1. IInv => GrowsLast
  BY DEF IInv
<1> QED BY <1>1, Invariant, PTL

-----------------------------------------------------------------------------
\* What Heap sees of the allocator.
Content == [s \in Slot |-> IF addresses[s] = Null THEN Null ELSE Body(addresses[s])]
Pending == IF pc = "idle" THEN Null ELSE [slot |-> slot, len |-> want]

LEMMA PendingIsRequest ==
  ASSUME TypeOK, pc # "idle"
  PROVE  Pending # Null /\ Pending.slot = slot /\ Pending.len = want /\ want \in Nat
<1>1. slot \in Slot /\ want \in Nat
  BY AllocatorAssumption DEF TypeOK
<1>2. [slot |-> slot, len |-> want] \in [slot : Slot, len : Nat]
  BY <1>1
<1> QED BY <1>1, <1>2, AllocatorAssumption DEF Pending

\* An answer: a block nobody held goes to the slot that asked.
LEMMA ReturnAnswers ==
  ASSUME IInv, IInv', NEW b \in Blocks', pc # "idle", pc' = "idle",
         slot \in Slot, want <= size'[b],
         addresses' = [addresses EXCEPT ![slot] = b],
         \A c \in Held : c \in Blocks /\ size'[c] = size[c] /\ c # b
  PROVE  \E from, to \in Base..MaxBrk :
            from <= to /\ Abstract!Answer([at |-> from, len |-> to - from])
<1> DEFINE r == [at |-> b + Word, len |-> size'[b]]
<1>0. /\ Blocks' \subseteq Nat /\ \A c \in Blocks' : size'[c] \in Nat
      /\ brk' \in Base..MaxBrk /\ Word \in Nat /\ Base \in Nat /\ MaxBrk \in Nat
  <2>1. /\ Blocks' \subseteq 0..MaxBrk /\ size' \in [Blocks' -> 0..SizeMax]
        /\ brk' \in Base..MaxBrk
    BY DEF IInv, TypeOK
  <2>2. 0..MaxBrk \subseteq Nat /\ 0..SizeMax \subseteq Nat
    OBVIOUS
  <2>3. \A c \in Blocks' : size'[c] \in 0..SizeMax
    BY <2>1
  <2>4. Word \in Nat /\ Base \in Nat /\ MaxBrk \in Nat
    BY AllocatorAssumption
  <2> QED BY <2>1, <2>2, <2>3, <2>4
<1>1. /\ b \in Nat /\ size'[b] \in Nat /\ Base <= b /\ b + Word + size'[b] <= brk'
      /\ b + Word \in Base..MaxBrk /\ b + Word + size'[b] \in Base..MaxBrk /\ r # Null
  <2>1. b \in Nat /\ size'[b] \in Nat /\ Base <= b /\ b + Word + size'[b] <= brk'
    BY <1>0 DEF IInv, BlocksDisjoint, End
  <2>2. b + Word \in Nat
    BY <1>0, <2>1
  <2>3. r \in [at : Nat, len : Nat]
    BY <2>1, <2>2
  <2> QED BY <1>0, <2>1, <2>3, AllocatorAssumption
<1>2. \A s \in Slot : addresses'[s] = IF s = slot THEN b ELSE addresses[s]
  BY DEF IInv, TypeOK
<1>3. \A s \in Slot : addresses[s] # Null => addresses[s] \in Held
  BY DEF Held
<1>4. \A s \in Slot : Content[s] # Null => Abstract!Apart(r, Content[s])
  <2> SUFFICES ASSUME NEW s \in Slot, Content[s] # Null
               PROVE  Abstract!Apart(r, Content[s])
    OBVIOUS
  <2> DEFINE c == addresses[s]
  <2>1. c # Null /\ c \in Held /\ Content[s] = [at |-> c + Word, len |-> size[c]]
    BY <1>3 DEF Content, Body
  <2>2. c \in Blocks' /\ c # b /\ size'[c] = size[c]
    BY <1>2, <2>1 DEF IInv, TypeOK
  <2>3. c \in Nat /\ size'[c] \in Nat
    BY <1>0, <2>2
  <2>4. b + Word + size'[b] <= c \/ c + Word + size'[c] <= b
    BY <1>0, <1>1, <2>2, <2>3 DEF IInv, BlocksDisjoint, End
  <2> HIDE DEF c
  <2> QED BY <1>0, <1>1, <2>1, <2>2, <2>3, <2>4 DEF Abstract!Apart
<1>5. Content' = [Content EXCEPT ![slot] = r]
  <2>1. Content' = [s \in Slot |-> IF addresses'[s] = Null THEN Null
                                   ELSE [at |-> addresses'[s] + Word, len |-> size'[addresses'[s]]]]
    BY DEF Content, Body
  <2>2. \A s \in Slot : s # slot =>
           Content'[s] = IF addresses[s] = Null THEN Null
                         ELSE [at |-> addresses[s] + Word, len |-> size[addresses[s]]]
    BY <1>2, <1>3, <2>1
  <2>3. \A s \in Slot : s # slot => Content'[s] = Content[s]
    BY <2>2 DEF Content, Body
  <2>4. b # Null
    BY <1>1, AllocatorAssumption
  <2>5. Content'[slot] = r
    BY <1>2, <2>1, <2>4
  <2>6. /\ Content = [s \in Slot |-> Content[s]] /\ DOMAIN Content = Slot
        /\ Content' = [s \in Slot |-> Content'[s]]
    BY DEF Content
  <2> HIDE DEF r
  <2> QED BY <2>3, <2>5, <2>6
<1>6. Pending' = Null /\ Pending # Null /\ Pending.slot = slot /\ Pending.len = want
  BY PendingIsRequest DEF IInv, Pending
<1>7. Abstract!Answer(r)
  BY <1>4, <1>5, <1>6 DEF Abstract!Answer, Content, Pending
<1>8. r = [at |-> b + Word, len |-> (b + Word + size'[b]) - (b + Word)]
      /\ b + Word <= b + Word + size'[b]
  BY <1>0, <1>1
<1> HIDE DEF r
<1>9. Abstract!Answer([at |-> b + Word, len |-> (b + Word + size'[b]) - (b + Word)])
  BY <1>7, <1>8 DEF Abstract!Answer
<1> DEFINE from == b + Word
           to == b + Word + size'[b]
<1>10. from \in Base..MaxBrk /\ to \in Base..MaxBrk /\ from <= to
  BY <1>1, <1>8
<1>11. Abstract!Answer([at |-> from, len |-> to - from])
  BY <1>9
<1> HIDE DEF from, to
<1> QED BY <1>10, <1>11 DEF Abstract!Answer

\* Steps inside the search show nothing, the others are one step of Heap.
LEMMA NoContentChange ==
  ASSUME UNCHANGED <<size, addresses>> PROVE Content' = Content
  BY DEF Content, Body

LEMMA CallAsks ==
  ASSUME IInv, IInv', NEW s \in Slot, NEW n \in Sizes, Call(s, n)
  PROVE  Abstract!Ask(s)
<1>1. pc = "idle" /\ addresses[s] = Null /\ pc' # "idle" /\ slot' = s /\ want' = n
      /\ UNCHANGED <<size, addresses>>
  BY DEF Call, heapVars
<1>2. Content' = Content /\ Pending = Null /\ Content[s] = Null
  BY <1>1, NoContentChange DEF Content, Pending
<1>3. Pending' # Null /\ Pending'.slot = s /\ Pending'.len \in Nat
  <2>1. n \in Nat
    BY AllocatorAssumption
  <2>2. [slot |-> s, len |-> n] \in [slot : Slot, len : Nat]
    BY <2>1
  <2>3. Pending' = [slot |-> s, len |-> n]
    BY <1>1 DEF Pending
  <2> QED BY <2>1, <2>2, <2>3, AllocatorAssumption
<1> QED BY <1>2, <1>3 DEF Abstract!Ask, Content, Pending

LEMMA FreeFrees ==
  ASSUME IInv, NEW s \in Slot, Free(s)
  PROVE  Abstract!Free(s)
<1>1. pc = "idle" /\ pc' = "idle" /\ addresses[s] # Null /\ UNCHANGED size
      /\ addresses' = [addresses EXCEPT ![s] = Null]
  BY DEF Free
<1>2. Pending = Null /\ Pending' = Null
  BY <1>1 DEF Pending
<1>3. Content[s] # Null
  <2>1. addresses[s] \in Nat /\ size[addresses[s]] \in Nat
    <3>1. addresses[s] \in Blocks
      BY <1>1 DEF IInv, TypeOK
    <3>2. size[addresses[s]] \in 0..SizeMax
      BY <3>1 DEF IInv, TypeOK
    <3>3. SizeMax \in Int
      BY AllocatorAssumption DEF SizeMax
    <3> QED BY <3>1, <3>2, <3>3, NullIsNoBlock DEF IInv
  <2>2. Body(addresses[s]) \in [at : Nat, len : Nat]
    BY <2>1, AllocatorAssumption DEF Body
  <2> QED BY <1>1, <2>2, AllocatorAssumption DEF Content
<1>4. \A t \in Slot : addresses'[t] = IF t = s THEN Null ELSE addresses[t]
  BY <1>1 DEF IInv, TypeOK
<1>5. Content' = [Content EXCEPT ![s] = Null]
  <2>1. \A t \in Slot : Content'[t] = IF t = s THEN Null ELSE Content[t]
    BY <1>1, <1>4 DEF Content, Body
  <2>2. /\ Content = [t \in Slot |-> Content[t]] /\ DOMAIN Content = Slot
        /\ Content' = [t \in Slot |-> Content'[t]]
    BY DEF Content
  <2> QED BY <2>1, <2>2
<1> QED BY <1>2, <1>3, <1>5 DEF Abstract!Free, Content, Pending

LEMMA FailRefuses == ASSUME IInv, Fail PROVE Abstract!Refuse
<1>1. pc = "grow" /\ pc' = "idle" /\ UNCHANGED size
      /\ addresses' = [addresses EXCEPT ![slot] = Null]
  BY DEF Fail, Return, heapVars
<1>2. addresses' = addresses
  BY <1>1 DEF IInv, TypeOK
<1>3. Content' = Content /\ Pending # Null /\ Pending' = Null
  BY <1>1, <1>2, NoContentChange, PendingIsRequest DEF IInv, Pending
<1> QED BY <1>3 DEF Abstract!Refuse, Content, Pending

LEMMA TakeFitAnswers ==
  ASSUME IInv, IInv', TakeFit
  PROVE  \E from, to \in Base..MaxBrk :
            from <= to /\ Abstract!Answer([at |-> from, len |-> to - from])
<1>1. /\ pc = "search" /\ pc' = "idle" /\ cur # Null /\ want <= size[cur] /\ size' = size
      /\ addresses' = [addresses EXCEPT ![slot] = cur] /\ slot \in Slot
  BY DEF TakeFit, Return, IInv, TypeOK
<1>2. cur \in Blocks' /\ cur \notin Held
  BY <1>1 DEF IInv, InSearch, Unheld, Blocks
<1>3. \A c \in Held : c \in Blocks /\ size'[c] = size[c] /\ c # cur
  BY <1>1, <1>2, HeldAreBlocks DEF IInv
<1> QED BY <1>1, <1>2, <1>3, ReturnAnswers

LEMMA GrowAnswers ==
  ASSUME IInv, IInv', NoWrap, Grow
  PROVE  \E from, to \in Base..MaxBrk :
            from <= to /\ Abstract!Answer([at |-> from, len |-> to - from])
<1>1. brk # Null /\ brk \notin Blocks /\ want <= ActualSize(want)
  <2>1. brk \in Nat /\ Word \in Nat \ {0} /\ \A c \in Blocks : c \in Nat /\ size[c] \in Nat
    <3>1. brk \in Base..MaxBrk /\ \A c \in Blocks : size[c] \in 0..SizeMax
      BY DEF IInv, TypeOK
    <3>2. 0..SizeMax \subseteq Nat /\ Base..MaxBrk \subseteq Nat
      BY AllocatorAssumption
    <3>3. Word \in Nat \ {0}
      BY AllocatorAssumption
    <3> QED BY <3>1, <3>2, <3>3, NullIsNoBlock DEF IInv
  <2> QED BY <2>1, BreakMoves, AllocatorAssumption DEF IInv, BlocksDisjoint, End
<1>2. /\ pc = "grow" /\ pc' = "idle" /\ slot \in Slot
      /\ addresses' = [addresses EXCEPT ![slot] = brk]
  BY DEF Grow, Return, IInv, TypeOK
<1>3. size' = [x \in Blocks \cup {brk} |-> IF x = brk THEN ActualSize(want) ELSE size[x]]
  BY DEF Grow, Update, Blocks
<1>4. brk \in Blocks' /\ size'[brk] = ActualSize(want) /\ \A c \in Blocks : size'[c] = size[c]
  BY <1>1, <1>3 DEF Blocks
<1>5. \A c \in Held : c \in Blocks /\ size'[c] = size[c] /\ c # brk
  BY <1>1, <1>4, HeldAreBlocks DEF IInv
<1> QED BY <1>1, <1>2, <1>4, <1>5, ReturnAnswers

LEMMA SearchStutters ==
  ASSUME Skip \/ NoFit \/ UNCHANGED vars
  PROVE  Content' = Content /\ Pending' = Pending
<1>1. UNCHANGED <<size, addresses>>
  BY DEF Skip, NoFit, vars, heapVars
<1>2. (pc' = "idle" <=> pc = "idle") /\ UNCHANGED <<slot, want>>
  BY DEF Skip, NoFit, vars
<1> QED BY <1>1, <1>2, NoContentChange DEF Pending

LEMMA StepImplements ==
  ASSUME NoWrap, IInv, IInv', [Next]_vars
  PROVE  [Abstract!Next]_(Abstract!vars)
<1>1. CASE \E s \in Slot, n \in Sizes : Call(s, n)
  BY <1>1, CallAsks DEF Abstract!Next
<1>2. CASE \E s \in Slot : Free(s)
  BY <1>2, FreeFrees DEF Abstract!Next
<1>3. CASE Fail
  BY <1>3, FailRefuses DEF Abstract!Next
<1>4. CASE TakeFit
  BY <1>4, TakeFitAnswers DEF Abstract!Next
<1>5. CASE Grow
  BY <1>5, GrowAnswers DEF Abstract!Next
<1>6. CASE Skip \/ NoFit \/ UNCHANGED vars
  BY <1>6, SearchStutters DEF Abstract!vars, Content, Pending
<1> QED BY <1>1, <1>2, <1>3, <1>4, <1>5, <1>6 DEF Next, Alloc

\* The allocator is a heap in the sense of Heap: every step of it, seen from the
\* program, is a request, its refusal, its answer with a range apart from all
\* others, a free, or nothing.  (That requests are answered is liveness.)
THEOREM AllocatorIsHeap ==
  ASSUME NoWrap
  PROVE  Spec => Abstract!Init /\ [][Abstract!Next]_(Abstract!vars)
<1>1. Init => Abstract!Init
  BY DEF Init, Abstract!Init
<1>2. IInv /\ IInv' /\ [Next]_vars => [Abstract!Next]_(Abstract!vars)
  BY StepImplements
<1> QED BY <1>1, <1>2, Invariant, PTL DEF Spec
=============================================================================
