------------------------- MODULE FreeListAllocator --------------------------
(* alloc_mem and free_mem of tasks/c_advanced/allocator/solution.c: a        *)
(* first-fit free list over memory that sbrk hands out.  Integers are size_t *)
(* (modulo Modulus); a block is named by the address of its header word, and *)
(* the size field of every header ever written is the function size.         *)
EXTENDS Integers, FiniteSets

CONSTANTS Modulus,   \* 2^64: the number of values of size_t
          Word,      \* 8: the header's size and the alignment
          Limit,     \* 2^32: where the code stops growing the heap
          Base,      \* the break before the first block
          MaxBrk,    \* the highest break the system grants
          Sizes,     \* the sizes the program asks for
          Slot,      \* the program's variables for addresses
          Null

ASSUME AllocatorAssumption ==
    /\ Word \in Nat \ {0} /\ Limit \in Nat /\ Base \in Nat \ {0} /\ MaxBrk \in Nat
    /\ Modulus \in Nat /\ Base <= MaxBrk /\ MaxBrk < Modulus /\ Limit < Modulus /\ Base < Limit
    /\ Modulus % (2 * Word) = 0 /\ Base % Word = 0
    /\ Sizes \subseteq 0..Modulus-1
    /\ Null \notin Nat
    /\ Null \notin [at : Nat, len : Nat] \cup [slot : Slot, len : Nat]

VARIABLES brk,          \* the program break
          size, next,   \* struct Block's fields, by header address
          freelist,     \* the head of the free list
          addresses,    \* main's array: the block each slot holds, or NULL
          request,      \* what the held block of a slot was asked for
          pc, slot, want, prev, cur   \* alloc_mem in progress, for which slot

heapVars == <<brk, size, next, freelist>>
vars == <<heapVars, addresses, request, pc, slot, want, prev, cur>>

Blocks == DOMAIN size
Held == {addresses[s] : s \in Slot} \ {Null}
SizeMax == Modulus - 1

Init ==
    /\ brk = Base /\ freelist = Null
    /\ size = [b \in {} |-> 0] /\ next = [b \in {} |-> Null]
    /\ addresses = [s \in Slot |-> Null] /\ request = [s \in Slot |-> 0]
    /\ pc = "idle" /\ slot = Null /\ want = 0 /\ prev = Null /\ cur = Null

-----------------------------------------------------------------------------
Align(n) == (((n + Word - 1) % Modulus) \div Word) * Word

ActualSize(n) == IF Align(n) < Word THEN Word ELSE Align(n)

\* sbrk takes its argument as a signed number: the upper half shrinks the heap.
Signed(n) == IF 2 * n >= Modulus THEN n - Modulus ELSE n

\* The tests before sbrk, on numbers that wrap around.
MayGrow(n) ==
    /\ n <= SizeMax - (Word - 1)
    /\ ActualSize(n) <= SizeMax - Word
    /\ brk <= (Limit - (Word + ActualSize(n))) % Modulus

Update(f, b, v) == [x \in DOMAIN f \cup {b} |-> IF x = b THEN v ELSE f[x]]

-----------------------------------------------------------------------------
(* alloc_mem, called for a slot that holds no block. *)

Call(s, n) ==
    /\ pc = "idle" /\ addresses[s] = Null
    /\ pc' = "search" /\ slot' = s /\ want' = n /\ prev' = Null /\ cur' = freelist
    /\ UNCHANGED <<heapVars, addresses, request>>

\* alloc_mem returns block b (its body is one word up), or NULL.
Return(b) ==
    /\ pc' = "idle" /\ cur' = Null /\ prev' = Null
    /\ addresses' = [addresses EXCEPT ![slot] = b]
    /\ request' = IF b = Null THEN request ELSE [request EXCEPT ![slot] = want]
    /\ slot' = Null /\ want' = 0

\* Mutated: the header is counted as usable.
TakeFitWithHeader ==
    /\ pc = "search" /\ cur # Null /\ size[cur] + Word >= want
    /\ IF prev = Null
       THEN freelist' = next[cur] /\ next' = next
       ELSE freelist' = freelist /\ next' = [next EXCEPT ![prev] = next[cur]]
    /\ Return(cur)
    /\ UNCHANGED <<brk, size>>

\* Mutated: the block is taken for the head of the list wherever it stands.
TakeFitAsHead ==
    /\ pc = "search" /\ cur # Null /\ size[cur] >= want
    /\ freelist' = next[cur]
    /\ Return(cur)
    /\ UNCHANGED <<brk, size, next>>

TakeFit ==
    /\ pc = "search" /\ cur # Null /\ size[cur] >= want
    /\ IF prev = Null
       THEN freelist' = next[cur] /\ next' = next
       ELSE freelist' = freelist /\ next' = [next EXCEPT ![prev] = next[cur]]
    /\ Return(cur)
    /\ UNCHANGED <<brk, size>>

Skip ==
    /\ pc = "search" /\ cur # Null /\ size[cur] < want
    /\ prev' = cur /\ cur' = next[cur]
    /\ UNCHANGED <<heapVars, addresses, request, pc, slot, want>>

\* Mutated: the loop ends at the last block without looking at it.
NoFitBeforeLast ==
    /\ pc = "search" /\ (cur # Null => next[cur] = Null)
    /\ pc' = "grow"
    /\ UNCHANGED <<heapVars, addresses, request, slot, want, prev, cur>>

NoFit ==
    /\ pc = "search" /\ cur = Null
    /\ pc' = "grow"
    /\ UNCHANGED <<heapVars, addresses, request, slot, want, prev, cur>>

\* A size the tests refuse, or memory the system refuses.
Fail ==
    /\ pc = "grow"
    /\ Return(Null)
    /\ UNCHANGED heapVars

\* Mutated: the break does not move past the header.
GrowWithoutHeader ==
    /\ pc = "grow" /\ MayGrow(want)
    /\ brk' = brk + Signed(ActualSize(want))
    /\ brk' \in Base..MaxBrk
    /\ size' = Update(size, brk, ActualSize(want))
    /\ next' = Update(next, brk, Null)
    /\ Return(brk)
    /\ UNCHANGED freelist

Grow ==
    /\ pc = "grow" /\ MayGrow(want)
    /\ brk' = brk + Signed(Word + ActualSize(want))
    /\ brk' \in Base..MaxBrk
    /\ size' = Update(size, brk, ActualSize(want))
    /\ next' = Update(next, brk, Null)   \* the body is not a link yet
    /\ Return(brk)
    /\ UNCHANGED freelist

\* free_mem of a slot's block: it becomes the head of the list.  main keeps the
\* address but never uses it again; free_mem of NULL does nothing.
Free(s) ==
    /\ pc = "idle" /\ addresses[s] # Null
    /\ next' = [next EXCEPT ![addresses[s]] = freelist]
    /\ freelist' = addresses[s]
    /\ addresses' = [addresses EXCEPT ![s] = Null]
    /\ request' = [request EXCEPT ![s] = 0]
    /\ UNCHANGED <<brk, size, pc, slot, want, prev, cur>>

Alloc == TakeFit \/ Skip \/ NoFit \/ Fail \/ Grow

Next == \/ \E s \in Slot, n \in Sizes : Call(s, n)
        \/ \E s \in Slot : Free(s)
        \/ Alloc

\* A call of alloc_mem runs to its end; the program need not make another.
Spec == Init /\ [][Next]_vars /\ WF_vars(Alloc)
-----------------------------------------------------------------------------
TypeOK ==
    /\ brk \in Base..MaxBrk
    /\ size \in [Blocks -> 0..SizeMax]
    /\ next \in [Blocks -> Blocks \cup {Null}]
    /\ Blocks \subseteq 0..MaxBrk
    /\ freelist \in Blocks \cup {Null}
    /\ addresses \in [Slot -> Blocks \cup {Null}]
    /\ request \in [Slot -> 0..SizeMax]
    /\ pc \in {"idle", "search", "grow"}
    /\ pc # "idle" => slot \in Slot /\ addresses[slot] = Null /\ want \in Sizes
    /\ want \in Sizes \cup {0}
    /\ {prev, cur} \subseteq Blocks \cup {Null}

End(b) == b + Word + size[b]

\* Every block lies in the heap and no two share a byte, whatever was freed and
\* handed out again: writing to one never changes another or a header.
BlocksDisjoint ==
    /\ \A b \in Blocks : Base <= b /\ End(b) <= brk
    /\ \A b, c \in Blocks : b < c => End(b) <= c

\* alloc_mem returns NULL or a block of at least the requested size that lies
\* in the heap and that no other caller holds.
LargeEnough ==
    \A s \in Slot : addresses[s] # Null =>
       /\ request[s] <= size[addresses[s]] /\ End(addresses[s]) <= brk
       /\ \A t \in Slot : s # t => addresses[s] # addresses[t]

\* No block is lost and none is both held and free: the free list consists of
\* exactly the blocks nobody holds.  (A set of blocks that contains the head and
\* that no link leaves contains all of them, and no held one is in the least.)
Reaches(S) ==
    /\ freelist # Null => freelist \in S
    /\ \A b \in S : next[b] # Null => next[b] \in S

FreeListExact ==
    /\ Reaches(Blocks \ Held)
    /\ \A S \in SUBSET (Blocks \ Held) : Reaches(S) => S = Blocks \ Held

\* Seen from outside it is a heap: what a slot holds is the body of its block, and
\* a request is pending from the call of alloc_mem to its return.  No list, no
\* header and no rounding shows, and no search goes on for ever.
Body(b) == [at |-> b + Word, len |-> size[b]]

Abstract == INSTANCE Heap WITH
    Address <- Base..MaxBrk, Nothing <- Null,
    held <- [s \in Slot |-> IF addresses[s] = Null THEN Null ELSE Body(addresses[s])],
    pending <- IF pc = "idle" THEN Null ELSE [slot |-> slot, len |-> want]

ImplementsHeap == Abstract!Spec

\* For these sizes the unsigned limit test means what it is written for, which it
\* does not for others: a size that passes the first two tests leaves room below
\* the limit, and the limit is not half of size_t.
NoWrap ==
    /\ 2 * Limit < Modulus
    /\ \A n \in Sizes : \/ n > SizeMax - (Word - 1) \/ ActualSize(n) > SizeMax - Word
                        \/ Word + ActualSize(n) <= Limit

\* The heap grows, or a request fails, only when no free block is large enough.
GrowsLast == pc = "grow" => \A b \in Blocks \ Held : size[b] < want
=============================================================================
