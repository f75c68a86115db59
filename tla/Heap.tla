-------------------------------- MODULE Heap --------------------------------
(* What tasks/c_advanced/allocator/README.md promises of alloc_mem and       *)
(* free_mem, without a free list: a request is answered with NULL or with a  *)
(* range of at least its size that meets no range in use, and every request  *)
(* is answered.                                                              *)
EXTENDS Integers

CONSTANTS Slot,     \* the places where the program keeps addresses
          Address,  \* the addresses of the heap
          Nothing

VARIABLES held,     \* the range each slot holds: [at, len], or Nothing
          pending   \* the request being answered: [slot, len], or Nothing

vars == <<held, pending>>

Apart(r, q) == r.at + r.len <= q.at \/ q.at + q.len <= r.at

Init == held = [s \in Slot |-> Nothing] /\ pending = Nothing

Ask(s) ==
    /\ pending = Nothing /\ held[s] = Nothing
    /\ pending' # Nothing /\ pending'.slot = s /\ pending'.len \in Nat
    /\ UNCHANGED held

Refuse == pending # Nothing /\ pending' = Nothing /\ UNCHANGED held

Answer(r) ==
    /\ pending # Nothing /\ r.len >= pending.len
    /\ \A s \in Slot : held[s] # Nothing => Apart(r, held[s])
    /\ held' = [held EXCEPT ![pending.slot] = r]
    /\ pending' = Nothing

Free(s) ==
    /\ pending = Nothing /\ held[s] # Nothing
    /\ held' = [held EXCEPT ![s] = Nothing]
    /\ UNCHANGED pending

Next == \/ \E s \in Slot : Ask(s) \/ Free(s)
        \/ Refuse
        \/ \E from, to \in Address : from <= to /\ Answer([at |-> from, len |-> to - from])

\* No request waits for ever.
Answered == pending # Nothing ~> pending = Nothing

Spec == Init /\ [][Next]_vars /\ Answered
=============================================================================
