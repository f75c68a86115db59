---------------------------- MODULE BinarySearch ----------------------------
(* tasks/asm_2/binary-search: bsearch40 looks for 40 in an array whose odd   *)
(* elements come first, in descending order, and whose even ones follow in   *)
(* ascending order.  What main asserts of two neighbours is weaker: it also  *)
(* lets an odd element follow a larger even one.                             *)
EXTENDS Integers, Sequences

CONSTANTS Values,     \* what the elements may be
          MaxLength   \* how long the array may be

ASSUME SearchAssumption == Values \subseteq Int /\ MaxLength \in Nat

Target == 40

VARIABLES array,    \* array[i + 1] is the source's array[i]
          lo, hi,   \* rcx and rdx
          result    \* eax on return; Running before it

vars == <<array, lo, hi, result>>

Running == -2
NotFound == -1

Odd(v) == v % 2 = 1

\* What main asserts of an element and the one before it.
InOrder(prev, v) == \/ ~Odd(v) /\ Odd(prev)
                    \/ Odd(v) /\ v < prev
                    \/ ~Odd(v) /\ v > prev

\* INT_MAX stands before the first element and allows anything.
Asserted(a) == \A k \in 1..Len(a) - 1 : InOrder(a[k], a[k + 1])

Arrays == {a \in UNION {[1..n -> Values] : n \in 0..MaxLength} : Asserted(a)}

Init ==
    /\ array \in Arrays
    /\ lo = 0 /\ hi = Len(array) - 1
    /\ result = IF array = <<>> THEN NotFound ELSE Running

Mid == lo + (hi - lo) \div 2
Probe == array[Mid + 1]

Searching == result = Running /\ lo <= hi

\* Right of an odd element, whatever its value, or of a smaller even one.
GoRight ==
    /\ Searching /\ (Odd(Probe) \/ Probe < Target)
    /\ lo' = Mid + 1
    /\ UNCHANGED <<array, hi, result>>

\* Mutated: the middle is kept in the range.
GoLeftKeeping ==
    /\ Searching /\ ~Odd(Probe) /\ Probe > Target
    /\ hi' = Mid
    /\ UNCHANGED <<array, lo, result>>

\* Mutated: odd elements are compared like the even ones.
GoLeftOfOdd ==
    /\ Searching /\ Probe > Target
    /\ hi' = Mid - 1
    /\ UNCHANGED <<array, lo, result>>

\* Left of a larger even element.
GoLeft ==
    /\ Searching /\ ~Odd(Probe) /\ Probe > Target
    /\ hi' = Mid - 1
    /\ UNCHANGED <<array, lo, result>>

Found ==
    /\ Searching /\ Probe = Target
    /\ result' = Mid
    /\ UNCHANGED <<array, lo, hi>>

Exhausted ==
    /\ result = Running /\ lo > hi
    /\ result' = NotFound
    /\ UNCHANGED <<array, lo, hi>>

Next == GoRight \/ GoLeft \/ Found \/ Exhausted

Spec == Init /\ [][Next]_vars /\ WF_vars(Next)
-----------------------------------------------------------------------------
\* The loop reads only elements of the array: every index it can still probe
\* is in bounds.
InBounds == 0 <= lo /\ lo <= Len(array) /\ hi < Len(array)

\* The order the callers of bsearch40 guarantee.
Guaranteed ==
    \A j, k \in 1..Len(array) : j < k =>
        \/ Odd(array[j]) /\ ~Odd(array[k])
        \/ Odd(array[j]) /\ Odd(array[k]) /\ array[j] > array[k]
        \/ ~Odd(array[j]) /\ ~Odd(array[k]) /\ array[j] < array[k]

\* While the search goes on, an occurrence of 40 is still in the range; the
\* mixed order of the two halves never hides it.
NotMissed ==
    Guaranteed /\ result = Running =>
        \A k \in 1..Len(array) : array[k] = Target => k - 1 \in lo..hi

\* bsearch40 returns the index of 40, and -1 only when 40 is not there.
ResultRight ==
    /\ result >= 0 => result < Len(array) /\ array[result + 1] = Target
    /\ Guaranteed /\ result = NotFound =>
          \A k \in 1..Len(array) : array[k] # Target

\* Every probe halves what is left.
Halves == [][result' = Running =>
                2 * (hi' - lo' + 1) <= hi - lo + 1]_vars

=============================================================================
