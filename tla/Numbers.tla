------------------------------ MODULE Numbers -------------------------------
(* The tasks that turn numbers into numbers: c_basic's satsum, average and   *)
(* fib-root, asm_1's pow, whole-mul and double-loop, and the arithmetic of   *)
(* the allocator that simpleasan.h gives to tests.  A run is one step        *)
(* from the numbers read to those printed.  The width of an integer is a     *)
(* parameter: arithmetic wraps around as it does on 32 or 64 bits.           *)
EXTENDS Integers, Sequences, FiniteSets

CONSTANTS Width,     \* 32 or 64
          PageSize,  \* of the memory
          Questions  \* the runs: records of a task and the numbers read

VARIABLES task, args,
          answer     \* the numbers printed; <<>> before

vars == <<task, args, answer>>

Power(b, k) == LET power[n \in Nat] == IF n = 0 THEN 1 ELSE b * power[n - 1] IN power[k]

Modulus == Power(2, Width)
Unsigned(v) == v % Modulus
Signed(v) == LET u == Unsigned(v) IN IF 2 * u < Modulus THEN u ELSE u - Modulus
Unsigneds == 0..Modulus-1

\* The inputs end with -1: nothing is read after it.
Read(s, k) == IF k \in DOMAIN s THEN s[k] ELSE -1

\* A number of rows and the rows, none of them empty, each with a -1 at its end.
Rows == {s \in Seq(Int) :
           /\ Len(s) >= 3 /\ s[2] # -1 /\ s[Len(s)] = -1
           /\ \A k \in 2..Len(s)-1 : s[k] = -1 => s[k + 1] # -1
           /\ s[1] = Cardinality({k \in 2..Len(s) : s[k] = -1})}

NumbersAssumption ==
    /\ Width \in Nat /\ Width > 1 /\ PageSize \in Nat \ {0}
    /\ \A q \in Questions :
          \/ q.task \in {"satsum", "average"} /\ q.args \in Unsigneds \X Unsigneds
          \/ q.task = "fib-root" /\ q.args[1] \in Unsigneds
          \/ q.task = "pow" /\ q.args \in Int \X Int
          \/ /\ q.task = "whole-mul" /\ q.args \in Seq(Int) \ {<<>>}
             /\ \A k \in DOMAIN q.args : q.args[k] = -1 <=> k = Len(q.args)
          \/ q.task = "double-loop" /\ q.args \in Rows
          \/ q.task = "simpleasan" /\ q.args[1] \in Nat \ {0}

\* Mutated: the sum is compared with the maximum instead of with an argument.
satsumNever(v1, v2) ==
    LET sum == Unsigned(v1 + v2) IN IF sum > Modulus - 1 THEN Modulus - 1 ELSE sum

\* A sum that wrapped around is smaller than either argument.
satsum(v1, v2) ==
    LET sum == Unsigned(v1 + v2) IN IF sum < v1 THEN Modulus - 1 ELSE sum

\* C's & and ^, from the lowest bit up.
And[a \in Nat] ==
    [b \in Nat |-> IF a = 0 THEN 0 ELSE (a % 2) * (b % 2) + 2 * And[a \div 2][b \div 2]]
Xor[a \in Nat] ==
    [b \in Nat |-> IF a = 0 THEN b ELSE ((a + b) % 2) + 2 * Xor[a \div 2][b \div 2]]

\* Without the carry that a + b may lose.
average(a, b) == Unsigned(And[a][b] + Xor[a][b] \div 2)

\* The table holds all the Fibonacci numbers that fit: of 64 bits fewer than the
\* MAX_FIB there is room for.
Tables == {f \in Seq(Nat) : Len(f) >= 2 /\ f[Len(f)] > 0 /\ f[Len(f) - 1] > 0}
fib ==
    LET grow[f \in Tables] ==
            LET next == f[Len(f)] + f[Len(f) - 1]
            IN  IF next >= Modulus THEN f ELSE grow[Append(f, next)]
    IN  grow[<<0, 1, 1>>]

\* The last index, from 0, of a number of the table that is at most x; one is
\* subtracted when it is printed.
fib_root(x) ==
    LET search[s \in [left : Nat, right : Int, ans : Nat]] ==
            LET mid == s.left + (s.right - s.left) \div 2
            IN  IF s.left > s.right THEN s.ans
                ELSE IF fib[mid + 1] <= x
                     THEN search[[s EXCEPT !.left = mid + 1, !.ans = mid]]
                     ELSE search[[s EXCEPT !.right = mid - 1]]
    IN  search[[left |-> 0, right |-> Len(fib) - 1, ans |-> 0]] - 1

\* r14 is multiplied by r12 for every bit of r13, which is shifted out while r12
\* is squared.
pow(n, p) ==
    LET loop[r \in [r12 : Int, r13 : Nat, r14 : Int]] ==
            IF r.r13 = 0 THEN r.r14
            ELSE loop[[r12 |-> Signed(r.r12 * r.r12), r13 |-> r.r13 \div 2,
                       r14 |-> IF r.r13 % 2 = 1 THEN Signed(r.r14 * r.r12) ELSE r.r14]]
    IN  IF p >= 0 THEN loop[[r12 |-> n, r13 |-> p, r14 |-> 1]] ELSE IF n = 1 THEN 1 ELSE 0

\* The product of what stands before the first -1.
whole_mul(s) ==
    LET loop[r \in [next : Nat, r12 : Int]] ==
            LET rax == Read(s, r.next)
            IN  IF rax = -1 THEN r.r12
                ELSE loop[[next |-> r.next + 1, r12 |-> Signed(r.r12 * rax)]]
    IN  loop[[next |-> 1, r12 |-> 1]]

\* For every row, the largest number before its -1: the first is taken
\* unseen, as the start of the maximum.
double_loop(s) ==
    LET row[r \in [next : Nat, r13 : Int]] ==  \* where the next row begins, the maximum
            LET r14 == Read(s, r.next)
            IN  IF r14 = -1 THEN [r EXCEPT !.next = @ + 1]
                ELSE row[[next |-> r.next + 1, r13 |-> IF r.r13 >= r14 THEN r.r13 ELSE r14]]
        rows[r \in [next : Nat, r12 : Nat \ {0}]] ==
            LET this == row[[next |-> r.next + 1, r13 |-> Read(s, r.next)]]
            IN  <<this.r13>>
                \o IF r.r12 = 1 THEN <<>> ELSE rows[[next |-> this.next, r12 |-> r.r12 - 1]]
    IN  rows[[next |-> 2, r12 |-> s[1]]]

\* malloc_protected and then free_protected, relative to what mmap returned: the
\* buffer, the first inaccessible byte, where the size is looked for, and the
\* place and length of what is given back.
protected(n) ==
    LET n_pages == (n - 1) \div PageSize + 1
        buf == (n_pages + 1) * PageSize - n
        start == (buf \div PageSize) * PageSize - PageSize
    IN  <<buf, (n_pages + 1) * PageSize, start, start, (n_pages + 2) * PageSize>>

Init == /\ \E q \in Questions : task = q.task /\ args = q.args
        /\ answer = <<>>

Given(t) == task = t /\ answer = <<>> /\ UNCHANGED <<task, args>>

Next == \/ Given("satsum") /\ answer' = <<satsum(args[1], args[2])>>
        \/ Given("average") /\ answer' = <<average(args[1], args[2])>>
        \/ Given("fib-root") /\ answer' = <<fib_root(args[1])>>
        \/ Given("pow") /\ answer' = <<pow(args[1], args[2])>>
        \/ Given("whole-mul") /\ answer' = <<whole_mul(args)>>
        \/ Given("double-loop") /\ answer' = double_loop(args)
        \/ Given("simpleasan") /\ answer' = protected(args[1])

Spec == Init /\ [][Next]_vars
-----------------------------------------------------------------------------
Answered(t) == task = t /\ answer # <<>>

\* The numbers of the sequence 0, 1, 1, 2, ... by their definition.
Fibonacci[k \in Nat] == IF k < 2 THEN k ELSE Fibonacci[k - 1] + Fibonacci[k - 2]

\* The product of all numbers but the last.
Product(s) ==
    LET product[k \in 0..Len(s)] == IF k = 0 THEN 1 ELSE product[k - 1] * s[k]
    IN  product[Len(s) - 1]

\* The k-th row of double-loop's input: the numbers that k - 1 ends stand before.
Row(k) ==
    {args[m] : m \in {n \in 2..Len(args) :
        args[n] # -1 /\ Cardinality({j \in 2..n-1 : args[j] = -1}) = k - 1}}

\* Every program prints what its task defines, at every carry, wrap, sign and
\* end of range: the sum or the largest number; the mean, rounded down, though
\* the sum may not fit; the number of the largest Fibonacci number that is not
\* larger; the power and the product, where they fit; the maximum of each row.
\* A protected buffer ends where the inaccessible page begins, has its size in
\* a page of its own, and is given back whole.
NumbersRight ==
    /\ Answered("satsum") =>
          LET sum == args[1] + args[2]
          IN  answer[1] = IF sum < Modulus THEN sum ELSE Modulus - 1
    /\ Answered("average") => answer[1] = (args[1] + args[2]) \div 2
    /\ Answered("fib-root") =>
          /\ Fibonacci[answer[1] + 1] <= args[1]
          /\ Fibonacci[answer[1] + 2] > args[1]
    /\ Answered("pow") =>
          IF args[2] >= 0 THEN answer[1] = Signed(Power(args[1], args[2]))
          ELSE args[1] > 0 => answer[1] = 1 \div Power(args[1], -args[2])
    /\ Answered("whole-mul") => answer[1] = Signed(Product(args))
    /\ Answered("double-loop") =>
          /\ Len(answer) = args[1]
          /\ \A k \in DOMAIN answer :
                answer[k] \in Row(k) /\ \A x \in Row(k) : x <= answer[k]
    /\ Answered("simpleasan") =>
          /\ answer[1] + args[1] = answer[2] /\ answer[2] % PageSize = 0
          /\ answer[1] >= PageSize
          /\ answer[3] = 0 /\ answer[4] = 0 /\ answer[5] = answer[2] + PageSize
=============================================================================
