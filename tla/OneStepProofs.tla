--------------------------- MODULE OneStepProofs ----------------------------
(* The programs of Numbers and Texts, which take one step from what they are *)
(* given to the answer: what their recursive functions compute, for every    *)
(* input.  Recursive functions need an induction of their own, which comes   *)
(* first; each program's loop is then a function of its state, with an       *)
(* invariant of the rounds.                                                  *)
EXTENDS Programs, FiniteSets, FiniteSetTheorems, SequenceTheorems,
        WellFoundedInduction, TLAPS

-----------------------------------------------------------------------------
(* Recursive functions.  The library's theorems about them take an operator   *)
(* as a parameter; here the rule of the recursion is a function, of an        *)
(* argument and of the values at other arguments, and it is local: only those *)
(* at arguments of a smaller measure matter.                                  *)

\* The least of some numbers.
LEMMA LeastOf ==
  ASSUME NEW T, T \subseteq Nat, T # {}
  PROVE  \E x \in T : \A y \in T : x <= y
<1>1. PICK x \in T : \A y \in T : ~(<<y, x>> \in OpToRel(<, Nat))
  BY NatLessThanWellFounded, WFMin
<1>2. \A y \in T : ~(y < x)
  BY <1>1 DEF OpToRel
<1> QED BY <1>2

\* Induction on a measure.
LEMMA MeasureInduction ==
  ASSUME NEW S, NEW m \in [S -> Nat], NEW P,
         \A x \in S : (\A y \in S : m[y] < m[x] => y \in P) => x \in P
  PROVE  S \subseteq P
<1> SUFFICES ASSUME NEW z \in S, z \notin P PROVE FALSE
  OBVIOUS
<1> DEFINE T == {i \in Nat : \E x \in S : m[x] = i /\ x \notin P}
<1>1. m[z] \in T
  OBVIOUS
<1>2. PICK i \in T : \A j \in T : i <= j
  <2>1. T \subseteq Nat /\ T # {}
    BY <1>1
  <2> HIDE DEF T
  <2> QED BY <2>1, LeastOf
<1>3. PICK x \in S : m[x] = i /\ x \notin P
  BY <1>2
<1>4. ASSUME NEW y \in S, m[y] < m[x] PROVE y \in P
  <2> SUFFICES ASSUME y \notin P PROVE FALSE
    OBVIOUS
  <2>1. m[y] \in T
    BY <1>3
  <2> QED BY <1>2, <1>3, <1>4, <2>1
<1> QED BY <1>3, <1>4

\* What the value of rule at x depends on: x and the values at what m measures
\* as smaller.
Local(S, V, m, rule) ==
  \A x \in S : \A f, g \in [S -> V] :
     (\A y \in S : m[y] < m[x] => f[y] = g[y]) => rule[<<x, f>>] = rule[<<x, g>>]

Satisfies(S, m, rule, f, n) == \A x \in S : m[x] < n => f[x] = rule[<<x, f>>]

\* A function from S to V that is what rule says, everywhere.
Solvable(S, V, rule) == \E f \in [S -> V] : \A x \in S : f[x] = rule[<<x, f>>]

\* Solutions up to n agree up to n.
LEMMA SolutionsAgree ==
  ASSUME NEW S, NEW V, NEW m \in [S -> Nat], NEW rule, Local(S, V, m, rule),
         NEW n \in Nat, NEW k \in Nat, n <= k, NEW f \in [S -> V], NEW g \in [S -> V],
         Satisfies(S, m, rule, f, n), Satisfies(S, m, rule, g, k)
  PROVE  \A x \in S : m[x] < n => f[x] = g[x]
<1> SUFFICES ASSUME NEW z \in S, m[z] < n, f[z] # g[z] PROVE FALSE
  OBVIOUS
<1> DEFINE T == {i \in Nat : \E x \in S : m[x] = i /\ i < n /\ f[x] # g[x]}
<1>1. m[z] \in T
  OBVIOUS
<1>2. PICK i \in T : \A j \in T : i <= j
  <2>1. T \subseteq Nat /\ T # {}
    BY <1>1
  <2> HIDE DEF T
  <2> QED BY <2>1, LeastOf
<1>3. PICK x \in S : m[x] = i /\ i < n /\ f[x] # g[x]
  BY <1>2
<1>4. \A y \in S : m[y] < m[x] => f[y] = g[y]
  <2> SUFFICES ASSUME NEW y \in S, m[y] < m[x], f[y] # g[y] PROVE FALSE
    OBVIOUS
  <2>1. m[y] \in Nat /\ m[x] \in Nat
    OBVIOUS
  <2>2. m[y] \in T
    BY <2>1, <1>3
  <2> QED BY <2>1, <2>2, <1>2, <1>3
<1>5. rule[<<x, f>>] = rule[<<x, g>>]
  BY <1>4 DEF Local
<1>6. m[x] \in Nat /\ m[x] < n /\ m[x] < k
  BY <1>3
<1> QED BY <1>3, <1>5, <1>6 DEF Satisfies

\* There is a solution up to every n.
LEMMA SolutionUpTo ==
  ASSUME NEW S, NEW V, NEW m \in [S -> Nat], NEW rule \in [S \X [S -> V] -> V],
         Local(S, V, m, rule), V # {}, NEW n \in Nat
  PROVE  \E f \in [S -> V] : Satisfies(S, m, rule, f, n)
<1> DEFINE T == {i \in Nat : ~\E f \in [S -> V] : Satisfies(S, m, rule, f, i)}
<1> SUFFICES ASSUME n \in T PROVE FALSE
  OBVIOUS
<1>1. PICK i \in T : \A j \in T : i <= j
  <2>1. T \subseteq Nat /\ T # {}
    OBVIOUS
  <2> HIDE DEF T
  <2> QED BY <2>1, LeastOf
<1>2. CASE i = 0
  <2>1. PICK v \in V : TRUE
    OBVIOUS
  <2>2. [x \in S |-> v] \in [S -> V]
    OBVIOUS
  <2>3. Satisfies(S, m, rule, [x \in S |-> v], 0)
    BY DEF Satisfies
  <2> QED BY <1>1, <1>2, <2>2, <2>3
<1>3. CASE i # 0
  <2>1. i - 1 \in Nat /\ i \in Nat
    BY <1>3
  <2>2. PICK f \in [S -> V] : Satisfies(S, m, rule, f, i - 1)
    <3>1. i - 1 \notin T
      BY <1>1, <2>1
    <3> QED BY <2>1, <3>1
  <2> DEFINE g == [x \in S |-> rule[<<x, f>>]]
  <2>3. g \in [S -> V]
    OBVIOUS
  <2>4. \A x \in S : g[x] = rule[<<x, f>>]
    OBVIOUS
  <2> HIDE DEF g
  <2>5. ASSUME NEW x \in S, m[x] < i PROVE g[x] = rule[<<x, g>>]
    <3>1. ASSUME NEW y \in S, m[y] < m[x] PROVE f[y] = g[y]
      <4>1. m[y] < i - 1
        BY <2>1, <2>5, <3>1
      <4>2. f[y] = rule[<<y, f>>]
        BY <2>2, <4>1 DEF Satisfies
      <4> QED BY <2>4, <4>2
    <3>2. rule[<<x, f>>] = rule[<<x, g>>]
      BY <3>1, <2>3 DEF Local
    <3> QED BY <2>4, <3>2
  <2>6. Satisfies(S, m, rule, g, i)
    BY <2>5 DEF Satisfies
  <2> QED BY <1>1, <2>3, <2>6
<1> QED BY <1>2, <1>3

\* A recursion whose every call is for something smaller defines a function.
LEMMA Recursion ==
  ASSUME NEW S, NEW V, NEW m \in [S -> Nat], NEW rule \in [S \X [S -> V] -> V],
         Local(S, V, m, rule), V # {}
  PROVE  Solvable(S, V, rule)
<1> DEFINE Upto(x) == {f \in [S -> V] : Satisfies(S, m, rule, f, m[x] + 1)}
           pick == [x \in S |-> CHOOSE f \in Upto(x) : TRUE]
           F == [x \in S |-> pick[x][x]]
<1>1. ASSUME NEW x \in S
      PROVE  pick[x] \in [S -> V] /\ Satisfies(S, m, rule, pick[x], m[x] + 1)
  <2>1. m[x] + 1 \in Nat
    OBVIOUS
  <2>2. \E f \in [S -> V] : Satisfies(S, m, rule, f, m[x] + 1)
    BY <2>1, SolutionUpTo
  <2>3. \E f \in Upto(x) : TRUE
    BY <2>2
  <2> DEFINE some == CHOOSE f \in Upto(x) : TRUE
  <2>4. some \in Upto(x)
    <3> HIDE DEF Upto
    <3> QED BY <2>3
  <2>5. pick[x] = some
    OBVIOUS
  <2> QED BY <2>4, <2>5
<1>2. \A x \in S : F[x] = pick[x][x]
  OBVIOUS
<1>3. F \in [S -> V]
  <2>1. \A x \in S : pick[x][x] \in V
    <3> HIDE DEF pick
    <3> QED BY <1>1
  <2> HIDE DEF pick
  <2> QED BY <2>1
<1> HIDE DEF F, pick
<1>4. ASSUME NEW x \in S PROVE F[x] = rule[<<x, F>>]
  <2>1. ASSUME NEW y \in S, m[y] < m[x] PROVE pick[x][y] = F[y]
    <3>1. /\ m[y] + 1 \in Nat /\ m[x] + 1 \in Nat /\ m[y] + 1 <= m[x] + 1
          /\ m[y] < m[y] + 1
      BY <2>1
    <3>2. /\ pick[y] \in [S -> V] /\ Satisfies(S, m, rule, pick[y], m[y] + 1)
          /\ pick[x] \in [S -> V] /\ Satisfies(S, m, rule, pick[x], m[x] + 1)
      BY <1>1
    <3>3. \A z \in S : m[z] < m[y] + 1 => pick[y][z] = pick[x][z]
      BY <3>1, <3>2, SolutionsAgree
    <3> QED BY <1>2, <3>1, <3>3
  <2>2. pick[x] \in [S -> V] /\ pick[x][x] = rule[<<x, pick[x]>>]
    <3>1. m[x] < m[x] + 1
      OBVIOUS
    <3> QED BY <1>1, <3>1 DEF Satisfies
  <2>3. rule[<<x, pick[x]>>] = rule[<<x, F>>]
    BY <2>1, <2>2, <1>3 DEF Local
  <2> QED BY <1>2, <2>2, <2>3
<1> QED BY <1>3, <1>4 DEF Solvable

-----------------------------------------------------------------------------
(* The number programs.  First the powers of a number, division, and what is  *)
(* the same number of Width bits.                                             *)

\* Power is what its recursion says.
LEMMA PowerIs ==
  ASSUME NEW b \in Int
  PROVE  /\ \A k \in Nat : Number!Power(b, k) \in Int
         /\ Number!Power(b, 0) = 1
         /\ \A k \in Nat : Number!Power(b, k + 1) = b * Number!Power(b, k)
<1> DEFINE m == [n \in Nat |-> n]
           rule == [p \in Nat \X [Nat -> Int] |-> IF p[1] = 0 THEN 1 ELSE b * p[2][p[1] - 1]]
           power == CHOOSE f : f = [n \in Nat |-> IF n = 0 THEN 1 ELSE b * f[n - 1]]
<1>1. m \in [Nat -> Nat] /\ rule \in [Nat \X [Nat -> Int] -> Int] /\ Int # {}
  OBVIOUS
<1>2. \A x \in Nat, f \in [Nat -> Int] : rule[<<x, f>>] = IF x = 0 THEN 1 ELSE b * f[x - 1]
  OBVIOUS
<1>3. Local(Nat, Int, m, rule)
  <2> SUFFICES ASSUME NEW x \in Nat, NEW f \in [Nat -> Int], NEW g \in [Nat -> Int],
                      \A y \in Nat : m[y] < m[x] => f[y] = g[y]
               PROVE  rule[<<x, f>>] = rule[<<x, g>>]
    BY DEF Local
  <2>1. x # 0 => f[x - 1] = g[x - 1]
    OBVIOUS
  <2> QED BY <1>2, <2>1
<1>4. PICK f \in [Nat -> Int] : \A x \in Nat : f[x] = rule[<<x, f>>]
  <2>1. Solvable(Nat, Int, rule)
    <3> HIDE DEF m, rule
    <3> QED BY <1>1, <1>3, Recursion
  <2> QED BY <2>1 DEF Solvable
<1>5. f = [n \in Nat |-> IF n = 0 THEN 1 ELSE b * f[n - 1]]
  BY <1>2, <1>4
<1>6. power = [n \in Nat |-> IF n = 0 THEN 1 ELSE b * power[n - 1]]
  BY <1>5
<1>7. \A k : Number!Power(b, k) = power[k]
  BY DEF Number!Power
<1> HIDE DEF power
<1>8. \A n \in Nat : power[n] = IF n = 0 THEN 1 ELSE b * power[n - 1]
  BY <1>6
<1>9. \A n \in Nat : power[n] \in Int
  <2> DEFINE P == {n \in Nat : power[n] \in Int}
  <2>1. ASSUME NEW x \in Nat, \A y \in Nat : m[y] < m[x] => y \in P
        PROVE  x \in P
    <3>1. x # 0 => power[x - 1] \in Int
      BY <2>1
    <3> QED BY <3>1, <1>8
  <2>2. Nat \subseteq P
    <3> HIDE DEF P, m
    <3> QED BY <1>1, <2>1, MeasureInduction
  <2> QED BY <2>2
<1>10. ASSUME NEW k \in Nat PROVE power[k + 1] = b * power[k]
  <2>1. k + 1 \in Nat /\ k + 1 # 0 /\ (k + 1) - 1 = k
    OBVIOUS
  <2> QED BY <2>1, <1>8
<1> QED BY <1>7, <1>8, <1>9, <1>10

\* Quotient and remainder.
LEMMA Division ==
  ASSUME NEW a \in Int, NEW d \in Nat, d > 0
  PROVE  /\ a \div d \in Int /\ a % d \in 0..d-1
         /\ a = d * (a \div d) + (a % d)
  BY SMT

\* Quotient and remainder are unique.
LEMMA QuotientUnique ==
  ASSUME NEW d \in Nat, d > 0, NEW p \in Int, NEW q \in Int, NEW r \in Int, NEW t \in Int,
         0 <= r, r < d, 0 <= t, t < d, d * p + r = d * q + t
  PROVE  p = q /\ r = t
<1>1. p = q
  BY SMTT(30)
<1> QED BY <1>1, SMT

\* Equal except for multiples of the modulus.
Cong(a, b) == \E q \in Int : a = b + Number!Modulus * q

\* The modulus is a power of two, even and at least four.
LEMMA ModulusIs ==
  /\ Number!Modulus \in Nat /\ Number!Modulus >= 4
  /\ \E h \in Nat : Number!Modulus = 2 * h
<1>1. Width \in Nat /\ Width > 1
  BY ProgramsAssumption DEF Number!NumbersAssumption
<1> DEFINE P == {k \in Nat : \/ k < 2
                            \/ /\ Number!Power(2, k) \in Nat /\ Number!Power(2, k) >= 4
                               /\ \E h \in Nat : Number!Power(2, k) = 2 * h}
           m == [k \in Nat |-> k]
<1>2. ASSUME NEW k \in Nat, \A j \in Nat : m[j] < m[k] => j \in P
      PROVE  k \in P
  <2>1. CASE k < 2
    BY <2>1
  <2>2. CASE k = 2
    <3>1. Number!Power(2, 0 + 1) = 2 * 1 /\ Number!Power(2, 1 + 1) = 2 * Number!Power(2, 1)
      BY PowerIs
    <3>2. Number!Power(2, 2) = 2 * 2
      BY <3>1
    <3> QED BY <2>2, <3>2
  <2>3. CASE k > 2
    <3>1. k - 1 \in Nat /\ (k - 1) + 1 = k /\ ~(k - 1 < 2) /\ m[k - 1] < m[k]
      BY <2>3
    <3>2. Number!Power(2, k - 1) \in Nat /\ Number!Power(2, k - 1) >= 4
      BY <1>2, <3>1
    <3>3. Number!Power(2, k) = 2 * Number!Power(2, k - 1)
      BY <3>1, PowerIs
    <3> QED BY <3>2, <3>3
  <2> QED BY <2>1, <2>2, <2>3
<1>3. Nat \subseteq P
  <2>1. m \in [Nat -> Nat]
    OBVIOUS
  <2> HIDE DEF P, m
  <2> QED BY <1>2, <2>1, MeasureInduction
<1> QED BY <1>1, <1>3 DEF Number!Modulus

\* Signed is congruent to its argument and fits.
LEMMA SignedIs ==
  ASSUME NEW a \in Int
  PROVE  /\ Number!Unsigned(a) \in Number!Unsigneds
         /\ Number!Signed(a) \in Int /\ Cong(Number!Signed(a), a)
<1> DEFINE M == Number!Modulus
           q == a \div M
           u == a % M
<1>1. M \in Nat /\ M > 0
  BY ModulusIs
<1> HIDE DEF M
<1>2. q \in Int /\ u \in 0..M-1 /\ a = M * q + u
  BY <1>1, Division
<1>3. Number!Unsigned(a) = u /\ Number!Signed(a) = IF 2 * u < M THEN u ELSE u - M
  BY DEF Number!Unsigned, Number!Signed, M
<1> HIDE DEF q, u
<1>4. -q \in Int /\ -q - 1 \in Int /\ u = a + M * (-q) /\ u - M = a + M * (-q - 1)
  BY <1>1, <1>2
<1>5. Cong(Number!Signed(a), a)
  BY <1>3, <1>4 DEF Cong, M
<1>6. Number!Signed(a) \in Int
  BY <1>1, <1>2, <1>3
<1> QED BY <1>2, <1>3, <1>5, <1>6 DEF Number!Unsigneds, M

\* What is congruent is the same number of Width bits.
LEMMA SignedSame ==
  ASSUME NEW a \in Int, NEW b \in Int, Cong(a, b)
  PROVE  Number!Signed(a) = Number!Signed(b) /\ Number!Unsigned(a) = Number!Unsigned(b)
<1> DEFINE M == Number!Modulus
<1>1. M \in Nat /\ M > 0
  BY ModulusIs
<1>2. PICK q \in Int : a = b + M * q
  BY DEF Cong
<1> HIDE DEF M
<1>3. a \div M \in Int /\ a % M \in 0..M-1 /\ a = M * (a \div M) + (a % M)
  BY <1>1, Division
<1>4. b \div M \in Int /\ b % M \in 0..M-1 /\ b = M * (b \div M) + (b % M)
  BY <1>1, Division
<1>5. M * (a \div M) + (a % M) = M * ((b \div M) + q) + (b % M)
  BY <1>1, <1>2, <1>3, <1>4
<1>6. a % M = b % M
  <2>1. (b \div M) + q \in Int
    BY <1>2, <1>4
  <2>2. /\ a % M \in Int /\ 0 <= a % M /\ a % M < M
        /\ b % M \in Int /\ 0 <= b % M /\ b % M < M
    BY <1>1, <1>3, <1>4
  <2> QED BY <1>1, <1>3, <1>5, <2>1, <2>2, QuotientUnique
<1> QED BY <1>6 DEF Number!Signed, Number!Unsigned, M

\* Congruent numbers have congruent multiples.
LEMMA CongTimes ==
  ASSUME NEW a \in Int, NEW b \in Int, NEW c \in Int, Cong(a, b)
  PROVE  Cong(a * c, b * c) /\ Cong(c * a, c * b)
<1> DEFINE M == Number!Modulus
<1>1. M \in Nat
  BY ModulusIs
<1>2. PICK q \in Int : a = b + M * q
  BY DEF Cong
<1> HIDE DEF M
<1>3. q * c \in Int /\ a * c = b * c + M * (q * c) /\ c * a = c * b + M * (q * c)
  BY <1>1, <1>2
<1> QED BY <1>3 DEF Cong, M

\* Congruence is transitive.
LEMMA CongTrans ==
  ASSUME NEW a \in Int, NEW b \in Int, NEW c \in Int, Cong(a, b), Cong(b, c)
  PROVE  Cong(a, c)
<1> DEFINE M == Number!Modulus
<1>1. M \in Nat
  BY ModulusIs
<1>2. PICK q \in Int : a = b + M * q
  BY DEF Cong
<1>3. PICK r \in Int : b = c + M * r
  BY DEF Cong
<1> HIDE DEF M
<1>4. q + r \in Int /\ a = c + M * (q + r)
  BY <1>1, <1>2, <1>3
<1> QED BY <1>4 DEF Cong, M

\* A number is congruent to itself.
LEMMA CongSelf ==
  ASSUME NEW a \in Int
  PROVE  Cong(a, a)
<1>1. 0 \in Int /\ a = a + Number!Modulus * 0
  BY ModulusIs
<1> QED BY <1>1 DEF Cong

-----------------------------------------------------------------------------
(* pow: its loop keeps r14 * r12 ^ r13, up to multiples of the modulus.      *)

Registers == [r12 : Int, r13 : Nat, r14 : Int]
Shifted(r) == [r12 |-> Number!Signed(r.r12 * r.r12), r13 |-> r.r13 \div 2,
               r14 |-> IF r.r13 % 2 = 1 THEN Number!Signed(r.r14 * r.r12) ELSE r.r14]

\* What pow's loop does in one round.
LEMMA ShiftedSmaller ==
  ASSUME NEW r \in Registers, r.r13 # 0
  PROVE  /\ Shifted(r) \in Registers /\ Shifted(r).r13 < r.r13
         /\ Shifted(r).r12 = Number!Signed(r.r12 * r.r12)
         /\ Shifted(r).r13 = r.r13 \div 2
         /\ Shifted(r).r14 = IF r.r13 % 2 = 1 THEN Number!Signed(r.r14 * r.r12) ELSE r.r14
<1>1. r.r12 \in Int /\ r.r13 \in Nat /\ r.r14 \in Int
  BY DEF Registers
<1>2. r.r12 * r.r12 \in Int /\ r.r14 * r.r12 \in Int
  BY <1>1
<1>3. Number!Signed(r.r12 * r.r12) \in Int /\ Number!Signed(r.r14 * r.r12) \in Int
  BY <1>2, SignedIs
<1>4. r.r13 \div 2 \in Nat /\ r.r13 \div 2 < r.r13
  BY <1>1
<1> QED BY <1>1, <1>3, <1>4 DEF Registers, Shifted

\* The loop of pow, and that pow is this loop from its first state.
LEMMA PowLoops ==
  \E loop :
    /\ \A r \in Registers : loop[r] = IF r.r13 = 0 THEN r.r14 ELSE loop[Shifted(r)]
    /\ \A n, p : Number!pow(n, p) = IF p >= 0 THEN loop[[r12 |-> n, r13 |-> p, r14 |-> 1]]
                                   ELSE IF n = 1 THEN 1 ELSE 0
<1> DEFINE m == [r \in Registers |-> r.r13]
           rule == [p \in Registers \X [Registers -> Int] |->
                      IF p[1].r13 = 0 THEN p[1].r14 ELSE p[2][Shifted(p[1])]]
<1>1. m \in [Registers -> Nat] /\ Int # {}
  BY DEF Registers
<1>2. \A x \in Registers, f \in [Registers -> Int] :
         rule[<<x, f>>] = IF x.r13 = 0 THEN x.r14 ELSE f[Shifted(x)]
  OBVIOUS
<1>3. rule \in [Registers \X [Registers -> Int] -> Int]
  <2>1. ASSUME NEW x \in Registers, NEW f \in [Registers -> Int] PROVE rule[<<x, f>>] \in Int
    <3>1. x.r14 \in Int
      BY DEF Registers
    <3>2. x.r13 # 0 => Shifted(x) \in Registers
      BY ShiftedSmaller
    <3> QED BY <1>2, <3>1, <3>2
  <2> QED BY <2>1
<1>4. Local(Registers, Int, m, rule)
  <2> SUFFICES ASSUME NEW x \in Registers, NEW f \in [Registers -> Int],
                      NEW g \in [Registers -> Int],
                      \A y \in Registers : m[y] < m[x] => f[y] = g[y]
               PROVE  rule[<<x, f>>] = rule[<<x, g>>]
    BY DEF Local
  <2>1. x.r13 # 0 => f[Shifted(x)] = g[Shifted(x)]
    BY ShiftedSmaller
  <2> QED BY <1>2, <2>1
<1>5. PICK f \in [Registers -> Int] : \A x \in Registers : f[x] = rule[<<x, f>>]
  <2>1. Solvable(Registers, Int, rule)
    <3> HIDE DEF m, rule
    <3> QED BY <1>1, <1>3, <1>4, Recursion
  <2> QED BY <2>1 DEF Solvable
<1> DEFINE Is(loop) == loop = [r \in Registers |-> IF r.r13 = 0 THEN r.r14 ELSE loop[Shifted(r)]]
<1>6. Is(f)
  BY <1>2, <1>5
<1> DEFINE chosen == CHOOSE loop : Is(loop)
<1>7. Is(chosen)
  <2> HIDE DEF Is
  <2> QED BY <1>6
<1>8. \A n, p : Number!pow(n, p) = IF p >= 0 THEN chosen[[r12 |-> n, r13 |-> p, r14 |-> 1]]
                                 ELSE IF n = 1 THEN 1 ELSE 0
  BY DEF Number!pow, Registers, Shifted
<1>9. \A r \in Registers : chosen[r] = IF r.r13 = 0 THEN r.r14 ELSE chosen[Shifted(r)]
  <2> HIDE DEF chosen
  <2> QED BY <1>7
<1> HIDE DEF chosen
<1> QED BY <1>8, <1>9

\* An even power is a power of the square.
LEMMA PowerSquare ==
  ASSUME NEW b \in Int, NEW k \in Nat
  PROVE  Number!Power(b * b, k) = Number!Power(b, 2 * k)
<1> DEFINE P == {i \in Nat : Number!Power(b * b, i) = Number!Power(b, 2 * i)}
           m == [i \in Nat |-> i]
<1>1. b * b \in Int
  OBVIOUS
<1>2. ASSUME NEW i \in Nat, \A j \in Nat : m[j] < m[i] => j \in P
      PROVE  i \in P
  <2>1. CASE i = 0
    <3>1. 2 * 0 = 0
      OBVIOUS
    <3> QED BY <1>1, <2>1, <3>1, PowerIs
  <2>2. CASE i # 0
    <3> DEFINE h == i - 1
    <3>1. h \in Nat /\ h + 1 = i /\ m[h] < m[i] /\ 2 * h \in Nat /\ 2 * h + 1 \in Nat
          /\ (2 * h + 1) + 1 = 2 * i
      BY <2>2
    <3> HIDE DEF h
    <3>2. Number!Power(b * b, h) = Number!Power(b, 2 * h)
      BY <1>2, <3>1
    <3>3. Number!Power(b * b, i) = (b * b) * Number!Power(b * b, h)
      BY <1>1, <3>1, PowerIs
    <3>4. Number!Power(b, 2 * h + 1) = b * Number!Power(b, 2 * h)
      BY <3>1, PowerIs
    <3>5. Number!Power(b, 2 * i) = b * Number!Power(b, 2 * h + 1)
      BY <3>1, PowerIs
    <3>6. Number!Power(b, 2 * h) \in Int
      BY <3>1, PowerIs
    <3>7. (b * b) * Number!Power(b, 2 * h) = b * (b * Number!Power(b, 2 * h))
      BY <3>6
    <3> QED BY <3>2, <3>3, <3>4, <3>5, <3>7
  <2> QED BY <2>1, <2>2
<1>3. Nat \subseteq P
  <2>1. m \in [Nat -> Nat]
    OBVIOUS
  <2> HIDE DEF P, m
  <2> QED BY <1>2, <2>1, MeasureInduction
<1> QED BY <1>3

\* Congruent numbers have congruent powers.
LEMMA PowerCong ==
  ASSUME NEW a \in Int, NEW b \in Int, Cong(a, b), NEW k \in Nat
  PROVE  Cong(Number!Power(a, k), Number!Power(b, k))
<1> DEFINE P == {i \in Nat : Cong(Number!Power(a, i), Number!Power(b, i))}
           m == [i \in Nat |-> i]
<1>1. ASSUME NEW i \in Nat, \A j \in Nat : m[j] < m[i] => j \in P
      PROVE  i \in P
  <2>1. CASE i = 0
    <3>1. Number!Power(a, 0) = 1 /\ Number!Power(b, 0) = 1
      BY PowerIs
    <3>2. Cong(1, 1)
      BY CongSelf
    <3> QED BY <2>1, <3>1, <3>2
  <2>2. CASE i # 0
    <3> DEFINE h == i - 1
    <3>1. h \in Nat /\ h + 1 = i /\ m[h] < m[i]
      BY <2>2
    <3> HIDE DEF h
    <3>2. Cong(Number!Power(a, h), Number!Power(b, h))
      BY <1>1, <3>1
    <3>3. Number!Power(a, i) = a * Number!Power(a, h) /\ Number!Power(b, i) = b * Number!Power(b, h)
      BY <3>1, PowerIs
    <3>4. Number!Power(a, h) \in Int /\ Number!Power(b, h) \in Int
      BY <3>1, PowerIs
    <3> DEFINE x == Number!Power(a, h)
               y == Number!Power(b, h)
    <3> HIDE DEF x, y
    <3>5. x \in Int /\ y \in Int /\ Cong(x, y)
      BY <3>2, <3>4 DEF x, y
    <3>6. Cong(a * x, b * x) /\ Cong(b * x, b * y)
      BY <3>5, CongTimes
    <3>7. a * x \in Int /\ b * x \in Int /\ b * y \in Int
      BY <3>5
    <3>8. Cong(a * x, b * y)
      BY <3>6, <3>7, CongTrans
    <3> QED BY <3>3, <3>8 DEF x, y
  <2> QED BY <2>1, <2>2
<1>2. Nat \subseteq P
  <2>1. m \in [Nat -> Nat]
    OBVIOUS
  <2> HIDE DEF P, m
  <2> QED BY <1>1, <2>1, MeasureInduction
<1> QED BY <1>2

\* The powers of a number larger than 1 are larger than 1; those of 1 are 1.
LEMMA PowerLarge ==
  ASSUME NEW b \in Nat, b > 0, NEW k \in Nat, k > 0
  PROVE  IF b = 1 THEN Number!Power(b, k) = 1 ELSE Number!Power(b, k) >= 2
<1> DEFINE P == {i \in Nat : i > 0 => IF b = 1 THEN Number!Power(b, i) = 1 ELSE Number!Power(b, i) >= 2}
           m == [i \in Nat |-> i]
<1>1. ASSUME NEW i \in Nat, \A j \in Nat : m[j] < m[i] => j \in P
      PROVE  i \in P
  <2>1. CASE i = 0
    BY <2>1
  <2>2. CASE i # 0
    <3> DEFINE h == i - 1
               x == Number!Power(b, h)
    <3>1. h \in Nat /\ h + 1 = i /\ m[h] < m[i]
      BY <2>2
    <3>2. x \in Int /\ Number!Power(b, h + 1) = b * x /\ (h = 0 => x = 1)
      BY <3>1, PowerIs
    <3>3. h > 0 => IF b = 1 THEN x = 1 ELSE x >= 2
      BY <1>1, <3>1
    <3> HIDE DEF x, h
    <3>4. IF b = 1 THEN x = 1 ELSE x >= 1
      BY <3>1, <3>2, <3>3
    <3>5. IF b = 1 THEN b * x = 1 ELSE b * x >= 2
      BY <3>2, <3>4
    <3> QED BY <3>1, <3>2, <3>5
  <2> QED BY <2>1, <2>2
<1>2. Nat \subseteq P
  <2>1. m \in [Nat -> Nat]
    OBVIOUS
  <2> HIDE DEF P, m
  <2> QED BY <1>1, <2>1, MeasureInduction
<1> QED BY <1>2

\* Congruent numbers have congruent products.
LEMMA CongProduct ==
  ASSUME NEW a \in Int, NEW b \in Int, NEW c \in Int, NEW d \in Int, Cong(a, b), Cong(c, d)
  PROVE  Cong(a * c, b * d)
<1>1. Cong(a * c, b * c) /\ Cong(b * c, b * d)
  BY CongTimes
<1>2. a * c \in Int /\ b * c \in Int /\ b * d \in Int
  OBVIOUS
<1> QED BY <1>1, <1>2, CongTrans

\* A round of the loop keeps r14 * r12 ^ r13, up to a multiple of the modulus.
LEMMA ShiftedPower ==
  ASSUME NEW x \in Registers, x.r13 \div 2 > 0
  PROVE  Cong(Shifted(x).r14 * Number!Power(Shifted(x).r12, Shifted(x).r13),
              x.r14 * Number!Power(x.r12, x.r13))
<1> DEFINE a == x.r12
           c == x.r14
           e == x.r13
           h == x.r13 \div 2
           a2 == Shifted(x).r12
           c2 == Shifted(x).r14
           p2 == Number!Power(a2, h)
           p == Number!Power(a, 2 * h)
<1>1. /\ a \in Int /\ c \in Int /\ e \in Nat /\ h \in Nat /\ e # 0
      /\ e = IF e % 2 = 1 THEN 2 * h + 1 ELSE 2 * h
  BY DEF Registers
<1>2. /\ a2 = Number!Signed(a * a) /\ Shifted(x).r13 = h
      /\ c2 = IF e % 2 = 1 THEN Number!Signed(c * a) ELSE c
  BY <1>1, ShiftedSmaller
<1> HIDE DEF a, c, e, h, a2, c2
<1>3. a * a \in Int /\ c * a \in Int
  BY <1>1
<1>4. a2 \in Int /\ Cong(a2, a * a)
  BY <1>2, <1>3, SignedIs
<1>5. Cong(p2, p)
  <2>1. Cong(p2, Number!Power(a * a, h))
    BY <1>1, <1>3, <1>4, PowerCong
  <2>2. Number!Power(a * a, h) = p
    BY <1>1, PowerSquare
  <2> QED BY <2>1, <2>2
<1>6. p2 \in Int /\ p \in Int /\ Number!Power(a, 2 * h + 1) = a * p
  <2>1. 2 * h \in Nat
    BY <1>1
  <2> QED BY <1>1, <1>4, <2>1, PowerIs
<1> HIDE DEF p2, p
<1>7. Cong(c2 * p2, c * Number!Power(a, e))
  <2>1. CASE e % 2 = 1
    <3>1. c2 \in Int /\ Cong(c2, c * a)
      BY <1>2, <1>3, <2>1, SignedIs
    <3>2. Cong(c2 * p2, (c * a) * p)
      BY <1>3, <1>5, <1>6, <3>1, CongProduct
    <3>3. (c * a) * p = c * (a * p)
      BY <1>1, <1>6
    <3>4. Number!Power(a, e) = a * p
      BY <1>1, <1>6, <2>1
    <3> QED BY <3>2, <3>3, <3>4
  <2>2. CASE e % 2 # 1
    <3>1. c2 = c /\ Number!Power(a, e) = p
      BY <1>1, <1>2, <2>2 DEF p
    <3> QED BY <1>1, <1>5, <1>6, <3>1, CongTimes
  <2> QED BY <2>1, <2>2
<1> QED BY <1>2, <1>7 DEF a, c, e, p2, a2, c2

\* So the loop ends with that number.
LEMMA LoopIsPower ==
  ASSUME NEW loop,
         \A r \in Registers : loop[r] = IF r.r13 = 0 THEN r.r14 ELSE loop[Shifted(r)]
  PROVE  \A r \in Registers :
            r.r13 > 0 => loop[r] = Number!Signed(r.r14 * Number!Power(r.r12, r.r13))
<1> DEFINE P == {r \in Registers :
                   r.r13 > 0 => loop[r] = Number!Signed(r.r14 * Number!Power(r.r12, r.r13))}
           m == [r \in Registers |-> r.r13]
<1>1. ASSUME NEW x \in Registers, \A y \in Registers : m[y] < m[x] => y \in P, x.r13 > 0
      PROVE  loop[x] = Number!Signed(x.r14 * Number!Power(x.r12, x.r13))
  <2> DEFINE y == Shifted(x)
  <2>1. x.r12 \in Int /\ x.r13 \in Nat /\ x.r14 \in Int /\ x.r13 # 0
    BY <1>1 DEF Registers
  <2>2. /\ y \in Registers /\ y.r13 < x.r13 /\ y.r13 = x.r13 \div 2
        /\ y.r14 = IF x.r13 % 2 = 1 THEN Number!Signed(x.r14 * x.r12) ELSE x.r14
    BY <2>1, ShiftedSmaller
  <2>3. loop[x] = loop[y]
    BY <2>1
  <2>4. y.r12 \in Int /\ y.r13 \in Nat /\ y.r14 \in Int
    BY <2>2 DEF Registers
  <2>5. m[y] < m[x]
    BY <2>2
  <2>6. y \in P
    BY <1>1, <2>2, <2>5
  <2>7. CASE y.r13 = 0
    <3>1. x.r13 = 1
      BY <2>1, <2>2, <2>7
    <3>2. loop[y] = Number!Signed(x.r14 * x.r12)
      BY <2>2, <2>7, <3>1
    <3>3. Number!Power(x.r12, 0 + 1) = x.r12 * Number!Power(x.r12, 0) /\ Number!Power(x.r12, 0) = 1
      BY <2>1, PowerIs
    <3>4. Number!Power(x.r12, 1) = x.r12
      BY <2>1, <3>3
    <3> QED BY <2>3, <3>1, <3>2, <3>4
  <2>8. CASE y.r13 # 0
    <3>1. loop[y] = Number!Signed(y.r14 * Number!Power(y.r12, y.r13))
      BY <2>4, <2>6, <2>8
    <3>2. Cong(y.r14 * Number!Power(y.r12, y.r13), x.r14 * Number!Power(x.r12, x.r13))
      BY <2>2, <2>4, <2>8, ShiftedPower
    <3>3. Number!Power(y.r12, y.r13) \in Int /\ Number!Power(x.r12, x.r13) \in Int
      BY <2>1, <2>4, PowerIs
    <3>4. /\ y.r14 * Number!Power(y.r12, y.r13) \in Int
          /\ x.r14 * Number!Power(x.r12, x.r13) \in Int
      BY <2>1, <2>4, <3>3
    <3> QED BY <2>3, <3>1, <3>2, <3>4, SignedSame
  <2> QED BY <2>7, <2>8
<1>2. Registers \subseteq P
  <2>1. m \in [Registers -> Nat]
    BY DEF Registers
  <2>2. \A x \in Registers : (\A y \in Registers : m[y] < m[x] => y \in P) => x \in P
    BY <1>1
  <2> HIDE DEF P, m
  <2> QED BY <2>1, <2>2, MeasureInduction
<1> QED BY <1>2

\* 1 fits, signed.
LEMMA SignedOne == Number!Signed(1) = 1
<1>1. Number!Modulus \in Nat /\ Number!Modulus >= 4
  BY ModulusIs
<1>2. 1 % Number!Modulus = 1
  <2> DEFINE M == Number!Modulus
  <2> HIDE DEF M
  <2>1. M \in Nat /\ M > 1
    BY <1>1 DEF M
  <2>2. 1 \div M \in Int /\ 1 % M \in 0..M-1 /\ 1 = M * (1 \div M) + (1 % M)
    BY <2>1, Division
  <2>3. M * (1 \div M) + (1 % M) = M * 0 + 1
    BY <2>1, <2>2
  <2>4. 1 % M = 1
    <3>1. 1 % M \in Int /\ 0 <= 1 % M /\ 1 % M < M /\ M > 0
      BY <2>1, <2>2
    <3> QED BY <2>1, <2>2, <2>3, <3>1, QuotientUnique
  <2> QED BY <2>4 DEF M
<1> QED BY <1>1, <1>2 DEF Number!Signed, Number!Unsigned

\* pow is right, for a negative exponent too.
LEMMA PowRight ==
  ASSUME NEW n \in Int, NEW p \in Int
  PROVE  IF p >= 0 THEN Number!pow(n, p) = Number!Signed(Number!Power(n, p))
         ELSE n > 0 => Number!pow(n, p) = 1 \div Number!Power(n, -p)
<1>1. PICK loop :
        /\ \A r \in Registers : loop[r] = IF r.r13 = 0 THEN r.r14 ELSE loop[Shifted(r)]
        /\ \A b, k : Number!pow(b, k) = IF k >= 0 THEN loop[[r12 |-> b, r13 |-> k, r14 |-> 1]]
                                        ELSE IF b = 1 THEN 1 ELSE 0
  BY PowLoops
<1> DEFINE first == [r12 |-> n, r13 |-> p, r14 |-> 1]
<1>2. CASE p > 0
  <2>1. first \in Registers /\ first.r12 = n /\ first.r13 = p /\ first.r14 = 1
    BY <1>2 DEF Registers
  <2> HIDE DEF first
  <2>2. loop[first] = Number!Signed(1 * Number!Power(n, p))
    BY <1>1, <1>2, <2>1, LoopIsPower
  <2>3. Number!Power(n, p) \in Int
    BY <1>2, PowerIs
  <2>4. Number!pow(n, p) = loop[first]
    BY <1>1, <1>2 DEF first
  <2> QED BY <1>2, <2>2, <2>3, <2>4
<1>3. CASE p = 0
  <2>1. first \in Registers /\ first.r13 = 0 /\ first.r14 = 1
    BY <1>3 DEF Registers
  <2> HIDE DEF first
  <2>2. loop[first] = 1
    BY <1>1, <2>1
  <2>3. Number!Power(n, 0) = 1
    BY PowerIs
  <2>4. Number!pow(n, p) = loop[first]
    BY <1>1, <1>3 DEF first
  <2> QED BY <1>3, <2>2, <2>3, <2>4, SignedOne
<1>4. CASE p < 0
  <2> SUFFICES ASSUME n > 0 PROVE Number!pow(n, p) = 1 \div Number!Power(n, -p)
    BY <1>4
  <2>1. -p \in Nat /\ -p > 0 /\ n \in Nat /\ ~(p >= 0)
    BY <1>4
  <2>2. IF n = 1 THEN Number!Power(n, -p) = 1 ELSE Number!Power(n, -p) >= 2
    BY <2>1, PowerLarge
  <2>3. Number!pow(n, p) = IF n = 1 THEN 1 ELSE 0
    BY <1>1, <2>1
  <2> DEFINE x == Number!Power(n, -p)
  <2>4. x \in Int
    BY <2>1, PowerIs
  <2> HIDE DEF x
  <2>5. IF n = 1 THEN x = 1 ELSE x >= 2
    BY <2>2 DEF x
  <2>6. x = 1 => 1 \div x = 1
    OBVIOUS
  <2>7. x >= 2 => 1 \div x = 0
    BY <2>4
  <2> QED BY <2>3, <2>5, <2>6, <2>7 DEF x
<1> QED BY <1>2, <1>3, <1>4

-----------------------------------------------------------------------------
(* satsum and average.                                                       *)

\* satsum is right: a sum that wraps around is smaller than the first argument.
LEMMA SatsumRight ==
  ASSUME NEW v1 \in Number!Unsigneds, NEW v2 \in Number!Unsigneds
  PROVE  Number!satsum(v1, v2) =
           IF v1 + v2 < Number!Modulus THEN v1 + v2 ELSE Number!Modulus - 1
<1> DEFINE M == Number!Modulus
           sum == Number!Unsigned(v1 + v2)
<1>1. M \in Nat /\ M > 0
  BY ModulusIs
<1>2. v1 \in 0..M-1 /\ v2 \in 0..M-1
  BY DEF Number!Unsigneds
<1>3. sum = (v1 + v2) % M /\ Number!satsum(v1, v2) = IF sum < v1 THEN M - 1 ELSE sum
  BY DEF Number!satsum, Number!Unsigned
<1> HIDE DEF M, sum
<1>4. (v1 + v2) \div M \in Int /\ sum \in 0..M-1 /\ v1 + v2 = M * ((v1 + v2) \div M) + sum
  BY <1>1, <1>2, <1>3, Division
<1>5. sum = IF v1 + v2 < M THEN v1 + v2 ELSE v1 + v2 - M
  <2> DEFINE rest == IF v1 + v2 < M THEN v1 + v2 ELSE v1 + v2 - M
             carry == IF v1 + v2 < M THEN 0 ELSE 1
  <2>1. rest \in Int /\ 0 <= rest /\ rest < M /\ carry \in Int /\ v1 + v2 = M * carry + rest
    BY <1>1, <1>2
  <2> DEFINE q == (v1 + v2) \div M
  <2> HIDE DEF rest, carry, q
  <2>2. q \in Int /\ M * q + sum = M * carry + rest
    BY <1>4, <2>1 DEF q
  <2>3. sum \in Int /\ 0 <= sum /\ sum < M
    BY <1>1, <1>4
  <2>4. sum = rest
    BY <1>1, <2>1, <2>2, <2>3, QuotientUnique
  <2> QED BY <2>4 DEF rest
<1>6. Number!satsum(v1, v2) = IF v1 + v2 < M THEN v1 + v2 ELSE M - 1
  BY <1>1, <1>2, <1>3, <1>5
<1> QED BY <1>6 DEF M

\* And is what its recursion says.
LEMMA AndIs ==
  \A a \in Nat : Number!And[a] =
     [b \in Nat |-> IF a = 0 THEN 0 ELSE (a % 2) * (b % 2) + 2 * Number!And[a \div 2][b \div 2]]
<1> DEFINE V == [Nat -> Nat]
           m == [a \in Nat |-> a]
           row(p) == [b \in Nat |-> IF p[1] = 0 THEN 0
                                    ELSE (p[1] % 2) * (b % 2) + 2 * p[2][p[1] \div 2][b \div 2]]
           rule == [p \in Nat \X [Nat -> V] |-> row(p)]
<1>1. m \in [Nat -> Nat] /\ [b \in Nat |-> 0] \in V
  OBVIOUS
<1>2. \A x \in Nat, f \in [Nat -> V] :
         rule[<<x, f>>] = [b \in Nat |-> IF x = 0 THEN 0
                                         ELSE (x % 2) * (b % 2) + 2 * f[x \div 2][b \div 2]]
  OBVIOUS
<1>3. rule \in [Nat \X [Nat -> V] -> V]
  <2>1. ASSUME NEW x \in Nat, NEW f \in [Nat -> V] PROVE rule[<<x, f>>] \in V
    <3>1. x \div 2 \in Nat /\ x % 2 \in Nat
      OBVIOUS
    <3>2. f[x \div 2] \in [Nat -> Nat]
      BY <3>1
    <3>3. ASSUME NEW b \in Nat PROVE (x % 2) * (b % 2) + 2 * f[x \div 2][b \div 2] \in Nat
      <4>1. b \div 2 \in Nat /\ b % 2 \in Nat
        OBVIOUS
      <4> DEFINE z == f[x \div 2][b \div 2]
      <4>2. z \in Nat
        BY <3>2, <4>1
      <4>3. (x % 2) * (b % 2) \in Nat
        BY <3>1, <4>1
      <4> HIDE DEF z
      <4>4. (x % 2) * (b % 2) + 2 * z \in Nat
        BY <4>2, <4>3
      <4> QED BY <4>4 DEF z
    <3> QED BY <1>2, <3>3
  <2>2. ASSUME NEW p \in Nat \X [Nat -> V] PROVE row(p) \in V
    <3> DEFINE x == p[1]
               f == p[2]
    <3>1. x \in Nat /\ f \in [Nat -> V] /\ rule[<<x, f>>] = row(p)
      <4>1. x \in Nat /\ f \in [Nat -> V] /\ p = <<x, f>>
        <5> DEFINE W == [Nat -> V]
        <5>1. p \in Nat \X W
          OBVIOUS
        <5> HIDE DEF W, m, rule, row
        <5>2. p[1] \in Nat /\ p[2] \in W /\ p = <<p[1], p[2]>>
          BY <5>1
        <5> QED BY <5>2 DEF W
      <4>2. rule[p] = row(p)
        OBVIOUS
      <4> HIDE DEF x, f, rule, row
      <4> QED BY <4>1, <4>2
    <3> HIDE DEF x, f, rule, row, V
    <3> QED BY <2>1, <3>1
  <2> HIDE DEF V, row
  <2> QED BY <2>2
<1>4. Local(Nat, V, m, rule)
  <2> SUFFICES ASSUME NEW x \in Nat, NEW f \in [Nat -> V], NEW g \in [Nat -> V],
                      \A y \in Nat : m[y] < m[x] => f[y] = g[y]
               PROVE  rule[<<x, f>>] = rule[<<x, g>>]
    BY DEF Local
  <2>1. x # 0 => x \div 2 \in Nat /\ x \div 2 < x
    OBVIOUS
  <2>2. x # 0 => f[x \div 2] = g[x \div 2]
    BY <2>1
  <2> QED BY <1>2, <2>2
<1>5. PICK f \in [Nat -> V] : \A x \in Nat : f[x] = rule[<<x, f>>]
  <2>1. Solvable(Nat, V, rule)
    <3> HIDE DEF m, rule, V
    <3> QED BY <1>1, <1>3, <1>4, Recursion
  <2> QED BY <2>1 DEF Solvable
<1> DEFINE body(and, a) == [b \in Nat |->
             IF a = 0 THEN 0 ELSE (a % 2) * (b % 2) + 2 * and[a \div 2][b \div 2]]
           Is(and) == and = [a \in Nat |-> body(and, a)]
<1>6. Is(f)
  <2>1. \A a \in Nat : f[a] = body(f, a)
    BY <1>2, <1>5
  <2> HIDE DEF body
  <2> QED BY <1>5, <2>1
<1>7. Number!And = CHOOSE and : Is(and)
  BY DEF Number!And
<1>8. Is(Number!And)
  <2> HIDE DEF Is
  <2> QED BY <1>6, <1>7
<1> QED BY <1>8

\* Xor is what its recursion says.
LEMMA XorIs ==
  \A a \in Nat : Number!Xor[a] =
     [b \in Nat |-> IF a = 0 THEN b ELSE ((a + b) % 2) + 2 * Number!Xor[a \div 2][b \div 2]]
<1> DEFINE V == [Nat -> Nat]
           m == [a \in Nat |-> a]
           row(p) == [b \in Nat |-> IF p[1] = 0 THEN b
                                    ELSE ((p[1] + b) % 2) + 2 * p[2][p[1] \div 2][b \div 2]]
           rule == [p \in Nat \X [Nat -> V] |-> row(p)]
<1>1. m \in [Nat -> Nat] /\ [b \in Nat |-> 0] \in V
  OBVIOUS
<1>2. \A x \in Nat, f \in [Nat -> V] :
         rule[<<x, f>>] = [b \in Nat |-> IF x = 0 THEN b
                                         ELSE ((x + b) % 2) + 2 * f[x \div 2][b \div 2]]
  OBVIOUS
<1>3. rule \in [Nat \X [Nat -> V] -> V]
  <2>1. ASSUME NEW x \in Nat, NEW f \in [Nat -> V] PROVE rule[<<x, f>>] \in V
    <3>1. x \div 2 \in Nat
      OBVIOUS
    <3>2. f[x \div 2] \in [Nat -> Nat]
      BY <3>1
    <3>3. ASSUME NEW b \in Nat PROVE ((x + b) % 2) + 2 * f[x \div 2][b \div 2] \in Nat
      <4>1. b \div 2 \in Nat /\ (x + b) % 2 \in Nat
        OBVIOUS
      <4> DEFINE z == f[x \div 2][b \div 2]
      <4>2. z \in Nat
        BY <3>2, <4>1
      <4> HIDE DEF z
      <4>3. ((x + b) % 2) + 2 * z \in Nat
        BY <4>1, <4>2
      <4> QED BY <4>3 DEF z
    <3> QED BY <1>2, <3>3
  <2>2. ASSUME NEW p \in Nat \X [Nat -> V] PROVE row(p) \in V
    <3> DEFINE x == p[1]
               f == p[2]
    <3>1. x \in Nat /\ f \in [Nat -> V] /\ rule[<<x, f>>] = row(p)
      <4>1. x \in Nat /\ f \in [Nat -> V] /\ p = <<x, f>>
        <5> DEFINE W == [Nat -> V]
        <5>1. p \in Nat \X W
          OBVIOUS
        <5> HIDE DEF W, m, rule, row
        <5>2. p[1] \in Nat /\ p[2] \in W /\ p = <<p[1], p[2]>>
          BY <5>1
        <5> QED BY <5>2 DEF W
      <4>2. rule[p] = row(p)
        OBVIOUS
      <4> HIDE DEF x, f, rule, row
      <4> QED BY <4>1, <4>2
    <3> HIDE DEF x, f, rule, row, V
    <3> QED BY <2>1, <3>1
  <2> HIDE DEF V, row
  <2> QED BY <2>2
<1>4. Local(Nat, V, m, rule)
  <2> SUFFICES ASSUME NEW x \in Nat, NEW f \in [Nat -> V], NEW g \in [Nat -> V],
                      \A y \in Nat : m[y] < m[x] => f[y] = g[y]
               PROVE  rule[<<x, f>>] = rule[<<x, g>>]
    BY DEF Local
  <2>1. x # 0 => x \div 2 \in Nat /\ x \div 2 < x
    OBVIOUS
  <2>2. x # 0 => f[x \div 2] = g[x \div 2]
    BY <2>1
  <2> QED BY <1>2, <2>2
<1>5. PICK f \in [Nat -> V] : \A x \in Nat : f[x] = rule[<<x, f>>]
  <2>1. Solvable(Nat, V, rule)
    <3> HIDE DEF m, rule, V
    <3> QED BY <1>1, <1>3, <1>4, Recursion
  <2> QED BY <2>1 DEF Solvable
<1> DEFINE body(xor, a) == [b \in Nat |->
             IF a = 0 THEN b ELSE ((a + b) % 2) + 2 * xor[a \div 2][b \div 2]]
           Is(xor) == xor = [a \in Nat |-> body(xor, a)]
<1>6. Is(f)
  <2>1. \A a \in Nat : f[a] = body(f, a)
    BY <1>2, <1>5
  <2> HIDE DEF body
  <2> QED BY <1>5, <2>1
<1>7. Number!Xor = CHOOSE xor : Is(xor)
  BY DEF Number!Xor
<1>8. Is(Number!Xor)
  <2> HIDE DEF Is
  <2> QED BY <1>6, <1>7
<1> QED BY <1>8

\* a + b is the carries, twice, and the sum without them.
LEMMA CarriesAndSum ==
  \A a \in Nat : \A b \in Nat :
     /\ Number!And[a][b] \in Nat /\ Number!Xor[a][b] \in Nat
     /\ 2 * Number!And[a][b] + Number!Xor[a][b] = a + b
<1> DEFINE P == {a \in Nat : \A b \in Nat :
                   /\ Number!And[a][b] \in Nat /\ Number!Xor[a][b] \in Nat
                   /\ 2 * Number!And[a][b] + Number!Xor[a][b] = a + b}
           m == [a \in Nat |-> a]
<1>1. ASSUME NEW a \in Nat, \A y \in Nat : m[y] < m[a] => y \in P, NEW b \in Nat
      PROVE  /\ Number!And[a][b] \in Nat /\ Number!Xor[a][b] \in Nat
             /\ 2 * Number!And[a][b] + Number!Xor[a][b] = a + b
  <2> DEFINE a2 == a \div 2
             b2 == b \div 2
             x == Number!And[a2][b2]
             y == Number!Xor[a2][b2]
  <2>1. Number!And[a][b] = IF a = 0 THEN 0 ELSE (a % 2) * (b % 2) + 2 * x
    BY AndIs
  <2>2. Number!Xor[a][b] = IF a = 0 THEN b ELSE ((a + b) % 2) + 2 * y
    BY XorIs
  <2>3. CASE a = 0
    BY <2>1, <2>2, <2>3
  <2>4. CASE a # 0
    <3>1. a2 \in Nat /\ b2 \in Nat /\ a2 < a /\ a = 2 * a2 + (a % 2) /\ b = 2 * b2 + (b % 2)
          /\ a % 2 \in {0, 1} /\ b % 2 \in {0, 1}
      BY <2>4
    <3>2. x \in Nat /\ y \in Nat /\ 2 * x + y = a2 + b2
      BY <1>1, <3>1
    <3>3. (a + b) % 2 = IF a % 2 = b % 2 THEN 0 ELSE 1
      BY <3>1
    <3>4. (a % 2) * (b % 2) = IF a % 2 = 1 /\ b % 2 = 1 THEN 1 ELSE 0
      BY <3>1
    <3> HIDE DEF a2, b2, x, y
    <3> QED BY <2>1, <2>2, <2>4, <3>1, <3>2, <3>3, <3>4
  <2> QED BY <2>3, <2>4
<1>2. Nat \subseteq P
  <2>1. m \in [Nat -> Nat]
    OBVIOUS
  <2>2. \A x \in Nat : (\A y \in Nat : m[y] < m[x] => y \in P) => x \in P
    BY <1>1
  <2> HIDE DEF P, m
  <2> QED BY <2>1, <2>2, MeasureInduction
<1> QED BY <1>2

\* What fits in Width bits is its own unsigned value.
LEMMA SmallUnsigned ==
  ASSUME NEW v \in Number!Unsigneds
  PROVE  Number!Unsigned(v) = v
<1> DEFINE M == Number!Modulus
<1>1. M \in Nat /\ M > 0
  BY ModulusIs
<1>2. v \in 0..M-1
  BY DEF Number!Unsigneds
<1> HIDE DEF M
<1>3. v \div M \in Int /\ v % M \in 0..M-1 /\ v = M * (v \div M) + (v % M)
  BY <1>1, <1>2, Division
<1>4. M * (v \div M) + (v % M) = M * 0 + v /\ 0 <= v /\ v < M /\ v \in Int
      /\ v % M \in Int /\ 0 <= v % M /\ v % M < M
  BY <1>1, <1>2, <1>3
<1>5. v % M = v
  BY <1>1, <1>3, <1>4, QuotientUnique
<1> QED BY <1>5 DEF Number!Unsigned, M

\* average is right.
LEMMA AverageRight ==
  ASSUME NEW a \in Number!Unsigneds, NEW b \in Number!Unsigneds
  PROVE  Number!average(a, b) = (a + b) \div 2
<1> DEFINE M == Number!Modulus
           x == Number!And[a][b]
           y == Number!Xor[a][b]
<1>1. M \in Nat /\ M > 0
  BY ModulusIs
<1>2. a \in 0..M-1 /\ b \in 0..M-1
  BY DEF Number!Unsigneds
<1>3. x \in Nat /\ y \in Nat /\ 2 * x + y = a + b
  <2>1. a \in Nat /\ b \in Nat
    BY <1>1, <1>2
  <2> QED BY <2>1, CarriesAndSum
<1>4. Number!average(a, b) = Number!Unsigned(x + (y \div 2))
  BY DEF Number!average
<1> HIDE DEF M, x, y
<1>5. x + (y \div 2) = (a + b) \div 2 /\ (a + b) \div 2 \in 0..M-1
  BY <1>1, <1>2, <1>3
<1>6. (a + b) \div 2 \in Number!Unsigneds
  BY <1>5 DEF Number!Unsigneds, M
<1> QED BY <1>4, <1>5, <1>6, SmallUnsigned

-----------------------------------------------------------------------------
(* The buffers of simpleasan.h.                                              *)

\* A protected buffer lies where it should and is given back whole.
LEMMA ProtectedRight ==
  ASSUME NEW n \in Nat, n > 0
  PROVE  LET a == Number!protected(n) IN
         /\ a[1] + n = a[2] /\ a[2] % PageSize = 0 /\ a[1] >= PageSize
         /\ a[3] = 0 /\ a[4] = 0 /\ a[5] = a[2] + PageSize
         /\ a # <<>>
<1> DEFINE P == PageSize
           k == (n - 1) \div P
           r == (n - 1) % P
           np == k + 1
           buffer == (np + 1) * P - n
           start == (buffer \div P) * P - P
<1>1. P \in Nat /\ P > 0
  BY ProgramsAssumption DEF Number!NumbersAssumption
<1>2. Number!protected(n) = <<buffer, (np + 1) * P, start, start, (np + 2) * P>>
  BY DEF Number!protected
<1> HIDE DEF P
<1>3. k \in Int /\ r \in 0..P-1 /\ n - 1 = P * k + r
  <2>1. n - 1 \in Int
    OBVIOUS
  <2> QED BY <1>1, <2>1, Division
<1> HIDE DEF k, r
<1>4. (np + 1) * P = P * k + 2 * P /\ (np + 2) * P = P * k + 3 * P
  BY <1>1, <1>3
<1> DEFINE kP == P * k
<1>5. kP \in Int
  BY <1>1, <1>3
<1>6. buffer = 2 * P - 1 - r /\ buffer \in Int
  <2> DEFINE full == (np + 1) * P
  <2>a. full = kP + 2 * P /\ buffer = full - n /\ n - 1 = kP + r /\ r \in Int
    BY <1>1, <1>3, <1>4
  <2>1. n = kP + r + 1 /\ buffer = kP + 2 * P - n
    <3> HIDE DEF full, kP, buffer
    <3> QED BY <1>1, <1>5, <2>a
  <2> HIDE DEF kP, buffer
  <2> QED BY <1>1, <1>3, <1>5, <2>1
<1> HIDE DEF buffer
<1>7. buffer \div P = 1
  <2> DEFINE q == buffer \div P
             t == buffer % P
  <2>1. q \in Int /\ t \in 0..P-1 /\ buffer = P * q + t
    BY <1>1, <1>6, Division
  <2> HIDE DEF q, t
  <2>2. /\ P * q + t = P * 1 + (P - 1 - r) /\ 0 <= P - 1 - r /\ P - 1 - r < P
        /\ P - 1 - r \in Int /\ 0 <= t /\ t < P /\ t \in Int
    BY <1>1, <1>3, <1>6, <2>1
  <2>3. q = 1
    BY <1>1, <2>1, <2>2, QuotientUnique
  <2> QED BY <2>3 DEF q
<1>8. start = 0
  BY <1>1, <1>7
<1>9. ((np + 1) * P) % P = 0
  <2> DEFINE v == (np + 1) * P
             q == v \div P
             t == v % P
  <2>1. v \in Int /\ v = P * (k + 2) + 0 /\ k + 2 \in Int
    BY <1>1, <1>3
  <2> HIDE DEF v
  <2>2. q \in Int /\ t \in 0..P-1 /\ v = P * q + t
    BY <1>1, <2>1, Division
  <2> HIDE DEF q, t
  <2> DEFINE w == k + 2
  <2>3. P * q + t = P * w + 0 /\ 0 <= t /\ t < P /\ t \in Int /\ w \in Int
    BY <1>1, <2>1, <2>2
  <2> HIDE DEF w
  <2>4. t = 0
    BY <1>1, <2>2, <2>3, QuotientUnique
  <2> QED BY <2>4 DEF t, v
<1> DEFINE end == (np + 1) * P
<1>10. /\ end \in Int /\ buffer + n = end /\ (np + 2) * P = end + P /\ buffer >= P
  <2>1. end = kP + 2 * P /\ (np + 2) * P = kP + 3 * P
    BY <1>4
  <2>2. buffer + n = end
    <3>1. n = kP + r + 1
      BY <1>3
    <3> HIDE DEF kP, end
    <3> QED BY <1>1, <1>3, <1>5, <1>6, <2>1, <3>1
  <2> DEFINE more == (np + 2) * P
  <2> HIDE DEF kP, end, more
  <2>3. end \in Int /\ more = end + P /\ buffer >= P
    BY <1>1, <1>3, <1>5, <1>6, <2>1 DEF more
  <2> QED BY <2>2, <2>3 DEF more
<1> DEFINE more == (np + 2) * P
<1> HIDE DEF start, end, more
<1>11. Number!protected(n) = <<buffer, end, start, start, more>>
  BY <1>2 DEF end, more
<1>12. end % P = 0 /\ more = end + P
  BY <1>9, <1>10 DEF end, more
<1> QED BY <1>8, <1>10, <1>11, <1>12 DEF P

-----------------------------------------------------------------------------
(* whole-mul.                                                                *)

\* What is read lies in the input, or is -1.
LEMMA ReadIs ==
  ASSUME NEW s \in Seq(Int), NEW k
  PROVE  /\ Number!Read(s, k) \in Int
         /\ k \in 1..Len(s) => Number!Read(s, k) = s[k]
         /\ k \notin 1..Len(s) => Number!Read(s, k) = -1
<1>1. DOMAIN s = 1..Len(s)
  BY LenProperties
<1>2. k \in 1..Len(s) => s[k] \in Int
  BY ElementOfSeq
<1> QED BY <1>1, <1>2 DEF Number!Read

\* Product is the last but one of the partial products.
LEMMA ProductIs ==
  ASSUME NEW s \in Seq(Int), s # <<>>
  PROVE  \E product \in [0..Len(s) -> Int] :
           /\ product[0] = 1
           /\ \A k \in 1..Len(s) : product[k] = product[k - 1] * s[k]
           /\ Number!Product(s) = product[Len(s) - 1]
<1> DEFINE L == Len(s)
           S == 0..L
           m == [k \in S |-> k]
           rule == [p \in S \X [S -> Int] |->
                      IF p[1] = 0 THEN 1 ELSE p[2][p[1] - 1] * s[p[1]]]
<1>0. L \in Nat
  BY LenProperties
<1>1. m \in [S -> Nat] /\ Int # {}
  BY <1>0
<1>2. \A x \in S, f \in [S -> Int] :
         rule[<<x, f>>] = IF x = 0 THEN 1 ELSE f[x - 1] * s[x]
  OBVIOUS
<1>3. rule \in [S \X [S -> Int] -> Int]
  <2>1. ASSUME NEW x \in S, NEW f \in [S -> Int] PROVE rule[<<x, f>>] \in Int
    <3>1. CASE x = 0
      BY <1>2, <3>1
    <3>2. CASE x # 0
      <4>1. x \in 1..L /\ x - 1 \in S
        BY <1>0, <3>2
      <4>2. s[x] \in Int
        BY <4>1, ElementOfSeq
      <4>3. f[x - 1] \in Int
        BY <4>1
      <4> QED BY <1>2, <3>2, <4>2, <4>3
    <3> QED BY <3>1, <3>2
  <2> HIDE DEF S
  <2> QED BY <2>1
<1>4. Local(S, Int, m, rule)
  <2> SUFFICES ASSUME NEW x \in S, NEW f \in [S -> Int], NEW g \in [S -> Int],
                      \A y \in S : m[y] < m[x] => f[y] = g[y]
               PROVE  rule[<<x, f>>] = rule[<<x, g>>]
    BY DEF Local
  <2>1. x # 0 => f[x - 1] = g[x - 1]
    BY <1>0
  <2> QED BY <1>2, <2>1
<1>5. PICK f \in [S -> Int] : \A x \in S : f[x] = rule[<<x, f>>]
  <2>1. Solvable(S, Int, rule)
    <3> HIDE DEF m, rule, S
    <3> QED BY <1>1, <1>3, <1>4, Recursion
  <2> QED BY <2>1 DEF Solvable
<1> DEFINE body(product, k) == IF k = 0 THEN 1 ELSE product[k - 1] * s[k]
           Is(product) == product = [k \in 0..Len(s) |-> body(product, k)]
           chosen == CHOOSE product : Is(product)
<1>6. Is(f)
  <2>1. \A k \in S : f[k] = body(f, k)
    BY <1>2, <1>5
  <2> HIDE DEF body
  <2> QED BY <1>5, <2>1
<1>7. Is(chosen)
  <2> HIDE DEF Is
  <2> QED BY <1>6
<1>8. Number!Product(s) = chosen[L - 1]
  BY DEF Number!Product
<1>9. \A k \in S : chosen[k] = body(chosen, k)
  <2> HIDE DEF chosen, body
  <2> QED BY <1>7
<1>10. DOMAIN chosen = S /\ chosen = [k \in S |-> chosen[k]]
  <2> HIDE DEF chosen, body
  <2> QED BY <1>7
<1> HIDE DEF chosen
<1>11. S \subseteq {k \in S : chosen[k] \in Int}
  <2> DEFINE P == {k \in S : chosen[k] \in Int}
  <2>1. ASSUME NEW x \in S, \A y \in S : m[y] < m[x] => y \in P PROVE x \in P
    <3>1. CASE x = 0
      BY <1>9, <3>1
    <3>2. CASE x # 0
      <4>1. x \in 1..L /\ x - 1 \in S /\ m[x - 1] < m[x]
        BY <1>0, <3>2
      <4>2. s[x] \in Int
        BY <4>1, ElementOfSeq
      <4>3. chosen[x - 1] \in Int
        BY <2>1, <4>1
      <4> QED BY <1>9, <3>2, <4>2, <4>3
    <3> QED BY <3>1, <3>2
  <2> HIDE DEF P, m, S
  <2>2. S \subseteq P
    BY <1>1, <2>1, MeasureInduction
  <2> QED BY <2>2 DEF P
<1>12. chosen \in [S -> Int]
  <2> HIDE DEF S
  <2> QED BY <1>10, <1>11
<1>13. 0 \in S /\ \A k \in 1..L : k \in S /\ k # 0
  BY <1>0
<1>14. chosen[0] = 1 /\ \A k \in 1..L : chosen[k] = chosen[k - 1] * s[k]
  BY <1>9, <1>13
<1> QED BY <1>8, <1>12, <1>14

Reading == [next : Nat, r12 : Int]
Multiplied(s, r) == [next |-> r.next + 1, r12 |-> Number!Signed(r.r12 * Number!Read(s, r.next))]

\* The loop of whole-mul, and that whole-mul is this loop from its first state.
LEMMA MultiplyLoops ==
  ASSUME NEW s \in Seq(Int)
  PROVE  \E loop :
           /\ \A r \in Reading : loop[r] = IF Number!Read(s, r.next) = -1 THEN r.r12
                                           ELSE loop[Multiplied(s, r)]
           /\ Number!whole_mul(s) = loop[[next |-> 1, r12 |-> 1]]
<1> DEFINE L == Len(s)
           m == [r \in Reading |-> IF r.next <= L THEN L + 1 - r.next ELSE 0]
           rule == [p \in Reading \X [Reading -> Int] |->
                      IF Number!Read(s, p[1].next) = -1 THEN p[1].r12
                      ELSE p[2][Multiplied(s, p[1])]]
<1>0. L \in Nat
  BY LenProperties
<1>1. m \in [Reading -> Nat] /\ Int # {}
  <2> HIDE DEF L
  <2>1. \A r \in Reading : r.next \in Nat
    BY DEF Reading
  <2>2. \A r \in Reading : (IF r.next <= L THEN L + 1 - r.next ELSE 0) \in Nat
    BY <1>0, <2>1
  <2> QED BY <2>2
<1>2. \A x \in Reading, f \in [Reading -> Int] :
         rule[<<x, f>>] = IF Number!Read(s, x.next) = -1 THEN x.r12 ELSE f[Multiplied(s, x)]
  OBVIOUS
<1>3. ASSUME NEW x \in Reading, Number!Read(s, x.next) # -1
      PROVE  Multiplied(s, x) \in Reading /\ m[Multiplied(s, x)] < m[x]
  <2>1. x.next \in Nat /\ x.r12 \in Int /\ x.next \in 1..L /\ Number!Read(s, x.next) \in Int
    BY <1>3, ReadIs DEF Reading
  <2>2. x.r12 * Number!Read(s, x.next) \in Int
    BY <2>1
  <2>3. Number!Signed(x.r12 * Number!Read(s, x.next)) \in Int
    BY <2>2, SignedIs
  <2>4. Multiplied(s, x) \in Reading /\ Multiplied(s, x).next = x.next + 1
    BY <2>1, <2>3 DEF Multiplied, Reading
  <2> HIDE DEF L
  <2> QED BY <1>0, <2>1, <2>4
<1>4. rule \in [Reading \X [Reading -> Int] -> Int]
  <2>1. ASSUME NEW x \in Reading, NEW f \in [Reading -> Int] PROVE rule[<<x, f>>] \in Int
    <3>1. x.r12 \in Int
      BY DEF Reading
    <3> QED BY <1>2, <1>3, <3>1
  <2> QED BY <2>1
<1>5. Local(Reading, Int, m, rule)
  <2> SUFFICES ASSUME NEW x \in Reading, NEW f \in [Reading -> Int], NEW g \in [Reading -> Int],
                      \A y \in Reading : m[y] < m[x] => f[y] = g[y]
               PROVE  rule[<<x, f>>] = rule[<<x, g>>]
    BY DEF Local
  <2>1. Number!Read(s, x.next) # -1 => f[Multiplied(s, x)] = g[Multiplied(s, x)]
    <3> HIDE DEF m
    <3> QED BY <1>3
  <2> QED BY <1>2, <2>1
<1>6. PICK f \in [Reading -> Int] : \A x \in Reading : f[x] = rule[<<x, f>>]
  <2>1. Solvable(Reading, Int, rule)
    <3> HIDE DEF m, rule
    <3> QED BY <1>1, <1>4, <1>5, Recursion
  <2> QED BY <2>1 DEF Solvable
<1> DEFINE body(loop, r) == IF Number!Read(s, r.next) = -1 THEN r.r12 ELSE loop[Multiplied(s, r)]
           Is(loop) == loop = [r \in Reading |-> body(loop, r)]
           chosen == CHOOSE loop : Is(loop)
<1>7. Is(f)
  <2>1. \A r \in Reading : f[r] = body(f, r)
    BY <1>2, <1>6
  <2> HIDE DEF body
  <2> QED BY <1>6, <2>1
<1>8. Is(chosen)
  <2> HIDE DEF Is
  <2> QED BY <1>7
<1>9. Number!whole_mul(s) = chosen[[next |-> 1, r12 |-> 1]]
  BY DEF Number!whole_mul, Multiplied, Reading
<1>10. \A r \in Reading : chosen[r] = body(chosen, r)
  <2> HIDE DEF chosen, body
  <2> QED BY <1>8
<1> HIDE DEF chosen
<1> QED BY <1>9, <1>10

\* whole-mul is right.
LEMMA WholeMulRight ==
  ASSUME NEW s \in Seq(Int), s # <<>>, \A k \in DOMAIN s : s[k] = -1 <=> k = Len(s)
  PROVE  Number!whole_mul(s) = Number!Signed(Number!Product(s))
<1> DEFINE L == Len(s)
<1>1. L \in Nat /\ L > 0 /\ DOMAIN s = 1..L
  BY LenProperties, EmptySeq
<1>2. PICK product \in [0..L -> Int] :
        /\ product[0] = 1
        /\ \A k \in 1..L : product[k] = product[k - 1] * s[k]
        /\ Number!Product(s) = product[L - 1]
  BY ProductIs
<1>3. PICK loop :
        /\ \A r \in Reading : loop[r] = IF Number!Read(s, r.next) = -1 THEN r.r12
                                        ELSE loop[Multiplied(s, r)]
        /\ Number!whole_mul(s) = loop[[next |-> 1, r12 |-> 1]]
  BY MultiplyLoops
<1>4. \A k \in 1..L : Number!Read(s, k) = s[k] /\ s[k] \in Int
  BY ReadIs, ElementOfSeq
<1> DEFINE S == {r \in Reading : r.next \in 1..L /\ r.r12 = Number!Signed(product[r.next - 1])}
           m == [r \in S |-> L - r.next]
           P == {r \in S : loop[r] = Number!Signed(product[L - 1])}
<1> HIDE DEF L
<1>5. ASSUME NEW r \in S, \A y \in S : m[y] < m[r] => y \in P
      PROVE  r \in P
  <2> DEFINE k == r.next
  <2>1. r \in Reading /\ k \in 1..L /\ r.r12 = Number!Signed(product[k - 1])
    OBVIOUS
  <2>2. CASE k = L
    <3>1. s[k] = -1
      BY <1>1, <2>1, <2>2 DEF L
    <3>2. Number!Read(s, r.next) = -1
      BY <1>4, <2>1, <3>1
    <3>3. loop[r] = r.r12
      BY <1>3, <2>1, <3>2
    <3> QED BY <2>1, <2>2, <3>3
  <2>3. CASE k # L
    <3>1. s[k] # -1
      BY <1>1, <2>1, <2>3 DEF L
    <3> DEFINE y == Multiplied(s, r)
    <3>2. Number!Read(s, r.next) = s[k]
      BY <1>4, <2>1
    <3>3. loop[r] = loop[y]
      BY <1>3, <2>1, <3>1, <3>2
    <3>4. y.next = k + 1 /\ y.r12 = Number!Signed(r.r12 * s[k])
      BY <3>2 DEF Multiplied
    <3>5. product[k - 1] \in Int /\ product[k] \in Int /\ product[k] = product[k - 1] * s[k]
          /\ s[k] \in Int /\ k \in Nat /\ k + 1 \in 1..L /\ (k + 1) - 1 = k
      <4> HIDE DEF k
      <4>1. k - 1 \in 0..L /\ k \in 0..L /\ k \in Nat /\ k + 1 \in 1..L /\ (k + 1) - 1 = k
        BY <1>1, <2>1, <2>3
      <4>2. product[k - 1] \in Int /\ product[k] \in Int
        BY <4>1
      <4> QED BY <1>2, <1>4, <2>1, <4>1, <4>2
    <3> DEFINE c == product[k - 1]
    <3>6. r.r12 \in Int /\ Cong(r.r12, c)
      BY <2>1, <3>5, SignedIs
    <3>7. Cong(r.r12 * s[k], c * s[k])
      BY <3>5, <3>6, CongTimes
    <3>8. Number!Signed(r.r12 * s[k]) = Number!Signed(product[k])
      <4>1. r.r12 * s[k] \in Int /\ c * s[k] \in Int
        <5> DEFINE a == r.r12
                   b == s[k]
        <5>1. a \in Int /\ b \in Int /\ c \in Int
          BY <3>5, <3>6
        <5> HIDE DEF a, b, c
        <5>2. a * b \in Int /\ c * b \in Int
          BY <5>1
        <5> QED BY <5>2 DEF a, b
      <4> HIDE DEF k
      <4>2. Number!Signed(r.r12 * s[k]) = Number!Signed(c * s[k])
        BY <3>7, <4>1, SignedSame
      <4> QED BY <3>5, <4>2
    <3>9. Number!Signed(product[k]) \in Int
      BY <3>5, SignedIs
    <3>10. y \in Reading
      BY <3>4, <3>5, <3>8, <3>9 DEF Multiplied, Reading
    <3> HIDE DEF y
    <3>11. y \in S
      BY <3>4, <3>5, <3>8, <3>10
    <3>12. m[y] < m[r]
      <4>1. m[y] = L - y.next /\ m[r] = L - r.next
        <5> HIDE DEF S
        <5> QED BY <3>11
      <4>2. L - y.next < L - r.next
        BY <1>1, <2>1, <3>4
      <4> HIDE DEF m
      <4> QED BY <4>1, <4>2
    <3>13. y \in P
      <4> HIDE DEF P, S, m
      <4> QED BY <1>5, <3>11, <3>12
    <3> QED BY <3>3, <3>13
  <2> QED BY <2>2, <2>3
<1>6. S \subseteq P
  <2>1. m \in [S -> Nat]
    <3>1. \A r \in S : L - r.next \in Nat
      BY <1>1
    <3> HIDE DEF S
    <3> QED BY <3>1
  <2> HIDE DEF P, m, S
  <2> QED BY <1>5, <2>1, MeasureInduction
<1> DEFINE first == [next |-> 1, r12 |-> 1]
<1>7. first \in S
  <2>1. first \in Reading /\ first.next = 1 /\ first.r12 = 1
    BY DEF Reading
  <2>2. Number!Signed(product[1 - 1]) = 1
    BY <1>2, SignedOne
  <2> HIDE DEF first
  <2> QED BY <1>1, <2>1, <2>2
<1>8. loop[first] = Number!Signed(product[L - 1])
  <2> HIDE DEF first, S
  <2> QED BY <1>6, <1>7
<1> QED BY <1>2, <1>3, <1>8 DEF L

-----------------------------------------------------------------------------
(* fib-root: what the table holds, and what the search of it keeps.          *)

\* Fibonacci is what its recursion says.
LEMMA FibonacciIs ==
  /\ \A k \in Nat : Number!Fibonacci[k] \in Nat
  /\ \A k \in Nat : Number!Fibonacci[k] =
        IF k < 2 THEN k ELSE Number!Fibonacci[k - 1] + Number!Fibonacci[k - 2]
<1> DEFINE m == [k \in Nat |-> k]
           rule == [p \in Nat \X [Nat -> Nat] |->
                      IF p[1] < 2 THEN p[1] ELSE p[2][p[1] - 1] + p[2][p[1] - 2]]
<1>1. m \in [Nat -> Nat] /\ Nat # {}
  OBVIOUS
<1>2. \A x \in Nat, f \in [Nat -> Nat] :
         rule[<<x, f>>] = IF x < 2 THEN x ELSE f[x - 1] + f[x - 2]
  OBVIOUS
<1>3. rule \in [Nat \X [Nat -> Nat] -> Nat]
  <2>1. ASSUME NEW x \in Nat, NEW f \in [Nat -> Nat] PROVE rule[<<x, f>>] \in Nat
    <3>1. CASE x < 2
      BY <1>2, <3>1
    <3>2. CASE ~(x < 2)
      <4>1. x - 1 \in Nat /\ x - 2 \in Nat
        BY <3>2
      <4>2. f[x - 1] \in Nat /\ f[x - 2] \in Nat
        BY <4>1
      <4> QED BY <1>2, <3>2, <4>2
    <3> QED BY <3>1, <3>2
  <2> QED BY <2>1
<1>4. Local(Nat, Nat, m, rule)
  <2> SUFFICES ASSUME NEW x \in Nat, NEW f \in [Nat -> Nat], NEW g \in [Nat -> Nat],
                      \A y \in Nat : m[y] < m[x] => f[y] = g[y]
               PROVE  rule[<<x, f>>] = rule[<<x, g>>]
    BY DEF Local
  <2>1. ~(x < 2) => f[x - 1] = g[x - 1] /\ f[x - 2] = g[x - 2]
    OBVIOUS
  <2> QED BY <1>2, <2>1
<1>5. PICK f \in [Nat -> Nat] : \A x \in Nat : f[x] = rule[<<x, f>>]
  <2>1. Solvable(Nat, Nat, rule)
    <3> HIDE DEF m, rule
    <3> QED BY <1>1, <1>3, <1>4, Recursion
  <2> QED BY <2>1 DEF Solvable
<1> DEFINE body(fibonacci, k) == IF k < 2 THEN k ELSE fibonacci[k - 1] + fibonacci[k - 2]
           Is(fibonacci) == fibonacci = [k \in Nat |-> body(fibonacci, k)]
           chosen == CHOOSE fibonacci : Is(fibonacci)
<1>6. Is(f)
  <2>1. \A k \in Nat : f[k] = body(f, k)
    BY <1>2, <1>5
  <2> HIDE DEF body
  <2> QED BY <1>5, <2>1
<1>7. Is(chosen)
  <2> HIDE DEF Is
  <2> QED BY <1>6
<1>8. Number!Fibonacci = chosen
  BY DEF Number!Fibonacci
<1>9. \A k \in Nat : chosen[k] = body(chosen, k)
  <2> HIDE DEF chosen, body
  <2> QED BY <1>7
<1> HIDE DEF chosen
<1>10. Nat \subseteq {k \in Nat : chosen[k] \in Nat}
  <2> DEFINE P == {k \in Nat : chosen[k] \in Nat}
  <2>1. ASSUME NEW x \in Nat, \A y \in Nat : m[y] < m[x] => y \in P PROVE x \in P
    <3>1. CASE x < 2
      BY <1>9, <3>1
    <3>2. CASE ~(x < 2)
      <4>1. x - 1 \in Nat /\ x - 2 \in Nat /\ m[x - 1] < m[x] /\ m[x - 2] < m[x]
        BY <3>2
      <4>2. chosen[x - 1] \in Nat /\ chosen[x - 2] \in Nat
        BY <2>1, <4>1
      <4> QED BY <1>9, <3>2, <4>2
    <3> QED BY <3>1, <3>2
  <2> HIDE DEF P, m
  <2>2. Nat \subseteq P
    BY <1>1, <2>1, MeasureInduction
  <2> QED BY <2>2 DEF P
<1> QED BY <1>8, <1>9, <1>10

NextFib(f) == f[Len(f)] + f[Len(f) - 1]

\* A table of the first Fibonacci numbers that is extended is one again.
LEMMA TableGrows ==
  ASSUME NEW f \in Number!Tables
  PROVE  /\ Len(f) \in Nat /\ Len(f) >= 2 /\ f \in Seq(Nat)
         /\ f[Len(f)] \in Nat /\ f[Len(f) - 1] \in Nat /\ NextFib(f) \in Nat
         /\ Append(f, NextFib(f)) \in Number!Tables
         /\ Len(Append(f, NextFib(f))) = Len(f) + 1
         /\ \A k \in 1..Len(f) : Append(f, NextFib(f))[k] = f[k]
         /\ Append(f, NextFib(f))[Len(f) + 1] = NextFib(f)
         /\ NextFib(f) > f[Len(f)]
<1> DEFINE L == Len(f)
           n == NextFib(f)
           g == Append(f, n)
<1>1. f \in Seq(Nat) /\ L \in Nat /\ L >= 2 /\ f[L] > 0 /\ f[L - 1] > 0
  BY LenProperties DEF Number!Tables
<1>2. f[L] \in Nat /\ f[L - 1] \in Nat
  <2>1. L \in 1..L /\ L - 1 \in 1..L
    BY <1>1
  <2> QED BY <1>1, <2>1, ElementOfSeq
<1>3. n \in Nat /\ n > f[L] /\ n > 0
  BY <1>1, <1>2 DEF NextFib
<1> HIDE DEF n
<1>4. /\ g \in Seq(Nat) /\ Len(g) = L + 1 /\ g[L + 1] = n
      /\ \A k \in 1..L : g[k] = f[k]
  BY <1>1, <1>3, AppendProperties
<1>5. L \in 1..L /\ (L + 1) - 1 = L
  BY <1>1
<1>6. g[Len(g)] > 0 /\ g[Len(g) - 1] > 0 /\ Len(g) >= 2
  BY <1>1, <1>3, <1>4, <1>5
<1> QED BY <1>1, <1>2, <1>3, <1>4, <1>6 DEF Number!Tables, n

\* What fib's loop does in one round.
LEMMA GrowLoops ==
  \E grow :
     /\ \A f \in Number!Tables :
           grow[f] = IF NextFib(f) >= Number!Modulus THEN f ELSE grow[Append(f, NextFib(f))]
     /\ Number!fib = grow[<<0, 1, 1>>]
<1> DEFINE S == Number!Tables
           M == Number!Modulus
           m == [f \in S |-> IF f[Len(f)] < M THEN M - f[Len(f)] ELSE 0]
           rule == [p \in S \X [S -> S] |->
                      IF NextFib(p[1]) >= M THEN p[1] ELSE p[2][Append(p[1], NextFib(p[1]))]]
<1>0. M \in Nat
  BY ModulusIs
<1> HIDE DEF M
<1>1. m \in [S -> Nat]
  <2>1. \A f \in S : (IF f[Len(f)] < M THEN M - f[Len(f)] ELSE 0) \in Nat
    <3> TAKE f \in S
    <3>1. f[Len(f)] \in Nat
      BY TableGrows
    <3> QED BY <1>0, <3>1
  <2> QED BY <2>1
<1>2. \A x \in S, h \in [S -> S] :
         rule[<<x, h>>] = IF NextFib(x) >= M THEN x ELSE h[Append(x, NextFib(x))]
  OBVIOUS
<1>3. ASSUME NEW x \in S, ~(NextFib(x) >= M)
      PROVE  Append(x, NextFib(x)) \in S /\ m[Append(x, NextFib(x))] < m[x]
  <2> DEFINE y == Append(x, NextFib(x))
  <2>1. /\ y \in S /\ y[Len(y)] = NextFib(x) /\ NextFib(x) > x[Len(x)]
        /\ NextFib(x) \in Nat /\ x[Len(x)] \in Nat
    BY TableGrows
  <2>2. m[y] = (IF y[Len(y)] < M THEN M - y[Len(y)] ELSE 0)
        /\ m[x] = (IF x[Len(x)] < M THEN M - x[Len(x)] ELSE 0)
    <3> HIDE DEF y, S
    <3> QED BY <2>1
  <2> HIDE DEF y, m
  <2> QED BY <1>0, <1>3, <2>1, <2>2 DEF y
<1>4. rule \in [S \X [S -> S] -> S]
  <2>1. ASSUME NEW x \in S, NEW h \in [S -> S] PROVE rule[<<x, h>>] \in S
    <3> HIDE DEF m, S
    <3> QED BY <1>2, <1>3
  <2> HIDE DEF S
  <2> QED BY <2>1
<1>5. Local(S, S, m, rule)
  <2> SUFFICES ASSUME NEW x \in S, NEW f \in [S -> S], NEW g \in [S -> S],
                      \A y \in S : m[y] < m[x] => f[y] = g[y]
               PROVE  rule[<<x, f>>] = rule[<<x, g>>]
    BY DEF Local
  <2>1. ~(NextFib(x) >= M) => f[Append(x, NextFib(x))] = g[Append(x, NextFib(x))]
    <3> HIDE DEF m, S
    <3> QED BY <1>3
  <2> HIDE DEF S
  <2> QED BY <1>2, <2>1
<1>6. S # {}
  <2> DEFINE t == <<1, 1>>
  <2>1. t \in Seq(Nat) /\ Len(t) = 2 /\ t[2] > 0 /\ t[1] > 0
    OBVIOUS
  <2>2. t \in Number!Tables
    BY <2>1 DEF Number!Tables
  <2> QED BY <2>2
<1>7. PICK h \in [S -> S] : \A x \in S : h[x] = rule[<<x, h>>]
  <2>1. Solvable(S, S, rule)
    <3> HIDE DEF m, rule, S
    <3> QED BY <1>1, <1>4, <1>5, <1>6, Recursion
  <2> QED BY <2>1 DEF Solvable
<1> DEFINE body(grow, f) == IF NextFib(f) >= Number!Modulus THEN f ELSE grow[Append(f, NextFib(f))]
           Is(grow) == grow = [f \in Number!Tables |-> body(grow, f)]
           chosen == CHOOSE grow : Is(grow)
<1>8. Is(h)
  <2>1. \A f \in S : h[f] = body(h, f)
    BY <1>2, <1>7 DEF M
  <2> HIDE DEF body
  <2> QED BY <1>7, <2>1
<1>9. Is(chosen)
  <2> HIDE DEF Is
  <2> QED BY <1>8
<1>10. Number!fib = chosen[<<0, 1, 1>>]
  BY DEF Number!fib, NextFib
<1>11. \A f \in S : chosen[f] = body(chosen, f)
  <2> HIDE DEF chosen, body
  <2> QED BY <1>9
<1> HIDE DEF chosen
<1> QED BY <1>10, <1>11

\* The table holds the Fibonacci numbers in order, and the next does not fit.
LEMMA TableIs ==
  /\ Number!fib \in Seq(Nat) /\ Len(Number!fib) \in Nat /\ Len(Number!fib) >= 2
  /\ \A k \in 1..Len(Number!fib) : Number!fib[k] = Number!Fibonacci[k - 1]
  /\ Number!Fibonacci[Len(Number!fib)] >= Number!Modulus
<1>1. PICK grow :
        /\ \A f \in Number!Tables :
              grow[f] = IF NextFib(f) >= Number!Modulus THEN f ELSE grow[Append(f, NextFib(f))]
        /\ Number!fib = grow[<<0, 1, 1>>]
  BY GrowLoops
<1> DEFINE M == Number!Modulus
           F == Number!Fibonacci
           S == {f \in Number!Tables : \A k \in 1..Len(f) : f[k] = F[k - 1]}
           m == [f \in S |-> IF f[Len(f)] < M THEN M - f[Len(f)] ELSE 0]
           P == {f \in S : grow[f] \in S /\ F[Len(grow[f])] >= M}
<1>2. M \in Nat
  BY ModulusIs
<1> HIDE DEF M, F
<1>3. ASSUME NEW f \in S PROVE NextFib(f) = F[Len(f)]
  <2> DEFINE L == Len(f)
  <2>1. L \in Nat /\ L >= 2 /\ L \in 1..L /\ L - 1 \in 1..L
    BY TableGrows
  <2>2. f[L] = F[L - 1] /\ f[L - 1] = F[(L - 1) - 1]
    BY <2>1
  <2>3. (L - 1) - 1 = L - 2 /\ ~(L < 2)
    BY <2>1
  <2>4. F[L] = F[L - 1] + F[L - 2]
    BY <2>1, <2>3, FibonacciIs DEF F
  <2> QED BY <2>2, <2>3, <2>4 DEF NextFib
<1>4. ASSUME NEW f \in S, \A y \in S : m[y] < m[f] => y \in P
      PROVE  f \in P
  <2>1. f \in Number!Tables
    OBVIOUS
  <2>2. CASE NextFib(f) >= M
    <3>1. grow[f] = f
      BY <1>1, <2>1, <2>2 DEF M
    <3> QED BY <1>3, <2>2, <3>1
  <2>3. CASE ~(NextFib(f) >= M)
    <3> DEFINE y == Append(f, NextFib(f))
    <3>1. grow[f] = grow[y]
      BY <1>1, <2>1, <2>3 DEF M
    <3>2. /\ y \in Number!Tables /\ Len(y) = Len(f) + 1 /\ Len(f) \in Nat /\ Len(f) >= 2
          /\ \A k \in 1..Len(f) : y[k] = f[k]
          /\ y[Len(f) + 1] = NextFib(f) /\ NextFib(f) > f[Len(f)]
          /\ NextFib(f) \in Nat /\ f[Len(f)] \in Nat
      BY TableGrows
    <3> HIDE DEF y
    <3>3. ASSUME NEW k \in 1..Len(y) PROVE y[k] = F[k - 1]
      <4>1. CASE k \in 1..Len(f)
        BY <3>2, <4>1
      <4>2. CASE k \notin 1..Len(f)
        <5>1. k = Len(f) + 1 /\ k - 1 = Len(f)
          BY <3>2, <3>3, <4>2
        <5> QED BY <1>3, <3>2, <5>1
      <4> QED BY <4>1, <4>2
    <3>4. y \in S
      BY <3>2, <3>3
    <3>5. m[y] < m[f]
      <4>1. m[y] = (IF y[Len(y)] < M THEN M - y[Len(y)] ELSE 0)
            /\ m[f] = (IF f[Len(f)] < M THEN M - f[Len(f)] ELSE 0)
        <5> HIDE DEF S
        <5> QED BY <3>4
      <4> HIDE DEF m, S
      <4> QED BY <1>2, <2>3, <3>2, <4>1
    <3>6. y \in P
      <4> HIDE DEF m, S, P
      <4> QED BY <1>4, <3>4, <3>5
    <3> QED BY <3>1, <3>6
  <2> QED BY <2>2, <2>3
<1>5. S \subseteq P
  <2>1. m \in [S -> Nat]
    <3>1. \A f \in S : (IF f[Len(f)] < M THEN M - f[Len(f)] ELSE 0) \in Nat
      <4> TAKE f \in S
      <4>1. f[Len(f)] \in Nat
        BY TableGrows
      <4> QED BY <1>2, <4>1
    <3> HIDE DEF S
    <3> QED BY <3>1
  <2> HIDE DEF P, m, S
  <2> QED BY <1>4, <2>1, MeasureInduction
<1> DEFINE first == <<0, 1, 1>>
<1>6. first \in S
  <2>1. first \in Seq(Nat) /\ Len(first) = 3 /\ first[1] = 0 /\ first[2] = 1 /\ first[3] = 1
    OBVIOUS
  <2>2. F[0] = 0 /\ F[1] = 1 /\ F[2] = F[2 - 1] + F[2 - 2]
    BY FibonacciIs DEF F
  <2>3. F[2] = 1
    BY <2>2
  <2> HIDE DEF first
  <2>4. \A k \in 1..3 : k = 1 \/ k = 2 \/ k = 3
    OBVIOUS
  <2>5. \A k \in 1..3 : first[k] = F[k - 1]
    BY <2>1, <2>2, <2>3, <2>4
  <2>6. first[Len(first)] > 0 /\ first[Len(first) - 1] > 0 /\ Len(first) >= 2
    <3>1. 3 - 1 = 2
      OBVIOUS
    <3> QED BY <2>1, <3>1
  <2>7. first \in Number!Tables
    BY <2>1, <2>6 DEF Number!Tables
  <2>8. 1..Len(first) = 1..3
    BY <2>1
  <2> QED BY <2>5, <2>7, <2>8
<1>7. Number!fib \in S /\ F[Len(Number!fib)] >= M
  BY <1>1, <1>5, <1>6
<1>8. Number!fib \in Number!Tables
  BY <1>7
<1> QED BY <1>7, <1>8, TableGrows DEF M, F

Ranges == [left : Nat, right : Int, ans : Nat]
MidOf(s) == s.left + (s.right - s.left) \div 2
Narrowed(x, s) ==
    IF Number!fib[MidOf(s) + 1] <= x THEN [s EXCEPT !.left = MidOf(s) + 1, !.ans = MidOf(s)]
    ELSE [s EXCEPT !.right = MidOf(s) - 1]

\* A round of the search, in a range that is not empty, leaves a smaller range.
LEMMA NarrowedSmaller ==
  ASSUME NEW x, NEW s \in Ranges, ~(s.left > s.right)
  PROVE  /\ MidOf(s) \in Nat /\ s.left <= MidOf(s) /\ MidOf(s) <= s.right
         /\ Narrowed(x, s) \in Ranges
         /\ IF Number!fib[MidOf(s) + 1] <= x
            THEN /\ Narrowed(x, s).left = MidOf(s) + 1 /\ Narrowed(x, s).right = s.right
                 /\ Narrowed(x, s).ans = MidOf(s)
            ELSE /\ Narrowed(x, s).left = s.left /\ Narrowed(x, s).right = MidOf(s) - 1
                 /\ Narrowed(x, s).ans = s.ans
<1>1. s.left \in Nat /\ s.right \in Int /\ s.ans \in Nat /\ s.left <= s.right
  BY DEF Ranges
<1>2. MidOf(s) \in Nat /\ s.left <= MidOf(s) /\ MidOf(s) <= s.right
  BY <1>1 DEF MidOf
<1> DEFINE up == [s EXCEPT !.left = MidOf(s) + 1, !.ans = MidOf(s)]
           down == [s EXCEPT !.right = MidOf(s) - 1]
<1>3. /\ up \in Ranges /\ up.left = MidOf(s) + 1 /\ up.right = s.right /\ up.ans = MidOf(s)
      /\ down \in Ranges /\ down.left = s.left /\ down.right = MidOf(s) - 1 /\ down.ans = s.ans
  <2> DEFINE mid == MidOf(s)
  <2>1. mid \in Nat /\ mid + 1 \in Nat /\ mid - 1 \in Int
    BY <1>2
  <2> HIDE DEF mid
  <2>2. [s EXCEPT !.left = mid + 1, !.ans = mid] \in Ranges
    BY <2>1 DEF Ranges
  <2>3. [s EXCEPT !.right = mid - 1] \in Ranges
    BY <2>1 DEF Ranges
  <2>4. /\ [s EXCEPT !.left = mid + 1, !.ans = mid].left = mid + 1
        /\ [s EXCEPT !.left = mid + 1, !.ans = mid].right = s.right
        /\ [s EXCEPT !.left = mid + 1, !.ans = mid].ans = mid
    BY DEF Ranges
  <2>5. /\ [s EXCEPT !.right = mid - 1].left = s.left
        /\ [s EXCEPT !.right = mid - 1].right = mid - 1
        /\ [s EXCEPT !.right = mid - 1].ans = s.ans
    BY DEF Ranges
  <2> QED BY <2>2, <2>3, <2>4, <2>5 DEF mid
<1>4. Narrowed(x, s) = IF Number!fib[MidOf(s) + 1] <= x THEN up ELSE down
  BY DEF Narrowed
<1> HIDE DEF up, down
<1> QED BY <1>2, <1>3, <1>4

\* The loop of fib_root, and that fib_root is this loop from its first state.
LEMMA SearchLoops ==
  ASSUME NEW x
  PROVE  \E search :
           /\ \A s \in Ranges :
                 search[s] = IF s.left > s.right THEN s.ans ELSE search[Narrowed(x, s)]
           /\ Number!fib_root(x) =
                search[[left |-> 0, right |-> Len(Number!fib) - 1, ans |-> 0]] - 1
<1> DEFINE m == [s \in Ranges |-> IF s.left > s.right THEN 0 ELSE s.right - s.left + 1]
           rule == [p \in Ranges \X [Ranges -> Nat] |->
                      IF p[1].left > p[1].right THEN p[1].ans ELSE p[2][Narrowed(x, p[1])]]
<1>1. m \in [Ranges -> Nat] /\ Nat # {}
  BY DEF Ranges
<1>2. \A s \in Ranges, f \in [Ranges -> Nat] :
         rule[<<s, f>>] = IF s.left > s.right THEN s.ans ELSE f[Narrowed(x, s)]
  OBVIOUS
<1>3. ASSUME NEW s \in Ranges, ~(s.left > s.right)
      PROVE  Narrowed(x, s) \in Ranges /\ m[Narrowed(x, s)] < m[s]
  <2> DEFINE y == Narrowed(x, s)
  <2>1. /\ MidOf(s) \in Nat /\ s.left <= MidOf(s) /\ MidOf(s) <= s.right /\ y \in Ranges
        /\ \/ y.left = MidOf(s) + 1 /\ y.right = s.right
           \/ y.left = s.left /\ y.right = MidOf(s) - 1
    BY <1>3, NarrowedSmaller
  <2> HIDE DEF y
  <2>2. /\ m[y] = IF y.left > y.right THEN 0 ELSE y.right - y.left + 1
        /\ m[s] = IF s.left > s.right THEN 0 ELSE s.right - s.left + 1
    BY <2>1
  <2>3. s.left \in Nat /\ s.right \in Int
    BY DEF Ranges
  <2> HIDE DEF m
  <2> QED BY <1>3, <2>1, <2>2, <2>3 DEF y
<1>4. rule \in [Ranges \X [Ranges -> Nat] -> Nat]
  <2>1. ASSUME NEW s \in Ranges, NEW f \in [Ranges -> Nat] PROVE rule[<<s, f>>] \in Nat
    <3>1. s.ans \in Nat
      BY DEF Ranges
    <3> HIDE DEF m
    <3> QED BY <1>2, <1>3, <3>1
  <2> QED BY <2>1
<1>5. Local(Ranges, Nat, m, rule)
  <2> SUFFICES ASSUME NEW s \in Ranges, NEW f \in [Ranges -> Nat], NEW g \in [Ranges -> Nat],
                      \A y \in Ranges : m[y] < m[s] => f[y] = g[y]
               PROVE  rule[<<s, f>>] = rule[<<s, g>>]
    BY DEF Local
  <2>1. ~(s.left > s.right) => f[Narrowed(x, s)] = g[Narrowed(x, s)]
    <3> HIDE DEF m
    <3> QED BY <1>3
  <2> QED BY <1>2, <2>1
<1>6. PICK f \in [Ranges -> Nat] : \A s \in Ranges : f[s] = rule[<<s, f>>]
  <2>1. Solvable(Ranges, Nat, rule)
    <3> HIDE DEF m, rule
    <3> QED BY <1>1, <1>4, <1>5, Recursion
  <2> QED BY <2>1 DEF Solvable
<1> DEFINE body(search, s) ==
             LET mid == s.left + (s.right - s.left) \div 2
             IN  IF s.left > s.right THEN s.ans
                 ELSE IF Number!fib[mid + 1] <= x
                      THEN search[[s EXCEPT !.left = mid + 1, !.ans = mid]]
                      ELSE search[[s EXCEPT !.right = mid - 1]]
           Is(search) == search = [s \in Ranges |-> body(search, s)]
           chosen == CHOOSE search : Is(search)
<1>7. \A search : \A s \in Ranges :
         body(search, s) = IF s.left > s.right THEN s.ans ELSE search[Narrowed(x, s)]
  BY DEF Narrowed, MidOf
<1>8. Is(f)
  <2>1. \A s \in Ranges : f[s] = body(f, s)
    <3> TAKE s \in Ranges
    <3>1. body(f, s) = IF s.left > s.right THEN s.ans ELSE f[Narrowed(x, s)]
      BY <1>7
    <3>2. f[s] = IF s.left > s.right THEN s.ans ELSE f[Narrowed(x, s)]
      BY <1>2, <1>6
    <3> HIDE DEF body
    <3> QED BY <3>1, <3>2
  <2> HIDE DEF body
  <2> QED BY <1>6, <2>1
<1>9. Is(chosen)
  <2> HIDE DEF Is
  <2> QED BY <1>8
<1>10. Number!fib_root(x) = chosen[[left |-> 0, right |-> Len(Number!fib) - 1, ans |-> 0]] - 1
  BY DEF Number!fib_root, Ranges
<1>11. \A s \in Ranges : chosen[s] = body(chosen, s)
  <2> HIDE DEF chosen, body
  <2> QED BY <1>9
<1> HIDE DEF chosen, body
<1>12. \A s \in Ranges : chosen[s] = IF s.left > s.right THEN s.ans ELSE chosen[Narrowed(x, s)]
  BY <1>7, <1>11
<1> QED BY <1>10, <1>12

\* fib_root is right.
LEMMA FibRootRight ==
  ASSUME NEW x \in Number!Unsigneds
  PROVE  /\ Number!Fibonacci[Number!fib_root(x) + 1] <= x
         /\ Number!Fibonacci[Number!fib_root(x) + 2] > x
<1> DEFINE table == Number!fib
           F == Number!Fibonacci
           n == Len(Number!fib)
<1>1. PICK search :
        /\ \A s \in Ranges :
              search[s] = IF s.left > s.right THEN s.ans ELSE search[Narrowed(x, s)]
        /\ Number!fib_root(x) = search[[left |-> 0, right |-> n - 1, ans |-> 0]] - 1
  BY SearchLoops
<1>2. /\ n \in Nat /\ n >= 2 /\ x \in Nat /\ F[n] > x
      /\ \A k \in 0..n-1 : F[k] = table[k + 1]
      /\ \A k \in Nat : F[k] \in Nat
      /\ F[0] = 0
  <2>1. n \in Nat /\ n >= 2 /\ F[n] >= Number!Modulus /\ \A k \in 1..n : table[k] = F[k - 1]
    BY TableIs
  <2>2. x \in Nat /\ x < Number!Modulus /\ Number!Modulus \in Nat
    BY ModulusIs DEF Number!Unsigneds
  <2>3. F[0] = 0 /\ \A k \in Nat : F[k] \in Nat
    BY FibonacciIs
  <2> HIDE DEF n, F, table
  <2>4. ASSUME NEW k \in 0..n-1 PROVE F[k] = table[k + 1]
    <3>1. k + 1 \in 1..n /\ (k + 1) - 1 = k
      BY <2>1
    <3> QED BY <2>1, <3>1
  <2>5. F[n] > x
    <3>1. F[n] \in Nat
      BY <2>1, <2>3
    <3> QED BY <2>1, <2>2, <3>1
  <2> QED BY <2>1, <2>2, <2>3, <2>4, <2>5
<1> DEFINE Held(s) == /\ s.left \in 0..n /\ s.right \in -1..n-1 /\ s.left <= s.right + 1
                      /\ s.left > 0 => F[s.left - 1] <= x /\ s.ans = s.left - 1
                      /\ F[s.right + 1] > x
           S == {s \in Ranges : Held(s)}
           m == [s \in S |-> s.right - s.left + 1]
           P == {s \in S : /\ search[s] \in Nat /\ F[search[s]] <= x
                           /\ F[search[s] + 1] > x}
<1>3. ASSUME NEW s \in S, \A y \in S : m[y] < m[s] => y \in P
      PROVE  s \in P
  <2>1. s \in Ranges /\ Held(s) /\ s.left \in Nat /\ s.right \in Int /\ s.ans \in Nat
    BY DEF Ranges
  <2>2. CASE s.left > s.right
    <3>1. search[s] = s.ans
      BY <1>1, <2>1, <2>2
    <3> HIDE DEF F, n
    <3>2. s.left = s.right + 1
      BY <1>2, <2>1, <2>2
    <3>3. s.left > 0
      <4> SUFFICES ASSUME s.left = 0 PROVE FALSE
        BY <2>1
      <4>1. F[0] > x
        BY <2>1, <3>2
      <4> QED BY <1>2, <4>1
    <3>4. s.ans = s.left - 1 /\ F[s.left - 1] <= x /\ F[s.left] > x
      BY <2>1, <3>2, <3>3
    <3>5. (s.left - 1) + 1 = s.left
      BY <2>1
    <3> QED BY <2>1, <3>1, <3>4, <3>5
  <2>3. CASE ~(s.left > s.right)
    <3> DEFINE y == Narrowed(x, s)
               mid == MidOf(s)
    <3>1. search[s] = search[y]
      BY <1>1, <2>1, <2>3
    <3>2. /\ mid \in Nat /\ s.left <= mid /\ mid <= s.right /\ y \in Ranges
          /\ IF table[mid + 1] <= x
             THEN y.left = mid + 1 /\ y.right = s.right /\ y.ans = mid
             ELSE y.left = s.left /\ y.right = mid - 1 /\ y.ans = s.ans
      BY <2>1, <2>3, NarrowedSmaller
    <3> HIDE DEF y, mid, F, n, table
    <3>3. mid \in 0..n-1 /\ F[mid] = table[mid + 1] /\ F[mid] \in Nat
      <4>1. mid \in 0..n-1
        BY <1>2, <2>1, <3>2
      <4> QED BY <1>2, <3>2, <4>1
    <3>4. Held(y)
      <4>1. CASE table[mid + 1] <= x
        <5>1. y.left = mid + 1 /\ y.right = s.right /\ y.ans = mid /\ (mid + 1) - 1 = mid
          BY <3>2, <4>1
        <5>2. y.left \in 0..n /\ y.right \in -1..n-1 /\ y.left <= y.right + 1
          BY <1>2, <2>1, <3>2, <3>3, <5>1
        <5>3. F[y.left - 1] <= x /\ y.ans = y.left - 1
          BY <3>3, <4>1, <5>1
        <5>4. F[y.right + 1] > x
          BY <2>1, <5>1
        <5> QED BY <5>2, <5>3, <5>4
      <4>2. CASE ~(table[mid + 1] <= x)
        <5>1. y.left = s.left /\ y.right = mid - 1 /\ y.ans = s.ans /\ (mid - 1) + 1 = mid
          BY <3>2, <4>2
        <5>2. y.left \in 0..n /\ y.right \in -1..n-1 /\ y.left <= y.right + 1
          BY <1>2, <2>1, <3>2, <3>3, <5>1
        <5>3. y.left > 0 => F[y.left - 1] <= x /\ y.ans = y.left - 1
          BY <2>1, <5>1
        <5>4. F[y.right + 1] > x
          BY <1>2, <3>3, <4>2, <5>1
        <5> QED BY <5>2, <5>3, <5>4
      <4> QED BY <4>1, <4>2
    <3>5. y \in S
      BY <3>2, <3>4
    <3>6. m[y] < m[s]
      <4>1. m[y] = y.right - y.left + 1 /\ m[s] = s.right - s.left + 1
        <5> HIDE DEF S
        <5> QED BY <3>5
      <4>2. y.right - y.left + 1 < s.right - s.left + 1
        BY <2>1, <3>2
      <4> HIDE DEF m
      <4> QED BY <4>1, <4>2
    <3>7. y \in P
      <4> HIDE DEF m, S, P
      <4> QED BY <1>3, <3>5, <3>6
    <3> QED BY <3>1, <3>7
  <2> QED BY <2>2, <2>3
<1>4. S \subseteq P
  <2>1. m \in [S -> Nat]
    <3>1. \A s \in S : s.right - s.left + 1 \in Nat
      <4> HIDE DEF n, F
      <4> QED BY <1>2
    <3> HIDE DEF S
    <3> QED BY <3>1
  <2> HIDE DEF P, m, S
  <2> QED BY <1>3, <2>1, MeasureInduction
<1> DEFINE first == [left |-> 0, right |-> n - 1, ans |-> 0]
<1>5. first \in S
  <2>1. first \in Ranges /\ first.left = 0 /\ first.right = n - 1
    BY <1>2 DEF Ranges
  <2> HIDE DEF first, n, F
  <2>2. (n - 1) + 1 = n
    BY <1>2
  <2>3. F[first.right + 1] > x
    BY <1>2, <2>1, <2>2
  <2>4. first.left \in 0..n /\ first.right \in -1..n-1 /\ first.left <= first.right + 1
    BY <1>2, <2>1
  <2> QED BY <2>1, <2>3, <2>4
<1> DEFINE r == search[first]
<1>6. r \in Nat /\ F[r] <= x /\ F[r + 1] > x
  <2>1. first \in P
    <3> HIDE DEF P, S, first
    <3> QED BY <1>4, <1>5
  <2> HIDE DEF first, F
  <2> QED BY <2>1
<1>7. Number!fib_root(x) = r - 1
  BY <1>1
<1> HIDE DEF r
<1>8. (r - 1) + 1 = r /\ (r - 1) + 2 = r + 1
  BY <1>6
<1> QED BY <1>6, <1>7, <1>8 DEF F

-----------------------------------------------------------------------------
(* double-loop: what its two loops do, where the rows of its input lie, and   *)
(* that each round of the outer loop prints the maximum of the next one.      *)

\* Cardinality means the same in Numbers as here.
LEMMA NumberCardinality == ASSUME NEW T PROVE Number!Cardinality(T) = Cardinality(T)
  BY DEF Number!Cardinality, Cardinality

InRow == [next : Nat, r13 : Int]
Maximised(s, r) ==
    [next |-> r.next + 1,
     r13 |-> IF r.r13 >= Number!Read(s, r.next) THEN r.r13 ELSE Number!Read(s, r.next)]
RowEnd(r) == [r EXCEPT !.next = @ + 1]
RowLoop(s, row) ==
    \A r \in InRow : /\ row[r] \in InRow
                     /\ row[r] = IF Number!Read(s, r.next) = -1 THEN RowEnd(r)
                                 ELSE row[Maximised(s, r)]
FirstOf(s, r) == [next |-> r.next + 1, r13 |-> Number!Read(s, r.next)]
BetweenRows == [next : Nat, r12 : Nat \ {0}]
RowsLoop(s, row, rows) ==
    \A r \in BetweenRows :
       rows[r] = <<row[FirstOf(s, r)].r13>>
                 \o IF r.r12 = 1 THEN <<>>
                    ELSE rows[[next |-> row[FirstOf(s, r)].next, r12 |-> r.r12 - 1]]

\* The inner loop of double-loop.
LEMMA RowLoops ==
  ASSUME NEW s \in Seq(Int), NEW chosen,
         chosen = CHOOSE row : row = [r \in InRow |->
            LET r14 == Number!Read(s, r.next)
            IN  IF r14 = -1 THEN [r EXCEPT !.next = @ + 1]
                ELSE row[[next |-> r.next + 1, r13 |-> IF r.r13 >= r14 THEN r.r13 ELSE r14]]]
  PROVE  RowLoop(s, chosen)
<1> DEFINE L == Len(s)
           m == [r \in InRow |-> IF r.next <= L THEN L + 1 - r.next ELSE 0]
           rule == [p \in InRow \X [InRow -> InRow] |->
                      IF Number!Read(s, p[1].next) = -1 THEN RowEnd(p[1])
                      ELSE p[2][Maximised(s, p[1])]]
<1>0. L \in Nat
  BY LenProperties
<1>1. m \in [InRow -> Nat]
  BY <1>0 DEF InRow
<1>2. \A x \in InRow, f \in [InRow -> InRow] :
         rule[<<x, f>>] = IF Number!Read(s, x.next) = -1 THEN RowEnd(x) ELSE f[Maximised(s, x)]
  OBVIOUS
<1>3. ASSUME NEW x \in InRow, Number!Read(s, x.next) # -1
      PROVE  Maximised(s, x) \in InRow /\ m[Maximised(s, x)] < m[x]
  <2>1. x.next \in Nat /\ x.r13 \in Int /\ x.next \in 1..L /\ Number!Read(s, x.next) \in Int
    BY <1>3, ReadIs DEF InRow
  <2>2. Maximised(s, x) \in InRow /\ Maximised(s, x).next = x.next + 1
    BY <2>1 DEF Maximised, InRow
  <2> HIDE DEF L
  <2> QED BY <1>0, <2>1, <2>2
<1>4. \A x \in InRow : RowEnd(x) \in InRow
  BY DEF RowEnd, InRow
<1>5. rule \in [InRow \X [InRow -> InRow] -> InRow]
  <2>1. ASSUME NEW x \in InRow, NEW f \in [InRow -> InRow] PROVE rule[<<x, f>>] \in InRow
    <3> HIDE DEF m
    <3> QED BY <1>2, <1>3, <1>4
  <2> QED BY <2>1
<1>6. Local(InRow, InRow, m, rule)
  <2> SUFFICES ASSUME NEW x \in InRow, NEW f \in [InRow -> InRow], NEW g \in [InRow -> InRow],
                      \A y \in InRow : m[y] < m[x] => f[y] = g[y]
               PROVE  rule[<<x, f>>] = rule[<<x, g>>]
    BY DEF Local
  <2>1. Number!Read(s, x.next) # -1 => f[Maximised(s, x)] = g[Maximised(s, x)]
    <3> HIDE DEF m
    <3> QED BY <1>3
  <2> QED BY <1>2, <2>1
<1>7. InRow # {}
  <2>1. [next |-> 0, r13 |-> 0] \in InRow
    BY DEF InRow
  <2> QED BY <2>1
<1>8. PICK f \in [InRow -> InRow] : \A x \in InRow : f[x] = rule[<<x, f>>]
  <2>1. Solvable(InRow, InRow, rule)
    <3> HIDE DEF m, rule
    <3> QED BY <1>1, <1>5, <1>6, <1>7, Recursion
  <2> QED BY <2>1 DEF Solvable
<1> DEFINE body(row, r) ==
             LET r14 == Number!Read(s, r.next)
             IN  IF r14 = -1 THEN [r EXCEPT !.next = @ + 1]
                 ELSE row[[next |-> r.next + 1, r13 |-> IF r.r13 >= r14 THEN r.r13 ELSE r14]]
           Is(row) == row = [r \in InRow |-> body(row, r)]
<1>9. \A row : \A r \in InRow :
         body(row, r) = IF Number!Read(s, r.next) = -1 THEN RowEnd(r) ELSE row[Maximised(s, r)]
  BY DEF RowEnd, Maximised
<1>10. Is(f)
  <2>1. \A r \in InRow : f[r] = body(f, r)
    <3> TAKE r \in InRow
    <3>1. body(f, r) = IF Number!Read(s, r.next) = -1 THEN RowEnd(r) ELSE f[Maximised(s, r)]
      BY <1>9
    <3>2. f[r] = IF Number!Read(s, r.next) = -1 THEN RowEnd(r) ELSE f[Maximised(s, r)]
      BY <1>2, <1>8
    <3> HIDE DEF body
    <3> QED BY <3>1, <3>2
  <2> HIDE DEF body
  <2> QED BY <1>8, <2>1
<1>11. chosen = CHOOSE row : Is(row)
  OBVIOUS
<1>12. Is(chosen)
  <2> HIDE DEF Is
  <2> QED BY <1>10, <1>11
<1>13. \A r \in InRow : chosen[r] = body(chosen, r)
  <2> HIDE DEF body
  <2> QED BY <1>12
<1> HIDE DEF body
<1>14. \A r \in InRow :
          chosen[r] = IF Number!Read(s, r.next) = -1 THEN RowEnd(r) ELSE chosen[Maximised(s, r)]
  BY <1>9, <1>13
<1> DEFINE P == {r \in InRow : chosen[r] \in InRow}
<1>15. InRow \subseteq P
  <2>1. ASSUME NEW x \in InRow, \A y \in InRow : m[y] < m[x] => y \in P PROVE x \in P
    <3> HIDE DEF m
    <3>1. CASE Number!Read(s, x.next) = -1
      <4>1. chosen[x] = RowEnd(x)
        BY <1>14, <3>1
      <4> QED BY <1>4, <4>1
    <3>2. CASE Number!Read(s, x.next) # -1
      <4>1. chosen[x] = chosen[Maximised(s, x)]
        BY <1>14, <3>2
      <4>2. Maximised(s, x) \in P
        BY <1>3, <2>1, <3>2
      <4> QED BY <4>1, <4>2
    <3> QED BY <3>1, <3>2
  <2> HIDE DEF P, m
  <2> QED BY <1>1, <2>1, MeasureInduction
<1>16. \A r \in InRow : chosen[r] \in InRow
  BY <1>15
<1> QED BY <1>14, <1>16 DEF RowLoop

\* double_loop is these two loops from their first state.
LEMMA DoubleLoops ==
  ASSUME NEW s \in Seq(Int)
  PROVE  \E row, rows : /\ RowLoop(s, row) /\ RowsLoop(s, row, rows)
                        /\ Number!double_loop(s) = rows[[next |-> 2, r12 |-> s[1]]]
<1> DEFINE row == CHOOSE loop : loop = [r \in InRow |->
            LET r14 == Number!Read(s, r.next)
            IN  IF r14 = -1 THEN [r EXCEPT !.next = @ + 1]
                ELSE loop[[next |-> r.next + 1, r13 |-> IF r.r13 >= r14 THEN r.r13 ELSE r14]]]
           body(rows, r) == <<row[FirstOf(s, r)].r13>>
                            \o IF r.r12 = 1 THEN <<>>
                               ELSE rows[[next |-> row[FirstOf(s, r)].next, r12 |-> r.r12 - 1]]
           Is(rows) == rows = [r \in BetweenRows |-> body(rows, r)]
           chosen == CHOOSE rows : Is(rows)
<1>1. RowLoop(s, row)
  BY RowLoops
<1>2. Number!double_loop(s) = chosen[[next |-> 2, r12 |-> s[1]]]
  BY DEF Number!double_loop, FirstOf, InRow, BetweenRows
<1> HIDE DEF row
<1> DEFINE after(r) == [next |-> row[FirstOf(s, r)].next, r12 |-> r.r12 - 1]
           V == Seq(Int)
           m == [r \in BetweenRows |-> r.r12]
           rule == [p \in BetweenRows \X [BetweenRows -> V] |->
                      <<row[FirstOf(s, p[1])].r13>>
                      \o IF p[1].r12 = 1 THEN <<>> ELSE p[2][after(p[1])]]
<1>3. m \in [BetweenRows -> Nat] /\ <<>> \in V
  BY DEF BetweenRows
<1>4. ASSUME NEW r \in BetweenRows
      PROVE  /\ row[FirstOf(s, r)].r13 \in Int
             /\ r.r12 # 1 => after(r) \in BetweenRows /\ m[after(r)] < m[r]
  <2>1. r.next \in Nat /\ r.r12 \in Nat /\ r.r12 # 0
    BY DEF BetweenRows
  <2>2. FirstOf(s, r) \in InRow
    BY <2>1, ReadIs DEF FirstOf, InRow
  <2>3. row[FirstOf(s, r)] \in InRow
    BY <1>1, <2>2 DEF RowLoop
  <2>4. row[FirstOf(s, r)].r13 \in Int /\ row[FirstOf(s, r)].next \in Nat
    BY <2>3 DEF InRow
  <2>5. r.r12 # 1 => after(r) \in BetweenRows /\ after(r).r12 = r.r12 - 1
    BY <2>1, <2>4 DEF BetweenRows
  <2> HIDE DEF after
  <2> QED BY <2>1, <2>4, <2>5
<1>5. \A x \in BetweenRows, f \in [BetweenRows -> V] :
         rule[<<x, f>>] = <<row[FirstOf(s, x)].r13>>
                          \o IF x.r12 = 1 THEN <<>> ELSE f[after(x)]
  OBVIOUS
<1>6. rule \in [BetweenRows \X [BetweenRows -> V] -> V]
  <2>1. ASSUME NEW x \in BetweenRows, NEW f \in [BetweenRows -> V] PROVE rule[<<x, f>>] \in V
    <3> DEFINE a == row[FirstOf(s, x)].r13
               t == IF x.r12 = 1 THEN <<>> ELSE f[after(x)]
    <3>1. a \in Int
      BY <1>4
    <3>2. t \in Seq(Int)
      <4>1. CASE x.r12 = 1
        BY <4>1
      <4>2. CASE x.r12 # 1
        <5>1. after(x) \in BetweenRows
          BY <1>4, <4>2
        <5> HIDE DEF after
        <5>2. f[after(x)] \in V
          BY <5>1
        <5> QED BY <4>2, <5>2
      <4> QED BY <4>1, <4>2
    <3>3. rule[<<x, f>>] = <<a>> \o t
      BY <1>5
    <3> HIDE DEF a, t, rule
    <3>4. <<a>> \in Seq(Int)
      BY <3>1
    <3>5. <<a>> \o t \in Seq(Int)
      BY <3>2, <3>4, ConcatProperties
    <3> QED BY <3>3, <3>5
  <2> HIDE DEF V
  <2> QED BY <2>1
<1>7. Local(BetweenRows, V, m, rule)
  <2> SUFFICES ASSUME NEW x \in BetweenRows, NEW f \in [BetweenRows -> V],
                      NEW g \in [BetweenRows -> V],
                      \A y \in BetweenRows : m[y] < m[x] => f[y] = g[y]
               PROVE  rule[<<x, f>>] = rule[<<x, g>>]
    BY DEF Local
  <2>1. x.r12 # 1 => f[after(x)] = g[after(x)]
    <3> HIDE DEF m, after
    <3> QED BY <1>4
  <2> QED BY <1>5, <2>1
<1>8. PICK f \in [BetweenRows -> V] : \A x \in BetweenRows : f[x] = rule[<<x, f>>]
  <2>1. Solvable(BetweenRows, V, rule)
    <3> HIDE DEF m, rule, V
    <3> QED BY <1>3, <1>6, <1>7, Recursion
  <2> QED BY <2>1 DEF Solvable
<1>9. Is(f)
  <2>1. \A r \in BetweenRows : f[r] = body(f, r)
    BY <1>5, <1>8
  <2> HIDE DEF body
  <2> QED BY <1>8, <2>1
<1>10. Is(chosen)
  <2> HIDE DEF Is
  <2> QED BY <1>9
<1>11. \A r \in BetweenRows : chosen[r] = body(chosen, r)
  <2> HIDE DEF chosen, body
  <2> QED BY <1>10
<1> HIDE DEF chosen
<1>12. RowsLoop(s, row, chosen)
  BY <1>11 DEF RowsLoop
<1> QED BY <1>1, <1>2, <1>12

\* What is left of a row ends at the next -1, and its maximum is the largest of
\* the numbers before that and the one it had.
EndsAt(s, r, end, e) ==
    /\ s[e] = -1 /\ \A j \in r.next..e-1 : s[j] # -1
    /\ end.next = e + 1 /\ end.r13 \in Int
    /\ end.r13 >= r.r13 /\ \A j \in r.next..e-1 : end.r13 >= s[j]
    /\ \/ end.r13 = r.r13
       \/ \E j \in r.next..e-1 : end.r13 = s[j]

\* The inner loop stops at the end of the row it is in.
LEMMA RowIs ==
  ASSUME NEW s \in Seq(Int), s # <<>>, s[Len(s)] = -1, NEW row, RowLoop(s, row),
         NEW r0 \in InRow, r0.next \in 1..Len(s)
  PROVE  \E e \in r0.next..Len(s) : EndsAt(s, r0, row[r0], e)
<1> DEFINE L == Len(s)
<1>1. L \in Nat /\ L > 0 /\ s[L] = -1
  BY LenProperties, EmptySeq
<1>2. \A k \in 1..L : Number!Read(s, k) = s[k] /\ s[k] \in Int
  BY ReadIs, ElementOfSeq
<1> DEFINE S == {r \in InRow : r.next \in 1..L}
           m == [r \in S |-> L - r.next]
           Good(r, e) ==
             /\ e \in r.next..L
             /\ s[e] = -1 /\ \A j \in r.next..e-1 : s[j] # -1
             /\ row[r].next = e + 1 /\ row[r].r13 \in Int
             /\ row[r].r13 >= r.r13 /\ \A j \in r.next..e-1 : row[r].r13 >= s[j]
             /\ row[r].r13 = r.r13 \/ \E j \in r.next..e-1 : row[r].r13 = s[j]
           P == {r \in S : \E e \in r.next..L : Good(r, e)}
<1> HIDE DEF L
<1>3. ASSUME NEW r \in S, \A y \in S : m[y] < m[r] => y \in P
      PROVE  \E e \in r.next..L : Good(r, e)
  <2> DEFINE k == r.next
  <2>1. r \in InRow /\ k \in 1..L /\ k \in Nat /\ r.r13 \in Int
    BY DEF InRow
  <2>2. s[k] \in Int /\ Number!Read(s, r.next) = s[k]
    BY <1>2, <2>1
  <2>3. CASE s[k] = -1
    <3>1. row[r] = RowEnd(r)
      BY <2>1, <2>2, <2>3 DEF RowLoop
    <3>2. row[r].next = k + 1 /\ row[r].r13 = r.r13
      BY <2>1, <3>1 DEF RowEnd, InRow
    <3>3. k \in k..L /\ \A j \in k..k-1 : FALSE
      BY <1>1, <2>1
    <3>4. Good(r, k)
      BY <2>1, <2>3, <3>2, <3>3
    <3> HIDE DEF Good
    <3> QED BY <3>3, <3>4
  <2>4. CASE s[k] # -1
    <3> DEFINE y == Maximised(s, r)
    <3>1. row[r] = row[y]
      BY <2>1, <2>2, <2>4 DEF RowLoop
    <3>2. /\ y.next = k + 1 /\ y.r13 = IF r.r13 >= s[k] THEN r.r13 ELSE s[k]
          /\ y \in InRow
      BY <2>1, <2>2 DEF Maximised, InRow
    <3>3. k + 1 \in 1..L
      BY <1>1, <2>1, <2>4
    <3> HIDE DEF y
    <3>4. y \in S
      BY <3>2, <3>3
    <3>5. m[y] < m[r]
      <4>1. m[y] = L - y.next /\ m[r] = L - r.next
        <5> HIDE DEF S
        <5> QED BY <3>4
      <4>2. L - y.next < L - r.next
        BY <1>1, <2>1, <3>2
      <4> HIDE DEF m
      <4> QED BY <4>1, <4>2
    <3>6. PICK e \in y.next..L : Good(y, e)
      <4>1. y \in P
        <5> HIDE DEF m, S, P
        <5> QED BY <1>3, <3>4, <3>5
      <4> HIDE DEF Good
      <4> QED BY <4>1
    <3> DEFINE a == row[r].r13
    <3>7. /\ e \in k+1..L /\ s[e] = -1 /\ \A j \in k+1..e-1 : s[j] # -1
          /\ row[r].next = e + 1 /\ a \in Int
          /\ a >= y.r13 /\ \A j \in k+1..e-1 : a >= s[j]
          /\ a = y.r13 \/ \E j \in k+1..e-1 : a = s[j]
      BY <3>1, <3>2, <3>6
    <3> HIDE DEF a, k
    <3>8. e \in k..L /\ \A j \in k..e-1 : j = k \/ j \in k+1..e-1
      BY <1>1, <2>1, <3>7
    <3>9. k \in k..e-1 /\ \A j \in k+1..e-1 : j \in k..e-1
      BY <1>1, <2>1, <3>7
    <3>10. \A j \in k..e-1 : s[j] # -1
      BY <2>4, <3>7, <3>8
    <3>11. a >= r.r13 /\ a >= s[k]
      BY <2>1, <2>2, <3>2, <3>7
    <3>12. \A j \in k..e-1 : a >= s[j]
      BY <3>7, <3>8, <3>11
    <3>13. a = r.r13 \/ \E j \in k..e-1 : a = s[j]
      <4>1. CASE a = y.r13
        BY <3>2, <3>9, <4>1
      <4>2. CASE \E j \in k+1..e-1 : a = s[j]
        BY <3>9, <4>2
      <4> QED BY <3>7, <4>1, <4>2
    <3>14. Good(r, e)
      BY <3>7, <3>8, <3>10, <3>11, <3>12, <3>13 DEF a, k
    <3>15. e \in r.next..L
      BY <3>8 DEF k
    <3> HIDE DEF Good
    <3> QED BY <3>14, <3>15
  <2> QED BY <2>3, <2>4
<1>4. S \subseteq P
  <2>1. m \in [S -> Nat]
    <3>1. \A r \in S : L - r.next \in Nat
      BY <1>1
    <3> HIDE DEF S
    <3> QED BY <3>1
  <2>2. \A x \in S : (\A y \in S : m[y] < m[x] => y \in P) => x \in P
    <3> HIDE DEF S, m, Good
    <3> QED BY <1>3
  <2> HIDE DEF P, m, S
  <2> QED BY <2>1, <2>2, MeasureInduction
<1>5. PICK e \in r0.next..L : Good(r0, e)
  <2>1. r0 \in S
    BY DEF L
  <2>2. r0 \in P
    <3> HIDE DEF S, P
    <3> QED BY <1>4, <2>1
  <2> HIDE DEF Good
  <2> QED BY <2>2
<1> QED BY <1>5 DEF L, EndsAt
\* The ends before a position, and how many there are.
EndsBefore(s, n) == {j \in 2..n-1 : s[j] = -1}
Count(s, n) == Cardinality(EndsBefore(s, n))
RowOf(s, k) == {s[n] : n \in {i \in 2..Len(s) : s[i] # -1 /\ Count(s, i) = k - 1}}

\* How the number of ends grows from one position to the next.
LEMMA CountIs ==
  ASSUME NEW s, NEW n \in Nat
  PROVE  /\ IsFiniteSet(EndsBefore(s, n)) /\ Count(s, n) \in Nat
         /\ n <= 2 => Count(s, n) = 0
         /\ n >= 2 => Count(s, n + 1) = IF s[n] = -1 THEN Count(s, n) + 1 ELSE Count(s, n)
<1>1. IsFiniteSet(EndsBefore(s, n)) /\ Count(s, n) \in Nat
  <2>1. IsFiniteSet(2..n-1)
    BY FS_Interval
  <2>2. EndsBefore(s, n) \in SUBSET (2..n-1)
    BY DEF EndsBefore
  <2> QED BY <2>1, <2>2, FS_Subset, FS_CardinalityType DEF Count
<1>2. n <= 2 => Count(s, n) = 0
  <2>1. n <= 2 => EndsBefore(s, n) = {}
    BY DEF EndsBefore
  <2> QED BY <2>1, FS_EmptySet DEF Count
<1>3. ASSUME n >= 2
      PROVE  Count(s, n + 1) = IF s[n] = -1 THEN Count(s, n) + 1 ELSE Count(s, n)
  <2>1. EndsBefore(s, n + 1) = IF s[n] = -1 THEN EndsBefore(s, n) \cup {n} ELSE EndsBefore(s, n)
    <3>1. \A j : j \in 2..(n+1)-1 <=> (j \in 2..n-1 \/ j = n)
      BY <1>3
    <3> QED BY <3>1 DEF EndsBefore
  <2>2. n \notin EndsBefore(s, n)
    BY DEF EndsBefore
  <2>3. Cardinality(EndsBefore(s, n) \cup {n}) = Cardinality(EndsBefore(s, n)) + 1
    BY <1>1, <2>2, FS_AddElement
  <2> QED BY <2>1, <2>3 DEF Count
<1> QED BY <1>1, <1>2, <1>3

\* It never shrinks.
LEMMA CountGrows ==
  ASSUME NEW s, NEW k \in Nat, NEW n \in Nat, k <= n
  PROVE  Count(s, k) <= Count(s, n)
<1>1. IsFiniteSet(EndsBefore(s, n))
  BY CountIs
<1>2. EndsBefore(s, k) \in SUBSET EndsBefore(s, n)
  BY DEF EndsBefore
<1>3. Cardinality(EndsBefore(s, k)) <= Cardinality(EndsBefore(s, n))
  BY <1>1, <1>2, FS_Subset
<1> QED BY <1>3 DEF Count

\* It stays where no end lies.
LEMMA CountStays ==
  ASSUME NEW s, NEW k \in Nat, NEW n \in Nat, k <= n, k >= 2, \A j \in k..n-1 : s[j] # -1
  PROVE  Count(s, n) = Count(s, k)
<1>1. EndsBefore(s, n) = EndsBefore(s, k)
  <2>1. \A j : j \in 2..n-1 <=> (j \in 2..k-1 \/ j \in k..n-1)
    OBVIOUS
  <2> QED BY <2>1 DEF EndsBefore
<1> QED BY <1>1 DEF Count

\* Between two rows: the next number starts one, and as many rows are left as
\* there are ends.
RowStart(s, r) ==
    /\ r \in BetweenRows /\ r.next \in 2..Len(s) /\ s[r.next] # -1
    /\ r.next = 2 \/ s[r.next - 1] = -1
    /\ Count(s, r.next) + r.r12 = s[1]

\* What an input of double-loop looks like.
LEMMA RowsAre ==
  ASSUME NEW s \in Number!Rows
  PROVE  /\ s \in Seq(Int) /\ s # <<>> /\ Len(s) \in Nat /\ Len(s) >= 3
         /\ s[2] # -1 /\ s[Len(s)] = -1
         /\ \A k \in 2..Len(s)-1 : s[k] = -1 => s[k + 1] # -1
         /\ s[1] = Count(s, Len(s) + 1) /\ s[1] \in Nat \ {0}
<1>1. /\ s \in Seq(Int) /\ Len(s) >= 3 /\ s[2] # -1 /\ s[Len(s)] = -1
      /\ \A k \in 2..Len(s)-1 : s[k] = -1 => s[k + 1] # -1
      /\ s[1] = Number!Cardinality({k \in 2..Len(s) : s[k] = -1})
  BY DEF Number!Rows
<1>2. Len(s) \in Nat /\ s # <<>>
  BY <1>1, LenProperties, EmptySeq
<1>3. s[1] = Count(s, Len(s) + 1)
  <2>1. EndsBefore(s, Len(s) + 1) = {k \in 2..Len(s) : s[k] = -1}
    <3>1. (Len(s) + 1) - 1 = Len(s)
      BY <1>2
    <3> QED BY <3>1 DEF EndsBefore
  <2> QED BY <1>1, <2>1, NumberCardinality DEF Count
<1>4. s[1] \in Nat \ {0}
  <2> DEFINE n == Len(s)
  <2>1. n \in Nat /\ n >= 2 /\ s[n] = -1 /\ s[1] = Count(s, n + 1)
    BY <1>1, <1>2, <1>3
  <2> HIDE DEF n
  <2>2. Count(s, n) \in Nat
    BY <2>1, CountIs
  <2>3. Count(s, n + 1) = Count(s, n) + 1
    BY <2>1, CountIs
  <2> QED BY <2>1, <2>2, <2>3
<1> QED BY <1>1, <1>2, <1>3, <1>4

\* A row is what stands from its start to its end.
LEMMA RowBetween ==
  ASSUME NEW s \in Number!Rows, NEW k \in 2..Len(s), s[k] # -1, k = 2 \/ s[k - 1] = -1,
         NEW e \in k+1..Len(s), s[e] = -1, \A j \in k..e-1 : s[j] # -1
  PROVE  /\ RowOf(s, Count(s, k) + 1) = {s[j] : j \in k..e-1}
         /\ Count(s, e + 1) = Count(s, k) + 1
<1>1. Len(s) \in Nat /\ k \in Nat /\ e \in Nat
  BY RowsAre
<1>2. Count(s, k) \in Nat
  BY <1>1, CountIs
<1>3. ASSUME NEW n \in k..e PROVE Count(s, n) = Count(s, k)
  <2>1. n \in Nat /\ k <= n /\ k >= 2 /\ \A j \in k..n-1 : s[j] # -1
    BY <1>1
  <2> QED BY <1>1, <2>1, CountStays
<1>4. Count(s, e + 1) = Count(s, k) + 1
  <2>1. e \in k..e /\ e >= 2
    BY <1>1
  <2>2. Count(s, e) = Count(s, k)
    BY <1>3, <2>1
  <2> QED BY <1>1, <2>1, <2>2, CountIs
<1>5. ASSUME NEW n \in 2..Len(s), s[n] # -1, Count(s, n) = Count(s, k)
      PROVE  n \in k..e-1
  <2>1. n \in Nat
    BY <1>1
  <2>2. CASE n < k
    <3>1. k # 2 /\ s[k - 1] = -1 /\ n # k - 1
      BY <1>1, <1>5, <2>2
    <3>2. k - 1 \in Nat /\ k - 1 >= 2 /\ n <= k - 1 /\ (k - 1) + 1 = k
      BY <1>1, <2>1, <2>2, <3>1
    <3>3. Count(s, k) = Count(s, k - 1) + 1
      BY <3>1, <3>2, CountIs
    <3>4. Count(s, n) <= Count(s, k - 1) /\ Count(s, k - 1) \in Nat
      BY <2>1, <3>2, CountGrows, CountIs
    <3> QED BY <1>2, <1>5, <3>3, <3>4
  <2>3. CASE n > e
    <3>1. Count(s, e + 1) <= Count(s, n)
      <4>1. e + 1 \in Nat /\ e + 1 <= n
        BY <1>1, <2>1, <2>3
      <4> QED BY <2>1, <4>1, CountGrows
    <3> QED BY <1>2, <1>4, <1>5, <3>1
  <2>4. n # e
    BY <1>5
  <2> QED BY <1>1, <2>1, <2>2, <2>3, <2>4
<1>6. ASSUME NEW n \in k..e-1
      PROVE  n \in 2..Len(s) /\ s[n] # -1 /\ Count(s, n) = Count(s, k)
  <2>1. n \in 2..Len(s) /\ n \in k..e
    BY <1>1
  <2> QED BY <1>3, <2>1
<1>7. (Count(s, k) + 1) - 1 = Count(s, k)
  BY <1>2
<1>8. {i \in 2..Len(s) : s[i] # -1 /\ Count(s, i) = (Count(s, k) + 1) - 1} = k..e-1
  BY <1>5, <1>6, <1>7
<1>9. RowOf(s, Count(s, k) + 1) = {s[j] : j \in k..e-1}
  BY <1>8 DEF RowOf
<1> QED BY <1>4, <1>9

\* What one round of the outer loop prints, and where it goes on.
LEMMA RoundRight ==
  ASSUME NEW s \in Number!Rows, NEW row, RowLoop(s, row), NEW r, RowStart(s, r)
  PROVE  LET this == row[FirstOf(s, r)]
             y == [next |-> this.next, r12 |-> r.r12 - 1]
         IN  /\ this.r13 \in RowOf(s, Count(s, r.next) + 1)
             /\ \A x \in RowOf(s, Count(s, r.next) + 1) : x <= this.r13
             /\ r.r12 # 1 => RowStart(s, y) /\ Count(s, y.next) = Count(s, r.next) + 1
<1> DEFINE k == r.next
           L == Len(s)
           first == FirstOf(s, r)
           this == row[first]
<1>1. /\ s \in Seq(Int) /\ s # <<>> /\ L \in Nat /\ s[L] = -1 /\ s[1] \in Nat
      /\ \A j \in 2..L-1 : s[j] = -1 => s[j + 1] # -1
      /\ s[1] = Count(s, L + 1)
  BY RowsAre
<1>2. /\ k \in 2..L /\ s[k] # -1 /\ (k = 2 \/ s[k - 1] = -1)
      /\ r.r12 \in Nat \ {0} /\ Count(s, k) + r.r12 = s[1]
  BY DEF RowStart, BetweenRows
<1> HIDE DEF k
<1>3. k \in 1..L /\ k \in Nat /\ k # L /\ k + 1 \in 1..L
  BY <1>1, <1>2 DEF L
<1>4. s[k] \in Int /\ Number!Read(s, k) = s[k]
  BY <1>1, <1>3, ReadIs, ElementOfSeq DEF L
<1>5. first \in InRow /\ first.next = k + 1 /\ first.r13 = s[k]
  BY <1>3, <1>4 DEF FirstOf, InRow, k
<1> HIDE DEF first
<1>6. PICK e \in first.next..L :
        /\ s[e] = -1 /\ \A j \in first.next..e-1 : s[j] # -1
        /\ this.next = e + 1 /\ this.r13 \in Int
        /\ this.r13 >= first.r13 /\ \A j \in first.next..e-1 : this.r13 >= s[j]
        /\ \/ this.r13 = first.r13
           \/ \E j \in first.next..e-1 : this.r13 = s[j]
  <2>1. first.next \in 1..Len(s)
    BY <1>3, <1>5 DEF L
  <2> HIDE DEF this
  <2>2. s \in Seq(Int) /\ s # <<>> /\ s[Len(s)] = -1 /\ first \in InRow /\ RowLoop(s, row)
    BY <1>1, <1>5 DEF L
  <2>3. \E e \in first.next..Len(s) : EndsAt(s, first, row[first], e)
    BY <2>1, <2>2, RowIs
  <2>4. \E e \in first.next..L : EndsAt(s, first, this, e)
    BY <2>3 DEF L, this
  <2> QED BY <2>4 DEF EndsAt
<1> DEFINE a == this.r13
<1>7. /\ e \in k+1..L /\ e \in Nat /\ s[e] = -1 /\ \A j \in k..e-1 : s[j] # -1
      /\ \A j \in k..e-1 : a >= s[j]
      /\ \E j \in k..e-1 : a = s[j]
  <2>1. \A j \in k..e-1 : j = k \/ j \in first.next..e-1
    BY <1>1, <1>3, <1>5, <1>6
  <2>2. k \in k..e-1 /\ e \in k+1..L /\ e \in Nat /\ \A j \in first.next..e-1 : j \in k..e-1
    BY <1>1, <1>3, <1>5, <1>6
  <2>3. \A j \in k..e-1 : s[j] # -1
    BY <1>2, <1>6, <2>1
  <2>4. \A j \in k..e-1 : a >= s[j]
    BY <1>5, <1>6, <2>1
  <2>5. \E j \in k..e-1 : a = s[j]
    <3>1. CASE a = first.r13
      BY <1>5, <2>2, <3>1
    <3>2. CASE \E j \in first.next..e-1 : a = s[j]
      BY <2>2, <3>2
    <3> QED BY <1>6, <3>1, <3>2
  <2> QED BY <1>6, <2>2, <2>3, <2>4, <2>5
<1>8. a \in Int /\ this.next = e + 1
  BY <1>6
<1> HIDE DEF a
<1>9. /\ RowOf(s, Count(s, k) + 1) = {s[j] : j \in k..e-1}
      /\ Count(s, e + 1) = Count(s, k) + 1
  BY <1>2, <1>7, RowBetween DEF L
<1>10. a \in RowOf(s, Count(s, k) + 1)
  BY <1>7, <1>9
<1>11. \A x \in RowOf(s, Count(s, k) + 1) : x <= a
  <2>1. \A j \in k..e-1 : s[j] \in Int
    <3> TAKE j \in k..e-1
    <3>1. j \in 1..Len(s)
      BY <1>1, <1>3, <1>7 DEF L
    <3> QED BY <1>1, <3>1, ElementOfSeq
  <2>2. \A j \in k..e-1 : s[j] <= a
    BY <1>7, <1>8, <2>1
  <2> QED BY <1>9, <2>2
<1>12. ASSUME r.r12 # 1
       PROVE  LET y == [next |-> this.next, r12 |-> r.r12 - 1] IN
              RowStart(s, y) /\ Count(s, y.next) = Count(s, k) + 1
  <2> DEFINE y == [next |-> this.next, r12 |-> r.r12 - 1]
  <2>1. y.next = e + 1 /\ y.r12 = r.r12 - 1 /\ y \in BetweenRows
    <3>1. e + 1 \in Nat /\ r.r12 - 1 \in Nat \ {0}
      BY <1>2, <1>7, <1>12
    <3> QED BY <1>8, <3>1 DEF BetweenRows
  <2> HIDE DEF y
  <2>2. Count(s, k) \in Nat
    BY <1>3, CountIs
  <2>3. e # L
    <3> SUFFICES ASSUME e = L PROVE FALSE
      OBVIOUS
    <3>1. Count(s, k) + 1 = s[1]
      BY <1>1, <1>9
    <3> QED BY <1>2, <1>12, <2>2, <3>1
  <2>4. e \in 2..L-1 /\ e + 1 \in 2..L /\ (e + 1) - 1 = e
    BY <1>1, <1>3, <1>7, <2>3
  <2>5. s[e + 1] # -1
    BY <1>1, <1>7, <2>4
  <2>6. Count(s, y.next) = Count(s, k) + 1
    BY <1>9, <2>1
  <2>7. Count(s, y.next) + y.r12 = s[1]
    BY <1>2, <2>1, <2>2, <2>6
  <2>8. RowStart(s, y)
    BY <1>7, <2>1, <2>4, <2>5, <2>7 DEF RowStart, L
  <2> QED BY <2>6, <2>8 DEF y
<1> QED BY <1>10, <1>11, <1>12 DEF a, k, first

\* The maxima of the rows from r on.
Maxima(s, r, maxima) ==
    /\ maxima \in Seq(Int) /\ Len(maxima) = r.r12
    /\ \A i \in 1..r.r12 : /\ maxima[i] \in RowOf(s, Count(s, r.next) + i)
                           /\ \A x \in RowOf(s, Count(s, r.next) + i) : x <= maxima[i]

\* From any row on, the outer loop prints the maxima.
LEMMA RowsRight ==
  ASSUME NEW s \in Number!Rows, NEW row, NEW rows, RowLoop(s, row), RowsLoop(s, row, rows),
         NEW r0, RowStart(s, r0)
  PROVE  Maxima(s, r0, rows[r0])
<1> DEFINE S == {r \in BetweenRows : RowStart(s, r)}
           m == [r \in S |-> r.r12]
           P == {r \in S : Maxima(s, r, rows[r])}
<1>1. ASSUME NEW r \in S, \A y \in S : m[y] < m[r] => y \in P
      PROVE  Maxima(s, r, rows[r])
  <2> DEFINE this == row[FirstOf(s, r)]
             y == [next |-> this.next, r12 |-> r.r12 - 1]
             c == Count(s, r.next)
             a == this.r13
  <2>1. r \in BetweenRows /\ RowStart(s, r) /\ r.r12 \in Nat \ {0} /\ r.next \in Nat
    BY DEF BetweenRows
  <2>2. /\ a \in RowOf(s, c + 1) /\ \A x \in RowOf(s, c + 1) : x <= a
        /\ r.r12 # 1 => RowStart(s, y) /\ Count(s, y.next) = c + 1
    BY <2>1, RoundRight
  <2>3. rows[r] = <<a>> \o IF r.r12 = 1 THEN <<>> ELSE rows[y]
    BY <2>1 DEF RowsLoop
  <2>4. c \in Nat
    BY <2>1, CountIs
  <2>5. a \in Int
    <3>1. FirstOf(s, r) \in InRow
      <4>1. s \in Seq(Int)
        BY RowsAre
      <4> QED BY <2>1, <4>1, ReadIs DEF FirstOf, InRow
    <3>2. this \in InRow
      BY <3>1 DEF RowLoop
    <3> QED BY <3>2 DEF InRow
  <2>6. y.r12 = r.r12 - 1
    OBVIOUS
  <2> HIDE DEF a, c, this
  <2>7. CASE r.r12 = 1
    <3>1. rows[r] = <<a>>
      <4>1. rows[r] = <<a>> \o <<>>
        BY <2>3, <2>7
      <4> QED BY <2>5, <4>1
    <3>2. /\ rows[r] \in Seq(Int) /\ Len(rows[r]) = 1 /\ rows[r][1] = a
      BY <2>5, <3>1
    <3>3. \A i \in 1..1 : i = 1
      OBVIOUS
    <3> QED BY <2>2, <2>7, <3>2, <3>3 DEF Maxima, c
  <2>8. CASE r.r12 # 1
    <3> HIDE DEF y
    <3>1. RowStart(s, y) /\ Count(s, y.next) = c + 1
      BY <2>2, <2>8 DEF y
    <3>2. y \in S /\ m[y] < m[r]
      <4>1. y \in S
        BY <3>1 DEF RowStart
      <4>2. m[y] = y.r12 /\ m[r] = r.r12
        <5> HIDE DEF S
        <5> QED BY <4>1
      <4> HIDE DEF m, S
      <4> QED BY <2>1, <2>6, <4>1, <4>2
    <3>3. Maxima(s, y, rows[y])
      <4> HIDE DEF m, S
      <4> QED BY <1>1, <3>2
    <3> DEFINE rest == rows[y]
               maxima == rows[r]
    <3>4. /\ rest \in Seq(Int) /\ Len(rest) = y.r12
          /\ \A i \in 1..y.r12 : /\ rest[i] \in RowOf(s, (c + 1) + i)
                                 /\ \A x \in RowOf(s, (c + 1) + i) : x <= rest[i]
      BY <3>1, <3>3 DEF Maxima
    <3>5. maxima = <<a>> \o rest
      BY <2>3, <2>8 DEF y
    <3> HIDE DEF rest, maxima
    <3>6. /\ maxima \in Seq(Int) /\ Len(maxima) = 1 + Len(rest) /\ maxima[1] = a
          /\ \A i \in 2..1+Len(rest) : maxima[i] = rest[i - 1]
      <4>1. <<a>> \in Seq(Int) /\ Len(<<a>>) = 1 /\ <<a>>[1] = a
        BY <2>5
      <4> DEFINE one == <<a>>
      <4> HIDE DEF one
      <4>2. one \in Seq(Int) /\ Len(one) = 1 /\ one[1] = a /\ maxima = one \o rest
            /\ Len(rest) \in Nat
        BY <3>4, <3>5, <4>1, LenProperties DEF one
      <4>3. /\ maxima \in Seq(Int) /\ Len(maxima) = Len(one) + Len(rest)
            /\ \A i \in 1..Len(one)+Len(rest) :
                  maxima[i] = IF i <= Len(one) THEN one[i] ELSE rest[i - Len(one)]
        BY <3>4, <4>2, ConcatProperties
      <4>4. 1 \in 1..1+Len(rest) /\ \A i \in 2..1+Len(rest) : i \in 1..1+Len(rest) /\ ~(i <= 1)
        BY <4>2
      <4> QED BY <4>2, <4>3, <4>4
    <3>7. Len(maxima) = r.r12
      BY <2>1, <2>6, <3>4, <3>6
    <3>8. ASSUME NEW i \in 1..r.r12
          PROVE  maxima[i] \in RowOf(s, c + i) /\ \A x \in RowOf(s, c + i) : x <= maxima[i]
      <4>1. CASE i = 1
        BY <2>2, <3>6, <4>1
      <4>2. CASE i # 1
        <5>1. i \in 2..1+Len(rest) /\ i - 1 \in 1..y.r12 /\ (c + 1) + (i - 1) = c + i
          BY <2>1, <2>4, <2>6, <3>4, <4>2
        <5> QED BY <3>4, <3>6, <5>1
      <4> QED BY <4>1, <4>2
    <3> QED BY <3>6, <3>7, <3>8 DEF Maxima, c, maxima
  <2> QED BY <2>7, <2>8
<1>2. S \subseteq P
  <2>1. m \in [S -> Nat]
    <3>1. \A r \in S : r.r12 \in Nat
      BY DEF BetweenRows
    <3> HIDE DEF S
    <3> QED BY <3>1
  <2>2. \A x \in S : (\A y \in S : m[y] < m[x] => y \in P) => x \in P
    <3> HIDE DEF S, m
    <3> QED BY <1>1
  <2> HIDE DEF P, m, S
  <2> QED BY <2>1, <2>2, MeasureInduction
<1>3. r0 \in S
  BY DEF RowStart
<1>4. r0 \in P
  <2> HIDE DEF S, P
  <2> QED BY <1>2, <1>3
<1> QED BY <1>4

\* double-loop is right.
LEMMA DoubleLoopRight ==
  ASSUME NEW s \in Number!Rows
  PROVE  /\ Number!double_loop(s) \in Seq(Int) /\ Number!double_loop(s) # <<>>
         /\ Len(Number!double_loop(s)) = s[1]
         /\ \A k \in 1..s[1] :
               /\ Number!double_loop(s)[k] \in RowOf(s, k)
               /\ \A x \in RowOf(s, k) : x <= Number!double_loop(s)[k]
<1>1. /\ s \in Seq(Int) /\ Len(s) \in Nat /\ Len(s) >= 3 /\ s[2] # -1 /\ s[1] \in Nat \ {0}
  BY RowsAre
<1>2. PICK row, rows : /\ RowLoop(s, row) /\ RowsLoop(s, row, rows)
                       /\ Number!double_loop(s) = rows[[next |-> 2, r12 |-> s[1]]]
  BY <1>1, DoubleLoops
<1> DEFINE first == [next |-> 2, r12 |-> s[1]]
<1>3. Count(s, 2) = 0
  BY CountIs
<1>4. RowStart(s, first) /\ first.r12 = s[1] /\ first.next = 2
  <2>1. first \in BetweenRows /\ first.next = 2 /\ first.r12 = s[1]
    BY <1>1 DEF BetweenRows
  <2> HIDE DEF first
  <2>2. 2 \in 2..Len(s) /\ 0 + s[1] = s[1]
    BY <1>1
  <2> QED BY <1>1, <1>3, <2>1, <2>2 DEF RowStart
<1>5. Maxima(s, first, rows[first])
  <2> HIDE DEF first
  <2> QED BY <1>2, <1>4, RowsRight
<1> DEFINE maxima == Number!double_loop(s)
<1>6. /\ maxima \in Seq(Int) /\ Len(maxima) = s[1]
      /\ \A i \in 1..s[1] : maxima[i] \in RowOf(s, 0 + i) /\ \A x \in RowOf(s, 0 + i) : x <= maxima[i]
  <2> HIDE DEF first
  <2>1. maxima = rows[first]
    BY <1>2 DEF first
  <2> QED BY <1>3, <1>4, <1>5, <2>1 DEF Maxima
<1> HIDE DEF maxima
<1>7. maxima # <<>>
  <2>1. Len(maxima) # 0
    BY <1>1, <1>6
  <2> QED BY <1>6, <2>1, EmptySeq
<1>8. \A i \in 1..s[1] : 0 + i = i
  BY <1>1
<1> QED BY <1>6, <1>7, <1>8 DEF maxima

-----------------------------------------------------------------------------
(* NumbersRight.                                                             *)

\* What the runs of Numbers are asked: NumbersAssumption, of one run.
Asked(t, s) ==
    \/ t \in {"satsum", "average"} /\ s \in Number!Unsigneds \X Number!Unsigneds
    \/ t = "fib-root" /\ s[1] \in Number!Unsigneds
    \/ t = "pow" /\ s \in Int \X Int
    \/ /\ t = "whole-mul" /\ s \in Seq(Int) \ {<<>>}
       /\ \A k \in DOMAIN s : s[k] = -1 <=> k = Len(s)
    \/ t = "double-loop" /\ s \in Number!Rows
    \/ t = "simpleasan" /\ s[1] \in Nat \ {0}

\* Nothing is asked of a run of Texts, nor while another program runs.
NumbersInv == NumbersRight /\ (Asked(task, args) \/ task \in Text!TextTasks \cup {"none"})

\* Before any answer nothing is claimed, and every question is one that may be asked.
LEMMA NumbersStart == ProgramsInit => NumbersInv
<1> SUFFICES ASSUME ProgramsInit PROVE NumbersInv
  OBVIOUS
<1>1. \/ OneStepUnused
      \/ Number!Init
      \/ Text!Init
  BY Zenon DEF ProgramsInit
<1>2. answer = <<>>
  BY <1>1 DEF OneStepUnused, Number!Init, Text!Init
<1>3. NumbersRight
  BY <1>2 DEF NumbersRight, Number!NumbersRight, Number!Answered
<1>4. CASE OneStepUnused
  BY <1>3, <1>4 DEF OneStepUnused, NumbersInv
<1>5. CASE Number!Init
  <2>1. PICK q \in Questions : task = q.task /\ args = q.args
    BY <1>5 DEF Number!Init
  <2>2. Asked(q.task, q.args)
    BY ProgramsAssumption DEF Number!NumbersAssumption, Asked
  <2> QED BY <1>3, <2>1, <2>2 DEF NumbersInv
<1>6. CASE Text!Init
  <2>1. PICK t \in Lines : task = t.task
    BY <1>6 DEF Text!Init
  <2>2. t.task \in Text!TextTasks
    BY ProgramsAssumption DEF Text!TextsAssumption, Text!TextTasks
  <2> QED BY <1>3, <2>1, <2>2 DEF NumbersInv
<1> QED BY <1>1, <1>4, <1>5, <1>6

\* Each task in turn, by the lemma about its program.
LEMMA NumbersAnswered == NumbersInv /\ Number!Next => NumbersInv'
<1> SUFFICES ASSUME NumbersInv, Number!Next PROVE NumbersInv'
  OBVIOUS
<1>1. task' = task /\ args' = args
  BY DEF Number!Next, Number!Given
<1>2. Asked(task, args) \/ task \in Text!TextTasks \cup {"none"}
  BY DEF NumbersInv
<1>3. Number!NumbersRight'
  <2>1. CASE Number!Given("satsum") /\ answer' = <<Number!satsum(args[1], args[2])>>
    <3>1. task = "satsum" /\ answer'[1] = Number!satsum(args[1], args[2])
      BY <2>1 DEF Number!Given
    <3>2. args[1] \in Number!Unsigneds /\ args[2] \in Number!Unsigneds
      BY <1>2, <3>1 DEF Asked, Text!TextTasks
    <3>3. Number!satsum(args[1], args[2]) =
            IF args[1] + args[2] < Number!Modulus THEN args[1] + args[2] ELSE Number!Modulus - 1
      BY <3>2, SatsumRight
    <3> QED BY <1>1, <3>1, <3>3 DEF Number!NumbersRight, Number!Answered
  <2>2. CASE Number!Given("average") /\ answer' = <<Number!average(args[1], args[2])>>
    <3>1. task = "average" /\ answer'[1] = Number!average(args[1], args[2])
      BY <2>2 DEF Number!Given
    <3>2. args[1] \in Number!Unsigneds /\ args[2] \in Number!Unsigneds
      BY <1>2, <3>1 DEF Asked, Text!TextTasks
    <3>3. Number!average(args[1], args[2]) = (args[1] + args[2]) \div 2
      BY <3>2, AverageRight
    <3> QED BY <1>1, <3>1, <3>3 DEF Number!NumbersRight, Number!Answered
  <2>3. CASE Number!Given("fib-root") /\ answer' = <<Number!fib_root(args[1])>>
    <3>1. task = "fib-root" /\ answer'[1] = Number!fib_root(args[1])
      BY <2>3 DEF Number!Given
    <3>2. args[1] \in Number!Unsigneds
      BY <1>2, <3>1 DEF Asked, Text!TextTasks
    <3>3. /\ Number!Fibonacci[Number!fib_root(args[1]) + 1] <= args[1]
          /\ Number!Fibonacci[Number!fib_root(args[1]) + 2] > args[1]
      BY <3>2, FibRootRight
    <3> QED BY <1>1, <3>1, <3>3 DEF Number!NumbersRight, Number!Answered
  <2>4. CASE Number!Given("pow") /\ answer' = <<Number!pow(args[1], args[2])>>
    <3>1. task = "pow" /\ answer'[1] = Number!pow(args[1], args[2])
      BY <2>4 DEF Number!Given
    <3>2. args[1] \in Int /\ args[2] \in Int
      BY <1>2, <3>1 DEF Asked, Text!TextTasks
    <3>3. IF args[2] >= 0
          THEN Number!pow(args[1], args[2]) = Number!Signed(Number!Power(args[1], args[2]))
          ELSE args[1] > 0 => Number!pow(args[1], args[2]) = 1 \div Number!Power(args[1], -args[2])
      BY <3>2, PowRight
    <3> QED BY <1>1, <3>1, <3>3 DEF Number!NumbersRight, Number!Answered
  <2>5. CASE Number!Given("whole-mul") /\ answer' = <<Number!whole_mul(args)>>
    <3>1. task = "whole-mul" /\ answer'[1] = Number!whole_mul(args)
      BY <2>5 DEF Number!Given
    <3>2. args \in Seq(Int) /\ args # <<>> /\ \A k \in DOMAIN args : args[k] = -1 <=> k = Len(args)
      BY <1>2, <3>1 DEF Asked, Text!TextTasks
    <3>3. Number!whole_mul(args) = Number!Signed(Number!Product(args))
      BY <3>2, WholeMulRight
    <3> QED BY <1>1, <3>1, <3>3 DEF Number!NumbersRight, Number!Answered
  <2>6. CASE Number!Given("double-loop") /\ answer' = Number!double_loop(args)
    <3>1. task = "double-loop" /\ answer' = Number!double_loop(args)
      BY <2>6 DEF Number!Given
    <3>2. args \in Number!Rows
      BY <1>2, <3>1 DEF Asked, Text!TextTasks
    <3>3. /\ answer' \in Seq(Int) /\ Len(answer') = args[1]
          /\ \A k \in 1..args[1] : /\ answer'[k] \in RowOf(args, k)
                                   /\ \A x \in RowOf(args, k) : x <= answer'[k]
      BY <3>1, <3>2, DoubleLoopRight
    <3>4. \A k : Number!Row(k)' = RowOf(args, k)
      BY <1>1, NumberCardinality DEF Number!Row, RowOf, Count, EndsBefore
    <3>5. DOMAIN answer' = 1..args[1]
      BY <3>3, LenProperties
    <3> QED BY <1>1, <3>1, <3>3, <3>4, <3>5 DEF Number!NumbersRight, Number!Answered
  <2>7. CASE Number!Given("simpleasan") /\ answer' = Number!protected(args[1])
    <3>1. task = "simpleasan" /\ answer' = Number!protected(args[1])
      BY <2>7 DEF Number!Given
    <3>2. args[1] \in Nat /\ args[1] > 0
      BY <1>2, <3>1 DEF Asked, Text!TextTasks
    <3>3. /\ answer'[1] + args[1] = answer'[2] /\ answer'[2] % PageSize = 0
          /\ answer'[1] >= PageSize
          /\ answer'[3] = 0 /\ answer'[4] = 0 /\ answer'[5] = answer'[2] + PageSize
      BY <3>1, <3>2, ProtectedRight
    <3> QED BY <1>1, <3>1, <3>3 DEF Number!NumbersRight, Number!Answered
  <2> QED BY <2>1, <2>2, <2>3, <2>4, <2>5, <2>6, <2>7 DEF Number!Next
<1> QED BY <1>1, <1>2, <1>3 DEF NumbersInv, NumbersRight

\* Whatever the numbers and the width are, the number programs print what
\* their tasks define (c_basic's satsum, average and fib-root, asm_1's pow,
\* whole-mul and double-loop, and the buffers of simpleasan.h).
THEOREM NumbersComputed == ProgramsSpec => []NumbersRight
<1>1. NumbersInv /\ [ProgramsNext]_allVars => NumbersInv'
  <2> SUFFICES ASSUME NumbersInv, [ProgramsNext]_allVars PROVE NumbersInv'
    OBVIOUS
  <2>1. \/ Number!Next
        \/ Text!Next
        \/ UNCHANGED <<task, args, answer>>
    BY DEF ProgramsNext, SearchStep, TreeStep, WriteStep, ReverseStep, StyleStep, InfStep, OneStep,
           allVars, oneStepVars
  <2>2. CASE Text!Next
    <3>1. task' = task /\ args' = args /\ task \in Text!TextTasks
      BY <2>2 DEF Text!Next, Text!Given, Text!TextTasks
    <3>2. Number!NumbersRight'
      BY <3>1 DEF Number!NumbersRight, Number!Answered, Text!TextTasks
    <3> QED BY <3>1, <3>2 DEF NumbersInv, NumbersRight
  <2>3. CASE UNCHANGED <<task, args, answer>>
    <3>1. Number!NumbersRight
      BY DEF NumbersInv, NumbersRight
    <3>2. Number!NumbersRight'
      <4>1. \A k : Number!Row(k)' = Number!Row(k)
        BY <2>3, Zenon DEF Number!Row
      <4>2. task' = task /\ args' = args /\ answer' = answer
        BY <2>3
      <4> QED BY <3>1, <4>1, <4>2 DEF Number!NumbersRight, Number!Answered
    <3> QED BY <2>3, <3>2 DEF NumbersInv, NumbersRight
  <2> QED BY <2>1, <2>2, <2>3, NumbersAnswered
<1>2. NumbersInv => NumbersRight
  BY DEF NumbersInv
<1> QED BY <1>1, <1>2, NumbersStart, PTL DEF ProgramsSpec

-----------------------------------------------------------------------------
(* Functions that are defined along a sequence, from 0 up to its length, and  *)
(* the operators of Texts that are such functions.                            *)

\* Induction from 0 up to a number.
LEMMA PrefixInduction ==
  ASSUME NEW L \in Nat, NEW P, 0 \in P, \A n \in 1..L : n - 1 \in P => n \in P
  PROVE  0..L \subseteq P
<1> SUFFICES ASSUME NEW z \in 0..L, z \notin P PROVE FALSE
  OBVIOUS
<1> DEFINE T == {n \in 0..L : n \notin P}
<1>1. PICK x \in T : \A y \in T : x <= y
  <2>1. T \subseteq Nat /\ z \in T
    OBVIOUS
  <2> HIDE DEF T
  <2> QED BY <2>1, LeastOf
<1>2. x \in 1..L /\ x - 1 \notin T /\ x - 1 \in 0..L
  BY <1>1
<1> QED BY <1>1, <1>2

GoAlike(f, g, L) == f[0] = g[0] /\ \A n \in 1..L : f[n - 1] = g[n - 1] => f[n] = g[n]

\* Two functions that agree at 0 and go on alike agree.
LEMMA PrefixAgree ==
  ASSUME NEW L \in Nat, NEW f, NEW g, GoAlike(f, g, L)
  PROVE  \A n \in 0..L : f[n] = g[n]
<1> DEFINE P == {n \in 0..L : f[n] = g[n]}
<1>1. 0 \in P /\ \A n \in 1..L : n - 1 \in P => n \in P
  BY DEF GoAlike
<1>2. 0..L \subseteq P
  <2> HIDE DEF P
  <2> QED BY <1>1, PrefixInduction
<1> QED BY <1>2

Iterates(f, L, v, rule) ==
    f[0] = v /\ \A n \in 1..L : f[n] = rule[<<n, f[n - 1]>>]
Iterable(L, V, v, rule) == \E f \in [0..L -> V] : Iterates(f, L, v, rule)

\* A function from 0 to L that is v at 0 and after that what rule makes of the
\* value before.
LEMMA PrefixRecursion ==
  ASSUME NEW L \in Nat, NEW V, NEW v \in V, NEW rule \in [(1..L) \X V -> V]
  PROVE  Iterable(L, V, v, rule)
<1> DEFINE S == 0..L
           m == [n \in S |-> n]
           all == [p \in S \X [S -> V] |-> IF p[1] = 0 THEN v ELSE rule[<<p[1], p[2][p[1] - 1]>>]]
<1>1. m \in [S -> Nat] /\ V # {}
  OBVIOUS
<1>2. \A x \in S, f \in [S -> V] : all[<<x, f>>] = IF x = 0 THEN v ELSE rule[<<x, f[x - 1]>>]
  OBVIOUS
<1>3. all \in [S \X [S -> V] -> V]
  <2>1. ASSUME NEW x \in S, NEW f \in [S -> V] PROVE all[<<x, f>>] \in V
    <3>1. x # 0 => x \in 1..L /\ x - 1 \in S
      OBVIOUS
    <3>2. x # 0 => f[x - 1] \in V
      BY <3>1
    <3>3. x # 0 => rule[<<x, f[x - 1]>>] \in V
      BY <3>1, <3>2
    <3> QED BY <1>2, <3>3
  <2> HIDE DEF S
  <2> QED BY <2>1
<1>4. Local(S, V, m, all)
  <2> SUFFICES ASSUME NEW x \in S, NEW f \in [S -> V], NEW g \in [S -> V],
                      \A y \in S : m[y] < m[x] => f[y] = g[y]
               PROVE  all[<<x, f>>] = all[<<x, g>>]
    BY DEF Local
  <2>1. x # 0 => f[x - 1] = g[x - 1]
    OBVIOUS
  <2> QED BY <1>2, <2>1
<1>5. PICK f \in [S -> V] : \A x \in S : f[x] = all[<<x, f>>]
  <2>1. Solvable(S, V, all)
    <3> HIDE DEF m, all, S
    <3> QED BY <1>1, <1>3, <1>4, Recursion
  <2> QED BY <2>1 DEF Solvable
<1>6. 0 \in S /\ \A n \in 1..L : n \in S /\ n # 0
  OBVIOUS
<1>7. f[0] = v /\ \A n \in 1..L : f[n] = rule[<<n, f[n - 1]>>]
  <2> HIDE DEF all, S
  <2> QED BY <1>2, <1>5, <1>6
<1> QED BY <1>7 DEF Iterable, Iterates

\* The sequences up to n, one after the other.
JoinedBy(f, seqs, T) ==
    /\ f \in [0..Len(seqs) -> Seq(T)] /\ f[0] = <<>>
    /\ \A n \in 1..Len(seqs) : f[n] = f[n - 1] \o seqs[n]
    /\ Text!Joined(seqs) = f[Len(seqs)]

\* Joined is what its recursion says.
LEMMA JoinedSteps ==
  ASSUME NEW T, NEW seqs \in Seq(Seq(T))
  PROVE  \E f : JoinedBy(f, seqs, T)
<1> DEFINE L == Len(seqs)
           V == Seq(T)
           rule == [p \in (1..L) \X V |-> p[2] \o seqs[p[1]]]
<1>1. L \in Nat /\ <<>> \in V /\ \A n \in 1..L : seqs[n] \in V
  OBVIOUS
<1>2. rule \in [(1..L) \X V -> V] /\ \A n \in 1..L, s \in V : rule[<<n, s>>] = s \o seqs[n]
  <2>1. \A n \in 1..L, s \in V : s \o seqs[n] \in V
    BY <1>1, ConcatProperties
  <2> HIDE DEF V, L
  <2> QED BY <2>1
<1>3. PICK f \in [0..L -> V] : Iterates(f, L, <<>>, rule)
  <2>1. Iterable(L, V, <<>>, rule)
    <3> HIDE DEF rule, V, L
    <3> QED BY <1>1, <1>2, PrefixRecursion
  <2> QED BY <2>1 DEF Iterable
<1>4. \A n \in 1..L : n - 1 \in 0..L /\ n \in 0..L /\ n # 0
  BY <1>1
<1>5. f[0] = <<>> /\ \A n \in 1..L : f[n] = f[n - 1] \o seqs[n]
  <2> HIDE DEF rule, V
  <2> QED BY <1>2, <1>3, <1>4 DEF Iterates
<1> DEFINE body(g, n) == IF n = 0 THEN <<>> ELSE g[n - 1] \o seqs[n]
           Is(g) == g = [n \in 0..Len(seqs) |-> body(g, n)]
           chosen == CHOOSE g : Is(g)
<1>6. Is(f)
  <2>1. \A n \in 0..L : n = 0 \/ n \in 1..L
    BY <1>1
  <2>2. \A n \in 0..L : f[n] = body(f, n)
    BY <1>4, <1>5, <2>1
  <2> HIDE DEF body
  <2> QED BY <1>3, <2>2
<1>7. Is(chosen)
  <2> HIDE DEF Is
  <2> QED BY <1>6
<1>8. Text!Joined(seqs) = chosen[L]
  BY DEF Text!Joined
<1>9. \A n \in 0..L : chosen[n] = body(chosen, n)
  <2> HIDE DEF chosen, body
  <2> QED BY <1>7
<1> HIDE DEF chosen
<1>10. \A n \in 0..L : chosen[n] = f[n]
  <2>1. 0 \in 0..L
    BY <1>1
  <2>2. chosen[0] = f[0] /\ \A n \in 1..L : chosen[n] = chosen[n - 1] \o seqs[n]
    BY <1>4, <1>5, <1>9, <2>1
  <2>3. \A n \in 1..L : chosen[n - 1] = f[n - 1] => chosen[n] = f[n]
    BY <1>5, <2>2
  <2>4. L \in Nat /\ GoAlike(chosen, f, L)
    BY <1>1, <2>2, <2>3 DEF GoAlike
  <2> HIDE DEF L
  <2> QED BY <2>4, PrefixAgree
<1>11. Text!Joined(seqs) = f[L]
  BY <1>1, <1>8, <1>10
<1> QED BY <1>3, <1>5, <1>11 DEF JoinedBy

\* What the bytes up to n are in base 256.
ValueBy(f, s) ==
    /\ f \in [0..Len(s) -> Int] /\ f[0] = 0
    /\ \A n \in 1..Len(s) : f[n] = 256 * f[n - 1] + s[n]
    /\ Text!Base256(s) = f[Len(s)]

\* Base256 is what its recursion says.
LEMMA Base256Is ==
  ASSUME NEW s \in Seq(Int)
  PROVE  \E f : ValueBy(f, s)
<1> DEFINE L == Len(s)
           rule == [p \in (1..L) \X Int |-> 256 * p[2] + s[p[1]]]
<1>1. L \in Nat /\ \A n \in 1..L : s[n] \in Int
  OBVIOUS
<1>2. rule \in [(1..L) \X Int -> Int] /\ \A n \in 1..L, i \in Int : rule[<<n, i>>] = 256 * i + s[n]
  <2>1. \A n \in 1..L, i \in Int : 256 * i + s[n] \in Int
    BY <1>1
  <2> HIDE DEF L
  <2> QED BY <2>1
<1>3. PICK f \in [0..L -> Int] : Iterates(f, L, 0, rule)
  <2>1. Iterable(L, Int, 0, rule)
    <3> DEFINE zero == 0
    <3>1. zero \in Int
      OBVIOUS
    <3> HIDE DEF rule, L, zero
    <3>2. Iterable(L, Int, zero, rule)
      BY <1>1, <1>2, <3>1, PrefixRecursion
    <3> QED BY <3>2 DEF zero
  <2> QED BY <2>1 DEF Iterable
<1>4. \A n \in 1..L : n - 1 \in 0..L /\ n \in 0..L /\ n # 0
  BY <1>1
<1>5. f[0] = 0 /\ \A n \in 1..L : f[n] = 256 * f[n - 1] + s[n]
  <2> HIDE DEF rule
  <2> QED BY <1>2, <1>3, <1>4 DEF Iterates
<1> DEFINE body(g, n) == IF n = 0 THEN 0 ELSE 256 * g[n - 1] + s[n]
           Is(g) == g = [n \in 0..Len(s) |-> body(g, n)]
           chosen == CHOOSE g : Is(g)
<1>6. Is(f)
  <2>1. \A n \in 0..L : n = 0 \/ n \in 1..L
    BY <1>1
  <2>2. \A n \in 0..L : f[n] = body(f, n)
    BY <1>4, <1>5, <2>1
  <2> HIDE DEF body
  <2> QED BY <1>3, <2>2
<1>7. Is(chosen)
  <2> HIDE DEF Is
  <2> QED BY <1>6
<1>8. Text!Base256(s) = chosen[L]
  BY DEF Text!Base256
<1>9. \A n \in 0..L : chosen[n] = body(chosen, n)
  <2> HIDE DEF chosen, body
  <2> QED BY <1>7
<1> HIDE DEF chosen
<1>10. \A n \in 0..L : chosen[n] = f[n]
  <2>1. 0 \in 0..L
    BY <1>1
  <2>2. chosen[0] = f[0] /\ \A n \in 1..L : chosen[n] = 256 * chosen[n - 1] + s[n]
    BY <1>4, <1>5, <1>9, <2>1
  <2>3. L \in Nat /\ GoAlike(chosen, f, L)
    BY <1>1, <1>5, <2>2 DEF GoAlike
  <2> HIDE DEF L
  <2> QED BY <2>3, PrefixAgree
<1>11. Text!Base256(s) = f[L]
  BY <1>1, <1>8, <1>10
<1> QED BY <1>3, <1>5, <1>11 DEF ValueBy

\* What is picked of the first n characters.
PickedBy(f, s, P, T) ==
    /\ f \in [0..Len(s) -> Seq(T)] /\ f[0] = <<>>
    /\ \A n \in 1..Len(s) : f[n] = IF n \in P THEN Append(f[n - 1], s[n]) ELSE f[n - 1]
    /\ Text!At(s, P) = f[Len(s)]

\* At is what its recursion says.
LEMMA AtIs ==
  ASSUME NEW T, NEW s \in Seq(T), NEW P
  PROVE  \E f : PickedBy(f, s, P, T)
<1> DEFINE L == Len(s)
           V == Seq(T)
           rule == [p \in (1..L) \X V |-> IF p[1] \in P THEN Append(p[2], s[p[1]]) ELSE p[2]]
<1>1. L \in Nat /\ <<>> \in V /\ \A n \in 1..L : s[n] \in T
  OBVIOUS
<1>2. /\ rule \in [(1..L) \X V -> V]
      /\ \A n \in 1..L, t \in V : rule[<<n, t>>] = IF n \in P THEN Append(t, s[n]) ELSE t
  <2>1. \A n \in 1..L, t \in V : Append(t, s[n]) \in V
    BY <1>1, AppendProperties
  <2> HIDE DEF V, L
  <2> QED BY <2>1
<1>3. PICK f \in [0..L -> V] : Iterates(f, L, <<>>, rule)
  <2>1. Iterable(L, V, <<>>, rule)
    <3> HIDE DEF rule, V, L
    <3> QED BY <1>1, <1>2, PrefixRecursion
  <2> QED BY <2>1 DEF Iterable
<1>4. \A n \in 1..L : n - 1 \in 0..L /\ n \in 0..L /\ n # 0
  BY <1>1
<1>5. f[0] = <<>> /\ \A n \in 1..L : f[n] = IF n \in P THEN Append(f[n - 1], s[n]) ELSE f[n - 1]
  <2> HIDE DEF rule, V
  <2> QED BY <1>2, <1>3, <1>4 DEF Iterates
<1> DEFINE body(g, n) == IF n = 0 THEN <<>>
                         ELSE IF n \in P THEN Append(g[n - 1], s[n]) ELSE g[n - 1]
           Is(g) == g = [n \in 0..Len(s) |-> body(g, n)]
           chosen == CHOOSE g : Is(g)
<1>6. Is(f)
  <2>1. \A n \in 0..L : n = 0 \/ n \in 1..L
    BY <1>1
  <2>2. \A n \in 0..L : f[n] = body(f, n)
    BY <1>4, <1>5, <2>1
  <2> HIDE DEF body
  <2> QED BY <1>3, <2>2
<1>7. Is(chosen)
  <2> HIDE DEF Is
  <2> QED BY <1>6
<1>8. Text!At(s, P) = chosen[L]
  BY DEF Text!At
<1>9. \A n \in 0..L : chosen[n] = body(chosen, n)
  <2> HIDE DEF chosen, body
  <2> QED BY <1>7
<1> HIDE DEF chosen
<1>10. \A n \in 0..L : chosen[n] = f[n]
  <2>1. 0 \in 0..L
    BY <1>1
  <2>2. /\ chosen[0] = f[0]
        /\ \A n \in 1..L : chosen[n] = IF n \in P THEN Append(chosen[n - 1], s[n]) ELSE chosen[n - 1]
    BY <1>4, <1>5, <1>9, <2>1
  <2>3. L \in Nat /\ GoAlike(chosen, f, L)
    BY <1>1, <1>5, <2>2 DEF GoAlike
  <2> HIDE DEF L
  <2> QED BY <2>3, PrefixAgree
<1>11. Text!At(s, P) = f[L]
  BY <1>1, <1>8, <1>10
<1> QED BY <1>3, <1>5, <1>11 DEF PickedBy

-----------------------------------------------------------------------------
(* mystrcmp: strings, and which of two numbers in base 256 is smaller.        *)

\* A string is what stands before the first 0.
LEMMA StringIs ==
  ASSUME NEW mem \in Seq(Int), NEW n \in 1..Len(mem), mem[n] = 0,
         \A j \in 1..n-1 : mem[j] # 0
  PROVE  Text!String(mem) = SubSeq(mem, 1, n - 1)
<1> DEFINE First(k) == k \in DOMAIN mem /\ mem[k] = 0 /\ \A j \in 1..k-1 : mem[j] # 0
           k0 == CHOOSE k \in DOMAIN mem : mem[k] = 0 /\ \A j \in 1..k-1 : mem[j] # 0
<1>1. n \in Nat /\ DOMAIN mem = 1..Len(mem) /\ Len(mem) \in Nat
  BY LenProperties
<1>2. First(k0)
  <2>1. \E k \in DOMAIN mem : mem[k] = 0 /\ \A j \in 1..k-1 : mem[j] # 0
    BY <1>1
  <2> QED BY <2>1
<1> HIDE DEF k0
<1>3. k0 = n
  <2>1. k0 \in Nat /\ k0 >= 1
    BY <1>1, <1>2
  <2>2. ~(k0 < n)
    BY <1>1, <1>2, <2>1
  <2>3. ~(n < k0)
    BY <1>1, <1>2, <2>1
  <2> QED BY <1>1, <2>1, <2>2, <2>3
<1> QED BY <1>3 DEF Text!String, k0

\* A sequence of numbers, from what it is at each place.
LEMMA SequenceFrom ==
  ASSUME NEW T, NEW n \in Nat, NEW s, NEW f, s = [k \in 1..n |-> f[k]],
         \A k \in 1..n : f[k] \in T
  PROVE  s \in Seq(T) /\ Len(s) = n /\ DOMAIN s = 1..n /\ \A k \in 1..n : s[k] = f[k]
<1> DEFINE D == 1..n
<1>1. s \in [D -> T] /\ DOMAIN s = D /\ \A k \in D : s[k] = f[k]
  <2> HIDE DEF D
  <2>1. s = [k \in D |-> f[k]] /\ \A k \in D : f[k] \in T
    BY DEF D
  <2> QED BY <2>1
<1>2. s \in Seq(T)
  BY <1>1, SeqDef
<1> QED BY <1>1, <1>2, LenProperties

\* A C string of L bytes.
IsString(s, L) ==
    /\ s \in Seq(Nat) /\ DOMAIN s = 1..L /\ L \in Nat /\ L >= 1
    /\ \A k \in 1..L : s[k] \in Nat /\ s[k] <= 255 /\ (s[k] = 0 <=> k = L)

\* What the members of Strings are.
LEMMA StringsAre ==
  ASSUME NEW s \in Text!Strings
  PROVE  IsString(s, Len(s))
<1> DEFINE L == Len(s)
<1>1. s \in Seq(0..255) /\ s # <<>> /\ \A k \in DOMAIN s : s[k] = 0 <=> k = L
  BY DEF Text!Strings, Text!Bytes
<1>2. DOMAIN s = 1..L /\ L \in Nat
  BY <1>1, LenProperties
<1>3. L # 0
  BY <1>1, EmptySeq
<1>4. \A k \in 1..L : s[k] \in 0..255
  BY <1>1, ElementOfSeq
<1>5. s = [k \in 1..L |-> s[k]]
  BY <1>1, LenProperties
<1> HIDE DEF L
<1>6. \A k \in 1..L : s[k] \in Nat /\ s[k] <= 255
  <2> DEFINE B == 0..255
  <2>1. \A x \in B : x \in Nat /\ x <= 255
    OBVIOUS
  <2>2. \A k \in 1..L : s[k] \in B
    BY <1>4
  <2> HIDE DEF B
  <2> QED BY <2>1, <2>2
<1>7. s \in Seq(Nat)
  BY <1>2, <1>5, <1>6, SequenceFrom
<1>8. L >= 1
  BY <1>2, <1>3
<1>9. \A k \in 1..L : s[k] \in Nat /\ s[k] <= 255 /\ (s[k] = 0 <=> k = L)
  BY <1>1, <1>2, <1>6
<1>10. IsString(s, L)
  BY <1>2, <1>7, <1>8, <1>9 DEF IsString
<1> QED BY <1>10 DEF L

\* The first digits that differ decide.
LEMMA FirstDecides ==
  ASSUME NEW n \in Nat, NEW a \in Seq(Nat), NEW b \in Seq(Nat), Len(a) = n, Len(b) = n,
         \A k \in 1..n : a[k] <= 255 /\ b[k] <= 255,
         NEW p \in 1..n, \A j \in 1..p-1 : a[j] = b[j], a[p] < b[p]
  PROVE  /\ Text!Base256(a) \in Int /\ Text!Base256(b) \in Int
         /\ Text!Base256(a) < Text!Base256(b)
<1>1. \A k \in 1..n : a[k] \in Nat /\ b[k] \in Nat
  BY ElementOfSeq
<1>2. a \in Seq(Int) /\ b \in Seq(Int)
  <2>1. a \in Seq(Nat) /\ b \in Seq(Nat) /\ Nat \subseteq Int
    OBVIOUS
  <2> QED BY <2>1
<1>3. PICK f : ValueBy(f, a)
  BY <1>2, Base256Is
<1>4. PICK g : ValueBy(g, b)
  BY <1>2, Base256Is
<1>5. /\ f \in [0..n -> Int] /\ f[0] = 0 /\ Text!Base256(a) = f[n]
      /\ \A k \in 1..n : f[k] = 256 * f[k - 1] + a[k]
  BY <1>3 DEF ValueBy
<1>6. /\ g \in [0..n -> Int] /\ g[0] = 0 /\ Text!Base256(b) = g[n]
      /\ \A k \in 1..n : g[k] = 256 * g[k - 1] + b[k]
  BY <1>4 DEF ValueBy
<1>7. p \in Nat /\ p >= 1 /\ p <= n
  OBVIOUS
<1> DEFINE P == {k \in 0..n : IF k < p THEN f[k] = g[k] ELSE f[k] < g[k]}
<1>8. 0..n \subseteq P
  <2>1. 0 \in P
    BY <1>5, <1>6, <1>7
  <2>2. ASSUME NEW k \in 1..n, k - 1 \in P PROVE k \in P
    <3>1. k - 1 \in 0..n /\ k \in 0..n /\ k \in Nat
      OBVIOUS
    <3> DEFINE fk == f[k - 1]
               gk == g[k - 1]
               ak == a[k]
               bk == b[k]
    <3>2. f[k] = 256 * fk + ak /\ g[k] = 256 * gk + bk /\ fk \in Int /\ gk \in Int
      <4>1. f[k] = 256 * fk + ak /\ g[k] = 256 * gk + bk
        BY <1>5, <1>6
      <4>2. f \in [0..n -> Int] /\ g \in [0..n -> Int]
        BY <1>5, <1>6
      <4>3. fk \in Int /\ gk \in Int
        BY <3>1, <4>2
      <4> QED BY <4>1, <4>3
    <3>3. ak \in Nat /\ bk \in Nat /\ ak <= 255 /\ bk <= 255
      BY <1>1
    <3>4. CASE k < p
      <4>1. k \in 1..p-1 /\ k - 1 < p
        BY <1>7, <3>1, <3>4
      <4>2. fk = gk /\ ak = bk
        BY <2>2, <4>1
      <4> QED BY <3>1, <3>2, <3>4, <4>2
    <3>5. CASE k = p
      <4>1. k - 1 < p
        BY <1>7, <3>1, <3>5
      <4>2. fk = gk /\ ak < bk
        BY <2>2, <3>5, <4>1
      <4> HIDE DEF fk, gk, ak, bk
      <4>3. f[k] < g[k]
        BY <3>2, <3>3, <4>2
      <4> QED BY <1>7, <3>1, <3>5, <4>3
    <3>6. CASE k > p
      <4>1. ~(k - 1 < p)
        BY <1>7, <3>1, <3>6
      <4>2. fk < gk
        BY <2>2, <4>1
      <4> HIDE DEF fk, gk, ak, bk
      <4>3. 256 * fk + 256 <= 256 * gk
        BY <3>2, <4>2
      <4>4. f[k] < g[k]
        BY <3>2, <3>3, <4>3
      <4> QED BY <1>7, <3>1, <3>6, <4>4
    <3> QED BY <1>7, <3>1, <3>4, <3>5, <3>6
  <2> HIDE DEF P
  <2> QED BY <2>1, <2>2, PrefixInduction
<1>9. n \in 0..n /\ ~(n < p) /\ n \in P
  BY <1>7, <1>8
<1> QED BY <1>5, <1>6, <1>9

\* A string filled up with zeros.
LEMMA FilledIs ==
  ASSUME NEW s, IsString(s, Len(s)), NEW n \in Nat, Len(s) <= n
  PROVE  /\ Text!Filled(s, n) \in Seq(Nat) /\ Len(Text!Filled(s, n)) = n
         /\ \A k \in 1..n : /\ Text!Filled(s, n)[k] <= 255
                            /\ Text!Filled(s, n)[k] = IF k <= Len(s) THEN s[k] ELSE 0
<1> DEFINE L == Len(s)
           f == [k \in 1..n |-> IF k < L THEN s[k] ELSE 0]
           a == Text!Filled(s, n)
<1>1. a = f
  BY DEF Text!Filled
<1>2. IsString(s, L) /\ L <= n
  OBVIOUS
<1>3. \A k \in 1..n : f[k] = IF k < L THEN s[k] ELSE 0
  OBVIOUS
<1>4. f = [k \in 1..n |-> f[k]]
  OBVIOUS
<1> HIDE DEF L, f
<1>5. /\ L \in Nat /\ L >= 1 /\ L <= n
      /\ \A k \in 1..L : s[k] \in Nat /\ s[k] <= 255 /\ (s[k] = 0 <=> k = L)
  BY <1>2 DEF IsString
<1>6. \A k \in 1..n : f[k] \in Nat /\ f[k] <= 255 /\ f[k] = IF k <= L THEN s[k] ELSE 0
  <2> TAKE k \in 1..n
  <2>1. k \in Nat /\ (k < L => k \in 1..L) /\ (k <= L /\ ~(k < L) => k = L /\ k \in 1..L)
    BY <1>5
  <2>2. CASE k < L
    BY <1>3, <1>5, <2>1, <2>2
  <2>3. CASE ~(k < L)
    BY <1>3, <1>5, <2>1, <2>3
  <2> QED BY <2>2, <2>3
<1>7. f \in Seq(Nat) /\ Len(f) = n
  BY <1>4, <1>6, SequenceFrom
<1>8. a \in Seq(Nat) /\ Len(a) = n /\ \A k \in 1..n : a[k] <= 255 /\ a[k] = IF k <= L THEN s[k] ELSE 0
  BY <1>1, <1>6, <1>7
<1> QED BY <1>8 DEF L, a

\* The place where mystrcmp stops.
StopsAt(str1, str2, k) ==
    /\ str1[k] = 0 \/ str2[k] = 0 \/ str1[k] # str2[k]
    /\ \A j \in 1..k-1 : str1[j] = str2[j] /\ str1[j] # 0

\* mystrcmp stops inside both strings.
LEMMA StopIs ==
  ASSUME NEW str1, NEW str2, NEW L1, NEW L2, IsString(str1, L1), IsString(str2, L2)
  PROVE  \E p \in 1..L1 :
           /\ p \in 1..L2 /\ StopsAt(str1, str2, p)
           /\ Text!mystrcmp(str1, str2) = LET r == str1[p] - str2[p]
                                          IN  CASE r < 0 -> -1 [] r = 0 -> 0 [] r > 0 -> 1
<1> DEFINE p == CHOOSE k \in DOMAIN str1 : StopsAt(str1, str2, k)
           T == {k \in 1..L1 : str1[k] = 0 \/ str2[k] = 0 \/ str1[k] # str2[k]}
<1>1. /\ L1 \in Nat /\ L2 \in Nat /\ L1 >= 1 /\ L2 >= 1 /\ DOMAIN str1 = 1..L1
      /\ \A k \in 1..L1 : str1[k] = 0 <=> k = L1
      /\ \A k \in 1..L2 : str2[k] = 0 <=> k = L2
  BY DEF IsString
<1>2. \E k \in DOMAIN str1 : StopsAt(str1, str2, k)
  <2>1. T \subseteq Nat /\ T # {}
    <3>1. L1 \in 1..L1 /\ L1 \in T
      BY <1>1
    <3> QED BY <3>1
  <2>2. PICK k \in T : \A j \in T : k <= j
    <3> HIDE DEF T
    <3> QED BY <2>1, LeastOf
  <2>3. k \in 1..L1 /\ k \in Nat /\ \A j \in 1..k-1 : j \in 1..L1 /\ ~(k <= j)
    BY <1>1, <2>2
  <2>4. \A j \in 1..k-1 : str1[j] = str2[j] /\ str1[j] # 0
    BY <2>2, <2>3
  <2> QED BY <1>1, <2>2, <2>3, <2>4 DEF StopsAt
<1>3. p \in 1..L1 /\ StopsAt(str1, str2, p)
  BY <1>1, <1>2
<1>4. Text!mystrcmp(str1, str2) = LET r == str1[p] - str2[p]
                                  IN  CASE r < 0 -> -1 [] r = 0 -> 0 [] r > 0 -> 1
  BY DEF Text!mystrcmp, StopsAt
<1> HIDE DEF p
<1>5. p \in 1..L2
  <2> SUFFICES ASSUME L2 < p PROVE FALSE
    BY <1>1, <1>3
  <2>1. L2 \in 1..p-1 /\ L2 \in 1..L2
    BY <1>1, <1>3
  <2> QED BY <1>1, <1>3, <2>1 DEF StopsAt
<1> QED BY <1>3, <1>4, <1>5

\* mystrcmp is right.
LEMMA StringsCompared ==
  ASSUME NEW str1 \in Text!Strings, NEW str2 \in Text!Strings, NEW n,
         n = IF Len(str1) > Len(str2) THEN Len(str1) ELSE Len(str2),
         NEW r, r = Text!mystrcmp(str1, str2),
         NEW d, d = Text!Base256(Text!Filled(str1, n)) - Text!Base256(Text!Filled(str2, n))
  PROVE  (r > 0) = (d > 0) /\ (r < 0) = (d < 0)
<1> DEFINE L1 == Len(str1)
           L2 == Len(str2)
           a == Text!Filled(str1, n)
           b == Text!Filled(str2, n)
           da == Text!Base256(a)
           db == Text!Base256(b)
<1>1. IsString(str1, L1) /\ IsString(str2, L2)
  BY StringsAre
<1>2. n = (IF L1 > L2 THEN L1 ELSE L2) /\ L1 \in Nat /\ L2 \in Nat
  BY <1>1 DEF IsString
<1>3. n \in Nat /\ L1 <= n /\ L2 <= n
  <2> HIDE DEF L1, L2
  <2> QED BY <1>2
<1>4. /\ a \in Seq(Nat) /\ Len(a) = n
      /\ \A k \in 1..n : a[k] <= 255 /\ a[k] = IF k <= L1 THEN str1[k] ELSE 0
  BY <1>1, <1>3, FilledIs
<1>5. /\ b \in Seq(Nat) /\ Len(b) = n
      /\ \A k \in 1..n : b[k] <= 255 /\ b[k] = IF k <= L2 THEN str2[k] ELSE 0
  BY <1>1, <1>3, FilledIs
<1>6. d = da - db
  OBVIOUS
<1> HIDE DEF L1, L2, a, b
<1>7. PICK p \in 1..L1 :
           /\ p \in 1..L2 /\ StopsAt(str1, str2, p)
           /\ Text!mystrcmp(str1, str2) = LET x == str1[p] - str2[p]
                                          IN  CASE x < 0 -> -1 [] x = 0 -> 0 [] x > 0 -> 1
  BY <1>1, StopIs
<1>8. p \in Nat /\ p \in 1..n /\ \A j \in 1..p-1 : j \in 1..n /\ j <= L1 /\ j <= L2
  BY <1>2, <1>3, <1>7
<1>9. \A j \in 1..p-1 : a[j] = b[j]
  BY <1>4, <1>5, <1>7, <1>8 DEF StopsAt
<1>10. a[p] = str1[p] /\ b[p] = str2[p] /\ a[p] \in Nat /\ b[p] \in Nat
  <2>1. p <= L1 /\ p <= L2
    BY <1>2, <1>7
  <2> QED BY <1>1, <1>4, <1>5, <1>7, <1>8, <2>1 DEF IsString
<1>11. \A k \in 1..n : a[k] <= 255 /\ b[k] <= 255
  BY <1>4, <1>5
<1> DEFINE x == str1[p]
           y == str2[p]
<1>12. /\ x \in Nat /\ y \in Nat
       /\ r = LET z == x - y IN CASE z < 0 -> -1 [] z = 0 -> 0 [] z > 0 -> 1
  BY <1>7, <1>10
<1>13. CASE x < y
  <2>1. da \in Int /\ db \in Int /\ da < db
    BY <1>3, <1>4, <1>5, <1>8, <1>9, <1>10, <1>11, <1>13, FirstDecides
  <2> HIDE DEF da, db, x, y
  <2>2. r = -1
    BY <1>12, <1>13
  <2>3. d < 0 /\ ~(d > 0)
    BY <1>6, <2>1
  <2> QED BY <2>2, <2>3
<1>14. CASE y < x
  <2>1. da \in Int /\ db \in Int /\ db < da
    BY <1>3, <1>4, <1>5, <1>8, <1>9, <1>10, <1>11, <1>14, FirstDecides
  <2> HIDE DEF da, db, x, y
  <2>2. r = 1
    BY <1>12, <1>14
  <2>3. d > 0 /\ ~(d < 0)
    BY <1>6, <2>1
  <2> QED BY <2>2, <2>3
<1>15. CASE x = y
  <2>1. x = 0
    BY <1>7, <1>15 DEF StopsAt
  <2>2. p = L1 /\ p = L2
    BY <1>1, <1>7, <1>15, <2>1 DEF IsString
  <2>3. \A k \in 1..n : a[k] = b[k]
    <3> TAKE k \in 1..n
    <3>1. k \in 1..p-1 \/ k = p
      BY <1>2, <1>3, <1>8, <2>2
    <3> QED BY <1>9, <1>10, <1>15, <3>1
  <2>4. a = b
    BY <1>3, <1>4, <1>5, <2>3, SeqEqual
  <2>5. d = da - da /\ da \in Int
    <3>1. a \in Seq(Int)
      BY <1>4
    <3>2. PICK f : ValueBy(f, a)
      BY <3>1, Base256Is
    <3>3. da = f[n] /\ f \in [0..n -> Int] /\ n \in 0..n
      BY <1>3, <1>4, <3>2 DEF ValueBy
    <3> QED BY <1>6, <2>4, <3>3
  <2> HIDE DEF da, db, x, y
  <2>6. r = 0
    BY <1>12, <1>15
  <2>7. ~(d > 0) /\ ~(d < 0)
    BY <2>5
  <2> QED BY <2>6, <2>7
<1>16. x < y \/ y < x \/ x = y
  <2> HIDE DEF x, y
  <2> QED BY <1>12
<1> QED BY <1>13, <1>14, <1>15, <1>16

-----------------------------------------------------------------------------
(* anagram: two sets can be matched when their fibres are of the same size.   *)

Fiber(A, f, c) == {k \in A : f[k] = c}
Matches(match, A, B, f, g) ==
    /\ \A j, k \in A : match[j] = match[k] => j = k
    /\ \A k \in B : \E j \in A : match[j] = k
    /\ \A k \in A : f[k] = g[match[k]]

\* Two finite sets can be matched, by what f and g are on them, when each value
\* is that of as many members of one as of the other.
LEMMA MatchedFibers ==
  ASSUME NEW A, NEW B, IsFiniteSet(A), IsFiniteSet(B), NEW f, NEW g,
         NEW match \in [A -> B], Matches(match, A, B, f, g), NEW c
  PROVE  Cardinality(Fiber(A, f, c)) = Cardinality(Fiber(B, g, c))
<1> DEFINE FA == Fiber(A, f, c)
           FB == Fiber(B, g, c)
           m == [k \in FA |-> match[k]]
<1>1. FA \subseteq A /\ FB \subseteq B
  BY DEF Fiber
<1>2. IsFiniteSet(FA) /\ IsFiniteSet(FB)
  BY <1>1, FS_Subset
<1>3. \A k \in FA : match[k] \in FB
  BY DEF Fiber, Matches
<1>4. \A k \in FB : \E j \in FA : match[j] = k
  BY DEF Fiber, Matches
<1>5. \A j, k \in FA : match[j] = match[k] => j = k
  BY <1>1 DEF Matches
<1> HIDE DEF FA, FB
<1>6. m \in [FA -> FB] /\ \A k \in FA : m[k] = match[k]
  BY <1>3
<1> HIDE DEF m
<1>7. m \in Bijection(FA, FB)
  <2>1. m \in Injection(FA, FB)
    BY <1>5, <1>6 DEF Injection, IsInjective
  <2>2. m \in Surjection(FA, FB)
    BY <1>4, <1>6 DEF Surjection
  <2> QED BY <2>1, <2>2 DEF Bijection
<1>8. ExistsBijection(FA, FB)
  BY <1>7 DEF ExistsBijection
<1>9. Cardinality(FB) = Cardinality(FA)
  BY <1>2, <1>8, FS_Bijection
<1> QED BY <1>9 DEF FA, FB

\* The other direction: a bijection for each value, and together they match.
LEMMA FibersMatched ==
  ASSUME NEW A, NEW B, IsFiniteSet(A), IsFiniteSet(B), NEW C, NEW f \in [A -> C], NEW g,
         \A c \in C : Cardinality(Fiber(A, f, c)) = Cardinality(Fiber(B, g, c)),
         \A k \in B : g[k] \in C
  PROVE  \E match \in [A -> B] : Matches(match, A, B, f, g)
<1> DEFINE pick == [c \in C |-> CHOOSE h \in Bijection(Fiber(A, f, c), Fiber(B, g, c)) : TRUE]
           match == [k \in A |-> pick[f[k]][k]]
<1>1. ASSUME NEW c \in C
      PROVE  /\ pick[c] \in [Fiber(A, f, c) -> Fiber(B, g, c)]
             /\ \A j, k \in Fiber(A, f, c) : pick[c][j] = pick[c][k] => j = k
             /\ \A k \in Fiber(B, g, c) : \E j \in Fiber(A, f, c) : pick[c][j] = k
  <2> DEFINE FA == Fiber(A, f, c)
             FB == Fiber(B, g, c)
             h == CHOOSE h \in Bijection(FA, FB) : TRUE
  <2>1. FA \subseteq A /\ FB \subseteq B
    BY DEF Fiber
  <2>2. IsFiniteSet(FA) /\ IsFiniteSet(FB)
    BY <2>1, FS_Subset
  <2>3. Cardinality(FA) = Cardinality(FB)
    OBVIOUS
  <2> HIDE DEF FA, FB
  <2>4. Bijection(FA, FB) # {}
    BY <2>2, <2>3, FS_SameCardinalityBij DEF ExistsBijection
  <2>5. h \in Bijection(FA, FB)
    BY <2>4
  <2>6. pick[c] = h
    BY DEF FA, FB
  <2> HIDE DEF h
  <2>7. /\ h \in [FA -> FB] /\ \A j, k \in FA : h[j] = h[k] => j = k
        /\ \A k \in FB : \E j \in FA : h[j] = k
    BY <2>5 DEF Bijection, Injection, Surjection, IsInjective
  <2> HIDE DEF pick
  <2>8. /\ pick[c] \in [FA -> FB] /\ \A j, k \in FA : pick[c][j] = pick[c][k] => j = k
        /\ \A k \in FB : \E j \in FA : pick[c][j] = k
    BY <2>6, <2>7
  <2> QED BY <2>8 DEF FA, FB
<1> HIDE DEF pick
<1>2. \A k \in A : f[k] \in C /\ k \in Fiber(A, f, f[k])
  BY DEF Fiber
<1>3. \A k \in A : pick[f[k]][k] \in B /\ g[pick[f[k]][k]] = f[k]
  <2> TAKE k \in A
  <2>1. pick[f[k]][k] \in Fiber(B, g, f[k])
    BY <1>1, <1>2
  <2> QED BY <2>1 DEF Fiber
<1>4. match \in [A -> B] /\ \A k \in A : match[k] = pick[f[k]][k]
  BY <1>3
<1> HIDE DEF match
<1>5. ASSUME NEW j \in A, NEW k \in A, match[j] = match[k] PROVE j = k
  <2>1. f[j] = f[k]
    BY <1>3, <1>4, <1>5
  <2>2. j \in Fiber(A, f, f[k]) /\ k \in Fiber(A, f, f[k]) /\ f[k] \in C
    BY <1>2, <2>1
  <2>3. pick[f[k]][j] = pick[f[k]][k]
    BY <1>4, <1>5, <2>1
  <2> QED BY <1>1, <2>2, <2>3
<1>6. ASSUME NEW k \in B PROVE \E j \in A : match[j] = k
  <2>1. g[k] \in C /\ k \in Fiber(B, g, g[k])
    BY DEF Fiber
  <2>2. PICK j \in Fiber(A, f, g[k]) : pick[g[k]][j] = k
    BY <1>1, <2>1
  <2>3. j \in A /\ f[j] = g[k]
    BY DEF Fiber
  <2>4. match[j] = k
    BY <1>4, <2>2, <2>3
  <2> QED BY <2>3, <2>4
<1>7. Matches(match, A, B, f, g)
  BY <1>3, <1>4, <1>5, <1>6 DEF Matches
<1> QED BY <1>4, <1>7

\* The instance of FiniteSets in Texts is the other one.
LEMMA TextCardinality == \A S : Text!Cardinality(S) = Cardinality(S)
BY Zenon DEF Text!Cardinality, Cardinality

\* anagram is right.
LEMMA AnagramFound ==
  ASSUME NEW s \in Seq(Text!Bytes), NEW t \in Seq(Text!Bytes)
  PROVE  Text!anagram(s, t) =
           \E match \in [Text!Letters(s) -> Text!Letters(t)] :
              /\ \A j, k \in Text!Letters(s) : match[j] = match[k] => j = k
              /\ \A k \in Text!Letters(t) : \E j \in Text!Letters(s) : match[j] = k
              /\ \A k \in Text!Letters(s) : Text!Lower(s[k]) = Text!Lower(t[match[k]])
<1> DEFINE A == Text!Letters(s)
           B == Text!Letters(t)
           f == [k \in A |-> Text!Lower(s[k])]
           g == [k \in B |-> Text!Lower(t[k])]
<1>1. \A c \in Text!Bytes : Text!Lower(c) \in Text!Bytes
  BY DEF Text!Lower, Text!Bytes
<1>2. A \subseteq DOMAIN s /\ B \subseteq DOMAIN t
  BY DEF Text!Letters
<1>3. IsFiniteSet(A) /\ IsFiniteSet(B)
  <2>1. /\ DOMAIN s = 1..Len(s) /\ Len(s) \in Nat
        /\ DOMAIN t = 1..Len(t) /\ Len(t) \in Nat
    BY LenProperties
  <2>2. IsFiniteSet(DOMAIN s) /\ IsFiniteSet(DOMAIN t)
    BY <2>1, FS_Interval
  <2> HIDE DEF A, B
  <2> QED BY <1>2, <2>2, FS_Subset
<1>4. /\ f \in [A -> Text!Bytes] /\ \A k \in A : f[k] = Text!Lower(s[k])
      /\ \A k \in B : g[k] \in Text!Bytes /\ g[k] = Text!Lower(t[k])
  <2>1. (\A k \in DOMAIN s : s[k] \in Text!Bytes) /\ \A k \in DOMAIN t : t[k] \in Text!Bytes
    BY LenProperties, ElementOfSeq
  <2> HIDE DEF A, B
  <2> QED BY <1>1, <1>2, <2>1
<1>5. ASSUME NEW c
      PROVE  Fiber(A, f, c) = {k \in DOMAIN s : s[k] # Text!Space /\ Text!Lower(s[k]) = c}
  BY DEF Fiber, Text!Letters
<1>6. ASSUME NEW c
      PROVE  Fiber(B, g, c) = {k \in DOMAIN t : t[k] # Text!Space /\ Text!Lower(t[k]) = c}
  BY DEF Fiber, Text!Letters
<1>7. ASSUME NEW c
      PROVE  /\ Text!Counted(s, c) = Cardinality(Fiber(A, f, c))
             /\ Text!Counted(t, c) = Cardinality(Fiber(B, g, c))
  <2> DEFINE S == {k \in DOMAIN s : s[k] # Text!Space /\ Text!Lower(s[k]) = c}
             T == {k \in DOMAIN t : t[k] # Text!Space /\ Text!Lower(t[k]) = c}
  <2>1. Text!Counted(s, c) = Cardinality(S) /\ Text!Counted(t, c) = Cardinality(T)
    BY Zenon, TextCardinality DEF Text!Counted
  <2>2. Fiber(A, f, c) = S /\ Fiber(B, g, c) = T
    BY <1>5, <1>6
  <2> HIDE DEF A, B, f, g, S, T
  <2> QED BY <2>1, <2>2
<1> HIDE DEF A, B, f, g
<1>8. ASSUME NEW c
      PROVE  Cardinality(Fiber(A, f, c)) \in Nat /\ Cardinality(Fiber(B, g, c)) \in Nat
  <2>1. Fiber(A, f, c) \subseteq A /\ Fiber(B, g, c) \subseteq B
    BY DEF Fiber
  <2>2. IsFiniteSet(Fiber(A, f, c)) /\ IsFiniteSet(Fiber(B, g, c))
    BY <1>3, <2>1, FS_Subset
  <2> QED BY <2>2, FS_CardinalityType
<1>9. Text!anagram(s, t) <=>
        \A c \in Text!Bytes : Cardinality(Fiber(A, f, c)) = Cardinality(Fiber(B, g, c))
  <2>1. ASSUME NEW c \in Text!Bytes
        PROVE  (Text!Counted(s, c) - Text!Counted(t, c) = 0)
                 <=> Cardinality(Fiber(A, f, c)) = Cardinality(Fiber(B, g, c))
    <3> DEFINE x == Cardinality(Fiber(A, f, c))
               y == Cardinality(Fiber(B, g, c))
    <3>1. x \in Nat /\ y \in Nat /\ Text!Counted(s, c) = x /\ Text!Counted(t, c) = y
      BY <1>7, <1>8
    <3> HIDE DEF x, y
    <3>2. Text!Counted(s, c) - Text!Counted(t, c) = 0 <=> x = y
      BY <3>1
    <3> QED BY <3>2 DEF x, y
  <2> QED BY <2>1 DEF Text!anagram
<1>10. ASSUME NEW match \in [A -> B]
       PROVE  Matches(match, A, B, f, g) <=>
                /\ \A j, k \in A : match[j] = match[k] => j = k
                /\ \A k \in B : \E j \in A : match[j] = k
                /\ \A k \in A : Text!Lower(s[k]) = Text!Lower(t[match[k]])
  <2>1. \A k \in A : f[k] = Text!Lower(s[k]) /\ g[match[k]] = Text!Lower(t[match[k]])
    BY <1>4
  <2> QED BY <2>1 DEF Matches
<1>11. (\A c \in Text!Bytes : Cardinality(Fiber(A, f, c)) = Cardinality(Fiber(B, g, c)))
         <=> \E match \in [A -> B] : Matches(match, A, B, f, g)
  <2>1. ASSUME \A c \in Text!Bytes : Cardinality(Fiber(A, f, c)) = Cardinality(Fiber(B, g, c))
        PROVE  \E match \in [A -> B] : Matches(match, A, B, f, g)
    <3> DEFINE C == Text!Bytes
    <3>1. f \in [A -> C] /\ \A k \in B : g[k] \in C
      BY <1>4
    <3>2. \A c \in C : Cardinality(Fiber(A, f, c)) = Cardinality(Fiber(B, g, c))
      BY <2>1
    <3> HIDE DEF C
    <3> QED BY <1>3, <3>1, <3>2, FibersMatched
  <2>2. ASSUME NEW match \in [A -> B], Matches(match, A, B, f, g), NEW c \in Text!Bytes
        PROVE  Cardinality(Fiber(A, f, c)) = Cardinality(Fiber(B, g, c))
    BY <1>3, <2>2, MatchedFibers
  <2> QED BY <2>1, <2>2
<1>12. Text!anagram(s, t) \in BOOLEAN
  BY DEF Text!anagram
<1>13. Text!anagram(s, t) <=>
          \E match \in [A -> B] :
              /\ \A j, k \in A : match[j] = match[k] => j = k
              /\ \A k \in B : \E j \in A : match[j] = k
              /\ \A k \in A : Text!Lower(s[k]) = Text!Lower(t[match[k]])
  BY <1>9, <1>10, <1>11
<1> QED BY <1>12, <1>13 DEF A, B

-----------------------------------------------------------------------------
(* normalize-path.                                                            *)

Stored(s) == [s.mem EXCEPT ![s.write] = s.mem[s.read]]
Skipped(s) == [s EXCEPT !.read = @ + 1]
Written(s) == [mem |-> Stored(s), read |-> s.read + 1, write |-> s.write + 1,
               prev_was_slash |-> s.mem[s.read] = Text!Slash]
OverSlash(s) == s.mem[s.read] = Text!Slash /\ s.prev_was_slash

\* What normalize_path's loop does in one round.
RewritingLoop(step_) ==
    \A s \in Text!Rewriting :
       step_[s] = IF s.mem[s.read] = 0 THEN Stored(s)
                  ELSE IF OverSlash(s) THEN step_[Skipped(s)] ELSE step_[Written(s)]

\* What a state of that loop is.
LEMMA RewritingIs ==
  ASSUME NEW s \in Text!Rewriting
  PROVE  /\ s.mem \in Seq(Nat) /\ s.read \in Nat /\ s.write \in Nat /\ s.write >= 1
         /\ s.write <= s.read /\ s.read <= Len(s.mem) /\ Len(s.mem) \in Nat
         /\ DOMAIN s.mem = 1..Len(s.mem) /\ s.mem[s.read] \in Nat /\ s.prev_was_slash \in BOOLEAN
         /\ \E k \in s.read..Len(s.mem) : s.mem[k] = 0
<1>1. /\ s.mem \in Seq(Nat) /\ s.read \in Nat /\ s.write \in Nat \ {0}
      /\ s.prev_was_slash \in BOOLEAN /\ s.write <= s.read
      /\ \E k \in s.read..Len(s.mem) : s.mem[k] = 0
  BY DEF Text!Rewriting
<1> DEFINE M == s.mem
           L == Len(s.mem)
<1>2. M \in Seq(Nat) /\ L \in Nat /\ DOMAIN M = 1..L /\ \A k \in 1..L : M[k] \in Nat
  BY <1>1, LenProperties, ElementOfSeq
<1>3. PICK k \in s.read..L : M[k] = 0
  BY <1>1
<1> HIDE DEF L, M
<1>4. s.read <= L /\ s.write >= 1 /\ s.read \in 1..L
  BY <1>1, <1>2, <1>3
<1>5. M[s.read] \in Nat
  BY <1>2, <1>4
<1> QED BY <1>1, <1>2, <1>4, <1>5 DEF L, M

\* Before the 0 the next state is one too, further on.
LEMMA RewritingGoesOn ==
  ASSUME NEW s \in Text!Rewriting, s.mem[s.read] # 0
  PROVE  /\ Skipped(s) \in Text!Rewriting /\ Written(s) \in Text!Rewriting
         /\ Stored(s) \in Seq(Nat) /\ Len(Stored(s)) = Len(s.mem) /\ s.read < Len(s.mem)
         /\ Len(Skipped(s).mem) = Len(s.mem) /\ Skipped(s).read = s.read + 1
         /\ Len(Written(s).mem) = Len(s.mem) /\ Written(s).read = s.read + 1
<1> DEFINE M == s.mem
           L == Len(M)
           N == Stored(s)
<1>1. /\ M \in Seq(Nat) /\ s.read \in Nat /\ s.write \in Nat /\ s.write >= 1
      /\ s.write <= s.read /\ s.read <= L /\ L \in Nat
      /\ DOMAIN M = 1..L /\ M[s.read] \in Nat /\ s.prev_was_slash \in BOOLEAN
  BY RewritingIs
<1>2. PICK k \in s.read..L : M[k] = 0
  BY RewritingIs
<1>3. N = [M EXCEPT ![s.write] = M[s.read]]
  BY DEF Stored
<1>4. k \in s.read+1..L /\ k # s.write /\ s.read < L /\ s.write \in 1..L /\ k \in 1..L
  <2>1. k # s.read
    BY <1>2
  <2> HIDE DEF L, N
  <2> QED BY <1>1, <2>1
<1>5. N \in Seq(Nat) /\ Len(N) = L
  <2> HIDE DEF N
  <2> QED BY <1>1, <1>3, <1>4, ExceptSeq
<1>6. N[k] = 0
  <2> HIDE DEF N, M, L
  <2> QED BY <1>1, <1>2, <1>3, <1>4
<1>7. /\ Skipped(s).mem = M /\ Skipped(s).read = s.read + 1 /\ Skipped(s).write = s.write
      /\ Skipped(s) \in [mem : Seq(Nat), read : Nat, write : Nat \ {0}, prev_was_slash : BOOLEAN]
  <2>1. s \in [mem : Seq(Nat), read : Nat, write : Nat \ {0}, prev_was_slash : BOOLEAN]
    BY DEF Text!Rewriting
  <2> HIDE DEF M, L, N
  <2>2. Skipped(s).mem = s.mem /\ Skipped(s).read = s.read + 1 /\ Skipped(s).write = s.write
    BY <2>1 DEF Skipped
  <2>3. s.read + 1 \in Nat
    BY <2>1
  <2>4. Skipped(s) \in [mem : Seq(Nat), read : Nat, write : Nat \ {0}, prev_was_slash : BOOLEAN]
    BY <2>1, <2>3 DEF Skipped
  <2> QED BY <2>2, <2>4 DEF M
<1>8. /\ Written(s).mem = N /\ Written(s).read = s.read + 1 /\ Written(s).write = s.write + 1
      /\ Written(s) \in [mem : Seq(Nat), read : Nat, write : Nat \ {0}, prev_was_slash : BOOLEAN]
  <2>1. (s.mem[s.read] = Text!Slash) \in BOOLEAN
    OBVIOUS
  <2> HIDE DEF M, L
  <2> QED BY <1>1, <1>5, <2>1 DEF Written
<1> HIDE DEF M, L, N
<1>9. s.read + 1 \in Nat /\ s.write <= s.read + 1 /\ s.write + 1 <= s.read + 1
  BY <1>1
<1>10. Skipped(s) \in Text!Rewriting
  <2>1. \E j \in Skipped(s).read..Len(Skipped(s).mem) : Skipped(s).mem[j] = 0
    BY <1>2, <1>4, <1>7 DEF L
  <2> QED BY <1>7, <1>9, <2>1 DEF Text!Rewriting
<1>11. Written(s) \in Text!Rewriting
  <2>1. \E j \in Written(s).read..Len(Written(s).mem) : Written(s).mem[j] = 0
    BY <1>4, <1>5, <1>6, <1>8
  <2> QED BY <1>8, <1>9, <2>1 DEF Text!Rewriting
<1> QED BY <1>4, <1>5, <1>7, <1>8, <1>10, <1>11 DEF M, L, N

\* So normalize_path is that loop from its first state.
LEMMA RewritingLoops ==
  ASSUME NEW string
  PROVE  \E loop : /\ RewritingLoop(loop)
                   /\ Text!normalize_path(string) =
                        loop[[mem |-> string, read |-> 1, write |-> 1, prev_was_slash |-> FALSE]]
<1> DEFINE S == Text!Rewriting
           V == Seq(Nat)
           m == [s \in S |-> Len(s.mem) - s.read]
           rule == [p \in S \X [S -> V] |->
                      IF p[1].mem[p[1].read] = 0 THEN Stored(p[1])
                      ELSE IF OverSlash(p[1]) THEN p[2][Skipped(p[1])] ELSE p[2][Written(p[1])]]
<1>1. m \in [S -> Nat] /\ V # {}
  <2>1. ASSUME NEW s \in S PROVE Len(s.mem) - s.read \in Nat
    <3> DEFINE L == Len(s.mem)
    <3>1. L \in Nat /\ s.read \in Nat /\ s.read <= L
      BY RewritingIs
    <3> HIDE DEF L
    <3>2. L - s.read \in Nat
      BY <3>1
    <3> QED BY <3>2 DEF L
  <2>2. <<>> \in V
    OBVIOUS
  <2> HIDE DEF S, V
  <2> QED BY <2>1, <2>2
<1>2. \A x \in S, f \in [S -> V] :
         rule[<<x, f>>] = IF x.mem[x.read] = 0 THEN Stored(x)
                          ELSE IF OverSlash(x) THEN f[Skipped(x)] ELSE f[Written(x)]
  OBVIOUS
<1>3. ASSUME NEW x \in S, x.mem[x.read] # 0
      PROVE  /\ Skipped(x) \in S /\ Written(x) \in S
             /\ m[Skipped(x)] < m[x] /\ m[Written(x)] < m[x]
  <2> DEFINE L == Len(x.mem)
  <2>1. /\ Skipped(x) \in S /\ Written(x) \in S /\ L \in Nat /\ x.read \in Nat
        /\ m[Skipped(x)] = L - (x.read + 1) /\ m[Written(x)] = L - (x.read + 1)
        /\ m[x] = L - x.read
    BY <1>3, RewritingGoesOn, RewritingIs
  <2> HIDE DEF L, m
  <2> QED BY <2>1
<1>4. \A x \in S : Stored(x) \in V
  <2> TAKE x \in S
  <2>1. /\ x.mem \in Seq(Nat) /\ x.read \in Nat /\ x.write \in Nat /\ x.write >= 1
        /\ x.write <= x.read /\ x.read <= Len(x.mem) /\ x.mem[x.read] \in Nat /\ Len(x.mem) \in Nat
    BY RewritingIs
  <2> DEFINE L == Len(x.mem)
  <2>2. x.write \in 1..L
    <3> HIDE DEF L
    <3> QED BY <2>1 DEF L
  <2> QED BY <2>1, <2>2, ExceptSeq DEF Stored
<1>5. rule \in [S \X [S -> V] -> V]
  <2>1. ASSUME NEW x \in S, NEW f \in [S -> V] PROVE rule[<<x, f>>] \in V
    <3>1. CASE x.mem[x.read] = 0
      BY <1>2, <1>4, <3>1
    <3>2. CASE x.mem[x.read] # 0
      <4>1. f[Skipped(x)] \in V /\ f[Written(x)] \in V
        <5> HIDE DEF m, S, V
        <5> QED BY <1>3, <3>2
      <4> QED BY <1>2, <3>2, <4>1
    <3> QED BY <3>1, <3>2
  <2> HIDE DEF S, V
  <2> QED BY <2>1
<1>6. Local(S, V, m, rule)
  <2> SUFFICES ASSUME NEW x \in S, NEW f \in [S -> V], NEW g \in [S -> V],
                      \A y \in S : m[y] < m[x] => f[y] = g[y]
               PROVE  rule[<<x, f>>] = rule[<<x, g>>]
    BY DEF Local
  <2>1. x.mem[x.read] # 0 => f[Skipped(x)] = g[Skipped(x)] /\ f[Written(x)] = g[Written(x)]
    <3> HIDE DEF m, S
    <3> QED BY <1>3
  <2> QED BY <1>2, <2>1
<1>7. PICK f \in [S -> V] : \A x \in S : f[x] = rule[<<x, f>>]
  <2>1. Solvable(S, V, rule)
    <3> HIDE DEF m, rule, S, V
    <3> QED BY <1>1, <1>5, <1>6, Recursion
  <2> QED BY <2>1 DEF Solvable
<1> DEFINE body(loop, s) ==
             LET c == s.mem[s.read]
                 stored == [s.mem EXCEPT ![s.write] = c]
             IN  CASE c = 0 -> stored
                  [] c = Text!Slash /\ s.prev_was_slash -> loop[[s EXCEPT !.read = @ + 1]]
                  [] OTHER -> loop[[mem |-> stored, read |-> s.read + 1, write |-> s.write + 1,
                                    prev_was_slash |-> c = Text!Slash]]
           Is(loop) == loop = [s \in Text!Rewriting |-> body(loop, s)]
           chosen == CHOOSE loop : Is(loop)
<1>8. \A loop : \A s \in S :
         body(loop, s) = IF s.mem[s.read] = 0 THEN Stored(s)
                         ELSE IF OverSlash(s) THEN loop[Skipped(s)] ELSE loop[Written(s)]
  BY DEF Stored, OverSlash, Skipped, Written, Text!Slash
<1>9. Is(f)
  <2>1. \A s \in S : f[s] = body(f, s)
    <3> HIDE DEF body, rule
    <3> QED BY <1>2, <1>7, <1>8
  <2> HIDE DEF body
  <2> QED BY <1>7, <2>1
<1>10. Is(chosen)
  <2> HIDE DEF Is
  <2> QED BY <1>9
<1>11. Text!normalize_path(string) =
          chosen[[mem |-> string, read |-> 1, write |-> 1, prev_was_slash |-> FALSE]]
  BY DEF Text!normalize_path
<1>12. \A s \in S : chosen[s] = body(chosen, s)
  <2> HIDE DEF chosen, body
  <2> QED BY <1>10
<1> HIDE DEF chosen, body
<1>13. RewritingLoop(chosen)
  BY <1>8, <1>12 DEF RewritingLoop
<1> QED BY <1>11, <1>13

\* The text of a string.
LEMMA TextOf ==
  ASSUME NEW str, NEW L, IsString(str, L)
  PROVE  /\ Text!String(str) \in Seq(Nat \ {0}) /\ Len(Text!String(str)) = L - 1
         /\ DOMAIN Text!String(str) = 1..L-1
         /\ \A k \in 1..L-1 : Text!String(str)[k] = str[k] /\ str[k] # 0 /\ str[k] \in Nat
<1>1. /\ str \in Seq(Nat) /\ DOMAIN str = 1..L /\ L \in Nat /\ L >= 1
      /\ \A k \in 1..L : str[k] \in Nat /\ (str[k] = 0 <=> k = L)
  BY DEF IsString
<1>2. str \in Seq(Int) /\ Len(str) = L
  <2>1. str \in Seq(Int)
    BY <1>1
  <2> QED BY <1>1, <2>1, LenProperties
<1>3. L \in 1..L /\ str[L] = 0 /\ \A j \in 1..L-1 : str[j] # 0 /\ str[j] \in Nat
  BY <1>1
<1>4. Text!String(str) = SubSeq(str, 1, L - 1)
  BY <1>2, <1>3, StringIs
<1> DEFINE t == SubSeq(str, 1, L - 1)
           n == L - 1
<1>5. n \in Nat /\ t = [k \in 1..n |-> str[k]]
  <2>1. /\ 1 \in 1..Len(str)+1 /\ n \in 0..Len(str) /\ n \in Nat
    BY <1>1, <1>2
  <2>2. /\ Len(t) = n /\ t \in Seq(Int) /\ \A k \in 1..n : t[k] = str[k]
    <3>1. /\ t \in Seq(Int) /\ Len(t) = IF 1 <= n THEN n - 1 + 1 ELSE 0
          /\ \A i \in 1..(n - 1 + 1) : t[i] = str[1 + i - 1]
      BY <1>2, <2>1, SubSeqProperties
    <3>2. (IF 1 <= n THEN n - 1 + 1 ELSE 0) = n /\ n - 1 + 1 = n /\ \A i \in 1..n : 1 + i - 1 = i
      <4> HIDE DEF n
      <4> QED BY <2>1
    <3> HIDE DEF t, n
    <3> QED BY <3>1, <3>2
  <2>3. t = [k \in 1..n |-> t[k]]
    <3> HIDE DEF t, n
    <3> QED BY <2>2, LenProperties
  <2> HIDE DEF t, n
  <2> QED BY <2>1, <2>2, <2>3
<1>6. \A k \in 1..n : str[k] \in Nat \ {0}
  BY <1>3
<1> HIDE DEF n, t
<1>7. t \in Seq(Nat \ {0}) /\ Len(t) = n /\ DOMAIN t = 1..n /\ \A k \in 1..n : t[k] = str[k]
  BY <1>5, <1>6, SequenceFrom
<1>8. Text!String(str) = t
  BY <1>4 DEF t
<1>9. \A k \in 1..n : str[k] # 0 /\ str[k] \in Nat
  BY <1>6
<1> QED BY <1>7, <1>8, <1>9 DEF n

\* After n characters what is left of them is g.
PathAt(st, n, g, str, L) ==
    /\ st \in Text!Rewriting /\ st.read = n + 1 /\ Len(st.mem) = L
    /\ \A k \in n+1..L : st.mem[k] = str[k]
    /\ st.write = Len(g) + 1 /\ \A k \in 1..Len(g) : st.mem[k] = g[k]
    /\ st.prev_was_slash = (n >= 1 /\ str[n] = Text!Slash)

\* Whether the n-th character stays.
Stays(str, n) == str[n] = Text!Slash /\ n > 1 => str[n - 1] # Text!Slash

PathReaches(n, h, str, L, loop, st) ==
    \E nx : PathAt(nx, n, h, str, L) /\ loop[nx] = loop[st]

\* One character more.
LEMMA PathGoesOn ==
  ASSUME NEW str, NEW L, IsString(str, L), NEW n \in 1..L-1, NEW st,
         NEW g \in Seq(Nat), PathAt(st, n - 1, g, str, L),
         NEW loop, RewritingLoop(loop), NEW h,
         h = IF Stays(str, n) THEN Append(g, str[n]) ELSE g
  PROVE  PathReaches(n, h, str, L, loop, st)
<1>1. /\ L \in Nat /\ n \in Nat /\ n >= 1 /\ n < L /\ n - 1 + 1 = n
      /\ \A k \in 1..L : str[k] \in Nat /\ (str[k] = 0 <=> k = L)
  BY DEF IsString
<1>2. /\ st \in Text!Rewriting /\ st.read = n /\ Len(st.mem) = L
      /\ \A k \in n..L : st.mem[k] = str[k]
      /\ st.write = Len(g) + 1 /\ \A k \in 1..Len(g) : st.mem[k] = g[k]
      /\ st.prev_was_slash = (n - 1 >= 1 /\ str[n - 1] = Text!Slash)
  BY <1>1 DEF PathAt
<1>3. st.mem[n] = str[n] /\ str[n] # 0 /\ str[n] \in Nat
  <2>1. n \in n..L /\ n \in 1..L /\ n # L
    BY <1>1
  <2> QED BY <1>1, <1>2, <2>1
<1>4. /\ Skipped(st) \in Text!Rewriting /\ Written(st) \in Text!Rewriting
      /\ Len(Stored(st)) = L /\ Stored(st) \in Seq(Nat)
      /\ Len(Skipped(st).mem) = L /\ Skipped(st).read = n + 1
      /\ Len(Written(st).mem) = L /\ Written(st).read = n + 1
  BY <1>2, <1>3, RewritingGoesOn
<1>5. /\ st.write \in Nat /\ st.write >= 1 /\ st.write <= n /\ st.mem \in Seq(Nat)
      /\ DOMAIN st.mem = 1..L /\ st.prev_was_slash \in BOOLEAN
  BY <1>2, RewritingIs
<1>6. OverSlash(st) <=> ~Stays(str, n)
  <2>1. n > 1 <=> n - 1 >= 1
    BY <1>1
  <2> QED BY <1>2, <1>3, <2>1 DEF OverSlash, Stays
<1>7. loop[st] = IF OverSlash(st) THEN loop[Skipped(st)] ELSE loop[Written(st)]
  BY <1>2, <1>3 DEF RewritingLoop
<1>8. CASE ~Stays(str, n)
  <2> DEFINE nx == Skipped(st)
  <2>1. h = g /\ loop[nx] = loop[st] /\ OverSlash(st)
    BY <1>6, <1>7, <1>8
  <2>2. /\ nx.mem = st.mem /\ nx.write = st.write /\ nx.prev_was_slash = st.prev_was_slash
    <3>1. st \in [mem : Seq(Nat), read : Nat, write : Nat \ {0}, prev_was_slash : BOOLEAN]
      BY <1>2 DEF Text!Rewriting
    <3> QED BY <3>1 DEF Skipped
  <2>3. st.prev_was_slash = TRUE /\ str[n] = Text!Slash /\ n >= 1
    BY <1>1, <1>2, <1>3, <1>5, <2>1 DEF OverSlash
  <2>4. \A k \in n+1..L : k \in n..L
    BY <1>1
  <2> HIDE DEF nx
  <2>5. PathAt(nx, n, h, str, L)
    <3>1. nx.read = n + 1 /\ Len(nx.mem) = L /\ nx \in Text!Rewriting
      BY <1>4 DEF nx
    <3>2. (\A k \in n+1..L : nx.mem[k] = str[k]) /\ nx.write = Len(h) + 1
          /\ \A k \in 1..Len(h) : nx.mem[k] = h[k]
      BY <1>2, <2>1, <2>2, <2>4
    <3>3. nx.prev_was_slash = (n >= 1 /\ str[n] = Text!Slash)
      BY <2>2, <2>3
    <3> QED BY <3>1, <3>2, <3>3 DEF PathAt
  <2> QED BY <2>1, <2>5 DEF PathReaches
<1>9. CASE Stays(str, n)
  <2> DEFINE nx == Written(st)
             q == Len(g)
             M == st.mem
  <2>1. h = Append(g, str[n]) /\ loop[nx] = loop[st]
    BY <1>6, <1>7, <1>9
  <2>2. /\ nx.mem = [M EXCEPT ![st.write] = str[n]] /\ nx.write = st.write + 1
        /\ nx.prev_was_slash = (str[n] = Text!Slash)
    BY <1>2, <1>3 DEF Written, Stored
  <2>3. q \in Nat /\ Len(h) = q + 1 /\ h[q + 1] = str[n] /\ \A k \in 1..q : h[k] = g[k]
    BY <1>3, <2>1, LenProperties, AppendProperties
  <2>4. st.write = q + 1 /\ DOMAIN M = 1..L
    BY <1>2, <1>5
  <2>5. \A k \in n+1..L : M[k] = str[k] /\ k \in 1..L /\ k # q + 1
    BY <1>1, <1>2, <1>5, <2>3, <2>4
  <2>6. q + 1 \in 1..L /\ \A k \in 1..q : k \in 1..L /\ k # q + 1
    BY <1>1, <1>5, <2>3, <2>4
  <2>7. \A k \in 1..q : M[k] = g[k]
    BY <1>2
  <2>8. nx \in Text!Rewriting /\ nx.read = n + 1 /\ Len(nx.mem) = L
    BY <1>4
  <2> HIDE DEF nx, M, q
  <2>9. \A k \in n+1..L : nx.mem[k] = str[k]
    BY <2>2, <2>4, <2>5
  <2>10. \A k \in 1..q : nx.mem[k] = h[k]
    BY <2>2, <2>3, <2>4, <2>6, <2>7
  <2>11. nx.mem[q + 1] = h[q + 1]
    BY <2>2, <2>3, <2>4, <2>6
  <2>12. \A k \in 1..Len(h) : nx.mem[k] = h[k]
    <3>1. \A k \in 1..q+1 : k \in 1..q \/ k = q + 1
      BY <2>3
    <3> QED BY <2>3, <2>10, <2>11, <3>1
  <2>13. nx.write = Len(h) + 1
    BY <2>2, <2>3, <2>4
  <2>14. nx.prev_was_slash = (n >= 1 /\ str[n] = Text!Slash)
    BY <1>1, <2>2
  <2>15. PathAt(nx, n, h, str, L)
    BY <2>8, <2>9, <2>12, <2>13, <2>14 DEF PathAt
  <2> QED BY <2>1, <2>15 DEF PathReaches
<1> QED BY <1>8, <1>9

\* At the end of the string what is left of it is g.
LEMMA PathEnds ==
  ASSUME NEW str, NEW L, IsString(str, L), NEW st, NEW g \in Seq(Nat \ {0}),
         PathAt(st, L - 1, g, str, L), NEW loop, RewritingLoop(loop)
  PROVE  Text!String(loop[st]) = g
<1>1. L \in Nat /\ L >= 1 /\ L - 1 + 1 = L /\ str[L] = 0
  <2>1. L \in Nat /\ L >= 1 /\ L \in 1..L /\ \A k \in 1..L : str[k] = 0 <=> k = L
    BY DEF IsString
  <2> QED BY <2>1
<1> DEFINE M == st.mem
           N == Stored(st)
           q == Len(g)
<1>2. /\ st \in Text!Rewriting /\ st.read = L /\ Len(M) = L /\ M[L] = 0
      /\ st.write = q + 1 /\ \A k \in 1..q : M[k] = g[k]
  <2>1. L \in L - 1 + 1..L
    BY <1>1
  <2> QED BY <1>1, <2>1 DEF PathAt
<1>3. st.write >= 1 /\ st.write <= L /\ M \in Seq(Nat) /\ DOMAIN M = 1..L
  BY <1>2, RewritingIs
<1>4. q \in Nat /\ \A k \in 1..q : g[k] \in Nat /\ g[k] # 0
  BY LenProperties, ElementOfSeq
<1>5. loop[st] = N
  BY <1>2 DEF RewritingLoop
<1>6. N = [M EXCEPT ![q + 1] = 0]
  BY <1>2 DEF Stored
<1> HIDE DEF M, N, q
<1>7. q + 1 \in 1..L /\ \A k \in 1..q : k \in 1..L /\ k # q + 1
  BY <1>1, <1>2, <1>3, <1>4
<1>8. /\ N \in Seq(Nat) /\ Len(N) = L
  <2>1. /\ N \in Seq(Nat) /\ Len(N) = Len(M)
    BY <1>2, <1>3, <1>6, <1>7, ExceptSeq
  <2> QED BY <1>2, <2>1
<1>9. N[q + 1] = 0 /\ \A k \in 1..q : N[k] = g[k]
  BY <1>2, <1>3, <1>6, <1>7
<1>10. Text!String(N) = SubSeq(N, 1, q)
  <2>1. \A j \in 1..(q + 1) - 1 : N[j] # 0
    <3>1. (q + 1) - 1 = q
      BY <1>4
    <3> QED BY <1>4, <1>9, <3>1
  <2>2. N \in Seq(Int) /\ q + 1 \in 1..Len(N)
    BY <1>7, <1>8
  <2>3. Text!String(N) = SubSeq(N, 1, (q + 1) - 1)
    BY <1>9, <2>1, <2>2, StringIs
  <2>4. (q + 1) - 1 = q
    BY <1>4
  <2> QED BY <2>3, <2>4
<1>11. SubSeq(N, 1, q) = g
  <2> DEFINE t == SubSeq(N, 1, q)
  <2>1. 1 \in 1..Len(N)+1 /\ q \in 0..Len(N)
    BY <1>4, <1>7, <1>8
  <2>2. /\ t \in Seq(Nat) /\ Len(t) = IF 1 <= q THEN q - 1 + 1 ELSE 0
        /\ \A i \in 1..(q - 1 + 1) : t[i] = N[1 + i - 1]
    BY <1>8, <2>1, SubSeqProperties
  <2>3. (IF 1 <= q THEN q - 1 + 1 ELSE 0) = q /\ q - 1 + 1 = q /\ \A i \in 1..q : 1 + i - 1 = i
    BY <1>4
  <2> HIDE DEF t
  <2>4. Len(t) = q /\ \A i \in 1..q : t[i] = N[i]
    BY <2>2, <2>3
  <2>5. \A i \in 1..q : t[i] = g[i]
    BY <1>9, <2>4
  <2>6. g \in Seq(Nat) /\ Len(g) = q
    <3>1. g \in Seq(Nat)
      OBVIOUS
    <3> QED BY <3>1 DEF q
  <2>7. t = g
    BY <2>2, <2>4, <2>5, <2>6, SeqEqual
  <2> QED BY <2>7 DEF t
<1> QED BY <1>5, <1>10, <1>11

\* normalize-path is right.
LEMMA PathNormalized ==
  ASSUME NEW str \in Text!Strings, NEW s, s = Text!String(str),
         NEW P, P = {k \in DOMAIN s : s[k] = Text!Slash /\ k > 1 => s[k - 1] # Text!Slash}
  PROVE  Text!String(Text!normalize_path(str)) = Text!At(s, P)
<1> DEFINE L == Len(str)
           N == L - 1
           T == Nat \ {0}
           st0 == [mem |-> str, read |-> 1, write |-> 1, prev_was_slash |-> FALSE]
<1>1. IsString(str, L)
  BY StringsAre
<1>2. /\ str \in Seq(Nat) /\ DOMAIN str = 1..L /\ L \in Nat /\ L >= 1
      /\ \A k \in 1..L : str[k] = 0 <=> k = L
  BY <1>1 DEF IsString
<1>3. /\ s \in Seq(T) /\ Len(s) = N /\ DOMAIN s = 1..N
      /\ \A k \in 1..N : s[k] = str[k] /\ str[k] # 0 /\ str[k] \in Nat
  BY <1>1, TextOf
<1>4. PICK f : PickedBy(f, s, P, T)
  BY <1>3, AtIs
<1>5. /\ f \in [0..N -> Seq(T)] /\ f[0] = <<>> /\ Text!At(s, P) = f[N]
      /\ \A n \in 1..N : f[n] = IF n \in P THEN Append(f[n - 1], s[n]) ELSE f[n - 1]
  <2> HIDE DEF N, T
  <2> QED BY <1>3, <1>4 DEF PickedBy
<1>6. PICK loop : RewritingLoop(loop) /\ Text!normalize_path(str) = loop[st0]
  BY RewritingLoops
<1>7. Len(str) = L
  OBVIOUS
<1> HIDE DEF L, T
<1>8. N \in Nat /\ 0 \in 0..N /\ \A n \in 1..N : n - 1 \in 0..N /\ n \in 0..N /\ n \in Nat
  BY <1>2
<1>9. ASSUME NEW n \in 1..N PROVE n \in P <=> Stays(str, n)
  <2>1. n > 1 => n - 1 \in 1..N
    BY <1>2
  <2> QED BY <1>3, <2>1 DEF Stays
<1>10. PathAt(st0, 0, f[0], str, L)
  <2>1. st0 \in Text!Rewriting
    <3>1. L \in 1..Len(str) /\ str[L] = 0
      BY <1>2, <1>7
    <3>2. st0 \in [mem : Seq(Nat), read : Nat, write : Nat \ {0}, prev_was_slash : BOOLEAN]
      BY <1>2
    <3>3. st0.mem = str /\ st0.read = 1 /\ st0.write = 1
      OBVIOUS
    <3> HIDE DEF st0
    <3>4. \E k \in st0.read..Len(st0.mem) : st0.mem[k] = 0
      BY <3>1, <3>3
    <3> QED BY <3>2, <3>3, <3>4 DEF Text!Rewriting
  <2>2. /\ st0.mem = str /\ st0.read = 0 + 1 /\ st0.write = 1 /\ st0.prev_was_slash = FALSE
    OBVIOUS
  <2>3. Len(f[0]) = 0
    BY <1>5
  <2> HIDE DEF st0
  <2>4. st0.write = Len(f[0]) + 1 /\ \A k \in 1..Len(f[0]) : st0.mem[k] = f[0][k]
    BY <2>2, <2>3
  <2>5. st0.prev_was_slash = (0 >= 1 /\ str[0] = Text!Slash)
    <3> DEFINE b == 0 >= 1 /\ str[0] = Text!Slash
    <3>1. b \in BOOLEAN /\ ~b
      OBVIOUS
    <3> HIDE DEF b
    <3>2. st0.prev_was_slash = b
      BY <2>2, <3>1
    <3> QED BY <3>2 DEF b
  <2> QED BY <1>7, <2>1, <2>2, <2>4, <2>5 DEF PathAt
<1> HIDE DEF st0
<1> DEFINE R == {n \in 0..N : \E st : PathAt(st, n, f[n], str, L) /\ loop[st] = loop[st0]}
<1>11. 0 \in R
  BY <1>8, <1>10
<1>12. ASSUME NEW n \in 1..N, n - 1 \in R PROVE n \in R
  <2>1. PICK st : PathAt(st, n - 1, f[n - 1], str, L) /\ loop[st] = loop[st0]
    BY <1>12
  <2>2. f[n - 1] \in Seq(Nat)
    <3>1. f[n - 1] \in Seq(T)
      BY <1>5, <1>8
    <3> QED BY <3>1 DEF T
  <2>3. f[n] = IF Stays(str, n) THEN Append(f[n - 1], str[n]) ELSE f[n - 1]
    BY <1>3, <1>5, <1>9
  <2>4. n \in 1..L-1
    OBVIOUS
  <2>5. PICK nx : PathAt(nx, n, f[n], str, L) /\ loop[nx] = loop[st]
    <3> DEFINE g == f[n - 1]
               h == f[n]
    <3>1. /\ g \in Seq(Nat) /\ h = (IF Stays(str, n) THEN Append(g, str[n]) ELSE g)
          /\ PathAt(st, n - 1, g, str, L)
      BY <2>1, <2>2, <2>3
    <3> HIDE DEF g, h
    <3>2. PathReaches(n, h, str, L, loop, st)
      BY <1>1, <1>6, <2>4, <3>1, PathGoesOn
    <3> QED BY <3>2 DEF h, PathReaches
  <2> QED BY <1>8, <2>1, <2>5
<1>13. N \in R
  <2>1. \A n \in 1..N : n - 1 \in R => n \in R
    BY <1>12
  <2>2. N \in Nat /\ N \in 0..N
    BY <1>8
  <2> HIDE DEF R, N
  <2>3. 0..N \subseteq R
    BY <1>11, <2>1, <2>2, PrefixInduction
  <2> QED BY <2>2, <2>3
<1>14. PICK st : PathAt(st, L - 1, f[N], str, L) /\ loop[st] = loop[st0]
  BY <1>13
<1>15. f[N] \in Seq(Nat \ {0})
  <2>1. N \in 0..N
    BY <1>8
  <2> QED BY <1>5, <2>1 DEF T
<1>16. Text!String(loop[st]) = f[N]
  <2> HIDE DEF N
  <2> QED BY <1>1, <1>6, <1>14, <1>15, PathEnds
<1> QED BY <1>5, <1>6, <1>14, <1>16

-----------------------------------------------------------------------------
(* utf-wc: what is encoded is decoded, and what its loop counts.              *)

\* The last six bits and the others.
LEMMA SixBits ==
  ASSUME NEW x \in Nat
  PROVE  /\ x \div 64 \in Nat /\ x % 64 \in Nat /\ x % 64 <= 63 /\ x = 64 * (x \div 64) + (x % 64)
         /\ x \div 4096 = (x \div 64) \div 64 /\ x \div 262144 = (x \div 4096) \div 64
         /\ (128 + (x % 64)) % 64 = x % 64
OBVIOUS

\* The bytes e of a code point stand for it.
Decodes(cp, e) ==
    /\ e \in Seq(Nat) /\ Len(e) \in 1..4 /\ Text!Length(e[1]) = Len(e)
    /\ \A s, k : s[k] = e[1] /\ (\A j \in 1..Len(e)-1 : s[k + j] = e[j + 1])
                   => Text!CodePoint(s, k) = cp

\* What CodePoint is, by the length of the character.
LEMMA CodePointIs ==
  ASSUME NEW s, NEW k, NEW n, Text!Length(s[k]) = n
  PROVE  /\ n = 1 => Text!CodePoint(s, k) = s[k]
         /\ n = 2 => Text!CodePoint(s, k) = 64 * (s[k] % 32) + Text!Low(s, k, 1)
         /\ n = 3 => Text!CodePoint(s, k) =
                       64 * (64 * (s[k] % 16) + Text!Low(s, k, 1)) + Text!Low(s, k, 2)
         /\ n = 4 => Text!CodePoint(s, k) =
                       64 * (64 * (64 * (s[k] % 8) + Text!Low(s, k, 1)) + Text!Low(s, k, 2))
                       + Text!Low(s, k, 3)
<1> DEFINE c2 == 64 * (s[k] % 32) + Text!Low(s, k, 1)
           c3 == 64 * (64 * (s[k] % 16) + Text!Low(s, k, 1)) + Text!Low(s, k, 2)
           c4 == 64 * (64 * (64 * (s[k] % 8) + Text!Low(s, k, 1)) + Text!Low(s, k, 2))
                 + Text!Low(s, k, 3)
<1>1. Text!CodePoint(s, k) = CASE n = 1 -> s[k] [] n = 2 -> c2 [] n = 3 -> c3 [] n = 4 -> c4
  BY DEF Text!CodePoint
<1> HIDE DEF c2, c3, c4
<1>2. /\ n = 1 => Text!CodePoint(s, k) = s[k]
      /\ n = 2 => Text!CodePoint(s, k) = c2
      /\ n = 3 => Text!CodePoint(s, k) = c3
      /\ n = 4 => Text!CodePoint(s, k) = c4
  BY <1>1
<1> QED BY <1>2 DEF c2, c3, c4

\* A code point of one byte.
LEMMA OneByte ==
  ASSUME NEW cp \in Nat, cp < 128
  PROVE  Decodes(cp, <<cp>>)
<1> DEFINE e == <<cp>>
<1>1. e \in Seq(Nat) /\ Len(e) = 1 /\ e[1] = cp
  OBVIOUS
<1>2. Text!Length(cp) = 1
  BY DEF Text!Length
<1>3. ASSUME NEW s, NEW k, s[k] = cp PROVE Text!CodePoint(s, k) = cp
  BY <1>2, <1>3, CodePointIs
<1> HIDE DEF e
<1>4. Len(e) \in 1..4
  BY <1>1
<1> QED BY <1>1, <1>2, <1>3, <1>4 DEF Decodes, e

\* A code point of two bytes.
LEMMA TwoBytes ==
  ASSUME NEW cp \in Nat, cp >= 128, cp <= 2047
  PROVE  Decodes(cp, <<192 + cp \div 64, 128 + (cp % 64)>>)
<1> DEFINE q == cp \div 64
           b == cp % 64
           e == <<192 + q, 128 + b>>
<1>1. /\ q \in Nat /\ b \in Nat /\ b <= 63 /\ cp = 64 * q + b /\ (128 + b) % 64 = b
  BY SixBits
<1> HIDE DEF q, b
<1>2. q <= 31
  BY <1>1
<1>3. /\ 192 + q \in Nat /\ 128 + b \in Nat /\ ~(192 + q < 128) /\ (192 + q) \div 32 = 6
      /\ (192 + q) % 32 = q
  BY <1>1, <1>2
<1>4. e \in Seq(Nat) /\ Len(e) = 2 /\ e[1] = 192 + q /\ e[2] = 128 + b
  BY <1>3
<1>5. Text!Length(192 + q) = 2
  BY <1>3 DEF Text!Length
<1>6. ASSUME NEW s, NEW k, s[k] = 192 + q, s[k + 1] = 128 + b PROVE Text!CodePoint(s, k) = cp
  <2>1. Text!CodePoint(s, k) = 64 * (s[k] % 32) + Text!Low(s, k, 1)
    BY <1>5, <1>6, CodePointIs
  <2>2. Text!Low(s, k, 1) = b
    BY <1>1, <1>6 DEF Text!Low
  <2>3. s[k] % 32 = q
    BY <1>3, <1>6
  <2> QED BY <1>1, <2>1, <2>2, <2>3
<1> HIDE DEF e
<1>7. Len(e) \in 1..4 /\ \A s, k : (\A j \in 1..Len(e)-1 : s[k + j] = e[j + 1]) => s[k + 1] = e[2]
  <2>1. 1 \in 1..Len(e)-1 /\ 1 + 1 = 2 /\ Len(e) \in 1..4
    BY <1>4
  <2> QED BY <2>1
<1>8. Decodes(cp, e)
  BY <1>4, <1>5, <1>6, <1>7 DEF Decodes
<1> QED BY <1>8 DEF e, q, b

\* A code point of three bytes.
LEMMA ThreeBytes ==
  ASSUME NEW cp \in Nat, cp >= 2048, cp <= 65535
  PROVE  Decodes(cp, <<224 + cp \div 4096, 128 + ((cp \div 64) % 64), 128 + (cp % 64)>>)
<1> DEFINE r == cp \div 64
           q == cp \div 4096
           a == r % 64
           b == cp % 64
           e == <<224 + q, 128 + a, 128 + b>>
<1>1. /\ r \in Nat /\ b \in Nat /\ b <= 63 /\ cp = 64 * r + b /\ (128 + b) % 64 = b
      /\ q = r \div 64
  BY SixBits
<1>2. q \in Nat /\ a \in Nat /\ a <= 63 /\ r = 64 * q + a /\ (128 + a) % 64 = a
  <2> HIDE DEF r, q, b
  <2> QED BY <1>1, SixBits
<1> HIDE DEF q, r, a, b
<1>3. q <= 15
  BY <1>1, <1>2
<1>4. /\ 224 + q \in Nat /\ 128 + b \in Nat /\ 128 + a \in Nat /\ ~(224 + q < 128)
      /\ (224 + q) \div 32 = 7 /\ (224 + q) \div 16 = 14 /\ (224 + q) % 16 = q
  BY <1>1, <1>2, <1>3
<1>5. e \in Seq(Nat) /\ Len(e) = 3 /\ e[1] = 224 + q /\ e[2] = 128 + a /\ e[3] = 128 + b
  BY <1>4
<1>6. Text!Length(224 + q) = 3
  BY <1>4 DEF Text!Length
<1>7. ASSUME NEW s, NEW k, s[k] = 224 + q, s[k + 1] = 128 + a, s[k + 2] = 128 + b
      PROVE  Text!CodePoint(s, k) = cp
  <2>1. Text!CodePoint(s, k) =
          64 * (64 * (s[k] % 16) + Text!Low(s, k, 1)) + Text!Low(s, k, 2)
    BY <1>6, <1>7, CodePointIs
  <2>2. Text!Low(s, k, 1) = a /\ Text!Low(s, k, 2) = b
    BY <1>1, <1>2, <1>7 DEF Text!Low
  <2>3. s[k] % 16 = q
    BY <1>4, <1>7
  <2>4. Text!CodePoint(s, k) = 64 * (64 * q + a) + b
    BY <2>1, <2>2, <2>3
  <2> QED BY <1>1, <1>2, <2>4
<1> HIDE DEF e
<1>8. /\ Len(e) \in 1..4
      /\ \A s, k : (\A j \in 1..Len(e)-1 : s[k + j] = e[j + 1]) => s[k + 1] = e[2] /\ s[k + 2] = e[3]
  <2>1. /\ 1 \in 1..Len(e)-1 /\ 1 + 1 = 2 /\ 2 \in 1..Len(e)-1 /\ 2 + 1 = 3 /\ Len(e) \in 1..4
    BY <1>5
  <2> QED BY <2>1
<1>9. Decodes(cp, e)
  BY <1>5, <1>6, <1>7, <1>8 DEF Decodes
<1> QED BY <1>9 DEF e, q, r, a, b

\* A code point of four bytes.
LEMMA FourBytes ==
  ASSUME NEW cp \in Nat, cp >= 65536, cp <= 1114111
  PROVE  Decodes(cp, <<240 + cp \div 262144, 128 + ((cp \div 4096) % 64),
                       128 + ((cp \div 64) % 64), 128 + (cp % 64)>>)
<1> DEFINE r == cp \div 64
           t == cp \div 4096
           q == cp \div 262144
           c == t % 64
           a == r % 64
           b == cp % 64
           e == <<240 + q, 128 + c, 128 + a, 128 + b>>
<1>1. /\ r \in Nat /\ b \in Nat /\ b <= 63 /\ cp = 64 * r + b /\ (128 + b) % 64 = b
      /\ t = r \div 64 /\ q = t \div 64
  BY SixBits
<1>2. t \in Nat /\ a \in Nat /\ a <= 63 /\ r = 64 * t + a /\ (128 + a) % 64 = a
  <2> HIDE DEF r, q, b, t
  <2> QED BY <1>1, SixBits
<1>3. q \in Nat /\ c \in Nat /\ c <= 63 /\ t = 64 * q + c /\ (128 + c) % 64 = c
  <2> HIDE DEF r, q, b, t, a
  <2> QED BY <1>1, <1>2, SixBits
<1> HIDE DEF q, r, t, a, b, c
<1>4. q <= 4
  BY <1>1, <1>2, <1>3
<1>5. /\ 240 + q \in Nat /\ 128 + b \in Nat /\ 128 + a \in Nat /\ 128 + c \in Nat
      /\ ~(240 + q < 128) /\ (240 + q) \div 32 = 7 /\ (240 + q) \div 16 = 15 /\ (240 + q) % 8 = q
  BY <1>1, <1>2, <1>3, <1>4
<1>6. /\ e \in Seq(Nat) /\ Len(e) = 4 /\ e[1] = 240 + q /\ e[2] = 128 + c
      /\ e[3] = 128 + a /\ e[4] = 128 + b
  BY <1>5
<1>7. Text!Length(240 + q) = 4
  BY <1>5 DEF Text!Length
<1>8. ASSUME NEW s, NEW k, s[k] = 240 + q, s[k + 1] = 128 + c, s[k + 2] = 128 + a, s[k + 3] = 128 + b
      PROVE  Text!CodePoint(s, k) = cp
  <2>1. Text!CodePoint(s, k) =
          64 * (64 * (64 * (s[k] % 8) + Text!Low(s, k, 1)) + Text!Low(s, k, 2)) + Text!Low(s, k, 3)
    BY <1>7, <1>8, CodePointIs
  <2>2. Text!Low(s, k, 1) = c /\ Text!Low(s, k, 2) = a /\ Text!Low(s, k, 3) = b
    BY <1>1, <1>2, <1>3, <1>8 DEF Text!Low
  <2>3. s[k] % 8 = q
    BY <1>5, <1>8
  <2>4. Text!CodePoint(s, k) = 64 * (64 * (64 * q + c) + a) + b
    BY <2>1, <2>2, <2>3
  <2> QED BY <1>1, <1>2, <1>3, <2>4
<1> HIDE DEF e
<1>9. /\ Len(e) \in 1..4
      /\ \A s, k : (\A j \in 1..Len(e)-1 : s[k + j] = e[j + 1])
                     => s[k + 1] = e[2] /\ s[k + 2] = e[3] /\ s[k + 3] = e[4]
  <2>1. /\ 1 \in 1..Len(e)-1 /\ 1 + 1 = 2 /\ 2 \in 1..Len(e)-1 /\ 2 + 1 = 3
        /\ 3 \in 1..Len(e)-1 /\ 3 + 1 = 4 /\ Len(e) \in 1..4
    BY <1>6
  <2> QED BY <2>1
<1>10. Decodes(cp, e)
  BY <1>6, <1>7, <1>8, <1>9 DEF Decodes
<1> QED BY <1>10 DEF e, q, r, t, a, b, c

\* What Encode writes is read back.
LEMMA EncodeDecodes ==
  ASSUME NEW cp \in Text!CodePoints
  PROVE  Decodes(cp, Text!Encode(cp))
<1> DEFINE e1 == <<cp>>
           e2 == <<192 + cp \div 64, 128 + (cp % 64)>>
           e3 == <<224 + cp \div 4096, 128 + ((cp \div 64) % 64), 128 + (cp % 64)>>
           e4 == <<240 + cp \div 262144, 128 + ((cp \div 4096) % 64),
                   128 + ((cp \div 64) % 64), 128 + (cp % 64)>>
           two == cp >= 128 /\ cp < 2048
           three == cp >= 2048 /\ cp < 65536
           one == cp < 128
<1>1. cp \in Nat /\ cp <= 1114111
  BY DEF Text!CodePoints
<1>2. /\ one <=> cp < 128
      /\ two <=> cp >= 128 /\ cp <= 2047
      /\ three <=> cp >= 2048 /\ cp <= 65535
  BY <1>1
<1>3. Text!Encode(cp) = CASE one -> e1 [] two -> e2 [] three -> e3 [] OTHER -> e4
  BY DEF Text!Encode
<1> HIDE DEF one, two, three
<1>4. one => Decodes(cp, e1)
  BY <1>1, <1>2, OneByte
<1>5. two => Decodes(cp, e2)
  BY <1>1, <1>2, TwoBytes
<1>6. three => Decodes(cp, e3)
  BY <1>1, <1>2, ThreeBytes
<1>7. ~one /\ ~two /\ ~three => Decodes(cp, e4)
  <2>1. ~one /\ ~two /\ ~three => cp >= 65536
    BY <1>1, <1>2
  <2> QED BY <1>1, <2>1, FourBytes
<1>8. one => ~two /\ ~three
  BY <1>1, <1>2
<1>9. two => ~three
  BY <1>1, <1>2
<1> HIDE DEF e1, e2, e3, e4
<1>10. CASE one
  <2>1. Text!Encode(cp) = e1
    BY <1>3, <1>8, <1>10
  <2> QED BY <1>4, <1>10, <2>1
<1>11. CASE two
  <2>1. Text!Encode(cp) = e2
    BY <1>3, <1>8, <1>9, <1>11
  <2> QED BY <1>5, <1>11, <2>1
<1>12. CASE three
  <2>1. Text!Encode(cp) = e3
    BY <1>3, <1>8, <1>9, <1>12
  <2> QED BY <1>6, <1>12, <2>1
<1>13. CASE ~one /\ ~two /\ ~three
  <2>1. Text!Encode(cp) = e4
    BY <1>3, <1>13
  <2> QED BY <1>7, <1>13, <2>1
<1> QED BY <1>10, <1>11, <1>12, <1>13

\* Where each of the sequences lies in the joined one.
PartsLie(f, seqs) ==
    /\ \A n \in 0..Len(seqs) : Len(f[n]) \in Nat /\ Len(f[n]) <= Len(Text!Joined(seqs))
    /\ Len(f[0]) = 0 /\ Len(f[Len(seqs)]) = Len(Text!Joined(seqs))
    /\ \A n \in 1..Len(seqs) :
          /\ Len(f[n]) = Len(f[n - 1]) + Len(seqs[n])
          /\ \A j \in 1..Len(seqs[n]) : Text!Joined(seqs)[Len(f[n - 1]) + j] = seqs[n][j]

\* The parts lie one behind the other.
LEMMA PartsOfJoined ==
  ASSUME NEW T, NEW seqs \in Seq(Seq(T)), NEW f, JoinedBy(f, seqs, T)
  PROVE  PartsLie(f, seqs)
<1> DEFINE N == Len(seqs)
           V == Seq(T)
           J == Text!Joined(seqs)
<1>1. N \in Nat /\ \A n \in 1..N : seqs[n] \in V /\ n - 1 \in 0..N /\ n \in 0..N
  OBVIOUS
<1>2. /\ f \in [0..N -> V] /\ f[0] = <<>> /\ J = f[N]
      /\ \A n \in 1..N : f[n] = f[n - 1] \o seqs[n]
  BY DEF JoinedBy
<1> HIDE DEF N, V, J
<1>3. \A n \in 0..N : f[n] \in Seq(T) /\ Len(f[n]) \in Nat
  <2> TAKE n \in 0..N
  <2>1. f[n] \in Seq(T)
    BY <1>2 DEF V
  <2> QED BY <2>1, LenProperties
<1>4. ASSUME NEW n \in 1..N
      PROVE  /\ Len(f[n]) = Len(f[n - 1]) + Len(seqs[n]) /\ Len(seqs[n]) \in Nat
             /\ \A i \in 1..Len(f[n - 1]) : f[n][i] = f[n - 1][i]
             /\ \A j \in 1..Len(seqs[n]) : f[n][Len(f[n - 1]) + j] = seqs[n][j]
  <2> DEFINE g == f[n - 1]
             q == seqs[n]
             h == f[n]
  <2>1. g \in Seq(T) /\ q \in Seq(T) /\ h = g \o q
    BY <1>1, <1>2, <1>3 DEF V
  <2> HIDE DEF g, q, h
  <2> DEFINE a == Len(g)
             b == Len(q)
  <2>2. /\ a \in Nat /\ b \in Nat /\ Len(h) = a + b
        /\ \A i \in 1..a+b : h[i] = IF i <= a THEN g[i] ELSE q[i - a]
    BY <2>1, ConcatProperties, LenProperties
  <2> HIDE DEF a, b
  <2>3. \A i \in 1..a : h[i] = g[i]
    BY <2>2
  <2>4. \A j \in 1..b : a + j \in 1..a+b /\ ~(a + j <= a) /\ (a + j) - a = j
    BY <2>2
  <2>5. \A j \in 1..b : h[a + j] = q[j]
    BY <2>2, <2>4
  <2> QED BY <2>2, <2>3, <2>5 DEF a, b, g, q, h
<1> DEFINE Begins(n, m) == Len(f[n]) <= Len(f[m]) /\ \A i \in 1..Len(f[n]) : f[m][i] = f[n][i]
<1>5. ASSUME NEW n \in 0..N PROVE Begins(n, N)
  <2> DEFINE P == {m \in 0..N : n <= m => Begins(n, m)}
  <2>1. 0 \in P
    <3>1. n <= 0 => n = 0
      BY <1>1
    <3>2. Begins(n, n)
      BY <1>3
    <3>3. 0 \in 0..N
      BY <1>1
    <3> HIDE DEF Begins
    <3> QED BY <3>1, <3>2, <3>3
  <2>2. ASSUME NEW m \in 1..N, m - 1 \in P PROVE m \in P
    <3>1. n <= m => n = m \/ n <= m - 1
      BY <1>1
    <3>2. Begins(n, n)
      BY <1>3
    <3>3. CASE n <= m - 1
      <4>1. Begins(n, m - 1)
        BY <2>2, <3>3
      <4> DEFINE a == Len(f[n])
                 b == Len(f[m - 1])
                 c == Len(f[m])
                 d == Len(seqs[m])
      <4>2. /\ a \in Nat /\ b \in Nat /\ c \in Nat /\ d \in Nat /\ c = b + d /\ a <= b
            /\ \A i \in 1..a : f[m - 1][i] = f[n][i]
            /\ \A i \in 1..b : f[m][i] = f[m - 1][i]
        BY <1>1, <1>3, <1>4, <4>1
      <4> HIDE DEF a, b, c, d
      <4>3. a <= c /\ \A i \in 1..a : i \in 1..b
        BY <4>2
      <4>4. \A i \in 1..a : f[m][i] = f[n][i]
        BY <4>2, <4>3
      <4>5. Begins(n, m)
        BY <4>3, <4>4 DEF a, c
      <4> QED BY <1>1, <4>5
    <3> HIDE DEF Begins
    <3> QED BY <1>1, <3>1, <3>2, <3>3
  <2> HIDE DEF P
  <2>3. 0..N \subseteq P
    BY <1>1, <2>1, <2>2, PrefixInduction
  <2>4. N \in P /\ n <= N
    BY <1>1, <2>3
  <2> HIDE DEF Begins
  <2> QED BY <2>4 DEF P
<1>6. \A n \in 0..N : Len(f[n]) <= Len(J) /\ \A i \in 1..Len(f[n]) : J[i] = f[n][i]
  BY <1>2, <1>5
<1>7. ASSUME NEW n \in 1..N, NEW j \in 1..Len(seqs[n]) PROVE J[Len(f[n - 1]) + j] = seqs[n][j]
  <2> DEFINE a == Len(f[n - 1])
             b == Len(seqs[n])
             c == Len(f[n])
  <2>1. a \in Nat /\ b \in Nat /\ c = a + b /\ j \in 1..b
    BY <1>1, <1>3, <1>4
  <2> HIDE DEF a, b, c
  <2>2. a + j \in 1..c
    BY <2>1
  <2>3. J[a + j] = f[n][a + j]
    BY <1>1, <1>6, <2>2 DEF c
  <2>4. f[n][a + j] = seqs[n][j]
    BY <1>4, <2>1 DEF a, b
  <2> QED BY <2>3, <2>4 DEF a
<1>8. Len(f[0]) = 0 /\ Len(f[N]) = Len(J)
  BY <1>2
<1> QED BY <1>3, <1>4, <1>6, <1>7, <1>8 DEF PartsLie, N, J

Counting == [next : Nat, codepoints : Nat, cyrillic : Nat]
CountedOn(s, r) ==
    [next |-> r.next + Text!Length(s[r.next]), codepoints |-> r.codepoints + 1,
     cyrillic |-> IF Text!Cyrillic(Text!CodePoint(s, r.next)) THEN r.cyrillic + 1 ELSE r.cyrillic]

\* What utf-wc's loop does in one round.
CountingLoop(s, loop) ==
    \A r \in Counting :
       loop[r] = IF r.next > Len(s) THEN <<r.codepoints, r.cyrillic>> ELSE loop[CountedOn(s, r)]

\* A character has a byte.
LEMMA LengthIs ==
  ASSUME NEW b
  PROVE  Text!Length(b) \in Nat /\ Text!Length(b) >= 1
BY DEF Text!Length

\* So utf_wc is that loop from its first state.
LEMMA CountingLoops ==
  ASSUME NEW s, Len(s) \in Nat
  PROVE  \E loop : /\ CountingLoop(s, loop)
                   /\ Text!utf_wc(s) = loop[[next |-> 1, codepoints |-> 0, cyrillic |-> 0]]
<1> DEFINE L == Len(s)
           S == Counting
           V == Nat \X Nat
           m == [r \in S |-> IF r.next > L THEN 0 ELSE L + 1 - r.next]
           rule == [p \in S \X [S -> V] |->
                      IF p[1].next > L THEN <<p[1].codepoints, p[1].cyrillic>>
                      ELSE p[2][CountedOn(s, p[1])]]
<1>0. L \in Nat
  OBVIOUS
<1>1. m \in [S -> Nat] /\ V # {}
  <2> HIDE DEF L
  <2>1. \A r \in S : r.next \in Nat
    BY DEF Counting
  <2>2. \A r \in S : (IF r.next > L THEN 0 ELSE L + 1 - r.next) \in Nat
    BY <1>0, <2>1
  <2>3. <<0, 0>> \in V
    OBVIOUS
  <2> HIDE DEF S, V
  <2> QED BY <2>2, <2>3
<1>2. \A x \in S, f \in [S -> V] :
         rule[<<x, f>>] = IF x.next > L THEN <<x.codepoints, x.cyrillic>> ELSE f[CountedOn(s, x)]
  OBVIOUS
<1>3. ASSUME NEW x \in S
      PROVE  /\ CountedOn(s, x) \in S
             /\ ~(x.next > L) => m[CountedOn(s, x)] < m[x]
  <2> DEFINE d == Text!Length(s[x.next])
             y == CountedOn(s, x)
  <2>1. /\ x.next \in Nat /\ x.codepoints \in Nat /\ x.cyrillic \in Nat /\ d \in Nat /\ d >= 1
    BY LengthIs DEF Counting
  <2>2. y \in S /\ y.next = x.next + d
    BY <2>1 DEF CountedOn, Counting
  <2>3. /\ m[x] = IF x.next > L THEN 0 ELSE L + 1 - x.next
        /\ m[y] = IF x.next + d > L THEN 0 ELSE L + 1 - (x.next + d)
    <3> HIDE DEF y, d, L, S
    <3> QED BY <2>2
  <2> HIDE DEF m, L, y, d
  <2>4. ~(x.next > L) => m[y] < m[x]
    BY <1>0, <2>1, <2>3
  <2> QED BY <2>2, <2>4 DEF y
<1>4. \A x \in S : <<x.codepoints, x.cyrillic>> \in V
  BY DEF Counting
<1>5. rule \in [S \X [S -> V] -> V]
  <2>1. ASSUME NEW x \in S, NEW f \in [S -> V] PROVE rule[<<x, f>>] \in V
    <3>1. f[CountedOn(s, x)] \in V
      <4> HIDE DEF m, S, V
      <4> QED BY <1>3
    <3> QED BY <1>2, <1>4, <3>1
  <2> HIDE DEF S, V, L
  <2> QED BY <2>1
<1>6. Local(S, V, m, rule)
  <2> SUFFICES ASSUME NEW x \in S, NEW f \in [S -> V], NEW g \in [S -> V],
                      \A y \in S : m[y] < m[x] => f[y] = g[y]
               PROVE  rule[<<x, f>>] = rule[<<x, g>>]
    BY DEF Local
  <2>1. ~(x.next > L) => f[CountedOn(s, x)] = g[CountedOn(s, x)]
    <3> HIDE DEF m, S
    <3> QED BY <1>3
  <2> QED BY <1>2, <2>1
<1>7. PICK f \in [S -> V] : \A x \in S : f[x] = rule[<<x, f>>]
  <2>1. Solvable(S, V, rule)
    <3> HIDE DEF m, rule, S, V
    <3> QED BY <1>1, <1>5, <1>6, Recursion
  <2> QED BY <2>1 DEF Solvable
<1> DEFINE body(loop, r) ==
             IF r.next > Len(s) THEN <<r.codepoints, r.cyrillic>>
             ELSE loop[[next |-> r.next + Text!Length(s[r.next]), codepoints |-> r.codepoints + 1,
                        cyrillic |-> IF Text!Cyrillic(Text!CodePoint(s, r.next))
                                     THEN r.cyrillic + 1 ELSE r.cyrillic]]
           Is(loop) == loop = [r \in [next : Nat, codepoints : Nat, cyrillic : Nat] |-> body(loop, r)]
           chosen == CHOOSE loop : Is(loop)
<1>8. \A loop : \A r \in S :
         body(loop, r) = IF r.next > L THEN <<r.codepoints, r.cyrillic>> ELSE loop[CountedOn(s, r)]
  BY DEF CountedOn
<1>9. Is(f)
  <2>1. \A r \in S : f[r] = body(f, r)
    <3> HIDE DEF body, rule
    <3> QED BY <1>2, <1>7, <1>8
  <2> HIDE DEF body
  <2> QED BY <1>7, <2>1 DEF Counting
<1>10. Is(chosen)
  <2> HIDE DEF Is
  <2> QED BY <1>9
<1>11. Text!utf_wc(s) = chosen[[next |-> 1, codepoints |-> 0, cyrillic |-> 0]]
  BY DEF Text!utf_wc
<1>12. \A r \in S : chosen[r] = body(chosen, r)
  <2> HIDE DEF chosen, body
  <2> QED BY <1>10 DEF Counting
<1> HIDE DEF chosen, body
<1>13. CountingLoop(s, chosen)
  BY <1>8, <1>12 DEF CountingLoop
<1> QED BY <1>11, <1>13

\* How many of the first n numbers belong to B.
Among(cps, B, n) == {k \in 1..n : cps[k] \in B}

\* How that number grows.
LEMMA AmongGrows ==
  ASSUME NEW cps, NEW B, NEW n \in Nat, n >= 1
  PROVE  /\ Cardinality(Among(cps, B, 0)) = 0
         /\ Cardinality(Among(cps, B, n - 1)) \in Nat
         /\ Cardinality(Among(cps, B, n)) = IF cps[n] \in B THEN Cardinality(Among(cps, B, n - 1)) + 1
                                            ELSE Cardinality(Among(cps, B, n - 1))
<1>1. Among(cps, B, 0) = {}
  BY DEF Among
<1> DEFINE S == Among(cps, B, n - 1)
<1>2. S \subseteq 1..n-1 /\ n \notin S
  BY DEF Among
<1>3. IsFiniteSet(1..n-1)
  BY FS_Interval
<1>4. IsFiniteSet(S)
  <2> HIDE DEF S
  <2> QED BY <1>2, <1>3, FS_Subset
<1>5. CASE cps[n] \in B
  <2>1. Among(cps, B, n) = S \cup {n}
    <3>1. \A k : k \in 1..n <=> k \in 1..n-1 \/ k = n
      OBVIOUS
    <3> QED BY <1>5, <3>1 DEF Among
  <2> HIDE DEF S
  <2> QED BY <1>1, <1>2, <1>4, <1>5, <2>1, FS_AddElement, FS_EmptySet, FS_CardinalityType DEF S
<1>6. CASE cps[n] \notin B
  <2>1. Among(cps, B, n) = S
    <3>1. \A k : k \in 1..n <=> k \in 1..n-1 \/ k = n
      OBVIOUS
    <3> QED BY <1>6, <3>1 DEF Among
  <2> HIDE DEF S
  <2> QED BY <1>1, <1>4, <1>6, <2>1, FS_EmptySet, FS_CardinalityType DEF S
<1> QED BY <1>5, <1>6

\* The bytes of code points, and what CodePointsRight says of the code points.
Encoded(cps) == Text!Joined([k \in DOMAIN cps |-> Text!Encode(cps[k])])
Counts(cps) == <<Len(cps), Text!Cardinality({k \in DOMAIN cps : cps[k] \in 1024..1279})>>

\* utf-wc is right.
LEMMA CharactersCounted ==
  ASSUME NEW cps \in Seq(Text!CodePoints), NEW s, s = Encoded(cps)
  PROVE  Text!utf_wc(s) = Counts(cps)
<1> DEFINE N == Len(cps)
           B == 1024..1279
           e == [k \in DOMAIN cps |-> Text!Encode(cps[k])]
           At(f, n) == [next |-> Len(f[n]) + 1, codepoints |-> n,
                        cyrillic |-> Cardinality(Among(cps, B, n))]
<1>1. N \in Nat /\ DOMAIN cps = 1..N /\ \A n \in 1..N : cps[n] \in Text!CodePoints
  BY LenProperties, ElementOfSeq
<1>2. \A n \in 1..N : Decodes(cps[n], Text!Encode(cps[n]))
  BY <1>1, EncodeDecodes
<1>3. /\ e \in Seq(Seq(Nat)) /\ Len(e) = N /\ \A n \in 1..N : e[n] = Text!Encode(cps[n])
  <2> DEFINE c == [n \in 1..N |-> Text!Encode(cps[n])]
  <2>1. e = [n \in 1..N |-> c[n]]
    BY <1>1
  <2>2. \A n \in 1..N : c[n] = Text!Encode(cps[n]) /\ c[n] \in Seq(Nat)
    BY <1>2 DEF Decodes
  <2> HIDE DEF e, c, N
  <2> QED BY <1>1, <2>1, <2>2, SequenceFrom
<1>4. s = Text!Joined(e)
  BY Zenon DEF Encoded
<1>5. \A x \in Text!CodePoints : Text!Cyrillic(x) <=> x \in B
  BY DEF Text!CodePoints, Text!Cyrillic
<1>6. Text!Cardinality({k \in DOMAIN cps : cps[k] \in 1024..1279}) = Cardinality(Among(cps, B, N))
  <2>1. {k \in DOMAIN cps : cps[k] \in 1024..1279} = Among(cps, B, N)
    BY <1>1, Zenon DEF Among
  <2> HIDE DEF B, N
  <2> QED BY <2>1, TextCardinality
<1> HIDE DEF e, N, B
<1>7. PICK f : JoinedBy(f, e, Nat)
  BY <1>3, JoinedSteps
<1>8. PartsLie(f, e)
  BY <1>3, <1>7, PartsOfJoined
<1>9. /\ \A n \in 0..N : Len(f[n]) \in Nat /\ Len(f[n]) <= Len(s)
      /\ Len(f[0]) = 0 /\ Len(f[N]) = Len(s)
      /\ \A n \in 1..N : /\ Len(f[n]) = Len(f[n - 1]) + Len(e[n])
                         /\ \A j \in 1..Len(e[n]) : s[Len(f[n - 1]) + j] = e[n][j]
  BY <1>3, <1>4, <1>8 DEF PartsLie
<1>10. N \in 0..N /\ 0 \in 0..N /\ Len(s) \in Nat
  <2>1. N \in 0..N /\ 0 \in 0..N
    BY <1>1
  <2> QED BY <1>9, <2>1
<1>11. PICK loop : /\ CountingLoop(s, loop)
                   /\ Text!utf_wc(s) = loop[[next |-> 1, codepoints |-> 0, cyrillic |-> 0]]
  BY <1>10, CountingLoops
<1>12. \A n \in 0..N : Cardinality(Among(cps, B, n)) \in Nat
  <2> TAKE n \in 0..N
  <2> DEFINE above == n + 1
  <2>1. above \in Nat /\ above >= 1 /\ above - 1 = n
    BY <1>1
  <2> HIDE DEF above
  <2>2. Cardinality(Among(cps, B, above - 1)) \in Nat
    BY <2>1, AmongGrows
  <2> QED BY <2>1, <2>2
<1>13. At(f, 0) = [next |-> 1, codepoints |-> 0, cyrillic |-> 0]
  <2>1. Cardinality(Among(cps, B, 0)) = 0
    <3> DEFINE one == 1
    <3>1. one \in Nat /\ one >= 1
      OBVIOUS
    <3> HIDE DEF one
    <3> QED BY <3>1, AmongGrows
  <2> QED BY <1>9, <2>1
<1>14. ASSUME NEW n \in 0..N PROVE At(f, n) \in Counting
  <2>1. Len(f[n]) + 1 \in Nat /\ n \in Nat /\ Cardinality(Among(cps, B, n)) \in Nat
    BY <1>1, <1>9, <1>12
  <2> QED BY <2>1 DEF Counting
<1>15. ASSUME NEW n \in 1..N PROVE loop[At(f, n - 1)] = loop[At(f, n)]
  <2> DEFINE a == Len(f[n - 1])
             p == a + 1
             g == e[n]
             d == Len(g)
             r == At(f, n - 1)
             L == Len(s)
             before == Cardinality(Among(cps, B, n - 1))
             after == Cardinality(Among(cps, B, n))
  <2>1. n \in Nat /\ n >= 1 /\ n - 1 \in 0..N /\ n \in 0..N /\ (n - 1) + 1 = n
    BY <1>1
  <2>2. /\ g \in Seq(Nat) /\ d \in 1..4 /\ Text!Length(g[1]) = d
        /\ \A k : s[k] = g[1] /\ (\A j \in 1..d-1 : s[k + j] = g[j + 1])
                    => Text!CodePoint(s, k) = cps[n]
    <3>1. Decodes(cps[n], g)
      BY <1>2, <1>3
    <3> HIDE DEF g
    <3> QED BY <3>1 DEF Decodes
  <2>3. /\ a \in Nat /\ Len(f[n]) = a + d /\ Len(f[n]) <= L /\ L \in Nat
        /\ \A j \in 1..d : s[a + j] = g[j]
    BY <1>9, <1>10, <2>1
  <2>4. r \in Counting /\ r.next = p /\ r.codepoints = n - 1 /\ r.cyrillic = before
    BY <1>14, <2>1
  <2>5. At(f, n).next = Len(f[n]) + 1 /\ At(f, n).codepoints = n /\ At(f, n).cyrillic = after
        /\ At(f, n) = [next |-> Len(f[n]) + 1, codepoints |-> n, cyrillic |-> after]
    OBVIOUS
  <2>6. before \in Nat /\ after = IF cps[n] \in B THEN before + 1 ELSE before
    BY <2>1, AmongGrows
  <2> HIDE DEF At, r, g, d, L, before, after
  <2>7. s[p] = g[1] /\ \A j \in 1..d-1 : s[p + j] = g[j + 1]
    <3> HIDE DEF a
    <3>1. 1 \in 1..d
      BY <2>2
    <3>2. \A j \in 1..d-1 : j + 1 \in 1..d /\ a + (j + 1) = (a + 1) + j
      BY <2>2, <2>3
    <3> QED BY <2>3, <3>1, <3>2
  <2>8. Text!Length(s[p]) = d /\ Text!CodePoint(s, p) = cps[n]
    BY <2>2, <2>7
  <2>9. Text!Cyrillic(Text!CodePoint(s, p)) <=> cps[n] \in B
    BY <1>1, <1>5, <2>8
  <2>10. ~(p > L) /\ p + d = Len(f[n]) + 1
    <3> DEFINE b == Len(f[n])
    <3>1. a \in Nat /\ d \in 1..4 /\ b = a + d /\ b <= L /\ L \in Nat
      BY <2>2, <2>3
    <3> HIDE DEF a, b
    <3>2. ~(p > L) /\ p + d = b + 1
      BY <3>1
    <3> QED BY <3>2 DEF b
  <2>11. loop[r] = loop[CountedOn(s, r)]
    BY <1>11, <2>4, <2>10 DEF CountingLoop, L
  <2>12. CountedOn(s, r) = At(f, n)
    <3>1. CountedOn(s, r) = [next |-> p + d, codepoints |-> (n - 1) + 1,
                           cyrillic |-> IF cps[n] \in B THEN before + 1 ELSE before]
      BY <2>4, <2>8, <2>9 DEF CountedOn
    <3> QED BY <2>1, <2>5, <2>6, <2>10, <3>1
  <2> QED BY <2>11, <2>12 DEF r
<1> DEFINE R == {n \in 0..N : loop[At(f, 0)] = loop[At(f, n)]}
<1>16. N \in R
  <2> HIDE DEF At
  <2>1. 0 \in R /\ \A n \in 1..N : n - 1 \in R => n \in R
    <3>1. \A n \in 1..N : n \in 0..N
      BY <1>1
    <3> QED BY <1>10, <1>15, <3>1
  <2> HIDE DEF R
  <2>2. 0..N \subseteq R
    BY <1>1, <2>1, PrefixInduction
  <2> QED BY <1>10, <2>2
<1>17. loop[At(f, N)] = <<N, Cardinality(Among(cps, B, N))>>
  <2> DEFINE r == At(f, N)
  <2>1. r \in Counting /\ r.next = Len(s) + 1 /\ r.codepoints = N
        /\ r.cyrillic = Cardinality(Among(cps, B, N))
    BY <1>9, <1>10, <1>14
  <2> HIDE DEF At, r
  <2>2. r.next > Len(s)
    BY <1>10, <2>1
  <2>3. loop[r] = <<r.codepoints, r.cyrillic>>
    BY <1>11, <2>1, <2>2 DEF CountingLoop
  <2> QED BY <2>1, <2>3 DEF r
<1>18. Text!utf_wc(s) = <<N, Cardinality(Among(cps, B, N))>>
  <2> HIDE DEF At
  <2> QED BY <1>11, <1>13, <1>16, <1>17
<1> QED BY <1>6, <1>18, Zenon DEF N, Counts

-----------------------------------------------------------------------------
(* The blocks of sha256.c.                                                    *)

\* A function on 1..n is a sequence.
LEMMA SequenceOf ==
  ASSUME NEW T, NEW n \in Nat, NEW s \in [1..n -> T]
  PROVE  s \in Seq(T) /\ Len(s) = n /\ DOMAIN s = 1..n
<1>1. s \in Seq(T)
  BY SeqDef
<1>2. DOMAIN s = 1..n
  OBVIOUS
<1> QED BY <1>1, <1>2, LenProperties

\* One sequence more is joined.
LEMMA JoinedAppend ==
  ASSUME NEW T, NEW seqs \in Seq(Seq(T)), NEW x \in Seq(T)
  PROVE  /\ Text!Joined(seqs) \in Seq(T)
         /\ Text!Joined(Append(seqs, x)) = Text!Joined(seqs) \o x
<1> DEFINE N == Len(seqs)
           more == Append(seqs, x)
<1>1. /\ N \in Nat /\ more \in Seq(Seq(T)) /\ Len(more) = N + 1 /\ more[N + 1] = x
      /\ \A n \in 1..N : more[n] = seqs[n]
  BY LenProperties, AppendProperties
<1>2. PICK f : JoinedBy(f, seqs, T)
  BY JoinedSteps
<1> HIDE DEF more
<1>3. PICK g : JoinedBy(g, more, T)
  BY <1>1, JoinedSteps
<1>4. /\ f \in [0..N -> Seq(T)] /\ f[0] = <<>> /\ Text!Joined(seqs) = f[N]
      /\ \A n \in 1..N : f[n] = f[n - 1] \o seqs[n]
  BY <1>2 DEF JoinedBy
<1>5. /\ g[0] = <<>> /\ Text!Joined(more) = g[N + 1]
      /\ \A n \in 1..N+1 : g[n] = g[n - 1] \o more[n]
  BY <1>1, <1>3 DEF JoinedBy
<1> HIDE DEF N
<1>6. GoAlike(g, f, N)
  <2>1. \A n \in 1..N : n \in 1..N+1
    BY <1>1
  <2> QED BY <1>1, <1>4, <1>5, <2>1 DEF GoAlike
<1>7. g[N] = f[N]
  <2>1. N \in 0..N
    BY <1>1
  <2> QED BY <1>1, <1>6, <2>1, PrefixAgree
<1>8. g[N + 1] = g[N] \o x
  <2>1. N + 1 \in 1..N+1 /\ (N + 1) - 1 = N
    BY <1>1
  <2> QED BY <1>1, <1>5, <2>1
<1>9. f[N] \in Seq(T)
  <2>1. N \in 0..N
    BY <1>1
  <2> QED BY <1>4, <2>1
<1> QED BY <1>4, <1>5, <1>7, <1>8, <1>9 DEF more

\* Nothing joined.
LEMMA JoinedNone == Text!Joined(<<>>) = <<>>
<1> DEFINE none == <<>>
<1>1. none \in Seq(Seq(Int)) /\ Len(none) = 0
  OBVIOUS
<1> HIDE DEF none
<1>2. PICK f : JoinedBy(f, none, Int)
  BY <1>1, JoinedSteps
<1>3. Text!Joined(none) = <<>>
  BY <1>1, <1>2 DEF JoinedBy
<1> QED BY <1>3 DEF none

\* A piece of a sequence.
LEMMA PieceIs ==
  ASSUME NEW T, NEW s \in Seq(T), NEW m \in Nat, NEW n \in Nat, m + n <= Len(s)
  PROVE  /\ SubSeq(s, m + 1, m + n) \in Seq(T) /\ Len(SubSeq(s, m + 1, m + n)) = n
         /\ \A k \in 1..n : SubSeq(s, m + 1, m + n)[k] = s[m + k]
<1> DEFINE a == m + 1
           b == m + n
           L == Len(s)
           t == SubSeq(s, a, b)
<1>1. L \in Nat /\ b <= L
  BY LenProperties
<1>2. a \in 1..L+1 /\ b \in 0..L
  <2> HIDE DEF L
  <2> QED BY <1>1
<1>3. /\ t \in Seq(T) /\ Len(t) = IF a <= b THEN b - a + 1 ELSE 0
      /\ \A i \in 1..(b - a + 1) : t[i] = s[a + i - 1]
  <2> HIDE DEF a, b
  <2> QED BY <1>2, SubSeqProperties
<1> HIDE DEF t, L
<1>4. (IF a <= b THEN b - a + 1 ELSE 0) = n /\ b - a + 1 = n /\ \A i \in 1..n : a + i - 1 = m + i
  OBVIOUS
<1> HIDE DEF a, b
<1>5. t \in Seq(T) /\ Len(t) = n /\ \A k \in 1..n : t[k] = s[m + k]
  BY <1>3, <1>4
<1> QED BY <1>5 DEF t, a, b

\* h is t after s.
Concatenates(h, s, t, T) ==
    /\ h \in Seq(T) /\ Len(s) \in Nat /\ Len(t) \in Nat /\ Len(h) = Len(s) + Len(t)
    /\ \A k \in 1..Len(s) : h[k] = s[k]
    /\ \A k \in 1..Len(t) : h[Len(s) + k] = t[k]

\* A concatenation is one.
LEMMA JoinedLen ==
  ASSUME NEW T, NEW s \in Seq(T), NEW t \in Seq(T)
  PROVE  Concatenates(s \o t, s, t, T)
<1> DEFINE a == Len(s)
           b == Len(t)
           h == s \o t
<1>1. /\ h \in Seq(T) /\ a \in Nat /\ b \in Nat /\ Len(h) = a + b
      /\ \A i \in 1..a+b : h[i] = IF i <= a THEN s[i] ELSE t[i - a]
  BY ConcatProperties, LenProperties
<1> HIDE DEF a, b, h
<1>2. \A i \in 1..a : h[i] = s[i]
  BY <1>1
<1>3. \A j \in 1..b : a + j \in 1..a+b /\ ~(a + j <= a) /\ (a + j) - a = j
  BY <1>1
<1>4. \A j \in 1..b : h[a + j] = t[j]
  BY <1>1, <1>3
<1> QED BY <1>1, <1>2, <1>4 DEF a, b, h, Concatenates

\* The last byte and the others.
LEMMA LastByte ==
  ASSUME NEW x \in Nat
  PROVE  /\ x \div 256 \in Nat /\ x % 256 \in Nat /\ x = 256 * (x \div 256) + (x % 256)
         /\ \A y \in Nat : x <= 256 * y + 255 => x \div 256 <= y
OBVIOUS

\* The number n without its last j bytes.
ShiftedBy(sh, n) ==
    /\ sh \in [0..Text!LengthSize -> Nat] /\ sh[0] = n
    /\ \A j \in 1..Text!LengthSize : sh[j] = sh[j - 1] \div 256
    /\ \A k \in 1..Text!LengthSize : Text!LengthByte(n, k) = (sh[Text!LengthSize - k] % 256)

\* LengthByte is what its recursion says.
LEMMA ShiftedIs ==
  ASSUME NEW n \in Nat, Text!LengthSize \in Nat
  PROVE  \E sh : ShiftedBy(sh, n)
<1> DEFINE L == Text!LengthSize
           rule == [p \in (1..L) \X Nat |-> p[2] \div 256]
<1>1. L \in Nat /\ rule \in [(1..L) \X Nat -> Nat] /\ \A j \in 1..L, i \in Nat : rule[<<j, i>>] = i \div 256
  <2> HIDE DEF L
  <2>1. ASSUME NEW p \in (1..L) \X Nat PROVE p[2] \div 256 \in Nat
    <3>1. p[2] \in Nat
      OBVIOUS
    <3> QED BY <3>1, LastByte
  <2>2. rule \in [(1..L) \X Nat -> Nat]
    BY <2>1
  <2>3. \A j \in 1..L, i \in Nat : rule[<<j, i>>] = i \div 256
    OBVIOUS
  <2> QED BY <2>2, <2>3 DEF L
<1>2. PICK f \in [0..L -> Nat] : Iterates(f, L, n, rule)
  <2>1. Iterable(L, Nat, n, rule)
    <3> HIDE DEF rule, L
    <3> QED BY <1>1, PrefixRecursion
  <2> QED BY <2>1 DEF Iterable
<1>3. \A j \in 1..L : j - 1 \in 0..L /\ j \in 0..L /\ j # 0
  BY <1>1
<1>4. f[0] = n /\ \A j \in 1..L : f[j] = f[j - 1] \div 256
  <2> HIDE DEF rule, L
  <2>1. \A j \in 1..L : f[j] = rule[<<j, f[j - 1]>>] /\ f[j - 1] \in Nat
    BY <1>2, <1>3 DEF Iterates
  <2>2. ASSUME NEW j \in 1..L PROVE f[j] = f[j - 1] \div 256
    <3> DEFINE before == f[j - 1]
    <3>1. f[j] = rule[<<j, before>>] /\ before \in Nat
      BY <2>1
    <3> HIDE DEF before
    <3>2. rule[<<j, before>>] = before \div 256
      BY <1>1, <3>1
    <3> QED BY <3>1, <3>2 DEF before
  <2> QED BY <1>2, <2>2 DEF Iterates
<1> DEFINE body(g, j) == IF j = 0 THEN n ELSE g[j - 1] \div 256
           Is(g) == g = [j \in 0..Text!LengthSize |-> body(g, j)]
           chosen == CHOOSE g : Is(g)
<1>5. Is(f)
  <2>1. \A j \in 0..L : j = 0 \/ j \in 1..L
    BY <1>1
  <2>2. \A j \in 0..L : f[j] = body(f, j)
    BY <1>3, <1>4, <2>1
  <2> HIDE DEF body
  <2> QED BY <1>2, <2>2
<1>6. Is(chosen)
  <2> HIDE DEF Is
  <2> QED BY <1>5
<1>7. \A k : Text!LengthByte(n, k) = (chosen[L - k] % 256)
  BY DEF Text!LengthByte
<1>8. \A j \in 0..L : chosen[j] = body(chosen, j)
  <2> HIDE DEF chosen, body
  <2> QED BY <1>6
<1> HIDE DEF chosen
<1>9. \A j \in 0..L : chosen[j] = f[j]
  <2>1. 0 \in 0..L
    BY <1>1
  <2>2. chosen[0] = f[0] /\ \A j \in 1..L : chosen[j] = chosen[j - 1] \div 256
    BY <1>3, <1>4, <1>8, <2>1
  <2>3. L \in Nat /\ GoAlike(chosen, f, L)
    BY <1>1, <1>4, <2>2 DEF GoAlike
  <2> HIDE DEF L
  <2> QED BY <2>3, PrefixAgree
<1>10. \A k \in 1..L : L - k \in 0..L
  <2> HIDE DEF L
  <2> QED BY <1>1
<1>11. \A k \in 1..L : Text!LengthByte(n, k) = (f[L - k] % 256)
  BY <1>7, <1>9, <1>10
<1> QED BY <1>2, <1>4, <1>11 DEF ShiftedBy

\* The bytes of a length are the length.
LEMMA LengthBytes ==
  ASSUME NEW n \in Nat, n < Text!Lengths, Text!LengthSize \in Nat, NEW t,
         t = [k \in 1..Text!LengthSize |-> Text!LengthByte(n, k)]
  PROVE  /\ t \in Seq(Int) /\ Text!Base256(t) = n
<1> DEFINE L == Text!LengthSize
           ff == [k \in 1..L |-> 255]
<1>1. PICK sh : ShiftedBy(sh, n)
  BY ShiftedIs
<1>2. /\ L \in Nat /\ sh \in [0..L -> Nat] /\ sh[0] = n
      /\ \A j \in 1..L : sh[j] = sh[j - 1] \div 256
      /\ \A k \in 1..L : Text!LengthByte(n, k) = (sh[L - k] % 256)
  BY <1>1 DEF ShiftedBy
<1>3. ff \in Seq(Int) /\ Len(ff) = L /\ \A k \in 1..L : ff[k] = 255
  <2>1. ff \in [1..L -> Int] /\ \A k \in 1..L : ff[k] = 255
    OBVIOUS
  <2> HIDE DEF ff, L
  <2> QED BY <1>2, <2>1, SequenceOf
<1>4. Text!Lengths = Text!Base256(ff) + 1
  BY DEF Text!Lengths
<1>5. t = [k \in 1..L |-> Text!LengthByte(n, k)]
  OBVIOUS
<1> HIDE DEF L, ff
<1>6. \A k \in 1..L : k - 1 \in 0..L /\ k \in 0..L /\ L - k \in 0..L /\ L - (k - 1) \in 1..L
                      /\ (L - (k - 1)) - 1 = L - k
  BY <1>2
<1>7. t \in Seq(Int) /\ Len(t) = L /\ \A k \in 1..L : t[k] = (sh[L - k] % 256)
  <2>1. t = [k \in 1..L |-> t[k]]
    BY <1>5
  <2>2. \A k \in 1..L : t[k] = (sh[L - k] % 256) /\ t[k] \in Int
    <3> TAKE k \in 1..L
    <3> DEFINE x == sh[L - k]
    <3>1. x \in Nat /\ t[k] = (x % 256)
      BY <1>2, <1>5, <1>6
    <3> HIDE DEF x
    <3>2. x % 256 \in Int
      BY <3>1
    <3> QED BY <3>1, <3>2 DEF x
  <2>3. t \in [1..L -> Int]
    BY <2>1, <2>2
  <2> QED BY <1>2, <2>2, <2>3, SequenceOf
<1>8. PICK w : ValueBy(w, ff)
  BY <1>3, Base256Is
<1>9. /\ w \in [0..L -> Int] /\ w[0] = 0 /\ Text!Base256(ff) = w[L]
      /\ \A k \in 1..L : w[k] = 256 * w[k - 1] + 255
  BY <1>3, <1>8 DEF ValueBy
<1>10. PICK v : ValueBy(v, t)
  BY <1>7, Base256Is
<1>11. /\ v \in [0..L -> Int] /\ v[0] = 0 /\ Text!Base256(t) = v[L]
       /\ \A k \in 1..L : v[k] = 256 * v[k - 1] + (sh[L - k] % 256)
  BY <1>7, <1>10 DEF ValueBy
<1> DEFINE W == {k \in 0..L : w[k] \in Nat}
<1>12. \A k \in 0..L : w[k] \in Nat
  <2>1. 0 \in W
    BY <1>2, <1>9
  <2>2. ASSUME NEW k \in 1..L, k - 1 \in W PROVE k \in W
    <3> DEFINE x == w[k - 1]
    <3>1. x \in Nat /\ w[k] = 256 * x + 255
      BY <1>9, <2>2
    <3> HIDE DEF x
    <3> QED BY <1>6, <3>1
  <2>3. 0..L \subseteq W
    <3> HIDE DEF W
    <3> QED BY <1>2, <2>1, <2>2, PrefixInduction
  <2> QED BY <2>3
<1> DEFINE S == {j \in 0..L : sh[j] <= w[L - j]}
<1>13. sh[L] = 0
  <2>1. 0 \in S
    <3> DEFINE x == w[L]
    <3>1. L - 0 = L /\ L \in 0..L /\ 0 \in 0..L
      BY <1>2
    <3>2. x \in Nat /\ n < x + 1 /\ n \in Nat
      BY <1>4, <1>9, <1>12, <3>1
    <3> HIDE DEF x
    <3>3. n <= x
      BY <3>2
    <3> QED BY <1>2, <3>1, <3>3 DEF x
  <2>2. ASSUME NEW j \in 1..L, j - 1 \in S PROVE j \in S
    <3> DEFINE x == sh[j - 1]
               y == w[L - j]
    <3>1. /\ L - (j - 1) \in 1..L /\ (L - (j - 1)) - 1 = L - j /\ L - j \in 0..L
      BY <1>6
    <3>2. w[L - (j - 1)] = 256 * w[L - j] + 255
      BY <1>9, <3>1
    <3>3. x \in Nat /\ y \in Nat /\ x <= 256 * y + 255 /\ sh[j] = x \div 256
      BY <1>2, <1>6, <1>12, <2>2, <3>1, <3>2
    <3> HIDE DEF x, y
    <3>4. sh[j] <= y
      BY <3>3, LastByte
    <3> QED BY <1>6, <3>4 DEF y
  <2>3. 0..L \subseteq S
    <3> HIDE DEF S
    <3> QED BY <1>2, <2>1, <2>2, PrefixInduction
  <2>4. L \in 0..L /\ L - L = 0
    BY <1>2
  <2>5. sh[L] <= 0 /\ sh[L] \in Nat
    BY <1>2, <1>9, <2>3, <2>4
  <2> QED BY <2>5
<1> DEFINE R == {k \in 0..L : v[k] = sh[L - k]}
<1>14. v[L] = n
  <2>1. 0 \in R
    <3>1. L - 0 = L /\ 0 \in 0..L
      BY <1>2
    <3> QED BY <1>11, <1>13, <3>1
  <2>2. ASSUME NEW k \in 1..L, k - 1 \in R PROVE k \in R
    <3> DEFINE x == sh[L - k]
    <3>1. x \in Nat /\ sh[L - (k - 1)] = x \div 256
      BY <1>2, <1>6
    <3>2. v[k] = 256 * (x \div 256) + (x % 256)
      BY <1>11, <2>2, <3>1
    <3> HIDE DEF x
    <3>3. v[k] = x
      BY <3>1, <3>2, LastByte
    <3> QED BY <1>6, <3>3 DEF x
  <2>3. 0..L \subseteq R
    <3> HIDE DEF R
    <3> QED BY <1>2, <2>1, <2>2, PrefixInduction
  <2>4. L \in 0..L /\ L - L = 0
    BY <1>2
  <2> QED BY <1>2, <2>3, <2>4
<1> QED BY <1>7, <1>11, <1>14

\* A loop: outcome where it stops, and elsewhere what it returns from next.
Loops(f, S, stop, outcome, next) ==
    f = [x \in S |-> IF x \in stop THEN outcome[x] ELSE f[next[x]]]
LoopIs(S, stop, outcome, next) == \E f : Loops(f, S, stop, outcome, next)

\* A loop that gets nearer to its end in every round is a function.
LEMMA TailLoop ==
  ASSUME NEW S, S # {}, NEW m \in [S -> Nat], NEW stop, NEW outcome, NEW next,
         \A x \in S \ stop : next[x] \in S /\ m[next[x]] < m[x]
  PROVE  LoopIs(S, stop, outcome, next)
<1> DEFINE V == {outcome[x] : x \in S}
           rule == [p \in S \X [S -> V] |-> IF p[1] \in stop THEN outcome[p[1]] ELSE p[2][next[p[1]]]]
<1>1. V # {}
  OBVIOUS
<1>2. \A x \in S, f \in [S -> V] : rule[<<x, f>>] = IF x \in stop THEN outcome[x] ELSE f[next[x]]
  OBVIOUS
<1>3. rule \in [S \X [S -> V] -> V]
  <2>1. ASSUME NEW x \in S, NEW f \in [S -> V] PROVE rule[<<x, f>>] \in V
    <3>1. CASE x \in stop
      BY <1>2, <3>1
    <3>2. CASE x \notin stop
      <4>1. f[next[x]] \in V
        <5> HIDE DEF V
        <5> QED BY <3>2
      <4> QED BY <1>2, <3>2, <4>1
    <3> QED BY <3>1, <3>2
  <2> HIDE DEF V
  <2> QED BY <2>1
<1> HIDE DEF V
<1>4. Local(S, V, m, rule)
  <2> SUFFICES ASSUME NEW x \in S, NEW f \in [S -> V], NEW g \in [S -> V],
                      \A y \in S : m[y] < m[x] => f[y] = g[y]
               PROVE  rule[<<x, f>>] = rule[<<x, g>>]
    BY DEF Local
  <2>1. x \notin stop => f[next[x]] = g[next[x]]
    OBVIOUS
  <2> QED BY <1>2, <2>1
<1>5. PICK f \in [S -> V] : \A x \in S : f[x] = rule[<<x, f>>]
  <2>1. Solvable(S, V, rule)
    <3> HIDE DEF rule
    <3> QED BY <1>1, <1>3, <1>4, Recursion
  <2> QED BY <2>1 DEF Solvable
<1>6. \A x \in S : f[x] = IF x \in stop THEN outcome[x] ELSE f[next[x]]
  <2> HIDE DEF rule
  <2> QED BY <1>2, <1>5
<1>7. Loops(f, S, stop, outcome, next)
  BY <1>5, <1>6 DEF Loops
<1> QED BY <1>7 DEF LoopIs

\* The states of sha256_update's loop.
Feeding == [next : Nat \ {0}, data : [1..BlockSize -> Int], datalen : 0..BlockSize-1,
            blocks : Seq(Seq(Int))]
Filling(s, r) == [r.data EXCEPT ![r.datalen + 1] = s[r.next]]
Fed(s, r) ==
    IF r.datalen + 1 < BlockSize
    THEN [next |-> r.next + 1, data |-> Filling(s, r), datalen |-> r.datalen + 1, blocks |-> r.blocks]
    ELSE [next |-> r.next + 1, data |-> Filling(s, r), datalen |-> 0,
          blocks |-> Append(r.blocks, Filling(s, r))]
Digested(r) ==
    [data |-> r.data, datalen |-> r.datalen,
     bitlen |-> 8 * BlockSize * Len(r.blocks), blocks |-> r.blocks]
FeedingLoop(s, loop) ==
    \A r \in Feeding : loop[r] = IF r.next > Len(s) THEN Digested(r) ELSE loop[Fed(s, r)]
FirstFed == [next |-> 1, data |-> [k \in 1..BlockSize |-> -1], datalen |-> 0, blocks |-> <<>>]

\* Before the end of the file the next state is one too.
LEMMA FeedingGoesOn ==
  ASSUME BlockSize \in Nat, BlockSize >= 8, NEW s \in Seq(Int), NEW r \in Feeding,
         ~(r.next > Len(s))
  PROVE  /\ Fed(s, r) \in Feeding /\ Fed(s, r).next = r.next + 1
         /\ r.next \in 1..Len(s) /\ r.datalen + 1 \in 1..BlockSize
         /\ Filling(s, r) \in Seq(Int) /\ Len(Filling(s, r)) = BlockSize
         /\ \A k \in 1..BlockSize :
               Filling(s, r)[k] = IF k = r.datalen + 1 THEN s[r.next] ELSE r.data[k]
<1> DEFINE L == Len(s)
           w == Filling(s, r)
<1>1. /\ r.next \in Nat /\ r.next >= 1 /\ r.data \in [1..BlockSize -> Int]
      /\ r.datalen \in 0..BlockSize-1 /\ r.blocks \in Seq(Seq(Int)) /\ L \in Nat
  BY DEF Feeding
<1>2. r.next \in 1..L
  <2> HIDE DEF L
  <2> QED BY <1>1 DEF L
<1>3. s[r.next] \in Int
  BY <1>2
<1>4. r.datalen + 1 \in 1..BlockSize
  BY <1>1
<1>5. /\ w \in [1..BlockSize -> Int]
      /\ \A k \in 1..BlockSize : w[k] = IF k = r.datalen + 1 THEN s[r.next] ELSE r.data[k]
  <2> DEFINE c == s[r.next]
             d == r.datalen + 1
             B == 1..BlockSize
  <2>1. c \in Int /\ d \in B /\ r.data \in [B -> Int]
    BY <1>1, <1>3, <1>4
  <2>2. w = [r.data EXCEPT ![d] = c]
    BY DEF Filling
  <2> HIDE DEF w, c, d, B
  <2>3. w \in [B -> Int] /\ \A k \in B : w[k] = IF k = d THEN c ELSE r.data[k]
    BY <2>1, <2>2
  <2> QED BY <2>3 DEF c, d, B
<1> HIDE DEF w
<1>6. w \in Seq(Int) /\ Len(w) = BlockSize
  BY <1>5, SequenceOf
<1>7. Append(r.blocks, w) \in Seq(Seq(Int))
  BY <1>1, <1>6, AppendProperties
<1>8. r.next + 1 \in Nat \ {0} /\ 0 \in 0..BlockSize-1
      /\ (r.datalen + 1 < BlockSize => r.datalen + 1 \in 0..BlockSize-1)
  BY <1>1
<1>9. Fed(s, r) = IF r.datalen + 1 < BlockSize
                  THEN [next |-> r.next + 1, data |-> w, datalen |-> r.datalen + 1, blocks |-> r.blocks]
                  ELSE [next |-> r.next + 1, data |-> w, datalen |-> 0, blocks |-> Append(r.blocks, w)]
  BY DEF Fed, w
<1>10. Fed(s, r) \in Feeding /\ Fed(s, r).next = r.next + 1
  <2>1. CASE r.datalen + 1 < BlockSize
    BY <1>1, <1>5, <1>8, <1>9, <2>1 DEF Feeding
  <2>2. CASE ~(r.datalen + 1 < BlockSize)
    BY <1>1, <1>5, <1>7, <1>8, <1>9, <2>2 DEF Feeding
  <2> QED BY <2>1, <2>2
<1> QED BY <1>2, <1>4, <1>5, <1>6, <1>10 DEF w

\* So sha256_update is that loop from its first state.
LEMMA FeedingLoops ==
  ASSUME BlockSize \in Nat, BlockSize >= 8, NEW s \in Seq(Int)
  PROVE  /\ FirstFed \in Feeding
         /\ \E loop : FeedingLoop(s, loop) /\ Text!sha256_update(s) = loop[FirstFed]
<1> DEFINE L == Len(s)
           S == Feeding
           m == [r \in S |-> IF r.next > L THEN 0 ELSE L + 1 - r.next]
           stop == {r \in S : r.next > L}
           outcome == [r \in S |-> Digested(r)]
           next == [r \in S |-> Fed(s, r)]
<1>0. L \in Nat
  OBVIOUS
<1>1. FirstFed \in S
  BY DEF FirstFed, Feeding
<1>2. m \in [S -> Nat]
  <2> HIDE DEF L
  <2>1. \A r \in S : (IF r.next > L THEN 0 ELSE L + 1 - r.next) \in Nat
    BY <1>0 DEF Feeding
  <2> HIDE DEF S
  <2> QED BY <2>1
<1>3. ASSUME NEW r \in S \ stop PROVE next[r] \in S /\ m[next[r]] < m[r]
  <2> DEFINE y == Fed(s, r)
  <2>1. r \in S /\ ~(r.next > Len(s))
    OBVIOUS
  <2>2. y \in S /\ y.next = r.next + 1 /\ r.next \in 1..L
    <3> HIDE DEF L, S
    <3> QED BY <2>1, FeedingGoesOn DEF S, L
  <2>3. next[r] = y /\ m[y] = (IF y.next > L THEN 0 ELSE L + 1 - y.next)
        /\ m[r] = (IF r.next > L THEN 0 ELSE L + 1 - r.next)
    <3> HIDE DEF y, L, S
    <3> QED BY <2>1, <2>2 DEF y
  <2> HIDE DEF y, L, m, next, S
  <2> QED BY <1>0, <2>2, <2>3
<1>4. PICK f : Loops(f, S, stop, outcome, next)
  <2>1. LoopIs(S, stop, outcome, next)
    <3>1. S # {}
      BY <1>1
    <3> HIDE DEF m, stop, outcome, next, S
    <3> QED BY <1>2, <1>3, <3>1, TailLoop
  <2> HIDE DEF m, stop, outcome, next, S
  <2> QED BY <2>1 DEF LoopIs
<1> DEFINE body(loop, r) ==
             LET stored == [r.data EXCEPT ![r.datalen + 1] = s[r.next]]
             IN  CASE r.next > Len(s) ->
                        [data |-> r.data, datalen |-> r.datalen,
                         bitlen |-> 8 * BlockSize * Len(r.blocks), blocks |-> r.blocks]
                  [] r.next <= Len(s) /\ r.datalen + 1 < BlockSize ->
                        loop[[next |-> r.next + 1, data |-> stored, datalen |-> r.datalen + 1,
                                blocks |-> r.blocks]]
                  [] OTHER -> loop[[next |-> r.next + 1, data |-> stored, datalen |-> 0,
                                    blocks |-> Append(r.blocks, stored)]]
           Is(loop) == loop = [r \in [next : Nat \ {0}, data : [1..BlockSize -> Int],
                                      datalen : 0..BlockSize-1, blocks : Seq(Seq(Int))] |-> body(loop, r)]
           chosen == CHOOSE loop : Is(loop)
<1>5. ASSUME NEW loop, NEW r \in S
      PROVE  body(loop, r) = IF r.next > L THEN Digested(r) ELSE loop[Fed(s, r)]
  <2> DEFINE w == Filling(s, r)
             one == [next |-> r.next + 1, data |-> w, datalen |-> r.datalen + 1, blocks |-> r.blocks]
  <2>2. r.next \in Nat /\ (r.next <= L <=> ~(r.next > L))
    <3> HIDE DEF L
    <3> QED BY <1>0 DEF Feeding
  <2>3. body(loop, r) =
           CASE r.next > L -> Digested(r)
             [] r.next <= L /\ r.datalen + 1 < BlockSize ->
                   loop[one]
             [] OTHER -> loop[[next |-> r.next + 1, data |-> w, datalen |-> 0,
                               blocks |-> Append(r.blocks, w)]]
    BY Zenon DEF Digested, Filling
  <2>4. Fed(s, r) = IF r.datalen + 1 < BlockSize THEN one
                    ELSE [next |-> r.next + 1, data |-> w, datalen |-> 0,
                          blocks |-> Append(r.blocks, w)]
    BY DEF Fed
  <2> HIDE DEF w, one, body, L, S
  <2> QED BY <2>2, <2>3, <2>4
<1>6. Is(f)
  <2>1. /\ f = [x \in S |-> IF x \in stop THEN outcome[x] ELSE f[next[x]]]
    <3> HIDE DEF S, stop, outcome, next
    <3> QED BY <1>4 DEF Loops
  <2>2. \A r \in S : (IF r \in stop THEN outcome[r] ELSE f[next[r]]) = body(f, r)
    <3> TAKE r \in S
    <3>1. body(f, r) = IF r.next > L THEN Digested(r) ELSE f[Fed(s, r)]
      BY <1>5
    <3>2. (r \in stop <=> r.next > L) /\ outcome[r] = Digested(r) /\ next[r] = Fed(s, r)
      OBVIOUS
    <3> HIDE DEF body, stop, outcome, next, S
    <3> QED BY <3>1, <3>2
  <2>3. f = [r \in S |-> body(f, r)]
    <3> HIDE DEF body, stop, outcome, next, S
    <3> QED BY <2>1, <2>2
  <2> HIDE DEF body
  <2> QED BY <2>3 DEF Feeding
<1>7. Is(chosen)
  <2> HIDE DEF Is
  <2> QED BY <1>6
<1>8. Text!sha256_update(s) = chosen[FirstFed]
  BY DEF Text!sha256_update, FirstFed
<1>9. \A r \in S : chosen[r] = body(chosen, r)
  <2> HIDE DEF chosen, body
  <2> QED BY <1>7 DEF Feeding
<1> HIDE DEF chosen, body
<1>10. FeedingLoop(s, chosen)
  BY <1>5, <1>9 DEF FeedingLoop
<1> QED BY <1>1, <1>8, <1>10

\* What sha256_update's loop has taken in after n bytes of s.
FedUpTo(s, n, r) ==
    /\ r \in Feeding /\ r.next = n + 1
    /\ Text!Joined(r.blocks) \in Seq(Int)
    /\ Len(Text!Joined(r.blocks)) = BlockSize * Len(r.blocks)
    /\ Len(Text!Joined(r.blocks)) + r.datalen = n
    /\ \A i \in 1..Len(Text!Joined(r.blocks)) : Text!Joined(r.blocks)[i] = s[i]
    /\ \A k \in 1..r.datalen : r.data[k] = s[Len(Text!Joined(r.blocks)) + k]

\* One time more.
LEMMA OneMore ==
  ASSUME NEW x \in Nat, NEW y \in Nat
  PROVE  x * y \in Nat /\ x * (y + 1) = x * y + x
OBVIOUS

\* One byte more.
LEMMA FedOn ==
  ASSUME BlockSize \in Nat, BlockSize >= 8, NEW s \in Seq(Int), NEW n \in Nat, n < Len(s),
         NEW r, FedUpTo(s, n, r)
  PROVE  FedUpTo(s, n + 1, Fed(s, r))
<1> DEFINE J == Text!Joined(r.blocks)
           q == Len(J)
           d == r.datalen
           w == Filling(s, r)
           y == Fed(s, r)
<1>1. /\ r \in Feeding /\ r.next = n + 1 /\ J \in Seq(Int) /\ q = BlockSize * Len(r.blocks)
      /\ q + d = n /\ (\A i \in 1..q : J[i] = s[i]) /\ (\A k \in 1..d : r.data[k] = s[q + k])
  BY DEF FedUpTo
<1>2. ~(r.next > Len(s))
  <2> DEFINE L == Len(s)
  <2>1. L \in Nat
    OBVIOUS
  <2> HIDE DEF L
  <2> QED BY <1>1, <2>1 DEF L
<1>3. /\ y \in Feeding /\ y.next = r.next + 1 /\ d + 1 \in 1..BlockSize
      /\ w \in Seq(Int) /\ Len(w) = BlockSize
      /\ \A k \in 1..BlockSize : w[k] = IF k = d + 1 THEN s[r.next] ELSE r.data[k]
  BY <1>1, <1>2, FeedingGoesOn
<1>4. q \in Nat /\ d \in Nat /\ d < BlockSize /\ r.blocks \in Seq(Seq(Int)) /\ Len(r.blocks) \in Nat
  BY <1>1 DEF Feeding
<1>5. y = IF d + 1 < BlockSize
          THEN [next |-> r.next + 1, data |-> w, datalen |-> d + 1, blocks |-> r.blocks]
          ELSE [next |-> r.next + 1, data |-> w, datalen |-> 0, blocks |-> Append(r.blocks, w)]
  BY DEF Fed
<1>n. /\ q \in Nat /\ d \in Nat /\ q + d = n /\ r.next = n + 1 /\ d + 1 <= BlockSize
      /\ q + (d + 1) = n + 1
  <2>1. q + d = n /\ r.next = n + 1 /\ d + 1 \in 1..BlockSize
    BY <1>1, <1>3
  <2> HIDE DEF q, d
  <2> QED BY <1>4, <2>1
<1>6. \A k \in 1..d+1 : w[k] = s[q + k]
  <2> TAKE k \in 1..d+1
  <2>1. k \in 1..BlockSize /\ (k # d + 1 => k \in 1..d) /\ q + (d + 1) = r.next
    <3> HIDE DEF q, d
    <3> QED BY <1>n
  <2> HIDE DEF w, q, d
  <2> QED BY <1>1, <1>3, <2>1
<1> HIDE DEF w, y
<1>7. CASE d + 1 < BlockSize
  <2>1. y.blocks = r.blocks /\ y.datalen = d + 1 /\ y.data = w
    BY <1>5, <1>7
  <2>2. q + (d + 1) = n + 1 /\ r.next + 1 = n + 1 + 1
    <3> HIDE DEF q, d
    <3> QED BY <1>n
  <2>3. /\ Text!Joined(y.blocks) = J /\ y.next = n + 1 + 1
    BY <1>3, <2>1, <2>2
  <2> HIDE DEF J, d
  <2>4. FedUpTo(s, n + 1, y)
    BY <1>1, <1>3, <1>6, <2>1, <2>2, <2>3 DEF FedUpTo
  <2> QED BY <2>4 DEF y
<1>8. CASE ~(d + 1 < BlockSize)
  <2> DEFINE more == Append(r.blocks, w)
             K == Text!Joined(more)
             Q == Len(r.blocks)
  <2>1. y.blocks = more /\ y.datalen = 0 /\ y.data = w
    BY <1>5, <1>8
  <2>2. K = J \o w /\ Len(more) = Q + 1
    <3>1. r.blocks \in Seq(Seq(Int)) /\ w \in Seq(Int)
      BY <1>3, <1>4
    <3>2. Text!Joined(Append(r.blocks, w)) = Text!Joined(r.blocks) \o w
      <4> DEFINE bs == r.blocks
      <4> HIDE DEF bs
      <4> QED BY <3>1, JoinedAppend DEF bs
    <3>3. Len(Append(r.blocks, w)) = Len(r.blocks) + 1
      BY <3>1, AppendProperties
    <3> QED BY <3>2, <3>3
  <2>3. /\ J \o w \in Seq(Int) /\ Len(J \o w) = q + BlockSize
        /\ (\A k \in 1..q : (J \o w)[k] = J[k])
        /\ (\A k \in 1..BlockSize : (J \o w)[q + k] = w[k])
    <3> HIDE DEF J
    <3>1. J \in Seq(Int) /\ w \in Seq(Int) /\ Len(w) = BlockSize
      BY <1>1, <1>3
    <3>2. Concatenates(J \o w, J, w, Int)
      BY <3>1, JoinedLen
    <3> DEFINE h == J \o w
    <3> HIDE DEF h
    <3> QED BY <3>1, <3>2 DEF Concatenates, h
  <2> HIDE DEF K, more
  <2>4. /\ K \in Seq(Int) /\ Len(K) = q + BlockSize /\ (\A k \in 1..q : K[k] = J[k])
        /\ (\A k \in 1..BlockSize : K[q + k] = w[k])
    BY <2>2, <2>3
  <2>5. d + 1 = BlockSize /\ q + BlockSize = n + 1
    <3> HIDE DEF q, d
    <3> QED BY <1>n, <1>8
  <2>6. Len(K) = BlockSize * Len(more)
    <3>1. BlockSize * (Q + 1) = BlockSize * Q + BlockSize
      <4> HIDE DEF Q
      <4> QED BY <1>4, OneMore DEF Q
    <3> QED BY <1>1, <2>2, <2>4, <3>1
  <2>7. ASSUME NEW i \in 1..Len(K) PROVE K[i] = s[i]
    <3> HIDE DEF q, d, J
    <3>1. CASE i \in 1..q
      BY <1>1, <2>4, <3>1
    <3>2. CASE i \notin 1..q
      <4> DEFINE k == i - q
      <4>1. k \in 1..BlockSize /\ i = q + k /\ k \in 1..d+1
        BY <1>4, <2>4, <2>5, <3>2
      <4> HIDE DEF k
      <4> QED BY <1>6, <2>4, <4>1
    <3> QED BY <3>1, <3>2
  <2>8. Len(K) + 0 = n + 1 /\ y.next = n + 1 + 1
    <3> HIDE DEF q
    <3> QED BY <1>1, <1>3, <2>4, <2>5
  <2>9. \A k \in 1..0 : y.data[k] = s[Len(K) + k]
    OBVIOUS
  <2>10. Text!Joined(y.blocks) = K
    BY <2>1 DEF K
  <2>11. FedUpTo(s, n + 1, y)
    <3> HIDE DEF J, q, d
    <3> QED BY <1>3, <2>1, <2>4, <2>6, <2>7, <2>8, <2>9, <2>10 DEF FedUpTo
  <2> QED BY <2>11 DEF y
<1> QED BY <1>7, <1>8

\* Before the first byte.
LEMMA FirstIsFed ==
  ASSUME BlockSize \in Nat, BlockSize >= 8, NEW s
  PROVE  FedUpTo(s, 0, FirstFed)
<1>1. FirstFed \in Feeding
  BY DEF FirstFed, Feeding
<1>2. FirstFed.blocks = <<>> /\ FirstFed.next = 0 + 1 /\ FirstFed.datalen = 0
  BY DEF FirstFed
<1>3. Text!Joined(<<>>) = <<>> /\ Len(<<>>) = 0 /\ <<>> \in Seq(Int)
  BY JoinedNone
<1>4. BlockSize * 0 = 0
  OBVIOUS
<1> DEFINE r == FirstFed
<1>5. /\ Text!Joined(r.blocks) \in Seq(Int) /\ Len(Text!Joined(r.blocks)) = 0
      /\ Len(r.blocks) = 0
  BY <1>2, <1>3
<1>6. /\ Len(Text!Joined(r.blocks)) + r.datalen = 0
      /\ Len(Text!Joined(r.blocks)) = BlockSize * Len(r.blocks)
  BY <1>2, <1>4, <1>5
<1>7. \A i \in 1..0 : FALSE
  OBVIOUS
<1> HIDE DEF r
<1> QED BY <1>1, <1>2, <1>5, <1>6, <1>7 DEF FedUpTo, r

\* What sha256_update leaves of the file.
LEMMA FileFed ==
  ASSUME BlockSize \in Nat, BlockSize >= 8, NEW s \in Seq(Int)
  PROVE  \E r : FedUpTo(s, Len(s), r) /\ Text!sha256_update(s) = Digested(r)
<1> DEFINE N == Len(s)
<1>1. N \in Nat
  OBVIOUS
<1>2. PICK loop : FeedingLoop(s, loop) /\ Text!sha256_update(s) = loop[FirstFed]
  BY FeedingLoops
<1> DEFINE P == {n \in 0..N : \E r : FedUpTo(s, n, r) /\ loop[FirstFed] = loop[r]}
<1>3. 0 \in P
  BY <1>1, FirstIsFed
<1>4. ASSUME NEW n \in 1..N, n - 1 \in P PROVE n \in P
  <2>1. n - 1 \in Nat /\ n - 1 < N /\ n - 1 + 1 = n /\ n \in 0..N
    <3> HIDE DEF N
    <3> QED BY <1>1
  <2>2. PICK r : FedUpTo(s, n - 1, r) /\ loop[FirstFed] = loop[r]
    BY <1>4
  <2>3. FedUpTo(s, n - 1 + 1, Fed(s, r))
    <3> HIDE DEF P
    <3> QED BY <2>1, <2>2, FedOn
  <2>4. r \in Feeding /\ r.next = n
    BY <2>1, <2>2 DEF FedUpTo
  <2>5. ~(r.next > N)
    <3> HIDE DEF N
    <3> QED BY <1>1, <2>4
  <2>6. loop[r] = loop[Fed(s, r)]
    BY <1>2, <2>4, <2>5 DEF FeedingLoop
  <2> QED BY <2>1, <2>2, <2>3, <2>6
<1>5. N \in P
  <2> HIDE DEF P
  <2>1. 0..N \subseteq P
    BY <1>1, <1>3, <1>4, PrefixInduction
  <2>2. N \in 0..N
    BY <1>1
  <2> QED BY <2>1, <2>2
<1>6. PICK r : FedUpTo(s, N, r) /\ loop[FirstFed] = loop[r]
  BY <1>5
<1>7. r \in Feeding /\ r.next = N + 1
  BY <1>6 DEF FedUpTo
<1>8. r.next > N
  <2> HIDE DEF N
  <2> QED BY <1>1, <1>7
<1>9. loop[r] = Digested(r)
  BY <1>2, <1>7, <1>8 DEF FeedingLoop
<1> QED BY <1>2, <1>6, <1>9

\* T is the first n bytes of s, one bit, zeros and the length in bits.
PaddedTo(T, s, n, end) ==
    /\ T \in Seq(Int) /\ end \in Nat /\ Len(T) = end + Text!LengthSize
    /\ n < end /\ end - n <= BlockSize
    /\ \A i \in 1..n : T[i] = s[i]
    /\ T[n + 1] = 128
    /\ \A i \in n+2..end : T[i] = 0
    /\ \A j \in 1..Text!LengthSize : T[end + j] = Text!LengthByte(8 * n, j)

\* Sequences that agree everywhere are equal.
LEMMA SequencesEqual ==
  ASSUME NEW T, NEW s \in Seq(T), NEW t \in Seq(T), Len(s) = Len(t),
         \A i \in 1..Len(s) : s[i] = t[i]
  PROVE  s = t
BY SeqEqual

\* What BlocksRight says of the text.
TextRight(text, s) ==
    LET end == Len(text) - Text!LengthSize
    IN  /\ end > Len(s)
        /\ end - Len(s) <= BlockSize
        /\ SubSeq(text, 1, Len(s) + 1) = Append(s, 128)
        /\ \A k \in Len(s)+2..end : text[k] = 0
        /\ Text!Base256(SubSeq(text, end + 1, Len(text))) = 8 * Len(s)

\* What is so is what BlocksRight says.
LEMMA PaddedIsRight ==
  ASSUME NEW s \in Seq(Int), NEW T, NEW end, PaddedTo(T, s, Len(s), end),
         Text!LengthSize \in Nat, 8 * Len(s) < Text!Lengths
  PROVE  TextRight(T, s)
<1> DEFINE n == Len(s)
           E == Text!LengthSize
           L == Len(T)
<1>1. n \in Nat
  OBVIOUS
<1>2. /\ T \in Seq(Int) /\ end \in Nat /\ L = end + E
      /\ n < end /\ end - n <= BlockSize
      /\ (\A i \in 1..n : T[i] = s[i]) /\ T[n + 1] = 128
      /\ (\A i \in n+2..end : T[i] = 0)
      /\ \A j \in 1..E : T[end + j] = Text!LengthByte(8 * n, j)
  BY DEF PaddedTo
<1>3. L - E = end /\ E \in Nat /\ n + 1 <= L /\ end + E <= L
  <2> HIDE DEF n, E, L
  <2> QED BY <1>1, <1>2 DEF E
<1>4. SubSeq(T, 1, n + 1) = Append(s, 128)
  <2> DEFINE zero == 0
             m == n + 1
             x == SubSeq(T, 1, n + 1)
             y == Append(s, 128)
  <2>1. /\ SubSeq(T, zero + 1, zero + m) \in Seq(Int) /\ Len(SubSeq(T, zero + 1, zero + m)) = m
        /\ \A k \in 1..m : SubSeq(T, zero + 1, zero + m)[k] = T[zero + k]
    <3>1. zero \in Nat /\ m \in Nat /\ zero + m <= Len(T)
      <4> HIDE DEF n, L, E
      <4> QED BY <1>1, <1>3 DEF L
    <3> HIDE DEF zero, m
    <3> QED BY <1>2, <3>1, PieceIs
  <2>2. zero + 1 = 1 /\ zero + m = n + 1 /\ m \in Nat /\ \A k \in 1..m : zero + k = k
    <3> HIDE DEF n
    <3> QED BY <1>1
  <2>3. x \in Seq(Int) /\ Len(x) = m /\ \A k \in 1..m : x[k] = T[k]
    <3> HIDE DEF zero, m
    <3> QED BY <2>1, <2>2
  <2>4. y \in Seq(Int) /\ Len(y) = m /\ y[m] = 128 /\ \A k \in 1..n : y[k] = s[k]
    <3> DEFINE c == 128
    <3>1. c \in Int
      OBVIOUS
    <3> HIDE DEF c
    <3>2. /\ Append(s, c) \in Seq(Int) /\ Len(Append(s, c)) = Len(s) + 1
          /\ (\A i \in 1..Len(s) : Append(s, c)[i] = s[i]) /\ Append(s, c)[Len(s) + 1] = c
      BY <3>1, AppendProperties
    <3> QED BY <3>2 DEF c
  <2> HIDE DEF x, y, zero
  <2>5. \A k \in 1..m : k \in 1..n \/ k = m
    <3> HIDE DEF n
    <3> QED BY <1>1
  <2>6. \A k \in 1..m : x[k] = y[k]
    <3> HIDE DEF n
    <3> QED BY <1>2, <2>3, <2>4, <2>5
  <2> HIDE DEF m
  <2>7. x = y
    BY <2>3, <2>4, <2>6, SequencesEqual
  <2> QED BY <2>7 DEF x, y
<1>5. Text!Base256(SubSeq(T, end + 1, end + E)) = 8 * n
  <2> DEFINE x == SubSeq(T, end + 1, end + E)
             n8 == 8 * n
  <2>1. x \in Seq(Int) /\ Len(x) = E /\ \A k \in 1..E : x[k] = T[end + k]
    <3> HIDE DEF E, L
    <3> QED BY <1>2, <1>3, PieceIs DEF L
  <2> HIDE DEF x
  <2>2. DOMAIN x = 1..E
    BY <2>1, LenProperties
  <2>3. x = [k \in 1..E |-> Text!LengthByte(n8, k)]
    <3>1. \A k \in 1..E : x[k] = Text!LengthByte(n8, k)
      BY <1>2, <2>1
    <3>2. x = [k \in 1..E |-> x[k]]
      BY <2>1, <2>2
    <3> HIDE DEF E, n8
    <3> QED BY <3>1, <3>2
  <2>4. n8 \in Nat /\ n8 < Text!Lengths
    <3> HIDE DEF n
    <3> QED BY <1>1 DEF n
  <2> HIDE DEF n8
  <2>5. Text!Base256(x) = n8
    BY <2>3, <2>4, LengthBytes
  <2> QED BY <2>5 DEF x, n8
<1> HIDE DEF n, E, L
<1>6. TextRight(T, s)
  BY <1>1, <1>2, <1>3, <1>4, <1>5 DEF TextRight, n, E, L
<1> QED BY <1>6

\* Two blocks are appended one after the other.
LEMMA TwoBehind ==
  ASSUME NEW T, NEW s \in Seq(T), NEW x \in T, NEW y \in T
  PROVE  s \o <<x, y>> = Append(Append(s, x), y)
<1> DEFINE a == <<x>>
           b == <<y>>
<1>1. a \in Seq(T) /\ b \in Seq(T)
  OBVIOUS
<1>2. <<x, y>> = a \o b
  <2> DEFINE c == <<x, y>>
             h == a \o b
  <2>1. c \in Seq(T) /\ Len(c) = 2 /\ c[1] = x /\ c[2] = y
    OBVIOUS
  <2>2. Len(a) = 1 /\ a[1] = x /\ Len(b) = 1 /\ b[1] = y
    OBVIOUS
  <2> HIDE DEF a, b, c, h
  <2>3. Concatenates(h, a, b, T)
    BY <1>1, JoinedLen DEF h
  <2>4. h \in Seq(T) /\ Len(h) = 2 /\ h[1] = x /\ h[2] = y
    BY <2>2, <2>3 DEF Concatenates
  <2>5. c = h
    BY <2>1, <2>4, SequencesEqual
  <2> QED BY <2>5 DEF c, h
<1> HIDE DEF a, b
<1>3. s \o (a \o b) = (s \o a) \o b
  BY <1>1, ConcatAssociative
<1>4. s \o a = Append(s, x) /\ Append(s, x) \in Seq(T)
  BY AppendIsConcat, AppendProperties DEF a
<1>5. Append(s, x) \o b = Append(Append(s, x), y)
  BY <1>4, AppendIsConcat DEF b
<1> QED BY <1>2, <1>3, <1>4, <1>5

\* Where the length lies in a block.
LEMMA SizesAre ==
  ASSUME BlockSize \in Nat, BlockSize >= 8
  PROVE  /\ Text!LengthSize \in Nat /\ Text!DataSize \in Nat
         /\ Text!DataSize + Text!LengthSize = BlockSize
         /\ Text!LengthSize >= 1 /\ Text!DataSize >= 1
BY DEF Text!LengthSize, Text!DataSize

\* A remainder of what is small.
LEMMA SmallRemainder ==
  ASSUME NEW x \in Nat, NEW m \in Int, x < m
  PROVE  (x % m) = x
OBVIOUS

\* The bound on the lengths is a number.
LEMMA LengthsAre ==
  ASSUME Text!LengthSize \in Nat
  PROVE  Text!Lengths \in Int
<1> DEFINE E == Text!LengthSize
           ff == [k \in 1..E |-> 255]
<1>1. ff \in Seq(Int)
  <2>1. ff \in [1..E -> Int]
    OBVIOUS
  <2> HIDE DEF ff
  <2> QED BY <2>1, SequenceOf
<1>2. Text!Lengths = Text!Base256(ff) + 1
  BY DEF Text!Lengths
<1> HIDE DEF ff
<1>3. PICK f : ValueBy(f, ff)
  BY <1>1, Base256Is
<1>4. Text!Base256(ff) \in Int
  <2> DEFINE L == Len(ff)
  <2>1. L \in Nat
    BY <1>1
  <2>2. f \in [0..L -> Int] /\ Text!Base256(ff) = f[L]
    BY <1>3 DEF ValueBy
  <2> HIDE DEF L
  <2>3. L \in 0..L
    BY <2>1
  <2> QED BY <2>2, <2>3
<1> QED BY <1>2, <1>4

\* The bits of whole blocks and of what is behind them.
LEMMA EightTimes ==
  ASSUME NEW b \in Nat, NEW q \in Nat, NEW d \in Nat
  PROVE  8 * b * q + 8 * d = 8 * (b * q + d)
<1> DEFINE p == b * q
<1>1. p \in Nat /\ 8 * b * q = 8 * p
  OBVIOUS
<1> HIDE DEF p
<1>2. 8 * p + 8 * d = 8 * (p + d)
  BY <1>1
<1> QED BY <1>1, <1>2 DEF p

\* The two blocks that sha256_final makes.
Padded(data, d) ==
    [k \in 1..BlockSize |->
       CASE k = d + 1 -> 128
         [] k > d + 1 /\ (d < Text!DataSize => k <= Text!DataSize) -> 0
         [] OTHER -> data[k]]
LastBlock(data, d, bits) ==
    [k \in 1..BlockSize |->
       CASE k > Text!DataSize -> Text!LengthByte(bits, k - Text!DataSize)
         [] k <= Text!DataSize -> IF d < Text!DataSize THEN Padded(data, d)[k] ELSE 0]

\* sha256_final appends one of these blocks, or both.
LEMMA FinalIs ==
  ASSUME NEW r
  PROVE  LET d == r.datalen
             bits == (8 * BlockSize * Len(r.blocks) + 8 * d) % Text!Lengths
             last == LastBlock(r.data, d, bits)
         IN  Text!sha256_final(Digested(r)) =
               r.blocks \o (IF d < Text!DataSize THEN <<last>> ELSE <<Padded(r.data, d), last>>)
<1> DEFINE ctx == Digested(r)
<1>1. /\ ctx.datalen = r.datalen /\ ctx.data = r.data /\ ctx.blocks = r.blocks
      /\ ctx.bitlen = 8 * BlockSize * Len(r.blocks)
  BY DEF Digested
<1> HIDE DEF ctx
<1>2. Text!sha256_final(ctx) =
        LET bits == (ctx.bitlen + 8 * ctx.datalen) % Text!Lengths
            last == LastBlock(ctx.data, ctx.datalen, bits)
        IN  ctx.blocks \o (IF ctx.datalen < Text!DataSize THEN <<last>>
                           ELSE <<Padded(ctx.data, ctx.datalen), last>>)
  BY Zenon DEF Text!sha256_final, LastBlock, Padded
<1> QED BY <1>1, <1>2, Zenon DEF ctx

\* A byte of the length is a number.
LEMMA LengthByteIs ==
  ASSUME NEW n \in Nat, Text!LengthSize \in Nat, NEW k \in 1..Text!LengthSize
  PROVE  Text!LengthByte(n, k) \in Int
<1> DEFINE L == Text!LengthSize
<1>1. PICK sh : ShiftedBy(sh, n)
  BY ShiftedIs
<1>2. /\ L \in Nat /\ sh \in [0..L -> Nat] /\ Text!LengthByte(n, k) = (sh[L - k] % 256)
  BY <1>1 DEF ShiftedBy
<1>3. L - k \in 0..L
  <2> HIDE DEF L
  <2> QED BY <1>2 DEF L
<1> DEFINE v == sh[L - k]
<1>4. v \in Nat /\ Text!LengthByte(n, k) = (v % 256)
  BY <1>2, <1>3
<1> HIDE DEF v
<1> QED BY <1>4

\* A block of what is appended: the data up to d, a bit, zeros up to where the
\* length begins, the length.
IsPadded(p, data, d) ==
    /\ p \in Seq(Int) /\ Len(p) = BlockSize
    /\ \A k \in 1..d : p[k] = data[k]
    /\ p[d + 1] = 128
    /\ \A k \in d+2..BlockSize : (d < Text!DataSize => k <= Text!DataSize) => p[k] = 0
IsLast(l, data, d, bits) ==
    /\ l \in Seq(Int) /\ Len(l) = BlockSize
    /\ \A k \in 1..Text!DataSize : l[k] = IF d < Text!DataSize THEN Padded(data, d)[k] ELSE 0
    /\ \A j \in 1..Text!LengthSize : l[Text!DataSize + j] = Text!LengthByte(bits, j)

\* The block with the bit.
LEMMA PaddedIs ==
  ASSUME BlockSize \in Nat, BlockSize >= 8, NEW data \in [1..BlockSize -> Int],
         NEW d \in 0..BlockSize-1, NEW p, p = Padded(data, d)
  PROVE  IsPadded(p, data, d)
<1> DEFINE fits(k) == d < Text!DataSize => k <= Text!DataSize
           arm(k) == IF k = d + 1 THEN 128 ELSE IF k > d + 1 /\ fits(k) THEN 0 ELSE data[k]
<1>1. \A k \in 1..BlockSize : p[k] = arm(k)
  <2> TAKE k \in 1..BlockSize
  <2>1. p[k] = CASE k = d + 1 -> 128
                 [] k > d + 1 /\ (d < Text!DataSize => k <= Text!DataSize) -> 0
                 [] OTHER -> data[k]
    BY DEF Padded
  <2>2. k = d + 1 => ~(k > d + 1)
    OBVIOUS
  <2> QED BY <2>1, <2>2
<1>2. p \in [1..BlockSize -> Int]
  <2>1. p = [k \in 1..BlockSize |-> p[k]]
    BY DEF Padded
  <2>2. \A k \in 1..BlockSize : arm(k) \in Int
    OBVIOUS
  <2> HIDE DEF arm
  <2> QED BY <1>1, <2>1, <2>2
<1>3. p \in Seq(Int) /\ Len(p) = BlockSize
  BY <1>2, SequenceOf
<1>4. \A k \in 1..d : k \in 1..BlockSize /\ k # d + 1 /\ ~(k > d + 1)
  OBVIOUS
<1>5. \A k \in d+2..BlockSize : k \in 1..BlockSize /\ k # d + 1 /\ k > d + 1
  OBVIOUS
<1>6. d + 1 \in 1..BlockSize
  OBVIOUS
<1> QED BY <1>1, <1>3, <1>4, <1>5, <1>6 DEF IsPadded

\* The block with the length.
LEMMA LastIs ==
  ASSUME BlockSize \in Nat, BlockSize >= 8, NEW data \in [1..BlockSize -> Int],
         NEW d \in 0..BlockSize-1, NEW bits \in Nat, NEW l, l = LastBlock(data, d, bits)
  PROVE  IsLast(l, data, d, bits)
<1> DEFINE C == Text!DataSize
           E == Text!LengthSize
           early(k) == IF d < C THEN Padded(data, d)[k] ELSE 0
           arm(k) == IF k > C THEN Text!LengthByte(bits, k - C) ELSE early(k)
<1>1. C \in Nat /\ E \in Nat /\ C + E = BlockSize
  BY SizesAre
<1>2. \A k \in 1..BlockSize : Padded(data, d)[k] \in Int
  <2> DEFINE p == Padded(data, d)
  <2>1. p \in Seq(Int) /\ Len(p) = BlockSize
    BY PaddedIs DEF IsPadded
  <2> HIDE DEF p
  <2>2. \A k \in 1..BlockSize : p[k] \in Int
    BY <2>1
  <2> QED BY <2>2 DEF p
<1>3. \A k \in 1..BlockSize : l[k] = arm(k)
  <2> TAKE k \in 1..BlockSize
  <2>1. l[k] = CASE k > C -> Text!LengthByte(bits, k - C)
                 [] k <= C -> early(k)
    BY DEF LastBlock
  <2> HIDE DEF C, early
  <2>2. k <= C <=> ~(k > C)
    BY <1>1
  <2> QED BY <2>1, <2>2
<1>4. \A k \in 1..BlockSize : arm(k) \in Int
  <2> TAKE k \in 1..BlockSize
  <2>1. k > C => k - C \in 1..E
    <3> HIDE DEF C, E
    <3> QED BY <1>1
  <2>2. k > C => Text!LengthByte(bits, k - C) \in Int
    <3> HIDE DEF C
    <3> QED BY <1>1, <2>1, LengthByteIs
  <2>3. early(k) \in Int
    BY <1>2
  <2> HIDE DEF early, C
  <2> QED BY <2>2, <2>3
<1>5. l \in [1..BlockSize -> Int]
  <2>1. l = [k \in 1..BlockSize |-> l[k]]
    <3> DEFINE e(k) == CASE k > C -> Text!LengthByte(bits, k - C) [] k <= C -> early(k)
    <3>1. l = [k \in 1..BlockSize |-> e(k)]
      BY Zenon DEF LastBlock
    <3> HIDE DEF e
    <3> QED BY <3>1
  <2> HIDE DEF arm
  <2> QED BY <1>3, <1>4, <2>1
<1>6. l \in Seq(Int) /\ Len(l) = BlockSize
  BY <1>5, SequenceOf
<1>7. \A k \in 1..C : k \in 1..BlockSize /\ ~(k > C)
  <2> HIDE DEF C, E
  <2> QED BY <1>1
<1>8. \A j \in 1..E : C + j \in 1..BlockSize /\ C + j > C /\ C + j - C = j
  <2> HIDE DEF C, E
  <2> QED BY <1>1
<1> HIDE DEF C, E, early
<1>9. (\A k \in 1..C : l[k] = early(k)) /\ \A j \in 1..E : l[C + j] = Text!LengthByte(bits, j)
  <2>1. \A k \in 1..C : arm(k) = early(k)
    BY <1>7
  <2>2. \A j \in 1..E : arm(C + j) = Text!LengthByte(bits, j)
    <3> TAKE j \in 1..E
    <3> DEFINE c == C + j
               x == c - C
    <3>1. c > C /\ x = j
      <4> HIDE DEF arm
      <4> QED BY <1>1
    <3>2. arm(c) = IF c > C THEN Text!LengthByte(bits, x) ELSE early(c)
      OBVIOUS
    <3> HIDE DEF c, x, arm
    <3>3. arm(c) = Text!LengthByte(bits, j)
      BY <3>1, <3>2
    <3> QED BY <3>3 DEF c
  <2> HIDE DEF arm
  <2> QED BY <1>3, <1>7, <1>8, <2>1, <2>2
<1> QED BY <1>6, <1>9 DEF C, E, early, IsLast

\* The blocks of a checksum are right.
LEMMA BlocksCut ==
  ASSUME BlockSize \in Nat, BlockSize >= 8, NEW s \in Seq(Int), 8 * Len(s) < Text!Lengths
  PROVE  LET blocks == Text!sha256_final(Text!sha256_update(s))
         IN  /\ Len(Text!Joined(blocks)) = BlockSize * Len(blocks)
             /\ TextRight(Text!Joined(blocks), s)
<1> DEFINE N == Len(s)
           C == Text!DataSize
           E == Text!LengthSize
<1>1. N \in Nat
  OBVIOUS
<1>2. PICK r : FedUpTo(s, N, r) /\ Text!sha256_update(s) = Digested(r)
  BY FileFed
<1> DEFINE J == Text!Joined(r.blocks)
           q == Len(J)
           d == r.datalen
           Q == Len(r.blocks)
           bits == (8 * BlockSize * Q + 8 * d) % Text!Lengths
           p == Padded(r.data, d)
           l == LastBlock(r.data, d, bits)
           F == Text!sha256_final(Digested(r))
<1>3. /\ r \in Feeding /\ J \in Seq(Int) /\ q = BlockSize * Q /\ q + d = N
      /\ (\A i \in 1..q : J[i] = s[i]) /\ (\A k \in 1..d : r.data[k] = s[q + k])
  BY <1>2 DEF FedUpTo
<1>4. /\ d \in 0..BlockSize-1 /\ d \in Nat /\ r.data \in [1..BlockSize -> Int]
      /\ r.blocks \in Seq(Seq(Int)) /\ Q \in Nat /\ q \in Nat
  BY <1>3 DEF Feeding
<1>5. C \in Nat /\ E \in Nat /\ C + E = BlockSize /\ C >= 1 /\ E >= 1
  BY SizesAre
<1>6. bits = 8 * N /\ bits \in Nat
  <2> DEFINE x == 8 * BlockSize * Q + 8 * d
             M == Text!Lengths
  <2>1. x = 8 * (BlockSize * Q + d)
    <3> HIDE DEF Q, d
    <3> QED BY <1>4, EightTimes DEF Q, d
  <2>2. x = 8 * N
    BY <1>3, <2>1
  <2>3. x \in Nat /\ x < M /\ M \in Int
    <3>1. M \in Int
      BY <1>5, LengthsAre
    <3>2. 8 * N \in Nat /\ 8 * N < M
      <4> HIDE DEF N, M
      <4> QED BY <1>1 DEF N, M
    <3> HIDE DEF x, M, N
    <3> QED BY <2>2, <3>1, <3>2
  <2>4. (x % M) = x
    <3> HIDE DEF x, M
    <3> QED BY <2>3, SmallRemainder
  <2>5. bits = (x % M)
    OBVIOUS
  <2> HIDE DEF x, M, bits, N
  <2> QED BY <2>2, <2>3, <2>4, <2>5
<1>7. F = r.blocks \o (IF d < C THEN <<l>> ELSE <<p, l>>)
  BY FinalIs, Zenon
<1> HIDE DEF bits, F
<1>8. /\ p \in Seq(Int) /\ Len(p) = BlockSize
      /\ (\A k \in 1..d : p[k] = r.data[k]) /\ p[d + 1] = 128
      /\ \A k \in d+2..BlockSize : (d < C => k <= C) => p[k] = 0
  <2> DEFINE data == r.data
  <2>1. data \in [1..BlockSize -> Int] /\ d \in 0..BlockSize-1 /\ p = Padded(data, d)
    BY <1>4
  <2> HIDE DEF data, d, p
  <2>2. IsPadded(p, data, d)
    BY <2>1, PaddedIs
  <2> QED BY <2>2 DEF data, IsPadded
<1>9. /\ l \in Seq(Int) /\ Len(l) = BlockSize
      /\ (\A k \in 1..C : l[k] = IF d < C THEN p[k] ELSE 0)
      /\ \A j \in 1..E : l[C + j] = Text!LengthByte(8 * N, j)
  <2> DEFINE data == r.data
  <2>1. data \in [1..BlockSize -> Int] /\ d \in 0..BlockSize-1 /\ l = LastBlock(data, d, bits)
    BY <1>4
  <2> HIDE DEF data, d, l
  <2>2. IsLast(l, data, d, bits)
    BY <1>6, <2>1, LastIs
  <2> HIDE DEF N
  <2> QED BY <1>6, <2>2 DEF data, IsLast
<1>a. /\ N \in Nat /\ q \in Nat /\ d \in Nat /\ Q \in Nat /\ C \in Nat /\ E \in Nat
      /\ q + d = N /\ d < BlockSize /\ C + E = BlockSize /\ C >= 1 /\ E >= 1 /\ q = BlockSize * Q
  <2>1. d < BlockSize
    <3> HIDE DEF d
    <3> QED BY <1>4
  <2> HIDE DEF N, C, E, q, d, Q
  <2> QED BY <1>1, <1>3, <1>4, <1>5, <2>1
<1> HIDE DEF N, C, E, p, l
<1> DEFINE T == Text!Joined(F)
<1>10. CASE d < C
  <2>1. F = Append(r.blocks, l)
    <3> HIDE DEF d
    <3> QED BY <1>4, <1>7, <1>9, <1>10, AppendIsConcat
  <2>2. T = J \o l /\ Len(F) = Q + 1
    <3>1. Text!Joined(Append(r.blocks, l)) = Text!Joined(r.blocks) \o l
      <4> DEFINE bs == r.blocks
      <4> HIDE DEF bs
      <4> QED BY <1>4, <1>9, JoinedAppend DEF bs
    <3>2. Len(Append(r.blocks, l)) = Len(r.blocks) + 1
      BY <1>4, <1>9, AppendProperties
    <3> QED BY <2>1, <3>1, <3>2
  <2> HIDE DEF T, J
  <2>3. Concatenates(T, J, l, Int)
    BY <1>3, <1>9, <2>2, JoinedLen
  <2>4. /\ T \in Seq(Int) /\ Len(T) = q + BlockSize /\ (\A k \in 1..q : T[k] = J[k])
        /\ \A k \in 1..BlockSize : T[q + k] = l[k]
    BY <1>9, <2>3 DEF Concatenates
  <2> DEFINE end == q + C
  <2> HIDE DEF q, d, Q
  <2>5. Len(T) = BlockSize * Len(F)
    BY <1>3, <1>4, <2>2, <2>4, OneMore
  <2>6. end \in Nat /\ Len(T) = end + E /\ N < end /\ end - N <= BlockSize
    <3> DEFINE size == Len(T)
    <3>1. size = q + BlockSize
      BY <2>4
    <3> HIDE DEF size
    <3>2. end \in Nat /\ size = end + E /\ N < end /\ end - N <= BlockSize
      BY <1>a, <1>10, <3>1
    <3> QED BY <3>2 DEF size
  <2>7. ASSUME NEW i \in 1..N PROVE T[i] = s[i]
    <3>1. CASE i \in 1..q
      BY <1>3, <2>4, <3>1
    <3>2. CASE i \notin 1..q
      <4> DEFINE k == i - q
      <4>1. k \in 1..d /\ i = q + k /\ k \in 1..BlockSize /\ k \in 1..C
        BY <1>a, <1>10, <3>2
      <4> HIDE DEF k
      <4> QED BY <1>3, <1>8, <1>9, <1>10, <2>4, <4>1
    <3> QED BY <3>1, <3>2
  <2>8. T[N + 1] = 128
    <3> DEFINE k == d + 1
    <3>1. k \in 1..BlockSize /\ k \in 1..C /\ N + 1 = q + k
      BY <1>a, <1>10
    <3>2. l[k] = 128
      BY <1>8, <1>9, <1>10, <3>1
    <3> HIDE DEF k
    <3> QED BY <2>4, <3>1, <3>2
  <2>9. ASSUME NEW i \in N+2..end PROVE T[i] = 0
    <3> DEFINE k == i - q
    <3>1. k \in d+2..BlockSize /\ i = q + k /\ k \in 1..BlockSize /\ k \in 1..C /\ k <= C
      BY <1>a, <1>10
    <3> HIDE DEF k
    <3> QED BY <1>8, <1>9, <1>10, <2>4, <3>1
  <2>10. ASSUME NEW j \in 1..E PROVE T[end + j] = Text!LengthByte(8 * N, j)
    <3> DEFINE k == C + j
    <3>1. k \in 1..BlockSize /\ end + j = q + k
      BY <1>a
    <3>2. l[k] = Text!LengthByte(8 * N, j)
      BY <1>9
    <3> HIDE DEF k, end
    <3> QED BY <2>4, <3>1, <3>2
  <2>11. PaddedTo(T, s, N, end)
    <3> HIDE DEF end
    <3> QED BY <2>4, <2>6, <2>7, <2>8, <2>9, <2>10 DEF PaddedTo, E
  <2>12. TextRight(T, s)
    <3> HIDE DEF end
    <3> QED BY <1>5, <2>11, PaddedIsRight DEF N, E
  <2> QED BY <1>2, <2>5, <2>12 DEF T, F
<1>11. CASE ~(d < C)
  <2>1. F = Append(Append(r.blocks, p), l)
    <3>1. F = r.blocks \o <<p, l>>
      BY <1>7, <1>11, Zenon
    <3> DEFINE bs == r.blocks
    <3>2. bs \in Seq(Seq(Int)) /\ p \in Seq(Int) /\ l \in Seq(Int)
      BY <1>4, <1>8, <1>9
    <3> HIDE DEF bs
    <3>3. bs \o <<p, l>> = Append(Append(bs, p), l)
      BY <3>2, TwoBehind
    <3> QED BY <3>1, <3>3 DEF bs
  <2> DEFINE M == Append(r.blocks, p)
             K == Text!Joined(M)
  <2>2. K = J \o p /\ M \in Seq(Seq(Int)) /\ Len(M) = Q + 1
    <3>1. Text!Joined(Append(r.blocks, p)) = Text!Joined(r.blocks) \o p
      <4> DEFINE bs == r.blocks
      <4> HIDE DEF bs
      <4>1. bs \in Seq(Seq(Int)) /\ p \in Seq(Int)
        BY <1>4, <1>8 DEF bs
      <4>2. Text!Joined(Append(bs, p)) = Text!Joined(bs) \o p
        BY <4>1, JoinedAppend
      <4> QED BY <4>2 DEF bs
    <3>2. M \in Seq(Seq(Int)) /\ Len(M) = Len(r.blocks) + 1
      BY <1>4, <1>8, AppendProperties
    <3> QED BY <3>1, <3>2
  <2> HIDE DEF M
  <2>3. T = K \o l /\ Len(F) = (Q + 1) + 1
    <3>1. Text!Joined(Append(M, l)) = Text!Joined(M) \o l
      BY <1>9, <2>2, JoinedAppend
    <3>2. Len(Append(M, l)) = Len(M) + 1
      BY <1>9, <2>2, AppendProperties
    <3>3. F = Append(M, l)
      BY <2>1 DEF M
    <3> HIDE DEF Q
    <3> QED BY <2>2, <3>1, <3>2, <3>3
  <2> HIDE DEF T, J, K
  <2>4. Concatenates(K, J, p, Int)
    BY <1>3, <1>8, <2>2, JoinedLen
  <2>5. /\ K \in Seq(Int) /\ Len(K) = q + BlockSize /\ (\A k \in 1..q : K[k] = J[k])
        /\ \A k \in 1..BlockSize : K[q + k] = p[k]
    BY <1>8, <2>4 DEF Concatenates
  <2>6. Concatenates(T, K, l, Int)
    BY <1>9, <2>3, <2>5, JoinedLen
  <2> DEFINE u == q + BlockSize
             end == u + C
  <2>7. /\ T \in Seq(Int) /\ Len(T) = u + BlockSize /\ (\A k \in 1..u : T[k] = K[k])
        /\ \A k \in 1..BlockSize : T[u + k] = l[k]
    BY <1>9, <2>5, <2>6 DEF Concatenates
  <2> HIDE DEF q, d, Q
  <2>8. Len(T) = BlockSize * Len(F)
    <3> DEFINE a == Q + 1
    <3>1. a \in Nat /\ BlockSize * a = BlockSize * Q + BlockSize
      BY <1>a, OneMore
    <3> HIDE DEF a
    <3>2. BlockSize * (a + 1) = BlockSize * a + BlockSize
      BY <3>1, OneMore
    <3> QED BY <1>a, <2>3, <2>7, <3>1, <3>2 DEF a
  <2>9. end \in Nat /\ Len(T) = end + E /\ N < end /\ end - N <= BlockSize
    BY <1>a, <1>11, <2>7
  <2>10. \A k \in 1..q : k \in 1..u
    BY <1>4
  <2>11. ASSUME NEW k \in 1..BlockSize PROVE T[q + k] = p[k]
    <3>1. q + k \in 1..u
      BY <1>4
    <3> HIDE DEF u
    <3> QED BY <2>5, <2>7, <3>1
  <2>12. ASSUME NEW i \in 1..N PROVE T[i] = s[i]
    <3>1. CASE i \in 1..q
      BY <1>3, <2>5, <2>7, <2>10, <3>1
    <3>2. CASE i \notin 1..q
      <4> DEFINE k == i - q
      <4>1. k \in 1..d /\ i = q + k /\ k \in 1..BlockSize
        BY <1>a, <3>2
      <4> HIDE DEF k
      <4> QED BY <1>3, <1>8, <2>11, <4>1
    <3> QED BY <3>1, <3>2
  <2>13. T[N + 1] = 128
    <3> DEFINE k == d + 1
    <3>1. k \in 1..BlockSize /\ N + 1 = q + k /\ p[k] = 128
      BY <1>3, <1>4, <1>8
    <3> HIDE DEF k
    <3> QED BY <2>11, <3>1
  <2>14. ASSUME NEW i \in N+2..end PROVE T[i] = 0
    <3>1. CASE i <= u
      <4> DEFINE k == i - q
      <4>1. k \in d+2..BlockSize /\ i = q + k /\ k \in 1..BlockSize
        BY <1>a, <3>1
      <4> HIDE DEF k
      <4> QED BY <1>8, <1>11, <2>11, <4>1
    <3>2. CASE ~(i <= u)
      <4> DEFINE k == i - u
      <4>1. k \in 1..BlockSize /\ k \in 1..C /\ i = u + k
        BY <1>a, <3>2
      <4> HIDE DEF k, u
      <4> QED BY <1>9, <1>11, <2>7, <4>1
    <3> QED BY <3>1, <3>2
  <2>15. ASSUME NEW j \in 1..E PROVE T[end + j] = Text!LengthByte(8 * N, j)
    <3> DEFINE k == C + j
    <3>1. k \in 1..BlockSize /\ end + j = u + k
      BY <1>a
    <3>2. l[k] = Text!LengthByte(8 * N, j)
      BY <1>9
    <3> HIDE DEF k, end, u
    <3> QED BY <2>7, <3>1, <3>2
  <2>16. PaddedTo(T, s, N, end)
    <3> HIDE DEF end
    <3> QED BY <2>7, <2>9, <2>12, <2>13, <2>14, <2>15 DEF PaddedTo, E
  <2>17. TextRight(T, s)
    <3> HIDE DEF end
    <3> QED BY <1>5, <2>16, PaddedIsRight DEF N, E
  <2> QED BY <1>2, <2>8, <2>17 DEF T, F
<1> QED BY <1>10, <1>11

-----------------------------------------------------------------------------
(* A checker's reading of a file.                                             *)

\* The states of checker_read_file_by_line's loops.
LineReading == [next : Nat \ {0}, b : Seq(Nat), b_a : Nat, lines : Seq(Seq(Nat)), lb_a : Nat]
\* There is a character, and it belongs to the line.
Takes(s, r) == r.next <= Len(s) /\ (r.b = <<>> \/ r.b[Len(r.b)] # Text!NewLine)
Taken(s, r) == [next |-> r.next + 1, b |-> Append(r.b, s[r.next]),
                b_a |-> Text!Capacity(Len(r.b), r.b_a), lines |-> r.lines, lb_a |-> r.lb_a]
Emitted(r) == [next |-> r.next, b |-> <<>>, b_a |-> r.b_a,
               lines |-> Append(r.lines, Append(r.b, 0)),
               lb_a |-> Text!Capacity(Len(r.lines), r.lb_a)]
ReadOn(s, r) == IF Takes(s, r) THEN Taken(s, r) ELSE Emitted(r)
ReadAll(r) == [lines |-> r.lines, b_a |-> r.b_a, lb_a |-> r.lb_a]
AtEnd(s, r) == r.next > Len(s) /\ r.b = <<>>
ReadingLoop(s, loop) ==
    \A r \in LineReading : loop[r] = IF AtEnd(s, r) THEN ReadAll(r) ELSE loop[ReadOn(s, r)]
FirstRead == [next |-> 1, b |-> <<>>, b_a |-> FirstCapacity, lines |-> <<>>, lb_a |-> FirstCapacity]

\* A buffer that grows never lacks room for what is stored and a 0.
LEMMA CapacityIs ==
  ASSUME NEW len \in Nat, NEW cap \in Nat
  PROVE  /\ Text!Capacity(len, cap) \in Nat /\ cap <= Text!Capacity(len, cap)
         /\ len < cap => len + 1 < Text!Capacity(len, cap)
BY DEF Text!Capacity

\* Before the end of the file the next state is one too.
LEMMA ReadingGoesOn ==
  ASSUME NEW s \in Seq(Nat), NEW r \in LineReading, ~AtEnd(s, r)
  PROVE  IF Takes(s, r)
         THEN /\ Taken(s, r) \in LineReading /\ Taken(s, r).b # <<>> /\ Taken(s, r).next = r.next + 1
              /\ r.next \in 1..Len(s) /\ s[r.next] \in Nat
         ELSE /\ Emitted(r) \in LineReading /\ Emitted(r).b = <<>> /\ Emitted(r).next = r.next
              /\ r.b # <<>> /\ (r.next > Len(s) \/ r.b[Len(r.b)] = Text!NewLine)
<1> DEFINE L == Len(s)
<1>1. /\ r.next \in Nat /\ r.next >= 1 /\ r.b \in Seq(Nat) /\ r.b_a \in Nat
      /\ r.lines \in Seq(Seq(Nat)) /\ r.lb_a \in Nat /\ L \in Nat
      /\ Len(r.b) \in Nat /\ Len(r.lines) \in Nat
  BY DEF LineReading
<1>2. r.next + 1 \in Nat \ {0} /\ r.next \in Nat \ {0}
  BY <1>1
<1>3. CASE Takes(s, r)
  <2>1. r.next \in 1..L
    <3>1. r.next <= L
      BY <1>3 DEF Takes
    <3> HIDE DEF L
    <3> QED BY <1>1, <3>1
  <2>2. s[r.next] \in Nat
    BY <2>1
  <2> DEFINE c == s[r.next]
             b == Append(r.b, c)
             cap == Text!Capacity(Len(r.b), r.b_a)
  <2>3. b \in Seq(Nat) /\ b # <<>>
    <3> DEFINE b0 == r.b
    <3>1. b0 \in Seq(Nat) /\ c \in Nat
      BY <1>1, <2>2
    <3> HIDE DEF b0, c
    <3>2. Append(b0, c) \in Seq(Nat) /\ Append(b0, c) # <<>>
      BY <3>1, AppendProperties
    <3> QED BY <3>2 DEF b0
  <2>4. cap \in Nat
    BY <1>1, CapacityIs
  <2> HIDE DEF b, cap
  <2>5. Taken(s, r) = [next |-> r.next + 1, b |-> b, b_a |-> cap, lines |-> r.lines, lb_a |-> r.lb_a]
    BY DEF Taken, b, cap
  <2>6. Taken(s, r) \in LineReading /\ Taken(s, r).b = b /\ Taken(s, r).next = r.next + 1
    BY <1>1, <1>2, <2>3, <2>4, <2>5 DEF LineReading
  <2> QED BY <1>3, <2>1, <2>2, <2>3, <2>6
<1>4. CASE ~Takes(s, r)
  <2> DEFINE full == ~(r.b = <<>> \/ r.b[Len(r.b)] # Text!NewLine)
  <2>1. r.next > L \/ full
    <3>1. ~(r.next <= L) \/ full
      BY <1>4 DEF Takes
    <3> HIDE DEF L, full
    <3> QED BY <1>1, <3>1
  <2>2. r.b # <<>> /\ (r.next > L \/ r.b[Len(r.b)] = Text!NewLine)
    BY <2>1 DEF AtEnd
  <2> DEFINE b == Append(r.b, 0)
             ls == Append(r.lines, b)
             cap == Text!Capacity(Len(r.lines), r.lb_a)
  <2>3. b \in Seq(Nat)
    BY <1>1, AppendProperties
  <2>4. cap \in Nat
    BY <1>1, CapacityIs
  <2> HIDE DEF b, cap
  <2>5. ls \in Seq(Seq(Nat))
    BY <1>1, <2>3, AppendProperties
  <2> HIDE DEF ls
  <2>6. Emitted(r) = [next |-> r.next, b |-> <<>>, b_a |-> r.b_a, lines |-> ls, lb_a |-> cap]
    BY DEF Emitted, b, cap, ls
  <2>7. <<>> \in Seq(Nat)
    OBVIOUS
  <2>8. Emitted(r) \in LineReading /\ Emitted(r).b = <<>> /\ Emitted(r).next = r.next
    BY <1>1, <1>2, <2>4, <2>5, <2>6, <2>7 DEF LineReading
  <2> QED BY <1>4, <2>2, <2>8
<1> QED BY <1>3, <1>4

\* Twice the characters ahead, and the line that waits.
Rounds(s) == [r \in LineReading |-> (IF r.next > Len(s) THEN 0 ELSE 2 * (Len(s) + 1 - r.next))
                               + (IF r.b = <<>> THEN 0 ELSE 1)]

\* Every round gets nearer to the end.
LEMMA ReadingNearer ==
  ASSUME NEW s \in Seq(Nat)
  PROVE  /\ Rounds(s) \in [LineReading -> Nat]
         /\ \A r \in LineReading : ~AtEnd(s, r) =>
               ReadOn(s, r) \in LineReading /\ Rounds(s)[ReadOn(s, r)] < Rounds(s)[r]
<1> DEFINE L == Len(s)
           S == LineReading
           ahead(r) == IF r.next > L THEN 0 ELSE 2 * (L + 1 - r.next)
           m == Rounds(s)
<1>0. L \in Nat
  OBVIOUS
<1>1. m = [r \in S |-> m[r]] /\ \A r \in S : m[r] = ahead(r) + (IF r.b = <<>> THEN 0 ELSE 1)
  <2>1. m = [r \in S |-> (IF r.next > L THEN 0 ELSE 2 * (L + 1 - r.next))
                         + (IF r.b = <<>> THEN 0 ELSE 1)]
    BY DEF Rounds
  <2> HIDE DEF m, L, S
  <2>2. m = [r \in S |-> m[r]]
    BY <2>1
  <2>3. \A r \in S : m[r] = ahead(r) + (IF r.b = <<>> THEN 0 ELSE 1)
    BY <2>1
  <2> QED BY <2>2, <2>3
<1> HIDE DEF m
<1>2. m \in [S -> Nat]
  <2> HIDE DEF L
  <2>1. \A r \in S : (ahead(r) + (IF r.b = <<>> THEN 0 ELSE 1)) \in Nat
    <3> TAKE r \in S
    <3>1. r.next \in Nat
      BY DEF LineReading
    <3>2. ahead(r) \in Nat
      BY <1>0, <3>1
    <3> HIDE DEF ahead
    <3> QED BY <3>2
  <2> HIDE DEF S, ahead
  <2>2. \A r \in S : m[r] \in Nat
    BY <1>1, <2>1
  <2> QED BY <1>1, <2>2
<1>3. ASSUME NEW r \in S, ~AtEnd(s, r) PROVE ReadOn(s, r) \in S /\ m[ReadOn(s, r)] < m[r]
  <2> DEFINE y == ReadOn(s, r)
  <2>1. r \in S /\ ~AtEnd(s, r) /\ r.next \in Nat /\ r.next >= 1
    <3>1. r \in S /\ ~AtEnd(s, r)
      BY <1>3
    <3> QED BY <3>1 DEF LineReading
  <2>2. y \in S /\ IF Takes(s, r) THEN y.next = r.next + 1 /\ r.next \in 1..L
                   ELSE y.b = <<>> /\ y.next = r.next /\ r.b # <<>>
    <3> HIDE DEF S, L
    <3> QED BY <2>1, ReadingGoesOn DEF S, L, ReadOn
  <2>3. m[y] = ahead(y) + (IF y.b = <<>> THEN 0 ELSE 1)
        /\ m[r] = ahead(r) + (IF r.b = <<>> THEN 0 ELSE 1)
    <3> HIDE DEF y, L, S, ahead
    <3> QED BY <1>1, <2>1, <2>2
  <2>4. ahead(r) \in Nat
    <3> HIDE DEF L
    <3> QED BY <1>0, <2>1
  <2>5. ASSUME Takes(s, r) PROVE m[y] < m[r]
    <3>1. ahead(r) = ahead(y) + 2 /\ ahead(y) \in Nat
      <4> DEFINE a == r.next
                 c == y.next
      <4>1. a \in Nat /\ c = a + 1 /\ a \in 1..L
        BY <2>1, <2>2, <2>5
      <4>2. ahead(r) = (IF a > L THEN 0 ELSE 2 * (L + 1 - a))
            /\ ahead(y) = (IF c > L THEN 0 ELSE 2 * (L + 1 - c))
        OBVIOUS
      <4> HIDE DEF L, y, a, c, ahead
      <4> QED BY <1>0, <4>1, <4>2
    <3> HIDE DEF ahead, S
    <3> HIDE DEF y
    <3> QED BY <2>2, <2>3, <2>4, <2>5, <3>1
  <2>6. ASSUME ~Takes(s, r) PROVE m[y] < m[r]
    <3>1. ahead(r) = ahead(y)
      <4> HIDE DEF L, y
      <4> QED BY <2>2, <2>6
    <3> HIDE DEF ahead, S
    <3> HIDE DEF y
    <3> QED BY <2>2, <2>3, <2>4, <2>6, <3>1
  <2> HIDE DEF S
  <2> QED BY <2>2, <2>5, <2>6
<1> QED BY <1>2, <1>3 DEF m

\* So by_line is that loop from its first state.
LEMMA ReadingLoops ==
  ASSUME FirstCapacity \in Nat, NEW s \in Seq(Nat)
  PROVE  /\ FirstRead \in LineReading
         /\ \E loop : ReadingLoop(s, loop) /\ Text!by_line(s) = loop[FirstRead]
<1> DEFINE L == Len(s)
           S == LineReading
           m == Rounds(s)
           stop == {r \in S : AtEnd(s, r)}
           outcome == [r \in S |-> ReadAll(r)]
           next == [r \in S |-> ReadOn(s, r)]
<1>0. L \in Nat
  OBVIOUS
<1>1. FirstRead \in S
  BY DEF FirstRead, LineReading
<1>2. m \in [S -> Nat]
  BY ReadingNearer
<1>3. ASSUME NEW r \in S \ stop PROVE next[r] \in S /\ m[next[r]] < m[r]
  <2>1. r \in S /\ ~AtEnd(s, r) /\ next[r] = ReadOn(s, r)
    OBVIOUS
  <2> HIDE DEF m, next
  <2> QED BY <2>1, ReadingNearer DEF m
<1>4. PICK f : Loops(f, S, stop, outcome, next)
  <2>1. LoopIs(S, stop, outcome, next)
    <3>1. S # {}
      BY <1>1
    <3> HIDE DEF m, stop, outcome, next, S
    <3> QED BY <1>2, <1>3, <3>1, TailLoop
  <2> HIDE DEF m, stop, outcome, next, S
  <2> QED BY <2>1 DEF LoopIs
<1> DEFINE body(loop, r) ==
             CASE r.next > Len(s) /\ r.b = <<>> ->
                    [lines |-> r.lines, b_a |-> r.b_a, lb_a |-> r.lb_a]
               [] r.next <= Len(s) /\ (r.b = <<>> \/ r.b[Len(r.b)] # Text!NewLine) ->
                    loop[[next |-> r.next + 1, b |-> Append(r.b, s[r.next]),
                          b_a |-> Text!Capacity(Len(r.b), r.b_a), lines |-> r.lines, lb_a |-> r.lb_a]]
               [] OTHER ->
                    loop[[next |-> r.next, b |-> <<>>, b_a |-> r.b_a,
                          lines |-> Append(r.lines, Append(r.b, 0)),
                          lb_a |-> Text!Capacity(Len(r.lines), r.lb_a)]]
           Is(loop) == loop = [r \in [next : Nat \ {0}, b : Seq(Nat), b_a : Nat,
                                      lines : Seq(Seq(Nat)), lb_a : Nat] |-> body(loop, r)]
           chosen == CHOOSE loop : Is(loop)
<1>5. ASSUME NEW loop, NEW r \in S
      PROVE  body(loop, r) = IF AtEnd(s, r) THEN ReadAll(r) ELSE loop[ReadOn(s, r)]
  <2> DEFINE one == Taken(s, r)
             two == Emitted(r)
             end == ReadAll(r)
  <2>1. body(loop, r) = CASE AtEnd(s, r) -> end
                          [] Takes(s, r) -> loop[one]
                          [] OTHER -> loop[two]
    BY Zenon DEF AtEnd, Takes, Taken, Emitted, ReadAll
  <2>2. r.next \in Nat
    BY DEF LineReading
  <2>3. AtEnd(s, r) => ~Takes(s, r)
    <3> HIDE DEF L
    <3> QED BY <1>0, <2>2 DEF AtEnd, Takes, L
  <2> HIDE DEF one, two, end, body
  <2>4. CASE AtEnd(s, r)
    BY <2>1, <2>3, <2>4 DEF end
  <2>5. CASE ~AtEnd(s, r) /\ Takes(s, r)
    <3>1. body(loop, r) = loop[one]
      BY <2>1, <2>5
    <3> QED BY <2>5, <3>1 DEF ReadOn, one
  <2>6. CASE ~AtEnd(s, r) /\ ~Takes(s, r)
    <3>1. body(loop, r) = loop[two]
      BY <2>1, <2>6
    <3> QED BY <2>6, <3>1 DEF ReadOn, two
  <2> QED BY <2>4, <2>5, <2>6
<1>6. Is(f)
  <2>1. f = [x \in S |-> IF x \in stop THEN outcome[x] ELSE f[next[x]]]
    <3> HIDE DEF S, stop, outcome, next
    <3> QED BY <1>4 DEF Loops
  <2>2. \A r \in S : (IF r \in stop THEN outcome[r] ELSE f[next[r]]) = body(f, r)
    <3> TAKE r \in S
    <3>1. body(f, r) = IF AtEnd(s, r) THEN ReadAll(r) ELSE f[ReadOn(s, r)]
      BY <1>5
    <3>2. (r \in stop <=> AtEnd(s, r)) /\ outcome[r] = ReadAll(r) /\ next[r] = ReadOn(s, r)
      OBVIOUS
    <3> HIDE DEF body, stop, outcome, next, S
    <3> QED BY <3>1, <3>2
  <2>3. f = [r \in S |-> body(f, r)]
    <3> HIDE DEF body, stop, outcome, next, S
    <3> QED BY <2>1, <2>2
  <2> HIDE DEF body
  <2> QED BY <2>3 DEF LineReading
<1>7. Is(chosen)
  <2> HIDE DEF Is
  <2> QED BY <1>6
<1>8. Text!by_line(s) = chosen[FirstRead]
  BY DEF Text!by_line, FirstRead
<1>9. \A r \in S : chosen[r] = body(chosen, r)
  <2> HIDE DEF chosen, body
  <2> QED BY <1>7 DEF LineReading
<1> HIDE DEF chosen, body
<1>10. ReadingLoop(s, chosen)
  BY <1>5, <1>9 DEF ReadingLoop
<1> QED BY <1>1, <1>8, <1>10

NonZero == Nat \ {0}

\* The text before next is J, and after it b.
Placed(s, next, b, J) ==
    /\ J \in Seq(NonZero) /\ b \in Seq(NonZero)
    /\ Len(J) + Len(b) + 1 = next /\ next <= Len(s) + 1
    /\ \A i \in 1..Len(J) : J[i] = s[i]
    /\ \A k \in 1..Len(b) : b[k] = s[Len(J) + k]

\* A character goes from the text to the line.
LEMMA PlacedTake ==
  ASSUME NEW s \in Seq(NonZero), NEW next \in Nat, NEW b, NEW J, Placed(s, next, b, J),
         next <= Len(s)
  PROVE  Placed(s, next + 1, Append(b, s[next]), J)
<1> DEFINE L == Len(s)
           p == Len(J)
           q == Len(b)
           c == s[next]
           x == Append(b, c)
<1>1. /\ J \in Seq(NonZero) /\ b \in Seq(NonZero) /\ p + q + 1 = next /\ next <= L + 1
      /\ (\A i \in 1..p : J[i] = s[i]) /\ (\A k \in 1..q : b[k] = s[p + k])
  BY DEF Placed
<1>2. L \in Nat /\ p \in Nat /\ q \in Nat
  BY <1>1, LenProperties
<1>3. next \in 1..L /\ next + 1 <= L + 1 /\ p + (q + 1) + 1 = next + 1 /\ p + (q + 1) = next
  <2>1. next <= L
    OBVIOUS
  <2> HIDE DEF L, p, q
  <2> QED BY <1>1, <1>2, <2>1
<1>4. c \in NonZero
  BY <1>3, ElementOfSeq
<1> HIDE DEF c
<1>5. x \in Seq(NonZero) /\ Len(x) = q + 1 /\ (\A k \in 1..q : x[k] = b[k]) /\ x[q + 1] = c
  BY <1>1, <1>4, AppendProperties
<1> HIDE DEF x, L, p, q
<1>6. ASSUME NEW k \in 1..q+1 PROVE x[k] = s[p + k]
  <2>1. k \in 1..q \/ k = q + 1
    BY <1>2
  <2> QED BY <1>1, <1>3, <1>5, <2>1 DEF c
<1>7. Placed(s, next + 1, x, J)
  BY <1>1, <1>3, <1>5, <1>6 DEF Placed, L, p
<1> QED BY <1>7 DEF x, c

\* The line goes to the lines.
LEMMA PlacedEmit ==
  ASSUME NEW s \in Seq(NonZero), NEW next \in Nat, NEW b, NEW J, Placed(s, next, b, J)
  PROVE  Placed(s, next, <<>>, J \o b)
<1> DEFINE L == Len(s)
           p == Len(J)
           q == Len(b)
           h == J \o b
           none == <<>>
<1>1. /\ J \in Seq(NonZero) /\ b \in Seq(NonZero) /\ p + q + 1 = next /\ next <= L + 1
      /\ (\A i \in 1..p : J[i] = s[i]) /\ (\A k \in 1..q : b[k] = s[p + k])
  BY DEF Placed
<1>2. p \in Nat /\ q \in Nat
  BY <1>1, LenProperties
<1>3. Concatenates(h, J, b, NonZero)
  BY <1>1, JoinedLen
<1>4. /\ h \in Seq(NonZero) /\ Len(h) = p + q /\ (\A k \in 1..p : h[k] = J[k])
      /\ \A k \in 1..q : h[p + k] = b[k]
  BY <1>3 DEF Concatenates
<1>5. none \in Seq(NonZero) /\ Len(none) = 0
  OBVIOUS
<1> HIDE DEF h, L, p, q, none
<1>6. ASSUME NEW i \in 1..p+q PROVE h[i] = s[i]
  <2>1. CASE i \in 1..p
    BY <1>1, <1>4, <2>1
  <2>2. CASE i \notin 1..p
    <3> DEFINE k == i - p
    <3>1. k \in 1..q /\ i = p + k
      BY <1>2, <2>2
    <3> HIDE DEF k
    <3> QED BY <1>1, <1>4, <3>1
  <2> QED BY <2>1, <2>2
<1>7. p + q + 0 + 1 = next
  BY <1>1, <1>2
<1>8. \A k \in 1..0 : none[k] = s[p + q + k]
  OBVIOUS
<1>9. Placed(s, next, none, h)
  BY <1>1, <1>4, <1>5, <1>6, <1>7, <1>8 DEF Placed, L
<1> QED BY <1>9 DEF none, h

\* A line of a file: one newline at most, its last character, in a buffer that
\* has room for it and a 0.
IsLine(l, cap) == l # <<>> /\ Len(l) < cap /\ \A n \in 1..Len(l)-1 : l[n] # Text!NewLine
LinesKept(s, r, g) ==
    /\ g \in Seq(Seq(NonZero)) /\ Len(g) = Len(r.lines)
    /\ Len(g) < r.lb_a /\ Len(r.b) < r.b_a
    /\ \A k \in 1..Len(g) : IsLine(g[k], r.b_a) /\ r.lines[k] = Append(g[k], 0)
    /\ \A k \in 1..Len(g) : g[k][Len(g[k])] = Text!NewLine \/ (k = Len(g) /\ AtEnd(s, r))
    /\ \A n \in 1..Len(r.b)-1 : r.b[n] # Text!NewLine

LinesRead(s, r, g) ==
    r \in LineReading /\ Placed(s, r.next, r.b, Text!Joined(g)) /\ LinesKept(s, r, g)

\* A line has room in a larger buffer too.
LEMMA IsLineStays ==
  ASSUME NEW l, NEW cap \in Nat, NEW new \in Nat, Len(l) \in Nat, IsLine(l, cap), cap <= new
  PROVE  IsLine(l, new)
BY DEF IsLine

\* A round that takes a character keeps what was read.
LEMMA ReadTaken ==
  ASSUME NEW s \in Seq(NonZero), NEW r, NEW g, LinesRead(s, r, g), ~AtEnd(s, r), Takes(s, r)
  PROVE  LinesRead(s, Taken(s, r), g)
<1> DEFINE y == Taken(s, r)
           b == r.b
           c == s[r.next]
           x == Append(b, c)
           q == Len(b)
           G == Len(g)
<1>0. s \in Seq(Nat)
  BY DEF NonZero
<1>1. /\ r \in LineReading /\ Placed(s, r.next, b, Text!Joined(g)) /\ r.next \in Nat
      /\ r.b_a \in Nat /\ r.lb_a \in Nat /\ b \in Seq(Nat) /\ q \in Nat
  BY DEF LinesRead, LineReading
<1>2. y \in LineReading /\ r.next \in 1..Len(s) /\ c \in Nat
  BY <1>0, <1>1, ReadingGoesOn
<1>3. Placed(s, r.next + 1, x, Text!Joined(g))
  <2>1. r.next <= Len(s)
    BY DEF Takes
  <2> QED BY <1>1, <2>1, PlacedTake
<1>4. /\ y.next = r.next + 1 /\ y.b = x /\ y.b_a = Text!Capacity(q, r.b_a)
      /\ y.lines = r.lines /\ y.lb_a = r.lb_a
  BY DEF Taken
<1>5. x \in Seq(Nat) /\ Len(x) = q + 1 /\ \A k \in 1..q : x[k] = b[k]
  <2> HIDE DEF b, c
  <2> QED BY <1>1, <1>2, AppendProperties
<1>6. /\ g \in Seq(Seq(NonZero)) /\ G = Len(r.lines) /\ G < r.lb_a /\ q < r.b_a
      /\ (\A k \in 1..G : IsLine(g[k], r.b_a) /\ r.lines[k] = Append(g[k], 0))
      /\ (\A k \in 1..G : g[k][Len(g[k])] = Text!NewLine)
      /\ \A n \in 1..q-1 : b[n] # Text!NewLine
  BY DEF LinesRead, LinesKept
<1>7. /\ y.b_a \in Nat /\ r.b_a <= y.b_a /\ q + 1 < y.b_a
  <2> HIDE DEF q, y
  <2> QED BY <1>1, <1>4, <1>6, CapacityIs
<1>8. \A k \in 1..G : IsLine(g[k], y.b_a)
  <2> TAKE k \in 1..G
  <2> DEFINE l == g[k]
  <2>1. l \in Seq(NonZero)
    BY <1>6, ElementOfSeq
  <2>2. Len(l) \in Nat /\ IsLine(l, r.b_a)
    BY <1>6, <2>1, LenProperties
  <2> HIDE DEF l, y
  <2>3. IsLine(l, y.b_a)
    BY <1>1, <1>7, <2>2, IsLineStays
  <2> QED BY <2>3 DEF l
<1>9. \A n \in 1..(q + 1)-1 : x[n] # Text!NewLine
  <2> TAKE n \in 1..(q + 1)-1
  <2>1. q # 0 => b # <<>>
    OBVIOUS
  <2>2. b = <<>> \/ b[q] # Text!NewLine
    BY DEF Takes
  <2>3. n \in 1..q /\ (n = q \/ n \in 1..q-1) /\ q # 0
    <3> HIDE DEF q
    <3> QED BY <1>1
  <2> HIDE DEF q, x, b
  <2> QED BY <1>5, <1>6, <2>1, <2>2, <2>3
<1> HIDE DEF y, x, b
<1>10. LinesKept(s, y, g)
  BY <1>4, <1>5, <1>6, <1>7, <1>8, <1>9 DEF LinesKept
<1>11. LinesRead(s, y, g)
  BY <1>2, <1>3, <1>4, <1>10 DEF LinesRead
<1> QED BY <1>11 DEF y

\* A round that ends a line keeps it too.
LEMMA ReadEmitted ==
  ASSUME NEW s \in Seq(NonZero), NEW r, NEW g, LinesRead(s, r, g), ~AtEnd(s, r), ~Takes(s, r)
  PROVE  LinesRead(s, Emitted(r), Append(g, r.b))
<1> DEFINE y == Emitted(r)
           b == r.b
           h == Append(g, b)
           l == Append(b, 0)
           ls == r.lines
           G == Len(g)
           q == Len(b)
           none == <<>>
<1>0. s \in Seq(Nat)
  BY DEF NonZero
<1>1. /\ r \in LineReading /\ Placed(s, r.next, b, Text!Joined(g)) /\ r.next \in Nat
      /\ r.b_a \in Nat /\ r.lb_a \in Nat /\ b \in Seq(NonZero) /\ ls \in Seq(Seq(Nat))
  BY DEF LinesRead, LineReading, Placed
<1>2. /\ y \in LineReading /\ b # <<>> /\ (r.next > Len(s) \/ b[Len(b)] = Text!NewLine)
      /\ y.b = none /\ y.next = r.next
  BY <1>0, <1>1, ReadingGoesOn
<1>3. /\ y.b_a = r.b_a /\ y.lines = Append(ls, l) /\ y.lb_a = Text!Capacity(Len(ls), r.lb_a)
  BY DEF Emitted
<1>4. /\ g \in Seq(Seq(NonZero)) /\ G = Len(ls) /\ G < r.lb_a /\ q < r.b_a
      /\ (\A k \in 1..G : IsLine(g[k], r.b_a) /\ ls[k] = Append(g[k], 0))
      /\ (\A k \in 1..G : g[k][Len(g[k])] = Text!NewLine)
      /\ \A n \in 1..q-1 : b[n] # Text!NewLine
  <2>1. ~AtEnd(s, r)
    OBVIOUS
  <2>2. b # <<>>
    BY <1>2
  <2> QED BY <2>1, <2>2 DEF LinesRead, LinesKept
<1>5. Placed(s, r.next, none, Text!Joined(h))
  <2>1. Placed(s, r.next, <<>>, Text!Joined(g) \o b)
    BY <1>1, PlacedEmit
  <2>2. Text!Joined(Append(g, b)) = Text!Joined(g) \o b
    <3> HIDE DEF b
    <3> QED BY <1>1, <1>4, JoinedAppend
  <2> QED BY <2>1, <2>2
<1>6. G \in Nat /\ q \in Nat /\ q # 0
  BY <1>1, <1>2, <1>4, LenProperties
<1>7. /\ h \in Seq(Seq(NonZero)) /\ Len(h) = G + 1 /\ (\A k \in 1..G : h[k] = g[k])
      /\ h[G + 1] = b
  <2> HIDE DEF b
  <2> QED BY <1>1, <1>4, AppendProperties
<1>8. l \in Seq(Nat)
  <2>1. b \in Seq(Nat)
    BY <1>1 DEF NonZero
  <2> HIDE DEF b
  <2> QED BY <2>1, AppendProperties
<1>9. /\ Len(y.lines) = G + 1 /\ (\A k \in 1..G : y.lines[k] = ls[k]) /\ y.lines[G + 1] = l
  <2> HIDE DEF l, ls, y
  <2> QED BY <1>1, <1>3, <1>4, <1>8, AppendProperties
<1>10. G + 1 < y.lb_a
  <2> HIDE DEF G, y
  <2> QED BY <1>1, <1>3, <1>4, <1>6, CapacityIs
<1>11. Len(none) = 0 /\ 0 < r.b_a
  <2>1. 0 < r.b_a
    <3> HIDE DEF q
    <3> QED BY <1>1, <1>4, <1>6
  <2> QED BY <2>1
<1>12. IsLine(b, r.b_a)
  BY <1>2, <1>4 DEF IsLine
<1> HIDE DEF y, h, l, ls, none, b, G
<1>13. ASSUME NEW k \in 1..G+1
       PROVE  /\ IsLine(h[k], y.b_a) /\ y.lines[k] = Append(h[k], 0)
              /\ h[k][Len(h[k])] = Text!NewLine \/ (k = G + 1 /\ AtEnd(s, y))
  <2>1. CASE k \in 1..G
    BY <1>3, <1>4, <1>7, <1>9, <2>1
  <2>2. CASE k = G + 1
    <3>1. y.lines[k] = Append(h[k], 0)
      BY <1>7, <1>9, <2>2 DEF l
    <3>2. b[Len(b)] = Text!NewLine \/ AtEnd(s, y)
      BY <1>2 DEF AtEnd, none
    <3> QED BY <1>3, <1>7, <1>12, <2>2, <3>1, <3>2
  <2>3. k \in 1..G \/ k = G + 1
    BY <1>6
  <2> QED BY <2>1, <2>2, <2>3
<1>14. LinesKept(s, y, h)
  <2>1. \A n \in 1..0-1 : FALSE
    OBVIOUS
  <2>2. Len(y.b) = 0 /\ Len(y.b) < y.b_a
    BY <1>2, <1>3, <1>11
  <2>3. \A n \in 1..Len(y.b)-1 : y.b[n] # Text!NewLine
    BY <2>1, <2>2
  <2> HIDE DEF AtEnd
  <2> QED BY <1>7, <1>9, <1>10, <1>13, <2>2, <2>3 DEF LinesKept
<1>15. LinesRead(s, y, h)
  BY <1>2, <1>5, <1>14 DEF LinesRead
<1> QED BY <1>15 DEF y, h, b

\* Before the first character.
LEMMA ReadNothing ==
  ASSUME FirstCapacity \in Nat \ {0}, NEW s \in Seq(NonZero)
  PROVE  LinesRead(s, FirstRead, <<>>)
<1> DEFINE r == FirstRead
           none == <<>>
<1>1. r \in LineReading
  BY DEF FirstRead, LineReading
<1>2. /\ r.next = 1 /\ r.b = none /\ r.b_a = FirstCapacity /\ r.lb_a = FirstCapacity
      /\ r.lines = none
  BY DEF FirstRead
<1>3. /\ none \in Seq(NonZero) /\ none \in Seq(Seq(NonZero)) /\ Len(none) = 0
      /\ Text!Joined(none) = none
  BY JoinedNone
<1> HIDE DEF r, none
<1>4. \A k \in 1..0 : FALSE
  OBVIOUS
<1>5. \A k \in 1..0-1 : FALSE
  OBVIOUS
<1>6. 0 + 0 + 1 = 1 /\ 1 <= Len(s) + 1
  <2> DEFINE L == Len(s)
  <2>1. L \in Nat
    BY LenProperties
  <2> HIDE DEF L
  <2>2. 1 <= L + 1
    BY <2>1
  <2> QED BY <2>2 DEF L
<1>7. Placed(s, r.next, r.b, Text!Joined(none))
  BY <1>2, <1>3, <1>4, <1>6 DEF Placed
<1>8. LinesKept(s, r, none)
  BY <1>2, <1>3, <1>4, <1>5 DEF LinesKept
<1>9. LinesRead(s, r, none)
  BY <1>1, <1>7, <1>8 DEF LinesRead
<1> QED BY <1>9 DEF r, none

\* The lines of a file, g with a 0 after each, in buffers with room for them.
FileOfLines(s, f, g) ==
    /\ g \in Seq(Seq(NonZero)) /\ Text!Joined(g) = s
    /\ f.lines \in Seq(Seq(Nat)) /\ Len(f.lines) = Len(g) /\ Len(g) < f.lb_a
    /\ \A k \in 1..Len(g) : /\ IsLine(g[k], f.b_a) /\ f.lines[k] = Append(g[k], 0)
                            /\ g[k][Len(g[k])] = Text!NewLine \/ k = Len(g)

\* At the end all of the file is in lines.
LEMMA ReadToEnd ==
  ASSUME NEW s \in Seq(NonZero), NEW r, NEW g, LinesRead(s, r, g), AtEnd(s, r)
  PROVE  FileOfLines(s, ReadAll(r), g)
<1> DEFINE f == ReadAll(r)
           J == Text!Joined(g)
           L == Len(s)
<1>1. f.lines = r.lines /\ f.b_a = r.b_a /\ f.lb_a = r.lb_a
  BY DEF ReadAll
<1>2. /\ r \in LineReading /\ Placed(s, r.next, r.b, J) /\ LinesKept(s, r, g)
      /\ r.lines \in Seq(Seq(Nat))
  BY DEF LinesRead, LineReading
<1>3. J = s
  <2>1. r.b = <<>> /\ r.next > L /\ Len(<<>>) = 0
    BY DEF AtEnd
  <2>2. /\ J \in Seq(NonZero) /\ Len(J) + 0 + 1 = r.next /\ r.next <= L + 1
        /\ \A i \in 1..Len(J) : J[i] = s[i]
    BY <1>2, <2>1 DEF Placed
  <2>3. L \in Nat /\ Len(J) \in Nat
    BY <2>2, LenProperties
  <2>4. Len(J) = L
    <3> DEFINE j == Len(J)
    <3> HIDE DEF L, j
    <3> QED BY <2>1, <2>2, <2>3 DEF j
  <2> HIDE DEF J, L
  <2> QED BY <2>2, <2>4, SequencesEqual DEF L
<1> HIDE DEF f, J
<1>4. FileOfLines(s, f, g)
  BY <1>1, <1>2, <1>3 DEF FileOfLines, LinesKept, J
<1> QED BY <1>4 DEF f

\* by_line cuts a file into its lines.
LEMMA FileRead ==
  ASSUME FirstCapacity \in Nat \ {0}, NEW s \in Seq(NonZero)
  PROVE  \E g : FileOfLines(s, Text!by_line(s), g)
<1> DEFINE m == Rounds(s)
<1>0. s \in Seq(Nat) /\ FirstCapacity \in Nat
  BY DEF NonZero
<1>1. PICK loop : ReadingLoop(s, loop) /\ Text!by_line(s) = loop[FirstRead]
  BY <1>0, ReadingLoops
<1>2. m \in [LineReading -> Nat]
  BY <1>0, ReadingNearer
<1> DEFINE P == {r \in LineReading : \A g : LinesRead(s, r, g) =>
                                    \E x : FileOfLines(s, loop[r], x)}
<1>3. ASSUME NEW r \in LineReading, \A y \in LineReading : m[y] < m[r] => y \in P PROVE r \in P
  <2> SUFFICES ASSUME NEW g, LinesRead(s, r, g) PROVE \E x : FileOfLines(s, loop[r], x)
    OBVIOUS
  <2>1. CASE AtEnd(s, r)
    <3>1. loop[r] = ReadAll(r)
      BY <1>1, <2>1 DEF ReadingLoop
    <3>2. FileOfLines(s, loop[r], g)
      BY <2>1, <3>1, ReadToEnd
    <3> QED BY <3>2
  <2>2. CASE ~AtEnd(s, r)
    <3> DEFINE y == ReadOn(s, r)
    <3>1. y \in LineReading /\ m[y] < m[r]
      BY <1>0, <2>2, ReadingNearer
    <3>2. loop[r] = loop[y]
      BY <1>1, <2>2 DEF ReadingLoop
    <3>3. y \in P
      <4> HIDE DEF P, m
      <4> QED BY <1>3, <3>1
    <3>4. \E h : LinesRead(s, y, h)
      <4>1. CASE Takes(s, r)
        BY <2>2, <4>1, ReadTaken DEF ReadOn
      <4>2. CASE ~Takes(s, r)
        BY <2>2, <4>2, ReadEmitted DEF ReadOn
      <4> QED BY <4>1, <4>2
    <3> HIDE DEF y, m
    <3> QED BY <3>2, <3>3, <3>4
  <2> QED BY <2>1, <2>2
<1>4. LineReading \subseteq P
  <2> HIDE DEF P, m
  <2> QED BY <1>2, <1>3, MeasureInduction
<1>5. LinesRead(s, FirstRead, <<>>)
  BY ReadNothing
<1>6. FirstRead \in P
  <2>1. FirstRead \in LineReading
    BY <1>5 DEF LinesRead
  <2> HIDE DEF P
  <2> QED BY <1>4, <2>1
<1> QED BY <1>1, <1>5, <1>6

\* An empty sequence has no length.
LEMMA EmptyIs ==
  ASSUME NEW T, NEW s \in Seq(T)
  PROVE  s = <<>> <=> Len(s) = 0
OBVIOUS

\* LastOf is the greatest member, or 0.
LEMMA LastOfIs ==
  ASSUME NEW N \in Nat, NEW S, S \subseteq 1..N
  PROVE  /\ Text!LastOf(S) \in S \cup {0} /\ Text!LastOf(S) \in 0..N
         /\ \A k \in S : k <= Text!LastOf(S)
<1> DEFINE Bounds(n) == \A k \in S : k <= n
           some == S \cup {0}
           chosen == CHOOSE n \in some : Bounds(n)
           P == {n \in 0..N : \E m \in S \cup {0} : \A k \in S : k <= n => k <= m}
<1>1. 0 \in P
  <2>1. \A k \in S : ~(k <= 0)
    OBVIOUS
  <2> QED BY <2>1
<1>2. ASSUME NEW n \in 1..N, n - 1 \in P PROVE n \in P
  <2>1. CASE n \in S
    <3>1. \A k \in S : k <= n => k <= n
      OBVIOUS
    <3>2. n \in 0..N /\ n \in S \cup {0}
      BY <2>1
    <3> QED BY <3>1, <3>2
  <2>2. CASE n \notin S
    <3>1. PICK m \in S \cup {0} : \A k \in S : k <= n - 1 => k <= m
      BY <1>2
    <3>2. \A k \in S : k <= n => k <= n - 1
      BY <2>2
    <3>3. \A k \in S : k <= n => k <= m
      BY <3>1, <3>2
    <3> QED BY <3>3
  <2> QED BY <2>1, <2>2
<1>3. N \in P
  <2> HIDE DEF P
  <2>1. 0..N \subseteq P
    BY <1>1, <1>2, PrefixInduction
  <2> QED BY <2>1
<1>4. PICK m \in S \cup {0} : \A k \in S : k <= N => k <= m
  BY <1>3
<1>5. m \in some /\ Bounds(m)
  BY <1>4
<1>6. chosen \in some /\ Bounds(chosen)
  <2> HIDE DEF Bounds, some
  <2> QED BY <1>5
<1>7. Text!LastOf(S) = chosen
  BY DEF Text!LastOf
<1> HIDE DEF chosen
<1> QED BY <1>6, <1>7

\* kept is l without the white space at its end.
Shortened(l, kept) ==
    /\ Len(kept) <= Len(l) /\ kept = SubSeq(l, 1, Len(kept))
    /\ kept # <<>> => ~Text!IsSpace(kept[Len(kept)])
    /\ \A n \in Len(kept)+1..Len(l) : Text!IsSpace(l[n])

\* normalize_file takes the white space from the end of a line.
LEMMA LineShortened ==
  ASSUME NEW l \in Seq(NonZero), NEW z, z = Append(l, 0), NEW kept,
         kept = SubSeq(z, 1, Text!LastOf({k \in DOMAIN z : z[k] # 0 /\ ~Text!IsSpace(z[k])}))
  PROVE  Shortened(l, kept) /\ kept \in Seq(NonZero)
<1> DEFINE L == Len(l)
           S == {k \in DOMAIN z : z[k] # 0 /\ ~Text!IsSpace(z[k])}
           m == Text!LastOf(S)
           x == SubSeq(l, 1, m)
           y == SubSeq(z, 1, m)
<1>1. L \in Nat /\ l \in Seq(Nat) /\ \A k \in 1..L : l[k] \in NonZero
  BY LenProperties, ElementOfSeq DEF NonZero
<1>2. z \in Seq(Nat) /\ Len(z) = L + 1 /\ (\A k \in 1..L : z[k] = l[k]) /\ z[L + 1] = 0
      /\ DOMAIN z = 1..L+1
  <2>1. z \in Seq(Nat) /\ Len(z) = L + 1 /\ (\A k \in 1..L : z[k] = l[k]) /\ z[L + 1] = 0
    <3> DEFINE c == 0
    <3>1. c \in Nat
      OBVIOUS
    <3> HIDE DEF c
    <3>2. /\ Append(l, c) \in Seq(Nat) /\ Len(Append(l, c)) = Len(l) + 1
          /\ (\A i \in 1..Len(l) : Append(l, c)[i] = l[i]) /\ Append(l, c)[Len(l) + 1] = c
      BY <1>1, <3>1, AppendProperties
    <3> QED BY <3>2 DEF c
  <2> HIDE DEF L
  <2> QED BY <2>1, LenProperties
<1>3. S \subseteq 1..L /\ \A k \in 1..L : k \in S <=> ~Text!IsSpace(l[k])
  <2>1. \A k \in 1..L+1 : k \in 1..L \/ k = L + 1
    <3> HIDE DEF L
    <3> QED BY <1>1
  <2>2. \A k \in 1..L : k \in 1..L+1
    <3> HIDE DEF L
    <3> QED BY <1>1
  <2>3. \A k \in 1..L : z[k] # 0
    BY <1>1, <1>2 DEF NonZero
  <2> HIDE DEF L
  <2> QED BY <1>2, <2>1, <2>2, <2>3
<1> HIDE DEF S
<1>4. m \in S \cup {0} /\ m \in 0..L /\ \A k \in S : k <= m
  BY <1>1, <1>3, LastOfIs
<1> HIDE DEF m
<1>5. /\ x \in Seq(NonZero) /\ Len(x) = m /\ \A k \in 1..m : x[k] = l[k]
  <2> DEFINE zero == 0
  <2>1. zero \in Nat /\ m \in Nat /\ zero + m <= L /\ zero + 1 = 1 /\ zero + m = m
        /\ \A k \in 1..m : zero + k = k
    <3> HIDE DEF L
    <3> QED BY <1>1, <1>4
  <2> HIDE DEF zero
  <2>2. /\ SubSeq(l, zero + 1, zero + m) \in Seq(NonZero)
        /\ Len(SubSeq(l, zero + 1, zero + m)) = m
        /\ \A k \in 1..m : SubSeq(l, zero + 1, zero + m)[k] = l[zero + k]
    BY <2>1, PieceIs
  <2> QED BY <2>1, <2>2
<1>6. /\ y \in Seq(Nat) /\ Len(y) = m /\ \A k \in 1..m : y[k] = z[k]
  <2> DEFINE zero == 0
  <2>1. zero \in Nat /\ m \in Nat /\ zero + m <= Len(z) /\ zero + 1 = 1 /\ zero + m = m
        /\ \A k \in 1..m : zero + k = k
    <3> HIDE DEF L
    <3> QED BY <1>1, <1>2, <1>4
  <2> HIDE DEF zero
  <2>2. /\ SubSeq(z, zero + 1, zero + m) \in Seq(Nat)
        /\ Len(SubSeq(z, zero + 1, zero + m)) = m
        /\ \A k \in 1..m : SubSeq(z, zero + 1, zero + m)[k] = z[zero + k]
    BY <1>2, <2>1, PieceIs
  <2> QED BY <2>1, <2>2
<1>7. kept = y
  BY DEF S, m
<1> HIDE DEF x, y
<1>8. x = y
  <2>1. x \in Seq(Nat)
    BY <1>5 DEF NonZero
  <2>2. \A k \in 1..m : k \in 1..L
    <3> HIDE DEF L
    <3> QED BY <1>1, <1>4
  <2> HIDE DEF L
  <2>3. \A k \in 1..m : x[k] = y[k]
    BY <1>2, <1>5, <1>6, <2>2
  <2> QED BY <1>5, <1>6, <2>1, <2>3, SequencesEqual
<1>9. kept \in Seq(NonZero) /\ Len(kept) = m /\ kept = SubSeq(l, 1, m)
  BY <1>5, <1>7, <1>8 DEF x
<1>10. kept # <<>> => ~Text!IsSpace(kept[m])
  <2> SUFFICES ASSUME kept # <<>> PROVE ~Text!IsSpace(kept[m])
    OBVIOUS
  <2>1. m # 0
    BY <1>9, EmptyIs
  <2>2. m \in S /\ m \in 1..L /\ m \in 1..m
    <3> HIDE DEF L
    <3> QED BY <1>1, <1>4, <2>1
  <2> HIDE DEF L
  <2> QED BY <1>3, <1>5, <1>7, <1>8, <2>2
<1>11. \A n \in m+1..L : Text!IsSpace(l[n])
  <2> TAKE n \in m+1..L
  <2>1. n \in 1..L /\ ~(n <= m)
    <3> HIDE DEF L
    <3> QED BY <1>1, <1>4
  <2> HIDE DEF L
  <2> QED BY <1>3, <1>4, <2>1
<1>12. m <= L
  <2> HIDE DEF L
  <2> QED BY <1>1, <1>4
<1> QED BY <1>9, <1>10, <1>11, <1>12 DEF Shortened

\* What a checker compares of a file whose lines are g.
FileShortened(g, t) ==
    /\ Len(t) <= Len(g)
    /\ \A k \in 1..Len(g) : Shortened(g[k], IF k <= Len(t) THEN t[k] ELSE <<>>)
    /\ t # <<>> => t[Len(t)] # <<>>

\* And the empty lines from the end of the file.
LEMMA FileNormalized ==
  ASSUME NEW g \in Seq(Seq(NonZero)), NEW ls \in Seq(Seq(Nat)), Len(ls) = Len(g),
         \A k \in 1..Len(g) : ls[k] = Append(g[k], 0)
  PROVE  FileShortened(g, Text!normalize_file(ls))
<1> DEFINE N == Len(g)
           kept(n) == SubSeq(ls[n], 1, Text!LastOf({k \in DOMAIN ls[n] :
                         ls[n][k] # 0 /\ ~Text!IsSpace(ls[n][k])}))
           short == [n \in DOMAIN ls |-> kept(n)]
           S == {n \in DOMAIN short : short[n] # <<>>}
           m == Text!LastOf(S)
           t == SubSeq(short, 1, m)
<1>1. N \in Nat /\ DOMAIN ls = 1..N /\ \A k \in 1..N : g[k] \in Seq(NonZero)
  BY LenProperties, ElementOfSeq
<1>2. \A k \in 1..N : Shortened(g[k], kept(k)) /\ kept(k) \in Seq(NonZero)
  BY <1>1, LineShortened
<1> HIDE DEF kept
<1>3. short \in [1..N -> Seq(NonZero)] /\ \A k \in 1..N : short[k] = kept(k)
  BY <1>1, <1>2
<1> HIDE DEF short
<1>4. short \in Seq(Seq(NonZero)) /\ Len(short) = N /\ DOMAIN short = 1..N
  <2> HIDE DEF N
  <2> QED BY <1>1, <1>3, SequenceOf
<1>5. m \in S \cup {0} /\ m \in 0..N /\ \A k \in S : k <= m
  <2>1. S \subseteq 1..N
    BY <1>4
  <2> HIDE DEF S, N
  <2> QED BY <1>1, <2>1, LastOfIs
<1>6. \A k \in 1..N : k \in S <=> kept(k) # <<>>
  BY <1>3, <1>4
<1>7. Text!normalize_file(ls) = t
  BY Zenon DEF Text!normalize_file, short, kept
<1> HIDE DEF m, S, N
<1>8. t \in Seq(Seq(NonZero)) /\ Len(t) = m /\ \A k \in 1..m : t[k] = short[k]
  <2> DEFINE zero == 0
  <2>1. zero \in Nat /\ m \in Nat /\ zero + m <= Len(short) /\ zero + 1 = 1 /\ zero + m = m
        /\ \A k \in 1..m : zero + k = k
    BY <1>1, <1>4, <1>5
  <2> HIDE DEF zero
  <2>2. /\ SubSeq(short, zero + 1, zero + m) \in Seq(Seq(NonZero))
        /\ Len(SubSeq(short, zero + 1, zero + m)) = m
        /\ \A k \in 1..m : SubSeq(short, zero + 1, zero + m)[k] = short[zero + k]
    BY <1>4, <2>1, PieceIs
  <2> QED BY <2>1, <2>2
<1> HIDE DEF t
<1>9. ASSUME NEW k \in 1..N PROVE Shortened(g[k], IF k <= Len(t) THEN t[k] ELSE <<>>)
  <2>1. CASE k <= m
    <3>1. k \in 1..m
      BY <1>5, <2>1
    <3>2. t[k] = kept(k)
      BY <1>3, <1>8, <3>1
    <3> QED BY <1>2, <1>8, <2>1, <3>2
  <2>2. CASE ~(k <= m)
    <3>1. kept(k) = <<>>
      BY <1>5, <1>6, <2>2
    <3> QED BY <1>2, <1>8, <2>2, <3>1
  <2> QED BY <2>1, <2>2
<1>10. t # <<>> => t[Len(t)] # <<>>
  <2> SUFFICES ASSUME t # <<>> PROVE t[m] # <<>>
    BY <1>8
  <2>1. m # 0
    BY <1>8, EmptyIs
  <2>2. m \in S /\ m \in 1..N /\ m \in 1..m
    BY <1>1, <1>5, <2>1
  <2> QED BY <1>3, <1>6, <1>8, <2>2
<1>11. m <= N
  BY <1>1, <1>5
<1> QED BY <1>7, <1>8, <1>9, <1>10, <1>11 DEF FileShortened, N

\* The string in a text and a 0 is the text.
LEMMA StringOfAppended ==
  ASSUME NEW l \in Seq(NonZero)
  PROVE  Text!String(Append(l, 0)) = l
<1> DEFINE L == Len(l)
           c == 0
           z == Append(l, c)
           n == L + 1
           zero == 0
           x == SubSeq(z, 1, n - 1)
<1>1. L \in Nat /\ l \in Seq(Int) /\ c \in Int /\ (\A k \in 1..L : l[k] \in NonZero)
  BY LenProperties, ElementOfSeq DEF NonZero
<1>2. z \in Seq(Int) /\ Len(z) = n /\ (\A k \in 1..L : z[k] = l[k]) /\ z[n] = 0
  <2>1. c = 0
    OBVIOUS
  <2> HIDE DEF c
  <2>2. /\ Append(l, c) \in Seq(Int) /\ Len(Append(l, c)) = Len(l) + 1
        /\ (\A i \in 1..Len(l) : Append(l, c)[i] = l[i]) /\ Append(l, c)[Len(l) + 1] = c
    BY <1>1, AppendProperties
  <2> QED BY <2>1, <2>2
<1> HIDE DEF c, z
<1>3. n \in 1..n /\ n - 1 = L /\ (\A j \in 1..n-1 : j \in 1..L)
  <2> HIDE DEF L
  <2> QED BY <1>1
<1>4. \A j \in 1..n-1 : z[j] # 0
  <2> HIDE DEF L
  <2> QED BY <1>1, <1>2, <1>3 DEF NonZero
<1> HIDE DEF n
<1>5. Text!String(z) = x
  BY <1>2, <1>3, <1>4, StringIs
<1>6. x \in Seq(Int) /\ Len(x) = L /\ \A k \in 1..L : x[k] = z[k]
  <2>1. zero \in Nat /\ L \in Nat /\ zero + L <= Len(z) /\ zero + 1 = 1 /\ zero + L = n - 1
        /\ \A k \in 1..L : zero + k = k
    <3> HIDE DEF L
    <3> QED BY <1>1, <1>2, <1>3 DEF n
  <2> HIDE DEF zero, L
  <2>2. /\ SubSeq(z, zero + 1, zero + L) \in Seq(Int)
        /\ Len(SubSeq(z, zero + 1, zero + L)) = L
        /\ \A k \in 1..L : SubSeq(z, zero + 1, zero + L)[k] = z[zero + k]
    BY <1>2, <2>1, PieceIs
  <2> QED BY <2>1, <2>2
<1> HIDE DEF x
<1>7. x = l
  <2>1. \A k \in 1..L : x[k] = l[k]
    BY <1>2, <1>6
  <2> QED BY <1>1, <1>6, <2>1, SequencesEqual
<1> QED BY <1>5, <1>7 DEF z, c

\* What LinesRight says of the lines and of what is left of them.
CheckerRight(f, short, s) ==
    LET lines == [k \in DOMAIN f.lines |-> Text!String(f.lines[k])]
    IN  /\ Text!Joined(lines) = s
        /\ \A k \in DOMAIN lines : \A n \in DOMAIN lines[k] :
              IF n < Len(lines[k]) THEN lines[k][n] # Text!NewLine
              ELSE lines[k][n] = Text!NewLine \/ k = Len(lines)
        /\ \A k \in DOMAIN lines : lines[k] # <<>> /\ Len(lines[k]) < f.b_a
        /\ Len(lines) < f.lb_a
        /\ Len(short) <= Len(lines)
        /\ \A k \in DOMAIN lines :
              LET kept == IF k <= Len(short) THEN short[k] ELSE <<>>
              IN  /\ Len(kept) <= Len(lines[k]) /\ kept = SubSeq(lines[k], 1, Len(kept))
                  /\ kept # <<>> => ~Text!IsSpace(kept[Len(kept)])
                  /\ \A n \in Len(kept)+1..Len(lines[k]) : Text!IsSpace(lines[k][n])
        /\ short # <<>> => short[Len(short)] # <<>>

\* A checker's reading of a file is right.
LEMMA LinesNormalized ==
  ASSUME FirstCapacity \in Nat \ {0}, NEW s \in Seq(NonZero), NEW f, f = Text!by_line(s)
  PROVE  CheckerRight(f, Text!normalize_file(f.lines), s)
<1>1. PICK g : FileOfLines(s, f, g)
  BY FileRead
<1> DEFINE N == Len(g)
           lines == [k \in DOMAIN f.lines |-> Text!String(f.lines[k])]
           short == Text!normalize_file(f.lines)
<1>2. /\ g \in Seq(Seq(NonZero)) /\ Text!Joined(g) = s
      /\ f.lines \in Seq(Seq(Nat)) /\ Len(f.lines) = N /\ N < f.lb_a
      /\ \A k \in 1..N : /\ IsLine(g[k], f.b_a) /\ f.lines[k] = Append(g[k], 0)
                         /\ g[k][Len(g[k])] = Text!NewLine \/ k = N
  BY <1>1 DEF FileOfLines
<1>3. /\ N \in Nat /\ DOMAIN f.lines = 1..N /\ DOMAIN g = 1..N
      /\ \A k \in 1..N : g[k] \in Seq(NonZero) /\ Len(g[k]) \in Nat /\ DOMAIN g[k] = 1..Len(g[k])
  BY <1>2, LenProperties, ElementOfSeq
<1>4. FileShortened(g, short)
  BY <1>2, FileNormalized
<1>5. lines = g
  <2>1. \A k \in 1..N : Text!String(f.lines[k]) = g[k]
    BY <1>2, <1>3, StringOfAppended
  <2>2. g = [k \in 1..N |-> g[k]]
    BY <1>2, <1>3
  <2> HIDE DEF N
  <2> QED BY <1>3, <2>1, <2>2
<1> HIDE DEF short, lines
<1>6. \A k \in 1..N : \A n \in 1..Len(g[k]) :
         IF n < Len(g[k]) THEN g[k][n] # Text!NewLine
         ELSE g[k][n] = Text!NewLine \/ k = N
  <2> TAKE k \in 1..N
  <2> DEFINE l == g[k]
             L == Len(l)
  <2>1. /\ L \in Nat /\ (l[L] = Text!NewLine \/ k = N) /\ \A n \in 1..L-1 : l[n] # Text!NewLine
    BY <1>2, <1>3 DEF IsLine
  <2> HIDE DEF l, L
  <2>2. \A n \in 1..L : (n < L => n \in 1..L-1) /\ (~(n < L) => n = L)
    BY <2>1
  <2>3. \A n \in 1..L : IF n < L THEN l[n] # Text!NewLine ELSE l[n] = Text!NewLine \/ k = N
    BY <2>1, <2>2
  <2> QED BY <2>3 DEF l, L
<1>7. \A k \in 1..N : g[k] # <<>> /\ Len(g[k]) < f.b_a
  BY <1>2 DEF IsLine
<1>8. /\ Len(short) <= N /\ (short # <<>> => short[Len(short)] # <<>>)
      /\ \A k \in 1..N : Shortened(g[k], IF k <= Len(short) THEN short[k] ELSE <<>>)
  BY <1>4 DEF FileShortened
<1>9. \A k \in 1..N :
         LET kept == IF k <= Len(short) THEN short[k] ELSE <<>>
         IN  /\ Len(kept) <= Len(g[k]) /\ kept = SubSeq(g[k], 1, Len(kept))
             /\ kept # <<>> => ~Text!IsSpace(kept[Len(kept)])
             /\ \A n \in Len(kept)+1..Len(g[k]) : Text!IsSpace(g[k][n])
  <2> TAKE k \in 1..N
  <2> DEFINE kept == IF k <= Len(short) THEN short[k] ELSE <<>>
  <2>1. Shortened(g[k], kept)
    BY <1>8
  <2> HIDE DEF kept
  <2>2. /\ Len(kept) <= Len(g[k]) /\ kept = SubSeq(g[k], 1, Len(kept))
        /\ kept # <<>> => ~Text!IsSpace(kept[Len(kept)])
        /\ \A n \in Len(kept)+1..Len(g[k]) : Text!IsSpace(g[k][n])
    BY <2>1 DEF Shortened
  <2> QED BY <2>2, Zenon DEF kept
<1>10. CheckerRight(f, short, s)
  <2>1. \A k \in 1..N : DOMAIN g[k] = 1..Len(g[k])
    BY <1>3
  <2>2. N = Len(g) /\ DOMAIN g = 1..N /\ Text!Joined(g) = s /\ N < f.lb_a
    BY <1>2, <1>3
  <2> DEFINE ls == [k \in DOMAIN f.lines |-> Text!String(f.lines[k])]
  <2>3. ls = g
    BY <1>5 DEF lines
  <2> HIDE DEF ls, N
  <2>4. /\ \A k \in DOMAIN ls : \A n \in DOMAIN ls[k] :
              IF n < Len(ls[k]) THEN ls[k][n] # Text!NewLine
              ELSE ls[k][n] = Text!NewLine \/ k = Len(ls)
    BY <1>6, <2>1, <2>2, <2>3
  <2>5. \A k \in DOMAIN ls :
              LET kept == IF k <= Len(short) THEN short[k] ELSE <<>>
              IN  /\ Len(kept) <= Len(ls[k]) /\ kept = SubSeq(ls[k], 1, Len(kept))
                  /\ kept # <<>> => ~Text!IsSpace(kept[Len(kept)])
                  /\ \A n \in Len(kept)+1..Len(ls[k]) : Text!IsSpace(ls[k][n])
    BY <1>9, <2>2, <2>3, Zenon
  <2>6. /\ Text!Joined(ls) = s
        /\ \A k \in DOMAIN ls : ls[k] # <<>> /\ Len(ls[k]) < f.b_a
        /\ Len(ls) < f.lb_a
        /\ Len(short) <= Len(ls)
        /\ short # <<>> => short[Len(short)] # <<>>
    BY <1>7, <1>8, <2>2, <2>3
  <2> QED BY <2>4, <2>5, <2>6, Zenon DEF CheckerRight, ls
<1> QED BY <1>10 DEF short

-----------------------------------------------------------------------------
(* func-table: the next token, the words of its input, and the lines that it  *)
(* prints.                                                                    *)

\* The first place from k on that belongs to T.
FirstIn(T, k, n) == n \in Nat /\ n >= k /\ n \in T /\ \A j \in k..n-1 : j \notin T

\* There is a first place where there is any.
LEMMA FirstExists ==
  ASSUME NEW T, NEW k \in Nat, NEW x \in Nat, x >= k, x \in T
  PROVE  \E n \in k..x : FirstIn(T, k, n)
<1> DEFINE S == {n \in Nat : n >= k /\ n \in T}
<1>1. PICK n \in S : \A j \in S : n <= j
  <2>1. S \subseteq Nat /\ x \in S
    OBVIOUS
  <2> HIDE DEF S
  <2> QED BY <2>1, LeastOf
<1>2. n \in k..x
  BY <1>1
<1>3. \A j \in k..n-1 : j \notin T
  <2> TAKE j \in k..n-1
  <2>1. j \in Nat /\ j >= k /\ ~(n <= j)
    BY <1>1
  <2> QED BY <1>1, <2>1
<1> QED BY <1>1, <1>2, <1>3 DEF FirstIn

\* And there is only one.
LEMMA FirstUnique ==
  ASSUME NEW T, NEW k \in Nat, NEW m, NEW n, FirstIn(T, k, m), FirstIn(T, k, n)
  PROVE  m = n
<1>1. m \in Nat /\ n \in Nat /\ m >= k /\ n >= k /\ m \in T /\ n \in T
  BY DEF FirstIn
<1>2. ~(m < n)
  <2> SUFFICES ASSUME m < n PROVE FALSE
    OBVIOUS
  <2>1. m \in k..n-1
    BY <1>1
  <2> QED BY <1>1, <2>1 DEF FirstIn
<1>3. ~(n < m)
  <2> SUFFICES ASSUME n < m PROVE FALSE
    OBVIOUS
  <2>1. n \in k..m-1
    BY <1>1
  <2> QED BY <1>1, <2>1 DEF FirstIn
<1> QED BY <1>1, <1>2, <1>3

\* Where white space, a word and a number end.
Solids(s) == {n \in Nat : n > Len(s) \/ ~Text!IsSpace(s[n])}
WordStops(s) == {n \in Nat : n > Len(s) \/ Text!IsSpace(s[n])}
NumberEnds(s) == {n \in Nat : n > Len(s) \/ ~Text!IsDigit(s[n])}

\* Solid is the first place that holds no white space.
LEMMA SolidIs ==
  ASSUME NEW s, Len(s) \in Nat, NEW k \in Nat \ {0}
  PROVE  FirstIn(Solids(s), k, Text!Solid(s, k))
<1> DEFINE L == Len(s)
           x == k + L
           some == k..k+Len(s)
           Is(n) == /\ n > Len(s) \/ ~Text!IsSpace(s[n])
                    /\ \A j \in k..n-1 : j <= Len(s) /\ Text!IsSpace(s[j])
           chosen == CHOOSE n \in some : Is(n)
<1>1. L \in Nat /\ x \in Nat /\ x >= k /\ x > L
  <2>1. L \in Nat
    OBVIOUS
  <2> HIDE DEF L
  <2> QED BY <2>1
<1>2. x \in Solids(s)
  BY <1>1 DEF Solids
<1>3. \A n \in some : Is(n) <=> FirstIn(Solids(s), k, n)
  <2> TAKE n \in some
  <2>1. n \in Nat /\ n >= k
    <3> HIDE DEF L
    <3> QED BY <1>1
  <2>2. n \in Solids(s) <=> n > L \/ ~Text!IsSpace(s[n])
    BY <2>1 DEF Solids
  <2>3. \A j \in k..n-1 : j \notin Solids(s) <=> j <= L /\ Text!IsSpace(s[j])
    <3> TAKE j \in k..n-1
    <3>1. j \in Nat /\ (j <= L <=> ~(j > L))
      <4> HIDE DEF L
      <4> QED BY <1>1, <2>1
    <3>2. j \in Solids(s) <=> j > L \/ ~Text!IsSpace(s[j])
      BY <3>1 DEF Solids
    <3> HIDE DEF L
    <3> QED BY <3>1, <3>2
  <2> QED BY <2>1, <2>2, <2>3 DEF FirstIn
<1>4. PICK n \in k..x : FirstIn(Solids(s), k, n)
  <2> HIDE DEF x
  <2> QED BY <1>1, <1>2, FirstExists
<1>5. n \in some /\ Is(n)
  BY <1>3, <1>4
<1>6. chosen \in some /\ Is(chosen)
  <2> HIDE DEF some, Is
  <2> QED BY <1>5
<1>7. Text!Solid(s, k) = chosen
  BY DEF Text!Solid
<1> HIDE DEF chosen
<1> QED BY <1>3, <1>6, <1>7

\* scan_number stops at the first place behind the digits.
LEMMA ScanIs ==
  ASSUME NEW s, Len(s) \in Nat, NEW k \in Nat \ {0}, NEW start, start = Text!Solid(s, k)
  PROVE  IF start > Len(s) \/ ~Text!IsDigit(s[start]) THEN Text!scan_number(s, k) = 0
         ELSE FirstIn(NumberEnds(s), start, Text!scan_number(s, k))
<1> DEFINE L == Len(s)
           x == L + 1
           some == start..Len(s)+1
           Is(n) == /\ n > Len(s) \/ ~Text!IsDigit(s[n])
                    /\ \A j \in start..n-1 : Text!IsDigit(s[j])
           chosen == CHOOSE n \in some : Is(n)
<1>1. CASE start > Len(s) \/ ~Text!IsDigit(s[start])
  BY <1>1 DEF Text!scan_number
<1>2. CASE ~(start > Len(s) \/ ~Text!IsDigit(s[start]))
  <2>0. start \in Nat
    BY SolidIs DEF FirstIn
  <2>1. L \in Nat /\ x \in Nat /\ x >= start /\ x > L
    <3>1. L \in Nat /\ ~(start > L)
      BY <1>2
    <3> HIDE DEF L
    <3> QED BY <2>0, <3>1
  <2>2. x \in NumberEnds(s)
    BY <2>1 DEF NumberEnds
  <2>3. \A n \in some : Is(n) <=> FirstIn(NumberEnds(s), start, n)
    <3> TAKE n \in some
    <3>1. n \in Nat /\ n >= start /\ n <= L + 1
      <4> HIDE DEF L
      <4> QED BY <2>0, <2>1 DEF L
    <3>2. n \in NumberEnds(s) <=> n > L \/ ~Text!IsDigit(s[n])
      BY <3>1 DEF NumberEnds
    <3>3. \A j \in start..n-1 : j \notin NumberEnds(s) <=> Text!IsDigit(s[j])
      <4> TAKE j \in start..n-1
      <4>1. j \in Nat /\ ~(j > L)
        <5> HIDE DEF L
        <5> QED BY <2>0, <2>1, <3>1
      <4> QED BY <4>1 DEF NumberEnds
    <3> QED BY <3>1, <3>2, <3>3 DEF FirstIn
  <2>4. PICK n \in start..x : FirstIn(NumberEnds(s), start, n)
    <3> HIDE DEF x
    <3> QED BY <2>0, <2>1, <2>2, FirstExists
  <2>5. n \in some /\ Is(n)
    BY <2>3, <2>4
  <2>6. chosen \in some /\ Is(chosen)
    <3> HIDE DEF some, Is
    <3> QED BY <2>5
  <2>7. Text!scan_number(s, k) = chosen
    BY <1>2 DEF Text!scan_number
  <2> HIDE DEF chosen
  <2> QED BY <1>2, <2>3, <2>6, <2>7
<1> QED BY <1>1, <1>2

\* The states of read_token's loop.
Storing == [token : Seq(Nat), cap : Nat, next : Nat \ {0}]
Stops(s, r) == r.next > Len(s) \/ Text!IsSpace(s[r.next])
StoredOne(s, r) == [token |-> Append(r.token, s[r.next]),
                    cap |-> Text!Capacity(Len(r.token), r.cap), next |-> r.next + 1]
TokenEnd(r) == [token |-> Append(r.token, 0), cap |-> r.cap, next |-> r.next + 1]
StoringLoop(s, loop) ==
    \A r \in Storing : loop[r] = IF Stops(s, r) THEN TokenEnd(r) ELSE loop[StoredOne(s, r)]
FirstStored(start) == [token |-> <<>>, cap |-> FirstCapacity, next |-> start]

\* Inside a word the next state is one too.
LEMMA StoringGoesOn ==
  ASSUME NEW s \in Seq(Nat), NEW r \in Storing, ~Stops(s, r)
  PROVE  /\ StoredOne(s, r) \in Storing /\ StoredOne(s, r).next = r.next + 1
         /\ StoredOne(s, r).cap = Text!Capacity(Len(r.token), r.cap)
         /\ StoredOne(s, r).token = Append(r.token, s[r.next])
         /\ r.next \in 1..Len(s) /\ s[r.next] \in Nat /\ ~Text!IsSpace(s[r.next])
<1> DEFINE L == Len(s)
           token == r.token
           c == s[r.next]
           cap == Text!Capacity(Len(token), r.cap)
           next == r.next + 1
           b == Append(token, c)
<1>1. /\ r.next \in Nat /\ r.next >= 1 /\ token \in Seq(Nat) /\ r.cap \in Nat
      /\ L \in Nat /\ Len(token) \in Nat
  BY DEF Storing
<1>2. r.next \in 1..L /\ next \in Nat \ {0} /\ ~Text!IsSpace(c)
  <2>1. ~(r.next > L) /\ ~Text!IsSpace(c)
    BY DEF Stops
  <2> HIDE DEF L, c
  <2> QED BY <1>1, <2>1
<1>3. c \in Nat
  BY <1>2
<1>4. b \in Seq(Nat)
  <2> HIDE DEF token, c
  <2> QED BY <1>1, <1>3, AppendProperties
<1>5. cap \in Nat
  <2> DEFINE n == Len(token)
  <2> HIDE DEF n
  <2> QED BY <1>1, CapacityIs
<1>6. StoredOne(s, r) = [token |-> b, cap |-> cap, next |-> next]
  BY DEF StoredOne
<1>7. /\ StoredOne(s, r) \in Storing /\ StoredOne(s, r).next = next
      /\ StoredOne(s, r).cap = cap /\ StoredOne(s, r).token = b
  <2> HIDE DEF b, cap, next
  <2> QED BY <1>2, <1>4, <1>5, <1>6 DEF Storing
<1> QED BY <1>2, <1>3, <1>7

\* The characters left.
CharactersLeft(s) == [r \in Storing |-> IF r.next > Len(s) THEN 0 ELSE Len(s) + 1 - r.next]

\* Every round gets nearer to the end.
LEMMA StoringNearer ==
  ASSUME NEW s \in Seq(Nat)
  PROVE  /\ CharactersLeft(s) \in [Storing -> Nat]
         /\ \A r \in Storing : ~Stops(s, r) =>
               /\ StoredOne(s, r) \in Storing
               /\ CharactersLeft(s)[StoredOne(s, r)] < CharactersLeft(s)[r]
<1> DEFINE L == Len(s)
           S == Storing
           away(n) == IF n > L THEN 0 ELSE L + 1 - n
           m == [r \in S |-> away(r.next)]
<1>0. L \in Nat
  OBVIOUS
<1>1. \A n \in Nat : away(n) \in Nat
  <2> HIDE DEF L
  <2> QED BY <1>0
<1>2. m \in [S -> Nat]
  <2>1. \A r \in S : r.next \in Nat
    BY DEF Storing
  <2> HIDE DEF away, S
  <2> QED BY <1>1, <2>1
<1>3. ASSUME NEW r \in S, ~Stops(s, r) PROVE StoredOne(s, r) \in S /\ m[StoredOne(s, r)] < m[r]
  <2> DEFINE y == StoredOne(s, r)
             a == r.next
             c == y.next
  <2>1. y \in S /\ c = a + 1 /\ a \in 1..L
    BY <1>3, StoringGoesOn
  <2>2. m[y] = away(c) /\ m[r] = away(a)
    BY <2>1
  <2> HIDE DEF m, y, a, c, L
  <2>3. away(a + 1) < away(a)
    BY <1>0, <2>1
  <2> QED BY <2>1, <2>2, <2>3 DEF y
<1>4. CharactersLeft(s) = m
  BY DEF CharactersLeft
<1> HIDE DEF m
<1> QED BY <1>2, <1>3, <1>4

\* So read_token is that loop from the first place that is solid.
LEMMA StoringLoops ==
  ASSUME FirstCapacity \in Nat, NEW s \in Seq(Nat), NEW k \in Nat \ {0},
         ~(Text!Solid(s, k) > Len(s)), NEW start, start = Text!Solid(s, k)
  PROVE  /\ start \in Nat \ {0} /\ FirstStored(start) \in Storing
         /\ \E loop : StoringLoop(s, loop) /\ Text!read_token(s, k) = <<loop[FirstStored(start)]>>
<1> DEFINE S == Storing
           m == CharactersLeft(s)
           stop == {r \in S : Stops(s, r)}
           outcome == [r \in S |-> TokenEnd(r)]
           next == [r \in S |-> StoredOne(s, r)]
<1>0. start \in Nat \ {0}
  <2>1. FirstIn(Solids(s), k, start)
    BY SolidIs, LenProperties
  <2> QED BY <2>1 DEF FirstIn
<1>1. FirstStored(start) \in S
  BY <1>0 DEF FirstStored, Storing
<1>2. m \in [S -> Nat]
  BY StoringNearer
<1>3. ASSUME NEW r \in S \ stop PROVE next[r] \in S /\ m[next[r]] < m[r]
  <2>1. r \in S /\ ~Stops(s, r) /\ next[r] = StoredOne(s, r)
    OBVIOUS
  <2> HIDE DEF m, next
  <2> QED BY <2>1, StoringNearer DEF m
<1>4. PICK f : Loops(f, S, stop, outcome, next)
  <2>1. LoopIs(S, stop, outcome, next)
    <3>1. S # {}
      BY <1>1
    <3> HIDE DEF m, stop, outcome, next, S
    <3> QED BY <1>2, <1>3, <3>1, TailLoop
  <2> HIDE DEF m, stop, outcome, next, S
  <2> QED BY <2>1 DEF LoopIs
<1> DEFINE body(loop, r) ==
             IF r.next > Len(s) \/ Text!IsSpace(s[r.next])
             THEN [token |-> Append(r.token, 0), cap |-> r.cap, next |-> r.next + 1]
             ELSE loop[[token |-> Append(r.token, s[r.next]),
                        cap |-> Text!Capacity(Len(r.token), r.cap), next |-> r.next + 1]]
           Is(loop) == loop = [r \in [token : Seq(Nat), cap : Nat, next : Nat \ {0}] |-> body(loop, r)]
           chosen == CHOOSE loop : Is(loop)
<1>5. ASSUME NEW loop, NEW r \in S
      PROVE  body(loop, r) = IF Stops(s, r) THEN TokenEnd(r) ELSE loop[StoredOne(s, r)]
  BY Zenon DEF Stops, TokenEnd, StoredOne
<1>6. Is(f)
  <2>1. f = [x \in S |-> IF x \in stop THEN outcome[x] ELSE f[next[x]]]
    <3> HIDE DEF S, stop, outcome, next
    <3> QED BY <1>4 DEF Loops
  <2>2. \A r \in S : (IF r \in stop THEN outcome[r] ELSE f[next[r]]) = body(f, r)
    <3> TAKE r \in S
    <3>1. body(f, r) = IF Stops(s, r) THEN TokenEnd(r) ELSE f[StoredOne(s, r)]
      BY <1>5
    <3>2. (r \in stop <=> Stops(s, r)) /\ outcome[r] = TokenEnd(r) /\ next[r] = StoredOne(s, r)
      OBVIOUS
    <3> HIDE DEF body, stop, outcome, next, S
    <3> QED BY <3>1, <3>2
  <2>3. f = [r \in S |-> body(f, r)]
    <3> HIDE DEF body, stop, outcome, next, S
    <3> QED BY <2>1, <2>2
  <2> HIDE DEF body
  <2> QED BY <2>3 DEF Storing
<1>7. Is(chosen)
  <2> HIDE DEF Is
  <2> QED BY <1>6
<1>8. Text!read_token(s, k) = <<chosen[FirstStored(start)]>>
  BY DEF Text!read_token, FirstStored
<1>9. \A r \in S : chosen[r] = body(chosen, r)
  <2> HIDE DEF chosen, body
  <2> QED BY <1>7 DEF Storing
<1> HIDE DEF chosen, body
<1>10. StoringLoop(s, chosen)
  BY <1>5, <1>9 DEF StoringLoop
<1> QED BY <1>0, <1>1, <1>8, <1>10

\* w stands in s after p, and holds no white space.
Piece(s, p, w) ==
    /\ p \in Nat /\ w \in Seq(NonZero) /\ p + Len(w) <= Len(s)
    /\ \A i \in 1..Len(w) : w[i] = s[p + i] /\ ~Text!IsSpace(s[p + i])
PieceEnds(s, p, w) == p + Len(w) + 1 > Len(s) \/ Text!IsSpace(s[p + Len(w) + 1])

\* One character more.
LEMMA PieceGrows ==
  ASSUME NEW s \in Seq(NonZero), NEW p, NEW w, Piece(s, p, w), NEW n, n = p + Len(w) + 1,
         n <= Len(s), ~Text!IsSpace(s[n])
  PROVE  Piece(s, p, Append(w, s[n])) /\ Len(Append(w, s[n])) = Len(w) + 1
<1> DEFINE L == Len(s)
           q == Len(w)
           c == s[n]
           x == Append(w, c)
<1>1. /\ p \in Nat /\ w \in Seq(NonZero) /\ p + q <= L /\ n = p + q + 1 /\ n <= L
      /\ \A i \in 1..q : w[i] = s[p + i] /\ ~Text!IsSpace(s[p + i])
  BY DEF Piece
<1>2. L \in Nat /\ q \in Nat
  BY <1>1, LenProperties
<1>3. n \in 1..L /\ p + (q + 1) <= L /\ p + (q + 1) = n
  <2>1. p \in Nat /\ q \in Nat /\ L \in Nat /\ n = p + q + 1 /\ n <= L
    BY <1>1, <1>2
  <2> HIDE DEF L, q
  <2>2. n \in Nat /\ n >= 1
    BY <2>1
  <2> QED BY <2>1, <2>2
<1>4. c \in NonZero
  BY <1>3, ElementOfSeq
<1> HIDE DEF c
<1>5. x \in Seq(NonZero) /\ Len(x) = q + 1 /\ (\A i \in 1..q : x[i] = w[i]) /\ x[q + 1] = c
  BY <1>1, <1>4, AppendProperties
<1> HIDE DEF x, L, q
<1>6. \A i \in 1..q+1 : x[i] = s[p + i] /\ ~Text!IsSpace(s[p + i])
  <2> TAKE i \in 1..q+1
  <2>1. i \in 1..q \/ i = q + 1
    BY <1>2
  <2>2. i = q + 1 => p + i = n
    BY <1>3
  <2> QED BY <1>1, <1>5, <2>1, <2>2 DEF c
<1>7. Piece(s, p, x)
  BY <1>1, <1>3, <1>5, <1>6 DEF Piece, L
<1> QED BY <1>5, <1>7 DEF x, c, q

\* Two pieces at one place that end there are the same.
LEMMA PieceUnique ==
  ASSUME NEW s \in Seq(NonZero), NEW p, NEW w, NEW v, Piece(s, p, w), Piece(s, p, v),
         PieceEnds(s, p, w), PieceEnds(s, p, v)
  PROVE  w = v
<1> DEFINE L == Len(s)
           a == Len(w)
           b == Len(v)
<1>1. /\ p \in Nat /\ w \in Seq(NonZero) /\ p + a <= L
      /\ (\A i \in 1..a : w[i] = s[p + i] /\ ~Text!IsSpace(s[p + i]))
      /\ v \in Seq(NonZero) /\ p + b <= L
      /\ (\A i \in 1..b : v[i] = s[p + i] /\ ~Text!IsSpace(s[p + i]))
  BY DEF Piece
<1>2. L \in Nat /\ a \in Nat /\ b \in Nat
  BY <1>1, LenProperties
<1>3. /\ p + a + 1 > L \/ Text!IsSpace(s[p + a + 1])
      /\ p + b + 1 > L \/ Text!IsSpace(s[p + b + 1])
  BY DEF PieceEnds
<1> HIDE DEF L, a, b
<1>4. ~(a < b)
  <2> SUFFICES ASSUME a < b PROVE FALSE
    OBVIOUS
  <2>1. a + 1 \in 1..b /\ p + (a + 1) = p + a + 1 /\ ~(p + a + 1 > L)
    BY <1>1, <1>2
  <2>2. ~Text!IsSpace(s[p + (a + 1)])
    BY <1>1, <2>1
  <2> QED BY <1>3, <2>1, <2>2
<1>5. ~(b < a)
  <2> SUFFICES ASSUME b < a PROVE FALSE
    OBVIOUS
  <2>1. b + 1 \in 1..a /\ p + (b + 1) = p + b + 1 /\ ~(p + b + 1 > L)
    BY <1>1, <1>2
  <2>2. ~Text!IsSpace(s[p + (b + 1)])
    BY <1>1, <2>1
  <2> QED BY <1>3, <2>1, <2>2
<1>6. a = b
  BY <1>2, <1>4, <1>5
<1>7. \A i \in 1..a : w[i] = v[i]
  BY <1>1, <1>6
<1> QED BY <1>1, <1>6, <1>7, SequencesEqual DEF a, b

\* The token so far stands in s after p.
TokenSoFar(s, p, r) ==
    r \in Storing /\ Piece(s, p, r.token) /\ r.next = p + Len(r.token) + 1 /\ Len(r.token) < r.cap

\* The token that is found after p is w, in a buffer with room for it and a 0.
TokenFound(s, p, res, w) ==
    /\ res \in Storing /\ res.token = Append(w, 0) /\ Len(res.token) <= res.cap
    /\ Piece(s, p, w) /\ PieceEnds(s, p, w) /\ res.next = p + Len(w) + 2

\* A round keeps what is said of the token.
LEMMA TokenGrows ==
  ASSUME NEW s \in Seq(NonZero), NEW p, NEW r, TokenSoFar(s, p, r), ~Stops(s, r)
  PROVE  TokenSoFar(s, p, StoredOne(s, r))
<1> DEFINE y == StoredOne(s, r)
           w == r.token
           n == r.next
           x == Append(w, s[n])
           q == Len(w)
<1>0. s \in Seq(Nat)
  BY DEF NonZero
<1>1. /\ r \in Storing /\ Piece(s, p, w) /\ n = p + q + 1 /\ q < r.cap /\ r.cap \in Nat
  BY DEF TokenSoFar, Storing
<1>2. /\ y \in Storing /\ y.next = n + 1 /\ y.cap = Text!Capacity(q, r.cap) /\ y.token = x
      /\ n \in 1..Len(s) /\ ~Text!IsSpace(s[n])
  BY <1>0, <1>1, StoringGoesOn
<1>3. p \in Nat /\ q \in Nat /\ n <= Len(s)
  <2>1. p \in Nat /\ w \in Seq(NonZero)
    BY <1>1 DEF Piece
  <2>2. Len(s) \in Nat
    BY LenProperties
  <2> HIDE DEF w
  <2> QED BY <1>2, <2>1, <2>2, LenProperties
<1> HIDE DEF w, n, y
<1>4. Piece(s, p, x) /\ Len(x) = q + 1
  BY <1>1, <1>2, <1>3, PieceGrows
<1> HIDE DEF x, q
<1>5. q + 1 < y.cap
  BY <1>1, <1>2, <1>3, CapacityIs
<1>6. n + 1 = p + (q + 1) + 1
  BY <1>1, <1>3
<1>7. TokenSoFar(s, p, y)
  BY <1>2, <1>4, <1>5, <1>6 DEF TokenSoFar
<1> QED BY <1>7 DEF y

\* Where the loop stops the token is whole.
LEMMA TokenStops ==
  ASSUME NEW s \in Seq(NonZero), NEW p, NEW r, TokenSoFar(s, p, r), Stops(s, r)
  PROVE  TokenFound(s, p, TokenEnd(r), r.token)
<1> DEFINE y == TokenEnd(r)
           w == r.token
           q == Len(w)
           c == 0
           x == Append(w, c)
<1>1. /\ r \in Storing /\ Piece(s, p, w) /\ r.next = p + q + 1 /\ q < r.cap /\ r.cap \in Nat
      /\ w \in Seq(Nat) /\ r.next \in Nat
  BY DEF TokenSoFar, Storing
<1>2. PieceEnds(s, p, w)
  BY <1>1 DEF Stops, PieceEnds
<1>3. y = [token |-> x, cap |-> r.cap, next |-> r.next + 1]
  BY DEF TokenEnd
<1>4. p \in Nat /\ q \in Nat
  <2>1. p \in Nat
    BY <1>1 DEF Piece
  <2> HIDE DEF w
  <2> QED BY <1>1, <2>1, LenProperties
<1>5. x \in Seq(Nat) /\ Len(x) = q + 1
  <2>1. c \in Nat
    OBVIOUS
  <2> HIDE DEF w, c
  <2> QED BY <1>1, <2>1, AppendProperties
<1> HIDE DEF y
<1>6. r.next + 1 \in Nat \ {0} /\ r.next + 1 = p + q + 2 /\ q + 1 <= r.cap
  <2> HIDE DEF q
  <2> QED BY <1>1, <1>4
<1>8. y \in Storing /\ y.token = x /\ y.cap = r.cap /\ y.next = r.next + 1
  <2> HIDE DEF x
  <2> QED BY <1>1, <1>3, <1>5, <1>6 DEF Storing
<1>9. TokenFound(s, p, y, w)
  <2>1. x = Append(w, 0)
    OBVIOUS
  <2> HIDE DEF w, x
  <2> QED BY <1>1, <1>2, <1>5, <1>6, <1>8, <2>1 DEF TokenFound
<1> QED BY <1>9 DEF y

\* What read_token returns when there is a token.
TokenRead(t, s, p) == \E res, w : t = <<res>> /\ w # <<>> /\ TokenFound(s, p, res, w)

\* read_token finds the token that begins at the first solid place.
LEMMA TokenIs ==
  ASSUME FirstCapacity \in Nat \ {0}, NEW s \in Seq(NonZero), NEW k \in Nat \ {0},
         NEW p, p = Text!Solid(s, k) - 1
  PROVE  IF p + 1 > Len(s) THEN Text!read_token(s, k) = <<>>
         ELSE TokenRead(Text!read_token(s, k), s, p)
<1> DEFINE start == Text!Solid(s, k)
<1>0. s \in Seq(Nat) /\ FirstCapacity \in Nat /\ Len(s) \in Nat /\ FirstCapacity >= 1
  BY LenProperties DEF NonZero
<1>1. start \in Nat /\ start >= k /\ start \in Solids(s)
  BY <1>0, SolidIs DEF FirstIn
<1>2. p \in Nat /\ p + 1 = start
  <2> HIDE DEF start
  <2> QED BY <1>1 DEF start
<1>3. CASE start > Len(s)
  BY <1>2, <1>3 DEF Text!read_token
<1>4. CASE ~(start > Len(s))
  <2> DEFINE m == CharactersLeft(s)
             first == FirstStored(start)
  <2>1. PICK loop : StoringLoop(s, loop) /\ Text!read_token(s, k) = <<loop[first]>>
    BY <1>0, <1>4, StoringLoops
  <2>2. m \in [Storing -> Nat]
    BY <1>0, StoringNearer
  <2> DEFINE P == {r \in Storing : TokenSoFar(s, p, r) => \E w : TokenFound(s, p, loop[r], w)}
  <2>3. ASSUME NEW r \in Storing, \A y \in Storing : m[y] < m[r] => y \in P PROVE r \in P
    <3> SUFFICES ASSUME TokenSoFar(s, p, r) PROVE \E w : TokenFound(s, p, loop[r], w)
      OBVIOUS
    <3>1. CASE Stops(s, r)
      <4>1. loop[r] = TokenEnd(r)
        BY <2>1, <3>1 DEF StoringLoop
      <4>2. TokenFound(s, p, loop[r], r.token)
        BY <3>1, <4>1, TokenStops
      <4> QED BY <4>2
    <3>2. CASE ~Stops(s, r)
      <4> DEFINE y == StoredOne(s, r)
      <4>1. y \in Storing /\ m[y] < m[r]
        BY <1>0, <3>2, StoringNearer
      <4>2. loop[r] = loop[y]
        BY <2>1, <3>2 DEF StoringLoop
      <4>3. y \in P
        <5> HIDE DEF P, m
        <5> QED BY <2>3, <4>1
      <4>4. TokenSoFar(s, p, y)
        BY <3>2, TokenGrows
      <4> HIDE DEF y, m
      <4> QED BY <4>2, <4>3, <4>4
    <3> QED BY <3>1, <3>2
  <2>4. Storing \subseteq P
    <3> HIDE DEF P, m
    <3> QED BY <2>2, <2>3, MeasureInduction
  <2>5. TokenSoFar(s, p, first)
    <3> DEFINE none == <<>>
    <3>1. first \in Storing
      BY <1>0, <1>4, StoringLoops
    <3>2. first.token = none /\ first.next = start /\ first.cap = FirstCapacity
      BY DEF FirstStored
    <3>3. none \in Seq(NonZero) /\ Len(none) = 0 /\ \A i \in 1..0 : FALSE
      OBVIOUS
    <3>4. p + 0 <= Len(s) /\ start = p + 0 + 1 /\ 0 < FirstCapacity
      <4> DEFINE L == Len(s)
      <4>1. L \in Nat /\ ~(start > L)
        BY <1>0, <1>4
      <4> HIDE DEF start, L
      <4>2. p + 0 <= L /\ start = p + 0 + 1 /\ 0 < FirstCapacity
        BY <1>0, <1>1, <1>2, <4>1
      <4> QED BY <4>2 DEF L
    <3> HIDE DEF none, first, start
    <3>5. Piece(s, p, none)
      BY <1>2, <3>3, <3>4 DEF Piece
    <3> QED BY <3>1, <3>2, <3>3, <3>4, <3>5 DEF TokenSoFar
  <2>6. PICK w : TokenFound(s, p, loop[first], w)
    <3>1. first \in P
      <4>1. first \in Storing
        BY <2>5 DEF TokenSoFar
      <4> HIDE DEF P, first
      <4> QED BY <2>4, <4>1
    <3> HIDE DEF first
    <3> QED BY <2>5, <3>1
  <2>7. w # <<>>
    <3> SUFFICES ASSUME w = <<>> PROVE FALSE
      OBVIOUS
    <3>1. PieceEnds(s, p, w) /\ Len(w) = 0
      BY <2>6 DEF TokenFound
    <3>2. p + 0 + 1 = start
      <4> HIDE DEF start
      <4> QED BY <1>2
    <3>3. start > Len(s) \/ Text!IsSpace(s[start])
      BY <3>1, <3>2 DEF PieceEnds
    <3> HIDE DEF start
    <3> QED BY <1>1, <1>4, <3>3 DEF Solids
  <2>8. TokenRead(Text!read_token(s, k), s, p)
    <3> DEFINE res == loop[first]
    <3> HIDE DEF first, res
    <3> QED BY <2>1, <2>6, <2>7 DEF TokenRead, res
  <2> HIDE DEF start
  <2> QED BY <1>2, <1>4, <2>8
<1> HIDE DEF start
<1> QED BY <1>2, <1>3, <1>4

\* Where the k-th word ends, when they stand after the places in b.
EndOf(ws, b, k) == IF k = 0 THEN 0 ELSE b[k] + Len(ws[k])
Gap(s, x, y) == x \in Nat /\ y \in Nat /\ x <= y /\ \A i \in x+1..y : Text!IsSpace(s[i])
WordAt(s, ws, b, k) ==
    /\ Piece(s, b[k], ws[k]) /\ ws[k] # <<>>
    /\ Gap(s, EndOf(ws, b, k - 1), b[k])
    /\ k > 1 => EndOf(ws, b, k - 1) < b[k]

\* The words of the first n characters are ws.
Cut(s, n, ws, b) ==
    /\ ws \in Seq(Seq(NonZero)) /\ b \in Seq(Nat) /\ Len(b) = Len(ws)
    /\ \A k \in 1..Len(ws) : WordAt(s, ws, b, k)
    /\ Gap(s, EndOf(ws, b, Len(ws)), n)

\* No words in no characters.
LEMMA CutNothing ==
  ASSUME NEW s
  PROVE  Cut(s, 0, <<>>, <<>>)
<1> DEFINE ws == <<>>
           b == <<>>
<1>1. ws \in Seq(Seq(NonZero)) /\ b \in Seq(Nat) /\ Len(ws) = 0 /\ Len(b) = 0
  OBVIOUS
<1>2. EndOf(ws, b, 0) = 0
  BY DEF EndOf
<1>3. Gap(s, 0, 0)
  BY DEF Gap
<1> HIDE DEF ws, b
<1>4. \A k \in 1..0 : FALSE
  OBVIOUS
<1>5. Cut(s, 0, ws, b)
  BY <1>1, <1>2, <1>3, <1>4 DEF Cut
<1> QED BY <1>5 DEF ws, b

\* One place more of white space.
LEMMA GapGrows ==
  ASSUME NEW s, NEW x, NEW n, Gap(s, x, n), Text!IsSpace(s[n + 1])
  PROVE  Gap(s, x, n + 1)
<1>1. x \in Nat /\ n \in Nat /\ x <= n /\ \A i \in x+1..n : Text!IsSpace(s[i])
  BY DEF Gap
<1>2. n + 1 \in Nat /\ x <= n + 1 /\ \A i \in x+1..n+1 : i \in x+1..n \/ i = n + 1
  BY <1>1
<1> QED BY <1>1, <1>2 DEF Gap

\* White space leaves the words alone.
LEMMA CutSpace ==
  ASSUME NEW s, NEW n, NEW ws, NEW b, Cut(s, n, ws, b), Text!IsSpace(s[n + 1])
  PROVE  Cut(s, n + 1, ws, b)
<1>1. Gap(s, EndOf(ws, b, Len(ws)), n)
  BY DEF Cut
<1>2. Gap(s, EndOf(ws, b, Len(ws)), n + 1)
  BY <1>1, GapGrows
<1> QED BY <1>2 DEF Cut

\* The last character of a word is no white space.
LEMMA LastCharacter ==
  ASSUME NEW s \in Seq(NonZero), NEW p, NEW w, Piece(s, p, w), w # <<>>
  PROVE  /\ p + Len(w) \in Nat /\ p < p + Len(w) /\ p + Len(w) <= Len(s)
         /\ ~Text!IsSpace(s[p + Len(w)])
<1> DEFINE q == Len(w)
           L == Len(s)
<1>1. /\ p \in Nat /\ w \in Seq(NonZero) /\ p + q <= L
      /\ \A i \in 1..q : ~Text!IsSpace(s[p + i])
  BY DEF Piece
<1>2. q \in Nat /\ q # 0
  BY <1>1, LenProperties
<1> HIDE DEF q, L
<1>3. q \in 1..q /\ p + q \in Nat /\ p < p + q
  BY <1>1, <1>2
<1> QED BY <1>1, <1>3 DEF q, L

\* A word begins.
LEMMA CutNew ==
  ASSUME NEW s \in Seq(NonZero), NEW n, NEW ws, NEW b, Cut(s, n, ws, b),
         n + 1 <= Len(s), ~Text!IsSpace(s[n + 1]), n = 0 \/ Text!IsSpace(s[n])
  PROVE  Cut(s, n + 1, Append(ws, <<s[n + 1]>>), Append(b, n))
<1> DEFINE W == Len(ws)
           w == <<s[n + 1]>>
           vs == Append(ws, w)
           d == Append(b, n)
           L == Len(s)
           e == EndOf(ws, b, W)
<1>1. /\ ws \in Seq(Seq(NonZero)) /\ b \in Seq(Nat) /\ Len(b) = W
      /\ (\A k \in 1..W : WordAt(s, ws, b, k)) /\ Gap(s, e, n)
  BY DEF Cut
<1>2. n \in Nat /\ e \in Nat /\ e <= n
  BY <1>1 DEF Gap
<1>3. W \in Nat /\ L \in Nat
  BY <1>1, LenProperties
<1>4. n + 1 \in 1..L
  <2>1. n + 1 <= L
    OBVIOUS
  <2> HIDE DEF L
  <2> QED BY <1>2, <1>3, <2>1
<1>5. Piece(s, n, w) /\ w # <<>> /\ Len(w) = 1 /\ w \in Seq(NonZero)
  <2> DEFINE c == s[n + 1]
             none == <<>>
  <2>1. c \in NonZero
    BY <1>4, ElementOfSeq
  <2>2. Piece(s, n, none) /\ Len(none) = 0 /\ n + 1 = n + Len(none) + 1 /\ n + 1 <= Len(s)
    <3>1. none \in Seq(NonZero) /\ Len(none) = 0 /\ \A i \in 1..0 : FALSE
      OBVIOUS
    <3>2. n + 0 <= L /\ n + 1 = n + 0 + 1
      <4> HIDE DEF L
      <4> QED BY <1>2, <1>3, <1>4
    <3> HIDE DEF none
    <3> QED BY <1>2, <3>1, <3>2 DEF Piece
  <2> DEFINE m == n + 1
  <2>3. Piece(s, n, Append(none, s[m])) /\ Len(Append(none, s[m])) = Len(none) + 1
    <3>1. m = n + Len(none) + 1 /\ m <= Len(s) /\ ~Text!IsSpace(s[m]) /\ Piece(s, n, none)
      BY <2>2
    <3> HIDE DEF none, m
    <3> QED BY <3>1, PieceGrows
  <2>4. Append(none, s[m]) = w
    OBVIOUS
  <2>5. w # <<>> /\ Len(w) = 1
    OBVIOUS
  <2> HIDE DEF none, w
  <2>6. Piece(s, n, w)
    BY <2>3, <2>4
  <2> QED BY <2>5, <2>6 DEF Piece
<1> HIDE DEF w
<1>6. /\ vs \in Seq(Seq(NonZero)) /\ Len(vs) = W + 1 /\ (\A k \in 1..W : vs[k] = ws[k])
      /\ vs[W + 1] = w
  BY <1>1, <1>5, AppendProperties
<1>7. /\ d \in Seq(Nat) /\ Len(d) = W + 1 /\ (\A k \in 1..W : d[k] = b[k]) /\ d[W + 1] = n
  BY <1>1, <1>2, AppendProperties
<1> HIDE DEF vs, d, W, L
<1>8. \A k \in 0..W : EndOf(vs, d, k) = EndOf(ws, b, k)
  <2> TAKE k \in 0..W
  <2>1. k = 0 \/ k \in 1..W
    BY <1>3
  <2> QED BY <1>6, <1>7, <2>1 DEF EndOf
<1>9. EndOf(vs, d, W + 1) = n + 1
  <2>1. W + 1 # 0
    BY <1>3
  <2> QED BY <1>5, <1>6, <1>7, <2>1 DEF EndOf
<1>10. ASSUME NEW k \in 1..W PROVE WordAt(s, vs, d, k)
  <2>1. WordAt(s, ws, b, k) /\ k - 1 \in 0..W
    BY <1>1, <1>3
  <2> QED BY <1>6, <1>7, <1>8, <2>1 DEF WordAt
<1>11. W + 1 > 1 => e < n
  <2> SUFFICES ASSUME W + 1 > 1 PROVE e < n
    OBVIOUS
  <2>1. W \in 1..W /\ W # 0
    BY <1>3
  <2>2. Piece(s, b[W], ws[W]) /\ ws[W] # <<>>
    BY <1>1, <2>1 DEF WordAt
  <2>3. e = b[W] + Len(ws[W])
    BY <2>1 DEF EndOf
  <2>4. ~Text!IsSpace(s[e]) /\ b[W] \in Nat /\ b[W] < e
    <3> DEFINE x == b[W]
               v == ws[W]
    <3>1. x \in Nat
      BY <2>2 DEF Piece
    <3>2. Piece(s, x, v) /\ v # <<>> /\ e = x + Len(v)
      BY <2>2, <2>3
    <3> HIDE DEF x, v, e
    <3>3. ~Text!IsSpace(s[x + Len(v)]) /\ x < x + Len(v)
      BY <3>2, LastCharacter
    <3>4. ~Text!IsSpace(s[e]) /\ x < e
      BY <3>2, <3>3
    <3> QED BY <3>1, <3>4 DEF x
  <2> HIDE DEF e
  <2>5. e # n
    <3>1. n # 0
      BY <1>2, <2>4
    <3> QED BY <2>4, <3>1
  <2> QED BY <1>2, <2>5
<1>12. WordAt(s, vs, d, W + 1)
  <2>1. (W + 1) - 1 = W /\ W \in 0..W
    BY <1>3
  <2>2. EndOf(vs, d, (W + 1) - 1) = e
    BY <1>8, <2>1
  <2> HIDE DEF e
  <2> QED BY <1>1, <1>5, <1>6, <1>7, <1>11, <2>2 DEF WordAt
<1>13. Gap(s, n + 1, n + 1)
  <2>1. n + 1 \in Nat /\ n + 1 <= n + 1 /\ \A i \in (n + 1)+1..n+1 : FALSE
    BY <1>2
  <2> QED BY <2>1 DEF Gap
<1>14. \A k \in 1..W+1 : k \in 1..W \/ k = W + 1
  BY <1>3
<1>15. \A k \in 1..W+1 : WordAt(s, vs, d, k)
  BY <1>10, <1>12, <1>14
<1>16. Cut(s, n + 1, vs, d)
  BY <1>6, <1>7, <1>9, <1>13, <1>15 DEF Cut
<1> QED BY <1>16 DEF vs, w, d

\* The last word goes on.
MoreOf(ws, c) == [ws EXCEPT ![Len(ws)] = Append(@, c)]

\* What the words are then.
LEMMA MoreIs ==
  ASSUME NEW ws \in Seq(Seq(NonZero)), NEW c \in NonZero
  PROVE  /\ MoreOf(ws, c) \in Seq(Seq(NonZero)) /\ Len(MoreOf(ws, c)) = Len(ws)
         /\ \A k \in 1..Len(ws) : MoreOf(ws, c)[k] = IF k = Len(ws) THEN Append(ws[k], c) ELSE ws[k]
<1> DEFINE W == Len(ws)
           x == MoreOf(ws, c)
           more(k) == IF k = W THEN Append(ws[k], c) ELSE ws[k]
           y == [k \in 1..W |-> more(k)]
<1>1. W \in Nat /\ DOMAIN ws = 1..W /\ \A k \in 1..W : ws[k] \in Seq(NonZero)
  BY LenProperties, ElementOfSeq
<1>2. \A k \in 1..W : more(k) \in Seq(NonZero)
  <2> TAKE k \in 1..W
  <2> DEFINE v == ws[k]
  <2>1. v \in Seq(NonZero)
    BY <1>1
  <2> HIDE DEF v
  <2>2. Append(v, c) \in Seq(NonZero)
    BY <2>1, AppendProperties
  <2> QED BY <2>1, <2>2 DEF v
<1>3. x = y
  <2>1. x = [k \in 1..W |-> IF k = W THEN Append(ws[W], c) ELSE ws[k]]
    BY <1>1 DEF MoreOf
  <2> HIDE DEF x, W
  <2> QED BY <2>1
<1>4. y \in Seq(Seq(NonZero)) /\ Len(y) = W
  <2> HIDE DEF W, more
  <2> QED BY <1>1, <1>2, SequenceFrom
<1>5. \A k \in 1..W : y[k] = more(k)
  <2> HIDE DEF W, more
  <2> QED OBVIOUS
<1> HIDE DEF x, y
<1>6. \A k \in 1..W : x[k] = IF k = W THEN Append(ws[k], c) ELSE ws[k]
  BY <1>3, <1>5
<1> QED BY <1>3, <1>4, <1>6 DEF x

\* The last word goes on, and the places stay.
LEMMA CutMore ==
  ASSUME NEW s \in Seq(NonZero), NEW n, NEW ws, NEW b, Cut(s, n, ws, b),
         n + 1 <= Len(s), ~Text!IsSpace(s[n + 1]), n # 0, ~Text!IsSpace(s[n])
  PROVE  Cut(s, n + 1, MoreOf(ws, s[n + 1]), b)
<1> DEFINE W == Len(ws)
           c == s[n + 1]
           vs == MoreOf(ws, c)
           L == Len(s)
           e == EndOf(ws, b, W)
<1>1. /\ ws \in Seq(Seq(NonZero)) /\ b \in Seq(Nat) /\ Len(b) = W
      /\ (\A k \in 1..W : WordAt(s, ws, b, k)) /\ Gap(s, e, n)
  BY DEF Cut
<1>2. n \in Nat /\ e \in Nat /\ e <= n /\ \A i \in e+1..n : Text!IsSpace(s[i])
  BY <1>1 DEF Gap
<1>3. W \in Nat /\ L \in Nat
  BY <1>1, LenProperties
<1>4. n + 1 \in 1..L
  <2>1. n + 1 <= L
    OBVIOUS
  <2> HIDE DEF L
  <2> QED BY <1>2, <1>3, <2>1
<1>5. c \in NonZero
  BY <1>4, ElementOfSeq
<1>6. e = n
  <2> HIDE DEF e
  <2>1. e # n => n \in e+1..n
    BY <1>2
  <2> QED BY <1>2, <2>1
<1>7. W # 0
  <2>1. W = 0 => e = 0
    BY DEF EndOf
  <2> HIDE DEF e
  <2> QED BY <1>6, <2>1
<1> DEFINE v == ws[W]
           x == b[W]
<1>8. Piece(s, x, v) /\ v # <<>> /\ x + Len(v) = n /\ W \in 1..W
  <2>1. W \in 1..W
    BY <1>3, <1>7
  <2>2. e = x + Len(v)
    BY <1>7 DEF EndOf
  <2> QED BY <1>1, <1>6, <2>1, <2>2 DEF WordAt
<1>9. Piece(s, x, Append(v, c)) /\ Len(Append(v, c)) = Len(v) + 1
  <2> DEFINE m == n + 1
  <2>1. m = x + Len(v) + 1 /\ m <= Len(s) /\ ~Text!IsSpace(s[m]) /\ c = s[m]
    BY <1>8
  <2> HIDE DEF v, x, m, c
  <2> QED BY <1>8, <2>1, PieceGrows
<1>10. /\ vs \in Seq(Seq(NonZero)) /\ Len(vs) = W
       /\ \A k \in 1..W : vs[k] = IF k = W THEN Append(ws[k], c) ELSE ws[k]
  <2> HIDE DEF c
  <2> QED BY <1>1, <1>5, MoreIs
<1> HIDE DEF c, vs, L
<1>11. x \in Nat /\ Len(v) \in Nat /\ Append(v, c) # <<>>
  <2>1. x \in Nat /\ v \in Seq(NonZero)
    BY <1>8 DEF Piece
  <2> HIDE DEF x, v
  <2> QED BY <1>5, <2>1, LenProperties, AppendProperties
<1> DEFINE y == Append(v, c)
<1>12. vs[W] = y
  BY <1>8, <1>10
<1>13. EndOf(vs, b, W) = n + 1
  <2>1. EndOf(vs, b, W) = x + Len(y)
    <3> HIDE DEF W, y
    <3> QED BY <1>7, <1>12 DEF EndOf
  <2> DEFINE q == Len(v)
  <2> HIDE DEF x, v, W
  <2>2. Len(y) = q + 1 /\ x + q = n
    BY <1>8, <1>9
  <2> HIDE DEF q, y
  <2> QED BY <1>11, <2>1, <2>2 DEF q
<1> HIDE DEF W
<1>14. \A k \in 0..W : k # W => EndOf(vs, b, k) = EndOf(ws, b, k)
  <2> SUFFICES ASSUME NEW k \in 0..W, k # W PROVE EndOf(vs, b, k) = EndOf(ws, b, k)
    OBVIOUS
  <2>1. k = 0 \/ k \in 1..W
    BY <1>3
  <2> QED BY <1>10, <2>1 DEF EndOf
<1>15. ASSUME NEW k \in 1..W PROVE WordAt(s, vs, b, k)
  <2>1. WordAt(s, ws, b, k) /\ k - 1 \in 0..W /\ k - 1 # W
    BY <1>1, <1>3
  <2>2. EndOf(vs, b, k - 1) = EndOf(ws, b, k - 1)
    BY <1>14, <2>1
  <2>3. Piece(s, b[k], vs[k]) /\ vs[k] # <<>>
    <3>1. CASE k = W
      <4> HIDE DEF y
      <4> QED BY <1>9, <1>11, <1>12, <3>1 DEF y
    <3>2. CASE k # W
      BY <1>10, <2>1, <3>2 DEF WordAt
    <3> QED BY <3>1, <3>2
  <2> QED BY <2>1, <2>2, <2>3 DEF WordAt
<1>16. Gap(s, n + 1, n + 1)
  <2>1. n + 1 \in Nat /\ n + 1 <= n + 1 /\ \A i \in (n + 1)+1..n+1 : FALSE
    BY <1>2
  <2> QED BY <2>1 DEF Gap
<1>17. Cut(s, n + 1, vs, b)
  BY <1>1, <1>10, <1>13, <1>15, <1>16 DEF Cut
<1> QED BY <1>17 DEF vs, c

\* The words up to n, from those before.
WordsOn(s, n, ws) ==
    IF Text!IsSpace(s[n]) THEN ws
    ELSE IF n = 1 \/ Text!IsSpace(s[n - 1]) THEN Append(ws, <<s[n]>>) ELSE MoreOf(ws, s[n])

\* They are words again.
LEMMA WordsOnAre ==
  ASSUME NEW s \in Seq(NonZero), NEW n \in 1..Len(s), NEW ws \in Seq(Seq(NonZero))
  PROVE  WordsOn(s, n, ws) \in Seq(Seq(NonZero))
<1> DEFINE c == s[n]
           w == <<c>>
           x == Append(ws, w)
           y == MoreOf(ws, c)
<1>1. c \in NonZero
  BY ElementOfSeq
<1> HIDE DEF c
<1>2. w \in Seq(NonZero)
  BY <1>1
<1> HIDE DEF w
<1>3. x \in Seq(Seq(NonZero))
  BY <1>2, AppendProperties
<1>4. y \in Seq(Seq(NonZero))
  BY <1>1, MoreIs
<1>5. WordsOn(s, n, ws) = IF Text!IsSpace(c) THEN ws ELSE IF n = 1 \/ Text!IsSpace(s[n - 1]) THEN x ELSE y
  BY Zenon DEF WordsOn, c, w
<1> HIDE DEF x, y
<1> QED BY <1>3, <1>4, <1>5

\* One character more.
LEMMA CutOn ==
  ASSUME NEW s \in Seq(NonZero), NEW n \in 1..Len(s), NEW ws, NEW b, Cut(s, n - 1, ws, b)
  PROVE  \E d : Cut(s, n, WordsOn(s, n, ws), d)
<1> DEFINE j == n - 1
           L == Len(s)
<1>1. j + 1 = n /\ j + 1 <= L /\ (n = 1 <=> j = 0)
  <2>1. L \in Nat /\ n \in 1..L
    BY LenProperties
  <2> HIDE DEF L
  <2> QED BY <2>1
<1>2. Cut(s, j, ws, b)
  OBVIOUS
<1> HIDE DEF j
<1>3. CASE Text!IsSpace(s[n])
  <2>1. Cut(s, j + 1, ws, b)
    BY <1>1, <1>2, <1>3, CutSpace
  <2> QED BY <1>1, <1>3, <2>1 DEF WordsOn
<1>4. CASE ~Text!IsSpace(s[n]) /\ (n = 1 \/ Text!IsSpace(s[n - 1]))
  <2>1. Cut(s, j + 1, Append(ws, <<s[j + 1]>>), Append(b, j))
    BY <1>1, <1>2, <1>4, CutNew DEF j, L
  <2> QED BY <1>1, <1>4, <2>1 DEF WordsOn
<1>5. CASE ~Text!IsSpace(s[n]) /\ ~(n = 1 \/ Text!IsSpace(s[n - 1]))
  <2>1. Cut(s, j + 1, MoreOf(ws, s[j + 1]), b)
    BY <1>1, <1>2, <1>5, CutMore DEF j, L
  <2> QED BY <1>1, <1>5, <2>1 DEF WordsOn
<1> QED BY <1>3, <1>4, <1>5

\* Words cuts a text at its white space.
LEMMA WordsAre ==
  ASSUME NEW s \in Seq(NonZero)
  PROVE  \E b : Cut(s, Len(s), Text!Words(s), b)
<1> DEFINE L == Len(s)
           V == Seq(Seq(NonZero))
           none == <<>>
           rule == [p \in (1..L) \X V |-> WordsOn(s, p[1], p[2])]
<1>1. L \in Nat /\ none \in V
  BY LenProperties
<1>2. rule \in [(1..L) \X V -> V] /\ \A n \in 1..L, v \in V : rule[<<n, v>>] = WordsOn(s, n, v)
  <2>1. \A n \in 1..L, v \in V : WordsOn(s, n, v) \in V
    BY WordsOnAre
  <2> HIDE DEF V, L
  <2> QED BY <2>1
<1>3. PICK f \in [0..L -> V] : Iterates(f, L, none, rule)
  <2>1. Iterable(L, V, none, rule)
    <3> HIDE DEF rule, V, L, none
    <3> QED BY <1>1, <1>2, PrefixRecursion
  <2> QED BY <2>1 DEF Iterable
<1>4. \A n \in 1..L : n - 1 \in 0..L /\ n \in 0..L /\ n # 0
  BY <1>1
<1>5. f[0] = none /\ \A n \in 1..L : f[n] = WordsOn(s, n, f[n - 1])
  <2> HIDE DEF rule, V, none
  <2> QED BY <1>2, <1>3, <1>4 DEF Iterates
<1> DEFINE body(g, n) ==
             IF n = 0 THEN <<>>
             ELSE LET before == g[n - 1]
                  IN  IF Text!IsSpace(s[n]) THEN before
                      ELSE IF n = 1 \/ Text!IsSpace(s[n - 1]) THEN Append(before, <<s[n]>>)
                      ELSE [before EXCEPT ![Len(before)] = Append(@, s[n])]
           Is(g) == g = [n \in 0..Len(s) |-> body(g, n)]
           chosen == CHOOSE g : Is(g)
<1>6. \A g, n : body(g, n) = IF n = 0 THEN none ELSE WordsOn(s, n, g[n - 1])
  BY Zenon DEF WordsOn, MoreOf
<1>7. Is(f)
  <2>1. \A n \in 0..L : n = 0 \/ n \in 1..L
    BY <1>1
  <2>2. \A n \in 0..L : f[n] = body(f, n)
    <3> HIDE DEF body, none
    <3> QED BY <1>4, <1>5, <1>6, <2>1
  <2> HIDE DEF body
  <2> QED BY <1>3, <2>2
<1>8. Is(chosen)
  <2> HIDE DEF Is
  <2> QED BY <1>7
<1>9. Text!Words(s) = chosen[L]
  BY DEF Text!Words
<1>10. \A n \in 0..L : chosen[n] = body(chosen, n)
  <2> HIDE DEF chosen, body
  <2> QED BY <1>8
<1> HIDE DEF chosen, body
<1> DEFINE P == {n \in 0..L : \E b : Cut(s, n, chosen[n], b)}
<1>11. 0 \in P
  <2>1. 0 \in 0..L
    BY <1>1
  <2>2. chosen[0] = none
    BY <1>6, <1>10, <2>1
  <2>3. Cut(s, 0, chosen[0], <<>>)
    BY <2>2, CutNothing
  <2> QED BY <2>1, <2>3
<1>12. ASSUME NEW n \in 1..L, n - 1 \in P PROVE n \in P
  <2>1. PICK b : Cut(s, n - 1, chosen[n - 1], b)
    BY <1>12
  <2>2. chosen[n] = WordsOn(s, n, chosen[n - 1]) /\ n \in 0..L
    BY <1>4, <1>6, <1>10
  <2>3. \E d : Cut(s, n, WordsOn(s, n, chosen[n - 1]), d)
    BY <2>1, CutOn
  <2> QED BY <2>2, <2>3
<1>13. 0..L \subseteq P
  <2> HIDE DEF P, L
  <2> QED BY <1>1, <1>11, <1>12, PrefixInduction
<1>14. L \in P
  <2>1. L \in 0..L
    BY <1>1
  <2> HIDE DEF P
  <2> QED BY <1>13, <2>1
<1> QED BY <1>9, <1>14

\* From is behind the k-th word, with no more than white space between.
Behind(s, ws, b, k, from) ==
    /\ from \in Nat \ {0} /\ EndOf(ws, b, k) \in Nat /\ from > EndOf(ws, b, k)
    /\ \A i \in EndOf(ws, b, k)+1..from-1 : i > Len(s) \/ Text!IsSpace(s[i])

\* What is known of the k-th word.
LEMMA WordThere ==
  ASSUME NEW s \in Seq(NonZero), NEW ws, NEW b, Cut(s, Len(s), ws, b), NEW k \in 1..Len(ws)
  PROVE  /\ Piece(s, b[k], ws[k]) /\ ws[k] # <<>> /\ b[k] \in Nat /\ Len(ws[k]) \in Nat
         /\ ws[k] \in Seq(NonZero)
         /\ EndOf(ws, b, k) = b[k] + Len(ws[k])
         /\ EndOf(ws, b, k) \in Nat /\ b[k] < EndOf(ws, b, k) /\ EndOf(ws, b, k) <= Len(s)
         /\ Gap(s, EndOf(ws, b, k - 1), b[k])
         /\ PieceEnds(s, b[k], ws[k])
<1> DEFINE W == Len(ws)
           p == b[k]
           w == ws[k]
           L == Len(s)
           e == EndOf(ws, b, k)
<1>1. /\ ws \in Seq(Seq(NonZero)) /\ (\A j \in 1..W : WordAt(s, ws, b, j)) /\ Gap(s, EndOf(ws, b, W), L)
  BY DEF Cut
<1>2. W \in Nat /\ L \in Nat /\ k # 0
  BY <1>1, LenProperties
<1>3. Piece(s, p, w) /\ w # <<>> /\ Gap(s, EndOf(ws, b, k - 1), p)
  BY <1>1 DEF WordAt
<1>4. p \in Nat /\ w \in Seq(NonZero)
  BY <1>3 DEF Piece
<1>5. e = p + Len(w)
  BY <1>2 DEF EndOf
<1> DEFINE q == Len(w)
<1> HIDE DEF p, w, e
<1>6. q \in Nat
  BY <1>4, LenProperties
<1>7. p + q \in Nat /\ p < p + q /\ p + q <= L
  BY <1>3, LastCharacter
<1> HIDE DEF L, W
<1>8. e + 1 > L \/ Text!IsSpace(s[e + 1])
  <2>1. CASE k = W
    <3>1. Gap(s, e, L)
      BY <1>1, <2>1 DEF e
    <3>2. e \in Nat /\ \A i \in e+1..L : Text!IsSpace(s[i])
      BY <3>1 DEF Gap
    <3>3. e + 1 > L \/ e + 1 \in e+1..L
      BY <1>2, <3>2
    <3> QED BY <3>2, <3>3
  <2>2. CASE k # W
    <3>1. k + 1 \in 1..W /\ (k + 1) - 1 = k /\ k + 1 > 1
      BY <1>2, <2>2 DEF W
    <3>2. WordAt(s, ws, b, k + 1)
      BY <1>1, <3>1
    <3>3. Gap(s, e, b[k + 1]) /\ e < b[k + 1]
      BY <3>1, <3>2 DEF WordAt, e
    <3> DEFINE y == b[k + 1]
    <3>4. e \in Nat /\ y \in Nat /\ e < y /\ \A i \in e+1..y : Text!IsSpace(s[i])
      BY <3>3 DEF Gap
    <3> HIDE DEF y
    <3>5. e + 1 \in e+1..y
      BY <3>4
    <3> QED BY <3>4, <3>5
  <2> QED BY <2>1, <2>2
<1> HIDE DEF q
<1>9. PieceEnds(s, p, w)
  BY <1>5, <1>8 DEF PieceEnds, q, L
<1> QED BY <1>3, <1>4, <1>5, <1>6, <1>7, <1>9 DEF p, w, e, q, L

\* The next solid place is where the next word begins.
LEMMA SolidNext ==
  ASSUME NEW s \in Seq(NonZero), NEW ws, NEW b, Cut(s, Len(s), ws, b), NEW k \in 0..Len(ws),
         NEW from, Behind(s, ws, b, k, from), NEW start, start = Text!Solid(s, from)
  PROVE  IF k = Len(ws) THEN start > Len(s)
         ELSE start = b[k + 1] + 1 /\ ~(start > Len(s)) /\ start >= from /\ k + 1 \in 1..Len(ws)
<1> DEFINE W == Len(ws)
           L == Len(s)
           e == EndOf(ws, b, k)
<1>1. /\ from \in Nat \ {0} /\ e \in Nat /\ from > e
      /\ \A i \in e+1..from-1 : i > L \/ Text!IsSpace(s[i])
  BY DEF Behind
<1>2. ws \in Seq(Seq(NonZero)) /\ L \in Nat /\ W \in Nat
  <2>1. ws \in Seq(Seq(NonZero))
    BY DEF Cut
  <2> QED BY <2>1, LenProperties
<1>3. FirstIn(Solids(s), from, start)
  BY <1>1, <1>2, SolidIs
<1>4. start \in Nat /\ start >= from /\ start \in Solids(s)
  BY <1>3 DEF FirstIn
<1>5. start > L \/ ~Text!IsSpace(s[start])
  BY <1>4 DEF Solids
<1>6. CASE k = W
  <2>1. Gap(s, e, L)
    BY <1>6 DEF Cut
  <2>2. \A i \in e+1..L : Text!IsSpace(s[i])
    BY <2>1 DEF Gap
  <2>3. start > L \/ start \in e+1..L
    <3> HIDE DEF e, L
    <3> QED BY <1>1, <1>2, <1>4
  <2> QED BY <1>5, <1>6, <2>2, <2>3
<1>7. CASE k # W
  <2> DEFINE j == k + 1
             p == b[j]
             w == ws[j]
             x == p + 1
  <2>1. j \in 1..W /\ j - 1 = k
    <3> HIDE DEF W
    <3> QED BY <1>2, <1>7 DEF W
  <2>2. Piece(s, p, w) /\ p \in Nat /\ Len(w) \in Nat /\ p < p + Len(w) /\ p + Len(w) <= L
        /\ Gap(s, e, p)
    <3> HIDE DEF e, j, L, W
    <3>1. /\ Piece(s, b[j], ws[j]) /\ b[j] \in Nat /\ Len(ws[j]) \in Nat
          /\ EndOf(ws, b, j) = b[j] + Len(ws[j])
          /\ b[j] < EndOf(ws, b, j) /\ EndOf(ws, b, j) <= Len(s)
          /\ Gap(s, EndOf(ws, b, j - 1), b[j])
      BY <2>1, WordThere DEF W
    <3> QED BY <2>1, <3>1 DEF e, L
  <2> HIDE DEF p, w, j
  <2>3. e <= p /\ \A i \in e+1..p : Text!IsSpace(s[i])
    BY <2>2 DEF Gap
  <2> DEFINE q == Len(w)
  <2>a. q \in Nat /\ p < p + q /\ p + q <= L /\ p \in Nat
    BY <2>2
  <2>b. 1 \in 1..q /\ x <= L /\ x \in Nat
    <3> HIDE DEF q, L
    <3> QED BY <1>2, <2>a
  <2>4. ~Text!IsSpace(s[x])
    BY <2>2, <2>b DEF Piece
  <2> HIDE DEF q, e, L
  <2>5. from <= x
    <3> SUFFICES ASSUME ~(from <= x) PROVE FALSE
      OBVIOUS
    <3>1. x \in e+1..from-1 /\ ~(x > L)
      BY <1>1, <1>2, <2>3, <2>a, <2>b
    <3> QED BY <1>1, <2>4, <3>1
  <2>6. x \in Solids(s)
    BY <2>4, <2>b DEF Solids
  <2>7. ASSUME NEW i \in from..x-1 PROVE i \notin Solids(s)
    <3>1. i \in e+1..p /\ i \in Nat /\ ~(i > L)
      BY <1>1, <1>2, <2>a, <2>b
    <3>2. Text!IsSpace(s[i])
      BY <2>3, <3>1
    <3> QED BY <3>1, <3>2 DEF Solids, L
  <2>8. FirstIn(Solids(s), from, x)
    <3>1. x >= from
      BY <1>1, <2>5, <2>b
    <3> HIDE DEF x
    <3> QED BY <2>6, <2>7, <2>b, <3>1 DEF FirstIn
  <2>9. start = x
    <3> HIDE DEF x
    <3> QED BY <1>1, <1>3, <2>8, FirstUnique
  <2>10. ~(start > L)
    BY <1>2, <2>9, <2>b
  <2> HIDE DEF W, x
  <2>11. start = p + 1
    BY <2>9 DEF x
  <2>12. start = b[k + 1] + 1 /\ k + 1 \in 1..W
    BY <2>1, <2>11 DEF p, j
  <2> QED BY <1>4, <1>7, <2>10, <2>12 DEF W, L
<1> QED BY <1>6, <1>7

\* Behind a token its word is over.
LEMMA BehindToken ==
  ASSUME NEW s \in Seq(NonZero), NEW ws, NEW b, Cut(s, Len(s), ws, b), NEW k \in 1..Len(ws),
         NEW from, from = b[k] + Len(ws[k]) + 2
  PROVE  Behind(s, ws, b, k, from)
<1> DEFINE e == EndOf(ws, b, k)
           p == b[k]
           q == Len(ws[k])
<1>1. PieceEnds(s, p, ws[k]) /\ p \in Nat /\ q \in Nat /\ e = p + q
  BY WordThere
<1>2. e + 1 > Len(s) \/ Text!IsSpace(s[e + 1])
  BY <1>1 DEF PieceEnds
<1>3. from = p + q + 2
  OBVIOUS
<1> HIDE DEF e, p, q
<1>4. e \in Nat /\ from \in Nat \ {0} /\ from > e /\ \A i \in e+1..from-1 : i = e + 1
  BY <1>1, <1>3
<1>5. \A i \in e+1..from-1 : i > Len(s) \/ Text!IsSpace(s[i])
  BY <1>2, <1>4
<1> QED BY <1>4, <1>5 DEF Behind, e

\* Where a number is found, it ends further on.
LEMMA ScanForward ==
  ASSUME NEW s, Len(s) \in Nat, NEW k \in Nat \ {0}, NEW n, n = Text!scan_number(s, k), n # 0
  PROVE  n \in Nat /\ n >= k
<1> DEFINE start == Text!Solid(s, k)
<1>1. start \in Nat /\ start >= k
  BY SolidIs DEF FirstIn
<1>2. FirstIn(NumberEnds(s), start, n)
  BY ScanIs
<1> HIDE DEF start
<1>3. n \in Nat /\ n >= start
  BY <1>2 DEF FirstIn
<1> QED BY <1>1, <1>3

AllDigits(w) == \A i \in 1..Len(w) : Text!IsDigit(w[i])

\* White space is no digit.
LEMMA NoSpaceIsDigit ==
  ASSUME NEW c, Text!IsSpace(c)
  PROVE  ~Text!IsDigit(c)
<1>1. c \in {32} \cup 9..13
  BY DEF Text!IsSpace, Text!Space
<1>2. c \in Nat /\ c < 48
  BY <1>1
<1> QED BY <1>2 DEF Text!IsDigit

\* scan_number goes behind the next word when this is a number, and there is
\* no number where no word is left.
LEMMA ScanNext ==
  ASSUME NEW s \in Seq(NonZero), NEW ws, NEW b, Cut(s, Len(s), ws, b), NEW k \in 0..Len(ws),
         NEW from, Behind(s, ws, b, k, from), NEW n, n = Text!scan_number(s, from)
  PROVE  IF k = Len(ws) THEN n = 0
         ELSE AllDigits(ws[k + 1]) => n # 0 /\ Behind(s, ws, b, k + 1, n)
<1> DEFINE W == Len(ws)
           L == Len(s)
           start == Text!Solid(s, from)
<1>1. from \in Nat \ {0} /\ L \in Nat
  BY LenProperties DEF Behind
<1>2. /\ IF k = W THEN start > L
         ELSE start = b[k + 1] + 1 /\ ~(start > L) /\ start >= from /\ k + 1 \in 1..W
  BY SolidNext
<1>3. /\ IF start > L \/ ~Text!IsDigit(s[start]) THEN n = 0
         ELSE FirstIn(NumberEnds(s), start, n)
  BY <1>1, ScanIs
<1>4. CASE k = W
  BY <1>2, <1>3, <1>4
<1>5. ASSUME k # W, AllDigits(ws[k + 1])
      PROVE n # 0 /\ Behind(s, ws, b, k + 1, n)
  <2> DEFINE j == k + 1
             p == b[j]
             w == ws[j]
             q == Len(w)
             e == EndOf(ws, b, j)
             x == e + 1
  <2>1. j \in 1..W /\ start = p + 1 /\ ~(start > L)
    BY <1>2, <1>5
  <2>2. Piece(s, p, w) /\ p \in Nat /\ q \in Nat /\ e = p + q /\ p < e /\ e <= L
        /\ PieceEnds(s, p, w) /\ AllDigits(w)
    <3> HIDE DEF j, W
    <3> QED BY <1>5, <2>1, WordThere DEF W, j
  <2>3. \A i \in 1..q : Text!IsDigit(s[p + i])
    <3> HIDE DEF p, w
    <3> QED BY <2>2 DEF Piece, AllDigits
  <2>4. x > L \/ Text!IsSpace(s[x])
    <3> HIDE DEF p, w, e
    <3> QED BY <2>2 DEF PieceEnds
  <2> HIDE DEF e, q, p, w, j, start, L
  <2>5. x \in Nat /\ x >= start /\ x # 0 /\ start \in Nat
    BY <2>1, <2>2
  <2>6. x \in NumberEnds(s)
    <3>1. x > L \/ ~Text!IsDigit(s[x])
      BY <2>4, NoSpaceIsDigit
    <3> QED BY <2>5, <3>1 DEF NumberEnds, L
  <2>7. ASSUME NEW i \in start..x-1 PROVE i \notin NumberEnds(s)
    <3> DEFINE d == i - p
    <3>1. d \in 1..q /\ p + d = i /\ i \in Nat /\ ~(i > L)
      BY <1>1, <2>1, <2>2, <2>5
    <3> HIDE DEF d
    <3>2. Text!IsDigit(s[i])
      BY <2>3, <3>1
    <3> QED BY <3>1, <3>2 DEF NumberEnds, L
  <2> HIDE DEF x
  <2>8. FirstIn(NumberEnds(s), start, x)
    BY <2>5, <2>6, <2>7 DEF FirstIn
  <2>9. n = x
    <3>1. Text!IsDigit(s[start])
      <4>1. 1 \in 1..q
        BY <2>2
      <4> QED BY <2>1, <2>3, <4>1
    <3>2. FirstIn(NumberEnds(s), start, n)
      BY <1>3, <2>1, <3>1
    <3> QED BY <2>5, <2>8, <3>2, FirstUnique
  <2>10. Behind(s, ws, b, j, x)
    <3>1. e \in Nat /\ x = e + 1 /\ x \in Nat \ {0} /\ x > e /\ \A i \in e+1..x-1 : FALSE
      BY <2>2, <2>5 DEF x
    <3> QED BY <3>1 DEF Behind, e
  <2> QED BY <2>5, <2>9, <2>10 DEF j
<1> HIDE DEF W
<1> QED BY <1>4, <1>5 DEF W

Outs == {"none", "value", "nan"}
Places == Nat \ {0}
\* A line of func-table's output, with room for the name.
Rows == {x \in [name : Seq(Nat), cap : Nat, out : Outs] : Len(x.name) <= x.cap}
TableRow(t, out1) == [name |-> t.token, cap |-> t.cap, out |-> out1]
Printed(t) == IF Text!String(t.token) \in Table THEN "value" ELSE "nan"
StopOf(s, from) == Text!scan_number(s, Text!read_token(s, from)[1].next)
RowsFrom(s, from, f) ==
    LET r == Text!read_token(s, from)
    IN  IF r = <<>> THEN <<>>
        ELSE IF StopOf(s, from) = 0 THEN <<TableRow(r[1], "none")>>
        ELSE <<TableRow(r[1], Printed(r[1]))>> \o f[StopOf(s, from)]
TableLoop(s, loop) == \A from \in Places : loop[from] = RowsFrom(s, from, loop)

\* Where there is a token.
LEMMA TokenThere ==
  ASSUME FirstCapacity \in Nat \ {0}, NEW s \in Seq(NonZero), NEW from \in Places,
         Text!read_token(s, from) # <<>>, NEW t, t = Text!read_token(s, from)[1],
         NEW p, p = Text!Solid(s, from) - 1
  PROVE  /\ t \in Storing /\ Len(t.token) <= t.cap /\ t.next \in Places
         /\ from < t.next /\ from <= Len(s) /\ p \in Nat /\ ~(p + 1 > Len(s))
         /\ \E w : w # <<>> /\ TokenFound(s, p, t, w)
<1> DEFINE start == Text!Solid(s, from)
           L == Len(s)
           r == Text!read_token(s, from)
<1>1. from \in Nat \ {0} /\ from \in Nat /\ L \in Nat
  BY LenProperties DEF Places
<1>2. start \in Nat /\ start >= from
  BY <1>1, SolidIs DEF FirstIn
<1>3. IF p + 1 > L THEN r = <<>> ELSE TokenRead(r, s, p)
  BY <1>1, TokenIs
<1>4. ~(p + 1 > L) /\ TokenRead(r, s, p)
  <2>1. r # <<>>
    OBVIOUS
  <2> HIDE DEF r
  <2> QED BY <1>3, <2>1
<1>5. PICK res, w : r = <<res>> /\ w # <<>> /\ TokenFound(s, p, res, w)
  BY <1>4 DEF TokenRead
<1>6. t = res
  <2>1. t = r[1]
    OBVIOUS
  <2> HIDE DEF r
  <2> QED BY <1>5, <2>1
<1>7. TokenFound(s, p, t, w)
  BY <1>5, <1>6
<1>8. /\ t \in Storing /\ Len(t.token) <= t.cap /\ t.next = p + Len(w) + 2 /\ p \in Nat
      /\ w \in Seq(NonZero)
  BY <1>7 DEF TokenFound, Piece
<1> DEFINE q == Len(w)
<1>9. q \in Nat
  BY <1>8, LenProperties
<1>10. p + 1 = start
  <2>1. p = start - 1
    OBVIOUS
  <2> HIDE DEF start
  <2> QED BY <1>2, <2>1
<1> DEFINE z == t.next
<1>11. z = p + q + 2
  BY <1>8
<1> HIDE DEF q, start, L, z
<1>12. z \in Nat \ {0} /\ from < z /\ from <= L
  BY <1>1, <1>2, <1>4, <1>8, <1>9, <1>10, <1>11 DEF L
<1> QED BY <1>4, <1>5, <1>7, <1>8, <1>12 DEF z, L, Places

\* The characters left.
PlacesLeft(s) == [from \in Places |-> IF from > Len(s) + 1 THEN 0 ELSE Len(s) + 2 - from]

\* Every line gets nearer to the end.
LEMMA RowsNearer ==
  ASSUME FirstCapacity \in Nat \ {0}, NEW s \in Seq(NonZero)
  PROVE  /\ PlacesLeft(s) \in [Places -> Nat]
         /\ \A from \in Places : Text!read_token(s, from) # <<>> /\ StopOf(s, from) # 0 =>
               StopOf(s, from) \in Places /\ PlacesLeft(s)[StopOf(s, from)] < PlacesLeft(s)[from]
<1> DEFINE L == Len(s)
           away(n) == IF n > L + 1 THEN 0 ELSE L + 2 - n
           m == [from \in Places |-> away(from)]
<1>0. L \in Nat
  BY LenProperties
<1>1. m \in [Places -> Nat]
  <2> HIDE DEF L
  <2>1. \A from \in Places : away(from) \in Nat
    BY <1>0 DEF Places
  <2> HIDE DEF away
  <2> QED BY <2>1
<1>2. ASSUME NEW from \in Places, Text!read_token(s, from) # <<>>, StopOf(s, from) # 0
      PROVE  StopOf(s, from) \in Places /\ m[StopOf(s, from)] < m[from]
  <2> DEFINE t == Text!read_token(s, from)[1]
             n == StopOf(s, from)
             k == t.next
             p == Text!Solid(s, from) - 1
  <2>1. k \in Places /\ from < k /\ from <= L
    <3> HIDE DEF p, t
    <3> QED BY <1>2, TokenThere DEF t, p
  <2>2. n = Text!scan_number(s, k) /\ n # 0
    BY <1>2 DEF StopOf
  <2> HIDE DEF k, n, t
  <2>3. n \in Nat /\ n >= k
    BY <1>0, <2>1, <2>2, ScanForward DEF Places
  <2>4. n \in Places /\ from < n /\ from \in Nat
    BY <2>1, <2>2, <2>3 DEF Places
  <2>5. m[n] = away(n) /\ m[from] = away(from)
    BY <2>4
  <2> HIDE DEF L, m
  <2>6. away(n) < away(from)
    BY <1>0, <2>1, <2>3, <2>4
  <2> HIDE DEF away
  <2> QED BY <2>4, <2>5, <2>6 DEF n
<1>3. PlacesLeft(s) = m
  BY DEF PlacesLeft
<1> HIDE DEF m
<1> QED BY <1>1, <1>2, <1>3

\* A line is one of those that may be printed.
LEMMA TableRowIs ==
  ASSUME NEW t \in Storing, Len(t.token) <= t.cap, NEW out1 \in Outs
  PROVE  <<TableRow(t, out1)>> \in Seq(Rows) /\ TableRow(t, out1) \in Rows
<1>1. t.token \in Seq(Nat) /\ t.cap \in Nat
  BY DEF Storing
<1>2. TableRow(t, out1) \in Rows
  BY <1>1 DEF TableRow, Rows
<1> QED BY <1>2

\* So are all that are printed from here on.
LEMMA RowsOn ==
  ASSUME FirstCapacity \in Nat \ {0}, NEW s \in Seq(NonZero), NEW from \in Places, NEW f,
         Text!read_token(s, from) # <<>> /\ StopOf(s, from) # 0 => f[StopOf(s, from)] \in Seq(Rows)
  PROVE  RowsFrom(s, from, f) \in Seq(Rows)
<1> DEFINE r == Text!read_token(s, from)
           t == r[1]
           p == Text!Solid(s, from) - 1
           n == StopOf(s, from)
           none == "none"
           more == Printed(t)
           one == <<TableRow(t, none)>>
           two == <<TableRow(t, more)>>
           empty == <<>>
           rest == f[n]
           last == two \o rest
<1>1. RowsFrom(s, from, f) = IF r = empty THEN empty ELSE IF n = 0 THEN one ELSE last
  BY Zenon DEF RowsFrom
<1>2. empty \in Seq(Rows)
  OBVIOUS
<1>3. r # empty => t \in Storing /\ Len(t.token) <= t.cap
  <2> HIDE DEF p
  <2> QED BY TokenThere DEF p
<1>4. none \in Outs /\ more \in Outs
  <2>1. none \in Outs
    BY DEF Outs
  <2>2. Printed(t) = "value" \/ Printed(t) = "nan"
    <3> HIDE DEF t
    <3> QED BY DEF Printed
  <2>3. more = "value" \/ more = "nan"
    BY <2>2
  <2> HIDE DEF more
  <2>4. more \in Outs
    BY <2>3 DEF Outs
  <2> QED BY <2>1, <2>4
<1>5. r # empty => one \in Seq(Rows) /\ two \in Seq(Rows)
  <2> HIDE DEF t, none, more, empty
  <2> QED BY <1>3, <1>4, TableRowIs
<1>6. r # empty /\ n # 0 => rest \in Seq(Rows)
  OBVIOUS
<1> HIDE DEF one, two, empty, rest, r, n
<1>7. r # empty /\ n # 0 => last \in Seq(Rows)
  BY <1>5, <1>6, ConcatProperties
<1> HIDE DEF last
<1> QED BY <1>1, <1>2, <1>5, <1>7

\* So func_table is that loop from the first place.
LEMMA RowsLoops ==
  ASSUME FirstCapacity \in Nat \ {0}, NEW s \in Seq(NonZero)
  PROVE  \E loop : TableLoop(s, loop) /\ Text!func_table(s) = loop[1]
<1> DEFINE S == Places
           V == Seq(Rows)
           m == PlacesLeft(s)
           rule == [x \in S \X [S -> V] |-> RowsFrom(s, x[1], x[2])]
<1>1. m \in [S -> Nat] /\ V # {}
  <2>1. <<>> \in V
    OBVIOUS
  <2> QED BY <2>1, RowsNearer
<1>2. \A x \in S, f \in [S -> V] : rule[<<x, f>>] = RowsFrom(s, x, f)
  OBVIOUS
<1>3. \A x \in S : Text!read_token(s, x) # <<>> /\ StopOf(s, x) # 0 =>
         StopOf(s, x) \in S /\ m[StopOf(s, x)] < m[x]
  BY RowsNearer
<1> HIDE DEF m
<1>4. rule \in [S \X [S -> V] -> V]
  <2>1. ASSUME NEW x \in S, NEW f \in [S -> V] PROVE RowsFrom(s, x, f) \in V
    <3>1. Text!read_token(s, x) # <<>> /\ StopOf(s, x) # 0 => f[StopOf(s, x)] \in V
      <4> HIDE DEF S, V
      <4> QED BY <1>3
    <3> QED BY <3>1, RowsOn
  <2> HIDE DEF S, V
  <2> QED BY <2>1
<1>5. Local(S, V, m, rule)
  <2> HIDE DEF rule, S, V
  <2> SUFFICES ASSUME NEW x \in S, NEW f \in [S -> V], NEW g \in [S -> V],
                      \A y \in S : m[y] < m[x] => f[y] = g[y]
               PROVE  rule[<<x, f>>] = rule[<<x, g>>]
    BY DEF Local
  <2>1. Text!read_token(s, x) # <<>> /\ StopOf(s, x) # 0 => f[StopOf(s, x)] = g[StopOf(s, x)]
    BY <1>3
  <2>2. RowsFrom(s, x, f) = RowsFrom(s, x, g)
    BY <2>1 DEF RowsFrom
  <2> QED BY <1>2, <2>2
<1>6. PICK f \in [S -> V] : \A x \in S : f[x] = rule[<<x, f>>]
  <2>1. Solvable(S, V, rule)
    <3> HIDE DEF rule, S, V
    <3> QED BY <1>1, <1>4, <1>5, Recursion
  <2> QED BY <2>1 DEF Solvable
<1> DEFINE body(loop, from) ==
             LET r == Text!read_token(s, from)
                 stop == Text!scan_number(s, r[1].next)
                 line(shown) == <<[name |-> r[1].token, cap |-> r[1].cap, out |-> shown]>>
             IN  IF r = <<>> THEN <<>>
                 ELSE IF stop = 0 THEN line("none")
                 ELSE line(IF Text!String(r[1].token) \in Table THEN "value" ELSE "nan") \o loop[stop]
           Is(loop) == loop = [from \in Nat \ {0} |-> body(loop, from)]
           chosen == CHOOSE loop : Is(loop)
<1>7. \A loop, from : body(loop, from) = RowsFrom(s, from, loop)
  BY Zenon DEF RowsFrom, StopOf, TableRow, Printed
<1>8. Is(f)
  <2>1. \A x \in S : f[x] = body(f, x)
    <3> HIDE DEF body, rule, S, V
    <3> QED BY <1>2, <1>6, <1>7
  <2>2. f = [x \in S |-> body(f, x)]
    <3> HIDE DEF body, S, V
    <3> QED BY <1>6, <2>1
  <2> HIDE DEF body
  <2> QED BY <2>2 DEF Places
<1>9. Is(chosen)
  <2> HIDE DEF Is
  <2> QED BY <1>8
<1>10. Text!func_table(s) = chosen[1]
  BY DEF Text!func_table
<1>11. \A x \in S : chosen[x] = body(chosen, x)
  <2> HIDE DEF chosen, body
  <2> QED BY <1>9 DEF Places
<1> HIDE DEF chosen, body
<1>12. TableLoop(s, chosen)
  BY <1>7, <1>11 DEF TableLoop
<1> QED BY <1>10, <1>12

\* What FunctionsRight says of a line.
RowRight(x, word, last) ==
    /\ Text!String(x.name) = word
    /\ x.out = "none" <=> last
    /\ x.out = "nan" => word \notin Table
    /\ x.out = "value" => word \in Table

\* The lines for the words behind the first 2 * h.
TableFrom(rows, ws, h) ==
    /\ rows \in Seq(Rows)
    /\ 2 * (h + Len(rows)) = Len(ws) \/ 2 * (h + Len(rows)) = Len(ws) + 1
    /\ \A j \in 1..Len(rows) : RowRight(rows[j], ws[2 * (h + j) - 1], 2 * (h + j) > Len(ws))

\* A line says of its name what is so.
LEMMA RowSays ==
  ASSUME NEW t, NEW w \in Seq(NonZero), t.token = Append(w, 0)
  PROVE  RowRight(TableRow(t, "none"), w, TRUE) /\ RowRight(TableRow(t, Printed(t)), w, FALSE)
<1> DEFINE x == TableRow(t, "none")
           y == TableRow(t, Printed(t))
<1>1. Text!String(t.token) = w
  BY StringOfAppended
<1>2. x.name = t.token /\ x.out = "none" /\ y.name = t.token /\ y.out = Printed(t)
  BY DEF TableRow
<1>3. Printed(t) = IF w \in Table THEN "value" ELSE "nan"
  BY <1>1 DEF Printed
<1> HIDE DEF x, y
<1>4. RowRight(x, w, TRUE)
  BY <1>1, <1>2 DEF RowRight
<1>5. RowRight(y, w, FALSE)
  BY <1>1, <1>2, <1>3 DEF RowRight
<1> QED BY <1>4, <1>5 DEF x, y

\* No words, no lines.
LEMMA RowsNone ==
  ASSUME NEW ws, NEW h \in Nat, 2 * h = Len(ws)
  PROVE  TableFrom(<<>>, ws, h)
<1> DEFINE rows == <<>>
<1>1. rows \in Seq(Rows) /\ Len(rows) = 0
  OBVIOUS
<1> HIDE DEF rows
<1>2. 2 * (h + 0) = Len(ws) /\ \A j \in 1..0 : FALSE
  OBVIOUS
<1>3. TableFrom(rows, ws, h)
  BY <1>1, <1>2 DEF TableFrom
<1> QED BY <1>3 DEF rows

\* A name without a number.
LEMMA RowsOne ==
  ASSUME NEW ws, NEW h \in Nat, 2 * h + 1 = Len(ws), NEW x \in Rows,
         RowRight(x, ws[2 * h + 1], TRUE)
  PROVE  TableFrom(<<x>>, ws, h)
<1> DEFINE rows == <<x>>
           W == Len(ws)
<1>1. rows \in Seq(Rows) /\ Len(rows) = 1 /\ rows[1] = x
  OBVIOUS
<1>2. 2 * (h + 1) = W + 1 /\ 2 * (h + 1) - 1 = 2 * h + 1 /\ 2 * (h + 1) > W
  <2>1. 2 * h + 1 = W
    OBVIOUS
  <2> HIDE DEF W
  <2> QED BY <2>1
<1> HIDE DEF rows, W
<1>3. RowRight(rows[1], ws[2 * (h + 1) - 1], 2 * (h + 1) > W)
  <2>1. (2 * (h + 1) > W) = TRUE
    BY <1>2
  <2>2. ws[2 * (h + 1) - 1] = ws[2 * h + 1]
    BY <1>2
  <2> QED BY <1>1, <2>1, <2>2
<1>4. \A j \in 1..1 : RowRight(rows[j], ws[2 * (h + j) - 1], 2 * (h + j) > W)
  <2> TAKE j \in 1..1
  <2>1. j = 1
    OBVIOUS
  <2> QED BY <1>3, <2>1
<1>5. TableFrom(rows, ws, h)
  BY <1>1, <1>2, <1>4 DEF TableFrom, W
<1> QED BY <1>5 DEF rows

\* A name and a number, and the lines behind them.
LEMMA RowsMore ==
  ASSUME NEW ws, NEW h \in Nat, Len(ws) \in Nat, 2 * h + 2 <= Len(ws), NEW x \in Rows,
         RowRight(x, ws[2 * h + 1], FALSE), NEW rest, TableFrom(rest, ws, h + 1)
  PROVE  TableFrom(<<x>> \o rest, ws, h)
<1> DEFINE one == <<x>>
           rows == one \o rest
           W == Len(ws)
           n == Len(rest)
<1>1. one \in Seq(Rows) /\ Len(one) = 1 /\ one[1] = x
  OBVIOUS
<1>a. rest \in Seq(Rows)
  BY DEF TableFrom
<1>b. 2 * ((h + 1) + n) = W \/ 2 * ((h + 1) + n) = W + 1
  BY DEF TableFrom
<1>c. \A j \in 1..n : RowRight(rest[j], ws[2 * ((h + 1) + j) - 1], 2 * ((h + 1) + j) > W)
  BY DEF TableFrom
<1> HIDE DEF one
<1>3. Concatenates(rows, one, rest, Rows)
  BY <1>1, <1>a, JoinedLen
<1>4. /\ rows \in Seq(Rows) /\ n \in Nat /\ Len(rows) = 1 + n /\ rows[1] = x
      /\ \A j \in 1..n : rows[1 + j] = rest[j]
  <2>1. 1 \in 1..1
    OBVIOUS
  <2> HIDE DEF rows
  <2> QED BY <1>1, <1>3, <2>1 DEF Concatenates
<1> HIDE DEF rows, n
<1>5. 2 * (h + (1 + n)) = W \/ 2 * (h + (1 + n)) = W + 1
  <2>1. h + (1 + n) = (h + 1) + n
    BY <1>4
  <2> QED BY <1>b, <2>1
<1>6. ASSUME NEW j \in 1..1+n
      PROVE  RowRight(rows[j], ws[2 * (h + j) - 1], 2 * (h + j) > W)
  <2>1. CASE j = 1
    <3>1. 2 * (h + j) - 1 = 2 * h + 1 /\ ~(2 * (h + j) > W)
      <4>1. 2 * h + 2 <= W /\ W \in Nat
        OBVIOUS
      <4> HIDE DEF W
      <4> QED BY <2>1, <4>1
    <3>2. (2 * (h + j) > W) = FALSE
      BY <3>1
    <3> HIDE DEF W
    <3>3. ws[2 * (h + j) - 1] = ws[2 * h + 1]
      BY <3>1
    <3> QED BY <1>4, <2>1, <3>2, <3>3
  <2>2. CASE j # 1
    <3> DEFINE i == j - 1
    <3>a. n \in Nat /\ j \in 1..1+n /\ j # 1
      BY <1>4, <2>2
    <3>b. j \in Nat /\ j >= 2 /\ j <= 1 + n
      BY <3>a
    <3>1. i \in 1..n /\ 1 + i = j /\ (h + 1) + i = h + j
      BY <3>a, <3>b
    <3> HIDE DEF i, W
    <3>2. rows[j] = rest[i]
      BY <1>4, <3>1
    <3>3. RowRight(rest[i], ws[2 * ((h + 1) + i) - 1], 2 * ((h + 1) + i) > W)
      BY <1>c, <3>1
    <3> QED BY <3>1, <3>2, <3>3
  <2> QED BY <2>1, <2>2
<1>7. TableFrom(rows, ws, h)
  BY <1>4, <1>5, <1>6 DEF TableFrom, W
<1> QED BY <1>7 DEF rows, one

\* The words that stand where a number is expected are digits.
NumbersGiven(ws) == \A h \in Nat : 2 * h + 2 <= Len(ws) => AllDigits(ws[2 * h + 2])

\* The lines that are printed from here on.
RowsGood(s, ws, b, from, rows) ==
    /\ rows \in Seq(Rows)
    /\ NumbersGiven(ws) =>
          \A h \in Nat : 2 * h <= Len(ws) /\ Behind(s, ws, b, 2 * h, from) => TableFrom(rows, ws, h)

\* The token is the k-th word.
TakenFrom(s, ws, b, k, t) ==
    /\ ws[k] \in Seq(NonZero) /\ t.token = Append(ws[k], 0)
    /\ Behind(s, ws, b, k, t.next)

\* A token that is found where the k-th word begins is the k-th word.
LEMMA TokenIsWord ==
  ASSUME NEW s \in Seq(NonZero), NEW ws, NEW b, Cut(s, Len(s), ws, b), NEW k \in 1..Len(ws),
         NEW p, p = b[k], NEW t, NEW w, TokenFound(s, p, t, w)
  PROVE  TakenFrom(s, ws, b, k, t)
<1>1. /\ t.token = Append(w, 0) /\ Piece(s, p, w) /\ PieceEnds(s, p, w)
      /\ t.next = p + Len(w) + 2
  BY DEF TokenFound
<1>2. Piece(s, p, ws[k]) /\ PieceEnds(s, p, ws[k]) /\ ws[k] \in Seq(NonZero)
  BY WordThere
<1>3. w = ws[k]
  <2> DEFINE v == ws[k]
  <2> HIDE DEF v
  <2> QED BY <1>1, <1>2, PieceUnique DEF v
<1>4. t.next = b[k] + Len(ws[k]) + 2
  BY <1>1, <1>3
<1>5. Behind(s, ws, b, k, t.next)
  BY <1>4, BehindToken
<1> QED BY <1>1, <1>2, <1>3, <1>5 DEF TakenFrom

\* What is printed from here on is right when what is printed behind the
\* number is.
LEMMA RowsStep ==
  ASSUME FirstCapacity \in Nat \ {0}, NEW s \in Seq(NonZero), NEW ws, NEW b, Cut(s, Len(s), ws, b),
         NEW from \in Places, NEW f,
         Text!read_token(s, from) # <<>> /\ StopOf(s, from) # 0 =>
            RowsGood(s, ws, b, StopOf(s, from), f[StopOf(s, from)])
  PROVE  RowsGood(s, ws, b, from, RowsFrom(s, from, f))
<1> DEFINE r == Text!read_token(s, from)
           t == r[1]
           n == StopOf(s, from)
           W == Len(ws)
           start == Text!Solid(s, from)
           p == start - 1
           none == TableRow(t, "none")
           more == TableRow(t, Printed(t))
           rows == RowsFrom(s, from, f)
           rest == f[n]
<1>0. from \in Nat \ {0} /\ Len(s) \in Nat /\ W \in Nat
  <2>1. ws \in Seq(Seq(NonZero))
    BY DEF Cut
  <2> QED BY <2>1, LenProperties DEF Places
<1>1. rows = IF r = <<>> THEN <<>> ELSE IF n = 0 THEN <<none>> ELSE <<more>> \o rest
  BY Zenon DEF RowsFrom
<1>2. rows \in Seq(Rows)
  <2>1. r # <<>> /\ n # 0 => f[n] \in Seq(Rows)
    BY DEF RowsGood
  <2> QED BY <2>1, RowsOn
<1>3. ASSUME NumbersGiven(ws), NEW h \in Nat, 2 * h <= W, Behind(s, ws, b, 2 * h, from)
      PROVE  TableFrom(rows, ws, h)
  <2> DEFINE k == 2 * h
             j == 2 * h + 1
  <2>0. k \in 0..W /\ j = k + 1 /\ start \in Nat /\ p + 1 = start
    <3>1. start \in Nat
      BY <1>0, SolidIs DEF FirstIn
    <3>2. 2 * h <= W
      BY <1>3
    <3> HIDE DEF W, start
    <3> QED BY <1>0, <3>1, <3>2
  <2>1. IF k = W THEN start > Len(s)
        ELSE start = b[k + 1] + 1 /\ ~(start > Len(s)) /\ start >= from /\ k + 1 \in 1..W
    <3>1. Behind(s, ws, b, k, from)
      BY <1>3
    <3> HIDE DEF k
    <3> QED BY <2>0, <3>1, SolidNext
  <2>2. IF start > Len(s) THEN r = <<>> ELSE TokenRead(r, s, p)
    <3>1. IF p + 1 > Len(s) THEN r = <<>> ELSE TokenRead(r, s, p)
      BY <1>0, TokenIs
    <3> HIDE DEF r, start, p
    <3> QED BY <2>0, <3>1
  <2>3. CASE k = W
    <3>1. r = <<>>
      BY <2>1, <2>2, <2>3
    <3>2. rows = <<>>
      BY <1>1, <3>1
    <3>3. TableFrom(<<>>, ws, h)
      BY <2>3, RowsNone
    <3> HIDE DEF rows
    <3> QED BY <3>2, <3>3
  <2>4. CASE k # W
    <3>1. start = b[j] + 1 /\ TokenRead(r, s, p) /\ j \in 1..W
      BY <2>0, <2>1, <2>2, <2>4
    <3>2. PICK res, w : r = <<res>> /\ w # <<>> /\ TokenFound(s, p, res, w)
      <4> HIDE DEF r, p
      <4> QED BY <3>1 DEF TokenRead
    <3>3. t = res /\ r # <<>>
      <4> HIDE DEF r
      <4> QED BY <3>2
    <3>4. p = b[j]
      <4> DEFINE x == b[j]
      <4>1. x \in Nat
        <5> HIDE DEF j
        <5> QED BY <3>1, WordThere
      <4>2. start = x + 1
        BY <3>1
      <4> HIDE DEF start, x
      <4>3. start - 1 = x
        BY <4>1, <4>2
      <4> QED BY <4>3 DEF x
    <3> HIDE DEF p, start, j, k
    <3>5. t.token = Append(ws[j], 0) /\ Behind(s, ws, b, j, t.next) /\ ws[j] \in Seq(NonZero)
      <4> HIDE DEF t, W
      <4>1. TokenFound(s, p, t, w) /\ j \in 1..Len(ws)
        BY <3>1, <3>2, <3>3 DEF W
      <4>2. TakenFrom(s, ws, b, j, t)
        BY <3>4, <4>1, TokenIsWord
      <4> QED BY <4>2 DEF TakenFrom
    <3>6. t \in Storing /\ Len(t.token) <= t.cap
      <4> DEFINE q == Text!Solid(s, from) - 1
      <4> HIDE DEF q
      <4> QED BY <3>3, TokenThere DEF q
    <3>7. RowRight(none, ws[j], TRUE) /\ RowRight(more, ws[j], FALSE)
      <4> HIDE DEF t
      <4> QED BY <3>5, RowSays
    <3>8. none \in Rows /\ more \in Rows
      <4>1. "none" \in Outs /\ Printed(t) \in Outs
        <5> HIDE DEF t
        <5> QED BY DEF Outs, Printed
      <4> HIDE DEF t
      <4> QED BY <3>6, <4>1, TableRowIs
    <3>9. n = Text!scan_number(s, t.next)
      BY DEF StopOf
    <3>10. IF j = W THEN n = 0 ELSE AllDigits(ws[j + 1]) => n # 0 /\ Behind(s, ws, b, j + 1, n)
      <4> DEFINE z == t.next
      <4>1. j \in 0..W /\ Behind(s, ws, b, j, z) /\ n = Text!scan_number(s, z)
        <5> HIDE DEF W, z
        <5>1. j \in 0..W
          BY <3>1
        <5> QED BY <3>5, <3>9, <5>1 DEF z
      <4> HIDE DEF z, n
      <4> QED BY <4>1, ScanNext
    <3> HIDE DEF t, n, none, more, rest, rows, r
    <3>11. CASE j = W
      <4>1. rows = <<none>>
        BY <1>1, <3>3, <3>10, <3>11
      <4>2. 2 * h + 1 = Len(ws) /\ RowRight(none, ws[2 * h + 1], TRUE)
        BY <3>7, <3>11 DEF j
      <4>3. TableFrom(<<none>>, ws, h)
        BY <3>8, <4>2, RowsOne
      <4> QED BY <4>1, <4>3
    <3>12. CASE j # W
      <4>1. 2 * h + 2 <= W /\ j + 1 = 2 * h + 2 /\ 2 * (h + 1) = 2 * h + 2 /\ h + 1 \in Nat
        <5> HIDE DEF W
        <5> QED BY <1>0, <3>1, <3>12 DEF j
      <4>2. AllDigits(ws[j + 1])
        BY <1>3, <4>1 DEF NumbersGiven
      <4>3. n # 0 /\ Behind(s, ws, b, j + 1, n)
        BY <3>10, <3>12, <4>2
      <4>4. RowsGood(s, ws, b, n, rest)
        BY <3>3, <4>3 DEF r, n, rest
      <4>5. TableFrom(rest, ws, h + 1)
        <5>1. 2 * (h + 1) <= Len(ws) /\ Behind(s, ws, b, 2 * (h + 1), n)
          BY <4>1, <4>3
        <5> QED BY <1>3, <4>1, <4>4, <5>1 DEF RowsGood
      <4>6. rows = <<more>> \o rest
        BY <1>1, <3>3, <4>3
      <4>7. RowRight(more, ws[2 * h + 1], FALSE)
        BY <3>7 DEF j
      <4>8. TableFrom(<<more>> \o rest, ws, h)
        BY <1>0, <3>8, <4>1, <4>5, <4>7, RowsMore
      <4> QED BY <4>6, <4>8
    <3> QED BY <3>11, <3>12
  <2> QED BY <2>3, <2>4
<1> HIDE DEF rows
<1>4. RowsGood(s, ws, b, from, rows)
  BY <1>2, <1>3 DEF RowsGood
<1> QED BY <1>4 DEF rows

\* What FunctionsRight says of the lines.
TableRight(lines, s) ==
    LET words1 == Text!Words(s)
    IN  /\ \A k \in DOMAIN lines : Len(lines[k].name) <= lines[k].cap
        /\ (\A k \in DOMAIN words1 : k % 2 = 0 => \A n \in DOMAIN words1[k] : Text!IsDigit(words1[k][n]))
              => /\ Len(lines) = (Len(words1) + 1) \div 2
                 /\ \A k \in DOMAIN lines :
                       /\ Text!String(lines[k].name) = words1[2 * k - 1]
                       /\ lines[k].out = "none" <=> 2 * k > Len(words1)
                       /\ lines[k].out = "nan" => words1[2 * k - 1] \notin Table
                       /\ lines[k].out = "value" => words1[2 * k - 1] \in Table

\* So all that is printed is right.
LEMMA RowsAllGood ==
  ASSUME FirstCapacity \in Nat \ {0}, NEW s \in Seq(NonZero), NEW ws, NEW b, Cut(s, Len(s), ws, b)
  PROVE  RowsGood(s, ws, b, 1, Text!func_table(s))
<1> DEFINE m == PlacesLeft(s)
<1>1. PICK loop : TableLoop(s, loop) /\ Text!func_table(s) = loop[1]
  BY RowsLoops
<1>2. m \in [Places -> Nat]
  BY RowsNearer
<1> DEFINE P == {from \in Places : RowsGood(s, ws, b, from, loop[from])}
<1>3. ASSUME NEW from \in Places, \A y \in Places : m[y] < m[from] => y \in P PROVE from \in P
  <2> DEFINE n == StopOf(s, from)
  <2>1. loop[from] = RowsFrom(s, from, loop)
    BY <1>1 DEF TableLoop
  <2>2. ASSUME Text!read_token(s, from) # <<>> /\ n # 0 PROVE RowsGood(s, ws, b, n, loop[n])
    <3>1. n \in Places /\ m[n] < m[from]
      BY <2>2, RowsNearer
    <3>2. n \in P
      <4> HIDE DEF P, m, n
      <4> QED BY <1>3, <3>1
    <3> QED BY <3>2
  <2>3. RowsGood(s, ws, b, from, RowsFrom(s, from, loop))
    BY <2>2, RowsStep
  <2> QED BY <2>1, <2>3
<1>4. Places \subseteq P
  <2> HIDE DEF P, m
  <2> QED BY <1>2, <1>3, MeasureInduction
<1>5. 1 \in P
  <2>1. 1 \in Places
    BY DEF Places
  <2> HIDE DEF P
  <2> QED BY <1>4, <2>1
<1> QED BY <1>1, <1>5

\* func-table is right.
LEMMA FunctionsComputed ==
  ASSUME FirstCapacity \in Nat \ {0}, NEW s \in Seq(NonZero)
  PROVE  TableRight(Text!func_table(s), s)
<1> DEFINE rows == Text!func_table(s)
           ws == Text!Words(s)
           W == Len(ws)
           n == Len(rows)
           zero == 0
           given == \A k \in DOMAIN ws : k % 2 = 0 => \A i \in DOMAIN ws[k] : Text!IsDigit(ws[k][i])
<1>1. PICK b : Cut(s, Len(s), ws, b)
  BY WordsAre
<1>2. RowsGood(s, ws, b, 1, rows)
  <2> HIDE DEF ws, rows
  <2> QED BY <1>1, RowsAllGood DEF rows
<1> HIDE DEF rows, ws
<1>3. rows \in Seq(Rows) /\ ws \in Seq(Seq(NonZero))
  BY <1>1, <1>2 DEF RowsGood, Cut
<1>4. DOMAIN rows = 1..n /\ DOMAIN ws = 1..W /\ W \in Nat /\ n \in Nat
      /\ \A k \in 1..W : ws[k] \in Seq(NonZero)
  BY <1>3, LenProperties, ElementOfSeq
<1>5. \A k \in DOMAIN rows : Len(rows[k].name) <= rows[k].cap
  BY <1>3, <1>4, ElementOfSeq DEF Rows
<1>6. ASSUME given PROVE NumbersGiven(ws)
  <2> SUFFICES ASSUME NEW h \in Nat, 2 * h + 2 <= W PROVE AllDigits(ws[2 * h + 2])
    BY DEF NumbersGiven
  <2> DEFINE k == 2 * h + 2
  <2>1. k \in 1..W /\ k % 2 = 0
    <3>1. 2 * h + 2 <= W
      OBVIOUS
    <3>2. k = 2 * (h + 1) /\ h + 1 \in Nat
      OBVIOUS
    <3>3. k % 2 = 0
      BY <3>2
    <3> HIDE DEF W
    <3>4. k \in 1..W
      BY <1>4, <3>1
    <3> QED BY <3>3, <3>4
  <2> HIDE DEF k
  <2>2. \A i \in DOMAIN ws[k] : Text!IsDigit(ws[k][i])
    BY <1>4, <1>6, <2>1
  <2>3. DOMAIN ws[k] = 1..Len(ws[k])
    BY <1>4, <2>1, LenProperties
  <2> QED BY <2>2, <2>3 DEF AllDigits, k
<1>7. ASSUME given PROVE TableFrom(rows, ws, zero)
  <2>1. Behind(s, ws, b, 0, 1)
    <3>1. EndOf(ws, b, 0) = 0
      BY DEF EndOf
    <3>2. \A i \in 0+1..1-1 : FALSE
      OBVIOUS
    <3> QED BY <3>1, <3>2 DEF Behind
  <2>2. 2 * zero = 0 /\ zero \in Nat /\ 0 <= W
    <3> HIDE DEF W
    <3> QED BY <1>4
  <2>3. NumbersGiven(ws)
    BY <1>6, <1>7
  <2>4. Behind(s, ws, b, 2 * zero, 1) /\ 2 * zero <= Len(ws)
    BY <2>1, <2>2
  <2> HIDE DEF zero
  <2> QED BY <1>2, <2>2, <2>3, <2>4 DEF RowsGood
<1>8. ASSUME given
      PROVE  /\ n = (W + 1) \div 2
             /\ \A k \in 1..n : /\ Text!String(rows[k].name) = ws[2 * k - 1]
                                /\ rows[k].out = "none" <=> 2 * k > W
                                /\ rows[k].out = "nan" => ws[2 * k - 1] \notin Table
                                /\ rows[k].out = "value" => ws[2 * k - 1] \in Table
  <2>1. /\ 2 * (zero + n) = W \/ 2 * (zero + n) = W + 1
        /\ \A k \in 1..n : RowRight(rows[k], ws[2 * (zero + k) - 1], 2 * (zero + k) > W)
    <3> HIDE DEF zero
    <3> QED BY <1>7, <1>8 DEF TableFrom
  <2> HIDE DEF n, W
  <2>2. zero + n = n /\ \A k \in 1..n : zero + k = k
    BY <1>4
  <2>3. 2 * n = W \/ 2 * n = W + 1
    BY <2>1, <2>2
  <2>4. n = (W + 1) \div 2
    BY <1>4, <2>3
  <2>5. \A k \in 1..n : RowRight(rows[k], ws[2 * k - 1], 2 * k > W)
    <3> TAKE k \in 1..n
    <3>1. RowRight(rows[k], ws[2 * (zero + k) - 1], 2 * (zero + k) > W) /\ zero + k = k
      BY <2>1, <2>2
    <3> HIDE DEF zero
    <3> QED BY <3>1
  <2> QED BY <2>4, <2>5 DEF RowRight
<1>9. TableRight(rows, s)
  <2>1. given => /\ n = (W + 1) \div 2
                 /\ \A k \in DOMAIN rows : /\ Text!String(rows[k].name) = ws[2 * k - 1]
                                           /\ rows[k].out = "none" <=> 2 * k > W
                                           /\ rows[k].out = "nan" => ws[2 * k - 1] \notin Table
                                           /\ rows[k].out = "value" => ws[2 * k - 1] \in Table
    <3> HIDE DEF n, W, given
    <3> QED BY <1>4, <1>8
  <2> QED BY <1>5, <2>1, Zenon DEF TableRight, ws
<1> QED BY <1>9 DEF rows

-----------------------------------------------------------------------------
(* TextsRight.                                                                *)

\* What the runs of Texts are asked: TextsAssumption, of one run.
AskedText(t, s) ==
    \/ t = "normalize-path" /\ s[1] \in Text!Strings
    \/ t = "mystrcmp" /\ s \in Text!Strings \X Text!Strings
    \/ /\ t = "utf-wc" /\ s[2] \in Seq(Text!CodePoints)
       /\ s[1] = Text!Joined([k \in DOMAIN s[2] |-> Text!Encode(s[2][k])])
    \/ t = "anagram" /\ s \in Seq(Text!Bytes) \X Seq(Text!Bytes)
    \/ t \in {"checker", "func-table"} /\ s[1] \in Seq(Text!Bytes \ {0})
    \/ t = "sha256" /\ s[1] \in Seq(Text!Bytes) /\ 8 * Len(s[1]) < Text!Lengths

TextsInv == TextsRight /\ (task \in Text!TextTasks => AskedText(task, args))

\* Of a run without an answer, and of other programs, nothing is said.
LEMMA NothingAnswered ==
  ASSUME answer = <<>> \/ task \notin Text!TextTasks
  PROVE  Text!TextsRight
BY Zenon DEF Text!TextsRight, Text!PathRight, Text!ComparedRight, Text!CodePointsRight, Text!AnagramRight,
   Text!FunctionsRight, Text!LinesRight, Text!BlocksRight, Text!Answered, Text!TextTasks

\* Before any answer nothing is claimed, and every run is one that may be
\* asked.
LEMMA TextsStart == ProgramsInit => TextsInv
<1> SUFFICES ASSUME ProgramsInit PROVE TextsInv
  OBVIOUS
<1>1. \/ OneStepUnused
      \/ Number!Init
      \/ Text!Init
  BY Zenon DEF ProgramsInit
<1>2. answer = <<>>
  BY <1>1 DEF OneStepUnused, Number!Init, Text!Init
<1>3. TextsRight
  BY <1>2, NothingAnswered DEF TextsRight
<1>4. CASE OneStepUnused
  BY <1>3, <1>4 DEF OneStepUnused, TextsInv, Text!TextTasks
<1>5. CASE Number!Init
  <2>1. PICK q \in Questions : task = q.task
    BY <1>5 DEF Number!Init
  <2>2. q.task \notin Text!TextTasks
    BY ProgramsAssumption DEF Number!NumbersAssumption, Text!TextTasks
  <2> QED BY <1>3, <2>1, <2>2 DEF TextsInv
<1>6. CASE Text!Init
  <2>1. PICK t \in Lines : task = t.task /\ args = t.args
    BY <1>6 DEF Text!Init
  <2>2. AskedText(t.task, t.args)
    BY ProgramsAssumption DEF Text!TextsAssumption, AskedText
  <2> QED BY <1>3, <2>1, <2>2 DEF TextsInv
<1> QED BY <1>1, <1>4, <1>5, <1>6

\* The answers, each by the lemma about its program.  normalize-path.
LEMMA PathAnswered ==
  ASSUME AskedText(task, args), Text!Given("normalize-path"),
         answer' = <<Text!normalize_path(args[1])>>
  PROVE  Text!PathRight'
<1> DEFINE str == args[1]
           s == Text!String(str)
           P == {k \in DOMAIN s : s[k] = Text!Slash /\ k > 1 => s[k - 1] # Text!Slash}
<1>1. task = "normalize-path" /\ args' = args /\ answer'[1] = Text!normalize_path(str)
  BY DEF Text!Given
<1>2. str \in Text!Strings
  BY <1>1 DEF AskedText
<1> HIDE DEF str
<1>3. Text!String(Text!normalize_path(str)) = Text!At(s, P)
  <2> HIDE DEF s, P
  <2> QED BY <1>2, PathNormalized DEF s, P
<1>4. Text!String(answer'[1]) = Text!At(s, P)
  BY <1>1, <1>3
<1> QED BY <1>1, <1>4, Zenon DEF Text!PathRight, str

\* mystrcmp.
LEMMA ComparedAnswered ==
  ASSUME AskedText(task, args), Text!Given("mystrcmp"),
         answer' = <<Text!mystrcmp(args[1], args[2])>>
  PROVE  Text!ComparedRight'
<1> DEFINE a == args[1]
           b == args[2]
           r == Text!mystrcmp(a, b)
           n == IF Len(a) > Len(b) THEN Len(a) ELSE Len(b)
           d == Text!Base256(Text!Filled(a, n)) - Text!Base256(Text!Filled(b, n))
<1>1. task = "mystrcmp" /\ args' = args /\ answer'[1] = r
  BY DEF Text!Given
<1>2. a \in Text!Strings /\ b \in Text!Strings
  BY <1>1 DEF AskedText
<1> HIDE DEF a, b, r
<1>3. (r > 0) = (d > 0) /\ (r < 0) = (d < 0)
  <2> HIDE DEF n, d
  <2> QED BY <1>2, StringsCompared DEF r, n, d
<1> QED BY <1>1, <1>3, Zenon DEF Text!ComparedRight, a, b

\* utf-wc.
LEMMA CodePointsAnswered ==
  ASSUME AskedText(task, args), Text!Given("utf-wc"), answer' = <<Text!utf_wc(args[1])>>
  PROVE  Text!CodePointsRight'
<1> DEFINE s == args[1]
           cps == args[2]
<1>1. task = "utf-wc" /\ args' = args /\ answer'[1] = Text!utf_wc(s)
  BY DEF Text!Given
<1>2. cps \in Seq(Text!CodePoints) /\ s = Text!Joined([k \in DOMAIN cps |-> Text!Encode(cps[k])])
  BY <1>1 DEF AskedText
<1> HIDE DEF s, cps
<1>3. s = Encoded(cps)
  BY <1>2, Zenon DEF Encoded
<1>4. Text!utf_wc(s) = Counts(cps)
  BY <1>2, <1>3, CharactersCounted
<1>5. answer'[1] = Counts(args'[2])
  BY <1>1, <1>4 DEF cps
<1> QED BY <1>5, Zenon DEF Text!CodePointsRight, Counts

\* What AnagramRight says of two lines.
Matched(s, t) ==
    \E match \in [Text!Letters(s) -> Text!Letters(t)] :
       /\ \A j, k \in Text!Letters(s) : match[j] = match[k] => j = k
       /\ \A k \in Text!Letters(t) : \E j \in Text!Letters(s) : match[j] = k
       /\ \A k \in Text!Letters(s) : Text!Lower(s[k]) = Text!Lower(t[match[k]])

\* anagram.
LEMMA AnagramAnswered ==
  ASSUME AskedText(task, args), Text!Given("anagram"),
         answer' = <<Text!anagram(args[1], args[2])>>
  PROVE  Text!AnagramRight'
<1> DEFINE s == args[1]
           t == args[2]
<1>1. task = "anagram" /\ args' = args /\ answer'[1] = Text!anagram(s, t)
  BY DEF Text!Given
<1>2. s \in Seq(Text!Bytes) /\ t \in Seq(Text!Bytes)
  BY <1>1 DEF AskedText
<1> HIDE DEF s, t
<1>3. Text!anagram(s, t) =
        \E match \in [Text!Letters(s) -> Text!Letters(t)] :
           /\ \A j, k \in Text!Letters(s) : match[j] = match[k] => j = k
           /\ \A k \in Text!Letters(t) : \E j \in Text!Letters(s) : match[j] = k
           /\ \A k \in Text!Letters(s) : Text!Lower(s[k]) = Text!Lower(t[match[k]])
  BY <1>2, AnagramFound
<1>4. Text!anagram(s, t) = Matched(s, t)
  BY <1>3, Zenon DEF Matched
<1>5. answer'[1] = Matched(args'[1], args'[2])
  BY <1>1, <1>4 DEF s, t
<1> QED BY <1>5, Zenon DEF Text!AnagramRight, Matched

\* func-table.
LEMMA FunctionsAnswered ==
  ASSUME AskedText(task, args), Text!Given("func-table"),
         answer' = <<Text!func_table(args[1])>>
  PROVE  Text!FunctionsRight'
<1> DEFINE s == args[1]
           lines == answer'[1]
<1>1. task = "func-table" /\ args' = args /\ lines = Text!func_table(s)
  BY DEF Text!Given
<1>2. s \in Seq(NonZero) /\ FirstCapacity \in Nat \ {0}
  <2>1. s \in Seq(Text!Bytes \ {0})
    BY <1>1 DEF AskedText
  <2>2. Text!Bytes \ {0} \subseteq NonZero
    BY DEF Text!Bytes, NonZero
  <2>3. s \in Seq(NonZero)
    <3> HIDE DEF s
    <3> QED BY <2>1, <2>2, SeqMonotonic
  <2> QED BY <2>3, ProgramsAssumption DEF Text!TextsAssumption
<1> HIDE DEF s, lines
<1>3. TableRight(lines, s)
  BY <1>1, <1>2, FunctionsComputed
<1> QED BY <1>1, <1>3, Zenon DEF Text!FunctionsRight, TableRight, s, lines

\* A checker's file.
LEMMA LinesAnswered ==
  ASSUME AskedText(task, args), Text!Given("checker"),
         \E f \in {Text!by_line(args[1])} : answer' = <<f, Text!normalize_file(f.lines)>>
  PROVE  Text!LinesRight'
<1> DEFINE s == args[1]
           f == Text!by_line(s)
           short == Text!normalize_file(f.lines)
<1>1. task = "checker" /\ args' = args /\ answer'[1] = f /\ answer'[2] = short
  BY DEF Text!Given
<1>2. s \in Seq(NonZero) /\ FirstCapacity \in Nat \ {0}
  <2>1. s \in Seq(Text!Bytes \ {0})
    BY <1>1 DEF AskedText
  <2>2. Text!Bytes \ {0} \subseteq NonZero
    BY DEF Text!Bytes, NonZero
  <2>3. s \in Seq(NonZero)
    <3> HIDE DEF s
    <3> QED BY <2>1, <2>2, SeqMonotonic
  <2> QED BY <2>3, ProgramsAssumption DEF Text!TextsAssumption
<1> HIDE DEF s, f
<1>3. CheckerRight(f, short, s)
  BY <1>2, LinesNormalized DEF f
<1> HIDE DEF short
<1>4. CheckerRight(answer'[1], answer'[2], args'[1])
  BY <1>1, <1>3 DEF s
<1> QED BY <1>4, Zenon DEF Text!LinesRight, CheckerRight

\* The blocks of sha256.c.
LEMMA BlocksAnswered ==
  ASSUME AskedText(task, args), Text!Given("sha256"),
         \E ctx \in {Text!sha256_update(args[1])} :
            \E blocks \in {Text!sha256_final(ctx)} : answer' = <<blocks>>
  PROVE  Text!BlocksRight'
<1> DEFINE s == args[1]
           blocks == Text!sha256_final(Text!sha256_update(s))
           text == Text!Joined(blocks)
<1>1. task = "sha256" /\ args' = args /\ answer'[1] = blocks
  BY DEF Text!Given
<1>2. s \in Seq(Int) /\ 8 * Len(s) < Text!Lengths /\ BlockSize \in Nat /\ BlockSize >= 8
  <2>1. s \in Seq(Text!Bytes) /\ 8 * Len(s) < Text!Lengths
    BY <1>1 DEF AskedText
  <2>2. Text!Bytes \subseteq Int
    BY DEF Text!Bytes
  <2>3. s \in Seq(Int)
    <3> HIDE DEF s
    <3> QED BY <2>1, <2>2, SeqMonotonic
  <2> QED BY <2>1, <2>3, ProgramsAssumption DEF Text!TextsAssumption
<1> HIDE DEF s, blocks
<1>3. Len(text) = BlockSize * Len(blocks) /\ TextRight(text, s)
  BY <1>2, BlocksCut DEF blocks
<1> HIDE DEF text
<1> QED BY <1>1, <1>3, Zenon DEF Text!BlocksRight, TextRight, s, text

\* The same of the next state.
LEMMA NothingToAnswer ==
  ASSUME task' \notin Text!TextTasks
  PROVE  Text!TextsRight'
BY Zenon DEF Text!TextsRight, Text!PathRight, Text!ComparedRight, Text!CodePointsRight, Text!AnagramRight,
   Text!FunctionsRight, Text!LinesRight, Text!BlocksRight, Text!Answered, Text!TextTasks

\* An answer to one task says nothing of the others.
LEMMA OneAnswered ==
  ASSUME NEW t, task' = t
  PROVE  /\ t # "normalize-path" => Text!PathRight'
         /\ t # "mystrcmp" => Text!ComparedRight'
         /\ t # "utf-wc" => Text!CodePointsRight'
         /\ t # "anagram" => Text!AnagramRight'
         /\ t # "func-table" => Text!FunctionsRight'
         /\ t # "checker" => Text!LinesRight'
         /\ t # "sha256" => Text!BlocksRight'
BY Zenon DEF Text!PathRight, Text!ComparedRight, Text!CodePointsRight, Text!AnagramRight,
   Text!FunctionsRight, Text!LinesRight, Text!BlocksRight, Text!Answered

\* Each task in turn, by the lemma about its program.
LEMMA TextsAnswered == TextsInv /\ Text!Next => TextsInv'
<1> SUFFICES ASSUME TextsInv, Text!Next PROVE TextsInv'
  OBVIOUS
<1>1. task' = task /\ args' = args /\ task \in Text!TextTasks
  BY DEF Text!Next, Text!Given, Text!TextTasks
<1>2. AskedText(task, args)
  BY <1>1 DEF TextsInv
<1>3. Text!TextsRight'
  <2>1. CASE Text!Given("normalize-path") /\ answer' = <<Text!normalize_path(args[1])>>
    <3>1. Text!PathRight'
      BY <1>2, <2>1, PathAnswered
    <3>2. task' = "normalize-path"
      BY <1>1, <2>1 DEF Text!Given
    <3> QED BY <3>1, <3>2, OneAnswered DEF Text!TextsRight
  <2>2. CASE Text!Given("mystrcmp") /\ answer' = <<Text!mystrcmp(args[1], args[2])>>
    <3>1. Text!ComparedRight'
      BY <1>2, <2>2, ComparedAnswered
    <3>2. task' = "mystrcmp"
      BY <1>1, <2>2 DEF Text!Given
    <3> QED BY <3>1, <3>2, OneAnswered DEF Text!TextsRight
  <2>3. CASE Text!Given("utf-wc") /\ answer' = <<Text!utf_wc(args[1])>>
    <3>1. Text!CodePointsRight'
      BY <1>2, <2>3, CodePointsAnswered
    <3>2. task' = "utf-wc"
      BY <1>1, <2>3 DEF Text!Given
    <3> QED BY <3>1, <3>2, OneAnswered DEF Text!TextsRight
  <2>4. CASE Text!Given("anagram") /\ answer' = <<Text!anagram(args[1], args[2])>>
    <3>1. Text!AnagramRight'
      BY <1>2, <2>4, AnagramAnswered
    <3>2. task' = "anagram"
      BY <1>1, <2>4 DEF Text!Given
    <3> QED BY <3>1, <3>2, OneAnswered DEF Text!TextsRight
  <2>5. CASE /\ Text!Given("checker")
             /\ \E f \in {Text!by_line(args[1])} : answer' = <<f, Text!normalize_file(f.lines)>>
    <3>1. Text!LinesRight'
      BY <1>2, <2>5, LinesAnswered
    <3>2. task' = "checker"
      BY <1>1, <2>5 DEF Text!Given
    <3> QED BY <3>1, <3>2, OneAnswered DEF Text!TextsRight
  <2>6. CASE Text!Given("func-table") /\ answer' = <<Text!func_table(args[1])>>
    <3>1. Text!FunctionsRight'
      BY <1>2, <2>6, FunctionsAnswered
    <3>2. task' = "func-table"
      BY <1>1, <2>6 DEF Text!Given
    <3> QED BY <3>1, <3>2, OneAnswered DEF Text!TextsRight
  <2>7. CASE /\ Text!Given("sha256")
             /\ \E ctx \in {Text!sha256_update(args[1])} :
                   \E blocks \in {Text!sha256_final(ctx)} : answer' = <<blocks>>
    <3>1. Text!BlocksRight'
      BY <1>2, <2>7, BlocksAnswered
    <3>2. task' = "sha256"
      BY <1>1, <2>7 DEF Text!Given
    <3> QED BY <3>1, <3>2, OneAnswered DEF Text!TextsRight
  <2> QED BY <2>1, <2>2, <2>3, <2>4, <2>5, <2>6, <2>7, Zenon DEF Text!Next
<1> QED BY <1>1, <1>2, <1>3, Zenon DEF TextsInv, TextsRight

\* Whatever the texts, the size of a token's first buffer, the names in the
\* table and the size of a block are, the text programs print what their tasks
\* define (c_basic's normalize-path and mystrcmp, c_advanced's utf-wc and
\* func-table, asm_2's anagram, checker_read_file_by_line and
\* checker_normalize_file, and the blocks of sha256.c).
THEOREM TextsComputed == ProgramsSpec => []TextsRight
<1>1. TextsInv /\ [ProgramsNext]_allVars => TextsInv'
  <2> SUFFICES ASSUME TextsInv, [ProgramsNext]_allVars PROVE TextsInv'
    OBVIOUS
  <2>1. \/ Number!Next
        \/ Text!Next
        \/ UNCHANGED <<task, args, answer>>
    BY DEF ProgramsNext, SearchStep, TreeStep, WriteStep, ReverseStep, StyleStep, InfStep, OneStep,
           allVars, oneStepVars
  <2>2. CASE Number!Next
    <3>1. task' = task /\ args' = args /\ task \notin Text!TextTasks
      BY <2>2 DEF Number!Next, Number!Given, Text!TextTasks
    <3>2. Text!TextsRight'
      BY <3>1, NothingToAnswer
    <3> QED BY <3>1, <3>2, Zenon DEF TextsInv, TextsRight
  <2>3. CASE UNCHANGED <<task, args, answer>>
    <3>1. Text!TextsRight
      BY DEF TextsInv, TextsRight
    <3>2. task' = task /\ args' = args /\ answer' = answer
      BY <2>3
    <3>3. Text!PathRight'
      BY <3>1, <3>2, Zenon DEF Text!TextsRight, Text!PathRight, Text!Answered
    <3>4. Text!ComparedRight'
      BY <3>1, <3>2, Zenon DEF Text!TextsRight, Text!ComparedRight, Text!Answered
    <3>5. Text!CodePointsRight'
      <4>1. Text!CodePointsRight
        BY <3>1, Zenon DEF Text!TextsRight
      <4>2. Text!Answered("utf-wc") => answer[1] = Counts(args[2])
        BY <4>1, Zenon DEF Text!CodePointsRight, Counts
      <4>3. (Text!Answered("utf-wc") => answer[1] = Counts(args[2]))'
        BY <3>2, <4>2, Zenon DEF Text!Answered
      <4> QED BY <4>3, Zenon DEF Text!CodePointsRight, Counts
    <3>6. Text!AnagramRight'
      <4>1. Text!AnagramRight
        BY <3>1, Zenon DEF Text!TextsRight
      <4>2. Text!Answered("anagram") => answer[1] = Matched(args[1], args[2])
        BY <4>1, Zenon DEF Text!AnagramRight, Matched
      <4>3. (Text!Answered("anagram") => answer[1] = Matched(args[1], args[2]))'
        BY <3>2, <4>2, Zenon DEF Text!Answered
      <4> QED BY <4>3, Zenon DEF Text!AnagramRight, Matched
    <3>7. Text!FunctionsRight'
      BY <3>1, <3>2, Zenon DEF Text!TextsRight, Text!FunctionsRight, Text!Answered
    <3>8. Text!LinesRight'
      <4>1. Text!LinesRight
        BY <3>1, Zenon DEF Text!TextsRight
      <4>2. Text!Answered("checker") => CheckerRight(answer[1], answer[2], args[1])
        BY <4>1, Zenon DEF Text!LinesRight, CheckerRight
      <4>3. (Text!Answered("checker") => CheckerRight(answer[1], answer[2], args[1]))'
        BY <3>2, <4>2, Zenon DEF Text!Answered
      <4> QED BY <4>3, Zenon DEF Text!LinesRight, CheckerRight
    <3>9. Text!BlocksRight'
      BY <3>1, <3>2, Zenon DEF Text!TextsRight, Text!BlocksRight, Text!Answered
    <3>10. Text!TextsRight'
      BY <3>3, <3>4, <3>5, <3>6, <3>7, <3>8, <3>9, Zenon DEF Text!TextsRight
    <3> QED BY <3>2, <3>10, Zenon DEF TextsInv, TextsRight
  <2> QED BY <2>1, <2>2, <2>3, TextsAnswered
<1>2. TextsInv => TextsRight
  BY DEF TextsInv
<1> QED BY <1>1, <1>2, TextsStart, PTL DEF ProgramsSpec
=============================================================================
