--------------------------- MODULE ProgramsProofs ---------------------------
(* The programs that run alone, proved for every input: binary-search,       *)
(* write-char, binary-reverse, binary-tree, the style check and the .inf     *)
(* parser, each with an invariant that speaks of the states in which that    *)
(* program is the one running.                                               *)
EXTENDS Programs, FiniteSets, FiniteSetTheorems, SequenceTheorems,
        WellFoundedInduction, TLAPS

-----------------------------------------------------------------------------
(* binary-search.                                                            *)
SearchTypeOK ==
    /\ array \in Seq(Int)
    /\ lo \in Int /\ hi \in Int
    /\ result \in Int /\ (result = Running \/ result = NotFound \/ result >= 0)

\* InBounds is what makes the probes mean anything, NotMissed what makes the
\* answer -1 right.
FoundRight == result >= 0 => result < Len(array) /\ array[result + 1] = Target

NoneMissed ==
    Guaranteed /\ result = NotFound => \A k \in 1..Len(array) : array[k] # Target

SearchInv == SearchTypeOK /\ InBounds /\ NotMissed /\ FoundRight /\ NoneMissed

\* The middle of a range that is not empty lies in it, with at most half of the
\* range to either side.
LEMMA MidInRange ==
    ASSUME NEW m \in Int, NEW n \in Int, m <= n
    PROVE  LET mid == m + (n - m) \div 2 IN
           /\ mid \in m..n
           /\ 2 * (n - mid) <= n - m + 1 /\ 2 * (mid - m) <= n - m + 1
  BY SMT

\* Oddness of an integer, as the proofs use it: 40 is even.
LEMMA TargetEven == ~Odd(Target) /\ Target \in Int
  BY SMT DEF Odd, Target

LEMMA ArraysAreSequences == Arrays \subseteq Seq(Int)
<1> SUFFICES ASSUME NEW a \in Arrays PROVE a \in Seq(Int)
  OBVIOUS
<1>1. PICK n \in 0..MaxLength : a \in [1..n -> Values]
  BY DEF Arrays
<1>2. n \in Nat
  BY SearchAssumption
<1>3. a \in [1..n -> Int]
  <2>1. DOMAIN a = 1..n /\ \A k \in 1..n : a[k] \in Values
    BY <1>1
  <2> QED
    BY <1>1, <2>1, SearchAssumption
<1> QED
  BY <1>2, <1>3, SeqDef

LEMMA SearchStarts == Init => SearchInv
<1> SUFFICES ASSUME Init PROVE SearchInv
  OBVIOUS
<1>1. array \in Seq(Int) /\ Len(array) \in Nat
  BY ArraysAreSequences, LenProperties DEF Init
<1>2. array = <<>> <=> Len(array) = 0
  BY <1>1, EmptySeq
<1>3. SearchTypeOK /\ InBounds /\ FoundRight
  BY <1>1 DEF Init, SearchTypeOK, InBounds, FoundRight, Running, NotFound
<1>4. NotMissed
  BY <1>1 DEF Init, NotMissed
<1>5. NoneMissed
  BY <1>1, <1>2 DEF Init, NoneMissed, Running, NotFound
<1> QED
  BY <1>3, <1>4, <1>5 DEF SearchInv

\* The facts every probe rests on.
LEMMA ProbeInRange ==
    ASSUME SearchInv, Searching
    PROVE  /\ Mid \in lo..hi /\ Mid \in 0..Len(array) - 1
           /\ Mid + 1 \in 1..Len(array) /\ Probe \in Int
           /\ Probe = array[Mid + 1]
<1>1. lo \in Int /\ hi \in Int /\ lo <= hi /\ 0 <= lo /\ hi < Len(array)
      /\ array \in Seq(Int) /\ Len(array) \in Nat
  BY LenProperties DEF SearchInv, SearchTypeOK, InBounds, Searching
<1>2. Mid \in lo..hi
  BY <1>1, MidInRange DEF Mid
<1>3. Mid \in 0..Len(array) - 1 /\ Mid + 1 \in 1..Len(array)
  BY <1>1, <1>2
<1>4. array[Mid + 1] \in Int
  BY <1>1, <1>3, ElementOfSeq
<1> QED
  BY <1>2, <1>3, <1>4 DEF Probe

\* 40 does not lie left of an odd element, or of an even one that is smaller.
LEMMA NotToTheLeft ==
    ASSUME SearchInv, Searching, Guaranteed, Odd(Probe) \/ Probe < Target,
           NEW k \in 1..Len(array), array[k] = Target
    PROVE  Mid < k - 1
<1>1. Mid + 1 \in 1..Len(array) /\ Probe \in Int /\ Probe = array[Mid + 1]
      /\ Mid \in Int /\ k \in Int
  BY ProbeInRange, LenProperties DEF SearchInv, SearchTypeOK
<1>2. CASE k = Mid + 1
  BY <1>1, <1>2, TargetEven
<1>3. CASE k < Mid + 1
  <2>1. \/ Odd(array[k]) /\ ~Odd(array[Mid + 1])
        \/ Odd(array[k]) /\ Odd(array[Mid + 1]) /\ array[k] > array[Mid + 1]
        \/ ~Odd(array[k]) /\ ~Odd(array[Mid + 1]) /\ array[k] < array[Mid + 1]
    BY <1>1, <1>3 DEF Guaranteed
  <2> QED
    BY <1>1, <2>1, TargetEven
<1>4. CASE k > Mid + 1
  BY <1>1, <1>4
<1> QED
  BY <1>1, <1>2, <1>3, <1>4

\* Nor right of an even element that is larger.
LEMMA NotToTheRight ==
    ASSUME SearchInv, Searching, Guaranteed, ~Odd(Probe), Probe > Target,
           NEW k \in 1..Len(array), array[k] = Target
    PROVE  k - 1 < Mid
<1>1. Mid + 1 \in 1..Len(array) /\ Probe \in Int /\ Probe = array[Mid + 1]
      /\ Mid \in Int /\ k \in Int
  BY ProbeInRange, LenProperties DEF SearchInv, SearchTypeOK
<1>2. CASE k = Mid + 1
  BY <1>1, <1>2, TargetEven
<1>3. CASE k > Mid + 1
  <2>1. \/ Odd(array[Mid + 1]) /\ ~Odd(array[k])
        \/ Odd(array[Mid + 1]) /\ Odd(array[k]) /\ array[Mid + 1] > array[k]
        \/ ~Odd(array[Mid + 1]) /\ ~Odd(array[k]) /\ array[Mid + 1] < array[k]
    BY <1>1, <1>3 DEF Guaranteed
  <2> QED
    BY <1>1, <2>1, TargetEven
<1>4. CASE k < Mid + 1
  BY <1>1, <1>4
<1> QED
  BY <1>1, <1>2, <1>3, <1>4

LEMMA GoRightStays == SearchInv /\ GoRight => SearchInv'
<1> SUFFICES ASSUME SearchInv, GoRight PROVE SearchInv'
  OBVIOUS
<1>1. Searching /\ (Odd(Probe) \/ Probe < Target) /\ lo' = Mid + 1
      /\ UNCHANGED <<array, hi, result>>
  BY DEF GoRight
<1>2. Mid \in lo..hi /\ Mid \in 0..Len(array) - 1
  BY <1>1, ProbeInRange
<1>3. lo \in Int /\ hi \in Int /\ array \in Seq(Int) /\ Len(array) \in Nat
      /\ hi < Len(array) /\ result = Running /\ result \in Int
  BY <1>1, LenProperties DEF SearchInv, SearchTypeOK, InBounds, Searching
<1>4. SearchTypeOK' /\ InBounds'
  BY <1>1, <1>2, <1>3 DEF SearchTypeOK, InBounds
<1>5. NotMissed'
  <2> SUFFICES ASSUME Guaranteed', NEW k \in 1..Len(array), array[k] = Target
               PROVE  k - 1 \in Mid + 1 .. hi
    BY <1>1 DEF NotMissed
  <2>1. Guaranteed
    BY <1>1 DEF Guaranteed
  <2>2. k - 1 \in lo..hi
    BY <2>1, <1>3 DEF SearchInv, NotMissed
  <2>3. Mid < k - 1
    BY <2>1, <1>1, NotToTheLeft
  <2> QED
    BY <2>2, <2>3, <1>2, <1>3
<1>6. FoundRight' /\ NoneMissed'
  BY <1>1, <1>3 DEF FoundRight, NoneMissed, Running, NotFound
<1> QED
  BY <1>4, <1>5, <1>6 DEF SearchInv

LEMMA GoLeftStays == SearchInv /\ GoLeft => SearchInv'
<1> SUFFICES ASSUME SearchInv, GoLeft PROVE SearchInv'
  OBVIOUS
<1>1. Searching /\ ~Odd(Probe) /\ Probe > Target /\ hi' = Mid - 1
      /\ UNCHANGED <<array, lo, result>>
  BY DEF GoLeft
<1>2. Mid \in lo..hi /\ Mid \in 0..Len(array) - 1
  BY <1>1, ProbeInRange
<1>3. lo \in Int /\ hi \in Int /\ array \in Seq(Int) /\ Len(array) \in Nat
      /\ 0 <= lo /\ lo <= Len(array) /\ result = Running /\ result \in Int
  BY <1>1, LenProperties DEF SearchInv, SearchTypeOK, InBounds, Searching
<1>4. SearchTypeOK' /\ InBounds'
  BY <1>1, <1>2, <1>3 DEF SearchTypeOK, InBounds
<1>5. NotMissed'
  <2> SUFFICES ASSUME Guaranteed', NEW k \in 1..Len(array), array[k] = Target
               PROVE  k - 1 \in lo .. Mid - 1
    BY <1>1 DEF NotMissed
  <2>1. Guaranteed
    BY <1>1 DEF Guaranteed
  <2>2. k - 1 \in lo..hi
    BY <2>1, <1>3 DEF SearchInv, NotMissed
  <2>3. k - 1 < Mid
    BY <2>1, <1>1, NotToTheRight
  <2> QED
    BY <2>2, <2>3, <1>2, <1>3
<1>6. FoundRight' /\ NoneMissed'
  BY <1>1, <1>3 DEF FoundRight, NoneMissed, Running, NotFound
<1> QED
  BY <1>4, <1>5, <1>6 DEF SearchInv

LEMMA FoundStays == SearchInv /\ Found => SearchInv'
<1> SUFFICES ASSUME SearchInv, Found PROVE SearchInv'
  OBVIOUS
<1>1. Searching /\ Probe = Target /\ result' = Mid /\ UNCHANGED <<array, lo, hi>>
  BY DEF Found
<1>2. Mid \in 0..Len(array) - 1 /\ Probe = array[Mid + 1] /\ Len(array) \in Nat
  BY <1>1, ProbeInRange, LenProperties DEF SearchInv, SearchTypeOK
<1>3. SearchTypeOK' /\ InBounds'
  BY <1>1, <1>2 DEF SearchInv, SearchTypeOK, InBounds
<1>4. NotMissed' /\ FoundRight' /\ NoneMissed'
  BY <1>1, <1>2 DEF NotMissed, FoundRight, NoneMissed, Running, NotFound
<1> QED
  BY <1>3, <1>4 DEF SearchInv

LEMMA ExhaustedStays == SearchInv /\ Exhausted => SearchInv'
<1> SUFFICES ASSUME SearchInv, Exhausted PROVE SearchInv'
  OBVIOUS
<1>1. result = Running /\ lo > hi /\ result' = NotFound /\ UNCHANGED <<array, lo, hi>>
  BY DEF Exhausted
<1>2. SearchTypeOK' /\ InBounds' /\ FoundRight' /\ NotMissed'
  BY <1>1 DEF SearchInv, SearchTypeOK, InBounds, FoundRight, NotMissed, Running, NotFound
<1>3. NoneMissed'
  <2> SUFFICES ASSUME Guaranteed', NEW k \in 1..Len(array), array[k] = Target
               PROVE  FALSE
    BY <1>1 DEF NoneMissed
  <2>1. Guaranteed
    BY <1>1 DEF Guaranteed
  <2>2. k - 1 \in lo..hi
    BY <2>1, <1>1 DEF SearchInv, NotMissed
  <2> QED
    BY <2>2, <1>1 DEF SearchInv, SearchTypeOK
<1> QED
  BY <1>2, <1>3 DEF SearchInv

LEMMA SearchSteps == SearchInv /\ [Next]_vars => SearchInv'
<1> SUFFICES ASSUME SearchInv, [Next]_vars PROVE SearchInv'
  OBVIOUS
<1>1. CASE UNCHANGED vars
  BY <1>1 DEF SearchInv, SearchTypeOK, InBounds, NotMissed, FoundRight, NoneMissed, Guaranteed, vars
<1> QED
  BY <1>1, GoRightStays, GoLeftStays, FoundStays, ExhaustedStays
     DEF Next

\* The variables of the search have its initial values while another program runs.
LEMMA SearchStartsAny == ProgramsInit => SearchInv
<1>1. SearchUnused => SearchInv
  <2> SUFFICES ASSUME SearchUnused PROVE SearchInv
    OBVIOUS
  <2>1. array = <<>> /\ Len(array) = 0 /\ array \in Seq(Int)
    BY DEF SearchUnused
  <2> QED BY <2>1 DEF SearchUnused, SearchInv, SearchTypeOK, InBounds, NotMissed, FoundRight, NoneMissed,
             NotFound, Running
<1> QED BY <1>1, SearchStarts DEF ProgramsInit

LEMMA SearchStepsAny == [ProgramsNext]_allVars => [Next]_vars
  BY DEF ProgramsNext, allVars, searchVars, SearchStep, TreeStep, WriteStep, ReverseStep, StyleStep,
     InfStep, OneStep

\* Every element bsearch40 reads is an element of the array.
THEOREM ProbesInBounds == ProgramsSpec => []InBounds
<1>1. SearchInv => InBounds
  BY DEF SearchInv
<1> QED
  BY <1>1, SearchStartsAny, SearchStepsAny, SearchSteps, PTL DEF ProgramsSpec

\* bsearch40 returns an index of 40, and -1 only for an array without 40.
THEOREM SearchRight == ProgramsSpec => []ResultRight
<1>1. SearchInv => ResultRight
  BY DEF SearchInv, FoundRight, NoneMissed, ResultRight
<1> QED
  BY <1>1, SearchStartsAny, SearchStepsAny, SearchSteps, PTL DEF ProgramsSpec

\* Every probe that does not end the search leaves at most half of the range.
THEOREM SearchHalves == ProgramsSpec => Halves
<1>1. SearchInv /\ [Next]_vars =>
        [result' = Running => 2 * (hi' - lo' + 1) <= hi - lo + 1]_vars
  <2> SUFFICES ASSUME SearchInv, Next, result' = Running
               PROVE  2 * (hi' - lo' + 1) <= hi - lo + 1
    OBVIOUS
  <2>1. lo \in Int /\ hi \in Int
    BY DEF SearchInv, SearchTypeOK
  <2>2. CASE GoRight
    BY <2>1, <2>2, MidInRange DEF GoRight, Searching, Mid
  <2>3. CASE GoLeft
    BY <2>1, <2>3, MidInRange DEF GoLeft, Searching, Mid
  <2>4. CASE Found
    BY <2>4, ProbeInRange DEF Found, Running
  <2>5. CASE Exhausted
    BY <2>5 DEF Exhausted, Running, NotFound
  <2> QED
    BY <2>2, <2>3, <2>4, <2>5 DEF Next
<1> QED
  BY <1>1, SearchStartsAny, SearchStepsAny, SearchSteps, PTL DEF ProgramsSpec, Halves

-----------------------------------------------------------------------------
(* write-char.                                                               *)
WriteTypeOK ==
    /\ input \in Seq(Byte) /\ out \in Seq(Byte) /\ buf \in Seq(Byte) /\ chunk \in Seq(Byte)
    /\ got \in 0..Len(input) /\ cur \in 0..Len(chunk)
    /\ writes \in Seq(Nat)
    /\ pc \in {"loop", "flush", "lastFlush", "flushAgain", "exit"}

\* What went out, what stands in the buffer, and what is left of a read.
Pending(o, b, s, c) == o \o b \o SubSeq(s, c + 1, Len(s))

\* The characters on their way; nothing is in the last read once the loop has
\* ended, and nothing in the buffer once it has been flushed for the end.
OnTheWay ==
    /\ Pending(out, buf, chunk, cur) = SubSeq(input, 1, got)
    /\ pc \in {"lastFlush", "flushAgain", "exit"} => cur = Len(chunk)
    /\ pc \in {"flushAgain", "exit"} => buf = <<>>

\* How full the buffer is, and what was written so far.
Fullness ==
    /\ Len(buf) <= BufferSize
    /\ pc = "loop" => Len(buf) < BufferSize
    /\ pc = "flush" => Len(buf) = BufferSize
    /\ \A k \in 1..Len(writes) :
          /\ writes[k] \in 1..BufferSize
          /\ k < Len(writes) \/ pc \in {"loop", "flush", "lastFlush"} =>
                writes[k] = BufferSize

WriteInv == program = "write-char" => WriteTypeOK /\ OnTheWay /\ Fullness

LEMMA WriteFacts == Inputs \subseteq Seq(Byte) /\ BufferSize \in Nat \ {0} /\ ReadSize \in Nat \ {0}
  BY ProgramsAssumption DEF Write!WriteAssumption

LEMMA WriteStarts == ProgramsInit => WriteInv
<1> SUFFICES ASSUME ProgramsInit, program = "write-char" PROVE WriteTypeOK /\ OnTheWay /\ Fullness
  BY DEF WriteInv
<1>1. Write!Init
  BY DEF ProgramsInit
<1>2. input \in Seq(Byte)
  BY <1>1, WriteFacts DEF Write!Init
<1>3. <<>> \o <<>> \o SubSeq(<<>>, 1, 0) = SubSeq(input, 1, 0)
  BY <1>2
<1> QED BY <1>1, <1>2, <1>3, WriteFacts DEF Write!Init, WriteTypeOK, OnTheWay, Pending, Fullness

\* Facts about sequences: what is left of one that is used up, ...
LEMMA NothingRemains ==
  ASSUME NEW S, NEW s \in Seq(S), NEW c \in Nat, c >= Len(s), NEW t \in Seq(S)
  PROVE  t \o SubSeq(s, c + 1, Len(s)) = t
  OBVIOUS

\* ... the next k elements after the first n, ...
LEMMA ExtendPrefix ==
  ASSUME NEW S, NEW s \in Seq(S), NEW n \in Nat, NEW k \in Nat, n + k <= Len(s)
  PROVE  /\ SubSeq(s, n + 1, n + k) \in Seq(S)
         /\ Len(SubSeq(s, n + 1, n + k)) = k
         /\ SubSeq(s, 1, n) \o SubSeq(s, n + 1, n + k) = SubSeq(s, 1, n + k)
  OBVIOUS

LEMMA WholeSubSeq ==
  ASSUME NEW S, NEW s \in Seq(S)
  PROVE  SubSeq(s, 1, Len(s)) = s
  OBVIOUS

\* ... and an element that moves from the front of what is left to the end of
\* what was taken.
LEMMA MoveOne ==
  ASSUME NEW S, NEW o \in Seq(S), NEW b \in Seq(S), NEW s \in Seq(S),
         NEW c \in Nat, c < Len(s)
  PROVE  /\ s[c + 1] \in S
         /\ Pending(o, Append(b, s[c + 1]), s, c + 1) = Pending(o, b, s, c)
<1> DEFINE e == s[c + 1]
           X == SubSeq(s, c + 1 + 1, Len(s))
<1>1. e \in S /\ <<e>> \in Seq(S) /\ X \in Seq(S) /\ o \o b \in Seq(S)
  OBVIOUS
<1>2. SubSeq(s, c + 1, Len(s)) = <<e>> \o X
  BY SubSeqRecursiveFirst
<1>3. o \o Append(b, e) = o \o b \o <<e>>
  BY <1>1, AppendIsConcat, ConcatAssociative
<1> HIDE DEF e, X
<1>4. o \o b \o <<e>> \o X = o \o b \o (<<e>> \o X)
  BY <1>1, ConcatAssociative
<1> QED BY <1>1, <1>2, <1>3, <1>4 DEF e, X, Pending

LEMMA WriteReads ==
  ASSUME program = "write-char", WriteInv, NEW n \in 1..ReadSize, Write!Read(n)
  PROVE  WriteTypeOK' /\ OnTheWay' /\ Fullness'
<1>1. /\ WriteTypeOK /\ OnTheWay /\ Fullness /\ n \in Nat /\ got \in Nat /\ Len(input) \in Nat
      /\ got + n <= Len(input) /\ cur \in Nat /\ cur >= Len(chunk) /\ pc = "loop"
      /\ out \in Seq(Byte) /\ buf \in Seq(Byte) /\ chunk \in Seq(Byte) /\ input \in Seq(Byte)
  BY WriteFacts DEF WriteInv, WriteTypeOK, Write!Read
<1>2. out \o buf \in Seq(Byte)
  BY <1>1
<1>3. out \o buf = SubSeq(input, 1, got)
  BY <1>1, <1>2, NothingRemains DEF OnTheWay, Pending
<1>4. /\ chunk' \in Seq(Byte) /\ Len(chunk') = n
      /\ SubSeq(input, 1, got) \o chunk' = SubSeq(input, 1, got + n)
  BY <1>1, ExtendPrefix DEF Write!Read
<1>5. SubSeq(chunk', 1, Len(chunk')) = chunk'
  BY <1>4, WholeSubSeq
<1>6. OnTheWay'
  BY <1>1, <1>3, <1>4, <1>5 DEF OnTheWay, Pending, Write!Read
<1>7. WriteTypeOK'
  BY <1>1, <1>4 DEF WriteTypeOK, Write!Read
<1>8. Fullness'
  BY <1>1 DEF Fullness, Write!Read
<1> QED BY <1>6, <1>7, <1>8

LEMMA WriteReadsEnd ==
  ASSUME program = "write-char", WriteInv, Write!ReadEnds
  PROVE  WriteTypeOK' /\ OnTheWay' /\ Fullness'
<1>1. WriteTypeOK /\ OnTheWay /\ Fullness
  BY DEF WriteInv
<1>2. cur = Len(chunk)
  BY <1>1 DEF WriteTypeOK, Write!ReadEnds
<1> QED BY <1>1, <1>2 DEF WriteTypeOK, OnTheWay, Fullness, Write!ReadEnds

LEMMA WriteCharacter ==
  ASSUME program = "write-char", WriteInv, Write!writechar
  PROVE  WriteTypeOK' /\ OnTheWay' /\ Fullness'
<1>1. /\ WriteTypeOK /\ OnTheWay /\ Fullness /\ cur \in Nat /\ cur < Len(chunk) /\ pc = "loop"
      /\ out \in Seq(Byte) /\ buf \in Seq(Byte) /\ chunk \in Seq(Byte)
      /\ Len(chunk) \in Nat /\ BufferSize \in Nat /\ Len(buf) \in Nat
  BY WriteFacts DEF WriteInv, WriteTypeOK, Write!writechar
<1>2. chunk[cur + 1] \in Byte /\ Pending(out, buf', chunk, cur') = Pending(out, buf, chunk, cur)
  BY <1>1, MoveOne DEF Write!writechar
<1>3. buf' \in Seq(Byte) /\ Len(buf') = Len(buf) + 1
  BY <1>1, <1>2 DEF Write!writechar
<1>4. pc' \in {"loop", "flush"}
  BY DEF Write!writechar
<1>5. OnTheWay'
  BY <1>1, <1>2, <1>4 DEF OnTheWay, Write!writechar
<1>6. WriteTypeOK'
  BY <1>1, <1>3, <1>4 DEF WriteTypeOK, Write!writechar
<1>7. Fullness'
  BY <1>1, <1>3 DEF Fullness, Write!writechar
<1> QED BY <1>5, <1>6, <1>7

LEMMA WriteFlushes ==
  ASSUME program = "write-char", WriteInv, Write!flush
  PROVE  WriteTypeOK' /\ OnTheWay' /\ Fullness'
<1>1. /\ WriteTypeOK /\ OnTheWay /\ Fullness /\ pc \in {"flush", "lastFlush", "flushAgain"}
      /\ out \in Seq(Byte) /\ buf \in Seq(Byte) /\ writes \in Seq(Nat)
      /\ BufferSize \in Nat \ {0} /\ Len(buf) \in Nat /\ Len(writes) \in Nat
  BY WriteFacts DEF WriteInv, WriteTypeOK, Write!flush
<1>2. out' = out \o buf /\ buf' = <<>> /\ UNCHANGED <<input, got, chunk, cur>>
  BY DEF Write!flush
<1>3. out' \in Seq(Byte) /\ out' \o buf' = out \o buf /\ buf' \in Seq(Byte) /\ Len(buf') = 0
  BY <1>1, <1>2
<1>4. pc' \in {"loop", "flushAgain", "exit"} /\ (pc' = "loop" <=> pc = "flush")
  BY <1>1 DEF Write!flush
<1>5. OnTheWay'
  BY <1>1, <1>2, <1>3, <1>4 DEF OnTheWay, Pending
<1>6. CASE Len(buf) = 0
  <2>1. writes' = writes /\ pc # "flush"
    BY <1>1, <1>6 DEF Fullness, Write!flush, Write!index
  <2>2. WriteTypeOK'
    BY <1>1, <1>2, <1>3, <1>4, <2>1 DEF WriteTypeOK
  <2>3. Fullness'
    BY <1>1, <1>3, <1>4, <2>1 DEF Fullness
  <2> QED BY <1>5, <2>2, <2>3
<1>7. CASE Len(buf) # 0
  <2>1. writes' = Append(writes, Len(buf))
    BY <1>7 DEF Write!flush, Write!index
  <2>2. /\ writes' \in Seq(Nat) /\ Len(writes') = Len(writes) + 1
        /\ \A k \in 1..Len(writes) : writes'[k] = writes[k]
        /\ writes'[Len(writes) + 1] = Len(buf)
    BY <1>1, <2>1
  <2>3. WriteTypeOK'
    BY <1>1, <1>2, <1>3, <1>4, <2>2 DEF WriteTypeOK
  <2>4. pc \in {"flush", "lastFlush"}
    BY <1>1, <1>7 DEF OnTheWay
  <2>5. ASSUME NEW k \in 1..Len(writes')
        PROVE  /\ writes'[k] \in 1..BufferSize
               /\ k < Len(writes') \/ pc' \in {"loop", "flush", "lastFlush"} =>
                     writes'[k] = BufferSize
    <3>1. CASE k \in 1..Len(writes)
      BY <3>1, <1>1, <2>2, <2>4 DEF Fullness
    <3>2. CASE k = Len(writes) + 1
      BY <3>2, <1>1, <1>4, <1>7, <2>2, <2>4 DEF Fullness
    <3> QED BY <3>1, <3>2, <1>1, <2>2
  <2>6. Fullness'
    BY <1>1, <1>3, <1>4, <2>5 DEF Fullness
  <2> QED BY <1>5, <2>3, <2>6
<1> QED BY <1>6, <1>7

LEMMA WriteSteps == WriteInv /\ [ProgramsNext]_allVars => WriteInv'
<1> SUFFICES ASSUME WriteInv, [ProgramsNext]_allVars, program' = "write-char"
             PROVE  WriteTypeOK' /\ OnTheWay' /\ Fullness'
  BY DEF WriteInv
<1>1. CASE program = "write-char" /\ Write!Next
  BY <1>1, WriteReads, WriteReadsEnd, WriteCharacter, WriteFlushes DEF Write!Next
<1>2. CASE UNCHANGED allVars
  BY <1>2 DEF WriteInv, WriteTypeOK, OnTheWay, Fullness, allVars, writeVars
<1>3. program' = program
  BY DEF allVars, ProgramsNext, SearchStep, TreeStep, WriteStep, ReverseStep, StyleStep, InfStep, OneStep
<1>4. Write!Next \/ UNCHANGED allVars
  BY <1>3 DEF ProgramsNext, SearchStep, TreeStep, WriteStep, ReverseStep, StyleStep, InfStep, OneStep
<1> QED BY <1>1, <1>2, <1>3, <1>4

\* write-char loses, repeats and reorders no character, and writes it in full
\* buffers, none past its end (write-char/solution.c:9-40), whatever the reads
\* of main.c return.
THEOREM CharactersArrive == ProgramsSpec => []WriteRight
<1>1. WriteInv => WriteRight
  <2> SUFFICES ASSUME WriteInv, program = "write-char" PROVE Write!NothingLost /\ Write!FullWrites
    BY DEF WriteRight
  <2>1. WriteTypeOK /\ OnTheWay /\ Fullness
    BY DEF WriteInv
  <2>2. ASSUME pc = "exit" PROVE out = SubSeq(input, 1, got)
    <3>1. cur = Len(chunk) /\ buf = <<>> /\ out \o buf = out
      BY <2>1, <2>2 DEF WriteTypeOK, OnTheWay
    <3>2. out \o buf \o SubSeq(chunk, cur + 1, Len(chunk)) = out \o buf
      BY <2>1, <3>1, NothingRemains DEF WriteTypeOK
    <3> QED BY <2>1, <3>1, <3>2 DEF OnTheWay, Pending
  <2>3. Write!NothingLost
    BY <2>1, <2>2 DEF OnTheWay, Pending, Write!NothingLost
  <2>4. Write!FullWrites
    BY <2>1 DEF WriteTypeOK, Fullness, Write!FullWrites, Write!index
  <2> QED BY <2>3, <2>4
<1> QED BY <1>1, WriteStarts, WriteSteps, PTL DEF ProgramsSpec

-----------------------------------------------------------------------------
(* binary-reverse.                                                           *)
Cells == [1..2 -> Int]

Mirror(p) == Len(original) + 1 - p
Last == Mirror(counter)

Kept(p) == records[p] = original[p]

\* The new value of a record; the record is ready when the value fits and is
\* marshalled, and has moved when it is so in the file, in its new place.
Sum(cells, f) == LET d == Reversal!unmarshall(cells) IN [d EXCEPT !.y = @ + d.x * f]
Ready(record, cells, f) == /\ Reversal!InRange(Sum(cells, f))
                           /\ record = Reversal!marshall(Sum(cells, f))
Moved(p) == Ready(records[Mirror(p)], original[p], factor)

ReverseTypeOK ==
    /\ original \in Seq(Cells) /\ records \in Seq(Cells) /\ Len(records) = Len(original)
    /\ \A p \in 1..Len(original) : original[p] \in (0..XMod-1) \X (0..YMod-1)
    /\ counter \in Nat \ {0} /\ done \in {0, 1}
    /\ step \in {"open", "read", "transform", "writeRight", "writeLeft", "exit"}
    /\ factor \in Int \cup {BadFactor} /\ (step \notin {"open", "exit"} => factor \in Int)
    /\ step # "exit" => status = -1

\* The pairs before the running one have moved and those inside it are kept; of
\* the running pair, what main holds is ready before its place is overwritten.
Pairs ==
    step # "exit" =>
       /\ step = "open" => counter = 1
       /\ \A p \in 1..Len(original) : p < counter \/ p > Last => Moved(p)
       /\ \A p \in 1..Len(original) : counter < p /\ p < Last => Kept(p)
       /\ step \in {"open", "read", "transform"} =>
             done = 0 /\ (counter <= Last => Kept(counter) /\ Kept(Last))
       /\ step = "transform" =>
             /\ counter <= Last /\ left = original[counter]
             /\ counter < Last => right = original[Last]
       /\ step = "writeRight" =>
             /\ counter < Last /\ Kept(Last)
             /\ Ready(left, original[counter], factor) /\ Ready(right, original[Last], factor)
             /\ done = 1 => records[counter][1] = right[1]
       /\ step = "writeLeft" =>
             /\ counter <= Last /\ Ready(left, original[counter], factor)
             /\ counter < Last => Moved(Last)
             /\ done = 1 => records[Last][1] = left[1]

\* Only the record that the counter is at can be missing from the file.
OneAtRisk == factor # BadFactor =>
    \A p \in 1..Len(original) : p = counter \/ Kept(p) \/ Moved(p)

ReverseInv == program = "binary-reverse" =>
                 ReverseTypeOK /\ Pairs /\ OneAtRisk /\ Reversal!SuccessRight

LEMMA ReverseFacts ==
    /\ XMod \in Nat \ {0} /\ YMod \in Nat \ {0} /\ XMod % 2 = 0 /\ YMod % 2 = 0
    /\ RecordFiles \subseteq Seq((0..XMod-1) \X (0..YMod-1))
    /\ Factors \subseteq Int /\ BadFactor \notin Int
  BY ProgramsAssumption DEF Reversal!ReverseAssumption

LEMMA ReverseStarts == ProgramsInit => ReverseInv
<1> SUFFICES ASSUME ProgramsInit, program = "binary-reverse"
             PROVE  ReverseTypeOK /\ Pairs /\ OneAtRisk /\ Reversal!SuccessRight
  BY DEF ReverseInv
<1>1. Reversal!Init
  BY DEF ProgramsInit
<1>2. original \in Seq((0..XMod-1) \X (0..YMod-1)) /\ records = original
  BY <1>1, ReverseFacts DEF Reversal!Init
<1>3. original \in Seq(Cells) /\ Len(original) \in Nat
  <2>1. (0..XMod-1) \X (0..YMod-1) \subseteq Cells
    BY ReverseFacts DEF Cells
  <2> QED BY <1>2, <2>1, SeqMonotonic
<1>4. \A p \in 1..Len(original) : original[p] \in (0..XMod-1) \X (0..YMod-1)
  BY <1>2
<1>5. counter = 1 /\ done = 0 /\ step = "open" /\ status = -1 /\ factor \in Int \cup {BadFactor}
  BY <1>1, ReverseFacts DEF Reversal!Init
<1>6. ReverseTypeOK
  BY <1>2, <1>3, <1>4, <1>5 DEF ReverseTypeOK
<1>7. Pairs /\ OneAtRisk
  BY <1>2, <1>3, <1>5 DEF Pairs, OneAtRisk, Kept, Last, Mirror
<1>8. Reversal!SuccessRight
  BY <1>5 DEF Reversal!SuccessRight
<1> QED BY <1>6, <1>7, <1>8

\* Everything but the record the counter is at is in the file, and that one too
\* before main writes the pair; it is all that main looks at when it stops.
LEMMA PairsAtRisk ==
  ASSUME ReverseTypeOK, Pairs, step # "exit", factor # BadFactor
  PROVE  /\ OneAtRisk
         /\ step \in {"open", "read", "transform"} =>
               \A p \in 1..Len(original) : Kept(p) \/ Moved(p)
<1>1. Len(original) \in Nat /\ counter \in Nat /\ Last \in Int
  BY DEF ReverseTypeOK, Last, Mirror
<1>2. ASSUME NEW p \in 1..Len(original)
      PROVE  /\ p = counter \/ Kept(p) \/ Moved(p)
             /\ step \in {"open", "read", "transform"} => Kept(p) \/ Moved(p)
  <2>1. CASE p < counter \/ p > Last
    BY <2>1 DEF Pairs
  <2>2. CASE counter < p /\ p < Last
    BY <2>2 DEF Pairs
  <2>3. CASE p = counter /\ p <= Last
    BY <2>3 DEF Pairs
  <2>4. CASE p = Last /\ counter < p
    <3>1. CASE step = "writeLeft"
      BY <3>1, <2>4 DEF Pairs
    <3>2. CASE step = "writeRight"
      BY <3>2, <2>4 DEF Pairs
    <3>3. CASE step \in {"open", "read", "transform"}
      BY <3>3, <2>4, <1>1 DEF Pairs
    <3> QED BY <3>1, <3>2, <3>3 DEF ReverseTypeOK
  <2> QED BY <1>1, <2>1, <2>2, <2>3, <2>4
<1> QED BY <1>2 DEF OneAtRisk

\* A cell as a signed number, for an even number of values.
LEMMA SignedRange ==
  ASSUME NEW m \in Nat \ {0}, m % 2 = 0, NEW u \in 0..m-1
  PROVE  Reversal!Signed(u, m) \in -(m \div 2) .. m \div 2 - 1
  BY DEF Reversal!Signed

\* The test before the addition refuses exactly the sums that do not fit, and
\* transform makes the record ready.
LEMMA TransformExact ==
  ASSUME ReverseTypeOK, NEW p \in 1..Len(original), factor \in Int
  PROVE  /\ Reversal!Target(p) = Sum(original[p], factor)
         /\ Reversal!Overflows(Reversal!unmarshall(original[p]))
              <=> ~Reversal!InRange(Sum(original[p], factor))
         /\ Reversal!transform(original[p]) = Reversal!marshall(Sum(original[p], factor))
<1> DEFINE d == Reversal!unmarshall(original[p])
           x == Reversal!Signed(original[p][1], XMod)
           y == Reversal!Signed(original[p][2], YMod)
           delta == x * factor
<1>1. Reversal!Target(p) = Sum(original[p], factor)
  BY DEF Reversal!Target, Sum
<1>2. Reversal!transform(original[p]) = Reversal!marshall(Sum(original[p], factor))
  BY DEF Reversal!transform, Sum
<1>3. original[p][1] \in 0..XMod-1 /\ original[p][2] \in 0..YMod-1
  BY DEF ReverseTypeOK
<1>4. x \in Int /\ y \in Reversal!YMin .. Reversal!YMax
  <2>1. x \in -(XMod \div 2) .. XMod \div 2 - 1
    BY <1>3, SignedRange, ReverseFacts
  <2>3. XMod \div 2 \in Int
    BY ReverseFacts
  <2>2. y \in -(YMod \div 2) .. YMod \div 2 - 1
    BY <1>3, SignedRange, ReverseFacts
  <2> HIDE DEF x, y
  <2> QED BY <2>1, <2>2, <2>3 DEF Reversal!YMin, Reversal!YMax
<1>5. Reversal!YMin \in Int /\ Reversal!YMax \in Int
  BY ReverseFacts DEF Reversal!YMin, Reversal!YMax
<1>6. d = [x |-> x, y |-> y]
  BY DEF Reversal!unmarshall
<1> HIDE DEF x, y
<1>7. delta \in Int
  BY <1>4
<1>8. Reversal!Overflows(d) <=> (delta > 0 /\ y > Reversal!YMax - delta)
                                 \/ (delta < 0 /\ y < Reversal!YMin - delta)
  BY <1>6 DEF Reversal!Overflows
<1>9. Reversal!InRange(Sum(original[p], factor)) <=> y + delta \in Reversal!YMin .. Reversal!YMax
  BY <1>6 DEF Reversal!InRange, Sum
<1>10. Reversal!Overflows(d) <=> ~Reversal!InRange(Sum(original[p], factor))
  <2> HIDE DEF d, delta
  <2> QED BY <1>4, <1>5, <1>7, <1>8, <1>9
<1> QED BY <1>1, <1>2, <1>10

\* marshall yields two cells.
LEMMA ReadyCells ==
  ASSUME NEW record, NEW cells \in (0..XMod-1) \X (0..YMod-1), NEW f \in Int,
         Ready(record, cells, f)
  PROVE  record \in Cells /\ record = [c \in 1..2 |-> record[c]]
<1> DEFINE d == Sum(cells, f)
<1>1. record = <<Reversal!Unsigned(d.x, XMod), Reversal!Unsigned(d.y, YMod)>>
  BY DEF Ready, Reversal!marshall
<1>2. d.x \in Int /\ d.y \in Int
  <2>1. cells[1] \in Int /\ cells[2] \in Int /\ XMod \in Int /\ YMod \in Int
    BY ReverseFacts
  <2>2. Reversal!Signed(cells[1], XMod) \in Int /\ Reversal!Signed(cells[2], YMod) \in Int
    BY <2>1 DEF Reversal!Signed
  <2> QED BY <2>2 DEF Sum, Reversal!unmarshall
<1> HIDE DEF d
<1>3. Reversal!Unsigned(d.x, XMod) \in Int /\ Reversal!Unsigned(d.y, YMod) \in Int
  <2>1. XMod \in Int /\ YMod \in Int
    BY ReverseFacts
  <2> QED BY <1>2, <2>1 DEF Reversal!Unsigned
<1> QED BY <1>1, <1>3 DEF Cells

\* A record is in its new place, or survives, as BinaryReverse says it.
LEMMA MovedMeans ==
  ASSUME ReverseTypeOK, factor \in Int, NEW p \in 1..Len(original)
  PROVE  /\ Moved(p) <=> /\ Reversal!InRange(Reversal!Target(p))
                         /\ records[Reversal!Count + 1 - p] = Reversal!marshall(Reversal!Target(p))
         /\ Reversal!Survives(p) <=> Kept(p) \/ Moved(p)
<1>1. Reversal!Target(p) = Sum(original[p], factor)
  BY TransformExact
<1>2. Reversal!Count = Len(original)
  BY DEF ReverseTypeOK, Reversal!Count
<1> QED BY <1>1, <1>2 DEF Moved, Ready, Mirror, Kept, Reversal!Survives

ReverseStays == ReverseTypeOK /\ Pairs /\ OneAtRisk /\ Reversal!SuccessRight
RunningWell == ReverseTypeOK /\ Pairs /\ step # "exit"

\* While main runs, its types and pairs say all there is.
LEMMA RunningIsWell == RunningWell => ReverseStays
<1> SUFFICES ASSUME RunningWell PROVE ReverseStays
  OBVIOUS
<1>1. OneAtRisk
  BY PairsAtRisk DEF RunningWell, OneAtRisk
<1>2. Reversal!SuccessRight
  BY DEF RunningWell, ReverseTypeOK, Reversal!SuccessRight
<1> QED BY <1>1, <1>2 DEF RunningWell, ReverseStays

\* An exit is right when what its code says is true of the file as it is.
LEMMA ExitStays ==
  ASSUME ReverseStays, NEW code, Reversal!Exit(code), step # "exit",
         code = 0 => factor \in Int /\ \A p \in 1..Len(original) : Moved(p),
         code = 3 => /\ factor \in Int
                     /\ \A p \in 1..Len(original) : Kept(p) \/ Moved(p)
                     /\ \E p \in 1..Len(original) : ~Reversal!InRange(Reversal!Target(p))
  PROVE  ReverseStays'
<1>1. /\ UNCHANGED <<original, ragged, factor, records, counter, left, right, done>>
      /\ status' = code /\ step' = "exit"
  BY DEF Reversal!Exit
<1>2. ReverseTypeOK' /\ Pairs'
  BY <1>1 DEF ReverseStays, ReverseTypeOK, Pairs
<1>3. OneAtRisk'
  BY <1>1 DEF ReverseStays, OneAtRisk, Kept, Moved, Mirror
<1>4. Reversal!Count = Len(original)
  BY DEF ReverseStays, ReverseTypeOK, Reversal!Count
<1>5. /\ code = 0 => \A p \in 1..Reversal!Count :
                        /\ Reversal!InRange(Reversal!Target(p))
                        /\ records[Reversal!Count + 1 - p] = Reversal!marshall(Reversal!Target(p))
      /\ code = 3 => /\ \E p \in 1..Reversal!Count : ~Reversal!InRange(Reversal!Target(p))
                     /\ \A p \in 1..Reversal!Count : Reversal!Survives(p)
  BY <1>4, MovedMeans DEF ReverseStays
<1>6. Reversal!SuccessRight'
  BY <1>1, <1>5 DEF Reversal!SuccessRight, Reversal!Target, Reversal!Count, Reversal!Survives
<1> QED BY <1>2, <1>3, <1>6 DEF ReverseStays

\* pwrite_exact writes the record in one or two parts, and nothing else.
LEMMA PwriteEffect ==
  ASSUME ReverseTypeOK, NEW record \in Cells, NEW position \in 1..Len(original),
         record = [c \in 1..2 |-> record[c]],
         done = 1 => records[position][1] = record[1],
         Reversal!Pwrite(record, position)
  PROVE  /\ records' \in Seq(Cells) /\ Len(records') = Len(records) /\ done' \in {0, 1}
         /\ \A q \in 1..Len(original) : q # position => records'[q] = records[q]
         /\ done' = 0 => records'[position] = record
         /\ done' = 1 => records'[position][1] = record[1]
<1> DEFINE old == records[position]
<1>1. PICK n \in done+1..2 :
        /\ records' = [records EXCEPT ![position] =
                         [c \in 1..2 |-> IF c \in done+1..n THEN record[c] ELSE @[c]]]
        /\ done' = IF n = 2 THEN 0 ELSE n
  BY DEF Reversal!Pwrite
<1> DEFINE new == [c \in 1..2 |-> IF c \in done+1..n THEN record[c] ELSE old[c]]
<1>2. records \in Seq(Cells) /\ position \in 1..Len(records) /\ old \in Cells
  BY DEF ReverseTypeOK
<1>3. new \in Cells
  BY <1>2 DEF Cells
<1>4. done' \in {0, 1} /\ (done' = 0 => n = 2) /\ (done' = 1 => n = 1 /\ done = 0)
  BY <1>1 DEF ReverseTypeOK
<1>5. done' = 0 => new = record
  <2> SUFFICES ASSUME done' = 0 PROVE new = [c \in 1..2 |-> record[c]]
    OBVIOUS
  <2>1. ASSUME NEW c \in 1..2 PROVE (IF c \in done+1..n THEN record[c] ELSE old[c]) = record[c]
    BY <1>4 DEF ReverseTypeOK
  <2> QED BY <2>1
<1>6. done' = 1 => new[1] = record[1]
  BY <1>4
<1> HIDE DEF new
<1>7. records' = [records EXCEPT ![position] = new]
  BY <1>1 DEF new
<1>8. records' \in Seq(Cells) /\ Len(records') = Len(records)
      /\ records'[position] = new
      /\ \A q \in 1..Len(records) : q # position => records'[q] = records[q]
  BY <1>2, <1>3, <1>7
<1> QED BY <1>4, <1>5, <1>6, <1>8 DEF ReverseTypeOK

\* What the steps of a pair start from.
LEMMA PairFacts ==
  ASSUME ReverseStays, step \notin {"open", "exit"}
  PROVE  /\ Len(original) \in Nat /\ counter \in Nat \ {0} /\ Last = Len(original) + 1 - counter
         /\ Reversal!j = Last /\ (Reversal!Middle <=> counter = Last) /\ factor \in Int
         /\ counter <= Last => counter \in 1..Len(original) /\ Last \in 1..Len(original)
  BY DEF ReverseStays, ReverseTypeOK, Last, Mirror, Reversal!j, Reversal!Middle, Reversal!Count

LEMMA OpenStays == ASSUME ReverseStays, Reversal!Open PROVE ReverseStays'
<1>1. RunningWell'
  BY DEF ReverseStays, ReverseTypeOK, Pairs, Kept, Moved, Mirror, Last, RunningWell, Reversal!Open
<1>2. RunningWell' => ReverseStays'
  BY RunningIsWell, PTL
<1> QED BY <1>1, <1>2

LEMMA BadArgumentsStay == ASSUME ReverseStays, Reversal!BadArguments PROVE ReverseStays'
  BY ExitStays DEF Reversal!BadArguments

LEMMA IOErrorStays == ASSUME ReverseStays, Reversal!IOError PROVE ReverseStays'
  BY ExitStays DEF Reversal!IOError

LEMMA ReadPairStays == ASSUME ReverseStays, Reversal!ReadPair PROVE ReverseStays'
<1>1. /\ step = "read" /\ step' = "transform" /\ counter <= Last
      /\ UNCHANGED <<original, ragged, factor, records, counter, done, status>>
      /\ left' = records[counter]
      /\ counter < Last => right' = records[Last]
  BY PairFacts DEF Reversal!ReadPair
<1>2. ReverseTypeOK'
  BY <1>1, PairFacts DEF ReverseStays, ReverseTypeOK
<1>3. Pairs'
  BY <1>1 DEF ReverseStays, Pairs, Kept, Moved, Mirror, Last
<1>4. RunningWell' => ReverseStays'
  BY RunningIsWell, PTL
<1> QED BY <1>1, <1>2, <1>3, <1>4 DEF RunningWell

\* Before the running pair is written every record is still there.
LEMMA OverflowStays == ASSUME ReverseStays, Reversal!Overflow PROVE ReverseStays'
<1>1. step = "transform" /\ Reversal!Exit(3)
  BY DEF Reversal!Overflow
<1>2. /\ counter <= Last /\ left = original[counter] /\ (counter < Last => right = original[Last])
      /\ factor \in Int /\ ReverseTypeOK /\ Pairs
  BY <1>1, PairFacts DEF ReverseStays, Pairs
<1>3. counter \in 1..Len(original) /\ Last \in 1..Len(original) /\ Len(original) \in Nat
  BY <1>1, <1>2, PairFacts
<1>4. \E p \in 1..Len(original) : ~Reversal!InRange(Reversal!Target(p))
  <2>1. CASE Reversal!Overflows(Reversal!unmarshall(left))
    BY <2>1, <1>2, <1>3, TransformExact
  <2>2. CASE ~Reversal!Middle /\ Reversal!Overflows(Reversal!unmarshall(right))
    <3>1. counter < Last
      BY <1>1, <1>2, <1>3, <2>2, PairFacts
    <3> QED BY <2>2, <3>1, <1>2, <1>3, TransformExact
  <2> QED BY <2>1, <2>2 DEF Reversal!Overflow
<1>5. \A p \in 1..Len(original) : Kept(p) \/ Moved(p)
  <2>1. factor # BadFactor
    BY <1>2, ReverseFacts
  <2> QED BY <1>1, <1>2, <2>1, PairsAtRisk
<1> QED BY <1>1, <1>2, <1>4, <1>5, ExitStays

LEMMA TransformStays == ASSUME ReverseStays, Reversal!Transform PROVE ReverseStays'
<1>1. /\ step = "transform" /\ UNCHANGED <<original, ragged, factor, records, counter, done, status>>
      /\ left' = Reversal!transform(left)
      /\ ~Reversal!Overflows(Reversal!unmarshall(left))
  BY DEF Reversal!Transform
<1>2. /\ counter <= Last /\ left = original[counter] /\ (counter < Last => right = original[Last])
      /\ factor \in Int /\ ReverseTypeOK /\ Pairs /\ done = 0
  BY <1>1, PairFacts DEF ReverseStays, Pairs
<1>3. counter \in 1..Len(original) /\ Last \in 1..Len(original) /\ Len(original) \in Nat
  BY <1>1, <1>2, PairFacts
<1>4. Ready(left', original[counter], factor)
  BY <1>1, <1>2, <1>3, TransformExact DEF Ready
<1>5. /\ counter = Last => step' = "writeLeft"
      /\ counter < Last => /\ step' = "writeRight"
                           /\ right' = Reversal!transform(right)
                           /\ ~Reversal!Overflows(Reversal!unmarshall(right))
  BY <1>1, <1>3, PairFacts DEF Reversal!Transform
<1>6. counter < Last => Ready(right', original[Last], factor)
  BY <1>2, <1>3, <1>5, TransformExact DEF Ready
<1>7. step' \in {"writeLeft", "writeRight"}
  BY <1>2, <1>3, <1>5
<1>8. ReverseTypeOK'
  BY <1>1, <1>2, <1>7 DEF ReverseTypeOK
<1>9. Last' = Last
  BY <1>1 DEF Last, Mirror
<1>10. Pairs'
  BY <1>1, <1>2, <1>3, <1>4, <1>5, <1>6, <1>7, <1>9 DEF Pairs, Kept, Moved, Mirror
<1>11. RunningWell' => ReverseStays'
  BY RunningIsWell, PTL
<1> QED BY <1>7, <1>8, <1>10, <1>11 DEF RunningWell

LEMMA CloseStays == ASSUME ReverseStays, Reversal!Close PROVE ReverseStays'
<1>1. step = "read" /\ counter > Last /\ Reversal!Exit(0) /\ factor \in Int
  BY PairFacts DEF Reversal!Close
<1>2. \A p \in 1..Len(original) : Moved(p)
  BY <1>1, PairFacts DEF ReverseStays, Pairs
<1> QED BY <1>1, <1>2, ExitStays

\* Every record but the running pair's has its place away from the pair.
LEMMA PlacesApart ==
  ASSUME ReverseStays, step \notin {"open", "exit"}, counter <= Last,
         NEW p \in 1..Len(original)
  PROVE  /\ Mirror(p) \in 1..Len(original)
         /\ Mirror(p) = counter <=> p = Last
         /\ Mirror(p) = Last <=> p = counter
  BY PairFacts DEF Mirror

LEMMA WriteRightStays == ASSUME ReverseStays, Reversal!WriteRight PROVE ReverseStays'
<1>1. /\ step = "writeRight" /\ Reversal!Pwrite(right, counter)
      /\ UNCHANGED <<original, ragged, factor, counter, left, right, status>>
      /\ step' = IF done' = 0 THEN "writeLeft" ELSE step
  BY DEF Reversal!WriteRight, Reversal!Pwrite
<1>2. /\ counter < Last /\ Kept(Last) /\ factor \in Int /\ ReverseTypeOK /\ Pairs
      /\ Ready(left, original[counter], factor) /\ Ready(right, original[Last], factor)
      /\ done = 1 => records[counter][1] = right[1]
  BY <1>1, PairFacts DEF ReverseStays, Pairs
<1>3. counter \in 1..Len(original) /\ Last \in 1..Len(original) /\ Len(original) \in Nat
  BY <1>1, <1>2, PairFacts
<1>4. right \in Cells /\ right = [c \in 1..2 |-> right[c]]
  BY <1>2, <1>3, ReadyCells DEF ReverseTypeOK
<1>5. /\ records' \in Seq(Cells) /\ Len(records') = Len(records) /\ done' \in {0, 1}
      /\ \A q \in 1..Len(original) : q # counter => records'[q] = records[q]
      /\ done' = 0 => records'[counter] = right
      /\ done' = 1 => records'[counter][1] = right[1]
  BY <1>1, <1>2, <1>3, <1>4, PwriteEffect
<1>6. ReverseTypeOK'
  BY <1>1, <1>2, <1>5 DEF ReverseTypeOK
<1>7. Last' = Last
  BY <1>1 DEF Last, Mirror
<1>8. ASSUME NEW p \in 1..Len(original), p < counter \/ p > Last
      PROVE  Moved(p)'
  <2>1. Mirror(p) \in 1..Len(original) /\ Mirror(p) # counter /\ Moved(p)
    BY <1>1, <1>2, <1>3, <1>8, PlacesApart DEF Pairs
  <2>2. records'[Mirror(p)] = records[Mirror(p)]
    BY <1>5, <2>1
  <2> QED BY <1>1, <2>1, <2>2 DEF Moved, Mirror
<1>9. ASSUME NEW p \in 1..Len(original), counter < p /\ p < Last
      PROVE  Kept(p)'
  <2>1. Kept(p)
    BY <1>1, <1>2, <1>3, <1>9 DEF Pairs
  <2>2. records'[p] = records[p] /\ original' = original
    BY <1>1, <1>2, <1>5, <1>9
  <2> QED BY <2>1, <2>2 DEF Kept
<1>10. Kept(Last)'
  BY <1>1, <1>2, <1>3, <1>5, <1>7 DEF Kept
<1>11. done' = 0 => Moved(Last)'
  <2>1. Mirror(Last) = counter
    BY <1>1, <1>2, <1>3, PlacesApart
  <2> QED BY <1>1, <1>2, <1>5, <1>7, <2>1 DEF Moved, Mirror
<1>12. Pairs'
  BY <1>1, <1>2, <1>3, <1>5, <1>7, <1>8, <1>9, <1>10, <1>11 DEF Pairs, Kept, Moved, Mirror
<1>13. RunningWell' => ReverseStays'
  BY RunningIsWell, PTL
<1> QED BY <1>1, <1>6, <1>12, <1>13 DEF RunningWell

LEMMA WriteLeftStays == ASSUME ReverseStays, Reversal!WriteLeft PROVE ReverseStays'
<1>1. /\ step = "writeLeft" /\ Reversal!Pwrite(left, Last)
      /\ UNCHANGED <<original, ragged, factor, left, right, status>>
      /\ IF done' = 0 THEN step' = "read" /\ counter' = counter + 1
                      ELSE step' = step /\ counter' = counter
  BY PairFacts DEF Reversal!WriteLeft, Reversal!Pwrite
<1>2. /\ counter <= Last /\ factor \in Int /\ ReverseTypeOK /\ Pairs
      /\ Ready(left, original[counter], factor) /\ (counter < Last => Moved(Last))
      /\ done = 1 => records[Last][1] = left[1]
  BY <1>1, PairFacts DEF ReverseStays, Pairs
<1>3. counter \in 1..Len(original) /\ Last \in 1..Len(original) /\ Len(original) \in Nat
      /\ Last = Len(original) + 1 - counter
  BY <1>1, <1>2, PairFacts
<1>4. left \in Cells /\ left = [c \in 1..2 |-> left[c]]
  BY <1>2, <1>3, ReadyCells DEF ReverseTypeOK
<1>5. /\ records' \in Seq(Cells) /\ Len(records') = Len(records) /\ done' \in {0, 1}
      /\ \A q \in 1..Len(original) : q # Last => records'[q] = records[q]
      /\ done' = 0 => records'[Last] = left
      /\ done' = 1 => records'[Last][1] = left[1]
  BY <1>1, <1>2, <1>3, <1>4, PwriteEffect
<1>6. ReverseTypeOK'
  BY <1>1, <1>2, <1>5 DEF ReverseTypeOK
<1>7. ASSUME NEW p \in 1..Len(original), p # counter, Moved(p)
      PROVE  Moved(p)'
  <2>1. Mirror(p) \in 1..Len(original) /\ Mirror(p) # Last
    BY <1>1, <1>2, <1>7, PlacesApart
  <2>2. records'[Mirror(p)] = records[Mirror(p)]
    BY <1>5, <2>1
  <2> QED BY <1>1, <1>7, <2>2 DEF Moved, Mirror
<1>8. ASSUME NEW p \in 1..Len(original), p < counter \/ p > Last
      PROVE  Moved(p)'
  <2>1. p # counter /\ Moved(p)
    BY <1>1, <1>2, <1>3, <1>8 DEF Pairs
  <2> QED BY <1>7, <2>1
<1>9. ASSUME NEW p \in 1..Len(original), counter < p /\ p < Last
      PROVE  Kept(p)'
  <2>1. Kept(p)
    BY <1>1, <1>2, <1>3, <1>9 DEF Pairs
  <2>2. records'[p] = records[p] /\ original' = original
    BY <1>1, <1>2, <1>5, <1>9
  <2> QED BY <2>1, <2>2 DEF Kept
<1>10. ASSUME NEW p \in 1..Len(original), p = Last, counter < Last PROVE Moved(p)'
  BY <1>2, <1>3, <1>7, <1>10
<1>11. ASSUME done' = 1 PROVE Pairs'
  <2>1. Last' = Last /\ counter' = counter /\ step' = "writeLeft"
    BY <1>1, <1>11 DEF Last, Mirror
  <2>2. (counter < Last => Moved(Last))'
    BY <1>1, <2>1, <1>3, <1>10 DEF Moved, Mirror
  <2> QED BY <1>1, <1>2, <1>3, <1>5, <1>8, <1>9, <1>11, <2>1, <2>2 DEF Pairs, Kept, Moved, Mirror
<1>12. ASSUME done' = 0 PROVE Pairs'
  <2>1. Last' = Last - 1 /\ counter' = counter + 1 /\ step' = "read" /\ original' = original
    BY <1>1, <1>3, <1>12 DEF Last, Mirror
  <2>2. ASSUME NEW p \in 1..Len(original), p = counter PROVE Moved(p)'
    <3>1. Mirror(p) = Last
      BY <1>1, <1>2, <2>2, PlacesApart
    <3> QED BY <1>1, <1>2, <1>5, <1>12, <2>2, <3>1 DEF Moved, Mirror
  <2>3. ASSUME NEW p \in 1..Len(original), p < counter + 1 \/ p > Last - 1 PROVE Moved(p)'
    <3>1. p < counter \/ p > Last \/ p = counter \/ (p = Last /\ counter < Last)
      BY <1>2, <1>3, <2>3
    <3> QED BY <3>1, <1>8, <1>10, <2>2
  <2>4. ASSUME NEW p \in 1..Len(original), counter + 1 <= p, p <= Last - 1 PROVE Kept(p)'
    BY <1>3, <1>9, <2>4
  <2>5. (counter <= Last => Kept(counter) /\ Kept(Last))'
    <3>1. counter + 1 <= Last - 1 => counter + 1 \in 1..Len(original) /\ Last - 1 \in 1..Len(original)
      BY <1>3
    <3> QED BY <1>3, <2>1, <2>4, <3>1 DEF Kept
  <2>6. (\A p \in 1..Len(original) : p < counter \/ p > Last => Moved(p))'
    BY <2>1, <2>3
  <2>7. (\A p \in 1..Len(original) : counter < p /\ p < Last => Kept(p))'
    BY <1>3, <2>1, <2>4
  <2> QED BY <1>12, <2>1, <2>5, <2>6, <2>7 DEF Pairs
<1>13. Pairs'
  BY <1>5, <1>11, <1>12
<1>14. RunningWell' => ReverseStays'
  BY RunningIsWell, PTL
<1> QED BY <1>1, <1>6, <1>13, <1>14 DEF RunningWell

LEMMA ReverseSteps == ReverseInv /\ [ProgramsNext]_allVars => ReverseInv'
<1> SUFFICES ASSUME ReverseInv, [ProgramsNext]_allVars, program' = "binary-reverse"
             PROVE  ReverseStays'
  BY DEF ReverseInv, ReverseStays
<1>1. program' = program
  BY DEF allVars, ProgramsNext, SearchStep, TreeStep, WriteStep, ReverseStep, StyleStep, InfStep, OneStep
<1>2. ReverseStays
  BY <1>1 DEF ReverseInv, ReverseStays
<1>3. Reversal!Next \/ UNCHANGED allVars
  BY <1>1 DEF ProgramsNext, SearchStep, TreeStep, WriteStep, ReverseStep, StyleStep, InfStep, OneStep
<1>4. CASE UNCHANGED allVars
  <2>1. UNCHANGED reverseVars
    BY <1>4 DEF allVars
  <2>2. ReverseTypeOK' /\ Pairs' /\ OneAtRisk'
    BY <1>2, <2>1 DEF reverseVars, ReverseStays, ReverseTypeOK, Pairs, OneAtRisk, Kept, Moved,
       Mirror, Last
  <2>3. Reversal!SuccessRight'
    BY <1>2, <2>1 DEF reverseVars, ReverseStays, Reversal!SuccessRight, Reversal!Survives,
       Reversal!Target, Reversal!Count
  <2> QED BY <2>2, <2>3 DEF ReverseStays
<1>5. CASE Reversal!Next
  BY <1>2, <1>5, OpenStays, BadArgumentsStay, IOErrorStays, ReadPairStays, OverflowStays,
     TransformStays, WriteRightStays, WriteLeftStays, CloseStays DEF Reversal!Next
<1> QED BY <1>3, <1>4, <1>5

\* binary-reverse exits with 0 only when every record has its exact sum in the
\* mirrored place, and with 3 only for a sum that does not fit, before its pair is
\* touched (binary-reverse/solution.c:122-134 and 174-208).
THEOREM ReversalRight == ProgramsSpec => []SuccessRight
<1>1. ReverseInv => SuccessRight
  BY DEF ReverseInv, SuccessRight
<1> QED BY <1>1, ReverseStarts, ReverseSteps, PTL DEF ProgramsSpec

\* Wherever it stops, between or within its writes, at most the record the
\* counter is at is missing from the file (solution.c:190-191).
THEOREM ReversalLosesOne == ProgramsSpec => []AtMostOneLost
<1>1. ReverseInv => AtMostOneLost
  <2> SUFFICES ASSUME ReverseInv, program = "binary-reverse", factor # BadFactor,
                      NEW p \in 1..Reversal!Count, NEW q \in 1..Reversal!Count, p # q
               PROVE  Reversal!Survives(p) \/ Reversal!Survives(q)
    BY DEF AtMostOneLost, Reversal!AtMostOneLost
  <2>1. ReverseTypeOK /\ OneAtRisk /\ Reversal!Count = Len(original) /\ factor \in Int
    BY DEF ReverseInv, ReverseTypeOK, Reversal!Count
  <2>2. p # counter \/ q # counter
    OBVIOUS
  <2> QED BY <2>1, <2>2, MovedMeans DEF OneAtRisk
<1> QED BY <1>1, ReverseStarts, ReverseSteps, PTL DEF ProgramsSpec

-----------------------------------------------------------------------------
(* binary-tree.                                                              *)
Node == [key : Int, left_idx : Nat, right_idx : Nat]
Frame == [node : Node, step : {"right", "key", "left", "return"}]

\* A subtree holds its root, ...
LEMMA SubtreeHasRoot ==
  ASSUME NEW f, NEW c \in Tree!Mentioned(f)
  PROVE  c \in Tree!Subtree(f, c)
  BY DEF Tree!Subtree

\* ... the children of its nodes, ...
LEMMA SubtreeHasChildren ==
  ASSUME NEW f, NEW c, NEW n \in Tree!Subtree(f, c) \cap Tree!Indices(f)
  PROVE  Tree!Children(f, n) \subseteq Tree!Subtree(f, c)
<1>1. Tree!Children(f, n) \subseteq Tree!Mentioned(f)
  BY DEF Tree!Mentioned
<1>2. ASSUME NEW S \in SUBSET Tree!Mentioned(f), c \in S, Tree!Closed(f, S)
      PROVE  Tree!Children(f, n) \subseteq S
  <2>1. n \in S
    BY <1>2 DEF Tree!Subtree
  <2> QED BY <1>2, <2>1 DEF Tree!Closed
<1> QED BY <1>1, <1>2 DEF Tree!Subtree

\* ... and so their subtrees, ...
LEMMA SubtreeHasSubtrees ==
  ASSUME NEW f, NEW c, NEW n \in Tree!Subtree(f, c)
  PROVE  Tree!Subtree(f, n) \subseteq Tree!Subtree(f, c)
  BY DEF Tree!Subtree

\* ... and nothing but its root and what is below it.
LEMMA SubtreeSplits ==
  ASSUME NEW f \in Seq(Node), NEW n \in Tree!Mentioned(f) \cap Tree!Indices(f)
  PROVE  Tree!Subtree(f, n) \subseteq {n} \cup Tree!Below(f, f[n + 1].left_idx)
                                         \cup Tree!Below(f, f[n + 1].right_idx)
<1> DEFINE l == f[n + 1].left_idx
           r == f[n + 1].right_idx
           S == {n} \cup Tree!Below(f, l) \cup Tree!Below(f, r)
<1>1. ASSUME NEW idx PROVE Tree!Below(f, idx) \subseteq Tree!Mentioned(f)
  BY DEF Tree!Below, Tree!Subtree
<1>2. S \in SUBSET Tree!Mentioned(f) /\ n \in S
  BY <1>1
<1>3. ASSUME NEW c \in Tree!Children(f, n) PROVE c \in S
  <2>1. c \in Tree!Mentioned(f) /\ c # 0 /\ c \in {l, r}
    BY DEF Tree!Mentioned, Tree!Children
  <2>2. c \in Tree!Below(f, c)
    BY <2>1, SubtreeHasRoot DEF Tree!Below
  <2> QED BY <2>1, <2>2
<1>4. ASSUME NEW idx, NEW m \in Tree!Below(f, idx) \cap Tree!Indices(f)
      PROVE  Tree!Children(f, m) \subseteq Tree!Below(f, idx)
  BY SubtreeHasChildren DEF Tree!Below
<1>5. Tree!Closed(f, S)
  <2> SUFFICES ASSUME NEW m \in S \cap Tree!Indices(f) PROVE Tree!Children(f, m) \subseteq S
    BY DEF Tree!Closed
  <2>1. CASE m = n
    BY <2>1, <1>3
  <2>2. CASE m # n
    BY <2>2, <1>4
  <2> QED BY <2>1, <2>2
<1> HIDE DEF S
<1>6. Tree!Subtree(f, n) \subseteq S
  BY <1>2, <1>5 DEF Tree!Subtree
<1> QED BY <1>6 DEF S

\* The two children of a node and what is below them belong to every subtree the
\* node is in.
LEMMA BelowStays ==
  ASSUME NEW f \in Seq(Node), NEW c, NEW n \in Tree!Subtree(f, c) \cap Tree!Indices(f),
         NEW idx \in {f[n + 1].left_idx, f[n + 1].right_idx}
  PROVE  /\ Tree!Below(f, idx) \subseteq Tree!Subtree(f, c)
         /\ idx # 0 => idx \in Tree!Below(f, idx) /\ idx \in Tree!Subtree(f, c)
<1>1. CASE idx = 0
  BY <1>1 DEF Tree!Below
<1>2. CASE idx # 0
  <2>1. idx \in Tree!Children(f, n)
    BY <1>2 DEF Tree!Children
  <2>2. idx \in Tree!Subtree(f, c)
    BY <2>1, SubtreeHasChildren
  <2>3. idx \in Tree!Mentioned(f)
    BY <2>2 DEF Tree!Subtree
  <2> QED BY <1>2, <2>2, <2>3, SubtreeHasRoot, SubtreeHasSubtrees DEF Tree!Below
<1> QED BY <1>1, <1>2

TreeTypeOK ==
    /\ file \in Seq(Node) /\ Tree!SearchTree(file)
    /\ frames \in Seq(Frame) /\ wanted \in Nat \cup {-1}
    /\ printed \in Seq(Int) /\ \A m \in 1..Len(printed) : printed[m] \in Tree!Keys
    /\ reads \in 0..MinReads /\ exit \in {-1, 0, 1, 134}

\* What is still to be read: the tree under the index that is wanted, and the
\* children a call has not come to.
Coming(f, idx) == IF idx = -1 THEN {} ELSE Tree!Subtree(f, idx)
Unread(f, frame) ==
    (IF frame.step = "right" THEN Tree!Below(f, frame.node.right_idx) ELSE {})
    \cup (IF frame.step = "return" THEN {} ELSE Tree!Below(f, frame.node.left_idx))

\* A call that has not printed its key.
Unprinted(frame) == frame.step \in {"right", "key"}

\* Every node is still to be read, or in a frame with its key to be printed, or
\* its key is out.
Handled ==
    \A n \in Tree!Nodes(file) :
       \/ n \in Coming(file, wanted)
       \/ \E i \in 1..Len(frames) : n \in Unread(file, frames[i])
       \/ n \in Tree!Indices(file) /\ \E i \in 1..Len(frames) :
             Unprinted(frames[i]) /\ frames[i].node = file[n + 1]
       \/ n \in Tree!Indices(file) /\ \E m \in 1..Len(printed) : printed[m] = file[n + 1].key

\* The keys that are out exceed all those to come.
Larger ==
    \A m \in 1..Len(printed) :
       /\ \A n \in Coming(file, wanted) \cap Tree!Indices(file) : printed[m] > file[n + 1].key
       /\ \A i \in 1..Len(frames) :
             /\ Unprinted(frames[i]) => printed[m] > frames[i].node.key
             /\ \A n \in Unread(file, frames[i]) \cap Tree!Indices(file) :
                   printed[m] > file[n + 1].key

Descending == \A m, n \in 1..Len(printed) : m < n => printed[m] > printed[n]

\* The frames hold nodes of the tree; those below another wait for a child, and
\* those waiting for the right child have the ones above in the right subtree.
FrameOf(i, c) == \E k \in Tree!Subtree(file, c) \cap Tree!Indices(file) : file[k + 1] = frames[i].node
Nested ==
    /\ wanted # -1 => wanted \in Tree!Nodes(file)
    /\ \A i \in 1..Len(frames) :
          /\ FrameOf(i, 0)
          /\ i < Len(frames) \/ wanted # -1 => frames[i].step \in {"key", "return"}
          /\ frames[i].step = "key" =>
                LET c == frames[i].node.right_idx IN
                /\ \A l \in i+1..Len(frames) : c # 0 /\ FrameOf(l, c)
                /\ wanted # -1 => c # 0 /\ wanted \in Tree!Subtree(file, c)

\* Every node read took a read.
Counted ==
    reads = MinReads
    \/ Len(printed) + Cardinality({i \in 1..Len(frames) : Unprinted(frames[i])}) <= reads

Finished ==
    exit = 0 \/ (exit = 134 /\ wanted = -1) =>
       frames = <<>> /\ wanted = -1 /\ (exit = 134 => reads < MinReads)

TreeStays == TreeTypeOK /\ Handled /\ Larger /\ Descending /\ Nested /\ Counted /\ Finished
TreeInv == program = "binary-tree" => TreeStays

LEMMA TreeFacts ==
  MinReads \in Nat /\ Files \subseteq Seq(Node) /\ \A f \in Files : Tree!SearchTree(f)
  BY ProgramsAssumption DEF Tree!TreeAssumption, Node

LEMMA TreeStarts == ProgramsInit => TreeInv
<1> SUFFICES ASSUME ProgramsInit, program = "binary-tree" PROVE TreeStays
  BY DEF TreeInv
<1>1. Tree!Init
  BY DEF ProgramsInit
<1>2. /\ file \in Seq(Node) /\ Tree!SearchTree(file)
      /\ frames = <<>> /\ wanted = 0 /\ printed = <<>> /\ reads = 0 /\ exit = -1
      /\ Len(frames) = 0 /\ Len(printed) = 0
  BY <1>1, TreeFacts DEF Tree!Init
<1>3. TreeTypeOK
  BY <1>2, TreeFacts DEF TreeTypeOK
<1>4. Coming(file, wanted) = Tree!Nodes(file)
  BY <1>2 DEF Coming, Tree!Nodes
<1>5. 0 \in Tree!Nodes(file)
  BY SubtreeHasRoot DEF Tree!Nodes, Tree!Mentioned
<1>6. Handled /\ Larger /\ Descending /\ Nested /\ Finished
  BY <1>2, <1>4, <1>5 DEF Handled, Larger, Descending, Nested, Finished
<1>7. Counted
  <2>1. {i \in 1..Len(frames) : Unprinted(frames[i])} = {}
    BY <1>2
  <2> QED BY <1>2, <2>1, FS_EmptySet DEF Counted
<1> QED BY <1>3, <1>6, <1>7 DEF TreeStays

\* The running call goes on to its next step; those below it stay as they are.
LEMMA AdvanceEffect ==
  ASSUME TreeTypeOK, frames # <<>>, NEW s \in {"right", "key", "left", "return"}
  PROVE  /\ Len(frames) \in Nat \ {0} /\ Tree!Top = frames[Len(frames)] /\ Tree!Top \in Frame
         /\ Tree!Advance(s) \in Seq(Frame) /\ Len(Tree!Advance(s)) = Len(frames)
         /\ \A i \in 1..Len(frames) - 1 : Tree!Advance(s)[i] = frames[i]
         /\ Tree!Advance(s)[Len(frames)] = [node |-> Tree!Top.node, step |-> s]
<1>1. frames \in Seq(Frame) /\ Len(frames) \in Nat \ {0}
  BY DEF TreeTypeOK
<1>2. frames[Len(frames)] \in Frame
  BY <1>1
<1> DEFINE new == [frames[Len(frames)] EXCEPT !.step = s]
<1>3. new \in Frame /\ new = [node |-> frames[Len(frames)].node, step |-> s]
  BY <1>2 DEF Frame
<1>4. Tree!Advance(s) = [frames EXCEPT ![Len(frames)] = new]
  BY DEF Tree!Advance
<1> HIDE DEF new
<1> QED BY <1>1, <1>2, <1>3, <1>4 DEF Tree!Top

\* What a call has read and not yet visited.
LEMMA UnreadOf ==
  ASSUME NEW f, NEW node
  PROVE  /\ Unread(f, [node |-> node, step |-> "right"])
              = Tree!Below(f, node.right_idx) \cup Tree!Below(f, node.left_idx)
         /\ Unread(f, [node |-> node, step |-> "key"]) = Tree!Below(f, node.left_idx)
         /\ Unread(f, [node |-> node, step |-> "left"]) = Tree!Below(f, node.left_idx)
         /\ Unread(f, [node |-> node, step |-> "return"]) = {}
  BY DEF Unread

\* The running call's node, and what follows from its place in the tree.
LEMMA TopFacts ==
  ASSUME TreeStays, frames # <<>>, wanted = -1
  PROVE  /\ Tree!Top = [node |-> Tree!Top.node, step |-> Tree!Top.step] /\ Tree!Top \in Frame
         /\ FrameOf(Len(frames), 0) /\ Tree!Top = frames[Len(frames)]
         /\ \A i \in 1..Len(frames) - 1 : frames[i].step \in {"key", "return"}
<1>1. frames \in Seq(Frame) /\ Len(frames) \in Nat \ {0}
  BY DEF TreeStays, TreeTypeOK
<1>2. Tree!Top \in Frame /\ Tree!Top = frames[Len(frames)]
  BY <1>1 DEF Tree!Top
<1>3. Tree!Top = [node |-> Tree!Top.node, step |-> Tree!Top.step]
  BY <1>2 DEF Frame
<1> QED BY <1>1, <1>2, <1>3 DEF TreeStays, Nested

\* Going down to a child, right or left: what the call has not come to loses the
\* child's subtree, which is what is wanted next.
GoesDown(node, idx, next) ==
    /\ exit = -1 /\ wanted = -1 /\ frames # <<>> /\ node = Tree!Top.node
    /\ \/ next = "key" /\ idx = node.right_idx
       \/ next = "return" /\ idx = node.left_idx
    /\ Unprinted(Tree!Top) <=> Unprinted([node |-> node, step |-> next])
    /\ Unread(file, Tree!Top)
          = Tree!Below(file, idx) \cup Unread(file, [node |-> node, step |-> next])

LEMMA DescendStays ==
  ASSUME TreeStays, NEW node, NEW idx, NEW next,
         GoesDown(node, idx, next), Tree!Descend(idx, next)
  PROVE  TreeStays'
<1>0. /\ wanted = -1 /\ frames # <<>> /\ node = Tree!Top.node /\ next \in {"key", "return"}
      /\ idx \in {node.right_idx, node.left_idx} /\ (next = "key" => idx = node.right_idx)
      /\ exit = -1
      /\ Unprinted(Tree!Top) <=> Unprinted([node |-> node, step |-> next])
      /\ Unread(file, Tree!Top)
            = Tree!Below(file, idx) \cup Unread(file, [node |-> node, step |-> next])
  BY DEF GoesDown
<1> DEFINE len == Len(frames)
           top == [node |-> node, step |-> next]
<1>1. /\ frames' = Tree!Advance(next) /\ wanted' = (IF idx = 0 THEN -1 ELSE idx)
      /\ UNCHANGED <<file, printed, reads, exit>>
  BY DEF Tree!Descend
<1>2. /\ len \in Nat \ {0} /\ Tree!Top = frames[len] /\ node \in Node
      /\ frames' \in Seq(Frame) /\ Len(frames') = len
      /\ \A i \in 1..len - 1 : frames'[i] = frames[i]
      /\ frames'[len] = top /\ frames[len].node = node
  BY <1>0, <1>1, AdvanceEffect, TopFacts DEF TreeStays, Frame
<1>3. idx \in Nat /\ wanted' \in Nat \cup {-1}
  BY <1>0, <1>1, <1>2 DEF Node
<1>4. PICK k \in Tree!Subtree(file, 0) \cap Tree!Indices(file) : file[k + 1] = node
  BY <1>0, <1>2, TopFacts DEF FrameOf
<1>5. Coming(file, wanted) = {} /\ Coming(file, wanted') = Tree!Below(file, idx)
  BY <1>0, <1>1, <1>3 DEF Coming, Tree!Below
<1>6. top.node = node /\ top.step = next
  OBVIOUS
<1> HIDE DEF len, top
<1>7. ASSUME NEW i \in 1..len
      PROVE  /\ Unprinted(frames'[i]) <=> Unprinted(frames[i])
             /\ frames'[i].node = frames[i].node
             /\ Unread(file, frames'[i]) \subseteq Unread(file, frames[i])
             /\ Unread(file, frames[i]) \subseteq Unread(file, frames'[i]) \cup Coming(file, wanted')
  <2>1. CASE i = len
    BY <1>0, <2>1, <1>2, <1>5, <1>6 DEF top
  <2>2. CASE i # len
    BY <2>2, <1>2
  <2> QED BY <2>1, <2>2
<1>8. Coming(file, wanted') \subseteq Unread(file, frames[len])
  BY <1>0, <1>2, <1>5 DEF top
<1>9. TreeTypeOK'
  BY <1>0, <1>1, <1>2, <1>3 DEF TreeStays, TreeTypeOK, Tree!Keys
<1>10. Handled'
  <2> SUFFICES ASSUME NEW n \in Tree!Nodes(file)
               PROVE  \/ n \in Coming(file, wanted')
                      \/ \E i \in 1..len : n \in Unread(file, frames'[i])
                      \/ n \in Tree!Indices(file) /\ \E i \in 1..len :
                            Unprinted(frames'[i]) /\ frames'[i].node = file[n + 1]
                      \/ n \in Tree!Indices(file) /\ \E m \in 1..Len(printed) :
                            printed[m] = file[n + 1].key
    BY <1>1, <1>2 DEF Handled
  <2>1. \/ \E i \in 1..len : n \in Unread(file, frames[i])
        \/ n \in Tree!Indices(file) /\ \E i \in 1..len :
              Unprinted(frames[i]) /\ frames[i].node = file[n + 1]
        \/ n \in Tree!Indices(file) /\ \E m \in 1..Len(printed) : printed[m] = file[n + 1].key
    BY <1>5 DEF TreeStays, Handled, len
  <2> QED BY <2>1, <1>7
<1>11. Larger'
  <2>1. Larger
    BY DEF TreeStays
  <2> SUFFICES ASSUME NEW m \in 1..Len(printed)
               PROVE  /\ \A n \in Coming(file, wanted') \cap Tree!Indices(file) :
                            printed[m] > file[n + 1].key
                      /\ \A i \in 1..len :
                            /\ Unprinted(frames'[i]) => printed[m] > frames'[i].node.key
                            /\ \A n \in Unread(file, frames'[i]) \cap Tree!Indices(file) :
                                  printed[m] > file[n + 1].key
    BY <1>1, <1>2 DEF Larger
  <2>2. ASSUME NEW i \in 1..len
        PROVE  /\ Unprinted(frames[i]) => printed[m] > frames[i].node.key
               /\ \A n \in Unread(file, frames[i]) \cap Tree!Indices(file) :
                     printed[m] > file[n + 1].key
    BY <2>1 DEF Larger, len
  <2>3. len \in 1..len
    BY <1>2
  <2> QED BY <2>2, <2>3, <1>7, <1>8
<1>12. Descending' /\ Finished'
  BY <1>0, <1>1 DEF TreeStays, Descending, Finished
<1>13. Counted'
  <2>1. {i \in 1..Len(frames') : Unprinted(frames'[i])} = {i \in 1..Len(frames) : Unprinted(frames[i])}
    BY <1>2, <1>7 DEF len
  <2> QED BY <1>1, <2>1 DEF TreeStays, Counted
<1>14. Nested'
  <2>1. file \in Seq(Node)
    BY DEF TreeStays, TreeTypeOK
  <2>2. ASSUME NEW c, NEW j \in Tree!Subtree(file, c) \cap Tree!Indices(file), file[j + 1] = node,
               wanted' # -1
        PROVE  wanted' \in Tree!Subtree(file, c)
    BY <2>1, <2>2, <1>0, <1>1, BelowStays
  <2>3. wanted' # -1 => wanted' \in Tree!Nodes(file)
    BY <2>2, <1>4 DEF Tree!Nodes
  <2>4. ASSUME NEW i \in 1..len, NEW c, FrameOf(i, c) PROVE FrameOf(i, c)'
    BY <2>4, <1>1, <1>7 DEF FrameOf
  <2>5. ASSUME NEW i \in 1..len
        PROVE  /\ FrameOf(i, 0)'
               /\ i < len \/ wanted' # -1 => frames'[i].step \in {"key", "return"}
    <3>1. FrameOf(i, 0) /\ (i < len => frames[i].step \in {"key", "return"})
      BY DEF TreeStays, Nested, len
    <3>2. FrameOf(i, 0)'
      BY <3>1, <2>4
    <3>3. i < len => frames'[i].step \in {"key", "return"}
      BY <3>1, <1>2
    <3>4. i = len => frames'[i].step \in {"key", "return"}
      BY <1>0, <1>2, <1>6
    <3> QED BY <3>2, <3>3, <3>4, <1>2
  <2>6. ASSUME NEW i \in 1..len, NEW c, frames'[i].step = "key", c = frames'[i].node.right_idx
        PROVE  /\ \A l \in i+1..len : c # 0 /\ FrameOf(l, c)'
               /\ wanted' # -1 => c # 0 /\ wanted' \in Tree!Subtree(file, c)
    <3>1. CASE i = len
      <4>1. c = node.right_idx /\ idx = c
        BY <1>0, <3>1, <2>6, <1>2, <1>6
      <4>2. wanted' # -1 => c # 0 /\ wanted' \in Tree!Below(file, c)
        BY <4>1, <2>1, <1>1, <1>4, BelowStays
      <4> QED BY <3>1, <4>2, <1>2 DEF Tree!Below
    <3>2. CASE i # len
      <4>1. i < len /\ len \in i+1..len /\ frames[i].step = "key" /\ c = frames[i].node.right_idx
        BY <3>2, <2>6, <1>2
      <4>2. \A l \in i+1..len : c # 0 /\ FrameOf(l, c)
        BY <4>1 DEF TreeStays, Nested, len
      <4>3. \A l \in i+1..len : FrameOf(l, c)'
        BY <4>2, <2>4, <1>2
      <4>4. PICK j \in Tree!Subtree(file, c) \cap Tree!Indices(file) : file[j + 1] = node
        BY <4>1, <4>2, <1>2 DEF FrameOf
      <4> QED BY <4>1, <4>2, <4>3, <4>4, <2>2
    <3> QED BY <3>1, <3>2
  <2> QED BY <2>3, <2>5, <2>6, <1>1, <1>2 DEF Nested
<1> QED BY <1>9, <1>10, <1>11, <1>12, <1>13, <1>14 DEF TreeStays

LEMMA TreeRightStays == ASSUME TreeStays, Tree!GoRight PROVE TreeStays'
<1>1. /\ frames # <<>> /\ wanted = -1 /\ Tree!Top.step = "right" /\ exit = -1
      /\ Tree!Descend(Tree!Top.node.right_idx, "key")
  BY DEF Tree!GoRight, Tree!Running
<1>2. PICK node : node = Tree!Top.node
  OBVIOUS
<1>3. Tree!Top = [node |-> node, step |-> "right"]
  BY <1>1, <1>2, TopFacts
<1>4. /\ Unread(file, Tree!Top)
            = Tree!Below(file, node.right_idx) \cup Unread(file, [node |-> node, step |-> "key"])
      /\ Unprinted(Tree!Top) /\ Unprinted([node |-> node, step |-> "key"])
  <2>1. Unread(file, [node |-> node, step |-> "right"])
           = Tree!Below(file, node.right_idx) \cup Unread(file, [node |-> node, step |-> "key"])
    BY UnreadOf
  <2> QED BY <2>1, <1>3 DEF Unprinted
<1>5. GoesDown(node, node.right_idx, "key") /\ Tree!Descend(node.right_idx, "key")
  BY <1>1, <1>2, <1>4 DEF GoesDown
<1> QED BY <1>5, DescendStays

LEMMA TreeLeftStays == ASSUME TreeStays, Tree!GoLeft PROVE TreeStays'
<1>1. /\ frames # <<>> /\ wanted = -1 /\ Tree!Top.step = "left" /\ exit = -1
      /\ Tree!Descend(Tree!Top.node.left_idx, "return")
  BY DEF Tree!GoLeft, Tree!Running
<1>2. PICK node : node = Tree!Top.node
  OBVIOUS
<1>3. Tree!Top = [node |-> node, step |-> "left"]
  BY <1>1, <1>2, TopFacts
<1>4. /\ Unread(file, Tree!Top)
            = Tree!Below(file, node.left_idx) \cup Unread(file, [node |-> node, step |-> "return"])
      /\ ~Unprinted(Tree!Top) /\ ~Unprinted([node |-> node, step |-> "return"])
  <2>1. Unread(file, [node |-> node, step |-> "left"])
           = Tree!Below(file, node.left_idx) \cup Unread(file, [node |-> node, step |-> "return"])
    BY UnreadOf
  <2> QED BY <2>1, <1>3 DEF Unprinted
<1>5. GoesDown(node, node.left_idx, "return") /\ Tree!Descend(node.left_idx, "return")
  BY <1>1, <1>2, <1>4 DEF GoesDown
<1> QED BY <1>5, DescendStays

LEMMA KeysAreInts == ASSUME TreeTypeOK, NEW n \in Tree!Indices(file) PROVE file[n + 1] \in Node /\ file[n + 1].key \in Int
<1>1. file \in Seq(Node) /\ n + 1 \in 1..Len(file)
  BY DEF TreeTypeOK, Tree!Indices
<1>2. file[n + 1] \in Node
  BY <1>1
<1> QED BY <1>2 DEF Node

\* The key the running call prints exceeds what its left child has and, the calls
\* below it waiting for a right subtree it is in, what those have yet to print.
LEMMA TopKeyIsLargest ==
  ASSUME TreeStays, frames # <<>>, wanted = -1, NEW node, node = Tree!Top.node,
         Tree!Top.step = "key"
  PROVE  /\ \A n \in Tree!Below(file, node.left_idx) \cap Tree!Indices(file) :
               node.key > file[n + 1].key
         /\ \A i \in 1..Len(frames) - 1 :
               /\ Unprinted(frames[i]) => node.key > frames[i].node.key
               /\ \A n \in Unread(file, frames[i]) \cap Tree!Indices(file) :
                     node.key > file[n + 1].key
<1>1. /\ file \in Seq(Node) /\ Tree!SearchTree(file) /\ frames \in Seq(Frame)
      /\ Len(frames) \in Nat \ {0} /\ TreeTypeOK
  BY DEF TreeStays, TreeTypeOK
<1>2. FrameOf(Len(frames), 0) /\ frames[Len(frames)].node = node
  BY TopFacts
<1>3. PICK k \in Tree!Subtree(file, 0) \cap Tree!Indices(file) : file[k + 1] = node
  BY <1>2 DEF FrameOf
<1>4. ASSUME NEW n \in Tree!Below(file, node.left_idx) \cap Tree!Indices(file)
      PROVE  node.key > file[n + 1].key
  <2>1. file[n + 1].key < file[k + 1].key
    BY <1>1, <1>3 DEF Tree!SearchTree, Tree!Nodes
  <2> QED BY <2>1, <1>1, <1>3, KeysAreInts
<1>5. ASSUME NEW i \in 1..Len(frames) - 1
      PROVE  /\ Unprinted(frames[i]) => node.key > frames[i].node.key
             /\ \A n \in Unread(file, frames[i]) \cap Tree!Indices(file) :
                   node.key > file[n + 1].key
  <2> DEFINE parent == frames[i].node
  <2>1. /\ frames[i] = [node |-> parent, step |-> frames[i].step]
        /\ frames[i].step \in {"key", "return"}
        /\ i \in 1..Len(frames) /\ Len(frames) \in i+1..Len(frames)
    <3>1. i \in 1..Len(frames) /\ Len(frames) \in i+1..Len(frames)
      BY <1>1
    <3>2. frames[i] \in Frame
      BY <3>1, <1>1
    <3> QED BY <3>1, <3>2, TopFacts DEF Frame
  <2>2. FrameOf(i, 0)
    BY <2>1 DEF TreeStays, Nested
  <2>3. PICK e \in Tree!Subtree(file, 0) \cap Tree!Indices(file) : file[e + 1] = parent
    BY <2>2 DEF FrameOf
  <2> HIDE DEF parent
  <2>4. CASE frames[i].step = "return"
    <3>1. Unread(file, frames[i]) = {}
      BY <2>1, <2>4, UnreadOf
    <3> QED BY <3>1, <2>4 DEF Unprinted
  <2>5. CASE frames[i].step = "key"
    <3>1. parent.right_idx # 0 /\ FrameOf(Len(frames), parent.right_idx)
      BY <2>1, <2>5 DEF TreeStays, Nested, parent
    <3>2. PICK d \in Tree!Subtree(file, parent.right_idx) \cap Tree!Indices(file) : file[d + 1] = node
      BY <3>1, <1>2 DEF FrameOf
    <3>3. file[d + 1].key > file[e + 1].key
      BY <3>1, <3>2, <2>3, <1>1 DEF Tree!SearchTree, Tree!Nodes, Tree!Below
    <3>4. Unread(file, frames[i]) = Tree!Below(file, parent.left_idx)
      BY <2>1, <2>5, UnreadOf
    <3>5. ASSUME NEW n \in Tree!Below(file, parent.left_idx) \cap Tree!Indices(file)
          PROVE  file[n + 1].key < file[e + 1].key
      BY <2>3, <1>1 DEF Tree!SearchTree, Tree!Nodes
    <3>6. node.key \in Int /\ parent.key \in Int /\ node.key > parent.key
      BY <3>2, <3>3, <2>3, <1>1, KeysAreInts
    <3>7. ASSUME NEW n \in Unread(file, frames[i]) \cap Tree!Indices(file)
          PROVE  node.key > file[n + 1].key
      <4>1. file[n + 1].key < parent.key
        BY <3>4, <3>5, <2>3
      <4> QED BY <4>1, <3>6, <1>1, KeysAreInts
    <3> QED BY <3>6, <3>7 DEF parent
  <2> QED BY <2>1, <2>4, <2>5
<1> QED BY <1>4, <1>5

LEMMA PrintKeyStays == ASSUME TreeStays, Tree!PrintKey PROVE TreeStays'
<1> DEFINE len == Len(frames)
           out1 == Len(printed)
<1>1. /\ frames # <<>> /\ wanted = -1 /\ Tree!Top.step = "key" /\ exit = -1
      /\ printed' = Append(printed, Tree!Top.node.key) /\ frames' = Tree!Advance("left")
      /\ UNCHANGED <<file, wanted, reads, exit>>
  BY DEF Tree!PrintKey, Tree!Running
<1>2. PICK node : node = Tree!Top.node
  OBVIOUS
<1>3. /\ len \in Nat \ {0} /\ frames[len] = [node |-> node, step |-> "key"] /\ node \in Node
      /\ frames' \in Seq(Frame) /\ Len(frames') = len
      /\ \A i \in 1..len - 1 : frames'[i] = frames[i]
      /\ frames'[len] = [node |-> node, step |-> "left"] /\ frames[len].node = node
  BY <1>1, <1>2, AdvanceEffect, TopFacts DEF TreeStays, Frame
<1>4. /\ printed' \in Seq(Int) /\ out1 \in Nat /\ Len(printed') = out1 + 1
      /\ \A m \in 1..out1 : printed'[m] = printed[m]
      /\ printed'[out1 + 1] = node.key
  <2>1. printed \in Seq(Int) /\ node.key \in Int
    BY <1>3 DEF TreeStays, TreeTypeOK, Node
  <2> QED BY <2>1, <1>1, <1>2
<1>5. PICK k \in Tree!Subtree(file, 0) \cap Tree!Indices(file) : file[k + 1] = node
  BY <1>1, <1>3, TopFacts DEF FrameOf
<1>6. /\ Unread(file, frames[len]) = Tree!Below(file, node.left_idx)
      /\ Unread(file, frames'[len]) = Tree!Below(file, node.left_idx)
  <2>1. /\ frames[len] = [node |-> node, step |-> "key"]
        /\ frames'[len] = [node |-> node, step |-> "left"]
    BY <1>3
  <2> QED BY <2>1, UnreadOf, Zenon
<1>7. Unprinted(frames[len]) /\ ~Unprinted(frames'[len])
  BY <1>3 DEF Unprinted
<1>8. /\ \A n \in Tree!Below(file, node.left_idx) \cap Tree!Indices(file) :
            node.key > file[n + 1].key
      /\ \A i \in 1..len - 1 :
            /\ Unprinted(frames[i]) => node.key > frames[i].node.key
            /\ \A n \in Unread(file, frames[i]) \cap Tree!Indices(file) :
                  node.key > file[n + 1].key
  BY <1>1, <1>2, TopKeyIsLargest
<1> HIDE DEF len, out1
<1>9. ASSUME NEW i \in 1..len
      PROVE  /\ Unread(file, frames'[i]) = Unread(file, frames[i])
             /\ frames'[i].node = frames[i].node
             /\ Unprinted(frames'[i]) <=> Unprinted(frames[i]) /\ i # len
  BY <1>3, <1>6, <1>7
<1>10. TreeTypeOK'
  <2>1. node.key \in Tree!Keys
    BY <1>5 DEF Tree!Keys, Tree!Nodes
  <2>2. Tree!Keys' = Tree!Keys
    BY <1>1 DEF Tree!Keys
  <2>3. \A m \in 1..out1 + 1 : printed'[m] \in Tree!Keys
    <3>1. \A m \in 1..out1 : printed[m] \in Tree!Keys
      BY DEF TreeStays, TreeTypeOK, out1
    <3>2. \A m \in 1..out1 + 1 : m \in 1..out1 \/ m = out1 + 1
      BY <1>4
    <3> QED BY <3>1, <3>2, <2>1, <1>4
  <2>4. file' \in Seq(Node) /\ Tree!SearchTree(file')
    BY <1>1 DEF TreeStays, TreeTypeOK
  <2>5. wanted' \in Nat \cup {-1} /\ reads' \in 0..MinReads /\ exit' \in {-1, 0, 1, 134}
    BY <1>1 DEF TreeStays, TreeTypeOK
  <2> QED BY <2>2, <2>3, <2>4, <2>5, <1>3, <1>4 DEF TreeTypeOK
<1>11. Handled'
  <2> SUFFICES ASSUME NEW n \in Tree!Nodes(file)
               PROVE  \/ n \in Coming(file, wanted)
                      \/ \E i \in 1..len : n \in Unread(file, frames'[i])
                      \/ n \in Tree!Indices(file) /\ \E i \in 1..len :
                            Unprinted(frames'[i]) /\ frames'[i].node = file[n + 1]
                      \/ n \in Tree!Indices(file) /\ \E m \in 1..out1 + 1 :
                            printed'[m] = file[n + 1].key
    BY <1>1, <1>3, <1>4 DEF Handled
  <2>1. \/ n \in Coming(file, wanted)
        \/ \E i \in 1..len : n \in Unread(file, frames[i])
        \/ n \in Tree!Indices(file) /\ \E i \in 1..len :
              Unprinted(frames[i]) /\ frames[i].node = file[n + 1]
        \/ n \in Tree!Indices(file) /\ \E m \in 1..out1 : printed[m] = file[n + 1].key
    BY DEF TreeStays, Handled, len, out1
  <2> QED BY <2>1, <1>9, <1>4, <1>3
<1>12. Larger'
  <2> SUFFICES ASSUME NEW m \in 1..out1 + 1
               PROVE  /\ \A n \in Coming(file, wanted) \cap Tree!Indices(file) :
                            printed'[m] > file[n + 1].key
                      /\ \A i \in 1..len :
                            /\ Unprinted(frames'[i]) => printed'[m] > frames'[i].node.key
                            /\ \A n \in Unread(file, frames'[i]) \cap Tree!Indices(file) :
                                  printed'[m] > file[n + 1].key
    BY <1>1, <1>3, <1>4 DEF Larger
  <2>1. Coming(file, wanted) = {}
    BY <1>1 DEF Coming
  <2>2. CASE m \in 1..out1
    <3>1. \A i \in 1..len :
             /\ Unprinted(frames[i]) => printed[m] > frames[i].node.key
             /\ \A n \in Unread(file, frames[i]) \cap Tree!Indices(file) :
                   printed[m] > file[n + 1].key
      BY <2>2 DEF TreeStays, Larger, len, out1
    <3> QED BY <3>1, <2>1, <2>2, <1>4, <1>9
  <2>3. CASE m = out1 + 1
    <3>1. printed'[m] = node.key
      BY <2>3, <1>4
    <3>2. ASSUME NEW i \in 1..len
          PROVE  /\ Unprinted(frames'[i]) => node.key > frames'[i].node.key
                 /\ \A n \in Unread(file, frames'[i]) \cap Tree!Indices(file) :
                       node.key > file[n + 1].key
      <4>1. CASE i = len
        BY <4>1, <1>6, <1>7, <1>8
      <4>2. CASE i # len
        BY <4>2, <1>3, <1>8
      <4> QED BY <4>1, <4>2
    <3> QED BY <3>1, <3>2, <2>1
  <2> QED BY <2>2, <2>3, <1>4
<1>13. Descending'
  <2> SUFFICES ASSUME NEW m \in 1..out1 + 1, NEW n \in 1..out1 + 1, m < n
               PROVE  printed'[m] > printed'[n]
    BY <1>4 DEF Descending
  <2>1. m \in 1..out1
    BY <1>4
  <2>2. CASE n \in 1..out1
    BY <2>1, <2>2, <1>4 DEF TreeStays, Descending, out1
  <2>3. CASE n = out1 + 1
    <3>1. printed[m] > frames[len].node.key
      BY <2>1, <1>3, <1>7 DEF TreeStays, Larger, out1, len
    <3> QED BY <3>1, <2>1, <2>3, <1>3, <1>4
  <2> QED BY <2>2, <2>3, <1>4
<1>14. Nested'
  <2>1. ASSUME NEW i \in 1..len, NEW c, FrameOf(i, c) PROVE FrameOf(i, c)'
    BY <2>1, <1>1, <1>9 DEF FrameOf
  <2>2. ASSUME NEW i \in 1..len
        PROVE  FrameOf(i, 0)' /\ (i < len => frames'[i].step \in {"key", "return"})
    <3>1. FrameOf(i, 0) /\ (i < len => frames[i].step \in {"key", "return"})
      BY DEF TreeStays, Nested, len
    <3> QED BY <3>1, <2>1, <1>3
  <2>3. ASSUME NEW i \in 1..len, frames'[i].step = "key",
               NEW l \in i+1..len, NEW c, c = frames'[i].node.right_idx
        PROVE  c # 0 /\ FrameOf(l, c)'
    <3>1. i # len /\ frames'[i] = frames[i]
      BY <2>3, <1>3
    <3>2. c # 0 /\ FrameOf(l, c)
      BY <2>3, <3>1 DEF TreeStays, Nested, len
    <3>3. l \in 1..len
      BY <1>3
    <3> QED BY <3>2, <3>3, <2>1
  <2> QED BY <2>2, <2>3, <1>1, <1>3 DEF Nested
<1>15. Counted'
  <2> DEFINE S == {i \in 1..len : Unprinted(frames[i])}
             T == {i \in 1..len : Unprinted(frames'[i])}
  <2>1. T = S \ {len} /\ len \in S
    BY <1>9, <1>7, <1>3
  <2>2. IsFiniteSet(S)
    <3>1. IsFiniteSet(1..len)
      BY <1>3, FS_Interval
    <3> QED BY <3>1, FS_Subset
  <2>3. reads = MinReads \/ out1 + Cardinality(S) <= reads
    BY DEF TreeStays, Counted, len, out1
  <2> HIDE DEF S, T
  <2>4. Cardinality(T) = Cardinality(S) - 1 /\ Cardinality(S) \in Nat
    BY <2>1, <2>2, FS_RemoveElement, FS_CardinalityType
  <2>5. reads = MinReads \/ (out1 + 1) + Cardinality(T) <= reads
    BY <2>3, <2>4, <1>4
  <2> QED BY <2>5, <1>1, <1>3, <1>4 DEF Counted, T
<1>16. Finished'
  BY <1>1 DEF Finished
<1> QED BY <1>10, <1>11, <1>12, <1>13, <1>14, <1>15, <1>16 DEF TreeStays

LEMMA ReadNodeStays == ASSUME TreeStays, Tree!ReadNode PROVE TreeStays'
<1> DEFINE len == Len(frames)
<1>1. /\ exit = -1 /\ wanted \in Nat /\ wanted < Len(file) /\ wanted' = -1
      /\ UNCHANGED <<file, printed, exit>>
  BY DEF Tree!ReadNode, TreeStays, TreeTypeOK
<1>2. PICK w, node : w = wanted /\ node = file[wanted + 1]
  OBVIOUS
<1> DEFINE new == [node |-> node, step |-> "right"]
<1>3. PICK calls \in 1..2 : reads' = IF reads + calls < MinReads THEN reads + calls ELSE MinReads
  BY DEF Tree!ReadNode, Tree!Count
<1>4. reads \in 0..MinReads /\ reads' \in 0..MinReads /\ (reads' = MinReads \/ reads' >= reads + 1)
  BY <1>3, TreeFacts DEF TreeStays, TreeTypeOK
<1>5. /\ file \in Seq(Node) /\ w \in Tree!Indices(file) /\ file[w + 1] = node /\ node \in Node
  <2>1. file \in Seq(Node)
    BY DEF TreeStays, TreeTypeOK
  <2> QED BY <2>1, <1>1, <1>2 DEF Tree!Indices
<1>6. w \in Tree!Subtree(file, 0) /\ w \in Tree!Mentioned(file) /\ w \in Tree!Subtree(file, w)
  <2>1. w \in Tree!Nodes(file)
    BY <1>1, <1>2 DEF TreeStays, Nested
  <2>2. w \in Tree!Mentioned(file)
    BY <2>1 DEF Tree!Nodes, Tree!Subtree
  <2> QED BY <2>1, <2>2, SubtreeHasRoot DEF Tree!Nodes
<1>7. /\ len \in Nat /\ frames' \in Seq(Frame) /\ Len(frames') = len + 1
      /\ \A i \in 1..len : frames'[i] = frames[i]
      /\ frames'[len + 1] = new
  <2>1. frames \in Seq(Frame) /\ new \in Frame
    BY <1>5 DEF TreeStays, TreeTypeOK, Frame
  <2>2. frames' = Append(frames, new)
    BY <1>2 DEF Tree!ReadNode
  <2> HIDE DEF new
  <2> QED BY <2>1, <2>2
<1>8. Coming(file, wanted) = Tree!Subtree(file, w) /\ Coming(file, wanted') = {}
  BY <1>1, <1>2 DEF Coming
<1>9. /\ Unread(file, new) = Tree!Below(file, node.right_idx) \cup Tree!Below(file, node.left_idx)
      /\ new.node = node /\ new.step = "right" /\ Unprinted(new)
  BY UnreadOf DEF Unprinted
<1> HIDE DEF len, new
<1>10. Tree!Subtree(file, w) \subseteq {w} \cup Unread(file, new)
  <2>1. w \in Tree!Mentioned(file) \cap Tree!Indices(file)
    BY <1>5, <1>6
  <2>2. Tree!Subtree(file, w) \subseteq {w} \cup Tree!Below(file, file[w + 1].left_idx)
                                         \cup Tree!Below(file, file[w + 1].right_idx)
    BY <2>1, <1>5, SubtreeSplits
  <2> QED BY <2>2, <1>5, <1>9
<1>11. Unread(file, new) \subseteq Tree!Subtree(file, w)
  <2>1. w \in Tree!Subtree(file, w) \cap Tree!Indices(file)
    BY <1>5, <1>6
  <2>2. ASSUME NEW idx \in {file[w + 1].left_idx, file[w + 1].right_idx}
        PROVE  Tree!Below(file, idx) \subseteq Tree!Subtree(file, w)
    BY <2>1, <1>5, BelowStays
  <2> QED BY <2>2, <1>5, <1>9
<1>12. TreeTypeOK'
  <2>1. Tree!Keys' = Tree!Keys
    BY <1>1 DEF Tree!Keys
  <2> QED BY <2>1, <1>1, <1>4, <1>7 DEF TreeStays, TreeTypeOK
<1>13. Handled'
  <2> SUFFICES ASSUME NEW n \in Tree!Nodes(file)
               PROVE  \/ \E i \in 1..len + 1 : n \in Unread(file, frames'[i])
                      \/ n \in Tree!Indices(file) /\ \E i \in 1..len + 1 :
                            Unprinted(frames'[i]) /\ frames'[i].node = file[n + 1]
                      \/ n \in Tree!Indices(file) /\ \E m \in 1..Len(printed) :
                            printed[m] = file[n + 1].key
    BY <1>1, <1>7 DEF Handled
  <2>1. \/ n \in Coming(file, wanted)
        \/ \E i \in 1..len : n \in Unread(file, frames[i])
        \/ n \in Tree!Indices(file) /\ \E i \in 1..len :
              Unprinted(frames[i]) /\ frames[i].node = file[n + 1]
        \/ n \in Tree!Indices(file) /\ \E m \in 1..Len(printed) : printed[m] = file[n + 1].key
    BY DEF TreeStays, Handled, len
  <2>2. CASE n \in Coming(file, wanted)
    <3>1. n = w \/ n \in Unread(file, new)
      BY <2>2, <1>8, <1>10
    <3>2. len + 1 \in 1..len + 1
      BY <1>7
    <3> QED BY <3>1, <3>2, <1>5, <1>7, <1>9
  <2>3. CASE n \notin Coming(file, wanted)
    <3>1. \A i \in 1..len : i \in 1..len + 1
      BY <1>7
    <3> QED BY <2>1, <2>3, <3>1, <1>7
  <2> QED BY <2>2, <2>3
<1>14. Larger'
  <2> SUFFICES ASSUME NEW m \in 1..Len(printed), NEW i \in 1..len + 1
               PROVE  /\ Unprinted(frames'[i]) => printed[m] > frames'[i].node.key
                      /\ \A n \in Unread(file, frames'[i]) \cap Tree!Indices(file) :
                            printed[m] > file[n + 1].key
    BY <1>1, <1>7, <1>8 DEF Larger
  <2>1. CASE i \in 1..len
    BY <2>1, <1>7 DEF TreeStays, Larger, len
  <2>2. CASE i = len + 1
    <3>1. \A n \in Tree!Subtree(file, w) \cap Tree!Indices(file) : printed[m] > file[n + 1].key
      BY <1>8 DEF TreeStays, Larger
    <3>2. printed[m] > node.key
      BY <3>1, <1>5, <1>6
    <3>3. frames'[i] = new
      BY <2>2, <1>7
    <3> QED BY <3>1, <3>2, <3>3, <1>9, <1>11
  <2> QED BY <2>1, <2>2, <1>7
<1>15. Descending' /\ Finished'
  BY <1>1 DEF TreeStays, Descending, Finished
<1>16. Nested'
  <2>1. ASSUME NEW i \in 1..len, NEW c, FrameOf(i, c) PROVE FrameOf(i, c)'
    BY <2>1, <1>1, <1>7 DEF FrameOf
  <2>2. ASSUME NEW c, w \in Tree!Subtree(file, c), NEW last, last = len + 1
        PROVE  FrameOf(last, c)'
    BY <2>2, <1>1, <1>5, <1>7, <1>9 DEF FrameOf
  <2>3. ASSUME NEW i \in 1..len
        PROVE  FrameOf(i, 0)' /\ frames'[i].step \in {"key", "return"}
    <3>1. FrameOf(i, 0) /\ frames[i].step \in {"key", "return"}
      BY <1>1 DEF TreeStays, Nested, len
    <3> QED BY <3>1, <2>1, <1>7
  <2>4. ASSUME NEW i \in 1..len, frames'[i].step = "key",
               NEW l \in i+1..len + 1, NEW c, c = frames'[i].node.right_idx
        PROVE  c # 0 /\ FrameOf(l, c)'
    <3>1. frames'[i] = frames[i]
      BY <1>7
    <3>2. c # 0 /\ w \in Tree!Subtree(file, c)
      BY <2>4, <3>1, <1>1, <1>2 DEF TreeStays, Nested, len
    <3>3. CASE l = len + 1
      BY <3>2, <3>3, <2>2
    <3>4. CASE l # len + 1
      <4>1. l \in i+1..len /\ l \in 1..len
        BY <3>4, <1>7
      <4>2. FrameOf(l, c)
        BY <4>1, <3>1, <2>4 DEF TreeStays, Nested, len
      <4> QED BY <4>1, <4>2, <3>2, <2>1
    <3> QED BY <3>3, <3>4
  <2>5. ASSUME NEW last, last = len + 1
        PROVE  FrameOf(last, 0)' /\ frames'[last].step = "right"
    BY <2>2, <2>5, <1>6, <1>7, <1>9
  <2>6. \A i \in 1..len + 1 : i \in 1..len \/ i = len + 1
    BY <1>7
  <2> QED BY <2>3, <2>4, <2>5, <2>6, <1>1, <1>7 DEF Nested
<1>17. Counted'
  <2> DEFINE S == {i \in 1..len : Unprinted(frames[i])}
             T == {i \in 1..len + 1 : Unprinted(frames'[i])}
  <2>1. T = S \cup {len + 1} /\ len + 1 \notin S
    BY <1>7, <1>9
  <2>2. IsFiniteSet(S)
    <3>1. IsFiniteSet(1..len)
      BY <1>7, FS_Interval
    <3> QED BY <3>1, FS_Subset
  <2>3. reads = MinReads \/ Len(printed) + Cardinality(S) <= reads
    BY DEF TreeStays, Counted, len
  <2> HIDE DEF S, T
  <2>4. Cardinality(T) = Cardinality(S) + 1 /\ Cardinality(S) \in Nat
    BY <2>1, <2>2, FS_AddElement, FS_CardinalityType
  <2>5. Len(printed) \in Nat
    BY DEF TreeStays, TreeTypeOK
  <2>6. reads' = MinReads \/ Len(printed) + Cardinality(T) <= reads'
    BY <2>3, <2>4, <2>5, <1>4
  <2> QED BY <2>6, <1>1, <1>7 DEF Counted, T
<1> QED BY <1>12, <1>13, <1>14, <1>15, <1>16, <1>17 DEF TreeStays

LEMMA ReadFailsStays == ASSUME TreeStays, Tree!ReadFails PROVE TreeStays'
<1>1. /\ exit = -1 /\ wanted >= 0 /\ exit' \in {1, 134}
      /\ UNCHANGED <<file, frames, wanted, printed>>
  BY DEF Tree!ReadFails, Tree!AtExit, Tree!Aborted
<1>2. PICK calls \in 0..2 : reads' = IF reads + calls < MinReads THEN reads + calls ELSE MinReads
  BY DEF Tree!ReadFails, Tree!Count
<1>3. reads \in 0..MinReads /\ reads' \in 0..MinReads /\ (reads' = MinReads \/ reads' >= reads)
  BY <1>2, TreeFacts DEF TreeStays, TreeTypeOK
<1>4. TreeTypeOK'
  <2>1. Tree!Keys' = Tree!Keys
    BY <1>1 DEF Tree!Keys
  <2> QED BY <2>1, <1>1, <1>3 DEF TreeStays, TreeTypeOK
<1>5. Handled' /\ Larger' /\ Descending'
  BY <1>1 DEF TreeStays, Handled, Larger, Descending
<1>6. Nested'
  BY <1>1 DEF TreeStays, Nested, FrameOf
<1>7. Finished'
  BY <1>1 DEF Finished
<1>8. Counted'
  <2> DEFINE S == {i \in 1..Len(frames) : Unprinted(frames[i])}
  <2>1. S' = S
    BY <1>1
  <2>2. IsFiniteSet(S)
    <3>1. IsFiniteSet(1..Len(frames))
      BY FS_Interval DEF TreeStays, TreeTypeOK
    <3> QED BY <3>1, FS_Subset
  <2>3. reads = MinReads \/ Len(printed) + Cardinality(S) <= reads
    BY DEF TreeStays, Counted
  <2>4. Len(printed) \in Nat
    BY DEF TreeStays, TreeTypeOK
  <2> HIDE DEF S
  <2>5. Cardinality(S) \in Nat
    BY <2>2, FS_CardinalityType
  <2>6. reads' = MinReads \/ Len(printed) + Cardinality(S) <= reads'
    BY <2>3, <2>4, <2>5, <1>3
  <2> QED BY <2>6, <2>1, <1>1 DEF Counted, S
<1> QED BY <1>4, <1>5, <1>6, <1>7, <1>8 DEF TreeStays

LEMMA ReturnStays == ASSUME TreeStays, Tree!Return PROVE TreeStays'
<1> DEFINE len == Len(frames)
<1>1. /\ exit = -1 /\ wanted = -1 /\ frames # <<>> /\ Tree!Top.step = "return"
      /\ frames' = SubSeq(frames, 1, Len(frames) - 1)
      /\ UNCHANGED <<file, wanted, printed, reads>>
  BY DEF Tree!Return, Tree!Running
<1>2. /\ len \in Nat \ {0} /\ frames[len].step = "return" /\ Unread(file, frames[len]) = {}
      /\ ~Unprinted(frames[len])
  <2>1. frames \in Seq(Frame) /\ len \in Nat \ {0}
    BY <1>1 DEF TreeStays, TreeTypeOK
  <2>2. Tree!Top = frames[len] /\ Tree!Top = [node |-> Tree!Top.node, step |-> "return"]
    BY <1>1, TopFacts
  <2> QED BY <1>1, <2>1, <2>2, UnreadOf DEF Unprinted
<1>3. /\ frames' \in Seq(Frame) /\ Len(frames') = len - 1
      /\ \A i \in 1..len - 1 : frames'[i] = frames[i]
  <2>1. frames \in Seq(Frame)
    BY DEF TreeStays, TreeTypeOK
  <2> DEFINE last == len - 1
  <2>2. last \in Nat /\ \A i \in 1..last : frames[i] \in Frame
    BY <2>1, <1>2
  <2>3. frames' = SubSeq(frames, 1, last)
    BY <1>1
  <2> HIDE DEF last
  <2>4. /\ SubSeq(frames, 1, last) \in Seq(Frame) /\ Len(SubSeq(frames, 1, last)) = last
        /\ \A i \in 1..last : SubSeq(frames, 1, last)[i] = frames[i]
    BY <2>2, SubSeqProperties
  <2> QED BY <2>3, <2>4 DEF last
<1>4. \/ len = 1 /\ (exit' = 0 \/ (exit' = 134 /\ reads < MinReads))
      \/ len # 1 /\ exit' = -1
  <2>1. CASE len = 1
    <3>1. exit' = IF reads' \in 1..MinReads - 1 THEN 134 ELSE 0
      BY <2>1 DEF Tree!Return, Tree!AtExit, Tree!Aborted
    <3>2. reads' \in 0..MinReads /\ reads' = reads
      BY <1>1 DEF TreeStays, TreeTypeOK
    <3> QED BY <2>1, <3>1, <3>2, TreeFacts
  <2>2. CASE len # 1
    BY <2>2, <1>1 DEF Tree!Return
  <2> QED BY <2>1, <2>2
<1> HIDE DEF len
<1>5. \A i \in 1..len : i \in 1..len - 1 \/ i = len
  BY <1>2
<1>6. TreeTypeOK'
  <2>1. Tree!Keys' = Tree!Keys
    BY <1>1 DEF Tree!Keys
  <2> QED BY <2>1, <1>1, <1>3, <1>4 DEF TreeStays, TreeTypeOK
<1>7. Handled'
  <2> SUFFICES ASSUME NEW n \in Tree!Nodes(file)
               PROVE  \/ n \in Coming(file, wanted)
                      \/ \E i \in 1..len - 1 : n \in Unread(file, frames'[i])
                      \/ n \in Tree!Indices(file) /\ \E i \in 1..len - 1 :
                            Unprinted(frames'[i]) /\ frames'[i].node = file[n + 1]
                      \/ n \in Tree!Indices(file) /\ \E m \in 1..Len(printed) :
                            printed[m] = file[n + 1].key
    BY <1>1, <1>3 DEF Handled
  <2>1. \/ n \in Coming(file, wanted)
        \/ \E i \in 1..len : n \in Unread(file, frames[i])
        \/ n \in Tree!Indices(file) /\ \E i \in 1..len :
              Unprinted(frames[i]) /\ frames[i].node = file[n + 1]
        \/ n \in Tree!Indices(file) /\ \E m \in 1..Len(printed) : printed[m] = file[n + 1].key
    BY DEF TreeStays, Handled, len
  <2> QED BY <2>1, <1>2, <1>3, <1>5
<1>8. Larger'
  <2> SUFFICES ASSUME NEW m \in 1..Len(printed)
               PROVE  /\ \A n \in Coming(file, wanted) \cap Tree!Indices(file) :
                            printed[m] > file[n + 1].key
                      /\ \A i \in 1..len - 1 :
                            /\ Unprinted(frames'[i]) => printed[m] > frames'[i].node.key
                            /\ \A n \in Unread(file, frames'[i]) \cap Tree!Indices(file) :
                                  printed[m] > file[n + 1].key
    BY <1>1, <1>3 DEF Larger
  <2>1. \A n \in Coming(file, wanted) \cap Tree!Indices(file) : printed[m] > file[n + 1].key
    BY DEF TreeStays, Larger
  <2>2. \A i \in 1..len :
           /\ Unprinted(frames[i]) => printed[m] > frames[i].node.key
           /\ \A n \in Unread(file, frames[i]) \cap Tree!Indices(file) : printed[m] > file[n + 1].key
    BY DEF TreeStays, Larger, len
  <2>3. \A i \in 1..len - 1 : i \in 1..len
    BY <1>2
  <2> QED BY <2>1, <2>2, <2>3, <1>3
<1>9. Descending'
  BY <1>1 DEF TreeStays, Descending
<1>10. Finished'
  <2>1. len = 1 => frames' = <<>>
    BY <1>3
  <2> QED BY <2>1, <1>1, <1>4 DEF Finished
<1>11. Nested'
  <2>1. ASSUME NEW i \in 1..len - 1, NEW c, FrameOf(i, c) PROVE FrameOf(i, c)'
    BY <2>1, <1>1, <1>3 DEF FrameOf
  <2>2. ASSUME NEW i \in 1..len - 1
        PROVE  FrameOf(i, 0)' /\ frames'[i].step \in {"key", "return"}
    <3>1. i \in 1..len /\ i < len
      BY <1>2
    <3>2. FrameOf(i, 0) /\ frames[i].step \in {"key", "return"}
      BY <3>1 DEF TreeStays, Nested, len
    <3> QED BY <3>2, <2>1, <1>3
  <2>3. ASSUME NEW i \in 1..len - 1, frames'[i].step = "key",
               NEW l \in i+1..len - 1, NEW c, c = frames'[i].node.right_idx
        PROVE  c # 0 /\ FrameOf(l, c)'
    <3>1. i \in 1..len /\ l \in i+1..len /\ l \in 1..len - 1 /\ frames'[i] = frames[i]
      BY <1>2, <1>3
    <3>2. c # 0 /\ FrameOf(l, c)
      BY <2>3, <3>1 DEF TreeStays, Nested, len
    <3> QED BY <3>1, <3>2, <2>1
  <2> QED BY <2>2, <2>3, <1>1, <1>3 DEF Nested
<1>12. Counted'
  <2>1. {i \in 1..Len(frames') : Unprinted(frames'[i])} = {i \in 1..Len(frames) : Unprinted(frames[i])}
    BY <1>2, <1>3, <1>5 DEF len
  <2> QED BY <2>1, <1>1 DEF TreeStays, Counted
<1> QED BY <1>6, <1>7, <1>8, <1>9, <1>10, <1>11, <1>12 DEF TreeStays

LEMMA TreeSteps == TreeInv /\ [ProgramsNext]_allVars => TreeInv'
<1> SUFFICES ASSUME TreeInv, [ProgramsNext]_allVars, program' = "binary-tree"
             PROVE  TreeStays'
  BY DEF TreeInv
<1>1. program' = program
  BY DEF allVars, ProgramsNext, SearchStep, TreeStep, WriteStep, ReverseStep, StyleStep, InfStep, OneStep
<1>2. TreeStays
  BY <1>1 DEF TreeInv
<1>3. Tree!Next \/ UNCHANGED allVars
  BY <1>1 DEF ProgramsNext, SearchStep, TreeStep, WriteStep, ReverseStep, StyleStep, InfStep, OneStep
<1>4. CASE UNCHANGED allVars
  <2>1. UNCHANGED treeVars
    BY <1>4 DEF allVars
  <2>2. TreeTypeOK' /\ Handled' /\ Larger' /\ Descending' /\ Finished'
    BY <1>2, <2>1 DEF treeVars, TreeStays, TreeTypeOK, Tree!Keys, Handled, Larger, Descending, Finished
  <2>3. Nested' /\ Counted'
    BY <1>2, <2>1 DEF treeVars, TreeStays, Nested, FrameOf, Counted
  <2> QED BY <2>2, <2>3 DEF TreeStays
<1>5. CASE Tree!Next
  BY <1>2, <1>5, ReadNodeStays, ReadFailsStays, TreeRightStays, PrintKeyStays, TreeLeftStays,
     ReturnStays DEF Tree!Next
<1> QED BY <1>3, <1>4, <1>5

\* binary-tree prints the keys of its tree in descending order and skips none,
\* whatever read fails; it exits with 0, or is aborted after its last call, only
\* when it has printed them all, and aborted then only when they were fewer than
\* the reads it is asked for (binary-tree/solution.c, wrappers.c).
THEOREM TreePrinted == ProgramsSpec => []TreeRight
<1>1. TreeInv => TreeRight
  <2> SUFFICES ASSUME TreeStays PROVE Tree!TreeRight
    BY DEF TreeInv, TreeRight
  <2>1. TreeTypeOK /\ Handled /\ Larger /\ Descending /\ Counted /\ Finished
    BY DEF TreeStays
  <2>2. printed \in Seq(Int) /\ DOMAIN printed = 1..Len(printed) /\ Len(printed) \in Nat
    BY <2>1 DEF TreeTypeOK
  <2>3. ASSUME NEW x \in Tree!Nodes(file) \cap Tree!Indices(file), NEW m \in 1..Len(printed),
               file[x + 1].key > printed[m]
        PROVE  \E n \in 1..m : printed[n] = file[x + 1].key
    <3>1. file[x + 1].key \in Int /\ printed[m] \in Int
      BY <2>1, <2>2, KeysAreInts
    <3>2. ~(printed[m] > file[x + 1].key)
      BY <2>3, <3>1
    <3>3. x \notin Coming(file, wanted)
      BY <2>1, <3>2 DEF Larger
    <3>4. ASSUME NEW i \in 1..Len(frames)
          PROVE  /\ x \notin Unread(file, frames[i])
                 /\ ~(Unprinted(frames[i]) /\ frames[i].node = file[x + 1])
      BY <2>1, <3>2 DEF Larger
    <3>5. PICK n \in 1..Len(printed) : printed[n] = file[x + 1].key
      BY <2>1, <3>3, <3>4 DEF Handled
    <3>6. CASE n > m
      BY <3>2, <3>5, <3>6, <2>1 DEF Descending
    <3>7. CASE n <= m
      BY <3>5, <3>7, <2>2
    <3> QED BY <3>5, <3>6, <3>7, <2>2
  <2>4. Tree!PrintedInOrder
    BY <2>1, <2>2, <2>3 DEF Tree!PrintedInOrder, Descending, Tree!Keys
  <2>5. ASSUME exit = 0 \/ (exit = 134 /\ wanted = -1)
        PROVE  Tree!Nodes(file) \subseteq Tree!Indices(file) /\ Tree!Printed = Tree!Keys
    <3>1. frames = <<>> /\ wanted = -1 /\ 1..Len(frames) = {}
      BY <2>1, <2>5 DEF Finished
    <3>2. ASSUME NEW n \in Tree!Nodes(file)
          PROVE  n \in Tree!Indices(file) /\ \E m \in 1..Len(printed) : printed[m] = file[n + 1].key
      BY <2>1, <3>1 DEF Handled, Coming
    <3>3. Tree!Printed \subseteq Tree!Keys
      <4>1. \A m \in 1..Len(printed) : printed[m] \in Tree!Keys
        BY <2>1 DEF TreeTypeOK
      <4> QED BY <4>1, <2>2 DEF Tree!Printed
    <3>4. Tree!Keys \subseteq Tree!Printed
      BY <2>2, <3>2 DEF Tree!Printed, Tree!Keys
    <3> QED BY <3>2, <3>3, <3>4
  <2>6. ASSUME exit = 134 /\ wanted = -1 PROVE Len(printed) < MinReads
    <3>1. frames = <<>> /\ reads < MinReads /\ reads \in 0..MinReads
      BY <2>1, <2>6 DEF Finished, TreeTypeOK
    <3>2. {i \in 1..Len(frames) : Unprinted(frames[i])} = {}
      BY <3>1
    <3>3. Len(printed) + Cardinality({}) <= reads
      BY <2>1, <3>1, <3>2, TreeFacts DEF Counted
    <3> QED BY <3>1, <3>3, <2>2, FS_EmptySet, TreeFacts
  <2> QED BY <2>4, <2>5, <2>6 DEF Tree!TreeRight, Tree!Aborted
<1> QED BY <1>1, TreeStarts, TreeSteps, PTL DEF ProgramsSpec

-----------------------------------------------------------------------------
(* The style check.                                                          *)
ClangState == [out : Int, err : Int, outPipe : Int, errPipe : Int, runs : BOOLEAN]

StyleTypeOK ==
    /\ sources \in Seq(Style!File)
    /\ rules \in [skip : BOOLEAN, supported : BOOLEAN,
                  banned : SUBSET STRING, required : SUBSET STRING]
    /\ checked \in 0..Len(sources)
    /\ check \in {"next", "format", "ask", "fix", "search", "passed", "raised"}
    /\ clang \in ClangState

\* What the loop owes the files it is done with.
FilesDone ==
    /\ \A n \in 1..checked :
          /\ sources[n].kind # "ignored" => sources[n].text \cap rules.banned = {}
          /\ sources[n].kind = "source" /\ ~rules.skip => n \in tidy
    /\ found \subseteq rules.required
    /\ \A r \in rules.required :
          r \in found <=> \E n \in 1..checked : sources[n].kind # "ignored" /\ r \in sources[n].text

\* The file at hand: why it is formatted, asked about, fixed or searched.
FileAtHand ==
    /\ check \in {"format", "ask", "fix", "search"} =>
          checked < Len(sources) /\ sources[checked + 1].kind # "ignored"
    /\ check \in {"format", "ask", "fix"} => sources[checked + 1].kind = "source" /\ ~rules.skip
    /\ check = "ask" => ~sources[checked + 1].works \/ checked + 1 \notin tidy
    /\ check = "fix" /\ sources[checked + 1].works /\ ~clang.runs => checked + 1 \in tidy
    /\ check = "search" /\ sources[checked + 1].kind = "source" /\ ~rules.skip => checked + 1 \in tidy

\* Only a file that clang-format has just rewritten is not its owner's.
OwnersKept ==
    /\ check \in {"next", "format", "ask", "search", "passed"} => foreign = {}
    /\ check = "fix" => foreign \subseteq {checked + 1}
    /\ check = "fix" /\ sources[checked + 1].works =>
          IF clang.runs THEN checked + 1 \notin tidy ELSE foreign # {}

StyleStays == StyleTypeOK /\ FilesDone /\ FileAtHand /\ OwnersKept /\ Style!StyleRight
StyleInv == program = "style-check" => StyleStays

LEMMA StyleStarts == ProgramsInit => StyleInv
<1> SUFFICES ASSUME ProgramsInit, program = "style-check" PROVE StyleStays
  BY DEF StyleInv
<1>1. Style!Init
  BY DEF ProgramsInit
<1>2. sources \in Seq(Style!File) /\ Len(sources) \in Nat
  BY <1>1, ProgramsAssumption DEF Style!Init, Style!StyleAssumption
<1>3. StyleTypeOK
  BY <1>1, <1>2, ProgramsAssumption
     DEF StyleTypeOK, ClangState, Style!Init, Style!StyleAssumption, Style!NoClang
<1>4. FilesDone
  BY <1>1 DEF FilesDone, Style!Init
<1>5. FileAtHand /\ OwnersKept /\ Style!StyleRight
  BY <1>1 DEF FileAtHand, OwnersKept, Style!StyleRight, Style!Init
<1> QED BY <1>3, <1>4, <1>5 DEF StyleStays

\* A file that is there has a record.
LEMMA FileFacts ==
  ASSUME StyleTypeOK, checked < Len(sources)
  PROVE  /\ Style!this = checked + 1 /\ Style!this \in 1..Len(sources)
         /\ Style!file = sources[checked + 1]
         /\ sources[checked + 1] \in Style!File
         /\ DOMAIN sources = 1..Len(sources) /\ Len(sources) \in Nat /\ checked \in Nat
  BY DEF StyleTypeOK, Style!this, Style!file

\* The steps of clang-format and its wrapper.
LEMMA FormatterStays ==
  ASSUME StyleStays, Style!ClangFormat \/ Style!Wrapper
  PROVE  StyleStays'
<1>1. UNCHANGED <<sources, rules, checked, found, check>>
  BY DEF Style!ClangFormat, Style!Wrapper, Style!PrintLine, Style!Complain, Style!ClangEnds,
         Style!ReadOutput, Style!ReadErrors, Style!EndOfOutput
<1>2. /\ clang' \in ClangState
      /\ clang'.runs = clang.runs \/ (Style!ClangEnds /\ ~clang'.runs)
  <2>1. clang \in ClangState
    BY DEF StyleStays, StyleTypeOK
  <2>2. CASE Style!PrintLine
    <3>1. PICK x \in Int, y \in Int : x = clang.out - 1 /\ y = clang.outPipe + 1
      BY <2>1 DEF ClangState
    <3>2. clang' = [clang EXCEPT !.out = x, !.outPipe = y]
      BY <2>2, <3>1 DEF Style!PrintLine
    <3> QED BY <2>1, <3>2 DEF ClangState
  <2>3. CASE Style!Complain
    <3>1. PICK x \in Int, y \in Int : x = clang.err - 1 /\ y = clang.errPipe + 1
      BY <2>1 DEF ClangState
    <3>2. clang' = [clang EXCEPT !.err = x, !.errPipe = y]
      BY <2>3, <3>1 DEF Style!Complain
    <3> QED BY <2>1, <3>2 DEF ClangState
  <2>4. CASE Style!ClangEnds
    BY <2>1, <2>4 DEF Style!ClangEnds, ClangState
  <2>5. CASE Style!ReadOutput \/ Style!ReadErrors \/ Style!EndOfOutput
    BY <2>1, <2>5 DEF Style!ReadOutput, Style!ReadErrors, Style!EndOfOutput, ClangState
  <2> QED BY <2>2, <2>3, <2>4, <2>5 DEF Style!ClangFormat, Style!Wrapper
<1>3. CASE Style!ClangEnds
  <2>1. CASE check = "fix" /\ Style!file.works
    <3>1. checked < Len(sources)
      BY <2>1 DEF StyleStays, FileAtHand
    <3>2. /\ tidy' = tidy \cup {checked + 1} /\ foreign' = foreign \cup {checked + 1}
          /\ ~clang'.runs
      <4>1. checked + 1 \notin tidy /\ Style!this = checked + 1
        BY <1>3, <2>1, <3>1, FileFacts DEF StyleStays, OwnersKept, Style!ClangEnds
      <4>2. ~clang'.runs
        BY <1>3 DEF StyleStays, StyleTypeOK, ClangState, Style!ClangEnds
      <4> QED BY <1>3, <2>1, <4>1, <4>2 DEF Style!ClangEnds
    <3>3. StyleTypeOK' /\ FilesDone' /\ OwnersKept'
      BY <1>1, <1>2, <2>1, <3>2 DEF StyleStays, StyleTypeOK, FilesDone, OwnersKept
    <3>4. FileAtHand'
      BY <1>1, <2>1, <3>2 DEF StyleStays, FileAtHand
    <3>5. Style!StyleRight'
      BY <1>1, <2>1 DEF Style!StyleRight
    <3> QED BY <3>3, <3>4, <3>5 DEF StyleStays
  <2>2. CASE ~(check = "fix" /\ Style!file.works)
    <3>1. tidy' = tidy /\ foreign' = foreign
      BY <1>3, <2>2 DEF Style!ClangEnds
    <3>2. StyleTypeOK' /\ FilesDone'
      BY <1>1, <1>2, <3>1 DEF StyleStays, StyleTypeOK, FilesDone
    <3>3. FileAtHand' /\ OwnersKept'
      <4>1. check = "fix" => ~sources[checked + 1].works
        BY <2>2, FileFacts DEF StyleStays, FileAtHand
      <4> QED BY <1>1, <3>1, <4>1 DEF StyleStays, FileAtHand, OwnersKept
    <3>4. Style!StyleRight'
      BY <1>1, <3>1 DEF StyleStays, Style!StyleRight, Style!Checked, Style!Unformatted
    <3> QED BY <3>2, <3>3, <3>4 DEF StyleStays
  <2> QED BY <2>1, <2>2
<1>4. CASE ~Style!ClangEnds
  <2>1. tidy' = tidy /\ foreign' = foreign
    BY <1>4 DEF Style!ClangFormat, Style!Wrapper, Style!PrintLine, Style!Complain,
       Style!ReadOutput, Style!ReadErrors, Style!EndOfOutput
  <2>2. StyleTypeOK' /\ FilesDone'
    BY <1>1, <1>2, <2>1 DEF StyleStays, StyleTypeOK, FilesDone
  <2>3. FileAtHand' /\ OwnersKept'
    BY <1>1, <1>2, <1>4, <2>1 DEF StyleStays, FileAtHand, OwnersKept
  <2>4. Style!StyleRight'
    BY <1>1, <2>1 DEF StyleStays, Style!StyleRight, Style!Checked, Style!Unformatted
  <2> QED BY <2>2, <2>3, <2>4 DEF StyleStays
<1> QED BY <1>3, <1>4

\* The steps before clang-format, and its starts.
LEMMA ChoiceStays ==
  ASSUME StyleStays, Style!Skip \/ Style!NoFormat \/ Style!Format \/ Style!Fix
  PROVE  StyleStays'
<1>1. /\ checked < Len(sources) /\ check \in {"next", "ask"}
      /\ UNCHANGED <<sources, rules, found, tidy, foreign>>
  BY DEF StyleStays, FileAtHand, Style!Skip, Style!NoFormat, Style!Format, Style!Fix, Style!Start
<1>2. /\ Style!this = checked + 1 /\ Style!file = sources[checked + 1]
      /\ checked + 1 \in 1..Len(sources) /\ sources[checked + 1] \in Style!File
      /\ Len(sources) \in Nat /\ checked \in Nat
  BY <1>1, FileFacts DEF StyleStays
<1>3. Style!StyleRight'
  <2>1. check' \in {"next", "search", "format", "fix"}
    BY DEF Style!Skip, Style!NoFormat, Style!Format, Style!Fix
  <2> QED BY <2>1 DEF Style!StyleRight
<1>4. foreign' = {}
  BY <1>1 DEF StyleStays, OwnersKept
<1>5. CASE Style!Skip
  <2>1. sources[checked + 1].kind = "ignored" /\ checked' = checked + 1 /\ check' = "next"
        /\ clang' = clang
    BY <1>2, <1>5 DEF Style!Skip
  <2>2. StyleTypeOK' /\ FileAtHand' /\ OwnersKept'
    BY <1>1, <1>2, <1>4, <2>1 DEF StyleStays, StyleTypeOK, FileAtHand, OwnersKept
  <2>3. FilesDone'
    <3>1. \A n \in 1..checked + 1 : n \in 1..checked \/ n = checked + 1
      BY <1>2
    <3>2. sources[checked + 1].kind # "source"
      BY <2>1
    <3> QED BY <1>1, <1>2, <2>1, <3>1, <3>2 DEF StyleStays, FilesDone
  <2> QED BY <1>3, <2>2, <2>3 DEF StyleStays
<1>6. CASE Style!NoFormat
  <2>1. /\ sources[checked + 1].kind # "ignored"
        /\ sources[checked + 1].kind = "source" => rules.skip
        /\ checked' = checked /\ check' = "search" /\ clang' = clang
    BY <1>2, <1>6 DEF Style!NoFormat
  <2>2. StyleTypeOK' /\ FilesDone' /\ FileAtHand' /\ OwnersKept'
    BY <1>1, <1>4, <2>1 DEF StyleStays, StyleTypeOK, FilesDone, FileAtHand, OwnersKept
  <2> QED BY <1>3, <2>2 DEF StyleStays
<1>7. CASE Style!Format \/ Style!Fix
  <2>1. /\ sources[checked + 1].kind = "source" /\ ~rules.skip
        /\ checked' = checked /\ check' \in {"format", "fix"}
    BY <1>2, <1>7 DEF StyleStays, FileAtHand, Style!Format, Style!Fix, Style!Start
  <2>2. /\ clang' \in ClangState
        /\ clang'.runs = TRUE
    <3>1. sources[checked + 1].lines \in Int /\ sources[checked + 1].errors \in Int
      BY <1>2 DEF Style!File
    <3>2. Style!NoClang \in ClangState
      BY DEF Style!NoClang, ClangState
    <3>3. PICK lines \in Int, errors \in Int :
             clang' = [Style!NoClang EXCEPT !.out = lines, !.err = errors, !.runs = TRUE]
      <4>1. CASE Style!Format
        <5>1. clang' = [Style!NoClang EXCEPT !.out = sources[checked + 1].lines,
                          !.err = sources[checked + 1].errors, !.runs = TRUE]
          BY <1>2, <4>1 DEF Style!Format, Style!Start
        <5> QED BY <5>1, <3>1
      <4>2. CASE Style!Fix
        <5>1. clang' = [Style!NoClang EXCEPT !.out = 0,
                          !.err = sources[checked + 1].errors, !.runs = TRUE]
          BY <1>2, <4>2 DEF Style!Fix, Style!Start
        <5> sources[checked + 1].errors \in Int
          BY <3>1
        <5> WITNESS 0 \in Int, sources[checked + 1].errors \in Int
        <5> QED BY <5>1
      <4> QED BY <1>7, <4>1, <4>2
    <3> QED BY <3>2, <3>3 DEF ClangState
  <2>3. StyleTypeOK' /\ FilesDone' /\ FileAtHand'
    BY <1>1, <2>1, <2>2 DEF StyleStays, StyleTypeOK, FilesDone, FileAtHand
  <2>4. OwnersKept'
    <3>1. check' = "fix" => ~sources[checked + 1].works \/ checked + 1 \notin tidy
      BY <1>7 DEF StyleStays, FileAtHand, Style!Format, Style!Fix
    <3> QED BY <1>1, <1>4, <2>1, <2>2, <3>1 DEF OwnersKept
  <2> QED BY <1>3, <2>3, <2>4 DEF StyleStays
<1> QED BY <1>5, <1>6, <1>7

\* The end of a run of clang-format.
LEMMA VerdictStays ==
  ASSUME StyleStays, Style!Formatted \/ Style!NotFormatted \/ Style!Fixed
  PROVE  StyleStays'
<1>1. /\ check \in {"format", "fix"} /\ checked < Len(sources)
      /\ sources[checked + 1].kind = "source" /\ ~rules.skip
      /\ UNCHANGED <<sources, rules, checked, found, tidy, clang>> /\ ~clang.runs
  BY DEF StyleStays, FileAtHand, Style!Formatted, Style!NotFormatted, Style!Fixed,
         Style!Close, Style!Ended
<1>2. /\ Style!this = checked + 1 /\ Style!file = sources[checked + 1]
      /\ sources[checked + 1] \in Style!File
  BY <1>1, FileFacts DEF StyleStays
<1>3. foreign' = {}
  BY <1>2 DEF StyleStays, OwnersKept, Style!Formatted, Style!NotFormatted, Style!Fixed
<1>4. \/ check' = "search" /\ checked + 1 \in tidy
      \/ check' = "ask" /\ (~sources[checked + 1].works \/ checked + 1 \notin tidy)
  <2>1. CASE Style!Formatted
    BY <1>2, <2>1 DEF Style!Formatted, Style!Success, Style!Close
  <2>2. CASE Style!NotFormatted
    BY <1>2, <2>2 DEF Style!NotFormatted, Style!Success, Style!Close
  <2>3. CASE Style!Fixed
    BY <1>1, <1>2, <2>3 DEF StyleStays, FileAtHand, Style!Fixed, Style!Success, Style!Close
  <2> QED BY <2>1, <2>2, <2>3
<1>5. StyleTypeOK' /\ FilesDone' /\ OwnersKept' /\ Style!StyleRight'
  BY <1>1, <1>3, <1>4 DEF StyleStays, StyleTypeOK, FilesDone, OwnersKept, Style!StyleRight
<1>6. FileAtHand'
  BY <1>1, <1>4 DEF StyleStays, FileAtHand
<1> QED BY <1>5, <1>6 DEF StyleStays

\* A check that fails has a file that is to blame.
LEMMA RaisedStays ==
  ASSUME StyleStays,
         Style!Unsupported \/ Style!Refuse \/ Style!NotRestored \/ Style!NotFixed
         \/ Style!SearchFails
  PROVE  StyleStays'
<1>1. /\ checked < Len(sources) /\ check' = "raised"
      /\ UNCHANGED <<sources, rules, checked, found, tidy, foreign, clang>>
  BY DEF StyleStays, FileAtHand, Style!Unsupported, Style!Refuse, Style!NotRestored,
         Style!NotFixed, Style!SearchFails, Style!Close
<1>2. /\ Style!this = checked + 1 /\ Style!file = sources[checked + 1]
      /\ checked + 1 \in DOMAIN sources
  BY <1>1, FileFacts DEF StyleStays
<1>3. StyleTypeOK' /\ FilesDone' /\ FileAtHand' /\ OwnersKept'
  BY <1>1 DEF StyleStays, StyleTypeOK, FilesDone, FileAtHand, OwnersKept
<1>4. Style!StyleRight'
  <2>1. CASE Style!SearchFails
    <3>1. checked + 1 \in Style!Checked
      BY <1>2, <2>1 DEF StyleStays, FileAtHand, Style!Checked, Style!SearchFails
    <3>2. sources[checked + 1].text \cap rules.banned # {} \/ ~sources[checked + 1].plain
      BY <1>2, <2>1 DEF Style!SearchFails, Style!Refused
    <3> QED BY <1>1, <3>1, <3>2 DEF Style!StyleRight, Style!Checked
  <2>2. CASE Style!Unsupported \/ Style!Refuse \/ Style!NotFixed
    <3>1. sources[checked + 1].kind = "source" /\ ~rules.skip
      BY <1>2, <2>2 DEF StyleStays, FileAtHand, Style!Unsupported, Style!Refuse, Style!NotFixed
    <3>2. \/ checked + 1 \in Style!Unformatted \/ ~sources[checked + 1].works
          \/ ~rules.supported
      BY <1>2, <2>2, <3>1 DEF StyleStays, FileAtHand, Style!Unformatted, Style!Unsupported,
         Style!Refuse, Style!NotFixed, Style!Success
    <3> QED BY <1>1, <1>2, <3>1, <3>2 DEF Style!StyleRight, Style!Unformatted
  <2>3. CASE Style!NotRestored
    <3>1. foreign # {}
      BY <1>2, <2>3 DEF StyleStays, OwnersKept, Style!NotRestored, Style!Success, Style!Close,
         Style!Ended
    <3> QED BY <1>1, <3>1 DEF Style!StyleRight
  <2> QED BY <2>1, <2>2, <2>3
<1> QED BY <1>3, <1>4 DEF StyleStays

LEMMA SearchStays == ASSUME StyleStays, Style!Search PROVE StyleStays'
<1>1. /\ checked < Len(sources) /\ check = "search" /\ sources[checked + 1].kind # "ignored"
      /\ sources[checked + 1].kind = "source" /\ ~rules.skip => checked + 1 \in tidy
      /\ check' = "next" /\ UNCHANGED <<sources, rules, tidy, foreign, clang>>
  BY DEF StyleStays, FileAtHand, Style!Search
<1>2. /\ Style!this = checked + 1 /\ Style!file = sources[checked + 1]
      /\ checked + 1 \in 1..Len(sources) /\ Len(sources) \in Nat /\ checked \in Nat
  BY <1>1, FileFacts DEF StyleStays
<1>3. /\ checked' = checked + 1
      /\ found' = found \cup (sources[checked + 1].text \cap rules.required)
      /\ sources[checked + 1].text \cap rules.banned = {}
  BY <1>2 DEF Style!Search, Style!Refused
<1>4. StyleTypeOK' /\ FileAtHand' /\ OwnersKept' /\ Style!StyleRight'
  BY <1>1, <1>2, <1>3 DEF StyleStays, StyleTypeOK, FileAtHand, OwnersKept, Style!StyleRight
<1>5. FilesDone'
  <2>1. \A n : n \in 1..checked + 1 <=> n \in 1..checked \/ n = checked + 1
    BY <1>2
  <2>2. ASSUME NEW n \in 1..checked + 1
        PROVE  /\ sources[n].kind # "ignored" => sources[n].text \cap rules.banned = {}
               /\ sources[n].kind = "source" /\ ~rules.skip => n \in tidy
    BY <2>1, <1>1, <1>3 DEF StyleStays, FilesDone
  <2>3. ASSUME NEW r \in rules.required
        PROVE  r \in found' <=> \E n \in 1..checked + 1 :
                                   sources[n].kind # "ignored" /\ r \in sources[n].text
    BY <2>1, <1>1, <1>3 DEF StyleStays, FilesDone
  <2>4. found' \subseteq rules.required
    BY <1>3 DEF StyleStays, FilesDone
  <2> QED BY <2>2, <2>3, <2>4, <1>1, <1>3 DEF FilesDone
<1> QED BY <1>4, <1>5 DEF StyleStays

LEMMA FinishStays == ASSUME StyleStays, Style!Finish PROVE StyleStays'
<1>1. /\ checked = Len(sources) /\ check = "next" /\ foreign = {}
      /\ check' = IF rules.required \subseteq found THEN "passed" ELSE "raised"
      /\ UNCHANGED <<sources, rules, checked, found, tidy, foreign, clang>>
  BY DEF StyleStays, OwnersKept, Style!Finish
<1>2. DOMAIN sources = 1..checked
  BY <1>1 DEF StyleStays, StyleTypeOK
<1>3. StyleTypeOK' /\ FilesDone' /\ FileAtHand' /\ OwnersKept'
  BY <1>1 DEF StyleStays, StyleTypeOK, FilesDone, FileAtHand, OwnersKept
<1>4. CASE rules.required \subseteq found
  <2>1. \A n \in Style!Checked : sources[n].text \cap rules.banned = {}
    BY <1>2 DEF StyleStays, FilesDone, Style!Checked
  <2>2. \A r \in rules.required : \E n \in Style!Checked : r \in sources[n].text
    BY <1>2, <1>4 DEF StyleStays, FilesDone, Style!Checked
  <2>3. ~rules.skip => Style!Unformatted = {}
    BY <1>2 DEF StyleStays, FilesDone, Style!Unformatted
  <2>4. Style!Checked' = Style!Checked /\ Style!Unformatted' = Style!Unformatted
    BY <1>1 DEF Style!Checked, Style!Unformatted
  <2>5. Style!StyleRight'
    BY <1>1, <1>4, <2>1, <2>2, <2>3, <2>4 DEF Style!StyleRight
  <2> QED BY <1>3, <2>5 DEF StyleStays
<1>5. CASE ~(rules.required \subseteq found)
  <2>1. PICK r \in rules.required : r \notin found
    BY <1>5
  <2>2. \A n \in Style!Checked : r \notin sources[n].text
    BY <1>2, <2>1 DEF StyleStays, FilesDone, Style!Checked
  <2>3. Style!StyleRight'
    BY <1>1, <1>5, <2>1, <2>2 DEF Style!StyleRight, Style!Checked
  <2> QED BY <1>3, <2>3 DEF StyleStays
<1> QED BY <1>4, <1>5

LEMMA StyleSteps == StyleInv /\ [ProgramsNext]_allVars => StyleInv'
<1> SUFFICES ASSUME StyleInv, [ProgramsNext]_allVars, program' = "style-check"
             PROVE  StyleStays'
  BY DEF StyleInv
<1>1. program' = program
  BY DEF allVars, ProgramsNext, SearchStep, TreeStep, WriteStep, ReverseStep, StyleStep, InfStep, OneStep
<1>2. StyleStays
  BY <1>1 DEF StyleInv
<1>3. Style!Next \/ UNCHANGED allVars
  BY <1>1 DEF ProgramsNext, SearchStep, TreeStep, WriteStep, ReverseStep, StyleStep, InfStep, OneStep
<1>4. CASE UNCHANGED allVars
  <2>1. UNCHANGED styleVars
    BY <1>4 DEF allVars
  <2> QED BY <1>2, <2>1 DEF styleVars, StyleStays, StyleTypeOK, FilesDone, FileAtHand, OwnersKept,
         Style!StyleRight, Style!Checked, Style!Unformatted
<1>5. CASE Style!Next
  BY <1>2, <1>5, FormatterStays, ChoiceStays, VerdictStays, RaisedStays, SearchStays, FinishStays
  DEF Style!Next, Style!Script
<1> QED BY <1>3, <1>4, <1>5

\* The style check passes exactly the sources that follow the rules: one that
\* passes has no banned pattern, every required one, and is formatted and its
\* owner's; a check that fails has met a file that breaks a rule, that
\* clang-format cannot deal with or that could not be given back to its owner
\* (check_style in nejudge/test.py), for any files and rules and however
\* clang-format and its wrapper take turns.
THEOREM StyleChecked == ProgramsSpec => []StyleRight
<1>1. StyleInv => StyleRight
  BY DEF StyleInv, StyleStays, StyleRight
<1> QED BY <1>1, StyleStarts, StyleSteps, PTL DEF ProgramsSpec
-----------------------------------------------------------------------------
(* The .inf parser.  First what its operators on sequences of characters and *)
(* of words return, then the invariant: what is known before an entry.       *)

LEMMA LeastOf ==
  ASSUME NEW T, T \subseteq Nat, T # {}
  PROVE  \E x \in T : \A y \in T : x <= y
<1>1. PICK x \in T : \A y \in T : ~(<<y, x>> \in OpToRel(<, Nat))
  BY NatLessThanWellFounded, WFMin
<1>2. \A y \in T : ~(y < x)
  BY <1>1 DEF OpToRel
<1> QED BY <1>2

LEMMA GreatestOf ==
  ASSUME NEW T, NEW n \in Nat, T \subseteq 0..n, T # {}
  PROVE  \E x \in T : \A y \in T : x >= y
<1> DEFINE bounds == {b \in Nat : \A y \in T : b >= y}
<1>1. n \in bounds
  OBVIOUS
<1>2. PICK b \in bounds : \A c \in bounds : b <= c
  <2> HIDE DEF bounds
  <2>1. bounds \subseteq Nat
    BY DEF bounds
  <2> QED BY <1>1, <2>1, LeastOf
<1>3. b \in T
  <2> SUFFICES ASSUME b \notin T PROVE FALSE
    OBVIOUS
  <2>1. \A y \in T : b > y
    OBVIOUS
  <2>2. b - 1 \in bounds
    <3>1. PICK below \in T : b > below
      BY <2>1
    <3>2. b - 1 \in Nat
      BY <3>1
    <3>3. \A y \in T : b - 1 >= y
      BY <2>1
    <3> QED BY <3>2, <3>3
  <2> QED BY <1>2, <2>2
<1> QED BY <1>3

LEMMA MinIs ==
  ASSUME NEW T, T \subseteq Nat, T # {}
  PROVE  Inf!Min(T) \in T /\ \A y \in T : Inf!Min(T) <= y
  BY LeastOf DEF Inf!Min

LEMMA MaxIs ==
  ASSUME NEW T, NEW n \in Nat, T \subseteq 0..n, T # {}
  PROVE  Inf!Max(T) \in T /\ \A y \in T : Inf!Max(T) >= y
  BY GreatestOf DEF Inf!Max

\* The numbers of the elements of a set, in order, are 1..Cardinality.
LEMMA PlacesInOrder ==
  ASSUME NEW T, T \subseteq Nat, IsFiniteSet(T), NEW w \in 1..Cardinality(T)
  PROVE  \E k \in T : Cardinality({j \in T : j <= k}) = w
<1> DEFINE upTo(k) == {j \in T : j <= k}
           place == [k \in T |-> Cardinality(upTo(k))]
           size == Cardinality(T)
<1>1. size \in Nat
  BY FS_CardinalityType
<1>2. ASSUME NEW k \in T
      PROVE  /\ IsFiniteSet(upTo(k)) /\ Cardinality(upTo(k)) \in 1..size
  <2>1. IsFiniteSet(upTo(k)) /\ Cardinality(upTo(k)) <= size
    <3>1. upTo(k) \in SUBSET T
      OBVIOUS
    <3> QED BY <3>1, FS_Subset
  <2>2. Cardinality(upTo(k)) \in Nat /\ upTo(k) # {}
    BY <2>1, FS_CardinalityType
  <2>3. Cardinality(upTo(k)) # 0
    BY <2>1, <2>2, FS_EmptySet
  <2> QED BY <1>1, <2>1, <2>2, <2>3
<1>3. ASSUME NEW j \in T, NEW k \in T, j < k PROVE place[j] < place[k]
  <2>1. upTo(j) \subseteq upTo(k) \ {k}
    <3>1. ASSUME NEW i \in T, i <= j PROVE i <= k /\ i # k
      <4>1. i \in Nat /\ j \in Nat /\ k \in Nat
        OBVIOUS
      <4> QED BY <1>3, <3>1, <4>1
    <3> QED BY <3>1
  <2>2. IsFiniteSet(upTo(k) \ {k}) /\ Cardinality(upTo(k) \ {k}) = place[k] - 1
    <3>1. k \in upTo(k)
      OBVIOUS
    <3> QED BY <3>1, <1>2, FS_RemoveElement
  <2>3. Cardinality(upTo(j)) <= Cardinality(upTo(k) \ {k})
    BY <2>1, <2>2, FS_Subset
  <2> QED BY <2>2, <2>3, <1>2
<1>4. place \in Injection(T, 1..size)
  <2>1. place \in [T -> 1..size]
    BY <1>2
  <2>2. ASSUME NEW j \in T, NEW k \in T, place[j] = place[k] PROVE j = k
    <3>1. j \in Nat /\ k \in Nat /\ place[j] \in Nat
      BY <2>1, <1>1
    <3>2. ~(j < k) /\ ~(k < j)
      BY <1>3, <2>2, <3>1
    <3> QED BY <3>1, <3>2
  <2> QED
    <3> HIDE DEF place
    <3> QED BY <2>1, <2>2 DEF Injection, IsInjective
<1>5. place \in Surjection(T, 1..size)
  <2>1. IsFiniteSet(1..size) /\ Cardinality(1..size) = size
    BY <1>1, FS_Interval
  <2> HIDE DEF place
  <2> QED BY <1>4, <2>1, FS_Injection
<1>6. PICK k \in T : place[k] = w
  <2> HIDE DEF place
  <2> QED BY <1>5 DEF Surjection
<1> QED BY <1>6

InfWord == Seq(Int) \ {<<>>}
EqualsIn(val) == {k \in DOMAIN val : val[k] = Inf!Equals}

LEMMA FindFacts ==
  ASSUME NEW val \in Seq(Int)
  PROVE  /\ EqualsIn(val) = {} => Inf!find(val) = -1
         /\ EqualsIn(val) # {} => /\ Inf!find(val) = Inf!Min(EqualsIn(val)) - 1
                                  /\ Inf!Min(EqualsIn(val)) \in EqualsIn(val)
                                  /\ \A k \in EqualsIn(val) : Inf!Min(EqualsIn(val)) <= k
<1>1. EqualsIn(val) = {k \in 1..Len(val) : val[k] = Inf!Equals}
  BY DEF EqualsIn
<1>2. Inf!find(val) = (IF EqualsIn(val) # {} THEN Inf!Min(EqualsIn(val)) ELSE 0) - 1
  BY <1>1 DEF Inf!find, Inf!SelectInSeq
<1>3. EqualsIn(val) \subseteq Nat
  BY <1>1
<1> QED BY <1>2, <1>3, MinIs

LEMMA SolidFacts ==
  ASSUME NEW val \in Seq(Int)
  PROVE  /\ Len(val) \in Nat /\ Inf!Solid(val) \subseteq 1..Len(val)
         /\ Inf!Starts(val) \subseteq Inf!Solid(val)
         /\ \A m, n \in 1..Len(val) :
               /\ SubSeq(val, m, n) \in Seq(Int)
               /\ m <= n => SubSeq(val, m, n) \in InfWord
<1>1. Len(val) \in Nat /\ Inf!Solid(val) \subseteq 1..Len(val) /\ Inf!Starts(val) \subseteq Inf!Solid(val)
  BY DEF Inf!Solid, Inf!Starts
<1>2. ASSUME NEW m \in 1..Len(val), NEW n \in 1..Len(val)
      PROVE  SubSeq(val, m, n) \in Seq(Int) /\ (m <= n => SubSeq(val, m, n) \in InfWord)
  <2>1. m \in Int /\ n \in Int /\ \A i \in m..n : val[i] \in Int
    OBVIOUS
  <2>2. /\ SubSeq(val, m, n) \in Seq(Int)
        /\ Len(SubSeq(val, m, n)) = IF m <= n THEN n - m + 1 ELSE 0
    BY <2>1, SubSeqProperties
  <2>3. ASSUME m <= n PROVE SubSeq(val, m, n) # <<>>
    <3>1. Len(SubSeq(val, m, n)) # 0
      BY <2>1, <2>2, <2>3
    <3> QED BY <3>1
  <2> QED BY <2>2, <2>3 DEF InfWord
<1> QED BY <1>1, <1>2

LEMMA StripType ==
  ASSUME NEW val \in Seq(Int)
  PROVE  Inf!strip(val) \in Seq(Int)
<1>1. CASE Inf!Solid(val) = {}
  BY <1>1 DEF Inf!strip
<1>2. CASE Inf!Solid(val) # {}
  <2>1. /\ Inf!Solid(val) \subseteq Nat /\ Inf!Solid(val) \subseteq 0..Len(val)
        /\ Inf!Solid(val) \subseteq 1..Len(val) /\ Len(val) \in Nat
    BY SolidFacts
  <2>2. Inf!Min(Inf!Solid(val)) \in 1..Len(val) /\ Inf!Max(Inf!Solid(val)) \in 1..Len(val)
    BY <1>2, <2>1, MinIs, MaxIs
  <2> QED BY <1>2, <2>2, SolidFacts DEF Inf!strip
<1> QED BY <1>1, <1>2

\* A word ends: there is a last character before the next blank.
LEMMA WordEnds ==
  ASSUME NEW val \in Seq(Int), NEW k \in Inf!Solid(val)
  PROVE  Inf!Min(Inf!Ends(val, k)) \in Inf!Solid(val) /\ k <= Inf!Min(Inf!Ends(val, k))
<1> DEFINE past == {e \in Nat : e >= k /\ e + 1 \notin Inf!Solid(val)}
<1>1. Len(val) \in Nat /\ Inf!Solid(val) \subseteq 1..Len(val) /\ k \in 1..Len(val)
  BY SolidFacts
<1>2. Len(val) \in past /\ past \subseteq Nat
  BY <1>1
<1>3. PICK e \in past : \A f \in past : e <= f
  <2> HIDE DEF past
  <2> QED BY <1>2, LeastOf
<1>4. e \in Nat /\ e >= k /\ e + 1 \notin Inf!Solid(val)
  OBVIOUS
<1>5. e \in Inf!Solid(val)
  <2>1. CASE e = k
    BY <2>1
  <2>2. CASE e # k
    <3>1. PICK f \in Nat : f + 1 = e /\ f >= k /\ f < e
      <4>1. e - 1 \in Nat /\ (e - 1) + 1 = e /\ e - 1 >= k /\ e - 1 < e
        BY <1>1, <1>4, <2>2
      <4> QED BY <4>1
    <3>2. f \notin past
      BY <1>3, <1>4, <3>1
    <3> QED BY <3>1, <3>2
  <2> QED BY <2>1, <2>2
<1>6. e \in Inf!Ends(val, k) /\ Inf!Ends(val, k) \subseteq Nat
  BY <1>1, <1>4, <1>5 DEF Inf!Ends
<1>7. Inf!Min(Inf!Ends(val, k)) \in Inf!Ends(val, k)
  BY <1>6, MinIs
<1> QED BY <1>7 DEF Inf!Ends

LEMMA SameCardinality == ASSUME NEW T PROVE Inf!Cardinality(T) = Cardinality(T)
  BY DEF Inf!Cardinality, Cardinality

LEMMA SplitWords ==
  ASSUME NEW val \in Seq(Int)
  PROVE  Inf!split(val) \in Seq(InfWord)
<1> DEFINE starts == Inf!Starts(val)
<1>1. /\ Len(val) \in Nat /\ Inf!Solid(val) \subseteq 1..Len(val)
      /\ starts \subseteq Inf!Solid(val) /\ starts \subseteq Nat
  BY SolidFacts
<1>2. IsFiniteSet(starts) /\ Cardinality(starts) \in Nat
  <2>1. IsFiniteSet(1..Len(val)) /\ starts \in SUBSET (1..Len(val))
    BY <1>1, FS_Interval
  <2> QED BY <2>1, FS_Subset, FS_CardinalityType
<1>3. ASSUME NEW w \in 1..Cardinality(starts), NEW k, k = Inf!StartOf(val, w)
      PROVE  SubSeq(val, k, Inf!Min(Inf!Ends(val, k))) \in InfWord
  <2>1. \E i \in starts : Inf!Ordinal(val, i) = w
    <3>1. PICK i \in starts : Cardinality({j \in starts : j <= i}) = w
      <4> HIDE DEF starts
      <4> QED BY <1>1, <1>2, PlacesInOrder
    <3>2. Inf!Ordinal(val, i) = w
      BY <3>1, SameCardinality DEF Inf!Ordinal
    <3> QED BY <3>2
  <2>2. k \in starts
    BY <1>3, <2>1 DEF Inf!StartOf
  <2>3. Inf!Min(Inf!Ends(val, k)) \in Inf!Solid(val) /\ k <= Inf!Min(Inf!Ends(val, k))
    BY <1>1, <2>2, WordEnds
  <2> QED BY <1>1, <2>2, <2>3, SolidFacts
<1>4. \A w \in 1..Cardinality(starts) :
         SubSeq(val, Inf!StartOf(val, w), Inf!Min(Inf!Ends(val, Inf!StartOf(val, w)))) \in InfWord
  BY <1>3
<1>5. PICK s : s = Inf!split(val)
  OBVIOUS
<1>6. s = [w \in 1..Cardinality(starts) |->
              SubSeq(val, Inf!StartOf(val, w), Inf!Min(Inf!Ends(val, Inf!StartOf(val, w))))]
  BY <1>5, SameCardinality DEF Inf!split
<1>7. s \in [1..Cardinality(starts) -> InfWord]
  BY <1>4, <1>6
<1>8. s \in Seq(InfWord)
  BY <1>2, <1>7
<1> QED BY <1>5, <1>8

\* g joins the first elements of s, as many as one likes.
Joins(g, s, n, S) ==
    /\ g \in [0..n -> Seq(S)] /\ g[0] = <<>>
    /\ \A i \in 1..n : g[i] = g[i - 1] \o s[i]

LEMMA JoinsLonger ==
  ASSUME NEW S, NEW s \in Seq(Seq(S)), NEW n \in Nat, n + 1 <= Len(s), NEW g, Joins(g, s, n, S)
  PROVE  \E h : Joins(h, s, n + 1, S)
<1> DEFINE h == [i \in 0..n + 1 |-> IF i = n + 1 THEN g[n] \o s[n + 1] ELSE g[i]]
<1>1. g \in [0..n -> Seq(S)] /\ g[0] = <<>> /\ \A i \in 1..n : g[i] = g[i - 1] \o s[i]
  BY DEF Joins
<1>2. g[n] \o s[n + 1] \in Seq(S)
  <2>1. g[n] \in Seq(S) /\ s[n + 1] \in Seq(S)
    BY <1>1
  <2> QED BY <2>1, ConcatProperties
<1>3. h \in [0..n + 1 -> Seq(S)] /\ h[0] = <<>>
  BY <1>1, <1>2
<1>4. ASSUME NEW i \in 1..n + 1 PROVE h[i] = h[i - 1] \o s[i]
  <2>1. CASE i = n + 1
    <3>1. i - 1 = n /\ n \in 0..n + 1 /\ n # n + 1 /\ i \in 0..n + 1
      BY <2>1
    <3>2. h[i] = g[n] \o s[n + 1] /\ h[n] = g[n]
      BY <2>1, <3>1
    <3> HIDE DEF h
    <3> QED BY <2>1, <3>1, <3>2
  <2>2. CASE i # n + 1
    <3>1. i \in 1..n /\ i \in 0..n + 1 /\ i - 1 \in 0..n + 1 /\ i - 1 # n + 1
      BY <2>2
    <3>2. h[i] = g[i] /\ h[i - 1] = g[i - 1]
      BY <2>2, <3>1
    <3> HIDE DEF h
    <3> QED BY <3>1, <3>2, <1>1
  <2> QED BY <2>1, <2>2
<1> HIDE DEF h
<1> QED BY <1>3, <1>4 DEF Joins

LEMMA JoinsExist ==
  ASSUME NEW S, NEW s \in Seq(Seq(S))
  PROVE  \E g : Joins(g, s, Len(s), S)
<1> DEFINE without == {n \in 0..Len(s) : ~\E g : Joins(g, s, n, S)}
<1>1. without = {}
  <2> SUFFICES ASSUME without # {} PROVE FALSE
    OBVIOUS
  <2>1. PICK n \in without : \A m \in without : n <= m
    <3>1. without \subseteq Nat
      OBVIOUS
    <3> HIDE DEF without
    <3> QED BY <3>1, LeastOf
  <2>2. CASE n = 0
    <3>1. Joins([i \in 0..0 |-> <<>>], s, 0, S)
      BY DEF Joins
    <3> QED BY <3>1, <2>2
  <2>3. CASE n # 0
    <3>1. PICK m \in Nat : m + 1 = n /\ m \in 0..Len(s) /\ m < n /\ n <= Len(s)
      <4>1. n - 1 \in Nat /\ (n - 1) + 1 = n /\ n - 1 \in 0..Len(s) /\ n - 1 < n /\ n <= Len(s)
        BY <2>3
      <4> QED BY <4>1
    <3>2. PICK g : Joins(g, s, m, S)
      BY <2>1, <3>1
    <3>3. \E h : Joins(h, s, m + 1, S)
      BY <3>1, <3>2, JoinsLonger
    <3> QED BY <3>1, <3>3
  <2> QED BY <2>2, <2>3
<1>2. Len(s) \in 0..Len(s)
  OBVIOUS
<1> QED BY <1>1, <1>2

LEMMA FlattenIs ==
  ASSUME NEW S, NEW s \in Seq(Seq(S)), NEW g, Joins(g, s, Len(s), S)
  PROVE  Inf!FlattenSeq(s) = g[Len(s)]
<1>1. g[0] = <<>> /\ (\A i \in 1..Len(s) : g[i] = g[i - 1] \o s[i]) /\ Len(s) \in Nat
      /\ \A i \in 1..Len(s) : s[i] \in Seq(S)
  <2>1. \A i \in 1..Len(s) : s[i] \in Seq(S)
    OBVIOUS
  <2> QED BY <2>1 DEF Joins
<1>2. CASE Len(s) = 0
  <2>1. s = <<>>
    BY <1>2
  <2> QED BY <1>1, <1>2, <2>1 DEF Inf!FlattenSeq
<1>3. CASE Len(s) # 0
  <2> DEFINE along(f) == [i \in 1..Len(s) |-> IF i = 1 THEN s[i] ELSE f[i - 1] \o s[i]]
             F == CHOOSE f : f = along(f)
             h == [i \in 1..Len(s) |-> g[i]]
             apart == {i \in 1..Len(s) : F[i] # g[i]}
  <2>1. Inf!FlattenSeq(s) = F[Len(s)]
    BY <1>3 DEF Inf!FlattenSeq
  <2>2. h = along(h)
    <3>1. ASSUME NEW i \in 1..Len(s) PROVE h[i] = IF i = 1 THEN s[i] ELSE h[i - 1] \o s[i]
      <4>1. CASE i = 1
        <5>1. 1 - 1 = 0 /\ 1 \in 1..Len(s)
          BY <4>1
        <5>2. g[1] = <<>> \o s[1] /\ s[1] \in Seq(S)
          BY <1>1, <5>1
        <5>3. g[1] = s[1]
          BY <5>2, ConcatEmptySeq
        <5> QED BY <5>3, <4>1
      <4>2. CASE i # 1
        <5>1. i - 1 \in 1..Len(s)
          BY <4>2
        <5> QED BY <5>1, <1>1, <4>2
      <4> QED BY <4>1, <4>2
    <3> QED BY <3>1
  <2>3. F = along(F)
    <3>1. \E f : f = along(f)
      BY <2>2
    <3> HIDE DEF along
    <3> QED BY <3>1
  <2>4. apart = {}
    <3> HIDE DEF F
    <3> SUFFICES ASSUME apart # {} PROVE FALSE
      OBVIOUS
    <3>1. PICK i \in apart : \A j \in apart : i <= j
      <4>1. apart \subseteq Nat
        OBVIOUS
      <4> HIDE DEF apart
      <4> QED BY <4>1, LeastOf
    <3>2. F[i] = IF i = 1 THEN s[i] ELSE F[i - 1] \o s[i]
      BY <2>3
    <3>3. h[i] = IF i = 1 THEN s[i] ELSE h[i - 1] \o s[i]
      <4> HIDE DEF h
      <4> QED BY <2>2
    <3>4. i # 1 => F[i - 1] = g[i - 1]
      <4>1. i # 1 => i - 1 \in 1..Len(s) /\ i - 1 < i
        OBVIOUS
      <4> QED BY <4>1, <3>1
    <3> QED BY <3>2, <3>3, <3>4
  <2>5. F[Len(s)] = g[Len(s)]
    <3>1. Len(s) \in 1..Len(s)
      BY <1>3
    <3> HIDE DEF F
    <3> QED BY <2>4, <3>1
  <2> QED BY <2>1, <2>5
<1> QED BY <1>2, <1>3

InfCount == Len(Inf!All)

\* Every entry has a key and a value, with the blanks around it or without.
LEMMA AllTyped ==
  ASSUME inf \in InfFiles
  PROVE  /\ Inf!All \in Seq(Inf!Line) /\ InfCount \in Nat /\ DOMAIN Inf!All = 1..InfCount
         /\ Inf!Entries = Inf!All
         /\ \A k \in 1..InfCount : Inf!All[k].value \in Seq(Int) /\ Inf!All[k].key \in STRING
<1>1. inf[1] \in Seq(Inf!Line) /\ inf[2] \in Seq(Inf!Line)
  BY ProgramsAssumption DEF Inf!InfAssumption
<1>2. Inf!Stripped(inf[2]) \in Seq(Inf!Line)
  <2>1. ASSUME NEW k \in DOMAIN inf[2]
        PROVE  [inf[2][k] EXCEPT !.value = Inf!strip(@)] \in Inf!Line
    <3>1. inf[2][k] \in Inf!Line
      BY <1>1
    <3>2. Inf!strip(inf[2][k].value) \in Seq(Int)
      BY <3>1, StripType DEF Inf!Line
    <3> QED BY <3>1, <3>2 DEF Inf!Line
  <2>2. DOMAIN inf[2] = 1..Len(inf[2]) /\ Len(inf[2]) \in Nat
    BY <1>1
  <2>3. Inf!Stripped(inf[2]) \in [1..Len(inf[2]) -> Inf!Line]
    BY <2>1, <2>2 DEF Inf!Stripped
  <2> QED BY <2>2, <2>3
<1>3. Inf!All \in Seq(Inf!Line)
  BY <1>1, <1>2, ConcatProperties DEF Inf!All
<1>4. Inf!Entries = Inf!All
  BY DEF Inf!Entries, Inf!Order, Inf!All
<1>5. ASSUME NEW k \in 1..InfCount
      PROVE  Inf!All[k].value \in Seq(Int) /\ Inf!All[k].key \in STRING
  <2>1. Inf!All[k] \in Inf!Line
    BY <1>3 DEF InfCount
  <2> QED BY <2>1 DEF Inf!Line
<1> QED BY <1>3, <1>4, <1>5 DEF InfCount

LEMMA SliceIs ==
  ASSUME NEW val, Len(val) \in Nat, NEW m \in Nat, NEW n \in Nat
  PROVE  /\ Inf!slice(val, m, n) = SubSeq(val, m + 1, n)
         /\ Inf!slice(val, m, -1) = SubSeq(val, m + 1, Len(val) - 1)
<1>1. m >= 0 /\ n >= 0 /\ ~(-1 >= 0) /\ Len(val) + (-1) = Len(val) - 1
  OBVIOUS
<1> QED BY <1>1, Zenon DEF Inf!slice

\* What `find` and the slices around it give for a word with '=' in it.
LEMMA WordParts ==
  ASSUME NEW w \in Seq(Int), Inf!IsDefinition(w)
  PROVE  /\ Inf!EqualsAt(w) \in 1..Len(w) /\ Len(w) \in Nat
         /\ w[Inf!EqualsAt(w)] = Inf!Equals
         /\ \A k \in 1..Len(w) : w[k] = Inf!Equals => Inf!EqualsAt(w) <= k
         /\ Inf!find(w) = Inf!EqualsAt(w) - 1
         /\ Inf!slice(w, 0, Inf!find(w)) = Inf!NameOf(w)
         /\ Inf!slice(w, Inf!find(w) + 1, Len(w)) = Inf!ValueOf(w)
<1>1. EqualsIn(w) # {} /\ Len(w) \in Nat /\ DOMAIN w = 1..Len(w)
  BY DEF Inf!IsDefinition, EqualsIn
<1>2. Inf!EqualsAt(w) = Inf!Min(EqualsIn(w))
  BY DEF Inf!EqualsAt, EqualsIn
<1>3. /\ Inf!EqualsAt(w) \in EqualsIn(w) /\ Inf!find(w) = Inf!EqualsAt(w) - 1
      /\ \A k \in EqualsIn(w) : Inf!EqualsAt(w) <= k
  BY <1>1, <1>2, FindFacts
<1>4. Inf!EqualsAt(w) \in 1..Len(w) /\ w[Inf!EqualsAt(w)] = Inf!Equals
  BY <1>1, <1>3 DEF EqualsIn
<1>5. \A k \in 1..Len(w) : w[k] = Inf!Equals => Inf!EqualsAt(w) <= k
  BY <1>1, <1>3 DEF EqualsIn
<1>6. Inf!slice(w, 0, Inf!find(w)) = Inf!NameOf(w)
  BY <1>1, <1>3, <1>4 DEF Inf!slice, Inf!NameOf
<1>7. Inf!slice(w, Inf!find(w) + 1, Len(w)) = Inf!ValueOf(w)
  <2>1. Inf!find(w) + 1 = Inf!EqualsAt(w) /\ Inf!EqualsAt(w) \in Nat
    BY <1>3, <1>4
  <2>2. Inf!slice(w, Inf!EqualsAt(w), Len(w)) = SubSeq(w, Inf!EqualsAt(w) + 1, Len(w))
    BY <1>1, <2>1, SliceIs
  <2> QED BY <2>1, <2>2 DEF Inf!ValueOf
<1> QED BY <1>1, <1>3, <1>4, <1>5, <1>6, <1>7

\* The word between the quotes of a value, and the slices parse_quoted takes.
Inner(val) == SubSeq(val, 2, Len(val) - 1)

LEMMA QuotedParts ==
  ASSUME NEW val \in Seq(Int), Inf!IsQuoted(val)
  PROVE  /\ Inner(val) \in Seq(Int)
         /\ Inf!Last(val) = Inf!Quote /\ Inf!IsDefinition(Inner(val)) =>
               /\ Inf!slice(val, 1, Inf!find(val)) = Inf!NameOf(Inner(val))
               /\ Inf!slice(val, Inf!find(val) + 1, -1) = Inf!ValueOf(Inner(val))
<1>1. Len(val) \in Nat /\ Len(val) >= 1 /\ val[1] = 34 /\ DOMAIN val = 1..Len(val)
  BY DEF Inf!IsQuoted, Inf!Quote
<1>2. /\ Inner(val) \in Seq(Int)
      /\ Len(Inner(val)) = IF 2 <= Len(val) - 1 THEN Len(val) - 2 ELSE 0
      /\ \A k \in 1..Len(Inner(val)) : Inner(val)[k] = val[k + 1]
  <2>1. 2 \in Int /\ Len(val) - 1 \in Int /\ \A k \in 2..Len(val) - 1 : val[k] \in Int
    BY <1>1
  <2>2. /\ SubSeq(val, 2, Len(val) - 1) \in Seq(Int)
        /\ Len(SubSeq(val, 2, Len(val) - 1)) = IF 2 <= Len(val) - 1 THEN (Len(val) - 1) - 2 + 1 ELSE 0
        /\ \A i \in 1..(Len(val) - 1) - 2 + 1 : SubSeq(val, 2, Len(val) - 1)[i] = val[2 + i - 1]
    BY <2>1, SubSeqProperties
  <2>3. \A k \in 1..Len(Inner(val)) : Inner(val)[k] = val[k + 1]
    BY <1>1, <2>2 DEF Inner
  <2> QED BY <1>1, <2>2, <2>3 DEF Inner
<1>3. ASSUME Inf!Last(val) = Inf!Quote, Inf!IsDefinition(Inner(val))
      PROVE  /\ Inf!slice(val, 1, Inf!find(val)) = Inf!NameOf(Inner(val))
             /\ Inf!slice(val, Inf!find(val) + 1, -1) = Inf!ValueOf(Inner(val))
  <2> DEFINE e == Inf!EqualsAt(Inner(val))
  <2>1. /\ e \in 1..Len(Inner(val)) /\ Inner(val)[e] = Inf!Equals
        /\ \A k \in 1..Len(Inner(val)) : Inner(val)[k] = Inf!Equals => e <= k
    BY <1>2, <1>3, WordParts
  <2> HIDE DEF e
  <2>2. e \in Nat /\ e >= 1 /\ e <= Len(val) - 2 /\ Len(Inner(val)) = Len(val) - 2 /\ val[e + 1] = Inf!Equals
    <3>1. Len(Inner(val)) = Len(val) - 2 /\ e \in Nat /\ e >= 1 /\ e <= Len(Inner(val))
      <4>1. PICK L : L = Len(Inner(val))
        OBVIOUS
      <4>2. e \in 1..L /\ L = IF 2 <= Len(val) - 1 THEN Len(val) - 2 ELSE 0
        BY <4>1, <1>2, <2>1
      <4>3. L = Len(val) - 2 /\ e \in Nat /\ e >= 1 /\ e <= L
        <5>1. e \in Nat /\ e >= 1 /\ L # 0
          <6>1. L \in Nat
            BY <1>2, <4>1
          <6>2. e \in 1..L
            BY <4>2
          <6> QED BY <6>1, <6>2
        <5>2. L = Len(val) - 2
          BY <4>2, <5>1
        <5>3. L \in Int
          BY <1>1, <5>2
        <5> QED BY <4>2, <5>1, <5>2, <5>3
      <4> QED BY <4>1, <4>3
    <3>2. Inner(val)[e] = val[e + 1]
      BY <1>2, <2>1
    <3> QED BY <2>1, <3>1, <3>2
  <2>3. \A k \in 1..Len(val) : val[k] = Inf!Equals => e + 1 <= k
    <3>1. ASSUME NEW k \in 1..Len(val), val[k] = Inf!Equals, k < e + 1 PROVE FALSE
      <4>1. k # 1
        BY <1>1, <3>1 DEF Inf!Equals
      <4>2. k - 1 \in 1..Len(Inner(val)) /\ (k - 1) + 1 = k /\ k - 1 < e
        BY <2>2, <3>1, <4>1
      <4>3. Inner(val)[k - 1] = Inf!Equals
        BY <1>2, <3>1, <4>2
      <4> QED BY <2>1, <2>2, <4>2, <4>3
    <3>2. ASSUME NEW k \in 1..Len(val), val[k] = Inf!Equals PROVE e + 1 <= k
      <4>1. ~(k < e + 1)
        BY <3>1, <3>2
      <4> QED BY <4>1, <2>2
    <3> QED BY <3>2
  <2>4. Inf!find(val) = e
    <3>1. EqualsIn(val) # {} /\ e + 1 \in EqualsIn(val) /\ EqualsIn(val) \subseteq 1..Len(val)
      BY <1>1, <2>2 DEF EqualsIn
    <3>2. /\ Inf!find(val) = Inf!Min(EqualsIn(val)) - 1
          /\ Inf!Min(EqualsIn(val)) \in EqualsIn(val)
          /\ \A k \in EqualsIn(val) : Inf!Min(EqualsIn(val)) <= k
      BY <3>1, FindFacts
    <3>3. Inf!Min(EqualsIn(val)) \in 1..Len(val) /\ val[Inf!Min(EqualsIn(val))] = Inf!Equals
      BY <3>1, <3>2 DEF EqualsIn
    <3>4. Inf!Min(EqualsIn(val)) <= e + 1 /\ e + 1 <= Inf!Min(EqualsIn(val))
      BY <3>1, <3>2, <3>3, <2>3
    <3> QED BY <2>2, <3>2, <3>3, <3>4
  <2>5. Inf!slice(val, 1, Inf!find(val)) = SubSeq(val, 2, e)
    BY <2>2, <2>4 DEF Inf!slice
  <2>6. Inf!slice(val, Inf!find(val) + 1, -1) = SubSeq(val, e + 2, Len(val) - 1)
    <3>1. Inf!slice(val, e + 1, -1) = SubSeq(val, (e + 1) + 1, Len(val) + (-1))
      <4>1. e + 1 \in Nat /\ 0 \in Nat
        BY <2>2
      <4>2. Inf!slice(val, e + 1, -1) = SubSeq(val, (e + 1) + 1, Len(val) - 1)
        BY <4>1, <1>1, SliceIs
      <4> QED BY <1>1, <4>2
    <3>2. (e + 1) + 1 = e + 2 /\ Len(val) + (-1) = Len(val) - 1
      BY <1>1, <2>2
    <3> QED BY <2>4, <3>1, <3>2
  <2>7. Inf!NameOf(Inner(val)) = SubSeq(val, 2, e)
    <3>1. Inf!NameOf(Inner(val)) = SubSeq(SubSeq(val, 2, Len(val) - 1), 1, e - 1)
      BY DEF Inf!NameOf, e, Inner
    <3>2. SubSeq(SubSeq(val, 2, Len(val) - 1), 1, e - 1) = SubSeq(val, 2, e)
      BY <1>1, <2>2
    <3> QED BY <3>1, <3>2
  <2>8. Inf!ValueOf(Inner(val)) = SubSeq(val, e + 2, Len(val) - 1)
    <3>1. Inf!ValueOf(Inner(val)) = SubSeq(SubSeq(val, 2, Len(val) - 1), e + 1, Len(val) - 2)
      BY <2>2 DEF Inf!ValueOf, e, Inner
    <3>2. SubSeq(SubSeq(val, 2, Len(val) - 1), e + 1, Len(val) - 2) = SubSeq(val, e + 2, Len(val) - 1)
      BY <1>1, <2>2
    <3> QED BY <3>1, <3>2
  <2> QED BY <2>5, <2>6, <2>7, <2>8
<1> QED BY <1>2, <1>3

Definitions(defs) == \A w \in DOMAIN defs : Inf!IsDefinition(defs[w])

LEMMA DefinitionsMore ==
  ASSUME NEW defs \in Seq(Seq(Int)), NEW w \in Seq(Int), Definitions(Append(defs, w))
  PROVE  Inf!IsDefinition(w) /\ Definitions(defs)
<1>1. PICK more : more = Append(defs, w)
  OBVIOUS
<1>2. /\ DOMAIN more = 1..Len(defs) + 1 /\ DOMAIN defs = 1..Len(defs) /\ Len(defs) \in Nat
      /\ more[Len(defs) + 1] = w /\ \A k \in 1..Len(defs) : more[k] = defs[k]
  BY <1>1
<1>3. \A k \in DOMAIN more : Inf!IsDefinition(more[k])
  BY <1>1, Zenon DEF Definitions
<1>4. Len(defs) + 1 \in DOMAIN more /\ \A k \in 1..Len(defs) : k \in DOMAIN more
  BY <1>2
<1> HIDE DEF Inf!IsDefinition
<1>5. Inf!IsDefinition(w)
  BY <1>2, <1>3, <1>4, Zenon
<1>6. \A k \in DOMAIN defs : Inf!IsDefinition(defs[k])
  <2>1. ASSUME NEW k \in DOMAIN defs PROVE Inf!IsDefinition(defs[k])
    <3>1. k \in DOMAIN more /\ more[k] = defs[k]
      BY <1>2, <1>4
    <3>2. Inf!IsDefinition(more[k])
      BY <1>3, <3>1
    <3> QED BY <3>1, <3>2, Zenon
  <2> QED BY <2>1
<1> QED BY <1>5, <1>6, Zenon DEF Definitions

LEMMA AppendHead ==
  ASSUME NEW S, NEW r \in Seq(S), NEW s \in Seq(S), s # <<>>
  PROVE  r \o s = Append(r, Head(s)) \o Tail(s)
<1>1. /\ Len(s) \in Nat /\ Len(s) >= 1 /\ Len(r) \in Nat /\ Head(s) = s[1] /\ Head(s) \in S
  BY EmptySeq
<1>2. /\ Tail(s) \in Seq(S) /\ Len(Tail(s)) = Len(s) - 1
      /\ \A i \in 1..Len(s) - 1 : Tail(s)[i] = s[i + 1]
  BY <1>1, HeadTailProperties
<1>a. PICK m : m = Append(r, Head(s))
  OBVIOUS
<1>3. /\ m \in Seq(S) /\ Len(m) = Len(r) + 1
      /\ m[Len(r) + 1] = s[1] /\ \A i \in 1..Len(r) : m[i] = r[i]
  BY <1>1, <1>a
<1>b. PICK q : q = r \o s
  OBVIOUS
<1>4. /\ q \in Seq(S) /\ Len(q) = Len(r) + Len(s)
      /\ \A i \in 1..Len(q) : q[i] = IF i <= Len(r) THEN r[i] ELSE s[i - Len(r)]
  <2>1. /\ r \o s \in Seq(S) /\ Len(r \o s) = Len(r) + Len(s)
        /\ \A i \in 1..Len(r) + Len(s) :
              (r \o s)[i] = IF i <= Len(r) THEN r[i] ELSE s[i - Len(r)]
    BY ConcatProperties
  <2> QED BY <1>b, <2>1
<1>c. PICK t : t = m \o Tail(s)
  OBVIOUS
<1>5. /\ t \in Seq(S) /\ Len(t) = Len(m) + Len(Tail(s))
      /\ \A i \in 1..Len(t) : t[i] = IF i <= Len(m) THEN m[i] ELSE Tail(s)[i - Len(m)]
  <2>1. PICK u \in Seq(S) : u = Tail(s)
    BY <1>2
  <2>2. /\ m \o u \in Seq(S) /\ Len(m \o u) = Len(m) + Len(u)
        /\ \A i \in 1..Len(m) + Len(u) :
              (m \o u)[i] = IF i <= Len(m) THEN m[i] ELSE u[i - Len(m)]
    BY <1>3, ConcatProperties
  <2> QED BY <1>c, <2>1, <2>2
<1>6. Len(q) = Len(t)
  BY <1>1, <1>2, <1>3, <1>4, <1>5
<1>7. ASSUME NEW i \in 1..Len(q) PROVE q[i] = t[i]
  <2>1. CASE i <= Len(r)
    <3>1. i \in 1..Len(r) /\ i <= Len(m) /\ i \in 1..Len(t)
      BY <1>1, <1>3, <1>6, <2>1
    <3>2. q[i] = r[i] /\ t[i] = m[i] /\ m[i] = r[i]
      BY <1>3, <1>4, <1>5, <2>1, <3>1
    <3> QED BY <3>2
  <2>2. CASE i = Len(r) + 1
    <3>1. ~(i <= Len(r)) /\ i <= Len(m) /\ i \in 1..Len(t) /\ i - Len(r) = 1
      BY <1>1, <1>3, <1>6, <2>2
    <3>2. q[i] = s[1] /\ t[i] = m[i] /\ m[i] = s[1]
      BY <1>3, <1>4, <1>5, <2>2, <3>1
    <3> QED BY <3>2
  <2>3. CASE i > Len(r) + 1
    <3>1. PICK j : j = i - Len(m)
      OBVIOUS
    <3>2. j \in 1..Len(s) - 1 /\ j + 1 = i - Len(r) /\ ~(i <= Len(m)) /\ ~(i <= Len(r))
      BY <1>1, <1>2, <1>3, <1>5, <1>6, <2>3, <3>1
    <3>3. Tail(s)[j] = s[j + 1]
      BY <1>2, <3>2
    <3>4. q[i] = s[i - Len(r)] /\ t[i] = Tail(s)[j]
      BY <1>4, <1>5, <1>6, <3>1, <3>2
    <3> QED BY <3>2, <3>3, <3>4
  <2> QED BY <2>1, <2>2, <2>3, <1>1
<1>8. q = t
  <2>1. q \in Seq(S) /\ t \in Seq(S)
    BY <1>4, <1>5
  <2> QED BY <1>6, <1>7, <2>1, SeqEqual
<1> QED BY <1>a, <1>b, <1>c, <1>8

\* Putting the next word's variable in keeps the dictionary the one defined.
LEMMA DefinedByNext ==
  ASSUME NEW defs \in Seq(Seq(Int)), NEW w \in Seq(Int), NEW env, Inf!DefinedBy(defs, env)
  PROVE  Inf!DefinedBy(Append(defs, w), Inf!Put(env, Inf!NameOf(w), Inf!ValueOf(w)))
<1> DEFINE more == Append(defs, w)
           env2 == Inf!Put(env, Inf!NameOf(w), Inf!ValueOf(w))
           size == Len(defs)
           named(s, n) == {j \in DOMAIN s : Inf!NameOf(s[j]) = n}
<1>1. /\ size \in Nat /\ DOMAIN defs = 1..size /\ DOMAIN more = 1..size + 1
      /\ more[size + 1] = w /\ \A j \in 1..size : more[j] = defs[j]
  OBVIOUS
<1>2. /\ DOMAIN env = {Inf!NameOf(defs[k]) : k \in DOMAIN defs}
      /\ \A n \in DOMAIN env : env[n] = Inf!ValueOf(defs[Inf!Max(named(defs, n))])
  BY DEF Inf!DefinedBy
<1>3. /\ DOMAIN env2 = DOMAIN env \cup {Inf!NameOf(w)}
      /\ \A n \in DOMAIN env2 : env2[n] = IF n = Inf!NameOf(w) THEN Inf!ValueOf(w) ELSE env[n]
  BY DEF Inf!Put
<1> HIDE DEF more, env2, size
<1>4. DOMAIN env2 = {Inf!NameOf(more[k]) : k \in DOMAIN more}
  <2>1. ASSUME NEW n \in DOMAIN env2 PROVE \E k \in DOMAIN more : n = Inf!NameOf(more[k])
    <3>1. CASE n = Inf!NameOf(w)
      <4>1. size + 1 \in DOMAIN more /\ n = Inf!NameOf(more[size + 1])
        BY <1>1, <3>1
      <4> QED BY <4>1
    <3>2. CASE n # Inf!NameOf(w)
      <4>1. PICK k \in DOMAIN defs : n = Inf!NameOf(defs[k])
        BY <1>2, <1>3, <2>1, <3>2
      <4>2. k \in DOMAIN more /\ more[k] = defs[k]
        BY <1>1
      <4> QED BY <4>1, <4>2
    <3> QED BY <3>1, <3>2
  <2>2. ASSUME NEW k \in DOMAIN more PROVE Inf!NameOf(more[k]) \in DOMAIN env2
    <3>1. CASE k = size + 1
      BY <1>1, <1>3, <3>1
    <3>2. CASE k # size + 1
      <4>1. k \in DOMAIN defs /\ more[k] = defs[k]
        BY <1>1, <3>2
      <4> QED BY <4>1, <1>2, <1>3
    <3> QED BY <3>1, <3>2
  <2> QED BY <2>1, <2>2
<1>5. ASSUME NEW n \in DOMAIN env2
      PROVE  env2[n] = Inf!ValueOf(more[Inf!Max(named(more, n))])
  <2>1. CASE n = Inf!NameOf(w)
    <3>1. named(more, n) \subseteq 0..size + 1 /\ size + 1 \in named(more, n) /\ size + 1 \in Nat
      BY <1>1, <2>1
    <3> HIDE DEF named
    <3>2. /\ Inf!Max(named(more, n)) \in named(more, n)
          /\ \A y \in named(more, n) : Inf!Max(named(more, n)) >= y
      <4>1. named(more, n) # {}
        BY <3>1
      <4> QED BY <3>1, <4>1, MaxIs
    <3>3. Inf!Max(named(more, n)) = size + 1
      <4>1. Inf!Max(named(more, n)) \in 0..size + 1 /\ Inf!Max(named(more, n)) >= size + 1
        BY <3>1, <3>2
      <4> QED BY <4>1, <1>1
    <3> QED BY <1>1, <1>3, <2>1, <3>3
  <2>2. CASE n # Inf!NameOf(w)
    <3>1. named(more, n) = named(defs, n)
      <4>1. ASSUME NEW j \in DOMAIN more, Inf!NameOf(more[j]) = n
            PROVE  j \in DOMAIN defs /\ Inf!NameOf(defs[j]) = n
        <5>1. j # size + 1
          BY <1>1, <2>2, <4>1
        <5> QED BY <1>1, <4>1, <5>1
      <4>2. ASSUME NEW j \in DOMAIN defs, Inf!NameOf(defs[j]) = n
            PROVE  j \in DOMAIN more /\ Inf!NameOf(more[j]) = n
        BY <1>1, <4>2
      <4> QED BY <4>1, <4>2
    <3>2. n \in DOMAIN env /\ env2[n] = env[n]
      BY <1>3, <2>2
    <3>3. PICK k \in DOMAIN defs : n = Inf!NameOf(defs[k])
      BY <3>2, <1>2
    <3>4. named(defs, n) \subseteq 0..size /\ k \in named(defs, n)
      BY <1>1, <3>3
    <3>5. named(defs, n) \subseteq DOMAIN defs
      OBVIOUS
    <3> HIDE DEF named
    <3>6. Inf!Max(named(defs, n)) \in named(defs, n)
      <4>1. named(defs, n) # {} /\ size \in Nat
        BY <3>4, <1>1
      <4> QED BY <3>4, <4>1, MaxIs
    <3>7. more[Inf!Max(named(defs, n))] = defs[Inf!Max(named(defs, n))]
      BY <1>1, <3>5, <3>6
    <3>8. env[n] = Inf!ValueOf(defs[Inf!Max(named(defs, n))])
      BY <1>2, <3>2 DEF named
    <3> QED BY <3>1, <3>2, <3>7, <3>8
  <2> QED BY <2>1, <2>2
<1> QED BY <1>4, <1>5 DEF Inf!DefinedBy, more, env2

\* A dictionary has these entries and no others.
IsMeta(d) ==
    /\ d.raised \in BOOLEAN
    /\ d = [raised |-> d.raised, flags |-> d.flags, time_limit |-> d.time_limit,
            given |-> d.given, environ |-> d.environ, interactor_env |-> d.interactor_env]

LEMMA RaiseIs ==
  ASSUME NEW d, IsMeta(d)
  PROVE  IsMeta(Inf!Raise(d)) /\ Inf!Raise(d).raised
<1>1. PICK yes : yes = TRUE
  OBVIOUS
<1>2. Inf!Raise(d) = [d EXCEPT !.raised = yes]
  BY <1>1, Zenon DEF Inf!Raise
<1>3. PICK rest : rest = [raised |-> yes, flags |-> d.flags, time_limit |-> d.time_limit,
         given |-> d.given, environ |-> d.environ, interactor_env |-> d.interactor_env]
  OBVIOUS
<1>4. d = [raised |-> d.raised, flags |-> d.flags, time_limit |-> d.time_limit,
           given |-> d.given, environ |-> d.environ, interactor_env |-> d.interactor_env]
  BY DEF IsMeta
<1>5. [d EXCEPT !.raised = yes] = rest
  BY <1>3, <1>4
<1>6. /\ rest.raised = yes
      /\ rest = [raised |-> rest.raised, flags |-> rest.flags, time_limit |-> rest.time_limit,
            given |-> rest.given, environ |-> rest.environ, interactor_env |-> rest.interactor_env]
  BY <1>3
<1> QED BY <1>1, <1>2, <1>5, <1>6, Zenon DEF IsMeta

LEMMA PutInIs ==
  ASSUME NEW d, IsMeta(d), NEW key, NEW name, NEW value, NEW d2, d2 = Inf!PutIn(d, key, name, value)
  PROVE  /\ IsMeta(d2) /\ d2.raised = d.raised /\ d2.flags = d.flags
         /\ d2.time_limit = d.time_limit /\ d2.given = d.given
         /\ key = "interactor_env" =>
               d2.environ = d.environ /\ d2.interactor_env = Inf!Put(d.interactor_env, name, value)
         /\ key # "interactor_env" =>
               d2.interactor_env = d.interactor_env /\ d2.environ = Inf!Put(d.environ, name, value)
<1>1. CASE key = "interactor_env"
  <2>1. d2 = [d EXCEPT !.interactor_env = Inf!Put(d.interactor_env, name, value)]
    BY <1>1 DEF Inf!PutIn, Inf!Target
  <2> HIDE DEF Inf!Put
  <2> QED BY <1>1, <2>1 DEF IsMeta
<1>2. CASE key # "interactor_env"
  <2>1. d2 = [d EXCEPT !.environ = Inf!Put(d.environ, name, value)]
    BY <1>2 DEF Inf!PutIn, Inf!Target
  <2> QED BY <1>2, <2>1 DEF IsMeta
<1> QED BY <1>1, <1>2

\* The entries before number n, and the last setting among them.
InfBefore(keys, n) == {k \in Inf!With(keys) : k < n}
InfLast(keys, default, n) ==
    IF InfBefore(keys, n) = {} THEN default ELSE Inf!All[Inf!Max(InfBefore(keys, n))].value

LEMMA BeforeNext ==
  ASSUME inf \in InfFiles, NEW n \in 1..InfCount, NEW keys
  PROVE  /\ InfBefore(keys, n + 1) =
               InfBefore(keys, n) \cup (IF Inf!All[n].key \in keys THEN {n} ELSE {})
         /\ \A default : InfLast(keys, default, n + 1) =
               IF Inf!All[n].key \in keys THEN Inf!All[n].value ELSE InfLast(keys, default, n)
<1>1. /\ InfCount \in Nat /\ n \in Nat
      /\ Inf!With(keys) = {k \in 1..InfCount : Inf!All[k].key \in keys}
  BY AllTyped DEF Inf!With
<1>2. \A m : InfBefore(keys, m) = {k \in 1..InfCount : Inf!All[k].key \in keys /\ k < m}
  BY <1>1 DEF InfBefore
<1>3. \A k \in 1..InfCount : k < n + 1 <=> k < n \/ k = n
  BY <1>1
<1>4. InfBefore(keys, n + 1) = InfBefore(keys, n) \cup (IF Inf!All[n].key \in keys THEN {n} ELSE {})
  BY <1>2, <1>3
<1>5. ASSUME NEW default
      PROVE InfLast(keys, default, n + 1) =
               IF Inf!All[n].key \in keys THEN Inf!All[n].value ELSE InfLast(keys, default, n)
  <2>1. CASE Inf!All[n].key \in keys
    <3>1. /\ InfBefore(keys, n + 1) \subseteq 0..n /\ n \in InfBefore(keys, n + 1)
          /\ InfBefore(keys, n + 1) # {}
      <4>1. \A k \in 1..InfCount : k < n + 1 => k \in 0..n
        BY <1>1
      <4> QED BY <1>2, <1>3, <2>1, <4>1
    <3>2. Inf!Max(InfBefore(keys, n + 1)) \in 0..n /\ Inf!Max(InfBefore(keys, n + 1)) >= n
      BY <1>1, <3>1, MaxIs
    <3>3. Inf!Max(InfBefore(keys, n + 1)) = n
      BY <1>1, <3>2
    <3> QED BY <2>1, <3>1, <3>3 DEF InfLast
  <2>2. CASE Inf!All[n].key \notin keys
    <3>1. InfBefore(keys, n + 1) = InfBefore(keys, n)
      BY <1>4, <2>2
    <3> QED BY <2>2, <3>1 DEF InfLast
  <2> QED BY <2>1, <2>2
<1> QED BY <1>4, <1>5

\* What is set by the entries before number n.
InfSettings(n, d) ==
    /\ d.flags = {Inf!All[k].key : k \in InfBefore(Inf!Flags, n)}
    /\ d.time_limit = InfLast(Inf!Times, <<>>, n)
    /\ d.given = [key \in {"max_process_count"}
                           \cup {Inf!All[k].key : k \in InfBefore(Inf!Limits \cup Inf!Once, n)} |->
                    InfLast({key}, <<50>>, n)]

\* What an entry that is not refused changes.
Effect(d, e, d2) ==
    /\ d2.flags = IF e.key \in Inf!Flags THEN d.flags \cup {e.key} ELSE d.flags
    /\ d2.time_limit = IF e.key \in Inf!Times THEN e.value ELSE d.time_limit
    /\ d2.given = IF e.key \in Inf!Limits \cup Inf!Once
                  THEN Inf!Put(d.given, e.key, e.value) ELSE d.given
    /\ ~(e.key \in Inf!EnvKeys /\ Inf!IsQuoted(e.value)) =>
          d2.environ = d.environ /\ d2.interactor_env = d.interactor_env
    /\ e.key \in Inf!EnvKeys /\ Inf!IsQuoted(e.value) =>
          d2 = Inf!PutIn(d, e.key, Inf!slice(e.value, 1, Inf!find(e.value)),
                         Inf!slice(e.value, Inf!find(e.value) + 1, -1))

LEMMA SettingsNext ==
  ASSUME inf \in InfFiles, NEW n \in 1..InfCount, NEW d, NEW d2, InfSettings(n, d),
         NEW e, e = Inf!All[n],
         Effect(d, e, d2)
  PROVE  InfSettings(n + 1, d2)
<1>0. /\ d2.flags = IF e.key \in Inf!Flags THEN d.flags \cup {e.key} ELSE d.flags
      /\ d2.time_limit = IF e.key \in Inf!Times THEN e.value ELSE d.time_limit
      /\ d2.given = IF e.key \in Inf!Limits \cup Inf!Once
                    THEN Inf!Put(d.given, e.key, e.value) ELSE d.given
  BY Zenon DEF Effect
<1>1. d2.flags = {Inf!All[k].key : k \in InfBefore(Inf!Flags, n + 1)}
  <2>1. d.flags = {Inf!All[k].key : k \in InfBefore(Inf!Flags, n)}
    BY DEF InfSettings
  <2>2. InfBefore(Inf!Flags, n + 1) =
           InfBefore(Inf!Flags, n) \cup (IF e.key \in Inf!Flags THEN {n} ELSE {})
    BY BeforeNext
  <2> HIDE DEF Inf!Flags
  <2>3. CASE e.key \in Inf!Flags
    <3>1. d2.flags = d.flags \cup {e.key} /\ InfBefore(Inf!Flags, n + 1) = InfBefore(Inf!Flags, n) \cup {n}
      BY <1>0, <2>2, <2>3
    <3> QED BY <2>1, <3>1
  <2>4. CASE e.key \notin Inf!Flags
    BY <1>0, <2>1, <2>2, <2>4
  <2> QED BY <2>3, <2>4
<1>2. d2.time_limit = InfLast(Inf!Times, <<>>, n + 1)
  <2>1. InfLast(Inf!Times, <<>>, n + 1) =
           IF e.key \in Inf!Times THEN e.value ELSE InfLast(Inf!Times, <<>>, n)
    BY BeforeNext
  <2>2. d.time_limit = InfLast(Inf!Times, <<>>, n)
    BY DEF InfSettings
  <2> QED BY <1>0, <2>1, <2>2
<1>3. d2.given = [key \in {"max_process_count"}
                           \cup {Inf!All[k].key : k \in InfBefore(Inf!Limits \cup Inf!Once, n + 1)} |->
                    InfLast({key}, <<50>>, n + 1)]
  <2> DEFINE keys == Inf!Limits \cup Inf!Once
             names(m) == {"max_process_count"} \cup {Inf!All[k].key : k \in InfBefore(keys, m)}
  <2>1. d.given = [key \in names(n) |-> InfLast({key}, <<50>>, n)]
    BY DEF InfSettings
  <2>2. InfBefore(keys, n + 1) = InfBefore(keys, n) \cup (IF e.key \in keys THEN {n} ELSE {})
    BY BeforeNext
  <2>3. \A key : InfLast({key}, <<50>>, n + 1) =
                    IF e.key = key THEN e.value ELSE InfLast({key}, <<50>>, n)
    <3>1. ASSUME NEW key
          PROVE InfLast({key}, <<50>>, n + 1) =
                    IF e.key = key THEN e.value ELSE InfLast({key}, <<50>>, n)
      <4>1. InfLast({key}, <<50>>, n + 1) =
                    IF Inf!All[n].key \in {key} THEN Inf!All[n].value ELSE InfLast({key}, <<50>>, n)
        BY BeforeNext
      <4> QED BY <4>1
    <3> QED BY <3>1
  <2>4. "max_process_count" \in keys
    BY DEF Inf!Limits
  <2>5. d2.given = IF e.key \in keys THEN Inf!Put(d.given, e.key, e.value) ELSE d.given
    BY <1>0
  <2> HIDE DEF keys
  <2>6. CASE e.key \in keys
    <3>1. names(n + 1) = names(n) \cup {e.key}
      <4>1. InfBefore(keys, n + 1) = InfBefore(keys, n) \cup {n}
        BY <2>2, <2>6
      <4> QED BY <4>1
    <3>2. d2.given = [key \in names(n) \cup {e.key} |->
                        IF key = e.key THEN e.value ELSE d.given[key]]
      <4>1. DOMAIN d.given = names(n)
        <5> HIDE DEF names
        <5> QED BY <2>1
      <4> QED BY <2>5, <2>6, <4>1, Zenon DEF Inf!Put
    <3> HIDE DEF names
    <3>3. ASSUME NEW key \in names(n) \cup {e.key}
          PROVE (IF key = e.key THEN e.value ELSE d.given[key]) = InfLast({key}, <<50>>, n + 1)
      <4>1. CASE key = e.key
        BY <2>3, <4>1
      <4>2. CASE key # e.key
        BY <2>1, <2>3, <4>2
      <4> QED BY <4>1, <4>2
    <3>4. [key \in names(n) \cup {e.key} |-> IF key = e.key THEN e.value ELSE d.given[key]]
             = [key \in names(n) \cup {e.key} |-> InfLast({key}, <<50>>, n + 1)]
      BY <3>3
    <3>5. d2.given = [key \in names(n + 1) |-> InfLast({key}, <<50>>, n + 1)]
      BY <3>1, <3>2, <3>4, Zenon
    <3> QED BY <3>5, Zenon DEF names, keys
  <2>7. CASE e.key \notin keys
    <3>1. names(n + 1) = names(n)
      BY <2>2, <2>7
    <3>2. ASSUME NEW key \in names(n) PROVE key # e.key
      <4>1. ASSUME NEW k \in InfBefore(keys, n) PROVE Inf!All[k].key \in keys
        BY DEF InfBefore, Inf!With
      <4>2. key \in keys
        BY <2>4, <4>1
      <4> QED BY <4>2, <2>7
    <3> HIDE DEF names
    <3>3. \A key \in names(n) : InfLast({key}, <<50>>, n + 1) = InfLast({key}, <<50>>, n)
      BY <2>3, <3>2
    <3>4. d2.given = [key \in names(n + 1) |-> InfLast({key}, <<50>>, n + 1)]
      BY <2>1, <2>5, <2>7, <3>1, <3>3
    <3> QED BY <3>4 DEF names, keys
  <2> QED BY <2>6, <2>7
<1> QED BY <1>1, <1>2, <1>3 DEF InfSettings

\* What each kind of entry does to the dictionary, or why it is refused.
Rejects(d, e) ==
    \/ Inf!Unfit(e)
    \/ e.key \notin UNION {Inf!Flags, Inf!Limits, Inf!Once, Inf!Times, Inf!EnvKeys, {"comment"}}
    \/ e.key \in Inf!Once /\ e.key \in DOMAIN d.given
    \/ e.key \in Inf!EnvKeys /\ Inf!IsQuoted(e.value) /\ Inf!Last(e.value) # Inf!Quote

Parameter(d, e, d2) ==
    IsMeta(d2) /\ (d2.raised <=> Rejects(d, e)) /\ (~d2.raised => Effect(d, e, d2))

LEMMA ParamIs ==
  ASSUME NEW d, IsMeta(d), ~d.raised, NEW e, e.value \in Seq(Int),
         NEW d2, d2 = Inf!parse_param(d, e)
  PROVE  Parameter(d, e, d2)
<1> USE DEF Parameter, Effect
<1>1. ASSUME Rejects(d, e) PROVE Parameter(d, e, Inf!Raise(d))
  BY <1>1, RaiseIs, Zenon
<1>2. CASE Inf!Unfit(e)
  <2>1. d2 = Inf!Raise(d) /\ Rejects(d, e)
    BY <1>2, Zenon DEF Inf!parse_param, Rejects
  <2> QED BY <1>1, <2>1, Zenon
<1>3. CASE ~Inf!Unfit(e)
  <2>1. d2 = CASE e.key \in Inf!Flags -> [d EXCEPT !.flags = @ \cup {e.key}]
           [] e.key \in Inf!Limits -> [d EXCEPT !.given = Inf!Put(@, e.key, e.value)]
           [] e.key \in Inf!Once -> IF e.key \in DOMAIN d.given THEN Inf!Raise(d)
                                ELSE [d EXCEPT !.given = Inf!Put(@, e.key, e.value)]
           [] e.key \in Inf!Times -> [d EXCEPT !.time_limit = e.value]
           [] e.key \in Inf!EnvKeys ->
                 IF Inf!IsQuoted(e.value) THEN Inf!parse_quoted(d, e.key, e.value) ELSE d
           [] e.key = "comment" -> d
           [] OTHER -> Inf!Raise(d)
    BY <1>3, Zenon DEF Inf!parse_param
  <2>2. CASE e.key \in Inf!Flags
    <3>1. d2 = [d EXCEPT !.flags = d.flags \cup {e.key}]
      BY <2>1, <2>2 DEF Inf!Flags, Inf!Limits, Inf!Once, Inf!Times, Inf!EnvKeys
    <3>2. IsMeta(d2) /\ d2.raised = d.raised /\ d2.flags = d.flags \cup {e.key}
          /\ d2.time_limit = d.time_limit /\ d2.given = d.given /\ d2.environ = d.environ
          /\ d2.interactor_env = d.interactor_env
      BY <3>1 DEF IsMeta
    <3>3. ~Rejects(d, e) /\ e.key \notin Inf!Times \cup Inf!Limits \cup Inf!Once \cup Inf!EnvKeys
      BY <1>3, <2>2 DEF Rejects, Inf!Flags, Inf!Limits, Inf!Once, Inf!Times, Inf!EnvKeys
    <3> QED BY <2>2, <3>2, <3>3
  <2>3. CASE e.key \in Inf!Limits
    <3>1. d2 = [d EXCEPT !.given = Inf!Put(d.given, e.key, e.value)]
      BY <2>1, <2>3 DEF Inf!Flags, Inf!Limits, Inf!Once, Inf!Times, Inf!EnvKeys
    <3>2. IsMeta(d2) /\ d2.raised = d.raised /\ d2.flags = d.flags
          /\ d2.time_limit = d.time_limit /\ d2.given = Inf!Put(d.given, e.key, e.value)
          /\ d2.environ = d.environ /\ d2.interactor_env = d.interactor_env
      <4> HIDE DEF Inf!Put
      <4> QED BY <3>1 DEF IsMeta
    <3>3. ~Rejects(d, e) /\ e.key \notin Inf!Times \cup Inf!Flags \cup Inf!EnvKeys
      BY <1>3, <2>3 DEF Rejects, Inf!Flags, Inf!Limits, Inf!Once, Inf!Times, Inf!EnvKeys
    <3> QED BY <2>3, <3>2, <3>3
  <2>4. CASE e.key \in Inf!Once
    <3>1. d2 = IF e.key \in DOMAIN d.given THEN Inf!Raise(d)
               ELSE [d EXCEPT !.given = Inf!Put(d.given, e.key, e.value)]
      BY <2>1, <2>4 DEF Inf!Flags, Inf!Limits, Inf!Once, Inf!Times, Inf!EnvKeys
    <3>2. CASE e.key \in DOMAIN d.given
      <4>1. d2 = Inf!Raise(d) /\ Rejects(d, e)
        BY <3>1, <3>2, <2>4, Zenon DEF Rejects
      <4> QED BY <1>1, <4>1, Zenon
    <3>3. CASE e.key \notin DOMAIN d.given
      <4>1. d2 = [d EXCEPT !.given = Inf!Put(d.given, e.key, e.value)]
        BY <3>1, <3>3
      <4>2. IsMeta(d2) /\ d2.raised = d.raised /\ d2.flags = d.flags
            /\ d2.time_limit = d.time_limit /\ d2.given = Inf!Put(d.given, e.key, e.value)
            /\ d2.environ = d.environ /\ d2.interactor_env = d.interactor_env
        BY <4>1 DEF IsMeta
      <4>3. ~Rejects(d, e) /\ e.key \notin Inf!Times \cup Inf!Flags \cup Inf!EnvKeys
        BY <1>3, <2>4, <3>3 DEF Rejects, Inf!Flags, Inf!Limits, Inf!Once, Inf!Times, Inf!EnvKeys
      <4> QED BY <2>4, <4>2, <4>3
    <3> QED BY <3>2, <3>3
  <2>5. CASE e.key \in Inf!Times
    <3>1. d2 = [d EXCEPT !.time_limit = e.value]
      BY <2>1, <2>5 DEF Inf!Flags, Inf!Limits, Inf!Once, Inf!Times, Inf!EnvKeys
    <3>2. IsMeta(d2) /\ d2.raised = d.raised /\ d2.flags = d.flags
          /\ d2.time_limit = e.value /\ d2.given = d.given
          /\ d2.environ = d.environ /\ d2.interactor_env = d.interactor_env
      BY <3>1 DEF IsMeta
    <3>3. ~Rejects(d, e) /\ e.key \notin Inf!Flags \cup Inf!Limits \cup Inf!Once \cup Inf!EnvKeys
      BY <1>3, <2>5 DEF Rejects, Inf!Flags, Inf!Limits, Inf!Once, Inf!Times, Inf!EnvKeys
    <3> QED BY <2>5, <3>2, <3>3
  <2>6. CASE e.key \in Inf!EnvKeys
    <3>1. d2 = IF Inf!IsQuoted(e.value) THEN Inf!parse_quoted(d, e.key, e.value) ELSE d
      BY <2>1, <2>6 DEF Inf!Flags, Inf!Limits, Inf!Once, Inf!Times, Inf!EnvKeys
    <3>2. e.key \notin Inf!Flags \cup Inf!Limits \cup Inf!Once \cup Inf!Times
          /\ e.key \in UNION {Inf!Flags, Inf!Limits, Inf!Once, Inf!Times, Inf!EnvKeys, {"comment"}}
      BY <2>6 DEF Inf!Flags, Inf!Limits, Inf!Once, Inf!Times, Inf!EnvKeys
    <3>3. CASE ~Inf!IsQuoted(e.value)
      <4>1. d2 = d /\ ~Rejects(d, e)
        BY <1>3, <3>1, <3>2, <3>3 DEF Rejects
      <4> QED BY <2>6, <3>2, <3>3, <4>1
    <3>4. CASE Inf!IsQuoted(e.value) /\ Inf!Last(e.value) # Inf!Quote
      <4>1. d2 = Inf!Raise(d) /\ Rejects(d, e)
        BY <3>1, <3>4, <2>6, Zenon DEF Rejects, Inf!parse_quoted
      <4> QED BY <1>1, <4>1, Zenon
    <3>5. CASE Inf!IsQuoted(e.value) /\ Inf!Last(e.value) = Inf!Quote
      <4> DEFINE name == Inf!slice(e.value, 1, Inf!find(e.value))
                 value == Inf!slice(e.value, Inf!find(e.value) + 1, -1)
      <4>1. d2 = Inf!PutIn(d, e.key, name, value)
        BY <3>1, <3>5, Zenon DEF Inf!parse_quoted
      <4>2. ~Rejects(d, e)
        BY <1>3, <3>2, <3>5, Zenon DEF Rejects
      <4> HIDE DEF name, value
      <4>3. /\ IsMeta(d2) /\ d2.raised = d.raised /\ d2.flags = d.flags
            /\ d2.time_limit = d.time_limit /\ d2.given = d.given
        BY <4>1, PutInIs
      <4>4. e.key \notin Inf!Flags /\ e.key \notin Inf!Times /\ e.key \notin Inf!Limits \cup Inf!Once
        BY <3>2
      <4> QED BY <2>6, <3>5, <4>1, <4>2, <4>3, <4>4, Zenon DEF name, value
    <3> QED BY <3>3, <3>4, <3>5
  <2>7. CASE e.key = "comment"
    <3>1. d2 = d
      BY <2>1, <2>7 DEF Inf!Flags, Inf!Limits, Inf!Once, Inf!Times, Inf!EnvKeys
    <3>2. e.key \notin Inf!Flags \cup Inf!Limits \cup Inf!Once \cup Inf!Times \cup Inf!EnvKeys
      BY <2>7 DEF Inf!Flags, Inf!Limits, Inf!Once, Inf!Times, Inf!EnvKeys
    <3>3. ~Rejects(d, e)
      BY <1>3, <3>2, <2>7 DEF Rejects
    <3> QED BY <3>1, <3>2, <3>3
  <2>8. CASE e.key \notin UNION {Inf!Flags, Inf!Limits, Inf!Once, Inf!Times, Inf!EnvKeys, {"comment"}}
    <3>1. /\ e.key \notin Inf!Flags /\ e.key \notin Inf!Limits /\ e.key \notin Inf!Once
          /\ e.key \notin Inf!Times /\ e.key \notin Inf!EnvKeys /\ e.key # "comment"
      BY <2>8
    <3>2. d2 = Inf!Raise(d) /\ Rejects(d, e)
      BY <2>1, <2>8, <3>1, Zenon DEF Rejects
    <3> QED BY <1>1, <3>2, Zenon
  <2> QED BY <2>2, <2>3, <2>4, <2>5, <2>6, <2>7, <2>8
<1> QED BY <1>2, <1>3, Zenon

\* The words of a kind of environment, entry by entry, and the first of them
\* put together.
InfLists(K) == [k \in DOMAIN Inf!All |->
                  IF k \in Inf!With(K) THEN Inf!Words(Inf!All[k].value) ELSE <<>>]
Joined(K) == CHOOSE g : Joins(g, InfLists(K), InfCount, Seq(Int))

LEMMA JoinedIs ==
  ASSUME inf \in InfFiles, NEW K
  PROVE  /\ Joined(K)[0] = <<>> /\ \A n \in 0..InfCount : Joined(K)[n] \in Seq(Seq(Int))
         /\ Inf!WordsOf(K) = Joined(K)[InfCount]
         /\ \A n \in 1..InfCount :
               /\ Joined(K)[n] = Joined(K)[n - 1] \o InfLists(K)[n]
               /\ InfLists(K)[n] = IF Inf!All[n].key \in K THEN Inf!Words(Inf!All[n].value) ELSE <<>>
               /\ InfLists(K)[n] \in Seq(Seq(Int))
<1>1. /\ InfCount \in Nat /\ DOMAIN Inf!All = 1..InfCount
      /\ \A k \in 1..InfCount : Inf!All[k].value \in Seq(Int)
  BY AllTyped
<1>2. ASSUME NEW n \in 1..InfCount
      PROVE  /\ InfLists(K)[n] = IF Inf!All[n].key \in K THEN Inf!Words(Inf!All[n].value) ELSE <<>>
             /\ InfLists(K)[n] \in Seq(Seq(Int))
  <2>1. InfLists(K)[n] = IF Inf!All[n].key \in K THEN Inf!Words(Inf!All[n].value) ELSE <<>>
    BY <1>1 DEF InfLists, Inf!With
  <2>2. Inf!Words(Inf!All[n].value) \in Seq(Seq(Int))
    <3>1. PICK val \in Seq(Int) : val = Inf!All[n].value
      BY <1>1
    <3>2. CASE Inf!IsQuoted(val)
      <4>1. Inner(val) \in Seq(Int)
        BY <3>2, QuotedParts
      <4>2. Inf!Words(val) = <<Inner(val)>>
        BY <3>2 DEF Inf!Words, Inner
      <4> QED BY <3>1, <4>1, <4>2
    <3>3. CASE ~Inf!IsQuoted(val)
      <4>1. Inf!Words(val) = Inf!split(val)
        BY <3>3 DEF Inf!Words
      <4>2. Inf!split(val) \in Seq(InfWord)
        BY SplitWords
      <4>3. InfWord \subseteq Seq(Int)
        BY DEF InfWord
      <4>4. \A s \in Seq(InfWord) : s \in Seq(Seq(Int))
        BY <4>3
      <4> QED BY <3>1, <4>1, <4>2, <4>4
    <3> QED BY <3>2, <3>3
  <2>3. <<>> \in Seq(Seq(Int))
    OBVIOUS
  <2> QED BY <2>1, <2>2, <2>3
<1>3. InfLists(K) \in Seq(Seq(Seq(Int))) /\ Len(InfLists(K)) = InfCount
  <2>1. DOMAIN InfLists(K) = 1..InfCount /\ InfLists(K) = [k \in 1..InfCount |-> InfLists(K)[k]]
    BY <1>1 DEF InfLists
  <2>2. PICK s : s = InfLists(K)
    OBVIOUS
  <2>3. s \in [1..InfCount -> Seq(Seq(Int))]
    BY <1>2, <2>1, <2>2
  <2> QED BY <1>1, <2>2, <2>3
<1>4. Joins(Joined(K), InfLists(K), InfCount, Seq(Int))
  <2>1. \E g : Joins(g, InfLists(K), InfCount, Seq(Int))
    BY <1>3, JoinsExist
  <2> QED BY <2>1, Zenon DEF Joined
<1>5. Inf!FlattenSeq(InfLists(K)) = Joined(K)[InfCount]
  BY <1>3, <1>4, FlattenIs
<1>6. Inf!WordsOf(K) = Joined(K)[InfCount]
  BY <1>5 DEF Inf!WordsOf, InfLists
<1>7. /\ Joined(K)[0] = <<>> /\ \A n \in 0..InfCount : Joined(K)[n] \in Seq(Seq(Int))
      /\ \A n \in 1..InfCount : Joined(K)[n] = Joined(K)[n - 1] \o InfLists(K)[n]
  <2> HIDE DEF Joined, InfLists
  <2> QED BY <1>4 DEF Joins
<1> QED BY <1>2, <1>6, <1>7

\* The words before number n are those that a dictionary is made of, and rest.
DefinedUpTo(K, n, rest, env) ==
    \E defs \in Seq(Seq(Int)) : /\ defs \o rest = Joined(K)[n - 1]
                                /\ Definitions(defs) => Inf!DefinedBy(defs, env)

LEMMA DefinedEntry ==
  ASSUME inf \in InfFiles, NEW n \in 1..InfCount, NEW K, NEW env, NEW env2,
         DefinedUpTo(K, n, <<>>, env), NEW e, e = Inf!All[n]
  PROVE  /\ e.key \notin K => DefinedUpTo(K, n + 1, <<>>, env)
         /\ e.key \in K /\ ~Inf!IsQuoted(e.value) =>
               DefinedUpTo(K, n + 1, Inf!split(e.value), env)
         /\ /\ e.key \in K /\ Inf!IsQuoted(e.value) /\ Inf!Last(e.value) = Inf!Quote
            /\ env2 = Inf!Put(env, Inf!slice(e.value, 1, Inf!find(e.value)),
                              Inf!slice(e.value, Inf!find(e.value) + 1, -1))
            => DefinedUpTo(K, n + 1, <<>>, env2)
<1>1. PICK defs \in Seq(Seq(Int)) : /\ defs \o <<>> = Joined(K)[n - 1]
                                    /\ Definitions(defs) => Inf!DefinedBy(defs, env)
  BY DEF DefinedUpTo
<1>2. defs = Joined(K)[n - 1]
  BY <1>1, ConcatEmptySeq
<1>3. (n + 1) - 1 = n /\ e.value \in Seq(Int)
  BY AllTyped
<1>4. /\ Joined(K)[(n + 1) - 1] = defs \o InfLists(K)[n]
      /\ InfLists(K)[n] = IF e.key \in K THEN Inf!Words(e.value) ELSE <<>>
  <2>1. /\ Joined(K)[n] = Joined(K)[n - 1] \o InfLists(K)[n]
        /\ InfLists(K)[n] = IF Inf!All[n].key \in K THEN Inf!Words(Inf!All[n].value) ELSE <<>>
    BY JoinedIs
  <2>2. Joined(K)[(n + 1) - 1] = defs \o InfLists(K)[n]
    BY <1>2, <1>3, <2>1
  <2> QED BY <2>1, <2>2
<1>5. ASSUME e.key \notin K PROVE DefinedUpTo(K, n + 1, <<>>, env)
  BY <1>1, <1>4, <1>5 DEF DefinedUpTo
<1>6. ASSUME e.key \in K, ~Inf!IsQuoted(e.value) PROVE DefinedUpTo(K, n + 1, Inf!split(e.value), env)
  <2>1. Inf!Words(e.value) = Inf!split(e.value)
    BY <1>6, Zenon DEF Inf!Words
  <2>2. defs \o Inf!split(e.value) = Joined(K)[(n + 1) - 1]
    BY <1>4, <1>6, <2>1
  <2> QED BY <1>1, <2>2 DEF DefinedUpTo
<1>7. ASSUME e.key \in K, Inf!IsQuoted(e.value), Inf!Last(e.value) = Inf!Quote,
             env2 = Inf!Put(env, Inf!slice(e.value, 1, Inf!find(e.value)),
                              Inf!slice(e.value, Inf!find(e.value) + 1, -1))
      PROVE  DefinedUpTo(K, n + 1, <<>>, env2)
  <2> DEFINE w == Inner(e.value)
             more == Append(defs, w)
  <2>1. w \in Seq(Int) /\ more \in Seq(Seq(Int))
    <3>1. w \in Seq(Int)
      BY <1>3, <1>7, QuotedParts
    <3> HIDE DEF w
    <3> QED BY <3>1
  <2>2. Inf!Words(e.value) = <<w>>
    BY <1>7, Zenon DEF Inf!Words, Inner
  <2>3. more \o <<>> = Joined(K)[(n + 1) - 1]
    <3> HIDE DEF w
    <3>1. Joined(K)[(n + 1) - 1] = defs \o <<w>>
      BY <1>4, <1>7, <2>2
    <3>2. defs \o <<w>> = more
      BY <2>1
    <3>3. more \o <<>> = more
      BY <2>1, ConcatEmptySeq
    <3> QED BY <3>1, <3>2, <3>3
  <2>4. ASSUME Definitions(more) PROVE Inf!DefinedBy(more, env2)
    <3>1. Inf!IsDefinition(w) /\ Definitions(defs)
      <4> HIDE DEF w
      <4> QED BY <2>1, <2>4, DefinitionsMore
    <3>2. env2 = Inf!Put(env, Inf!NameOf(w), Inf!ValueOf(w))
      <4>1. /\ Inf!slice(e.value, 1, Inf!find(e.value)) = Inf!NameOf(w)
            /\ Inf!slice(e.value, Inf!find(e.value) + 1, -1) = Inf!ValueOf(w)
        BY <1>3, <1>7, <3>1, QuotedParts
      <4> QED BY <1>7, <4>1, Zenon
    <3> HIDE DEF w
    <3> QED BY <1>1, <2>1, <3>1, <3>2, DefinedByNext
  <2> HIDE DEF w, more
  <2> QED BY <2>1, <2>3, <2>4 DEF DefinedUpTo
<1> QED BY <1>5, <1>6, <1>7

LEMMA DefinedWord ==
  ASSUME NEW n, NEW K, NEW env, NEW ws \in Seq(InfWord), ws # <<>>,
         DefinedUpTo(K, n, ws, env), NEW w, w = Head(ws),
         NEW env2, env2 = Inf!Put(env, Inf!slice(w, 0, Inf!find(w)),
                                  Inf!slice(w, Inf!find(w) + 1, Len(w)))
  PROVE  DefinedUpTo(K, n, Tail(ws), env2)
<1>1. PICK defs \in Seq(Seq(Int)) : /\ defs \o ws = Joined(K)[n - 1]
                                    /\ Definitions(defs) => Inf!DefinedBy(defs, env)
  BY DEF DefinedUpTo
<1> DEFINE more == Append(defs, w)
<1>2. w \in Seq(Int) /\ ws \in Seq(Seq(Int)) /\ more \in Seq(Seq(Int))
  <2>1. InfWord \subseteq Seq(Int)
    BY DEF InfWord
  <2>2. ws \in Seq(Seq(Int))
    BY <2>1
  <2>3. w \in Seq(Int)
    BY <2>2
  <2> QED BY <2>2, <2>3
<1>3. more \o Tail(ws) = Joined(K)[n - 1]
  <2>1. defs \o ws = more \o Tail(ws)
    BY <1>2, AppendHead
  <2> QED BY <1>1, <2>1
<1>4. ASSUME Definitions(more) PROVE Inf!DefinedBy(more, env2)
  <2>1. Inf!IsDefinition(w) /\ Definitions(defs)
    BY <1>2, <1>4, DefinitionsMore
  <2>2. env2 = Inf!Put(env, Inf!NameOf(w), Inf!ValueOf(w))
    <3>1. /\ Inf!slice(w, 0, Inf!find(w)) = Inf!NameOf(w)
          /\ Inf!slice(w, Inf!find(w) + 1, Len(w)) = Inf!ValueOf(w)
      BY <1>2, <2>1, WordParts
    <3> QED BY <3>1, Zenon
  <2> QED BY <1>1, <1>2, <2>1, <2>2, DefinedByNext
<1> HIDE DEF more
<1> QED BY <1>2, <1>3, <1>4 DEF DefinedUpTo

HasEqualsFirst(ws) == \E w \in DOMAIN ws : ws[w][1] = Inf!Equals

\* An entry is refused for what parse_param raises at or for one of its words.
LEMMA RefusedIs ==
  ASSUME inf \in InfFiles, NEW n \in 1..InfCount, NEW d, InfSettings(n, d), NEW e, e = Inf!All[n]
  PROVE  Inf!Refused(n) <=>
            \/ Rejects(d, e)
            \/ e.key \in Inf!EnvKeys /\ ~Inf!IsQuoted(e.value) /\ HasEqualsFirst(Inf!split(e.value))
<1>1. e.key \in Inf!Once => (e.key \in DOMAIN d.given <=> \E j \in 1..n-1 : Inf!All[j].key = e.key)
  <2> SUFFICES ASSUME e.key \in Inf!Once
               PROVE e.key \in DOMAIN d.given <=> \E j \in 1..n-1 : Inf!All[j].key = e.key
    OBVIOUS
  <2>1. e.key # "max_process_count"
    BY DEF Inf!Once
  <2>2. DOMAIN d.given = {"max_process_count"}
                           \cup {Inf!All[k].key : k \in InfBefore(Inf!Limits \cup Inf!Once, n)}
    BY DEF InfSettings
  <2>3. InfBefore(Inf!Limits \cup Inf!Once, n) =
           {k \in 1..InfCount : Inf!All[k].key \in Inf!Limits \cup Inf!Once /\ k < n}
    BY AllTyped DEF InfBefore, Inf!With
  <2>4. ASSUME e.key \in DOMAIN d.given PROVE \E j \in 1..n-1 : Inf!All[j].key = e.key
    <3>1. PICK k \in InfBefore(Inf!Limits \cup Inf!Once, n) : e.key = Inf!All[k].key
      BY <2>1, <2>2, <2>4
    <3>2. k \in 1..n-1
      BY <2>3
    <3> QED BY <3>1, <3>2
  <2>5. ASSUME NEW j \in 1..n-1, Inf!All[j].key = e.key PROVE e.key \in DOMAIN d.given
    <3>1. InfCount \in Nat
      BY AllTyped
    <3>2. j \in 1..InfCount /\ j < n
      BY <3>1
    <3>3. j \in InfBefore(Inf!Limits \cup Inf!Once, n)
      BY <2>3, <2>5, <3>2
    <3> QED BY <2>2, <2>5, <3>3
  <2> QED BY <2>4, <2>5
<1>2. Inf!Refused(n) <=>
         \/ Inf!Unfit(e)
         \/ e.key \notin UNION {Inf!Flags, Inf!Limits, Inf!Once, Inf!Times, Inf!EnvKeys, {"comment"}}
         \/ e.key \in Inf!Once /\ \E j \in 1..n-1 : Inf!All[j].key = e.key
         \/ /\ e.key \in Inf!EnvKeys
            /\ IF Inf!IsQuoted(e.value) THEN Inf!Last(e.value) # Inf!Quote
               ELSE HasEqualsFirst(Inf!split(e.value))
  BY Zenon DEF Inf!Refused, Inf!Unfit, HasEqualsFirst
<1> QED BY <1>1, <1>2, Zenon DEF Rejects

ProgramEnv == {"environ", "compiler_env"}
InteractorEnv == {"interactor_env"}

\* Of the words not yet parsed, those that belong to a kind of environment.
InfPending(K, n, ws) == IF n > 1 /\ Inf!All[n - 1].key \in K THEN ws ELSE <<>>

InfWords(n, ws) ==
    ws # <<>> =>
       /\ n > 1 /\ Inf!All[n - 1].key \in Inf!EnvKeys
       /\ ~Inf!IsQuoted(Inf!All[n - 1].value)
       /\ \A w \in DOMAIN ws : \E v \in DOMAIN Inf!split(Inf!All[n - 1].value) :
             ws[w] = Inf!split(Inf!All[n - 1].value)[v]

InfRefusals(n, ws, d) ==
    /\ d.raised => \E k \in 1..InfCount : Inf!Refused(k)
    /\ ~d.raised => \A k \in 1..InfCount :
          k < n /\ Inf!Refused(k) => k = n - 1 /\ HasEqualsFirst(ws)

InfEnvs(n, ws, d) ==
    /\ DefinedUpTo(ProgramEnv, n, InfPending(ProgramEnv, n, ws), d.environ)
    /\ DefinedUpTo(InteractorEnv, n, InfPending(InteractorEnv, n, ws), d.interactor_env)

\* The parser before entry n, with words of the entry before it to parse.
InfSound(n, ws, d) ==
    /\ inf \in InfFiles /\ n \in 1..InfCount + 1 /\ ws \in Seq(InfWord) /\ IsMeta(d)
    /\ InfWords(n, ws) /\ InfRefusals(n, ws, d)
    /\ ~d.raised => InfSettings(n, d) /\ InfEnvs(n, ws, d)

LEMMA EntrySound ==
  ASSUME NEW n \in 1..InfCount, NEW d, InfSound(n, <<>>, d), ~d.raised,
         NEW e, e = Inf!All[n], NEW d2, d2 = Inf!parse_param(d, e),
         NEW ws, ws = IF e.key \in Inf!EnvKeys /\ ~Inf!IsQuoted(e.value)
                      THEN Inf!split(e.value) ELSE <<>>
  PROVE  InfSound(n + 1, ws, d2)
<1>1. /\ inf \in InfFiles /\ IsMeta(d) /\ InfSettings(n, d)
      /\ DefinedUpTo(ProgramEnv, n, <<>>, d.environ)
      /\ DefinedUpTo(InteractorEnv, n, <<>>, d.interactor_env)
      /\ \A k \in 1..InfCount : k < n /\ Inf!Refused(k) => HasEqualsFirst(<<>>)
  <2>1. /\ inf \in InfFiles /\ IsMeta(d) /\ InfSettings(n, d) /\ InfEnvs(n, <<>>, d)
        /\ InfRefusals(n, <<>>, d)
    BY Zenon DEF InfSound
  <2>2. \A K : InfPending(K, n, <<>>) = <<>>
    BY Zenon DEF InfPending
  <2>3. \A k \in 1..InfCount : k < n /\ Inf!Refused(k) => HasEqualsFirst(<<>>)
    BY <2>1, Zenon DEF InfRefusals
  <2> QED BY <2>1, <2>2, <2>3, Zenon DEF InfEnvs
<1>2. InfCount \in Nat /\ n \in Nat /\ e.value \in Seq(Int) /\ (n + 1) - 1 = n /\ n + 1 > 1
      /\ n + 1 \in 1..InfCount + 1
  BY <1>1, AllTyped
<1>3. \A k \in 1..InfCount : k < n + 1 /\ Inf!Refused(k) => k = n
  <2>1. ~HasEqualsFirst(<<>>)
    BY DEF HasEqualsFirst
  <2>2. \A k \in 1..InfCount : k < n + 1 => k < n \/ k = n
    BY <1>2
  <2> QED BY <1>1, <2>1, <2>2, Zenon
<1>4. ws \in Seq(InfWord)
  <2>1. Inf!split(e.value) \in Seq(InfWord)
    BY <1>2, SplitWords
  <2> QED BY <2>1
<1>5. InfWords(n + 1, ws)
  BY <1>2 DEF InfWords
<1>6. Parameter(d, e, d2)
  BY <1>1, <1>2, ParamIs
<1>7. Inf!Refused(n) <=>
         \/ Rejects(d, e)
         \/ e.key \in Inf!EnvKeys /\ ~Inf!IsQuoted(e.value) /\ HasEqualsFirst(Inf!split(e.value))
  BY <1>1, RefusedIs
<1>8. InfRefusals(n + 1, ws, d2)
  <2>1. d2.raised => \E k \in 1..InfCount : Inf!Refused(k)
    BY <1>6, <1>7, Zenon DEF Parameter
  <2>2. ASSUME ~d2.raised, Inf!Refused(n) PROVE HasEqualsFirst(ws)
    BY <1>6, <1>7, <2>2, Zenon DEF Parameter
  <2>3. \A k \in 1..InfCount :
          k < n + 1 /\ Inf!Refused(k) => k = n /\ (~d2.raised => HasEqualsFirst(ws))
    BY <1>3, <2>2, Zenon
  <2> QED BY <1>2, <2>1, <2>3, Zenon DEF InfRefusals
<1>9. ASSUME ~d2.raised PROVE InfSettings(n + 1, d2)
  <2>1. Effect(d, e, d2)
    BY <1>6, <1>9, Zenon DEF Parameter
  <2> QED BY <1>1, <2>1, SettingsNext
<1>10. ASSUME ~d2.raised PROVE InfEnvs(n + 1, ws, d2)
  <2> DEFINE name == Inf!slice(e.value, 1, Inf!find(e.value))
             value == Inf!slice(e.value, Inf!find(e.value) + 1, -1)
  <2>1. ASSUME NEW K PROVE InfPending(K, n + 1, ws) = IF e.key \in K THEN ws ELSE <<>>
    BY <1>2 DEF InfPending
  <2>2. CASE ~(e.key \in Inf!EnvKeys /\ Inf!IsQuoted(e.value))
    <3>1. d2.environ = d.environ /\ d2.interactor_env = d.interactor_env
      BY <1>6, <1>10, <2>2, Zenon DEF Parameter, Effect
    <3>2. ASSUME NEW K, K \subseteq Inf!EnvKeys, NEW env, DefinedUpTo(K, n, <<>>, env)
          PROVE DefinedUpTo(K, n + 1, InfPending(K, n + 1, ws), env)
      <4>1. /\ e.key \notin K => DefinedUpTo(K, n + 1, <<>>, env)
            /\ e.key \in K /\ ~Inf!IsQuoted(e.value) =>
                  DefinedUpTo(K, n + 1, Inf!split(e.value), env)
        BY <1>1, <3>2, DefinedEntry
      <4>2. CASE e.key \in K
        <5>1. e.key \in Inf!EnvKeys /\ ~Inf!IsQuoted(e.value)
          BY <2>2, <3>2, <4>2
        <5> QED BY <2>1, <4>1, <4>2, <5>1, Zenon
      <4>3. CASE e.key \notin K
        BY <2>1, <4>1, <4>3, Zenon
      <4> QED BY <4>2, <4>3
    <3>3. ProgramEnv \subseteq Inf!EnvKeys /\ InteractorEnv \subseteq Inf!EnvKeys
      BY DEF ProgramEnv, InteractorEnv, Inf!EnvKeys
    <3> QED BY <1>1, <3>1, <3>2, <3>3, Zenon DEF InfEnvs
  <2>3. CASE e.key \in Inf!EnvKeys /\ Inf!IsQuoted(e.value)
    <3>1. d2 = Inf!PutIn(d, e.key, name, value) /\ Inf!Last(e.value) = Inf!Quote
      BY <1>6, <1>10, <2>3, Zenon DEF Rejects, Parameter, Effect
    <3> HIDE DEF name, value
    <3>2. /\ e.key = "interactor_env" =>
               d2.environ = d.environ /\ d2.interactor_env = Inf!Put(d.interactor_env, name, value)
          /\ e.key # "interactor_env" =>
               d2.interactor_env = d.interactor_env /\ d2.environ = Inf!Put(d.environ, name, value)
      BY <1>1, <3>1, PutInIs
    <3>3. ASSUME NEW K, NEW env, DefinedUpTo(K, n, <<>>, env)
          PROVE  /\ e.key \notin K => DefinedUpTo(K, n + 1, <<>>, env)
                 /\ e.key \in K => DefinedUpTo(K, n + 1, <<>>, Inf!Put(env, name, value))
      <4>1. PICK env2 : env2 = Inf!Put(env, name, value)
        OBVIOUS
      <4>2. e.key \notin K => DefinedUpTo(K, n + 1, <<>>, env)
        BY <1>1, <3>3, DefinedEntry
      <4>3. e.key \in K => DefinedUpTo(K, n + 1, <<>>, env2)
        BY <1>1, <2>3, <3>1, <3>3, <4>1, DefinedEntry DEF name, value
      <4> QED BY <4>1, <4>2, <4>3, Zenon
    <3>4. ws = <<>> /\ \A K : InfPending(K, n + 1, ws) = <<>>
      <4>1. ws = <<>>
        BY <2>3
      <4> QED BY <4>1, <2>1
    <3>5. CASE e.key = "interactor_env"
      <4>1. e.key \in InteractorEnv /\ e.key \notin ProgramEnv
        BY <3>5 DEF ProgramEnv, InteractorEnv
      <4> QED BY <1>1, <3>2, <3>3, <3>4, <3>5, <4>1, Zenon DEF InfEnvs
    <3>6. CASE e.key # "interactor_env"
      <4>1. e.key \notin InteractorEnv /\ e.key \in ProgramEnv
        BY <2>3, <3>6 DEF ProgramEnv, InteractorEnv, Inf!EnvKeys
      <4> QED BY <1>1, <3>2, <3>3, <3>4, <3>6, <4>1, Zenon DEF InfEnvs
    <3> QED BY <3>5, <3>6
  <2> QED BY <2>2, <2>3
<1> QED BY <1>1, <1>2, <1>4, <1>5, <1>6, <1>8, <1>9, <1>10, Zenon DEF InfSound, Parameter

LEMMA WordIs ==
  ASSUME NEW d, IsMeta(d), ~d.raised, NEW key, NEW w \in InfWord,
         NEW d2, d2 = Inf!parse_word(d, key, w)
  PROVE  /\ IsMeta(d2) /\ (d2.raised <=> w[1] = Inf!Equals)
         /\ ~d2.raised => d2 = Inf!PutIn(d, key, Inf!slice(w, 0, Inf!find(w)),
                                         Inf!slice(w, Inf!find(w) + 1, Len(w)))
<1>1. w \in Seq(Int) /\ Len(w) \in Nat /\ Len(w) >= 1
  <2>1. w \in Seq(Int) /\ w # <<>>
    BY DEF InfWord
  <2> QED BY <2>1
<1>2. Inf!find(w) = 0 <=> w[1] = Inf!Equals
  <2>1. ASSUME w[1] = Inf!Equals PROVE Inf!find(w) = 0
    <3>1. Inf!IsDefinition(w)
      BY <1>1, <2>1 DEF Inf!IsDefinition
    <3>2. /\ Inf!EqualsAt(w) \in 1..Len(w) /\ Inf!EqualsAt(w) <= 1
          /\ Inf!find(w) = Inf!EqualsAt(w) - 1
      <4>1. /\ Inf!EqualsAt(w) \in 1..Len(w)
            /\ \A k \in 1..Len(w) : w[k] = Inf!Equals => Inf!EqualsAt(w) <= k
            /\ Inf!find(w) = Inf!EqualsAt(w) - 1
        BY <1>1, <3>1, WordParts
      <4>2. 1 \in 1..Len(w)
        BY <1>1
      <4> QED BY <2>1, <4>1, <4>2
    <3> QED BY <1>1, <3>2
  <2>2. ASSUME Inf!find(w) = 0 PROVE w[1] = Inf!Equals
    <3>1. EqualsIn(w) # {}
      BY <1>1, <2>2, FindFacts
    <3>2. Inf!IsDefinition(w)
      BY <3>1 DEF Inf!IsDefinition, EqualsIn
    <3>3. /\ Inf!EqualsAt(w) \in 1..Len(w) /\ w[Inf!EqualsAt(w)] = Inf!Equals
          /\ Inf!find(w) = Inf!EqualsAt(w) - 1
      BY <1>1, <3>2, WordParts
    <3>4. Inf!EqualsAt(w) = 1
      BY <1>1, <2>2, <3>3
    <3> QED BY <3>3, <3>4
  <2> QED BY <2>1, <2>2
<1>3. CASE w[1] = Inf!Equals
  <2>1. d2 = Inf!Raise(d)
    BY <1>2, <1>3, Zenon DEF Inf!parse_word
  <2> QED BY <1>3, <2>1, RaiseIs, Zenon
<1>4. CASE w[1] # Inf!Equals
  <2> DEFINE name == Inf!slice(w, 0, Inf!find(w))
             value == Inf!slice(w, Inf!find(w) + 1, Len(w))
  <2>1. d2 = Inf!PutIn(d, key, name, value)
    BY <1>2, <1>4, Zenon DEF Inf!parse_word
  <2> HIDE DEF name, value
  <2>2. IsMeta(d2) /\ d2.raised = d.raised
    BY <2>1, PutInIs
  <2> QED BY <1>4, <2>1, <2>2, Zenon DEF name, value
<1> QED BY <1>3, <1>4

LEMMA WordSound ==
  ASSUME NEW n, NEW ws, NEW d, InfSound(n, ws, d), ~d.raised, ws # <<>>,
         NEW d2, d2 = Inf!parse_word(d, Inf!All[n - 1].key, Head(ws))
  PROVE  InfSound(n, Tail(ws), d2)
<1> DEFINE w == Head(ws)
           e == Inf!All[n - 1]
           name == Inf!slice(w, 0, Inf!find(w))
           value == Inf!slice(w, Inf!find(w) + 1, Len(w))
<1>1. /\ inf \in InfFiles /\ n \in 1..InfCount + 1 /\ ws \in Seq(InfWord) /\ IsMeta(d)
      /\ InfWords(n, ws) /\ InfRefusals(n, ws, d) /\ InfSettings(n, d) /\ InfEnvs(n, ws, d)
  BY Zenon DEF InfSound
<1>2. /\ n > 1 /\ e.key \in Inf!EnvKeys /\ ~Inf!IsQuoted(e.value)
      /\ \A i \in DOMAIN ws : \E v \in DOMAIN Inf!split(e.value) : ws[i] = Inf!split(e.value)[v]
  BY <1>1, Zenon DEF InfWords
<1>3. /\ InfCount \in Nat /\ n \in Nat /\ n - 1 \in 1..InfCount
      /\ w \in InfWord /\ Tail(ws) \in Seq(InfWord) /\ DOMAIN ws = 1..Len(ws) /\ Len(ws) \in Nat
      /\ 1 \in DOMAIN ws /\ w = ws[1] /\ Len(Tail(ws)) = Len(ws) - 1
      /\ \A i \in 1..Len(ws) - 1 : Tail(ws)[i] = ws[i + 1]
  <2>1. InfCount \in Nat
    BY <1>1, AllTyped
  <2>2. n \in Nat /\ n - 1 \in 1..InfCount
    BY <1>1, <1>2, <2>1
  <2>3. ws \in Seq(InfWord) /\ ws # <<>>
    BY <1>1
  <2>4. /\ w \in InfWord /\ Tail(ws) \in Seq(InfWord) /\ DOMAIN ws = 1..Len(ws) /\ Len(ws) \in Nat
        /\ 1 \in DOMAIN ws /\ w = ws[1]
    BY <2>3
  <2>5. /\ Len(Tail(ws)) = Len(ws) - 1
        /\ \A i \in 1..Len(ws) - 1 : Tail(ws)[i] = ws[i + 1]
    BY <2>3, HeadTailProperties
  <2> QED BY <2>1, <2>2, <2>4, <2>5
<1> HIDE DEF w
<1>4. /\ IsMeta(d2) /\ (d2.raised <=> w[1] = Inf!Equals)
      /\ ~d2.raised => d2 = Inf!PutIn(d, e.key, name, value)
  <2>1. d2 = Inf!parse_word(d, e.key, w)
    BY DEF w
  <2> QED BY <1>1, <1>3, <2>1, WordIs
<1>5. InfWords(n, Tail(ws))
  <2>1. \A i \in DOMAIN Tail(ws) : \E v \in DOMAIN Inf!split(e.value) :
           Tail(ws)[i] = Inf!split(e.value)[v]
    <3>1. ASSUME NEW i \in DOMAIN Tail(ws)
          PROVE \E v \in DOMAIN Inf!split(e.value) : Tail(ws)[i] = Inf!split(e.value)[v]
      <4>1. i \in 1..Len(ws) - 1
        BY <1>3
      <4>2. i + 1 \in DOMAIN ws /\ Tail(ws)[i] = ws[i + 1]
        BY <1>3, <4>1
      <4> QED BY <1>2, <4>2
    <3> QED BY <3>1
  <2> QED BY <1>2, <2>1, Zenon DEF InfWords
<1>6. InfRefusals(n, Tail(ws), d2)
  <2>1. ASSUME d2.raised PROVE \E k \in 1..InfCount : Inf!Refused(k)
    <3>1. ws[1][1] = Inf!Equals
      BY <1>3, <1>4, <2>1
    <3>2. HasEqualsFirst(Inf!split(e.value))
      BY <1>2, <1>3, <3>1 DEF HasEqualsFirst
    <3>3. Inf!Refused(n - 1)
      BY <1>2, <3>2, Zenon DEF Inf!Refused, HasEqualsFirst
    <3> QED BY <1>3, <3>3
  <2>2. ASSUME ~d2.raised, HasEqualsFirst(ws) PROVE HasEqualsFirst(Tail(ws))
    <3>1. PICK i \in DOMAIN ws : ws[i][1] = Inf!Equals
      BY <2>2 DEF HasEqualsFirst
    <3>2. i # 1
      BY <1>3, <1>4, <2>2, <3>1
    <3>3. i - 1 \in 1..Len(ws) - 1 /\ (i - 1) + 1 = i
      BY <1>3, <3>2
    <3>4. PICK j : j = i - 1
      OBVIOUS
    <3>5. j \in DOMAIN Tail(ws) /\ Tail(ws)[j] = ws[i]
      BY <1>3, <3>3, <3>4
    <3> QED BY <3>1, <3>5 DEF HasEqualsFirst
  <2>3. \A k \in 1..InfCount : k < n /\ Inf!Refused(k) => k = n - 1 /\ HasEqualsFirst(ws)
    BY <1>1, Zenon DEF InfRefusals
  <2> QED BY <2>1, <2>2, <2>3, Zenon DEF InfRefusals
<1>7. ASSUME ~d2.raised PROVE InfSettings(n, d2) /\ InfEnvs(n, Tail(ws), d2)
  <2>1. d2 = Inf!PutIn(d, e.key, name, value)
    BY <1>4, <1>7
  <2> HIDE DEF name, value
  <2>2. /\ d2.flags = d.flags /\ d2.time_limit = d.time_limit /\ d2.given = d.given
        /\ e.key = "interactor_env" =>
               d2.environ = d.environ /\ d2.interactor_env = Inf!Put(d.interactor_env, name, value)
        /\ e.key # "interactor_env" =>
               d2.interactor_env = d.interactor_env /\ d2.environ = Inf!Put(d.environ, name, value)
    BY <1>1, <2>1, PutInIs
  <2>3. InfSettings(n, d2)
    BY <1>1, <2>2 DEF InfSettings
  <2>4. /\ DefinedUpTo(ProgramEnv, n, InfPending(ProgramEnv, n, ws), d.environ)
        /\ DefinedUpTo(InteractorEnv, n, InfPending(InteractorEnv, n, ws), d.interactor_env)
    BY <1>1, Zenon DEF InfEnvs
  <2>5. ASSUME NEW K, NEW s PROVE InfPending(K, n, s) = IF e.key \in K THEN s ELSE <<>>
    BY <1>2 DEF InfPending
  <2>6. ASSUME NEW K, NEW env, DefinedUpTo(K, n, InfPending(K, n, ws), env)
        PROVE  /\ e.key \notin K => DefinedUpTo(K, n, InfPending(K, n, Tail(ws)), env)
               /\ e.key \in K =>
                    DefinedUpTo(K, n, InfPending(K, n, Tail(ws)), Inf!Put(env, name, value))
    <3>1. ASSUME e.key \notin K PROVE DefinedUpTo(K, n, InfPending(K, n, Tail(ws)), env)
      BY <2>5, <2>6, <3>1, Zenon
    <3>2. ASSUME e.key \in K
          PROVE DefinedUpTo(K, n, InfPending(K, n, Tail(ws)), Inf!Put(env, name, value))
      <4>1. DefinedUpTo(K, n, ws, env)
        BY <2>5, <2>6, <3>2, Zenon
      <4>2. PICK env2 : env2 = Inf!Put(env, name, value)
        OBVIOUS
      <4>3. DefinedUpTo(K, n, Tail(ws), env2)
        BY <1>1, <4>1, <4>2, DefinedWord DEF name, value, w
      <4> QED BY <2>5, <3>2, <4>2, <4>3, Zenon
    <3> QED BY <3>1, <3>2
  <2>7. CASE e.key = "interactor_env"
    <3>1. e.key \in InteractorEnv /\ e.key \notin ProgramEnv
      BY <2>7 DEF ProgramEnv, InteractorEnv
    <3> QED BY <2>2, <2>3, <2>4, <2>6, <2>7, <3>1, Zenon DEF InfEnvs
  <2>8. CASE e.key # "interactor_env"
    <3>1. e.key \notin InteractorEnv /\ e.key \in ProgramEnv
      BY <1>2, <2>8 DEF ProgramEnv, InteractorEnv, Inf!EnvKeys
    <3> QED BY <2>2, <2>3, <2>4, <2>6, <2>8, <3>1, Zenon DEF InfEnvs
  <2> QED BY <2>7, <2>8
<1> QED BY <1>1, <1>3, <1>4, <1>5, <1>6, <1>7, Zenon DEF InfSound

InfInv == program = "inf-file" => InfSound(entry, words, meta)

LEMMA InfStarts == ASSUME Inf!Init PROVE InfSound(entry, words, meta)
<1>1. inf \in InfFiles /\ entry = 1 /\ words = <<>> /\ meta = Inf!NewDictionary
  BY DEF Inf!Init
<1>2. InfCount \in Nat /\ entry \in 1..InfCount + 1 /\ words \in Seq(InfWord)
  BY <1>1, AllTyped
<1>3. /\ ~meta.raised /\ meta.flags = {} /\ meta.time_limit = <<>>
      /\ meta.given = [key \in {"max_process_count"} |-> <<50>>]
      /\ DOMAIN meta.environ = {} /\ DOMAIN meta.interactor_env = {}
  BY <1>1 DEF Inf!NewDictionary
<1>4. IsMeta(meta)
  BY <1>1 DEF Inf!NewDictionary, IsMeta
<1>5. \A keys : InfBefore(keys, 1) = {}
  <2>1. \A k \in 1..InfCount : ~(k < 1)
    BY <1>2
  <2> QED BY <1>1, <2>1, AllTyped DEF InfBefore, Inf!With
<1>6. InfSettings(1, meta)
  <2>1. \A keys, default : InfLast(keys, default, 1) = default
    BY <1>5 DEF InfLast
  <2>2. {"max_process_count"} \cup {Inf!All[k].key : k \in InfBefore(Inf!Limits \cup Inf!Once, 1)}
           = {"max_process_count"}
    BY <1>5
  <2>3. {Inf!All[k].key : k \in InfBefore(Inf!Flags, 1)} = {}
    BY <1>5
  <2>4. [key \in {"max_process_count"} |-> InfLast({key}, <<50>>, 1)]
           = [key \in {"max_process_count"} |-> <<50>>]
    BY <2>1
  <2> QED BY <1>3, <2>1, <2>2, <2>3, <2>4 DEF InfSettings
<1>7. ASSUME NEW K, NEW env, DOMAIN env = {} PROVE DefinedUpTo(K, 1, InfPending(K, 1, <<>>), env)
  <2>1. InfPending(K, 1, <<>>) = <<>>
    BY DEF InfPending
  <2>2. Joined(K)[1 - 1] = <<>>
    <3>1. Joined(K)[0] = <<>>
      BY <1>1, JoinedIs
    <3> QED BY <3>1
  <2>3. Inf!DefinedBy(<<>>, env)
    BY <1>7 DEF Inf!DefinedBy
  <2>4. <<>> \in Seq(Seq(Int)) /\ <<>> \o <<>> = <<>>
    OBVIOUS
  <2> QED BY <2>1, <2>2, <2>3, <2>4 DEF DefinedUpTo
<1>8. InfEnvs(1, <<>>, meta)
  BY <1>3, <1>7, Zenon DEF InfEnvs
<1>9. InfWords(1, <<>>)
  BY Zenon DEF InfWords
<1>10. InfRefusals(1, <<>>, meta)
  <2>1. \A k \in 1..InfCount : ~(k < 1)
    BY <1>2
  <2> QED BY <1>3, <2>1, Zenon DEF InfRefusals
<1> QED BY <1>1, <1>2, <1>4, <1>6, <1>8, <1>9, <1>10, Zenon DEF InfSound

LEMMA InfGoesOn ==
  ASSUME InfSound(entry, words, meta), Inf!Next
  PROVE  InfSound(entry', words', meta') /\ inf' = inf
<1>1. inf \in InfFiles /\ entry \in 1..InfCount + 1
  BY Zenon DEF InfSound
<1>2. InfCount \in Nat /\ Inf!Entries = Inf!All
  BY <1>1, AllTyped
<1>3. CASE Inf!Entry
  <2>1. /\ ~meta.raised /\ words = <<>> /\ entry <= Len(Inf!Entries) /\ entry' = entry + 1
        /\ inf' = inf
    BY <1>3, Zenon DEF Inf!Entry, Inf!Raised
  <2>2. PICK e : /\ e = Inf!All[entry] /\ meta' = Inf!parse_param(meta, e)
                 /\ words' = IF e.key \in Inf!EnvKeys /\ ~Inf!IsQuoted(e.value)
                             THEN Inf!split(e.value) ELSE <<>>
    BY <1>2, <1>3 DEF Inf!Entry
  <2>3. entry \in 1..InfCount
    BY <1>1, <1>2, <2>1 DEF InfCount
  <2>4. InfSound(entry, <<>>, meta)
    BY <2>1
  <2>5. InfSound(entry + 1, words', meta')
    BY <2>1, <2>2, <2>3, <2>4, EntrySound, Zenon
  <2> QED BY <2>1, <2>5
<1>4. CASE Inf!Word
  <2>1. /\ ~meta.raised /\ words # <<>> /\ words' = Tail(words) /\ entry' = entry /\ inf' = inf
        /\ meta' = Inf!parse_word(meta, Inf!All[entry - 1].key, Head(words))
    BY <1>2, <1>4, Zenon DEF Inf!Word, Inf!Raised
  <2>2. InfSound(entry, Tail(words), meta')
    BY <2>1, WordSound, Zenon
  <2> QED BY <2>1, <2>2
<1> QED BY <1>3, <1>4, Zenon DEF Inf!Next

\* What is known of the parser depends on the files only.
LEMMA InfSoundKept ==
  ASSUME inf' = inf, InfSound(entry', words', meta')
  PROVE  InfSound(entry, words, meta)'
<1>1. Inf!All' = Inf!All
  BY DEF Inf!All
<1>2. InfCount' = InfCount /\ \A keys : Inf!With(keys)' = Inf!With(keys)
  BY <1>1 DEF InfCount, Inf!With
<1>3. \A k : Inf!Refused(k)' <=> Inf!Refused(k)
  BY <1>1 DEF Inf!Refused
<1>4. \A keys, n : InfBefore(keys, n)' = InfBefore(keys, n)
  BY <1>2 DEF InfBefore
<1>5. \A keys, default, n : InfLast(keys, default, n)' = InfLast(keys, default, n)
  BY <1>1, <1>4 DEF InfLast
<1>6. \A K : Joined(K)' = Joined(K)
  BY <1>1, <1>2 DEF Joined, InfLists
<1>7. \A K, n, rest, env : DefinedUpTo(K, n, rest, env)' <=> DefinedUpTo(K, n, rest, env)
  BY <1>6 DEF DefinedUpTo
<1>8. \A K, n, ws : InfPending(K, n, ws)' = InfPending(K, n, ws)
  BY <1>1 DEF InfPending
<1>9. InfWords(entry, words)'
  BY <1>1 DEF InfSound, InfWords
<1>10. InfRefusals(entry, words, meta)'
  BY <1>2, <1>3 DEF InfSound, InfRefusals
<1>11. ~meta'.raised => InfSettings(entry, meta)'
  <2> SUFFICES ASSUME ~meta'.raised PROVE InfSettings(entry, meta)'
    OBVIOUS
  <2>1. /\ meta'.flags = {Inf!All[k].key : k \in InfBefore(Inf!Flags, entry')}
        /\ meta'.time_limit = InfLast(Inf!Times, <<>>, entry')
        /\ meta'.given = [key \in {"max_process_count"}
                   \cup {Inf!All[k].key : k \in InfBefore(Inf!Limits \cup Inf!Once, entry')} |->
                             InfLast({key}, <<50>>, entry')]
    BY Zenon DEF InfSound, InfSettings
  <2>2. {Inf!All[k].key : k \in InfBefore(Inf!Flags, entry)}'
           = {Inf!All[k].key : k \in InfBefore(Inf!Flags, entry')}
    BY <1>1, <1>4
  <2>3. InfLast(Inf!Times, <<>>, entry)' = InfLast(Inf!Times, <<>>, entry')
    BY <1>5
  <2>4. {Inf!All[k].key : k \in InfBefore(Inf!Limits \cup Inf!Once, entry)}'
           = {Inf!All[k].key : k \in InfBefore(Inf!Limits \cup Inf!Once, entry')}
    BY <1>1, <1>4
  <2>5. \A key : InfLast({key}, <<50>>, entry)' = InfLast({key}, <<50>>, entry')
    BY <1>5
  <2>6. [key \in {"max_process_count"}
           \cup {Inf!All[k].key : k \in InfBefore(Inf!Limits \cup Inf!Once, entry)} |->
             InfLast({key}, <<50>>, entry)]' = meta'.given
    BY <2>1, <2>4, <2>5
  <2> QED BY <2>1, <2>2, <2>3, <2>6 DEF InfSettings
<1>12. ~meta'.raised => InfEnvs(entry, words, meta)'
  BY <1>7, <1>8 DEF InfSound, InfEnvs
<1> QED BY <1>2, <1>9, <1>10, <1>11, <1>12 DEF InfSound

LEMMA InfEnds ==
  ASSUME InfSound(entry, words, meta)
  PROVE  Inf!InfRight
<1> SUFFICES ASSUME Inf!Parsed
             PROVE  IF \E k \in DOMAIN Inf!All : Inf!Refused(k) THEN meta.raised
                    ELSE /\ ~meta.raised
                         /\ meta.flags = {Inf!All[k].key : k \in Inf!With(Inf!Flags)}
                         /\ meta.time_limit = Inf!LastOf(Inf!Times, <<>>)
                         /\ meta.given = [key \in {"max_process_count"}
                               \cup {Inf!All[k].key : k \in Inf!With(Inf!Limits \cup Inf!Once)} |->
                                  Inf!LastOf({key}, <<50>>)]
                         /\ Definitions(Inf!WordsOf(ProgramEnv)) =>
                               Inf!DefinedBy(Inf!WordsOf(ProgramEnv), meta.environ)
                         /\ Definitions(Inf!WordsOf(InteractorEnv)) =>
                               Inf!DefinedBy(Inf!WordsOf(InteractorEnv), meta.interactor_env)
  BY Zenon DEF Inf!InfRight, Definitions, ProgramEnv, InteractorEnv
<1>1. /\ inf \in InfFiles /\ entry \in 1..InfCount + 1
      /\ InfRefusals(entry, words, meta) /\ IsMeta(meta)
      /\ ~meta.raised => InfSettings(entry, meta) /\ InfEnvs(entry, words, meta)
  BY Zenon DEF InfSound
<1>2. InfCount \in Nat /\ Inf!Entries = Inf!All /\ DOMAIN Inf!All = 1..InfCount
  BY <1>1, AllTyped
<1>3. CASE meta.raised
  BY <1>1, <1>2, <1>3, Zenon DEF InfRefusals
<1>4. CASE ~meta.raised
  <2>1. words = <<>> /\ entry > InfCount
    BY <1>2, <1>4, Zenon DEF Inf!Parsed, Inf!Raised, InfCount
  <2>2. entry = InfCount + 1 /\ entry - 1 = InfCount /\ \A k \in 1..InfCount : k < entry
    BY <1>1, <1>2, <2>1
  <2>3. ~\E k \in DOMAIN Inf!All : Inf!Refused(k)
    <3>1. ~HasEqualsFirst(<<>>)
      BY DEF HasEqualsFirst
    <3> QED BY <1>1, <1>2, <1>4, <2>1, <2>2, <3>1, Zenon DEF InfRefusals
  <2>4. \A keys : InfBefore(keys, entry) = Inf!With(keys)
    BY <1>2, <2>2 DEF InfBefore, Inf!With
  <2>5. \A keys, default : InfLast(keys, default, entry) = Inf!LastOf(keys, default)
    BY <2>4 DEF InfLast, Inf!LastOf
  <2>6. /\ meta.flags = {Inf!All[k].key : k \in Inf!With(Inf!Flags)}
        /\ meta.time_limit = Inf!LastOf(Inf!Times, <<>>)
        /\ meta.given = [key \in {"max_process_count"}
                               \cup {Inf!All[k].key : k \in Inf!With(Inf!Limits \cup Inf!Once)} |->
                                  Inf!LastOf({key}, <<50>>)]
    <3>1. /\ meta.flags = {Inf!All[k].key : k \in InfBefore(Inf!Flags, entry)}
          /\ meta.time_limit = InfLast(Inf!Times, <<>>, entry)
          /\ meta.given = [key \in {"max_process_count"}
                       \cup {Inf!All[k].key : k \in InfBefore(Inf!Limits \cup Inf!Once, entry)} |->
                              InfLast({key}, <<50>>, entry)]
      BY <1>1, <1>4 DEF InfSettings
    <3>2. InfBefore(Inf!Limits \cup Inf!Once, entry) = Inf!With(Inf!Limits \cup Inf!Once)
          /\ InfBefore(Inf!Flags, entry) = Inf!With(Inf!Flags)
      BY <2>4
    <3>3. /\ InfLast(Inf!Times, <<>>, entry) = Inf!LastOf(Inf!Times, <<>>)
          /\ \A key : InfLast({key}, <<50>>, entry) = Inf!LastOf({key}, <<50>>)
      BY <2>5
    <3>4. meta.given = [key \in {"max_process_count"}
                               \cup {Inf!All[k].key : k \in Inf!With(Inf!Limits \cup Inf!Once)} |->
                                  Inf!LastOf({key}, <<50>>)]
      BY <3>1, <3>2, <3>3
    <3> QED BY <3>1, <3>2, <3>3, <3>4
  <2>7. ASSUME NEW K, NEW env, DefinedUpTo(K, entry, InfPending(K, entry, words), env),
               Definitions(Inf!WordsOf(K))
        PROVE  Inf!DefinedBy(Inf!WordsOf(K), env)
    <3>1. InfPending(K, entry, words) = <<>>
      BY <2>1 DEF InfPending
    <3>2. PICK defs \in Seq(Seq(Int)) : /\ defs \o <<>> = Joined(K)[entry - 1]
                                        /\ Definitions(defs) => Inf!DefinedBy(defs, env)
      BY <2>7, <3>1 DEF DefinedUpTo
    <3>3. defs \o <<>> = defs
      BY ConcatEmptySeq
    <3>4. Inf!WordsOf(K) = Joined(K)[InfCount]
      BY <1>1, JoinedIs
    <3>5. defs = Inf!WordsOf(K)
      BY <2>2, <3>2, <3>3, <3>4
    <3> QED BY <2>7, <3>2, <3>5
  <2>8. /\ Definitions(Inf!WordsOf(ProgramEnv)) =>
               Inf!DefinedBy(Inf!WordsOf(ProgramEnv), meta.environ)
        /\ Definitions(Inf!WordsOf(InteractorEnv)) =>
               Inf!DefinedBy(Inf!WordsOf(InteractorEnv), meta.interactor_env)
    BY <1>1, <1>4, <2>7, Zenon DEF InfEnvs
  <2> QED BY <1>4, <2>3, <2>6, <2>8, Zenon
<1> QED BY <1>3, <1>4

\* Whatever the entries are, the parser stops with an exception for those that
\* are to be refused, and otherwise with the last of each setting and with the
\* variables that the words define.
THEOREM InfParsed == ProgramsSpec => []InfRight
<1>1. ProgramsInit => InfInv
  <2> SUFFICES ASSUME ProgramsInit, program = "inf-file" PROVE InfSound(entry, words, meta)
    BY Zenon DEF InfInv
  <2>1. Inf!Init
    BY DEF ProgramsInit
  <2> QED BY <2>1, InfStarts
<1>2. InfInv /\ [ProgramsNext]_allVars => InfInv'
  <2> SUFFICES ASSUME InfInv, [ProgramsNext]_allVars, program' = "inf-file"
               PROVE  InfSound(entry, words, meta)'
    BY Zenon DEF InfInv
  <2>1. \/ program = "inf-file" /\ Inf!Next
        \/ program = "inf-file" /\ UNCHANGED <<inf, entry, words, meta>>
    BY DEF ProgramsNext, SearchStep, TreeStep, WriteStep, ReverseStep, StyleStep, InfStep, OneStep,
           allVars, infVars
  <2>2. InfSound(entry, words, meta)
    BY <2>1, Zenon DEF InfInv
  <2>3. InfSound(entry', words', meta') /\ inf' = inf
    <3>1. CASE Inf!Next
      BY <2>2, <3>1, InfGoesOn
    <3>2. CASE UNCHANGED <<inf, entry, words, meta>>
      BY <2>2, <3>2
    <3> QED BY <2>1, <3>1, <3>2
  <2> QED BY <2>3, InfSoundKept
<1>3. InfInv => InfRight
  BY InfEnds, Zenon DEF InfInv, InfRight
<1> QED BY <1>1, <1>2, <1>3, PTL DEF ProgramsSpec
=============================================================================
