--------------------------- MODULE ReadFileProofs ---------------------------
(* What read_file returns and frees, for every file and every size of the    *)
(* buffer, whichever of its calls are short or fail.                         *)
EXTENDS ReadFile, TLAPS

\* Until main has a result the result is {-1, NULL}; the whole file has been
\* read when the loop ends.
Progressing ==
    /\ input \in Seq(Byte) /\ got \in 0..Len(input)
    /\ data \in Seq(Byte) /\ chunk \in Seq(Byte)
    /\ pc \in {"read", "store", "grow", "finish", "report", "exit"}
    /\ pc \in {"read", "store", "grow", "finish"} => ret = Failure
    /\ pc = "finish" => got = Len(input)

\* Until read_file returns the block is of the size it takes it for, and the
\* size it is to grow to is one that some content of the file needed half of.
Sized ==
    /\ block \in Nat /\ capacity \in Nat /\ newCapacity \in Nat
    /\ pc \in {"read", "store", "grow", "finish"} =>
           block = capacity /\ (Len(data) > 0 => Len(data) + 1 <= block)
    /\ pc \in {"store", "grow"} => Len(data) + Len(chunk) = got
    /\ pc = "grow" => newCapacity <= BufSize \/ newCapacity <= 2 * Len(input)
    /\ pc = "report" => ret = Failure \/ (ret.size = Len(data) /\ Len(data) + 1 <= block)

Content == Progressing /\ ContentRight /\ NoLeak

IInv == Content /\ Sized /\ MemoryBound
-----------------------------------------------------------------------------
\* Appending the next k elements of a sequence to its first n gives its first
\* n + k.
LEMMA ExtendPrefix ==
  ASSUME NEW S, NEW s \in Seq(S), NEW n \in Nat, NEW k \in Nat, n + k <= Len(s)
  PROVE  SubSeq(s, 1, n) \o SubSeq(s, n + 1, n + k) = SubSeq(s, 1, n + k)
  OBVIOUS

\* The next k elements are k.
LEMMA NextElements ==
  ASSUME NEW S, NEW s \in Seq(S), NEW n \in Nat, NEW k \in Nat, n + k <= Len(s)
  PROVE  SubSeq(s, n + 1, n + k) \in Seq(S) /\ Len(SubSeq(s, n + 1, n + k)) = k
  OBVIOUS

LEMMA InitIInv == Init => IInv
<1> SUFFICES ASSUME Init PROVE IInv
  OBVIOUS
<1>1. input \in Seq(Byte) /\ Len(input) \in Nat /\ SubSeq(input, 1, 0) = <<>> /\ BufSize \in Nat
  BY ReadFileAssumption DEF Init
<1>2. Content
  BY <1>1 DEF Init, Content, Progressing, ContentRight, NoLeak
<1> QED BY <1>1, <1>2 DEF Init, IInv, Sized, MemoryBound

-----------------------------------------------------------------------------
(* What is in the block is the file's beginning.                             *)
LEMMA ReadContent == ASSUME Content, NEW n \in 1..BufSize, Read(n) PROVE Content'
<1>1. /\ input \in Seq(Byte) /\ got \in Nat /\ n \in Nat /\ got + n <= Len(input)
      /\ Len(input) \in Nat /\ data = SubSeq(input, 1, got)
  BY ReadFileAssumption DEF Content, Progressing, ContentRight, Read
<1>2. data \o SubSeq(input, got + 1, got + n) = SubSeq(input, 1, got + n)
  BY <1>1, ExtendPrefix
<1>3. SubSeq(input, got + 1, got + n) \in Seq(Byte)
  BY <1>1, NextElements
<1>4. ContentRight'
  BY <1>1, <1>2 DEF Read, ContentRight
<1> QED BY <1>1, <1>3, <1>4 DEF Content, Progressing, NoLeak, Read

LEMMA EndOfFileContent == ASSUME Content, EndOfFile PROVE Content'
  BY DEF Content, Progressing, ContentRight, NoLeak, EndOfFile

LEMMA GrowContent == ASSUME Content, Grow \/ Double PROVE Content'
  BY DEF Content, Progressing, ContentRight, NoLeak, Grow, Double

\* Both ways to store a chunk copy it behind what is there.
LEMMA StoreContent == ASSUME Content, StoreInPlace \/ StoreGrown PROVE Content'
<1>1. pc \in {"store", "grow"} /\ Copy
  BY DEF StoreInPlace, StoreGrown
<1> QED BY <1>1 DEF Content, Progressing, ContentRight, NoLeak, Copy

LEMMA FailureContent == ASSUME Content, ReadError \/ ReallocFails \/ MallocFails PROVE Content'
<1>1. FreeAndFail /\ pc \in {"read", "grow", "finish"}
  BY DEF ReadError, ReallocFails, MallocFails
<1> QED BY <1>1 DEF Content, Progressing, ContentRight, NoLeak, FreeAndFail, Failure

LEMMA FinishContent == ASSUME Content, Finish PROVE Content'
<1>1. input \in Seq(Byte) /\ data = SubSeq(input, 1, Len(input))
  BY DEF Content, Progressing, ContentRight, Finish
<1>2. data = input
  BY <1>1
<1> QED BY <1>2 DEF Content, Progressing, ContentRight, NoLeak, Finish, size

LEMMA ReportContent == ASSUME Content, Report PROVE Content'
  BY DEF Content, Progressing, ContentRight, NoLeak, Report

-----------------------------------------------------------------------------
(* The block's size.                                                         *)
LEMMA ReadSized == ASSUME IInv, NEW n \in 1..BufSize, Read(n) PROVE (Sized /\ MemoryBound)'
<1>1. /\ input \in Seq(Byte) /\ got \in Nat /\ n \in Nat /\ got + n <= Len(input)
      /\ Len(input) \in Nat /\ data = SubSeq(input, 1, got)
      /\ pc = "read" /\ Sized /\ MemoryBound
  BY ReadFileAssumption DEF IInv, Content, Progressing, ContentRight, Read
<1>2. Len(data) = got
  BY <1>1
<1>3. Len(chunk') = n
  BY <1>1, NextElements DEF Read
<1> QED BY <1>1, <1>2, <1>3 DEF Sized, MemoryBound, Read

LEMMA EndOfFileSized == ASSUME IInv, EndOfFile PROVE (Sized /\ MemoryBound)'
  BY DEF IInv, Sized, MemoryBound, EndOfFile

\* The size doubled is less than what is needed, so at most the size of the
\* file: one byte of what is needed is the terminating 0.
LEMMA GrowSized == ASSUME IInv, Grow \/ Double PROVE (Sized /\ MemoryBound)'
<1> DEFINE d == Len(data)
           c == Len(chunk)
           l == Len(input)
<1>1. d \in Nat /\ c \in Nat /\ l \in Nat /\ got \in 0..l /\ BufSize \in Nat
  BY ReadFileAssumption DEF IInv, Content, Progressing
<1>2. pc \in {"store", "grow"} /\ Sized /\ MemoryBound
  BY DEF IInv, Grow, Double
<1>3. d + c = got /\ Need = d + c + 1
  BY <1>2 DEF Sized, Need, size
<1>4. /\ UNCHANGED <<input, got, chunk, data, block, capacity, ret>> /\ pc' = "grow"
      /\ newCapacity' \in Nat
      /\ newCapacity' <= BufSize \/ newCapacity' <= 2 * l
  <2> HIDE DEF d, c, l
  <2>1. CASE Grow
    BY <2>1, <1>1, <1>2, <1>3 DEF Sized, Grow
  <2>2. CASE Double
    BY <2>2, <1>1, <1>2, <1>3 DEF Sized, Double
  <2> QED BY <2>1, <2>2
<1> QED BY <1>2, <1>4 DEF Sized, MemoryBound

LEMMA StoreSized == ASSUME IInv, StoreInPlace \/ StoreGrown PROVE (Sized /\ MemoryBound)'
<1> DEFINE d == Len(data)
           c == Len(chunk)
           l == Len(input)
<1>1. d \in Nat /\ c \in Nat /\ l \in Nat /\ got \in 0..l /\ BufSize \in Nat
  BY ReadFileAssumption DEF IInv, Content, Progressing
<1>2. pc \in {"store", "grow"} /\ Copy /\ Sized /\ MemoryBound /\ Need = d + c + 1
  BY DEF IInv, StoreInPlace, StoreGrown, Need, size
<1>3. Len(data') = d + c /\ input' = input
  BY DEF IInv, Content, Progressing, StoreInPlace, StoreGrown, Copy
<1>4. /\ block' = capacity' /\ block' \in Nat /\ d + c + 1 <= block'
      /\ block' <= BufSize \/ block' <= 2 * l
  <2> HIDE DEF d, c, l
  <2>1. CASE StoreInPlace
    BY <2>1, <1>1, <1>2 DEF Sized, MemoryBound, StoreInPlace, l
  <2>2. CASE StoreGrown
    BY <2>2, <1>1, <1>2 DEF Sized, StoreGrown, l
  <2> QED BY <2>1, <2>2
<1> HIDE DEF d, c
<1> QED BY <1>1, <1>2, <1>3, <1>4 DEF Sized, MemoryBound, Copy

LEMMA FailureSized == ASSUME IInv, ReadError \/ ReallocFails \/ MallocFails
                      PROVE  (Sized /\ MemoryBound)'
<1>1. FreeAndFail /\ pc \in {"read", "grow", "finish"} /\ BufSize \in Nat /\ ret = Failure
  BY ReadFileAssumption DEF IInv, Content, Progressing, ReadError, ReallocFails, MallocFails
<1> QED BY <1>1 DEF IInv, Sized, MemoryBound, FreeAndFail

LEMMA FinishSized == ASSUME IInv, Finish PROVE (Sized /\ MemoryBound)'
<1> DEFINE d == Len(data)
<1>1. d \in Nat /\ BufSize \in Nat \ {0} /\ Sized /\ MemoryBound
  BY ReadFileAssumption DEF IInv, Content, Progressing
<1>2. block' \in Nat /\ d + 1 <= block' /\ (block' = block \/ block' <= BufSize)
  <2> HIDE DEF d
  <2> QED BY <1>1 DEF Sized, Finish, d
<1> QED BY <1>1, <1>2 DEF Sized, MemoryBound, Finish, size

LEMMA ReportSized == ASSUME IInv, Report PROVE (Sized /\ MemoryBound)'
<1>1. BufSize \in Nat
  BY ReadFileAssumption
<1> QED BY <1>1 DEF IInv, Sized, MemoryBound, Report

-----------------------------------------------------------------------------
LEMMA StepIInv == IInv /\ [Next]_vars => IInv'
<1> SUFFICES ASSUME IInv, [Next]_vars PROVE IInv'
  OBVIOUS
<1>1. CASE UNCHANGED vars
  BY <1>1 DEF vars, IInv, Content, Progressing, ContentRight, NoLeak, Sized, MemoryBound
<1>2. CASE Next
  <2>1. Content'
    BY <1>2, ReadContent, EndOfFileContent, GrowContent, StoreContent, FailureContent,
       FinishContent, ReportContent DEF Next, Progress, IInv
  <2>2. (Sized /\ MemoryBound)'
    BY <1>2, ReadSized, EndOfFileSized, GrowSized, StoreSized, FailureSized, FinishSized,
       ReportSized DEF Next, Progress
  <2> QED BY <2>1, <2>2 DEF IInv
<1> QED BY <1>1, <1>2

LEMMA Invariant == Spec => []IInv
  BY InitIInv, StepIInv, PTL DEF Spec

-----------------------------------------------------------------------------
\* read_file's block always holds the beginning of the file, and a result that
\* is not {-1, NULL} is the whole file (solution.c:10-60).
THEOREM FileContentRight == Spec => []ContentRight
<1>1. IInv => ContentRight
  BY DEF IInv, Content
<1> QED BY <1>1, Invariant, PTL

\* No way out of read_file and main leaves a block behind (solution.c:21, 44 and
\* 59, where data is freed or was never there).
THEOREM NothingLeaks == Spec => []NoLeak
<1>1. IInv => NoLeak
  BY DEF IInv, Content
<1> QED BY <1>1, Invariant, PTL

\* Neither memcpy nor the terminating 0 is ever written beyond the block
\* (solution.c:29, 52 and 63), whatever sizes the reads return.
THEOREM WritesInBounds == Spec => []InBounds
<1>1. IInv => InBounds
  <2> SUFFICES ASSUME IInv PROVE InBounds
    OBVIOUS
  <2>1. data # <<>> => Len(data) > 0
    BY DEF IInv, Content, Progressing
  <2> QED BY <2>1 DEF IInv, Sized, InBounds, Failure, size
<1> QED BY <1>1, Invariant, PTL

\* However the reads cut the file, the block is at most the larger of one buffer
\* and twice the file (the doubling of solution.c:38-40).
THEOREM MemoryBounded == Spec => []MemoryBound
<1>1. IInv => MemoryBound
  BY DEF IInv
<1> QED BY <1>1, Invariant, PTL
=============================================================================
