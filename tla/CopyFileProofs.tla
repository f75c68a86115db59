--------------------------- MODULE CopyFileProofs ---------------------------
(* What copy_file copies, for every input and every size of the buffer.      *)
EXTENDS CopyFile, TLAPS

\* The inductive invariant.  Between two reads the buffer is used up, so what
\* was read is what was written and what is counted.
BufferRight ==
    /\ buffer = SubSeq(input, got - Len(buffer) + 1, got)
    /\ Len(buffer) <= got
    /\ total = got - (IF written = Len(buffer) THEN 0 ELSE Len(buffer))
    /\ pc = "read" => written = Len(buffer)
    /\ pc = "write" => written < Len(buffer)

IInv == TypeOK /\ NothingLost /\ BufferRight /\ ResultRight

\* Appending the next k elements of a sequence to its first n gives its first
\* n + k.
LEMMA ExtendPrefix ==
  ASSUME NEW S, NEW s \in Seq(S), NEW n \in Nat, NEW k \in Nat, n + k <= Len(s)
  PROVE  SubSeq(s, 1, n) \o SubSeq(s, n + 1, n + k) = SubSeq(s, 1, n + k)
  OBVIOUS

\* A slice of a slice is a slice.
LEMMA SliceOfSlice ==
  ASSUME NEW S, NEW s \in Seq(S), NEW a \in Nat, NEW b \in Nat, b <= Len(s), a <= b,
         NEW i \in Nat, NEW j \in Nat, i <= j, j <= b - a
  PROVE  SubSeq(SubSeq(s, a + 1, b), i + 1, j) = SubSeq(s, a + i + 1, a + j)
  OBVIOUS

LEMMA SliceLength ==
  ASSUME NEW S, NEW s \in Seq(S), NEW a \in Nat, NEW b \in Nat, b <= Len(s), a <= b
  PROVE  SubSeq(s, a + 1, b) \in Seq(S) /\ Len(SubSeq(s, a + 1, b)) = b - a
  OBVIOUS

LEMMA InitIInv == Init => IInv
<1> SUFFICES ASSUME Init PROVE IInv
  OBVIOUS
<1>1. input \in Seq(Byte)
  BY CopyAssumption DEF Init
<1>2. SubSeq(input, 1, 0) = <<>> /\ <<>> \in Seq(Byte) /\ Len(<<>>) = 0 /\ Len(input) \in Nat
  BY <1>1
<1>3. TypeOK
  BY <1>2, CopyAssumption DEF Init, TypeOK
<1>4. NothingLost /\ BufferRight /\ ResultRight
  <2>1. /\ Len(out) = 0 /\ Len(buffer) = 0 /\ got = 0 /\ written = 0 /\ total = 0
        /\ pc = "read"
    BY <1>2 DEF Init
  <2>2. out = SubSeq(input, 1, Len(out)) /\ got - Len(buffer) + 1 = 1
    BY <1>2, <2>1 DEF Init
  <2>3. buffer = SubSeq(input, got - Len(buffer) + 1, got)
    BY <1>2, <2>1, <2>2 DEF Init
  <2> HIDE DEF Init
  <2> QED BY <2>1, <2>2, <2>3 DEF NothingLost, BufferRight, ResultRight
<1> QED BY <1>3, <1>4 DEF IInv

LEMMA ReadStep ==
  ASSUME IInv, NEW n \in 1..BufSize, Read(n)
  PROVE  IInv'
<1>1. /\ input \in Seq(Byte) /\ got \in Nat /\ n \in Nat \ {0} /\ got + n <= Len(input)
      /\ Len(input) \in Nat
  BY CopyAssumption DEF IInv, TypeOK, Read
<1>2. written = Len(buffer) /\ Len(buffer) \in Nat
  BY DEF IInv, TypeOK, BufferRight, Read
<1>3. Len(out) = got /\ total = got
  BY <1>1, <1>2 DEF IInv, NothingLost, BufferRight
<1>4. SubSeq(input, got + 1, got + n) \in Seq(Byte)
      /\ Len(SubSeq(input, got + 1, got + n)) = (got + n) - got
  BY <1>1, SliceLength
<1>5. buffer' \in Seq(Byte) /\ Len(buffer') = n
  BY <1>1, <1>4 DEF Read
<1>6. TypeOK'
  BY <1>1, <1>5, CopyAssumption DEF IInv, TypeOK, Read
<1>7. NothingLost'
  <2>1. (Len(out) = got - (Len(buffer) - written))'
    BY <1>1, <1>3, <1>5 DEF Read
  <2>2. (out = SubSeq(input, 1, Len(out)))'
    BY DEF IInv, NothingLost, Read
  <2> QED BY <2>1, <2>2 DEF NothingLost
<1>8. BufferRight'
  BY <1>1, <1>3, <1>5 DEF Read, BufferRight
<1>9. ResultRight'
  BY DEF Read, ResultRight
<1> QED BY <1>6, <1>7, <1>8, <1>9 DEF IInv

LEMMA WriteStep ==
  ASSUME IInv, NEW n \in 1..BufSize, Write(n)
  PROVE  IInv'
<1> DEFINE start == got - Len(buffer)
<1>1. /\ input \in Seq(Byte) /\ buffer \in Seq(Byte) /\ out \in Seq(Byte) /\ Len(input) \in Nat
      /\ got \in Nat /\ Len(buffer) \in Nat /\ written \in Nat /\ n \in Nat
      /\ written + n <= Len(buffer) /\ written < Len(buffer) /\ start \in Nat
      /\ got <= Len(input) /\ Len(out) = start + written /\ total = start
  BY CopyAssumption DEF IInv, TypeOK, NothingLost, BufferRight, Write
<1>2. buffer = SubSeq(input, start + 1, got)
  BY DEF IInv, BufferRight
<1>3. SubSeq(buffer, written + 1, written + n)
        = SubSeq(input, Len(out) + 1, Len(out) + n)
  <2>1. SubSeq(SubSeq(input, start + 1, got), written + 1, written + n)
          = SubSeq(input, start + written + 1, start + (written + n))
    <3>1. start \in Nat /\ got \in Nat /\ got <= Len(input) /\ start <= got
          /\ written \in Nat /\ written + n \in Nat /\ written <= written + n
          /\ written + n <= got - start
      BY <1>1
    <3> HIDE DEF start
    <3> QED BY <1>1, <3>1, SliceOfSlice
  <2>2. start + written + 1 = Len(out) + 1 /\ start + (written + n) = Len(out) + n
    BY <1>1
  <2> HIDE DEF start
  <2> QED BY <1>2, <2>1, <2>2
<1>4. out' = SubSeq(input, 1, Len(out) + n)
  <2>1. out = SubSeq(input, 1, Len(out))
    BY DEF IInv, NothingLost
  <2>2. Len(out) \in Nat /\ Len(out) + n <= Len(input)
    BY <1>1
  <2>3. SubSeq(input, 1, Len(out)) \o SubSeq(input, Len(out) + 1, Len(out) + n)
          = SubSeq(input, 1, Len(out) + n)
    BY <1>1, <2>2, ExtendPrefix
  <2> QED BY <1>3, <2>1, <2>3 DEF Write
<1>5. out' \in Seq(Byte) /\ Len(out') = Len(out) + n
  BY <1>1, <1>4
<1>6. TypeOK'
  BY <1>1, <1>5 DEF IInv, TypeOK, Write
<1>7. NothingLost'
  BY <1>1, <1>4, <1>5 DEF NothingLost, Write
<1>8. BufferRight'
  <2>1. (buffer = SubSeq(input, got - Len(buffer) + 1, got) /\ Len(buffer) <= got)'
    BY DEF IInv, BufferRight, Write
  <2>2. ( /\ total = got - (IF written = Len(buffer) THEN 0 ELSE Len(buffer))
          /\ pc = "read" => written = Len(buffer)
          /\ pc = "write" => written < Len(buffer) )'
    BY <1>1 DEF Write
  <2> QED BY <2>1, <2>2 DEF BufferRight
<1>9. ResultRight'
  BY DEF Write, ResultRight
<1> QED BY <1>6, <1>7, <1>8, <1>9 DEF IInv

LEMMA ReturnStep ==
  ASSUME IInv, EndOfFile \/ ReadError \/ WriteError
  PROVE  IInv'
<1>1. TypeOK'
  BY DEF IInv, TypeOK, EndOfFile, ReadError, WriteError, Return
<1>2. NothingLost'
  BY DEF IInv, NothingLost, EndOfFile, ReadError, WriteError, Return
<1>3. BufferRight'
  BY DEF IInv, BufferRight, EndOfFile, ReadError, WriteError, Return
<1>4. ResultRight'
  <2>1. CASE EndOfFile
    <3>1. /\ input \in Seq(Byte) /\ got = Len(input) /\ total = got
          /\ out = SubSeq(input, 1, Len(input))
      BY <2>1, CopyAssumption
      DEF IInv, TypeOK, NothingLost, BufferRight, EndOfFile
    <3>2. SubSeq(input, 1, Len(input)) = input
      BY <3>1
    <3> QED BY <2>1, <3>1, <3>2 DEF ResultRight, EndOfFile, Return
  <2>2. CASE ReadError \/ WriteError
    BY <2>2 DEF ResultRight, ReadError, WriteError, Return
  <2> QED BY <2>1, <2>2
<1> QED BY <1>1, <1>2, <1>3, <1>4 DEF IInv

LEMMA StepIInv == IInv /\ [Next]_vars => IInv'
<1>1. ASSUME IInv, UNCHANGED vars PROVE IInv'
  BY <1>1 DEF vars, IInv, TypeOK, NothingLost, BufferRight, ResultRight
<1> QED BY <1>1, ReadStep, WriteStep, ReturnStep DEF Next, Progress

\* Every variable keeps its type; in particular written_total never passes the
\* bytes read, so the inner loop never writes beyond its buffer.
THEOREM TypeCorrect == Spec => []TypeOK
  BY InitIInv, StepIInv, PTL DEF Spec, IInv

\* Whatever short reads and writes the system makes and whenever it fails, what
\* out_fd has received is the beginning of the input, nothing missing.
THEOREM CopyLosesNothing == Spec => []NothingLost
  BY InitIInv, StepIInv, PTL DEF Spec, IInv

\* copy_file returns -1, or the number of bytes in the input with all of them
\* copied.
THEOREM CopyResultRight == Spec => []ResultRight
  BY InitIInv, StepIInv, PTL DEF Spec, IInv
=============================================================================
