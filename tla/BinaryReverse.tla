--------------------------- MODULE BinaryReverse ----------------------------
(* tasks/files/binary-reverse/solution.c: reverses a file of records         *)
(* (x, y) in place and adds x * A to every y, two records in memory at a     *)
(* time.  A record in the file is two cells holding unsigned integers; a     *)
(* pwrite may stop between them.                                             *)
EXTENDS Integers, Sequences

CONSTANTS XMod, YMod,  \* 2^16 and 2^64: the number of values of a cell
          Files,       \* the contents the file may have: sequences of records
          Factors,     \* the values of A
          BadFactor    \* an argument that strtol or the range test rejects

ReverseAssumption ==
    /\ XMod \in Nat \ {0} /\ YMod \in Nat \ {0} /\ XMod % 2 = 0 /\ YMod % 2 = 0
    /\ Files \subseteq Seq((0..XMod-1) \X (0..YMod-1))
    /\ Factors \subseteq Int /\ BadFactor \notin Int

VARIABLES original,   \* the file before the program
          ragged,     \* TRUE: its size is not a multiple of the record size
          a,          \* the second argument
          file,       \* the file
          i,          \* the loop's counter, from 1 on
          left, right, \* the two records in memory, as read or as to be written
          done,       \* the cells of the running pwrite_exact already written
          pc,         \* the step main is at
          exit        \* the exit code, -1 while main runs

vars == <<original, ragged, a, file, i, left, right, done, pc, exit>>

NoRecord == <<0, 0>>
Count == Len(file)
\* Mutated: the other end is one too far to the left.
jOffByOne == Count - i

j == Count + 1 - i
Middle == i = j     \* the record in the middle is handled alone

Init ==
    /\ original \in Files /\ ragged \in BOOLEAN /\ a \in Factors \cup {BadFactor}
    /\ file = original
    /\ i = 1 /\ left = NoRecord /\ right = NoRecord /\ done = 0
    /\ pc = "open" /\ exit = -1

-----------------------------------------------------------------------------
(* A record's two representations. *)

Signed(u, modulus) == IF 2 * u < modulus THEN u ELSE u - modulus
Unsigned(s, modulus) == IF s >= 0 THEN s ELSE s + modulus

unmarshall(cells) == [x |-> Signed(cells[1], XMod), y |-> Signed(cells[2], YMod)]
marshall(d) == <<Unsigned(d.x, XMod), Unsigned(d.y, YMod)>>

YMax == YMod \div 2 - 1
YMin == -(YMod \div 2)

Overflows(d) ==
    LET delta == d.x * a
    IN  (delta > 0 /\ d.y > YMax - delta) \/ (delta < 0 /\ d.y < YMin - delta)

transform(cells) ==
    LET d == unmarshall(cells) IN marshall([d EXCEPT !.y = @ + d.x * a])

-----------------------------------------------------------------------------
Exit(code) ==
    /\ exit' = code /\ pc' = "exit"
    /\ UNCHANGED <<original, ragged, a, file, i, left, right, done>>

BadArguments == pc = "open" /\ a = BadFactor /\ Exit(1)

\* open and lseek, which may fail, and the test of the size.
Open ==
    /\ pc = "open" /\ a # BadFactor /\ ~ragged
    /\ pc' = "read"
    /\ UNCHANGED <<original, ragged, a, file, i, left, right, done, exit>>

\* Any system call may fail; a pread may also find the file too short.
IOError ==
    /\ pc \notin {"transform", "exit"} /\ (pc = "open" => a # BadFactor)
    /\ Exit(2)

ReadPair ==
    /\ pc = "read" /\ i <= j
    /\ left' = file[i]
    /\ right' = IF Middle THEN NoRecord ELSE file[j]
    /\ pc' = "transform"
    /\ UNCHANGED <<original, ragged, a, file, i, done, exit>>

Overflow ==
    /\ pc = "transform"
    /\ Overflows(unmarshall(left)) \/ (~Middle /\ Overflows(unmarshall(right)))
    /\ Exit(3)

\* Mutated: the right record is forgotten.
TransformLeft ==
    /\ pc = "transform"
    /\ ~Overflows(unmarshall(left)) /\ (Middle \/ ~Overflows(unmarshall(right)))
    /\ left' = transform(left)
    /\ pc' = IF Middle THEN "writeLeft" ELSE "writeRight"
    /\ UNCHANGED <<original, ragged, a, file, i, right, done, exit>>

Transform ==
    /\ pc = "transform"
    /\ ~Overflows(unmarshall(left)) /\ (Middle \/ ~Overflows(unmarshall(right)))
    /\ left' = transform(left)
    /\ right' = IF Middle THEN NoRecord ELSE transform(right)
    /\ pc' = IF Middle THEN "writeLeft" ELSE "writeRight"
    /\ UNCHANGED <<original, ragged, a, file, i, done, exit>>

\* One pwrite of pwrite_exact: the next cells of the record, all or some.
Pwrite(record, position) ==
    \E n \in done+1..2 :
       /\ file' = [file EXCEPT ![position] =
                     [c \in 1..2 |-> IF c \in done+1..n THEN record[c] ELSE @[c]]]
       /\ done' = IF n = 2 THEN 0 ELSE n
    /\ UNCHANGED <<original, ragged, a, left, right, exit>>

\* The right record goes to the left position, then the left one to the right.
WriteRight ==
    /\ pc = "writeRight"
    /\ Pwrite(right, i)
    /\ pc' = IF done' = 0 THEN "writeLeft" ELSE pc
    /\ UNCHANGED i

WriteLeft ==
    /\ pc = "writeLeft"
    /\ Pwrite(left, j)
    /\ IF done' = 0 THEN pc' = "read" /\ i' = i + 1 ELSE UNCHANGED <<pc, i>>

Close == pc = "read" /\ i > j /\ Exit(0)

Next == \/ BadArguments \/ Open \/ IOError \/ ReadPair \/ Overflow \/ Transform
        \/ WriteRight \/ WriteLeft \/ Close

Spec == Init /\ [][Next]_vars /\ WF_vars(Next)
-----------------------------------------------------------------------------
\* What a record should become, in the integers without a width.
Target(p) == LET d == unmarshall(original[p]) IN [d EXCEPT !.y = @ + d.x * a]
InRange(d) == d.y \in YMin..YMax

Survives(p) == \/ file[p] = original[p]
               \/ InRange(Target(p)) /\ file[Count + 1 - p] = marshall(Target(p))

\* Wherever the program stops (an error, an overflow, a kill between two system
\* calls), each record but at most one is still in the file: unchanged in its
\* old place or finished in its new one.
AtMostOneLost ==
    a # BadFactor => \A p, q \in 1..Count : p # q => Survives(p) \/ Survives(q)

\* Exit code 0 means that every record has moved to the mirrored place and has
\* the exact sum in it, for an odd number of records too.  Exit code 3 means that
\* some sum really does not fit, and that it was found before the pair it is in
\* was written.
SuccessRight ==
    /\ exit = 0 => \A p \in 1..Count : /\ InRange(Target(p))
                                       /\ file[Count + 1 - p] = marshall(Target(p))
    /\ exit = 3 => /\ \E p \in 1..Count : ~InRange(Target(p))
                   /\ \A p \in 1..Count : Survives(p)
=============================================================================
