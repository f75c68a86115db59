------------------------------ MODULE ReadFile ------------------------------
(* read_file of tasks/files/read-file-fd: the whole of a descriptor into one *)
(* growing heap block, and the main that reports it.  read may return fewer  *)
(* bytes than asked; read, realloc and malloc may fail at any call, as the   *)
(* wrappers of main.c make them do.                                          *)
EXTENDS Integers, Sequences

CONSTANTS Byte,
          Inputs,    \* the contents the descriptor may have
          BufSize    \* 4096

ASSUME ReadFileAssumption == Inputs \subseteq Seq(Byte) /\ BufSize \in Nat \ {0}

VARIABLES input,
          got,       \* how much of the input has been read
          chunk,     \* the bytes of the last read, still in the stack buffer
          data,      \* the bytes copied into the heap block
          block,     \* the heap block's size, 0 when data is NULL
          capacity,  \* what the code believes it is
          newCapacity, \* the size the block is to have, while pc = "grow"
          pc,        \* "read", "store", "grow", "finish", "report" or "exit"
          ret        \* the FileContent returned: its size, and its data's block

vars == <<input, got, chunk, data, block, capacity, newCapacity, pc, ret>>

Failure == [size |-> -1, block |-> 0]
size == Len(data)

Init ==
    /\ input \in Inputs
    /\ got = 0 /\ chunk = <<>> /\ data = <<>> /\ block = 0
    /\ capacity = 0 /\ newCapacity = 0
    /\ pc = "read" /\ ret = Failure

\* free(data) and the return of {-1, NULL}.
FreeAndFail ==
    /\ block' = 0 /\ pc' = "report"
    /\ UNCHANGED <<input, got, chunk, data, capacity, newCapacity, ret>>

Read(n) ==
    /\ pc = "read" /\ got + n <= Len(input)
    /\ chunk' = SubSeq(input, got + 1, got + n)
    /\ got' = got + n
    /\ pc' = "store"
    /\ UNCHANGED <<input, data, block, capacity, newCapacity, ret>>

\* Mutated: an error ends the loop like the end of the file.
ReadErrorAsEnd ==
    /\ pc = "read" /\ pc' = "finish"
    /\ UNCHANGED <<input, got, chunk, data, block, capacity, newCapacity, ret>>

ReadError == pc = "read" /\ FreeAndFail

EndOfFile ==
    /\ pc = "read" /\ got = Len(input)
    /\ pc' = "finish"
    /\ UNCHANGED <<input, got, chunk, data, block, capacity, newCapacity, ret>>

\* Mutated: the terminating 0 is forgotten.
NeedWithoutZero == size + Len(chunk)

Need == size + Len(chunk) + 1

\* Mutated: the capacity grows fourfold.
GrowFourfold ==
    /\ pc = "store" /\ Need > capacity
    /\ newCapacity' = IF capacity = 0 THEN BufSize ELSE capacity * 4
    /\ pc' = "grow"
    /\ UNCHANGED <<input, got, chunk, data, block, capacity, ret>>

\* Twice the capacity, at first the buffer's size ...
Grow ==
    /\ pc = "store" /\ Need > capacity
    /\ newCapacity' = IF capacity = 0 THEN BufSize ELSE capacity * 2
    /\ pc' = "grow"
    /\ UNCHANGED <<input, got, chunk, data, block, capacity, ret>>

\* ... doubled until it suffices.
Double ==
    /\ pc = "grow" /\ newCapacity < Need
    /\ newCapacity' = newCapacity * 2
    /\ UNCHANGED <<input, got, chunk, data, block, capacity, pc, ret>>

Copy == /\ data' = data \o chunk
        /\ chunk' = <<>> /\ pc' = "read"
        /\ UNCHANGED <<input, got, newCapacity, ret>>

StoreInPlace == pc = "store" /\ Need <= capacity /\ Copy /\ UNCHANGED <<block, capacity>>

StoreGrown ==
    /\ pc = "grow" /\ Need <= newCapacity
    /\ capacity' = newCapacity /\ block' = newCapacity
    /\ Copy

\* Mutated: data is overwritten with realloc's NULL.
ReallocFailsLosing ==
    /\ pc = "grow" /\ Need <= newCapacity /\ pc' = "report"
    /\ UNCHANGED <<input, got, chunk, data, block, capacity, newCapacity, ret>>

\* realloc fails and leaves the old block to be freed.
ReallocFails == pc = "grow" /\ Need <= newCapacity /\ FreeAndFail

\* An empty file gets a block of one byte; then the terminating 0 is written.
Finish ==
    /\ pc = "finish"
    /\ block' = IF block = 0 THEN 1 ELSE block
    /\ ret' = [size |-> size, block |-> block']
    /\ pc' = "report"
    /\ UNCHANGED <<input, got, chunk, data, capacity, newCapacity>>

MallocFails == pc = "finish" /\ block = 0 /\ FreeAndFail

\* main prints the result and frees its data.
Report ==
    /\ pc = "report"
    /\ block' = IF ret.block # 0 THEN 0 ELSE block
    /\ pc' = "exit"
    /\ UNCHANGED <<input, got, chunk, data, capacity, newCapacity, ret>>

Progress == \/ \E n \in 1..BufSize : Read(n)
            \/ EndOfFile \/ StoreInPlace \/ Grow \/ Double \/ StoreGrown \/ Finish \/ Report

Next == Progress \/ ReadError \/ ReallocFails \/ MallocFails

\* Every call returns; none has to fail.
Spec == Init /\ [][Next]_vars /\ WF_vars(Progress)
-----------------------------------------------------------------------------
\* The block always has room for what was copied and for the terminating 0
\* written after the loop: no write goes beyond it.
InBounds ==
    /\ pc \in {"read", "store", "grow"} => (block = capacity /\ (data # <<>> => size + 1 <= block))
    /\ ret.size >= 0 /\ pc = "report" => ret.size + 1 <= block

\* What is in the block is the beginning of the file; a successful result is
\* all of it, and a failure is {-1, NULL}.
ContentRight ==
    /\ pc \in {"read", "finish"} => data = SubSeq(input, 1, got)
    /\ pc \in {"store", "grow"} => data \o chunk = SubSeq(input, 1, got)
    /\ pc = "report" => ret = Failure \/ (ret.size = Len(input) /\ data = input)

\* Whichever call fails, the block is freed before {-1, NULL} is returned, so
\* nothing stays allocated once main has reported.
NoLeak ==
    /\ pc = "report" => block = ret.block
    /\ pc = "exit" => block = 0

\* The memory used never exceeds max(4096, 2 * size of the file).
MemoryBound == block <= BufSize \/ block <= 2 * Len(input)

\* The first allocation is at most 4096 bytes, as README.md:28 demands.
FirstAllocationSmall == [][block = 0 /\ block' # 0 => block' <= BufSize]_vars

=============================================================================
