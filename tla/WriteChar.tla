----------------------------- MODULE WriteChar ------------------------------
(* tasks/files/write-char: writechar and flush over one output buffer, and   *)
(* the _start of main.c that copies its input through them, one character at *)
(* a time out of a read buffer.  flush makes one write and does not look at  *)
(* its result; the task lets it assume that the write is complete.           *)
EXTENDS Integers, Sequences

CONSTANTS Byte,
          Inputs,      \* the contents of the standard input
          BufferSize,  \* 4096, the output buffer
          ReadSize     \* 1024, the input buffer

WriteAssumption ==
    /\ Inputs \subseteq Seq(Byte)
    /\ BufferSize \in Nat \ {0} /\ ReadSize \in Nat \ {0}

VARIABLES input,
          got,     \* how much of it has been read
          chunk,   \* the bytes of the last read, at most ReadSize
          cur,     \* how many of them have been passed to writechar
          buf,     \* stout's buffer, its first index bytes
          out,     \* what the standard output has received
          writes,  \* the sizes of the writes
          pc       \* "loop", "flush" (after writechar filled the buffer),
                   \* "lastFlush", "flushAgain" (at the end) or "exit"

vars == <<input, got, chunk, cur, buf, out, writes, pc>>

index == Len(buf)

Init ==
    /\ input \in Inputs
    /\ got = 0 /\ chunk = <<>> /\ cur = 0 /\ buf = <<>> /\ out = <<>> /\ writes = <<>>
    /\ pc = "loop"

\* The read buffer is used up: n more bytes arrive.
Read(n) ==
    /\ pc = "loop" /\ cur >= Len(chunk) /\ got + n <= Len(input)
    /\ chunk' = SubSeq(input, got + 1, got + n)
    /\ got' = got + n /\ cur' = 0
    /\ UNCHANGED <<input, buf, out, writes, pc>>

\* The end of the input, or an error of read, ends the loop.
ReadEnds ==
    /\ pc = "loop" /\ cur >= Len(chunk)
    /\ pc' = "lastFlush"
    /\ UNCHANGED <<input, got, chunk, cur, buf, out, writes>>

\* Mutated: the buffer is flushed when it is overfull.
writecharLate ==
    /\ pc = "loop" /\ cur < Len(chunk)
    /\ buf' = Append(buf, chunk[cur + 1])
    /\ cur' = cur + 1
    /\ pc' = IF Len(buf') > BufferSize THEN "flush" ELSE "loop"
    /\ UNCHANGED <<input, got, chunk, out, writes>>

writechar ==
    /\ pc = "loop" /\ cur < Len(chunk)
    /\ buf' = Append(buf, chunk[cur + 1])
    /\ cur' = cur + 1
    /\ pc' = IF Len(buf') = BufferSize THEN "flush" ELSE "loop"
    /\ UNCHANGED <<input, got, chunk, out, writes>>

\* One write of the whole buffer, unless it is empty.
flush ==
    /\ pc \in {"flush", "lastFlush", "flushAgain"}
    /\ out' = out \o buf
    /\ writes' = IF index = 0 THEN writes ELSE Append(writes, index)
    /\ buf' = <<>>
    /\ pc' = CASE pc = "flush" -> "loop"
               [] pc = "lastFlush" -> "flushAgain"
               [] pc = "flushAgain" -> "exit"
    /\ UNCHANGED <<input, got, chunk, cur>>

Next == (\E n \in 1..ReadSize : Read(n)) \/ ReadEnds \/ writechar \/ flush

Spec == Init /\ [][Next]_vars /\ WF_vars(Next)
-----------------------------------------------------------------------------
\* Every byte read is, in order, in the output, in the buffer, or still to be
\* passed on; at the exit none is left behind.
NothingLost ==
    /\ out \o buf \o SubSeq(chunk, cur + 1, Len(chunk)) = SubSeq(input, 1, got)
    /\ pc = "exit" => out = SubSeq(input, 1, got)

\* The bytes leave in full buffers, so writechar never stores past the end of
\* one; only the last write may be shorter, and no write is empty (the second
\* flush at the end writes nothing).
FullWrites ==
    /\ pc = "loop" => index < BufferSize
    /\ \A k \in DOMAIN writes : IF k < Len(writes) \/ pc = "loop"
                                THEN writes[k] = BufferSize
                                ELSE writes[k] \in 1..BufferSize
=============================================================================
