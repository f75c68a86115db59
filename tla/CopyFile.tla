------------------------------ MODULE CopyFile ------------------------------
(* copy_file of tasks/files/copy-file-fd: read and write through a buffer of *)
(* BufSize bytes.  The system may read or write fewer bytes than asked (the  *)
(* tests' wrappers make it do so) and either call may fail at any time.      *)
EXTENDS Integers, Sequences

CONSTANTS Byte,
          Inputs,    \* the contents in_fd may have
          BufSize    \* 4096

ASSUME CopyAssumption == Inputs \subseteq Seq(Byte) /\ BufSize \in Nat \ {0}

VARIABLES input,     \* everything there is to read from in_fd
          got,       \* how much of it has been read
          out,       \* what out_fd has received
          buffer,    \* the bytes_read bytes of the last read
          written,   \* written_total
          total,
          pc,        \* "read", "write" or "done"
          ret        \* what copy_file returned

vars == <<input, got, out, buffer, written, total, pc, ret>>

Init ==
    /\ input \in Inputs
    /\ got = 0 /\ out = <<>> /\ buffer = <<>> /\ written = 0 /\ total = 0
    /\ pc = "read" /\ ret = 0

Return(value) ==
    /\ pc' = "done" /\ ret' = value
    /\ UNCHANGED <<input, got, out, buffer, written, total>>

\* n bytes arrive, at most what the buffer holds and at least one before the end.
Read(n) ==
    /\ pc = "read" /\ n <= BufSize /\ got + n <= Len(input)
    /\ buffer' = SubSeq(input, got + 1, got + n)
    /\ got' = got + n
    /\ written' = 0
    /\ pc' = "write"
    /\ UNCHANGED <<input, out, total, ret>>

EndOfFile == pc = "read" /\ got = Len(input) /\ Return(total)

\* Mutated: an error is taken for the end of the file.
ReadErrorAsEnd == pc = "read" /\ Return(total)

ReadError == pc = "read" /\ Return(-1)

\* Mutated: the rest of a short write is sent from the buffer's beginning.
WriteFromStart(n) ==
    /\ pc = "write" /\ written + n <= Len(buffer)
    /\ out' = out \o SubSeq(buffer, 1, n)
    /\ written' = written + n
    /\ IF written' < Len(buffer)
       THEN UNCHANGED <<pc, total>>
       ELSE pc' = "read" /\ total' = total + Len(buffer)
    /\ UNCHANGED <<input, got, buffer, ret>>

\* n bytes leave, at least one and at most what is left of the buffer.
Write(n) ==
    /\ pc = "write" /\ written + n <= Len(buffer)
    /\ out' = out \o SubSeq(buffer, written + 1, written + n)
    /\ written' = written + n
    /\ IF written' < Len(buffer)
       THEN UNCHANGED <<pc, total>>
       ELSE pc' = "read" /\ total' = total + Len(buffer)
    /\ UNCHANGED <<input, got, buffer, ret>>

WriteError == pc = "write" /\ Return(-1)

Progress == (\E n \in 1..BufSize : Read(n) \/ Write(n)) \/ EndOfFile

Next == Progress \/ ReadError \/ WriteError

\* Every call of read and write returns; none has to fail.
Spec == Init /\ [][Next]_vars /\ WF_vars(Progress)
-----------------------------------------------------------------------------
TypeOK ==
    /\ input \in Inputs
    /\ got \in 0..Len(input)
    /\ out \in Seq(Byte) /\ buffer \in Seq(Byte)
    /\ Len(buffer) <= BufSize /\ written \in 0..Len(buffer)
    /\ total \in Nat /\ ret \in Int
    /\ pc \in {"read", "write", "done"}

\* out_fd has received exactly the bytes read so far without those still in the
\* buffer: a short write neither drops, repeats nor reorders a byte.
NothingLost ==
    /\ Len(out) = got - (Len(buffer) - written)
    /\ out = SubSeq(input, 1, Len(out))

\* A result of at least 0 says how many bytes were copied, and all were; -1 is
\* the only other result.
ResultRight ==
    pc = "done" => ret = -1 \/ (ret = Len(input) /\ out = input)

=============================================================================
