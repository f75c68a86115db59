----------------------------- MODULE MCReadFile -----------------------------
(* An instance of ReadFile: files of up to three buffers.                    *)
EXTENDS ReadFile, SequencesExt

BoundedInputs == BoundedSeq(Byte, 3) \cup {[k \in 1..n |-> 1] : n \in 4..10}
=============================================================================
