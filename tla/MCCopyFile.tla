----------------------------- MODULE MCCopyFile -----------------------------
(* An instance of CopyFile whose inputs are longer than its buffer.          *)
EXTENDS CopyFile, SequencesExt

BoundedInputs == BoundedSeq(Byte, 6)
=============================================================================
