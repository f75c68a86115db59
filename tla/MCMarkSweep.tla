---------------------------- MODULE MCMarkSweep -----------------------------
(* Instances of MarkSweep.                                                   *)
EXTENDS MarkSweep

\* The objects at 1 and 4 may have a word (one at 3 too, while none is at 4): a
\* chain of three, through two words, in every order of allocation.
ThreePlaces == {1, 3, 4}
=============================================================================
