------------------------------ MODULE MCDList -------------------------------
(* A small instance of DList: the addresses are interchangeable.             *)
EXTENDS DList, TLC

Symmetry == Permutations(Addr)
=============================================================================
