------------------------ MODULE MCFreeListAllocator -------------------------
(* Instances of FreeListAllocator with a 6-bit size_t and 2-byte words.      *)
EXTENDS FreeListAllocator

\* Sizes that are rounded up, fit exactly, need the limit, or overflow when
\* rounded or when the header is added.
OrdinarySizes == {0, 3, 9, 62, 63}

\* With the sizes that wrap around when the header is added and the limit is
\* tested.
AllSizes == OrdinarySizes \cup {54, 58}

\* The ordinary sizes are those that the theorems are about.
ASSUME OrdinarySizesDoNotWrap == Sizes = OrdinarySizes => NoWrap
=============================================================================
