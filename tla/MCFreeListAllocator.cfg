CONSTANTS
  Modulus = 64
  Word = 2
  Limit = 16
  Base = 2
  MaxBrk = 20
  Sizes <- OrdinarySizes
  Slot = {s1, s2, s3}
  Null = Null
SPECIFICATION Spec
INVARIANTS BlocksDisjoint FreeListExact GrowsLast
PROPERTIES ImplementsHeap
