CONSTANTS
  Addr = {a1, a2, a3, a4}
  Null = Null
  Value = {1, 2}
  MaxPrinted = 3
SPECIFICATION Spec
INVARIANTS TypeOK WellFormed CursorLive
PROPERTY ImplementsCursorList
SYMMETRY Symmetry
CHECK_DEADLOCK FALSE
