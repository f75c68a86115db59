CONSTANTS
  Places <- ThreePlaces
  Sizes = {0, 1}
  Var = {x, y}
  MaxAllocs = 3
  FinalizerKinds = {TRUE, FALSE}
SPECIFICATION Spec
INVARIANT RecordsExact
CHECK_DEADLOCK FALSE
