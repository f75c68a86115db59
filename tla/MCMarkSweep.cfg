CONSTANTS
  Places <- ThreePlaces
  Sizes = {0, 1}
  Var = {x, y, z}
  MaxAllocs = 3
  FinalizerKinds = {TRUE, FALSE}
SPECIFICATION Spec
INVARIANTS RecordsKept MarksAll FinalizedOnce
PROPERTIES ImplementsGraph CollectionComplete CollectionEnds
CHECK_DEADLOCK FALSE
