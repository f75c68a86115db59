CONSTANTS
  Byte = {1, 2}
  Inputs <- BoundedInputs
  BufSize = 3
SPECIFICATION Spec
INVARIANTS InBounds ContentRight NoLeak MemoryBound
CHECK_DEADLOCK FALSE
