CONSTANTS
  Byte = {1, 2}
  Inputs <- BoundedInputs
  BufSize = 4
SPECIFICATION Spec
INVARIANTS NothingLost ResultRight
CHECK_DEADLOCK FALSE
