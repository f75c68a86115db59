CONSTANTS
  Byte = {1, 2}
  Inputs <- BoundedInputs
  BufSize = 3
SPECIFICATION Spec
PROPERTY FirstAllocationSmall
CHECK_DEADLOCK FALSE
