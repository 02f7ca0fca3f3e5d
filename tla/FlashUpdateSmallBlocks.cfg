SPECIFICATION Spec
CONSTANTS
  Size = 8
  Bits = {1}
  GranKind = "bytes"
  Stride = 4
  NoErase = FALSE
  NumErasers = 2
  Blocks <- BlocksSmall
  Restorable = FALSE
  Requests <- SmallRequests
  Initial <- Contents8
  NoRef = NoRef
  MaxFaults = 0
  MaxCalls = 1
INVARIANTS
  EraseBeforeProgram
CHECK_DEADLOCK FALSE
