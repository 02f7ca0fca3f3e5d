SPECIFICATION Spec
CONSTANTS
  Size = 16
  Bits = {1, 2}
  GranKind = "bytes"
  Stride = 2
  NoErase = FALSE
  NumErasers = 3
  Blocks <- BlocksPages
  Restorable = FALSE
  Requests <- PagesRequests
  Initial <- ContentsPages
  NoRef = NoRef
  MaxFaults = 0
  MaxCalls = 1
INVARIANTS
  SelectionDisjoint
  EraseBeforeProgram
  WriteCorrect
  OutsidePreserved
CHECK_DEADLOCK FALSE
