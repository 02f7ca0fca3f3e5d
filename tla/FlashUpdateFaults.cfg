SPECIFICATION FairSpec
CONSTANTS
  Size = 6
  Bits = {1}
  GranKind = "bit"
  Stride = 1
  NoErase = FALSE
  NumErasers = 2
  Blocks <- Blocks6
  Restorable = TRUE
  Requests <- Requests6
  Initial <- Contents6
  NoRef = NoRef
  MaxFaults = 2
  MaxCalls = 2
INVARIANTS
  TypeOK
  TouchedOnly
  LocksRestored
PROPERTIES
  ImplementsImage
  Terminates
CHECK_DEADLOCK FALSE
