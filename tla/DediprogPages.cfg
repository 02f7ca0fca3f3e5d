SPECIFICATION Spec
CONSTANTS
  Size = 8
  Block = 2
  Page256 = 2
  MaxBlocks = 3
  Slots = 2
  Width = 8
  Devices <- OtherPages
  Requests <- PageWrites
  MaxFaults = 2
  MaxCalls = 2
INVARIANTS
  WritesSucceed
CHECK_DEADLOCK FALSE
