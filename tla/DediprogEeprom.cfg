SPECIFICATION Spec
CONSTANTS
  Size = 8
  Block = 4
  Page256 = 4
  MaxBlocks = 3
  Slots = 2
  Width = 8
  Devices <- Eeprom
  Requests <- ByteWrites
  MaxFaults = 2
  MaxCalls = 2
INVARIANTS
  Done
CHECK_DEADLOCK FALSE
