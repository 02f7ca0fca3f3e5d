SPECIFICATION FairSpec
CONSTANTS
  Size = 8
  Block = 2
  Page256 = 2
  MaxBlocks = 3
  Slots = 2
  Width = 8
  Devices <- MCDevices
  Requests <- MCRequests
  MaxFaults = 2
  MaxCalls = 3
INVARIANTS
  TypeOK
  Done
  NothingInFlight
PROPERTIES
  Returns
CHECK_DEADLOCK FALSE
