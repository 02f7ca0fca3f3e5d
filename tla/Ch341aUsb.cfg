SPECIFICATION FairSpec
CONSTANTS
  Slots = 2
  Packet = 2
  Requests <- MCRequests
  MaxFaults = 2
  MaxCalls = 2
INVARIANTS
  TypeOK
  Filled
  NothingInFlight
PROPERTIES
  Returns
CHECK_DEADLOCK FALSE
