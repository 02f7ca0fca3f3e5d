SPECIFICATION Spec
CONSTANTS
  Chips <- MCChips
  Requests <- MCRequests
  MaxFaults = 2
  MaxCalls = 2
INVARIANTS
  TypeOK
  Applied
  UnlockTells
PROPERTIES
  LockLast
  OnlyMeant
CHECK_DEADLOCK FALSE
