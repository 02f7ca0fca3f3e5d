SPECIFICATION FairSpec
CONSTANTS
  Devices <- MCDevices
  Bank = 4
  Page = 2
  Requests <- MCRequests
  MaxFaults = 2
  MaxSessions = 2
  MaxCalls = 2
INVARIANTS
  TypeOK
  Understood
  Done
  GivenBack
PROPERTIES
  Returns
CHECK_DEADLOCK FALSE
