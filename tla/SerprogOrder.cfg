SPECIFICATION FairSpec
CONSTANTS
  ff = ff
  b0 = b0
  b1 = b1
  b2 = b2
  Value <- MCValue
  Unwritten = ff
  Calls <- MCCalls
  Programmers <- MCProgrammers
  MaxCalls = 5
INVARIANTS
  TypeOK
  InOrder
  ReadsLatest
  NothingLeft
  InStep
PROPERTIES
  CallsReturn
CHECK_DEADLOCK FALSE
