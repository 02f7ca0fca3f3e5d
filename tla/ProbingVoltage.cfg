SPECIFICATION Spec
CONSTANTS
  Boards <- AdaptingBoards
INVARIANTS
  VoltageAlwaysFits
CHECK_DEADLOCK FALSE
