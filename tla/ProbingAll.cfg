SPECIFICATION Spec
CONSTANTS
  Boards <- UnprobedBoards
INVARIANTS
  Found
CHECK_DEADLOCK FALSE
