SPECIFICATION Spec
CONSTANTS
  Boards <- MCBoards
INVARIANTS
  TypeOK
  Found
  Genuine
  VoltageFits
CHECK_DEADLOCK FALSE
