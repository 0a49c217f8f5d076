\* Three statements and one loop, with closures that write what they capture.
SPECIFICATION Spec
CONSTANTS
  Statements <- MCStatements
  MaxStatements = 3
  MaxBlocks = 1
  Params = 1
  Registers = 5
  MaxAnswers = 3
  ClosuresWrite = TRUE
  AssignParams = FALSE
INVARIANTS
  SameBehaviour
CHECK_DEADLOCK FALSE
