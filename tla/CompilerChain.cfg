\* Six statements and three loops or branches, in a function that assigns its
\* parameter: large enough for a loop whose blocks are emptied by the passes.
SPECIFICATION Spec
CONSTANTS
  Statements <- MCLoopStatements
  MaxStatements = 6
  MaxBlocks = 3
  Params = 1
  Registers = 6
  MaxAnswers = 3
  ClosuresWrite = FALSE
  AssignParams = TRUE
CONSTRAINT
  MarksInOrder
INVARIANTS
  GraphVerified
CHECK_DEADLOCK FALSE
