\* Every function of three statements, among them loops and branches, two of
\* them at most, nested or not; its tests turn out in every way, three of them.
SPECIFICATION Spec
CONSTANTS
  Statements <- MCStatements
  MaxStatements = 3
  MaxBlocks = 2
  Params = 1
  Registers = 5
  MaxAnswers = 3
  ClosuresWrite = FALSE
  AssignParams = FALSE
INVARIANTS
  TypeOK
  SameBehaviour
  SameInRegisters
  GraphVerified
  Settles
  NoClash
PROPERTIES
  ScanBegins
CHECK_DEADLOCK FALSE
