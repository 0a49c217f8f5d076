\* Three tables and a closure, three at a time, at most two references between
\* them and two held by the program, and at most one collection inside the finalizer of another.
SPECIFICATION Spec
CONSTANTS
  t1 = t1
  t2 = t2
  t3 = t3
  Tables <- MCTables
  Births <- MCBirths
  Closures = {c1}
  MaxObjects = 3
  MaxEdges = 2
  MaxLocals = 2
  MaxPlans = 2
INVARIANTS
  TypeOK
  PlannedStaysWhole
  BytesAgree
PROPERTIES
  CondemnsOnlyGarbage
  FinalizedOnce
  FinalizedBeforeDeath
  CollectsGarbage
  WeakEntriesGone
