SPECIFICATION Spec
CONSTANTS
  A = A
  B = B
  C = C
  D = D
  f = f
  Identifier <- MCIdentifier
  Programs <- MCPrograms
INVARIANTS
  Grounded
  RejectsExactly
  InheritanceOrders
  JoinsLeast
  CyclesCutOnce
PROPERTIES
  AccusedRightly
CHECK_DEADLOCK FALSE
