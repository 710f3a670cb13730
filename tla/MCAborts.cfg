SPECIFICATION Spec
CONSTANTS
  text = text
  Sources <- MCAborting
  Loose = {}
  PI <- MCConst
  E <- MCConst
  Num <- MCNum
  Str = {text}
  Name = {}
  TypeName = {}
  Capacity = 1
  MaxCallDepth = 6
  VectorType = "__Vector"
  Arith <- MCArith
  Join <- MCJoin
INVARIANTS
  NeverAborts
CHECK_DEADLOCK FALSE
