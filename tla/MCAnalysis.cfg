SPECIFICATION Spec
CONSTANTS
  text = text
  Sources <- MCSources
  Loose <- MCLoose
  PI <- MCConst
  E <- MCConst
  Num <- MCNum
  Str = {text}
  Name = {}
  TypeName = {}
  Capacity = 1
  MaxCallDepth = 6
  VectorType = "__Vector"
  Arith <- MCArith
  Join <- MCJoin
INVARIANTS
  RoundsSettle
  CtorRoundsSettle
  ParamInferenceIsSafe
  FunctionOrderIrrelevant
  ConformanceIsOrder
  JoinsAreBounds
  CallsMeetSignatures
  AcceptedNeverFails
PROPERTIES
  ParamsOnlyNarrow
CHECK_DEADLOCK FALSE
