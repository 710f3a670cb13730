SPECIFICATION FairCodeSpec
CONSTANTS
  x = x
  size = size
  T = T
  V = V
  g = g
  f = f
  h = h
  m = m
  iter = iter
  s = s
  near = near
  far = far
  Num = {0, 1}
  Str = {s}
  Name = {x, size}
  TypeName = {T, V}
  Capacity = 2
  Free = Free
  Threshold = 1
  MaxCallDepth = 2
  Operators <- MCOperators
  Targets <- MCTargets
  Literals <- MCLiterals
  VarName = {x}
  FieldName = {x}
  FuncName = {g, f, h}
  MethodName = {m, iter}
  IterMethod = iter
  Params <- MCParams
  Parent <- MCParent
  Methods <- MCMethods
  VectorType = V
  LenField = size
  ElemField <- MCElemField
  Arith <- MCArith
  Join <- MCJoin
  MaxStack = 2
  MaxScopes = 2
  MaxArgs = 1
  MaxLen = 1
  LabelName = {near, far}
  RandValues <- MCRand
  Code <- MCCode
  EntryCode <- MCEntryCode
INVARIANTS
  TypeOK
  ReturnsBehindCalls
PROPERTIES
  ErrorUnwinds
  RunsMachine
CHECK_DEADLOCK FALSE
