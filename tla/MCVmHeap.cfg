SPECIFICATION Spec
CONSTANTS
  x = x
  size = size
  T = T
  V = V
  g = g
  m = m
  iter = iter
  s = s
  Num = {0, 1}
  Str = {s}
  Name = {x, size}
  TypeName = {T, V}
  Capacity = 2
  Free = Free
  Threshold = 1
  MaxCallDepth = 1
  Operators = {}
  Targets = {}
  Literals = {}
  VarName = {x}
  FieldName = {x}
  FuncName = {g}
  MethodName = {m, iter}
  IterMethod = iter
  Params <- MCParams
  Parent <- MCParent
  Methods <- MCMethods
  VectorType = V
  LenField = size
  ElemField <- MCElemField
  Arith <- MCArith
  Join <- MCJoin
  MaxStack = 2
  MaxScopes = 1
  MaxArgs = 1
  MaxLen = 1
INVARIANTS
  NoDangling
  GcPunctual
PROPERTIES
  ImplementsStore
  CallsBalance
CHECK_DEADLOCK FALSE
