SPECIFICATION FairCodeSpec
CONSTANTS
  text = text
  Programs <- MCPrograms
  Expected <- MCExpected
  Functions <- MCFunctions
  Types <- MCTypes
  PI <- MCPI
  Nesting = 11
  TypeRef <- MCTypeRef
  E <- MCE
  Num <- MCNum
  Str = {text}
  Name <- MCName
  TypeName <- MCTypeName
  Capacity = 8
  Free = Free
  Threshold = 2
  MaxCallDepth = 5
  Operators <- MCPureOps
  Targets <- MCTargets
  Literals <- MCLiterals
  VarName <- MCVarName
  FieldName <- MCFieldName
  FuncName <- MCFuncName
  MethodName <- MCMethodName
  IterMethod = "iter"
  Params <- MCParams
  Parent <- MCParent
  Methods <- MCMethods
  VectorType = "__Vector"
  LenField = "__len"
  ElemField <- MCElemField
  Arith <- MCArith
  Join <- MCJoin
  MaxStack = 6
  MaxScopes = 6
  MaxArgs = 2
  MaxLen = 2
  LabelName <- MCLabelName
  RandValues <- MCRand
  Code <- MCCode
  EntryCode <- MCEntryCode
  ShapeIn <- MCShapeIn
INVARIANTS
  RunsAsEvaluated
  KeepsContract
  WaysAgree
PROPERTIES
  EveryRunEnds
