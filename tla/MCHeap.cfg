SPECIFICATION FairSpec
CONSTANTS
  Num = {}
  Str = {}
  Name = {f, g}
  TypeName = {T}
  Free = Free
  Threshold = 2
  Capacity = 3
  Plain <- MCPlain
INVARIANTS
  TypeOK
  FreeListExact
  NoDangling
PROPERTIES
  CollectExact
  ImplementsStore
  CollectorAdvances
  CollectTerminates
