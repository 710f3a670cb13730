SPECIFICATION Spec
CONSTANTS
  Text <- MCText
  NoText = NoText
INVARIANTS
  LexicalFirst
