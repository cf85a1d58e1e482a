SPECIFICATION Spec
CONSTANTS
  a = a
  b = b
  Keys <- MCKeys
  Shapes <- MCShapes
  Ignorable <- MCIgnorable
  Optional <- MCOptional
INVARIANTS
  TypeOK
  StrictTellsAll
  CodeCompiles
  BoundAsAsked
CHECK_DEADLOCK FALSE
