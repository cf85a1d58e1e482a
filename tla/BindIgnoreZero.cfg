SPECIFICATION Spec
CONSTANTS
  a = a
  b = b
  Keys <- MCKeys
  Shapes <- MCShapes
  Ignorable <- MCIgnorable
  Optional <- MCOptional
INVARIANT
  ZeroIgnored
CHECK_DEADLOCK FALSE
