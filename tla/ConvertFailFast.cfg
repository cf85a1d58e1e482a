SPECIFICATION Spec
CONSTANTS
  Modulus <- MCModulus
  Word = 64
  Named <- MCNamed
  Normalized <- MCNormalized
  FieldConfs <- MCFieldConfs
  Numbers = {0, 1, 2, 3}
  MaxHops = 4
INVARIANT CustomTypesFailFast
CHECK_DEADLOCK FALSE
