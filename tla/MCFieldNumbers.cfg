SPECIFICATION Spec
CONSTANTS
  Schema <- MCSchema
  Member <- MCMember
  SchemaOf <- MCSchemaOf
  KindOf <- MCKindOf
  HashOf <- MCHashOf
  Marks <- MCMarks
  MsgMarks <- MCMsgMarks
INVARIANTS
  TypeOK
  NoNumberTwice
  FilledNumbersLegal
  VerdictFitsSchemas
PROPERTIES
  NumbersNeverMove
  KeepsLedger
