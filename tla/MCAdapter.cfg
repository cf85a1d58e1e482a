SPECIFICATION Spec
CONSTANTS
  Schema <- MCSchema
  Member <- MCMember
  SchemaOf <- MCSchemaOf
  KindOf <- MCKindOf
  Position <- MCPosition
  TypeOf <- MCTypeOf
  TargetOf <- MCTargetOf
  NameOf <- MCNameOf
  FileGiven <- MCFileGiven
  Package <- MCPackage
  FileOf <- MCFileOf
  File <- MCFile
  NoFile = NoFile
  External <- MCExternal
  MaxInt32 = 99
  Graphs <- MCGraphs
INVARIANTS
  TypeOK
  ErrorsFitGraph
  OwnedFilesWritten
  RootCauseNamed
  UnlinkedExplained
PROPERTIES
  LoadRepeatable
