SPECIFICATION Spec
CONSTANTS
  Schema <- MCSchema
  Member <- MCMember
  SchemaOf <- MCSchemaOf
  KindOf <- MCKindOf
  Position <- MCPosition
  TypeOf <- MCTypeOf
  TargetOf <- MCTargetOf
  NameOf <- OneName
  FileGiven <- OwnFileGiven
  Package <- MCPackage
  FileOf <- MCFileOf
  File <- MCFile
  NoFile = NoFile
  External <- Nobody
  MaxInt32 = 99
  Graphs <- MCGraphs
INVARIANT OwnedFilesWritten
