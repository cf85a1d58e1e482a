SPECIFICATION FairSpec
CONSTANTS
  Schema <- MCSchema
  Member <- MCMember
  SchemaOf <- MCSchemaOf
  KindOf <- MCKindOf
  HashOf <- MCHashOf
  Marks <- MCMarks
  MsgMarks <- MCMsgMarks
  Position <- MCPosition
  TypeOf <- MCTypeOf
  TargetOf <- MCTargetOf
  Package <- MCPackage
  FileOf <- MCFileOf
  File <- MCFile
  NodeOrder <- MCNodeOrder
  PackageGiven <- MCPackageGiven
  OwnID <- MCOwnID
  NoFile = NoFile
  MaxInt32 = 2147483647
  MaxEdits = 4
INVARIANTS
  FilesFitSchemas
  NoSchemaVanishesSilently
  AutoFillBlameless
PROPERTIES
  SchemaErrorsWriteNothing
  NumbersStayOnDisk
  GenerationEnds
