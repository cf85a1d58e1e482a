SPECIFICATION Spec
CONSTANTS
  Nodes <- MCNodes
  Fields <- MCFields
  Types <- MCTypes
  Consts <- MCConsts
  Schemas <- MCSchemas
  Layouts <- MCLayouts
  ProjectID = "int64"
  OptionSets <- MCOptionSets
  UserFiles <- MCUserFiles
  MaxEvents = 3
INVARIANTS
  TypeOK
  ConvertersFit
  DirectoryFits
  FreshAccepted
  DamageBounded
