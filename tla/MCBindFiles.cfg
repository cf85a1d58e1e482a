SPECIFICATION Spec
CONSTANTS
  Name <- MCName
  Action <- MCAction
  File <- MCFile
  Path <- MCPath
  Confs <- MCConfs
  UserFiles <- MCUserFiles
  MaxEvents = 1
INVARIANTS
  TypeOK
  PackageFitsConf
  DamageBounded
PROPERTIES
  UserFilesKept
