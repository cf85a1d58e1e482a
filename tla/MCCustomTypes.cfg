SPECIFICATION FairSpec
CONSTANTS
  p1 = p1
  p2 = p2
  p3 = p3
  user = user
  accountV1 = accountV1
  accountV2 = accountV2
  noFile = noFile
  NoEntry = NoEntry
  Proc <- MCProc
  Name <- MCName
  Entry <- MCEntry
  Complete <- MCComplete
INVARIANTS
  TypeOK
  GrantsHold
  RefusalsJustified
PROPERTIES
  CallsReturn
  IsTypeBook
