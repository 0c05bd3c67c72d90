SPECIFICATION Spec
CONSTANTS
  Dir <- MCDir
  RelDir <- MCRelDir
  Name <- MCName
  CanonDir <- MCCanonDir
  LexJoin <- MCLexJoin
  Listed <- MCListed
  Rank <- MCRank
  MaxHops = 3
  NoPath = NoPath
  NoResolution = NoResolution
  SystemRoots <- MCSystemRoots
  Worlds <- MCWorlds
  RootLists <- MCRootLists
INVARIANTS
  TypeOK
  ScanComputesLookup
  AliasIsFiled
PROPERTIES
  OnlyLinksRebind
CHECK_DEADLOCK FALSE
