SPECIFICATION Spec
CONSTANTS
  Dir <- MCDir
  RelDir <- MCRelDir
  Name <- MCName
  CanonDir <- MCCanonDir
  LexJoin <- MCLexJoin
  Listed <- MCListed
  Rank <- MCRank
  MaxHops = 3
  NoPath = NoPath
  NoDir = NoDir
  NoResolution = NoResolution
  Preserved <- MCPreserved
  MuslLibc = {}
  SystemRoots <- MCSystemRoots
  Worlds <- VendorWorlds
  Targets <- MCTargets
  Policies = {"preserve-source-tree"}
INVARIANTS
  LoaderFindsImports
CHECK_DEADLOCK FALSE
