SPECIFICATION Spec
CONSTANTS
  Dir <- MCDir
  RelDir <- MCRelDir
  Name <- MCName
  CanonDir <- MCCanonDir
  LexJoin <- MCLexJoin
  Listed <- MCListed
  Rank <- MCRank
  MaxHops = 3
  NoPath = NoPath
  NoDir = NoDir
  NoResolution = NoResolution
  Preserved <- MCPreserved
  MuslLibc = {}
  SystemRoots <- MCSystemRoots
  Worlds <- LoaderWorlds
  Targets <- MCTargets
  Policies = {"flat-lib64"}
INVARIANTS
  AliasNeverReplacesPayload
CHECK_DEADLOCK FALSE
