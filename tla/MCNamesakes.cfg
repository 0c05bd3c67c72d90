SPECIFICATION DynpaxSpec
CONSTANTS
  Dir <- MCDir
  RelDir <- MCRelDir
  Name <- MCName
  CanonDir <- MCCanonDir
  LexJoin <- MCLexJoin
  Listed <- MCListed
  Rank <- MCRank
  MaxHops = 3
  NoPath = NoPath
  NoDir = NoDir
  NoResolution = NoResolution
  Preserved <- MCPreserved
  MuslLibc = {}
  SystemRoots <- MCSystemRoots
  Worlds <- NamesakeWorlds
  Targets <- MCTargets
  Policies = {"flat-lib64", "preserve-source-tree"}
  Commands <- NamesakeCommands
  MaxFaults = 0
  Components <- MCComponents
  Relayout = FALSE
  Upgrades = {}
  MaxRuns = 1
INVARIANTS
  SuccessDeliversAlways
CHECK_DEADLOCK FALSE
