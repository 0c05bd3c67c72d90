SPECIFICATION DynpaxSpec
CONSTANTS
  Dir <- MCDir
  RelDir <- MCRelDir
  Name <- MCName
  CanonDir <- MCCanonDir
  LexJoin <- MCLexJoin
  Listed <- MCListed
  Rank <- MCRank
  MaxHops = 3
  NoPath = NoPath
  NoDir = NoDir
  NoResolution = NoResolution
  Preserved <- MCPreserved
  MuslLibc = {}
  SystemRoots <- MCSystemRoots
  Worlds <- VersionWorlds
  Targets <- MCTargets
  Policies = {"flat-lib64", "preserve-source-tree"}
  Commands <- MCCommands
  MaxFaults = 0
  Components <- MCComponents
  Relayout = FALSE
  Upgrades <- MCUpgrades
  MaxRuns = 2
INVARIANTS
  FreshRecordsDeliverImports
CHECK_DEADLOCK FALSE
