SPECIFICATION DynpaxSpec
CONSTANTS
  Dir <- MCDir
  RelDir <- MCRelDir
  Name <- MCName
  CanonDir <- MCCanonDir
  LexJoin <- MCLexJoin
  Listed <- MCListed
  Rank <- MCRank
  MaxHops = 3
  NoPath = NoPath
  NoDir = NoDir
  NoResolution = NoResolution
  Preserved <- MCPreserved
  MuslLibc = {}
  SystemRoots <- MCSystemRoots
  Worlds <- MCWorlds
  Targets <- MCTargets
  Policies = {"flat-lib64", "preserve-source-tree"}
  Commands <- MCCommands
  MaxFaults = 1
  Components <- MCComponents
  Relayout = FALSE
  Upgrades = {}
  MaxRuns = 2
INVARIANTS
  DynpaxTypeOK
  SuccessDeliversAll
  BundledLoaderIsUsed
  SharedLibrariesStillLoad
  RerunSucceeds
PROPERTIES
  ImplementsDelivery
  CommandEnds
CHECK_DEADLOCK FALSE
