SPECIFICATION Spec
CONSTANTS
  Dir <- MCDir
  RelDir <- MCRelDir
  Name <- MCName
  CanonDir <- MCCanonDir
  LexJoin <- MCLexJoin
  Listed <- MCListed
  Rank <- MCRank
  MaxHops = 3
  NoPath = NoPath
  NoDir = NoDir
  NoResolution = NoResolution
  Preserved <- MCPreserved
  MuslLibc = {}
  SystemRoots <- MCSystemRoots
  Worlds <- MCWorlds
  Targets <- MCTargets
  Policies = {"flat-lib64", "preserve-source-tree"}
INVARIANTS
  TypeOK
  OnePayloadPerFile
  InterpreterBundledOnce
  AliasPathsDistinct
  PayloadPrecedesAlias
  NoDanglingAlias
  AliasLeadsToItsFile
  PreservedPathsDistinct
  FlatPlanServesImports
PROPERTIES
  ImplementsClosure
  PlanningEnds
CHECK_DEADLOCK FALSE
