SPECIFICATION ClientSpec
CONSTANTS
  Dir <- MCDir
  RelDir <- MCRelDir
  Name <- MCName
  CanonDir <- MCCanonDir
  LexJoin <- MCLexJoin
  Listed <- MCListed
  Rank <- MCRank
  MaxHops = 3
  NoPath = NoPath
  NoResolution = NoResolution
  SystemRoots <- MCSystemRoots
  Worlds <- MCWorlds
  Configs <- MCConfigs
  Environments <- MCEnvironments
  Settings <- MCSettings
  Requests <- MCRequests
  OtherLine = OtherLine
INVARIANTS
  ClientTypeOK
  AnswersOfOneScan
  CurrentRecordsAreExact
  SystemFilesComeFirst
