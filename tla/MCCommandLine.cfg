SPECIFICATION CliSpec
CONSTANTS
  CommandLines <- MCCommandLines
  Policies = {"flat-lib64", "preserve-source-tree"}
  Cwd <- MCCwd
  Links <- MCLinks
  NoText = NoText
INVARIANTS
  CliTypeOK
  PathsNameTheirFiles
  AbortsHaveACause
CHECK_DEADLOCK FALSE
