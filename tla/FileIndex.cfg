SPECIFICATION Spec
CONSTANTS
  dir = dir
  file = file
  Paths <- MCPaths
  Under <- MCUnder
  Configs <- MCConfigs
  MaxChanges = 2
  MaxConfigs = 1
  MaxRecoveries = 1
  MaxFailures = 1
INVARIANT
  ScansAreSound
CHECK_DEADLOCK FALSE
