SPECIFICATION Spec
CONSTANTS
  dir = dir
  file = file
  Paths <- MCPaths
  Under <- MCUnder
  Configs <- MCConfigs
  MaxChanges = 2
  MaxConfigs = 0
  MaxRecoveries = 1
  MaxFailures = 0
INVARIANT
  IndexAccurate
CHECK_DEADLOCK FALSE
