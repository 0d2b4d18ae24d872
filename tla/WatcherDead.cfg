SPECIFICATION Spec
CONSTANTS
  r1 = r1
  r2 = r2
  Roots <- OneRoot
  Configs <- OneConfig
  MaxLosses = 2
  MaxConfigs = 0
  MaxManual = 0
  MaxFailures = 0
INVARIANT
  HealthyMeansWatching
CHECK_DEADLOCK FALSE
