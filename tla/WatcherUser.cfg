SPECIFICATION FairSpec
CONSTANTS
  r1 = r1
  r2 = r2
  Roots <- TwoRoots
  Configs <- TwoConfigs
  MaxLosses = 0
  MaxConfigs = 1
  MaxManual = 1
  MaxFailures = 1
INVARIANTS
  HealthyNeedsNoRestart
PROPERTIES
  ResyncEnds
CHECK_DEADLOCK FALSE
