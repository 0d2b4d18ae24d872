SPECIFICATION Spec
CONSTANTS
  r1 = r1
  r2 = r2
  Roots <- TwoRoots
  Configs <- TwoConfigs
  MaxLosses = 2
  MaxConfigs = 1
  MaxManual = 0
  MaxFailures = 0
CONSTRAINT LossesOrCommands
INVARIANTS
  LossesTracked
PROPERTIES
  ResyncRepairs
CHECK_DEADLOCK FALSE
