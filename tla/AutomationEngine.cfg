SPECIFICATION FairSpec
CONSTANTS
  Kinds = {"once", "calendar"}
  Policies <- MCPolicies
  Executions <- MCExecutions
  MaxAutomations = 1
  MaxFires = 2
  MaxDisturbances = 2
\* App may have stopped the engine, or nothing may be scheduled.
CHECK_DEADLOCK FALSE
INVARIANTS
  AutomationsArmed
  AutomationsKept
  RunsAccounted
PROPERTIES
  OnceSucceedsOnce
  StopReturns
