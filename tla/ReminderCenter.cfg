SPECIFICATION FairSpec
CONSTANTS
  MaxReminders = 2
  MaxFires = 2
  MaxFailures = 1
  MaxCrashes = 1
INVARIANTS
  RemindersArmed
  RemindersKept
PROPERTIES
  ShownOnce
  OnceIsShown
CHECK_DEADLOCK FALSE
