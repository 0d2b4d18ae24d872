\* The executor: more callbacks than its queue and its two workers hold.  The
\* scheduler: three tasks, of which any may repeat, and two ticks of the clock.
SPECIFICATION RuntimeSpec
CONSTANTS
  Pool = {u1, u2}
  Clients = {c1}
  QueueCapacity = 2
  MaxJobs = 4
  Delays <- MCDelays
  Intervals = {0, 1}
  MaxTasks = 3
  MaxTime = 2
INVARIANTS
  AcceptedAreRun
  SchedulerSound
PROPERTIES
  ExecutorGoesOn
  StartsInOrder
  TasksStart
  StopReturns
CHECK_DEADLOCK FALSE
