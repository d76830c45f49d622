CONSTANTS
  ThreadCount = 3
  QueueSize = 3
  MaxTasks = 6
SPECIFICATION FairSpec
INVARIANTS
  FreedWhenUnused
  SignalsSuffice
PROPERTIES
  ImplementsTaskQueue
  AcceptedTasksRun
  DestroyReturns
CHECK_DEADLOCK FALSE
