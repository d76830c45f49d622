SPECIFICATION Spec
CONSTANTS
  MaxInits = 2
  MaxTasks = 2
INVARIANT PoolUsedAlive
CHECK_DEADLOCK FALSE
