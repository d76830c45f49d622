SPECIFICATION FairSpec
CONSTANTS
  MaxInits = 3
  MaxTasks = 2
INVARIANTS ReleasedAfterExit NetworkUsesLive TasksHaveBuffer 
PROPERTIES ExitTerminates NetworkEnds
CHECK_DEADLOCK FALSE
