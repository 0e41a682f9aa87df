SPECIFICATION ServiceSpec
CONSTANTS
  NChanges = 1
  NTasks = 1
  Caps = {1}
  Pauses = 0
  Reopens = 0
  Faults = 0
  Stops = 1
INVARIANT StopLeavesNoWorker
\* the process ends
CHECK_DEADLOCK FALSE
