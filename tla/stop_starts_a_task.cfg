SPECIFICATION Spec
CONSTANTS
  NChanges = 2
  NTasks = 1
  Caps = {1, 2}
  Pauses = 0
  Reopens = 0
PROPERTY StopStartsNoTask
\* the process ends
CHECK_DEADLOCK FALSE
