SPECIFICATION ServiceSpec
CONSTANTS
  NChanges = 2
  NTasks = 2
  Caps = {0, 2}
  Pauses = 1
  Reopens = 1
  Faults = 1
  Stops = 2
INVARIANTS ServiceTypeOK CapHolds OneHandPerChange ExitIsQuiet OnceFinishes StopIsGraceful
PROPERTIES StopSettles KeptServed
\* the process ends
CHECK_DEADLOCK FALSE
