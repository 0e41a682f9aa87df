SPECIFICATION Spec
CONSTANTS
  NTasks = 1
  Prints = {p1, p2}
  Watchers = {w1, w2}
  AutoRetries = 1
  ProviderRetries = 0
  PreSpawnFails = FALSE
  EntryMissing = TRUE
  EarlyFailures = {}
  LateFailures = {}
  AgentsWander = FALSE
  ChangeReds = FALSE
  Budget <- PairBudget
INVARIANT LockIsHeld
SYMMETRY WatcherSymmetry
\* an archived change is never visited again
CHECK_DEADLOCK FALSE
