SPECIFICATION Spec
CONSTANTS
  NTasks = 1
  Prints = {p1}
  Watchers = {w1, w2}
  AutoRetries = 1
  ProviderRetries = 0
  PreSpawnFails = FALSE
  EntryMissing = FALSE
  EarlyFailures = {"crashed"}
  LateFailures = {}
  AgentsWander = FALSE
  ChangeReds = FALSE
  Budget <- PairBudget
INVARIANT LockExcludes
\* an archived change is never visited again
CHECK_DEADLOCK FALSE
