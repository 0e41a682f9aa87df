SPECIFICATION Spec
CONSTANTS
  NTasks = 2
  Prints = {p1}
  Watchers = {w1}
  AutoRetries = 0
  ProviderRetries = 0
  PreSpawnFails = FALSE
  EntryMissing = FALSE
  EarlyFailures = {}
  LateFailures = {}
  AgentsWander = TRUE
  ChangeReds = FALSE
  Budget <- CoreBudget
INVARIANTS AgentIsDue AuditedBeforeAgent ArchivedWhole
PROPERTIES LifecycleHolds
\* an archived change is never visited again
CHECK_DEADLOCK FALSE
