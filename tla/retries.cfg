SPECIFICATION FairSpec
CONSTANTS
  NTasks = 1
  Prints = {p1, p2}
  Watchers = {w1}
  AutoRetries = 2
  ProviderRetries = 1
  PreSpawnFails = TRUE
  EntryMissing = FALSE
  EarlyFailures = {"crashed", "provider_unavailable", "blocked"}
  LateFailures = {}
  AgentsWander = FALSE
  ChangeReds = TRUE
  Budget <- RetriesBudget
INVARIANTS TypeOK SpentIsBounded
PROPERTIES StuckWaitsForHuman ComesToRest
\* an archived change is never visited again
CHECK_DEADLOCK FALSE
