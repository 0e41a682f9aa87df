SPECIFICATION WSpec
CONSTANTS
  NTasks = 2
  AutoRetries = 1
  CommitRetries = 1
  Deletes = {2}
  Budgets <- OneOfEach
PROPERTIES
  LastCopyKept
CHECK_DEADLOCK FALSE
