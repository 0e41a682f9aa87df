SPECIFICATION FairSpec
CONSTANTS
  NTasks = 2
  AutoRetries = 1
  CommitRetries = 1
  Deletes = {2}
  Budgets <- TheBudgets
  Landers = {"autopilot", "server"}
  Publishers = {"server"}
  plain = plain
  rewrite = rewrite
  clash = clash
  Moves = {plain, rewrite, clash}
  Rewrites = {rewrite}
  Conflicts = {clash}
  LandBudget <- TheLand
  Quota <- TheQuota
  Profiles = {"crash", "retry", "halt", "sync", "race", "fail", "push", "plan"}
INVARIANTS
  ATypeOK
  SealedWhole
  HalfMergedHasRecord
  CommitBudgetHolds
  NoWorkReverted
  CleanupKeepsWork
  PushedBeforeMoved
  MergeHasItsSync
  AfterLandRan
PROPERTIES
  WSpec
  MainOnlyGrows
  StartsFromCommitted
  VerifiedNeverDiscarded
  MarkersRecorded
  ItemSettles
\* a delivered change, and one that waits for a human, move no more
CHECK_DEADLOCK FALSE
