SPECIFICATION SSpec
CONSTANTS
  NPlans = 3
  NVersions = 2
  Budgets <- TheBudgets
  Quota <- TheQuota
INVARIANTS
  STypeOK
  SealedWasReviewed
  ApprovedIsKept
  RunsLastApproved
  StartsOnDependency
PROPERTIES
  StackMoves
  
  SteerSettles
\* a change nobody approves stays a draft
CHECK_DEADLOCK FALSE
