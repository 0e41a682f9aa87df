------------------------- MODULE ChangeRunLockProofs -------------------------
(***************************************************************************)
(* The pid file as a lock between any number of watchers of one checkout:  *)
(* it holds until a process is killed, an attempt outlives                 *)
(* staleLockSeconds or a pid file is read torn (LockIsHeld).  What makes   *)
(* it inductive is that until then no lock is stale, so that no reaper     *)
(* unlinks one.                                                            *)
(***************************************************************************)
EXTENDS ChangeRunProofs

\* a lock is free or its owner lives, and no reaper unlinks one
NoStaleLock ==
  /\ \A t \in Tasks : lock[t] # Gone /\ t \notin aged
  /\ \A w \in Watchers : pc[w] # "unlink"

OwnsLock == \A w \in Watchers : InTask(w) => lock[cur[w]] = w

BudgetLasts == \A k \in Kinds : budget[k] <= Budget[k]

LockInv == BudgetLasts /\ (Undisturbed => NoStaleLock /\ OwnsLock)

USE DEF At, Goto, MoveOn, NextCycle, Spend, FreeLock, markerVars, stepVars,
        loopVars, localVars, treeVars, worldVars, sealVars, deathVars,
        lockVars, stateVars

(* Nothing adds to the budget. *)
LEMMA BudgetStep == Inv /\ LockInv /\ [Next]_vars => BudgetLasts'
<1> SUFFICES ASSUME Inv, LockInv, [Next]_vars PROVE BudgetLasts'
  OBVIOUS
<1>0. CountsTyped
  BY InvParts
<1> USE <1>0, BudgetAssumption DEF CountsTyped, LockInv, BudgetLasts, Kinds
<1>1. ASSUME NEW w \in Watchers, Reaping(w) PROVE BudgetLasts'
  BY <1>1, SMTT(30) DEF Reaping, Start, ReadLock, Reap, MisreadLock,
     PassLock, UnlinkLock, EndReap, Bury, EndBury
<1>2. ASSUME NEW w \in Watchers, Retrying(w) PROVE BudgetLasts'
  BY <1>2, SMTT(30) DEF Retrying, MarkStuck, AutoRetry, BeginRetry,
     RetainDead, SkipRetry, RetainNext, RetainMarker, RetainThrows,
     RetainDone, AppendRetry, EndRetries
<1>3. ASSUME NEW w \in Watchers, Deriving(w) PROVE BudgetLasts'
  BY <1>3, SMTT(30) DEF Deriving, StartTask, StartArchive, LeaveAlone
<1>4. ASSUME NEW w \in Watchers, Checking(w) PROVE BudgetLasts'
  BY <1>4, SMTT(30) DEF Checking, AuditClear, Auditing, Visited,
     AuditRecertify, AuditRegress, AuditHalts, EndAudit, AfterAudit
<1>5. ASSUME NEW w \in Watchers, Running(w) PROVE BudgetLasts'
  BY <1>5, SMTT(30) DEF Running, RefuseSeal, Refuse, RefuseEntry, Begin,
     AcquireLock, LockTaken, RefuseStart, Fail, Spawn, AgentExits,
     JudgeFails, JudgePauses, JudgePasses, Release
<1>6. ASSUME NEW w \in Watchers, Finishing(w) PROVE BudgetLasts'
  BY <1>6, SMTT(30) DEF Finishing, ArchiveWaits, Recheck, VerifyGreen,
     Visited, VerifyRed, RegressTarget, EndVerify, ChangeGreen, ChangeRed,
     Relocate
<1>7. ASSUME NEW w \in Watchers, Crash(w) PROVE BudgetLasts'
  BY <1>7, SMTT(30) DEF Crash
<1>8. CASE Continue
  BY <1>8, SMTT(30) DEF Continue, Retire, BeginRetry, RetainDead, RetainNext,
     RetainMarker, RetainThrows,
     RetainDone, AppendRetry
<1>9. CASE BeginApproval \/ Approve \/ Decline
  BY <1>9, SMTT(30) DEF BeginApproval, Approve, Decline
<1>10. CASE HumanRetry
  BY <1>10, SMTT(30) DEF HumanRetry, BeginRetry, RetainDead
<1>11. CASE KillHuman
  BY <1>11, SMTT(30) DEF KillHuman
<1>12. CASE EditPlan \/ HumanEditsTree \/ OrphanExits \/ LockAges
  BY <1>12, SMTT(30) DEF EditPlan, HumanEditsTree, OutsideEdit, TreeEdit,
     Tamper, OrphanExits, LockAges
<1>13. CASE Time
  BY <1>13, SMTT(30) DEF Time, PauseEnds, DelayPasses
<1>14. CASE UNCHANGED vars
  BY <1>14 DEF vars
<1> QED
  BY <1>1, <1>2, <1>3, <1>4, <1>5, <1>6, <1>7, <1>8, <1>9, <1>10, <1>11,
     <1>12, <1>13, <1>14 DEF Next, Watch

(* What is undisturbed was so before. *)
LEMMA UndisturbedBefore ==
  Inv /\ LockInv /\ Undisturbed' /\ [Next]_vars => Undisturbed
<1> SUFFICES ASSUME Inv, LockInv, Undisturbed', [Next]_vars PROVE Undisturbed
  OBVIOUS
<1>0. CountsTyped
  BY InvParts
<1> USE <1>0, BudgetAssumption DEF CountsTyped, LockInv, BudgetLasts,
    Undisturbed, Kinds
<1>1. ASSUME NEW w \in Watchers, Reaping(w) PROVE Undisturbed
  BY <1>1, SMTT(30) DEF Reaping, Start, ReadLock, Reap, MisreadLock,
     PassLock, UnlinkLock, EndReap, Bury, EndBury
<1>2. ASSUME NEW w \in Watchers, Retrying(w) PROVE Undisturbed
  BY <1>2, SMTT(30) DEF Retrying, MarkStuck, AutoRetry, BeginRetry,
     RetainDead, SkipRetry, RetainNext, RetainMarker, RetainThrows,
     RetainDone, AppendRetry, EndRetries
<1>3. ASSUME NEW w \in Watchers, Deriving(w) PROVE Undisturbed
  BY <1>3, SMTT(30) DEF Deriving, StartTask, StartArchive, LeaveAlone
<1>4. ASSUME NEW w \in Watchers, Checking(w) PROVE Undisturbed
  BY <1>4, SMTT(30) DEF Checking, AuditClear, Auditing, Visited,
     AuditRecertify, AuditRegress, AuditHalts, EndAudit, AfterAudit
<1>5. ASSUME NEW w \in Watchers, Running(w) PROVE Undisturbed
  BY <1>5, SMTT(30) DEF Running, RefuseSeal, Refuse, RefuseEntry, Begin,
     AcquireLock, LockTaken, RefuseStart, Fail, Spawn, AgentExits,
     JudgeFails, JudgePauses, JudgePasses, Release
<1>6. ASSUME NEW w \in Watchers, Finishing(w) PROVE Undisturbed
  BY <1>6, SMTT(30) DEF Finishing, ArchiveWaits, Recheck, VerifyGreen,
     Visited, VerifyRed, RegressTarget, EndVerify, ChangeGreen, ChangeRed,
     Relocate
<1>7. ASSUME NEW w \in Watchers, Crash(w) PROVE Undisturbed
  BY <1>7, SMTT(30) DEF Crash
<1>8. CASE Continue
  BY <1>8, SMTT(30) DEF Continue, Retire, BeginRetry, RetainDead, RetainNext,
     RetainMarker, RetainThrows,
     RetainDone, AppendRetry
<1>9. CASE BeginApproval \/ Approve \/ Decline
  BY <1>9, SMTT(30) DEF BeginApproval, Approve, Decline
<1>10. CASE HumanRetry
  BY <1>10, SMTT(30) DEF HumanRetry, BeginRetry, RetainDead
<1>11. CASE KillHuman
  BY <1>11, SMTT(30) DEF KillHuman
<1>12. CASE EditPlan \/ HumanEditsTree \/ OrphanExits \/ LockAges
  BY <1>12, SMTT(30) DEF EditPlan, HumanEditsTree, OutsideEdit, TreeEdit,
     Tamper, OrphanExits, LockAges
<1>13. CASE Time
  BY <1>13, SMTT(30) DEF Time, PauseEnds, DelayPasses
<1>14. CASE UNCHANGED vars
  BY <1>14 DEF vars
<1> QED
  BY <1>1, <1>2, <1>3, <1>4, <1>5, <1>6, <1>7, <1>8, <1>9, <1>10, <1>11,
     <1>12, <1>13, <1>14 DEF Next, Watch

(* No lock becomes stale. *)
LEMMA NoStaleStep ==
  Inv /\ LockInv /\ Undisturbed /\ Undisturbed' /\ [Next]_vars => NoStaleLock'
<1> SUFFICES ASSUME Inv, LockInv, Undisturbed, Undisturbed', [Next]_vars
             PROVE  NoStaleLock'
  OBVIOUS
<1>0. ControlTyped /\ Control /\ LocksTyped /\ CountsTyped
  BY InvParts
<1> USE <1>0, ActorsAssumption DEF ControlTyped, Control, LocksTyped,
    CountsTyped, LockInv, Undisturbed, NoStaleLock, OwnsLock, InTask, Kinds,
    Stale, Free, Gone, LanePhases, RetryPhases, ArchivePhases,
    WatcherPhases, HumanPhases, Actors
<1>1. ASSUME NEW w \in Watchers, Reaping(w) PROVE NoStaleLock'
  BY <1>1, SMTT(30) DEF Reaping, Start, ReadLock, Reap, MisreadLock,
     PassLock, UnlinkLock, EndReap, Bury, EndBury
<1>2. ASSUME NEW w \in Watchers, Retrying(w) PROVE NoStaleLock'
  BY <1>2, SMTT(30) DEF Retrying, MarkStuck, AutoRetry, BeginRetry,
     RetainDead, SkipRetry, RetainNext, RetainMarker, RetainThrows,
     RetainDone, AppendRetry, EndRetries
<1>3. ASSUME NEW w \in Watchers, Deriving(w) PROVE NoStaleLock'
  BY <1>3, SMTT(30) DEF Deriving, StartTask, StartArchive, LeaveAlone
<1>4. ASSUME NEW w \in Watchers, Checking(w) PROVE NoStaleLock'
  BY <1>4, SMTT(30) DEF Checking, AuditClear, Auditing, Visited,
     AuditRecertify, AuditRegress, AuditHalts, EndAudit, AfterAudit
<1>5. ASSUME NEW w \in Watchers, Running(w) PROVE NoStaleLock'
  <2>1. CASE RefuseSeal(w) \/ RefuseEntry(w) \/ Begin(w) \/ LockTaken(w) \/
             RefuseStart(w) \/ Spawn(w) \/ AgentExits(w) \/ JudgeFails(w) \/
             JudgePauses(w) \/ JudgePasses(w)
    BY <1>5, <2>1, SMTT(30) DEF RefuseSeal, Refuse, RefuseEntry, Begin,
       LockTaken, RefuseStart, Fail, Spawn, AgentExits, JudgeFails,
       JudgePauses, JudgePasses
  <2>2. CASE AcquireLock(w)
    BY <2>2 DEF AcquireLock
  <2>3. CASE Release(w)
    BY <2>3 DEF Release
  <2> QED
    BY <1>5, <2>1, <2>2, <2>3 DEF Running
<1>6. ASSUME NEW w \in Watchers, Finishing(w) PROVE NoStaleLock'
  BY <1>6, SMTT(30) DEF Finishing, ArchiveWaits, Recheck, VerifyGreen,
     Visited, VerifyRed, RegressTarget, EndVerify, ChangeGreen, ChangeRed,
     Relocate
<1>7. ASSUME NEW w \in Watchers, Crash(w) PROVE NoStaleLock'
  BY <1>7, SMTT(30) DEF Crash
<1>8. CASE Continue
  BY <1>8, SMTT(30) DEF Continue, Retire, BeginRetry, RetainDead, RetainNext,
     RetainMarker, RetainThrows,
     RetainDone, AppendRetry
<1>9. CASE BeginApproval \/ Approve \/ Decline
  BY <1>9, SMTT(30) DEF BeginApproval, Approve, Decline
<1>10. CASE HumanRetry
  BY <1>10, SMTT(30) DEF HumanRetry, BeginRetry, RetainDead
<1>11. CASE KillHuman
  BY <1>11, SMTT(30) DEF KillHuman
<1>12. CASE EditPlan \/ HumanEditsTree \/ OrphanExits \/ LockAges
  BY <1>12, SMTT(30) DEF EditPlan, HumanEditsTree, OutsideEdit, TreeEdit,
     Tamper, OrphanExits, LockAges
<1>13. CASE Time
  BY <1>13, SMTT(30) DEF Time, PauseEnds, DelayPasses
<1>14. CASE UNCHANGED vars
  BY <1>14 DEF vars
<1> QED
  BY <1>1, <1>2, <1>3, <1>4, <1>5, <1>6, <1>7, <1>8, <1>9, <1>10, <1>11,
     <1>12, <1>13, <1>14 DEF Next, Watch

(* A lock leaves its owner only by the owner's own release. *)
LEMMA OwnsStep ==
  Inv /\ LockInv /\ Undisturbed /\ Undisturbed' /\ [Next]_vars => OwnsLock'
<1> SUFFICES ASSUME Inv, LockInv, Undisturbed, Undisturbed', [Next]_vars
             PROVE  OwnsLock'
  OBVIOUS
<1>0. ControlTyped /\ Control /\ LocksTyped /\ CountsTyped
  BY InvParts
<1> USE <1>0, ActorsAssumption DEF ControlTyped, Control, LocksTyped,
    CountsTyped, LockInv, Undisturbed, NoStaleLock, OwnsLock, InTask, Kinds,
    LanePhases, RetryPhases, ArchivePhases, WatcherPhases, HumanPhases,
    Actors
<1>1. ASSUME NEW w \in Watchers, Reaping(w) PROVE OwnsLock'
  BY <1>1, SMTT(30) DEF Reaping, Start, ReadLock, Reap, MisreadLock,
     PassLock, UnlinkLock, EndReap, Bury, EndBury
<1>2. ASSUME NEW w \in Watchers, Retrying(w) PROVE OwnsLock'
  BY <1>2, SMTT(30) DEF Retrying, MarkStuck, AutoRetry, BeginRetry,
     RetainDead, SkipRetry, RetainNext, RetainMarker, RetainThrows,
     RetainDone, AppendRetry, EndRetries
<1>3. ASSUME NEW w \in Watchers, Deriving(w) PROVE OwnsLock'
  BY <1>3, SMTT(30) DEF Deriving, StartTask, StartArchive, LeaveAlone
<1>4. ASSUME NEW w \in Watchers, Checking(w) PROVE OwnsLock'
  BY <1>4, SMTT(30) DEF Checking, AuditClear, Auditing, Visited,
     AuditRecertify, AuditRegress, AuditHalts, EndAudit, AfterAudit
<1>5. ASSUME NEW w \in Watchers, Running(w) PROVE OwnsLock'
  BY <1>5, SMTT(30) DEF Running, RefuseSeal, Refuse, RefuseEntry, Begin,
     AcquireLock, LockTaken, RefuseStart, Fail, Spawn, AgentExits,
     JudgeFails, JudgePauses, JudgePasses, Release
<1>6. ASSUME NEW w \in Watchers, Finishing(w) PROVE OwnsLock'
  BY <1>6, SMTT(30) DEF Finishing, ArchiveWaits, Recheck, VerifyGreen,
     Visited, VerifyRed, RegressTarget, EndVerify, ChangeGreen, ChangeRed,
     Relocate
<1>7. ASSUME NEW w \in Watchers, Crash(w) PROVE OwnsLock'
  BY <1>7, SMTT(30) DEF Crash
<1>8. CASE Continue
  BY <1>8, SMTT(30) DEF Continue, Retire, BeginRetry, RetainDead, RetainNext,
     RetainMarker, RetainThrows,
     RetainDone, AppendRetry
<1>9. CASE BeginApproval \/ Approve \/ Decline
  BY <1>9, SMTT(30) DEF BeginApproval, Approve, Decline
<1>10. CASE HumanRetry
  BY <1>10, SMTT(30) DEF HumanRetry, BeginRetry, RetainDead
<1>11. CASE KillHuman
  BY <1>11, SMTT(30) DEF KillHuman
<1>12. CASE EditPlan \/ HumanEditsTree \/ OrphanExits \/ LockAges
  BY <1>12, SMTT(30) DEF EditPlan, HumanEditsTree, OutsideEdit, TreeEdit,
     Tamper, OrphanExits, LockAges
<1>13. CASE Time
  BY <1>13, SMTT(30) DEF Time, PauseEnds, DelayPasses
<1>14. CASE UNCHANGED vars
  BY <1>14 DEF vars
<1> QED
  BY <1>1, <1>2, <1>3, <1>4, <1>5, <1>6, <1>7, <1>8, <1>9, <1>10, <1>11,
     <1>12, <1>13, <1>14 DEF Next, Watch
-----------------------------------------------------------------------------
(* No lock is there at first. *)
LEMMA InitLock == Init => LockInv
  BY ActorsAssumption, BudgetAssumption
  DEF Init, MarkersInit, LockInv, BudgetLasts, NoStaleLock, OwnsLock, InTask,
      Actors, Free, Gone

(* No step leaves LockInv. *)
LEMMA LockStep == Inv /\ LockInv /\ [Next]_vars => LockInv'
<1> SUFFICES ASSUME Inv, LockInv, [Next]_vars PROVE LockInv'
  OBVIOUS
<1>1. BudgetLasts'
  BY BudgetStep
<1>2. ASSUME Undisturbed' PROVE NoStaleLock' /\ OwnsLock'
  BY <1>2, UndisturbedBefore, NoStaleStep, OwnsStep
<1> QED
  BY <1>1, <1>2 DEF LockInv

(* Among any number of watchers, humans and tasks, and until something      *)
(* disturbs the locks, a task's pid file names the watcher that runs it,    *)
(* from acquireLock to releaseLock.                                         *)
THEOREM LockIsKept == Spec => []LockIsHeld
<1>1. LockInv => LockIsHeld
  BY DEF LockInv, OwnsLock, LockIsHeld
<1> QED
  BY InitInv, InvStep, InitLock, LockStep, <1>1, PTL DEF Spec

(* So a run without kills, late attempts and torn reads never has two       *)
(* watchers in the locked part of runTask for one task.                     *)
THEOREM LockKeepsOthersOut == Spec => [](Undisturbed => LockExcludes)
<1>1. LockIsHeld => (Undisturbed => LockExcludes)
  BY DEF LockIsHeld, LockExcludes
<1> QED
  BY LockIsKept, <1>1, PTL
=============================================================================
