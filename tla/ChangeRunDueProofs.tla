------------------------- MODULE ChangeRunDueProofs -------------------------
(***************************************************************************)
(* What one watcher may rely on while humans work beside it: the task its  *)
(* agent is given is the one due (AgentIsDue), automatic retries stay      *)
(* within gates.autoRetries (SpentIsBounded), a stuck task waits for a     *)
(* command (StuckWaitsForHuman), the scope audits cover the tree an        *)
(* agent starts on and the one archived (AuditedBeforeAgent,               *)
(* ArchivedWhole); and the change as `osq status` shows it implements      *)
(* TaskLifecycle.  None is inductive.  AgentIsDue needs what               *)
(* deriveSpecState found to last through the audit, the guard and the      *)
(* lock; the retries need in addition that a provider outage kills only    *)
(* tasks that are neither done nor regressed, since retrySpec would count  *)
(* the retry of a regressed one as an ordinary retry, which                *)
(* decideProviderRetry never checked against gates.autoRetries; the        *)
(* lifecycle needs all of it, and that a lane's lock is the only one.      *)
(***************************************************************************)
EXTENDS ChangeRunProofs

\* one watcher per checkout
Single == \A v, w \in Watchers : v = w

\* a lane up to the end of its agent
BeforeEnd == LanePhases \ {"release"}

\* nobody finished, killed or regressed the lane's task
CurIsOpen == \A w \in Watchers : pc[w] \in BeforeEnd =>
  /\ cur[w] \notin done
  /\ ~IsDead(cur[w])
  /\ ~IsRegressed(cur[w])

\* the earlier tasks are done, unless a retry took a marker
EarlierDone == \A w \in Watchers :
  pc[w] \in BeforeEnd /\ "done" \notin tampered =>
    \A n \in Tasks : n < cur[w] => n \in done

\* and not regressed, unless the audit just noted it
EarlierSound == \A w \in Watchers :
  pc[w] \in BeforeEnd /\ "done" \notin tampered /\ note[w] # "stale" =>
    \A n \in Tasks : n < cur[w] => ~IsRegressed(n)

\* a lane that noted a regression starts nothing
HeedsStale == \A w \in Watchers :
  pc[w] \in {"begin", "lock", "gates", "agent"} => note[w] # "stale"

\* the audits before a task visit earlier ones only
VisitsEarlier == \A w \in Watchers : pc[w] \in {"audit", "guard"} =>
  \A t \in todo[w] : t \in Tasks /\ t < cur[w]

\* and its lock names the watcher
OwnsLock == \A w \in Watchers : InTask(w) => lock[cur[w]] = w

DueInv == CurIsOpen /\ OwnsLock /\ EarlierDone /\ EarlierSound /\ HeedsStale
          /\ VisitsEarlier

USE DEF At, Goto, MoveOn, NextCycle, Spend, FreeLock, markerVars, stepVars,
        loopVars, localVars, treeVars, worldVars, sealVars, deathVars,
        lockVars, stateVars

(* The task a pending change is given to run is open, every earlier one is *)
(* done and nothing is regressed.                                          *)
LEMMA NextIsDue ==
  ASSUME Inv, SpecStatus = "pending"
  PROVE  /\ NextTask \in Tasks
         /\ NextTask \notin done /\ ~IsDead(NextTask) /\ ~IsRegressed(NextTask)
         /\ \A n \in Tasks : n < NextTask => n \in done
         /\ \A n \in Tasks : ~IsRegressed(n)
<1>0. done \in SUBSET Tasks
  BY InvParts DEF DoneTyped
<1>1. /\ DoneTasks # Tasks
      /\ DeadTasks = {} /\ RunningTasks = {} /\ RegressedTasks = {}
  BY DEF SpecStatus
<1>2. PendingTasks = Tasks \ done /\ PendingTasks # {}
  BY <1>0, <1>1 DEF PendingTasks, DoneTasks
<1>3. NextTask \in PendingTasks /\ \A m \in PendingTasks : NextTask <= m
  BY <1>2, SmallestIsLeast DEF NextTask, Targets
<1>4. \A n \in Tasks : n < NextTask => n \in done
  BY <1>2, <1>3 DEF Tasks
<1>5. \A n \in Tasks : ~IsRegressed(n)
  BY <1>1 DEF RegressedTasks
<1>6. \A n \in Tasks \ done : ~IsDead(n)
  BY <1>1 DEF DeadTasks
<1> QED
  BY <1>2, <1>3, <1>4, <1>5, <1>6

(* The task a lane works on is nobody else's to finish, to kill or to       *)
(* regress.                                                                 *)
LEMMA OpenStep == Single /\ Inv /\ DueInv /\ [Next]_vars => CurIsOpen'
<1> SUFFICES ASSUME Single, Inv, DueInv, [Next]_vars PROVE CurIsOpen'
  OBVIOUS
<1>0. ControlTyped /\ Control /\ DoneTyped /\ LoopsTyped /\ RegressTyped /\
      DeadTyped
  BY InvParts
<1> USE <1>0, ActorsAssumption, NextIsDue, TargetFacts, SmallestIsMember DEF
    ControlTyped, Control, DoneTyped, LoopsTyped, RegressTyped, DeadTyped,
    DueInv, CurIsOpen, VisitsEarlier, Single, IsDead, IsRegressed,
    LanePhases, RetryPhases, ArchivePhases, WatcherPhases, HumanPhases,
    Actors, BeforeEnd
<1>1. ASSUME NEW w \in Watchers, Reaping(w) PROVE CurIsOpen'
  BY <1>1, SMTT(30) DEF Reaping, Start, ReadLock, Reap, MisreadLock,
     PassLock, UnlinkLock, EndReap, Bury, EndBury
<1>2. ASSUME NEW w \in Watchers, Retrying(w) PROVE CurIsOpen'
  BY <1>2, SMTT(30) DEF Retrying, MarkStuck, AutoRetry, BeginRetry,
     RetainDead, SkipRetry, RetainNext, RetainMarker, RetainThrows,
     RetainDone, AppendRetry, EndRetries
<1>3. ASSUME NEW w \in Watchers, Deriving(w) PROVE CurIsOpen'
  BY <1>3, SMTT(30) DEF Deriving, StartTask, StartArchive, LeaveAlone
<1>4. ASSUME NEW w \in Watchers, Checking(w) PROVE CurIsOpen'
  <2>1. CASE AuditClear(w) \/ AuditRecertify(w) \/ AuditHalts(w) \/
             EndAudit(w)
    BY <1>4, <2>1, SMTT(30) DEF AuditClear, Auditing, Visited,
       AuditRecertify, AuditHalts, EndAudit, AfterAudit
  <2>2. CASE AuditRegress(w)
    <3> DEFINE t == Smallest(todo[w])
    <3>1. t \in todo[w]
      BY <2>2, SmallestIsMember DEF AuditRegress
    <3>2. pc[w] \in {"audit", "guard"} => t # cur[w]
      BY <3>1 DEF Tasks
    <3>3. pc[w] \in {"audit", "guard", "recheck"}
      BY <2>2 DEF AuditRegress, Auditing
    <3>4. \A n \in Targets : n # t => regressed'[n] = regressed[n]
      BY <2>2 DEF AuditRegress
    <3>5. UNCHANGED <<pc, cur, done, dead>>
      BY <2>2 DEF AuditRegress
    <3> HIDE DEF t
    <3> QED
      BY <3>2, <3>3, <3>4, <3>5
  <2> QED
    BY <1>4, <2>1, <2>2 DEF Checking
<1>5. ASSUME NEW w \in Watchers, Running(w) PROVE CurIsOpen'
  BY <1>5, SMTT(30) DEF Running, RefuseSeal, Refuse, RefuseEntry, Begin,
     AcquireLock, LockTaken, RefuseStart, Fail, Spawn, AgentExits,
     JudgeFails, JudgePauses, JudgePasses, Release
<1>6. ASSUME NEW w \in Watchers, Finishing(w) PROVE CurIsOpen'
  BY <1>6, SMTT(30) DEF Finishing, ArchiveWaits, Recheck, VerifyGreen,
     Visited, VerifyRed, RegressTarget, EndVerify, ChangeGreen, ChangeRed,
     Relocate
<1>7. ASSUME NEW w \in Watchers, Crash(w) PROVE CurIsOpen'
  BY <1>7, SMTT(30) DEF Crash
<1>8. CASE Continue
  BY <1>8, SMTT(30) DEF Continue, Retire, BeginRetry, RetainDead, RetainNext,
     RetainMarker, RetainThrows,
     RetainDone, AppendRetry
<1>9. CASE BeginApproval \/ Approve \/ Decline
  BY <1>9, SMTT(30) DEF BeginApproval, Approve, Decline
<1>10. CASE HumanRetry
  BY <1>10, SMTT(30) DEF HumanRetry, BeginRetry, RetainDead
<1>11. CASE KillHuman
  BY <1>11, SMTT(30) DEF KillHuman
<1>12. CASE EditPlan \/ HumanEditsTree \/ OrphanExits \/ LockAges
  BY <1>12, SMTT(30) DEF EditPlan, HumanEditsTree, OutsideEdit, TreeEdit,
     Tamper, OrphanExits, LockAges
<1>13. CASE Time
  BY <1>13, SMTT(30) DEF Time, PauseEnds, DelayPasses
<1>14. CASE UNCHANGED vars
  BY <1>14 DEF vars
<1> QED
  BY <1>1, <1>2, <1>3, <1>4, <1>5, <1>6, <1>7, <1>8, <1>9, <1>10, <1>11,
     <1>12, <1>13, <1>14 DEF Next, Watch

(* The only watcher's lock stays its own. *)
LEMMA HeldStep == Single /\ Inv /\ DueInv /\ [Next]_vars => OwnsLock'
<1> SUFFICES ASSUME Single, Inv, DueInv, [Next]_vars PROVE OwnsLock'
  OBVIOUS
<1>0. ControlTyped /\ Control /\ DoneTyped /\ LoopsTyped /\ LocksTyped
  BY InvParts
<1> USE <1>0, ActorsAssumption, NextIsDue, TargetFacts, SmallestIsMember DEF
    ControlTyped, Control, DoneTyped, LoopsTyped, LocksTyped, OwnsLock,
    InTask, DueInv, Single, LanePhases, RetryPhases, ArchivePhases,
    WatcherPhases, HumanPhases, Actors, BeforeEnd
<1>1. ASSUME NEW w \in Watchers, Reaping(w) PROVE OwnsLock'
  BY <1>1, SMTT(30) DEF Reaping, Start, ReadLock, Reap, MisreadLock,
     PassLock, UnlinkLock, EndReap, Bury, EndBury
<1>2. ASSUME NEW w \in Watchers, Retrying(w) PROVE OwnsLock'
  BY <1>2, SMTT(30) DEF Retrying, MarkStuck, AutoRetry, BeginRetry,
     RetainDead, SkipRetry, RetainNext, RetainMarker, RetainThrows,
     RetainDone, AppendRetry, EndRetries
<1>3. ASSUME NEW w \in Watchers, Deriving(w) PROVE OwnsLock'
  BY <1>3, SMTT(30) DEF Deriving, StartTask, StartArchive, LeaveAlone
<1>4. ASSUME NEW w \in Watchers, Checking(w) PROVE OwnsLock'
  BY <1>4, SMTT(30) DEF Checking, AuditClear, Auditing, Visited,
     AuditRecertify, AuditRegress, AuditHalts, EndAudit, AfterAudit
<1>5. ASSUME NEW w \in Watchers, Running(w) PROVE OwnsLock'
  BY <1>5, SMTT(30) DEF Running, RefuseSeal, Refuse, RefuseEntry, Begin,
     AcquireLock, LockTaken, RefuseStart, Fail, Spawn, AgentExits,
     JudgeFails, JudgePauses, JudgePasses, Release
<1>6. ASSUME NEW w \in Watchers, Finishing(w) PROVE OwnsLock'
  BY <1>6, SMTT(30) DEF Finishing, ArchiveWaits, Recheck, VerifyGreen,
     Visited, VerifyRed, RegressTarget, EndVerify, ChangeGreen, ChangeRed,
     Relocate
<1>7. ASSUME NEW w \in Watchers, Crash(w) PROVE OwnsLock'
  BY <1>7, SMTT(30) DEF Crash
<1>8. CASE Continue
  BY <1>8, SMTT(30) DEF Continue, Retire, BeginRetry, RetainDead, RetainNext,
     RetainMarker, RetainThrows,
     RetainDone, AppendRetry
<1>9. CASE BeginApproval \/ Approve \/ Decline
  BY <1>9, SMTT(30) DEF BeginApproval, Approve, Decline
<1>10. CASE HumanRetry
  BY <1>10, SMTT(30) DEF HumanRetry, BeginRetry, RetainDead
<1>11. CASE KillHuman
  BY <1>11, SMTT(30) DEF KillHuman
<1>12. CASE EditPlan \/ HumanEditsTree \/ OrphanExits \/ LockAges
  BY <1>12, SMTT(30) DEF EditPlan, HumanEditsTree, OutsideEdit, TreeEdit,
     Tamper, OrphanExits, LockAges
<1>13. CASE Time
  BY <1>13, SMTT(30) DEF Time, PauseEnds, DelayPasses
<1>14. CASE UNCHANGED vars
  BY <1>14 DEF vars
<1> QED
  BY <1>1, <1>2, <1>3, <1>4, <1>5, <1>6, <1>7, <1>8, <1>9, <1>10, <1>11,
     <1>12, <1>13, <1>14 DEF Next, Watch

(* Nobody takes an earlier task's done marker unseen. *)
LEMMA EarlierDoneStep == Single /\ Inv /\ DueInv /\ [Next]_vars => EarlierDone'
<1> SUFFICES ASSUME Single, Inv, DueInv, [Next]_vars PROVE EarlierDone'
  OBVIOUS
<1>0. ControlTyped /\ Control /\ DoneTyped /\ LoopsTyped
  BY InvParts
<1> USE <1>0, ActorsAssumption, NextIsDue, TargetFacts, SmallestIsMember DEF
    ControlTyped, Control, DoneTyped, LoopsTyped, DueInv, EarlierDone,
    Tamper, Relying, Single, LanePhases, RetryPhases, ArchivePhases,
    WatcherPhases, HumanPhases, Actors, BeforeEnd
<1>1. ASSUME NEW w \in Watchers, Reaping(w) PROVE EarlierDone'
  BY <1>1, SMTT(30) DEF Reaping, Start, ReadLock, Reap, MisreadLock,
     PassLock, UnlinkLock, EndReap, Bury, EndBury
<1>2. ASSUME NEW w \in Watchers, Retrying(w) PROVE EarlierDone'
  BY <1>2, SMTT(30) DEF Retrying, MarkStuck, AutoRetry, BeginRetry,
     RetainDead, SkipRetry, RetainNext, RetainMarker, RetainThrows,
     RetainDone, AppendRetry, EndRetries
<1>3. ASSUME NEW w \in Watchers, Deriving(w) PROVE EarlierDone'
  BY <1>3, SMTT(30) DEF Deriving, StartTask, StartArchive, LeaveAlone
<1>4. ASSUME NEW w \in Watchers, Checking(w) PROVE EarlierDone'
  BY <1>4, SMTT(30) DEF Checking, AuditClear, Auditing, Visited,
     AuditRecertify, AuditRegress, AuditHalts, EndAudit, AfterAudit
<1>5. ASSUME NEW w \in Watchers, Running(w) PROVE EarlierDone'
  BY <1>5, SMTT(30) DEF Running, RefuseSeal, Refuse, RefuseEntry, Begin,
     AcquireLock, LockTaken, RefuseStart, Fail, Spawn, AgentExits,
     JudgeFails, JudgePauses, JudgePasses, Release
<1>6. ASSUME NEW w \in Watchers, Finishing(w) PROVE EarlierDone'
  BY <1>6, SMTT(30) DEF Finishing, ArchiveWaits, Recheck, VerifyGreen,
     Visited, VerifyRed, RegressTarget, EndVerify, ChangeGreen, ChangeRed,
     Relocate
<1>7. ASSUME NEW w \in Watchers, Crash(w) PROVE EarlierDone'
  BY <1>7, SMTT(30) DEF Crash
<1>8. CASE Continue
  BY <1>8, SMTT(30) DEF Continue, Retire, BeginRetry, RetainDead, RetainNext,
     RetainMarker, RetainThrows,
     RetainDone, AppendRetry
<1>9. CASE BeginApproval \/ Approve \/ Decline
  BY <1>9, SMTT(30) DEF BeginApproval, Approve, Decline
<1>10. CASE HumanRetry
  BY <1>10, SMTT(30) DEF HumanRetry, BeginRetry, RetainDead
<1>11. CASE KillHuman
  BY <1>11, SMTT(30) DEF KillHuman
<1>12. CASE EditPlan \/ HumanEditsTree \/ OrphanExits \/ LockAges
  BY <1>12, SMTT(30) DEF EditPlan, HumanEditsTree, OutsideEdit, TreeEdit,
     Tamper, OrphanExits, LockAges
<1>13. CASE Time
  BY <1>13, SMTT(30) DEF Time, PauseEnds, DelayPasses
<1>14. CASE UNCHANGED vars
  BY <1>14 DEF vars
<1> QED
  BY <1>1, <1>2, <1>3, <1>4, <1>5, <1>6, <1>7, <1>8, <1>9, <1>10, <1>11,
     <1>12, <1>13, <1>14 DEF Next, Watch

(* Who regresses an earlier task leaves a note. *)
LEMMA EarlierSoundStep ==
  Single /\ Inv /\ DueInv /\ [Next]_vars => EarlierSound'
<1> SUFFICES ASSUME Single, Inv, DueInv, [Next]_vars PROVE EarlierSound'
  OBVIOUS
<1>0. ControlTyped /\ Control /\ DoneTyped /\ LoopsTyped /\ RegressTyped
  BY InvParts
<1> USE <1>0, ActorsAssumption, NextIsDue, TargetFacts, SmallestIsMember DEF
    ControlTyped, Control, DoneTyped, LoopsTyped, RegressTyped, DueInv,
    EarlierSound, VisitsEarlier, HeedsStale, Tamper, Relying, IsRegressed,
    Single, LanePhases, RetryPhases, ArchivePhases, WatcherPhases,
    HumanPhases, Actors, BeforeEnd
<1>1. ASSUME NEW w \in Watchers, Reaping(w) PROVE EarlierSound'
  BY <1>1, SMTT(30) DEF Reaping, Start, ReadLock, Reap, MisreadLock,
     PassLock, UnlinkLock, EndReap, Bury, EndBury
<1>2. ASSUME NEW w \in Watchers, Retrying(w) PROVE EarlierSound'
  BY <1>2, SMTT(30) DEF Retrying, MarkStuck, AutoRetry, BeginRetry,
     RetainDead, SkipRetry, RetainNext, RetainMarker, RetainThrows,
     RetainDone, AppendRetry, EndRetries
<1>3. ASSUME NEW w \in Watchers, Deriving(w) PROVE EarlierSound'
  BY <1>3, SMTT(30) DEF Deriving, StartTask, StartArchive, LeaveAlone
<1>4. ASSUME NEW w \in Watchers, Checking(w) PROVE EarlierSound'
  BY <1>4, SMTT(30) DEF Checking, AuditClear, Auditing, Visited,
     AuditRecertify, AuditRegress, AuditHalts, EndAudit, AfterAudit
<1>5. ASSUME NEW w \in Watchers, Running(w) PROVE EarlierSound'
  BY <1>5, SMTT(30) DEF Running, RefuseSeal, Refuse, RefuseEntry, Begin,
     AcquireLock, LockTaken, RefuseStart, Fail, Spawn, AgentExits,
     JudgeFails, JudgePauses, JudgePasses, Release
<1>6. ASSUME NEW w \in Watchers, Finishing(w) PROVE EarlierSound'
  BY <1>6, SMTT(30) DEF Finishing, ArchiveWaits, Recheck, VerifyGreen,
     Visited, VerifyRed, RegressTarget, EndVerify, ChangeGreen, ChangeRed,
     Relocate
<1>7. ASSUME NEW w \in Watchers, Crash(w) PROVE EarlierSound'
  BY <1>7, SMTT(30) DEF Crash
<1>8. CASE Continue
  BY <1>8, SMTT(30) DEF Continue, Retire, BeginRetry, RetainDead, RetainNext,
     RetainMarker, RetainThrows,
     RetainDone, AppendRetry
<1>9. CASE BeginApproval \/ Approve \/ Decline
  BY <1>9, SMTT(30) DEF BeginApproval, Approve, Decline
<1>10. CASE HumanRetry
  BY <1>10, SMTT(30) DEF HumanRetry, BeginRetry, RetainDead
<1>11. CASE KillHuman
  BY <1>11, SMTT(30) DEF KillHuman
<1>12. CASE EditPlan \/ HumanEditsTree \/ OrphanExits \/ LockAges
  BY <1>12, SMTT(30) DEF EditPlan, HumanEditsTree, OutsideEdit, TreeEdit,
     Tamper, OrphanExits, LockAges
<1>13. CASE Time
  BY <1>13, SMTT(30) DEF Time, PauseEnds, DelayPasses
<1>14. CASE UNCHANGED vars
  BY <1>14 DEF vars
<1> QED
  BY <1>1, <1>2, <1>3, <1>4, <1>5, <1>6, <1>7, <1>8, <1>9, <1>10, <1>11,
     <1>12, <1>13, <1>14 DEF Next, Watch

(* A stale note ends the lane. *)
LEMMA HeedsStep == Single /\ Inv /\ DueInv /\ [Next]_vars => HeedsStale'
<1> SUFFICES ASSUME Single, Inv, DueInv, [Next]_vars PROVE HeedsStale'
  OBVIOUS
<1>0. ControlTyped /\ Control /\ DoneTyped /\ LoopsTyped
  BY InvParts
<1> USE <1>0, ActorsAssumption, NextIsDue, TargetFacts, SmallestIsMember DEF
    ControlTyped, Control, DoneTyped, LoopsTyped, DueInv, HeedsStale,
    Single, LanePhases, RetryPhases, ArchivePhases, WatcherPhases,
    HumanPhases, Actors, BeforeEnd
<1>1. ASSUME NEW w \in Watchers, Reaping(w) PROVE HeedsStale'
  BY <1>1, SMTT(30) DEF Reaping, Start, ReadLock, Reap, MisreadLock,
     PassLock, UnlinkLock, EndReap, Bury, EndBury
<1>2. ASSUME NEW w \in Watchers, Retrying(w) PROVE HeedsStale'
  BY <1>2, SMTT(30) DEF Retrying, MarkStuck, AutoRetry, BeginRetry,
     RetainDead, SkipRetry, RetainNext, RetainMarker, RetainThrows,
     RetainDone, AppendRetry, EndRetries
<1>3. ASSUME NEW w \in Watchers, Deriving(w) PROVE HeedsStale'
  BY <1>3, SMTT(30) DEF Deriving, StartTask, StartArchive, LeaveAlone
<1>4. ASSUME NEW w \in Watchers, Checking(w) PROVE HeedsStale'
  BY <1>4, SMTT(30) DEF Checking, AuditClear, Auditing, Visited,
     AuditRecertify, AuditRegress, AuditHalts, EndAudit, AfterAudit
<1>5. ASSUME NEW w \in Watchers, Running(w) PROVE HeedsStale'
  BY <1>5, SMTT(30) DEF Running, RefuseSeal, Refuse, RefuseEntry, Begin,
     AcquireLock, LockTaken, RefuseStart, Fail, Spawn, AgentExits,
     JudgeFails, JudgePauses, JudgePasses, Release
<1>6. ASSUME NEW w \in Watchers, Finishing(w) PROVE HeedsStale'
  BY <1>6, SMTT(30) DEF Finishing, ArchiveWaits, Recheck, VerifyGreen,
     Visited, VerifyRed, RegressTarget, EndVerify, ChangeGreen, ChangeRed,
     Relocate
<1>7. ASSUME NEW w \in Watchers, Crash(w) PROVE HeedsStale'
  BY <1>7, SMTT(30) DEF Crash
<1>8. CASE Continue
  BY <1>8, SMTT(30) DEF Continue, Retire, BeginRetry, RetainDead, RetainNext,
     RetainMarker, RetainThrows,
     RetainDone, AppendRetry
<1>9. CASE BeginApproval \/ Approve \/ Decline
  BY <1>9, SMTT(30) DEF BeginApproval, Approve, Decline
<1>10. CASE HumanRetry
  BY <1>10, SMTT(30) DEF HumanRetry, BeginRetry, RetainDead
<1>11. CASE KillHuman
  BY <1>11, SMTT(30) DEF KillHuman
<1>12. CASE EditPlan \/ HumanEditsTree \/ OrphanExits \/ LockAges
  BY <1>12, SMTT(30) DEF EditPlan, HumanEditsTree, OutsideEdit, TreeEdit,
     Tamper, OrphanExits, LockAges
<1>13. CASE Time
  BY <1>13, SMTT(30) DEF Time, PauseEnds, DelayPasses
<1>14. CASE UNCHANGED vars
  BY <1>14 DEF vars
<1> QED
  BY <1>1, <1>2, <1>3, <1>4, <1>5, <1>6, <1>7, <1>8, <1>9, <1>10, <1>11,
     <1>12, <1>13, <1>14 DEF Next, Watch

(* An audit before a task visits the earlier ones. *)
LEMMA VisitsStep == Single /\ Inv /\ DueInv /\ [Next]_vars => VisitsEarlier'
<1> SUFFICES ASSUME Single, Inv, DueInv, [Next]_vars PROVE VisitsEarlier'
  OBVIOUS
<1>0. ControlTyped /\ Control /\ DoneTyped /\ LoopsTyped
  BY InvParts
<1> USE <1>0, ActorsAssumption, NextIsDue, TargetFacts, SmallestIsMember DEF
    ControlTyped, Control, DoneTyped, LoopsTyped, DueInv, VisitsEarlier,
    Earlier, Single, LanePhases, RetryPhases, ArchivePhases, WatcherPhases,
    HumanPhases, Actors, BeforeEnd
<1>1. ASSUME NEW w \in Watchers, Reaping(w) PROVE VisitsEarlier'
  BY <1>1, SMTT(30) DEF Reaping, Start, ReadLock, Reap, MisreadLock,
     PassLock, UnlinkLock, EndReap, Bury, EndBury
<1>2. ASSUME NEW w \in Watchers, Retrying(w) PROVE VisitsEarlier'
  BY <1>2, SMTT(30) DEF Retrying, MarkStuck, AutoRetry, BeginRetry,
     RetainDead, SkipRetry, RetainNext, RetainMarker, RetainThrows,
     RetainDone, AppendRetry, EndRetries
<1>3. ASSUME NEW w \in Watchers, Deriving(w) PROVE VisitsEarlier'
  BY <1>3, SMTT(30) DEF Deriving, StartTask, StartArchive, LeaveAlone
<1>4. ASSUME NEW w \in Watchers, Checking(w) PROVE VisitsEarlier'
  BY <1>4, SMTT(30) DEF Checking, AuditClear, Auditing, Visited,
     AuditRecertify, AuditRegress, AuditHalts, EndAudit, AfterAudit
<1>5. ASSUME NEW w \in Watchers, Running(w) PROVE VisitsEarlier'
  BY <1>5, SMTT(30) DEF Running, RefuseSeal, Refuse, RefuseEntry, Begin,
     AcquireLock, LockTaken, RefuseStart, Fail, Spawn, AgentExits,
     JudgeFails, JudgePauses, JudgePasses, Release
<1>6. ASSUME NEW w \in Watchers, Finishing(w) PROVE VisitsEarlier'
  BY <1>6, SMTT(30) DEF Finishing, ArchiveWaits, Recheck, VerifyGreen,
     Visited, VerifyRed, RegressTarget, EndVerify, ChangeGreen, ChangeRed,
     Relocate
<1>7. ASSUME NEW w \in Watchers, Crash(w) PROVE VisitsEarlier'
  BY <1>7, SMTT(30) DEF Crash
<1>8. CASE Continue
  BY <1>8, SMTT(30) DEF Continue, Retire, BeginRetry, RetainDead, RetainNext,
     RetainMarker, RetainThrows,
     RetainDone, AppendRetry
<1>9. CASE BeginApproval \/ Approve \/ Decline
  BY <1>9, SMTT(30) DEF BeginApproval, Approve, Decline
<1>10. CASE HumanRetry
  BY <1>10, SMTT(30) DEF HumanRetry, BeginRetry, RetainDead
<1>11. CASE KillHuman
  BY <1>11, SMTT(30) DEF KillHuman
<1>12. CASE EditPlan \/ HumanEditsTree \/ OrphanExits \/ LockAges
  BY <1>12, SMTT(30) DEF EditPlan, HumanEditsTree, OutsideEdit, TreeEdit,
     Tamper, OrphanExits, LockAges
<1>13. CASE Time
  BY <1>13, SMTT(30) DEF Time, PauseEnds, DelayPasses
<1>14. CASE UNCHANGED vars
  BY <1>14 DEF vars
<1> QED
  BY <1>1, <1>2, <1>3, <1>4, <1>5, <1>6, <1>7, <1>8, <1>9, <1>10, <1>11,
     <1>12, <1>13, <1>14 DEF Next, Watch

(***************************************************************************)
(* Automatic retries                                                       *)
(***************************************************************************)
ProviderDead(t) == dead[t].reason = Provider

\* a task a provider outage killed is neither done nor regressed, so its
\* retry is counted as the provider retry that decideProviderRetry allowed
OutageIsOpen == \A t \in Tasks :
  ProviderDead(t) => t \notin done /\ ~IsRegressed(t)

VisitsNoOutage == \A w \in Watchers :
  /\ pc[w] \in {"audit", "guard"} =>
       \A t \in todo[w] \cap Tasks : ~ProviderDead(t)
  /\ pc[w] \in {"recheck", "verify"} => \A t \in Tasks : ~ProviderDead(t)

\* a retry whose event is still to be appended
Pending(w, t) == pc[w] \in RetryPhases /\ note[w] = "auto" /\ cur[w] = t

Owed(w, t) == events[t].autos + (IF Pending(w, t) THEN 1 ELSE 0)

CountsHold == \A w \in Watchers : \A t \in Tasks :
  /\ Owed(w, t) <= AutoRetries
  /\ spent[t] <= Owed(w, t) + CrashesSoFar

OnlyWatchersAuto ==
  /\ pc[Human] \in RetryPhases => note[Human] # "auto"
  /\ budget["crash"] <= Budget["crash"]

SpendInv == OutageIsOpen /\ VisitsNoOutage /\ CountsHold /\ OnlyWatchersAuto

(* deriveSpecState says done only when every task has its done marker. *)
LEMMA DoneIsAll ==
  ASSUME done \in SUBSET Tasks, SpecStatus = "done"
  PROVE  done = Tasks
<1>1. DoneTasks = Tasks
  BY DEF SpecStatus
<1> QED
  BY <1>1 DEF DoneTasks

(* retrySpec's first step appends no event; it counts an automatic retry as *)
(* spent and lets every other process be.                                   *)
LEMMA CountedRetry ==
  ASSUME ControlTyped, NEW a \in Actors, NEW t, BeginRetry(a, t)
  PROVE  /\ events' = events
         /\ pc'[a] = "retain" /\ cur'[a] = t /\ note'[a] = RetryNote(a, t)
         /\ \A b \in Actors \ {a} :
              pc'[b] = pc[b] /\ cur'[b] = cur[b] /\ note'[b] = note[b]
         /\ spent' = IF RetryNote(a, t) = "auto"
                      THEN [spent EXCEPT ![t] = @ + 1] ELSE spent
<1>1. /\ events' = events
      /\ pc' = [pc EXCEPT ![a] = "retain"]
      /\ cur' = [cur EXCEPT ![a] = t]
      /\ note' = [note EXCEPT ![a] = RetryNote(a, t)]
      /\ spent' = IF RetryNote(a, t) = "auto"
                   THEN [spent EXCEPT ![t] = @ + 1] ELSE spent
  BY Zenon DEF BeginRetry
<1> QED
  BY <1>1 DEF ControlTyped

(* Only an automatic retry's event adds to the count, and a manual one      *)
(* resets it.                                                               *)
LEMMA AppendedAutos ==
  ASSUME NEW stream \in Streams,
         NEW kind \in {"passed", "requeued", "manual", "auto", "provider"}
  PROVE  Appended(stream, kind).autos =
           IF kind = "auto" THEN stream.autos + 1
           ELSE IF kind = "manual" THEN 0 ELSE stream.autos
<1>1. CASE kind = "auto"
  BY <1>1 DEF Appended, Streams
<1>2. CASE kind = "provider"
  BY <1>2 DEF Appended, Streams
<1>3. CASE kind = "manual"
  BY <1>3 DEF Appended, Streams
<1>4. CASE kind = "requeued"
  BY <1>4 DEF Appended, Streams
<1>5. CASE kind = "passed"
  BY <1>5 DEF Appended, Streams
<1> QED
  BY <1>1, <1>2, <1>3, <1>4, <1>5

(* No command of a human is an automatic retry. *)
LEMMA HumanIsManual == ASSUME NEW t PROVE RetryNote(Human, t) # "auto"
  BY DEF RetryNote

(* Only RecordDead brings a new reason, and it is the one it is given. *)
LEMMA RecordedReason ==
  ASSUME DeadTyped, NEW t, NEW reason, NEW print, RecordDead(t, reason, print)
  PROVE  \A n \in Tasks :
           dead'[n] = dead[n] \/ (n = t /\ dead'[n].reason = reason)
  BY DEF DeadTyped, RecordDead

(* A task without a dead marker is not one an outage killed. *)
LEMMA NoReasonIsNoOutage == NoDead.reason # Provider
  BY DEF NoDead, Provider

(* A retry's first rename finishes, regresses and kills no task. *)
LEMMA BegunRetry ==
  ASSUME DeadTyped, RegressTyped, NEW a, NEW t, BeginRetry(a, t)
  PROVE  /\ done' = done
         /\ \A n \in Tasks : ProviderDead(n)' => ProviderDead(n)
         /\ \A n \in Tasks : IsRegressed(n)' => IsRegressed(n)
<1>1. /\ done' = done
      /\ regressed' \in {regressed, [regressed EXCEPT ![t] = NoRegressed]}
      /\ dead' \in {dead, [dead EXCEPT ![t] = NoDead]}
  BY Zenon DEF BeginRetry, RetainDead
<1> QED
  BY <1>1, NoReasonIsNoOutage, TargetFacts
  DEF DeadTyped, RegressTyped, ProviderDead, IsRegressed

(* Nor does a later one. *)
LEMMA RetainedNext ==
  ASSUME DeadTyped, DoneTyped, NEW a, RetainNext(a)
  PROVE  /\ done' \subseteq done
         /\ \A n \in Tasks : ProviderDead(n)' => ProviderDead(n)
         /\ regressed' = regressed
<1>1. /\ done' \in {done, done \ {cur[a]}}
      /\ regressed' = regressed
      /\ dead' \in {dead, [dead EXCEPT ![cur[a]] = NoDead]}
  BY DEF RetainNext, RetainMarker, RetainThrows, RetainDead, RetainDone
<1> QED
  BY <1>1, NoReasonIsNoOutage DEF DeadTyped, ProviderDead

(* Only an agent's end writes the marker of an outage. *)
LEMMA OutageStep ==
  Single /\ Inv /\ DueInv /\ SpendInv /\ [Next]_vars => OutageIsOpen'
<1> SUFFICES ASSUME Single, Inv, DueInv, SpendInv, [Next]_vars
             PROVE  OutageIsOpen'
  OBVIOUS
<1>0. ControlTyped /\ Control /\ DoneTyped /\ LoopsTyped /\ RegressTyped /\
      DeadTyped
  BY InvParts
<1> USE <1>0, ActorsAssumption, NextIsDue, TargetFacts, SmallestIsMember,
    DoneIsAll DEF ControlTyped, Control, DoneTyped, LoopsTyped,
    RegressTyped, DeadTyped, Single, SpendInv, OutageIsOpen, VisitsNoOutage,
    ProviderDead, IsRegressed, LanePhases, RetryPhases, ArchivePhases,
    WatcherPhases, HumanPhases, Actors, BeforeEnd
<1>1. ASSUME NEW w \in Watchers, Reaping(w) PROVE OutageIsOpen'
  <2>1. CASE Start(w) \/ ReadLock(w) \/ MisreadLock(w) \/ PassLock(w) \/
             UnlinkLock(w) \/ EndReap(w) \/ EndBury(w)
    BY <1>1, <2>1, SMTT(30) DEF Start, ReadLock, Reap, MisreadLock,
       PassLock, UnlinkLock, EndReap, EndBury
  <2>2. CASE Bury(w)
    <3>1. PICK t \in Tasks, reason \in ReapReasons :
            RecordDead(t, reason, ReaperPrint)
      BY <2>2 DEF Bury
    <3>2. reason # Provider
      BY DEF ReapReasons, Provider
    <3>3. \A n \in Tasks : ProviderDead(n)' => ProviderDead(n)
      BY <3>1, <3>2, RecordedReason DEF ProviderDead
    <3> QED
      BY <2>2, <3>3 DEF Bury, IsRegressed
  <2> QED
    BY <1>1, <2>1, <2>2 DEF Reaping
<1>2. ASSUME NEW w \in Watchers, Retrying(w) PROVE OutageIsOpen'
  <2>1. CASE SkipRetry(w) \/ AppendRetry(w) \/ EndRetries(w)
    BY <1>2, <2>1, SMTT(30) DEF SkipRetry, AppendRetry, EndRetries
  <2>2. CASE MarkStuck(w)
    <3>1. \A n \in Tasks : dead'[n].reason = dead[n].reason
      BY <2>2 DEF MarkStuck
    <3> QED
      BY <2>2, <3>1 DEF MarkStuck, ProviderDead
  <2>3. CASE AutoRetry(w)
    <3>1. PICK t : BeginRetry(w, t)
      BY <2>3 DEF AutoRetry
    <3>2. pc'[w] \notin {"audit", "guard", "recheck", "verify"}
      BY <3>1 DEF BeginRetry
    <3> QED
      BY <3>1, <3>2, BegunRetry
  <2>4. CASE RetainNext(w)
    <3>1. pc'[w] \notin {"audit", "guard", "recheck", "verify"}
      BY <2>4 DEF RetainNext, RetainMarker, RetainThrows
    <3> QED
      BY <2>4, <3>1, RetainedNext DEF IsRegressed
  <2> QED
    BY <1>2, <2>1, <2>2, <2>3, <2>4 DEF Retrying
<1>3. ASSUME NEW w \in Watchers, Deriving(w) PROVE OutageIsOpen'
  BY <1>3, SMTT(30) DEF Deriving, StartTask, StartArchive, LeaveAlone
<1>4. ASSUME NEW w \in Watchers, Checking(w) PROVE OutageIsOpen'
  <2>1. CASE AuditClear(w) \/ AuditRecertify(w) \/ AuditHalts(w) \/
             EndAudit(w)
    BY <1>4, <2>1, SMTT(30) DEF AuditClear, Auditing, Visited,
       AuditRecertify, AuditHalts, EndAudit, AfterAudit
  <2>2. CASE AuditRegress(w)
    <3> DEFINE t == Smallest(todo[w])
    <3>1. t \in todo[w]
      BY <2>2, SmallestIsMember DEF AuditRegress
    <3>2. pc[w] \in {"audit", "guard", "recheck"}
      BY <2>2 DEF AuditRegress, Auditing
    <3>3. \A n \in Targets : n # t => regressed'[n] = regressed[n]
      BY <2>2 DEF AuditRegress
    <3>4. UNCHANGED <<done, dead>>
      BY <2>2 DEF AuditRegress
    <3>5. t \in Tasks => ~ProviderDead(t)
      BY <3>1, <3>2
    <3> HIDE DEF t
    <3> QED
      BY <3>3, <3>4, <3>5 DEF IsRegressed, ProviderDead
  <2> QED
    BY <1>4, <2>1, <2>2 DEF Checking
<1>5. ASSUME NEW w \in Watchers, Running(w) PROVE OutageIsOpen'
  <2>1. CASE Begin(w) \/ AcquireLock(w) \/ LockTaken(w) \/ Spawn(w) \/
             AgentExits(w) \/ JudgePauses(w) \/ Release(w)
    BY <1>5, <2>1, SMTT(30) DEF Begin, AcquireLock, LockTaken, Spawn,
       AgentExits, JudgePauses, Release
  <2>2. CASE RefuseSeal(w)
    <3>1. PICK reason \in DeadReasons :
          RecordDead(cur[w], reason, SealPrint) /\ reason # Provider
      BY <2>2, MarkerFacts DEF RefuseSeal, Refuse, Provider
    <3>2. \A n \in Tasks : ProviderDead(n)' => ProviderDead(n)
      BY <3>1, RecordedReason DEF ProviderDead
    <3> QED
      BY <2>2, <3>2 DEF RefuseSeal, Refuse, IsRegressed
  <2>3. CASE RefuseEntry(w)
    <3>1. PICK reason \in DeadReasons :
          RecordDead(cur[w], reason, SealPrint) /\ reason # Provider
      BY <2>3, MarkerFacts DEF RefuseEntry, Refuse, Provider
    <3>2. \A n \in Tasks : ProviderDead(n)' => ProviderDead(n)
      BY <3>1, RecordedReason DEF ProviderDead
    <3> QED
      BY <2>3, <3>2 DEF RefuseEntry, Refuse, IsRegressed
  <2>4. CASE RefuseStart(w)
    <3>1. PICK reason \in DeadReasons :
          RecordDead(cur[w], reason, NoPrint) /\ reason # Provider
      BY <2>4, MarkerFacts DEF RefuseStart, Fail, Provider
    <3>2. \A n \in Tasks : ProviderDead(n)' => ProviderDead(n)
      BY <3>1, RecordedReason DEF ProviderDead
    <3> QED
      BY <2>4, <3>2 DEF RefuseStart, Fail, IsRegressed
  <2>5. CASE JudgeFails(w)
    <3>1. PICK reason \in DeadReasons, print \in AllPrints :
            RecordDead(cur[w], reason, print)
      BY <2>5, MarkerFacts, SwitchesAssumption DEF JudgeFails, Fail
    <3>2. done' = done /\ regressed' = regressed /\ pc[w] = "judge"
      BY <2>5 DEF JudgeFails, Fail
    <3>3. pc'[w] = "release"
      BY <2>5 DEF JudgeFails, Fail
    <3>4. cur[w] \notin done /\ ~IsRegressed(cur[w])
      BY <3>2 DEF DueInv, CurIsOpen, BeforeEnd, LanePhases
    <3>5. \A n \in Tasks : dead'[n] = dead[n] \/ n = cur[w]
      BY <3>1, RecordedReason
    <3> QED
      BY <3>2, <3>3, <3>4, <3>5 DEF ProviderDead, IsRegressed
  <2>6. CASE JudgePasses(w)
    <3>1. done' = done \cup {cur[w]} /\ UNCHANGED <<dead, regressed>>
      BY <2>6 DEF JudgePasses
    <3>2. ~IsDead(cur[w])
      BY <2>6 DEF JudgePasses, DueInv, CurIsOpen, BeforeEnd, LanePhases
    <3>3. \A n \in Tasks : ProviderDead(n) => n # cur[w]
      BY <3>2, NoReasonIsNoOutage DEF ProviderDead, IsDead
    <3>4. pc'[w] = "release"
      BY <2>6 DEF JudgePasses
    <3> QED
      BY <3>1, <3>3, <3>4 DEF ProviderDead, IsRegressed
  <2> QED
    BY <1>5, <2>1, <2>2, <2>3, <2>4, <2>5, <2>6 DEF Running
<1>6. ASSUME NEW w \in Watchers, Finishing(w) PROVE OutageIsOpen'
  <2>1. CASE ArchiveWaits(w) \/ Recheck(w) \/ VerifyGreen(w) \/ EndVerify(w)
             \/ ChangeGreen(w) \/ Relocate(w)
    BY <1>6, <2>1, SMTT(30) DEF ArchiveWaits, Recheck, VerifyGreen,
       Visited, EndVerify, ChangeGreen, Relocate
  <2>2. CASE VerifyRed(w)
    <3>1. PICK t \in Targets : \A n \in Targets :
                     n # t => regressed'[n] = regressed[n]
      BY <2>2 DEF VerifyRed, RegressTarget
    <3>2. UNCHANGED <<done, dead>> /\ pc[w] = "verify"
      BY <2>2 DEF VerifyRed, RegressTarget
    <3> QED
      BY <3>1, <3>2
  <2>3. CASE ChangeRed(w)
    <3>1. \A n \in Targets : n # Change => regressed'[n] = regressed[n]
      BY <2>3 DEF ChangeRed, RegressTarget
    <3>2. \A n \in Tasks : n # Change
      BY DEF Tasks, Change
    <3>3. UNCHANGED <<done, dead>>
      BY <2>3 DEF ChangeRed, RegressTarget
    <3> QED
      BY <3>1, <3>2, <3>3
  <2> QED
    BY <1>6, <2>1, <2>2, <2>3 DEF Finishing
<1>7. ASSUME NEW w \in Watchers, Crash(w) PROVE OutageIsOpen'
  BY <1>7, SMTT(30) DEF Crash
<1>8. CASE Continue
  <2>1. CASE AppendRetry(Human)
    BY <1>8, <2>1, SMTT(30) DEF AppendRetry
  <2>2. CASE Retire
    <3>1. CASE \E t : BeginRetry(Human, t)
      <4>1. PICK t : BeginRetry(Human, t)
        BY <3>1
      <4>2. \A w \in Watchers : pc'[w] = pc[w] /\ todo'[w] = todo[w]
        BY <4>1 DEF BeginRetry
      <4> QED
        BY <4>1, <4>2, BegunRetry
    <3>2. CASE UNCHANGED markerVars
                 /\ \A w \in Watchers : pc'[w] = pc[w] /\ todo'[w] = todo[w]
      BY <3>2 DEF ProviderDead, IsRegressed
    <3> QED
      BY <2>2, <3>1, <3>2 DEF Retire
  <2>3. CASE RetainNext(Human)
    <3>1. \A w \in Watchers : pc'[w] = pc[w] /\ todo'[w] = todo[w]
      BY <2>3 DEF RetainNext, RetainMarker, RetainThrows
    <3> QED
      BY <2>3, <3>1, RetainedNext DEF IsRegressed
  <2> QED
    BY <1>8, <2>1, <2>2, <2>3 DEF Continue
<1>9. CASE BeginApproval \/ Approve \/ Decline
  BY <1>9, SMTT(30) DEF BeginApproval, Approve, Decline
<1>10. CASE HumanRetry
  <2>1. PICK t : BeginRetry(Human, t)
    BY <1>10 DEF HumanRetry
  <2>2. \A w \in Watchers : pc'[w] = pc[w] /\ todo'[w] = todo[w]
    BY <2>1 DEF BeginRetry
  <2> QED
    BY <2>1, <2>2, BegunRetry
<1>11. CASE KillHuman
  BY <1>11, SMTT(30) DEF KillHuman
<1>12. CASE EditPlan \/ HumanEditsTree \/ OrphanExits \/ LockAges
  BY <1>12, SMTT(30) DEF EditPlan, HumanEditsTree, OutsideEdit, TreeEdit,
     Tamper, OrphanExits, LockAges
<1>13. CASE Time
  BY <1>13, SMTT(30) DEF Time, PauseEnds, DelayPasses
<1>14. CASE UNCHANGED vars
  BY <1>14 DEF vars
<1> QED
  BY <1>1, <1>2, <1>3, <1>4, <1>5, <1>6, <1>7, <1>8, <1>9, <1>10, <1>11,
     <1>12, <1>13, <1>14 DEF Next, Watch

(* No audit and no archive meets an outage. *)
LEMMA VisitsOutageStep ==
  Single /\ Inv /\ DueInv /\ SpendInv /\ [Next]_vars => VisitsNoOutage'
<1> SUFFICES ASSUME Single, Inv, DueInv, SpendInv, [Next]_vars
             PROVE  VisitsNoOutage'
  OBVIOUS
<1>0. ControlTyped /\ Control /\ DoneTyped /\ LoopsTyped /\ DeadTyped /\
      RegressTyped
  BY InvParts
<1> USE <1>0, ActorsAssumption, NextIsDue, TargetFacts, SmallestIsMember,
    DoneIsAll DEF ControlTyped, Control, DoneTyped, LoopsTyped, DeadTyped,
    RegressTyped, Single, SpendInv, OutageIsOpen, VisitsNoOutage, Earlier,
    ProviderDead, LanePhases, RetryPhases, ArchivePhases, WatcherPhases,
    HumanPhases, Actors, BeforeEnd
<1>1. ASSUME NEW w \in Watchers, Reaping(w) PROVE VisitsNoOutage'
  <2>1. CASE Start(w) \/ ReadLock(w) \/ MisreadLock(w) \/ PassLock(w) \/
             UnlinkLock(w) \/ EndReap(w) \/ EndBury(w)
    BY <1>1, <2>1, SMTT(30) DEF Start, ReadLock, Reap, MisreadLock,
       PassLock, UnlinkLock, EndReap, EndBury
  <2>2. CASE Bury(w)
    <3>1. PICK t \in Tasks, reason \in ReapReasons :
            RecordDead(t, reason, ReaperPrint)
      BY <2>2 DEF Bury
    <3>2. reason # Provider
      BY DEF ReapReasons, Provider
    <3>3. \A n \in Tasks : ProviderDead(n)' => ProviderDead(n)
      BY <3>1, <3>2, RecordedReason DEF ProviderDead
    <3> QED
      BY <2>2, <3>3 DEF Bury
  <2> QED
    BY <1>1, <2>1, <2>2 DEF Reaping
<1>2. ASSUME NEW w \in Watchers, Retrying(w) PROVE VisitsNoOutage'
  <2>1. CASE SkipRetry(w) \/ AppendRetry(w) \/ EndRetries(w)
    BY <1>2, <2>1, SMTT(30) DEF SkipRetry, AppendRetry, EndRetries
  <2>2. CASE MarkStuck(w)
    <3>1. \A n \in Tasks : dead'[n].reason = dead[n].reason
      BY <2>2 DEF MarkStuck
    <3> QED
      BY <2>2, <3>1 DEF MarkStuck, ProviderDead
  <2>3. CASE AutoRetry(w)
    <3>1. PICK t : BeginRetry(w, t)
      BY <2>3 DEF AutoRetry
    <3>2. pc'[w] \notin {"audit", "guard", "recheck", "verify"}
      BY <3>1 DEF BeginRetry
    <3> QED
      BY <3>1, <3>2, BegunRetry
  <2>4. CASE RetainNext(w)
    <3>1. pc'[w] \notin {"audit", "guard", "recheck", "verify"}
      BY <2>4 DEF RetainNext, RetainMarker, RetainThrows
    <3> QED
      BY <2>4, <3>1, RetainedNext DEF IsRegressed
  <2> QED
    BY <1>2, <2>1, <2>2, <2>3, <2>4 DEF Retrying
<1>3. ASSUME NEW w \in Watchers, Deriving(w) PROVE VisitsNoOutage'
  BY <1>3, SMTT(30) DEF Deriving, StartTask, StartArchive, LeaveAlone
<1>4. ASSUME NEW w \in Watchers, Checking(w) PROVE VisitsNoOutage'
  BY <1>4, SMTT(30) DEF Checking, AuditClear, Auditing, Visited,
     AuditRecertify, AuditRegress, AuditHalts, EndAudit, AfterAudit
<1>5. ASSUME NEW w \in Watchers, Running(w) PROVE VisitsNoOutage'
  <2>1. CASE Begin(w) \/ AcquireLock(w) \/ LockTaken(w) \/ Spawn(w) \/
             AgentExits(w) \/ JudgePauses(w) \/ Release(w)
    BY <1>5, <2>1, SMTT(30) DEF Begin, AcquireLock, LockTaken, Spawn,
       AgentExits, JudgePauses, Release
  <2>2. CASE RefuseSeal(w)
    <3>1. PICK reason \in DeadReasons :
          RecordDead(cur[w], reason, SealPrint) /\ reason # Provider
      BY <2>2, MarkerFacts DEF RefuseSeal, Refuse, Provider
    <3>2. \A n \in Tasks : ProviderDead(n)' => ProviderDead(n)
      BY <3>1, RecordedReason DEF ProviderDead
    <3> QED
      BY <2>2, <3>2 DEF RefuseSeal, Refuse
  <2>3. CASE RefuseEntry(w)
    <3>1. PICK reason \in DeadReasons :
          RecordDead(cur[w], reason, SealPrint) /\ reason # Provider
      BY <2>3, MarkerFacts DEF RefuseEntry, Refuse, Provider
    <3>2. \A n \in Tasks : ProviderDead(n)' => ProviderDead(n)
      BY <3>1, RecordedReason DEF ProviderDead
    <3> QED
      BY <2>3, <3>2 DEF RefuseEntry, Refuse
  <2>4. CASE RefuseStart(w)
    <3>1. PICK reason \in DeadReasons :
          RecordDead(cur[w], reason, NoPrint) /\ reason # Provider
      BY <2>4, MarkerFacts DEF RefuseStart, Fail, Provider
    <3>2. \A n \in Tasks : ProviderDead(n)' => ProviderDead(n)
      BY <3>1, RecordedReason DEF ProviderDead
    <3> QED
      BY <2>4, <3>2 DEF RefuseStart, Fail
  <2>5. CASE JudgeFails(w)
    <3>1. PICK reason \in DeadReasons, print \in AllPrints :
            RecordDead(cur[w], reason, print)
      BY <2>5, MarkerFacts, SwitchesAssumption DEF JudgeFails, Fail
    <3>2. done' = done /\ regressed' = regressed /\ pc[w] = "judge"
      BY <2>5 DEF JudgeFails, Fail
    <3>3. pc'[w] = "release"
      BY <2>5 DEF JudgeFails, Fail
    <3>4. cur[w] \notin done /\ ~IsRegressed(cur[w])
      BY <3>2 DEF DueInv, CurIsOpen, BeforeEnd, LanePhases
    <3>5. \A n \in Tasks : dead'[n] = dead[n] \/ n = cur[w]
      BY <3>1, RecordedReason
    <3> QED
      BY <3>2, <3>3, <3>4, <3>5 DEF ProviderDead
  <2>6. CASE JudgePasses(w)
    <3>1. done' = done \cup {cur[w]} /\ UNCHANGED <<dead, regressed>>
      BY <2>6 DEF JudgePasses
    <3>2. ~IsDead(cur[w])
      BY <2>6 DEF JudgePasses, DueInv, CurIsOpen, BeforeEnd, LanePhases
    <3>3. \A n \in Tasks : ProviderDead(n) => n # cur[w]
      BY <3>2, NoReasonIsNoOutage DEF ProviderDead, IsDead
    <3>4. pc'[w] = "release"
      BY <2>6 DEF JudgePasses
    <3> QED
      BY <3>1, <3>3, <3>4 DEF ProviderDead
  <2> QED
    BY <1>5, <2>1, <2>2, <2>3, <2>4, <2>5, <2>6 DEF Running
<1>6. ASSUME NEW w \in Watchers, Finishing(w) PROVE VisitsNoOutage'
  BY <1>6, SMTT(30) DEF Finishing, ArchiveWaits, Recheck, VerifyGreen,
     Visited, VerifyRed, RegressTarget, EndVerify, ChangeGreen, ChangeRed,
     Relocate
<1>7. ASSUME NEW w \in Watchers, Crash(w) PROVE VisitsNoOutage'
  BY <1>7, SMTT(30) DEF Crash
<1>8. CASE Continue
  <2>1. CASE AppendRetry(Human)
    BY <1>8, <2>1, SMTT(30) DEF AppendRetry
  <2>2. CASE Retire
    <3>1. CASE \E t : BeginRetry(Human, t)
      <4>1. PICK t : BeginRetry(Human, t)
        BY <3>1
      <4>2. \A w \in Watchers : pc'[w] = pc[w] /\ todo'[w] = todo[w]
        BY <4>1 DEF BeginRetry
      <4> QED
        BY <4>1, <4>2, BegunRetry
    <3>2. CASE UNCHANGED markerVars
                 /\ \A w \in Watchers : pc'[w] = pc[w] /\ todo'[w] = todo[w]
      BY <3>2 DEF ProviderDead, IsRegressed
    <3> QED
      BY <2>2, <3>1, <3>2 DEF Retire
  <2>3. CASE RetainNext(Human)
    <3>1. \A w \in Watchers : pc'[w] = pc[w] /\ todo'[w] = todo[w]
      BY <2>3 DEF RetainNext, RetainMarker, RetainThrows
    <3> QED
      BY <2>3, <3>1, RetainedNext DEF IsRegressed
  <2> QED
    BY <1>8, <2>1, <2>2, <2>3 DEF Continue
<1>9. CASE BeginApproval \/ Approve \/ Decline
  BY <1>9, SMTT(30) DEF BeginApproval, Approve, Decline
<1>10. CASE HumanRetry
  <2>1. PICK t : BeginRetry(Human, t)
    BY <1>10 DEF HumanRetry
  <2>2. \A w \in Watchers : pc'[w] = pc[w] /\ todo'[w] = todo[w]
    BY <2>1 DEF BeginRetry
  <2> QED
    BY <2>1, <2>2, BegunRetry
<1>11. CASE KillHuman
  BY <1>11, SMTT(30) DEF KillHuman
<1>12. CASE EditPlan \/ HumanEditsTree \/ OrphanExits \/ LockAges
  BY <1>12, SMTT(30) DEF EditPlan, HumanEditsTree, OutsideEdit, TreeEdit,
     Tamper, OrphanExits, LockAges
<1>13. CASE Time
  BY <1>13, SMTT(30) DEF Time, PauseEnds, DelayPasses
<1>14. CASE UNCHANGED vars
  BY <1>14 DEF vars
<1> QED
  BY <1>1, <1>2, <1>3, <1>4, <1>5, <1>6, <1>7, <1>8, <1>9, <1>10, <1>11,
     <1>12, <1>13, <1>14 DEF Next, Watch

(* A human's retry is manual. *)
LEMMA OnlyWatchersStep ==
  Single /\ Inv /\ DueInv /\ SpendInv /\ [Next]_vars => OnlyWatchersAuto'
<1> SUFFICES ASSUME Single, Inv, DueInv, SpendInv, [Next]_vars
             PROVE  OnlyWatchersAuto'
  OBVIOUS
<1>0. ControlTyped /\ Control /\ DoneTyped /\ LoopsTyped /\ CountsTyped
  BY InvParts
<1> USE <1>0, ActorsAssumption, NextIsDue, TargetFacts, SmallestIsMember,
    DoneIsAll, BudgetAssumption DEF ControlTyped, Control, DoneTyped,
    LoopsTyped, CountsTyped, SpendInv, OnlyWatchersAuto, RetryNote, Kinds,
    LanePhases, RetryPhases, ArchivePhases, WatcherPhases, HumanPhases,
    Actors, BeforeEnd
<1>1. ASSUME NEW w \in Watchers, Reaping(w) PROVE OnlyWatchersAuto'
  BY <1>1, SMTT(30) DEF Reaping, Start, ReadLock, Reap, MisreadLock,
     PassLock, UnlinkLock, EndReap, Bury, EndBury
<1>2. ASSUME NEW w \in Watchers, Retrying(w) PROVE OnlyWatchersAuto'
  BY <1>2, SMTT(30) DEF Retrying, MarkStuck, AutoRetry, BeginRetry,
     RetainDead, SkipRetry, RetainNext, RetainMarker, RetainThrows,
     RetainDone, AppendRetry, EndRetries
<1>3. ASSUME NEW w \in Watchers, Deriving(w) PROVE OnlyWatchersAuto'
  BY <1>3, SMTT(30) DEF Deriving, StartTask, StartArchive, LeaveAlone
<1>4. ASSUME NEW w \in Watchers, Checking(w) PROVE OnlyWatchersAuto'
  BY <1>4, SMTT(30) DEF Checking, AuditClear, Auditing, Visited,
     AuditRecertify, AuditRegress, AuditHalts, EndAudit, AfterAudit
<1>5. ASSUME NEW w \in Watchers, Running(w) PROVE OnlyWatchersAuto'
  BY <1>5, SMTT(30) DEF Running, RefuseSeal, Refuse, RefuseEntry, Begin,
     AcquireLock, LockTaken, RefuseStart, Fail, Spawn, AgentExits,
     JudgeFails, JudgePauses, JudgePasses, Release
<1>6. ASSUME NEW w \in Watchers, Finishing(w) PROVE OnlyWatchersAuto'
  BY <1>6, SMTT(30) DEF Finishing, ArchiveWaits, Recheck, VerifyGreen,
     Visited, VerifyRed, RegressTarget, EndVerify, ChangeGreen, ChangeRed,
     Relocate
<1>7. ASSUME NEW w \in Watchers, Crash(w) PROVE OnlyWatchersAuto'
  BY <1>7, SMTT(30) DEF Crash
<1>8. CASE Continue
  BY <1>8, SMTT(30) DEF Continue, Retire, BeginRetry, RetainDead, RetainNext,
     RetainMarker, RetainThrows,
     RetainDone, AppendRetry
<1>9. CASE BeginApproval \/ Approve \/ Decline
  BY <1>9, SMTT(30) DEF BeginApproval, Approve, Decline
<1>10. CASE HumanRetry
  BY <1>10, SMTT(30) DEF HumanRetry, BeginRetry, RetainDead
<1>11. CASE KillHuman
  BY <1>11, SMTT(30) DEF KillHuman
<1>12. CASE EditPlan \/ HumanEditsTree \/ OrphanExits \/ LockAges
  BY <1>12, SMTT(30) DEF EditPlan, HumanEditsTree, OutsideEdit, TreeEdit,
     Tamper, OrphanExits, LockAges
<1>13. CASE Time
  BY <1>13, SMTT(30) DEF Time, PauseEnds, DelayPasses
<1>14. CASE UNCHANGED vars
  BY <1>14 DEF vars
<1> QED
  BY <1>1, <1>2, <1>3, <1>4, <1>5, <1>6, <1>7, <1>8, <1>9, <1>10, <1>11,
     <1>12, <1>13, <1>14 DEF Next, Watch

(* The counts move together. *)
LEMMA CountsHoldStep ==
  Single /\ Inv /\ DueInv /\ SpendInv /\ [Next]_vars => CountsHold'
<1> SUFFICES ASSUME Single, Inv, DueInv, SpendInv, [Next]_vars
             PROVE  CountsHold'
  OBVIOUS
<1>0. ControlTyped /\ Control /\ CountsTyped /\ EventsTyped
  BY InvParts
<1> USE <1>0, ActorsAssumption, RetryLimitsAssumption, BudgetAssumption DEF
    ControlTyped, Control, CountsTyped, EventsTyped, Single, SpendInv,
    CountsHold, OnlyWatchersAuto, Pending, Owed, CrashesSoFar, Kinds,
    Streams, LanePhases, RetryPhases, ArchivePhases, WatcherPhases,
    HumanPhases, Actors, BeforeEnd
<1>1. ASSUME NEW w \in Watchers, Reaping(w) PROVE CountsHold'
  BY <1>1, SMTT(30) DEF Reaping, Start, ReadLock, Reap, MisreadLock,
     PassLock, UnlinkLock, EndReap, Bury, EndBury
<1>2. ASSUME NEW w \in Watchers, Retrying(w) PROVE CountsHold'
  <2>1. CASE MarkStuck(w) \/ SkipRetry(w) \/ RetainNext(w) \/ EndRetries(w)
    BY <1>2, <2>1, SMTT(30) DEF MarkStuck, SkipRetry, RetainNext,
       RetainMarker, RetainThrows,
       RetainDead, RetainDone, EndRetries
  <2>2. CASE AutoRetry(w)
    <3> DEFINE t == Smallest(todo[w])
    <3>1. BeginRetry(w, t) /\ RetryDue(t) /\ pc[w] = "retry" /\ budget' = budget
      BY <2>2 DEF AutoRetry
    <3>2. ASSUME t \in Tasks, RetryNote(w, t) = "auto"
          PROVE  events[t].autos < AutoRetries
      <4>1. dead[t].reason # Provider
        BY <3>2, ActorsAssumption
        DEF RetryNote, Recertifies, SpendInv, OutageIsOpen, ProviderDead
      <4> QED
        BY <3>1, <4>1 DEF RetryDue
    <3> HIDE DEF t
    <3>3. w \in Actors
      BY DEF Actors
    <3> QED
      BY <3>1, <3>2, <3>3, CountedRetry
  <2>3. CASE AppendRetry(w)
    <3>1. /\ pc[w] = "append" /\ pc'[w] \notin RetryPhases
          /\ \A b \in Actors \ {w} :
               pc'[b] = pc[b] /\ cur'[b] = cur[b] /\ note'[b] = note[b]
          /\ budget' = budget
      BY <2>3 DEF AppendRetry
    <3>2. note[w] \in {"passed", "requeued", "manual", "auto", "provider"}
      BY <3>1
    <3>3. \A n \in Tasks :
            /\ events'[n] = IF n = cur[w] THEN Appended(events[n], note[w])
                            ELSE events[n]
            /\ spent'[n] = IF n = cur[w] /\ note[w] = "manual" THEN 0
                           ELSE spent[n]
      BY <2>3 DEF AppendRetry
    <3>4. \A n \in Tasks : events'[n].autos =
            IF n # cur[w] THEN events[n].autos
            ELSE IF note[w] = "auto" THEN events[n].autos + 1
            ELSE IF note[w] = "manual" THEN 0 ELSE events[n].autos
      BY <3>2, <3>3, AppendedAutos DEF EventsTyped
    <3>5. \A n \in Tasks : events[n].autos \in Nat /\ spent[n] \in Nat
      BY DEF EventsTyped, CountsTyped, Streams
    <3> QED
      BY <3>1, <3>2, <3>3, <3>4, <3>5
  <2> QED
    BY <1>2, <2>1, <2>2, <2>3 DEF Retrying
<1>3. ASSUME NEW w \in Watchers, Deriving(w) PROVE CountsHold'
  BY <1>3, SMTT(30) DEF Deriving, StartTask, StartArchive, LeaveAlone
<1>4. ASSUME NEW w \in Watchers, Checking(w) PROVE CountsHold'
  BY <1>4, SMTT(30) DEF Checking, AuditClear, Auditing, Visited,
     AuditRecertify, AuditRegress, AuditHalts, EndAudit, AfterAudit
<1>5. ASSUME NEW w \in Watchers, Running(w) PROVE CountsHold'
  <2>1. CASE RefuseSeal(w) \/ RefuseEntry(w) \/ Begin(w) \/ AcquireLock(w) \/
             LockTaken(w) \/ Spawn(w) \/ AgentExits(w)
    BY <1>5, <2>1, SMTT(30) DEF RefuseSeal, Refuse, RefuseEntry, Begin,
       AcquireLock, LockTaken, Spawn, AgentExits
  <2>2. CASE RefuseStart(w)
    BY <2>2, SMTT(30) DEF RefuseStart, Fail
  <2>3. CASE JudgeFails(w)
    BY <2>3, SMTT(30) DEF JudgeFails, Fail
  <2>4. CASE JudgePauses(w)
    BY <2>4, SMTT(30) DEF JudgePauses
  <2>5. CASE JudgePasses(w)
    BY <2>5, SMTT(30) DEF JudgePasses
  <2>6. CASE Release(w)
    BY <2>6, SMTT(30) DEF Release
  <2> QED
    BY <1>5, <2>1, <2>2, <2>3, <2>4, <2>5, <2>6 DEF Running
<1>6. ASSUME NEW w \in Watchers, Finishing(w) PROVE CountsHold'
  BY <1>6, SMTT(30) DEF Finishing, ArchiveWaits, Recheck, VerifyGreen,
     Visited, VerifyRed, RegressTarget, EndVerify, ChangeGreen, ChangeRed,
     Relocate
<1>7. ASSUME NEW w \in Watchers, Crash(w) PROVE CountsHold'
  BY <1>7, SMTT(30) DEF Crash
<1>8. CASE Continue
  <2>1. CASE RetainNext(Human)
    BY <1>8, <2>1, SMTT(30) DEF RetainNext, RetainMarker, RetainThrows,
       RetainDead, RetainDone
  <2>2. CASE Retire
    <3>1. CASE \E t : BeginRetry(Human, t) /\ UNCHANGED budget
      <4>1. PICK t : BeginRetry(Human, t) /\ UNCHANGED budget
        BY <3>1
      <4> QED
        BY <4>1, CountedRetry, HumanIsManual
    <3>2. CASE /\ UNCHANGED <<events, spent, budget>>
               /\ \A w \in Watchers :
                    UNCHANGED <<pc[w], cur[w], note[w]>>
      BY <3>2
    <3> QED
      BY <2>2, <3>1, <3>2 DEF Retire
  <2>3. CASE AppendRetry(Human)
    <3>1. /\ pc[Human] = "append" /\ pc'[Human] \notin RetryPhases
          /\ \A b \in Actors \ {Human} :
               pc'[b] = pc[b] /\ cur'[b] = cur[b] /\ note'[b] = note[b]
          /\ budget' = budget
      BY <2>3 DEF AppendRetry
    <3>2. note[Human] \in {"passed", "requeued", "manual", "auto", "provider"}
      BY <3>1
    <3>3. \A n \in Tasks :
            /\ events'[n] = IF n = cur[Human]
                              THEN Appended(events[n], note[Human])
                            ELSE events[n]
            /\ spent'[n] = IF n = cur[Human] /\ note[Human] = "manual" THEN 0
                           ELSE spent[n]
      BY <2>3 DEF AppendRetry
    <3>4. \A n \in Tasks : events'[n].autos =
            IF n # cur[Human] THEN events[n].autos
            ELSE IF note[Human] = "auto" THEN events[n].autos + 1
            ELSE IF note[Human] = "manual" THEN 0 ELSE events[n].autos
      BY <3>2, <3>3, AppendedAutos DEF EventsTyped
    <3>5. \A n \in Tasks : events[n].autos \in Nat /\ spent[n] \in Nat
      BY DEF EventsTyped, CountsTyped, Streams
    <3> QED
      BY <3>1, <3>2, <3>3, <3>4, <3>5
  <2> QED
    BY <1>8, <2>1, <2>2, <2>3 DEF Continue
<1>9. CASE BeginApproval \/ Approve \/ Decline
  BY <1>9, SMTT(30) DEF BeginApproval, Approve, Decline
<1>10. CASE HumanRetry
  <2>1. PICK t : BeginRetry(Human, t)
    BY <1>10 DEF HumanRetry
  <2>2. budget' = [budget EXCEPT !["command"] = @ - 1]
    BY <1>10 DEF HumanRetry
  <2> QED
    BY <2>1, <2>2, CountedRetry, HumanIsManual
<1>11. CASE KillHuman
  BY <1>11, SMTT(30) DEF KillHuman
<1>12. CASE EditPlan \/ HumanEditsTree \/ OrphanExits \/ LockAges
  BY <1>12, SMTT(30) DEF EditPlan, HumanEditsTree, OutsideEdit, TreeEdit,
     Tamper, OrphanExits, LockAges
<1>13. CASE Time
  BY <1>13, SMTT(30) DEF Time, PauseEnds, DelayPasses
<1>14. CASE UNCHANGED vars
  BY <1>14 DEF vars
<1> QED
  BY <1>1, <1>2, <1>3, <1>4, <1>5, <1>6, <1>7, <1>8, <1>9, <1>10, <1>11,
     <1>12, <1>13, <1>14 DEF Next, Watch
-----------------------------------------------------------------------------
(* No process has started. *)
LEMMA InitDue == Init => DueInv
  BY ActorsAssumption
  DEF Init, DueInv, CurIsOpen, OwnsLock, EarlierDone, EarlierSound,
      HeedsStale, VisitsEarlier, InTask, BeforeEnd, LanePhases, Actors

(* No step leaves DueInv. *)
LEMMA DueStep == Single /\ Inv /\ DueInv /\ [Next]_vars => DueInv'
  BY OpenStep, HeldStep, EarlierDoneStep, EarlierSoundStep, HeedsStep,
     VisitsStep
  DEF DueInv

(* What lasts through the lane is what AgentIsDue says of its agent. *)
LEMMA DueImplies == Inv /\ DueInv => AgentIsDue
<1> SUFFICES ASSUME Inv, DueInv, NEW w \in Watchers, pc[w] = "agent"
             PROVE  /\ lock[cur[w]] = w
                    /\ cur[w] \notin done
                    /\ ~IsDead(cur[w]) /\ ~IsRegressed(cur[w])
                    /\ "done" \notin tampered =>
                         /\ Earlier(cur[w]) = 1..(cur[w] - 1)
                         /\ \A n \in Earlier(cur[w]) : ~IsRegressed(n)
  BY DEF AgentIsDue
<1>1. pc[w] \in BeforeEnd /\ InTask(w) /\ note[w] # "stale" /\ cur[w] \in Tasks
  BY InvParts DEF BeforeEnd, LanePhases, InTask, DueInv, HeedsStale, Control
<1>2. /\ lock[cur[w]] = w
      /\ cur[w] \notin done
      /\ ~IsDead(cur[w]) /\ ~IsRegressed(cur[w])
  BY <1>1 DEF DueInv, OwnsLock, CurIsOpen
<1>3. ASSUME "done" \notin tampered
      PROVE  /\ Earlier(cur[w]) = 1..(cur[w] - 1)
             /\ \A n \in Earlier(cur[w]) : ~IsRegressed(n)
  <2>1. \A n \in Tasks : n < cur[w] => n \in done /\ ~IsRegressed(n)
    BY <1>1, <1>3 DEF DueInv, EarlierDone, EarlierSound
  <2>2. done \subseteq Tasks
    BY InvParts DEF DoneTyped
  <2>3. \A n : n \in 1..(cur[w] - 1) <=> n \in Tasks /\ n < cur[w]
    BY <1>1, NTasksAssumption DEF Tasks
  <2> QED
    BY <2>1, <2>2, <2>3 DEF Earlier
<1> QED
  BY <1>2, <1>3

(* Nothing is spent at first. *)
LEMMA InitSpend == Init => SpendInv
<1> SUFFICES ASSUME Init PROVE SpendInv
  OBVIOUS
<1>1. OutageIsOpen /\ VisitsNoOutage
  BY ActorsAssumption, NoReasonIsNoOutage
  DEF Init, MarkersInit, OutageIsOpen, VisitsNoOutage, ProviderDead, Actors
<1>2. CountsHold
  BY ActorsAssumption, RetryLimitsAssumption, BudgetAssumption
  DEF Init, MarkersInit, CountsHold, Owed, Pending, NewStream, RetryPhases,
      CrashesSoFar, Kinds, Actors
<1>3. OnlyWatchersAuto
  BY BudgetAssumption
  DEF Init, OnlyWatchersAuto, RetryPhases, Actors, Kinds
<1> QED
  BY <1>1, <1>2, <1>3 DEF SpendInv

(* No step leaves SpendInv. *)
LEMMA SpendStep ==
  Single /\ Inv /\ DueInv /\ SpendInv /\ [Next]_vars => SpendInv'
  BY OutageStep, VisitsOutageStep, CountsHoldStep, OnlyWatchersStep
  DEF SpendInv

(* With at least one watcher, the counts bound what is spent. *)
LEMMA SpendImplies == Inv /\ SpendInv => SpentIsBounded
<1> SUFFICES ASSUME Inv, SpendInv, NEW t \in Tasks
             PROVE  spent[t] <= AutoRetries + CrashesSoFar
  BY DEF SpentIsBounded
<1>1. PICK w \in Watchers : TRUE
  BY ActorsAssumption
<1>2. Owed(w, t) <= AutoRetries /\ spent[t] <= Owed(w, t) + CrashesSoFar
  BY <1>1 DEF SpendInv, CountsHold
<1>3. Owed(w, t) \in Nat /\ spent[t] \in Nat /\ CrashesSoFar \in Int
  BY InvParts, BudgetAssumption
  DEF Owed, EventsTyped, Streams, CountsTyped, CrashesSoFar, Kinds
<1> QED
  BY <1>2, <1>3, RetryLimitsAssumption

(***************************************************************************)
(* Stuck tasks                                                             *)
(***************************************************************************)
\* a lock a watcher is named in is the lock of its task
LocksAreMine == \A w \in Watchers : \A t \in Tasks :
  lock[t] = w => InTask(w) /\ cur[w] = t

\* a reaper has the locks left by its predecessor before it, until it has
\* unlinked and reported them all
LocksAreReaped == \A w \in Watchers :
  /\ pc[w] \in {"reap", "unlink"} => \A t \in Tasks :
       lock[t] # Free => t \in todo[w] \/ (pc[w] = "unlink" /\ t = cur[w])
  /\ pc[w] \in {"bury", "retry", "retain", "append"} =>
       \A t \in Tasks : lock[t] = Free
  /\ pc[w] \in {"retry", "retain", "append"} => reaped[w] = {}

\* a stuck death is the second of its kind, and no attempt is left whose end
\* could be reported over it
StuckIsLast == \A t \in Tasks : dead[t].stuck =>
  /\ IsStuck(t)
  /\ lock[t] = Free
  /\ \A w \in Watchers :
       /\ \A reason \in ReapReasons : <<t, reason>> \notin reaped[w]
       /\ pc[w] \in {"reap", "unlink"} => t \notin todo[w]
       /\ pc[w] = "unlink" => t # cur[w]
       /\ pc[w] = "retain" /\ "dead" \in rest[w] => t # cur[w]

StuckInv == LocksAreMine /\ LocksAreReaped /\ StuckIsLast

(* A lock names a watcher only inside the task.                            *)
LEMMA MineStep == Single /\ Inv /\ StuckInv /\ [Next]_vars => LocksAreMine'
<1> SUFFICES ASSUME Single, Inv, StuckInv, [Next]_vars PROVE LocksAreMine'
  OBVIOUS
<1>0. ControlTyped /\ Control /\ LocksTyped
  BY InvParts
<1> USE <1>0, ActorsAssumption DEF ControlTyped, Control, LocksTyped, StuckInv,
    LocksAreMine, Single, InTask, LanePhases, RetryPhases, ArchivePhases,
    Actors
<1>1. ASSUME NEW w \in Watchers, Reaping(w) PROVE LocksAreMine'
  BY <1>1, SMTT(30) DEF Reaping, Start, ReadLock, Reap, MisreadLock,
     PassLock, UnlinkLock, EndReap, Bury, EndBury
<1>2. ASSUME NEW w \in Watchers, Retrying(w) PROVE LocksAreMine'
  BY <1>2, SMTT(30) DEF Retrying, MarkStuck, AutoRetry, BeginRetry,
     RetainDead, SkipRetry, RetainNext, RetainMarker, RetainThrows,
     RetainDone, AppendRetry, EndRetries
<1>3. ASSUME NEW w \in Watchers, Deriving(w) PROVE LocksAreMine'
  BY <1>3, SMTT(30) DEF Deriving, StartTask, StartArchive, LeaveAlone
<1>4. ASSUME NEW w \in Watchers, Checking(w) PROVE LocksAreMine'
  BY <1>4, SMTT(30) DEF Checking, AuditClear, Auditing, Visited,
     AuditRecertify, AuditRegress, AuditHalts, EndAudit, AfterAudit
<1>5. ASSUME NEW w \in Watchers, Running(w) PROVE LocksAreMine'
  BY <1>5, SMTT(30) DEF Running, RefuseSeal, Refuse, RefuseEntry, Begin,
     AcquireLock, LockTaken, RefuseStart, Fail, Spawn, AgentExits,
     JudgeFails, JudgePauses, JudgePasses, Release
<1>6. ASSUME NEW w \in Watchers, Finishing(w) PROVE LocksAreMine'
  BY <1>6, SMTT(30) DEF Finishing, ArchiveWaits, Recheck, VerifyGreen,
     Visited, VerifyRed, RegressTarget, EndVerify, ChangeGreen, ChangeRed,
     Relocate
<1>7. ASSUME NEW w \in Watchers, Crash(w) PROVE LocksAreMine'
  BY <1>7, SMTT(30) DEF Crash
<1>8. CASE Continue
  BY <1>8, SMTT(30) DEF Continue, Retire, BeginRetry, RetainDead, RetainNext,
     RetainMarker, RetainThrows,
     RetainDone, AppendRetry
<1>9. CASE BeginApproval \/ Approve \/ Decline
  BY <1>9, SMTT(30) DEF BeginApproval, Approve, Decline
<1>10. CASE HumanRetry
  BY <1>10, SMTT(30) DEF HumanRetry, BeginRetry, RetainDead
<1>11. CASE KillHuman
  BY <1>11, SMTT(30) DEF KillHuman
<1>12. CASE EditPlan \/ HumanEditsTree \/ OrphanExits \/ LockAges
  BY <1>12, SMTT(30) DEF EditPlan, HumanEditsTree, OutsideEdit, TreeEdit,
     Tamper, OrphanExits, LockAges
<1>13. CASE Time
  BY <1>13, SMTT(30) DEF Time, PauseEnds, DelayPasses
<1>14. CASE UNCHANGED vars
  BY <1>14 DEF vars
<1> QED
  BY <1>1, <1>2, <1>3, <1>4, <1>5, <1>6, <1>7, <1>8, <1>9, <1>10, <1>11,
     <1>12, <1>13, <1>14 DEF Next, Watch

(* Every lock a cycle finds is unlinked before the cycle retries.          *)
LEMMA ReapedStep == Single /\ Inv /\ StuckInv /\ [Next]_vars => LocksAreReaped'
<1> SUFFICES ASSUME Single, Inv, StuckInv, [Next]_vars PROVE LocksAreReaped'
  OBVIOUS
<1>0. ControlTyped /\ Control /\ LocksTyped /\ LoopsTyped
  BY InvParts
<1> USE <1>0, ActorsAssumption DEF ControlTyped, Control, LocksTyped,
LoopsTyped,
    StuckInv, LocksAreMine, LocksAreReaped, Single, InTask, LanePhases,
    RetryPhases, ArchivePhases, Actors
<1>1. ASSUME NEW w \in Watchers, Reaping(w) PROVE LocksAreReaped'
  <2>0. \A v \in Watchers : v = w
    OBVIOUS
  <2>1. CASE Start(w)
    BY <2>0, <2>1, SMTT(30) DEF Start
  <2>2. CASE ReadLock(w) \/ MisreadLock(w)
    BY <2>0, <2>2, SMTT(30) DEF ReadLock, MisreadLock, Reap
  <2>3. CASE PassLock(w)
    BY <2>0, <2>3, SMTT(30) DEF PassLock, Stale, Owners
  <2>4. CASE UnlinkLock(w)
    BY <2>0, <2>4, SMTT(30) DEF UnlinkLock
  <2>5. CASE EndReap(w)
    BY <2>0, <2>5, SMTT(30) DEF EndReap
  <2>6. CASE Bury(w)
    BY <2>0, <2>6, SMTT(30) DEF Bury
  <2>7. CASE EndBury(w)
    BY <2>0, <2>7, SMTT(30) DEF EndBury
  <2> QED
    BY <1>1, <2>1, <2>2, <2>3, <2>4, <2>5, <2>6, <2>7 DEF Reaping
<1>2. ASSUME NEW w \in Watchers, Retrying(w) PROVE LocksAreReaped'
  BY <1>2, SMTT(30) DEF Retrying, MarkStuck, AutoRetry, BeginRetry,
     RetainDead, SkipRetry, RetainNext, RetainMarker, RetainThrows,
     RetainDone, AppendRetry, EndRetries
<1>3. ASSUME NEW w \in Watchers, Deriving(w) PROVE LocksAreReaped'
  BY <1>3, SMTT(30) DEF Deriving, StartTask, StartArchive, LeaveAlone
<1>4. ASSUME NEW w \in Watchers, Checking(w) PROVE LocksAreReaped'
  BY <1>4, SMTT(30) DEF Checking, AuditClear, Auditing, Visited,
     AuditRecertify, AuditRegress, AuditHalts, EndAudit, AfterAudit
<1>5. ASSUME NEW w \in Watchers, Running(w) PROVE LocksAreReaped'
  BY <1>5, SMTT(30) DEF Running, RefuseSeal, Refuse, RefuseEntry, Begin,
     AcquireLock, LockTaken, RefuseStart, Fail, Spawn, AgentExits,
     JudgeFails, JudgePauses, JudgePasses, Release
<1>6. ASSUME NEW w \in Watchers, Finishing(w) PROVE LocksAreReaped'
  BY <1>6, SMTT(30) DEF Finishing, ArchiveWaits, Recheck, VerifyGreen,
     Visited, VerifyRed, RegressTarget, EndVerify, ChangeGreen, ChangeRed,
     Relocate
<1>7. ASSUME NEW w \in Watchers, Crash(w) PROVE LocksAreReaped'
  BY <1>7, SMTT(30) DEF Crash
<1>8. CASE Continue
  BY <1>8, SMTT(30) DEF Continue, Retire, BeginRetry, RetainDead, RetainNext,
     RetainMarker, RetainThrows,
     RetainDone, AppendRetry
<1>9. CASE BeginApproval \/ Approve \/ Decline
  BY <1>9, SMTT(30) DEF BeginApproval, Approve, Decline
<1>10. CASE HumanRetry
  BY <1>10, SMTT(30) DEF HumanRetry, BeginRetry, RetainDead
<1>11. CASE KillHuman
  BY <1>11, SMTT(30) DEF KillHuman
<1>12. CASE EditPlan \/ HumanEditsTree \/ OrphanExits \/ LockAges
  BY <1>12, SMTT(30) DEF EditPlan, HumanEditsTree, OutsideEdit, TreeEdit,
     Tamper, OrphanExits, LockAges
<1>13. CASE Time
  BY <1>13, SMTT(30) DEF Time, PauseEnds, DelayPasses
<1>14. CASE UNCHANGED vars
  BY <1>14 DEF vars
<1> QED
  BY <1>1, <1>2, <1>3, <1>4, <1>5, <1>6, <1>7, <1>8, <1>9, <1>10, <1>11,
     <1>12, <1>13, <1>14 DEF Next, Watch

(* A marker written or renamed is stuck no more, and the others stay.      *)
LEMMA RecordedStuck ==
  ASSUME DeadTyped, NEW t, NEW reason, NEW print, RecordDead(t, reason, print)
  PROVE  \A n \in Tasks : /\ n # t => dead'[n] = dead[n]
                          /\ n = t => ~dead'[n].stuck
  BY DEF DeadTyped, RecordDead

(* A marker renamed is gone, and the others and their history stay.        *)
LEMMA RetainedStuck ==
  ASSUME DeadTyped, LastTyped, NEW t, RetainDead(t)
  PROVE  \A n \in Tasks :
           /\ n # t => dead'[n] = dead[n] /\ lastDead'[n] = lastDead[n]
           /\ n = t => ~dead'[n].stuck
  BY DEF DeadTyped, LastTyped, RetainDead, NoDead

(* markStuck sets the flag of its task and changes nothing else.           *)
LEMMA MarkedStuck ==
  ASSUME DeadTyped, NEW t, dead' = [dead EXCEPT ![t].stuck = TRUE]
  PROVE  \A n \in Tasks :
           /\ n # t => dead'[n] = dead[n]
           /\ dead'[n].reason = dead[n].reason /\ dead'[n].print = dead[n].print
<1>1. \A n \in Tasks : dead[n] \in DeadMarkers \/ dead[n] = NoDead
  BY DEF DeadTyped
<1> QED
  BY <1>1 DEF DeadTyped, DeadMarkers, NoDead

(* What the end of an attempt is recorded over is not stuck.               *)
LEMMA StuckIsLastStep ==
  Single /\ Inv /\ DueInv /\ StuckInv /\ [Next]_vars => StuckIsLast'
<1> SUFFICES ASSUME Single, Inv, DueInv, StuckInv, [Next]_vars
             PROVE  StuckIsLast'
  OBVIOUS
<1>0. /\ ControlTyped /\ Control /\ LocksTyped /\ LoopsTyped
      /\ DeadTyped /\ LastTyped
  BY InvParts
<1> USE <1>0, ActorsAssumption, RecordedStuck, RetainedStuck DEF ControlTyped,
    Control, LocksTyped, LoopsTyped, StuckInv,
    LocksAreReaped, StuckIsLast, IsStuck, SameFailure, Single, InTask,
    LanePhases, RetryPhases, ArchivePhases, Actors
<1>1. ASSUME NEW w \in Watchers, Reaping(w) PROVE StuckIsLast'
  <2>0. \A v \in Watchers : v = w
    OBVIOUS
  <2>1. CASE Start(w)
    BY <2>0, <2>1, SMTT(30) DEF Start
  <2>2. CASE ReadLock(w) \/ MisreadLock(w)
    BY <2>0, <2>2, SMTT(30) DEF ReadLock, MisreadLock, Reap
  <2>3. CASE PassLock(w)
    BY <2>0, <2>3, SMTT(30) DEF PassLock
  <2>4. CASE UnlinkLock(w)
    BY <2>0, <2>4, SMTT(30) DEF UnlinkLock
  <2>5. CASE EndReap(w)
    BY <2>0, <2>5, SMTT(30) DEF EndReap
  <2>6. CASE Bury(w)
    BY <2>0, <2>6, SMTT(30) DEF Bury
  <2>7. CASE EndBury(w)
    BY <2>0, <2>7, SMTT(30) DEF EndBury
  <2> QED
    BY <1>1, <2>1, <2>2, <2>3, <2>4, <2>5, <2>6, <2>7 DEF Reaping
<1>2. ASSUME NEW w \in Watchers, Retrying(w) PROVE StuckIsLast'
  <2>0. \A v \in Watchers : v = w
    OBVIOUS
  <2>1. CASE MarkStuck(w)
    BY <2>0, <2>1, MarkedStuck, SMTT(30) DEF MarkStuck
  <2>2. CASE AutoRetry(w)
    BY <2>0, <2>2, SMTT(30) DEF AutoRetry, BeginRetry, RetryDue
  <2>3. CASE SkipRetry(w) \/ EndRetries(w)
    BY <2>0, <2>3, SMTT(30) DEF SkipRetry, EndRetries
  <2>4. CASE RetainNext(w)
    BY <2>0, <2>4, SMTT(30) DEF RetainNext, RetainMarker, RetainThrows,
       RetainDone
  <2>5. CASE AppendRetry(w)
    BY <2>0, <2>5, SMTT(30) DEF AppendRetry
  <2> QED
    BY <1>2, <2>1, <2>2, <2>3, <2>4, <2>5 DEF Retrying
<1>3. ASSUME NEW w \in Watchers, Deriving(w) PROVE StuckIsLast'
  BY <1>3, SMTT(30) DEF Deriving, StartTask, StartArchive, LeaveAlone
<1>4. ASSUME NEW w \in Watchers, Checking(w) PROVE StuckIsLast'
  BY <1>4, SMTT(30) DEF Checking, AuditClear, Auditing, Visited,
     AuditRecertify, AuditRegress, AuditHalts, EndAudit, AfterAudit
<1>5. ASSUME NEW w \in Watchers, Running(w) PROVE StuckIsLast'
  <2>0. \A v \in Watchers : v = w
    OBVIOUS
  <2>1. CASE RefuseSeal(w) \/ RefuseEntry(w)
    BY <2>0, <2>1, SMTT(30) DEF RefuseSeal, RefuseEntry, Refuse
  <2>2. CASE Begin(w) \/ LockTaken(w) \/ Spawn(w)
    BY <2>0, <2>2, SMTT(30) DEF Begin, LockTaken, Spawn
  <2>3. CASE AcquireLock(w)
    <3>1. pc[w] \in BeforeEnd
      BY <2>3 DEF AcquireLock, BeforeEnd
    <3>2. dead[cur[w]] = NoDead
      BY <3>1 DEF DueInv, CurIsOpen, IsDead
    <3>3. ~dead[cur[w]].stuck
      BY <3>2 DEF NoDead
    <3> QED
      BY <2>0, <2>3, <3>3, SMTT(30) DEF AcquireLock
  <2>4. CASE RefuseStart(w) \/ JudgeFails(w)
    BY <2>0, <2>4, SMTT(30) DEF RefuseStart, JudgeFails, Fail
  <2>5. CASE AgentExits(w) \/ JudgePauses(w)
    BY <2>0, <2>5, SMTT(30) DEF AgentExits, JudgePauses
  <2>6. CASE JudgePasses(w) \/ Release(w)
    BY <2>0, <2>6, SMTT(30) DEF JudgePasses, Release
  <2> QED
    BY <1>5, <2>1, <2>2, <2>3, <2>4, <2>5, <2>6 DEF Running
<1>6. ASSUME NEW w \in Watchers, Finishing(w) PROVE StuckIsLast'
  BY <1>6, SMTT(30) DEF Finishing, ArchiveWaits, Recheck, VerifyGreen,
     Visited, VerifyRed, RegressTarget, EndVerify, ChangeGreen, ChangeRed,
     Relocate
<1>7. ASSUME NEW w \in Watchers, Crash(w) PROVE StuckIsLast'
  BY <1>7, SMTT(30) DEF Crash
<1>8. CASE Continue
  BY <1>8, SMTT(30) DEF Continue, Retire, BeginRetry, RetainNext,
     RetainMarker, RetainThrows,
     RetainDone, AppendRetry
<1>9. CASE BeginApproval \/ Approve \/ Decline
  BY <1>9, SMTT(30) DEF BeginApproval, Approve, Decline
<1>10. CASE HumanRetry
  BY <1>10, SMTT(30) DEF HumanRetry, BeginRetry
<1>11. CASE KillHuman
  BY <1>11, SMTT(30) DEF KillHuman
<1>12. CASE EditPlan \/ HumanEditsTree \/ OrphanExits \/ LockAges
  BY <1>12, SMTT(30) DEF EditPlan, HumanEditsTree, OutsideEdit, TreeEdit,
     Tamper, OrphanExits, LockAges
<1>13. CASE Time
  BY <1>13, SMTT(30) DEF Time, PauseEnds, DelayPasses
<1>14. CASE UNCHANGED vars
  BY <1>14 DEF vars
<1> QED
  BY <1>1, <1>2, <1>3, <1>4, <1>5, <1>6, <1>7, <1>8, <1>9, <1>10, <1>11,
     <1>12, <1>13, <1>14 DEF Next, Watch

(* At the start nothing is locked and nothing is dead.                     *)
LEMMA InitStuck == Init => StuckInv
<1> SUFFICES ASSUME Init PROVE StuckInv
  OBVIOUS
<1>1. \A t \in Tasks : lock[t] = Free /\ ~dead[t].stuck
  BY DEF Init, MarkersInit, NoDead
<1>2. \A w \in Watchers : pc[w] = "down"
  BY ActorsAssumption DEF Init, Actors
<1>3. LocksAreMine /\ LocksAreReaped
  BY <1>1, <1>2, ActorsAssumption DEF LocksAreMine, LocksAreReaped
<1> QED
  BY <1>1, <1>3 DEF StuckInv, StuckIsLast

(* Every step keeps what a stuck death relies on.                          *)
LEMMA StuckStep ==
  Single /\ Inv /\ DueInv /\ StuckInv /\ [Next]_vars => StuckInv'
  BY MineStep, ReapedStep, StuckIsLastStep DEF StuckInv

\* a stuck death ends by the first rename of a command's retry
StuckIsLeft == \A t \in Tasks :
  dead[t].stuck /\ ~dead'[t].stuck => cur'[Human] = t /\ pc'[Human] = "retain"

(* Only a command's retry takes the marker of a stuck task away.           *)
LEMMA LeftStep ==
  Single /\ Inv /\ DueInv /\ StuckInv /\ [Next]_vars => StuckIsLeft
<1> SUFFICES ASSUME Single, Inv, DueInv, StuckInv, [Next]_vars
             PROVE  StuckIsLeft
  OBVIOUS
<1>0. ControlTyped /\ Control /\ LoopsTyped /\ DeadTyped /\ LastTyped
  BY InvParts
<1> USE <1>0, ActorsAssumption, RecordedStuck, RetainedStuck DEF ControlTyped,
    Control, LoopsTyped, StuckInv, StuckIsLast, StuckIsLeft, IsStuck, Actors
<1>1. ASSUME NEW w \in Watchers, Reaping(w) PROVE StuckIsLeft
  <2>1. CASE Bury(w)
    BY <2>1, SMTT(30) DEF Bury
  <2>2. CASE ~Bury(w)
    BY <1>1, <2>2, SMTT(30) DEF Reaping, Start, ReadLock, Reap, MisreadLock,
       PassLock, UnlinkLock, EndReap, EndBury
  <2> QED
    BY <2>1, <2>2
<1>2. ASSUME NEW w \in Watchers, Retrying(w) PROVE StuckIsLeft
  <2>1. CASE MarkStuck(w)
    <3> DEFINE u == Smallest(todo[w])
    <3>1. dead' = [dead EXCEPT ![u].stuck = TRUE]
      BY <2>1 DEF MarkStuck
    <3>2. \A n \in Tasks : n # u => dead'[n] = dead[n]
      BY <3>1, MarkedStuck
    <3>3. ASSUME u \in Tasks PROVE dead'[u].stuck
      BY <3>1, <3>3, <2>1 DEF DeadTyped, MarkStuck, DeadMarkers, NoDead
    <3> QED
      BY <3>2, <3>3
  <2>2. CASE AutoRetry(w)
    BY <2>2, SMTT(30) DEF AutoRetry, BeginRetry, RetryDue
  <2>3. CASE RetainNext(w)
    BY <2>3, SMTT(30) DEF RetainNext, RetainMarker, RetainThrows, RetainDone
  <2>4. CASE SkipRetry(w) \/ AppendRetry(w) \/ EndRetries(w)
    BY <2>4 DEF SkipRetry, AppendRetry, EndRetries
  <2> QED
    BY <1>2, <2>1, <2>2, <2>3, <2>4 DEF Retrying
<1>3. ASSUME NEW w \in Watchers, Deriving(w) PROVE StuckIsLeft
  BY <1>3, SMTT(30) DEF Deriving, StartTask, StartArchive, LeaveAlone
<1>4. ASSUME NEW w \in Watchers, Checking(w) PROVE StuckIsLeft
  BY <1>4, SMTT(30) DEF Checking, AuditClear, Auditing, Visited,
     AuditRecertify, AuditRegress, AuditHalts, EndAudit
<1>5. ASSUME NEW w \in Watchers, Running(w) PROVE StuckIsLeft
  <2>1. CASE pc[w] \in BeforeEnd
    <3>1. dead[cur[w]] = NoDead
      BY <2>1 DEF DueInv, CurIsOpen, IsDead
    <3>2. ~dead[cur[w]].stuck
      BY <3>1 DEF NoDead
    <3> QED
      BY <1>5, <3>2, SMTT(30) DEF Running, RefuseSeal, Refuse, RefuseEntry,
         Begin, AcquireLock, LockTaken, RefuseStart, Fail, Spawn, AgentExits,
         JudgeFails, JudgePauses, JudgePasses, Release
  <2>2. CASE pc[w] \notin BeforeEnd
    <3>1. Release(w)
      BY <1>5, <2>2, SMTT(30) DEF Running, BeforeEnd, LanePhases, RefuseSeal,
         RefuseEntry, Begin, AcquireLock, LockTaken, RefuseStart, Spawn,
         AgentExits, JudgeFails, JudgePauses, JudgePasses
    <3> QED
      BY <3>1 DEF Release
  <2> QED
    BY <2>1, <2>2
<1>6. ASSUME NEW w \in Watchers, Finishing(w) PROVE StuckIsLeft
  BY <1>6, SMTT(30) DEF Finishing, ArchiveWaits, Recheck, VerifyGreen,
     Visited, VerifyRed, RegressTarget, EndVerify, ChangeGreen, ChangeRed,
     Relocate
<1>7. ASSUME NEW w \in Watchers, Crash(w) PROVE StuckIsLeft
  BY <1>7 DEF Crash
<1>8. ASSUME NEW t \in Targets, BeginRetry(Human, t) PROVE StuckIsLeft
  BY <1>8, SMTT(30) DEF BeginRetry
<1>9. CASE Continue
  <2>1. CASE Retire
    <3>1. CASE UNCHANGED dead
      BY <3>1
    <3>2. CASE BeginRetry(Human, Smallest(todo[Human]))
      BY <3>2, SMTT(30) DEF BeginRetry
    <3> QED
      BY <2>1, <3>1, <3>2 DEF Retire
  <2>2. CASE RetainNext(Human)
    BY <2>2, SMTT(30) DEF RetainNext, RetainMarker, RetainThrows, RetainDone
  <2>3. CASE AppendRetry(Human)
    BY <2>3 DEF AppendRetry
  <2> QED
    BY <1>9, <2>1, <2>2, <2>3 DEF Continue
<1>10. CASE HumanRetry
  BY <1>8, <1>10 DEF HumanRetry
<1>11. CASE BeginApproval \/ Approve \/ Decline \/ KillHuman
  BY <1>11 DEF BeginApproval, Approve, Decline, KillHuman
<1>12. CASE EditPlan \/ HumanEditsTree \/ OrphanExits \/ LockAges
  BY <1>12 DEF EditPlan, HumanEditsTree, OutsideEdit, OrphanExits, LockAges
<1>13. CASE Time
  BY <1>13 DEF Time, PauseEnds, DelayPasses
<1>14. CASE UNCHANGED vars
  BY <1>14 DEF vars
<1> QED
  BY <1>1, <1>2, <1>3, <1>4, <1>5, <1>6, <1>7, <1>9, <1>10, <1>11, <1>12,
     <1>13, <1>14 DEF Next, Watch

-----------------------------------------------------------------------------
(* A checkout with one watcher: while its agent works, the task is the one  *)
(* due.  It holds its lock, it is not done, dead or regressed, and every    *)
(* earlier task is done and sound, unless a retry took a done marker away   *)
(* meanwhile; so for every number of tasks, every failure and every history *)
(* of approvals, retries, edits and kills.                                  *)
THEOREM RunsWhatIsDue ==
  ASSUME Single
  PROVE  Spec => []AgentIsDue
  BY InitInv, InvStep, InitDue, DueStep, DueImplies, PTL DEF Spec

(* A checkout with one watcher: whatever fails, whatever humans do and      *)
(* wherever processes are killed, a task is retried automatically at most   *)
(* gates.autoRetries times, and once more for each kill, between two        *)
(* approvals or manual retries.                                             *)
THEOREM RetriesAreBounded ==
  ASSUME Single
  PROVE  Spec => []SpentIsBounded
  BY InitInv, InvStep, InitDue, DueStep, InitSpend, SpendStep, SpendImplies,
     PTL DEF Spec

(* A checkout with one watcher: a task marked stuck stays so until a        *)
(* command retires its marker.  No cycle retries it, no attempt is left     *)
(* whose end could be written over the marker, and no reaper has a lock of  *)
(* it still to report, for every failure, kill and command before it.       *)
THEOREM StuckStaysStuck ==
  ASSUME Single
  PROVE  Spec => StuckWaitsForHuman
<1>1. Inv /\ DueInv /\ StuckInv /\ [Next]_vars =>
        [\A t \in Tasks :
           dead[t].stuck /\ ~dead'[t].stuck =>
             /\ cur'[Human] = t
             /\ pc'[Human] = "retain"]_vars
  BY LeftStep DEF StuckIsLeft
<1> QED
  BY <1>1, InitInv, InvStep, InitDue, DueStep, InitStuck, StuckStep, PTL
  DEF Spec, StuckWaitsForHuman

(***************************************************************************)
(* Audits and the archive                                                  *)
(***************************************************************************)
\* an audit that noted a regression is followed by nothing
StaleIsAudited == \A w \in Watchers :
  note[w] = "stale" => pc[w] \in {"audit", "guard", "recheck"}

\* since its guard began, an audit has seen the earlier tasks it no longer
\* has to visit
AuditHolds == \A w \in Watchers :
  tampered = {} /\ note[w] # "stale" =>
    /\ pc[w] = "guard" => \A n \in Earlier(cur[w]) \ todo[w] : drift[n] = "same"
    /\ pc[w] \in {"lock", "gates", "agent"} =>
         \A n \in Earlier(cur[w]) : drift[n] = "same"

\* what checkAndArchiveSpec has established by each of its steps
ArchiveHolds == \A w \in Watchers :
  tampered = {} /\ note[w] # "stale" =>
    /\ pc[w] \in ArchivePhases \ {"archive"} =>
         done = Tasks /\ \A t \in Targets : ~IsRegressed(t)
    /\ pc[w] = "recheck" => \A n \in Tasks \ todo[w] : drift[n] = "same"
    /\ pc[w] \in {"verify", "change", "relocate"} =>
         \A n \in Tasks : drift[n] = "same"
    /\ pc[w] = "verify" => Tasks \ todo[w] \subseteq green
    /\ pc[w] \in {"change", "relocate"} => green = Tasks

WholeInv == StaleIsAudited /\ AuditHolds /\ ArchiveHolds /\ ArchivedWhole

(* A regression that an audit noted stays noted until the cycle ends.      *)
LEMMA StaleStep == Single /\ Inv /\ WholeInv /\ [Next]_vars => StaleIsAudited'
<1> SUFFICES ASSUME Single, Inv, WholeInv, [Next]_vars PROVE StaleIsAudited'
  OBVIOUS
<1>0. ControlTyped /\ Control
  BY InvParts
<1> USE <1>0, ActorsAssumption DEF ControlTyped, Control, WholeInv,
    StaleIsAudited, RetryPhases, ArchivePhases, LanePhases, ReapReasons, Actors
<1>1. ASSUME NEW w \in Watchers, Reaping(w) PROVE StaleIsAudited'
  BY <1>1, SMTT(30) DEF Reaping, Start, ReadLock, Reap, MisreadLock,
     PassLock, UnlinkLock, EndReap, Bury, EndBury
<1>2. ASSUME NEW w \in Watchers, Retrying(w) PROVE StaleIsAudited'
  BY <1>2, SMTT(30) DEF Retrying, MarkStuck, AutoRetry, BeginRetry,
     RetainDead, SkipRetry, RetainNext, RetainMarker, RetainThrows,
     RetainDone, AppendRetry, EndRetries,
     RetryNote
<1>3. ASSUME NEW w \in Watchers, Deriving(w) PROVE StaleIsAudited'
  BY <1>3, SMTT(30) DEF Deriving, StartTask, StartArchive, LeaveAlone
<1>4. ASSUME NEW w \in Watchers, Checking(w) PROVE StaleIsAudited'
  BY <1>4, SMTT(30) DEF Checking, AuditClear, Auditing, Visited,
     AuditRecertify, AuditRegress, AuditHalts, EndAudit, AfterAudit
<1>5. ASSUME NEW w \in Watchers, Running(w) PROVE StaleIsAudited'
  BY <1>5, SMTT(30) DEF Running, RefuseSeal, Refuse, RefuseEntry, Begin,
     AcquireLock, LockTaken, RefuseStart, Fail, Spawn, AgentExits,
     JudgeFails, JudgePauses, JudgePasses, Release
<1>6. ASSUME NEW w \in Watchers, Finishing(w) PROVE StaleIsAudited'
  BY <1>6, SMTT(30) DEF Finishing, ArchiveWaits, Recheck, VerifyGreen,
     Visited, VerifyRed, RegressTarget, EndVerify, ChangeGreen, ChangeRed,
     Relocate
<1>7. ASSUME NEW w \in Watchers, Crash(w) PROVE StaleIsAudited'
  BY <1>7, SMTT(30) DEF Crash
<1>8. CASE Continue
  BY <1>8, SMTT(30) DEF Continue, Retire, BeginRetry, RetainDead, RetainNext,
     RetainMarker, RetainThrows,
     RetainDone, AppendRetry
<1>9. CASE BeginApproval \/ Approve \/ Decline
  BY <1>9, SMTT(30) DEF BeginApproval, Approve, Decline
<1>10. CASE HumanRetry
  BY <1>10, SMTT(30) DEF HumanRetry, BeginRetry, RetainDead
<1>11. CASE KillHuman
  BY <1>11, SMTT(30) DEF KillHuman
<1>12. CASE EditPlan \/ HumanEditsTree \/ OrphanExits \/ LockAges
  BY <1>12, SMTT(30) DEF EditPlan, HumanEditsTree, OutsideEdit, TreeEdit,
     Tamper, OrphanExits, LockAges
<1>13. CASE Time
  BY <1>13, SMTT(30) DEF Time, PauseEnds, DelayPasses
<1>14. CASE UNCHANGED vars
  BY <1>14 DEF vars
<1> QED
  BY <1>1, <1>2, <1>3, <1>4, <1>5, <1>6, <1>7, <1>8, <1>9, <1>10, <1>11,
     <1>12, <1>13, <1>14 DEF Next, Watch

(* Nobody edits an earlier task between its audit and the agent unseen.    *)
LEMMA AuditHoldsStep ==
  Single /\ Inv /\ DueInv /\ WholeInv /\ [Next]_vars => AuditHolds'
<1> SUFFICES ASSUME Single, Inv, DueInv, WholeInv, [Next]_vars
             PROVE  AuditHolds'
  OBVIOUS
<1>0. ControlTyped /\ Control /\ DoneTyped /\ LoopsTyped /\ DriftTyped
  BY InvParts
<1> USE <1>0, ActorsAssumption, SmallestIsMember, TargetFacts DEF ControlTyped,
    Control, DoneTyped, LoopsTyped, DriftTyped, WholeInv, AuditHolds, Earlier,
    StaleIsAudited, Single, LanePhases, RetryPhases, ArchivePhases, Actors,
    Relying, Tamper
<1>1. ASSUME NEW w \in Watchers, Reaping(w) PROVE AuditHolds'
  BY <1>1, SMTT(30) DEF Reaping, Start, ReadLock, Reap, MisreadLock,
     PassLock, UnlinkLock, EndReap, Bury, EndBury
<1>2. ASSUME NEW w \in Watchers, Retrying(w) PROVE AuditHolds'
  BY <1>2, SMTT(30) DEF Retrying, MarkStuck, AutoRetry, BeginRetry,
     RetainDead, SkipRetry, RetainNext, RetainMarker, RetainThrows,
     RetainDone, AppendRetry, EndRetries
<1>3. ASSUME NEW w \in Watchers, Deriving(w) PROVE AuditHolds'
  BY <1>3, SMTT(30) DEF Deriving, StartTask, StartArchive, LeaveAlone
<1>4. ASSUME NEW w \in Watchers, Checking(w) PROVE AuditHolds'
  BY <1>4, SMTT(30) DEF Checking, AuditClear, Auditing, Visited,
     AuditRecertify, AuditRegress, AuditHalts, EndAudit, AfterAudit
<1>5. ASSUME NEW w \in Watchers, Running(w) PROVE AuditHolds'
  BY <1>5, SMTT(30) DEF Running, RefuseSeal, Refuse, RefuseEntry, Begin,
     AcquireLock, LockTaken, RefuseStart, Fail, Spawn, AgentExits,
     JudgeFails, JudgePauses, JudgePasses, Release
<1>6. ASSUME NEW w \in Watchers, Finishing(w) PROVE AuditHolds'
  BY <1>6, SMTT(30) DEF Finishing, ArchiveWaits, Recheck, VerifyGreen,
     Visited, VerifyRed, RegressTarget, EndVerify, ChangeGreen, ChangeRed,
     Relocate
<1>7. ASSUME NEW w \in Watchers, Crash(w) PROVE AuditHolds'
  BY <1>7, SMTT(30) DEF Crash
<1>8. CASE Continue
  BY <1>8, SMTT(30) DEF Continue, Retire, BeginRetry, RetainDead, RetainNext,
     RetainMarker, RetainThrows,
     RetainDone, AppendRetry
<1>9. CASE BeginApproval \/ Approve \/ Decline
  BY <1>9, SMTT(30) DEF BeginApproval, Approve, Decline
<1>10. CASE HumanRetry
  BY <1>10, SMTT(30) DEF HumanRetry, BeginRetry, RetainDead
<1>11. CASE KillHuman
  BY <1>11, SMTT(30) DEF KillHuman
<1>12. CASE EditPlan \/ HumanEditsTree \/ OrphanExits \/ LockAges
  <2>1. CASE EditPlan \/ LockAges
    BY <2>1 DEF EditPlan, LockAges
  <2>2. CASE HumanEditsTree \/ OrphanExits
    <3>1. /\ UNCHANGED <<pc, note>>
          /\ tampered' = IF Relying THEN tampered \cup {"tree"} ELSE tampered
      BY <2>2 DEF HumanEditsTree, OrphanExits, OutsideEdit
    <3>2. CASE Relying
      BY <3>1, <3>2
    <3>3. CASE ~Relying
      BY <3>1, <3>3
    <3> QED
      BY <3>2, <3>3
  <2> QED
    BY <1>12, <2>1, <2>2
<1>13. CASE Time
  BY <1>13, SMTT(30) DEF Time, PauseEnds, DelayPasses
<1>14. CASE UNCHANGED vars
  BY <1>14 DEF vars
<1> QED
  BY <1>1, <1>2, <1>3, <1>4, <1>5, <1>6, <1>7, <1>8, <1>9, <1>10, <1>11,
     <1>12, <1>13, <1>14 DEF Next, Watch

(* Nobody undoes what an archive has checked unseen.                       *)
LEMMA ArchiveHoldsStep ==
  Single /\ Inv /\ DueInv /\ WholeInv /\ [Next]_vars => ArchiveHolds'
<1> SUFFICES ASSUME Single, Inv, DueInv, WholeInv, [Next]_vars
             PROVE  ArchiveHolds'
  OBVIOUS
<1>0. ControlTyped /\ Control /\ DoneTyped /\ LoopsTyped /\ DriftTyped
      /\ RegressTyped /\ GreenTyped
  BY InvParts
<1> USE <1>0, ActorsAssumption, SmallestIsMember, TargetFacts DEF ControlTyped,
    Control, DoneTyped, LoopsTyped, DriftTyped, RegressTyped, GreenTyped,
    WholeInv, ArchiveHolds,
    StaleIsAudited, Single, LanePhases, RetryPhases, ArchivePhases, Actors,
    Relying, Tamper, IsRegressed
<1>1. ASSUME NEW w \in Watchers, Reaping(w) PROVE ArchiveHolds'
  BY <1>1, SMTT(30) DEF Reaping, Start, ReadLock, Reap, MisreadLock,
     PassLock, UnlinkLock, EndReap, Bury, EndBury
<1>2. ASSUME NEW w \in Watchers, Retrying(w) PROVE ArchiveHolds'
  BY <1>2, SMTT(30) DEF Retrying, MarkStuck, AutoRetry, BeginRetry,
     RetainDead, SkipRetry, RetainNext, RetainMarker, RetainThrows,
     RetainDone, AppendRetry, EndRetries
<1>3. ASSUME NEW w \in Watchers, Deriving(w) PROVE ArchiveHolds'
  BY <1>3, SMTT(30) DEF Deriving, StartTask, StartArchive, LeaveAlone
<1>4. ASSUME NEW w \in Watchers, Checking(w) PROVE ArchiveHolds'
  BY <1>4, SMTT(30) DEF Checking, AuditClear, Auditing, Visited,
     AuditRecertify, AuditRegress, AuditHalts, EndAudit, AfterAudit
<1>5. ASSUME NEW w \in Watchers, Running(w) PROVE ArchiveHolds'
  BY <1>5, SMTT(30) DEF Running, RefuseSeal, Refuse, RefuseEntry, Begin,
     AcquireLock, LockTaken, RefuseStart, Fail, Spawn, AgentExits,
     JudgeFails, JudgePauses, JudgePasses, Release
<1>6. ASSUME NEW w \in Watchers, Finishing(w) PROVE ArchiveHolds'
  <2>1. CASE Recheck(w)
    <3>1. done = Tasks /\ \A t \in Targets : ~IsRegressed(t)
      BY <2>1, DoneIsAll DEF Recheck, SpecStatus, RegressedTasks, Targets
    <3> QED
      BY <2>1, <3>1 DEF Recheck
  <2>2. CASE VerifyGreen(w)
    BY <2>2, SMTT(30) DEF VerifyGreen, Visited
  <2>3. CASE EndVerify(w)
    <3>1. /\ todo[w] = {} /\ pc[w] = "verify" /\ pc'[w] = "change"
          /\ UNCHANGED <<done, regressed, drift, green, tampered, note>>
      BY <2>3 DEF EndVerify
    <3>2. ASSUME tampered = {} PROVE green = Tasks
      <4>1. note[w] # "stale"
        BY <3>1
      <4>2. Tasks \ todo[w] \subseteq green
        BY <3>1, <3>2, <4>1
      <4> QED
        BY <3>1, <4>2, Zenon DEF GreenTyped
    <3> QED
      BY <3>1, <3>2
  <2>4. CASE ChangeGreen(w)
    BY <2>4 DEF ChangeGreen
  <2>5. CASE ArchiveWaits(w) \/ VerifyRed(w) \/ ChangeRed(w) \/ Relocate(w)
    <3>1. pc'[w] = "down"
      BY <2>5 DEF ArchiveWaits, VerifyRed, RegressTarget, ChangeRed, Relocate
    <3> QED
      BY <3>1
  <2> QED
    BY <1>6, <2>1, <2>2, <2>3, <2>4, <2>5 DEF Finishing
<1>7. ASSUME NEW w \in Watchers, Crash(w) PROVE ArchiveHolds'
  BY <1>7, SMTT(30) DEF Crash
<1>8. CASE Continue
  <2>1. CASE Retire
    BY <2>1, SMTT(30) DEF Retire, BeginRetry, RetainDead
  <2>2. CASE RetainMarker(Human)
    <3>1. CASE UNCHANGED <<done, drift, tampered>>
      BY <2>2, <3>1, SMTT(30) DEF RetainMarker
    <3>2. CASE RetainDone(cur[Human])
      <4>1. CASE cur[Human] \in done
        <5>1. ~Relying \/ tampered' # {}
          BY <3>2, <4>1 DEF RetainDone, Tamper
        <5> QED
          BY <2>2, <5>1 DEF RetainMarker, Relying
      <4>2. CASE cur[Human] \notin done
        <5>1. done' = done /\ tampered' = tampered
          BY <3>2, <4>2 DEF RetainDone
        <5>2. \A n \in Tasks : drift[n] = "same" => drift'[n] = "same"
          BY <3>2 DEF RetainDone
        <5> QED
          BY <2>2, <5>1, <5>2 DEF RetainMarker
      <4> QED
        BY <4>1, <4>2
    <3> QED
      BY <2>2, <3>1, <3>2 DEF RetainMarker
  <2>3. CASE RetainThrows(Human) \/ AppendRetry(Human)
    BY <2>3, SMTT(30) DEF RetainThrows, AppendRetry
  <2> QED
    BY <1>8, <2>1, <2>2, <2>3 DEF Continue, RetainNext
<1>9. CASE BeginApproval \/ Approve \/ Decline
  BY <1>9, SMTT(30) DEF BeginApproval, Approve, Decline
<1>10. CASE HumanRetry
  BY <1>10, SMTT(30) DEF HumanRetry, BeginRetry, RetainDead
<1>11. CASE KillHuman
  BY <1>11, SMTT(30) DEF KillHuman
<1>12. CASE EditPlan \/ HumanEditsTree \/ OrphanExits \/ LockAges
  <2>1. CASE EditPlan \/ LockAges
    BY <2>1 DEF EditPlan, LockAges
  <2>2. CASE HumanEditsTree \/ OrphanExits
    <3>1. /\ UNCHANGED <<pc, note>>
          /\ tampered' = IF Relying THEN tampered \cup {"tree"} ELSE tampered
      BY <2>2 DEF HumanEditsTree, OrphanExits, OutsideEdit
    <3>2. CASE Relying
      BY <3>1, <3>2
    <3>3. CASE ~Relying
      BY <3>1, <3>3
    <3> QED
      BY <3>2, <3>3
  <2> QED
    BY <1>12, <2>1, <2>2
<1>13. CASE Time
  BY <1>13, SMTT(30) DEF Time, PauseEnds, DelayPasses
<1>14. CASE UNCHANGED vars
  BY <1>14 DEF vars
<1> QED
  BY <1>1, <1>2, <1>3, <1>4, <1>5, <1>6, <1>7, <1>8, <1>9, <1>10, <1>11,
     <1>12, <1>13, <1>14 DEF Next, Watch

(* Only the end of an archive moves the folder.                            *)
LEMMA OnlyRelocate ==
  ASSUME [Next]_vars, \A w \in Watchers : ~Relocate(w)
  PROVE  archived' = archived
<1>1. ASSUME NEW w \in Watchers, Reaping(w) PROVE archived' = archived
  BY <1>1, SMTT(30) DEF Reaping, Start, ReadLock, Reap, MisreadLock,
     PassLock, UnlinkLock, EndReap, Bury, EndBury
<1>2. ASSUME NEW w \in Watchers, Retrying(w) PROVE archived' = archived
  BY <1>2, SMTT(30) DEF Retrying, MarkStuck, AutoRetry, BeginRetry,
     RetainDead, SkipRetry, RetainNext, RetainMarker, RetainThrows,
     RetainDone, AppendRetry, EndRetries
<1>3. ASSUME NEW w \in Watchers, Deriving(w) PROVE archived' = archived
  BY <1>3, SMTT(30) DEF Deriving, StartTask, StartArchive, LeaveAlone
<1>4. ASSUME NEW w \in Watchers, Checking(w) PROVE archived' = archived
  BY <1>4, SMTT(30) DEF Checking, AuditClear, Auditing, Visited,
     AuditRecertify, AuditRegress, AuditHalts, EndAudit, AfterAudit
<1>5. ASSUME NEW w \in Watchers, Running(w) PROVE archived' = archived
  BY <1>5, SMTT(30) DEF Running, RefuseSeal, Refuse, RefuseEntry, Begin,
     AcquireLock, LockTaken, RefuseStart, Fail, Spawn, AgentExits,
     JudgeFails, JudgePauses, JudgePasses, Release
<1>6. ASSUME NEW w \in Watchers, Finishing(w) PROVE archived' = archived
  BY <1>6, SMTT(30) DEF Finishing, ArchiveWaits, Recheck, VerifyGreen,
     Visited, VerifyRed, RegressTarget, EndVerify, ChangeGreen, ChangeRed
<1>7. ASSUME NEW w \in Watchers, Crash(w) PROVE archived' = archived
  BY <1>7, SMTT(30) DEF Crash
<1>8. CASE Continue
  BY <1>8, SMTT(30) DEF Continue, Retire, BeginRetry, RetainDead, RetainNext,
     RetainMarker, RetainThrows,
     RetainDone, AppendRetry
<1>9. CASE BeginApproval \/ Approve \/ Decline
  BY <1>9, SMTT(30) DEF BeginApproval, Approve, Decline
<1>10. CASE HumanRetry
  BY <1>10, SMTT(30) DEF HumanRetry, BeginRetry, RetainDead
<1>11. CASE KillHuman
  BY <1>11, SMTT(30) DEF KillHuman
<1>12. CASE EditPlan \/ HumanEditsTree \/ OrphanExits \/ LockAges
  BY <1>12, SMTT(30) DEF EditPlan, HumanEditsTree, OutsideEdit, TreeEdit,
     Tamper, OrphanExits, LockAges
<1>13. CASE Time
  BY <1>13, SMTT(30) DEF Time, PauseEnds, DelayPasses
<1>14. CASE UNCHANGED vars
  BY <1>14 DEF vars
<1> QED
  BY <1>1, <1>2, <1>3, <1>4, <1>5, <1>6, <1>7, <1>8, <1>9, <1>10, <1>11,
     <1>12, <1>13, <1>14 DEF Next, Watch

(* An archived change is nobody's any more.                                *)
LEMMA WholeStep == Single /\ Inv /\ WholeInv /\ [Next]_vars => ArchivedWhole'
<1> SUFFICES ASSUME Single, Inv, WholeInv, [Next]_vars PROVE ArchivedWhole'
  OBVIOUS
<1>0. ControlTyped /\ Control
  BY InvParts
<1>1. ASSUME archived PROVE UNCHANGED vars
  <2> USE <1>1
  <2>1. ASSUME NEW w \in Watchers PROVE ~Watch(w) /\ ~Crash(w)
    BY Zenon DEF Watch, Reaping, Start, ReadLock, MisreadLock, PassLock,
       UnlinkLock, EndReap, Bury, EndBury, Retrying, MarkStuck, AutoRetry,
       SkipRetry, RetainNext, RetainMarker, RetainThrows, AppendRetry,
       EndRetries, Deriving, StartTask,
       StartArchive, LeaveAlone, Checking, Auditing, AuditClear,
       AuditRecertify, AuditRegress, AuditHalts, EndAudit, Running,
       RefuseSeal, RefuseEntry, Begin, AcquireLock, LockTaken, RefuseStart,
       Spawn, AgentExits, JudgeFails, JudgePauses, JudgePasses, Release,
       Finishing, ArchiveWaits, Recheck, VerifyGreen, VerifyRed, EndVerify,
       ChangeGreen, ChangeRed, Relocate, Crash
  <2>2. ~(Continue \/ BeginApproval \/ Approve \/ Decline \/ HumanRetry
          \/ KillHuman \/ EditPlan \/ HumanEditsTree \/ OrphanExits
          \/ LockAges \/ Time)
    BY Zenon DEF Continue, Retire, RetainNext, RetainMarker, RetainThrows,
       AppendRetry, BeginApproval,
       Approve, Decline, HumanRetry, KillHuman, EditPlan, HumanEditsTree,
       OrphanExits, LockAges, Time, PauseEnds, DelayPasses
  <2> QED
    BY <2>1, <2>2 DEF Next
<1>2. CASE archived
  BY <1>1, <1>2 DEF vars, WholeInv, ArchivedWhole, IsRegressed
<1>3. CASE archived' /\ ~archived
  <2>1. PICK w \in Watchers : Relocate(w)
    BY <1>3, OnlyRelocate
  <2>2. UNCHANGED <<done, regressed, green, drift, tampered>>
        /\ pc[w] = "relocate"
    BY <2>1 DEF Relocate
  <2>3. note[w] # "stale"
    BY <2>2 DEF WholeInv, StaleIsAudited
  <2> QED
    BY <2>2, <2>3 DEF WholeInv, ArchiveHolds, ArchivePhases, ArchivedWhole,
       IsRegressed
<1>4. CASE ~archived'
  BY <1>4 DEF ArchivedWhole
<1> QED
  BY <1>2, <1>3, <1>4

(* Nothing is archived and nobody works at first. *)
LEMMA InitWhole == Init => WholeInv
  BY ActorsAssumption
  DEF Init, MarkersInit, WholeInv, StaleIsAudited, AuditHolds, ArchiveHolds,
      ArchivedWhole, ArchivePhases, Actors

(* No step leaves WholeInv. *)
LEMMA WholeInvStep ==
  Single /\ Inv /\ DueInv /\ WholeInv /\ [Next]_vars => WholeInv'
  BY StaleStep, AuditHoldsStep, ArchiveHoldsStep, WholeStep DEF WholeInv

(* A checkout with one watcher: an agent starts on a tree whose finished   *)
(* tasks are as they were recorded or recertified, unless somebody edited  *)
(* the tree or took a done marker since the audit.                         *)
THEOREM StartsOnAudited ==
  ASSUME Single
  PROVE  Spec => []AuditedBeforeAgent
<1>1. WholeInv => AuditedBeforeAgent
  BY DEF WholeInv, StaleIsAudited, AuditHolds, AuditedBeforeAgent
<1> QED
  BY <1>1, InitInv, InvStep, InitDue, DueStep, InitWhole, WholeInvStep, PTL
  DEF Spec

(* A checkout with one watcher: what is archived is whole.  Every task is   *)
(* done, none is regressed, every verify is green on the tree that is       *)
(* archived and every scope is as recorded, unless somebody interfered.     *)
THEOREM ArchivesTheWhole ==
  ASSUME Single
  PROVE  Spec => []ArchivedWhole
<1>1. WholeInv => ArchivedWhole
  BY DEF WholeInv
<1> QED
  BY <1>1, InitInv, InvStep, InitDue, DueStep, InitWhole, WholeInvStep, PTL
  DEF Spec

(***************************************************************************)
(* The lifecycle of the tasks                                              *)
(***************************************************************************)
ClosingPhases == ArchivePhases \ {"archive"}

\* only a finished task's scope can have moved
DriftIsDone == \A t \in Tasks \ done : drift[t] = "same"

\* once a cycle has reaped, the only lock is the one of its own lane
OneLock == \A w \in Watchers :
  pc[w] \in {"derive"} \cup LanePhases \cup ArchivePhases =>
    \A t \in Tasks : lock[t] # Free => InTask(w) /\ t = cur[w]

\* a lane or an archive goes on only while nothing is regressed
NoneRegressed == \A w \in Watchers :
  pc[w] \in BeforeEnd \cup ClosingPhases /\ note[w] # "stale" =>
    \A t \in Tasks : ~IsRegressed(t)

\* until a retry takes a completion, a lane has no dead task beside it and an
\* archive none that is not done
NoneUndone == \A w \in Watchers : "done" \notin tampered =>
  /\ pc[w] \in BeforeEnd => \A t \in Tasks : IsDead(t) => t \in done
  /\ pc[w] \in ClosingPhases => Tasks \subseteq done

LifeInv == DriftIsDone /\ OneLock /\ NoneRegressed /\ NoneUndone

(* A change that a lane or an archive takes up has nothing regressed, and no *)
(* dead task that is not done.                                               *)
LEMMA LooksSound ==
  ASSUME SpecStatus \in {"pending", "done"}
  PROVE  \A t \in Tasks : ~IsRegressed(t) /\ (IsDead(t) => t \in done)
<1>1. RegressedTasks = {} /\ DeadTasks = {}
  BY DEF SpecStatus
<1> QED
  BY <1>1 DEF RegressedTasks, DeadTasks

(* A task that loses its done marker loses its drift with it.              *)
LEMMA DriftIsDoneStep ==
  Single /\ Inv /\ DueInv /\ StuckInv /\ WholeInv /\ LifeInv /\ [Next]_vars
    => DriftIsDone'
<1> SUFFICES ASSUME Single, Inv, DueInv, StuckInv, WholeInv, LifeInv,
                    [Next]_vars
             PROVE  DriftIsDone'
  OBVIOUS
<1>0. ControlTyped /\ Control /\ DoneTyped /\ DriftTyped
  BY InvParts
<1> USE <1>0, ActorsAssumption, TargetFacts DEF ControlTyped, Control,
DoneTyped, DriftTyped,
    LifeInv, DriftIsDone, DueInv, CurIsOpen, Measured, Unaccounted, Actors
<1>1. ASSUME NEW w \in Watchers, Reaping(w) PROVE DriftIsDone'
  BY <1>1, SMTT(30) DEF Reaping, Start, ReadLock, Reap, MisreadLock,
     PassLock, UnlinkLock, EndReap, Bury, EndBury
<1>2. ASSUME NEW w \in Watchers, Retrying(w) PROVE DriftIsDone'
  BY <1>2, SMTT(30) DEF Retrying, MarkStuck, AutoRetry, BeginRetry,
     RetainDead, SkipRetry, RetainNext, RetainMarker, RetainThrows,
     RetainDone, AppendRetry, EndRetries
<1>3. ASSUME NEW w \in Watchers, Deriving(w) PROVE DriftIsDone'
  BY <1>3, SMTT(30) DEF Deriving, StartTask, StartArchive, LeaveAlone
<1>4. ASSUME NEW w \in Watchers, Checking(w) PROVE DriftIsDone'
  BY <1>4, SMTT(30) DEF Checking, AuditClear, Auditing, Visited,
     AuditRecertify, AuditRegress, AuditHalts, EndAudit, AfterAudit
<1>5. ASSUME NEW w \in Watchers, Running(w) PROVE DriftIsDone'
  <2>1. CASE RefuseSeal(w) \/ RefuseEntry(w) \/ Begin(w) \/ AcquireLock(w) \/
             LockTaken(w) \/ RefuseStart(w) \/ Spawn(w) \/ Release(w)
    BY <2>1 DEF RefuseSeal, Refuse, RefuseEntry, Begin, AcquireLock,
       LockTaken, RefuseStart, Fail, Spawn, Release
  <2>2. CASE AgentExits(w)
    BY <2>2 DEF AgentExits, TreeEdit
  <2>3. CASE JudgeFails(w) \/ JudgePauses(w)
    BY <2>3 DEF JudgeFails, Fail, JudgePauses
  <2>4. CASE JudgePasses(w)
    BY <2>4 DEF JudgePasses
  <2> QED
    BY <1>5, <2>1, <2>2, <2>3, <2>4 DEF Running
<1>6. ASSUME NEW w \in Watchers, Finishing(w) PROVE DriftIsDone'
  BY <1>6, SMTT(30) DEF Finishing, ArchiveWaits, Recheck, VerifyGreen,
     Visited, VerifyRed, RegressTarget, EndVerify, ChangeGreen, ChangeRed,
     Relocate
<1>7. ASSUME NEW w \in Watchers, Crash(w) PROVE DriftIsDone'
  BY <1>7, SMTT(30) DEF Crash
<1>8. CASE Continue
  BY <1>8, SMTT(30) DEF Continue, Retire, BeginRetry, RetainDead, RetainNext,
     RetainMarker, RetainThrows, RetainDone, AppendRetry
<1>9. CASE BeginApproval \/ Approve \/ Decline
  BY <1>9, SMTT(30) DEF BeginApproval, Approve, Decline
<1>10. CASE HumanRetry
  BY <1>10, SMTT(30) DEF HumanRetry, BeginRetry, RetainDead
<1>11. CASE KillHuman
  BY <1>11, SMTT(30) DEF KillHuman
<1>12. CASE EditPlan \/ HumanEditsTree \/ OrphanExits \/ LockAges
  BY <1>12, SMTT(30) DEF EditPlan, HumanEditsTree, OutsideEdit, TreeEdit,
     Tamper, OrphanExits, LockAges
<1>13. CASE Time
  BY <1>13, SMTT(30) DEF Time, PauseEnds, DelayPasses
<1>14. CASE UNCHANGED vars
  BY <1>14 DEF vars
<1> QED
  BY <1>1, <1>2, <1>3, <1>4, <1>5, <1>6, <1>7, <1>8, <1>9, <1>10, <1>11,
     <1>12, <1>13, <1>14 DEF Next, Watch

(* A lane takes its lock when there is no other.                           *)
LEMMA OneLockStep ==
  Single /\ Inv /\ DueInv /\ StuckInv /\ WholeInv /\ LifeInv /\ [Next]_vars
    => OneLock'
<1> SUFFICES ASSUME Single, Inv, DueInv, StuckInv, WholeInv, LifeInv,
                    [Next]_vars
             PROVE  OneLock'
  OBVIOUS
<1>0. ControlTyped /\ Control /\ LocksTyped
  BY InvParts
<1> USE <1>0, ActorsAssumption, TargetFacts DEF ControlTyped, Control,
LocksTyped,
    LifeInv, OneLock, StuckInv, LocksAreReaped, Single, InTask, LanePhases,
    RetryPhases, ArchivePhases, Actors
<1>1. ASSUME NEW w \in Watchers, Reaping(w) PROVE OneLock'
  BY <1>1, SMTT(30) DEF Reaping, Start, ReadLock, Reap, MisreadLock,
     PassLock, UnlinkLock, EndReap, Bury, EndBury
<1>2. ASSUME NEW w \in Watchers, Retrying(w) PROVE OneLock'
  BY <1>2, SMTT(30) DEF Retrying, MarkStuck, AutoRetry, BeginRetry,
     RetainDead, SkipRetry, RetainNext, RetainMarker, RetainThrows,
     RetainDone, AppendRetry, EndRetries
<1>3. ASSUME NEW w \in Watchers, Deriving(w) PROVE OneLock'
  BY <1>3, SMTT(30) DEF Deriving, StartTask, StartArchive, LeaveAlone
<1>4. ASSUME NEW w \in Watchers, Checking(w) PROVE OneLock'
  BY <1>4, SMTT(30) DEF Checking, AuditClear, Auditing, Visited,
     AuditRecertify, AuditRegress, AuditHalts, EndAudit, AfterAudit
<1>5. ASSUME NEW w \in Watchers, Running(w) PROVE OneLock'
  BY <1>5, SMTT(30) DEF Running, RefuseSeal, Refuse, RefuseEntry, Begin,
     AcquireLock, LockTaken, RefuseStart, Fail, Spawn, AgentExits,
     JudgeFails, JudgePauses, JudgePasses, Release
<1>6. ASSUME NEW w \in Watchers, Finishing(w) PROVE OneLock'
  BY <1>6, SMTT(30) DEF Finishing, ArchiveWaits, Recheck, VerifyGreen,
     Visited, VerifyRed, RegressTarget, EndVerify, ChangeGreen, ChangeRed,
     Relocate
<1>7. ASSUME NEW w \in Watchers, Crash(w) PROVE OneLock'
  BY <1>7, SMTT(30) DEF Crash
<1>8. CASE Continue
  BY <1>8, SMTT(30) DEF Continue, Retire, BeginRetry, RetainDead, RetainNext,
     RetainMarker, RetainThrows, RetainDone, AppendRetry
<1>9. CASE BeginApproval \/ Approve \/ Decline
  BY <1>9, SMTT(30) DEF BeginApproval, Approve, Decline
<1>10. CASE HumanRetry
  BY <1>10, SMTT(30) DEF HumanRetry, BeginRetry, RetainDead
<1>11. CASE KillHuman
  BY <1>11, SMTT(30) DEF KillHuman
<1>12. CASE EditPlan \/ HumanEditsTree \/ OrphanExits \/ LockAges
  BY <1>12, SMTT(30) DEF EditPlan, HumanEditsTree, OutsideEdit, TreeEdit,
     Tamper, OrphanExits, LockAges
<1>13. CASE Time
  BY <1>13, SMTT(30) DEF Time, PauseEnds, DelayPasses
<1>14. CASE UNCHANGED vars
  BY <1>14 DEF vars
<1> QED
  BY <1>1, <1>2, <1>3, <1>4, <1>5, <1>6, <1>7, <1>8, <1>9, <1>10, <1>11,
     <1>12, <1>13, <1>14 DEF Next, Watch

(* What regresses a task ends the lane and the archive it is found in.     *)
LEMMA NoneRegressedStep ==
  Single /\ Inv /\ DueInv /\ StuckInv /\ WholeInv /\ LifeInv /\ [Next]_vars
    => NoneRegressed'
<1> SUFFICES ASSUME Single, Inv, DueInv, StuckInv, WholeInv, LifeInv,
                    [Next]_vars
             PROVE  NoneRegressed'
  OBVIOUS
<1>0. ControlTyped /\ Control /\ RegressTyped /\ LoopsTyped
  BY InvParts
<1> USE <1>0, ActorsAssumption, TargetFacts DEF ControlTyped, Control,
RegressTyped,
    LoopsTyped, LifeInv, NoneRegressed, WholeInv, StaleIsAudited, Single,
    IsRegressed, BeforeEnd, ClosingPhases, LanePhases, RetryPhases,
    ArchivePhases, Actors
<1>1. ASSUME NEW w \in Watchers, Reaping(w) PROVE NoneRegressed'
  BY <1>1, SMTT(30) DEF Reaping, Start, ReadLock, Reap, MisreadLock,
     PassLock, UnlinkLock, EndReap, Bury, EndBury
<1>2. ASSUME NEW w \in Watchers, Retrying(w) PROVE NoneRegressed'
  BY <1>2, SMTT(30) DEF Retrying, MarkStuck, AutoRetry, BeginRetry,
     RetainDead, SkipRetry, RetainNext, RetainMarker, RetainThrows,
     RetainDone, AppendRetry, EndRetries
<1>3. ASSUME NEW w \in Watchers, Deriving(w) PROVE NoneRegressed'
  <2>1. CASE StartTask(w)
    <3>1. \A t \in Tasks : ~IsRegressed(t) /\ (IsDead(t) => t \in done)
      BY <2>1, LooksSound DEF StartTask
    <3> QED
      BY <2>1, <3>1, SMTT(30) DEF StartTask
  <2>2. CASE StartArchive(w) \/ LeaveAlone(w)
    BY <2>2, SMTT(30) DEF StartArchive, LeaveAlone
  <2> QED
    BY <1>3, <2>1, <2>2 DEF Deriving
<1>4. ASSUME NEW w \in Watchers, Checking(w) PROVE NoneRegressed'
  BY <1>4, SMTT(30) DEF Checking, AuditClear, Auditing, Visited,
     AuditRecertify, AuditRegress, AuditHalts, EndAudit, AfterAudit
<1>5. ASSUME NEW w \in Watchers, Running(w) PROVE NoneRegressed'
  BY <1>5, SMTT(30) DEF Running, RefuseSeal, Refuse, RefuseEntry, Begin,
     AcquireLock, LockTaken, RefuseStart, Fail, Spawn, AgentExits,
     JudgeFails, JudgePauses, JudgePasses, Release
<1>6. ASSUME NEW w \in Watchers, Finishing(w) PROVE NoneRegressed'
  <2>1. CASE Recheck(w)
    <3>1. \A t \in Tasks : ~IsRegressed(t)
      BY <2>1, LooksSound DEF Recheck
    <3> QED
      BY <2>1, <3>1, SMTT(30) DEF Recheck
  <2>2. CASE ~Recheck(w)
    BY <1>6, <2>2, SMTT(30) DEF Finishing, ArchiveWaits, VerifyGreen, Visited,
       VerifyRed, RegressTarget, EndVerify, ChangeGreen, ChangeRed, Relocate
  <2> QED
    BY <2>1, <2>2
<1>7. ASSUME NEW w \in Watchers, Crash(w) PROVE NoneRegressed'
  BY <1>7, SMTT(30) DEF Crash
<1>8. CASE Continue
  BY <1>8, SMTT(30) DEF Continue, Retire, BeginRetry, RetainDead, RetainNext,
     RetainMarker, RetainThrows, RetainDone, AppendRetry
<1>9. CASE BeginApproval \/ Approve \/ Decline
  BY <1>9, SMTT(30) DEF BeginApproval, Approve, Decline
<1>10. CASE HumanRetry
  BY <1>10, SMTT(30) DEF HumanRetry, BeginRetry, RetainDead
<1>11. CASE KillHuman
  BY <1>11, SMTT(30) DEF KillHuman
<1>12. CASE EditPlan \/ HumanEditsTree \/ OrphanExits \/ LockAges
  BY <1>12, SMTT(30) DEF EditPlan, HumanEditsTree, OutsideEdit, TreeEdit,
     Tamper, OrphanExits, LockAges
<1>13. CASE Time
  BY <1>13, SMTT(30) DEF Time, PauseEnds, DelayPasses
<1>14. CASE UNCHANGED vars
  BY <1>14 DEF vars
<1> QED
  BY <1>1, <1>2, <1>3, <1>4, <1>5, <1>6, <1>7, <1>8, <1>9, <1>10, <1>11,
     <1>12, <1>13, <1>14 DEF Next, Watch

(* Only a retry takes a completion away.                                   *)
LEMMA NoneUndoneStep ==
  Single /\ Inv /\ DueInv /\ StuckInv /\ WholeInv /\ LifeInv /\ [Next]_vars
    => NoneUndone'
<1> SUFFICES ASSUME Single, Inv, DueInv, StuckInv, WholeInv, LifeInv,
                    [Next]_vars
             PROVE  NoneUndone'
  OBVIOUS
<1>0. ControlTyped /\ Control /\ DoneTyped /\ DeadTyped
  BY InvParts
<1> USE <1>0, ActorsAssumption, TargetFacts DEF ControlTyped, Control,
DoneTyped, DeadTyped,
    LifeInv, NoneUndone, Single, IsDead, BeforeEnd, ClosingPhases, LanePhases,
    RetryPhases, ArchivePhases, Relying, Tamper, Actors
<1>1. ASSUME NEW w \in Watchers, Reaping(w) PROVE NoneUndone'
  BY <1>1, SMTT(30) DEF Reaping, Start, ReadLock, Reap, MisreadLock,
     PassLock, UnlinkLock, EndReap, Bury, EndBury
<1>2. ASSUME NEW w \in Watchers, Retrying(w) PROVE NoneUndone'
  BY <1>2, SMTT(30) DEF Retrying, MarkStuck, AutoRetry, BeginRetry,
     RetainDead, SkipRetry, RetainNext, RetainMarker, RetainThrows,
     RetainDone, AppendRetry, EndRetries
<1>3. ASSUME NEW w \in Watchers, Deriving(w) PROVE NoneUndone'
  <2>1. CASE StartTask(w)
    <3>1. \A t \in Tasks : ~IsRegressed(t) /\ (IsDead(t) => t \in done)
      BY <2>1, LooksSound DEF StartTask
    <3> QED
      BY <2>1, <3>1, SMTT(30) DEF StartTask
  <2>2. CASE StartArchive(w) \/ LeaveAlone(w)
    BY <2>2, SMTT(30) DEF StartArchive, LeaveAlone
  <2> QED
    BY <1>3, <2>1, <2>2 DEF Deriving
<1>4. ASSUME NEW w \in Watchers, Checking(w) PROVE NoneUndone'
  BY <1>4, SMTT(30) DEF Checking, AuditClear, Auditing, Visited,
     AuditRecertify, AuditRegress, AuditHalts, EndAudit, AfterAudit
<1>5. ASSUME NEW w \in Watchers, Running(w) PROVE NoneUndone'
  BY <1>5, SMTT(30) DEF Running, RefuseSeal, Refuse, RefuseEntry, Begin,
     AcquireLock, LockTaken, RefuseStart, Fail, Spawn, AgentExits,
     JudgeFails, JudgePauses, JudgePasses, Release
<1>6. ASSUME NEW w \in Watchers, Finishing(w) PROVE NoneUndone'
  <2>1. CASE Recheck(w)
    <3>1. \A t \in Tasks : t \in done /\ ~IsRegressed(t)
      BY <2>1, LooksSound, DoneIsAll DEF Recheck
    <3> QED
      BY <2>1, <3>1, SMTT(30) DEF Recheck
  <2>2. CASE ~Recheck(w)
    BY <1>6, <2>2, SMTT(30) DEF Finishing, ArchiveWaits, VerifyGreen, Visited,
       VerifyRed, RegressTarget, EndVerify, ChangeGreen, ChangeRed, Relocate
  <2> QED
    BY <2>1, <2>2
<1>7. ASSUME NEW w \in Watchers, Crash(w) PROVE NoneUndone'
  BY <1>7, SMTT(30) DEF Crash
<1>8. CASE Continue
  BY <1>8, SMTT(30) DEF Continue, Retire, BeginRetry, RetainDead, RetainNext,
     RetainMarker, RetainThrows, RetainDone, AppendRetry
<1>9. CASE BeginApproval \/ Approve \/ Decline
  BY <1>9, SMTT(30) DEF BeginApproval, Approve, Decline
<1>10. CASE HumanRetry
  BY <1>10, SMTT(30) DEF HumanRetry, BeginRetry, RetainDead
<1>11. CASE KillHuman
  BY <1>11, SMTT(30) DEF KillHuman
<1>12. CASE EditPlan \/ HumanEditsTree \/ OrphanExits \/ LockAges
  BY <1>12, SMTT(30) DEF EditPlan, HumanEditsTree, OutsideEdit, TreeEdit,
     Tamper, OrphanExits, LockAges
<1>13. CASE Time
  BY <1>13, SMTT(30) DEF Time, PauseEnds, DelayPasses
<1>14. CASE UNCHANGED vars
  BY <1>14 DEF vars
<1> QED
  BY <1>1, <1>2, <1>3, <1>4, <1>5, <1>6, <1>7, <1>8, <1>9, <1>10, <1>11,
     <1>12, <1>13, <1>14 DEF Next, Watch


(* Nothing has happened yet.                                               *)
LEMMA InitLife == Init => LifeInv
  BY ActorsAssumption
  DEF Init, MarkersInit, LifeInv, DriftIsDone, OneLock, NoneRegressed,
      NoneUndone, IsDead, BeforeEnd, ClosingPhases, LanePhases, ArchivePhases,
      Actors

(* No step leaves LifeInv. *)
LEMMA LifeInvStep ==
  Single /\ Inv /\ DueInv /\ StuckInv /\ WholeInv /\ LifeInv /\ [Next]_vars
    => LifeInv'
  BY DriftIsDoneStep, OneLockStep, NoneRegressedStep, NoneUndoneStep
  DEF LifeInv

\* TaskLifecycle's variables, as the refinement gives them
Status  == [t \in Tasks |-> StatusOf(t)]
Closing == \E w \in Watchers : pc[w] \in ArchivePhases \ {"archive"}
Undone  == "done" \in tampered

\* t is shown as it was
Unmoved(t) == StatusOf(t)' = StatusOf(t)

(* That is so when none of its markers comes or goes.                      *)
LEMMA SameMarkers ==
  ASSUME NEW t, IsRegressed(t)' <=> IsRegressed(t),
         (t \in done)' <=> t \in done,
         IsDead(t)' <=> IsDead(t), (lock[t] # Free)' <=> lock[t] # Free
  PROVE  Unmoved(t)
  BY DEF Unmoved, StatusOf

(* In particular when no marker and no lock changes at all.                *)
LEMMA NoMarkers ==
  ASSUME UNCHANGED <<regressed, done, dead, lock>>
  PROVE  \A n \in Tasks : Unmoved(n)
  BY SameMarkers DEF IsRegressed, IsDead

\* t alone is shown to move
Moving(t, from, to) ==
  /\ StatusOf(t) = from /\ StatusOf(t)' = to
  /\ \A n \in Tasks \ {t} : Unmoved(n)
  /\ ~archived /\ UNCHANGED archived

\* the archive attempt and the look at the change are where they were
SameRest == (Closing' <=> Closing) /\ (Undone' <=> Undone)

\* what the lifecycle allows a step to do
Allowed == (~archived /\ Lifecycle!Next) \/ UNCHANGED Lifecycle!vars

(* The abstract move of one task. *)
LEMMA MovesOne ==
  ASSUME NEW t \in Tasks, NEW from, NEW to, Moving(t, from, to)
  PROVE  Lifecycle!Moves(t, from, to)
  BY DEF Moving, Unmoved, Lifecycle!Moves

(* A step that moves no task leaves the statuses alone. *)
LEMMA MovesNone ==
  ASSUME \A n \in Tasks : Unmoved(n)
  PROVE  Status' = Status
  BY DEF Unmoved, Status

(* A step that moves no task, no archive and no look is none.              *)
LEMMA NothingMoves ==
  ASSUME \A n \in Tasks : Unmoved(n), UNCHANGED archived, SameRest
  PROVE  Allowed
  BY MovesNone DEF SameRest, Allowed, Lifecycle!vars, Status, Closing, Undone

\* what each kind of step has to show, one lemma per action of TaskLifecycle

(* A run may end with its task due again.                                  *)
LEMMA YieldRule ==
  ASSUME NEW t \in Tasks, Moving(t, "running", "pending"),
         Closing' <=> Closing,
         Undone' => Undone
  PROVE  Allowed
<1>1. Lifecycle!Yield(t)
  BY MovesOne DEF Lifecycle!Yield, Closing, Undone
<1> QED
  BY <1>1 DEF Allowed, Moving, Lifecycle!Next, Lifecycle!Tasks, Tasks

(* A run, or a task due, may die while no archive is under way.            *)
LEMMA DieRule ==
  ASSUME NEW t \in Tasks,
         Moving(t, "running", "dead") \/ Moving(t, "pending", "dead"),
         ~Closing, SameRest
  PROVE  Allowed
<1>1. Lifecycle!Die(t)
  BY MovesOne DEF Lifecycle!Die, SameRest, Closing, Undone
<1> QED
  BY <1>1 DEF Allowed, Moving, Lifecycle!Next, Lifecycle!Tasks, Tasks

(* A run may finish.                                                       *)
LEMMA FinishRule ==
  ASSUME NEW t \in Tasks, Moving(t, "running", "done"), SameRest
  PROVE  Allowed
<1>1. Lifecycle!Finish(t)
  BY MovesOne DEF Lifecycle!Finish, SameRest, Closing, Undone
<1> QED
  BY <1>1 DEF Allowed, Moving, Lifecycle!Next, Lifecycle!Tasks, Tasks

(* A pending task may start, in order, while nothing else runs or is dead. *)
LEMMA StartRule ==
  ASSUME NEW t \in Tasks, Moving(t, "pending", "running"), ~Closing, SameRest,
         \A n \in Tasks \ {t} : \/ StatusOf(n) \in {"pending", "done"}
                                \/ StatusOf(n) = "dead" /\ Undone,
         Undone \/ \A n \in Tasks : n < t => StatusOf(n) = "done"
  PROVE  Allowed
<1>1. Lifecycle!Start(t)
  BY MovesOne, NTasksAssumption DEF Lifecycle!Start, Lifecycle!Tasks, Tasks,
     SameRest, Closing, Undone
<1> QED
  BY <1>1 DEF Allowed, Moving, Lifecycle!Next, Lifecycle!Tasks, Tasks

(* A retry may show what the marker it takes has covered.                  *)
LEMMA RetryRule ==
  ASSUME NEW t \in Tasks, NEW from, NEW to, Moving(t, from, to),
         Closing' <=> Closing,
         \/ /\ <<from, to>> \in {<<"dead", "pending">>, <<"dead", "running">>,
                 <<"regressed", "done">>, <<"regressed", "dead">>,
                 <<"regressed", "pending">>}
            /\ Undone' <=> Undone
         \/ /\ <<from, to>> \in {<<"done", "pending">>, <<"done", "dead">>,
                 <<"done", "running">>, <<"regressed", "regressed">>}
            /\ Undone => Undone'
  PROVE  Allowed
<1>1. Lifecycle!Retry(t)
  BY MovesOne DEF Lifecycle!Retry, Closing, Undone
<1> QED
  BY <1>1 DEF Allowed, Moving, Lifecycle!Next, Lifecycle!Tasks, Tasks

(* A finished task may regress.                                            *)
LEMMA RegressRule ==
  ASSUME NEW t \in Tasks, NEW from, Moving(t, from, "regressed"),
         Undone' <=> Undone,
         \/ from = "done" /\ (Closing' => Closing)
         \/ from \in {"pending", "dead"} /\ Undone /\ Closing /\ ~Closing'
  PROVE  Allowed
<1>1. Lifecycle!Regress(t)
  BY MovesOne DEF Lifecycle!Regress, Closing, Undone
<1> QED
  BY <1>1 DEF Allowed, Moving, Lifecycle!Next, Lifecycle!Tasks, Tasks

(* The change may be looked at.                                            *)
LEMMA LookRule ==
  ASSUME \A n \in Tasks : Unmoved(n), ~archived, UNCHANGED archived, ~Closing,
         ~Closing', ~Undone'
  PROVE  Allowed
<1>1. Lifecycle!Look
  BY MovesNone DEF Lifecycle!Look, Status, Closing, Undone
<1> QED
  BY <1>1 DEF Allowed, Lifecycle!Next

(* An archive may begin when every task is done.                           *)
LEMMA BeginRule ==
  ASSUME \A n \in Tasks : Unmoved(n), ~archived, UNCHANGED archived, ~Closing,
         Closing', Undone' <=> Undone, \A n \in Tasks : StatusOf(n) = "done"
  PROVE  Allowed
<1>1. Lifecycle!BeginArchive
  BY MovesNone DEF Lifecycle!BeginArchive, Lifecycle!Tasks, Tasks, Status,
     Closing, Undone
<1> QED
  BY <1>1 DEF Allowed, Lifecycle!Next

(* It may be given up.                                                     *)
LEMMA GiveUpRule ==
  ASSUME \A n \in Tasks : Unmoved(n), ~archived, UNCHANGED archived, Closing,
         ~Closing', Undone' <=> Undone
  PROVE  Allowed
<1>1. Lifecycle!GiveUp
  BY MovesNone DEF Lifecycle!GiveUp, Status, Closing, Undone
<1> QED
  BY <1>1 DEF Allowed, Lifecycle!Next

(* It may end, all tasks being done still.                                 *)
LEMMA EndRule ==
  ASSUME \A n \in Tasks : Unmoved(n), ~archived, archived', Closing, ~Closing',
         Undone' <=> Undone, Undone \/ \A n \in Tasks : StatusOf(n) = "done",
         archived' \in BOOLEAN
  PROVE  Allowed
<1>1. Lifecycle!EndArchive
  BY MovesNone DEF Lifecycle!EndArchive, Lifecycle!Tasks, Tasks, Status,
     Closing, Undone
<1> QED
  BY <1>1 DEF Allowed, Lifecycle!Next

(* With one watcher, an archive is under way when it is the watcher's.     *)
LEMMA ClosingIs ==
  ASSUME Single, NEW w \in Watchers
  PROVE  /\ Closing <=> pc[w] \in ClosingPhases
         /\ Closing' <=> pc'[w] \in ClosingPhases
  BY DEF Single, Closing, ClosingPhases

(* A watcher's step that touches no marker, no lock and no archive.        *)
LEMMA QuietRule ==
  ASSUME Single, NEW w \in Watchers,
         UNCHANGED <<regressed, done, dead, lock, archived>>,
         pc'[w] \in ClosingPhases <=> pc[w] \in ClosingPhases,
         UNCHANGED tampered
  PROVE  Allowed
  BY NoMarkers, ClosingIs, NothingMoves DEF SameRest, Undone

(* A dead marker is written.                                               *)
LEMMA RecordMoves ==
  ASSUME DeadTyped, NEW t \in Tasks, NEW reason \in DeadReasons, NEW print,
         RecordDead(t, reason, print), ~archived,
         UNCHANGED <<regressed, done, lock, archived>>
  PROVE  IF IsRegressed(t) \/ t \in done \/ IsDead(t)
         THEN \A n \in Tasks : Unmoved(n)
         ELSE \/ Moving(t, "running", "dead")
              \/ Moving(t, "pending", "dead")
<1>1. IsDead(t)'
  <2>1. dead'[t].reason = reason
    BY DEF DeadTyped, RecordDead
  <2>2. reason # NoDead.reason
    BY DEF NoDead, DeadReasons, Eligible, PlanReasons, Provider
  <2> QED
    BY <2>1, <2>2 DEF IsDead
<1>2. \A n \in Tasks \ {t} : Unmoved(n)
  <2>1. \A n \in Tasks \ {t} : dead'[n] = dead[n]
    BY DEF DeadTyped, RecordDead
  <2> QED
    BY <2>1, SameMarkers DEF IsRegressed, IsDead
<1>3. CASE IsRegressed(t) \/ t \in done \/ IsDead(t)
  <2>1. Unmoved(t)
    BY <1>1, <1>3 DEF Unmoved, StatusOf, IsRegressed
  <2> QED
    BY <1>2, <1>3, <2>1
<1>4. CASE ~(IsRegressed(t) \/ t \in done \/ IsDead(t))
  <2>1. /\ StatusOf(t) \in {"running", "pending"}
        /\ StatusOf(t)' = "dead"
    BY <1>1, <1>4 DEF StatusOf, IsRegressed
  <2> QED
    BY <1>2, <1>4, <2>1 DEF Moving
<1> QED
  BY <1>3, <1>4

(* A lock is removed.                                                      *)
LEMMA FreeMoves ==
  ASSUME LocksTyped, NEW t \in Tasks, FreeLock(t),
         UNCHANGED <<regressed, done, dead, archived>>, ~archived
  PROVE  (\A n \in Tasks : Unmoved(n)) \/ Moving(t, "running", "pending")
<1>1. lock' = [lock EXCEPT ![t] = Free] /\ lock'[t] = Free
  BY DEF LocksTyped
<1>2. \A n \in Tasks \ {t} : Unmoved(n)
  <2>1. \A n \in Tasks \ {t} : lock'[n] = lock[n]
    BY <1>1
  <2> QED
    BY <2>1, SameMarkers DEF IsRegressed, IsDead
<1>3. StatusOf(t)' = StatusOf(t)
      \/ (StatusOf(t) = "running" /\ StatusOf(t)' = "pending")
  BY <1>1 DEF StatusOf, IsRegressed, IsDead
<1> QED
  BY <1>2, <1>3 DEF Moving, Unmoved

(* Reaping: a lock that goes makes its task pending, a reported death makes *)
(* it dead.                                                                 *)
LEMMA ReapingAllowed ==
  ASSUME Single, Inv, NEW w \in Watchers, Reaping(w)
  PROVE  Allowed
<1>0. ControlTyped /\ Control /\ LocksTyped /\ DeadTyped /\ LoopsTyped
  BY InvParts
<1>1. CASE Start(w) \/ ReadLock(w) \/ MisreadLock(w) \/ PassLock(w) \/
           EndReap(w) \/ EndBury(w)
  BY <1>0, <1>1, QuietRule DEF ControlTyped, Actors, Start, ReadLock, Reap,
     MisreadLock, PassLock, EndReap, EndBury, ClosingPhases, ArchivePhases
<1>2. CASE UnlinkLock(w)
  <2>t. PICK t \in Tasks : t = cur[w]
    BY <1>0, <1>2 DEF Control, UnlinkLock
  <2>1. FreeLock(t) /\ ~archived
        /\ UNCHANGED <<regressed, done, dead, archived, tampered>>
        /\ pc[w] = "unlink" /\ pc'[w] = "reap"
    BY <1>0, <1>2, <2>t DEF ControlTyped, Actors, UnlinkLock
  <2>2. SameRest
    BY <2>1, ClosingIs DEF SameRest, Undone, ClosingPhases, ArchivePhases
  <2> QED
    BY <1>0, <2>1, <2>2, FreeMoves, YieldRule, NothingMoves DEF SameRest
<1>3. CASE Bury(w)
  <2>1. PICK t \in Tasks, reason \in ReapReasons :
          RecordDead(t, reason, ReaperPrint)
    BY <1>3 DEF Bury
  <2>2. UNCHANGED <<regressed, done, lock, archived, tampered, pc>>
        /\ ~archived /\ pc[w] = "bury"
    BY <1>3 DEF Bury
  <2>3. SameRest /\ ~Closing
    BY <2>2, ClosingIs DEF SameRest, Undone, ClosingPhases, ArchivePhases
  <2>4. reason \in DeadReasons
    BY MarkerFacts
  <2> QED
    BY <1>0, <2>1, <2>2, <2>3, <2>4, RecordMoves, DieRule, NothingMoves
<1> QED
  BY <1>1, <1>2, <1>3 DEF Reaping

(* A retry's first rename shows what the marker covered, or nothing.       *)
LEMMA BeginRetryMoves ==
  ASSUME LocksTyped, DeadTyped, RegressTyped, ~archived, NEW a,
         NEW t \in Targets, BeginRetry(a, t)
  PROVE  \/ \A n \in Tasks : Unmoved(n)
         \/ t \in Tasks /\ \/ Moving(t, "dead", "pending")
                           \/ Moving(t, "regressed", "done")
                           \/ Moving(t, "regressed", "dead")
                           \/ Moving(t, "regressed", "pending")
<1>1. CASE IsRegressed(t)
  <2>1. /\ regressed' = [regressed EXCEPT ![t] = NoRegressed]
        /\ UNCHANGED <<done, dead, lock, archived>>
        /\ t \in Tasks => lock[t] = Free
    BY <1>1 DEF BeginRetry, RetryAllowed, Tasks, Change
  <2>2. \A n \in Tasks \ {t} : Unmoved(n)
    <3>1. \A n \in Tasks \ {t} : regressed'[n] = regressed[n]
      BY <2>1, TargetFacts DEF RegressTyped
    <3> QED
      BY <2>1, <3>1, SameMarkers DEF IsRegressed, IsDead
  <2>3. CASE t \in Tasks
    <3>1. /\ StatusOf(t) = "regressed"
          /\ StatusOf(t)' \in {"done", "dead", "pending"}
      BY <1>1, <2>1, <2>3 DEF StatusOf, IsRegressed, IsDead, RegressTyped
    <3> QED
      BY <2>1, <2>2, <2>3, <3>1 DEF Moving
  <2> QED
    BY <2>2, <2>3
<1>2. CASE ~IsRegressed(t)
  <2>1. /\ t \in Tasks /\ IsDead(t) /\ lock[t] = Free
        /\ dead' = [dead EXCEPT ![t] = NoDead]
        /\ UNCHANGED <<done, regressed, lock, archived>>
    BY <1>2 DEF BeginRetry, RetryAllowed, RetainDead, Tasks, Change
  <2>2. \A n \in Tasks \ {t} : Unmoved(n)
    <3>1. \A n \in Tasks \ {t} : dead'[n] = dead[n]
      BY <2>1 DEF DeadTyped
    <3> QED
      BY <2>1, <3>1, SameMarkers DEF IsRegressed, IsDead
  <2>3. \/ Unmoved(t)
        \/ StatusOf(t) = "dead" /\ StatusOf(t)' = "pending"
    BY <1>2, <2>1 DEF Unmoved, StatusOf, IsRegressed, IsDead, DeadTyped
  <2> QED
    BY <2>1, <2>2, <2>3 DEF Moving
<1> QED
  BY <1>1, <1>2

(* So does the second, of a death.                                         *)
LEMMA RetainDeadMoves ==
  ASSUME DeadTyped, ~archived, NEW t \in Targets, RetainDead(t),
         UNCHANGED <<done, regressed, lock, archived>>
  PROVE  \/ \A n \in Tasks : Unmoved(n)
         \/ t \in Tasks /\ \/ Moving(t, "dead", "pending")
                           \/ Moving(t, "dead", "running")
<1>1. \A n \in Tasks \ {t} : Unmoved(n)
  <2>1. \A n \in Tasks \ {t} : dead'[n] = dead[n]
    BY DEF DeadTyped, RetainDead
  <2> QED
    BY <2>1, SameMarkers DEF IsRegressed, IsDead
<1>2. CASE t \in Tasks
  <2>1. ~IsDead(t)'
    BY <1>2 DEF DeadTyped, RetainDead, IsDead
  <2>2. \/ Unmoved(t)
        \/ StatusOf(t) = "dead" /\ StatusOf(t)' \in {"pending", "running"}
    BY <2>1 DEF Unmoved, StatusOf, IsRegressed
  <2> QED
    BY <1>1, <1>2, <2>2 DEF Moving
<1> QED
  BY <1>1, <1>2

(* And the third, of a completion: it undoes one.                          *)
LEMMA RetainDoneMoves ==
  ASSUME DoneTyped, ~archived, NEW t \in Targets, RetainDone(t),
         UNCHANGED <<dead, regressed, lock, archived>>
  PROVE  \/ (\A n \in Tasks : Unmoved(n)) /\ (Undone' <=> Undone)
         \/ /\ t \in Tasks /\ (Undone => Undone')
            /\ \/ Moving(t, "done", "pending") \/ Moving(t, "done", "dead")
               \/ Moving(t, "done", "running")
               \/ Moving(t, "regressed", "regressed")
<1>1. done' = done \ {t} /\ (Undone => Undone')
      /\ (t \notin done => UNCHANGED tampered)
  BY DEF RetainDone, Tamper, Undone
<1>2. \A n \in Tasks \ {t} : Unmoved(n)
  <2>1. \A n \in Tasks \ {t} : n \in done' <=> n \in done
    BY <1>1
  <2> QED
    BY <2>1, SameMarkers DEF IsRegressed, IsDead
<1>3. CASE t \in done
  <2>1. \/ /\ StatusOf(t) = "done"
           /\ StatusOf(t)' \in {"pending", "dead", "running"}
        \/ StatusOf(t) = "regressed" /\ StatusOf(t)' = "regressed"
    BY <1>1, <1>3 DEF StatusOf, IsRegressed, IsDead
  <2> QED
    BY <1>1, <1>2, <1>3, <2>1 DEF Moving, DoneTyped
<1>4. CASE t \notin done
  <2>1. done' = done
    BY <1>1, <1>4
  <2> QED
    BY <1>1, <1>4, <2>1, NoMarkers DEF Undone
<1> QED
  BY <1>3, <1>4

(* A retry's renames, whoever makes them.                                  *)
LEMMA RetainAllowed ==
  ASSUME Inv, NEW a \in Actors, RetainNext(a), Closing' <=> Closing
  PROVE  Allowed
<1>0. ControlTyped /\ DeadTyped /\ DoneTyped
  BY InvParts
<1>1. CASE RetainThrows(a)
  <2>1. UNCHANGED <<regressed, done, dead, lock, archived, tampered>>
    BY <1>1 DEF RetainThrows
  <2> QED
    BY <2>1, NoMarkers, NothingMoves DEF SameRest, Undone
<1>2. CASE RetainMarker(a)
  <2>t. PICK t \in Targets : t = cur[a]
    BY <1>0 DEF ControlTyped
  <2>1. ~archived /\ UNCHANGED <<regressed, lock, archived>>
    BY <1>2 DEF RetainMarker
  <2>2. CASE UNCHANGED <<done, dead, tampered>>
    BY <2>1, <2>2, NoMarkers, NothingMoves DEF SameRest, Undone
  <2>3. CASE RetainDead(t) /\ UNCHANGED <<done, tampered>>
    <3>1. SameRest
      BY <2>3 DEF SameRest, Undone
    <3>2. \/ \A n \in Tasks : Unmoved(n)
          \/ t \in Tasks /\ \/ Moving(t, "dead", "pending")
                                 \/ Moving(t, "dead", "running")
      BY <1>0, <2>1, <2>3, RetainDeadMoves
    <3> QED
      BY <2>1, <3>1, <3>2, RetryRule, NothingMoves DEF SameRest
  <2>4. CASE RetainDone(t) /\ UNCHANGED dead
    <3>1. \/ (\A n \in Tasks : Unmoved(n)) /\ (Undone' <=> Undone)
          \/ /\ t \in Tasks /\ (Undone => Undone')
             /\ \/ Moving(t, "done", "pending")
                \/ Moving(t, "done", "dead")
                \/ Moving(t, "done", "running")
                \/ Moving(t, "regressed", "regressed")
      BY <1>0, <2>1, <2>4, RetainDoneMoves
    <3> QED
      BY <2>1, <3>1, RetryRule, NothingMoves DEF SameRest
  <2> QED
    BY <1>2, <2>t, <2>2, <2>3, <2>4 DEF RetainMarker
<1> QED
  BY <1>1, <1>2 DEF RetainNext

(* So does its beginning. *)
LEMMA BeginAllowed ==
  ASSUME Inv, ~archived, NEW a, NEW t \in Targets, BeginRetry(a, t),
         Closing' <=> Closing
  PROVE  Allowed
<1>0. LocksTyped /\ DeadTyped /\ RegressTyped
  BY InvParts
<1>1. UNCHANGED <<archived, tampered>>
  BY DEF BeginRetry
<1>2. \/ \A n \in Tasks : Unmoved(n)
      \/ t \in Tasks /\ \/ Moving(t, "dead", "pending")
                        \/ Moving(t, "regressed", "done")
                        \/ Moving(t, "regressed", "dead")
                        \/ Moving(t, "regressed", "pending")
  BY <1>0, BeginRetryMoves
<1> QED
  BY <1>1, <1>2, RetryRule, NothingMoves DEF SameRest, Undone

(* The watcher's retries.                                                  *)
LEMMA RetryingAllowed ==
  ASSUME Single, Inv, NEW w \in Watchers, Retrying(w)
  PROVE  Allowed
<1>0. ControlTyped /\ Control /\ DeadTyped /\ LoopsTyped
  BY InvParts
<1> USE DEF Actors
<1>1. CASE SkipRetry(w) \/ AppendRetry(w) \/ EndRetries(w)
  BY <1>0, <1>1, ActorsAssumption, QuietRule
  DEF ControlTyped, SkipRetry, AppendRetry, EndRetries, ClosingPhases,
      ArchivePhases
<1>2. CASE MarkStuck(w)
  <2>1. UNCHANGED <<regressed, done, lock, archived, tampered, pc>>
        /\ dead' = [dead EXCEPT ![Smallest(todo[w])].stuck = TRUE]
    BY <1>2 DEF MarkStuck
  <2>2. IsStuck(Smallest(todo[w]))
    BY <1>2 DEF MarkStuck
  <2>3. ASSUME NEW n \in Tasks PROVE IsDead(n)' <=> IsDead(n)
    <3>1. CASE n = Smallest(todo[w])
      <4>1. dead'[n].stuck
        BY <1>0, <2>1, <3>1, StuckMarker DEF DeadTyped, DeadMarkers, NoDead
      <4>2. IsDead(n)'
        BY <4>1 DEF IsDead, NoDead
      <4>3. dead[n].reason # NoDead.reason
        BY <2>2, <3>1 DEF IsStuck, NoDead, Eligible, Provider
      <4> QED
        BY <4>2, <4>3 DEF IsDead
    <3>2. CASE n # Smallest(todo[w])
      BY <1>0, <2>1, <3>2 DEF DeadTyped, IsDead
    <3> QED
      BY <3>1, <3>2
  <2> QED
    BY <2>1, <2>3, SameMarkers, ClosingIs, NothingMoves
    DEF SameRest, Undone, IsRegressed
<1>3. CASE AutoRetry(w)
  <2>t. PICK t \in Targets : t = Smallest(todo[w])
    BY <1>0, <1>3, SmallestIsMember DEF LoopsTyped, AutoRetry
  <2>1. ~archived /\ BeginRetry(w, t) /\ pc[w] = "retry" /\ pc'[w] = "retain"
    BY <1>0, <1>3, <2>t DEF ControlTyped, AutoRetry, BeginRetry
  <2>2. Closing' <=> Closing
    BY <2>1, ClosingIs DEF ClosingPhases, ArchivePhases
  <2> QED
    BY <2>1, <2>2, BeginAllowed
<1>4. CASE RetainNext(w)
  <2>1. pc[w] = "retain" /\ pc'[w] \in {"retain", "append", "retry"}
    BY <1>0, <1>4, ActorsAssumption DEF ControlTyped, RetainNext,
       RetainMarker, RetainThrows
  <2>2. Closing' <=> Closing
    BY <2>1, ClosingIs DEF ClosingPhases, ArchivePhases
  <2> QED
    BY <1>4, <2>2, RetainAllowed
<1> QED
  BY <1>1, <1>2, <1>3, <1>4 DEF Retrying

(* Deriving: the change is looked at, and nothing moves.                   *)
LEMMA DerivingAllowed ==
  ASSUME Single, Inv, NEW w \in Watchers, Deriving(w)
  PROVE  Allowed
<1>0. ControlTyped
  BY InvParts
<1>1. CASE LeaveAlone(w)
  BY <1>0, <1>1, QuietRule DEF ControlTyped, Actors, LeaveAlone, ClosingPhases,
     ArchivePhases
<1>2. CASE StartTask(w) \/ StartArchive(w)
  <2>1. UNCHANGED <<regressed, done, dead, lock, archived>>
        /\ tampered' = {} /\ ~archived
        /\ pc[w] = "derive" /\ pc'[w] \in {"audit", "archive"}
    BY <1>0, <1>2 DEF ControlTyped, Actors, StartTask, StartArchive
  <2>2. ~Closing /\ ~Closing' /\ ~Undone'
    BY <2>1, ClosingIs DEF Undone, ClosingPhases, ArchivePhases
  <2> QED
    BY <2>1, <2>2, NoMarkers, LookRule
<1> QED
  BY <1>1, <1>2 DEF Deriving

(* Auditing regresses finished tasks, and may give an archive up.          *)
LEMMA CheckingAllowed ==
  ASSUME Single, Inv, LifeInv, NEW w \in Watchers, Checking(w)
  PROVE  Allowed
<1>0. ControlTyped /\ RegressTyped /\ LoopsTyped
  BY InvParts
<1> USE DEF Actors
<1>1. CASE AuditClear(w) \/ AuditRecertify(w) \/ AuditHalts(w)
  BY <1>1, QuietRule DEF AuditClear, AuditRecertify, AuditHalts
<1>2. CASE AuditRegress(w)
  <2>0. PICK t : t = Smallest(todo[w])
    OBVIOUS
  <2>1. /\ UNCHANGED <<done, dead, lock, archived, tampered, pc>> /\ ~archived
        /\ regressed' = [regressed EXCEPT
             ![t] = [reason |-> "scope_regression", passed |-> t \in green]]
        /\ drift[t] # "same" /\ ~IsRegressed(t)
    BY <1>2, <2>0 DEF AuditRegress, Auditing
  <2>2. SameRest
    BY <2>1, ClosingIs DEF SameRest, Undone
  <2>3. \A n \in Tasks \ {t} : Unmoved(n)
    <3>1. \A n \in Tasks \ {t} : regressed'[n] = regressed[n]
      BY <1>0, <2>1, TargetFacts DEF RegressTyped
    <3> QED
      BY <2>1, <3>1, SameMarkers DEF IsRegressed, IsDead
  <2>4. CASE t \in Tasks
    <3>1. t \in done
      BY <2>1, <2>4 DEF LifeInv, DriftIsDone
    <3>2. regressed'[t] # NoRegressed
      <4>1. regressed'[t].reason = "scope_regression"
        BY <1>0, <2>1, <2>4, TargetFacts DEF RegressTyped
      <4> QED
        BY <4>1 DEF NoRegressed
    <3>3. StatusOf(t) = "done" /\ StatusOf(t)' = "regressed"
      BY <2>1, <3>1, <3>2 DEF StatusOf, IsRegressed
    <3>4. Moving(t, "done", "regressed")
      BY <2>1, <2>3, <3>3 DEF Moving
    <3> QED
      BY <2>2, <2>4, <3>4, RegressRule DEF SameRest
  <2> QED
    BY <2>1, <2>2, <2>3, <2>4, NothingMoves
<1>3. CASE EndAudit(w)
  <2>1. UNCHANGED <<regressed, done, dead, lock, archived, tampered>>
        /\ ~archived
    BY <1>3 DEF EndAudit, Auditing
  <2>2. pc[w] \in {"audit", "guard"} => pc'[w] \in {"down", "begin", "lock"}
    BY <1>0, <1>3 DEF ControlTyped, EndAudit, AfterAudit
  <2>3. pc[w] \in {"audit", "guard", "recheck"}
        /\ (pc[w] = "recheck" => pc'[w] \in {"down", "verify"})
    BY <1>0, <1>3 DEF ControlTyped, EndAudit, AfterAudit, Auditing
  <2>4. Closing' => Closing
    BY <2>2, <2>3, ClosingIs DEF ClosingPhases, ArchivePhases
  <2> QED
    BY <2>1, <2>4, NoMarkers, GiveUpRule, NothingMoves DEF SameRest, Undone
<1> QED
  BY <1>1, <1>2, <1>3 DEF Checking

(* A lane's task fails: its death is recorded.                             *)
LEMMA FailAllowed ==
  ASSUME Single, Inv, DueInv, ~archived, NEW w \in Watchers,
         pc[w] \in BeforeEnd, pc'[w] \in {"down", "release"},
         UNCHANGED <<regressed, done, lock, archived, tampered>>,
         NEW reason \in DeadReasons, NEW print,
         RecordDead(cur[w], reason, print)
  PROVE  Allowed
<1>0. ControlTyped /\ Control /\ DeadTyped
  BY InvParts
<1>1. PICK t \in Tasks : t = cur[w]
  BY <1>0 DEF Control, BeforeEnd
<1>2. ~IsRegressed(t) /\ t \notin done /\ ~IsDead(t)
  BY <1>1 DEF DueInv, CurIsOpen
<1>3. SameRest /\ ~Closing
  BY ClosingIs DEF SameRest, Undone, BeforeEnd, LanePhases, ClosingPhases,
     ArchivePhases
<1> QED
  BY <1>0, <1>1, <1>2, <1>3, RecordMoves, DieRule

(* A lane's task takes its lock: every earlier one is done, and no other   *)
(* one runs.                                                               *)
LEMMA AcquireAllowed ==
  ASSUME Single, Inv, DueInv, LifeInv, NEW w \in Watchers, AcquireLock(w)
  PROVE  Allowed
<1>0. ControlTyped /\ Control /\ LocksTyped
  BY InvParts
<1>t. PICK t : t = cur[w]
  OBVIOUS
<1>1. /\ pc[w] = "lock" /\ pc'[w] = "gates" /\ ~archived
      /\ lock[t] = Free /\ lock' = [lock EXCEPT ![t] = w]
      /\ UNCHANGED <<regressed, done, dead, archived, tampered>>
  BY <1>0, <1>t DEF ControlTyped, Actors, AcquireLock
<1>2. t \in Tasks /\ w # Free
  BY <1>0, <1>1, <1>t, ActorsAssumption DEF Control, LanePhases
<1>3. t \notin done /\ ~IsDead(t) /\ ~IsRegressed(t) /\ note[w] # "stale"
  BY <1>1, <1>t DEF DueInv, CurIsOpen, HeedsStale, BeforeEnd, LanePhases
<1>4. \A n \in Tasks \ {t} : Unmoved(n)
  <2>1. \A n \in Tasks \ {t} : lock'[n] = lock[n]
    BY <1>0, <1>1 DEF LocksTyped
  <2> QED
    BY <1>1, <2>1, SameMarkers DEF IsRegressed, IsDead
<1>5. Moving(t, "pending", "running")
  <2>1. lock'[t] = w
    BY <1>0, <1>1, <1>2 DEF LocksTyped
  <2>2. StatusOf(t) = "pending" /\ StatusOf(t)' = "running"
    BY <1>1, <1>2, <1>3, <2>1 DEF StatusOf, IsRegressed, IsDead
  <2> QED
    BY <1>1, <1>4, <2>2 DEF Moving
<1>6. \A n \in Tasks : ~IsRegressed(n)
  BY <1>1, <1>3 DEF LifeInv, NoneRegressed, BeforeEnd, LanePhases
<1>7. \A n \in Tasks : lock[n] = Free
  BY <1>1 DEF LifeInv, OneLock, InTask, LanePhases
<1>8. \A n \in Tasks : n \notin done /\ IsDead(n) => Undone
  BY <1>1 DEF LifeInv, NoneUndone, Undone, BeforeEnd, LanePhases
<1>9. \A n \in Tasks \ {t} : \/ StatusOf(n) \in {"pending", "done"}
                             \/ StatusOf(n) = "dead" /\ Undone
  BY <1>6, <1>7, <1>8 DEF StatusOf
<1>10. Undone \/ \A n \in Tasks : n < t => StatusOf(n) = "done"
  BY <1>1, <1>6, <1>t DEF DueInv, EarlierDone, Undone, StatusOf, BeforeEnd,
     LanePhases
<1>11. SameRest /\ ~Closing
  BY <1>1, ClosingIs DEF SameRest, Undone, ClosingPhases, ArchivePhases
<1> QED
  BY <1>2, <1>5, <1>9, <1>10, <1>11, StartRule

(* A lane's end frees its lock: its task is finished, dead or due again.   *)
LEMMA ReleaseAllowed ==
  ASSUME Single, Inv, NEW w \in Watchers, Release(w)
  PROVE  Allowed
<1>0. ControlTyped /\ Control /\ LocksTyped
  BY InvParts
<1>1. PICK t \in Tasks : t = cur[w]
  BY <1>0 DEF Control, Release, LanePhases
<1>2. FreeLock(t) /\ ~archived /\ UNCHANGED <<regressed, done, dead, archived>>
      /\ pc[w] = "release" /\ pc'[w] \in {"archive", "down"}
  BY <1>0, <1>1 DEF ControlTyped, Actors, Release
<1>3. UNCHANGED tampered \/ tampered' = {}
  BY DEF Release
<1>4. ~Closing /\ ~Closing'
  BY <1>2, ClosingIs DEF ClosingPhases, ArchivePhases
<1>5. CASE \A n \in Tasks : Unmoved(n)
  BY <1>2, <1>3, <1>4, <1>5, LookRule, NothingMoves DEF SameRest, Undone
<1>6. CASE Moving(t, "running", "pending")
  BY <1>3, <1>4, <1>6, YieldRule DEF Undone
<1> QED
  BY <1>0, <1>2, <1>5, <1>6, FreeMoves

(* The lane.                                                               *)
LEMMA RunningAllowed ==
  ASSUME Single, Inv, DueInv, LifeInv, NEW w \in Watchers, Running(w)
  PROVE  Allowed
<1>0. ControlTyped /\ Control /\ LocksTyped
  BY InvParts
<1> USE <1>0 DEF ControlTyped, Actors
<1>1. CASE Begin(w)
  <2>1. UNCHANGED <<regressed, done, dead, lock, archived>>
        /\ tampered' = tampered \ {"tree"}
        /\ pc[w] = "begin" /\ pc'[w] = "guard"
    BY <1>1 DEF Begin
  <2>2. SameRest
    BY <2>1, ClosingIs DEF SameRest, Undone, ClosingPhases, ArchivePhases
  <2> QED
    BY <2>1, <2>2, NoMarkers, NothingMoves
<1>2. CASE LockTaken(w) \/ Spawn(w) \/ AgentExits(w) \/ JudgePauses(w)
  <2>1. UNCHANGED <<regressed, done, dead, lock, archived, tampered>>
    BY <1>2 DEF LockTaken, Spawn, AgentExits, TreeEdit, JudgePauses
  <2>2. pc[w] \in {"lock", "gates", "agent", "judge"}
        /\ pc'[w] \in {"down", "agent", "judge", "release"}
    BY <1>2 DEF LockTaken, Spawn, AgentExits, JudgePauses
  <2> QED
    BY <2>1, <2>2, QuietRule DEF ClosingPhases, ArchivePhases
<1>3. CASE RefuseSeal(w) \/ RefuseEntry(w)
  <2>1. PICK reason \in {"spec_conflict", "entry_missing"} : Refuse(w, reason)
    BY <1>3 DEF RefuseSeal, RefuseEntry
  <2>2. ~archived /\ pc[w] \in BeforeEnd
    BY <1>3 DEF RefuseSeal, RefuseEntry, BeforeEnd, LanePhases
  <2>3. RecordDead(cur[w], reason, SealPrint) /\ pc'[w] \in {"down", "release"}
        /\ UNCHANGED <<regressed, done, lock, archived, tampered>>
    BY <2>1 DEF Refuse
  <2>4. reason \in DeadReasons
    BY DEF DeadReasons, PlanReasons
  <2> QED
    BY <2>2, <2>3, <2>4, FailAllowed
<1>4. CASE RefuseStart(w) \/ JudgeFails(w)
  <2>1. PICK reason \in DeadReasons, print \in AllPrints :
          Fail(w, reason, print)
    BY <1>4, SwitchesAssumption, MarkerFacts DEF RefuseStart, JudgeFails
  <2>2. ~archived /\ pc[w] \in BeforeEnd
    BY <1>4 DEF RefuseStart, JudgeFails, BeforeEnd, LanePhases
  <2>3. RecordDead(cur[w], reason, print) /\ pc'[w] \in {"down", "release"}
        /\ UNCHANGED <<regressed, done, lock, archived, tampered>>
    BY <2>1 DEF Fail
  <2> QED
    BY <2>2, <2>3, FailAllowed
<1>5. CASE JudgePasses(w)
  <2>1. pc[w] = "judge" /\ pc'[w] = "release" /\ ~archived
        /\ UNCHANGED <<regressed, dead, lock, archived, tampered>>
    BY <1>5 DEF JudgePasses
  <2>2. PICK t \in Tasks : t = cur[w]
    BY <2>1 DEF Control, LanePhases
  <2>3. done' = done \cup {t}
    BY <1>5, <2>2 DEF JudgePasses
  <2>4. t \notin done /\ ~IsDead(t) /\ ~IsRegressed(t)
    BY <2>1, <2>2 DEF DueInv, CurIsOpen, BeforeEnd, LanePhases
  <2>5. lock[t] # Free
    BY <2>1, <2>2, ActorsAssumption DEF DueInv, OwnsLock, InTask
  <2>6. StatusOf(t) = "running" /\ StatusOf(t)' = "done"
    BY <2>1, <2>3, <2>4, <2>5 DEF StatusOf, IsRegressed
  <2>7. \A n \in Tasks \ {t} : Unmoved(n)
    BY <2>1, <2>3, SameMarkers DEF IsRegressed, IsDead
  <2>8. SameRest
    BY <2>1, ClosingIs DEF SameRest, Undone, ClosingPhases, ArchivePhases
  <2> QED
    BY <2>1, <2>6, <2>7, <2>8, FinishRule DEF Moving
<1> QED
  BY <1>1, <1>2, <1>3, <1>4, <1>5, ReleaseAllowed, AcquireAllowed DEF Running

(* An archive attempt regresses one target, and gives up.                  *)
LEMMA RegressTargetAllowed ==
  ASSUME Single, Inv, LifeInv, ~archived, NEW w \in Watchers,
         pc[w] \in {"verify", "change"}, note[w] # "stale",
         NEW t \in Targets, RegressTarget(w, t)
  PROVE  Allowed
<1>0. ControlTyped /\ RegressTyped
  BY InvParts
<1>1. UNCHANGED <<done, dead, lock, archived, tampered>> /\ pc'[w] = "down"
      /\ regressed' = [regressed EXCEPT ![t] = [reason |-> "verify_red",
                                                passed |-> FALSE]]
  BY <1>0 DEF ControlTyped, Actors, RegressTarget
<1>2. Closing /\ ~Closing' /\ (Undone' <=> Undone)
  BY <1>1, ClosingIs DEF Undone, ClosingPhases, ArchivePhases
<1>3. \A n \in Tasks \ {t} : Unmoved(n)
  <2>1. \A n \in Tasks \ {t} : regressed'[n] = regressed[n]
    BY <1>0, <1>1, TargetFacts DEF RegressTyped
  <2> QED
    BY <1>1, <2>1, SameMarkers DEF IsRegressed, IsDead
<1>4. CASE t \in Tasks
  <2>1. regressed'[t] # NoRegressed
    <3>1. regressed'[t].reason = "verify_red"
      BY <1>0, <1>1 DEF RegressTyped
    <3> QED
      BY <3>1 DEF NoRegressed
  <2>2. ~IsRegressed(t)
    BY <1>4 DEF LifeInv, NoneRegressed, ClosingPhases, ArchivePhases
  <2>3. lock[t] = Free
    BY <1>4 DEF LifeInv, OneLock, InTask, ArchivePhases
  <2>4. t \in done \/ Undone
    BY <1>4 DEF LifeInv, NoneUndone, Undone, ClosingPhases, ArchivePhases
  <2>5. /\ StatusOf(t)' = "regressed"
        /\ StatusOf(t) \in {"done", "dead", "pending"}
        /\ (StatusOf(t) = "done" \/ Undone)
    BY <2>1, <2>2, <2>3, <2>4 DEF StatusOf, IsRegressed
  <2> QED
    BY <1>1, <1>2, <1>3, <1>4, <2>5, RegressRule DEF Moving
<1>5. CASE t \notin Tasks
  BY <1>1, <1>2, <1>3, <1>5, GiveUpRule
<1> QED
  BY <1>4, <1>5

(* The archive.                                                            *)
LEMMA FinishingAllowed ==
  ASSUME Single, Inv, WholeInv, LifeInv, NEW w \in Watchers, Finishing(w)
  PROVE  Allowed
<1>0. ControlTyped /\ LoopsTyped
  BY InvParts
<1> USE <1>0 DEF ControlTyped, Actors
<1>1. CASE ArchiveWaits(w) \/ VerifyGreen(w) \/ EndVerify(w) \/ ChangeGreen(w)
  <2>1. UNCHANGED <<regressed, done, dead, lock, archived, tampered>>
    BY <1>1 DEF ArchiveWaits, VerifyGreen, EndVerify, ChangeGreen
  <2>2. \/ pc[w] = "archive" /\ pc'[w] = "down"
        \/ /\ pc[w] \in {"verify", "change"}
           /\ pc'[w] \in {"verify", "change", "relocate"}
    BY <1>1 DEF ArchiveWaits, VerifyGreen, EndVerify, ChangeGreen
  <2> QED
    BY <2>1, <2>2, QuietRule DEF ClosingPhases, ArchivePhases
<1>2. CASE Recheck(w)
  <2>1. UNCHANGED <<regressed, done, dead, lock, archived, tampered>>
        /\ ~archived /\ pc[w] = "archive" /\ pc'[w] = "recheck"
    BY <1>2 DEF Recheck
  <2>2. ~Closing /\ Closing' /\ (Undone' <=> Undone)
    BY <2>1, ClosingIs DEF Undone, ClosingPhases, ArchivePhases
  <2>3. \A n \in Tasks : StatusOf(n) = "done"
    <3>1. SpecStatus = "done"
      BY <1>2 DEF Recheck
    <3>2. \A n \in Tasks : ~IsRegressed(n) /\ n \in done
      BY <3>1, LooksSound, DoneIsAll, InvParts DEF DoneTyped
    <3> QED
      BY <3>2 DEF StatusOf
  <2> QED
    BY <2>1, <2>2, <2>3, NoMarkers, BeginRule
<1>3. CASE VerifyRed(w) \/ ChangeRed(w)
  <2>1. pc[w] \in {"verify", "change"} /\ ~archived
    BY <1>3 DEF VerifyRed, ChangeRed
  <2>2. note[w] # "stale"
    BY <2>1 DEF WholeInv, StaleIsAudited
  <2>3. PICK t \in Targets : RegressTarget(w, t)
    BY <1>3, SmallestIsMember, TargetFacts
    DEF VerifyRed, ChangeRed, LoopsTyped
  <2> QED
    BY <2>1, <2>2, <2>3, RegressTargetAllowed
<1>4. CASE Relocate(w)
  <2>1. UNCHANGED <<regressed, done, dead, lock, tampered>> /\ archived'
        /\ archived' \in BOOLEAN
        /\ ~archived /\ pc[w] = "relocate" /\ pc'[w] = "down"
    BY <1>4 DEF Relocate
  <2>2. Closing /\ ~Closing' /\ (Undone' <=> Undone)
    BY <2>1, ClosingIs DEF Undone, ClosingPhases, ArchivePhases
  <2>3. note[w] # "stale"
    BY <2>1 DEF WholeInv, StaleIsAudited
  <2>4. Undone \/ \A n \in Tasks : StatusOf(n) = "done"
    BY <2>1, <2>3 DEF LifeInv, NoneRegressed, NoneUndone, StatusOf, Undone,
       ClosingPhases, ArchivePhases
  <2> QED
    BY <2>1, <2>2, <2>4, NoMarkers, EndRule
<1> QED
  BY <1>1, <1>2, <1>3, <1>4 DEF Finishing

(* A killed watcher's locks stay, and its archive attempt is given up.     *)
LEMMA CrashAllowed ==
  ASSUME Single, Inv, NEW w \in Watchers, Crash(w)
  PROVE  Allowed
<1>0. ControlTyped /\ LocksTyped
  BY InvParts
<1>1. /\ UNCHANGED <<regressed, done, dead, archived, tampered>> /\ ~archived
      /\ lock' = [t \in Tasks |-> IF lock[t] = w THEN Gone ELSE lock[t]]
      /\ pc'[w] = "down"
  BY <1>0 DEF ControlTyped, Actors, Crash
<1>2. w # Free /\ Gone # Free
  BY ActorsAssumption DEF Free, Gone
<1>3. \A n \in Tasks : (lock[n] # Free)' <=> lock[n] # Free
  BY <1>1, <1>2
<1>4. \A n \in Tasks : Unmoved(n)
  BY <1>1, <1>3, SameMarkers DEF IsRegressed, IsDead
<1>5. ~Closing' /\ (Undone' <=> Undone)
  BY <1>1, ClosingIs DEF Undone, ClosingPhases, ArchivePhases
<1> QED
  BY <1>1, <1>4, <1>5, GiveUpRule, NothingMoves DEF SameRest

\* what humans, their edits and the clocks do besides retries
HumanSteps == \/ BeginApproval \/ Approve \/ Decline \/ KillHuman
              \/ AppendRetry(Human) \/ EditPlan \/ HumanEditsTree
              \/ OrphanExits \/ LockAges \/ Time

(* None of these moves a task.                                             *)
LEMMA HumanAllowed ==
  ASSUME Inv, HumanSteps
  PROVE  Allowed
<1>0. ControlTyped
  BY InvParts
<1>1. UNCHANGED <<regressed, done, dead, lock, archived>>
  BY DEF HumanSteps, BeginApproval, Approve, Decline, KillHuman, AppendRetry,
     EditPlan, HumanEditsTree, OutsideEdit, TreeEdit, OrphanExits, LockAges,
     Time, PauseEnds, DelayPasses
<1>2. Undone' <=> Undone
  BY DEF Undone, Tamper, HumanSteps, BeginApproval, Approve, Decline,
     KillHuman, AppendRetry, EditPlan, HumanEditsTree, OutsideEdit,
     OrphanExits, LockAges, Time, PauseEnds, DelayPasses
<1>3. \A w \in Watchers : pc'[w] = pc[w]
  BY <1>0, ActorsAssumption
  DEF ControlTyped, Actors, HumanSteps, BeginApproval, Approve, Decline,
      KillHuman, AppendRetry, EditPlan, HumanEditsTree, OutsideEdit,
      OrphanExits, LockAges, Time, PauseEnds, DelayPasses
<1>4. Closing' <=> Closing
  BY <1>3 DEF Closing
<1> QED
  BY <1>1, <1>2, <1>4, NoMarkers, NothingMoves DEF SameRest

(* A command's retries move what a watcher's do.                           *)
LEMMA CommandAllowed ==
  ASSUME Inv, HumanRetry \/ Retire \/ RetainNext(Human)
  PROVE  Allowed
<1>0. ControlTyped /\ Control /\ LoopsTyped
  BY InvParts
<1>1. \A w \in Watchers : pc'[w] = pc[w]
  BY <1>0, ActorsAssumption
  DEF ControlTyped, Actors, HumanRetry, Retire, BeginRetry, RetainNext,
      RetainMarker, RetainThrows
<1>2. Closing' <=> Closing
  BY <1>1 DEF Closing
<1>3. CASE \E t \in Targets : ~archived /\ BeginRetry(Human, t)
  BY <1>2, <1>3, BeginAllowed
<1>4. CASE RetainNext(Human)
  BY <1>2, <1>4, RetainAllowed DEF Actors
<1>5. CASE HumanRetry
  BY <1>3, <1>5 DEF HumanRetry
<1>6. CASE Retire /\ UNCHANGED <<markerVars, treeVars>>
  BY <1>2, <1>6, NoMarkers, NothingMoves DEF SameRest, Undone
<1>7. CASE Retire /\ BeginRetry(Human, Smallest(todo[Human]))
  <2>1. Smallest(todo[Human]) \in Targets /\ ~archived
    BY <1>0, <1>7, SmallestIsMember DEF LoopsTyped, Control, Retire, Actors
  <2> QED
    BY <1>3, <1>7, <2>1
<1> QED
  BY <1>4, <1>5, <1>6, <1>7 DEF Retire

(* Every step of the change is a step of the lifecycle or none.            *)
LEMMA LifeStep ==
  ASSUME Single, Inv, DueInv, StuckInv, WholeInv, LifeInv, [Next]_vars
  PROVE  Allowed
<1>1. CASE \E w \in Watchers : Watch(w)
  BY <1>1, ReapingAllowed, RetryingAllowed, DerivingAllowed, CheckingAllowed,
     RunningAllowed, FinishingAllowed DEF Watch
<1>2. CASE \E w \in Watchers : Crash(w)
  BY <1>2, CrashAllowed
<1>3. CASE HumanRetry \/ Continue
  BY <1>3, CommandAllowed, HumanAllowed DEF Continue, HumanSteps
<1>4. CASE \/ BeginApproval \/ Approve \/ Decline \/ KillHuman \/ EditPlan
           \/ HumanEditsTree \/ OrphanExits \/ LockAges \/ Time
  BY <1>4, HumanAllowed DEF HumanSteps
<1>5. CASE UNCHANGED vars
  <2>1. UNCHANGED <<regressed, done, dead, lock, archived, tampered, pc>>
    BY <1>5 DEF vars
  <2>2. SameRest
    BY <2>1 DEF SameRest, Undone, Closing
  <2> QED
    BY <2>1, <2>2, NoMarkers, NothingMoves
<1> QED
  BY <1>1, <1>2, <1>3, <1>4, <1>5 DEF Next

(* Nothing is shown before anything happened.                              *)
LEMMA InitShown == Init => Lifecycle!Init
<1> SUFFICES ASSUME Init PROVE Lifecycle!Init
  OBVIOUS
<1>1. \A t \in Tasks : StatusOf(t) = "pending"
  BY TargetFacts DEF Init, MarkersInit, StatusOf, IsRegressed, IsDead
<1>2. ~Closing /\ ~Undone
  BY ActorsAssumption DEF Init, Closing, Undone, ArchivePhases, Actors
<1> QED
  BY <1>1, <1>2 DEF Lifecycle!Init, Lifecycle!Tasks, Tasks, Init, MarkersInit,
     Closing, Undone

(* LifecycleHolds: with one watcher per checkout, whatever the processes,  *)
(* the humans and the kills do to the markers, the statuses of the tasks   *)
(* move as TaskLifecycle allows.                                           *)
THEOREM ChangeIsLifecycle ==
  ASSUME Single
  PROVE  Spec => LifecycleHolds
<1>1. Init => Inv /\ DueInv /\ StuckInv /\ WholeInv /\ LifeInv
  BY InitInv, InitDue, InitStuck, InitWhole, InitLife
<1>2. Inv /\ DueInv /\ StuckInv /\ WholeInv /\ LifeInv /\ [Next]_vars
        => (Inv /\ DueInv /\ StuckInv /\ WholeInv /\ LifeInv)'
  BY InvStep, DueStep, StuckStep, WholeInvStep, LifeInvStep
<1>3. Inv /\ DueInv /\ StuckInv /\ WholeInv /\ LifeInv /\ [Next]_vars
        => [~archived /\ Lifecycle!Next]_(Lifecycle!vars)
  BY LifeStep DEF Allowed
<1> QED
  BY <1>1, <1>2, <1>3, InitShown, PTL DEF Spec, LifecycleHolds, Lifecycle!Spec
=============================================================================
