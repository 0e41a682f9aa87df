--------------------------- MODULE ChangeRunProofs ---------------------------
(***************************************************************************)
(* Whatever its constants, every state ChangeRun reaches has its type: for *)
(* any number of tasks and watchers, any failures and any history of       *)
(* commands, edits and kills.                                              *)
(***************************************************************************)
EXTENDS ChangeRun, FiniteSetTheorems, WellFoundedInduction, TLAPS

(***************************************************************************)
(* The strengthening: what each phase may rely on in cur, note and todo.   *)
(***************************************************************************)
Control ==
  /\ \A w \in Watchers : pc[w] \in LanePhases => cur[w] \in Tasks
  /\ \A w \in Watchers : pc[w] = "unlink" =>
       cur[w] \in Tasks /\ note[w] \in ReapReasons
  /\ \A a \in Actors : pc[a] \in RetryPhases =>
       note[a] \in {"passed", "requeued", "manual", "auto", "provider"}
  /\ pc[Human] = "retire" => todo[Human] # {}
  /\ \A w \in Watchers : pc[w] \in {"reap", "unlink"} => todo[w] \subseteq Tasks

Inv == TypeOK /\ Control

\* the parts of TypeOK, one lemma each
ControlTyped == /\ pc \in [Actors -> WatcherPhases \cup HumanPhases]
                /\ cur \in [Actors -> Targets]
                /\ note \in [Actors -> Notes]
LoopsTyped   == /\ todo \in [Actors -> SUBSET Targets]
                /\ rest \in [Actors -> SUBSET {"dead", "done"}]
                /\ reaped \in [Watchers -> SUBSET (Tasks \X ReapReasons)]
LocksTyped   == /\ seal \in Seals
                /\ lock \in [Tasks -> Owners]
                /\ aged \in SUBSET Tasks
DoneTyped    == done \subseteq Tasks
CoolingTyped == cooling \subseteq Tasks
DeadTyped    == dead \in [Tasks -> DeadMarkers \cup {NoDead}]
LastTyped    == lastDead \in [Tasks -> DeadMarkers \cup {NoDead}]
RegressTyped == regressed \in [Targets -> RegressedMarkers \cup {NoRegressed}]
EventsTyped  == events \in [Tasks -> Streams]
GreenTyped   == green \subseteq Tasks
DriftTyped   == drift \in [Tasks -> Drifts]
OrphansTyped == orphans \subseteq Tasks
TamperTyped  == tampered \subseteq Interferences
CountsTyped  == budget \in [Kinds -> Nat] /\ spent \in [Tasks -> Nat]
PauseTyped   == paused \in BOOLEAN
ArchiveTyped == archived \in BOOLEAN

-----------------------------------------------------------------------------
(* What every proof below unfolds: the tuples of UNCHANGED and the control *)
(* helpers of the actions.                                                 *)
USE DEF At, Goto, MoveOn, NextCycle, Spend, FreeLock, markerVars, stepVars,
        loopVars, localVars, treeVars, worldVars, sealVars, deathVars,
        lockVars, stateVars

(* A non-empty set of targets has a smallest member, which the code's      *)
(* sorted loops visit first.                                               *)
LEMMA SmallestIsLeast ==
  ASSUME NEW S \in SUBSET Targets, S # {}
  PROVE  Smallest(S) \in S /\ \A m \in S : Smallest(S) <= m
<1> DEFINE Below == {0..k : k \in S}
           Order == StrictSubsetOrdering(Nat)
<1>1. S \subseteq Nat
  BY NTasksAssumption DEF Targets, Tasks, Change
<1>2. Below \subseteq FiniteSubsetsOf(Nat)
  <2>1. ASSUME NEW k \in S PROVE 0..k \in SUBSET Nat /\ IsFiniteSet(0..k)
    BY <1>1, FS_Interval
  <2> QED
    BY <2>1 DEF FiniteSubsetsOf
<1>3. Below # {}
  OBVIOUS
<1>4. \E x \in Below : \A y \in Below : <<y, x>> \notin Order
  <2> HIDE DEF Below, Order
  <2> QED
    BY <1>2, <1>3, FS_StrictSubsetOrderingWellFounded, WFMin, Zenon DEF Order
<1>5. PICK n \in S : \A y \in Below : <<y, 0..n>> \notin Order
  BY <1>4
<1>6. ASSUME NEW m \in S, ~(n <= m) PROVE FALSE
  <2>1. n \in 0..n /\ n \notin 0..m
    BY <1>1, <1>6
  <2>2. 0..m \in SUBSET Nat /\ 0..n \in SUBSET Nat /\ 0..m \subseteq 0..n
    BY <1>1, <1>6
  <2>3. <<0..m, 0..n>> \in Order
    BY <2>1, <2>2 DEF StrictSubsetOrdering
  <2> QED
    BY <1>5, <2>3
<1> QED
  BY <1>5, <1>6 DEF Smallest

(* In particular it is a member. *)
LEMMA SmallestIsMember ==
  ASSUME NEW S \in SUBSET Targets, S # {}
  PROVE  Smallest(S) \in S
  BY SmallestIsLeast

(* deriveSpecState says pending only while a task is. *)
LEMMA NextIsTask ==
  ASSUME done \in SUBSET Tasks, SpecStatus = "pending"
  PROVE  NextTask \in Tasks
<1>1. DoneTasks # Tasks /\ DeadTasks = {} /\ RunningTasks = {}
      /\ RegressedTasks = {}
  BY DEF SpecStatus
<1>2. PendingTasks # {} /\ PendingTasks \in SUBSET Tasks
  BY <1>1 DEF PendingTasks, DoneTasks
<1> QED
  BY <1>2, SmallestIsMember DEF NextTask, Targets

(* The tasks are targets, and so is the change itself. *)
LEMMA TargetFacts ==
  /\ Change \in Targets
  /\ Tasks \subseteq Targets
  BY DEF Targets

(* The parts of the invariant. *)
LEMMA InvParts ==
  ASSUME Inv
  PROVE  /\ ControlTyped /\ Control /\ LoopsTyped /\ LocksTyped /\ DoneTyped
         /\ CoolingTyped /\ DeadTyped /\ LastTyped /\ RegressTyped
         /\ EventsTyped /\ GreenTyped /\ DriftTyped /\ OrphansTyped
         /\ TamperTyped /\ CountsTyped /\ PauseTyped /\ ArchiveTyped
  BY Zenon DEF Inv, TypeOK, MarkersTypeOK, ControlTyped, LoopsTyped,
     LocksTyped, DoneTyped, CoolingTyped, DeadTyped, LastTyped, RegressTyped,
     EventsTyped, GreenTyped, DriftTyped, OrphansTyped, TamperTyped,
     CountsTyped, PauseTyped, ArchiveTyped

(* What a marker, a stream and the tree look like once they are written. *)
LEMMA MarkerFacts ==
  /\ {"spec_conflict", "verify_precondition", "verify_red", "blocked",
      "entry_missing"} \cup Eligible \subseteq DeadReasons
  /\ ReapReasons \subseteq DeadReasons
  /\ {ReaperPrint, SealPrint, NoPrint} \cup Prints \subseteq AllPrints
  BY DEF DeadReasons, PlanReasons, Eligible, ReapReasons, AllPrints

(* A dead marker is written with a reason, a body and no stuck flag. *)
LEMMA NewMarker ==
  ASSUME NEW reason \in DeadReasons, NEW print \in AllPrints
  PROVE  [reason |-> reason, print |-> print, stuck |-> FALSE] \in DeadMarkers
  BY DEF DeadMarkers

(* recordDeadEvent's marker keeps the type of the dead markers. *)
LEMMA RecordsDead ==
  ASSUME DeadTyped, NEW t, NEW reason \in DeadReasons, NEW print \in AllPrints,
         RecordDead(t, reason, print)
  PROVE  DeadTyped'
<1>1. PICK m \in DeadMarkers : dead' = [dead EXCEPT ![t] = m]
  BY NewMarker DEF RecordDead
<1> QED
  BY <1>1 DEF DeadTyped

(* markStuck rewrites a dead marker and keeps its type. *)
LEMMA StuckMarker ==
  ASSUME NEW m \in DeadMarkers \cup {NoDead}, m.reason \in Eligible
  PROVE  [m EXCEPT !.stuck = TRUE] \in DeadMarkers
<1>1. NoDead.reason \notin Eligible
  BY DEF NoDead, Eligible, Provider
<1> QED
  BY <1>1 DEF DeadMarkers

(* The two regressed markers the code writes. *)
LEMMA NewRegressed ==
  ASSUME NEW passed \in BOOLEAN
  PROVE  [reason |-> "scope_regression", passed |-> passed] \in RegressedMarkers
  BY DEF RegressedMarkers

(* A retry's event leaves a stream a stream. *)
LEMMA AppendedStream ==
  ASSUME NEW stream \in Streams,
         NEW kind \in {"passed", "requeued", "manual", "auto", "provider"}
  PROVE  Appended(stream, kind) \in Streams
<1>1. CASE kind = "auto"
  BY <1>1 DEF Appended, Streams
<1>2. CASE kind = "provider"
  BY <1>2 DEF Appended, Streams
<1>3. CASE kind = "manual"
  BY <1>3 DEF Appended, Streams
<1>4. CASE kind = "requeued"
  BY <1>4 DEF Appended, Streams
<1>5. CASE kind = "passed"
  BY <1>5 DEF Appended, Streams
<1> QED
  BY <1>1, <1>2, <1>3, <1>4, <1>5

(* An edit of the tree keeps the types of green and drift. *)
LEMMA TreeEditTyped ==
  ASSUME DriftTyped, NEW G, NEW C, NEW D, TreeEdit(G, C, D)
  PROVE  DriftTyped'
  BY DEF DriftTyped, TreeEdit, Drifts

(* The end of an attempt, accounted for or not, keeps drift's type. *)
LEMMA MeasuredTyped ==
  ASSUME DriftTyped
  PROVE  Measured(drift) \in [Tasks -> Drifts]
  BY DEF DriftTyped, Measured, Drifts

(* The two kinds of interference. *)
LEMMA InterferenceFacts == {"tree", "done"} \subseteq Interferences
  BY DEF Interferences

(* A process is always in one of its phases, at a target of this change. *)
LEMMA ControlTypedStep == Inv /\ [Next]_vars => ControlTyped'
<1> SUFFICES ASSUME Inv, [Next]_vars PROVE ControlTyped'
  OBVIOUS
<1>0. ControlTyped /\ Control /\ LoopsTyped /\ DoneTyped
  BY InvParts
<1> USE <1>0, ActorsAssumption, SmallestIsMember, NextIsTask, TargetFacts
    DEF ControlTyped, Control, LoopsTyped, DoneTyped, RetryNote,
    ReapReasons, Notes, LanePhases, RetryPhases, ArchivePhases,
    WatcherPhases, HumanPhases, Actors
<1>1. ASSUME NEW w \in Watchers, Reaping(w) PROVE ControlTyped'
  BY <1>1, SMTT(30) DEF Reaping, Start, ReadLock, Reap, MisreadLock,
     PassLock, UnlinkLock, EndReap, Bury, EndBury
<1>2. ASSUME NEW w \in Watchers, Retrying(w) PROVE ControlTyped'
  BY <1>2, SMTT(30) DEF Retrying, MarkStuck, AutoRetry, BeginRetry,
     RetainDead, SkipRetry, RetainNext, RetainMarker, RetainThrows,
     RetainDone, AppendRetry, EndRetries
<1>3. ASSUME NEW w \in Watchers, Deriving(w) PROVE ControlTyped'
  BY <1>3, SMTT(30) DEF Deriving, StartTask, StartArchive, LeaveAlone
<1>4. ASSUME NEW w \in Watchers, Checking(w) PROVE ControlTyped'
  BY <1>4, SMTT(30) DEF Checking, AuditClear, Auditing, Visited,
     AuditRecertify, AuditRegress, AuditHalts, EndAudit, AfterAudit
<1>5. ASSUME NEW w \in Watchers, Running(w) PROVE ControlTyped'
  BY <1>5, SMTT(30) DEF Running, RefuseSeal, Refuse, RefuseEntry, Begin,
     AcquireLock, LockTaken, RefuseStart, Fail, Spawn, AgentExits,
     JudgeFails, JudgePauses, JudgePasses, Release
<1>6. ASSUME NEW w \in Watchers, Finishing(w) PROVE ControlTyped'
  BY <1>6, SMTT(30) DEF Finishing, ArchiveWaits, Recheck, VerifyGreen,
     Visited, VerifyRed, RegressTarget, EndVerify, ChangeGreen, ChangeRed,
     Relocate
<1>7. ASSUME NEW w \in Watchers, Crash(w) PROVE ControlTyped'
  BY <1>7, SMTT(30) DEF Crash
<1>8. CASE Continue
  BY <1>8, SMTT(30) DEF Continue, Retire, BeginRetry, RetainDead, RetainNext,
     RetainMarker, RetainThrows,
     RetainDone, AppendRetry
<1>9. CASE BeginApproval \/ Approve \/ Decline
  BY <1>9, SMTT(30) DEF BeginApproval, Approve, Decline
<1>10. CASE HumanRetry
  BY <1>10, SMTT(30) DEF HumanRetry, BeginRetry, RetainDead
<1>11. CASE KillHuman
  BY <1>11, SMTT(30) DEF KillHuman
<1>12. CASE EditPlan \/ HumanEditsTree \/ OrphanExits \/ LockAges
  BY <1>12, SMTT(30) DEF EditPlan, HumanEditsTree, OutsideEdit, TreeEdit,
     Tamper, OrphanExits, LockAges
<1>13. CASE Time
  BY <1>13, SMTT(30) DEF Time, PauseEnds, DelayPasses
<1>14. CASE UNCHANGED vars
  BY <1>14 DEF vars
<1> QED
  BY <1>1, <1>2, <1>3, <1>4, <1>5, <1>6, <1>7, <1>8, <1>9, <1>10, <1>11,
     <1>12, <1>13, <1>14 DEF Next, Watch

(* Each phase finds in cur, note and todo what its step needs. *)
LEMMA ControlStep == Inv /\ [Next]_vars => Control'
<1> SUFFICES ASSUME Inv, [Next]_vars PROVE Control'
  OBVIOUS
<1>0. ControlTyped /\ Control /\ LoopsTyped /\ DoneTyped
  BY InvParts
<1> USE <1>0, ActorsAssumption, SmallestIsMember, NextIsTask, TargetFacts
    DEF ControlTyped, Control, LoopsTyped, DoneTyped, RetryNote,
    ReapReasons, Notes, LanePhases, RetryPhases, ArchivePhases,
    WatcherPhases, HumanPhases, Actors
<1>1. ASSUME NEW w \in Watchers, Reaping(w) PROVE Control'
  <2>1. CASE EndReap(w) \/ Bury(w) \/ EndBury(w)
    BY <1>1, <2>1, SMTT(30) DEF EndReap, Bury, EndBury
  <2>2. CASE Start(w)
    BY <2>2 DEF Start
  <2>3. CASE ReadLock(w)
    BY <2>3 DEF ReadLock, Reap
  <2>4. CASE MisreadLock(w)
    BY <2>4 DEF MisreadLock, Reap
  <2>5. CASE PassLock(w)
    BY <2>5 DEF PassLock
  <2>6. CASE UnlinkLock(w)
    BY <2>6 DEF UnlinkLock
  <2> QED
    BY <1>1, <2>1, <2>2, <2>3, <2>4, <2>5, <2>6 DEF Reaping
<1>2. ASSUME NEW w \in Watchers, Retrying(w) PROVE Control'
  BY <1>2, SMTT(30) DEF Retrying, MarkStuck, AutoRetry, BeginRetry,
     RetainDead, SkipRetry, RetainNext, RetainMarker, RetainThrows,
     RetainDone, AppendRetry, EndRetries
<1>3. ASSUME NEW w \in Watchers, Deriving(w) PROVE Control'
  BY <1>3, SMTT(30) DEF Deriving, StartTask, StartArchive, LeaveAlone
<1>4. ASSUME NEW w \in Watchers, Checking(w) PROVE Control'
  BY <1>4, SMTT(30) DEF Checking, AuditClear, Auditing, Visited,
     AuditRecertify, AuditRegress, AuditHalts, EndAudit, AfterAudit
<1>5. ASSUME NEW w \in Watchers, Running(w) PROVE Control'
  BY <1>5, SMTT(30) DEF Running, RefuseSeal, Refuse, RefuseEntry, Begin,
     AcquireLock, LockTaken, RefuseStart, Fail, Spawn, AgentExits,
     JudgeFails, JudgePauses, JudgePasses, Release
<1>6. ASSUME NEW w \in Watchers, Finishing(w) PROVE Control'
  BY <1>6, SMTT(30) DEF Finishing, ArchiveWaits, Recheck, VerifyGreen,
     Visited, VerifyRed, RegressTarget, EndVerify, ChangeGreen, ChangeRed,
     Relocate
<1>7. ASSUME NEW w \in Watchers, Crash(w) PROVE Control'
  BY <1>7, SMTT(30) DEF Crash
<1>8. CASE Continue
  BY <1>8, SMTT(30) DEF Continue, Retire, BeginRetry, RetainDead, RetainNext,
     RetainMarker, RetainThrows,
     RetainDone, AppendRetry
<1>9. CASE BeginApproval \/ Approve \/ Decline
  BY <1>9, SMTT(30) DEF BeginApproval, Approve, Decline
<1>10. CASE HumanRetry
  BY <1>10, SMTT(30) DEF HumanRetry, BeginRetry, RetainDead
<1>11. CASE KillHuman
  BY <1>11, SMTT(30) DEF KillHuman
<1>12. CASE EditPlan \/ HumanEditsTree \/ OrphanExits \/ LockAges
  BY <1>12, SMTT(30) DEF EditPlan, HumanEditsTree, OutsideEdit, TreeEdit,
     Tamper, OrphanExits, LockAges
<1>13. CASE Time
  BY <1>13, SMTT(30) DEF Time, PauseEnds, DelayPasses
<1>14. CASE UNCHANGED vars
  BY <1>14 DEF vars
<1> QED
  BY <1>1, <1>2, <1>3, <1>4, <1>5, <1>6, <1>7, <1>8, <1>9, <1>10, <1>11,
     <1>12, <1>13, <1>14 DEF Next, Watch

(* The loops visit targets of this change only. *)
LEMMA LoopsStep == Inv /\ [Next]_vars => LoopsTyped'
<1> SUFFICES ASSUME Inv, [Next]_vars PROVE LoopsTyped'
  OBVIOUS
<1>0. ControlTyped /\ Control /\ LoopsTyped /\ DoneTyped
  BY InvParts
<1> USE <1>0, ActorsAssumption, SmallestIsMember, NextIsTask, TargetFacts
    DEF ControlTyped, Control, LoopsTyped, DoneTyped, Earlier, Steering,
    LanePhases, RetryPhases, ArchivePhases, WatcherPhases, HumanPhases,
    Actors
<1>1. ASSUME NEW w \in Watchers, Reaping(w) PROVE LoopsTyped'
  <2>1. CASE Start(w) \/ ReadLock(w) \/ MisreadLock(w) \/ PassLock(w) \/
             EndReap(w) \/ EndBury(w)
    BY <1>1, <2>1, SMTT(30) DEF Start, ReadLock, Reap, MisreadLock,
       PassLock, EndReap, EndBury
  <2>2. CASE UnlinkLock(w)
    <3>1. <<cur[w], note[w]>> \in Tasks \X ReapReasons
      BY <2>2 DEF UnlinkLock
    <3>2. reaped' \in [Watchers -> SUBSET (Tasks \X ReapReasons)]
      BY <2>2, <3>1 DEF UnlinkLock
    <3> QED
      BY <2>2, <3>2 DEF UnlinkLock
  <2>3. CASE Bury(w)
    BY <2>3 DEF Bury
  <2> QED
    BY <1>1, <2>1, <2>2, <2>3 DEF Reaping
<1>2. ASSUME NEW w \in Watchers, Retrying(w) PROVE LoopsTyped'
  BY <1>2, SMTT(30) DEF Retrying, MarkStuck, AutoRetry, BeginRetry,
     RetainDead, SkipRetry, RetainNext, RetainMarker, RetainThrows,
     RetainDone, AppendRetry, EndRetries
<1>3. ASSUME NEW w \in Watchers, Deriving(w) PROVE LoopsTyped'
  BY <1>3, SMTT(30) DEF Deriving, StartTask, StartArchive, LeaveAlone
<1>4. ASSUME NEW w \in Watchers, Checking(w) PROVE LoopsTyped'
  BY <1>4, SMTT(30) DEF Checking, AuditClear, Auditing, Visited,
     AuditRecertify, AuditRegress, AuditHalts, EndAudit, AfterAudit
<1>5. ASSUME NEW w \in Watchers, Running(w) PROVE LoopsTyped'
  BY <1>5, SMTT(30) DEF Running, RefuseSeal, Refuse, RefuseEntry, Begin,
     AcquireLock, LockTaken, RefuseStart, Fail, Spawn, AgentExits,
     JudgeFails, JudgePauses, JudgePasses, Release
<1>6. ASSUME NEW w \in Watchers, Finishing(w) PROVE LoopsTyped'
  BY <1>6, SMTT(30) DEF Finishing, ArchiveWaits, Recheck, VerifyGreen,
     Visited, VerifyRed, RegressTarget, EndVerify, ChangeGreen, ChangeRed,
     Relocate
<1>7. ASSUME NEW w \in Watchers, Crash(w) PROVE LoopsTyped'
  BY <1>7, SMTT(30) DEF Crash
<1>8. CASE Continue
  BY <1>8, SMTT(30) DEF Continue, Retire, BeginRetry, RetainDead, RetainNext,
     RetainMarker, RetainThrows,
     RetainDone, AppendRetry
<1>9. CASE BeginApproval \/ Approve \/ Decline
  BY <1>9, SMTT(30) DEF BeginApproval, Approve, Decline
<1>10. CASE HumanRetry
  BY <1>10, SMTT(30) DEF HumanRetry, BeginRetry, RetainDead
<1>11. CASE KillHuman
  BY <1>11, SMTT(30) DEF KillHuman
<1>12. CASE EditPlan \/ HumanEditsTree \/ OrphanExits \/ LockAges
  BY <1>12, SMTT(30) DEF EditPlan, HumanEditsTree, OutsideEdit, TreeEdit,
     Tamper, OrphanExits, LockAges
<1>13. CASE Time
  BY <1>13, SMTT(30) DEF Time, PauseEnds, DelayPasses
<1>14. CASE UNCHANGED vars
  BY <1>14 DEF vars
<1> QED
  BY <1>1, <1>2, <1>3, <1>4, <1>5, <1>6, <1>7, <1>8, <1>9, <1>10, <1>11,
     <1>12, <1>13, <1>14 DEF Next, Watch

(* A lock file names a watcher, living or dead. *)
LEMMA LocksStep == Inv /\ [Next]_vars => LocksTyped'
<1> SUFFICES ASSUME Inv, [Next]_vars PROVE LocksTyped'
  OBVIOUS
<1>0. LocksTyped
  BY InvParts
<1> USE <1>0, ActorsAssumption DEF LocksTyped, Seals, Owners, Actors
<1>1. ASSUME NEW w \in Watchers, Reaping(w) PROVE LocksTyped'
  BY <1>1, SMTT(30) DEF Reaping, Start, ReadLock, Reap, MisreadLock,
     PassLock, UnlinkLock, EndReap, Bury, EndBury
<1>2. ASSUME NEW w \in Watchers, Retrying(w) PROVE LocksTyped'
  BY <1>2, SMTT(30) DEF Retrying, MarkStuck, AutoRetry, BeginRetry,
     RetainDead, SkipRetry, RetainNext, RetainMarker, RetainThrows,
     RetainDone, AppendRetry, EndRetries
<1>3. ASSUME NEW w \in Watchers, Deriving(w) PROVE LocksTyped'
  BY <1>3, SMTT(30) DEF Deriving, StartTask, StartArchive, LeaveAlone
<1>4. ASSUME NEW w \in Watchers, Checking(w) PROVE LocksTyped'
  BY <1>4, SMTT(30) DEF Checking, AuditClear, Auditing, Visited,
     AuditRecertify, AuditRegress, AuditHalts, EndAudit, AfterAudit
<1>5. ASSUME NEW w \in Watchers, Running(w) PROVE LocksTyped'
  BY <1>5, SMTT(30) DEF Running, RefuseSeal, Refuse, RefuseEntry, Begin,
     AcquireLock, LockTaken, RefuseStart, Fail, Spawn, AgentExits,
     JudgeFails, JudgePauses, JudgePasses, Release
<1>6. ASSUME NEW w \in Watchers, Finishing(w) PROVE LocksTyped'
  BY <1>6, SMTT(30) DEF Finishing, ArchiveWaits, Recheck, VerifyGreen,
     Visited, VerifyRed, RegressTarget, EndVerify, ChangeGreen, ChangeRed,
     Relocate
<1>7. ASSUME NEW w \in Watchers, Crash(w) PROVE LocksTyped'
  BY <1>7, SMTT(30) DEF Crash
<1>8. CASE Continue
  BY <1>8, SMTT(30) DEF Continue, Retire, BeginRetry, RetainDead, RetainNext,
     RetainMarker, RetainThrows,
     RetainDone, AppendRetry
<1>9. CASE BeginApproval \/ Approve \/ Decline
  BY <1>9, SMTT(30) DEF BeginApproval, Approve, Decline
<1>10. CASE HumanRetry
  BY <1>10, SMTT(30) DEF HumanRetry, BeginRetry, RetainDead
<1>11. CASE KillHuman
  BY <1>11, SMTT(30) DEF KillHuman
<1>12. CASE EditPlan \/ HumanEditsTree \/ OrphanExits \/ LockAges
  BY <1>12, SMTT(30) DEF EditPlan, HumanEditsTree, OutsideEdit, TreeEdit,
     Tamper, OrphanExits, LockAges
<1>13. CASE Time
  BY <1>13, SMTT(30) DEF Time, PauseEnds, DelayPasses
<1>14. CASE UNCHANGED vars
  BY <1>14 DEF vars
<1> QED
  BY <1>1, <1>2, <1>3, <1>4, <1>5, <1>6, <1>7, <1>8, <1>9, <1>10, <1>11,
     <1>12, <1>13, <1>14 DEF Next, Watch

(* Done markers are those of tasks. *)
LEMMA DoneStep == Inv /\ [Next]_vars => DoneTyped'
<1> SUFFICES ASSUME Inv, [Next]_vars PROVE DoneTyped'
  OBVIOUS
<1>0. DoneTyped /\ ControlTyped /\ Control
  BY InvParts
<1> USE <1>0, ActorsAssumption DEF DoneTyped, ControlTyped, Control,
    LanePhases, RetryPhases, ArchivePhases, WatcherPhases, HumanPhases,
    Actors
<1>1. ASSUME NEW w \in Watchers, Reaping(w) PROVE DoneTyped'
  BY <1>1, SMTT(30) DEF Reaping, Start, ReadLock, Reap, MisreadLock,
     PassLock, UnlinkLock, EndReap, Bury, EndBury
<1>2. ASSUME NEW w \in Watchers, Retrying(w) PROVE DoneTyped'
  BY <1>2, SMTT(30) DEF Retrying, MarkStuck, AutoRetry, BeginRetry,
     RetainDead, SkipRetry, RetainNext, RetainMarker, RetainThrows,
     RetainDone, AppendRetry, EndRetries
<1>3. ASSUME NEW w \in Watchers, Deriving(w) PROVE DoneTyped'
  BY <1>3, SMTT(30) DEF Deriving, StartTask, StartArchive, LeaveAlone
<1>4. ASSUME NEW w \in Watchers, Checking(w) PROVE DoneTyped'
  BY <1>4, SMTT(30) DEF Checking, AuditClear, Auditing, Visited,
     AuditRecertify, AuditRegress, AuditHalts, EndAudit, AfterAudit
<1>5. ASSUME NEW w \in Watchers, Running(w) PROVE DoneTyped'
  BY <1>5, SMTT(30) DEF Running, RefuseSeal, Refuse, RefuseEntry, Begin,
     AcquireLock, LockTaken, RefuseStart, Fail, Spawn, AgentExits,
     JudgeFails, JudgePauses, JudgePasses, Release
<1>6. ASSUME NEW w \in Watchers, Finishing(w) PROVE DoneTyped'
  BY <1>6, SMTT(30) DEF Finishing, ArchiveWaits, Recheck, VerifyGreen,
     Visited, VerifyRed, RegressTarget, EndVerify, ChangeGreen, ChangeRed,
     Relocate
<1>7. ASSUME NEW w \in Watchers, Crash(w) PROVE DoneTyped'
  BY <1>7, SMTT(30) DEF Crash
<1>8. CASE Continue
  BY <1>8, SMTT(30) DEF Continue, Retire, BeginRetry, RetainDead, RetainNext,
     RetainMarker, RetainThrows,
     RetainDone, AppendRetry
<1>9. CASE BeginApproval \/ Approve \/ Decline
  BY <1>9, SMTT(30) DEF BeginApproval, Approve, Decline
<1>10. CASE HumanRetry
  BY <1>10, SMTT(30) DEF HumanRetry, BeginRetry, RetainDead
<1>11. CASE KillHuman
  BY <1>11, SMTT(30) DEF KillHuman
<1>12. CASE EditPlan \/ HumanEditsTree \/ OrphanExits \/ LockAges
  BY <1>12, SMTT(30) DEF EditPlan, HumanEditsTree, OutsideEdit, TreeEdit,
     Tamper, OrphanExits, LockAges
<1>13. CASE Time
  BY <1>13, SMTT(30) DEF Time, PauseEnds, DelayPasses
<1>14. CASE UNCHANGED vars
  BY <1>14 DEF vars
<1> QED
  BY <1>1, <1>2, <1>3, <1>4, <1>5, <1>6, <1>7, <1>8, <1>9, <1>10, <1>11,
     <1>12, <1>13, <1>14 DEF Next, Watch

(* A provider delay concerns a task. *)
LEMMA CoolingStep == Inv /\ [Next]_vars => CoolingTyped'
<1> SUFFICES ASSUME Inv, [Next]_vars PROVE CoolingTyped'
  OBVIOUS
<1>0. CoolingTyped /\ ControlTyped /\ Control
  BY InvParts
<1> USE <1>0, ActorsAssumption DEF CoolingTyped, ControlTyped, Control,
    LanePhases, RetryPhases, ArchivePhases, WatcherPhases, HumanPhases,
    Actors, RecordDead
<1>1. ASSUME NEW w \in Watchers, Reaping(w) PROVE CoolingTyped'
  <2>1. CASE Start(w) \/ ReadLock(w) \/ MisreadLock(w) \/ PassLock(w) \/
             UnlinkLock(w) \/ EndReap(w) \/ EndBury(w)
    BY <1>1, <2>1, SMTT(30) DEF Start, ReadLock, Reap, MisreadLock,
       PassLock, UnlinkLock, EndReap, EndBury
  <2>2. CASE Bury(w)
    BY <2>2 DEF Bury
  <2> QED
    BY <1>1, <2>1, <2>2 DEF Reaping
<1>2. ASSUME NEW w \in Watchers, Retrying(w) PROVE CoolingTyped'
  BY <1>2, SMTT(30) DEF Retrying, MarkStuck, AutoRetry, BeginRetry,
     RetainDead, SkipRetry, RetainNext, RetainMarker, RetainThrows,
     RetainDone, AppendRetry, EndRetries
<1>3. ASSUME NEW w \in Watchers, Deriving(w) PROVE CoolingTyped'
  BY <1>3, SMTT(30) DEF Deriving, StartTask, StartArchive, LeaveAlone
<1>4. ASSUME NEW w \in Watchers, Checking(w) PROVE CoolingTyped'
  BY <1>4, SMTT(30) DEF Checking, AuditClear, Auditing, Visited,
     AuditRecertify, AuditRegress, AuditHalts, EndAudit, AfterAudit
<1>5. ASSUME NEW w \in Watchers, Running(w) PROVE CoolingTyped'
  BY <1>5, SMTT(30) DEF Running, RefuseSeal, Refuse, RefuseEntry, Begin,
     AcquireLock, LockTaken, RefuseStart, Fail, Spawn, AgentExits,
     JudgeFails, JudgePauses, JudgePasses, Release
<1>6. ASSUME NEW w \in Watchers, Finishing(w) PROVE CoolingTyped'
  BY <1>6, SMTT(30) DEF Finishing, ArchiveWaits, Recheck, VerifyGreen,
     Visited, VerifyRed, RegressTarget, EndVerify, ChangeGreen, ChangeRed,
     Relocate
<1>7. ASSUME NEW w \in Watchers, Crash(w) PROVE CoolingTyped'
  BY <1>7, SMTT(30) DEF Crash
<1>8. CASE Continue
  BY <1>8, SMTT(30) DEF Continue, Retire, BeginRetry, RetainDead, RetainNext,
     RetainMarker, RetainThrows,
     RetainDone, AppendRetry
<1>9. CASE BeginApproval \/ Approve \/ Decline
  BY <1>9, SMTT(30) DEF BeginApproval, Approve, Decline
<1>10. CASE HumanRetry
  BY <1>10, SMTT(30) DEF HumanRetry, BeginRetry, RetainDead
<1>11. CASE KillHuman
  BY <1>11, SMTT(30) DEF KillHuman
<1>12. CASE EditPlan \/ HumanEditsTree \/ OrphanExits \/ LockAges
  BY <1>12, SMTT(30) DEF EditPlan, HumanEditsTree, OutsideEdit, TreeEdit,
     Tamper, OrphanExits, LockAges
<1>13. CASE Time
  BY <1>13, SMTT(30) DEF Time, PauseEnds, DelayPasses
<1>14. CASE UNCHANGED vars
  BY <1>14 DEF vars
<1> QED
  BY <1>1, <1>2, <1>3, <1>4, <1>5, <1>6, <1>7, <1>8, <1>9, <1>10, <1>11,
     <1>12, <1>13, <1>14 DEF Next, Watch

(* A dead marker has a reason of its own list. *)
LEMMA DeadStep == Inv /\ [Next]_vars => DeadTyped'
<1> SUFFICES ASSUME Inv, [Next]_vars PROVE DeadTyped'
  OBVIOUS
<1>0. DeadTyped
  BY InvParts
<1> USE <1>0, ActorsAssumption DEF DeadTyped
<1>1. ASSUME NEW w \in Watchers, Reaping(w) PROVE DeadTyped'
  <2>1. CASE Start(w) \/ ReadLock(w) \/ MisreadLock(w) \/ PassLock(w) \/
             UnlinkLock(w) \/ EndReap(w) \/ EndBury(w)
    BY <1>1, <2>1, SMTT(30) DEF Start, ReadLock, Reap, MisreadLock,
       PassLock, UnlinkLock, EndReap, EndBury
  <2>2. CASE Bury(w)
    <3>1. PICK t \in Tasks, reason \in ReapReasons :
            RecordDead(t, reason, ReaperPrint)
      BY <2>2 DEF Bury
    <3> QED
      BY <3>1, RecordsDead, MarkerFacts
  <2> QED
    BY <1>1, <2>1, <2>2 DEF Reaping
<1>2. ASSUME NEW w \in Watchers, Retrying(w) PROVE DeadTyped'
  <2>1. CASE AutoRetry(w) \/ SkipRetry(w) \/ RetainNext(w) \/ AppendRetry(w)
             \/ EndRetries(w)
    BY <1>2, <2>1, SMTT(30) DEF AutoRetry, BeginRetry, RetainDead,
       SkipRetry, RetainNext, RetainMarker, RetainThrows, RetainDone,
       AppendRetry, EndRetries
  <2>2. CASE MarkStuck(w)
    <3> DEFINE t == Smallest(todo[w])
    <3>1. dead[t].reason \in Eligible /\ dead' = [dead EXCEPT ![t].stuck = TRUE]
      BY <2>2 DEF MarkStuck, IsStuck
    <3>2. CASE t \in Tasks
      BY <3>1, <3>2, StuckMarker
    <3>3. CASE t \notin Tasks
      BY <3>1, <3>3
    <3> QED
      BY <3>2, <3>3
  <2> QED
    BY <1>2, <2>1, <2>2 DEF Retrying
<1>3. ASSUME NEW w \in Watchers, Deriving(w) PROVE DeadTyped'
  BY <1>3, SMTT(30) DEF Deriving, StartTask, StartArchive, LeaveAlone
<1>4. ASSUME NEW w \in Watchers, Checking(w) PROVE DeadTyped'
  BY <1>4, SMTT(30) DEF Checking, AuditClear, Auditing, Visited,
     AuditRecertify, AuditRegress, AuditHalts, EndAudit, AfterAudit
<1>5. ASSUME NEW w \in Watchers, Running(w) PROVE DeadTyped'
  <2>1. CASE Begin(w) \/ AcquireLock(w) \/ LockTaken(w) \/ Spawn(w) \/
             AgentExits(w) \/ JudgePauses(w) \/ JudgePasses(w) \/ Release(w)
    BY <1>5, <2>1, SMTT(30) DEF Begin, AcquireLock, LockTaken, Spawn,
       AgentExits, JudgePauses, JudgePasses, Release
  <2>2. CASE RefuseSeal(w)
    BY <2>2, RecordsDead, MarkerFacts, SwitchesAssumption
    DEF RefuseSeal, Refuse
  <2>3. CASE RefuseEntry(w)
    BY <2>3, RecordsDead, MarkerFacts, SwitchesAssumption
    DEF RefuseEntry, Refuse
  <2>4. CASE RefuseStart(w)
    BY <2>4, RecordsDead, MarkerFacts, SwitchesAssumption
    DEF RefuseStart, Fail
  <2>5. CASE JudgeFails(w)
    BY <2>5, RecordsDead, MarkerFacts, SwitchesAssumption
    DEF JudgeFails, Fail
  <2> QED
    BY <1>5, <2>1, <2>2, <2>3, <2>4, <2>5 DEF Running
<1>6. ASSUME NEW w \in Watchers, Finishing(w) PROVE DeadTyped'
  BY <1>6, SMTT(30) DEF Finishing, ArchiveWaits, Recheck, VerifyGreen,
     Visited, VerifyRed, RegressTarget, EndVerify, ChangeGreen, ChangeRed,
     Relocate
<1>7. ASSUME NEW w \in Watchers, Crash(w) PROVE DeadTyped'
  BY <1>7, SMTT(30) DEF Crash
<1>8. CASE Continue
  BY <1>8, SMTT(30) DEF Continue, Retire, BeginRetry, RetainDead, RetainNext,
     RetainMarker, RetainThrows,
     RetainDone, AppendRetry
<1>9. CASE BeginApproval \/ Approve \/ Decline
  BY <1>9, SMTT(30) DEF BeginApproval, Approve, Decline
<1>10. CASE HumanRetry
  BY <1>10, SMTT(30) DEF HumanRetry, BeginRetry, RetainDead
<1>11. CASE KillHuman
  BY <1>11, SMTT(30) DEF KillHuman
<1>12. CASE EditPlan \/ HumanEditsTree \/ OrphanExits \/ LockAges
  BY <1>12, SMTT(30) DEF EditPlan, HumanEditsTree, OutsideEdit, TreeEdit,
     Tamper, OrphanExits, LockAges
<1>13. CASE Time
  BY <1>13, SMTT(30) DEF Time, PauseEnds, DelayPasses
<1>14. CASE UNCHANGED vars
  BY <1>14 DEF vars
<1> QED
  BY <1>1, <1>2, <1>3, <1>4, <1>5, <1>6, <1>7, <1>8, <1>9, <1>10, <1>11,
     <1>12, <1>13, <1>14 DEF Next, Watch

(* A retained marker is one that was active. *)
LEMMA LastStep == Inv /\ [Next]_vars => LastTyped'
<1> SUFFICES ASSUME Inv, [Next]_vars PROVE LastTyped'
  OBVIOUS
<1>0. LastTyped /\ DeadTyped
  BY InvParts
<1> USE <1>0, ActorsAssumption DEF LastTyped, DeadTyped
<1>1. ASSUME NEW w \in Watchers, Reaping(w) PROVE LastTyped'
  BY <1>1, SMTT(30) DEF Reaping, Start, ReadLock, Reap, MisreadLock,
     PassLock, UnlinkLock, EndReap, Bury, EndBury
<1>2. ASSUME NEW w \in Watchers, Retrying(w) PROVE LastTyped'
  BY <1>2, SMTT(30) DEF Retrying, MarkStuck, AutoRetry, BeginRetry,
     RetainDead, SkipRetry, RetainNext, RetainMarker, RetainThrows,
     RetainDone, AppendRetry, EndRetries
<1>3. ASSUME NEW w \in Watchers, Deriving(w) PROVE LastTyped'
  BY <1>3, SMTT(30) DEF Deriving, StartTask, StartArchive, LeaveAlone
<1>4. ASSUME NEW w \in Watchers, Checking(w) PROVE LastTyped'
  BY <1>4, SMTT(30) DEF Checking, AuditClear, Auditing, Visited,
     AuditRecertify, AuditRegress, AuditHalts, EndAudit, AfterAudit
<1>5. ASSUME NEW w \in Watchers, Running(w) PROVE LastTyped'
  BY <1>5, SMTT(30) DEF Running, RefuseSeal, Refuse, RefuseEntry, Begin,
     AcquireLock, LockTaken, RefuseStart, Fail, Spawn, AgentExits,
     JudgeFails, JudgePauses, JudgePasses, Release
<1>6. ASSUME NEW w \in Watchers, Finishing(w) PROVE LastTyped'
  BY <1>6, SMTT(30) DEF Finishing, ArchiveWaits, Recheck, VerifyGreen,
     Visited, VerifyRed, RegressTarget, EndVerify, ChangeGreen, ChangeRed,
     Relocate
<1>7. ASSUME NEW w \in Watchers, Crash(w) PROVE LastTyped'
  BY <1>7, SMTT(30) DEF Crash
<1>8. CASE Continue
  BY <1>8, SMTT(30) DEF Continue, Retire, BeginRetry, RetainDead, RetainNext,
     RetainMarker, RetainThrows,
     RetainDone, AppendRetry
<1>9. CASE BeginApproval \/ Approve \/ Decline
  BY <1>9, SMTT(30) DEF BeginApproval, Approve, Decline
<1>10. CASE HumanRetry
  BY <1>10, SMTT(30) DEF HumanRetry, BeginRetry, RetainDead
<1>11. CASE KillHuman
  BY <1>11, SMTT(30) DEF KillHuman
<1>12. CASE EditPlan \/ HumanEditsTree \/ OrphanExits \/ LockAges
  BY <1>12, SMTT(30) DEF EditPlan, HumanEditsTree, OutsideEdit, TreeEdit,
     Tamper, OrphanExits, LockAges
<1>13. CASE Time
  BY <1>13, SMTT(30) DEF Time, PauseEnds, DelayPasses
<1>14. CASE UNCHANGED vars
  BY <1>14 DEF vars
<1> QED
  BY <1>1, <1>2, <1>3, <1>4, <1>5, <1>6, <1>7, <1>8, <1>9, <1>10, <1>11,
     <1>12, <1>13, <1>14 DEF Next, Watch

(* A regressed marker has one of the two reasons. *)
LEMMA RegressStep == Inv /\ [Next]_vars => RegressTyped'
<1> SUFFICES ASSUME Inv, [Next]_vars PROVE RegressTyped'
  OBVIOUS
<1>0. RegressTyped
  BY InvParts
<1> USE <1>0, ActorsAssumption DEF RegressTyped, RegressedMarkers
<1>1. ASSUME NEW w \in Watchers, Reaping(w) PROVE RegressTyped'
  BY <1>1, SMTT(30) DEF Reaping, Start, ReadLock, Reap, MisreadLock,
     PassLock, UnlinkLock, EndReap, Bury, EndBury
<1>2. ASSUME NEW w \in Watchers, Retrying(w) PROVE RegressTyped'
  BY <1>2, SMTT(30) DEF Retrying, MarkStuck, AutoRetry, BeginRetry,
     RetainDead, SkipRetry, RetainNext, RetainMarker, RetainThrows,
     RetainDone, AppendRetry, EndRetries
<1>3. ASSUME NEW w \in Watchers, Deriving(w) PROVE RegressTyped'
  BY <1>3, SMTT(30) DEF Deriving, StartTask, StartArchive, LeaveAlone
<1>4. ASSUME NEW w \in Watchers, Checking(w) PROVE RegressTyped'
  <2>1. CASE AuditClear(w) \/ AuditRecertify(w) \/ AuditHalts(w) \/
             EndAudit(w)
    BY <1>4, <2>1, SMTT(30) DEF AuditClear, Auditing, Visited,
       AuditRecertify, AuditHalts, EndAudit, AfterAudit
  <2>2. CASE AuditRegress(w)
    <3> DEFINE passes == Smallest(todo[w]) \in green
    <3>1. passes \in BOOLEAN
      OBVIOUS
    <3>2. [reason |-> "scope_regression", passed |-> passes]
             \in RegressedMarkers
      BY <3>1, NewRegressed, Zenon
    <3>3. regressed' = [regressed EXCEPT ![Smallest(todo[w])] =
                         [reason |-> "scope_regression", passed |-> passes]]
      BY <2>2, Zenon DEF AuditRegress
    <3> HIDE DEF passes
    <3> QED
      BY <3>2, <3>3
  <2> QED
    BY <1>4, <2>1, <2>2 DEF Checking
<1>5. ASSUME NEW w \in Watchers, Running(w) PROVE RegressTyped'
  BY <1>5, SMTT(30) DEF Running, RefuseSeal, Refuse, RefuseEntry, Begin,
     AcquireLock, LockTaken, RefuseStart, Fail, Spawn, AgentExits,
     JudgeFails, JudgePauses, JudgePasses, Release
<1>6. ASSUME NEW w \in Watchers, Finishing(w) PROVE RegressTyped'
  <2>1. CASE ArchiveWaits(w) \/ Recheck(w) \/ VerifyGreen(w) \/ EndVerify(w)
             \/ ChangeGreen(w) \/ Relocate(w)
    BY <1>6, <2>1, SMTT(30) DEF ArchiveWaits, Recheck, VerifyGreen,
       Visited, EndVerify, ChangeGreen, Relocate
  <2>2. CASE VerifyRed(w)
    BY <2>2 DEF VerifyRed, RegressTarget
  <2>3. CASE ChangeRed(w)
    BY <2>3 DEF ChangeRed, RegressTarget
  <2> QED
    BY <1>6, <2>1, <2>2, <2>3 DEF Finishing
<1>7. ASSUME NEW w \in Watchers, Crash(w) PROVE RegressTyped'
  BY <1>7, SMTT(30) DEF Crash
<1>8. CASE Continue
  BY <1>8, SMTT(30) DEF Continue, Retire, BeginRetry, RetainDead, RetainNext,
     RetainMarker, RetainThrows,
     RetainDone, AppendRetry
<1>9. CASE BeginApproval \/ Approve \/ Decline
  BY <1>9, SMTT(30) DEF BeginApproval, Approve, Decline
<1>10. CASE HumanRetry
  BY <1>10, SMTT(30) DEF HumanRetry, BeginRetry, RetainDead
<1>11. CASE KillHuman
  BY <1>11, SMTT(30) DEF KillHuman
<1>12. CASE EditPlan \/ HumanEditsTree \/ OrphanExits \/ LockAges
  BY <1>12, SMTT(30) DEF EditPlan, HumanEditsTree, OutsideEdit, TreeEdit,
     Tamper, OrphanExits, LockAges
<1>13. CASE Time
  BY <1>13, SMTT(30) DEF Time, PauseEnds, DelayPasses
<1>14. CASE UNCHANGED vars
  BY <1>14 DEF vars
<1> QED
  BY <1>1, <1>2, <1>3, <1>4, <1>5, <1>6, <1>7, <1>8, <1>9, <1>10, <1>11,
     <1>12, <1>13, <1>14 DEF Next, Watch

(* The counts of a stream are natural numbers. *)
LEMMA EventsStep == Inv /\ [Next]_vars => EventsTyped'
<1> SUFFICES ASSUME Inv, [Next]_vars PROVE EventsTyped'
  OBVIOUS
<1>0. EventsTyped /\ ControlTyped /\ Control
  BY InvParts
<1> USE <1>0, ActorsAssumption DEF EventsTyped, ControlTyped, Control,
    Streams, LanePhases, RetryPhases, ArchivePhases, WatcherPhases,
    HumanPhases, Actors
<1>1. ASSUME NEW w \in Watchers, Reaping(w) PROVE EventsTyped'
  BY <1>1, SMTT(30) DEF Reaping, Start, ReadLock, Reap, MisreadLock,
     PassLock, UnlinkLock, EndReap, Bury, EndBury
<1>2. ASSUME NEW w \in Watchers, Retrying(w) PROVE EventsTyped'
  <2>1. CASE MarkStuck(w) \/ AutoRetry(w) \/ SkipRetry(w) \/ RetainNext(w) \/
             EndRetries(w)
    BY <1>2, <2>1, SMTT(30) DEF MarkStuck, AutoRetry, BeginRetry,
       RetainDead, SkipRetry, RetainNext, RetainMarker, RetainThrows,
       RetainDone, EndRetries
  <2>2. CASE AppendRetry(w)
    BY <2>2, AppendedStream DEF AppendRetry
  <2> QED
    BY <1>2, <2>1, <2>2 DEF Retrying
<1>3. ASSUME NEW w \in Watchers, Deriving(w) PROVE EventsTyped'
  BY <1>3, SMTT(30) DEF Deriving, StartTask, StartArchive, LeaveAlone
<1>4. ASSUME NEW w \in Watchers, Checking(w) PROVE EventsTyped'
  BY <1>4, SMTT(30) DEF Checking, AuditClear, Auditing, Visited,
     AuditRecertify, AuditRegress, AuditHalts, EndAudit, AfterAudit
<1>5. ASSUME NEW w \in Watchers, Running(w) PROVE EventsTyped'
  BY <1>5, SMTT(30) DEF Running, RefuseSeal, Refuse, RefuseEntry, Begin,
     AcquireLock, LockTaken, RefuseStart, Fail, Spawn, AgentExits,
     JudgeFails, JudgePauses, JudgePasses, Release
<1>6. ASSUME NEW w \in Watchers, Finishing(w) PROVE EventsTyped'
  BY <1>6, SMTT(30) DEF Finishing, ArchiveWaits, Recheck, VerifyGreen,
     Visited, VerifyRed, RegressTarget, EndVerify, ChangeGreen, ChangeRed,
     Relocate
<1>7. ASSUME NEW w \in Watchers, Crash(w) PROVE EventsTyped'
  BY <1>7, SMTT(30) DEF Crash
<1>8. CASE Continue
  <2>1. CASE Retire \/ RetainNext(Human)
    BY <1>8, <2>1, SMTT(30) DEF Retire, BeginRetry, RetainDead, RetainNext,
       RetainMarker, RetainThrows,
       RetainDone
  <2>2. CASE AppendRetry(Human)
    BY <2>2, AppendedStream DEF AppendRetry
  <2> QED
    BY <1>8, <2>1, <2>2 DEF Continue
<1>9. CASE BeginApproval \/ Approve \/ Decline
  BY <1>9, SMTT(30) DEF BeginApproval, Approve, Decline
<1>10. CASE HumanRetry
  BY <1>10, SMTT(30) DEF HumanRetry, BeginRetry, RetainDead
<1>11. CASE KillHuman
  BY <1>11, SMTT(30) DEF KillHuman
<1>12. CASE EditPlan \/ HumanEditsTree \/ OrphanExits \/ LockAges
  BY <1>12, SMTT(30) DEF EditPlan, HumanEditsTree, OutsideEdit, TreeEdit,
     Tamper, OrphanExits, LockAges
<1>13. CASE Time
  BY <1>13, SMTT(30) DEF Time, PauseEnds, DelayPasses
<1>14. CASE UNCHANGED vars
  BY <1>14 DEF vars
<1> QED
  BY <1>1, <1>2, <1>3, <1>4, <1>5, <1>6, <1>7, <1>8, <1>9, <1>10, <1>11,
     <1>12, <1>13, <1>14 DEF Next, Watch

(* Verifies are those of tasks. *)
LEMMA GreenStep == Inv /\ [Next]_vars => GreenTyped'
<1> SUFFICES ASSUME Inv, [Next]_vars PROVE GreenTyped'
  OBVIOUS
<1>0. GreenTyped /\ OrphansTyped
  BY InvParts
<1> USE <1>0, ActorsAssumption DEF GreenTyped, OrphansTyped, TreeEdit
<1>1. ASSUME NEW w \in Watchers, Reaping(w) PROVE GreenTyped'
  BY <1>1, SMTT(30) DEF Reaping, Start, ReadLock, Reap, MisreadLock,
     PassLock, UnlinkLock, EndReap, Bury, EndBury
<1>2. ASSUME NEW w \in Watchers, Retrying(w) PROVE GreenTyped'
  BY <1>2, SMTT(30) DEF Retrying, MarkStuck, AutoRetry, BeginRetry,
     RetainDead, SkipRetry, RetainNext, RetainMarker, RetainThrows,
     RetainDone, AppendRetry, EndRetries
<1>3. ASSUME NEW w \in Watchers, Deriving(w) PROVE GreenTyped'
  BY <1>3, SMTT(30) DEF Deriving, StartTask, StartArchive, LeaveAlone
<1>4. ASSUME NEW w \in Watchers, Checking(w) PROVE GreenTyped'
  BY <1>4, SMTT(30) DEF Checking, AuditClear, Auditing, Visited,
     AuditRecertify, AuditRegress, AuditHalts, EndAudit, AfterAudit
<1>5. ASSUME NEW w \in Watchers, Running(w) PROVE GreenTyped'
  BY <1>5, SMTT(30) DEF Running, RefuseSeal, Refuse, RefuseEntry, Begin,
     AcquireLock, LockTaken, RefuseStart, Fail, Spawn, AgentExits,
     JudgeFails, JudgePauses, JudgePasses, Release
<1>6. ASSUME NEW w \in Watchers, Finishing(w) PROVE GreenTyped'
  BY <1>6, SMTT(30) DEF Finishing, ArchiveWaits, Recheck, VerifyGreen,
     Visited, VerifyRed, RegressTarget, EndVerify, ChangeGreen, ChangeRed,
     Relocate
<1>7. ASSUME NEW w \in Watchers, Crash(w) PROVE GreenTyped'
  BY <1>7, SMTT(30) DEF Crash
<1>8. CASE Continue
  BY <1>8, SMTT(30) DEF Continue, Retire, BeginRetry, RetainDead, RetainNext,
     RetainMarker, RetainThrows,
     RetainDone, AppendRetry
<1>9. CASE BeginApproval \/ Approve \/ Decline
  BY <1>9, SMTT(30) DEF BeginApproval, Approve, Decline
<1>10. CASE HumanRetry
  BY <1>10, SMTT(30) DEF HumanRetry, BeginRetry, RetainDead
<1>11. CASE KillHuman
  BY <1>11, SMTT(30) DEF KillHuman
<1>12. CASE EditPlan \/ HumanEditsTree \/ OrphanExits \/ LockAges
  <2>1. CASE EditPlan \/ LockAges
    BY <1>12, <2>1, SMTT(30) DEF EditPlan, LockAges
  <2>2. CASE HumanEditsTree
    BY <2>2 DEF HumanEditsTree, OutsideEdit, TreeEdit, Tamper
  <2>3. CASE OrphanExits
    BY <2>3 DEF OrphanExits, OutsideEdit, TreeEdit, Tamper
  <2> QED
    BY <1>12, <2>1, <2>2, <2>3
<1>13. CASE Time
  BY <1>13, SMTT(30) DEF Time, PauseEnds, DelayPasses
<1>14. CASE UNCHANGED vars
  BY <1>14 DEF vars
<1> QED
  BY <1>1, <1>2, <1>3, <1>4, <1>5, <1>6, <1>7, <1>8, <1>9, <1>10, <1>11,
     <1>12, <1>13, <1>14 DEF Next, Watch

(* Every task's scope has one of the four relations to its marker. *)
LEMMA DriftStep == Inv /\ [Next]_vars => DriftTyped'
<1> SUFFICES ASSUME Inv, [Next]_vars PROVE DriftTyped'
  OBVIOUS
<1>0. DriftTyped
  BY InvParts
<1> USE <1>0, ActorsAssumption DEF DriftTyped, Unaccounted, Drifts
<1>1. ASSUME NEW w \in Watchers, Reaping(w) PROVE DriftTyped'
  BY <1>1, SMTT(30) DEF Reaping, Start, ReadLock, Reap, MisreadLock,
     PassLock, UnlinkLock, EndReap, Bury, EndBury
<1>2. ASSUME NEW w \in Watchers, Retrying(w) PROVE DriftTyped'
  BY <1>2, SMTT(30) DEF Retrying, MarkStuck, AutoRetry, BeginRetry,
     RetainDead, SkipRetry, RetainNext, RetainMarker, RetainThrows,
     RetainDone, AppendRetry, EndRetries
<1>3. ASSUME NEW w \in Watchers, Deriving(w) PROVE DriftTyped'
  BY <1>3, SMTT(30) DEF Deriving, StartTask, StartArchive, LeaveAlone
<1>4. ASSUME NEW w \in Watchers, Checking(w) PROVE DriftTyped'
  BY <1>4, SMTT(30) DEF Checking, AuditClear, Auditing, Visited,
     AuditRecertify, AuditRegress, AuditHalts, EndAudit, AfterAudit
<1>5. ASSUME NEW w \in Watchers, Running(w) PROVE DriftTyped'
  <2>1. CASE RefuseSeal(w) \/ RefuseEntry(w) \/ Begin(w) \/ AcquireLock(w) \/
             LockTaken(w) \/ Spawn(w) \/ Release(w)
    BY <1>5, <2>1, SMTT(30) DEF RefuseSeal, Refuse, RefuseEntry, Begin,
       AcquireLock, LockTaken, Spawn, Release
  <2>2. CASE RefuseStart(w)
    BY <2>2, MeasuredTyped DEF RefuseStart
  <2>3. CASE AgentExits(w)
    BY <2>3, TreeEditTyped DEF AgentExits
  <2>4. CASE JudgeFails(w)
    BY <2>4, MeasuredTyped DEF JudgeFails
  <2>5. CASE JudgePauses(w)
    BY <2>5, MeasuredTyped DEF JudgePauses
  <2>6. CASE JudgePasses(w)
    BY <2>6, MeasuredTyped DEF JudgePasses
  <2> QED
    BY <1>5, <2>1, <2>2, <2>3, <2>4, <2>5, <2>6 DEF Running
<1>6. ASSUME NEW w \in Watchers, Finishing(w) PROVE DriftTyped'
  BY <1>6, SMTT(30) DEF Finishing, ArchiveWaits, Recheck, VerifyGreen,
     Visited, VerifyRed, RegressTarget, EndVerify, ChangeGreen, ChangeRed,
     Relocate
<1>7. ASSUME NEW w \in Watchers, Crash(w) PROVE DriftTyped'
  BY <1>7, SMTT(30) DEF Crash
<1>8. CASE Continue
  BY <1>8, SMTT(30) DEF Continue, Retire, BeginRetry, RetainDead, RetainNext,
     RetainMarker, RetainThrows,
     RetainDone, AppendRetry
<1>9. CASE BeginApproval \/ Approve \/ Decline
  BY <1>9, SMTT(30) DEF BeginApproval, Approve, Decline
<1>10. CASE HumanRetry
  <2>1. PICK t \in Targets : BeginRetry(Human, t)
    BY <1>10 DEF HumanRetry
  <2>2. drift' \in {drift, [drift EXCEPT ![t] = "same"]}
    BY <2>1, Zenon DEF BeginRetry
  <2> QED
    BY <2>2
<1>11. CASE KillHuman
  BY <1>11, SMTT(30) DEF KillHuman
<1>12. CASE EditPlan \/ HumanEditsTree \/ OrphanExits \/ LockAges
  <2>1. CASE EditPlan \/ LockAges
    BY <1>12, <2>1, SMTT(30) DEF EditPlan, LockAges
  <2>2. CASE HumanEditsTree
    BY <2>2, TreeEditTyped DEF HumanEditsTree, OutsideEdit
  <2>3. CASE OrphanExits
    BY <2>3, TreeEditTyped DEF OrphanExits, OutsideEdit
  <2> QED
    BY <1>12, <2>1, <2>2, <2>3
<1>13. CASE Time
  BY <1>13, SMTT(30) DEF Time, PauseEnds, DelayPasses
<1>14. CASE UNCHANGED vars
  BY <1>14 DEF vars
<1> QED
  BY <1>1, <1>2, <1>3, <1>4, <1>5, <1>6, <1>7, <1>8, <1>9, <1>10, <1>11,
     <1>12, <1>13, <1>14 DEF Next, Watch

(* Orphans work on tasks. *)
LEMMA OrphansStep == Inv /\ [Next]_vars => OrphansTyped'
<1> SUFFICES ASSUME Inv, [Next]_vars PROVE OrphansTyped'
  OBVIOUS
<1>0. OrphansTyped /\ ControlTyped /\ Control
  BY InvParts
<1> USE <1>0, ActorsAssumption DEF OrphansTyped, ControlTyped, Control,
    LanePhases, RetryPhases, ArchivePhases, WatcherPhases, HumanPhases,
    Actors
<1>1. ASSUME NEW w \in Watchers, Reaping(w) PROVE OrphansTyped'
  BY <1>1, SMTT(30) DEF Reaping, Start, ReadLock, Reap, MisreadLock,
     PassLock, UnlinkLock, EndReap, Bury, EndBury
<1>2. ASSUME NEW w \in Watchers, Retrying(w) PROVE OrphansTyped'
  BY <1>2, SMTT(30) DEF Retrying, MarkStuck, AutoRetry, BeginRetry,
     RetainDead, SkipRetry, RetainNext, RetainMarker, RetainThrows,
     RetainDone, AppendRetry, EndRetries
<1>3. ASSUME NEW w \in Watchers, Deriving(w) PROVE OrphansTyped'
  BY <1>3, SMTT(30) DEF Deriving, StartTask, StartArchive, LeaveAlone
<1>4. ASSUME NEW w \in Watchers, Checking(w) PROVE OrphansTyped'
  BY <1>4, SMTT(30) DEF Checking, AuditClear, Auditing, Visited,
     AuditRecertify, AuditRegress, AuditHalts, EndAudit, AfterAudit
<1>5. ASSUME NEW w \in Watchers, Running(w) PROVE OrphansTyped'
  BY <1>5, SMTT(30) DEF Running, RefuseSeal, Refuse, RefuseEntry, Begin,
     AcquireLock, LockTaken, RefuseStart, Fail, Spawn, AgentExits,
     JudgeFails, JudgePauses, JudgePasses, Release
<1>6. ASSUME NEW w \in Watchers, Finishing(w) PROVE OrphansTyped'
  BY <1>6, SMTT(30) DEF Finishing, ArchiveWaits, Recheck, VerifyGreen,
     Visited, VerifyRed, RegressTarget, EndVerify, ChangeGreen, ChangeRed,
     Relocate
<1>7. ASSUME NEW w \in Watchers, Crash(w) PROVE OrphansTyped'
  BY <1>7, SMTT(30) DEF Crash
<1>8. CASE Continue
  BY <1>8, SMTT(30) DEF Continue, Retire, BeginRetry, RetainDead, RetainNext,
     RetainMarker, RetainThrows,
     RetainDone, AppendRetry
<1>9. CASE BeginApproval \/ Approve \/ Decline
  BY <1>9, SMTT(30) DEF BeginApproval, Approve, Decline
<1>10. CASE HumanRetry
  BY <1>10, SMTT(30) DEF HumanRetry, BeginRetry, RetainDead
<1>11. CASE KillHuman
  BY <1>11, SMTT(30) DEF KillHuman
<1>12. CASE EditPlan \/ HumanEditsTree \/ OrphanExits \/ LockAges
  BY <1>12, SMTT(30) DEF EditPlan, HumanEditsTree, OutsideEdit, TreeEdit,
     Tamper, OrphanExits, LockAges
<1>13. CASE Time
  BY <1>13, SMTT(30) DEF Time, PauseEnds, DelayPasses
<1>14. CASE UNCHANGED vars
  BY <1>14 DEF vars
<1> QED
  BY <1>1, <1>2, <1>3, <1>4, <1>5, <1>6, <1>7, <1>8, <1>9, <1>10, <1>11,
     <1>12, <1>13, <1>14 DEF Next, Watch

(* Interference is with the tree or with a done marker. *)
LEMMA TamperStep == Inv /\ [Next]_vars => TamperTyped'
<1> SUFFICES ASSUME Inv, [Next]_vars PROVE TamperTyped'
  OBVIOUS
<1>0. TamperTyped
  BY InvParts
<1> USE <1>0, ActorsAssumption, InterferenceFacts DEF TamperTyped, Tamper
<1>1. ASSUME NEW w \in Watchers, Reaping(w) PROVE TamperTyped'
  BY <1>1, SMTT(30) DEF Reaping, Start, ReadLock, Reap, MisreadLock,
     PassLock, UnlinkLock, EndReap, Bury, EndBury
<1>2. ASSUME NEW w \in Watchers, Retrying(w) PROVE TamperTyped'
  <2>1. CASE MarkStuck(w) \/ AutoRetry(w) \/ SkipRetry(w) \/ AppendRetry(w) \/
             EndRetries(w)
    BY <1>2, <2>1, SMTT(30) DEF MarkStuck, AutoRetry, BeginRetry,
       RetainDead, SkipRetry, AppendRetry, EndRetries
  <2>2. CASE RetainNext(w)
    BY <2>2 DEF RetainNext, RetainMarker, RetainThrows, RetainDead, RetainDone
  <2> QED
    BY <1>2, <2>1, <2>2 DEF Retrying
<1>3. ASSUME NEW w \in Watchers, Deriving(w) PROVE TamperTyped'
  BY <1>3, SMTT(30) DEF Deriving, StartTask, StartArchive, LeaveAlone
<1>4. ASSUME NEW w \in Watchers, Checking(w) PROVE TamperTyped'
  BY <1>4, SMTT(30) DEF Checking, AuditClear, Auditing, Visited,
     AuditRecertify, AuditRegress, AuditHalts, EndAudit, AfterAudit
<1>5. ASSUME NEW w \in Watchers, Running(w) PROVE TamperTyped'
  BY <1>5, SMTT(30) DEF Running, RefuseSeal, Refuse, RefuseEntry, Begin,
     AcquireLock, LockTaken, RefuseStart, Fail, Spawn, AgentExits,
     JudgeFails, JudgePauses, JudgePasses, Release
<1>6. ASSUME NEW w \in Watchers, Finishing(w) PROVE TamperTyped'
  BY <1>6, SMTT(30) DEF Finishing, ArchiveWaits, Recheck, VerifyGreen,
     Visited, VerifyRed, RegressTarget, EndVerify, ChangeGreen, ChangeRed,
     Relocate
<1>7. ASSUME NEW w \in Watchers, Crash(w) PROVE TamperTyped'
  BY <1>7, SMTT(30) DEF Crash
<1>8. CASE Continue
  <2>1. CASE Retire \/ AppendRetry(Human)
    BY <1>8, <2>1, SMTT(30) DEF Retire, BeginRetry, RetainDead, AppendRetry
  <2>2. CASE RetainNext(Human)
    BY <2>2 DEF RetainNext, RetainMarker, RetainThrows, RetainDead, RetainDone
  <2> QED
    BY <1>8, <2>1, <2>2 DEF Continue
<1>9. CASE BeginApproval \/ Approve \/ Decline
  BY <1>9, SMTT(30) DEF BeginApproval, Approve, Decline
<1>10. CASE HumanRetry
  BY <1>10, SMTT(30) DEF HumanRetry, BeginRetry, RetainDead
<1>11. CASE KillHuman
  BY <1>11, SMTT(30) DEF KillHuman
<1>12. CASE EditPlan \/ HumanEditsTree \/ OrphanExits \/ LockAges
  BY <1>12, SMTT(30) DEF EditPlan, HumanEditsTree, OutsideEdit, TreeEdit,
     Tamper, OrphanExits, LockAges
<1>13. CASE Time
  BY <1>13, SMTT(30) DEF Time, PauseEnds, DelayPasses
<1>14. CASE UNCHANGED vars
  BY <1>14 DEF vars
<1> QED
  BY <1>1, <1>2, <1>3, <1>4, <1>5, <1>6, <1>7, <1>8, <1>9, <1>10, <1>11,
     <1>12, <1>13, <1>14 DEF Next, Watch

(* No count goes below zero. *)
LEMMA CountsStep == Inv /\ [Next]_vars => CountsTyped'
<1> SUFFICES ASSUME Inv, [Next]_vars PROVE CountsTyped'
  OBVIOUS
<1>0. CountsTyped
  BY InvParts
<1> USE <1>0, ActorsAssumption DEF CountsTyped, Kinds
<1>1. ASSUME NEW w \in Watchers, Reaping(w) PROVE CountsTyped'
  BY <1>1, SMTT(30) DEF Reaping, Start, ReadLock, Reap, MisreadLock,
     PassLock, UnlinkLock, EndReap, Bury, EndBury
<1>2. ASSUME NEW w \in Watchers, Retrying(w) PROVE CountsTyped'
  BY <1>2, SMTT(30) DEF Retrying, MarkStuck, AutoRetry, BeginRetry,
     RetainDead, SkipRetry, RetainNext, RetainMarker, RetainThrows,
     RetainDone, AppendRetry, EndRetries
<1>3. ASSUME NEW w \in Watchers, Deriving(w) PROVE CountsTyped'
  BY <1>3, SMTT(30) DEF Deriving, StartTask, StartArchive, LeaveAlone
<1>4. ASSUME NEW w \in Watchers, Checking(w) PROVE CountsTyped'
  BY <1>4, SMTT(30) DEF Checking, AuditClear, Auditing, Visited,
     AuditRecertify, AuditRegress, AuditHalts, EndAudit, AfterAudit
<1>5. ASSUME NEW w \in Watchers, Running(w) PROVE CountsTyped'
  BY <1>5, SMTT(30) DEF Running, RefuseSeal, Refuse, RefuseEntry, Begin,
     AcquireLock, LockTaken, RefuseStart, Fail, Spawn, AgentExits,
     JudgeFails, JudgePauses, JudgePasses, Release
<1>6. ASSUME NEW w \in Watchers, Finishing(w) PROVE CountsTyped'
  BY <1>6, SMTT(30) DEF Finishing, ArchiveWaits, Recheck, VerifyGreen,
     Visited, VerifyRed, RegressTarget, EndVerify, ChangeGreen, ChangeRed,
     Relocate
<1>7. ASSUME NEW w \in Watchers, Crash(w) PROVE CountsTyped'
  BY <1>7, SMTT(30) DEF Crash
<1>8. CASE Continue
  BY <1>8, SMTT(30) DEF Continue, Retire, BeginRetry, RetainDead, RetainNext,
     RetainMarker, RetainThrows,
     RetainDone, AppendRetry
<1>9. CASE BeginApproval \/ Approve \/ Decline
  BY <1>9, SMTT(30) DEF BeginApproval, Approve, Decline
<1>10. CASE HumanRetry
  <2>1. (budget \in [Kinds -> Nat])'
    BY <1>10 DEF HumanRetry
  <2>2. PICK t \in Targets : BeginRetry(Human, t)
    BY <1>10 DEF HumanRetry
  <2>3. spent' \in {spent, [spent EXCEPT ![t] = @ + 1]}
    BY <2>2, Zenon DEF BeginRetry
  <2>4. (spent \in [Tasks -> Nat])'
    BY <2>3
  <2> QED
    BY <2>1, <2>4
<1>11. CASE KillHuman
  BY <1>11, SMTT(30) DEF KillHuman
<1>12. CASE EditPlan \/ HumanEditsTree \/ OrphanExits \/ LockAges
  BY <1>12, SMTT(30) DEF EditPlan, HumanEditsTree, OutsideEdit, TreeEdit,
     Tamper, OrphanExits, LockAges
<1>13. CASE Time
  BY <1>13, SMTT(30) DEF Time, PauseEnds, DelayPasses
<1>14. CASE UNCHANGED vars
  BY <1>14 DEF vars
<1> QED
  BY <1>1, <1>2, <1>3, <1>4, <1>5, <1>6, <1>7, <1>8, <1>9, <1>10, <1>11,
     <1>12, <1>13, <1>14 DEF Next, Watch

(* The pause is there or it is not. *)
LEMMA PauseStep == Inv /\ [Next]_vars => PauseTyped'
<1> SUFFICES ASSUME Inv, [Next]_vars PROVE PauseTyped'
  OBVIOUS
<1>0. PauseTyped
  BY InvParts
<1> USE <1>0 DEF PauseTyped
<1>1. ASSUME NEW w \in Watchers, Reaping(w) PROVE PauseTyped'
  BY <1>1, Zenon DEF Reaping, Start, ReadLock, Reap, MisreadLock, PassLock,
     UnlinkLock, EndReap, Bury, EndBury
<1>2. ASSUME NEW w \in Watchers, Retrying(w) PROVE PauseTyped'
  BY <1>2, Zenon DEF Retrying, MarkStuck, AutoRetry, BeginRetry, RetainDead,
     SkipRetry, RetainNext, RetainMarker, RetainThrows, RetainDone,
     AppendRetry, EndRetries
<1>3. ASSUME NEW w \in Watchers, Deriving(w) PROVE PauseTyped'
  BY <1>3, Zenon DEF Deriving, StartTask, StartArchive, LeaveAlone
<1>4. ASSUME NEW w \in Watchers, Checking(w) PROVE PauseTyped'
  BY <1>4, Zenon DEF Checking, AuditClear, Auditing, Visited, AuditRecertify,
     AuditRegress, AuditHalts, EndAudit, AfterAudit
<1>5. ASSUME NEW w \in Watchers, Running(w) PROVE PauseTyped'
  BY <1>5, Zenon DEF Running, RefuseSeal, Refuse, RefuseEntry, Begin,
     AcquireLock, LockTaken, RefuseStart, Fail, Spawn, AgentExits,
     JudgeFails, JudgePauses, JudgePasses, Release
<1>6. ASSUME NEW w \in Watchers, Finishing(w) PROVE PauseTyped'
  BY <1>6, Zenon DEF Finishing, ArchiveWaits, Recheck, VerifyGreen, Visited,
     VerifyRed, RegressTarget, EndVerify, ChangeGreen, ChangeRed, Relocate
<1>7. ASSUME NEW w \in Watchers, Crash(w) PROVE PauseTyped'
  BY <1>7, Zenon DEF Crash
<1>8. CASE Continue
  BY <1>8, Zenon DEF Continue, Retire, BeginRetry, RetainDead, RetainNext,
     RetainMarker, RetainThrows,
     RetainDone, AppendRetry
<1>9. CASE BeginApproval \/ Approve \/ Decline
  BY <1>9, Zenon DEF BeginApproval, Approve, Decline
<1>10. CASE HumanRetry
  BY <1>10, Zenon DEF HumanRetry, BeginRetry, RetainDead
<1>11. CASE KillHuman
  BY <1>11, Zenon DEF KillHuman
<1>12. CASE EditPlan \/ HumanEditsTree \/ OrphanExits \/ LockAges
  BY <1>12, Zenon DEF EditPlan, HumanEditsTree, OutsideEdit, TreeEdit,
     Tamper, OrphanExits, LockAges
<1>13. CASE Time
  BY <1>13, Zenon DEF Time, PauseEnds, DelayPasses
<1>14. CASE UNCHANGED vars
  BY <1>14 DEF vars
<1> QED
  BY <1>1, <1>2, <1>3, <1>4, <1>5, <1>6, <1>7, <1>8, <1>9, <1>10, <1>11,
     <1>12, <1>13, <1>14 DEF Next, Watch

(* The folder is archived or it is not. *)
LEMMA ArchiveStep == Inv /\ [Next]_vars => ArchiveTyped'
<1> SUFFICES ASSUME Inv, [Next]_vars PROVE ArchiveTyped'
  OBVIOUS
<1>0. ArchiveTyped
  BY InvParts
<1> USE <1>0 DEF ArchiveTyped
<1>1. ASSUME NEW w \in Watchers, Reaping(w) PROVE ArchiveTyped'
  BY <1>1, Zenon DEF Reaping, Start, ReadLock, Reap, MisreadLock, PassLock,
     UnlinkLock, EndReap, Bury, EndBury
<1>2. ASSUME NEW w \in Watchers, Retrying(w) PROVE ArchiveTyped'
  BY <1>2, Zenon DEF Retrying, MarkStuck, AutoRetry, BeginRetry, RetainDead,
     SkipRetry, RetainNext, RetainMarker, RetainThrows, RetainDone,
     AppendRetry, EndRetries
<1>3. ASSUME NEW w \in Watchers, Deriving(w) PROVE ArchiveTyped'
  BY <1>3, Zenon DEF Deriving, StartTask, StartArchive, LeaveAlone
<1>4. ASSUME NEW w \in Watchers, Checking(w) PROVE ArchiveTyped'
  BY <1>4, Zenon DEF Checking, AuditClear, Auditing, Visited, AuditRecertify,
     AuditRegress, AuditHalts, EndAudit, AfterAudit
<1>5. ASSUME NEW w \in Watchers, Running(w) PROVE ArchiveTyped'
  BY <1>5, Zenon DEF Running, RefuseSeal, Refuse, RefuseEntry, Begin,
     AcquireLock, LockTaken, RefuseStart, Fail, Spawn, AgentExits,
     JudgeFails, JudgePauses, JudgePasses, Release
<1>6. ASSUME NEW w \in Watchers, Finishing(w) PROVE ArchiveTyped'
  BY <1>6, Zenon DEF Finishing, ArchiveWaits, Recheck, VerifyGreen, Visited,
     VerifyRed, RegressTarget, EndVerify, ChangeGreen, ChangeRed, Relocate
<1>7. ASSUME NEW w \in Watchers, Crash(w) PROVE ArchiveTyped'
  BY <1>7, Zenon DEF Crash
<1>8. CASE Continue
  BY <1>8, Zenon DEF Continue, Retire, BeginRetry, RetainDead, RetainNext,
     RetainMarker, RetainThrows,
     RetainDone, AppendRetry
<1>9. CASE BeginApproval \/ Approve \/ Decline
  BY <1>9, Zenon DEF BeginApproval, Approve, Decline
<1>10. CASE HumanRetry
  BY <1>10, Zenon DEF HumanRetry, BeginRetry, RetainDead
<1>11. CASE KillHuman
  BY <1>11, Zenon DEF KillHuman
<1>12. CASE EditPlan \/ HumanEditsTree \/ OrphanExits \/ LockAges
  BY <1>12, Zenon DEF EditPlan, HumanEditsTree, OutsideEdit, TreeEdit,
     Tamper, OrphanExits, LockAges
<1>13. CASE Time
  BY <1>13, Zenon DEF Time, PauseEnds, DelayPasses
<1>14. CASE UNCHANGED vars
  BY <1>14 DEF vars
<1> QED
  BY <1>1, <1>2, <1>3, <1>4, <1>5, <1>6, <1>7, <1>8, <1>9, <1>10, <1>11,
     <1>12, <1>13, <1>14 DEF Next, Watch
-----------------------------------------------------------------------------
(* Inv holds before any process has started. *)
LEMMA InitInv == Init => Inv
<1> SUFFICES ASSUME Init PROVE Inv
  OBVIOUS
<1>1. MarkersTypeOK
  <2>1. /\ lock \in [Tasks -> Owners] /\ aged \in SUBSET Tasks
        /\ done \in SUBSET Tasks /\ cooling \in SUBSET Tasks
        /\ events \in [Tasks -> Streams]
    BY DEF Init, MarkersInit, Owners, Streams, NewStream
  <2>2. /\ dead \in [Tasks -> DeadMarkers \cup {NoDead}]
        /\ lastDead \in [Tasks -> DeadMarkers \cup {NoDead}]
        /\ regressed \in [Targets -> RegressedMarkers \cup {NoRegressed}]
    BY DEF Init, MarkersInit
  <2>3. paused \in BOOLEAN /\ archived \in BOOLEAN /\ seal \in Seals
    BY Zenon DEF Init, MarkersInit, Seals
  <2> QED
    BY <2>1, <2>2, <2>3 DEF MarkersTypeOK
<1>2. ControlTyped /\ Control
  BY TargetFacts, ActorsAssumption
  DEF Init, ControlTyped, Control, Notes, LanePhases, RetryPhases,
      WatcherPhases, HumanPhases, ArchivePhases, Actors
<1>3. LoopsTyped /\ GreenTyped /\ OrphansTyped /\ TamperTyped
  BY DEF Init, LoopsTyped, GreenTyped, OrphansTyped, TamperTyped
<1>4. DriftTyped
  BY DEF Init, DriftTyped, Drifts
<1>5. CountsTyped
  BY BudgetAssumption DEF Init, CountsTyped
<1> QED
  BY <1>1, <1>2, <1>3, <1>4, <1>5, Zenon
  DEF Inv, TypeOK, ControlTyped, LoopsTyped, GreenTyped, OrphansTyped,
      TamperTyped, DriftTyped, CountsTyped

(* No step leaves Inv. *)
LEMMA InvStep == Inv /\ [Next]_vars => Inv'
  BY ControlTypedStep, ControlStep, LoopsStep, LocksStep, DoneStep,
     CoolingStep,
     DeadStep, LastStep, RegressStep, EventsStep, GreenStep, DriftStep,
     OrphansStep, TamperStep, CountsStep, PauseStep, ArchiveStep, Zenon
  DEF Inv, TypeOK, MarkersTypeOK, ControlTyped, LoopsTyped, LocksTyped,
      DoneTyped, CoolingTyped, DeadTyped, LastTyped, RegressTyped, EventsTyped,
      GreenTyped, DriftTyped, OrphansTyped, TamperTyped, CountsTyped,
      PauseTyped, ArchiveTyped

(* Whatever the watchers, the humans and the agents of a change do, and     *)
(* whichever of them is killed, the `.run/` markers and the processes' own  *)
(* state keep their types: a loop visits only targets of this change, a     *)
(* task                                                                     *)
(* is locked, run and reaped under its own number, and the note a phase     *)
(* leaves is one the next phase knows.                                      *)
THEOREM Invariance == Spec => []Inv
  BY InitInv, InvStep, PTL DEF Spec

(* Every reachable state of ChangeRun is of its type. *)
THEOREM TypeCorrect == Spec => []TypeOK
<1>1. Inv => TypeOK
  BY DEF Inv
<1> QED
  BY Invariance, <1>1, PTL
=============================================================================
