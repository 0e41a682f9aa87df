------------------------ MODULE WorktreeChangeProofs ------------------------
(***************************************************************************)
(* WorktreeChange's safety, for every number of tasks, every limit on      *)
(* retries, and any number of kills, broken hooks, deaths and commands.    *)
(***************************************************************************)
EXTENDS WorktreeChange, FiniteSetTheorems, WellFoundedInduction, TLAPS

(***************************************************************************)
(* The strengthening: what each phase of a visit may rely on, whoever was  *)
(* killed before it and whatever a human did meanwhile.                    *)
(***************************************************************************)
TaskPhases == {"spawn", "agent", "release", "yield"}
              \cup CommitPhases \cup DeathPhases

\* an attempt, its commit and its death record are of a task
CurIsTask == pc \in TaskPhases => cur \in Tasks

\* a lock is the attempt's, or the one a killed watcher left
OneRuns ==
  /\ pc \in {"agent", "release"} => lock = {cur}
  /\ pc \notin {"agent", "release", "idle", "down"} => lock = {}
  /\ \A t, u \in lock : t = u
  /\ folder = "archived" => lock = {}

Starting == pc \in {"spawn", "agent"} \/ (pc = "sync" /\ cur \in Tasks)

\* from checkWorktree to the spawn nobody edits, and commits stay
StartIsClean ==
  /\ pc \in {"sync", "spawn"} => dirty = {} /\ staged = {} /\ specs = head.specs
  /\ pc = "spawn" => ~merging
  /\ pc \in {"sync", "spawn"} /\ cur \in Tasks =>
       \A u \in Tasks : u < cur => u \in head.done

\* verified edits that no kill left beside their own lock
Verified == (dirty \cap done) \ unreleased

\* a task runs, or has passed and is not committed, only while no death of
\* another is to be recorded: what a death record discards is not verified
DeathIsAlone ==
  /\ Starting => cur \notin done /\ PendingDead = {}
  /\ lock # {} => PendingDead \subseteq lock /\ dirty \subseteq lock
  /\ Verified # {} => PendingDead = {} /\ (lock = {} \/ pc = "release")
  /\ pc \in {"reap", "patch", "discard", "yield"} => Verified = {}

\* what checkAndArchiveSpec has established by each of its steps
ArchiveFits ==
  /\ pc \in (ArchivePhases \ {"recheck"}) \cup {"seal"} => head.code = Tasks
  /\ pc \in {"verify", "drop", "move", "seal"} => specs = "merged"
  /\ folder = "archived" =>
       /\ pc \in {"down", "idle", "seal"}
       /\ head.code = Tasks /\ specs = "merged"
  /\ pc \in ArchivePhases \cup {"sync", "seal"} => halt = "none"
  /\ pc = "seal" => folder = "archived" /\ ~head.sealed
  /\ head.sealed => folder = "archived" /\ head.specs = "merged"

\* the record is there before the first delta, and outlasts the last
RecordFits ==
  /\ pc \in {"apply", "merge"} => record = "saved"
  /\ pc = "record" => specs # "part"

\* a hand that may commit has a failure left to spend
FailsFit ==
  /\ pc \notin {"idle", "down"} => fails <= CommitRetries
  /\ lock # {} => fails <= CommitRetries
  /\ fails > CommitRetries => halt = "commit_failed" \/ head.sealed

WInv ==
  /\ WTypeOK
  /\ CurIsTask
  /\ OneRuns
  /\ StartIsClean
  /\ DeathIsAlone
  /\ ArchiveFits
  /\ RecordFits
  /\ HalfMergedHasRecord
  /\ FailsFit
  /\ CommitBudgetHolds

\* what every proof below unfolds
USE DEF Goto, MoveTo, Spend, Halt, Idle, SetMerge,
        markVars, runVars, workVars, specVars, treeVars, haltVars, worldVars,
        restVars

-----------------------------------------------------------------------------
(* A non-empty set of tasks has a smallest one, which getNextPendingTask and *)
(* the catch-ups' sorted lists take first.                                   *)
LEMMA NextIsLeast ==
  ASSUME NEW S \in SUBSET Tasks, S # {}
  PROVE  Next1(S) \in S /\ \A u \in S : Next1(S) <= u
<1> DEFINE Below == {0..k : k \in S}
           Order == StrictSubsetOrdering(Nat)
<1>1. S \subseteq Nat
  BY NTasksAssumption DEF Tasks
<1>2. Below \subseteq FiniteSubsetsOf(Nat)
  <2>1. ASSUME NEW k \in S PROVE 0..k \in SUBSET Nat /\ IsFiniteSet(0..k)
    BY <1>1, FS_Interval
  <2> QED
    BY <2>1 DEF FiniteSubsetsOf
<1>3. Below # {}
  OBVIOUS
<1>4. \E x \in Below : \A y \in Below : <<y, x>> \notin Order
  <2> HIDE DEF Below, Order
  <2> QED
    BY <1>2, <1>3, FS_StrictSubsetOrderingWellFounded, WFMin, Zenon DEF Order
<1>5. PICK n \in S : \A y \in Below : <<y, 0..n>> \notin Order
  BY <1>4
<1>6. ASSUME NEW m \in S, ~(n <= m) PROVE FALSE
  <2>1. n \in 0..n /\ n \notin 0..m
    BY <1>1, <1>6
  <2>2. 0..m \in SUBSET Nat /\ 0..n \in SUBSET Nat /\ 0..m \subseteq 0..n
    BY <1>1, <1>6
  <2>3. <<0..m, 0..n>> \in Order
    BY <2>1, <2>2 DEF StrictSubsetOrdering
  <2> QED
    BY <1>5, <2>3
<1> QED
  BY <1>5, <1>6 DEF Next1

(* The task a visit starts, and the markers a catch-up commits, are tasks. *)
LEMMA NextIsTask ==
  ASSUME WTypeOK
  PROVE  /\ Tasks \ done # {} =>
              /\ Next1(Tasks \ done) \in Tasks \ done
              /\ \A u \in Tasks \ done : Next1(Tasks \ done) <= u
         /\ PendingDone # {} => Next1(PendingDone) \in Tasks \cap PendingDone
         /\ PendingDead # {} => Next1(PendingDead) \in Tasks \cap PendingDead
<1>1. PendingDone \subseteq Tasks /\ PendingDead \subseteq Tasks
  BY DEF PendingDone, PendingDead, WTypeOK
<1> QED
  BY <1>1, NextIsLeast

-----------------------------------------------------------------------------
(* The steps, by what they leave alone.                                    *)

(* WInv holds at first. *)
LEMMA WInitInv == WInit => WInv
<1> SUFFICES ASSUME WInit PROVE WInv
  OBVIOUS
<1>1. WTypeOK
  BY NTasksAssumption, LimitsAssumption
  DEF WInit, WTypeOK, Phases, Heads, Halts, Tasks, Whole
<1>2. lock = {} /\ done = {} /\ dead = {} /\ dirty = {} /\ pc = "down"
  BY DEF WInit
<1>3. OneRuns /\ StartIsClean /\ DeathIsAlone
  BY <1>2
  DEF WInit, OneRuns, StartIsClean, DeathIsAlone, Starting, PendingDead,
  Verified
<1>4. CurIsTask /\ ArchiveFits /\ RecordFits /\ HalfMergedHasRecord
  BY DEF WInit, CurIsTask, TaskPhases, CommitPhases, DeathPhases, ArchiveFits,
         ArchivePhases, RecordFits, HalfMergedHasRecord
<1>5. FailsFit /\ CommitBudgetHolds
  BY <1>2, LimitsAssumption DEF WInit, FailsFit, CommitBudgetHolds
<1> QED
  BY <1>1, <1>3, <1>4, <1>5 DEF WInv

(* Whoever commits an archive commits merged specs. *)
LEMMA ArchiveIsMerged ==
  ASSUME WInv, folder = "archived" \/ pc = "seal"
  PROVE  specs = "merged" /\ head.code = Tasks
  BY DEF WInv, ArchiveFits

(* Halting keeps the types. *)
LEMMA HaltType ==
  ASSUME WTypeOK, NEW reason \in Halts, Halt(reason)
  PROVE  /\ halt' \in Halts /\ fails' \in Nat
         /\ tries' \in [Tasks -> Nat] /\ again' \in SUBSET Tasks
         /\ pc' \in Phases /\ cur' \in Tasks \cup {Whole}
<1>1. halt' = reason /\ pc' = "idle" /\ cur' = cur /\ tries' = tries
      /\ again' = again /\ (fails' = fails + 1 \/ fails' = fails)
  OBVIOUS
<1>2. fails \in Nat /\ fails + 1 \in Nat
  BY DEF WTypeOK
<1> HIDE DEF Halt, Goto
<1>3. halt' \in Halts /\ fails' \in Nat
  BY <1>1, <1>2
<1>4. tries' \in [Tasks -> Nat] /\ again' \in SUBSET Tasks
      /\ cur' \in Tasks \cup {Whole}
  BY <1>1 DEF WTypeOK
<1>5. pc' \in Phases
  BY <1>1 DEF Phases
<1> QED
  BY <1>3, <1>4, <1>5

(* Types. *)
LEMMA WTypeStep == WInv /\ [WNext]_wVars => WTypeOK'
<1> SUFFICES ASSUME WInv, [WNext]_wVars PROVE WTypeOK'
  OBVIOUS
<1>0. WTypeOK /\ CurIsTask
  BY DEF WInv
<1> USE <1>0, LimitsAssumption
    DEF WTypeOK, CurIsTask, TaskPhases, Phases, CommitPhases, DeathPhases,
        ArchivePhases, Heads, Retried
<1>1. ASSUME NEW t \in Tasks, ReapLock(t) \/ AutoRetry(t) PROVE WTypeOK'
  BY <1>1 DEF ReapLock, AutoRetry, Reaped
<1>2. CASE CatchUpDead \/ CommitPending
  BY <1>2, NextIsTask DEF CatchUpDead, CommitPending
<1>23. CASE Visit
  <2>1. Pending => Next1(Tasks \ done) \in Tasks
    BY NextIsTask DEF Pending
  <2> QED
    BY <1>23, <2>1 DEF Visit
<1>22. CASE ReportReaped \/ Release
  BY <1>22 DEF ReportReaped, Release
<1>3. CASE ClearHalt \/ RestoreSpecs \/ HaltDirty \/ Spawn \/ RetryArchive
  BY <1>3
  DEF ClearHalt, RestoreSpecs, Restored, HaltDirty, Spawn, RetryArchive, Halts
<1>4. CASE AgentEdits \/ AgentPasses \/ AgentDies \/ DiscardPaused
  BY <1>4 DEF AgentEdits, AgentPasses, AgentDies, DiscardPaused
<1>5. CASE AddVerified
  BY <1>5 DEF AddVerified
<1>21. CASE CommitVerified
  <2>1. (head \in Heads)'
    BY <1>21 DEF CommitVerified
  <2> QED
    BY <1>21, <2>1 DEF CommitVerified
<1>6. CASE AddFails \/ CommitRejected
  BY <1>6 DEF AddFails, CommitRejected, Halts
<1>7. CASE WritePatch \/ Discard \/ CommitDead \/ BuryRejected
  BY <1>7 DEF WritePatch, Discard, CommitDead, BuryRejected, Halts
<1>8. CASE Recheck \/ \E t \in Tasks : RecheckRed(t)
  BY <1>8 DEF Recheck, RecheckRed, Restored
<1>9. CASE SaveRecord \/ ApplyFirst \/ ApplyRest \/ ApplyFails \/ ChangeGreen
  BY <1>9 DEF SaveRecord, ApplyFirst, ApplyRest, ApplyFails, ChangeGreen
<1>10. CASE ChangeRed
  <2>1. /\ halt' \in Halts /\ fails' \in Nat
        /\ tries' \in [Tasks -> Nat] /\ again' \in SUBSET Tasks
        /\ pc' \in Phases /\ cur' \in Tasks \cup {Whole}
    BY <1>10, HaltType DEF ChangeRed, Halts
  <2>2. budget' \in [Kinds -> Nat]
    BY <1>10 DEF ChangeRed, Kinds
  <2>3. /\ specs' \in {"base", "part", "merged"} /\ record' = "none"
        /\ UNCHANGED <<folder, runVars, workVars, patch, merging, head, hook>>
    BY <1>10 DEF ChangeRed, Restored
  <2> HIDE <1>10
  <2> QED
    BY <2>1, <2>2, <2>3
<1>11. CASE DropRecord \/ MoveFolder \/ CommitArchive
  BY <1>11, ArchiveIsMerged DEF DropRecord, MoveFolder, CommitArchive, Sealed
<1>12. CASE ArchiveRejected
  BY <1>12 DEF ArchiveRejected, Halts
<1>13. CASE SyncMerge \/ SyncEnds
  BY <1>13 DEF SyncMerge, SyncEnds
<1>14. ASSUME NEW reason \in SyncStops, SyncHalts(reason) PROVE WTypeOK'
  <2>1. /\ halt' \in Halts /\ fails' \in Nat
        /\ tries' \in [Tasks -> Nat] /\ again' \in SUBSET Tasks
        /\ pc' \in Phases /\ cur' \in Tasks \cup {Whole}
    BY <1>14, HaltType DEF SyncHalts, Halts
  <2>2. merging' = FALSE
        /\ UNCHANGED <<folder, runVars, workVars, patch, specVars, head,
                       worldVars>>
    BY <1>14 DEF SyncHalts
  <2> QED
    BY <2>1, <2>2
<1>15. CASE AgentPauses \/ Kill \/ HookBreaks \/ HookFixed \/ Restart
  BY <1>15 DEF AgentPauses, Kill, HookBreaks, HookFixed, Restart, Whole
<1>16. ASSUME NEW t \in Tasks, HumanRetryTask(t) PROVE WTypeOK'
  <2>1. (done \in SUBSET Tasks /\ dead \in SUBSET Tasks
        /\ regressed \in SUBSET Tasks)'
    BY <1>16 DEF HumanRetryTask
  <2>2. (tries \in [Tasks -> Nat])' /\ (again \in SUBSET Tasks)'
    BY <1>16 DEF HumanRetryTask
  <2>3. (budget \in [Kinds -> Nat])'
    BY <1>16 DEF HumanRetryTask, Kinds
  <2> QED
    BY <1>16, <2>1, <2>2, <2>3 DEF HumanRetryTask
<1>17. CASE HumanRetryChange \/ LandSide
  BY <1>17 DEF HumanRetryChange, LandSide, Halts
<1>18. CASE HumanRetryArchive \/ HumanSeals
  <2>1. (head \in Heads)'
    BY <1>18, ArchiveIsMerged DEF HumanRetryArchive, HumanSeals, Sealed
  <2>2. (budget \in [Kinds -> Nat])'
    BY <1>18 DEF HumanRetryArchive, HumanSeals, Kinds
  <2> QED
    BY <1>18, <2>1, <2>2 DEF HumanRetryArchive, HumanSeals, Halts
<1>19. ASSUME NEW S \in SUBSET dirty, HumanCleans(S) PROVE WTypeOK'
  <2>1. (head \in Heads)' /\ (specs \in {"base", "part", "merged"})'
    BY <1>19 DEF HumanCleans
  <2>2. (budget \in [Kinds -> Nat])'
    BY <1>19 DEF HumanCleans, Kinds
  <2> QED
    BY <1>19, <2>1, <2>2 DEF HumanCleans
<1>20. CASE UNCHANGED wVars
  BY <1>20 DEF wVars
<1> QED
  BY <1>1, <1>2, <1>3, <1>4, <1>5, <1>6, <1>7, <1>8, <1>9, <1>10, <1>11,
     <1>12, <1>13, <1>14, <1>15, <1>16, <1>17, <1>18, <1>19, <1>20,
     <1>21, <1>22, <1>23
  DEF WNext, Watcher, Reconcile, Lane, Archive, Sync, World

(* The hand is on a task wherever it needs one. *)
LEMMA CurIsTaskStep == WInv /\ [WNext]_wVars => CurIsTask'
<1> SUFFICES ASSUME WInv, [WNext]_wVars PROVE CurIsTask'
  OBVIOUS
<1>0. WTypeOK /\ CurIsTask
  BY DEF WInv
<1> USE <1>0 DEF CurIsTask, TaskPhases, CommitPhases, DeathPhases, Retried
<1>1. ASSUME NEW t \in Tasks, ReapLock(t) \/ AutoRetry(t) \/ HumanRetryTask(t)
                               \/ RecheckRed(t)
      PROVE  CurIsTask'
  BY <1>1 DEF ReapLock, AutoRetry, HumanRetryTask, RecheckRed
<1>2. CASE CatchUpDead \/ CommitPending
  BY <1>2, NextIsTask DEF CatchUpDead, CommitPending
<1>9. CASE Visit
  <2>1. Pending => Next1(Tasks \ done) \in Tasks
    BY NextIsTask DEF Pending, WTypeOK
  <2> QED
    BY <1>9, <2>1 DEF Visit
<1>3. CASE SyncMerge \/ SyncEnds \/ \E reason \in SyncStops : SyncHalts(reason)
  BY <1>3 DEF SyncMerge, SyncEnds, SyncHalts, WTypeOK
<1>4. CASE ReportReaped \/ Spawn \/ Lane \/ AgentPauses
  BY <1>4
  DEF ReportReaped, Lane, Spawn, AgentEdits, AgentPasses, AgentDies, Release,
      DiscardPaused, AddVerified,
      AddFails, CommitVerified, CommitRejected, WritePatch, Discard,
      CommitDead, BuryRejected, AgentPauses
<1>5. CASE \/ Recheck \/ SaveRecord \/ ApplyFirst \/ ApplyRest \/ ApplyFails
           \/ ChangeGreen \/ ChangeRed \/ DropRecord \/ MoveFolder
           \/ CommitArchive \/ ArchiveRejected \/ RetryArchive
  BY <1>5
  DEF Recheck, SaveRecord, ApplyFirst, ApplyRest, ApplyFails, ChangeGreen,
      ChangeRed, DropRecord, MoveFolder, CommitArchive, ArchiveRejected,
      RetryArchive
<1>6. CASE ClearHalt \/ RestoreSpecs \/ HaltDirty \/ Restart \/ Kill
  BY <1>6 DEF ClearHalt, RestoreSpecs, HaltDirty, Restart, Kill
<1>7. CASE \/ HookBreaks \/ HookFixed \/ HumanRetryChange
           \/ HumanRetryArchive \/ HumanSeals \/ LandSide
           \/ \E kept \in SUBSET dirty : HumanCleans(kept)
  BY <1>7
  DEF HookBreaks, HookFixed, HumanRetryChange, HumanRetryArchive, HumanSeals,
      LandSide, HumanCleans
<1>8. CASE UNCHANGED wVars
  BY <1>8 DEF wVars
<1> QED
  BY <1>1, <1>2, <1>3, <1>4, <1>5, <1>6, <1>7, <1>8, <1>9
  DEF WNext, Watcher, Reconcile, Archive, Sync, World

(* One lock, and only while its attempt runs or nobody reaped it yet. *)
LEMMA OneRunsStep == WInv /\ [WNext]_wVars => OneRuns'
<1> SUFFICES ASSUME WInv, [WNext]_wVars PROVE OneRuns'
  OBVIOUS
<1>0. WTypeOK /\ CurIsTask /\ OneRuns /\ ArchiveFits
  BY DEF WInv
<1> USE <1>0 DEF OneRuns, CommitPhases, DeathPhases
<1>1. ASSUME NEW t \in Tasks, ReapLock(t) PROVE OneRuns'
  <2>1. lock = {t}
    BY <1>1 DEF ReapLock
  <2> QED
    BY <1>1, <2>1 DEF ReapLock
<1>2. ASSUME NEW t \in Tasks, AutoRetry(t) \/ HumanRetryTask(t) \/ RecheckRed(t)
      PROVE  OneRuns'
  BY <1>2 DEF AutoRetry, HumanRetryTask, RecheckRed, Retried
<1>3. CASE Spawn
  <2>1. lock = {} /\ folder # "archived"
    BY <1>3 DEF Spawn, ArchiveFits
  <2> QED
    BY <1>3, <2>1 DEF Spawn
<1>4. CASE AgentPasses \/ AgentDies \/ AgentPauses \/ Release
  BY <1>4 DEF AgentPasses, AgentDies, AgentPauses, Release
<1>6. CASE ReportReaped \/ CatchUpDead \/ CommitPending \/ Visit \/ RetryArchive
  BY <1>6
  DEF ReportReaped, CatchUpDead, CommitPending, Visit, RetryArchive,
  Reconciled,
      Reaped
<1>7. CASE Sync
  BY <1>7 DEF Sync, SyncMerge, SyncEnds, SyncHalts
<1>8. CASE \/ AgentEdits \/ DiscardPaused \/ AddVerified \/ AddFails
           \/ CommitVerified \/ CommitRejected
  BY <1>8
  DEF AgentEdits, DiscardPaused, AddVerified, AddFails, CommitVerified,
  CommitRejected
<1>9. CASE WritePatch \/ Discard \/ CommitDead \/ BuryRejected
  BY <1>9 DEF WritePatch, Discard, CommitDead, BuryRejected
<1>10. CASE \/ Recheck \/ SaveRecord \/ ApplyFirst \/ ApplyRest \/ ApplyFails
            \/ ChangeGreen \/ ChangeRed
  BY <1>10
  DEF Recheck, SaveRecord, ApplyFirst, ApplyRest, ApplyFails, ChangeGreen,
  ChangeRed
<1>11. CASE DropRecord \/ MoveFolder \/ CommitArchive \/ ArchiveRejected
  BY <1>11 DEF DropRecord, MoveFolder, CommitArchive, ArchiveRejected
<1>12. CASE ClearHalt \/ RestoreSpecs \/ HaltDirty \/ Restart \/ Kill
  BY <1>12 DEF ClearHalt, RestoreSpecs, HaltDirty, Restart, Kill
<1>13. CASE \/ HookBreaks \/ HookFixed \/ HumanRetryChange
            \/ HumanRetryArchive \/ HumanSeals \/ LandSide
            \/ \E kept \in SUBSET dirty : HumanCleans(kept)
  BY <1>13
  DEF HookBreaks, HookFixed, HumanRetryChange, HumanRetryArchive, HumanSeals,
      LandSide, HumanCleans
<1>14. CASE UNCHANGED wVars
  BY <1>14 DEF wVars
<1> QED
  BY <1>1, <1>2, <1>3, <1>4, <1>6, <1>7, <1>8, <1>9, <1>10, <1>11, <1>12,
     <1>13, <1>14
  DEF WNext, Watcher, Reconcile, Lane, Archive, World

(* A task starts in a clean tree, after the commits of the earlier ones. *)
LEMMA StartIsCleanStep == WInv /\ [WNext]_wVars => StartIsClean'
<1> SUFFICES ASSUME WInv, [WNext]_wVars PROVE StartIsClean'
  OBVIOUS
<1>0. WTypeOK /\ StartIsClean /\ ArchiveFits
  BY DEF WInv
<1> USE <1>0 DEF StartIsClean
<1>1. CASE Visit
  <2>1. dirty = {} /\ staged = {} /\ specs = head.specs /\ ~merging
    BY <1>1 DEF Visit, Dirt
  <2>2. ASSUME cur' \in Tasks, NEW u \in Tasks, u < cur' PROVE u \in head.done
    <3>1. Pending /\ cur' = Next1(Tasks \ done)
      BY <1>1, <2>2 DEF Visit, Whole, Tasks
    <3>2. u \notin Tasks \ done
      <4>1. Tasks \ done # {} => Next1(Tasks \ done) <= u \/ u \in done
        BY <1>0, NextIsTask
      <4>2. Tasks \subseteq Nat
        BY NTasksAssumption DEF Tasks
      <4>3. Tasks \ done # {}
        BY <1>0, <3>1 DEF Pending, WTypeOK
      <4> QED
        BY <2>2, <3>1, <4>1, <4>2, <4>3
    <3> QED
      BY <1>1, <3>2 DEF Visit, Reconciled, PendingDone
  <2>3. UNCHANGED <<dirty, staged, specs, head, merging>>
    BY <1>1 DEF Visit
  <2> QED
    BY <2>1, <2>2, <2>3
<1>2. CASE Sync
  BY <1>2 DEF Sync, SyncMerge, SyncEnds, SyncHalts
<1>3. ASSUME NEW t \in Tasks, ReapLock(t) \/ AutoRetry(t) \/ HumanRetryTask(t)
                               \/ RecheckRed(t)
      PROVE  StartIsClean'
  BY <1>3 DEF ReapLock, AutoRetry, Reaped, HumanRetryTask, RecheckRed, Retried
<1>4. CASE \/ ReportReaped \/ CatchUpDead \/ ClearHalt \/ RestoreSpecs
           \/ CommitPending \/ HaltDirty \/ RetryArchive \/ Restart \/ Kill
  BY <1>4
  DEF ReportReaped, CatchUpDead, ClearHalt, RestoreSpecs, CommitPending,
  Reconciled, Reaped,
      HaltDirty, RetryArchive, Restart, Kill
<1>5. CASE Spawn \/ Lane \/ AgentPauses
  BY <1>5
  DEF Lane, Spawn, AgentEdits, AgentPasses, AgentDies, Release,
  DiscardPaused, AddVerified,
      AddFails, CommitVerified, CommitRejected, WritePatch, Discard,
      CommitDead, BuryRejected, AgentPauses
<1>6. CASE \/ Recheck \/ SaveRecord \/ ApplyFirst \/ ApplyRest \/ ApplyFails
           \/ ChangeGreen \/ ChangeRed \/ DropRecord \/ MoveFolder
           \/ CommitArchive \/ ArchiveRejected
  BY <1>6
  DEF Recheck, SaveRecord, ApplyFirst, ApplyRest, ApplyFails, ChangeGreen,
      ChangeRed, DropRecord, MoveFolder, CommitArchive, ArchiveRejected
<1>7. CASE \/ HookBreaks \/ HookFixed \/ HumanRetryChange \/ HumanSeals
           \/ \E kept \in SUBSET dirty : HumanCleans(kept)
  BY <1>7 DEF HookBreaks, HookFixed, HumanRetryChange, HumanSeals, HumanCleans
<1>8. CASE HumanRetryArchive \/ LandSide
  BY <1>8 DEF HumanRetryArchive, LandSide, ArchiveFits
<1>9. CASE UNCHANGED wVars
  BY <1>9 DEF wVars
<1> QED
  BY <1>1, <1>2, <1>3, <1>4, <1>5, <1>6, <1>7, <1>8, <1>9
  DEF WNext, Watcher, Reconcile, Archive, World

(* No verified edits where a discard falls. *)
LEMMA DeathIsAloneStep == WInv /\ [WNext]_wVars => DeathIsAlone'
<1> SUFFICES ASSUME WInv, [WNext]_wVars PROVE DeathIsAlone'
  OBVIOUS
<1>0. WTypeOK /\ CurIsTask /\ OneRuns /\ StartIsClean /\ DeathIsAlone
  BY DEF WInv
<1> USE DEF Starting, PendingDead, Verified
\* a step that adds no pass, no death and no edit, and enters no discard
<1>a. ASSUME done' \subseteq done, dead' \subseteq dead, dirty' \subseteq dirty,
             unreleased \subseteq unreleased', head.dead \subseteq head'.dead,
             UNCHANGED <<cur, lock>>, dirty' # dirty => lock = {},
             pc' \in {pc, "idle", "down", "discard"} \cup CommitPhases
                    \cup ArchivePhases \cup {"seal", "bury"},
             pc = "release" => pc' = "release",
             pc' = "discard" => pc \in {"patch", "discard"}
      PROVE  DeathIsAlone'
  <2>1. PendingDead' \subseteq PendingDead /\ Verified' \subseteq Verified
    BY <1>a
  <2>2. Starting' => Starting
    BY <1>a DEF CommitPhases, ArchivePhases
  <2>3. pc' \in {"reap", "patch", "discard", "yield"} =>
          pc \in {"reap", "patch", "discard", "yield"}
    BY <1>a DEF CommitPhases, ArchivePhases
  <2> HIDE DEF Starting, PendingDead, Verified
  <2> QED
    BY <1>0, <1>a, <2>1, <2>2, <2>3 DEF DeathIsAlone
<1> USE DEF CommitPhases, ArchivePhases
<1>1. ASSUME NEW t \in Tasks, ReapLock(t) PROVE DeathIsAlone'
  <2>1. lock = {t} /\ Verified = {}
    BY <1>0, <1>1 DEF ReapLock, OneRuns, DeathIsAlone
  <2> QED
    BY <1>1, <2>1 DEF ReapLock, DeathIsAlone
<1>2. ASSUME NEW t \in Tasks, AutoRetry(t) \/ HumanRetryTask(t) \/ RecheckRed(t)
      PROVE  DeathIsAlone'
  BY <1>a, <1>2 DEF AutoRetry, HumanRetryTask, RecheckRed, Retried
<1>3. CASE ReportReaped
  <2>1. Verified = {} /\ lock = {}
    BY <1>0, <1>3 DEF ReportReaped, DeathIsAlone, OneRuns
  <2> QED
    BY <1>3, <2>1 DEF ReportReaped, DeathIsAlone
<1>4. CASE Spawn
  <2>1. dirty = {} /\ PendingDead = {} /\ cur \notin done
    BY <1>0, <1>4 DEF Spawn, StartIsClean, DeathIsAlone
  <2> QED
    BY <1>4, <2>1 DEF Spawn, DeathIsAlone
<1>5. CASE AgentEdits
  <2>1. /\ lock = {cur} /\ dirty \subseteq {cur} /\ cur \notin done
        /\ PendingDead = {}
    BY <1>0, <1>5 DEF AgentEdits, OneRuns, DeathIsAlone
  <2> QED
    BY <1>5, <2>1 DEF AgentEdits, DeathIsAlone
<1>6. CASE AgentPasses \/ AgentDies \/ AgentPauses
  <2>1. /\ lock = {cur} /\ dirty \subseteq {cur} /\ cur \notin done
        /\ PendingDead = {}
    BY <1>0, <1>6 DEF AgentPasses, AgentDies, AgentPauses, OneRuns,
       DeathIsAlone
  <2> QED
    BY <1>6, <2>1 DEF AgentPasses, AgentDies, AgentPauses, DeathIsAlone
<1>7. CASE Release
  <2>1. lock = {cur} /\ dirty \subseteq {cur} /\ PendingDead \subseteq {cur}
    BY <1>0, <1>7 DEF Release, OneRuns, DeathIsAlone
  <2>2. cur \notin done => Verified = {}
    BY <2>1
  <2>3. lock' = {} /\ UNCHANGED <<PendingDead, Verified>>
        /\ pc' = (IF cur \in done THEN "add" ELSE "patch")
    BY <1>7, <2>1 DEF Release
  <2>4. Verified # {} => PendingDead = {}
    BY <1>0 DEF DeathIsAlone
  <2> HIDE DEF PendingDead, Verified
  <2> QED
    BY <2>2, <2>3, <2>4 DEF DeathIsAlone
<1>8. CASE CatchUpDead
  <2>1. Verified = {}
    BY <1>0, <1>8 DEF CatchUpDead, DeathIsAlone
  <2> QED
    BY <1>8, <2>1 DEF CatchUpDead, DeathIsAlone
<1>9. CASE Visit
  <2>1. dirty = {} /\ lock = {} /\ PendingDead = {}
    BY <1>9 DEF Visit, Dirt, Reconciled, Reaped, Regressed
  <2>2. cur' \in Tasks => cur' \notin done
    <3>1. ASSUME cur' \in Tasks PROVE Pending /\ cur' = Next1(Tasks \ done)
      BY <1>9, <3>1 DEF Visit, Whole, Tasks
    <3> QED
      BY <1>0, <3>1, NextIsTask DEF Pending, WTypeOK
  <2>3. UNCHANGED <<runVars, dirty, head>> /\ (cur' \in Tasks \/ pc' = "sync")
        /\ pc' \in {"sync", "spawn"}
    <3>1. Pending => Next1(Tasks \ done) \in Tasks
      BY <1>0, NextIsTask DEF Pending, WTypeOK
    <3> QED
      BY <1>9, <3>1 DEF Visit
  <2> QED
    BY <2>1, <2>2, <2>3 DEF DeathIsAlone
<1>10. CASE Sync
  <2>1. cur \in Tasks \cup {Whole}
    BY <1>0 DEF WTypeOK
  <2> QED
    BY <1>0, <1>10, <2>1 DEF Sync, SyncMerge, SyncEnds, SyncHalts, DeathIsAlone
<1>11. CASE ClearHalt \/ RestoreSpecs \/ HaltDirty
  BY <1>a, <1>11 DEF ClearHalt, RestoreSpecs, HaltDirty, Reconciled, Reaped
<1>12. CASE CommitPending \/ RetryArchive
  <2>1. UNCHANGED <<runVars, dirty, head>> /\ pc' \in {"add", "seal"}
        /\ pc = "idle"
    BY <1>12 DEF CommitPending, RetryArchive, Reconciled, Reaped
  <2> QED
    BY <1>0, <2>1 DEF DeathIsAlone
<1>13. CASE AddVerified \/ AddFails \/ CommitRejected
  BY <1>a, <1>13 DEF AddVerified, AddFails, CommitRejected
<1>14. CASE DiscardPaused \/ CommitVerified
  <2>1. head.dead \subseteq head'.dead
    BY <1>0, <1>14 DEF DiscardPaused, CommitVerified, WTypeOK, Heads
  <2>2. lock = {}
    BY <1>0, <1>14 DEF DiscardPaused, CommitVerified, OneRuns
  <2> QED
    BY <1>a, <1>14, <2>1, <2>2 DEF DiscardPaused, CommitVerified
<1>15. CASE WritePatch \/ Discard \/ CommitDead \/ BuryRejected
  <2>1. head.dead \subseteq head'.dead
    BY <1>0, <1>15 DEF WritePatch, Discard, CommitDead, BuryRejected,
       WTypeOK, Heads
  <2>2. lock = {}
    BY <1>0, <1>15 DEF WritePatch, Discard, CommitDead, BuryRejected, OneRuns
  <2> QED
    BY <1>a, <1>15, <2>1, <2>2 DEF WritePatch, Discard, CommitDead,
       BuryRejected
<1>16. CASE \/ Recheck \/ SaveRecord \/ ApplyFirst \/ ApplyRest \/ ApplyFails
            \/ ChangeGreen \/ ChangeRed
  BY <1>a, <1>16
  DEF Recheck, SaveRecord, ApplyFirst, ApplyRest, ApplyFails, ChangeGreen,
  ChangeRed
<1>17. CASE DropRecord \/ MoveFolder \/ ArchiveRejected
  BY <1>a, <1>17 DEF DropRecord, MoveFolder, ArchiveRejected
<1>18. CASE Restart
  BY <1>0, <1>18 DEF Restart, DeathIsAlone
<1>19. CASE Kill
  <2>1. PendingDead' = PendingDead /\ Verified' \subseteq Verified
        /\ pc' = "down" /\ UNCHANGED <<lock, dirty>>
    BY <1>19 DEF Kill
  <2>2. pc = "release" => Verified' = {}
    <3>1. ASSUME pc = "release" PROVE dirty \subseteq {cur}
      BY <1>0, <3>1 DEF OneRuns, DeathIsAlone
    <3> QED
      BY <1>19, <3>1 DEF Kill
  <2> HIDE DEF PendingDead, Verified
  <2> QED
    BY <1>0, <2>1, <2>2 DEF DeathIsAlone
<1>20. CASE \/ HookBreaks \/ HookFixed \/ HumanRetryChange \/ LandSide
  BY <1>a, <1>20 DEF HookBreaks, HookFixed, HumanRetryChange, LandSide
<1>21. CASE CommitArchive \/ HumanRetryArchive \/ HumanSeals
  <2>1. head'.dead = head.dead
    BY <1>0, <1>21
    DEF CommitArchive, HumanRetryArchive, HumanSeals, Sealed, WTypeOK, Heads
  <2> QED
    BY <1>a, <1>21, <2>1 DEF CommitArchive, HumanRetryArchive, HumanSeals
<1>22. ASSUME NEW kept \in SUBSET dirty, HumanCleans(kept) PROVE DeathIsAlone'
  <2>1. head'.dead = head.dead
    BY <1>0, <1>22 DEF HumanCleans, WTypeOK, Heads
  <2>2. dirty' = {} /\ UNCHANGED <<pc, cur, runVars>>
    BY <1>22 DEF HumanCleans
  <2> QED
    BY <1>0, <2>1, <2>2 DEF DeathIsAlone
<1>23. CASE UNCHANGED wVars
  BY <1>a, <1>23 DEF wVars
<1> QED
  BY <1>1, <1>2, <1>3, <1>4, <1>5, <1>6, <1>7, <1>8, <1>9, <1>10, <1>11, <1>12,
     <1>13, <1>14, <1>15, <1>16, <1>17, <1>18, <1>19, <1>20,
     <1>21, <1>22, <1>23
  DEF WNext, Watcher, Reconcile, Lane, Archive, World

(* The archive's steps, and the branch that holds what they commit. *)
LEMMA ArchiveFitsStep == WInv /\ [WNext]_wVars => ArchiveFits'
<1> SUFFICES ASSUME WInv, [WNext]_wVars PROVE ArchiveFits'
  OBVIOUS
<1>0. WTypeOK /\ ArchiveFits
  BY DEF WInv
<1> USE <1>0 DEF ArchiveFits, ArchivePhases
<1>1. ASSUME NEW t \in Tasks, ReapLock(t) \/ AutoRetry(t) \/ HumanRetryTask(t)
                               \/ RecheckRed(t)
      PROVE  ArchiveFits'
  BY <1>1 DEF ReapLock, AutoRetry, Reaped, HumanRetryTask, RecheckRed, Retried
<1>2. CASE \/ ReportReaped \/ CatchUpDead \/ ClearHalt \/ RestoreSpecs
           \/ CommitPending \/ HaltDirty
  BY <1>2
  DEF ReportReaped, CatchUpDead, ClearHalt, RestoreSpecs, CommitPending,
  HaltDirty, Reconciled,
      Reaped
<1>3. CASE Visit \/ RetryArchive
  BY <1>3 DEF Visit, RetryArchive, Reconciled, Reaped, Regressed
<1>4. CASE Sync
  BY <1>4 DEF Sync, SyncMerge, SyncEnds, SyncHalts
<1>5. CASE \/ Spawn \/ AgentEdits \/ AgentPasses \/ AgentDies \/ AgentPauses
           \/ Release
  BY <1>5 DEF Spawn, AgentEdits, AgentPasses, AgentDies, AgentPauses, Release
<1>6. CASE DiscardPaused \/ AddVerified \/ AddFails \/ CommitRejected
  BY <1>6 DEF DiscardPaused, AddVerified, AddFails, CommitRejected
<1>7. CASE CommitVerified
  <2>1. head'.sealed = head.sealed /\ head'.specs = head.specs
    BY <1>7 DEF CommitVerified, WTypeOK, Heads
  <2> QED
    BY <1>7, <2>1 DEF CommitVerified
<1>8. CASE WritePatch \/ Discard \/ BuryRejected
  BY <1>8 DEF WritePatch, Discard, BuryRejected
<1>9. CASE CommitDead
  <2>1. head'.sealed = head.sealed /\ head'.specs = head.specs
    BY <1>9 DEF CommitDead, WTypeOK, Heads
  <2> QED
    BY <1>9, <2>1 DEF CommitDead
<1>10. CASE Recheck \/ SaveRecord \/ ApplyFirst \/ ApplyRest \/ ApplyFails
  BY <1>10 DEF Recheck, SaveRecord, ApplyFirst, ApplyRest, ApplyFails
<1>11. CASE ChangeGreen \/ ChangeRed \/ DropRecord \/ MoveFolder
  BY <1>11 DEF ChangeGreen, ChangeRed, DropRecord, MoveFolder
<1>12. CASE ArchiveRejected \/ Restart \/ Kill \/ HookBreaks \/ HookFixed
  BY <1>12 DEF ArchiveRejected, Restart, Kill, HookBreaks, HookFixed
<1>13. CASE CommitArchive \/ HumanRetryArchive \/ HumanSeals
  <2>1. folder = "archived" /\ specs = "merged" /\ head.code = Tasks
    BY <1>13 DEF CommitArchive, HumanRetryArchive, HumanSeals
  <2>2. /\ head'.sealed = TRUE /\ head'.specs = specs /\ head'.code = head.code
        /\ UNCHANGED <<folder, specs>>
    BY <1>13
    DEF CommitArchive, HumanRetryArchive, HumanSeals, Sealed, WTypeOK, Heads
  <2>3. pc' \in {"idle", "down"}
    BY <1>13, <2>1 DEF CommitArchive, HumanRetryArchive, HumanSeals
  <2> QED
    BY <2>1, <2>2, <2>3
<1>14. CASE HumanRetryChange \/ LandSide
  BY <1>14 DEF HumanRetryChange, LandSide
<1>15. ASSUME NEW kept \in SUBSET dirty, HumanCleans(kept) PROVE ArchiveFits'
  <2>1. head'.sealed = head.sealed /\ head'.specs = head.specs
    BY <1>15 DEF HumanCleans, WTypeOK, Heads
  <2> QED
    BY <1>15, <2>1 DEF HumanCleans
<1>16. CASE UNCHANGED wVars
  BY <1>16 DEF wVars
<1> QED
  BY <1>1, <1>2, <1>3, <1>4, <1>5, <1>6, <1>7, <1>8, <1>9, <1>10, <1>11,
     <1>12, <1>13, <1>14, <1>15, <1>16
  DEF WNext, Watcher, Reconcile, Lane, Archive, World

(* The record covers the living specs while they are merged in part. *)
LEMMA RecordFitsStep ==
  WInv /\ [WNext]_wVars => RecordFits' /\ HalfMergedHasRecord'
<1> SUFFICES ASSUME WInv, [WNext]_wVars
             PROVE  RecordFits' /\ HalfMergedHasRecord'
  OBVIOUS
<1>0. RecordFits /\ HalfMergedHasRecord
      /\ (pc = "drop" => specs = "merged") /\ head.specs \in {"base", "merged"}
  BY DEF WInv, ArchiveFits, WTypeOK, Heads
<1> USE <1>0 DEF RecordFits, HalfMergedHasRecord
<1>1. ASSUME NEW t \in Tasks, ReapLock(t) \/ AutoRetry(t) \/ HumanRetryTask(t)
                               \/ RecheckRed(t)
      PROVE  RecordFits' /\ HalfMergedHasRecord'
  BY <1>1 DEF ReapLock, AutoRetry, HumanRetryTask, RecheckRed, Restored,
     Retried
<1>2. CASE ReportReaped \/ CatchUpDead \/ ClearHalt \/ CommitPending \/ HaltDirty
  <2>1. UNCHANGED <<specs, record>> /\ pc' \in {"patch", "add", "idle"}
    BY <1>2 DEF ReportReaped, CatchUpDead, ClearHalt, CommitPending, HaltDirty
  <2> QED
    BY <2>1
<1>9. CASE RestoreSpecs
  BY <1>9 DEF RestoreSpecs, Reaped, Restored
<1>3. CASE Visit \/ RetryArchive \/ Sync
  BY <1>3 DEF Visit, RetryArchive, Sync, SyncMerge, SyncEnds, SyncHalts
<1>4. CASE Spawn \/ Lane \/ AgentPauses
  BY <1>4
  DEF Lane, Spawn, AgentEdits, AgentPasses, AgentDies, Release,
  DiscardPaused, AddVerified,
      AddFails, CommitVerified, CommitRejected, WritePatch, Discard,
      CommitDead, BuryRejected, AgentPauses
<1>5. CASE \/ Recheck \/ SaveRecord \/ ApplyFirst \/ ApplyRest \/ ApplyFails
           \/ ChangeGreen \/ ChangeRed \/ DropRecord \/ MoveFolder
           \/ CommitArchive \/ ArchiveRejected
  BY <1>5
  DEF Recheck, SaveRecord, ApplyFirst, ApplyRest, ApplyFails, ChangeGreen,
      ChangeRed, DropRecord, MoveFolder, CommitArchive, ArchiveRejected,
      Restored
<1>6. CASE Restart \/ Kill
  BY <1>6 DEF Restart, Kill
<1>7. CASE \/ HookBreaks \/ HookFixed \/ HumanRetryChange
           \/ HumanRetryArchive \/ HumanSeals \/ LandSide
           \/ \E kept \in SUBSET dirty : HumanCleans(kept)
  BY <1>7
  DEF HookBreaks, HookFixed, HumanRetryChange, HumanRetryArchive, HumanSeals,
      LandSide, HumanCleans
<1>8. CASE UNCHANGED wVars
  BY <1>8 DEF wVars
<1> QED
  BY <1>1, <1>2, <1>3, <1>4, <1>5, <1>6, <1>7, <1>8, <1>9
  DEF WNext, Watcher, Reconcile, Archive, World

(* A halt of a hand that has a failure left spends at most that one. *)
LEMMA HaltFits ==
  ASSUME WTypeOK, FailsFit, fails <= CommitRetries, NEW reason, Halt(reason),
         UNCHANGED <<lock, head>>, lock = {} \/ reason # "commit_failed"
  PROVE  FailsFit' /\ CommitBudgetHolds'
<1>1. fails \in Nat /\ CommitRetries \in Nat
  BY LimitsAssumption DEF WTypeOK
<1>3. CASE reason = "commit_failed"
  <2>1. fails' = fails + 1 /\ halt' = "commit_failed" /\ pc' = "idle"
    BY <1>3
  <2> QED
    BY <1>1, <2>1, <1>3 DEF FailsFit, CommitBudgetHolds
<1>4. CASE reason # "commit_failed"
  <2>1. fails' = fails /\ pc' = "idle"
    BY <1>4
  <2> QED
    BY <1>1, <2>1 DEF FailsFit, CommitBudgetHolds
<1> QED
  BY <1>3, <1>4

(* A commit is tried only while the change has a failure left. *)
LEMMA FailsFitStep == WInv /\ [WNext]_wVars => FailsFit' /\ CommitBudgetHolds'
<1> SUFFICES ASSUME WInv, [WNext]_wVars PROVE FailsFit' /\ CommitBudgetHolds'
  OBVIOUS
<1>0. WTypeOK /\ OneRuns /\ ArchiveFits /\ FailsFit /\ CommitBudgetHolds
  BY DEF WInv
<1>a. fails \in Nat /\ CommitRetries \in Nat /\ head.sealed \in BOOLEAN
  BY <1>0, LimitsAssumption DEF WTypeOK, Heads
<1>b. folder = "active" => ~head.sealed
  BY <1>0 DEF ArchiveFits
<1> USE <1>a DEF FailsFit, CommitBudgetHolds
<1>1. ASSUME NEW t \in Tasks, ReapLock(t) PROVE FailsFit' /\ CommitBudgetHolds'
  <2>1. UNCHANGED <<fails, halt, head>> /\ fails <= CommitRetries
    BY <1>0, <1>1 DEF ReapLock
  <2> QED
    BY <1>0, <2>1
<1>2. ASSUME NEW t \in Tasks, AutoRetry(t) \/ HumanRetryTask(t) \/ RecheckRed(t)
      PROVE  FailsFit' /\ CommitBudgetHolds'
  <2>1. UNCHANGED <<lock, fails, halt, head>> /\ (UNCHANGED pc \/ pc' = "idle")
    BY <1>2 DEF AutoRetry, HumanRetryTask, RecheckRed, Retried
  <2> QED
    BY <1>0, <2>1
<1>3. CASE \/ ReportReaped \/ Spawn \/ AgentPasses \/ AgentDies \/ AgentPauses
           \/ Release
  <2>1. UNCHANGED <<fails, halt, head>> /\ fails <= CommitRetries
    BY <1>0, <1>3
    DEF ReportReaped, Spawn, AgentPasses, AgentDies, AgentPauses, Release
  <2> QED
    BY <1>0, <2>1
<1>4. CASE CatchUpDead
  BY <1>0, <1>b, <1>4 DEF CatchUpDead, MayCatchUp
<1>5. CASE ClearHalt
  BY <1>0, <1>b, <1>5 DEF ClearHalt, MayCatchUp
<1>6. CASE RestoreSpecs \/ CommitPending \/ Visit
  BY <1>0, <1>b, <1>6
  DEF RestoreSpecs, CommitPending, Visit, Reconciled, Reaped, Regressed
<1>7. CASE RetryArchive
  BY <1>0, <1>7 DEF RetryArchive
<1>8. CASE SyncMerge \/ SyncEnds \/ AgentEdits \/ DiscardPaused \/ AddVerified
  BY <1>0, <1>8
  DEF SyncMerge, SyncEnds, AgentEdits, DiscardPaused, AddVerified
<1>9. CASE \/ AddFails \/ CommitRejected \/ BuryRejected \/ ArchiveRejected
           \/ ChangeRed \/ \E reason \in SyncStops : SyncHalts(reason)
  <2>1. PICK reason : Halt(reason)
    BY <1>9
    DEF AddFails, CommitRejected, BuryRejected, ArchiveRejected, ChangeRed,
    SyncHalts
  <2>2. UNCHANGED <<lock, head>>
        /\ pc \notin {"agent", "release", "idle", "down"}
    BY <1>9
    DEF AddFails, CommitRejected, BuryRejected, ArchiveRejected, ChangeRed,
    SyncHalts
  <2>3. lock = {} /\ fails <= CommitRetries
    BY <1>0, <2>2 DEF OneRuns
  <2> HIDE DEF Halt
  <2> QED
    BY <1>0, <2>1, <2>2, <2>3, HaltFits
<1>18. CASE HaltDirty
  <2>1. Halt("worktree_dirty") /\ UNCHANGED <<lock, head>>
    BY <1>18 DEF HaltDirty
  <2>2. fails <= CommitRetries
    BY <1>0, <1>b, <1>18 DEF HaltDirty, Reconciled, Reaped, Regressed
  <2> HIDE DEF Halt
  <2> QED
    BY <1>0, <2>1, <2>2, HaltFits
<1>10. CASE WritePatch \/ Discard
  BY <1>0, <1>10 DEF WritePatch, Discard
<1>11. CASE CommitVerified \/ CommitDead
  BY <1>0, <1>11 DEF CommitVerified, CommitDead
<1>12. CASE Recheck \/ SaveRecord \/ ApplyFirst \/ ApplyRest \/ ApplyFails
  BY <1>0, <1>12 DEF Recheck, SaveRecord, ApplyFirst, ApplyRest, ApplyFails
<1>13. CASE ChangeGreen \/ DropRecord \/ MoveFolder
  BY <1>0, <1>13 DEF ChangeGreen, DropRecord, MoveFolder
<1>14. CASE CommitArchive \/ HumanRetryArchive \/ HumanSeals
  <2>1. head'.sealed
    BY <1>0, <1>14
    DEF CommitArchive, HumanRetryArchive, HumanSeals, Sealed, WTypeOK, Heads
  <2> QED
    BY <1>0, <1>14, <2>1 DEF CommitArchive, HumanRetryArchive, HumanSeals
<1>15. CASE Restart \/ Kill \/ HookBreaks \/ HookFixed \/ HumanRetryChange
            \/ LandSide
  BY <1>0, <1>15
  DEF Restart, Kill, HookBreaks, HookFixed, HumanRetryChange, LandSide
<1>16. ASSUME NEW kept \in SUBSET dirty, HumanCleans(kept)
       PROVE  FailsFit' /\ CommitBudgetHolds'
  <2>1. head'.sealed = head.sealed
    BY <1>0, <1>16 DEF HumanCleans, WTypeOK, Heads
  <2> QED
    BY <1>0, <1>16, <2>1 DEF HumanCleans
<1>17. CASE UNCHANGED wVars
  BY <1>0, <1>17 DEF wVars
<1> QED
  BY <1>1, <1>2, <1>3, <1>4, <1>5, <1>6, <1>7, <1>8, <1>9, <1>10, <1>11,
     <1>12, <1>13, <1>14, <1>15, <1>16, <1>17, <1>18
  DEF WNext, Watcher, Reconcile, Lane, Archive, Sync, World

(* An archive that is on the branch stays there. *)
LEMMA SealedStays ==
  ASSUME WTypeOK, [WNext]_wVars, head.sealed
  PROVE  head'.sealed
<1>0. head \in Heads
  BY DEF WTypeOK
<1> USE <1>0 DEF Heads
<1>1. ASSUME UNCHANGED head PROVE head'.sealed
  BY <1>1
<1>2. CASE CommitVerified \/ CommitDead
  BY <1>2 DEF CommitVerified, CommitDead
<1>3. CASE CommitArchive \/ HumanRetryArchive \/ HumanSeals
  BY <1>3 DEF CommitArchive, HumanRetryArchive, HumanSeals, Sealed
<1>4. CASE \E kept \in SUBSET dirty : HumanCleans(kept)
  BY <1>4 DEF HumanCleans
<1>5. ASSUME NEW u \in Tasks, ReapLock(u) \/ AutoRetry(u) \/ HumanRetryTask(u)
                               \/ RecheckRed(u)
      PROVE  UNCHANGED head
  BY <1>5 DEF ReapLock, AutoRetry, HumanRetryTask, RecheckRed
<1>6. CASE \/ ReportReaped \/ CatchUpDead \/ ClearHalt \/ RestoreSpecs
           \/ CommitPending \/ HaltDirty \/ Visit \/ RetryArchive \/ Restart
           \/ Sync \/ Spawn
  BY <1>6
  DEF ReportReaped, CatchUpDead, ClearHalt, RestoreSpecs, CommitPending,
  HaltDirty, Visit,
      RetryArchive, Restart, Sync, SyncMerge, SyncEnds, SyncHalts, Spawn
<1>7. CASE \/ AgentEdits \/ AgentPasses \/ AgentDies \/ AgentPauses
           \/ Release
           \/ DiscardPaused \/ AddVerified \/ AddFails \/ CommitRejected
           \/ WritePatch \/ Discard \/ BuryRejected
  BY <1>7
  DEF AgentEdits, AgentPasses, AgentDies, AgentPauses, Release,
  DiscardPaused, AddVerified,
      AddFails, CommitRejected, WritePatch, Discard, BuryRejected
<1>8. CASE \/ Recheck \/ SaveRecord \/ ApplyFirst \/ ApplyRest \/ ApplyFails
           \/ ChangeGreen \/ ChangeRed \/ DropRecord \/ MoveFolder
           \/ ArchiveRejected
  BY <1>8
  DEF Recheck, SaveRecord, ApplyFirst, ApplyRest, ApplyFails, ChangeGreen,
      ChangeRed, DropRecord, MoveFolder, ArchiveRejected
<1>9. CASE Kill \/ HookBreaks \/ HookFixed \/ HumanRetryChange \/ LandSide
  BY <1>9 DEF Kill, HookBreaks, HookFixed, HumanRetryChange, LandSide
<1>10. CASE UNCHANGED wVars
  BY <1>10 DEF wVars
<1> QED
  BY <1>1, <1>2, <1>3, <1>4, <1>5, <1>6, <1>7, <1>8, <1>9, <1>10
  DEF WNext, Watcher, Reconcile, Lane, Archive, World

-----------------------------------------------------------------------------
(* The theorems.                                                           *)

(* WInv is kept by every step. *)
LEMMA WInvStep == WInv /\ [WNext]_wVars => WInv'
  BY WTypeStep, CurIsTaskStep, OneRunsStep, StartIsCleanStep, DeathIsAloneStep,
     ArchiveFitsStep, RecordFitsStep, FailsFitStep DEF WInv

(* WInv is inductive: every state of every run satisfies it. *)
THEOREM WInvariance == WSpec => []WInv
  BY WInitInv, WInvStep, PTL DEF WSpec

(* Every variable keeps the type its file or its branch gives it. *)
THEOREM WTypeCorrect == WSpec => []WTypeOK
<1>1. WInv => WTypeOK
  BY DEF WInv
<1> QED
  BY <1>1, WInvariance, PTL

(* An archive is on the branch only with every task's work and with the     *)
(* merged living specs.                                                     *)
THEOREM ArchiveIsWhole == WSpec => []SealedWhole
<1>1. WInv => SealedWhole
  BY DEF WInv, ArchiveFits, SealedWhole
<1> QED
  BY <1>1, WInvariance, PTL

(* A half-merged living spec is never without the record that undoes it.    *)
THEOREM RecordOutlivesMerge == WSpec => []HalfMergedHasRecord
<1>1. WInv => HalfMergedHasRecord
  BY DEF WInv
<1> QED
  BY <1>1, WInvariance, PTL

(* A change never fails more commits than its budget and the first.         *)
THEOREM CommitsAreBounded == WSpec => []CommitBudgetHolds
<1>1. WInv => CommitBudgetHolds
  BY DEF WInv
<1> QED
  BY <1>1, WInvariance, PTL

(* A lock appears only in a clean tree, after the commits of the tasks      *)
(* before it.                                                               *)
LEMMA StartsFromCommittedStep ==
  ASSUME WInv, [WNext]_wVars, NEW t \in lock' \ lock
  PROVE  ~Dirt /\ \A u \in Tasks : u < t => u \in head.done
<1>0. WTypeOK /\ CurIsTask /\ StartIsClean
  BY DEF WInv
<1>1. ASSUME lock' \subseteq lock PROVE FALSE
  BY <1>1
<1>2. CASE Spawn
  <2>1. cur \in Tasks /\ t = cur
    BY <1>0, <1>2 DEF Spawn, CurIsTask, TaskPhases
  <2> QED
    BY <1>0, <1>2, <2>1 DEF Spawn, StartIsClean, Dirt
<1>3. ASSUME NEW u \in Tasks, ReapLock(u) \/ AutoRetry(u) \/ HumanRetryTask(u)
                               \/ RecheckRed(u)
      PROVE  FALSE
  BY <1>1, <1>3 DEF ReapLock, AutoRetry, HumanRetryTask, RecheckRed, Retried
<1>4. CASE AgentPasses \/ AgentDies \/ AgentPauses \/ Release
  BY <1>1, <1>4 DEF AgentPasses, AgentDies, AgentPauses, Release
<1>5. CASE \/ ReportReaped \/ CatchUpDead \/ ClearHalt \/ RestoreSpecs
           \/ CommitPending \/ HaltDirty \/ Visit \/ RetryArchive \/ Restart
           \/ Sync
  BY <1>1, <1>5
  DEF ReportReaped, CatchUpDead, ClearHalt, RestoreSpecs, CommitPending,
  HaltDirty,
      Visit, RetryArchive, Restart, Sync, SyncMerge, SyncEnds, SyncHalts
<1>6. CASE \/ AgentEdits \/ DiscardPaused \/ AddVerified \/ AddFails
           \/ CommitVerified \/ CommitRejected
           \/ WritePatch \/ Discard \/ CommitDead \/ BuryRejected
  BY <1>1, <1>6
  DEF AgentEdits, DiscardPaused, AddVerified, AddFails, CommitVerified,
      CommitRejected, WritePatch, Discard, CommitDead, BuryRejected
<1>7. CASE \/ Recheck \/ SaveRecord \/ ApplyFirst \/ ApplyRest \/ ApplyFails
           \/ ChangeGreen \/ ChangeRed \/ DropRecord \/ MoveFolder
           \/ CommitArchive \/ ArchiveRejected
  BY <1>1, <1>7
  DEF Recheck, SaveRecord, ApplyFirst, ApplyRest, ApplyFails, ChangeGreen,
      ChangeRed, DropRecord, MoveFolder, CommitArchive, ArchiveRejected
<1>8. CASE \/ Kill \/ HookBreaks \/ HookFixed \/ HumanRetryChange
           \/ HumanRetryArchive \/ HumanSeals \/ LandSide
           \/ \E kept \in SUBSET dirty : HumanCleans(kept)
  BY <1>1, <1>8
  DEF Kill, HookBreaks, HookFixed, HumanRetryChange, HumanRetryArchive,
  HumanSeals,
      LandSide, HumanCleans
<1>9. CASE UNCHANGED wVars
  BY <1>1, <1>9 DEF wVars
<1> QED
  BY <1>2, <1>3, <1>4, <1>5, <1>6, <1>7, <1>8, <1>9
  DEF WNext, Watcher, Reconcile, Lane, Archive, World

(* A task's attempt starts in a tree that holds nothing uncommitted, with   *)
(* every earlier task's marker in HEAD.                                     *)
THEOREM StartsAreCommitted == WSpec => StartsFromCommitted
<1>1. WInv /\ [WNext]_wVars =>
        [\A t \in lock' \ lock :
            /\ ~Dirt
            /\ \A u \in Tasks : u < t => u \in head.done]_wVars
  BY StartsFromCommittedStep
<1> QED
  BY <1>1, WInvariance, PTL DEF WSpec, StartsFromCommitted

(* A verified task's edits leave the tree only for its commit, but for a    *)
(* human's clean-up and for a death recorded over a lock that a kill left   *)
(* beside the done marker.                                                  *)
LEMMA VerifiedKeptStep ==
  ASSUME WInv, [WNext]_wVars, NEW t \in dirty \cap done,
         t \notin dirty', budget'["human"] = budget["human"]
  PROVE  t \in head'.code \cup unreleased
<1>0. WTypeOK /\ CurIsTask /\ DeathIsAlone /\ t \in Tasks
  BY DEF WInv, WTypeOK
<1>1. ASSUME dirty \subseteq dirty' PROVE FALSE
  BY <1>1
<1>3. CASE DiscardPaused \/ Discard
  BY <1>0, <1>3 DEF DiscardPaused, Discard, DeathIsAlone, Verified
<1>4. CASE CommitVerified
  <2>1. t = cur
    BY <1>4 DEF CommitVerified
  <2> QED
    BY <1>0, <1>4, <2>1 DEF CommitVerified, WTypeOK, Heads
<1>5. ASSUME NEW kept \in SUBSET dirty, HumanCleans(kept) PROVE FALSE
  <2>1. budget["human"] \in Nat /\ budget["human"] > 0
        /\ budget'["human"] = budget["human"] - 1
    BY <1>0, <1>5 DEF HumanCleans, WTypeOK, Kinds
  <2> QED
    BY <2>1
<1>6. ASSUME NEW u \in Tasks, ReapLock(u) \/ AutoRetry(u) \/ HumanRetryTask(u)
                               \/ RecheckRed(u)
      PROVE  FALSE
  BY <1>1, <1>6 DEF ReapLock, AutoRetry, HumanRetryTask, RecheckRed
<1>7. CASE \/ ReportReaped \/ CatchUpDead \/ ClearHalt \/ RestoreSpecs
           \/ CommitPending \/ HaltDirty \/ Visit \/ RetryArchive \/ Restart
           \/ Sync \/ Spawn
  BY <1>1, <1>7
  DEF ReportReaped, CatchUpDead, ClearHalt, RestoreSpecs, CommitPending,
  HaltDirty, Visit,
      RetryArchive, Restart, Sync, SyncMerge, SyncEnds, SyncHalts, Spawn
<1>8. CASE \/ AgentEdits \/ AgentPasses \/ AgentDies \/ AgentPauses \/ Release
           \/ AddVerified \/ AddFails \/ CommitRejected
           \/ WritePatch \/ CommitDead \/ BuryRejected
  BY <1>1, <1>8
  DEF AgentEdits, AgentPasses, AgentDies, AgentPauses, Release, AddVerified,
  AddFails,
      CommitRejected, WritePatch, CommitDead, BuryRejected
<1>9. CASE \/ Recheck \/ SaveRecord \/ ApplyFirst \/ ApplyRest \/ ApplyFails
           \/ ChangeGreen \/ ChangeRed \/ DropRecord \/ MoveFolder
           \/ CommitArchive \/ ArchiveRejected
  BY <1>1, <1>9
  DEF Recheck, SaveRecord, ApplyFirst, ApplyRest, ApplyFails, ChangeGreen,
      ChangeRed, DropRecord, MoveFolder, CommitArchive, ArchiveRejected
<1>10. CASE \/ Kill \/ HookBreaks \/ HookFixed \/ HumanRetryChange
            \/ HumanRetryArchive \/ HumanSeals \/ LandSide
  BY <1>1, <1>10
  DEF Kill, HookBreaks, HookFixed, HumanRetryChange, HumanRetryArchive,
  HumanSeals,
      LandSide
<1>11. CASE UNCHANGED wVars
  BY <1>1, <1>11 DEF wVars
<1> QED
  BY <1>3, <1>4, <1>5, <1>6, <1>7, <1>8, <1>9, <1>10, <1>11
  DEF WNext, Watcher, Reconcile, Lane, Archive, World

(* No death, pause, rejected commit or restart throws a verified task's     *)
(* edits away, unless a kill fell between its done marker and the release   *)
(* of its lock; a human's clean-up may.                                     *)
THEOREM VerifiedIsKept == WSpec => VerifiedNeverDiscarded
<1>1. WInv /\ [WNext]_wVars =>
        [\A t \in dirty \cap done :
           /\ t \notin dirty'
           /\ budget'["human"] = budget["human"]
           => t \in head'.code \cup unreleased]_wVars
  BY VerifiedKeptStep
<1> QED
  BY <1>1, WInvariance, PTL DEF WSpec, VerifiedNeverDiscarded
=============================================================================
