-------------------------- MODULE DeliveryProofs --------------------------
(***************************************************************************)
(* The delivery of a change: Landing's safety under Autopilot's Spec, for  *)
(* every set of landers and of commits of others, and Spec's refinement of *)
(* WSpec, by which WorktreeChangeProofs' theorems hold of it.              *)
(***************************************************************************)
EXTENDS Autopilot, WorktreeChangeProofs

(***************************************************************************)
(* The strengthening.                                                      *)
(***************************************************************************)
\* the branch and the worktree hold nothing the default branch lacks
BranchFits ==
  /\ joined \subseteq main /\ theirs \subseteq main
  /\ joined \cup theirs \subseteq draft /\ joined \subseteq text

\* a land commit is put on commits its tree holds and that stay in main
BuiltFits ==
  \A l \in Landers : /\ built[l].base \subseteq main
                     /\ built[l].base \subseteq built[l].code
                     /\ built[l].base \subseteq built[l].text

\* a land passes its checks only with the archive on the branch, and cleans
\* up only once the change has landed
LandFits ==
  /\ Landed \/ origin \cap Landers # {} => head.sealed
  /\ worktree = "gone" => Landed
  /\ \A l \in Landers : at[l] \notin {"out", "fetch", "check"} => head.sealed
  /\ \A l \in Landers : at[l] \in {"clean", "again", "tidy"} => Landed

\* a publisher moves the checkout after its push
PushFits == \A l \in Publishers : at[l] = "move" \/ l \in main => l \in origin

InMerge(a) == at[a] \in {"specs", "verify", "join"}

\* an unfinished merge has its sync
MergeFits ==
  merging /\ ~killed => worktree = "gone" \/ \E a \in Syncers : InMerge(a)

\* a land commit that was pushed or landed is followed by its after-land
\* command, unless its land ended before
AfterFits ==
  \A l \in Landers : l \in main \cup origin =>
    \/ after # "unrun"
    \/ at[l] \in {"move", "clean", "after"}
    \/ l \in dropped

LandInv ==
  /\ LTypeOK
  /\ BranchFits
  /\ BuiltFits
  /\ LandFits
  /\ PushFits
  /\ MergeFits
  /\ AfterFits

\* the autopilot's land is in the pass that began it
PilotFits == at["autopilot"] \notin Rest => pilot = "landing"

\* the autopilot begins a land without a lander's own checks
PilotLands ==
  /\ at["autopilot"] \in Rest
  /\ At("autopilot", "check")
  /\ UNCHANGED <<wVars, refVars, branchVars, workings, endVars, left, killed>>

LandNext == LNext \/ PilotLands

USE DEF refVars, branchVars, workings, endVars, syncStays,
        Goto, MoveTo, Halt, SetMerge, WorktreeStays,
        markVars, runVars, workVars, specVars, treeVars, haltVars, worldVars,
        restVars

-----------------------------------------------------------------------------
(* Who is who, and where a step leaves the processes.                      *)

(* The watcher is no lander, and landers and moves are different commits. *)
LEMMA NamesApart ==
  /\ "watcher" \notin Landers /\ "watcher" \in Syncers
  /\ Landers \subseteq Syncers /\ Publishers \subseteq Landers
  /\ "autopilot" \in Landers /\ "autopilot" \notin Publishers
  /\ Landers \cap Moves = {} /\ Moves \subseteq History
  /\ Landers \subseteq History
  BY LandersAssumption, PilotAssumption DEF Syncers, History

(* Only the process that takes a step moves. *)
LEMMA AtSet ==
  ASSUME LTypeOK, NEW a \in Syncers, NEW p, At(a, p), NEW b \in Syncers
  PROVE  at'[b] = IF b = a THEN p ELSE at[b]
  BY DEF LTypeOK, At

(* A phase a process moves to is one of its own. *)
LEMMA AtType ==
  ASSUME LTypeOK, NEW a \in Syncers, NEW p \in SyncPhases \cup LandPhases,
         a = "watcher" => p \in SyncPhases, At(a, p)
  PROVE  /\ at' \in [Syncers -> SyncPhases \cup LandPhases]
         /\ at'["watcher"] \in SyncPhases
<1>1. at \in [Syncers -> SyncPhases \cup LandPhases] /\ at["watcher"] \in SyncPhases
  BY DEF LTypeOK
<1>2. at' = [at EXCEPT ![a] = p]
  BY DEF At
<1>3. at'["watcher"] = IF a = "watcher" THEN p ELSE at["watcher"]
  BY NamesApart, AtSet
<1>4. at' \in [Syncers -> SyncPhases \cup LandPhases]
  BY <1>1, <1>2
<1>5. at'["watcher"] \in SyncPhases
  BY <1>1, <1>3
<1> QED
  BY <1>4, <1>5

(* Spending what may go wrong keeps the budget's type. *)
LEMMA AllowType ==
  ASSUME LTypeOK, NEW kind, Allow(kind)
  PROVE  left' \in [LandKinds -> Nat]
<1>1. left \in [LandKinds -> Nat] /\ left[kind] > 0
      /\ left' = [left EXCEPT ![kind] = @ - 1]
  BY DEF LTypeOK, Allow
<1>2. CASE kind \in LandKinds
  BY <1>1, <1>2
<1>3. CASE kind \notin LandKinds
  BY <1>1, <1>3
<1> QED
  BY <1>2, <1>3

(* What a sync leaves alone, and how it moves its caller. *)
LEMMA SyncFacts ==
  ASSUME LTypeOK, NEW a \in Syncers, SyncSteps(a)
  PROVE  /\ UNCHANGED <<refVars, workings, endVars, killed>>
         /\ at[a] \in SyncPhases
         /\ \E p \in SyncPhases \cup {"build", "out"} :
              /\ At(a, p) /\ (a = "watcher" => p \in SyncPhases)
              /\ merging' => \/ p \in {"specs", "verify", "join"}
                             \/ merging /\ ~InMerge(a)
<1> DEFINE Facts(p) ==
      /\ UNCHANGED <<refVars, workings, endVars, killed>>
      /\ at[a] \in SyncPhases
      /\ At(a, p) /\ (a = "watcher" => p \in SyncPhases)
      /\ merging' => \/ p \in {"specs", "verify", "join"}
                     \/ merging /\ ~InMerge(a)
<1>0. SUFFICES \E p \in SyncPhases \cup {"build", "out"} : Facts(p)
  OBVIOUS
<1> USE DEF Syncing, SyncPhases, Returns, Stops, SyncEnds, SyncHalts, InMerge
<1>1. CASE SyncAsks(a)
  <2>1. Facts("ask") \/ Facts("build") \/ Facts("out") \/ Facts("merge")
    BY <1>1 DEF SyncAsks, wVars
  <2> QED
    BY <2>1, Zenon
<1>2. CASE SyncMerges(a)
  <2>1. Facts("specs")
    BY <1>2 DEF SyncMerges
  <2> QED
    BY <2>1, Zenon
<1>3. CASE SyncConflicts(a) \/ SyncRefused(a)
  <2>1. Facts("ask") \/ Facts("out")
    BY <1>3 DEF SyncConflicts, SyncRefused
  <2> QED
    BY <2>1, Zenon
<1>4. CASE SyncRewrites(a) \/ SyncVerifies(a)
  <2>1. Facts("verify") \/ Facts("join")
    BY <1>4 DEF SyncRewrites, SyncVerifies
  <2> QED
    BY <2>1, Zenon
<1>5. CASE SyncJoins(a) \/ SyncRejected(a)
  <2>1. Facts("ask") \/ Facts("build") \/ Facts("out")
    BY <1>5 DEF SyncJoins, SyncRejected
  <2> QED
    BY <2>1, Zenon
<1>6. ASSUME NEW reason \in SyncStops, SyncFails(a, reason)
      PROVE  \E p \in SyncPhases \cup {"build", "out"} : Facts(p)
  <2>1. Facts("ask") \/ Facts("out")
    BY <1>6 DEF SyncFails
  <2> QED
    BY <2>1, Zenon
<1> HIDE DEF Facts
<1> QED
  BY <1>1, <1>2, <1>3, <1>4, <1>5, <1>6 DEF SyncSteps

(* A land's steps leave the change alone, and a sync's phases too. *)
LEMMA LandFacts ==
  ASSUME LTypeOK, NEW l \in Landers, LandSteps(l)
  PROVE  /\ UNCHANGED <<wVars, branchVars, killed>>
         /\ \E p \in LandPhases \cup {"ask"} : At(l, p)
         /\ \/ at[l] \in {"fetch", "check", "build", "push", "move", "clean",
                         "tidy", "after", "again", "ahead"}
            \/ LandLosesTree(l)
<1> DEFINE Facts(p) ==
      /\ UNCHANGED <<wVars, branchVars, killed>> /\ At(l, p)
      /\ \/ at[l] \in {"fetch", "check", "build", "push", "move", "clean",
                      "tidy", "after", "again", "ahead"}
         \/ LandLosesTree(l)
<1>0. SUFFICES \E p \in LandPhases \cup {"ask"} : Facts(p)
  OBVIOUS
<1> USE DEF LandPhases, Rest
<1>1. CASE LandFetches(l) \/ LandDiverged(l)
  <2>1. Facts("check") \/ Facts("out")
    BY <1>1 DEF LandFetches, LandDiverged
  <2> HIDE DEF Facts
  <2> QED
    BY <2>1
<1>2. CASE LandChecks(l)
  <2>1. Facts("out") \/ Facts("again") \/ Facts("ask")
    BY <1>2 DEF LandChecks
  <2> HIDE DEF Facts
  <2> QED
    BY <2>1
<1>3. CASE LandBuilds(l) \/ LandPushes(l)
  <2>1. Facts("push") \/ Facts("move") \/ Facts("out")
    BY <1>3 DEF LandBuilds, LandPushes
  <2> HIDE DEF Facts
  <2> QED
    BY <2>1
<1>4. CASE LandMoves(l) \/ LandBlocked(l)
  <2>1. Facts("clean") \/ Facts("out")
    BY <1>4 DEF LandMoves, LandBlocked
  <2> HIDE DEF Facts
  <2> QED
    BY <2>1
<1>5. CASE LandCleans(l)
  <2>1. Facts("after") \/ Facts("ahead") \/ Facts("landed")
    BY <1>5 DEF LandCleans
  <2> HIDE DEF Facts
  <2> QED
    BY <2>1
<1>6. CASE LandRunsAfter(l) \/ LandRetriesAfter(l) \/ LandPushesAhead(l)
  <2>1. Facts("landed") \/ Facts("tidy")
    BY <1>6 DEF LandRunsAfter, LandRetriesAfter, LandPushesAhead
  <2> HIDE DEF Facts
  <2> QED
    BY <2>1
<1>7. CASE LandLosesTree(l)
  <2>1. Facts("out")
    BY <1>7 DEF LandLosesTree
  <2> HIDE DEF Facts
  <2> QED
    BY <2>1
<1> HIDE DEF Facts
<1> QED
  BY <1>1, <1>2, <1>3, <1>4, <1>5, <1>6, <1>7 DEF LandSteps

-----------------------------------------------------------------------------
(* Every step of a delivery is one of its change.                          *)

(* The watcher's sync is WorktreeChange's. *)
LEMMA WatcherSyncs ==
  ASSUME LTypeOK, SyncSteps("watcher")
  PROVE  [Sync]_wVars
<1> USE DEF Syncing, Returns, Stops, Sync, SyncMerge, Unstaged, SyncStops
<1>1. CASE SyncAsks("watcher") \/ SyncMerges("watcher")
  BY <1>1 DEF SyncAsks, SyncMerges
<1>2. CASE SyncConflicts("watcher") \/ SyncRefused("watcher")
  BY <1>2 DEF SyncConflicts, SyncRefused
<1>3. CASE SyncRewrites("watcher") \/ SyncVerifies("watcher")
  BY <1>3 DEF SyncRewrites, SyncVerifies
<1>4. CASE SyncJoins("watcher") \/ SyncRejected("watcher")
  BY <1>4 DEF SyncJoins, SyncRejected
<1>5. ASSUME NEW reason \in SyncStops, SyncFails("watcher", reason)
      PROVE  [Sync]_wVars
  BY <1>5 DEF SyncFails
<1> HIDE DEF Sync, SyncMerge, Returns, Stops
<1> QED
  BY <1>1, <1>2, <1>3, <1>4, <1>5 DEF SyncSteps

(* A lander's sync leaves a merge and a stop, which the archive may show. *)
LEMMA LanderSyncs ==
  ASSUME WInv, head.sealed, NEW l \in Landers, SyncSteps(l)
  PROVE  [LandSide]_wVars
<1>1. folder = "archived" /\ merging \in BOOLEAN /\ l # "watcher"
  BY NamesApart DEF WInv, ArchiveFits, WTypeOK
<1>2. ASSUME NEW reason \in SyncStops, NEW m \in BOOLEAN, Stops(l, reason, m)
      PROVE  LandSide
  BY <1>1, <1>2 DEF Stops, Recorded, LandSide
<1>3. ASSUME Returns(l) PROVE LandSide
  BY <1>1, <1>3 DEF Returns, LandSide
<1>4. /\ "requirement_changed" \in SyncStops /\ "sync_conflict" \in SyncStops
      /\ "sync_failed" \in SyncStops
  BY DEF SyncStops
<1>5. CASE SyncAsks(l) \/ SyncJoins(l)
  BY <1>1, <1>2, <1>3, <1>4, <1>5 DEF SyncAsks, SyncJoins
<1>6. CASE SyncMerges(l)
  BY <1>1, <1>6 DEF SyncMerges, LandSide
<1>7. CASE SyncConflicts(l) \/ SyncRefused(l) \/ SyncRejected(l)
  BY <1>2, <1>4, <1>7 DEF SyncConflicts, SyncRefused, SyncRejected
<1>8. CASE SyncRewrites(l) \/ SyncVerifies(l)
  BY <1>8 DEF SyncRewrites, SyncVerifies
<1>9. ASSUME NEW reason \in SyncStops, SyncFails(l, reason) PROVE LandSide
  BY <1>2, <1>9 DEF SyncFails
<1> QED
  BY <1>5, <1>6, <1>7, <1>8, <1>9 DEF SyncSteps

(* The refinement, step by step. *)
LEMMA LandIsWork ==
  ASSUME WInv, LTypeOK, LandFits, [LandNext]_lVars
  PROVE  [WNext]_wVars
<1>1. CASE Work
  BY <1>1 DEF Work, Elsewhere, WNext, World
<1>2. CASE \/ \E c \in Moves : MainMoves(c) \/ OriginMoves(c)
           \/ HumanPulls \/ \E l \in Landers : LandKilled(l)
  BY <1>2 DEF MainMoves, OriginMoves, HumanPulls, LandKilled
<1>3. CASE HumanAborts
  <2>1. LandSide
    BY <1>3 DEF HumanAborts, LandSide
  <2> QED
    BY <2>1 DEF WNext, World
<1>4. CASE TreeCleaned \/ WatcherKilled
  BY <1>4 DEF TreeCleaned, WatcherKilled, WNext, World
<1>5. CASE SyncSteps("watcher")
  BY <1>5, WatcherSyncs DEF WNext
<1>6. ASSUME NEW l \in Landers, SyncSteps(l) PROVE [WNext]_wVars
  <2>1. head.sealed
    BY <1>6, SyncFacts, NamesApart DEF LandFits, SyncPhases
  <2> QED
    BY <1>6, <2>1, LanderSyncs DEF WNext, World
<1>7. ASSUME NEW l \in Landers, LandBegins(l) \/ LandSteps(l) PROVE [WNext]_wVars
  BY <1>7, LandFacts DEF LandBegins
<1>8. CASE PilotLands
  BY <1>8 DEF PilotLands
<1>9. CASE UNCHANGED lVars
  BY <1>9 DEF lVars
<1> QED
  BY <1>1, <1>2, <1>3, <1>4, <1>5, <1>6, <1>7, <1>8, <1>9
  DEF LandNext, LNext, Others, Syncers

(* WInv survives syncs and lands, and a sealed branch stays sealed. *)
LEMMA WorkStays ==
  ASSUME WInv, LandInv, [LandNext]_lVars
  PROVE  WInv' /\ (head.sealed => head'.sealed)
<1>1. [WNext]_wVars
  BY LandIsWork DEF LandInv
<1> QED
  BY <1>1, WInvStep, SealedStays DEF WInv

(* Only a sync and a human begin or end a merge. *)
LEMMA WorkKeepsMerge == Watcher \/ Elsewhere => UNCHANGED merging
<1>1. Restart \/ Reconcile => UNCHANGED merging
  BY DEF Restart, Reconcile, ReapLock, AutoRetry, CatchUpDead, ClearHalt,
         RestoreSpecs, CommitPending, HaltDirty, Visit, Spawn, RetryArchive,
         Retried, ReportReaped
<1>2. Lane => UNCHANGED merging
  BY DEF Lane, AgentEdits, AgentPasses, AgentDies, Release,
         DiscardPaused, AddVerified,
         AddFails, CommitVerified, CommitRejected, WritePatch, Discard,
         CommitDead, BuryRejected
<1>3. Archive => UNCHANGED merging
  BY DEF Archive, Recheck, RecheckRed, SaveRecord, ApplyFirst, ApplyRest,
         ApplyFails, ChangeGreen, ChangeRed, DropRecord, MoveFolder,
         CommitArchive, ArchiveRejected
<1>4. Elsewhere => UNCHANGED merging
  BY DEF Elsewhere, AgentPauses, HookBreaks, HookFixed, Retried, HumanRetryTask,
         HumanRetryChange, HumanRetryArchive, HumanSeals
<1> QED
  BY <1>1, <1>2, <1>3, <1>4 DEF Watcher

(* The steps that may change a branch, a process or a budget, for the      *)
(* lemmas below to go through.                                             *)
LEMMA LandCases ==
  ASSUME [LandNext]_lVars
  PROVE  \/ UNCHANGED <<landVars, merging>>
         \/ \E c \in Moves : MainMoves(c) \/ OriginMoves(c)
         \/ HumanPulls \/ HumanAborts \/ TreeCleaned \/ WatcherKilled
         \/ \E l \in Landers : LandKilled(l) \/ LandBegins(l)
         \/ \E a \in Syncers : SyncSteps(a)
         \/ \E l \in Landers : LandSteps(l)
         \/ PilotLands
<1>1. CASE Work
  BY <1>1, WorkKeepsMerge DEF Work
<1>2. CASE UNCHANGED lVars
  BY <1>2 DEF lVars, wVars
<1> QED
  BY <1>1, <1>2 DEF LandNext, LNext, Others

-----------------------------------------------------------------------------
(* The invariant, part by part.                                            *)

(* Both invariants hold at first. *)
LEMMA LandInit == LInit => LandInv /\ WInv
<1> SUFFICES ASSUME LInit PROVE LandInv /\ WInv
  OBVIOUS
<1>1. WInv /\ merging = FALSE /\ budget \in Budgets /\ head.sealed = FALSE
  BY WInitInv DEF LInit, WInit
<1>2. left \in [LandKinds -> Nat]
  BY <1>1, LandBudgetAssumption DEF LInit
<1>3. /\ at \in [Syncers -> SyncPhases \cup LandPhases]
      /\ at["watcher"] \in SyncPhases
      /\ \A l \in Landers : at[l] = "out"
  BY NamesApart DEF LInit, SyncPhases, LandPhases, Rest
<1>4. /\ saw \in [Publishers -> [origin : SUBSET History, landed : BOOLEAN]]
      /\ built \in [Landers -> [base : SUBSET History, code : SUBSET History,
                                text : SUBSET History]]
      /\ \A l \in Landers : built[l].base = {}
  BY DEF LInit
<1>5. LTypeOK
  BY <1>1, <1>2, <1>3, <1>4 DEF LInit, LTypeOK, WInv
<1>6. BranchFits /\ BuiltFits
  BY <1>4 DEF LInit, BranchFits, BuiltFits
<1>7. LandFits /\ PushFits
  BY <1>3, NamesApart DEF LInit, LandFits, PushFits, Landed
<1>8. MergeFits /\ AfterFits
  BY <1>1 DEF LInit, MergeFits, AfterFits
<1> QED
  BY <1>1, <1>5, <1>6, <1>7, <1>8 DEF LandInv

(* The types of where the processes are and of the budget. *)
LEMMA AtTypeStep ==
  ASSUME LTypeOK, [LandNext]_lVars
  PROVE  /\ at' \in [Syncers -> SyncPhases \cup LandPhases]
         /\ at'["watcher"] \in SyncPhases
<1> DEFINE AtFits == /\ at \in [Syncers -> SyncPhases \cup LandPhases]
                     /\ at["watcher"] \in SyncPhases
<1> SUFFICES AtFits'
  OBVIOUS
<1>0. /\ at \in [Syncers -> SyncPhases \cup LandPhases]
      /\ at["watcher"] \in SyncPhases
  BY DEF LTypeOK
<1>1. CASE UNCHANGED at
  BY <1>0, <1>1
<1>2. CASE WatcherKilled
  <2>1. at' = [a \in Syncers |-> CASE a = "watcher" -> "ask"
                                   [] a = "autopilot" -> "out"
                                   [] OTHER -> at[a]]
    BY <1>2 DEF WatcherKilled
  <2>2. "ask" \in SyncPhases /\ "out" \in LandPhases
    BY DEF SyncPhases, LandPhases, Rest
  <2> QED
    BY <1>0, <2>1, <2>2, NamesApart
<1>3. ASSUME NEW l \in Landers, LandKilled(l) \/ LandBegins(l) \/ LandSteps(l)
      PROVE  AtFits'
  <2>1. PICK p \in LandPhases \cup {"ask"} : At(l, p)
    BY <1>3, LandFacts DEF LandKilled, LandBegins, LandPhases, Rest
  <2> QED
    BY <2>1, AtType, NamesApart DEF SyncPhases
<1>4. ASSUME NEW a \in Syncers, SyncSteps(a) PROVE AtFits'
  <2>1. PICK p \in SyncPhases \cup {"build", "out"} :
               At(a, p) /\ (a = "watcher" => p \in SyncPhases)
    BY <1>4, SyncFacts
  <2> QED
    BY <2>1, AtType DEF LandPhases, Rest
<1>5. CASE PilotLands
  BY <1>5, AtType, NamesApart DEF PilotLands, LandPhases
<1>6. CASE \/ UNCHANGED <<landVars, merging>>
           \/ \E c \in Moves : MainMoves(c) \/ OriginMoves(c)
           \/ HumanPulls \/ HumanAborts \/ TreeCleaned
  BY <1>1, <1>6
  DEF landVars, MainMoves, OriginMoves, HumanPulls, HumanAborts, TreeCleaned
<1> HIDE DEF AtFits
<1> QED
  BY <1>2, <1>3, <1>4, <1>5, <1>6, LandCases

(* The budget keeps its type. *)
LEMMA LeftTypeStep ==
  ASSUME LTypeOK, [LandNext]_lVars
  PROVE  left' \in [LandKinds -> Nat]
<1>1. ASSUME UNCHANGED left PROVE left' \in [LandKinds -> Nat]
  BY <1>1 DEF LTypeOK
<1>2. CASE \E c \in Moves : MainMoves(c) \/ OriginMoves(c)
  BY <1>2, AllowType DEF MainMoves, OriginMoves
<1>3. CASE HumanPulls \/ HumanAborts \/ TreeCleaned \/ WatcherKilled \/ PilotLands
  BY <1>1, <1>3, AllowType
  DEF HumanPulls, HumanAborts, TreeCleaned, WatcherKilled, PilotLands
<1>4. ASSUME NEW l \in Landers, LandKilled(l) \/ LandBegins(l)
      PROVE  left' \in [LandKinds -> Nat]
  BY <1>4, AllowType DEF LandKilled, LandBegins
<1>5. ASSUME NEW a \in Syncers, SyncSteps(a) PROVE left' \in [LandKinds -> Nat]
  <2>1. UNCHANGED left \/ Allow("red")
    BY <1>5
    DEF SyncSteps, SyncAsks, SyncMerges, SyncConflicts, SyncRefused, SyncRewrites,
        SyncVerifies, SyncJoins, SyncRejected, SyncFails
  <2> QED
    BY <1>1, <2>1, AllowType
<1>6. ASSUME NEW l \in Landers, LandSteps(l) PROVE left' \in [LandKinds -> Nat]
  <2>1. UNCHANGED left \/ Allow("blocked") \/ Allow("red")
    BY <1>6
    DEF LandSteps, LandFetches, LandDiverged, LandChecks, LandBuilds, LandPushes,
        LandMoves, LandBlocked, LandCleans, LandRunsAfter, LandRetriesAfter,
        RunAfterLand, LandPushesAhead, LandLosesTree
  <2> QED
    BY <1>1, <2>1, AllowType
<1>7. CASE UNCHANGED <<landVars, merging>>
  BY <1>1, <1>7 DEF landVars
<1> QED
  BY <1>2, <1>3, <1>4, <1>5, <1>6, <1>7, LandCases

(* What a default branch or origin may become. *)
LEMMA RefStep ==
  ASSUME LandInv, [LandNext]_lVars
  PROVE  /\ main \subseteq main' /\ origin \subseteq origin'
         /\ main' \subseteq main \cup origin \cup Landers \cup Moves
         /\ origin' \subseteq main \cup origin \cup Landers \cup Moves
         /\ \A l \in (main' \cap Landers) \ (main \cup origin) : LandMoves(l)
         /\ \A l \in (origin' \cap Landers) \ (main \cup origin) : LandPushes(l)
<1> DEFINE Fits ==
         /\ main \subseteq main' /\ origin \subseteq origin'
         /\ main' \subseteq main \cup origin \cup Landers \cup Moves
         /\ origin' \subseteq main \cup origin \cup Landers \cup Moves
         /\ \A l \in (main' \cap Landers) \ (main \cup origin) : LandMoves(l)
         /\ \A l \in (origin' \cap Landers) \ (main \cup origin) : LandPushes(l)
<1> SUFFICES Fits
  OBVIOUS
<1>1. ASSUME UNCHANGED refVars PROVE Fits
  BY <1>1
<1>2. ASSUME NEW c \in Moves, MainMoves(c) \/ OriginMoves(c) PROVE Fits
  BY <1>2, NamesApart DEF MainMoves, OriginMoves
<1>3. CASE HumanPulls
  BY <1>3 DEF HumanPulls
<1>4. CASE HumanAborts \/ TreeCleaned \/ WatcherKilled \/ PilotLands
  BY <1>1, <1>4 DEF HumanAborts, TreeCleaned, WatcherKilled, PilotLands
<1>5. ASSUME NEW l \in Landers, LandKilled(l) \/ LandBegins(l) PROVE Fits
  BY <1>1, <1>5 DEF LandKilled, LandBegins
<1>6. ASSUME NEW a \in Syncers, SyncSteps(a) PROVE Fits
  BY <1>1, <1>6, SyncFacts DEF LandInv
<1>7. ASSUME NEW l \in Landers, LandSteps(l) PROVE Fits
  <2>1. CASE LandFetches(l)
    BY <2>1 DEF LandFetches
  <2>2. CASE LandPushes(l)
    BY <2>2 DEF LandPushes, LandCommit, LandInv, BuiltFits
  <2>3. CASE LandMoves(l)
    BY <2>3 DEF LandMoves, LandCommit, LandInv, BuiltFits
  <2>4. CASE LandPushesAhead(l)
    BY <2>4 DEF LandPushesAhead
  <2>5. CASE \/ LandDiverged(l) \/ LandChecks(l) \/ LandBuilds(l) \/ LandBlocked(l)
             \/ LandCleans(l) \/ LandRunsAfter(l) \/ LandRetriesAfter(l)
             \/ LandLosesTree(l)
    BY <1>1, <2>5
    DEF LandDiverged, LandChecks, LandBuilds, LandBlocked, LandCleans,
        LandRunsAfter, LandRetriesAfter, LandLosesTree
  <2> HIDE DEF Fits
  <2> QED
    BY <1>7, <2>1, <2>2, <2>3, <2>4, <2>5 DEF LandSteps
<1>8. CASE UNCHANGED <<landVars, merging>>
  BY <1>1, <1>8 DEF landVars
<1> HIDE DEF Fits
<1> QED
  BY <1>2, <1>3, <1>4, <1>5, <1>6, <1>7, <1>8, LandCases

(* A change that has landed stays landed. *)
LEMMA LandedStays ==
  ASSUME LandInv, [LandNext]_lVars, Landed
  PROVE  Landed'
  BY RefStep DEF Landed

(* The branch takes from the default branch only what it has. *)
LEMMA BranchFitsStep ==
  ASSUME LandInv, [LandNext]_lVars
  PROVE  BranchFits'
<1>0. BranchFits /\ main \subseteq main'
  BY RefStep DEF LandInv
<1>1. ASSUME UNCHANGED branchVars PROVE BranchFits'
  BY <1>0, <1>1 DEF BranchFits
<1>2. ASSUME NEW c \in Moves, MainMoves(c) \/ OriginMoves(c) PROVE BranchFits'
  BY <1>1, <1>2 DEF MainMoves, OriginMoves
<1>3. CASE HumanPulls \/ WatcherKilled \/ PilotLands
  BY <1>1, <1>3 DEF HumanPulls, WatcherKilled, PilotLands
<1>4. CASE HumanAborts \/ TreeCleaned
  BY <1>0, <1>4 DEF HumanAborts, TreeCleaned, BranchFits
<1>5. ASSUME NEW l \in Landers, LandKilled(l) \/ LandBegins(l) \/ LandSteps(l)
      PROVE  BranchFits'
  BY <1>1, <1>5, LandFacts DEF LandKilled, LandBegins, LandInv
<1>6. ASSUME NEW a \in Syncers, SyncSteps(a) PROVE BranchFits'
  <2>1. CASE SyncAsks(a) \/ SyncConflicts(a) \/ SyncVerifies(a)
    BY <1>1, <2>1 DEF SyncAsks, SyncConflicts, SyncVerifies
  <2>2. CASE SyncMerges(a)
    BY <1>0, <2>2 DEF SyncMerges, BranchFits
  <2>3. ASSUME AbortsMerge, UNCHANGED <<main, joined, text>> PROVE BranchFits'
    BY <1>0, <2>3 DEF AbortsMerge, BranchFits
  <2>4. CASE \/ SyncRefused(a) \/ SyncRejected(a)
             \/ \E reason \in SyncStops : SyncFails(a, reason)
    BY <2>3, <2>4 DEF SyncRefused, SyncRejected, SyncFails
  <2>5. CASE SyncRewrites(a)
    BY <1>0, <2>5 DEF SyncRewrites, BranchFits
  <2>6. CASE SyncJoins(a)
    BY <1>0, <2>6 DEF SyncJoins, BranchFits
  <2> QED
    BY <1>6, <2>1, <2>2, <2>4, <2>5, <2>6 DEF SyncSteps
<1>7. CASE UNCHANGED <<landVars, merging>>
  BY <1>1, <1>7 DEF landVars
<1> QED
  BY <1>2, <1>3, <1>4, <1>5, <1>6, <1>7, LandCases

(* A land commit is built on what the land has read. *)
LEMMA BuiltFitsStep ==
  ASSUME LandInv, [LandNext]_lVars
  PROVE  BuiltFits'
<1>0. BuiltFits /\ BranchFits /\ main \subseteq main' /\ LTypeOK
  BY RefStep DEF LandInv
<1>1. ASSUME UNCHANGED built PROVE BuiltFits'
  BY <1>0, <1>1 DEF BuiltFits
<1>2. ASSUME NEW c \in Moves, MainMoves(c) \/ OriginMoves(c) PROVE BuiltFits'
  BY <1>1, <1>2 DEF MainMoves, OriginMoves
<1>3. CASE \/ HumanPulls \/ HumanAborts \/ TreeCleaned \/ WatcherKilled
           \/ PilotLands
  BY <1>1, <1>3
  DEF HumanPulls, HumanAborts, TreeCleaned, WatcherKilled, PilotLands
<1>4. ASSUME NEW l \in Landers, LandKilled(l) \/ LandBegins(l) PROVE BuiltFits'
  BY <1>1, <1>4 DEF LandKilled, LandBegins
<1>5. ASSUME NEW a \in Syncers, SyncSteps(a) PROVE BuiltFits'
  BY <1>0, <1>1, <1>5, SyncFacts
<1>6. ASSUME NEW l \in Landers, LandBuilds(l) PROVE BuiltFits'
  <2>1. CASE UNCHANGED built
    BY <1>1, <2>1
  <2>2. CASE main \subseteq joined
    <3>1. \A k \in Landers : built'[k] =
            IF k = l THEN [base |-> main, code |-> joined, text |-> text]
            ELSE built[k]
      BY <1>0, <1>6, <2>2 DEF LandBuilds, LTypeOK
    <3> QED
      BY <1>0, <2>2, <3>1 DEF BuiltFits, BranchFits
  <2> QED
    BY <1>6, <2>1, <2>2 DEF LandBuilds
<1>7. ASSUME NEW l \in Landers, LandSteps(l), ~LandBuilds(l) PROVE BuiltFits'
  BY <1>1, <1>7
  DEF LandSteps, LandFetches, LandDiverged, LandChecks, LandPushes,
      LandMoves, LandBlocked, LandCleans, LandRunsAfter, LandRetriesAfter,
      LandPushesAhead, LandLosesTree
<1>8. CASE UNCHANGED <<landVars, merging>>
  BY <1>1, <1>8 DEF landVars
<1> QED
  BY <1>2, <1>3, <1>4, <1>5, <1>6, <1>7, <1>8, LandCases

\* a land that ends after its push or move is in the history
Ends(l) ==
  l \in main \cup origin /\ at[l] \in {"move", "clean", "after"} =>
    l \in dropped'

(* A lander moves itself, but for a kill and for what begins a land. *)
LEMMA LanderStep ==
  ASSUME LTypeOK, [LandNext]_lVars, NEW l \in Landers
  PROVE  \/ at'[l] = at[l]
         \/ at'[l] = "out" /\ Ends(l)
         \/ at'[l] \in {"fetch", "check"} /\ at[l] \in Rest
         \/ SyncSteps(l) \/ LandSteps(l)
<1> DEFINE Fits == \/ at'[l] = at[l]
                   \/ at'[l] = "out" /\ Ends(l)
                   \/ at'[l] \in {"fetch", "check"} /\ at[l] \in Rest
                   \/ SyncSteps(l) \/ LandSteps(l)
<1> SUFFICES Fits
  OBVIOUS
<1>0. l \in Syncers /\ l # "watcher"
  BY NamesApart
<1>1. CASE UNCHANGED at
  BY <1>1
<1>2. ASSUME NEW a \in Syncers, NEW p, At(a, p), a # l PROVE Fits
  BY <1>0, <1>2, AtSet
<1>3. ASSUME NEW a \in Syncers, SyncSteps(a) PROVE Fits
  <2>1. PICK p : At(a, p)
    BY <1>3, SyncFacts
  <2> QED
    BY <1>2, <1>3, <2>1
<1>4. ASSUME NEW k \in Landers, LandSteps(k) PROVE Fits
  <2>1. PICK p : At(k, p)
    BY <1>4, LandFacts
  <2> QED
    BY <1>2, <1>4, <2>1, NamesApart
<1>5. ASSUME NEW k \in Landers, LandKilled(k) PROVE Fits
  BY <1>0, <1>5, AtSet, NamesApart DEF LandKilled, Drops, Ends
<1>6. ASSUME NEW k \in Landers, LandBegins(k) PROVE Fits
  <2>1. PICK p \in {"fetch", "check"} : At(k, p)
    BY <1>6 DEF LandBegins
  <2> QED
    BY <1>0, <1>6, <2>1, AtSet, NamesApart DEF LandBegins
<1>7. CASE PilotLands
  BY <1>0, <1>7, AtSet, NamesApart DEF PilotLands
<1>8. CASE WatcherKilled
  BY <1>0, <1>8 DEF WatcherKilled, Drops, Ends
<1>9. CASE \/ UNCHANGED <<landVars, merging>>
           \/ \E c \in Moves : MainMoves(c) \/ OriginMoves(c)
           \/ HumanPulls \/ HumanAborts \/ TreeCleaned
  BY <1>1, <1>9
  DEF landVars, MainMoves, OriginMoves, HumanPulls, HumanAborts, TreeCleaned
<1> HIDE DEF Fits
<1> QED
  BY <1>3, <1>4, <1>5, <1>6, <1>7, <1>8, <1>9, LandCases

(* A worktree goes in a clean-up, the after-land command runs in its own   *)
(* steps, and neither a kill nor a land that ended early is forgotten.     *)
LEMMA EndStep ==
  ASSUME LTypeOK, [LandNext]_lVars
  PROVE  /\ killed => killed'
         /\ \/ worktree' = worktree
            \/ worktree' = "gone" /\ \E l \in Landers : LandCleans(l)
         /\ after' = after \/ after' # "unrun"
         /\ dropped \subseteq dropped'
<1> DEFINE Fits ==
      /\ killed => killed'
      /\ \/ worktree' = worktree
         \/ worktree' = "gone" /\ \E l \in Landers : LandCleans(l)
      /\ after' = after \/ after' # "unrun"
      /\ dropped \subseteq dropped'
<1> SUFFICES Fits
  OBVIOUS
<1>1. ASSUME UNCHANGED <<worktree, after>>, dropped \subseteq dropped',
             UNCHANGED killed \/ killed' = TRUE
      PROVE  Fits
  BY <1>1
<1>2. ASSUME NEW a \in Syncers, SyncSteps(a) PROVE Fits
  BY <1>1, <1>2, SyncFacts
<1>3. ASSUME NEW l \in Landers, LandSteps(l) PROVE Fits
  <2>0. UNCHANGED killed
    BY <1>3, LandFacts
  <2>1. CASE LandCleans(l)
    <3>1. /\ UNCHANGED <<after, dropped>>
          /\ worktree' = worktree \/ worktree' = "gone"
      BY <2>1 DEF LandCleans
    <3> QED
      BY <2>0, <2>1, <3>1
  <2>2. CASE LandRunsAfter(l) \/ LandRetriesAfter(l)
    BY <2>0, <2>2 DEF LandRunsAfter, LandRetriesAfter, RunAfterLand
  <2>3. CASE \/ LandFetches(l) \/ LandDiverged(l) \/ LandChecks(l) \/ LandBuilds(l)
             \/ LandPushes(l) \/ LandMoves(l) \/ LandBlocked(l)
             \/ LandPushesAhead(l) \/ LandLosesTree(l)
    <3>1. UNCHANGED <<worktree, after>> /\ dropped \subseteq dropped'
      BY <2>3
      DEF LandFetches, LandDiverged, LandChecks, LandBuilds, LandPushes, LandMoves,
          LandBlocked, Drops, LandPushesAhead, LandLosesTree
    <3> QED
      BY <1>1, <2>0, <3>1
  <2> HIDE DEF Fits
  <2> QED
    BY <1>3, <2>1, <2>2, <2>3 DEF LandSteps
<1>4. ASSUME NEW l \in Landers, LandKilled(l) \/ LandBegins(l) PROVE Fits
  BY <1>1, <1>4 DEF LandKilled, Drops, LandBegins
<1>5. CASE \/ UNCHANGED <<landVars, merging>> \/ WatcherKilled \/ PilotLands
           \/ \E c \in Moves : MainMoves(c) \/ OriginMoves(c)
           \/ HumanPulls \/ HumanAborts \/ TreeCleaned
  BY <1>1, <1>5
  DEF landVars, MainMoves, OriginMoves, HumanPulls, HumanAborts, TreeCleaned,
      WatcherKilled, Drops, PilotLands
<1> HIDE DEF Fits
<1> QED
  BY <1>2, <1>3, <1>4, <1>5, LandCases

(* Where a step of its own leads a lander. *)
LEMMA LanderArrives ==
  ASSUME LTypeOK, NEW l \in Landers
  PROVE  /\ SyncSteps(l) =>
              at[l] \in SyncPhases /\ at'[l] \in SyncPhases \cup {"build", "out"}
         /\ LandSteps(l) =>
              /\ at[l] \notin {"out", "landed"}
              /\ at'[l] = "move" => LandBuilds(l) \/ LandPushes(l)
              /\ at'[l] = "clean" => LandMoves(l) /\ l \in main'
              /\ at'[l] = "again" => LandChecks(l) /\ Landed
              /\ at'[l] = "tidy" => LandRetriesAfter(l)
              /\ at[l] \in {"fetch", "check"} /\ at'[l] \notin {"out", "check"} =>
                   LandChecks(l) /\ (Landed \/ head.sealed)
              /\ at[l] = "move" => at'[l] = "clean" \/ Ends(l)
              /\ at[l] \in {"clean", "after"} =>
                   at'[l] = "after" \/ after' # "unrun"
<1>0. l \in Syncers
  BY NamesApart
<1>1. ASSUME SyncSteps(l)
      PROVE  at[l] \in SyncPhases /\ at'[l] \in SyncPhases \cup {"build", "out"}
  BY <1>0, <1>1, SyncFacts, AtSet
<1>2. ASSUME NEW p, At(l, p) PROVE at'[l] = p
  BY <1>0, <1>2, AtSet
<1> DEFINE Arrives ==
      /\ at[l] \notin {"out", "landed"}
      /\ at'[l] = "move" => LandBuilds(l) \/ LandPushes(l)
      /\ at'[l] = "clean" => LandMoves(l) /\ l \in main'
      /\ at'[l] = "again" => LandChecks(l) /\ Landed
      /\ at'[l] = "tidy" => LandRetriesAfter(l)
      /\ at[l] \in {"fetch", "check"} /\ at'[l] \notin {"out", "check"} =>
           LandChecks(l) /\ (Landed \/ head.sealed)
      /\ at[l] = "move" => at'[l] = "clean" \/ Ends(l)
      /\ at[l] \in {"clean", "after"} =>
           at'[l] = "after" \/ after' # "unrun"
<1>3. ASSUME LandSteps(l) PROVE Arrives
  <2>1. CASE LandFetches(l) \/ LandDiverged(l)
    <3>1. at[l] = "fetch" /\ (At(l, "check") \/ At(l, "out"))
      BY <2>1 DEF LandFetches, LandDiverged
    <3> QED
      BY <1>2, <3>1
  <2>2. CASE LandChecks(l)
    <3>1. /\ at[l] = "check"
          /\ \/ At(l, "out")
             \/ Landed /\ At(l, "again")
             \/ ~Landed /\ ~Refused /\ At(l, "ask")
      BY <2>2 DEF LandChecks
    <3>2. ~Landed /\ ~Refused => head.sealed
      BY DEF Refused, CleanTree, LTypeOK
    <3> QED
      BY <1>2, <2>2, <3>1, <3>2
  <2>3. CASE LandBuilds(l)
    <3>1. at[l] = "build" /\ (At(l, "out") \/ At(l, "push") \/ At(l, "move"))
      BY <2>3 DEF LandBuilds
    <3> QED
      BY <1>2, <2>3, <3>1
  <2>4. CASE LandPushes(l)
    <3>1. at[l] = "push" /\ (At(l, "out") \/ At(l, "move"))
      BY <2>4 DEF LandPushes
    <3> QED
      BY <1>2, <2>4, <3>1
  <2>5. CASE LandMoves(l) \/ LandBlocked(l)
    <3>1. /\ at[l] = "move"
          /\ \/ At(l, "out") /\ Ends(l)
             \/ At(l, "clean") /\ LandMoves(l) /\ main' = main \cup LandCommit(l)
      BY <2>5 DEF LandMoves, LandBlocked, Drops, Ends
    <3> QED
      BY <1>2, <3>1 DEF LandCommit
  <2>6. CASE LandCleans(l)
    <3>1. \/ at[l] = "clean" /\ At(l, "after")
          \/ at[l] = "tidy" /\ (At(l, "ahead") \/ At(l, "landed"))
      BY <2>6 DEF LandCleans
    <3> QED
      BY <1>2, <3>1
  <2>7. CASE LandRunsAfter(l)
    <3>1. at[l] = "after" /\ At(l, "landed") /\ after' # "unrun"
      BY <2>7 DEF LandRunsAfter, RunAfterLand
    <3> QED
      BY <1>2, <3>1
  <2>8. CASE LandRetriesAfter(l)
    <3>1. at[l] = "again" /\ At(l, "tidy")
      BY <2>8 DEF LandRetriesAfter
    <3> QED
      BY <1>2, <2>8, <3>1
  <2>9. CASE LandPushesAhead(l) \/ LandLosesTree(l)
    <3>1. /\ at[l] \in {"ahead", "build"} \cup SyncPhases
          /\ At(l, "landed") \/ At(l, "out")
      BY <2>9 DEF LandPushesAhead, LandLosesTree
    <3> QED
      BY <1>2, <3>1 DEF SyncPhases
  <2> HIDE DEF Arrives
  <2> QED
    BY <1>3, <2>1, <2>2, <2>3, <2>4, <2>5, <2>6, <2>7, <2>8, <2>9 DEF LandSteps
<1> QED
  BY <1>1, <1>3

(* A publisher moves the checkout only after its push. *)
LEMMA PushFitsStep ==
  ASSUME LandInv, [LandNext]_lVars
  PROVE  PushFits'
<1>0. PushFits /\ LTypeOK /\ origin \subseteq origin'
  BY RefStep DEF LandInv
<1>1. ASSUME NEW l \in Publishers, l \in main' PROVE l \in origin'
  <2>1. CASE l \in main \cup origin
    BY <1>0, <1>1, <2>1 DEF PushFits
  <2>2. CASE l \notin main \cup origin
    <3>1. LandMoves(l)
      BY <1>1, <2>2, RefStep, NamesApart
    <3> QED
      BY <1>0, <1>1, <3>1 DEF PushFits, LandMoves
  <2> QED
    BY <2>1, <2>2
<1>2. ASSUME NEW l \in Publishers, at'[l] = "move" PROVE l \in origin'
  <2>0. l \in Landers /\ l \in Syncers
    BY NamesApart
  <2>1. CASE at[l] = "move"
    BY <1>0, <2>1 DEF PushFits
  <2>2. CASE LandBuilds(l)
    <3>1. UNCHANGED at \/ At(l, "out") \/ At(l, "push")
      BY <2>2 DEF LandBuilds
    <3> QED
      BY <1>0, <1>2, <2>0, <2>1, <3>1, AtSet
  <2>3. CASE LandPushes(l)
    <3>1. At(l, "out") \/ origin' = LandCommit(l)
      BY <2>3 DEF LandPushes
    <3> QED
      BY <1>0, <1>2, <2>0, <3>1, AtSet DEF LandCommit
  <2> QED
    BY <1>0, <1>2, <2>0, <2>1, <2>2, <2>3, LanderStep, LanderArrives DEF SyncPhases
<1> QED
  BY <1>1, <1>2 DEF PushFits

(* Nothing lands, and nothing is cleaned up, before its time. *)
LEMMA LandFitsStep ==
  ASSUME WInv, LandInv, [LandNext]_lVars
  PROVE  LandFits'
<1>0. LandFits /\ LTypeOK /\ (head.sealed => head'.sealed) /\ (Landed => Landed')
  BY WorkStays, LandedStays DEF LandInv
<1>1. Landed' \/ origin' \cap Landers # {} => head'.sealed
  <2>1. ASSUME NEW l \in Landers, l \in main' \cup origin' PROVE head.sealed
    <3>1. CASE l \in main \cup origin
      BY <1>0, <3>1 DEF LandFits, Landed
    <3>2. CASE l \notin main \cup origin
      <4>1. at[l] \in {"push", "move"}
        BY <2>1, <3>2, RefStep DEF LandMoves, LandPushes
      <4> QED
        BY <1>0, <4>1 DEF LandFits
    <3> QED
      BY <3>1, <3>2
  <2> QED
    BY <1>0, <2>1 DEF Landed
<1>2. worktree' = "gone" => Landed'
  BY <1>0, EndStep DEF LandFits, LandCleans
<1>3. ASSUME NEW l \in Landers, at'[l] \notin {"out", "fetch", "check"}
      PROVE  head'.sealed
  <2>1. CASE at[l] \notin {"out", "fetch", "check"}
    BY <1>0, <2>1 DEF LandFits
  <2>2. CASE at[l] \in {"out", "fetch", "check"}
    <3>1. LandSteps(l)
      BY <1>0, <1>3, <2>2, LanderStep, LanderArrives DEF SyncPhases
    <3>2. Landed \/ head.sealed
      BY <1>0, <1>3, <2>2, <3>1, LanderArrives
    <3> QED
      BY <1>0, <3>2 DEF LandFits
  <2> QED
    BY <2>1, <2>2
<1>4. ASSUME NEW l \in Landers, at'[l] \in {"clean", "again", "tidy"} PROVE Landed'
  <2>1. CASE at[l] \in {"clean", "again", "tidy"}
    BY <1>0, <2>1 DEF LandFits
  <2>2. CASE LandSteps(l)
    <3>1. CASE at'[l] \in {"clean", "again"}
      BY <1>0, <2>2, <3>1, LanderArrives DEF Landed
    <3>2. CASE at'[l] = "tidy"
      BY <1>0, <2>1, <2>2, <3>2, LanderArrives DEF LandRetriesAfter
    <3> QED
      BY <1>4, <3>1, <3>2
  <2> QED
    BY <1>0, <1>4, <2>1, <2>2, LanderStep, LanderArrives DEF SyncPhases
<1> QED
  BY <1>1, <1>2, <1>3, <1>4 DEF LandFits

(* An unfinished merge keeps its sync. *)
LEMMA MergeFitsStep ==
  ASSUME LandInv, [LandNext]_lVars
  PROVE  MergeFits'
<1>0. MergeFits /\ LTypeOK /\ (killed => killed')
      /\ (worktree = "gone" => worktree' = "gone")
  BY EndStep DEF LandInv
<1> SUFFICES ASSUME merging', ~killed', worktree' # "gone"
             PROVE  \E a \in Syncers : InMerge(a)'
  BY DEF MergeFits
<1> USE DEF InMerge
<1>1. ASSUME merging PROVE \E a \in Syncers : InMerge(a)
  BY <1>0, <1>1 DEF MergeFits
<1>2. ASSUME merging, UNCHANGED at PROVE \E a \in Syncers : InMerge(a)'
  BY <1>1, <1>2
<1>3. ASSUME merging, NEW a \in Syncers, NEW p, At(a, p), ~InMerge(a)
      PROVE  \E b \in Syncers : InMerge(b)'
  BY <1>0, <1>1, <1>3, AtSet
<1>4. CASE \/ UNCHANGED <<landVars, merging>> \/ HumanPulls
           \/ \E c \in Moves : MainMoves(c) \/ OriginMoves(c)
  BY <1>2, <1>4 DEF landVars, HumanPulls, MainMoves, OriginMoves, wVars
<1>5. CASE \/ HumanAborts \/ TreeCleaned \/ WatcherKilled
           \/ \E l \in Landers : LandKilled(l)
  BY <1>5 DEF HumanAborts, TreeCleaned, HumanCleans, WatcherKilled, LandKilled
<1>6. ASSUME NEW l \in Landers, LandBegins(l) \/ LandSteps(l)
      PROVE  \E a \in Syncers : InMerge(a)'
  <2>1. merging /\ l \in Syncers
    BY <1>0, <1>6, LandFacts, NamesApart DEF LandBegins, wVars
  <2>2. ~LandLosesTree(l)
    BY <1>0 DEF LandLosesTree
  <2>3. ~InMerge(l) /\ \E p : At(l, p)
    BY <1>0, <1>6, <2>2, LandFacts DEF LandBegins, Rest
  <2> QED
    BY <1>3, <2>1, <2>3
<1>7. CASE PilotLands
  BY <1>3, <1>7, NamesApart DEF PilotLands, wVars, Rest
<1>8. ASSUME NEW a \in Syncers, SyncSteps(a)
      PROVE  \E b \in Syncers : InMerge(b)'
  <2>1. PICK p : /\ At(a, p)
                 /\ \/ p \in {"specs", "verify", "join"}
                    \/ merging /\ ~InMerge(a)
    BY <1>0, <1>8, SyncFacts
  <2>2. CASE p \in {"specs", "verify", "join"}
    BY <1>0, <2>1, <2>2, AtSet
  <2> QED
    BY <1>3, <2>1, <2>2
<1> QED
  BY <1>4, <1>5, <1>6, <1>7, <1>8, LandCases

(* A land commit that was pushed or landed is on the way to its after-land *)
(* command, or its land is in the history.                                 *)
LEMMA AfterFitsStep ==
  ASSUME LandInv, [LandNext]_lVars
  PROVE  AfterFits'
<1>0. AfterFits /\ LTypeOK /\ dropped \subseteq dropped'
      /\ (after' = after \/ after' # "unrun")
  BY EndStep DEF LandInv
<1> SUFFICES ASSUME NEW l \in Landers, l \in main' \cup origin', after' = "unrun"
             PROVE  at'[l] \in {"move", "clean", "after"} \/ l \in dropped'
  BY DEF AfterFits
<1>1. l \in Syncers
  BY NamesApart
<1>2. CASE l \notin main \cup origin
  <2>1. CASE l \in main'
    <3>1. LandMoves(l)
      BY <1>2, <2>1, RefStep
    <3>2. At(l, "clean")
      BY <1>2, <2>1, <3>1 DEF LandMoves
    <3> QED
      BY <1>0, <1>1, <3>2, AtSet
  <2>2. CASE l \in origin'
    <3>1. LandPushes(l)
      BY <1>2, <2>2, RefStep
    <3>2. At(l, "move")
      BY <1>2, <2>2, <3>1 DEF LandPushes
    <3> QED
      BY <1>0, <1>1, <3>2, AtSet
  <2> QED
    BY <2>1, <2>2
<1>3. CASE l \in main \cup origin
  <2>1. CASE at[l] \notin {"move", "clean", "after"}
    BY <1>0, <1>3, <2>1 DEF AfterFits
  <2>2. CASE at[l] \in {"move", "clean", "after"}
    BY <1>0, <1>3, <2>2, LanderStep, LanderArrives DEF Rest, SyncPhases, Ends
  <2> QED
    BY <2>1, <2>2
<1> QED
  BY <1>2, <1>3

(* The branches, the land commits and what a publisher saw keep their types. *)
LEMMA HistoryTypeStep ==
  ASSUME LandInv, [LandNext]_lVars
  PROVE  /\ main' \in SUBSET History /\ origin' \in SUBSET History
         /\ joined' \in SUBSET History /\ text' \in SUBSET History
         /\ draft' \in SUBSET History /\ theirs' \in SUBSET History
<1>0. LTypeOK
  BY DEF LandInv
<1>1. main' \in SUBSET History /\ origin' \in SUBSET History
  BY <1>0, RefStep, NamesApart DEF LTypeOK
<1> DEFINE Fits == /\ joined' \in SUBSET History /\ text' \in SUBSET History
                   /\ draft' \in SUBSET History /\ theirs' \in SUBSET History
<1>2. ASSUME UNCHANGED branchVars PROVE Fits
  BY <1>0, <1>2 DEF LTypeOK
<1>3. ASSUME \/ UNCHANGED <<landVars, merging>> \/ HumanPulls \/ WatcherKilled
             \/ \E c \in Moves : MainMoves(c) \/ OriginMoves(c)
             \/ PilotLands
      PROVE  Fits
  BY <1>2, <1>3
  DEF landVars, HumanPulls, WatcherKilled, MainMoves, OriginMoves, PilotLands
<1>4. ASSUME HumanAborts \/ TreeCleaned PROVE Fits
  BY <1>0, <1>4 DEF HumanAborts, TreeCleaned, LTypeOK
<1>5. ASSUME NEW l \in Landers, LandKilled(l) \/ LandBegins(l) \/ LandSteps(l)
      PROVE  Fits
  BY <1>0, <1>2, <1>5, LandFacts DEF LandKilled, LandBegins
<1>6. ASSUME NEW a \in Syncers, SyncSteps(a) PROVE Fits
  <2>1. CASE SyncAsks(a) \/ SyncConflicts(a) \/ SyncVerifies(a)
    BY <1>2, <2>1 DEF SyncAsks, SyncConflicts, SyncVerifies
  <2>2. CASE SyncMerges(a) \/ SyncRewrites(a) \/ SyncJoins(a)
    BY <1>0, <2>2 DEF SyncMerges, SyncRewrites, SyncJoins, LTypeOK
  <2>3. CASE \/ SyncRefused(a) \/ SyncRejected(a)
             \/ \E reason \in SyncStops : SyncFails(a, reason)
    BY <1>0, <2>3 DEF SyncRefused, SyncRejected, SyncFails, AbortsMerge, LTypeOK
  <2> HIDE DEF Fits
  <2> QED
    BY <1>6, <2>1, <2>2, <2>3 DEF SyncSteps
<1> HIDE DEF Fits
<1>7. Fits
  BY <1>3, <1>4, <1>5, <1>6, LandCases
<1> QED
  BY <1>1, <1>7 DEF Fits

(* What a land has read and built keeps its type. *)
LEMMA WorkingsTypeStep ==
  ASSUME LandInv, [LandNext]_lVars
  PROVE  /\ saw' \in [Publishers -> [origin : SUBSET History, landed : BOOLEAN]]
         /\ built' \in [Landers -> [base : SUBSET History, code : SUBSET History,
                                    text : SUBSET History]]
<1>0. LTypeOK
  BY DEF LandInv
<1> DEFINE Fits ==
      /\ saw' \in [Publishers -> [origin : SUBSET History, landed : BOOLEAN]]
      /\ built' \in [Landers -> [base : SUBSET History, code : SUBSET History,
                                 text : SUBSET History]]
<1> SUFFICES Fits
  OBVIOUS
<1>1. ASSUME UNCHANGED workings PROVE Fits
  BY <1>0, <1>1 DEF LTypeOK
<1>2. CASE \/ UNCHANGED <<landVars, merging>> \/ HumanPulls \/ HumanAborts
           \/ \E c \in Moves : MainMoves(c) \/ OriginMoves(c)
           \/ TreeCleaned \/ WatcherKilled \/ PilotLands
  BY <1>1, <1>2
  DEF landVars, HumanPulls, HumanAborts, MainMoves, OriginMoves, TreeCleaned,
      WatcherKilled, PilotLands
<1>3. ASSUME NEW l \in Landers, LandKilled(l) \/ LandBegins(l) PROVE Fits
  BY <1>1, <1>3 DEF LandKilled, LandBegins
<1>4. ASSUME NEW a \in Syncers, SyncSteps(a) PROVE Fits
  BY <1>0, <1>1, <1>4, SyncFacts
<1>5. ASSUME NEW l \in Landers, LandSteps(l) PROVE Fits
  <2>1. CASE LandFetches(l)
    <3>1. [origin |-> origin, landed |-> main' \cap Landers # {}]
            \in [origin : SUBSET History, landed : BOOLEAN]
      BY <1>0 DEF LTypeOK
    <3>2. UNCHANGED built /\ saw' = [saw EXCEPT ![l] =
             [origin |-> origin, landed |-> main' \cap Landers # {}]]
      BY <2>1 DEF LandFetches
    <3> QED
      BY <1>0, <3>1, <3>2 DEF LTypeOK
  <2>2. CASE LandBuilds(l)
    BY <1>0, <1>1, <2>2 DEF LandBuilds, LTypeOK
  <2>3. CASE \/ LandDiverged(l) \/ LandChecks(l) \/ LandPushes(l) \/ LandMoves(l)
             \/ LandBlocked(l) \/ LandCleans(l) \/ LandRunsAfter(l)
             \/ LandRetriesAfter(l) \/ LandPushesAhead(l) \/ LandLosesTree(l)
    <3>1. UNCHANGED workings
      BY <2>3
      DEF LandDiverged, LandChecks, LandPushes, LandMoves, LandBlocked, LandCleans,
          LandRunsAfter, LandRetriesAfter, LandPushesAhead, LandLosesTree
    <3> QED
      BY <1>1, <3>1
  <2> HIDE DEF Fits
  <2> QED
    BY <1>5, <2>1, <2>2, <2>3 DEF LandSteps
<1> HIDE DEF Fits
<1> QED
  BY <1>2, <1>3, <1>4, <1>5, LandCases

(* What is left after a land keeps its type. *)
LEMMA EndTypeStep ==
  ASSUME LandInv, [LandNext]_lVars
  PROVE  /\ worktree' \in {"there", "gone"}
         /\ after' \in {"unrun", "passed", "failed"}
         /\ dropped' \in SUBSET Landers /\ killed' \in BOOLEAN
<1>0. LTypeOK
  BY DEF LandInv
<1>1. worktree' \in {"there", "gone"}
  BY <1>0, EndStep DEF LTypeOK
<1> DEFINE Fits == /\ after' \in {"unrun", "passed", "failed"}
                   /\ dropped' \in SUBSET Landers /\ killed' \in BOOLEAN
<1>2. ASSUME NEW S \in SUBSET Landers, Drops(S) PROVE dropped' \in SUBSET Landers
  BY <1>0, <1>2 DEF Drops, LTypeOK
<1>3. ASSUME UNCHANGED after,
             UNCHANGED dropped \/ \E S \in SUBSET Landers : Drops(S),
             UNCHANGED killed \/ killed' = TRUE
      PROVE  Fits
  BY <1>0, <1>2, <1>3 DEF LTypeOK
<1>4. ASSUME \/ UNCHANGED <<landVars, merging>> \/ HumanPulls \/ HumanAborts
             \/ \E c \in Moves : MainMoves(c) \/ OriginMoves(c)
             \/ TreeCleaned \/ WatcherKilled \/ PilotLands
      PROVE  Fits
  BY <1>3, <1>4
  DEF landVars, HumanPulls, HumanAborts, MainMoves, OriginMoves, TreeCleaned,
      WatcherKilled, PilotLands
<1>5. ASSUME NEW l \in Landers, LandKilled(l) \/ LandBegins(l) PROVE Fits
  <2>1. {l} \in SUBSET Landers
    OBVIOUS
  <2> QED
    BY <1>3, <1>5, <2>1 DEF LandKilled, LandBegins
<1>6. ASSUME NEW a \in Syncers, SyncSteps(a) PROVE Fits
  BY <1>0, <1>3, <1>6, SyncFacts
<1>7. ASSUME NEW l \in Landers, LandSteps(l) PROVE Fits
  <2>0. UNCHANGED killed
    BY <1>0, <1>7, LandFacts
  <2>1. /\ UNCHANGED after \/ after' \in {"passed", "failed"}
        /\ UNCHANGED dropped \/ Drops({l})
    BY <1>7
    DEF LandSteps, LandFetches, LandDiverged, LandChecks, LandBuilds, LandPushes,
        LandMoves, LandBlocked, LandCleans, LandRunsAfter, LandRetriesAfter,
        RunAfterLand, LandPushesAhead, LandLosesTree
  <2> QED
    BY <1>0, <1>2, <2>0, <2>1 DEF LTypeOK
<1> HIDE DEF Fits
<1>8. Fits
  BY <1>4, <1>5, <1>6, <1>7, LandCases
<1> QED
  BY <1>1, <1>8 DEF Fits

(* LandInv is kept by every step of Landing and by an autopilot's land. *)
LEMMA LandStep ==
  ASSUME WInv, LandInv, [LandNext]_lVars
  PROVE  WInv' /\ LandInv'
<1>1. WInv' /\ WTypeOK'
  BY WorkStays DEF WInv
<1>2. LTypeOK
  BY DEF LandInv
<1>3. LTypeOK'
  BY <1>1, <1>2, HistoryTypeStep, AtTypeStep, WorkingsTypeStep, EndTypeStep,
     LeftTypeStep DEF LTypeOK
<1> QED
  BY <1>1, <1>3, BranchFitsStep, BuiltFitsStep, LandFitsStep, PushFitsStep,
     MergeFitsStep, AfterFitsStep DEF LandInv

-----------------------------------------------------------------------------
(* The autopilot's own steps.                                              *)

(* While a land of the autopilot's is under way, its pass waits for it: the *)
(* steps of Spec are the landing's and PilotLands.                          *)
LEMMA PilotStep ==
  ASSUME LTypeOK, PilotFits, [Next]_vars
  PROVE  [LandNext]_lVars
<1> USE DEF LandNext, LNext
<1>1. ASSUME UNCHANGED lVars PROVE [LandNext]_lVars
  BY <1>1
<1>2. CASE Cycles
  BY <1>2 DEF Cycles, Work
<1>3. CASE PassLands
  BY <1>3 DEF PassLands, Takes, Pass, PilotFits, PilotLands
<1>4. CASE Pilot /\ ~PassLands
  BY <1>1, <1>4
  DEF Pilot, PassStops, PassClears, PassPlansNext, WritesMarker, PassPlans,
      CallsPlanner, PlannerRefused, RecordsRunning, PassApproves, LandReturns
<1>5. CASE Planner \/ WorkerThrows \/ WorkerKilled
  BY <1>1, <1>5 DEF Planner, WorkerRecords, WorkerFinishes, WorkerThrows, WorkerKilled
<1>6. CASE Delivery
  BY <1>6 DEF Delivery, Work, Others
<1>7. CASE Syncs \/ \E l \in Landers : Lands(l)
  BY <1>7 DEF Syncs, Lands
<1>8. CASE Humans
  BY <1>1, <1>8
  DEF Humans, HumanApprovesQueue, HumanEditsQueue, HumanPlans, HumanEditsPlan,
      HumanApproves
<1>9. CASE PilotKilled
  BY <1>9 DEF PilotKilled, Others
<1>10. CASE UNCHANGED vars
  BY <1>1, <1>10 DEF vars
<1> QED
  BY <1>2, <1>3, <1>4, <1>5, <1>6, <1>7, <1>8, <1>9, <1>10 DEF Next

(* The autopilot's land stays in the pass that began it. *)
LEMMA PilotFitsStep ==
  ASSUME LTypeOK, PilotFits, [Next]_vars
  PROVE  PilotFits'
<1>0. "autopilot" \in Syncers /\ "autopilot" \in Landers /\ "autopilot" # "watcher"
  BY NamesApart
<1> USE DEF PilotFits
<1>1. ASSUME UNCHANGED <<at, pilot>> PROVE PilotFits'
  BY <1>1
<1>2. CASE Cycles
  BY <1>1, <1>2 DEF Cycles, landVars, pilotVars
<1>3. CASE PassLands
  BY <1>3 DEF PassLands
<1>4. CASE Pilot /\ ~PassLands
  <2>1. UNCHANGED at
    BY <1>4
    DEF Pilot, PassStops, PassClears, PassPlansNext, WritesMarker, PassPlans,
        CallsPlanner, PlannerRefused, RecordsRunning, PassApproves, LandReturns,
        lVars, landVars
  <2>2. \/ UNCHANGED pilot \/ pilot # "landing"
        \/ at["autopilot"] \in Rest
    BY <1>4
    DEF Pilot, PassStops, PassClears, PassPlansNext, WritesMarker, PassPlans,
        CallsPlanner, PlannerRefused, RecordsRunning, PassApproves, LandReturns,
        Takes, Pass
  <2> QED
    BY <2>1, <2>2
<1>5. CASE Planner \/ WorkerThrows \/ WorkerKilled \/ Humans
  BY <1>1, <1>5
  DEF Planner, WorkerRecords, WorkerFinishes, WorkerThrows, WorkerKilled, Humans,
      HumanApprovesQueue, HumanEditsQueue, HumanPlans, HumanEditsPlan,
      HumanApproves, lVars, landVars
<1>6. ASSUME UNCHANGED pilot, NEW a \in Syncers, NEW p, At(a, p),
             a = "autopilot" => at[a] \notin Rest
      PROVE  PilotFits'
  BY <1>0, <1>6, AtSet
<1>7. CASE Delivery
  <2>1. ASSUME NEW l \in Landers \ {"autopilot"}, LandKilled(l) \/ LandBegins(l),
               UNCHANGED pilot
        PROVE  PilotFits'
    BY <1>6, <2>1, NamesApart DEF LandKilled, LandBegins
  <2>2. ASSUME UNCHANGED <<landVars, pilotVars>> PROVE PilotFits'
    BY <1>1, <2>2 DEF landVars, pilotVars
  <2>3. ASSUME \/ \E c \in Moves : MainMoves(c) \/ OriginMoves(c)
               \/ HumanPulls \/ HumanAborts \/ TreeCleaned,
               UNCHANGED pilot
        PROVE  PilotFits'
    BY <1>1, <2>3 DEF MainMoves, OriginMoves, HumanPulls, HumanAborts, TreeCleaned
  <2> QED
    BY <1>7, <2>1, <2>2, <2>3 DEF Delivery, pilotVars
<1>8. CASE Syncs
  <2>1. PICK a \in Syncers : SyncSteps(a)
    BY <1>8 DEF Syncs
  <2>2. at[a] \notin Rest /\ \E p : At(a, p)
    BY <2>1, SyncFacts DEF SyncPhases, Rest
  <2> QED
    BY <1>6, <1>8, <2>2 DEF Syncs, pilotVars
<1>9. ASSUME NEW l \in Landers, Lands(l) PROVE PilotFits'
  <2>1. LandSteps(l) /\ UNCHANGED pilot
    BY <1>9 DEF Lands, pilotVars
  <2>2. at[l] \notin Rest /\ \E p : At(l, p)
    BY <2>1, LandFacts, LanderArrives DEF Rest
  <2> QED
    BY <1>6, <2>1, <2>2, NamesApart
<1>10. CASE PilotKilled
  BY <1>0, <1>10 DEF PilotKilled, WatcherKilled, Rest
<1>11. CASE UNCHANGED vars
  BY <1>1, <1>11 DEF vars, lVars, landVars, pilotVars
<1> QED
  BY <1>2, <1>3, <1>4, <1>5, <1>7, <1>8, <1>9, <1>10, <1>11 DEF Next

DInv == WInv /\ LandInv /\ PilotFits

(* DInv holds at first. *)
LEMMA DInit == AInit => DInv
<1>1. AInit => LInit
  BY DEF AInit
<1>2. LInit => PilotFits
  BY NamesApart DEF LInit, PilotFits, Rest
<1> QED
  BY <1>1, <1>2, LandInit DEF DInv

(* DInv is kept by every step of a delivery. *)
LEMMA DStep == DInv /\ [Next]_vars => DInv'
<1> SUFFICES ASSUME DInv, [Next]_vars PROVE DInv'
  OBVIOUS
<1>1. [LandNext]_lVars /\ PilotFits'
  BY PilotStep, PilotFitsStep DEF DInv, LandInv
<1> QED
  BY <1>1, LandStep DEF DInv

-----------------------------------------------------------------------------
(* The theorems.                                                           *)

(* DInv is inductive: every state of every delivery satisfies it. *)
THEOREM DeliveryInvariance == Spec => []DInv
  BY DInit, DStep, PTL DEF Spec

(* A delivery does to its change what WorktreeChange says a watcher, its    *)
(* agents, its syncs and the landers may do, and nothing else.              *)
THEOREM DeliveryIsWork == Spec => WSpec
<1>1. AInit => WInit
  BY DEF AInit, LInit
<1>2. DInv /\ [Next]_vars => [WNext]_wVars
  BY PilotStep, LandIsWork DEF DInv, LandInv
<1> QED
  BY <1>1, <1>2, DeliveryInvariance, PTL DEF Spec, WSpec

(* What WorktreeChange promises of a change holds while it is synced,       *)
(* landed, published and steered: an archive on the branch is whole.        *)
THEOREM DeliveredWhole == Spec => []SealedWhole
  BY DeliveryIsWork, ArchiveIsWhole, PTL

(* No sync or land leaves a half-merged living spec without the record that *)
(* undoes it.                                                               *)
THEOREM DeliveryKeepsRecord == Spec => []HalfMergedHasRecord
  BY DeliveryIsWork, RecordOutlivesMerge, PTL

(* No delivery makes a change fail more commits than commitRetries and one. *)
THEOREM DeliveryIsBounded == Spec => []CommitBudgetHolds
  BY DeliveryIsWork, CommitsAreBounded, PTL

(* Also between two syncs an attempt starts in a clean tree, with every     *)
(* earlier task's marker in HEAD.                                           *)
THEOREM DeliveryStartsCommitted == Spec => StartsFromCommitted
  BY DeliveryIsWork, StartsAreCommitted, PTL

(* No sync, land or clean-up throws a verified task's edits away: as in the *)
(* worktree alone, only those of a task whose watcher was killed between    *)
(* its done marker and its lock's release may go.                           *)
THEOREM DeliveryKeepsVerified == Spec => VerifiedNeverDiscarded
  BY DeliveryIsWork, VerifiedIsKept, PTL

(* A land commit's tree holds the code and the living-spec text of every    *)
(* commit it is put on.                                                     *)
THEOREM NothingReverted == Spec => []NoWorkReverted
<1>1. DInv => NoWorkReverted
  BY DEF DInv, LandInv, BuiltFits, NoWorkReverted
<1> QED
  BY <1>1, DeliveryInvariance, PTL

(* A worktree goes only when the default branch holds its work. *)
THEOREM WorkIsKept == Spec => []CleanupKeepsWork
<1>1. DInv => CleanupKeepsWork
  BY DEF DInv, LandInv, LandFits, CleanupKeepsWork
<1> QED
  BY <1>1, DeliveryInvariance, PTL

(* A publisher's land commit is origin's before it is the checkout's. *)
THEOREM PushComesFirst == Spec => []PushedBeforeMoved
<1>1. DInv => PushedBeforeMoved
  BY DEF DInv, LandInv, PushFits, PushedBeforeMoved
<1> QED
  BY <1>1, DeliveryInvariance, PTL

(* A merge begun in the worktree is some live sync's. *)
THEOREM MergesAreOwned == Spec => []MergeHasItsSync
<1>1. DInv => MergeHasItsSync
  BY DEF DInv, LandInv, LTypeOK, MergeFits, InMerge, MergeHasItsSync
<1> QED
  BY <1>1, DeliveryInvariance, PTL

(* Every land commit the checkout holds, pushed or not, has its after-land  *)
(* command run or under way, unless its own land was killed or stopped      *)
(* after the push or the move.                                              *)
THEOREM AfterLandIsRun == Spec => []AfterLandRan
<1>1. DInv => AfterLandRan
  BY DEF DInv, LandInv, AfterFits, AfterLandRan
<1> QED
  BY <1>1, DeliveryInvariance, PTL

(* No step takes a commit from the change's branch. *)
LEMMA JoinedGrows ==
  ASSUME LandInv, [LandNext]_lVars
  PROVE  joined \subseteq joined'
<1>1. CASE UNCHANGED joined
  BY <1>1
<1>2. CASE \/ UNCHANGED <<landVars, merging>> \/ HumanPulls \/ HumanAborts
           \/ \E c \in Moves : MainMoves(c) \/ OriginMoves(c)
           \/ TreeCleaned \/ WatcherKilled \/ PilotLands
  BY <1>2
  DEF landVars, HumanPulls, HumanAborts, MainMoves, OriginMoves, TreeCleaned,
      WatcherKilled, PilotLands
<1>3. ASSUME NEW l \in Landers, LandKilled(l) \/ LandBegins(l) \/ LandSteps(l)
      PROVE  UNCHANGED joined
  BY <1>3, LandFacts DEF LandKilled, LandBegins, LandInv
<1>4. ASSUME NEW a \in Syncers, SyncSteps(a) PROVE joined \subseteq joined'
  BY <1>4
  DEF SyncSteps, SyncAsks, SyncMerges, SyncConflicts, SyncRefused, SyncRewrites,
      SyncVerifies, SyncJoins, SyncRejected, SyncFails
<1> QED
  BY <1>1, <1>2, <1>3, <1>4, LandCases

(* Neither the default branch nor the change's branch ever loses a commit. *)
THEOREM NothingLost == Spec => MainOnlyGrows
<1>1. DInv /\ [Next]_vars => [main \subseteq main' /\ joined \subseteq joined']_lVars
  BY PilotStep, RefStep, JoinedGrows DEF DInv, LandInv
<1> QED
  BY <1>1, DeliveryInvariance, PTL DEF Spec, MainOnlyGrows

(* The autopilot's own variables keep their types. *)
PilotTypeOK ==
  /\ queued \in {"unapproved", "approved", "changed"}
  /\ mark \in {"none", "bare", "created", "started"}
  /\ run \in Records
  /\ worker \in {"none", "starting", "planning"}
  /\ approved \in BOOLEAN
  /\ stop \in {"none"} \cup ItemStops \cup ChangeStops
  /\ pilot \in {"idle", "naming", "asking", "spawned", "landing"}
  /\ quota \in [QuotaKinds -> Nat]

(* Spending what may go wrong with the autopilot keeps its type. *)
LEMMA UseType ==
  ASSUME PilotTypeOK, NEW kind, Use(kind)
  PROVE  quota' \in [QuotaKinds -> Nat]
<1>1. quota \in [QuotaKinds -> Nat] /\ quota[kind] > 0
      /\ quota' = [quota EXCEPT ![kind] = @ - 1]
  BY DEF PilotTypeOK, Use
<1>2. CASE kind \in QuotaKinds
  BY <1>1, <1>2
<1>3. CASE kind \notin QuotaKinds
  BY <1>1, <1>3
<1> QED
  BY <1>2, <1>3

(* The autopilot's own variables keep their types. *)
LEMMA PilotTypeStep == PilotTypeOK /\ [Next]_vars => PilotTypeOK'
<1> SUFFICES ASSUME PilotTypeOK, [Next]_vars PROVE PilotTypeOK'
  OBVIOUS
<1>0. ItemStops \cup ChangeStops \subseteq {"none"} \cup ItemStops \cup ChangeStops
      /\ "plan_refused" \in ItemStops
      /\ {"planner_not_ready", "approve_refused", "land_stopped"} \subseteq ChangeStops
  BY DEF ItemStops, ChangeStops
<1> USE DEF PilotTypeOK
<1>1. ASSUME UNCHANGED pilotVars PROVE PilotTypeOK'
  BY <1>1 DEF pilotVars
<1>2. CASE PassStops \/ PassClears \/ WritesMarker \/ PassPlans
  BY <1>0, <1>2 DEF PassStops, PassClears, WritesMarker, PassPlans
<1>3. CASE PassPlansNext \/ PlannerRefused \/ PassApproves
  <2>1. quota' \in [QuotaKinds -> Nat]
    BY <1>3, UseType DEF PassPlansNext, PlannerRefused, PassApproves, Throws
  <2> QED
    BY <1>0, <1>3, <2>1 DEF PassPlansNext, PlannerRefused, PassApproves, Throws
<1>4. CASE CallsPlanner \/ RecordsRunning \/ PassLands \/ LandReturns
  BY <1>0, <1>4 DEF CallsPlanner, RecordsRunning, PassLands, LandReturns, Records
<1>5. CASE WorkerRecords \/ WorkerFinishes
  BY <1>5 DEF WorkerRecords, WorkerFinishes, Records
<1>6. CASE WorkerThrows \/ WorkerKilled
  <2>1. quota' \in [QuotaKinds -> Nat]
    BY <1>6, UseType DEF WorkerThrows, WorkerKilled
  <2> QED
    BY <1>6, <2>1 DEF WorkerThrows, WorkerKilled, Records
<1>7. CASE Humans
  <2>1. quota' \in [QuotaKinds -> Nat]
    BY <1>7, UseType
    DEF Humans, HumanApprovesQueue, HumanEditsQueue, HumanPlans, HumanEditsPlan,
        HumanApproves
  <2> QED
    BY <1>7, <2>1
    DEF Humans, HumanApprovesQueue, HumanEditsQueue, HumanPlans, HumanEditsPlan,
        HumanApproves, Records
<1>8. CASE PilotKilled
  BY <1>8 DEF PilotKilled
<1>9. CASE Cycles \/ Delivery \/ Syncs \/ \E l \in Landers : Lands(l)
  BY <1>1, <1>9 DEF Cycles, Delivery, Syncs, Lands
<1>10. CASE UNCHANGED vars
  BY <1>1, <1>10 DEF vars
<1> QED
  BY <1>2, <1>3, <1>4, <1>5, <1>6, <1>7, <1>8, <1>9, <1>10
  DEF Next, Pilot, Planner

(* Every variable of a delivery keeps its type. *)
THEOREM DeliveryTypeCorrect == Spec => []ATypeOK
<1>1. AInit => PilotTypeOK
  <2>1. AInit => budget \in Budgets
    BY DEF AInit, LInit, WInit
  <2> QED
    BY <2>1, QuotaAssumption DEF AInit, PilotTypeOK, Records
<1>2. Spec => []PilotTypeOK
  BY <1>1, PilotTypeStep, PTL DEF Spec
<1>3. DInv /\ PilotTypeOK => ATypeOK
  BY DEF DInv, LandInv, PilotTypeOK, ATypeOK
<1> QED
  BY <1>2, <1>3, DeliveryInvariance, PTL
=============================================================================
