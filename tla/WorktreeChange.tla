--------------------------- MODULE WorktreeChange ---------------------------
(***************************************************************************)
(* One approved change in its osq worktree, between the files on disk and  *)
(* the branch: the commit of a verified task, the record of a dead one,    *)
(* the halts, their catch-up, the archive with its spec record, and the    *)
(* archive's commit.  The watcher writes a marker, edits files and commits *)
(* in separate steps; a kill may fall between any two, and a hook may      *)
(* reject any commit.                                                      *)
(*                                                                         *)
(* Abstractions:                                                           *)
(*  - what an attempt leaves outside the change folder is one member of    *)
(*    dirty: its task; a patch is the set of tasks whose edits it holds;   *)
(*  - the living specs are the branch's own, partly merged or merged;      *)
(*  - a change lane runs apart from the watcher's cycles, but a cycle      *)
(*    leaves a change alone while its lane runs, so one hand moves it;     *)
(*  - every death is one an automatic retry takes; audits, stuck tasks and *)
(*    locks that are aged, torn or another watcher's are ChangeRun's, and  *)
(*    an agent dies with its watcher;                                      *)
(*  - the sync with the default branch is one step with its outcome, which *)
(*    Landing refines;                                                     *)
(*  - how often the environment acts is capped by a member of Budgets.      *)
(***************************************************************************)
EXTENDS Integers, FiniteSets

CONSTANTS
  NTasks,
  AutoRetries,    \* gates.autoRetries
  CommitRetries,  \* gates.commitRetries
  Deletes,        \* tasks whose edits remove a tracked file
  Budgets         \* how many kills, hooks that start to reject, human
                  \* commands, red verifies, usage limits and deaths a run has

Kinds == {"kill", "hook", "human", "red", "limit", "death"}

Whole == 0        \* in cur: the change itself, not a task
Tasks == 1..NTasks

ASSUME NTasksAssumption == NTasks \in Nat \ {0}

ASSUME LimitsAssumption ==
  /\ AutoRetries \in Nat
  /\ CommitRetries \in Nat
  /\ Deletes \subseteq Tasks
  /\ Budgets \subseteq [Kinds -> Nat]

SyncStops == {"sync_conflict", "requirement_changed", "sync_verify_red",
              "sync_failed"}
Halts == {"none", "commit_failed", "worktree_dirty", "verify_red"}
         \cup SyncStops

VARIABLES
  pc,        \* where the watcher's hand is; "idle" between two visits
  cur,       \* the task it works on
  folder,    \* where the change folder is: "active" or "archived"
  done,      \* tasks with .run/done/<n>
  dead,      \* tasks with .run/dead/<n>.md
  regressed, \* tasks with .run/regressed/<n>.md
  lock,      \* tasks with .run/running/<n>.pid
  unreleased, \* history: tasks whose watcher was killed after it wrote their
             \* done marker and before it released their lock
  dirty,     \* tasks whose edits are in the tree and not in HEAD
  staged,    \* tasks whose deletion a rejected commit left in the index
  patch,     \* .run/dead/<n>.patch
  record,    \* .run/archive-specs.json
  specs,     \* the living specs in the tree
  merging,   \* a merge of the default branch is begun and not committed
  halt,      \* the reason in .run/regressed/change.md
  fails,     \* commit_failed events since the last human retry
  tries,     \* automatic retries of a task since the last human one
  again,     \* tasks whose next attempt follows an earlier one
  head,      \* the branch's HEAD
  hook,      \* whether a hook lets commits pass
  budget

markVars  == <<done, dead, regressed>>
runVars   == <<markVars, lock, unreleased>>
workVars  == <<dirty, staged>>
specVars  == <<record, specs>>
treeVars  == <<folder, runVars, workVars, patch, specVars, merging>>
haltVars  == <<halt, fails, tries, again>>
worldVars == <<hook, budget>>
restVars  == <<haltVars, head, worldVars>>
wVars     == <<pc, cur, treeVars, restVars>>

CommitPhases  == {"add", "commit"}
DeathPhases   == {"reap", "patch", "discard", "bury"}
ArchivePhases == {"recheck", "record", "apply", "merge", "verify", "drop",
                  "move"}
Phases == {"down", "idle", "sync", "spawn", "agent", "release", "yield", "seal"}
          \cup CommitPhases \cup DeathPhases \cup ArchivePhases

Heads == [code : SUBSET Tasks,     \* tasks whose edits it holds
          done : SUBSET Tasks,     \* .run/done/<n>
          dead : SUBSET Tasks,     \* .run/dead/<n>.md
          specs : {"base", "merged"},
          sealed : BOOLEAN]        \* the change folder is in the archive

WTypeOK ==
  /\ pc \in Phases
  /\ cur \in Tasks \cup {Whole}
  /\ folder \in {"active", "archived"}
  /\ done \in SUBSET Tasks /\ dead \in SUBSET Tasks
  /\ regressed \in SUBSET Tasks
  /\ lock \in SUBSET Tasks /\ unreleased \in SUBSET Tasks
  /\ dirty \in SUBSET Tasks
  /\ staged \in SUBSET Tasks
  /\ patch \in [Tasks -> SUBSET Tasks]
  /\ record \in {"none", "torn", "saved"}
  /\ specs \in {"base", "part", "merged"}
  /\ merging \in BOOLEAN
  /\ halt \in Halts
  /\ fails \in Nat
  /\ tries \in [Tasks -> Nat]
  /\ again \in SUBSET Tasks
  /\ head \in Heads
  /\ hook \in {"passes", "rejects"}
  /\ budget \in [Kinds -> Nat]

WInit ==
  /\ pc = "down" /\ cur = Whole
  /\ folder = "active"
  /\ done = {} /\ dead = {} /\ regressed = {}
  /\ lock = {} /\ unreleased = {}
  /\ dirty = {} /\ staged = {}
  /\ patch = [t \in Tasks |-> {}]
  /\ record = "none" /\ specs = "base" /\ merging = FALSE
  /\ halt = "none" /\ fails = 0
  /\ tries = [t \in Tasks |-> 0] /\ again = {}
  /\ head = [code |-> {}, done |-> {}, dead |-> {}, specs |-> "base",
             sealed |-> FALSE]
  /\ hook = "passes"
  /\ budget \in Budgets

-----------------------------------------------------------------------------
(* Control, and what the code reads before it acts *)

Goto(phase) == pc' = phase /\ UNCHANGED cur
MoveTo(phase, t) == pc' = phase /\ cur' = t
Spend(kind) == /\ budget[kind] > 0
               /\ budget' = [budget EXCEPT ![kind] = @ - 1]

\* haltWorktreeChange
Halt(reason) ==
  /\ halt' = reason
  /\ fails' = IF reason = "commit_failed" THEN fails + 1 ELSE fails
  /\ Goto("idle")
  /\ UNCHANGED <<tries, again>>

Idle == pc = "idle" /\ folder = "active"

\* deriveSpecState: a done marker hides a dead one, a regressed one both
DeadTasks == dead \ done
Regressed == halt # "none" \/ regressed # {}
AllDone   == ~Regressed /\ done = Tasks
Pending   == ~Regressed /\ DeadTasks = {} /\ done # Tasks
Next1(S)  == CHOOSE t \in S : \A u \in S : t <= u

\* pendingDoneTasks, pendingDeadTasks: git lists a marker HEAD already holds
\* as modified, not as new, and both skip it
PendingDone == done \ head.done
PendingDead == dead \ head.dead

\* worktreeDirt
Dirt == dirty # {} \/ staged # {} \/ specs # head.specs \/ merging

\* restoreArchiveSpecs: a torn record restores nothing and is removed
Restored == IF record = "saved" THEN "base" ELSE specs

-----------------------------------------------------------------------------
(* Reap and catch up: reapChange *)

\* reapStaleLocks: the lock of a process that is gone, whatever markers stand
\* beside it
ReapLock(t) ==
  /\ Idle /\ t \in lock
  /\ lock' = lock \ {t}
  /\ MoveTo("reap", t)
  /\ UNCHANGED <<folder, markVars, unreleased, workVars, patch, specVars,
                 merging, restVars>>

\* its death is reported once the lock is gone, then recorded in git
ReportReaped ==
  /\ pc = "reap"
  /\ dead' = dead \cup {cur}
  /\ Goto("patch")
  /\ UNCHANGED <<folder, done, regressed, lock, unreleased, workVars, patch,
                 specVars, merging, restVars>>

\* defect: one commit too many
MayCatchUpOnceMore ==
  halt = "none" \/ (halt = "commit_failed" /\ fails <= CommitRetries + 1)

\* catchUpWorktreeCommits leaves other halts alone and stops past its budget
MayCatchUp ==
  halt = "none" \/ (halt = "commit_failed" /\ fails <= CommitRetries)

CatchUpDead ==
  /\ Idle /\ lock = {} /\ MayCatchUp /\ PendingDead # {}
  /\ MoveTo("patch", Next1(PendingDead))
  /\ UNCHANGED <<treeVars, restVars>>

ClearHalt ==
  /\ Idle /\ lock = {} /\ PendingDead = {}
  /\ halt = "commit_failed" /\ MayCatchUp
  /\ halt' = "none"
  /\ UNCHANGED <<pc, cur, treeVars, fails, tries, again, head, worldVars>>

\* a visit goes on past the catch-up
Reaped == /\ Idle /\ lock = {} /\ halt # "commit_failed"
          /\ halt = "none" => PendingDead = {}

\* retainFailureMarkers: the failure goes, a regressed completion with it
Retried(t) ==
  /\ dead' = dead \ {t} /\ regressed' = regressed \ {t}
  /\ done' = IF t \in regressed THEN done \ {t} ELSE done
  /\ again' = again \cup {t}
  /\ UNCHANGED <<lock, unreleased>>

\* the dead markers are listed, also one beside a done marker
AutoRetry(t) ==
  /\ Reaped /\ t \in dead /\ tries[t] < AutoRetries
  /\ Retried(t)
  /\ tries' = [tries EXCEPT ![t] = @ + 1]
  /\ UNCHANGED <<pc, cur, folder, workVars, patch, specVars,
                 merging, halt, fails, head, worldVars>>

-----------------------------------------------------------------------------
(* Reconcile and start: reconcileChange, startNextTask *)

RetriesMade == \A t \in dead : tries[t] >= AutoRetries

RestoreSpecs ==
  /\ Reaped /\ RetriesMade /\ ~Regressed /\ record # "none"
  /\ specs' = Restored /\ record' = "none"
  /\ UNCHANGED <<pc, cur, folder, runVars, workVars, patch,
                 merging, restVars>>

\* defect: no pending pass is committed after a commit has failed
CommitPendingOnce ==
  /\ Reaped /\ RetriesMade /\ ~Regressed /\ record = "none" /\ PendingDone # {}
  /\ fails = 0
  /\ MoveTo("add", Next1(PendingDone))
  /\ UNCHANGED <<treeVars, restVars>>

CommitPending ==
  /\ Reaped /\ RetriesMade /\ ~Regressed /\ record = "none" /\ PendingDone # {}
  /\ MoveTo("add", Next1(PendingDone))
  /\ UNCHANGED <<treeVars, restVars>>

\* defect: a visit goes on with an uncommitted pass
ReconciledEarly == Reaped /\ RetriesMade /\ ~Regressed /\ record = "none"

Reconciled == /\ Reaped /\ RetriesMade /\ ~Regressed
              /\ record = "none" /\ PendingDone = {}

\* checkWorktree before a start
HaltDirty ==
  /\ Reconciled /\ Dirt
  /\ Halt("worktree_dirty")
  /\ UNCHANGED <<treeVars, head, worldVars>>

\* a sync runs before the first task and before a retried attempt
SyncFirst(t) == done = {} \/ t \in again

Visit ==
  /\ Reconciled /\ ~Dirt
  /\ IF AllDone THEN MoveTo("sync", Whole)
     ELSE /\ Pending
          /\ LET t == Next1(Tasks \ done)
             IN MoveTo(IF SyncFirst(t) THEN "sync" ELSE "spawn", t)
  /\ UNCHANGED <<treeVars, restVars>>

\* checkSync: a merge begun is committed or aborted before the sync returns
SetMerge(m) ==
  /\ merging' = m
  /\ UNCHANGED <<folder, runVars, workVars, patch, specVars>>

SyncMerge ==
  /\ pc = "sync" /\ ~merging
  /\ SetMerge(TRUE)
  /\ UNCHANGED <<pc, cur, restVars>>

SyncEnds ==
  /\ pc = "sync"
  /\ SetMerge(FALSE)
  /\ Goto(IF cur = Whole THEN "recheck" ELSE "spawn")
  /\ UNCHANGED <<restVars>>

SyncHalts(reason) ==
  /\ pc = "sync"
  /\ SetMerge(FALSE)
  /\ Halt(reason)
  /\ UNCHANGED <<head, worldVars>>

Spawn ==
  /\ pc = "spawn"
  /\ lock' = lock \cup {cur} /\ unreleased' = unreleased \ {cur}
  /\ Goto("agent")
  /\ UNCHANGED <<folder, markVars, workVars, patch, specVars, merging,
                 restVars>>

-----------------------------------------------------------------------------
(* An attempt and what its lane commits: finishLaneTask *)

AgentEdits ==
  /\ pc = "agent" /\ cur \notin dirty
  /\ dirty' = dirty \cup {cur}
  /\ UNCHANGED <<pc, cur, folder, runVars, staged, patch, specVars,
                 merging, restVars>>

\* the verify passes on a tree that holds the task's work
AgentPasses ==
  /\ pc = "agent" /\ cur \in dirty \cup head.code
  /\ done' = done \cup {cur}
  /\ Goto("release")
  /\ UNCHANGED <<folder, dead, regressed, lock, unreleased, workVars, patch,
                 specVars, merging, restVars>>

AgentDies ==
  /\ pc = "agent" /\ Spend("death")
  /\ dead' = dead \cup {cur}
  /\ Goto("release")
  /\ UNCHANGED <<folder, done, regressed, lock, unreleased, workVars, patch,
                 specVars, merging, haltVars, head, hook>>

\* the finally block of runTask; the lane then commits what came of the task
Release ==
  /\ pc = "release"
  /\ lock' = lock \ {cur}
  /\ Goto(IF cur \in done THEN "add" ELSE "patch")
  /\ UNCHANGED <<folder, markVars, unreleased, workVars, patch, specVars,
                 merging, restVars>>

\* a usage limit: the lock is released, then discardPausedWorktreeChanges
AgentPauses ==
  /\ pc = "agent" /\ Spend("limit")
  /\ lock' = lock \ {cur}
  /\ Goto("yield")
  /\ UNCHANGED <<folder, markVars, unreleased, workVars, patch, specVars,
                 merging, haltVars, head, hook>>

DiscardPaused ==
  /\ pc = "yield"
  /\ dirty' = {} /\ staged' = {} /\ specs' = head.specs
  /\ Goto("idle")
  /\ UNCHANGED <<folder, runVars, patch, record, merging, restVars>>

\* commitVerifiedTask: git add stages the paths; it fails on a path that is
\* neither in the tree nor in the index
AddVerified ==
  /\ pc = "add" /\ cur \notin staged
  /\ staged' = staged \cup (dirty \cap Deletes \cap {cur})
  /\ Goto("commit")
  /\ UNCHANGED <<folder, runVars, dirty, patch, specVars,
                 merging, restVars>>

AddFails ==
  /\ pc = "add" /\ cur \in staged
  /\ Halt("commit_failed")
  /\ UNCHANGED <<treeVars, head, worldVars>>

\* the lane goes on to archiveCompletedSpec, a catch-up to its next task:
\* both begin by looking at the tree again
CommitVerified ==
  /\ pc = "commit" /\ hook = "passes"
  /\ head' = [head EXCEPT !.code = @ \cup (dirty \cap {cur}),
                           !.done = @ \cup {cur}]
  /\ dirty' = dirty \ {cur} /\ staged' = staged \ {cur}
  /\ Goto("idle")
  /\ UNCHANGED <<folder, runVars, patch, specVars,
                 merging, haltVars, worldVars>>

\* defect: a rejected commit resets the tree
CommitRejectedReset ==
  /\ pc = "commit" /\ hook = "rejects"
  /\ Halt("commit_failed")
  /\ dirty' = {} /\ staged' = {}
  /\ UNCHANGED <<folder, runVars, patch, specVars, merging, head, worldVars>>

CommitRejected ==
  /\ pc = "commit" /\ hook = "rejects"
  /\ Halt("commit_failed")
  /\ UNCHANGED <<treeVars, head, worldVars>>

\* commitDeadTask: the patch, the discard, the commit of what exists
WritePatch ==
  /\ pc = "patch"
  /\ patch' = [patch EXCEPT ![cur] = dirty]
  /\ Goto("discard")
  /\ UNCHANGED <<folder, runVars, workVars, specVars, merging, restVars>>

Discard ==
  /\ pc = "discard"
  /\ dirty' = {} /\ staged' = {} /\ specs' = head.specs
  /\ Goto("bury")
  /\ UNCHANGED <<folder, runVars, patch, record, merging, restVars>>

CommitDead ==
  /\ pc = "bury" /\ hook = "passes"
  /\ head' = [head EXCEPT !.dead = @ \cup (dead \cap {cur})]
  /\ Goto("idle")
  /\ UNCHANGED <<treeVars, haltVars, worldVars>>

BuryRejected ==
  /\ pc = "bury" /\ hook = "rejects"
  /\ Halt("commit_failed")
  /\ UNCHANGED <<treeVars, head, worldVars>>

-----------------------------------------------------------------------------
(* The archive: checkAndArchiveSpec and commitWorktreeArchive.  checkSync   *)
(* has just run; a task is verified in a tree that lacks its work in vain.  *)

Recheck ==
  /\ pc = "recheck"
  /\ head.code = Tasks
  /\ specs' = Restored /\ record' = "none"
  /\ Goto("record")
  /\ UNCHANGED <<folder, runVars, workVars, patch, merging, restVars>>

\* verifyArchiveStep regresses the first red task
RecheckRed(t) ==
  /\ pc = "recheck"
  /\ IF t \in head.code THEN head.code = Tasks /\ Spend("red")
     ELSE UNCHANGED budget
  /\ specs' = Restored /\ record' = "none"
  /\ regressed' = regressed \cup {t}
  /\ Goto("idle")
  /\ UNCHANGED <<folder, done, dead, lock, unreleased, workVars, patch, merging,
                 haltVars, head, hook>>

\* defect: the specs are merged before they are recorded
SaveRecordLater ==
  /\ pc = "record"
  /\ Goto("apply")
  /\ UNCHANGED <<treeVars, restVars>>

\* applyArchiveSpecs
SaveRecord ==
  /\ pc = "record"
  /\ record' = "saved"
  /\ Goto("apply")
  /\ UNCHANGED <<folder, runVars, workVars, patch, specs,
                 merging, restVars>>

ApplyFirst ==
  /\ pc = "apply"
  /\ specs' = "part"
  /\ Goto("merge")
  /\ UNCHANGED <<folder, runVars, workVars, patch, record,
                 merging, restVars>>

ApplyRest ==
  /\ pc = "merge"
  /\ specs' = "merged"
  /\ Goto("verify")
  /\ UNCHANGED <<folder, runVars, workVars, patch, record,
                 merging, restVars>>

\* defect: a delta that does not apply is skipped
ApplySkips ==
  /\ pc = "merge" /\ Spend("red")
  /\ Goto("verify")
  /\ UNCHANGED <<treeVars, haltVars, head, hook>>

\* a delta or sidecar that does not apply is an error the lane logs
ApplyFails ==
  /\ pc = "merge" /\ Spend("red")
  /\ Goto("idle")
  /\ UNCHANGED <<treeVars, haltVars, head, hook>>

ChangeGreen ==
  /\ pc = "verify"
  /\ Goto("drop")
  /\ UNCHANGED <<treeVars, restVars>>

ChangeRed ==
  /\ pc = "verify" /\ Spend("red")
  /\ specs' = Restored /\ record' = "none"
  /\ Halt("verify_red")
  /\ UNCHANGED <<folder, runVars, workVars, patch, merging, head, hook>>

\* relocateArchivedSpec
DropRecord ==
  /\ pc = "drop"
  /\ record' = "none"
  /\ Goto("move")
  /\ UNCHANGED <<folder, runVars, workVars, patch, specs,
                 merging, restVars>>

MoveFolder ==
  /\ pc = "move"
  /\ folder' = "archived"
  /\ Goto("seal")
  /\ UNCHANGED <<runVars, workVars, patch, specVars, merging, restVars>>

Sealed == [head EXCEPT !.specs = specs, !.sealed = TRUE]

CommitArchive ==
  /\ pc = "seal" /\ hook = "passes"
  /\ head' = Sealed
  /\ Goto("idle")
  /\ UNCHANGED <<treeVars, haltVars, worldVars>>

ArchiveRejected ==
  /\ pc = "seal" /\ hook = "rejects"
  /\ Halt("commit_failed")
  /\ UNCHANGED <<treeVars, head, worldVars>>

\* catchUpWorktreeArchiveCommits: the halt is retired, then the commit made
RetryArchive ==
  /\ pc = "idle" /\ folder = "archived" /\ ~head.sealed
  /\ halt = "commit_failed" /\ fails <= CommitRetries
  /\ halt' = "none"
  /\ Goto("seal")
  /\ UNCHANGED <<treeVars, fails, tries, again, head, worldVars>>

-----------------------------------------------------------------------------
(* Kills, hooks and humans *)

Restart ==
  /\ pc = "down"
  /\ MoveTo("idle", Whole)
  /\ UNCHANGED <<treeVars, restVars>>

\* a kill leaves the lock of an attempt, and tears the record being written
Kill ==
  /\ pc # "down" /\ Spend("kill")
  /\ MoveTo("down", Whole)
  /\ unreleased' = IF pc = "release" THEN unreleased \cup (done \cap {cur})
                   ELSE unreleased
  /\ \/ UNCHANGED record
     \/ pc = "record" /\ record' = "torn"
  /\ UNCHANGED <<folder, markVars, lock, workVars, patch, specs,
                 merging, haltVars, head, hook>>

HookBreaks ==
  /\ hook = "passes" /\ Spend("hook")
  /\ hook' = "rejects"
  /\ UNCHANGED <<pc, cur, treeVars, haltVars, head>>

HookFixed ==
  /\ hook = "rejects"
  /\ hook' = "passes"
  /\ UNCHANGED <<pc, cur, treeVars, haltVars, head, budget>>

\* `osq retry <id> <n>`: refused while the task's lock exists
HumanRetryTask(t) ==
  /\ folder = "active" /\ Spend("human")
  /\ t \in (dead \cup regressed) \ lock
  /\ Retried(t)
  /\ tries' = [tries EXCEPT ![t] = 0]
  /\ UNCHANGED <<pc, cur, folder, workVars, patch, specVars,
                 merging, halt, fails, head, hook>>

\* `osq retry <id> change`: refused while any task's lock exists
HumanRetryChange ==
  /\ folder = "active" /\ halt # "none" /\ Spend("human")
  /\ lock = {}
  /\ halt' = "none" /\ fails' = 0
  /\ UNCHANGED <<pc, cur, treeVars, tries, again, head, hook>>

\* the same of an archive whose commit failed: commitFailedArchive commits
\* it, and puts the retry's files back when the hook rejects again
HumanRetryArchive ==
  /\ folder = "archived" /\ halt = "commit_failed" /\ Spend("human")
  /\ hook = "passes"
  /\ head' = Sealed
  /\ halt' = "none" /\ fails' = 0
  /\ UNCHANGED <<pc, cur, treeVars, tries, again, hook>>

\* a human settles a halted tree by hand: discards what is there, or commits
\* the code of the tasks that left it
HumanCleans(kept) ==
  /\ folder = "active" /\ pc \in {"idle", "down"} /\ Spend("human")
  /\ halt # "none" /\ Dirt
  /\ head' = [head EXCEPT !.code = @ \cup kept]
  /\ dirty' = {} /\ staged' = {} /\ specs' = head.specs /\ merging' = FALSE
  /\ UNCHANGED <<pc, cur, folder, runVars, patch, record, haltVars, hook>>

\* an archive nobody will commit: `osq land` tells the human to
HumanSeals ==
  /\ folder = "archived" /\ ~head.sealed /\ halt = "none"
  /\ pc \in {"idle", "down"} /\ Spend("human")
  /\ head' = Sealed
  /\ UNCHANGED <<pc, cur, treeVars, haltVars, hook>>

\* what `osq land` leaves in the worktree: a merge begun or ended, and the
\* sync stop it commits on the branch
LandSide ==
  /\ folder = "archived" /\ head.sealed
  /\ \E m \in BOOLEAN : SetMerge(m)
  /\ halt' \in {halt} \cup (SyncStops \ {"sync_failed"})
  /\ UNCHANGED <<pc, cur, fails, tries, again, head, worldVars>>

-----------------------------------------------------------------------------
(* The specification *)

Reconcile ==
  \/ \E t \in Tasks : ReapLock(t) \/ AutoRetry(t)
  \/ ReportReaped \/ CatchUpDead \/ ClearHalt \/ RestoreSpecs
  \/ CommitPending \/ HaltDirty \/ Visit \/ Spawn \/ RetryArchive

Lane ==
  \/ AgentEdits \/ AgentPasses \/ AgentDies \/ Release \/ DiscardPaused
  \/ AddVerified \/ AddFails \/ CommitVerified \/ CommitRejected
  \/ WritePatch \/ Discard \/ CommitDead \/ BuryRejected

Archive ==
  \/ Recheck \/ \E t \in Tasks : RecheckRed(t)
  \/ SaveRecord \/ ApplyFirst \/ ApplyRest \/ ApplyFails
  \/ ChangeGreen \/ ChangeRed \/ DropRecord \/ MoveFolder
  \/ CommitArchive \/ ArchiveRejected

Sync == SyncMerge \/ SyncEnds \/ \E reason \in SyncStops : SyncHalts(reason)

World ==
  \/ AgentPauses
  \/ Kill \/ HookBreaks \/ HookFixed
  \/ \E t \in Tasks : HumanRetryTask(t)
  \/ HumanRetryChange \/ HumanRetryArchive \/ HumanSeals
  \/ \E kept \in SUBSET dirty : HumanCleans(kept)
  \/ LandSide

Watcher == Restart \/ Reconcile \/ Lane \/ Archive

WNext == Watcher \/ Sync \/ World

WSpec == WInit /\ [][WNext]_wVars

-----------------------------------------------------------------------------
(* Properties *)

\* An archive is committed only when the branch holds every task's work and
\* the merged living specs: commitArchive stages what it finds, so a wrong
\* order before it would commit an archive that lacks some.
SealedWhole ==
  head.sealed => head.code = Tasks /\ head.specs = "merged"

\* Living specs that applyArchiveSpecs has merged in part are never without
\* the record restoreArchiveSpecs puts them back from.
HalfMergedHasRecord == specs = "part" => record = "saved"

\* The watcher never fails more commits of a change than gates.commitRetries
\* allows beyond the first, over tasks, deaths, the archive and restarts.
CommitBudgetHolds == fails <= CommitRetries + 1

\* A task starts in a tree that holds nothing uncommitted, with every earlier
\* task's marker in HEAD: its commit then holds its own work and no other.
StartsFromCommitted ==
  [][\A t \in lock' \ lock :
        /\ ~Dirt
        /\ \A u \in Tasks : u < t => u \in head.done]_wVars

\* Two things alone throw a verified task's edits away: a human's clean-up, and
\* the death that the reaper records for the lock a kill left beside the task's
\* own done marker (runner.ts:188 to :196).  No other death, pause, rejected
\* commit or restart does, though each discard takes the whole tree.
VerifiedNeverDiscarded ==
  [][\A t \in dirty \cap done :
       /\ t \notin dirty'
       /\ budget'["human"] = budget["human"]
       => t \in head'.code \cup unreleased]_wVars

\* A dead task's edits outlive the discard: once the tree no longer holds
\* them, and until they are committed, .run/dead/<n>.patch is their last copy,
\* which a further try of the dead record keeps (watcher-and-harness/spec.md,
\* "Patch from an earlier try").
LastCopyKept ==
  [][\A t \in Tasks :
       /\ t \in DeadTasks \cap patch[t]
       /\ t \notin dirty \cup head.dead
       => t \in patch'[t]]_wVars

Unrecorded == PendingDone \cup PendingDead

\* No pass or death that a kill or a hook left uncommitted stays so unseen: it
\* is committed, or a retry of its task takes the marker away, or the change
\* waits with a failed commit for its human.
MarkersRecorded ==
  Unrecorded # {} ~> (Unrecorded = {} \/ halt = "commit_failed")
=============================================================================
