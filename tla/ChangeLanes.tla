----------------------------- MODULE ChangeLanes -----------------------------
(***************************************************************************)
(* One watcher process over all active changes: startWatcher's polling     *)
(* cycle, the lanes it starts (at most one per change, at most             *)
(* maxConcurrency at once), and every way it ends: an abort, SIGINT, a     *)
(* build check, the end of `--once`.  What a lane does to its change is    *)
(* module ChangeRun's matter; here it takes steps and ends.                *)
(*                                                                         *)
(* Abstractions:                                                           *)
(*  - a change is the number of its tasks not done, whether it is held     *)
(*    (unapproved, dead, regressed, steered: someone must act first), and  *)
(*    whether it is archived;                                              *)
(*  - startWatcher is given a signal, so its promise resolves on settling; *)
(*  - no change runs in a worktree, so no step syncs or commits one;       *)
(*  - how often a lane hits a usage limit, and a held change is reopened,  *)
(*    is capped by Pauses and Reopens.                                     *)
(***************************************************************************)
EXTENDS Integers, FiniteSets

CONSTANTS
  NChanges,  \* active changes, visited in the order 1 .. NChanges
  NTasks,    \* tasks of each
  Caps,      \* the maxConcurrency a watcher may be started with
  Pauses,    \* usage limits the run has
  Reopens    \* approvals and retries the run has

ASSUME LanesAssumption ==
  /\ NChanges \in Nat \ {0}
  /\ NTasks \in Nat \ {0}
  /\ Caps \subseteq Int
  /\ Pauses \in Nat
  /\ Reopens \in Nat

Changes == 1..NChanges

VARIABLES
  cap,          \* config.maxConcurrency
  options,      \* startWatcher's: once, and service when a buildCheck is given
  stage,        \* of startWatcher: its first cycle, setup, polling, ended
  cycle,        \* where the cycle is; idle: none in flight
  at,           \* the change the cycle is at
  lane,         \* where each change's lane is; none: not running
  spawned,      \* lanes whose task reached the adapter's spawn
  kept,         \* the lanes' kept error
  flags,        \* what has happened to the process, see Flags
  build,        \* osq's own build, as a check finds it
  progress,     \* some: a once cycle's tasksRun or retried is not 0
  left, held, archived, paused,
  pauses, reopens   \* what is left of Pauses and Reopens

modeVars   == <<cap, options>>
lanesVars  == <<lane, spawned, kept>>
worldVars  == <<build, paused, pauses, reopens>>
changeVars == <<left, held, archived>>
vars == <<modeVars, stage, cycle, at, lanesVars, flags, worldVars, progress,
          changeVars>>

Stages == {"first", "setup", "polling", "ended"}
CyclePhases == {"idle", "kept", "visit", "slot", "launch", "archive", "drain",
                "rethrow", "closing"}
LanePhases  == {"none", "audit", "starting", "agent", "finish"}

\* closed: the lanes take no new lane; settled: startWatcher's promise has
\* resolved; exited: the process is gone
Flags == {"closed", "stopped", "interrupted", "settled", "exited"}

\* none: what an error field holds when there is none; wait: BuildWaitError;
\* new: BuildChangedError or StaleBuildError
Errors == {"none", "wait", "new"}

TypeOK ==
  /\ cap \in Caps
  /\ options \subseteq {"once", "service"}
  /\ flags \subseteq Flags
  /\ progress \in {"none", "some"}
  /\ paused \in BOOLEAN
  /\ stage \in Stages
  /\ cycle \in CyclePhases
  /\ at \in 1..(NChanges + 1)
  /\ lane \in [Changes -> LanePhases]
  /\ spawned \subseteq Changes
  /\ kept \in Errors /\ build \in Errors
  /\ left \in [Changes -> 0..NTasks]
  /\ held \subseteq Changes
  /\ archived \subseteq Changes
  /\ pauses \in Nat /\ reopens \in Nat

Init ==
  /\ cap \in Caps
  /\ options \in SUBSET {"once", "service"}
  /\ stage = "first"
  /\ cycle = "idle"
  /\ at = 1
  /\ lane = [c \in Changes |-> "none"]
  /\ spawned = {}
  /\ kept = "none"
  /\ flags = {}
  /\ progress = "none" /\ paused = FALSE
  /\ build = "none"
  /\ left = [c \in Changes |-> NTasks]
  /\ held = {}
  /\ archived = {}
  /\ pauses = Pauses
  /\ reopens = Reopens

-----------------------------------------------------------------------------
Once        == "once" \in options
Closed      == "closed" \in flags
Stopped     == "stopped" \in flags
Interrupted == "interrupted" \in flags
IsSettled   == "settled" \in flags
Exited      == "exited" \in flags

\* the constructor's cap
Slots == IF cap > 1 THEN cap ELSE 1

Running == {c \in Changes : lane[c] # "none"}

\* defect: a change whose tasks are all done still has one to start
ReadyAnyway(c) == c \notin held \cup archived

Ready(c)    == c \notin held \cup archived /\ left[c] > 0
Complete(c) == c \notin held \cup archived /\ left[c] = 0

AllSpawned == Running \subseteq spawned

At(phase) == ~Exited /\ cycle = phase

\* defect: the promise resolves while a cycle is still in flight
SettlingEarly(inFlight, lanes) == {f \in {"settled"} : lanes = {}}

\* settleIfStopped, where the code calls it: the flag it sets
Settling(inFlight, lanes) ==
  {f \in {"settled"} : inFlight = "idle" /\ lanes = {}}

\* only a once run reads its cycles' tasksRun and retried
Progressed == progress' = IF Once THEN "some" ELSE "none"

-----------------------------------------------------------------------------
(* cycleHandler and runWatcherCycle *)

\* the finally block, and startWatcher's own next step after its first cycle
EndCycle ==
  /\ cycle' = "idle"
  /\ at' = 1
  /\ stage' = IF stage # "first" THEN stage
              ELSE IF Stopped THEN "ended" ELSE "setup"
  /\ flags' = IF Stopped THEN flags \cup Settling("idle", Running) ELSE flags

\* what a build check throws ends the cycle: a wait at once, a new build once
\* every lane has ended, and a once run at once
Throw(error) ==
  /\ IF Once
     THEN /\ flags' = flags \cup {"exited"}
          /\ UNCHANGED <<stage, cycle, at>>
     ELSE IF error = "wait"
     THEN EndCycle
     ELSE /\ flags' = flags \cup {"closed"}
          /\ cycle' = "closing"
          /\ UNCHANGED <<stage, at>>
  /\ UNCHANGED <<modeVars, lane, spawned, worldVars, progress, changeVars>>

GoOn(phase, change) ==
  /\ cycle' = phase
  /\ at' = change
  /\ UNCHANGED <<modeVars, stage, lane, spawned, flags>>

MayBegin ==
  /\ At("idle")
  /\ ~Stopped /\ ~Interrupted
  /\ stage \in {"first", "polling"}

TopCheck == ~Once /\ "service" \in options /\ AllSpawned

BeginCycle ==
  /\ MayBegin
  /\ TopCheck => build = "none"
  /\ GoOn("kept", 1)
  /\ progress' = "none"
  /\ UNCHANGED <<kept, worldVars, changeVars>>

TopCheckThrows ==
  /\ MayBegin
  /\ TopCheck /\ build # "none"
  /\ Throw(build)
  /\ UNCHANGED kept

\* takeError, at the start of runWatcherCycle and at its end
TakeNoError ==
  /\ \/ At("kept") /\ GoOn("visit", 1) /\ UNCHANGED progress
     \/ /\ At("rethrow") /\ Once /\ progress = "some"
        /\ GoOn("kept", 1) /\ progress' = "none"
  /\ kept = "none"
  /\ UNCHANGED <<kept, worldVars, changeVars>>

TakeError ==
  /\ At("kept") \/ At("rethrow")
  /\ kept # "none"
  /\ kept' = "none"
  /\ Throw(kept)

\* defect: a once run returns after one cycle
ReturnAtOnce ==
  /\ At("rethrow")
  /\ kept = "none"
  /\ IF Once
     THEN /\ flags' = flags \cup {"exited"}
          /\ UNCHANGED <<stage, cycle, at>>
     ELSE EndCycle
  /\ UNCHANGED <<modeVars, lanesVars, worldVars, progress, changeVars>>

Return ==
  /\ At("rethrow")
  /\ kept = "none"
  /\ IF Once
     THEN /\ progress = "none"
          /\ flags' = flags \cup {"exited"}
          /\ UNCHANGED <<stage, cycle, at>>
     ELSE EndCycle
  /\ UNCHANGED <<modeVars, lanesVars, worldVars, progress, changeVars>>

-----------------------------------------------------------------------------
(* runActiveChanges and advanceChange *)

NextVisit == GoOn("visit", at + 1)

\* its lane runs, or it has nothing to start
LeaveAlone ==
  /\ At("visit") /\ at \in Changes
  /\ at \in Running \/ ~(Ready(at) \/ Complete(at))
  /\ NextVisit
  /\ UNCHANGED <<kept, worldVars, progress, changeVars>>

\* runAutomaticRetries takes a dead change up again
RetryHeld ==
  /\ At("visit") /\ at \in Changes \ Running
  /\ at \in held
  /\ reopens > 0
  /\ reopens' = reopens - 1
  /\ held' = held \ {at}
  /\ Progressed
  /\ GoOn("visit", at)
  /\ UNCHANGED <<kept, build, paused, pauses, left, archived>>

\* defect: no look at the running lanes
PrepareAgain ==
  /\ At("visit") /\ at \in Changes
  /\ \/ Ready(at) /\ GoOn("slot", at)
     \/ Complete(at) /\ GoOn("archive", at)
  /\ UNCHANGED <<kept, worldVars, progress, changeVars>>

Prepare ==
  /\ At("visit") /\ at \in Changes \ Running
  /\ \/ Ready(at) /\ GoOn("slot", at)
     \/ Complete(at) /\ GoOn("archive", at)
  /\ UNCHANGED <<kept, worldVars, progress, changeVars>>

\* defect: one lane too many
SlotFreeAtCap == Cardinality(Running) <= Slots

\* startNextTask after waitForSlot: the closed check and the build check
SlotFree == Cardinality(Running) < Slots

TakeSlot ==
  /\ At("slot")
  /\ SlotFree
  /\ \/ Closed /\ NextVisit
     \/ ~Closed /\ build = "none" /\ GoOn("launch", at)
  /\ UNCHANGED <<kept, worldVars, progress, changeVars>>

SlotThrows ==
  /\ At("slot")
  /\ SlotFree
  /\ ~Closed
  /\ build # "none"
  /\ Throw(build)
  /\ UNCHANGED kept

\* the pause check, lanes.start, and runChangeLane up to its first await
Launch ==
  /\ At("launch")
  /\ cycle' = "visit"
  /\ at' = at + 1
  /\ IF paused \/ Closed
     THEN UNCHANGED <<lane, spawned>>
     ELSE /\ lane' = [lane EXCEPT ![at] = "audit"]
          /\ spawned' = spawned \ {at}
  /\ UNCHANGED <<modeVars, stage, kept, flags, worldVars, progress,
                 changeVars>>

\* archiveCompletedSpec: the build check, then an archive or a regression
ArchiveThrows ==
  /\ At("archive")
  /\ build # "none"
  /\ Throw(build)
  /\ UNCHANGED kept

Archives(c) ==
  \/ archived' = archived \cup {c} /\ UNCHANGED held
  \/ held' = held \cup {c} /\ UNCHANGED archived

Archive ==
  /\ At("archive")
  /\ build = "none"
  /\ Archives(at)
  /\ NextVisit
  /\ UNCHANGED <<kept, worldVars, progress, left>>

\* a once cycle owns its lanes and waits for all of them
EndVisits ==
  /\ At("visit") /\ at = NChanges + 1
  /\ GoOn(IF Once THEN "drain" ELSE "rethrow", at)
  /\ UNCHANGED <<kept, worldVars, progress, changeVars>>

Drain ==
  /\ At("drain")
  /\ Running = {}
  /\ GoOn("rethrow", at)
  /\ UNCHANGED <<kept, worldVars, progress, changeVars>>

\* defect: the process exits under its lanes
ExitNow ==
  /\ At("closing")
  /\ flags' = flags \cup {"exited"}
  /\ UNCHANGED <<modeVars, stage, cycle, at, lanesVars, worldVars, progress,
                 changeVars>>

\* a new build: every lane has ended, the process exits
Exit ==
  /\ At("closing")
  /\ Running = {}
  /\ flags' = flags \cup {"exited"}
  /\ UNCHANGED <<modeVars, stage, cycle, at, lanesVars, worldVars, progress,
                 changeVars>>

\* startWatcher after its first cycle: changeTrees, then watch and setInterval
Setup ==
  /\ ~Exited
  /\ stage = "setup"
  /\ stage' = IF Stopped THEN "ended" ELSE "polling"
  /\ UNCHANGED <<modeVars, cycle, at, lanesVars, flags, worldVars, progress,
                 changeVars>>

-----------------------------------------------------------------------------
(* runChangeLane *)

InLane(c, phase) == ~Exited /\ lane[c] = phase

\* defect: the last lane to end does not settle a stopped watcher
EndLaneSilently(c) ==
  /\ lane' = [lane EXCEPT ![c] = "none"]
  /\ spawned' = spawned \ {c}
  /\ UNCHANGED flags

\* the lane's promise settles: ChangeLanes.start's finally block
EndLane(c) ==
  /\ lane' = [lane EXCEPT ![c] = "none"]
  /\ spawned' = spawned \ {c}
  /\ flags' = IF Stopped THEN flags \cup Settling(cycle, Running \ {c})
              ELSE flags

LaneStep(c, phase) ==
  /\ lane' = [lane EXCEPT ![c] = phase]
  /\ UNCHANGED flags

InCycle == <<modeVars, stage, cycle, at>>

\* runScopeAudit, and the second closed check
Audit(c) ==
  /\ InLane(c, "audit")
  /\ \/ held' = held \cup {c} /\ EndLane(c)
     \/ Closed /\ EndLane(c) /\ UNCHANGED held
     \/ ~Closed /\ LaneStep(c, "starting") /\ UNCHANGED <<spawned, held>>
  /\ UNCHANGED <<InCycle, kept, worldVars, progress, left, archived>>

\* runTask refuses: the seal, the guard, the entry file, a gate, or the lock
Refuse(c) ==
  /\ InLane(c, "starting")
  /\ EndLane(c)
  /\ held' \in {held, held \cup {c}}
  /\ Progressed
  /\ UNCHANGED <<InCycle, kept, worldVars, left, archived>>

Spawn(c) ==
  /\ InLane(c, "starting")
  /\ LaneStep(c, "agent")
  /\ spawned' = spawned \cup {c}
  /\ UNCHANGED <<InCycle, kept, worldVars, progress, changeVars>>

AgentPasses(c) ==
  /\ InLane(c, "agent")
  /\ left' = [left EXCEPT ![c] = @ - 1]
  /\ LaneStep(c, "finish")
  /\ UNCHANGED <<InCycle, spawned, kept, worldVars, progress, held, archived>>

AgentFails(c) ==
  /\ InLane(c, "agent")
  /\ held' = held \cup {c}
  /\ EndLane(c)
  /\ Progressed
  /\ UNCHANGED <<InCycle, kept, worldVars, left, archived>>

AgentPauses(c) ==
  /\ InLane(c, "agent")
  /\ pauses > 0
  /\ pauses' = pauses - 1
  /\ paused' = TRUE
  /\ EndLane(c)
  /\ Progressed
  /\ UNCHANGED <<InCycle, kept, build, reopens, changeVars>>

\* finishLaneTask: the first error any lane ends with is kept
FinishThrows(c) ==
  /\ InLane(c, "finish")
  /\ build # "none"
  /\ kept' = IF kept = "none" THEN build ELSE kept
  /\ EndLane(c)
  /\ UNCHANGED <<InCycle, worldVars, progress, changeVars>>

Finish(c) ==
  /\ InLane(c, "finish")
  /\ build = "none"
  /\ IF left[c] = 0 THEN Archives(c) ELSE UNCHANGED <<held, archived>>
  /\ EndLane(c)
  /\ Progressed
  /\ UNCHANGED <<InCycle, kept, worldVars, left>>

-----------------------------------------------------------------------------
(* What happens to the process *)

\* stop() clears the poll interval and closes the lanes
StageStopped == IF stage = "polling" THEN "ended" ELSE stage

InWorld == <<modeVars, cycle, at, lane, spawned, kept, worldVars, progress,
             changeVars>>

Abort ==
  /\ ~Exited /\ ~Once /\ ~Stopped
  /\ flags' = flags \cup {"stopped", "closed"} \cup Settling(cycle, Running)
  /\ stage' = StageStopped
  /\ UNCHANGED InWorld

Sigint ==
  /\ ~Exited /\ ~Once /\ ~IsSettled /\ ~Interrupted
  /\ \/ /\ Stopped
        /\ flags' = flags \cup {"interrupted"}
        /\ UNCHANGED stage
     \/ /\ ~Stopped
        /\ flags' = flags \cup {"interrupted", "stopped", "closed"}
                         \cup Settling(cycle, Running)
        /\ stage' = StageStopped
  /\ UNCHANGED InWorld

\* the second Ctrl+C kills at once
Kill ==
  /\ ~Exited /\ ~IsSettled /\ Interrupted
  /\ flags' = flags \cup {"exited"}
  /\ UNCHANGED <<InWorld, stage>>

\* osq's own dist/ is rebuilt; only a service's check ever asks to wait
BuildMoves ==
  /\ ~Exited
  /\ build' \in {"wait", "new"} \ {build}
  /\ build # "new"
  /\ build' = "wait" => "service" \in options
  /\ UNCHANGED <<modeVars, stage, cycle, at, lanesVars, flags, paused,
                 pauses, reopens, progress, changeVars>>

PauseEnds ==
  /\ ~Exited
  /\ paused /\ paused' = FALSE
  /\ UNCHANGED <<modeVars, stage, cycle, at, lanesVars, flags, build,
                 pauses, reopens, progress, changeVars>>

\* a human approves or retries
Reopen(c) ==
  /\ ~Exited
  /\ c \in held /\ reopens > 0
  /\ held' = held \ {c}
  /\ reopens' = reopens - 1
  /\ UNCHANGED <<modeVars, stage, cycle, at, lanesVars, flags, build,
                 paused, pauses, progress, left, archived>>

-----------------------------------------------------------------------------
Cycle == \/ BeginCycle \/ TopCheckThrows \/ TakeNoError \/ TakeError \/ Return
         \/ LeaveAlone \/ RetryHeld \/ Prepare \/ TakeSlot \/ SlotThrows
         \/ Launch \/ ArchiveThrows \/ Archive \/ EndVisits \/ Drain \/ Exit

Lane(c) == \/ Audit(c) \/ Refuse(c) \/ Spawn(c) \/ AgentPasses(c)
           \/ AgentFails(c) \/ AgentPauses(c) \/ FinishThrows(c) \/ Finish(c)

Next ==
  \/ Cycle \/ Setup
  \/ \E c \in Changes : Lane(c) \/ Reopen(c)
  \/ Abort \/ Sigint \/ Kill \/ BuildMoves \/ PauseEnds

Spec == Init /\ [][Next]_vars

-----------------------------------------------------------------------------
(* Properties *)

(* No more lanes run than maxConcurrency, and one if it is 0, though lanes  *)
(* outlive the cycle that counted them.                                     *)
CapHolds == Cardinality(Running) <= Slots

(* The cycle has no hand on a change whose lane runs: it neither waits to   *)
(* start it again nor archives it.                                          *)
OneHandPerChange ==
  cycle \in {"slot", "launch", "archive"} => lane[at] = "none"

(* startWatcher resolves only when no cycle, no lane and no poll is left.   *)
SettledIsQuiet ==
  IsSettled => cycle = "idle" /\ Running = {} /\ stage # "polling"

(* A new build ends a continuous watcher only after its last lane; only the *)
(* second Ctrl+C kills a lane.                                              *)
ExitIsQuiet == Exited /\ ~Once /\ ~Interrupted => Running = {}

(* A once run that met no build error, no usage limit and no human returns  *)
(* with nothing left to start or to archive.                                *)
OnceFinishes ==
  Exited /\ Once /\ build = "none" /\ pauses = Pauses /\ reopens = Reopens =>
    Changes = held \cup archived

(* watcher-and-harness/spec.md, "When the watcher stops ... it SHALL start  *)
(* no task".                                                                *)
StopStartsNoTask ==
  [][Closed => \A c \in Changes : lane'[c] = "agent" => lane[c] = "agent"]_vars
=============================================================================
