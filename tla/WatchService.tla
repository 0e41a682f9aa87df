---------------------------- MODULE WatchService ----------------------------
(***************************************************************************)
(* `osq watch --background`: the ServiceSupervisor that runs the watcher   *)
(* of ChangeLanes as its worker, starts it again when it exits, and ends   *)
(* it on `osq watch --stop`.  A watcher nobody supervises, in a terminal   *)
(* or with `--once`, is ChangeLanes as it stands.                          *)
(*                                                                         *)
(* Abstractions:                                                           *)
(*  - the backoff is a timer that fires, its delays and the log are left   *)
(*    out; a delay outlasts the removal of service.json;                   *)
(*  - one service is started, and stopped by `--stop` alone, once its      *)
(*    record is written; nobody kills the supervisor;                      *)
(*  - how often a worker dies or osq is rebuilt under it, and `--stop` is  *)
(*    typed, is capped by Faults and Stops.                                *)
(***************************************************************************)
EXTENDS ChangeLanes

CONSTANTS
  Faults,    \* deaths of a worker and new builds the service lives through
  Stops      \* times `osq watch --stop` is typed

ASSUME ServiceAssumption == Faults \in Nat /\ Stops \in Nat

VARIABLES
  sup,       \* the supervisor's process; off: there is none
  worker,    \* the process it spawned, none again once its exit is seen
  pending,   \* what the supervisor waits for before it spawns
  stopping,  \* ServiceSupervisor.stopping
  faults, stops   \* what is left of Faults and Stops

supVars     == <<sup, worker, pending, stopping>>
budgetVars  == <<faults, stops>>
serviceVars == <<supVars, budgetVars>>
allVars     == <<vars, serviceVars>>

SupPhases    == {"off", "up", "finishing", "gone"}
WorkerPhases == {"none", "booting", "running"}

\* log: appendLog's write after an exit, with what follows it; spawn: rotateLog
Waits == {"none", "logThenSpawn", "logThenTimer", "timer", "spawn"}

ServiceTypeOK ==
  /\ TypeOK
  /\ sup \in SupPhases
  /\ worker \in WorkerPhases
  /\ pending \in Waits
  /\ stopping \in BOOLEAN
  /\ faults \in 0..Faults /\ stops \in 0..Stops

Supervised == sup # "off"

\* a build check is given to a service's worker, and to it alone
ServiceInit ==
  /\ Init
  /\ options # {"once", "service"}
  /\ stopping = FALSE
  /\ faults = Faults /\ stops = Stops
  /\ IF options = {"service"}
     THEN sup = "up" /\ worker = "none" /\ pending = "spawn"
     ELSE sup = "off" /\ worker = "running" /\ pending = "none"

-----------------------------------------------------------------------------
(* The supervisor *)

\* spawnWorkerNow after rotateLog: nothing looks at stopping here
SpawnWorker ==
  /\ sup \in {"up", "finishing"}
  /\ pending = "spawn"
  /\ pending' = "none"
  /\ worker' = "booting"
  /\ UNCHANGED <<vars, sup, stopping, budgetVars>>

\* the exit code is EXIT_NEW_BUILD
ExitedForBuild == cycle = "closing"

\* defect: only a new build is worth a restart
RestartForBuildOnly ==
  IF ExitedForBuild THEN "logThenSpawn" ELSE "none"

Restart == IF ExitedForBuild THEN "logThenSpawn" ELSE "logThenTimer"

\* of a process that is gone nothing is left but what it wrote on disk
ForgetProcess ==
  /\ stage' = "first" /\ cycle' = "idle" /\ at' = 1
  /\ lane' = [c \in Changes |-> "none"] /\ spawned' = {}
  /\ kept' = "none" /\ progress' = "none"
  /\ UNCHANGED <<modeVars, worldVars, left, archived>>

\* handleWorkerExit
WorkerExit ==
  /\ sup = "up"
  /\ worker = "running" /\ Exited
  /\ worker' = "none"
  /\ IF stopping THEN sup' = "finishing" /\ UNCHANGED pending
                 ELSE pending' = Restart /\ UNCHANGED sup
  /\ ForgetProcess
  /\ flags' = {}
  /\ UNCHANGED <<held, stopping, budgetVars>>

Logged ==
  /\ sup \in {"up", "finishing"}
  /\ \/ pending = "logThenSpawn" /\ pending' = "spawn"
     \/ pending = "logThenTimer" /\ pending' = "timer"
  /\ UNCHANGED <<vars, sup, worker, stopping, budgetVars>>

TimerFires ==
  /\ sup = "up"
  /\ pending = "timer" /\ pending' = "spawn"
  /\ UNCHANGED <<vars, sup, worker, stopping, budgetVars>>

\* finish after removeWatchRecord: what the supervisor still waited for is lost
SupervisorEnds ==
  /\ sup = "finishing"
  /\ sup' = "gone"
  /\ pending' = "none"
  /\ UNCHANGED <<vars, worker, stopping, budgetVars>>

Dies(exitedFlags) ==
  /\ worker' = "running"
  /\ flags' = exitedFlags \cup {"exited"}

ProcessVars == <<modeVars, stage, cycle, at, lanesVars, worldVars, progress,
                 changeVars>>

\* defect: kill() without a signal sends SIGTERM, which the watcher does not
\* handle
TerminateWorker ==
  Dies(flags) /\ UNCHANGED ProcessVars

\* SIGINT: startWatcher's handler, if it is installed and not removed again
InterruptWorker ==
  \/ worker = "running" /\ (Sigint \/ Kill) /\ UNCHANGED worker
  \/ /\ worker = "booting" \/ IsSettled
     /\ ~Exited
     /\ Dies(flags)
     /\ UNCHANGED ProcessVars
  \/ worker = "running" /\ Exited /\ UNCHANGED <<vars, worker>>

\* handleSignal, on the SIGTERM of stopBackgroundWatch
Stop ==
  /\ sup = "up"
  /\ stops > 0
  /\ stops' = stops - 1
  /\ stopping' = TRUE
  /\ \/ worker # "none" /\ InterruptWorker /\ UNCHANGED <<sup, pending>>
     \/ /\ worker = "none"
        /\ sup' = "finishing"
        /\ pending' = IF pending = "timer" THEN "none" ELSE pending
        /\ UNCHANGED <<vars, worker>>
  /\ UNCHANGED faults

-----------------------------------------------------------------------------
(* The worker's process *)

\* runWatcher up to startWatcher's SIGINT handler: the check reads its key
Booted ==
  /\ worker = "booting"
  /\ worker' = "running"
  /\ build' \in {"none", build} \ {"new"}
  /\ UNCHANGED <<modeVars, stage, cycle, at, lanesVars, flags, paused, pauses,
                 reopens, progress, changeVars, sup, pending, stopping,
                 budgetVars>>

\* startWatcher has returned and nothing keeps the event loop alive
WorkerEnds ==
  /\ Supervised
  /\ IsSettled /\ ~Exited
  /\ Dies(flags)
  /\ UNCHANGED <<ProcessVars, sup, pending, stopping, budgetVars>>

\* The worker dies.  The next one reaps the locks of its tasks to dead/; a lane
\* that is starting may not have taken its lock yet.
WorkerCrashes ==
  /\ Supervised
  /\ worker # "none" /\ ~Exited
  /\ faults > 0
  /\ faults' = faults - 1
  /\ Dies({})
  /\ \E locked \in SUBSET {c \in Changes : lane[c] = "starting"} :
       held' = held \cup locked \cup {c \in Changes : lane[c] = "agent"}
  /\ ForgetProcess
  /\ UNCHANGED <<sup, pending, stopping, stops>>

\* of a service's build only so many settle
BuildSettles ==
  /\ BuildMoves
  /\ IF Supervised /\ build' = "new"
     THEN faults > 0 /\ faults' = faults - 1
     ELSE UNCHANGED faults
  /\ UNCHANGED <<supVars, stops>>

InProcess(step) == worker = "running" /\ step /\ UNCHANGED serviceVars

Runs  == InProcess(Cycle \/ Setup)
Clock == InProcess(PauseEnds)
Lanes == \E c \in Changes : InProcess(Lane(c))

Supervises == \/ SpawnWorker \/ Booted \/ WorkerEnds \/ WorkerExit \/ Logged
              \/ TimerFires \/ SupervisorEnds

ServiceNext ==
  \/ Supervises \/ Stop \/ WorkerCrashes
  \/ worker = "running" /\ BuildSettles
  \/ Runs \/ Clock \/ Lanes
  \/ \E c \in Changes : Reopen(c) /\ UNCHANGED serviceVars
  \/ ~Supervised /\ InProcess(Abort \/ Sigint \/ Kill)

\* What runs, runs on: the supervisor's promises and timer, which with the
\* pauses' clock have only finitely many steps to make, and the worker as in
\* ChangeLanes.
ServiceFairness ==
  /\ WF_allVars(Supervises \/ Clock)
  /\ WF_allVars(Runs)
  /\ \A c \in Changes : WF_allVars(InProcess(Lane(c)))

ServiceSpec == ServiceInit /\ [][ServiceNext]_allVars /\ ServiceFairness

-----------------------------------------------------------------------------
(* Properties *)

(* One `osq watch --stop` never kills a task: a stopped service's worker    *)
(* that exits over a running lane has been signalled twice.                 *)
StopIsGraceful ==
  stopping /\ Exited /\ Running # {} => stops <= Stops - 2

StopHangs ==
  IF Supervised THEN stopping /\ sup # "gone"
                ELSE Stopped /\ ~IsSettled /\ ~Exited

Starves(c) ==
  /\ Ready(c) /\ c \notin Running
  /\ ~stopping /\ build # "wait"
  /\ ~Supervised => ~Closed /\ ~Exited /\ build = "none"

(* A stopped service comes to its end, whatever its worker and its restarts *)
(* were about, and so does a stopped watcher: no lane, cycle or wait keeps  *)
(* it.                                                                      *)
StopSettles == []<>~StopHangs

(* No change starves: one with a task due gets its lane.  A service's worker *)
(* may die or be replaced on the way, as long as it is not asked to stop or  *)
(* to wait for a build; a watcher of its own must not stop or find a build.  *)
KeptServed == \A c \in Changes : []<>~Starves(c)

(* watcher-and-harness/spec.md, "On SIGTERM or SIGINT it SHALL send SIGINT  *)
(* to a running worker, ... and spawn no other worker": none is left behind. *)
StopLeavesNoWorker == sup = "gone" => worker = "none" \/ Exited
=============================================================================
