------------------------- MODULE WatchServiceProofs -------------------------
(***************************************************************************)
(* WatchService's safety, for every number of changes and tasks, every     *)
(* maxConcurrency, and any number of stops, worker deaths and rebuilds.    *)
(***************************************************************************)
EXTENDS WatchService, ChangeLanesProofs

(***************************************************************************)
(* The strengthening.  ChangeLanes' invariants hold of every worker; a     *)
(* process that is not there yet has no lane; and only a stop interrupts a *)
(* worker, so an interrupted one has cost a stop already.                  *)
(***************************************************************************)
ServiceMode ==
  /\ Supervised => options = {"service"}
  /\ ~Supervised => worker = "running"
  /\ stopping => Supervised

NoProcessYet ==
  worker # "running" => flags = {} /\ Running = {} /\ cycle = "idle"

\* the supervisor never has two workers to run
OneWorker == pending # "none" => worker = "none"

InterruptedByStop ==
  Supervised /\ Interrupted => stopping /\ stops <= Stops - 1

ServiceInv ==
  /\ Inv
  /\ CapInv
  /\ ServiceTypeOK
  /\ ServiceMode
  /\ NoProcessYet
  /\ OneWorker
  /\ InterruptedByStop
  /\ StopIsGraceful

\* what every proof below unfolds, as in ChangeLanesProofs
USE DEF Supervised, Running, At, InLane, InCycle, InWorld, GoOn, NextVisit,
        LaneStep, EndLane, EndCycle, Throw, MayBegin, StageStopped, Settling,
        Archives, Progressed, Once, Closed, Stopped, Interrupted, IsSettled,
        Exited, modeVars, lanesVars, worldVars, changeVars

-----------------------------------------------------------------------------
(* A step of ChangeLanes keeps its invariants in any worker. *)
LEMMA LanesStep == Inv /\ CapInv /\ [Next]_vars => Inv' /\ CapInv'
  BY TypeStep, HoldsStep, TaskStep, PollStep, SettledStep, ExitStep, CapStep
  DEF Inv

(* A process that is gone has no lane and no cycle. *)
LEMMA ForgottenStep ==
  ASSUME Inv, CapInv, ForgetProcess,
         flags' \in {{}, {"exited"}}, held' \subseteq Changes
  PROVE  Inv' /\ CapInv' /\ Running' = {}
<1>1. Running' = {}
  BY DEF ForgetProcess, Running
<1>2. TypeOK'
  BY AtType
  DEF Inv, TypeOK, ForgetProcess, Stages, CyclePhases, LanePhases, Errors,
      Flags, modeVars, worldVars
<1>3. HoldsChange' /\ TaskIsDue'
  BY DEF ForgetProcess, HoldsChange, TaskIsDue
<1>4. StoppedPollsNoMore' /\ SettledIsStopped'
  BY DEF ForgetProcess, StoppedPollsNoMore, SettledIsStopped, IsSettled
<1>5. ExitIsQuiet'
  BY <1>1 DEF ExitIsQuiet
<1>6. CapInv'
  <2>1. Cardinality(Running') = 0
    BY <1>1, FS_EmptySet
  <2>2. Slots' >= 1
    BY LanesAssumption DEF Inv, TypeOK, ForgetProcess, modeVars, Slots
  <2>3. Slots' \in Int
    BY LanesAssumption DEF Inv, TypeOK, ForgetProcess, modeVars, Slots
  <2>4. CapHolds'
    BY <2>1, <2>2, <2>3 DEF CapHolds
  <2> QED
    BY <2>4 DEF CapInv, SlotIsKept, ForgetProcess
<1> QED
  BY <1>1, <1>2, <1>3, <1>4, <1>5, <1>6 DEF Inv

(* A worker that dies where it stands leaves no lane behind, if it had none. *)
LEMMA DiesStep ==
  ASSUME Inv, CapInv, Running = {},
         flags' = flags \cup {"exited"}, UNCHANGED ProcessVars
  PROVE  Inv' /\ CapInv' /\ Running' = {}
<1> USE DEF ProcessVars, modeVars, lanesVars, worldVars, changeVars
<1>1. Running' = {}
  BY DEF Running
<1>2. TypeOK'
  BY DEF Inv, TypeOK, Flags
<1>3. HoldsChange' /\ TaskIsDue'
  BY DEF Inv, HoldsChange, TaskIsDue
<1>4. StoppedPollsNoMore' /\ SettledIsStopped'
  BY <1>1 DEF Inv, StoppedPollsNoMore, SettledIsStopped, IsSettled, Stopped
<1>5. ExitIsQuiet'
  BY <1>1 DEF ExitIsQuiet
<1>6. CapInv'
  BY DEF CapInv, CapHolds, SlotIsKept, SlotFree, Slots, Running
<1> QED
  BY <1>1, <1>2, <1>3, <1>4, <1>5, <1>6 DEF Inv
-----------------------------------------------------------------------------
(* What the worker does by itself. *)
WorkerSteps == \/ Cycle \/ Setup \/ PauseEnds \/ BuildMoves
               \/ \E c \in Changes : Lane(c) \/ Reopen(c)

(* It never exits over a lane, but for the once run that no service is. *)
LEMMA WorkerExitsQuietly ==
  ASSUME Inv, WorkerSteps, ~Once
  PROVE  /\ ~Exited
         /\ Exited' => Running' = {}
         /\ options' = options
         /\ Interrupted' = Interrupted
<1> USE DEF Exited, Once, Interrupted, Running
<1>1. CASE Cycle
  <2>1. CASE Exit
    BY <2>1 DEF Exit
  <2>2. CASE Cycle /\ ~Exit
    BY <2>2 DEF Cycle, BeginCycle, TopCheckThrows, TakeNoError, TakeError,
                Return, LeaveAlone, RetryHeld, Prepare, TakeSlot, SlotThrows,
                Launch, ArchiveThrows, Archive, EndVisits, Drain
  <2> QED
    BY <1>1, <2>1, <2>2
<1>2. CASE Setup \/ PauseEnds \/ BuildMoves
  BY <1>2 DEF Setup, PauseEnds, BuildMoves
<1>3. ASSUME NEW c \in Changes, Lane(c) \/ Reopen(c)
      PROVE  /\ ~Exited
             /\ Exited' => Running' = {}
             /\ options' = options
             /\ Interrupted' = Interrupted
  BY <1>3 DEF Lane, Reopen, Audit, Refuse, Spawn, AgentPasses, AgentFails,
              AgentPauses, FinishThrows, Finish
<1> QED
  BY <1>1, <1>2, <1>3 DEF WorkerSteps

(* Only a signal interrupts, and it does nothing else of a worker's own. *)
LEMMA SignalStep ==
  ASSUME Sigint \/ Kill
  PROVE  /\ ~Exited
         /\ options' = options
         /\ Running' = Running
         /\ Interrupted'
         /\ Exited' => Interrupted
  BY DEF Sigint, Kill

(* A step of the worker's keeps all that is said about its service. *)
LEMMA WorkerStep ==
  ASSUME ServiceInv, WorkerSteps, UNCHANGED <<supVars, stops>>,
         faults' \in 0..Faults, worker = "running" \/ \E c \in Changes : Reopen(c)
  PROVE  ServiceInv'
<1>1. Inv' /\ CapInv'
  BY LanesStep DEF WorkerSteps, Next, ServiceInv
<1>2. ServiceTypeOK'
  BY <1>1 DEF ServiceInv, ServiceTypeOK, Inv, supVars
<1>3. UNCHANGED <<sup, worker, stopping, stops>>
  BY DEF supVars
<1>4. ServiceMode'
  <2>1. CASE ~Once
    BY <2>1, <1>3, WorkerExitsQuietly DEF ServiceInv, ServiceMode
  <2>2. CASE Once
    BY <2>2, <1>3 DEF ServiceInv, ServiceMode
  <2> QED
    BY <2>1, <2>2
<1>5. NoProcessYet'
  <2>1. CASE worker = "running"
    BY <2>1, <1>3 DEF NoProcessYet
  <2>2. CASE \E c \in Changes : Reopen(c)
    BY <2>2, <1>3 DEF NoProcessYet, ServiceInv, Reopen
  <2> QED
    BY <2>1, <2>2
<1>6. OneWorker'
  BY DEF ServiceInv, OneWorker, supVars
<1>7. Supervised => ~Once
  BY DEF ServiceInv, ServiceMode
<1>8. InterruptedByStop'
  BY <1>3, <1>7, WorkerExitsQuietly DEF ServiceInv, InterruptedByStop
<1>9. StopIsGraceful'
  BY <1>3, <1>7, WorkerExitsQuietly DEF ServiceInv, ServiceMode, StopIsGraceful
<1> QED
  BY <1>1, <1>2, <1>4, <1>5, <1>6, <1>8, <1>9 DEF ServiceInv
-----------------------------------------------------------------------------
(* The service starts in ServiceInv. *)
LEMMA ServiceInitInv == ServiceInit => ServiceInv
<1> SUFFICES ASSUME ServiceInit PROVE ServiceInv
  OBVIOUS
<1>1. Inv /\ CapInv
  BY InitInv, CapInit DEF ServiceInit
<1>2. Running = {} /\ flags = {} /\ cycle = "idle"
  BY DEF ServiceInit, Init
<1>3. ServiceTypeOK
  <2>1. sup \in SupPhases /\ worker \in WorkerPhases /\ pending \in Waits
    BY DEF ServiceInit, SupPhases, WorkerPhases, Waits
  <2>2. stopping \in BOOLEAN
    BY Zenon DEF ServiceInit
  <2>3. faults \in 0..Faults /\ stops \in 0..Stops
    BY ServiceAssumption DEF ServiceInit
  <2> QED
    BY <1>1, <2>1, <2>2, <2>3 DEF ServiceTypeOK, Inv
<1>4. ServiceMode
  BY DEF ServiceInit, ServiceMode
<1>5. NoProcessYet /\ OneWorker /\ InterruptedByStop /\ StopIsGraceful
  BY <1>2
  DEF ServiceInit, NoProcessYet, OneWorker, InterruptedByStop, StopIsGraceful
<1> QED
  BY <1>1, <1>3, <1>4, <1>5 DEF ServiceInv

(* The supervisor's own steps, which leave every process alone. *)
LEMMA SupervisorStep ==
  ASSUME ServiceInv, SpawnWorker \/ Logged \/ TimerFires \/ SupervisorEnds
  PROVE  ServiceInv'
<1> USE DEF SpawnWorker, Logged, TimerFires, SupervisorEnds
<1>1. UNCHANGED vars
  OBVIOUS
<1>2. Inv' /\ CapInv'
  BY <1>1, LanesStep DEF ServiceInv
<1>3. ServiceTypeOK'
  BY <1>2
  DEF ServiceInv, ServiceTypeOK, Inv, budgetVars, SupPhases, WorkerPhases,
      Waits
<1>4. ServiceMode'
  BY <1>1 DEF ServiceInv, ServiceMode, vars
<1>5. NoProcessYet' /\ OneWorker'
  BY <1>1 DEF ServiceInv, NoProcessYet, OneWorker, vars
<1>6. InterruptedByStop' /\ StopIsGraceful'
  BY <1>1
  DEF ServiceInv, ServiceTypeOK, InterruptedByStop, StopIsGraceful, vars,
      budgetVars
<1> QED
  BY <1>2, <1>3, <1>4, <1>5, <1>6 DEF ServiceInv

(* A new process begins with nothing but the build its check reads. *)
LEMMA BootedStep == ServiceInv /\ Booted => ServiceInv'
<1> SUFFICES ASSUME ServiceInv, Booted PROVE ServiceInv'
  OBVIOUS
<1> USE DEF Booted, ServiceInv, budgetVars
<1>1. Inv' /\ CapInv'
  <2>1. TypeOK'
    BY DEF Inv, TypeOK, Errors
  <2>2. HoldsChange' /\ TaskIsDue' /\ StoppedPollsNoMore'
    BY DEF Inv, HoldsChange, TaskIsDue, StoppedPollsNoMore
  <2>3. SettledIsStopped' /\ ExitIsQuiet'
    BY DEF Inv, SettledIsStopped, ExitIsQuiet
  <2>4. CapInv'
    BY DEF CapInv, CapHolds, SlotIsKept, SlotFree, Slots
  <2> QED
    BY <2>1, <2>2, <2>3, <2>4 DEF Inv
<1>2. ServiceTypeOK'
  BY <1>1 DEF ServiceTypeOK, Inv, WorkerPhases
<1>3. ServiceMode' /\ NoProcessYet' /\ OneWorker'
  BY DEF ServiceMode, NoProcessYet, OneWorker
<1>4. InterruptedByStop' /\ StopIsGraceful'
  BY DEF InterruptedByStop, StopIsGraceful
<1> QED
  BY <1>1, <1>2, <1>3, <1>4

(* A worker that has settled, is gone, or dies has no lane to lose, or loses *)
(* it by no stop.                                                           *)
LEMMA EndStep ==
  ASSUME ServiceInv, WorkerEnds \/ WorkerExit \/ WorkerCrashes
  PROVE  ServiceInv'
<1> USE DEF ServiceInv, budgetVars
<1>1. Inv' /\ CapInv' /\ Running' = {}
  <2>1. CASE WorkerEnds
    <3>1. Running = {}
      BY <2>1 DEF WorkerEnds, Inv, SettledIsStopped
    <3> QED
      BY <2>1, <3>1, DiesStep DEF WorkerEnds, Dies
  <2>2. CASE WorkerExit
    <3>1. ForgetProcess /\ flags' = {} /\ held' = held
      BY <2>2 DEF WorkerExit
    <3> QED
      BY <3>1, ForgottenStep DEF Inv, TypeOK
  <2>3. CASE WorkerCrashes
    <3>1. ForgetProcess /\ flags' = {"exited"}
      BY <2>3 DEF WorkerCrashes, Dies
    <3>2. held' \subseteq Changes
      BY <2>3 DEF WorkerCrashes, Inv, TypeOK
    <3> QED
      BY <3>1, <3>2, ForgottenStep
  <2> QED
    BY <2>1, <2>2, <2>3
<1>2. ServiceTypeOK'
  <2>1. worker' \in WorkerPhases /\ stopping' \in BOOLEAN /\ sup' \in SupPhases
    BY DEF ServiceTypeOK, WorkerEnds, WorkerExit, WorkerCrashes, Dies,
           WorkerPhases, SupPhases
  <2>2. pending' \in Waits
    BY DEF ServiceTypeOK, WorkerEnds, WorkerExit, WorkerCrashes, Restart, Waits
  <2>3. faults' \in 0..Faults /\ stops' \in 0..Stops
    BY ServiceAssumption DEF ServiceTypeOK, WorkerEnds, WorkerExit, WorkerCrashes
  <2> QED
    BY <1>1, <2>1, <2>2, <2>3 DEF ServiceTypeOK, Inv
<1>3. options' = options
  BY DEF WorkerEnds, WorkerExit, WorkerCrashes, ProcessVars, ForgetProcess
<1>4. ServiceMode'
  BY <1>3
  DEF ServiceMode, WorkerEnds, WorkerExit, WorkerCrashes, Dies
<1>5. NoProcessYet' /\ OneWorker'
  BY <1>1
  DEF NoProcessYet, OneWorker, ServiceMode, WorkerEnds, WorkerExit,
      WorkerCrashes, Dies, ForgetProcess
<1>6. InterruptedByStop'
  BY DEF InterruptedByStop, WorkerEnds, WorkerExit, WorkerCrashes, Dies
<1>7. StopIsGraceful'
  BY <1>1 DEF StopIsGraceful
<1> QED
  BY <1>1, <1>2, <1>4, <1>5, <1>6, <1>7

(* The stop.  A first one finds the worker uninterrupted, so it kills no     *)
(* lane; a second one may.                                                  *)
LEMMA StopStep == ServiceInv /\ Stop => ServiceInv'
<1> SUFFICES ASSUME ServiceInv, Stop PROVE ServiceInv'
  OBVIOUS
<1> USE DEF ServiceInv
<1>1. /\ stopping' = TRUE /\ stops' = stops - 1 /\ stops > 0
      /\ sup = "up" /\ Supervised' /\ faults' = faults
  BY DEF Stop
<1>2. CASE worker # "none" /\ worker = "running" /\ (Sigint \/ Kill)
           /\ UNCHANGED <<worker, sup, pending>>
  <2>1. Inv' /\ CapInv'
    BY <1>2, LanesStep DEF Next
  <2>2. /\ ~Exited /\ options' = options /\ Running' = Running /\ Interrupted'
        /\ Exited' => Interrupted
    BY <1>2, SignalStep
  <2>3. ServiceTypeOK'
    BY <1>1, <1>2, <2>1, ServiceAssumption DEF ServiceTypeOK, Inv
  <2>4. ServiceMode' /\ NoProcessYet' /\ OneWorker'
    BY <1>1, <1>2, <2>2 DEF ServiceMode, NoProcessYet, OneWorker
  <2>5. InterruptedByStop'
    BY <1>1, ServiceAssumption DEF InterruptedByStop, ServiceTypeOK
  <2>6. StopIsGraceful'
    BY <1>1, <2>2, ServiceAssumption
    DEF StopIsGraceful, InterruptedByStop, ServiceTypeOK
  <2> QED
    BY <2>1, <2>3, <2>4, <2>5, <2>6
<1>3. CASE (worker = "booting" \/ IsSettled) /\ Dies(flags)
           /\ UNCHANGED <<ProcessVars, sup, pending>>
  <2>1. Running = {}
    BY <1>3 DEF Inv, SettledIsStopped, NoProcessYet
  <2>2. Inv' /\ CapInv' /\ Running' = {}
    BY <1>3, <2>1, DiesStep DEF Dies
  <2>3. ServiceTypeOK'
    BY <1>1, <1>3, <2>2, ServiceAssumption
    DEF ServiceTypeOK, Inv, Dies, WorkerPhases
  <2>4. ServiceMode' /\ NoProcessYet' /\ OneWorker'
    BY <1>1, <1>3
    DEF ServiceMode, NoProcessYet, OneWorker, Dies, ProcessVars, Inv,
        SettledIsStopped
  <2>5. InterruptedByStop' /\ StopIsGraceful'
    BY <1>1, <2>2, ServiceAssumption
    DEF InterruptedByStop, StopIsGraceful, ServiceTypeOK
  <2> QED
    BY <2>2, <2>3, <2>4, <2>5
<1>4. CASE UNCHANGED <<vars, worker>>
  <2>1. Inv' /\ CapInv'
    BY <1>4, LanesStep
  <2>2. ServiceTypeOK'
    BY <1>1, <2>1, <1>4, ServiceAssumption
    DEF ServiceTypeOK, Inv, Stop, SupPhases, Waits
  <2>3. ServiceMode' /\ NoProcessYet' /\ OneWorker'
    BY <1>1, <1>4 DEF ServiceMode, NoProcessYet, OneWorker, Stop, vars
  <2>4. InterruptedByStop'
    BY <1>1, ServiceAssumption DEF InterruptedByStop, ServiceTypeOK
  <2>5. StopIsGraceful'
    <3>1. Exited' = Exited /\ Running' = Running
      BY <1>4 DEF vars
    <3>2. ~Once
      BY <1>1 DEF ServiceMode
    <3>3. Exited /\ Running # {} => stopping
      BY <1>1, <3>2 DEF Inv, ExitIsQuiet, InterruptedByStop
    <3> QED
      BY <1>1, <3>1, <3>3, ServiceAssumption DEF StopIsGraceful, ServiceTypeOK
  <2> QED
    BY <2>1, <2>2, <2>3, <2>4, <2>5
<1> QED
  BY <1>2, <1>3, <1>4 DEF Stop, InterruptWorker

(* No step leaves ServiceInv. *)
LEMMA ServiceStep == ServiceInv /\ [ServiceNext]_allVars => ServiceInv'
<1> SUFFICES ASSUME ServiceInv, [ServiceNext]_allVars PROVE ServiceInv'
  OBVIOUS
<1>1. CASE Supervises
  BY <1>1, SupervisorStep, BootedStep, EndStep DEF Supervises
<1>2. CASE Stop \/ WorkerCrashes
  BY <1>2, StopStep, EndStep
<1>3. CASE worker = "running" /\ BuildSettles
  <2>1. faults' \in 0..Faults
    BY <1>3, ServiceAssumption DEF BuildSettles, ServiceInv, ServiceTypeOK
  <2> QED
    BY <1>3, <2>1, WorkerStep DEF BuildSettles, WorkerSteps
<1>4. CASE Runs \/ Clock \/ Lanes
  BY <1>4, WorkerStep
  DEF Runs, Clock, Lanes, InProcess, WorkerSteps, serviceVars, supVars,
      budgetVars, ServiceInv, ServiceTypeOK
<1>5. CASE \E c \in Changes : Reopen(c) /\ UNCHANGED serviceVars
  BY <1>5, WorkerStep
  DEF WorkerSteps, serviceVars, supVars, budgetVars, ServiceInv, ServiceTypeOK
<1>6. CASE ~Supervised /\ InProcess(Abort \/ Sigint \/ Kill)
  <2>1. Inv' /\ CapInv'
    BY <1>6, LanesStep DEF InProcess, Next, ServiceInv
  <2>2. UNCHANGED <<sup, worker, pending, stopping, faults, stops>>
    BY <1>6 DEF InProcess, serviceVars, supVars, budgetVars
  <2>3. ServiceTypeOK'
    BY <2>1, <2>2 DEF ServiceInv, ServiceTypeOK, Inv
  <2>4. /\ ServiceMode' /\ NoProcessYet' /\ OneWorker'
        /\ InterruptedByStop' /\ StopIsGraceful'
    BY <1>6, <2>2
    DEF InProcess, ServiceInv, ServiceMode, NoProcessYet, OneWorker,
        InterruptedByStop, StopIsGraceful
  <2> QED
    BY <2>1, <2>3, <2>4 DEF ServiceInv
<1>7. CASE UNCHANGED allVars
  <2>1. Inv' /\ CapInv'
    BY <1>7, LanesStep DEF allVars, ServiceInv
  <2>2. UNCHANGED <<sup, worker, pending, stopping, faults, stops>>
    BY <1>7 DEF allVars, serviceVars, supVars, budgetVars
  <2>3. ServiceTypeOK'
    BY <2>1, <2>2 DEF ServiceInv, ServiceTypeOK, Inv
  <2>4. /\ ServiceMode' /\ NoProcessYet' /\ OneWorker'
        /\ InterruptedByStop' /\ StopIsGraceful'
    BY <1>7, <2>2
    DEF allVars, vars, ServiceInv, ServiceMode, NoProcessYet, OneWorker,
        InterruptedByStop, StopIsGraceful
  <2> QED
    BY <2>1, <2>3, <2>4 DEF ServiceInv
<1> QED
  BY <1>1, <1>2, <1>3, <1>4, <1>5, <1>6, <1>7 DEF ServiceNext

-----------------------------------------------------------------------------
(* The invariant of the service and of the watchers nobody supervises. *)
THEOREM ServiceInvariance == ServiceSpec => []ServiceInv
  BY ServiceInitInv, ServiceStep, PTL DEF ServiceSpec

(* Supervisor and worker keep their types. *)
THEOREM ServiceTypeCorrect == ServiceSpec => []ServiceTypeOK
<1>1. ServiceInv => ServiceTypeOK
  BY DEF ServiceInv
<1> QED
  BY <1>1, ServiceInvariance, PTL

(* One `osq watch --stop` kills no task: a worker of a stopped service exits *)
(* over a running lane only after a second one.                             *)
THEOREM OneStopIsGraceful == ServiceSpec => []StopIsGraceful
<1>1. ServiceInv => StopIsGraceful
  BY DEF ServiceInv
<1> QED
  BY <1>1, ServiceInvariance, PTL

(* Whatever dies and is started again, every worker keeps the cap, leaves    *)
(* its lanes' changes alone, settles quietly and exits for a build quietly.  *)
THEOREM EveryWorkerIsSafe ==
  ServiceSpec =>
    [](CapHolds /\ OneHandPerChange /\ SettledIsQuiet /\ ExitIsQuiet)
<1>1. ServiceInv =>
        CapHolds /\ OneHandPerChange /\ SettledIsQuiet /\ ExitIsQuiet
  BY DEF ServiceInv, Inv, CapInv, HoldsChange, OneHandPerChange,
         SettledIsStopped, StoppedPollsNoMore, SettledIsQuiet
<1> QED
  BY <1>1, ServiceInvariance, PTL

-----------------------------------------------------------------------------
(* Nobody supervises a once run: what is done to it is what ChangeLanes     *)
(* does to a watcher.                                                       *)
LEMMA OnceIsAlone ==
  ASSUME ServiceInv, [ServiceNext]_allVars
  PROVE  options' = options /\ (Once => [Next]_vars)
<1> USE DEF ServiceInv, ServiceMode
<1>1. CASE Supervises
  BY <1>1
  DEF Supervises, SpawnWorker, Booted, WorkerEnds, WorkerExit, Logged,
      TimerFires, SupervisorEnds, ProcessVars, ForgetProcess, vars,
      OneWorker, NoProcessYet, ServiceTypeOK, Waits, WorkerPhases
<1>2. CASE Stop \/ WorkerCrashes
  BY <1>2
  DEF Stop, InterruptWorker, WorkerCrashes, ProcessVars, ForgetProcess, Sigint,
      Kill, vars
<1>3. CASE BuildSettles \/ Runs \/ Clock \/ Lanes
  BY <1>3
  DEF BuildSettles, Runs, Clock, Lanes, InProcess, Next, BuildMoves,
      PauseEnds, Cycle, BeginCycle, TopCheckThrows, TakeNoError, TakeError,
      Return, LeaveAlone, RetryHeld, Prepare, TakeSlot, SlotThrows, Launch,
      ArchiveThrows, Archive, EndVisits, Drain, Exit, Setup, Lane, Audit,
      Refuse, Spawn, AgentPasses, AgentFails, AgentPauses, FinishThrows, Finish
<1>4. CASE \E c \in Changes : Reopen(c)
  BY <1>4 DEF Next, Reopen
<1>5. CASE Abort \/ Sigint \/ Kill
  BY <1>5 DEF Next, Abort, Sigint, Kill
<1>6. CASE UNCHANGED allVars
  BY <1>6 DEF allVars, vars
<1> QED
  BY <1>1, <1>2, <1>3, <1>4, <1>5, <1>6 DEF ServiceNext, InProcess

(* Where a watcher may be a service's worker too, a once run still finishes  *)
(* with nothing left to start or to archive.                                *)
THEOREM OnceRunsFinish == ServiceSpec => []OnceFinishes
<1>1. ServiceInit => OnceInv
  BY OnceInit DEF ServiceInit
<1>2. ServiceInv /\ OnceInv /\ [ServiceNext]_allVars => OnceInv'
  BY OnceIsAlone, OnceStep DEF ServiceInv, OnceInv
<1>3. Inv /\ OnceInv => OnceFinishes
  BY DEF OnceInv, OnceFinishes
<1> QED
  BY <1>1, <1>2, <1>3, ServiceInvariance, PTL DEF ServiceSpec, ServiceInv
=============================================================================
