-------------------------- MODULE ChangeLanesProofs --------------------------
(***************************************************************************)
(* ChangeLanes' safety, for every number of changes and tasks, every       *)
(* maxConcurrency and every history of aborts, interrupts and builds.      *)
(***************************************************************************)
EXTENDS ChangeLanes, FiniteSetTheorems, TLAPS

(***************************************************************************)
(* The strengthening.  The cycle holds a change from slot to launch, and   *)
(* what it found out about that change stays true because only the change's *)
(* own lane could change it.                                               *)
(***************************************************************************)
HoldsChange ==
  cycle \in {"slot", "launch", "archive"} =>
    /\ at \in Changes
    /\ lane[at] = "none"
    /\ cycle \in {"slot", "launch"} => left[at] > 0

TaskIsDue ==
  \A c \in Changes : lane[c] \in {"audit", "starting", "agent"} => left[c] > 0

StoppedPollsNoMore == Stopped => stage # "polling"

SettledIsStopped == IsSettled => Stopped /\ cycle = "idle" /\ Running = {}

Inv == /\ TypeOK
       /\ HoldsChange
       /\ TaskIsDue
       /\ StoppedPollsNoMore
       /\ SettledIsStopped
       /\ ExitIsQuiet

-----------------------------------------------------------------------------
(* What every proof below unfolds: the tuples of UNCHANGED and the control *)
(* helpers of the actions.                                                 *)
USE DEF Running, At, InLane, InCycle, InWorld, GoOn, NextVisit, LaneStep,
        EndLane, EndCycle, Throw, MayBegin, StageStopped, Settling, Archives,
        Progressed, Ready, Complete, Once, Closed, Stopped, Interrupted,
        IsSettled, Exited, modeVars, lanesVars, worldVars, changeVars

(* The cycle's counter stays in its range. *)
LEMMA AtType ==
  /\ 1 \in 1..(NChanges + 1)
  /\ \A c \in Changes : c + 1 \in 1..(NChanges + 1)
  BY LanesAssumption DEF Changes

(* Inv holds initially. *)
LEMMA InitInv == Init => Inv
<1> SUFFICES ASSUME Init PROVE Inv
  OBVIOUS
<1>1. TypeOK
  <2>1. /\ left \in [Changes -> 0..NTasks]
        /\ pauses \in Nat /\ reopens \in Nat
    BY LanesAssumption DEF Init
  <2>2. lane \in [Changes -> LanePhases]
    BY DEF Init, LanePhases
  <2>3. paused \in BOOLEAN
    BY Zenon DEF Init
  <2> QED
    BY <2>1, <2>2, <2>3, AtType
    DEF Init, TypeOK, Stages, CyclePhases, Errors, Flags
<1>2. TaskIsDue
  BY LanesAssumption DEF Init, TaskIsDue
<1>3. HoldsChange /\ StoppedPollsNoMore /\ SettledIsStopped /\ ExitIsQuiet
  BY DEF Init, HoldsChange, StoppedPollsNoMore, SettledIsStopped, ExitIsQuiet
<1> QED
  BY <1>1, <1>2, <1>3 DEF Inv

(* Every variable keeps its type; a lane's task count stays a natural      *)
(* number because a lane runs only while a task is due.                    *)
LEMMA TypeStep == Inv /\ [Next]_vars => TypeOK'
<1> SUFFICES ASSUME Inv, [Next]_vars PROVE TypeOK'
  OBVIOUS
<1> USE AtType
    DEF Inv, TypeOK, HoldsChange, TaskIsDue, Stages, CyclePhases, LanePhases,
        Errors, Flags
<1>1. CASE BeginCycle
  BY <1>1 DEF BeginCycle
<1>2. CASE TopCheckThrows
  BY <1>2 DEF TopCheckThrows
<1>3. CASE TakeNoError
  BY <1>3 DEF TakeNoError
<1>4. CASE TakeError
  BY <1>4 DEF TakeError
<1>5. CASE Return
  BY <1>5 DEF Return
<1>6. CASE LeaveAlone
  BY <1>6 DEF LeaveAlone
<1>7. CASE RetryHeld
  BY <1>7 DEF RetryHeld
<1>8. CASE Prepare
  BY <1>8 DEF Prepare
<1>9. CASE TakeSlot
  BY <1>9 DEF TakeSlot
<1>10. CASE SlotThrows
  BY <1>10 DEF SlotThrows
<1>11. CASE Launch
  BY <1>11 DEF Launch
<1>12. CASE ArchiveThrows
  BY <1>12 DEF ArchiveThrows
<1>13. CASE Archive
  BY <1>13 DEF Archive
<1>14. CASE EndVisits
  BY <1>14 DEF EndVisits
<1>15. CASE Drain
  BY <1>15 DEF Drain
<1>16. CASE Exit
  BY <1>16 DEF Exit
<1>17. CASE Setup
  BY <1>17 DEF Setup
<1>18. CASE Abort
  BY <1>18 DEF Abort
<1>19. CASE Sigint
  BY <1>19 DEF Sigint
<1>20. CASE Kill
  BY <1>20 DEF Kill
<1>21. CASE BuildMoves
  BY <1>21 DEF BuildMoves
<1>22. CASE PauseEnds
  BY <1>22 DEF PauseEnds
<1>23. ASSUME NEW c \in Changes, Audit(c) PROVE TypeOK'
  <2>1. CASE held' = held \cup {c} /\ EndLane(c)
    <3>1. (held \subseteq Changes)'
      BY <2>1
    <3>2. (flags \subseteq Flags)'
      BY <2>1
    <3>3. (lane \in [Changes -> LanePhases] /\ spawned \subseteq Changes)'
      BY <2>1
    <3> QED
      BY <1>23, <3>1, <3>2, <3>3 DEF Audit
  <2>2. CASE Closed /\ EndLane(c) /\ UNCHANGED held
    BY <1>23, <2>2 DEF Audit
  <2>3. CASE LaneStep(c, "starting") /\ UNCHANGED <<spawned, held>>
    BY <1>23, <2>3 DEF Audit
  <2> QED
    BY <1>23, <2>1, <2>2, <2>3 DEF Audit
<1>24. ASSUME NEW c \in Changes, Refuse(c) PROVE TypeOK'
  BY <1>24 DEF Refuse
<1>25. ASSUME NEW c \in Changes, Spawn(c) PROVE TypeOK'
  BY <1>25 DEF Spawn
<1>26. ASSUME NEW c \in Changes, AgentPasses(c) PROVE TypeOK'
  BY <1>26, LanesAssumption DEF AgentPasses
<1>27. ASSUME NEW c \in Changes, AgentFails(c) PROVE TypeOK'
  BY <1>27 DEF AgentFails
<1>28. ASSUME NEW c \in Changes, AgentPauses(c) PROVE TypeOK'
  <2>1. (pauses \in Nat /\ paused \in BOOLEAN)'
    BY <1>28 DEF AgentPauses
  <2>2. (flags \subseteq Flags)'
    BY <1>28 DEF AgentPauses
  <2>3. (lane \in [Changes -> LanePhases] /\ spawned \subseteq Changes)'
    BY <1>28 DEF AgentPauses
  <2> QED
    BY <1>28, <2>1, <2>2, <2>3 DEF AgentPauses
<1>29. ASSUME NEW c \in Changes, FinishThrows(c) PROVE TypeOK'
  BY <1>29 DEF FinishThrows
<1>30. ASSUME NEW c \in Changes, Finish(c) PROVE TypeOK'
  BY <1>30 DEF Finish
<1>31. ASSUME NEW c \in Changes, Reopen(c) PROVE TypeOK'
  BY <1>31 DEF Reopen
<1>32. CASE UNCHANGED vars
  BY <1>32 DEF vars
<1> QED
  BY <1>1, <1>2, <1>3, <1>4, <1>5, <1>6, <1>7, <1>8, <1>9, <1>10, <1>11,
     <1>12, <1>13, <1>14, <1>15, <1>16, <1>17, <1>18, <1>19, <1>20, <1>21,
     <1>22, <1>23, <1>24, <1>25, <1>26, <1>27, <1>28, <1>29, <1>30, <1>31,
     <1>32
  DEF Next, Cycle, Lane

(* No lane starts on the change the cycle holds, and none takes a task of   *)
(* it.                                                                      *)
LEMMA HoldsStep == Inv /\ [Next]_vars => HoldsChange'
<1> SUFFICES ASSUME Inv, [Next]_vars PROVE HoldsChange'
  OBVIOUS
<1> USE DEF Inv, HoldsChange, TypeOK
<1>1. CASE Cycle
  BY <1>1, SMTT(30) DEF Cycle, BeginCycle, TopCheckThrows, TakeNoError,
     TakeError, Return, LeaveAlone, RetryHeld, Prepare, TakeSlot, SlotThrows,
     Launch, ArchiveThrows, Archive, EndVisits, Drain, Exit
<1>2. ASSUME NEW c \in Changes, Lane(c) PROVE HoldsChange'
  BY <1>2, SMTT(30) DEF Lane, Audit, Refuse, Spawn, AgentPasses, AgentFails,
     AgentPauses, FinishThrows, Finish
<1>3. ASSUME NEW c \in Changes, Reopen(c) PROVE HoldsChange'
  BY <1>3 DEF Reopen
<1>4. CASE Setup \/ Abort \/ Sigint \/ Kill \/ BuildMoves \/ PauseEnds
  BY <1>4, SMTT(30) DEF Setup, Abort, Sigint, Kill, BuildMoves, PauseEnds
<1>5. CASE UNCHANGED vars
  BY <1>5 DEF vars
<1> QED
  BY <1>1, <1>2, <1>3, <1>4, <1>5 DEF Next

(* A lane starts for a change that has a task due, and only it does the     *)
(* task.                                                                    *)
LEMMA TaskStep == Inv /\ [Next]_vars => TaskIsDue'
<1> SUFFICES ASSUME Inv, [Next]_vars PROVE TaskIsDue'
  OBVIOUS
<1> USE DEF Inv, TaskIsDue, HoldsChange, TypeOK
<1>1. CASE Cycle
  BY <1>1, SMTT(30) DEF Cycle, BeginCycle, TopCheckThrows, TakeNoError,
     TakeError, Return, LeaveAlone, RetryHeld, Prepare, TakeSlot, SlotThrows,
     Launch, ArchiveThrows, Archive, EndVisits, Drain, Exit
<1>2. ASSUME NEW c \in Changes, Lane(c) PROVE TaskIsDue'
  BY <1>2, SMTT(30) DEF Lane, Audit, Refuse, Spawn, AgentPasses, AgentFails,
     AgentPauses, FinishThrows, Finish
<1>3. ASSUME NEW c \in Changes, Reopen(c) PROVE TaskIsDue'
  BY <1>3 DEF Reopen
<1>4. CASE Setup \/ Abort \/ Sigint \/ Kill \/ BuildMoves \/ PauseEnds
  BY <1>4, SMTT(30) DEF Setup, Abort, Sigint, Kill, BuildMoves, PauseEnds
<1>5. CASE UNCHANGED vars
  BY <1>5 DEF vars
<1> QED
  BY <1>1, <1>2, <1>3, <1>4, <1>5 DEF Next

(* stop() ends the polling, and no setup that was under way starts it       *)
(* again.                                                                   *)
LEMMA PollStep == Inv /\ [Next]_vars => StoppedPollsNoMore'
<1> SUFFICES ASSUME Inv, [Next]_vars PROVE StoppedPollsNoMore'
  OBVIOUS
<1> USE DEF Inv, StoppedPollsNoMore, TypeOK
<1>1. CASE Cycle
  BY <1>1, SMTT(30) DEF Cycle, BeginCycle, TopCheckThrows, TakeNoError,
     TakeError, Return, LeaveAlone, RetryHeld, Prepare, TakeSlot, SlotThrows,
     Launch, ArchiveThrows, Archive, EndVisits, Drain, Exit
<1>2. ASSUME NEW c \in Changes, Lane(c) PROVE StoppedPollsNoMore'
  BY <1>2, SMTT(30) DEF Lane, Audit, Refuse, Spawn, AgentPasses, AgentFails,
     AgentPauses, FinishThrows, Finish
<1>3. ASSUME NEW c \in Changes, Reopen(c) PROVE StoppedPollsNoMore'
  BY <1>3 DEF Reopen
<1>4. CASE Setup \/ Abort \/ Sigint \/ Kill \/ BuildMoves \/ PauseEnds
  BY <1>4, SMTT(30) DEF Setup, Abort, Sigint, Kill, BuildMoves, PauseEnds
<1>5. CASE UNCHANGED vars
  BY <1>5 DEF vars
<1> QED
  BY <1>1, <1>2, <1>3, <1>4, <1>5 DEF Next

(* Once settled, no cycle begins, so no lane does. *)
LEMMA SettledStep == Inv /\ [Next]_vars => SettledIsStopped'
<1> SUFFICES ASSUME Inv, [Next]_vars PROVE SettledIsStopped'
  OBVIOUS
<1> USE DEF Inv, SettledIsStopped, HoldsChange, TypeOK
<1>1. CASE Cycle
  BY <1>1, SMTT(30) DEF Cycle, BeginCycle, TopCheckThrows, TakeNoError,
     TakeError, Return, LeaveAlone, RetryHeld, Prepare, TakeSlot, SlotThrows,
     Launch, ArchiveThrows, Archive, EndVisits, Drain, Exit
<1>2. ASSUME NEW c \in Changes, Lane(c) PROVE SettledIsStopped'
  BY <1>2, SMTT(30) DEF Lane, Audit, Refuse, Spawn, AgentPasses, AgentFails,
     AgentPauses, FinishThrows, Finish
<1>3. ASSUME NEW c \in Changes, Reopen(c) PROVE SettledIsStopped'
  BY <1>3 DEF Reopen
<1>4. CASE Setup \/ Abort \/ Sigint \/ Kill \/ BuildMoves \/ PauseEnds
  BY <1>4, SMTT(30) DEF Setup, Abort, Sigint, Kill, BuildMoves, PauseEnds
<1>5. CASE UNCHANGED vars
  BY <1>5 DEF vars
<1> QED
  BY <1>1, <1>2, <1>3, <1>4, <1>5 DEF Next

(* A process that is gone does nothing more. *)
LEMMA ExitStep == Inv /\ [Next]_vars => ExitIsQuiet'
<1> SUFFICES ASSUME Inv, [Next]_vars PROVE ExitIsQuiet'
  OBVIOUS
<1> USE DEF Inv, ExitIsQuiet, TypeOK
<1>1. CASE Cycle
  BY <1>1, SMTT(30) DEF Cycle, BeginCycle, TopCheckThrows, TakeNoError,
     TakeError, Return, LeaveAlone, RetryHeld, Prepare, TakeSlot, SlotThrows,
     Launch, ArchiveThrows, Archive, EndVisits, Drain, Exit
<1>2. ASSUME NEW c \in Changes, Lane(c) PROVE ExitIsQuiet'
  BY <1>2, SMTT(30) DEF Lane, Audit, Refuse, Spawn, AgentPasses, AgentFails,
     AgentPauses, FinishThrows, Finish
<1>3. ASSUME NEW c \in Changes, Reopen(c) PROVE ExitIsQuiet'
  BY <1>3 DEF Reopen
<1>4. CASE Setup \/ Abort \/ Sigint \/ Kill \/ BuildMoves \/ PauseEnds
  BY <1>4, SMTT(30) DEF Setup, Abort, Sigint, Kill, BuildMoves, PauseEnds
<1>5. CASE UNCHANGED vars
  BY <1>5 DEF vars
<1> QED
  BY <1>1, <1>2, <1>3, <1>4, <1>5 DEF Next

(* Inv is an invariant. *)
THEOREM Invariance == Spec => []Inv
<1>1. Inv /\ [Next]_vars => Inv'
  BY TypeStep, HoldsStep, TaskStep, PollStep, SettledStep, ExitStep DEF Inv
<1> QED
  BY InitInv, <1>1, PTL DEF Spec

(* Every variable of the watcher keeps its type. *)
THEOREM TypeCorrect == Spec => []TypeOK
<1>1. Inv => TypeOK
  BY DEF Inv
<1> QED
  BY <1>1, Invariance, PTL

(* The cycle never waits to start, starts or archives a change whose lane  *)
(* runs: watcher-and-harness/spec.md, "every cycle SHALL leave that change *)
(* alone".                                                                 *)
THEOREM CycleLeavesLanesAlone == Spec => []OneHandPerChange
<1>1. Inv => OneHandPerChange
  BY DEF Inv, HoldsChange, OneHandPerChange
<1> QED
  BY <1>1, Invariance, PTL

(* startWatcher resolves only when no cycle, lane or poll is left, however *)
(* an abort, an interrupt, the end of a lane and the end of a cycle        *)
(* interleave.                                                             *)
THEOREM SettlesQuietly == Spec => []SettledIsQuiet
<1>1. Inv => SettledIsQuiet
  BY DEF Inv, SettledIsStopped, StoppedPollsNoMore, SettledIsQuiet
<1> QED
  BY <1>1, Invariance, PTL

(* A new build never takes a continuous watcher down under a lane. *)
THEOREM ExitsQuietly == Spec => []ExitIsQuiet
<1>1. Inv => ExitIsQuiet
  BY DEF Inv
<1> QED
  BY <1>1, Invariance, PTL

-----------------------------------------------------------------------------
(* The cap.  waitForSlot counted the lanes before two more awaits; what    *)
(* keeps the count right is that only the cycle starts lanes.              *)

SlotIsKept == cycle = "launch" => SlotFree

CapInv == CapHolds /\ SlotIsKept

(* The lanes are finitely many, so any part of them is as many or fewer. *)
LEMMA FewerLanes ==
  ASSUME NEW S, NEW T, T \subseteq Changes, S \subseteq T
  PROVE  /\ Cardinality(S) \in Nat /\ Cardinality(T) \in Nat
         /\ Cardinality(S) <= Cardinality(T)
<1>1. IsFiniteSet(Changes)
  BY FS_Interval, LanesAssumption DEF Changes
<1>2. IsFiniteSet(T)
  BY <1>1, FS_Subset
<1>3. IsFiniteSet(S) /\ Cardinality(S) <= Cardinality(T)
  BY <1>2, FS_Subset
<1> QED
  BY <1>2, <1>3, FS_CardinalityType

(* Only Launch adds a lane. *)
LEMMA OnlyLaunchStarts ==
  Inv /\ [Next]_vars /\ ~Launch => Running' \subseteq Running
<1> SUFFICES ASSUME Inv, [Next]_vars, ~Launch PROVE Running' \subseteq Running
  OBVIOUS
<1> USE DEF Inv, TypeOK
<1>1. CASE Cycle
  BY <1>1, SMTT(30) DEF Cycle, BeginCycle, TopCheckThrows, TakeNoError,
     TakeError, Return, LeaveAlone, RetryHeld, Prepare, TakeSlot, SlotThrows,
     ArchiveThrows, Archive, EndVisits, Drain, Exit
<1>2. ASSUME NEW c \in Changes, Lane(c) PROVE Running' \subseteq Running
  BY <1>2, SMTT(30) DEF Lane, Audit, Refuse, Spawn, AgentPasses, AgentFails,
     AgentPauses, FinishThrows, Finish
<1>3. ASSUME NEW c \in Changes, Reopen(c) PROVE Running' \subseteq Running
  BY <1>3 DEF Reopen
<1>4. CASE Setup \/ Abort \/ Sigint \/ Kill \/ BuildMoves \/ PauseEnds
  BY <1>4, SMTT(30) DEF Setup, Abort, Sigint, Kill, BuildMoves, PauseEnds
<1>5. CASE UNCHANGED vars
  BY <1>5 DEF vars
<1> QED
  BY <1>1, <1>2, <1>3, <1>4, <1>5 DEF Next

(* Nothing changes the cap, and only TakeSlot leads to a launch. *)
LEMMA OnlyTakeSlotLeads ==
  Inv /\ [Next]_vars /\ cycle' = "launch" /\ cycle # "launch" => TakeSlot
<1> SUFFICES ASSUME Inv, [Next]_vars, cycle' = "launch", cycle # "launch"
             PROVE  TakeSlot
  OBVIOUS
<1>1. CASE Cycle
  BY <1>1, SMTT(30) DEF Cycle, BeginCycle, TopCheckThrows, TakeNoError,
     TakeError, Return, LeaveAlone, RetryHeld, Prepare, SlotThrows, Launch,
     ArchiveThrows, Archive, EndVisits, Drain, Exit
<1>2. ASSUME NEW c \in Changes, Lane(c) PROVE FALSE
  BY <1>2, SMTT(30) DEF Lane, Audit, Refuse, Spawn, AgentPasses, AgentFails,
     AgentPauses, FinishThrows, Finish
<1>3. ASSUME NEW c \in Changes, Reopen(c) PROVE FALSE
  BY <1>3 DEF Reopen
<1>4. CASE Setup \/ Abort \/ Sigint \/ Kill \/ BuildMoves \/ PauseEnds
  BY <1>4, SMTT(30) DEF Setup, Abort, Sigint, Kill, BuildMoves, PauseEnds
<1>5. CASE UNCHANGED vars
  BY <1>5 DEF vars
<1> QED
  BY <1>1, <1>2, <1>3, <1>4, <1>5 DEF Next

(* maxConcurrency is read once. *)
LEMMA CapIsFixed == [Next]_vars => cap' = cap
<1> SUFFICES ASSUME [Next]_vars PROVE cap' = cap
  OBVIOUS
<1>1. CASE Cycle
  BY <1>1, SMTT(30) DEF Cycle, BeginCycle, TopCheckThrows, TakeNoError,
     TakeError, Return, LeaveAlone, RetryHeld, Prepare, TakeSlot, SlotThrows,
     Launch, ArchiveThrows, Archive, EndVisits, Drain, Exit
<1>2. ASSUME NEW c \in Changes, Lane(c) PROVE cap' = cap
  BY <1>2, SMTT(30) DEF Lane, Audit, Refuse, Spawn, AgentPasses, AgentFails,
     AgentPauses, FinishThrows, Finish
<1>3. ASSUME NEW c \in Changes, Reopen(c) PROVE cap' = cap
  BY <1>3 DEF Reopen
<1>4. CASE Setup \/ Abort \/ Sigint \/ Kill \/ BuildMoves \/ PauseEnds
  BY <1>4, SMTT(30) DEF Setup, Abort, Sigint, Kill, BuildMoves, PauseEnds
<1>5. CASE UNCHANGED vars
  BY <1>5 DEF vars
<1> QED
  BY <1>1, <1>2, <1>3, <1>4, <1>5 DEF Next

(* At first no lane runs and none is about to. *)
LEMMA CapInit == Init => CapInv
<1> SUFFICES ASSUME Init PROVE CapInv
  OBVIOUS
<1>1. Running = {}
  BY DEF Init
<1>2. cap \in Int
  BY LanesAssumption DEF Init
<1>3. Cardinality({}) = 0
  BY FS_EmptySet
<1>4. CapHolds
  <2> HIDE DEF Running
  <2> QED
    BY <1>1, <1>2, <1>3 DEF CapHolds, Slots
<1> QED
  BY <1>4 DEF CapInv, SlotIsKept, Init

(* No step leaves CapInv. *)
LEMMA CapStep == Inv /\ CapInv /\ [Next]_vars => CapInv'
<1> SUFFICES ASSUME Inv, CapInv, [Next]_vars PROVE CapInv'
  OBVIOUS
<1>1. Running \subseteq Changes /\ Running' \subseteq Changes
  OBVIOUS
<1>2. cap \in Int /\ cap' = cap
  BY CapIsFixed, LanesAssumption DEF Inv, TypeOK
<1>3. CASE Launch
  <2>1. Running' \subseteq Running \cup {at} /\ at \in Changes
    BY <1>3 DEF Launch, Inv, TypeOK, HoldsChange
  <2>2. SlotFree
    BY <1>3 DEF Launch, CapInv, SlotIsKept
  <2>3. IsFiniteSet(Running)
    <3>1. IsFiniteSet(Changes)
      BY FS_Interval, LanesAssumption DEF Changes
    <3> QED
      BY <3>1, <1>1, FS_Subset
  <2>4. Cardinality(Running \cup {at}) <= Cardinality(Running) + 1
    <3> HIDE DEF Running
    <3> QED
      BY <2>3, FS_AddElement, FS_CardinalityType
  <2>5. Cardinality(Running') <= Cardinality(Running \cup {at})
    BY <1>1, <2>1, FewerLanes
  <2>6. /\ Cardinality(Running) \in Nat /\ Cardinality(Running') \in Nat
        /\ Cardinality(Running \cup {at}) \in Nat
    BY <1>1, <2>1, FewerLanes
  <2>7. cycle' # "launch"
    BY <1>3 DEF Launch
  <2> QED
    <3> HIDE DEF Running
    <3> QED
      BY <1>2, <2>2, <2>4, <2>5, <2>6, <2>7
      DEF CapInv, CapHolds, SlotIsKept, SlotFree, Slots
<1>4. CASE ~Launch
  <2>1. /\ Cardinality(Running') <= Cardinality(Running)
        /\ Cardinality(Running) \in Nat /\ Cardinality(Running') \in Nat
    BY <1>1, <1>4, OnlyLaunchStarts, FewerLanes
  <2>2. cycle' = "launch" => SlotFree
    BY OnlyTakeSlotLeads DEF CapInv, SlotIsKept, TakeSlot
  <2> HIDE DEF Running
  <2> QED
    BY <1>2, <2>1, <2>2 DEF CapInv, CapHolds, SlotIsKept, SlotFree, Slots
<1> QED
  BY <1>3, <1>4

(* At most maxConcurrency lanes run, for every number of changes: a lane   *)
(* started in one cycle still counts in the next.                          *)
THEOREM CapIsKept == Spec => []CapHolds
<1>1. CapInv => CapHolds
  BY DEF CapInv
<1> QED
  BY <1>1, CapInit, CapStep, Invariance, PTL DEF Spec

-----------------------------------------------------------------------------
(* The end of a once run.  Only its own return and a build check end one;  *)
(* a lane that ends holds its change or counts it in tasksRun, and only a  *)
(* new cycle, which visits every change again, forgets that count.         *)

\* no build error, no usage limit, no human
Calm == build = "none" /\ pauses = Pauses /\ reopens = Reopens

\* the changes the cycle has still to visit
Ahead == IF cycle \in {"idle", "kept"} THEN Changes
         ELSE {c \in Changes :
                 cycle \in {"visit", "slot", "launch", "archive"} /\ c >= at}

NoneIsForgotten ==
  progress = "none" => Changes \subseteq held \cup archived \cup Running \cup Ahead

RunsAlone == flags \subseteq {"exited"} /\ cycle # "closing"

BudgetsFit == pauses <= Pauses /\ reopens <= Reopens

OnceInv ==
  Once => /\ RunsAlone
          /\ BudgetsFit
          /\ Calm => kept = "none" /\ ~paused
          /\ Calm /\ ~Exited => NoneIsForgotten
          /\ cycle = "rethrow" => Running = {}
          /\ OnceFinishes

(* A once run starts calm and with every change ahead of it. *)
LEMMA OnceInit == Init => OnceInv
  BY LanesAssumption
  DEF Init, OnceInv, RunsAlone, BudgetsFit, Calm, NoneIsForgotten, Ahead,
      OnceFinishes

(* Once a run is not calm it never is again. *)
LEMMA CalmBefore ==
  ASSUME Inv, OnceInv, Once, [Next]_vars
  PROVE  /\ Once'
         /\ BudgetsFit'
         /\ Calm' => Calm
<1> USE DEF OnceInv, BudgetsFit, Calm, Inv, TypeOK
<1> USE LanesAssumption
<1>1. CASE Cycle
  BY <1>1 DEF Cycle, BeginCycle, TopCheckThrows, TakeNoError, TakeError, Return,
     LeaveAlone, RetryHeld, Prepare, TakeSlot, SlotThrows, Launch, ArchiveThrows,
     Archive, EndVisits, Drain, Exit
<1>2. CASE \E c \in Changes : Lane(c) \/ Reopen(c)
  BY <1>2 DEF Lane, Audit, Refuse, Spawn, AgentPasses, AgentFails, AgentPauses,
     FinishThrows, Finish, Reopen
<1>3. CASE Setup \/ Abort \/ Sigint \/ Kill \/ BuildMoves \/ PauseEnds
  BY <1>3 DEF Setup, Abort, Sigint, Kill, BuildMoves, PauseEnds
<1>4. CASE UNCHANGED vars
  BY <1>4 DEF vars
<1> QED
  BY <1>1, <1>2, <1>3, <1>4 DEF Next

(* A once run is ended by nobody but itself, and begins its second cycle   *)
(* without having left the first.                                          *)
LEMMA OnceRunsAlone ==
  ASSUME Inv, OnceInv, Once, [Next]_vars
  PROVE  /\ RunsAlone'
         /\ Calm' => kept' = "none" /\ ~paused'
<1> USE DEF OnceInv, RunsAlone, BudgetsFit, Inv, TypeOK, Calm
<1> USE LanesAssumption
<1>1. CASE Cycle
  BY <1>1 DEF Cycle, BeginCycle, TopCheckThrows, TakeNoError, TakeError, Return,
     LeaveAlone, RetryHeld, Prepare, TakeSlot, SlotThrows, Launch, ArchiveThrows,
     Archive, EndVisits, Drain, Exit
<1>2. CASE \E c \in Changes : Lane(c) \/ Reopen(c)
  BY <1>2 DEF Lane, Audit, Refuse, Spawn, AgentPasses, AgentFails, AgentPauses,
     FinishThrows, Finish, Reopen
<1>3. CASE Setup \/ Abort \/ Sigint \/ Kill \/ BuildMoves \/ PauseEnds
  BY <1>3 DEF Setup, Abort, Sigint, Kill, BuildMoves, PauseEnds
<1>4. CASE UNCHANGED vars
  BY <1>4 DEF vars
<1> QED
  BY <1>1, <1>2, <1>3, <1>4 DEF Next

(* What the steps of a cycle leave unvisited. *)
LEMMA CycleForgetsNone ==
  ASSUME Inv, OnceInv, Once, Cycle
  PROVE  /\ Calm' /\ ~Exited' => NoneIsForgotten'
         /\ cycle' = "rethrow" => Running' = {}
         /\ OnceFinishes'
<1> USE DEF OnceInv, RunsAlone, BudgetsFit, Inv, TypeOK, Calm, NoneIsForgotten,
            Ahead, OnceFinishes, HoldsChange, Changes
<1> USE LanesAssumption
<1>1. CASE BeginCycle \/ TopCheckThrows
  BY <1>1 DEF BeginCycle, TopCheckThrows
<1>2. CASE TakeNoError
  BY <1>2 DEF TakeNoError
<1>3. CASE TakeError
  BY <1>3 DEF TakeError
<1>4. CASE Return
  BY <1>4 DEF Return
<1>5. CASE LeaveAlone
  BY <1>5 DEF LeaveAlone
<1>6. CASE RetryHeld
  BY <1>6 DEF RetryHeld
<1>7. CASE Prepare
  BY <1>7 DEF Prepare
<1>8. CASE TakeSlot
  BY <1>8 DEF TakeSlot
<1>9. CASE SlotThrows \/ ArchiveThrows
  BY <1>9 DEF SlotThrows, ArchiveThrows
<1>10. CASE Launch
  BY <1>10 DEF Launch
<1>11. CASE Archive
  BY <1>11 DEF Archive
<1>12. CASE EndVisits
  <2>1. Ahead' = Ahead /\ UNCHANGED <<held, archived, lane, progress>>
    BY <1>12 DEF EndVisits
  <2> QED
    BY <1>12, <2>1 DEF EndVisits
<1>13. CASE Drain \/ Exit
  BY <1>13 DEF Drain, Exit
<1> QED
  BY <1>1, <1>2, <1>3, <1>4, <1>5, <1>6, <1>7, <1>8, <1>9, <1>10, <1>11, <1>12,
     <1>13   DEF Cycle

(* A lane that ends holds its change, archives it, or counts it. *)
LEMMA LanesForgetNone ==
  ASSUME Inv, OnceInv, Once, NEW c \in Changes, Lane(c)
  PROVE  /\ Calm' /\ ~Exited' => NoneIsForgotten'
         /\ cycle' = "rethrow" => Running' = {}
         /\ OnceFinishes'
<1> USE DEF OnceInv, RunsAlone, Inv, TypeOK, Calm, NoneIsForgotten, Ahead,
            OnceFinishes, BudgetsFit
<1> USE LanesAssumption
<1>1. CASE Audit(c)
  BY <1>1 DEF Audit
<1>2. CASE Refuse(c) \/ AgentFails(c)
  BY <1>2 DEF Refuse, AgentFails
<1>3. CASE Spawn(c) \/ AgentPasses(c)
  BY <1>3 DEF Spawn, AgentPasses
<1>4. CASE AgentPauses(c) \/ FinishThrows(c)
  BY <1>4 DEF AgentPauses, FinishThrows
<1>5. CASE Finish(c)
  BY <1>5 DEF Finish
<1> QED
  BY <1>1, <1>2, <1>3, <1>4, <1>5 DEF Lane

(* OnceInv is kept. *)
LEMMA OnceStep == Inv /\ OnceInv /\ [Next]_vars => OnceInv'
<1> SUFFICES ASSUME Inv, OnceInv, [Next]_vars, Once' PROVE OnceInv'
  BY DEF OnceInv
<1>1. options' = options
  BY DEF Next, Cycle, BeginCycle, TopCheckThrows, TakeNoError, TakeError, Return,
     LeaveAlone, RetryHeld, Prepare, TakeSlot, SlotThrows, Launch, ArchiveThrows,
     Archive, EndVisits, Drain, Exit, Lane, Audit, Refuse, Spawn, AgentPasses,
     AgentFails, AgentPauses, FinishThrows, Finish, Reopen, Setup, Abort, Sigint,
     Kill, BuildMoves, PauseEnds, vars
<1>2. Once
  BY <1>1
<1> DEFINE Fits == /\ Calm' /\ ~Exited' => NoneIsForgotten'
                   /\ cycle' = "rethrow" => Running' = {}
                   /\ OnceFinishes'
<1>3. ASSUME Cycle PROVE Fits
  BY <1>2, <1>3, CycleForgetsNone
<1>4. ASSUME NEW c \in Changes, Lane(c) PROVE Fits
  BY <1>2, <1>4, LanesForgetNone
<1>5. ASSUME \E c \in Changes : Reopen(c) PROVE Fits
  BY <1>2, <1>5, LanesAssumption
  DEF OnceInv, BudgetsFit, Calm, Reopen, OnceFinishes, Inv, TypeOK
<1>6. ASSUME Setup \/ Abort \/ Sigint \/ Kill \/ BuildMoves \/ PauseEnds PROVE Fits
  BY <1>2, <1>6
  DEF OnceInv, RunsAlone, Calm, NoneIsForgotten, Ahead, OnceFinishes,
      Setup, Abort, Sigint, Kill, BuildMoves, PauseEnds
<1>7. ASSUME UNCHANGED vars PROVE Fits
  BY <1>2, <1>7 DEF OnceInv, Calm, NoneIsForgotten, Ahead, OnceFinishes, vars
<1>8. Fits
  <2> HIDE DEF Fits
  <2> QED
    BY <1>3, <1>4, <1>5, <1>6, <1>7 DEF Next
<1> QED
  BY <1>2, <1>8, CalmBefore, OnceRunsAlone DEF OnceInv

(* A once run that met no build error, no usage limit and no human returns *)
(* with nothing left to start or to archive, whatever order its lanes and  *)
(* cycles end in.                                                          *)
THEOREM OnceFinishesAll == Spec => []OnceFinishes
<1>1. Inv /\ OnceInv => OnceFinishes
  BY DEF OnceInv, OnceFinishes
<1> QED
  BY <1>1, OnceInit, OnceStep, Invariance, PTL DEF Spec
=============================================================================
