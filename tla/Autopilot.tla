----------------------------- MODULE Autopilot -----------------------------
(***************************************************************************)
(* The watcher's autopilot over one item of the queue: after each cycle it *)
(* reads the files, derives one next step, and plans, approves or lands    *)
(* the item's change, or writes the one stop record.  Its planner is a     *)
(* detached worker that outlives the watcher; what the change does once it *)
(* is approved is Landing's.                                               *)
(*                                                                         *)
(* Abstractions:                                                           *)
(*  - the queue has one open item; rejected items, pauses and changes of   *)
(*    others that make it wait are left out;                               *)
(*  - a pass reads its view and takes its step at once, and the files it   *)
(*    writes before and after the command it calls are steps of their own; *)
(*  - a record of a planner is told apart by its outcome and by whether    *)
(*    its hash is the folder's;                                            *)
(*  - a command that throws spends quota, a human command here does too.   *)
(***************************************************************************)
EXTENDS Landing

CONSTANT Quota    \* how often the autopilot's surroundings act, for each
                  \* member of Budgets

QuotaKinds == {"queue", "throw", "worker", "human"}

ASSUME QuotaAssumption == Quota \in [Budgets -> [QuotaKinds -> Nat]]
ASSUME PilotAssumption == "autopilot" \in Landers \ Publishers

VARIABLES
  queued,    \* the item against the queue's approval
  mark,      \* the change folder: "none", "bare", or with .run/autopilot.md,
             \* "created" before and "started" after planner_started_at
  run,       \* .run/plan-run.md
  worker,    \* the planner process: "none", "starting", "planning"
  approved,  \* .run/approved
  stop,      \* the reason of the autopilot's stop record
  pilot,     \* where the pass is
  quota

pilotVars == <<queued, mark, run, worker, approved, stop, pilot, quota>>
vars == <<lVars, pilotVars>>

ItemStops   == {"not_approved", "changed_since_approval", "plan_refused"}
ChangeStops == {"planner_not_ready", "approve_refused", "halted",
                "land_stopped"}
Records     == {"none", "running", "ready", "red", "unhashed", "stale"}

ATypeOK ==
  /\ LTypeOK
  /\ queued \in {"unapproved", "approved", "changed"}
  /\ mark \in {"none", "bare", "created", "started"}
  /\ run \in Records
  /\ worker \in {"none", "starting", "planning"}
  /\ approved \in BOOLEAN
  /\ stop \in {"none"} \cup ItemStops \cup ChangeStops
  /\ pilot \in {"idle", "naming", "asking", "spawned", "landing"}
  /\ quota \in [QuotaKinds -> Nat]

AInit ==
  /\ LInit
  /\ queued = "unapproved"
  /\ mark = "none" /\ run = "none" /\ worker = "none"
  /\ approved = FALSE
  /\ stop = "none" /\ pilot = "idle"
  /\ quota = Quota[budget]

-----------------------------------------------------------------------------
(* What a pass reads: readAutopilotView, autopilotStep *)

Use(kind) == /\ quota[kind] > 0
             /\ quota' = [quota EXCEPT ![kind] = @ - 1]

\* currentPlanRun
PlanRun ==
  CASE run = "running" -> IF worker = "none" THEN "failed" ELSE "running"
    [] run \in {"ready", "red"} -> run
    [] OTHER -> "null"

\* defect: a planner that did not get the plan ready is waited for
UnapprovedStepQuiet ==
  CASE mark = "bare" -> "wait"
    [] mark = "created" -> "plan"
    [] PlanRun = "ready" -> "approve"
    [] OTHER -> "wait"

UnapprovedStep ==
  CASE mark = "bare" -> "wait"
    [] mark = "created" -> "plan"
    [] PlanRun = "ready" -> "approve"
    [] PlanRun \in {"red", "failed"} -> "planner_not_ready"
    [] OTHER -> "wait"

\* readNextStep of an approved change
Halted ==
  IF folder = "archived" THEN halt # "none"
  ELSE Regressed \/ DeadTasks # {}

Step ==
  CASE Landed -> "done"
    [] ~Landed /\ mark = "none" /\ queued = "unapproved" -> "not_approved"
    [] ~Landed /\ mark = "none" /\ queued = "changed" ->
         "changed_since_approval"
    [] ~Landed /\ mark = "none" /\ queued = "approved" -> "plan-next"
    [] ~Landed /\ mark # "none" /\ ~approved -> UnapprovedStep
    [] ~Landed /\ approved /\ Halted -> "halted"
    [] ~Landed /\ approved /\ ~Halted ->
         IF folder = "archived" THEN "land" ELSE "wait"

\* a stop names the item before its change exists, the change afterwards
SameTarget == stop \in (IF mark = "none" THEN ItemStops ELSE ChangeStops)

\* a pass runs between two cycles, and a stop of the same target holds it
Pass(step) == pc = "idle" /\ pilot = "idle" /\ Step = step
Takes(step) == Pass(step) /\ ~SameTarget

-----------------------------------------------------------------------------
(* runAutopilotPass *)

PassStops ==
  /\ \E reason \in ItemStops \cup ChangeStops :
       Pass(reason) /\ stop # reason /\ stop' = reason
  /\ UNCHANGED <<lVars, queued, mark, run, worker, approved, pilot, quota>>

PassClears ==
  /\ Pass("wait") \/ Pass("done")
  /\ stop # "none" /\ stop' = "none"
  /\ UNCHANGED <<lVars, queued, mark, run, worker, approved, pilot, quota>>

Throws(reason) ==
  /\ Use("throw")
  /\ stop' = reason /\ pilot' = "idle"

PassPlansNext ==
  /\ Takes("plan-next")
  /\ \/ mark' = "bare" /\ stop' = "none" /\ pilot' = "naming" /\ UNCHANGED quota
     \/ Throws("plan_refused") /\ UNCHANGED mark
  /\ UNCHANGED <<lVars, queued, run, worker, approved>>

WritesMarker ==
  /\ pilot = "naming"
  /\ mark' = "created" /\ pilot' = "idle"
  /\ UNCHANGED <<lVars, queued, run, worker, approved, stop, quota>>

PassPlans ==
  /\ Takes("plan")
  /\ mark' = "started" /\ stop' = "none" /\ pilot' = "asking"
  /\ UNCHANGED <<lVars, queued, run, worker, approved, quota>>

\* planRunCommand refuses an approved change and one with a live planner
Plannable == ~approved /\ mark # "none" /\ PlanRun # "running"

CallsPlanner ==
  /\ pilot = "asking"
  /\ IF Plannable /\ worker = "none"
     THEN /\ worker' = "starting" /\ pilot' = "spawned"
          /\ UNCHANGED <<stop, quota>>
     ELSE /\ stop' = "planner_not_ready" /\ pilot' = "idle"
          /\ UNCHANGED <<worker, quota>>
  /\ UNCHANGED <<lVars, queued, mark, run, approved>>

PlannerRefused ==
  /\ pilot = "asking" /\ Throws("planner_not_ready")
  /\ UNCHANGED <<lVars, queued, mark, run, worker, approved>>

\* writeRunningRecord, whatever the worker has written by then
RecordsRunning ==
  /\ pilot = "spawned"
  /\ run' = "running" /\ pilot' = "idle"
  /\ UNCHANGED <<lVars, queued, mark, worker, approved, stop, quota>>

PassApproves ==
  /\ Takes("approve")
  /\ \/ approved' = TRUE /\ stop' = "none" /\ UNCHANGED <<pilot, quota>>
     \/ Throws("approve_refused") /\ UNCHANGED approved
  /\ UNCHANGED <<lVars, queued, mark, run, worker>>

PassLands ==
  /\ Takes("land")
  /\ stop' = "none" /\ pilot' = "landing"
  /\ At("autopilot", "check")
  /\ UNCHANGED <<wVars, refVars, branchVars, workings, endVars, left, killed>>
  /\ UNCHANGED <<queued, mark, run, worker, approved, quota>>

\* defect: the stop is the change's own
LandReturnsHalt ==
  /\ pilot = "landing" /\ at["autopilot"] \in Rest
  /\ stop' = halt /\ pilot' = "idle"
  /\ UNCHANGED <<lVars, queued, mark, run, worker, approved, quota>>

LandReturns ==
  /\ pilot = "landing" /\ at["autopilot"] \in Rest
  /\ stop' = IF at["autopilot"] = "landed" THEN "none" ELSE "land_stopped"
  /\ pilot' = "idle"
  /\ UNCHANGED <<lVars, queued, mark, run, worker, approved, quota>>

-----------------------------------------------------------------------------
(* runScratchPlan, in a process of its own *)

WorkerRecords ==
  /\ worker = "starting"
  /\ run' = "running" /\ worker' = "planning"
  /\ UNCHANGED <<lVars, queued, mark, approved, stop, pilot, quota>>

WorkerFinishes ==
  /\ worker = "planning"
  /\ run' \in {"ready", "red"} /\ worker' = "none"
  /\ UNCHANGED <<lVars, queued, mark, approved, stop, pilot, quota>>

\* its catch records a failure without the folder's hash
WorkerThrows ==
  /\ worker = "planning" /\ Use("throw")
  /\ run' = "unhashed" /\ worker' = "none"
  /\ UNCHANGED <<lVars, queued, mark, approved, stop, pilot>>

WorkerKilled ==
  /\ worker # "none" /\ Use("worker")
  /\ worker' = "none"
  /\ UNCHANGED <<lVars, queued, mark, run, approved, stop, pilot>>

-----------------------------------------------------------------------------
(* Humans and kills *)

\* `osq queue approve` clears the stop
HumanApprovesQueue ==
  /\ mark = "none" /\ queued # "approved" /\ Use("queue")
  /\ queued' = "approved" /\ stop' = "none"
  /\ UNCHANGED <<lVars, mark, run, worker, approved, pilot>>

HumanEditsQueue ==
  /\ mark = "none" /\ queued = "approved" /\ Use("human")
  /\ queued' = "changed"
  /\ UNCHANGED <<lVars, mark, run, worker, approved, stop, pilot>>

\* `osq plan <id> --run`
HumanPlans ==
  /\ Plannable /\ worker = "none" /\ Use("human")
  /\ run' = "running" /\ worker' = "starting"
  /\ UNCHANGED <<lVars, queued, mark, approved, stop, pilot>>

HumanEditsPlan ==
  /\ ~approved /\ run \in {"ready", "red"} /\ Use("human")
  /\ run' = "stale"
  /\ UNCHANGED <<lVars, queued, mark, worker, approved, stop, pilot>>

HumanApproves ==
  /\ ~approved /\ mark # "none" /\ Use("human")
  /\ approved' = TRUE
  /\ UNCHANGED <<lVars, queued, mark, run, worker, stop, pilot>>

PilotKilled ==
  /\ WatcherKilled
  /\ pilot' = "idle"
  /\ UNCHANGED <<queued, mark, run, worker, approved, stop, quota>>

-----------------------------------------------------------------------------
(* The specification *)

Pilot ==
  \/ PassStops \/ PassClears \/ PassPlansNext \/ WritesMarker \/ PassPlans
  \/ CallsPlanner \/ PlannerRefused \/ RecordsRunning \/ PassApproves
  \/ PassLands \/ LandReturns

Planner == WorkerRecords \/ WorkerFinishes

\* the watcher starts in any case, and works on an approved change
Cycles ==
  (approved \/ pc = "down") /\ Watcher /\ UNCHANGED <<landVars, pilotVars>>

Delivery ==
  \/ approved /\ Elsewhere /\ UNCHANGED <<landVars, pilotVars>>
  \/ /\ approved
     /\ \/ \E c \in Moves : MainMoves(c) \/ OriginMoves(c)
        \/ HumanPulls \/ HumanAborts \/ TreeCleaned
        \/ \E l \in Landers \ {"autopilot"} : LandKilled(l)
        \/ \E l \in Landers \ {"autopilot"} : LandBegins(l)
     /\ UNCHANGED pilotVars

Syncs == (\E a \in Syncers : SyncSteps(a)) /\ UNCHANGED pilotVars
Lands(l) == LandSteps(l) /\ UNCHANGED pilotVars

Humans ==
  \/ HumanApprovesQueue \/ HumanEditsQueue \/ HumanPlans \/ HumanEditsPlan
  \/ HumanApproves

Next ==
  \/ Cycles \/ Pilot \/ Planner \/ Delivery \/ Syncs
  \/ \E l \in Landers : Lands(l)
  \/ Humans \/ WorkerThrows \/ WorkerKilled \/ PilotKilled

Spec == AInit /\ [][Next]_vars

\* the watcher, the planner and the landers go on, and a broken hook is fixed
Progress ==
  \/ Cycles \/ Syncs \/ Pilot \/ Planner
  \/ \E l \in Landers : Lands(l)
  \/ HookFixed /\ UNCHANGED <<landVars, pilotVars>>

FairSpec == Spec /\ WF_vars(Progress)

-----------------------------------------------------------------------------
(* Properties *)

\* the waits nobody is told of: a folder a kill left without its marker, and
\* a planner that never started or failed without the folder's hash
Silent ==
  /\ ~approved
  /\ \/ mark = "bare"
     \/ mark = "started" /\ PlanRun = "null"

\* Once its change exists, an item is landed, or the autopilot holds it with
\* a stop a human is told of, or it is in one of the silent waits.
ItemSettles == mark # "none" ~> (Landed \/ stop # "none" \/ Silent)
=============================================================================
