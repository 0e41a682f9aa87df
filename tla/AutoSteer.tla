----------------------------- MODULE AutoSteer -----------------------------
(***************************************************************************)
(* The planners that revise the plan Approval moves about: the watcher's   *)
(* automatic steering run over a stopped change, and the detached worker   *)
(* that osq plan --run starts for a draft or a stopped change.  Both edit  *)
(* the plan in place; what a steering run finds changed outside the plan   *)
(* when its planner ends, it puts back, whoever wrote it.                  *)
(*                                                                         *)
(* Abstractions:                                                           *)
(*  - autoSteer is on; a dead stop is a stuck or blocked one;              *)
(*  - a steering planner's edits of the plan are Edit's;                   *)
(*  - outside the plan a tree holds the seal and the stop;                 *)
(*  - the outcomes that are neither running nor ready are one;             *)
(*  - one osq plan --run at a time; a planner does not end between a       *)
(*    reject's rename and its commit;                                      *)
(*  - a run spends Quota, a git command or prompt that throws spends       *)
(*    budget, a tree that is gone makes them throw for nothing; the record *)
(*    that is then written beside no tree is left out.                     *)
(***************************************************************************)
EXTENDS Approval

CONSTANT Quota   \* how many planners each member of Budgets starts

QuotaKinds == {"auto", "plan"}

ASSUME QuotaAssumption == Quota \in [Budgets -> [QuotaKinds -> Nat]]

VARIABLES
  mark,     \* which of its stops a change's marker is of, counted down
  record,   \* .run/auto-steer.md
  drafting, \* .run/plan-run.md in the checkout: a live planner runs
  planner,  \* the watcher and the detached worker, as far as they plan
  asking,   \* osq plan --run between the spawn and its record
  quota,
  ran       \* history: the keys the watcher ran a planner for, less those a
            \* human's planner for another made the record or the tree forget

steerVars == <<mark, record, drafting, planner, asking, quota, ran>>
sVars == <<aVars, steerVars>>

\* steeringKey: the seal and the bytes of the markers
Keys == [seal : Plans \cup {None}, mark : Nat]
NoKey == [seal |-> None, mark |-> 0]

\* "watch" and "plan": the process lives
Pids == {"none", "watch", "plan", "dead"}
Records == [key : Keys, outcome : {"none", "running", "ready", "other"},
            pid : Pids]
NoRecord == [key |-> NoKey, outcome |-> "none", pid |-> "none"]

\* what git status did not list before the spawn
Clean == -1

Processes == {"watch", "plan"}
Runnings == [pc : {"idle", "boot", "begin", "planning", "same", "changed"},
             place : {"draft", "stacked", "worktree", "steered"},
             key : Keys,
             plan : Plans \cup {None},
             seal : Plans \cup {None, Clean},
             stop : Stops \cup {"none", "clean"},
             mark : Nat]
NotRunning == [pc |-> "idle", place |-> "draft", key |-> NoKey, plan |-> None,
               seal |-> None, stop |-> "none", mark |-> 0]

STypeOK ==
  /\ PTypeOK
  /\ mark \in [tree : Nat, tip : Nat]
  /\ record \in Records
  /\ drafting \in BOOLEAN
  /\ planner \in [Processes -> Runnings]
  /\ asking \in [for : {"none", "draft", "steered"}, key : Keys]
  /\ quota \in [QuotaKinds -> Nat]
  /\ ran \subseteq Keys

NotAsking == [for |-> "none", key |-> NoKey]

SInit ==
  /\ PInit
  /\ mark = [tree |-> 0, tip |-> 0]
  /\ record = NoRecord /\ drafting = FALSE
  /\ planner = [p \in Processes |-> NotRunning]
  /\ asking = NotAsking
  /\ quota = Quota[budget]
  /\ ran = {}

-----------------------------------------------------------------------------
(* What is read *)

Key == [seal |-> tree.copy.seal, mark |-> mark.tree]
Triggered == InWorktree /\ tree.copy.stop # "none"

\* currentAutoSteer, and readLivePlanner, which does not ask for the process
Current == Triggered /\ record.key = Key
LiveRecord == Current /\ record.outcome = "running"

\* what runAutoSteer leaves to a human
Automatic == Triggered /\ tree.copy.stop = "dead"

Use(kind) == /\ quota[kind] > 0
             /\ quota' = [quota EXCEPT ![kind] = @ - 1]

RunTo(p, phase) == planner' = [planner EXCEPT ![p].pc = phase]
Ends(p) == planner' = [planner EXCEPT ![p] = NotRunning]

\* a human's planner writes its record over the watcher's
Remembers(key) == ran' = ran \cap {key}

Settles(p, outcome) ==
  /\ record' = [key |-> planner[p].key, outcome |-> outcome, pid |-> "none"]
  /\ IF p = "plan" THEN Remembers(planner[p].key) ELSE UNCHANGED ran

\* the process a record names is gone
Exits(p) ==
  record' = IF record.pid = p THEN [record EXCEPT !.pid = "dead"] ELSE record

WatcherIsFree == planner["watch"].pc = "idle" /\ cut.pc = "idle"

-----------------------------------------------------------------------------
(* The watcher: runAutoSteer *)


\* one run for each key
DecideRun ==
  /\ WatcherIsFree /\ Automatic /\ record.key # Key
  /\ Use("auto")
  /\ planner' = [planner EXCEPT !["watch"].pc = "begin", !["watch"].key = Key]
  /\ UNCHANGED <<aVars, record, drafting, asking, ran>>

PromptFails ==
  /\ planner["watch"].pc = "begin"
  /\ Spend("fail")
  /\ Settles("watch", "other")
  /\ Ends("watch")
  /\ UNCHANGED <<placeVars, historyVars, tracked, dep, latest, op, cut,
                 drafting, asking, quota>>

\* what HEAD has where the folder is
Head == IF branch.at = tree.at THEN branch.copy ELSE Nothing

\* executeRun up to the spawn: git status and the plan are kept in memory,
\* the record says running
Begin(p, key) ==
  /\ planner' = [planner EXCEPT ![p] = [
       pc |-> "planning", place |-> "steered", key |-> key,
       plan |-> tree.copy.plan,
       seal |-> IF tree.copy.seal = Head.seal THEN Clean
                ELSE tree.copy.seal,
       stop |-> IF tree.copy.stop = Head.stop /\ mark.tree = mark.tip
                THEN "clean" ELSE tree.copy.stop,
       mark |-> mark.tree]]
  /\ record' = [key |-> key, outcome |-> "running", pid |-> p]
  /\ IF p = "watch" THEN ran' = ran \cup {key} ELSE Remembers(key)
  /\ Note("overlap", op.pc # "idle")

\* a prompt for a change that needs no steering any more is null
BeginRun ==
  /\ planner["watch"].pc = "begin"
  /\ IF Triggered
     THEN Begin("watch", planner["watch"].key)
     ELSE Ends("watch") /\ UNCHANGED <<record, odd, ran>>
  /\ UNCHANGED <<placeVars, envVars, op, cut, reviewed, unseen, last,
                 drafting, asking, quota>>

\* defect: the process of a running record is not looked for
PlannerAlive == record.pid # "none"

\* plannerStillRunning
PlannerStillRunning == record.pid \in Processes

\* a running record of a process that stopped
Interrupt ==
  /\ WatcherIsFree /\ Automatic /\ LiveRecord /\ ~PlannerStillRunning
  /\ record' = [record EXCEPT !.outcome = "other", !.pid = "none"]
  /\ UNCHANGED <<aVars, drafting, planner, asking, quota, ran>>

-----------------------------------------------------------------------------
(* osq plan --run *)

\* readLivePlanner and canStartPlanner, then the spawn
AskPlanner ==
  /\ asking = NotAsking /\ planner["plan"].pc = "idle"
  /\ Use("plan")
  /\ \/ /\ Triggered /\ ~(Current /\ record.outcome \in {"running", "ready"})
        /\ asking' = [for |-> "steered", key |-> Key]
     \/ /\ InCheckout /\ ~drafting
        /\ asking' = [for |-> "draft", key |-> NoKey]
  /\ RunTo("plan", "boot")
  /\ UNCHANGED <<aVars, record, drafting, ran>>

\* the triggers are those before the spawn, the markers those after it: of a
\* stop that is gone there are none, and the next one is of a task of its own
\* or of the same
WrittenKeys ==
  [seal : {asking.key.seal},
   mark : IF ~Triggered THEN {0}
          ELSE IF mark.tree = asking.key.mark THEN {mark.tree}
          ELSE {0, mark.tree}]

\* the record of the parent comes whenever it comes
WriteRunningRecord ==
  /\ asking # NotAsking
  /\ LET alive == planner["plan"].pc # "idle" IN
     IF asking.for = "draft"
     THEN drafting' = (alive /\ draft # None) /\ UNCHANGED <<record, ran>>
     ELSE /\ \E key \in WrittenKeys :
               /\ record' = [key |-> key, outcome |-> "running",
                             pid |-> IF alive THEN "plan" ELSE "dead"]
               /\ Remembers(key)
          /\ UNCHANGED drafting
  /\ asking' = NotAsking
  /\ UNCHANGED <<aVars, planner, quota>>

\* the worker looks for itself where the change is and what it needs
BootWorker ==
  /\ planner["plan"].pc = "boot"
  /\ IF Triggered THEN Begin("plan", Key) /\ UNCHANGED drafting
     ELSE /\ Note("overlap", op.pc # "idle")
          /\ drafting' = (drafting \/ InCheckout)
          /\ UNCHANGED ran
          /\ IF InWorktree \/ InStack \/ InCheckout
             THEN /\ planner' = [planner EXCEPT !["plan"].pc = "planning",
                       !["plan"].place = IF InWorktree THEN "worktree"
                                         ELSE IF InStack THEN "stacked"
                                         ELSE "draft"]
                  /\ UNCHANGED record
             ELSE Ends("plan") /\ Exits("plan")
  /\ UNCHANGED <<placeVars, envVars, op, cut, reviewed, unseen, last, asking,
                 quota>>

\* runScratchPlan: the plan is revised in a tree of its own, and what changed
\* there is written over the folder as it is by then
CopyBack ==
  /\ planner["plan"].pc = "planning" /\ planner["plan"].place # "steered"
  /\ \/ UNCHANGED <<draft, stacked, tree, latest, budget, last>>
     \/ /\ latest < NPlans /\ Spend("edit")
        /\ latest' = latest + 1
        /\ \/ /\ planner["plan"].place = "draft" /\ draft' = latest'
              /\ Outdates(FALSE, {stacked.plan, tree.copy.plan})
              /\ UNCHANGED <<stacked, tree>>
           \/ /\ planner["plan"].place = "stacked" /\ stacked.plan # None
              /\ stacked' = [stacked EXCEPT !.plan = latest']
              /\ Outdates(InStack /\ last = stacked.plan, {tree.copy.plan})
              /\ UNCHANGED <<draft, tree>>
           \/ /\ planner["plan"].place = "worktree" /\ tree.at = "changes"
              /\ tree.copy.plan # None
              /\ tree' = [tree EXCEPT !.copy.plan = latest']
              /\ Outdates(InWorktree /\ last = tree.copy.plan, {stacked.plan})
              /\ UNCHANGED <<draft, stacked>>
  /\ drafting' = (drafting /\ planner["plan"].place # "draft")
  /\ Ends("plan") /\ Exits("plan")
  /\ UNCHANGED <<branch, kept, tracked, dep, op, cut, reviewed, unseen, odd,
                 asking, quota, ran>>

-----------------------------------------------------------------------------
(* executeRun after the spawn, in either process *)

Steering(p) == planner[p].pc = "planning" /\ planner[p].place = "steered"

\* what was dirty gets its bytes back, what was clean is what HEAD has there
PutBack(p) ==
  [tree.copy EXCEPT
     !.seal = IF planner[p].seal = Clean THEN Head.seal
              ELSE planner[p].seal,
     !.stop = IF planner[p].stop = "clean" THEN Head.stop
              ELSE planner[p].stop]

\* restoreTreeExcept: of a rejected folder that is not committed HEAD's .run
\* comes back, and the folder it was moved to goes
Restore(p) ==
  /\ Steering(p) /\ tree.at # "gone" /\ op.pc # "record"
  /\ tree' = IF tree.at = "changes" THEN [tree EXCEPT !.copy = PutBack(p)]
             ELSE IF tree.at = "rejected" /\ branch.at = "changes"
             THEN [at |-> "changes", copy |-> [branch.copy EXCEPT !.plan = None]]
             ELSE tree
  /\ mark' = [mark EXCEPT !.tree = IF planner[p].stop = "clean" THEN mark.tip
                                   ELSE planner[p].mark]
  /\ ran' = IF p = "plan" /\ mark'.tree # mark.tree THEN {} ELSE ran
  /\ RunTo(p, IF tree'.copy.plan = planner[p].plan THEN "same" ELSE "changed")
  /\ UNCHANGED <<draft, stacked, branch, kept, historyVars, envVars, op, cut,
                 record, drafting, asking, quota>>

\* the worker records what it caught, the watcher's cycle ends in it
RestoreFails(p) ==
  /\ Steering(p)
  /\ \/ tree.at = "gone" /\ UNCHANGED budget
     \/ tree.at # "gone" /\ Spend("fail")
  /\ IF p = "plan" THEN Settles(p, "other") ELSE UNCHANGED <<record, ran>>
  /\ Ends(p)
  /\ UNCHANGED <<placeVars, historyVars, tracked, dep, latest, op, cut,
                 drafting, asking, quota, mark>>

\* decideOutcome: a plan that changed may lint green
Finish(p) ==
  /\ planner[p].pc \in {"same", "changed"}
  /\ \/ Settles(p, "other")
     \/ planner[p].pc = "changed" /\ Settles(p, "ready")
  /\ Ends(p)
  /\ UNCHANGED <<aVars, drafting, asking, quota, mark>>

\* a planner ends by its timeout at the latest
Conclude(p) == Restore(p) \/ RestoreFails(p) \/ Finish(p)

\* the watcher is killed and started again, or the worker is killed
KillPlanner(p) ==
  /\ planner[p].pc # "idle" \/ (p = "watch" /\ record.pid = "watch")
  /\ p = "watch" => cut.pc = "idle"
  /\ Spend("kill")
  /\ Ends(p) /\ Exits(p)
  /\ drafting' = (drafting /\ p # "plan")
  /\ UNCHANGED <<placeVars, tracked, dep, latest, historyVars, op, cut, asking,
                 quota, ran>>

-----------------------------------------------------------------------------
(* What Approval does meanwhile *)

\* approveSpec refuses while it finds a live planner; nothing else does
NoLivePlanner ==
  op.pc = "idle" /\ op'.pc # "idle" =>
    /\ op'.path \in {"steer", "restart"} => ~LiveRecord
    /\ op'.path = "fresh" /\ InCheckout => ~drafting

\* the folder in the worktree is written anew, without a record
NewFolder == \/ op.pc = "prepare" /\ op'.pc = "seal"
             \/ cut.pc = "prepare" /\ cut'.pc = "commit"

Marks ==
  LET stopped == budget'["stop"] # budget["stop"]
      tree1 == IF stopped THEN budget["stop"]
               ELSE IF tree.at = "gone" THEN mark.tip ELSE mark.tree
  IN mark' = [tree |-> tree1,
              tip |-> IF branch' # branch THEN tree1 ELSE mark.tip]

Meanwhile ==
  /\ NoLivePlanner
  /\ Marks
  /\ record' = IF NewFolder THEN NoRecord
               ELSE IF budget'["kill"] # budget["kill"] /\ cut' # cut
                       /\ record.pid = "watch"
               THEN [record EXCEPT !.pid = "dead"] ELSE record
  /\ drafting' = (drafting /\ draft' # None)
  /\ UNCHANGED <<planner, asking, quota, ran>>

Others == Approves \/ Rejects \/ Edit \/ ChangeStops \/ DependencyMoves \/ Kill
Cycles == planner["watch"].pc = "idle" /\ Cutting
Begun  == planner["watch"].pc = "idle" /\ RecreateTree

\* the steps that leave the markers alone
Planning == \/ DecideRun \/ PromptFails \/ BeginRun \/ Interrupt
            \/ AskPlanner \/ WriteRunningRecord \/ BootWorker \/ CopyBack
            \/ \E p \in Processes : KillPlanner(p)

SNext == \/ (Others \/ Cycles \/ Begun) /\ Meanwhile
         \/ (Planning /\ UNCHANGED mark)
         \/ \E p \in Processes : Conclude(p)

Proceeds == \/ (Interrupt \/ BeginRun \/ BootWorker \/ CopyBack) /\ UNCHANGED mark
            \/ \E p \in Processes : Conclude(p)

\* the watcher polls and is started again, a worker that was spawned boots,
\* and every planner has a timeout
SSpec == /\ SInit /\ [][SNext]_sVars
         /\ WF_sVars(Cycles /\ Meanwhile) /\ WF_sVars(Proceeds)

-----------------------------------------------------------------------------
(* Properties *)


\* What runAutoSteer leaves behind when executeRun throws: a record that says
\* the watcher, which lives, is planning (auto-steer-run.ts:66)
Thrown == record.pid = "watch" /\ planner["watch"].pc = "idle"

\* A change that was stopped is not called planning for ever, which would
\* refuse its approval and every other planner (approve.ts:194,
\* plan-run.ts:121): a run ends, and the record of one that was killed is
\* rewritten; but not one that the watcher's own run threw out of.
SteerSettles ==
  (LiveRecord /\ Automatic) ~> (~(LiveRecord /\ Automatic) \/ Thrown)
=============================================================================
