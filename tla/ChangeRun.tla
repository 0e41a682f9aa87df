------------------------------ MODULE ChangeRun ------------------------------
(***************************************************************************)
(* One approved change from its seal to its archive: what the watcher does *)
(* to it in a cycle (reap, automatic retries, scope audit, one task run,   *)
(* archive), and what a human does to it meanwhile (`osq approve`,         *)
(* `osq retry`, edits of the plan and of the tree).  Processes share       *)
(* nothing but the `.run/` directory of RunMarkers and the project tree.   *)
(*                                                                         *)
(* Abstractions:                                                           *)
(*  - the tree is two facts per task: whether the task's verify passes on  *)
(*    it, and how the files of a done task's scope got where they are;     *)
(*  - which failure an attempt ends with is a choice from the constant     *)
(*    sets below, in the order runTask makes its checks;                   *)
(*  - one step writes one marker.  What is read to decide it is read in    *)
(*    that step: deriving a change's state, a retry's checks; what a loop  *)
(*    lists at its start and acts on later stays in cur, todo and note.    *)
(*    A marker and the event that records it are one step, except in a     *)
(*    retry, where a crash can fall between the renames and the event;     *)
(*  - a pid file is created and written in one step, but a reaper may read *)
(*    it torn until its owner's next step;                                 *)
(*  - how often the environment acts is capped by Budget.                  *)
(***************************************************************************)
EXTENDS RunMarkers

CONSTANTS
  AutoRetries,      \* gates.autoRetries
  ProviderRetries,  \* gates.providerRetries
  PreSpawnFails,    \* gates.preSpawnVerify is "fail"
  EntryMissing,     \* a task's entry file may be missing when it is due
  EarlyFailures,    \* reasons an attempt may die of before its verify runs
  LateFailures,     \* reasons it may die of once its verify passed
  AgentsWander,     \* agents edit what earlier tasks own or depend on
  ChangeReds,       \* the archive's change-level verify may fail
  Budget            \* how many crashes, human commands, plan edits, tree
                    \* edits, usage limits, aged locks and torn reads a run
                    \* has

Kinds == {"crash", "command", "plan", "tree", "limit", "age", "torn"}

ASSUME RetryLimitsAssumption ==
  /\ AutoRetries \in Nat
  /\ ProviderRetries \in Nat

ASSUME SwitchesAssumption ==
  /\ {PreSpawnFails, EntryMissing, AgentsWander, ChangeReds} \subseteq BOOLEAN
  /\ EarlyFailures \subseteq Eligible \cup {"blocked"}
  /\ LateFailures \subseteq Eligible \cup {"blocked"}

ASSUME BudgetAssumption == Budget \in [Kinds -> Nat]

Human  == "human"
Actors == Watchers \cup {Human}

ASSUME ActorsAssumption ==
  /\ Watchers \cap {Human, Free, Gone} = {}
  /\ Watchers # {}

VARIABLES
  pc,       \* where each process is; a watcher between two cycles holds
            \* nothing a kill could take, so that too is "down"
  cur,      \* the task it works on (Change: none, or the change target)
  todo,     \* targets its loop has still to visit
  rest,     \* markers its retry has still to rename
  note,     \* what its current phase found out
  reaped,   \* the locks a watcher unlinked and has not yet reported
  green,    \* tasks whose verify passes on the tree
  drift,    \* a done task's scope files against its done marker
  orphans,  \* tasks an agent works on whose watcher was killed
  budget,   \* what is left of Budget
  spent,    \* automatic retries of a task since approval or a manual retry
  tampered  \* what others changed while a watcher relied on it: the "tree"
            \* since its last audit, a "done" marker since it chose its work

deathVars == <<dead, lastDead, cooling>>
sealVars  == <<seal, events>>
lockVars  == <<lock, aged>>
stateVars == <<paused, archived>>
loopVars  == <<todo, rest, reaped>>
stepVars  == <<cur, loopVars, note>>
localVars == <<pc, stepVars>>
treeVars  == <<green, drift, tampered>>
worldVars == <<orphans, budget, spent>>
vars == <<markerVars, localVars, treeVars, worldVars>>

ArchivePhases == {"archive", "recheck", "verify", "change", "relocate"}
RetryPhases   == {"retain", "append"}
LanePhases    == {"audit", "begin", "guard", "lock", "gates", "agent", "judge",
                  "release"}
WatcherPhases == {"down", "reap", "unlink", "bury", "retry", "derive"}
                 \cup RetryPhases \cup LanePhases \cup ArchivePhases
HumanPhases   == {"idle", "confirm", "retire"} \cup RetryPhases

Notes == {"none", "crashed", "timeout", "stale", "passed", "requeued",
          "manual", "auto", "provider"}

\* same: as recorded; unmeasured: edited by an attempt still running;
\* carried: edited by later tasks alone, every edit measured; foreign: the rest
Drifts == {"same", "unmeasured", "carried", "foreign"}

ReapReasons   == {"crashed", "timeout"}
Interferences == {"tree", "done"}

TypeOK ==
  /\ MarkersTypeOK
  /\ pc \in [Actors -> WatcherPhases \cup HumanPhases]
  /\ cur \in [Actors -> Targets]
  /\ todo \in [Actors -> SUBSET Targets]
  /\ rest \in [Actors -> SUBSET {"dead", "done"}]
  /\ note \in [Actors -> Notes]
  /\ reaped \in [Watchers -> SUBSET (Tasks \X ReapReasons)]
  /\ green \in SUBSET Tasks
  /\ drift \in [Tasks -> Drifts]
  /\ orphans \in SUBSET Tasks
  /\ budget \in [Kinds -> Nat]
  /\ spent \in [Tasks -> Nat]
  /\ tampered \subseteq Interferences

Init ==
  /\ MarkersInit
  /\ pc = [a \in Actors |-> IF a = Human THEN "idle" ELSE "down"]
  /\ cur = [a \in Actors |-> Change]
  /\ todo = [a \in Actors |-> {}]
  /\ rest = [a \in Actors |-> {}]
  /\ note = [a \in Actors |-> "none"]
  /\ reaped = [w \in Watchers |-> {}]
  /\ green = {}
  /\ drift = [t \in Tasks |-> "same"]
  /\ orphans = {}
  /\ budget = Budget
  /\ spent = [t \in Tasks |-> 0]
  /\ tampered = {}

-----------------------------------------------------------------------------
(* Control helpers *)

Goto(a, phase) == pc' = [pc EXCEPT ![a] = phase]

\* control moves on and nothing else changes
MoveOn(a, phase) ==
  /\ Goto(a, phase)
  /\ UNCHANGED <<markerVars, stepVars, treeVars, worldVars>>

\* the watcher is done with the change until its next cycle
NextCycle(w) ==
  /\ Goto(w, "down")
  /\ cur' = [cur EXCEPT ![w] = Change]
  /\ todo' = [todo EXCEPT ![w] = {}]
  /\ note' = [note EXCEPT ![w] = "none"]
  /\ UNCHANGED <<rest, reaped>>

\* An archived folder is nobody's any more: no process acts on it.
At(a, phase) ==
  /\ ~archived
  /\ pc[a] = phase

Spend(kind) ==
  /\ ~archived
  /\ budget[kind] > 0
  /\ budget' = [budget EXCEPT ![kind] = @ - 1]

Relying == \E w \in Watchers : pc[w] \in ArchivePhases \cup LanePhases

Tamper(what) == tampered' = IF Relying THEN tampered \cup {what} ELSE tampered

\* writeDeadMarker and recordDeadEvent
RecordDead(t, reason, print) ==
  /\ dead' = [dead EXCEPT ![t] = [reason |-> reason, print |-> print,
                                  stuck |-> FALSE]]
  /\ cooling' = IF reason = Provider THEN cooling \cup {t} ELSE cooling \ {t}

\* measures.emitEnd: what the attempt edited is now on record
Measured(d) ==
  [t \in Tasks |-> IF d[t] = "unmeasured" THEN "carried" ELSE d[t]]

\* no emitEnd will follow: nobody can account for what the attempt edited
Unaccounted(d) ==
  [t \in Tasks |-> IF d[t] = "unmeasured" THEN "foreign" ELSE d[t]]

\* An edit of the tree while a later task runs lands between that task's start
\* and end measures, whoever makes it.
Carriable(t) ==
  /\ drift[t] # "foreign"
  /\ \E w \in Watchers : pc[w] \in {"agent", "judge"} /\ cur[w] > t

\* The tree changes: G are the tasks whose verify now passes; of the done
\* tasks, C had scope files edited inside a later task's scope, F outside.
TreeEdit(G, C, F) ==
  /\ green' = G
  /\ drift' = [t \in Tasks |->
                 IF t \in F THEN "foreign"
                 ELSE IF t \in C THEN "unmeasured"
                 ELSE drift[t]]

-----------------------------------------------------------------------------
(* retrySpec, by the watcher, by `osq retry` and by `osq approve` *)

RetryAllowed(t) ==
  /\ seal = "match"
  /\ IF t = Change
     THEN \A n \in Tasks : lock[n] = Free
     ELSE lock[t] = Free
  /\ IsRegressed(t) \/ (t \in Tasks /\ IsDead(t))

\* a scope regression of a finished task is judged by its verify alone
Recertifies(t) ==
  /\ t \in done
  /\ regressed[t].reason = "scope_regression"
  /\ ~IsDead(t)

RetryNote(a, t) ==
  IF t \in Tasks /\ Recertifies(t)
  THEN IF t \in green THEN "passed" ELSE "requeued"
  ELSE IF a = Human THEN "manual"
  ELSE IF ~IsRegressed(t) /\ dead[t].reason = Provider THEN "provider"
  ELSE "auto"

RetainDead(t) ==
  /\ lastDead' = [lastDead EXCEPT ![t] = dead[t]]
  /\ dead' = [dead EXCEPT ![t] = NoDead]

RetainDone(t) ==
  /\ done' = done \ {t}
  /\ drift' = [drift EXCEPT ![t] = "same"]
  /\ IF t \in done THEN Tamper("done") ELSE UNCHANGED tampered

\* The checks, the done marker a passing recertification refreshes, and the
\* first rename: the regressed marker if there is one, the dead one otherwise.
BeginRetry(a, t) ==
  LET kind == RetryNote(a, t) IN
  /\ RetryAllowed(t)
  /\ Goto(a, "retain")
  /\ cur' = [cur EXCEPT ![a] = t]
  /\ todo' = [todo EXCEPT ![a] = @ \ {t}]
  /\ note' = [note EXCEPT ![a] = kind]
  /\ IF IsRegressed(t)
     THEN /\ regressed' = [regressed EXCEPT ![t] = NoRegressed]
          /\ rest' = [rest EXCEPT ![a] =
                        {m \in {"dead"} : t \in Tasks /\ IsDead(t)} \cup
                        {m \in {"done"} : t \in done /\ kind # "passed"}]
          /\ UNCHANGED <<dead, lastDead>>
     ELSE /\ RetainDead(t)
          /\ rest' = [rest EXCEPT ![a] = {}]
          /\ UNCHANGED regressed
  /\ drift' = IF kind = "passed" THEN [drift EXCEPT ![t] = "same"] ELSE drift
  /\ spent' = IF kind = "auto" THEN [spent EXCEPT ![t] = @ + 1] ELSE spent
  /\ UNCHANGED <<sealVars, done, lockVars, cooling, stateVars, reaped, green,
                 tampered, orphans>>

\* retainFailureMarkers renames the dead marker before the done marker, which
\* it looks for first
RetainMarker(a) ==
  LET t == cur[a] IN
  /\ At(a, "retain")
  /\ \/ /\ rest[a] = {}
        /\ Goto(a, "append")
        /\ UNCHANGED <<done, dead, lastDead, rest, drift, tampered>>
     \/ /\ "dead" \in rest[a] /\ IsDead(t)
        /\ RetainDead(t)
        /\ rest' = [rest EXCEPT ![a] = @ \ {"dead"}]
        /\ UNCHANGED <<done, pc, drift, tampered>>
     \/ /\ rest[a] = {"done"}
        /\ RetainDone(t)
        /\ rest' = [rest EXCEPT ![a] = {}]
        /\ UNCHANGED <<dead, lastDead, pc>>
  /\ UNCHANGED <<sealVars, regressed, lockVars, cooling, stateVars, cur, todo,
                 note, reaped, green, worldVars>>

\* Another retry has renamed the dead marker: the rename throws.  A command
\* ends with it; decideDeadTask counts no retry.
RetainThrows(a) ==
  /\ At(a, "retain")
  /\ "dead" \in rest[a] /\ ~IsDead(cur[a])
  /\ Goto(a, IF a = Human THEN "idle" ELSE "retry")
  /\ cur' = [cur EXCEPT ![a] = Change]
  /\ todo' = IF a = Human THEN [todo EXCEPT ![a] = {}] ELSE todo
  /\ rest' = [rest EXCEPT ![a] = {}]
  /\ note' = [note EXCEPT ![a] = "none"]
  /\ spent' = [n \in Tasks |->
                 IF n = cur[a] /\ note[a] = "auto" /\ spent[n] > 0
                 THEN spent[n] - 1 ELSE spent[n]]
  /\ UNCHANGED <<markerVars, reaped, treeVars, orphans, budget>>

RetainNext(a) == RetainMarker(a) \/ RetainThrows(a)

\* the stream once the retry's one event is appended
Appended(stream, kind) ==
  CASE kind = "auto"     -> [autos |-> stream.autos + 1,
                             provs |-> stream.provs, retried |-> TRUE]
    [] kind = "provider" -> [autos |-> stream.autos,
                             provs |-> stream.provs + 1, retried |-> TRUE]
    [] kind = "manual"   -> [autos |-> 0, provs |-> 0, retried |-> TRUE]
    [] kind = "requeued" -> [stream EXCEPT !.retried = TRUE]
    [] kind = "passed"   -> stream

AppendRetry(a) ==
  LET t == cur[a] IN
  /\ At(a, "append")
  /\ events' = [n \in Tasks |-> IF n = t THEN Appended(events[n], note[a])
                                ELSE events[n]]
  /\ spent' = [n \in Tasks |-> IF n = t /\ note[a] = "manual" THEN 0
                               ELSE spent[n]]
  /\ Goto(a, IF a # Human THEN "retry"
             ELSE IF todo[a] # {} THEN "retire" ELSE "idle")
  /\ cur' = [cur EXCEPT ![a] = Change]
  /\ note' = [note EXCEPT ![a] = "none"]
  /\ UNCHANGED <<seal, done, deathVars, regressed, lockVars, stateVars,
                 loopVars, treeVars, orphans, budget>>

-----------------------------------------------------------------------------
(* A watcher reaps the locks nobody holds *)

\* a cycle begins: reapStaleLocks lists the pid files
Start(w) ==
  /\ At(w, "down")
  /\ Goto(w, "reap")
  /\ todo' = [todo EXCEPT ![w] = {t \in Tasks : lock[t] # Free}]
  /\ UNCHANGED <<markerVars, cur, rest, note, reaped, treeVars, worldVars>>

Stale(t) == lock[t] = Gone \/ t \in aged

\* It may read a listed file its owner has removed since, or has created and
\* not yet written: no pid, so nobody's.
Torn(t) ==
  \/ lock[t] = Free
  \/ \E v \in Watchers : pc[v] = "gates" /\ cur[v] = t /\ lock[t] = v

Reap(w, t, reason) ==
  /\ Goto(w, "unlink")
  /\ cur' = [cur EXCEPT ![w] = t]
  /\ note' = [note EXCEPT ![w] = reason]
  /\ todo' = [todo EXCEPT ![w] = @ \ {t}]
  /\ UNCHANGED <<markerVars, rest, reaped, treeVars, orphans, spent>>

\* it reads a pid file, and unlinks it a step later
ReadLock(w) ==
  /\ At(w, "reap")
  /\ \E t \in todo[w] :
       /\ Stale(t)
       /\ Reap(w, t, IF t \in aged THEN "timeout" ELSE "crashed")
  /\ UNCHANGED budget

MisreadLock(w) ==
  /\ At(w, "reap")
  /\ Spend("torn")
  /\ \E t \in todo[w] : Torn(t) /\ Reap(w, t, "crashed")

PassLock(w) ==
  /\ At(w, "reap")
  /\ \E t \in todo[w] :
       /\ ~Stale(t)
       /\ todo' = [todo EXCEPT ![w] = @ \ {t}]
  /\ UNCHANGED <<markerVars, pc, cur, rest, note, reaped, treeVars, worldVars>>

FreeLock(t) ==
  /\ lock' = [lock EXCEPT ![t] = Free]
  /\ aged' = aged \ {t}

UnlinkLock(w) ==
  /\ At(w, "unlink")
  /\ FreeLock(cur[w])
  /\ reaped' = [reaped EXCEPT ![w] = @ \cup {<<cur[w], note[w]>>}]
  /\ cur' = [cur EXCEPT ![w] = Change]
  /\ note' = [note EXCEPT ![w] = "none"]
  /\ Goto(w, "reap")
  /\ UNCHANGED <<sealVars, done, deathVars, regressed, stateVars, todo, rest,
                 treeVars, worldVars>>

EndReap(w) ==
  /\ At(w, "reap")
  /\ todo[w] = {}
  /\ MoveOn(w, "bury")

Bury(w) ==
  /\ At(w, "bury")
  /\ \E t \in Tasks : \E reason \in ReapReasons :
       /\ <<t, reason>> \in reaped[w]
       /\ RecordDead(t, reason, ReaperPrint)
       /\ reaped' = [reaped EXCEPT ![w] = @ \ {<<t, reason>>}]
  /\ UNCHANGED <<sealVars, done, regressed, lockVars, lastDead, stateVars, pc,
                 cur, todo, rest, note, treeVars, worldVars>>

\* runAutomaticRetries lists the active dead markers of an approved change
EndBury(w) ==
  /\ At(w, "bury")
  /\ reaped[w] = {}
  /\ Goto(w, "retry")
  /\ todo' = [todo EXCEPT ![w] =
                {t \in Tasks : IsDead(t) /\ seal # "none" /\ AutoRetries > 0}]
  /\ UNCHANGED <<markerVars, cur, rest, note, reaped, treeVars, worldVars>>

-----------------------------------------------------------------------------
(* decideDeadTask *)

\* defect: any second failure counts, also one a retry has retired meanwhile
IsStuckByHistory(t) == lastDead[t] # NoDead

IsStuck(t) ==
  /\ dead[t].reason \in Eligible \ {Provider}
  /\ SameFailure(t)

\* defect: the budget is off by one
RetryDueOnceMore(t) ==
  /\ IsDead(t)
  /\ dead[t].reason \in Eligible
  /\ IF dead[t].reason = Provider
     THEN events[t].provs < ProviderRetries /\ t \notin cooling
     ELSE ~SameFailure(t) /\ events[t].autos <= AutoRetries

\* defect: a repeated failure is retried all the same
RetryDueRepeated(t) ==
  /\ IsDead(t)
  /\ dead[t].reason \in Eligible
  /\ IF dead[t].reason = Provider
     THEN events[t].provs < ProviderRetries /\ t \notin cooling
     ELSE events[t].autos < AutoRetries

\* a retry is due: an eligible death, not a repeated one, within its budget
RetryDue(t) ==
  /\ IsDead(t)
  /\ dead[t].reason \in Eligible
  /\ IF dead[t].reason = Provider
     THEN events[t].provs < ProviderRetries /\ t \notin cooling
     ELSE ~SameFailure(t) /\ events[t].autos < AutoRetries

MarkStuck(w) ==
  LET t == Smallest(todo[w]) IN
  /\ At(w, "retry")
  /\ todo[w] # {}
  /\ IsStuck(t)
  /\ dead' = [dead EXCEPT ![t].stuck = TRUE]
  /\ todo' = [todo EXCEPT ![w] = @ \ {t}]
  /\ UNCHANGED <<sealVars, done, regressed, lockVars, lastDead, cooling,
                 stateVars, pc, cur, rest, note, reaped, treeVars, worldVars>>

AutoRetry(w) ==
  /\ At(w, "retry")
  /\ todo[w] # {}
  /\ RetryDue(Smallest(todo[w]))
  /\ BeginRetry(w, Smallest(todo[w]))
  /\ UNCHANGED budget

\* nothing to do for this marker, or retrySpec refused
SkipRetry(w) ==
  LET t == Smallest(todo[w]) IN
  /\ At(w, "retry")
  /\ todo[w] # {}
  /\ ~IsStuck(t)
  /\ ~(RetryDue(t) /\ RetryAllowed(t))
  /\ todo' = [todo EXCEPT ![w] = @ \ {t}]
  /\ UNCHANGED <<markerVars, pc, cur, rest, note, reaped, treeVars, worldVars>>

EndRetries(w) ==
  /\ At(w, "retry")
  /\ todo[w] = {}
  /\ MoveOn(w, "derive")

-----------------------------------------------------------------------------
(* The state the cycle acts on is derived once, here. *)

Earlier(t) == {n \in done : n < t}

StartTask(w) ==
  /\ At(w, "derive")
  /\ Steering = {}
  /\ SpecStatus = "pending"
  /\ ~paused
  /\ cur' = [cur EXCEPT ![w] = NextTask]
  /\ todo' = [todo EXCEPT ![w] = Earlier(NextTask)]
  /\ Goto(w, "audit")
  /\ tampered' = {}
  /\ UNCHANGED <<markerVars, rest, note, reaped, green, drift, worldVars>>

StartArchive(w) ==
  /\ At(w, "derive")
  /\ Steering = {}
  /\ SpecStatus = "done"
  /\ Goto(w, "archive")
  /\ tampered' = {}
  /\ UNCHANGED <<markerVars, stepVars, green, drift, worldVars>>

LeaveAlone(w) ==
  /\ At(w, "derive")
  /\ \/ Steering # {}
     \/ SpecStatus \notin {"pending", "done"}
     \/ SpecStatus = "pending" /\ paused
  /\ NextCycle(w)
  /\ UNCHANGED <<markerVars, treeVars, worldVars>>

-----------------------------------------------------------------------------
(* auditScopeRegressions, over the tasks in todo: before the task (audit),  *)
(* again inside runTask (guard), and before the archive (recheck)           *)

Auditing(w) == \E phase \in {"audit", "guard", "recheck"} : At(w, phase)

Visited(w) == todo' = [todo EXCEPT ![w] = @ \ {Smallest(@)}]

AuditClear(w) ==
  /\ Auditing(w) /\ todo[w] # {}
  /\ drift[Smallest(todo[w])] = "same"
  /\ Visited(w)
  /\ UNCHANGED <<markerVars, pc, cur, rest, note, reaped, treeVars, worldVars>>

AuditRecertify(w) ==
  LET t == Smallest(todo[w]) IN
  /\ Auditing(w) /\ todo[w] # {}
  /\ drift[t] = "carried" /\ t \in green /\ ~IsRegressed(t)
  /\ drift' = [drift EXCEPT ![t] = "same"]
  /\ Visited(w)
  /\ UNCHANGED <<markerVars, pc, cur, rest, note, reaped, green, tampered,
                 worldVars>>

AuditRegress(w) ==
  LET t == Smallest(todo[w]) IN
  /\ Auditing(w) /\ todo[w] # {}
  /\ drift[t] # "same" /\ ~(drift[t] = "carried" /\ t \in green)
  /\ ~IsRegressed(t)
  /\ regressed' = [regressed EXCEPT ![t] = [reason |-> "scope_regression",
                                            passed |-> t \in green]]
  /\ note' = [note EXCEPT ![w] = "stale"]
  /\ Visited(w)
  /\ UNCHANGED <<sealVars, done, deathVars, lockVars, stateVars, pc, cur, rest,
                 reaped, treeVars, worldVars>>

\* an active regression is reported again, not judged again
AuditHalts(w) ==
  LET t == Smallest(todo[w]) IN
  /\ Auditing(w) /\ todo[w] # {}
  /\ drift[t] # "same" /\ IsRegressed(t)
  /\ note' = [note EXCEPT ![w] = "stale"]
  /\ Visited(w)
  /\ UNCHANGED <<markerVars, pc, cur, rest, reaped, treeVars, worldVars>>

AfterAudit(phase) ==
  CASE phase = "audit"   -> "begin"
    [] phase = "guard"   -> "lock"
    [] phase = "recheck" -> "verify"

\* defect: a regression found on the way no longer stops the lane
EndAuditBlind(w) ==
  /\ Auditing(w) /\ todo[w] = {}
  /\ Goto(w, AfterAudit(pc[w]))
  /\ todo' = [todo EXCEPT ![w] = IF pc[w] = "recheck" THEN Tasks ELSE {}]
  /\ UNCHANGED <<cur, rest, note, reaped, markerVars, treeVars, worldVars>>

EndAudit(w) ==
  /\ Auditing(w) /\ todo[w] = {}
  /\ IF note[w] = "stale"
     THEN NextCycle(w)
     ELSE /\ Goto(w, AfterAudit(pc[w]))
          /\ todo' = [todo EXCEPT ![w] = IF pc[w] = "recheck" THEN Tasks
                                         ELSE {}]
          /\ UNCHANGED <<cur, rest, note, reaped>>
  /\ UNCHANGED <<markerVars, treeVars, worldVars>>

-----------------------------------------------------------------------------
(* runTask *)

\* fail() before the lock: a dead marker and the end of the lane
Refuse(w, reason) ==
  /\ RecordDead(cur[w], reason, SealPrint)
  /\ NextCycle(w)
  /\ UNCHANGED <<sealVars, done, regressed, lockVars, lastDead, stateVars,
                 treeVars, worldVars>>

RefuseSeal(w) ==
  /\ At(w, "begin")
  /\ seal # "match"
  /\ Refuse(w, "spec_conflict")

RefuseEntry(w) ==
  /\ At(w, "begin")
  /\ seal = "match"
  /\ EntryMissing
  /\ Refuse(w, "entry_missing")

\* defect: runTask trusts the lane's audit and does not guard again
BeginUnguarded(w) ==
  /\ At(w, "begin")
  /\ seal = "match"
  /\ Goto(w, "lock")
  /\ tampered' = tampered \ {"tree"}
  /\ UNCHANGED <<markerVars, stepVars, green, drift, worldVars>>

Begin(w) ==
  /\ At(w, "begin")
  /\ seal = "match"
  /\ Goto(w, "guard")
  /\ todo' = [todo EXCEPT ![w] = Earlier(cur[w])]
  /\ tampered' = tampered \ {"tree"}
  /\ UNCHANGED <<markerVars, cur, rest, note, reaped, green, drift, worldVars>>

\* defect: the pid file is written over instead of created
AcquireTakenLock(w) ==
  /\ At(w, "lock")
  /\ lock' = [lock EXCEPT ![cur[w]] = w]
  /\ Goto(w, "gates")
  /\ UNCHANGED <<sealVars, done, deathVars, regressed, aged, stateVars,
                 stepVars, treeVars, worldVars>>

AcquireLock(w) ==
  /\ At(w, "lock")
  /\ lock[cur[w]] = Free
  /\ lock' = [lock EXCEPT ![cur[w]] = w]
  /\ Goto(w, "gates")
  /\ UNCHANGED <<sealVars, done, deathVars, regressed, aged, stateVars,
                 stepVars, treeVars, worldVars>>

\* already_running: no marker, no event
LockTaken(w) ==
  /\ At(w, "lock")
  /\ lock[cur[w]] # Free
  /\ NextCycle(w)
  /\ UNCHANGED <<markerVars, treeVars, worldVars>>

\* fail() under the lock
Fail(w, reason, print) ==
  /\ RecordDead(cur[w], reason, print)
  /\ Goto(w, "release")
  /\ UNCHANGED <<sealVars, done, regressed, lockVars, lastDead, stateVars,
                 stepVars, green, tampered, worldVars>>

\* isPreSpawnMismatch, for a task that declares no verify_starts
StartsGreen(w) == ~events[cur[w]].retried /\ cur[w] \in green

RefuseStart(w) ==
  /\ At(w, "gates")
  /\ PreSpawnFails /\ StartsGreen(w)
  /\ Fail(w, "verify_precondition", NoPrint)
  /\ UNCHANGED drift

Spawn(w) ==
  /\ At(w, "gates")
  /\ ~(PreSpawnFails /\ StartsGreen(w))
  /\ MoveOn(w, "agent")

\* the agent has edited the tree and its process is gone
AgentExits(w) ==
  /\ At(w, "agent")
  /\ \E G \in SUBSET Tasks : \E C \in SUBSET (done \ {cur[w]}) :
     \E F \in SUBSET (done \ (C \cup {cur[w]})) :
       /\ AgentsWander \/ (G \ {cur[w]} = green \ {cur[w]} /\ C \cup F = {})
       /\ \A t \in C : Carriable(t)
       /\ TreeEdit(G, C, F)
  /\ Goto(w, "judge")
  /\ UNCHANGED <<markerVars, stepVars, tampered, worldVars>>

JudgeFails(w) ==
  /\ At(w, "judge")
  /\ drift' = Measured(drift)
  /\ \E print \in Prints :
       \/ \E reason \in EarlyFailures : Fail(w, reason, print)
       \/ cur[w] \notin green /\ Fail(w, "verify_red", print)
       \/ /\ cur[w] \in green
          /\ \E reason \in LateFailures : Fail(w, reason, print)

\* pauseTaskOnUsageLimit: no marker, the task stays pending
JudgePauses(w) ==
  /\ At(w, "judge")
  /\ Spend("limit")
  /\ paused' = TRUE
  /\ drift' = Measured(drift)
  /\ Goto(w, "release")
  /\ UNCHANGED <<sealVars, done, deathVars, regressed, lockVars, archived,
                 stepVars, green, tampered, orphans, spent>>

\* writeDoneMarker, with the scope hash of the tree as it is now
JudgePasses(w) ==
  /\ At(w, "judge")
  /\ cur[w] \in green
  /\ done' = done \cup {cur[w]}
  /\ drift' = [Measured(drift) EXCEPT ![cur[w]] = "same"]
  /\ note' = [note EXCEPT ![w] = "passed"]
  /\ Goto(w, "release")
  /\ UNCHANGED <<sealVars, deathVars, regressed, lockVars, stateVars, cur,
                 loopVars, green, tampered, worldVars>>

\* defect: a failed attempt returns before it removes its lock
ReleaseOnPassOnly(w) ==
  /\ At(w, "release")
  /\ IF note[w] = "passed"
     THEN /\ FreeLock(cur[w])
          /\ Goto(w, "archive")
          /\ cur' = [cur EXCEPT ![w] = Change]
          /\ note' = [note EXCEPT ![w] = "none"]
          /\ tampered' = {}
          /\ UNCHANGED <<loopVars>>
     ELSE NextCycle(w) /\ UNCHANGED <<lockVars, tampered>>
  /\ UNCHANGED <<sealVars, done, deathVars, regressed, stateVars, green, drift,
                 worldVars>>

\* the finally block, and the lane's archive attempt after a pass
Release(w) ==
  /\ At(w, "release")
  /\ FreeLock(cur[w])
  /\ IF note[w] = "passed"
     THEN /\ Goto(w, "archive")
          /\ cur' = [cur EXCEPT ![w] = Change]
          /\ note' = [note EXCEPT ![w] = "none"]
          /\ tampered' = {}
          /\ UNCHANGED <<loopVars>>
     ELSE NextCycle(w) /\ UNCHANGED tampered
  /\ UNCHANGED <<sealVars, done, deathVars, regressed, stateVars, green, drift,
                 worldVars>>

-----------------------------------------------------------------------------
(* checkAndArchiveSpec *)

ArchiveWaits(w) ==
  /\ At(w, "archive")
  /\ SpecStatus # "done"
  /\ NextCycle(w)
  /\ UNCHANGED <<markerVars, treeVars, worldVars>>

\* defect: the archive does not look at the status
RecheckAnyStatus(w) ==
  /\ At(w, "archive")
  /\ Goto(w, "recheck")
  /\ todo' = [todo EXCEPT ![w] = done]
  /\ UNCHANGED <<markerVars, cur, rest, note, reaped, treeVars, worldVars>>

\* defect: the archive runs the verifies without the scope audit
RecheckNoScopes(w) ==
  /\ At(w, "archive")
  /\ SpecStatus = "done"
  /\ Goto(w, "verify")
  /\ todo' = [todo EXCEPT ![w] = Tasks]
  /\ UNCHANGED <<markerVars, cur, rest, note, reaped, treeVars, worldVars>>

Recheck(w) ==
  /\ At(w, "archive")
  /\ SpecStatus = "done"
  /\ Goto(w, "recheck")
  /\ todo' = [todo EXCEPT ![w] = done]
  /\ UNCHANGED <<markerVars, cur, rest, note, reaped, treeVars, worldVars>>

VerifyGreen(w) ==
  /\ At(w, "verify")
  /\ todo[w] # {}
  /\ Smallest(todo[w]) \in green
  /\ Visited(w)
  /\ UNCHANGED <<markerVars, pc, cur, rest, note, reaped, treeVars, worldVars>>

\* verifyArchiveStep records a verify_red regression of its target
RegressTarget(w, t) ==
  /\ regressed' = [regressed EXCEPT ![t] = [reason |-> "verify_red",
                                            passed |-> FALSE]]
  /\ NextCycle(w)
  /\ UNCHANGED <<sealVars, done, deathVars, lockVars, stateVars, treeVars,
                 worldVars>>

VerifyRed(w) ==
  /\ At(w, "verify")
  /\ todo[w] # {}
  /\ Smallest(todo[w]) \notin green
  /\ RegressTarget(w, Smallest(todo[w]))

EndVerify(w) ==
  /\ At(w, "verify")
  /\ todo[w] = {}
  /\ MoveOn(w, "change")

ChangeGreen(w) ==
  /\ At(w, "change")
  /\ MoveOn(w, "relocate")

ChangeRed(w) ==
  /\ At(w, "change")
  /\ ChangeReds
  /\ RegressTarget(w, Change)

Relocate(w) ==
  /\ At(w, "relocate")
  /\ archived' = TRUE
  /\ NextCycle(w)
  /\ UNCHANGED <<sealVars, done, deathVars, regressed, lockVars, paused,
                 treeVars, worldVars>>

-----------------------------------------------------------------------------
(* A human at the command line *)

\* approveSpec reads the triggers before it lints and asks
BeginApproval ==
  /\ At(Human, "idle")
  /\ Spend("command")
  /\ todo' = [todo EXCEPT ![Human] = Steering]
  /\ Goto(Human, "confirm")
  /\ UNCHANGED <<markerVars, cur, rest, note, reaped, treeVars, orphans, spent>>

\* lint fails, or the human says no
Decline ==
  /\ At(Human, "confirm")
  /\ todo' = [todo EXCEPT ![Human] = {}]
  /\ Goto(Human, "idle")
  /\ UNCHANGED <<markerVars, cur, rest, note, reaped, treeVars, worldVars>>

\* approveInPlace seals whatever the folder holds by then; the triggers read
\* before are retired next
Approve ==
  /\ At(Human, "confirm")
  /\ seal' = "match"
  /\ events' = [t \in Tasks |-> [autos |-> 0, provs |-> 0,
                              retried |-> events[t].retried]]
  /\ spent' = [t \in Tasks |-> 0]
  /\ Goto(Human, IF todo[Human] # {} THEN "retire" ELSE "idle")
  /\ UNCHANGED <<done, deathVars, regressed, lockVars, stateVars, stepVars,
                 treeVars, orphans, budget>>

\* retireSteering: a refused retry ends the command
Retire ==
  LET t == Smallest(todo[Human]) IN
  /\ At(Human, "retire")
  /\ \/ BeginRetry(Human, t)
     \/ /\ ~RetryAllowed(t)
        /\ Goto(Human, "idle")
        /\ todo' = [todo EXCEPT ![Human] = {}]
        /\ UNCHANGED <<markerVars, cur, rest, note, reaped, treeVars, orphans,
                       spent>>
  /\ UNCHANGED budget

HumanRetry ==
  /\ At(Human, "idle")
  /\ Spend("command")
  /\ \E t \in Targets : BeginRetry(Human, t)

KillHuman ==
  /\ pc[Human] # "idle"
  /\ Spend("crash")
  /\ Goto(Human, "idle")
  /\ cur' = [cur EXCEPT ![Human] = Change]
  /\ todo' = [todo EXCEPT ![Human] = {}]
  /\ rest' = [rest EXCEPT ![Human] = {}]
  /\ note' = [note EXCEPT ![Human] = "none"]
  /\ UNCHANGED <<markerVars, reaped, treeVars, orphans, spent>>

EditPlan ==
  /\ seal = "match"
  /\ Spend("plan")
  /\ seal' = "edited"
  /\ UNCHANGED <<done, deathVars, regressed, lockVars, events, stateVars,
                 localVars, treeVars, orphans, spent>>

-----------------------------------------------------------------------------
(* The rest of the world *)

\* The watcher process dies; its agent, a child of its own, does not.
Crash(w) ==
  /\ pc[w] # "down"
  /\ Spend("crash")
  /\ lock' = [t \in Tasks |-> IF lock[t] = w THEN Gone ELSE lock[t]]
  /\ orphans' = IF pc[w] = "agent" THEN orphans \cup {cur[w]} ELSE orphans
  /\ drift' = IF pc[w] = "judge" THEN Unaccounted(drift) ELSE drift
  /\ Goto(w, "down")
  /\ cur' = [cur EXCEPT ![w] = Change]
  /\ todo' = [todo EXCEPT ![w] = {}]
  /\ rest' = [rest EXCEPT ![w] = {}]
  /\ note' = [note EXCEPT ![w] = "none"]
  /\ reaped' = [reaped EXCEPT ![w] = {}]
  /\ UNCHANGED <<sealVars, done, deathVars, regressed, aged, stateVars, green,
                 tampered, spent>>

\* somebody outside the watchers edits the tree
OutsideEdit(G, T) ==
  /\ TreeEdit(G, {t \in T : Carriable(t)}, {t \in T : ~Carriable(t)})
  /\ Tamper("tree")
  /\ UNCHANGED <<markerVars, localVars, spent>>

HumanEditsTree ==
  /\ Spend("tree")
  /\ \E t \in Tasks :
       \/ OutsideEdit(green \cup {t}, done \cap {t})
       \/ OutsideEdit(green \ {t}, done \cap {t})
  /\ UNCHANGED orphans

OrphanExits ==
  /\ ~archived
  /\ \E t \in orphans :
       /\ \/ OutsideEdit(green \cup {t}, {})
          \/ OutsideEdit(green, {})
          \/ OutsideEdit(green \ {t}, done \cap {t})
       /\ orphans' = orphans \ {t}
  /\ UNCHANGED budget

LockAges ==
  /\ Spend("age")
  /\ \E t \in Tasks :
       /\ lock[t] # Free /\ t \notin aged
       /\ aged' = aged \cup {t}
  /\ UNCHANGED <<sealVars, done, deathVars, regressed, lock, stateVars,
                 localVars, treeVars, orphans, spent>>

PauseEnds ==
  /\ ~archived
  /\ paused
  /\ paused' = FALSE
  /\ UNCHANGED <<sealVars, done, deathVars, regressed, lockVars, archived,
                 localVars, treeVars, worldVars>>

DelayPasses ==
  /\ ~archived
  /\ cooling # {}
  /\ cooling' = {}
  /\ UNCHANGED <<sealVars, done, dead, regressed, lockVars, lastDead,
                 stateVars, localVars, treeVars, worldVars>>

-----------------------------------------------------------------------------
Reaping(w)   == \/ Start(w) \/ ReadLock(w) \/ MisreadLock(w) \/ PassLock(w)
                \/ UnlinkLock(w) \/ EndReap(w) \/ Bury(w) \/ EndBury(w)
Retrying(w)  == \/ MarkStuck(w) \/ AutoRetry(w) \/ SkipRetry(w)
                \/ RetainNext(w) \/ AppendRetry(w) \/ EndRetries(w)
Deriving(w)  == StartTask(w) \/ StartArchive(w) \/ LeaveAlone(w)
Checking(w)  == \/ AuditClear(w) \/ AuditRecertify(w) \/ AuditRegress(w)
                \/ AuditHalts(w) \/ EndAudit(w)
Running(w)   == \/ RefuseSeal(w) \/ RefuseEntry(w) \/ Begin(w)
                \/ AcquireLock(w) \/ LockTaken(w) \/ RefuseStart(w) \/ Spawn(w)
                \/ AgentExits(w) \/ JudgeFails(w) \/ JudgePauses(w)
                \/ JudgePasses(w) \/ Release(w)
Finishing(w) == \/ ArchiveWaits(w) \/ Recheck(w) \/ VerifyGreen(w)
                \/ VerifyRed(w) \/ EndVerify(w) \/ ChangeGreen(w)
                \/ ChangeRed(w) \/ Relocate(w)

Watch(w) == \/ Reaping(w) \/ Retrying(w) \/ Deriving(w) \/ Checking(w)
            \/ Running(w) \/ Finishing(w)

\* a command, once begun, runs on
Continue == Retire \/ RetainNext(Human) \/ AppendRetry(Human)

Time == PauseEnds \/ DelayPasses

Next ==
  \/ \E w \in Watchers : Watch(w) \/ Crash(w)
  \/ Continue
  \/ BeginApproval \/ Approve \/ Decline
  \/ HumanRetry \/ KillHuman \/ EditPlan \/ HumanEditsTree
  \/ OrphanExits \/ LockAges
  \/ Time

Spec == Init /\ [][Next]_vars

\* A watcher keeps polling and a killed one is started again; agents end by
\* taskTimeoutSeconds and verifies by verifyTimeoutSeconds; clocks advance.
\* Nobody has to crash, to type a command or to edit anything.
Fairness ==
  /\ \A w \in Watchers : WF_vars(Watch(w))
  /\ WF_vars(Continue)
  /\ WF_vars(PauseEnds)
  /\ WF_vars(DelayPasses)

FairSpec == Spec /\ Fairness

-----------------------------------------------------------------------------
(* Properties *)

(* While a watcher's agent works on a task, that task is the one due: it    *)
(* holds its lock, it is not done, dead or regressed, and every earlier     *)
(* task is done and not regressed, unless a retry caught between its two    *)
(* renames took its done marker.  deriveSpecState chose the task long       *)
(* before, and a human may have retried, approved or edited since.          *)
AgentIsDue ==
  \A w \in Watchers : pc[w] = "agent" =>
    /\ lock[cur[w]] = w
    /\ cur[w] \notin done
    /\ ~IsDead(cur[w]) /\ ~IsRegressed(cur[w])
    /\ "done" \notin tampered =>
         /\ Earlier(cur[w]) = 1..(cur[w] - 1)
         /\ \A n \in Earlier(cur[w]) : ~IsRegressed(n)

(* An agent starts on a tree whose finished tasks are as they were recorded *)
(* or were recertified, unless the tree was edited after the last audit.    *)
AuditedBeforeAgent ==
  \A w \in Watchers : pc[w] = "agent" /\ tampered = {} =>
    \A n \in Earlier(cur[w]) : drift[n] = "same"

(* An archived change is whole: every task done, none regressed, every      *)
(* task's verify green on the very tree that was archived and every scope   *)
(* as recorded, unless somebody interfered during the archive.              *)
ArchivedWhole ==
  archived /\ tampered = {} =>
    /\ done = Tasks
    /\ \A t \in Targets : ~IsRegressed(t)
    /\ green = Tasks
    /\ \A t \in Tasks : drift[t] = "same"

CrashesSoFar == Budget["crash"] - budget["crash"]

(* A task is retried automatically at most AutoRetries times between two    *)
(* approvals or manual retries, and once more for each killed process: a    *)
(* kill between a retry's rename and its event is what it can lose.         *)
SpentIsBounded == \A t \in Tasks : spent[t] <= AutoRetries + CrashesSoFar

(* README.md, "gates.autoRetries caps how many automatic retries a task     *)
(* gets since its approval or its last manual retry".                       *)
AutoRetryCap == \A t \in Tasks : spent[t] <= AutoRetries

Agents == {<<w, cur[w]>> : w \in {v \in Watchers : pc[v] = "agent"}}
          \cup {<<Gone, t>> : t \in orphans}

(* README.md, "Single active agent: One agent per change".                  *)
SingleActiveAgent == Cardinality(Agents) <= 1

InTask(w) == pc[w] \in {"gates", "agent", "judge", "release"}

\* no process was killed, no attempt outlived staleLockSeconds, and no pid
\* file was read torn: each lets a reaper unlink a lock that is another's, or
\* has become it since it was read
Undisturbed == \A k \in {"crash", "age", "torn"} : budget[k] = Budget[k]

(* Until something disturbs the locks, a watcher's lock file names it from  *)
(* acquireLock to releaseLock: no other process' reap or release took it,   *)
(* whatever the other watchers derived before and act on now.               *)
LockIsHeld == Undisturbed => \A w \in Watchers : InTask(w) => lock[cur[w]] = w

(* watcher-and-harness/spec.md, "acquires `.run/running/<n>.pid` atomically *)
(* and rejects execution if lock already exists": no two watchers are in    *)
(* the locked part of runTask for one task.                                 *)
LockExcludes ==
  \A v, w \in Watchers :
    v # w /\ InTask(v) /\ InTask(w) => cur[v] # cur[w]

(* A task marked stuck stays dead and stuck until a human's command retires *)
(* its marker: no cycle of any watcher runs it again.                       *)
StuckWaitsForHuman ==
  [][\A t \in Tasks :
       dead[t].stuck /\ ~dead'[t].stuck =>
         /\ cur'[Human] = t
         /\ pc'[Human] = "retain"]_vars

(* Left alone, the change comes to rest: archived, or in a state that only  *)
(* a human can change, with no retry due and no lock left behind.           *)
AtRest ==
  \/ archived
  \/ /\ \A w \in Watchers : pc[w] \notin LanePhases \cup ArchivePhases
     /\ \A t \in Tasks : lock[t] = Free
     /\ \/ SpecStatus \in {"unapproved", "regressed"}
        \/ SpecStatus = "dead" /\ \A t \in DeadTasks :
             ~(RetryDue(t) /\ RetryAllowed(t))

ComesToRest == <>[]AtRest

-----------------------------------------------------------------------------
(* The change as `osq status` shows it *)

StatusOf(t) ==
  IF IsRegressed(t) THEN "regressed"
  ELSE IF t \in done THEN "done"
  ELSE IF IsDead(t) THEN "dead"
  ELSE IF lock[t] # Free THEN "running"
  ELSE "pending"

Lifecycle == INSTANCE TaskLifecycle WITH
  status  <- [t \in Tasks |-> StatusOf(t)],
  closing <- \E w \in Watchers : pc[w] \in ArchivePhases \ {"archive"},
  undone  <- "done" \in tampered

(* Whatever the processes do to the markers, the statuses move as           *)
(* TaskLifecycle allows: no task becomes done without running, none starts  *)
(* beside a running, dead or regressed one, and an archive begins only when *)
(* all are done.                                                            *)
LifecycleHolds == Lifecycle!Spec
=============================================================================
