----------------------------- MODULE RunMarkers -----------------------------
(***************************************************************************)
(* The `.run/` directory of one approved change, and what osq derives from *)
(* it.  Every decision of the watcher, of `osq retry` and of `osq approve` *)
(* starts from these files; nothing else is authoritative.                 *)
(*                                                                         *)
(* Abstractions:                                                           *)
(*  - a marker is the part of its frontmatter some code reads: a reason, a *)
(*    fingerprint class and a flag.  Two markers have one fingerprint iff  *)
(*    they agree on the reason and on the fingerprint class;               *)
(*  - an event stream is the three facts read back from it: the automatic  *)
(*    retries and the provider retries since the cutoff, and whether the   *)
(*    attempt it yields is past the first; retained markers are the latest *)
(*    one, since ordinals only grow;                                       *)
(*  - the change folder's text is its relation to the approved hash;       *)
(*  - a change has no unmet dependency and runs in the checkout itself,    *)
(*    and gates.baselineVerify is unset.                                   *)
(***************************************************************************)
EXTENDS Integers, FiniteSets

CONSTANTS
  NTasks,   \* the tasks are numbered 1 .. NTasks
  Prints,   \* fingerprint classes of the failures agents and gates produce
  Watchers  \* watcher processes; a restart keeps the name and loses the locks

ASSUME NTasksAssumption == NTasks \in Nat \ {0}

Change  == 0                       \* the retry target "change"
Tasks   == 1..NTasks
Targets == {Change} \cup Tasks

Smallest(S) == CHOOSE n \in S : \A m \in S : n <= m

-----------------------------------------------------------------------------
(* Markers *)

Provider == "provider_unavailable"

\* ELIGIBLE_AUTO_RETRY_REASONS
Eligible ==
  { "verify_red", "change_verify_red", "undeclared_test_change",
    "verify_path_missing", "denied_dependency", "vcs_violation",
    "scope_violation", "own_folder_path", "no_result", "crashed", "timeout",
    Provider }

\* dead reasons that say the plan, not the attempt, is wrong
PlanReasons == {"blocked", "entry_missing"}

DeadReasons ==
  Eligible \cup PlanReasons \cup
  {"spec_conflict", "verify_precondition"}

ReaperPrint == "reaper"            \* formatReapedMarker's body, pids aside
SealPrint   == "seal"              \* the bodies runTask writes before the lock
NoPrint     == "no print"
AllPrints   == Prints \cup {ReaperPrint, SealPrint, NoPrint}

DeadMarkers == [reason : DeadReasons, print : AllPrints, stuck : BOOLEAN]
NoDead      == [reason |-> "none", print |-> NoPrint, stuck |-> FALSE]

RegressedMarkers ==
  [reason : {"scope_regression", "verify_red"}, passed : BOOLEAN]
NoRegressed      == [reason |-> "none", passed |-> FALSE]

\* who a lock file's pid belongs to: nobody, a live watcher, a stopped one
Free == "free"
Gone == "gone"
Owners == Watchers \cup {Free, Gone}

Seals == {"none", "match", "edited"}

VARIABLES
  seal,       \* .run/approved against hashChangeFolder
  done,       \* tasks with .run/done/<n>
  dead,       \* .run/dead/<n>.md
  regressed,  \* .run/regressed/<n>.md and .run/regressed/change.md
  lock,       \* .run/running/<n>.pid
  aged,       \* tasks whose lock is older than staleLockSeconds
  lastDead,   \* the retained dead marker with the highest ordinal
  events,     \* what readStream's callers count in .run/events/<n>.jsonl
  cooling,    \* tasks whose latest dead event is a provider death too recent
  paused,     \* .run/paused.md holds a time still to come
  archived    \* the folder has moved to the archive

markerVars == <<seal, done, dead, regressed, lock, aged, lastDead, events,
                cooling, paused, archived>>

Streams   == [autos : Nat, provs : Nat, retried : BOOLEAN]
NewStream == [autos |-> 0, provs |-> 0, retried |-> FALSE]

MarkersTypeOK ==
  /\ seal \in Seals
  /\ done \in SUBSET Tasks
  /\ dead \in [Tasks -> DeadMarkers \cup {NoDead}]
  /\ regressed \in [Targets -> RegressedMarkers \cup {NoRegressed}]
  /\ lock \in [Tasks -> Owners]
  /\ aged \in SUBSET Tasks
  /\ lastDead \in [Tasks -> DeadMarkers \cup {NoDead}]
  /\ events \in [Tasks -> Streams]
  /\ cooling \in SUBSET Tasks
  /\ paused \in BOOLEAN
  /\ archived \in BOOLEAN

MarkersInit ==
  /\ seal = "none"
  /\ done = {}
  /\ dead = [t \in Tasks |-> NoDead]
  /\ regressed = [t \in Targets |-> NoRegressed]
  /\ lock = [t \in Tasks |-> Free]
  /\ aged = {}
  /\ lastDead = [t \in Tasks |-> NoDead]
  /\ events = [t \in Tasks |-> NewStream]
  /\ cooling = {}
  /\ paused = FALSE
  /\ archived = FALSE

-----------------------------------------------------------------------------
(* deriveSpecState: the regressed marker wins over done, done over dead,   *)
(* dead over the lock.                                                     *)

IsDead(t)      == dead[t] # NoDead
IsRegressed(t) == regressed[t] # NoRegressed

RegressedTasks == {t \in Tasks : IsRegressed(t)}
DoneTasks      == done \ RegressedTasks
DeadTasks      == {t \in Tasks \ (RegressedTasks \cup done) : IsDead(t)}
RunningTasks   == {t \in Tasks \ (RegressedTasks \cup done \cup DeadTasks) :
                     lock[t] # Free}
PendingTasks   == Tasks \ (RegressedTasks \cup done \cup DeadTasks
                           \cup RunningTasks)

NextTask == Smallest(PendingTasks)

SpecStatus ==
  IF seal = "none" THEN "unapproved"
  ELSE IF RegressedTasks # {} \/ IsRegressed(Change) THEN "regressed"
  ELSE IF DeadTasks # {} THEN "dead"
  ELSE IF RunningTasks # {} THEN "running"
  ELSE IF DoneTasks = Tasks THEN "done"
  ELSE "pending"

-----------------------------------------------------------------------------
(* deriveSteering: the targets that need a new plan.                       *)

TaskTrigger(t) ==
  \/ /\ IsRegressed(t)
     /\ ~(regressed[t].reason = "scope_regression" /\ regressed[t].passed)
  \/ /\ t \in DeadTasks
     /\ dead[t].reason \in PlanReasons \/ dead[t].stuck

ChangeTrigger == regressed[Change].reason = "verify_red"

Steering ==
  IF seal = "none"
  THEN {}
  ELSE {t \in Tasks : TaskTrigger(t)} \cup {c \in {Change} : ChangeTrigger}

\* the fingerprint of the active death equals the most recent retained one's
SameFailure(t) ==
  /\ lastDead[t] # NoDead
  /\ lastDead[t].reason = dead[t].reason
  /\ lastDead[t].print = dead[t].print
=============================================================================
