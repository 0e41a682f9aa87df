------------------------------ MODULE Approval ------------------------------
(***************************************************************************)
(* Where one change is while it is approved with git: a draft in the       *)
(* checkout, a stacked approval that waits for the change it depends on,   *)
(* a branch with a linked worktree.  osq approve, osq reject and the       *)
(* watcher's cut move it between them in many steps, each a write or a git *)
(* command; a kill may fall between any two, and the commands may fail.    *)
(*                                                                         *)
(* Abstractions:                                                           *)
(*  - a plan is its version: an edit makes the next one; a seal is the     *)
(*    version that was hashed, and fits while the copy still has it;       *)
(*  - one declared dependency, and a version of it stands for its hash;    *)
(*    overlap lines and branches that diverge are left out;                *)
(*  - of what a change does in its worktree only its stops are left;       *)
(*  - reads and writes of files succeed, git and vcs.prepare may not;      *)
(*  - one human command at a time, and one watcher, which is not started   *)
(*    while a command runs;                                                *)
(*  - how often the environment acts is capped by a member of Budgets.     *)
(***************************************************************************)
EXTENDS Integers, FiniteSets

CONSTANTS
  NPlans,     \* versions of the plan
  NVersions,  \* versions of the dependency
  Budgets     \* how many commands, kills, failing commands, stops of the
              \* change, moves of the dependency and edits a run has

Kinds == {"command", "kill", "fail", "stop", "dep", "edit"}
Plans == 1..NPlans
Versions == 1..NVersions
None == 0

ASSUME BoundsAssumption ==
  /\ NPlans \in Nat \ {0}
  /\ NVersions \in Nat \ {0}
  /\ Budgets \subseteq [Kinds -> Nat]

VARIABLES
  draft,    \* the folder in the checkout
  tracked,  \* the checkout's HEAD holds that folder
  stacked,  \* the copy under .stacked
  branch,   \* osq/<folder>: what its tip holds of the change
  tree,     \* its linked worktree: what is on disk
  kept,     \* plans on branches that were renamed aside
  dep,      \* the dependency
  latest,   \* the newest version of the plan
  op,       \* the human's command
  cut,      \* the watcher's cut
  budget,
  reviewed, \* history: plans some approval's digest was built from
  unseen,   \* history: plans a steered approval hashed after its prompt
  last,     \* history: the plan of the last approval that took effect
  odd       \* history: what met that is not meant to meet

placeVars   == <<draft, stacked, branch, tree, kept>>
historyVars == <<reviewed, unseen, last, odd>>
envVars     == <<tracked, dep, latest, budget>>
aVars       == <<placeVars, historyVars, envVars, op, cut>>

Stops == {"dead", "sync_conflict", "dependency_changed", "stack_cut_failed"}

Copies == [plan : Plans \cup {None},
           seal : Plans \cup {None},      \* .run/approved
           on   : Versions \cup {None},   \* .run/stacked-on
           stop : Stops \cup {"none"}]    \* its dead or regressed marker
Nothing == [plan |-> None, seal |-> None, on |-> None, stop |-> "none"]

\* "gone": no branch or worktree; "bare": it does not hold the change
Spots == {"gone", "bare", "changes", "rejected"}
Branches == [at : Spots, copy : Copies,
             base : Versions \cup {None},  \* the dependency its base holds
             by : {"approval", "cut"}]     \* who created it
Trees == [at : Spots, copy : Copies]
NoBranch == [at |-> "gone", copy |-> Nothing, base |-> None,
             by |-> "approval"]
NoTree == [at |-> "gone", copy |-> Nothing]

Paths == {"fresh", "steer", "restart", "reject"}
OpPhases == {"idle", "claim", "review", "prompt", "copy", "mark", "await",
             "branch", "add", "prepare", "seal", "commit", "withdraw", "clear",
             "retire", "replan", "remove", "keep", "record", "drop"}
Ops == [pc : OpPhases, path : Paths,
        hash : Plans \cup {None}, on : Versions \cup {None},
        base : Versions \cup {None}, aside : Plans \cup {None},
        restored : BOOLEAN]
NoOp == [pc |-> "idle", path |-> "fresh", hash |-> None, on |-> None,
         base |-> None, aside |-> None, restored |-> FALSE]

CutPhases == {"idle", "branch", "add", "prepare", "commit", "withdraw"}
Cuts == [pc : CutPhases, base : {"main", "dependency"}]
NoCut == [pc |-> "idle", base |-> "main"]

\* "overlap": the cut ran or a planner began beside a command, or the
\* dependency moved under the cut;
\* "half": a stacked approval without its last file was cut; "unread": the
\* dependency landed in another version; "reused": an approval left the
\* branch of the cut; "leftover": a copy stayed beside the branch;
\* "uncommitted": a commit that failed or was killed left a sealed worktree
\* before a stacked copy
Oddities == {"overlap", "half", "unread", "reused", "leftover", "uncommitted"}

PTypeOK ==
  /\ draft \in Plans \cup {None}
  /\ tracked \in BOOLEAN
  /\ stacked \in Copies
  /\ branch \in Branches
  /\ tree \in Trees
  /\ kept \subseteq Plans \cup {None}
  /\ dep \in [state : {"approved", "archived", "landed", "unapproved"},
              version : Versions]
  /\ latest \in Plans
  /\ op \in Ops
  /\ cut \in Cuts
  /\ budget \in [Kinds -> Nat]
  /\ reviewed \subseteq Plans
  /\ unseen \subseteq Plans
  /\ last \in Plans \cup {None}
  /\ odd \subseteq Oddities

PInit ==
  /\ draft = 1 /\ tracked \in BOOLEAN
  /\ stacked = Nothing /\ branch = NoBranch /\ tree = NoTree /\ kept = {}
  /\ dep \in [state : {"approved", "unapproved"}, version : {1}]
  /\ latest = 1
  /\ op = NoOp /\ cut = NoCut
  /\ budget \in Budgets
  /\ reviewed = {} /\ unseen = {} /\ last = None /\ odd = {}

-----------------------------------------------------------------------------
(* Where the change is found, and what is read of its dependency *)

Spend(kind) == /\ budget[kind] > 0
               /\ budget' = [budget EXCEPT ![kind] = @ - 1]

At(path, phase) == op.path = path /\ op.pc = phase
To(phase) == op' = [op EXCEPT !.pc = phase]
Note(what, when) == odd' = IF when THEN odd \cup {what} ELSE odd

\* holdsChange: such a worktree names the folder, and hides the other places
Names == \/ tree.at = "changes" /\ tree.copy.seal # None
         \/ tree.at = "rejected"

\* listChanges, findChange: the one place the active change is found in
InWorktree == tree.at = "changes" /\ tree.copy.seal # None
InStack    == ~Names /\ stacked # Nothing
InCheckout == ~Names /\ stacked = Nothing /\ draft # None

Checkout(b) == [at |-> b.at, copy |-> b.copy]
Sealed(b) == b.at = "changes" /\ b.copy.seal # None

\* the version of the dependency a commit made now would find
OnMain   == IF dep.state = "landed" THEN dep.version ELSE None
OnBranch == IF dep.state \in {"archived", "landed"} THEN dep.version ELSE None

\* awaitedDependencies
Awaited == dep.state \in {"approved", "archived"}

\* plans held by more than the draft
Elsewhere == {stacked.plan, tree.copy.plan, branch.copy.plan, op.aside}
             \cup kept

-----------------------------------------------------------------------------
(* osq approve *)

Start(path, phase) ==
  /\ op.pc = "idle"
  /\ Spend("command")
  /\ Note("overlap", cut.pc # "idle")
  /\ op' = [NoOp EXCEPT !.path = path, !.pc = phase]
  /\ UNCHANGED <<stacked, branch, tree, kept, tracked, dep, latest, cut,
                 reviewed, unseen, last>>

ApproveDraft == InCheckout /\ Start("fresh", "claim") /\ UNCHANGED draft

\* restoreStackedDraft, and the checkout's copy of it is what is approved
ApproveStacked ==
  /\ op.pc = "idle" /\ InStack /\ stacked.plan # None
  /\ Spend("command")
  /\ Note("overlap", cut.pc # "idle")
  /\ draft' = stacked.plan
  /\ op' = [NoOp EXCEPT !.pc = "claim", !.restored = TRUE]
  /\ UNCHANGED <<stacked, branch, tree, kept, tracked, dep, latest, cut,
                 reviewed, unseen, last>>

ApproveSteered ==
  /\ InWorktree
  /\ \/ tree.copy.stop = "dead" /\ Start("steer", "review")
     \/ tree.copy.stop = "sync_conflict" /\ Start("restart", "review")
  /\ UNCHANGED draft

\* an approval that throws takes the restored draft away again
Throw ==
  /\ op' = NoOp
  /\ draft' = IF op.restored THEN None ELSE draft

\* claimBranch, and the hash of what is in the checkout at this moment
Claim ==
  /\ op.pc = "claim"
  /\ \/ /\ branch.at = "gone" /\ UNCHANGED <<branch, kept>>
     \/ /\ branch.at = "rejected" /\ tree.at = "gone"
        /\ kept' = kept \cup {branch.copy.plan}
        /\ branch' = NoBranch
  /\ op' = [op EXCEPT !.pc = "review", !.hash = draft, !.base = OnMain]
  /\ UNCHANGED <<draft, stacked, tree, historyVars, envVars, cut>>

ClaimRefused ==
  /\ op.pc = "claim"
  /\ branch.at # "gone" /\ ~(branch.at = "rejected" /\ tree.at = "gone")
  /\ Throw
  /\ UNCHANGED <<stacked, branch, tree, kept, historyVars, envVars, cut>>

\* confirmApproval: the digest is built, then somebody reads it
Review ==
  /\ op.pc = "review"
  /\ reviewed' = reviewed \cup
       ({IF op.path = "fresh" THEN draft ELSE tree.copy.plan} \ {None})
  /\ To("prompt")
  /\ UNCHANGED <<placeVars, envVars, cut, unseen, last, odd>>

Decline ==
  /\ op.pc = "prompt"
  /\ Throw
  /\ UNCHANGED <<stacked, branch, tree, kept, historyVars, envVars, cut>>

Confirm ==
  /\ op.pc = "prompt" /\ ~(op.path = "fresh" /\ Awaited)
  /\ To([fresh |-> "branch", steer |-> "seal", restart |-> "replan"][op.path])
  /\ UNCHANGED <<placeVars, historyVars, envVars, cut>>

\* recordStackedApproval: the old copy goes before the new one comes
ConfirmStacked ==
  /\ At("fresh", "prompt") /\ Awaited
  /\ stacked' = Nothing
  /\ last' = IF last = draft THEN last ELSE None
  /\ op' = [op EXCEPT !.pc = "copy", !.on = dep.version, !.base = None]
  /\ UNCHANGED <<draft, branch, tree, kept, envVars, cut, reviewed, unseen,
                 odd>>

CopyStacked ==
  /\ op.pc = "copy"
  /\ stacked' = [stacked EXCEPT !.plan = draft]
  /\ To("mark")
  /\ UNCHANGED <<draft, branch, tree, kept, historyVars, envVars, cut>>

\* defect: the folder is hashed after the prompt
SealStackedNow ==
  /\ op.pc = "mark"
  /\ stacked' = [stacked EXCEPT !.seal = stacked.plan]
  /\ op' = [op EXCEPT !.pc = "await", !.hash = None]
  /\ UNCHANGED <<draft, branch, tree, kept, historyVars, envVars, cut>>

SealStacked ==
  /\ op.pc = "mark"
  /\ stacked' = [stacked EXCEPT !.seal = op.hash]
  /\ op' = [op EXCEPT !.pc = "await", !.hash = None]
  /\ UNCHANGED <<draft, branch, tree, kept, historyVars, envVars, cut>>

\* .run/stacked-on comes last, after git was asked who approves
WriteStackedOn ==
  /\ op.pc = "await"
  /\ stacked' = [stacked EXCEPT !.on = op.on]
  /\ last' = IF stacked.plan = stacked.seal THEN stacked.plan ELSE None
  /\ op' = [NoOp EXCEPT !.pc = "clear"]
  /\ UNCHANGED <<draft, branch, tree, kept, envVars, cut, reviewed, unseen,
                 odd>>

\* removeCheckoutDraft
Clear ==
  /\ op.pc = "clear"
  /\ draft' = IF tracked THEN draft ELSE None
  /\ op' = NoOp
  /\ UNCHANGED <<stacked, branch, tree, kept, historyVars, envVars, cut>>

\* approveIntoNewWorktree, and from "branch" to "commit" a restart as well
CreateBranch ==
  /\ op.pc = "branch" /\ branch.at = "gone"
  /\ branch' = [NoBranch EXCEPT !.at = "bare",
                  !.base = IF op.path = "restart" THEN OnMain ELSE op.base]
  /\ op' = [op EXCEPT !.pc = "add", !.base = None]
  /\ UNCHANGED <<draft, stacked, tree, kept, historyVars, envVars, cut>>

AddTree ==
  /\ op.pc = "add" /\ tree.at = "gone"
  /\ tree' = Checkout(branch)
  /\ To("prepare")
  /\ UNCHANGED <<draft, stacked, branch, kept, historyVars, envVars, cut>>

\* git refuses what exists already
GitRefuses ==
  /\ \/ op.pc = "branch" /\ branch.at # "gone"
     \/ op.pc = "add" /\ tree.at # "gone"
  /\ Throw
  /\ UNCHANGED <<stacked, branch, tree, kept, historyVars, envVars, cut>>

Place ==
  /\ op.pc = "prepare"
  /\ tree' = [at |-> "changes", copy |-> [Nothing EXCEPT
                !.plan = IF op.path = "restart" THEN op.aside ELSE draft]]
  /\ op' = [op EXCEPT !.pc = "seal", !.aside = None]
  /\ UNCHANGED <<draft, stacked, branch, kept, historyVars, envVars, cut>>

\* writeApprovalSeal: a fresh approval writes the hash it took before the
\* digest, a steered one hashes the folder as it is now
Reseals == op.path # "fresh"
WriteSeal ==
  /\ op.pc = "seal"
  /\ LET seal == IF Reseals THEN tree.copy.plan ELSE op.hash
     IN tree' = [tree EXCEPT !.copy.seal = seal]
  /\ unseen' = unseen \cup (IF Reseals THEN {tree.copy.plan} \ {None} ELSE {})
  /\ last' = IF op.path = "steer" THEN tree.copy.plan ELSE last
  /\ op' = [op EXCEPT !.pc = "commit",
                       !.hash = IF Reseals THEN tree.copy.seal ELSE None]
  /\ UNCHANGED <<draft, stacked, branch, kept, envVars, cut, reviewed, odd>>

CommitApproved ==
  /\ op.pc = "commit"
  /\ branch' = [branch EXCEPT !.at = tree.at, !.copy = tree.copy]
  /\ last' = IF tree.copy.plan = tree.copy.seal THEN tree.copy.plan ELSE None
  /\ op' = [NoOp EXCEPT !.pc = [fresh |-> "withdraw", steer |-> "retire",
                                restart |-> "idle"][op.path]]
  /\ UNCHANGED <<draft, stacked, tree, kept, envVars, cut, reviewed, unseen,
                 odd>>

\* a steered approval puts the seal it found back
CommitFails ==
  /\ op.pc = "commit"
  /\ Spend("fail")
  /\ IF op.path = "steer"
     THEN /\ tree' = [tree EXCEPT !.copy.seal = op.hash]
          /\ last' = IF tree.copy.plan = op.hash THEN op.hash ELSE None
     ELSE UNCHANGED <<tree, last>>
  /\ Throw
  /\ Note("uncommitted", stacked # Nothing)
  /\ UNCHANGED <<stacked, branch, kept, tracked, dep, latest, cut, reviewed,
                 unseen>>

\* vcs.prepare, the approver's name, the removal of a worktree
CommandFails ==
  /\ op.pc \in {"prepare", "await", "replan", "remove"}
  /\ Spend("fail")
  /\ Throw
  /\ UNCHANGED <<stacked, branch, tree, kept, tracked, dep, latest,
                 historyVars, cut>>

\* defect: a rejected stacked approval is not withdrawn
WithdrawApproved ==
  /\ op.pc = "withdraw"
  /\ IF op.path = "fresh" THEN To("clear") /\ stacked' = Nothing /\ UNCHANGED last
     ELSE op' = NoOp /\ last' = None /\ UNCHANGED stacked
  /\ UNCHANGED <<draft, branch, tree, kept, envVars, cut, reviewed, unseen,
                 odd>>

\* the stacked copy of what now has a branch, or of what is rejected
Withdraw ==
  /\ op.pc = "withdraw"
  /\ stacked' = Nothing
  /\ IF op.path = "fresh" THEN To("clear") /\ UNCHANGED last
     ELSE op' = NoOp /\ last' = None
  /\ UNCHANGED <<draft, branch, tree, kept, envVars, cut, reviewed, unseen,
                 odd>>

\* retireSteering, which retries and so throws when the plan was edited since
\* its seal: the approval is committed then, and the stop stays
Retire ==
  /\ op.pc = "retire"
  /\ tree' = IF tree.copy.seal = tree.copy.plan
             THEN [tree EXCEPT !.copy.stop = "none"] ELSE tree
  /\ op' = NoOp
  /\ UNCHANGED <<draft, stacked, branch, kept, historyVars, envVars, cut>>

-----------------------------------------------------------------------------
(* approveDefaultBranchSteering after a conflict: the change starts again *)

\* the plan it leaves is committed as it stands, and copied aside
Replan ==
  /\ op.pc = "replan"
  /\ branch' = [branch EXCEPT !.at = tree.at, !.copy = tree.copy]
  /\ op' = [op EXCEPT !.pc = "remove", !.aside = tree.copy.plan]
  /\ UNCHANGED <<draft, stacked, tree, kept, historyVars, envVars, cut>>

\* git removes a worktree only when nothing in it is uncommitted
RemoveTree ==
  /\ op.pc = "remove"
  /\ IF tree = Checkout(branch) THEN tree' = NoTree /\ To("keep")
     ELSE op' = NoOp /\ UNCHANGED tree
  /\ UNCHANGED <<draft, stacked, branch, kept, historyVars, envVars, cut>>

KeepBranch ==
  /\ op.pc = "keep"
  /\ kept' = kept \cup {branch.copy.plan}
  /\ branch' = NoBranch
  /\ To("branch")
  /\ UNCHANGED <<draft, stacked, tree, historyVars, envVars, cut>>

-----------------------------------------------------------------------------
(* osq reject, osq retry *)

\* assertRejectable: a healthy approved change is not rejected
RejectStacked ==
  /\ op.pc = "idle" /\ InStack
  /\ stacked.seal = None \/ stacked.stop # "none"
  /\ Spend("command")
  /\ Note("overlap", cut.pc # "idle")
  /\ draft' = stacked.plan
  /\ op' = [NoOp EXCEPT !.path = "reject", !.pc = "withdraw"]
  /\ UNCHANGED <<stacked, branch, tree, kept, tracked, dep, latest, cut,
                 reviewed, unseen, last>>

RejectInWorktree ==
  /\ op.pc = "idle" /\ InWorktree /\ tree.copy.stop # "none"
  /\ Spend("command")
  /\ Note("overlap", cut.pc # "idle")
  /\ tree' = [tree EXCEPT !.at = "rejected"]
  /\ last' = None
  /\ op' = [NoOp EXCEPT !.path = "reject", !.pc = "record"]
  /\ UNCHANGED <<draft, stacked, branch, kept, tracked, dep, latest, cut,
                 reviewed, unseen>>

\* commitRejectedWorktree: a failure keeps the worktree and throws nothing
CommitRejected ==
  /\ op.pc = "record"
  /\ branch' = [branch EXCEPT !.at = tree.at, !.copy = tree.copy]
  /\ To("drop")
  /\ UNCHANGED <<draft, stacked, tree, kept, historyVars, envVars, cut>>

DropTree ==
  /\ op.pc = "drop"
  /\ tree' = NoTree
  /\ op' = NoOp
  /\ UNCHANGED <<draft, stacked, branch, kept, historyVars, envVars, cut>>

RejectFails ==
  /\ op.pc \in {"record", "drop"}
  /\ Spend("fail")
  /\ op' = NoOp
  /\ UNCHANGED <<placeVars, tracked, dep, latest, historyVars, cut>>

\* retrySpec refuses a plan that does not match its seal
Retry ==
  /\ op.pc = "idle"
  /\ Spend("command")
  /\ \/ /\ InStack /\ stacked.stop # "none"
        /\ stacked.seal # None /\ stacked.seal = stacked.plan
        /\ stacked' = [stacked EXCEPT !.stop = "none"]
        /\ UNCHANGED tree
     \/ /\ InWorktree /\ tree.copy.stop # "none"
        /\ tree.copy.seal = tree.copy.plan
        /\ tree' = [tree EXCEPT !.copy.stop = "none"]
        /\ UNCHANGED stacked
  /\ UNCHANGED <<draft, branch, kept, tracked, dep, latest, historyVars, op,
                 cut>>

-----------------------------------------------------------------------------
(* The watcher: decideStackCut and cutStackedChange *)

Visited == cut.pc = "idle" /\ InStack /\ stacked.stop = "none"

\* defect: the hash of the dependency is not compared
ChangedState == stacked.on # None /\ dep.state = "unapproved"

\* a dependency that is not approved any more, or approved again
Changed == /\ stacked.on # None
           /\ \/ dep.state = "unapproved"
              \/ Awaited /\ dep.version # stacked.on

HaltChanged ==
  /\ Visited /\ Changed
  /\ stacked' = [stacked EXCEPT !.stop = "dependency_changed"]
  /\ UNCHANGED <<draft, branch, tree, kept, historyVars, envVars, op, cut>>

\* defect: a dependency that landed is not among those that are ready
ReadyOnBranch == ~Changed /\ (stacked.on = None \/ dep.state = "archived")

\* without a line to read nothing is waited for
Ready == ~Changed /\ (stacked.on = None \/ dep.state \in {"archived", "landed"})

Decide ==
  /\ Visited /\ Ready
  /\ cut' = [pc |-> "branch",
             base |-> IF stacked.on # None /\ dep.state = "archived"
                      THEN "dependency" ELSE "main"]
  /\ odd' = odd \cup (IF op.pc # "idle" THEN {"overlap"} ELSE {})
                  \cup (IF stacked.on = None THEN {"half"}
                        ELSE IF dep.state = "landed" /\ dep.version # stacked.on
                        THEN {"unread"} ELSE {})
  /\ UNCHANGED <<placeVars, envVars, op, reviewed, unseen, last>>

CutTo(phase) == cut' = [cut EXCEPT !.pc = phase]

CutBranch ==
  /\ cut.pc = "branch"
  /\ branch' = IF branch.at # "gone" THEN branch
               ELSE [NoBranch EXCEPT !.at = "bare", !.by = "cut",
                       !.base = IF cut.base = "main" THEN OnMain ELSE OnBranch]
  /\ Note("reused", branch.at # "gone" /\ branch.by = "approval")
  /\ CutTo("add")
  /\ UNCHANGED <<draft, stacked, tree, kept, envVars, op, reviewed, unseen,
                 last>>

CutAdd ==
  /\ cut.pc = "add"
  /\ tree' = IF tree.at = "gone" THEN Checkout(branch) ELSE tree
  /\ CutTo("prepare")
  /\ UNCHANGED <<draft, stacked, branch, kept, historyVars, envVars, op>>

\* defect: a branch that exists counts as one that holds the change
CutFindsBranch ==
  /\ cut.pc = "prepare"
  /\ CutTo("withdraw")
  /\ UNCHANGED <<placeVars, historyVars, envVars, op>>

\* what the branch's tip holds already is not copied again
CutFinds ==
  /\ cut.pc = "prepare" /\ Sealed(branch)
  /\ CutTo("withdraw")
  /\ UNCHANGED <<placeVars, historyVars, envVars, op>>

CutCopy ==
  /\ cut.pc = "prepare" /\ ~Sealed(branch) /\ stacked.plan # None
  /\ tree' = [at |-> "changes", copy |-> stacked]
  /\ CutTo("commit")
  /\ UNCHANGED <<draft, stacked, branch, kept, historyVars, envVars, op>>

CutCommit ==
  /\ cut.pc = "commit"
  /\ branch' = [branch EXCEPT !.at = tree.at, !.copy = tree.copy]
  /\ CutTo("withdraw")
  /\ UNCHANGED <<draft, stacked, tree, kept, historyVars, envVars, op>>

CutWithdraw ==
  /\ cut.pc = "withdraw"
  /\ stacked' = Nothing
  /\ cut' = NoCut
  /\ UNCHANGED <<draft, branch, tree, kept, historyVars, envVars, op>>

\* defect: the halt of a change in a worktree is used for one without
HaltCommit == /\ stacked' = [stacked EXCEPT !.stop = "commit_failed"]
              /\ cut' = NoCut

HaltCut == /\ stacked' = [stacked EXCEPT !.stop = "stack_cut_failed"]
           /\ cut' = NoCut

\* vcs.prepare or the commit fails
CutFails ==
  /\ cut.pc \in {"prepare", "commit"}
  /\ Spend("fail")
  /\ HaltCut
  /\ Note("uncommitted", cut.pc = "commit")
  /\ UNCHANGED <<draft, branch, tree, kept, tracked, dep, latest, op, reviewed,
                 unseen, last>>

\* the worktree's folder is removed, then there is no copy to take
CutFindsNothing ==
  /\ cut.pc = "prepare" /\ ~Sealed(branch) /\ stacked.plan = None
  /\ tree' = IF tree.at = "changes" THEN [at |-> "bare", copy |-> Nothing]
             ELSE tree
  /\ HaltCut
  /\ UNCHANGED <<draft, branch, kept, historyVars, envVars, op>>

\* recreateWorktrees when a watch begins
RecreateTree ==
  /\ cut.pc = "idle" /\ op.pc = "idle"
  /\ tree.at = "gone" /\ Sealed(branch)
  /\ tree' = Checkout(branch)
  /\ UNCHANGED <<draft, stacked, branch, kept, historyVars, envVars, op, cut>>

-----------------------------------------------------------------------------
(* The rest of the world *)

\* somebody edits a plan, in whichever place; the approval it had is history
\* when the change is found there, or when no other place but a draft holds
\* that plan
Outdates(found, others) ==
  last' = IF found \/ last \notin others \cup kept \cup {branch.copy.plan, op.aside}
          THEN None ELSE last

Edit ==
  /\ latest < NPlans /\ Spend("edit")
  /\ latest' = latest + 1
  /\ \/ /\ draft # None /\ draft' = latest'
        /\ Outdates(FALSE, {stacked.plan, tree.copy.plan})
        /\ UNCHANGED <<stacked, tree>>
     \/ /\ stacked.plan # None
        /\ stacked' = [stacked EXCEPT !.plan = latest']
        /\ Outdates(InStack /\ last = stacked.plan, {tree.copy.plan})
        /\ UNCHANGED <<draft, tree>>
     \/ /\ tree.at = "changes" /\ tree.copy.plan # None
        /\ tree' = [tree EXCEPT !.copy.plan = latest']
        /\ Outdates(InWorktree /\ last = tree.copy.plan, {stacked.plan})
        /\ UNCHANGED <<draft, stacked>>
  /\ UNCHANGED <<branch, kept, tracked, dep, op, cut, reviewed, unseen, odd>>

\* the change runs once its approval is committed, and something stops it;
\* commitDeadTask commits a dead marker by itself, a conflict is not committed
ChangeStops ==
  /\ InWorktree /\ Sealed(branch) /\ tree.copy.stop = "none"
  /\ Spend("stop")
  /\ \E stop \in {"dead", "sync_conflict"} :
       /\ tree' = [tree EXCEPT !.copy.stop = stop]
       /\ branch' = IF stop = "dead" THEN [branch EXCEPT !.copy.stop = stop]
                    ELSE branch
  /\ UNCHANGED <<draft, stacked, kept, tracked, dep, latest, historyVars, op,
                 cut>>

\* readDependencyState: the dependency is approved, archives, lands, is
\* rejected, and is approved again, as it was or changed
DependencyMoves ==
  /\ Spend("dep")
  /\ \/ dep.state = "approved" /\ dep' = [dep EXCEPT !.state = "archived"]
     \/ dep.state = "archived" /\ dep' = [dep EXCEPT !.state = "landed"]
     \/ dep.state = "approved" /\ dep' = [dep EXCEPT !.state = "unapproved"]
     \/ /\ dep.state \in {"archived", "unapproved"}
        /\ \E v \in Versions : dep' = [state |-> "approved", version |-> v]
  /\ Note("overlap", cut.pc = "branch")
  /\ UNCHANGED <<placeVars, tracked, latest, op, cut, reviewed, unseen, last>>

Kill ==
  /\ Spend("kill")
  /\ \/ /\ op.pc # "idle" /\ op' = NoOp /\ UNCHANGED cut
        /\ odd' = odd \cup (IF stacked = Nothing THEN {}
                           ELSE IF At("fresh", "withdraw") THEN {"leftover"}
                           ELSE IF op.pc = "commit" THEN {"uncommitted"}
                           ELSE {})
     \/ /\ cut.pc # "idle" /\ cut' = NoCut /\ UNCHANGED op
        /\ odd' = odd \cup (CASE cut.pc = "withdraw" -> {"leftover"}
                             [] cut.pc = "commit" -> {"uncommitted"}
                             [] OTHER -> {})
  /\ UNCHANGED <<placeVars, tracked, dep, latest, reviewed, unseen, last>>

-----------------------------------------------------------------------------
Approves == \/ ApproveDraft \/ ApproveStacked \/ ApproveSteered
            \/ Claim \/ ClaimRefused \/ Review \/ Decline \/ Confirm
            \/ ConfirmStacked \/ CopyStacked \/ SealStacked \/ WriteStackedOn
            \/ CreateBranch \/ AddTree \/ GitRefuses \/ Place
            \/ WriteSeal \/ CommitApproved \/ CommitFails \/ CommandFails
            \/ Withdraw \/ Clear \/ Retire
            \/ Replan \/ RemoveTree \/ KeepBranch

Rejects == \/ RejectStacked \/ RejectInWorktree \/ CommitRejected
           \/ DropTree \/ RejectFails \/ Retry

Cutting == \/ HaltChanged \/ Decide \/ CutBranch \/ CutAdd \/ CutFinds
           \/ CutCopy \/ CutCommit \/ CutWithdraw \/ CutFails
           \/ CutFindsNothing

World == Edit \/ ChangeStops \/ DependencyMoves \/ Kill \/ RecreateTree

PNext == Approves \/ Rejects \/ Cutting \/ World

\* the watcher polls, and a killed one is started again
PSpec == PInit /\ [][PNext]_aVars /\ WF_aVars(Cutting)

-----------------------------------------------------------------------------
(* Properties *)

Runs == InWorktree /\ Sealed(branch)

\* What is sealed was read: a copy whose seal fits it, in whichever place,
\* holds a plan an approval's digest was built from.  Only the steered paths,
\* which hash after their prompt (approve-steer.ts:106), may seal one nobody
\* saw; a worktree or stacked approval hashes before its digest
\* (approve-worktree.ts:194), so an edit during the prompt breaks its seal.
\* An approval beside a cut is excluded: the cut copies a plan of its own into
\* the worktree that is about to be sealed (stack-cut.ts:165).
SealedWasReviewed ==
  "overlap" \notin odd =>
    \A copy \in {stacked, tree.copy, branch.copy} :
      copy.seal # None /\ copy.seal = copy.plan
        => copy.plan \in reviewed \cup unseen

\* The plan whose approval took effect last is never in no place: whatever
\* fails or is killed while the draft, the stacked copy, the worktree and the
\* branch are removed, renamed and copied, one of them holds it, unless
\* a human edited it.  Approving again while the watcher cuts is excluded:
\* the cut then removes a copy it did not read (stack-cut.ts:201).
ApprovedIsKept ==
  last # None /\ odd \cap {"overlap", "half"} = {}
    => last \in Elsewhere \cup {draft}

\* What the watcher runs in a worktree is the plan approved last, whatever is
\* edited, fails, is rejected, restarted or killed.  Three histories are
\* excluded, in which an older plan can run: a command during a cut, a cut of
\* a half-written stacked approval, and a kill between an approval's commit
\* and the removal of its stacked copy (stack-cut.ts:201), which a rejection
\* of the change would uncover.
RunsLastApproved ==
  Runs /\ tree.copy.seal = tree.copy.plan
       /\ odd \cap {"overlap", "half", "leftover"} = {}
    => tree.copy.plan = last

\* A change cut from its stacked approval starts on a base that holds the
\* dependency in the version it was approved against, whatever the dependency
\* did before the cut's decision, after its branch, and over failed cuts.
\* Once a dependency that landed in another version was cut, which nobody
\* compares (stack-cut.ts:77-80), the base need only hold some version.
\* Excluded are the histories in which the cut can start without it: a
\* dependency that moves between the decision and the branch (:129), a
\* command during a cut, a half-written approval, and a branch an earlier
\* approval left.
StartsOnDependency ==
  Runs /\ branch.copy.on # None /\ odd \cap {"overlap", "half", "reused"} = {}
    => \/ branch.base = branch.copy.on
       \/ "unread" \in odd /\ branch.base # None

\* A stacked approval whose dependency has landed does not wait for ever: it
\* is cut and its approval committed, or withdrawn, or halted where status
\* shows it.  Excused while they hide it are an approval at its commit, and
\* the sealed worktree of a commit that failed or was killed: the watcher
\* passes that one by, and no retry finds the halt behind it.
StackMoves ==
  InStack /\ dep.state = "landed" ~>
    \/ Runs \/ stacked = Nothing
    \/ InStack /\ stacked.stop # "none"
    \/ Names /\ (op.pc = "commit" \/ "uncommitted" \in odd)
=============================================================================
