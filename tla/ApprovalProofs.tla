---------------------------- MODULE ApprovalProofs ----------------------------
(***************************************************************************)
(* Approval's safety, for every number of plans and of versions of the     *)
(* dependency, and every history of commands, kills, failures and edits.   *)
(***************************************************************************)
EXTENDS AutoSteer, TLAPS

(***************************************************************************)
(* A rejection has phases of its own; the others are entered by the paths  *)
(* that know what comes after them.                                        *)
(***************************************************************************)
PathFits ==
  /\ op.path = "reject" => op.pc \in {"withdraw", "record", "drop"}
  /\ op.pc \in {"replan", "remove", "keep"} => op.path = "restart"

TypeInv == PTypeOK /\ PathFits

(***************************************************************************)
(* The strengthening of SealedWasReviewed.  A seal is the hash a command   *)
(* carried through its prompt; the plan it is laid on has meanwhile stayed *)
(* the one that was hashed, which somebody read, or become another, which  *)
(* no later edit can turn back.                                            *)
(***************************************************************************)
Apart == "overlap" \notin odd => op.pc = "idle" \/ cut.pc = "idle"

NoneIsNewer ==
  /\ draft <= latest
  /\ stacked.plan <= latest /\ stacked.seal <= latest
  /\ tree.copy.plan <= latest /\ tree.copy.seal <= latest
  /\ branch.copy.plan <= latest /\ branch.copy.seal <= latest
  /\ op.hash <= latest /\ op.aside <= latest

ReadIf(hash, plan) ==
  hash # None /\ hash = plan => plan \in reviewed \cup unseen

HashIsRead ==
  /\ \/ op.pc = "copy"
     \/ op.path = "fresh" /\ op.pc \in {"prompt", "branch", "add", "prepare"}
     => ReadIf(op.hash, draft)
  /\ op.pc = "copy" => stacked.seal = None
  /\ op.pc = "mark" => ReadIf(op.hash, stacked.plan)
  /\ op.pc = "seal" /\ op.path = "fresh" => ReadIf(op.hash, tree.copy.plan)
  /\ op.pc = "commit" /\ op.path = "steer" => ReadIf(op.hash, tree.copy.plan)

SealsAreRead == /\ ReadIf(stacked.seal, stacked.plan)
                /\ ReadIf(tree.copy.seal, tree.copy.plan)
                /\ ReadIf(branch.copy.seal, branch.copy.plan)

SealInv == /\ TypeInv
           /\ Apart
           /\ NoneIsNewer
           /\ "overlap" \notin odd => HashIsRead /\ SealsAreRead

-----------------------------------------------------------------------------
(* What every proof below unfolds: the tuples of UNCHANGED and the control *)
(* helpers of the actions.                                                 *)
USE DEF At, To, Note, Spend, CutTo, Throw, Start, Checkout,
        placeVars, historyVars, envVars, aVars

(* The fields of a typed record, and the records the actions begin with.   *)
LEMMA Fields ==
  /\ \A c \in Copies : /\ c.plan \in Plans \cup {None}
                       /\ c.seal \in Plans \cup {None}
                       /\ c.on \in Versions \cup {None}
                       /\ c.stop \in Stops \cup {"none"}
  /\ \A b \in Branches : /\ b.at \in Spots /\ b.copy \in Copies
                         /\ b.base \in Versions \cup {None}
  /\ \A t \in Trees : t.at \in Spots /\ t.copy \in Copies
  BY DEF Copies, Branches, Trees

LEMMA Starts ==
  /\ Nothing \in Copies /\ NoBranch \in Branches /\ NoTree \in Trees
  /\ NoOp \in Ops /\ NoCut \in Cuts
<1>1. Nothing \in Copies
  BY DEF Nothing, Copies, None
<1>2. NoBranch \in Branches /\ NoTree \in Trees
  BY <1>1 DEF NoBranch, NoTree, Branches, Trees, Spots, None
<1>3. NoOp \in Ops /\ NoCut \in Cuts
  BY DEF NoOp, NoCut, Ops, Cuts, OpPhases, CutPhases, Paths, None
<1> QED
  BY <1>1, <1>2, <1>3

(* One field of a record, or of a record in a record, is replaced.         *)
LEMMA CopyPut ==
  ASSUME NEW c \in Copies
  PROVE  /\ \A p \in Plans \cup {None} :
              [c EXCEPT !.plan = p] \in Copies /\ [c EXCEPT !.seal = p] \in Copies
         /\ \A s \in Stops \cup {"none"} : [c EXCEPT !.stop = s] \in Copies
  BY DEF Copies

LEMMA TreePut ==
  /\ \A t \in Trees, c \in Copies : [t EXCEPT !.copy = c] \in Trees
  /\ \A s \in Spots, c \in Copies : [at |-> s, copy |-> c] \in Trees
  /\ \A t \in Trees, s \in Spots : [t EXCEPT !.at = s] \in Trees
  BY DEF Trees

LEMMA BranchPut ==
  \A b \in Branches, c \in Copies : [b EXCEPT !.copy = c] \in Branches
  BY DEF Branches

LEMMA OnTypes ==
  TypeInv => OnMain \in Versions \cup {None} /\ OnBranch \in Versions \cup {None}
  BY DEF TypeInv, PTypeOK, OnMain, OnBranch, None

LEMMA InitType == PInit => TypeInv
<1> SUFFICES ASSUME PInit PROVE TypeInv
  OBVIOUS
<1>1. /\ draft \in Plans \cup {None} /\ latest \in Plans
      /\ dep.version \in Versions /\ dep.state \in {"approved", "unapproved"}
      /\ budget \in [Kinds -> Nat]
  BY BoundsAssumption DEF PInit, Plans, Versions
<1>2. dep \in [state : {"approved", "archived", "landed", "unapproved"},
               version : Versions]
  BY BoundsAssumption DEF PInit, Versions
<1>3. PathFits
  BY DEF PInit, PathFits, NoOp
<1> QED
  BY <1>1, <1>2, <1>3, Starts DEF PInit, TypeInv, PTypeOK


(* Each variable keeps its type; one lemma for those an action changes     *)
(* together.  The command.                                                 *)
LEMMA OpTypes == TypeInv /\ [PNext]_aVars => op' \in Ops /\ PathFits'
<1> SUFFICES ASSUME TypeInv, [PNext]_aVars PROVE op' \in Ops /\ PathFits'
  OBVIOUS
<1> USE Fields, Starts
        DEF TypeInv, PTypeOK, PathFits, Ops, OpPhases, Paths, NoOp, None
<1>1. CASE ApproveDraft
  BY <1>1 DEF ApproveDraft
<1>2. CASE ApproveStacked
  BY <1>2 DEF ApproveStacked
<1>3. CASE ApproveSteered
  <2>1. CASE Start("steer", "review")
    BY <2>1 DEF Start
  <2>2. CASE Start("restart", "review")
    BY <2>2 DEF Start
  <2> QED
    BY <1>3, <2>1, <2>2 DEF ApproveSteered
<1>4. CASE Claim
  BY <1>4, OnTypes DEF Claim
<1>5. CASE ClaimRefused
  BY <1>5 DEF ClaimRefused
<1>6. CASE Review
  BY <1>6 DEF Review
<1>7. CASE Decline
  BY <1>7 DEF Decline
<1>8. CASE Confirm
  BY <1>8 DEF Confirm
<1>9. CASE ConfirmStacked
  BY <1>9 DEF ConfirmStacked
<1>10. CASE CopyStacked
  BY <1>10 DEF CopyStacked
<1>11. CASE SealStacked
  BY <1>11 DEF SealStacked
<1>12. CASE WriteStackedOn
  BY <1>12 DEF WriteStackedOn
<1>13. CASE CreateBranch
  BY <1>13 DEF CreateBranch
<1>14. CASE AddTree
  BY <1>14 DEF AddTree
<1>15. CASE GitRefuses
  BY <1>15 DEF GitRefuses
<1>16. CASE Place
  BY <1>16 DEF Place
<1>17. CASE WriteSeal
  <2>1. tree.copy.seal \in Plans \cup {None}
    BY DEF None
  <2> DEFINE hash == IF Reseals THEN tree.copy.seal ELSE None
  <2>2. hash \in Plans \cup {None}
    BY <2>1
  <2>3. op' = [op EXCEPT !.pc = "commit", !.hash = hash]
    BY <1>17 DEF WriteSeal
  <2> HIDE DEF hash
  <2> QED
    BY <2>2, <2>3, <1>17 DEF WriteSeal
<1>18. CASE CommitApproved
  <2>1. op.path \in {"fresh", "steer", "restart"}
    BY <1>18 DEF CommitApproved
  <2> DEFINE next == [fresh |-> "withdraw", steer |-> "retire",
                      restart |-> "idle"][op.path]
  <2>2. next \in {"withdraw", "retire", "idle"}
    BY <2>1
  <2>3. op' = [NoOp EXCEPT !.pc = next]
    BY <1>18 DEF CommitApproved
  <2> HIDE DEF next
  <2> QED
    BY <2>2, <2>3
<1>19. CASE CommitFails
  BY <1>19 DEF CommitFails
<1>20. CASE CommandFails
  BY <1>20 DEF CommandFails
<1>21. CASE Withdraw
  <2>1. CASE op.path = "fresh"
    BY <1>21, <2>1 DEF Withdraw
  <2>2. CASE op.path # "fresh"
    BY <1>21, <2>2 DEF Withdraw
  <2> QED
    BY <2>1, <2>2
<1>22. CASE Clear
  BY <1>22 DEF Clear
<1>23. CASE Retire
  BY <1>23 DEF Retire
<1>24. CASE Replan
  BY <1>24 DEF Replan
<1>25. CASE RemoveTree
  <2>1. CASE op' = [op EXCEPT !.pc = "keep"]
    BY <1>25, <2>1 DEF RemoveTree
  <2>2. CASE op' = NoOp
    BY <2>2
  <2> QED
    BY <1>25, <2>1, <2>2 DEF RemoveTree
<1>26. CASE KeepBranch
  BY <1>26 DEF KeepBranch
<1>27. CASE RejectStacked
  BY <1>27 DEF RejectStacked
<1>28. CASE RejectInWorktree
  BY <1>28 DEF RejectInWorktree
<1>29. CASE CommitRejected
  BY <1>29 DEF CommitRejected
<1>30. CASE DropTree
  BY <1>30 DEF DropTree
<1>31. CASE RejectFails
  BY <1>31 DEF RejectFails
<1>32. CASE Kill
  BY <1>32 DEF Kill
<1>33. CASE UNCHANGED <<op>>
  BY <1>33
<1> QED
  BY <1>1, <1>2, <1>3, <1>4, <1>5, <1>6, <1>7, <1>8, <1>9, <1>10, <1>11,
     <1>12, <1>13, <1>14, <1>15, <1>16, <1>17, <1>18, <1>19, <1>20, <1>21,
     <1>22, <1>23, <1>24, <1>25, <1>26, <1>27, <1>28, <1>29, <1>30, <1>31,
     <1>32, <1>33
  DEF PNext, Approves, Rejects, Cutting, World, Retry, HaltChanged, Decide,
     CutBranch, CutAdd, CutFinds, CutCopy, CutCommit, CutWithdraw, CutFails,
     CutFindsNothing, Edit, ChangeStops, DependencyMoves, RecreateTree

(* The cut. *)
LEMMA CutTypes == TypeInv /\ [PNext]_aVars => cut' \in Cuts
<1> SUFFICES ASSUME TypeInv, [PNext]_aVars PROVE cut' \in Cuts
  OBVIOUS
<1> USE Fields, Starts DEF TypeInv, PTypeOK, Cuts, CutPhases, NoCut
<1>1. CASE Decide
  BY <1>1 DEF Decide
<1>2. CASE CutBranch
  BY <1>2 DEF CutBranch
<1>3. CASE CutAdd
  BY <1>3 DEF CutAdd
<1>4. CASE CutFinds
  BY <1>4 DEF CutFinds
<1>5. CASE CutCopy
  BY <1>5 DEF CutCopy
<1>6. CASE CutCommit
  BY <1>6 DEF CutCommit
<1>7. CASE CutWithdraw
  BY <1>7 DEF CutWithdraw
<1>8. CASE CutFails
  BY <1>8 DEF CutFails, HaltCut
<1>9. CASE CutFindsNothing
  BY <1>9 DEF CutFindsNothing, HaltCut
<1>10. CASE Kill
  BY <1>10 DEF Kill
<1>11. CASE UNCHANGED <<cut>>
  BY <1>11
<1> QED
  BY <1>1, <1>2, <1>3, <1>4, <1>5, <1>6, <1>7, <1>8, <1>9, <1>10, <1>11
  DEF PNext, Approves, Rejects, Cutting, World, ApproveDraft, ApproveStacked,
     ApproveSteered, Claim, ClaimRefused, Review, Decline, Confirm,
     ConfirmStacked, CopyStacked, SealStacked, WriteStackedOn, CreateBranch,
     AddTree, GitRefuses, Place, WriteSeal, CommitApproved, CommitFails,
     CommandFails, Withdraw, Clear, Retire, Replan, RemoveTree, KeepBranch,
     RejectStacked, RejectInWorktree, CommitRejected, DropTree, RejectFails,
     Retry, HaltChanged, Edit, ChangeStops, DependencyMoves, RecreateTree

(* The stacked copy. *)
LEMMA StackedTypes == TypeInv /\ [PNext]_aVars => stacked' \in Copies
<1> SUFFICES ASSUME TypeInv, [PNext]_aVars PROVE stacked' \in Copies
  OBVIOUS
<1> USE Fields, Starts DEF TypeInv, PTypeOK, Copies, Stops, None
<1>1. CASE ConfirmStacked
  BY <1>1 DEF ConfirmStacked
<1>2. CASE CopyStacked
  BY <1>2 DEF CopyStacked
<1>3. CASE SealStacked
  BY <1>3 DEF SealStacked, Ops
<1>4. CASE WriteStackedOn
  BY <1>4 DEF WriteStackedOn, Ops
<1>5. CASE Withdraw
  BY <1>5 DEF Withdraw
<1>6. CASE Retry
  BY <1>6 DEF Retry
<1>7. CASE HaltChanged
  BY <1>7 DEF HaltChanged
<1>8. CASE CutWithdraw
  BY <1>8 DEF CutWithdraw
<1>9. CASE CutFails
  BY <1>9 DEF CutFails, HaltCut
<1>10. CASE CutFindsNothing
  BY <1>10 DEF CutFindsNothing, HaltCut
<1>11. CASE Edit
  <2>1. latest' \in Plans
    BY <1>11, BoundsAssumption DEF Edit, Plans
  <2>2. [stacked EXCEPT !.plan = latest'] \in Copies
    BY <2>1, CopyPut DEF PTypeOK
  <2> QED
    BY <1>11, <2>2 DEF Edit
<1>12. CASE UNCHANGED <<stacked>>
  BY <1>12
<1> QED
  BY <1>1, <1>2, <1>3, <1>4, <1>5, <1>6, <1>7, <1>8, <1>9, <1>10, <1>11, <1>12
  DEF PNext, Approves, Rejects, Cutting, World, ApproveDraft, ApproveStacked,
     ApproveSteered, Claim, ClaimRefused, Review, Decline, Confirm,
     CreateBranch, AddTree, GitRefuses, Place, WriteSeal, CommitApproved,
     CommitFails, CommandFails, Clear, Retire, Replan, RemoveTree, KeepBranch,
     RejectStacked, RejectInWorktree, CommitRejected, DropTree, RejectFails,
     Decide, CutBranch, CutAdd, CutFinds, CutCopy, CutCommit, ChangeStops,
     DependencyMoves, Kill, RecreateTree

(* The worktree. *)
LEMMA TreeTypes == TypeInv /\ [PNext]_aVars => tree' \in Trees
<1> SUFFICES ASSUME TypeInv, [PNext]_aVars PROVE tree' \in Trees
  OBVIOUS
<1> USE Fields, Starts DEF TypeInv, PTypeOK
<1>1. CASE AddTree
  BY <1>1, TreePut DEF AddTree
<1>2. CASE Place
  <2> DEFINE plan == IF op.path = "restart" THEN op.aside ELSE draft
  <2>1. plan \in Plans \cup {None}
    BY DEF Ops
  <2>2. [Nothing EXCEPT !.plan = plan] \in Copies
    BY <2>1, CopyPut
  <2>3. tree' = [at |-> "changes", copy |-> [Nothing EXCEPT !.plan = plan]]
    BY <1>2 DEF Place
  <2> QED
    BY <2>2, <2>3, TreePut DEF Spots
<1>3. CASE WriteSeal
  <2> DEFINE seal == IF Reseals THEN tree.copy.plan ELSE op.hash
  <2>1. seal \in Plans \cup {None} /\ tree.copy \in Copies
    BY DEF Ops
  <2>2. [tree.copy EXCEPT !.seal = seal] \in Copies
    BY <2>1, CopyPut
  <2>3. tree' = [tree EXCEPT !.copy = [tree.copy EXCEPT !.seal = seal]]
    BY <1>3 DEF WriteSeal
  <2> QED
    BY <2>2, <2>3, TreePut
<1>4. CASE CommitFails
  <2>1. [tree.copy EXCEPT !.seal = op.hash] \in Copies
    BY CopyPut DEF Ops
  <2>2. \/ tree' = [tree EXCEPT !.copy = [tree.copy EXCEPT !.seal = op.hash]]
        \/ tree' = tree
    BY <1>4 DEF CommitFails
  <2> QED
    BY <2>1, <2>2, TreePut
<1>5. CASE Retire
  <2>1. [tree.copy EXCEPT !.stop = "none"] \in Copies
    BY CopyPut
  <2>2. \/ tree' = [tree EXCEPT !.copy = [tree.copy EXCEPT !.stop = "none"]]
        \/ tree' = tree
    BY <1>5 DEF Retire
  <2> QED
    BY <2>1, <2>2, TreePut
<1>6. CASE RemoveTree
  BY <1>6 DEF RemoveTree
<1>7. CASE RejectInWorktree
  BY <1>7, TreePut DEF RejectInWorktree, Spots
<1>8. CASE DropTree
  BY <1>8 DEF DropTree
<1>9. CASE Retry
  <2>1. [tree.copy EXCEPT !.stop = "none"] \in Copies
    BY CopyPut
  <2>2. \/ tree' = [tree EXCEPT !.copy = [tree.copy EXCEPT !.stop = "none"]]
        \/ tree' = tree
    BY <1>9 DEF Retry
  <2> QED
    BY <2>1, <2>2, TreePut
<1>10. CASE CutAdd
  BY <1>10, TreePut DEF CutAdd
<1>11. CASE CutCopy
  BY <1>11, TreePut DEF CutCopy, Spots
<1>12. CASE CutFindsNothing
  BY <1>12, TreePut DEF CutFindsNothing, Spots
<1>13. CASE Edit
  <2>1. latest' \in Plans
    BY <1>13, BoundsAssumption DEF Edit, Plans
  <2>2. [tree.copy EXCEPT !.plan = latest'] \in Copies
    BY <2>1, CopyPut
  <2>3. \/ tree' = [tree EXCEPT !.copy = [tree.copy EXCEPT !.plan = latest']]
        \/ tree' = tree
    BY <1>13 DEF Edit
  <2> QED
    BY <2>2, <2>3, TreePut
<1>14. CASE ChangeStops
  <2>1. PICK stop \in {"dead", "sync_conflict"} :
          tree' = [tree EXCEPT !.copy = [tree.copy EXCEPT !.stop = stop]]
    BY <1>14 DEF ChangeStops
  <2>2. [tree.copy EXCEPT !.stop = stop] \in Copies
    BY CopyPut DEF Stops
  <2> QED
    BY <2>1, <2>2, TreePut
<1>15. CASE RecreateTree
  BY <1>15, TreePut DEF RecreateTree
<1>16. CASE UNCHANGED <<tree>>
  BY <1>16
<1> QED
  BY <1>1, <1>2, <1>3, <1>4, <1>5, <1>6, <1>7, <1>8, <1>9, <1>10, <1>11,
     <1>12, <1>13, <1>14, <1>15, <1>16
  DEF PNext, Approves, Rejects, Cutting, World, ApproveDraft, ApproveStacked,
     ApproveSteered, Claim, ClaimRefused, Review, Decline, Confirm,
     ConfirmStacked, CopyStacked, SealStacked, WriteStackedOn, CreateBranch,
     GitRefuses, CommitApproved, CommandFails, Withdraw, Clear, Replan,
     KeepBranch, RejectStacked, CommitRejected, RejectFails, HaltChanged,
     Decide, CutBranch, CutFinds, CutCommit, CutWithdraw, CutFails,
     DependencyMoves, Kill

(* The branch and what was renamed aside. *)
LEMMA BranchTypes ==
  ASSUME TypeInv, [PNext]_aVars
  PROVE  branch' \in Branches /\ kept' \subseteq Plans \cup {None}
<1> USE Fields, Starts DEF TypeInv, PTypeOK, Branches, Spots, None
<1>1. CASE Claim
  BY <1>1 DEF Claim
<1>2. CASE CreateBranch
  BY <1>2, OnTypes DEF CreateBranch, Ops, NoBranch
<1>3. CASE CommitApproved
  BY <1>3 DEF CommitApproved
<1>4. CASE Replan
  BY <1>4 DEF Replan
<1>5. CASE KeepBranch
  BY <1>5 DEF KeepBranch
<1>6. CASE CommitRejected
  BY <1>6 DEF CommitRejected
<1>7. CASE CutBranch
  BY <1>7, OnTypes DEF CutBranch, NoBranch
<1>8. CASE CutCommit
  BY <1>8 DEF CutCommit
<1>9. CASE ChangeStops
  <2>1. branch' = branch
          \/ branch' = [branch EXCEPT !.copy = [branch.copy EXCEPT !.stop = "dead"]]
    BY <1>9 DEF ChangeStops
  <2>2. [branch.copy EXCEPT !.stop = "dead"] \in Copies
    BY CopyPut DEF Stops
  <2>3. [branch EXCEPT !.copy = [branch.copy EXCEPT !.stop = "dead"]] \in Branches
    BY <2>2, BranchPut
  <2> QED
    BY <1>9, <2>1, <2>3 DEF ChangeStops
<1>10. CASE UNCHANGED <<branch, kept>>
  BY <1>10
<1> QED
  BY <1>1, <1>2, <1>3, <1>4, <1>5, <1>6, <1>7, <1>8, <1>9, <1>10
  DEF PNext, Approves, Rejects, Cutting, World, ApproveDraft, ApproveStacked,
     ApproveSteered, ClaimRefused, Review, Decline, Confirm, ConfirmStacked,
     CopyStacked, SealStacked, WriteStackedOn, AddTree, GitRefuses, Place,
     WriteSeal, CommitFails, CommandFails, Withdraw, Clear, Retire,
     RemoveTree, RejectStacked, RejectInWorktree, DropTree, RejectFails,
     Retry, HaltChanged, Decide, CutAdd, CutFinds, CutCopy, CutWithdraw,
     CutFails, CutFindsNothing, Edit, DependencyMoves, Kill, RecreateTree

(* The draft, the checkout and the world. *)
LEMMA WorldTypes ==
  ASSUME TypeInv, [PNext]_aVars
  PROVE  /\ draft' \in Plans \cup {None} /\ tracked' \in BOOLEAN
         /\ dep' \in [state : {"approved", "archived", "landed", "unapproved"},
                        version : Versions]
         /\ latest' \in Plans /\ budget' \in [Kinds -> Nat]
<1> USE Fields, Starts DEF TypeInv, PTypeOK, Kinds, None
<1>1. CASE ApproveDraft
  BY <1>1 DEF ApproveDraft
<1>2. CASE ApproveStacked
  BY <1>2 DEF ApproveStacked
<1>3. CASE ApproveSteered
  BY <1>3 DEF ApproveSteered
<1>4. CASE ClaimRefused
  BY <1>4 DEF ClaimRefused
<1>5. CASE Decline
  BY <1>5 DEF Decline
<1>6. CASE GitRefuses
  BY <1>6 DEF GitRefuses
<1>7. CASE CommitFails
  BY <1>7 DEF CommitFails
<1>8. CASE CommandFails
  BY <1>8 DEF CommandFails
<1>9. CASE Clear
  BY <1>9 DEF Clear
<1>10. CASE RejectStacked
  BY <1>10 DEF RejectStacked
<1>11. CASE RejectInWorktree
  BY <1>11 DEF RejectInWorktree
<1>12. CASE RejectFails
  BY <1>12 DEF RejectFails
<1>13. CASE Retry
  BY <1>13 DEF Retry
<1>14. CASE CutFails
  BY <1>14 DEF CutFails
<1>15. CASE Edit
  <2>1. latest' \in Plans
    BY <1>15, BoundsAssumption DEF Edit, Plans
  <2>2. budget' \in [Kinds -> Nat]
    BY <1>15 DEF Edit
  <2> QED
    BY <1>15, <2>1, <2>2 DEF Edit
<1>16. CASE ChangeStops
  BY <1>16 DEF ChangeStops
<1>17. CASE DependencyMoves
  BY <1>17 DEF DependencyMoves
<1>18. CASE Kill
  BY <1>18 DEF Kill
<1>19. CASE UNCHANGED <<draft, tracked, dep, latest, budget>>
  BY <1>19
<1> QED
  BY <1>1, <1>2, <1>3, <1>4, <1>5, <1>6, <1>7, <1>8, <1>9, <1>10, <1>11,
     <1>12, <1>13, <1>14, <1>15, <1>16, <1>17, <1>18, <1>19
  DEF PNext, Approves, Rejects, Cutting, World, Claim, Review, Confirm,
     ConfirmStacked, CopyStacked, SealStacked, WriteStackedOn, CreateBranch,
     AddTree, Place, WriteSeal, CommitApproved, Withdraw, Retire, Replan,
     RemoveTree, KeepBranch, CommitRejected, DropTree, HaltChanged, Decide,
     CutBranch, CutAdd, CutFinds, CutCopy, CutCommit, CutWithdraw,
     CutFindsNothing, RecreateTree

(* The histories. *)
LEMMA HistoryTypes ==
  ASSUME TypeInv, [PNext]_aVars
  PROVE  /\ reviewed' \subseteq Plans /\ unseen' \subseteq Plans
         /\ last' \in Plans \cup {None} /\ odd' \subseteq Oddities
<1> USE Fields, Starts DEF TypeInv, PTypeOK, Oddities, None
<1>1. CASE ApproveDraft
  BY <1>1 DEF ApproveDraft
<1>2. CASE ApproveStacked
  BY <1>2 DEF ApproveStacked
<1>3. CASE ApproveSteered
  BY <1>3 DEF ApproveSteered
<1>4. CASE Review
  BY <1>4 DEF Review
<1>5. CASE ConfirmStacked
  BY <1>5 DEF ConfirmStacked
<1>6. CASE WriteStackedOn
  BY <1>6 DEF WriteStackedOn
<1>7. CASE WriteSeal
  BY <1>7 DEF WriteSeal
<1>8. CASE CommitApproved
  BY <1>8 DEF CommitApproved, Ops
<1>9. CASE CommitFails
  BY <1>9 DEF CommitFails, Ops
<1>10. CASE Withdraw
  BY <1>10 DEF Withdraw
<1>11. CASE RejectStacked
  BY <1>11 DEF RejectStacked
<1>12. CASE RejectInWorktree
  BY <1>12 DEF RejectInWorktree
<1>13. CASE Decide
  BY <1>13 DEF Decide
<1>14. CASE CutBranch
  BY <1>14 DEF CutBranch
<1>15. CASE Edit
  BY <1>15 DEF Edit, Outdates
<1>16. CASE DependencyMoves
  BY <1>16 DEF DependencyMoves
<1>17. CASE Kill
  BY <1>17 DEF Kill
<1>18. CASE UNCHANGED <<reviewed, unseen, last, odd>>
  BY <1>18
<1> QED
  BY <1>1, <1>2, <1>3, <1>4, <1>5, <1>6, <1>7, <1>8, <1>9, <1>10, <1>11,
     <1>12, <1>13, <1>14, <1>15, <1>16, <1>17, <1>18
  DEF PNext, Approves, Rejects, Cutting, World, Claim, ClaimRefused, Decline,
     Confirm, CopyStacked, SealStacked, CreateBranch, AddTree, GitRefuses,
     Place, CommandFails, Clear, Retire, Replan, RemoveTree, KeepBranch,
     CommitRejected, DropTree, RejectFails, Retry, HaltChanged, CutAdd,
     CutFinds, CutCopy, CutCommit, CutWithdraw, CutFails, CutFindsNothing,
     ChangeStops, RecreateTree

(* The types hold in every step. *)
LEMMA TypeStep == TypeInv /\ [PNext]_aVars => TypeInv'
  BY OpTypes, CutTypes, StackedTypes, TreeTypes, BranchTypes, WorldTypes,
     HistoryTypes
  DEF TypeInv, PTypeOK

(* Every variable keeps its type: a plan, a hash, a seal are versions that *)
(* exist, in whatever order commands, cuts, kills and failures come.       *)
THEOREM TypeCorrect == PSpec => []PTypeOK
<1>1. PSpec => []TypeInv
  BY InitType, TypeStep, PTL DEF PSpec
<1> QED
  BY <1>1, PTL DEF TypeInv

-----------------------------------------------------------------------------

(* What the steps that replace a field within a field do to the rest.      *)
LEMMA CopyFields ==
  ASSUME NEW c \in Copies, NEW v
  PROVE  /\ LET d == [c EXCEPT !.plan = v]
            IN d.plan = v /\ d.seal = c.seal /\ d.on = c.on /\ d.stop = c.stop
         /\ LET d == [c EXCEPT !.seal = v]
            IN d.seal = v /\ d.plan = c.plan /\ d.on = c.on /\ d.stop = c.stop
         /\ LET d == [c EXCEPT !.stop = v]
            IN d.stop = v /\ d.plan = c.plan /\ d.seal = c.seal /\ d.on = c.on
         /\ LET d == [c EXCEPT !.on = v]
            IN /\ d.on = v /\ d.plan = c.plan
               /\ d.seal = c.seal /\ d.stop = c.stop
  BY DEF Copies

LEMMA TreeFields ==
  ASSUME NEW t \in Trees, NEW c
  PROVE  /\ [t EXCEPT !.copy = c].copy = c
         /\ [t EXCEPT !.copy = c].at = t.at
  BY DEF Trees

LEMMA BranchFields ==
  ASSUME NEW b \in Branches, NEW c
  PROVE  LET d == [b EXCEPT !.copy = c]
         IN d.copy = c /\ d.at = b.at /\ d.base = b.base /\ d.by = b.by
  BY DEF Branches

\* a commit puts on the branch what the worktree holds
LEMMA CommitEffect ==
  ASSUME TypeInv,
         branch' = [branch EXCEPT !.at = tree.at, !.copy = tree.copy]
  PROVE  /\ branch'.at = tree.at /\ branch'.copy = tree.copy
         /\ branch'.base = branch.base /\ branch'.by = branch.by
  BY DEF TypeInv, PTypeOK, Branches

LEMMA WriteSealEffect ==
  ASSUME TypeInv, WriteSeal
  PROVE  /\ tree'.at = tree.at
         /\ tree'.copy.plan = tree.copy.plan
         /\ tree'.copy.seal = IF Reseals THEN tree.copy.plan ELSE op.hash
         /\ tree'.copy.on = tree.copy.on /\ tree'.copy.stop = tree.copy.stop
<1> DEFINE seal == IF Reseals THEN tree.copy.plan ELSE op.hash
<1>1. tree \in Trees /\ tree.copy \in Copies
  BY Fields DEF TypeInv, PTypeOK
<1>2. tree' = [tree EXCEPT !.copy = [tree.copy EXCEPT !.seal = seal]]
  BY DEF WriteSeal
<1>3. tree'.copy = [tree.copy EXCEPT !.seal = seal] /\ tree'.at = tree.at
  BY <1>1, <1>2, TreeFields
<1> HIDE DEF seal
<1>4. /\ tree'.copy.plan = tree.copy.plan /\ tree'.copy.seal = seal
      /\ tree'.copy.on = tree.copy.on /\ tree'.copy.stop = tree.copy.stop
  BY <1>1, <1>3, CopyFields
<1> QED
  BY <1>3, <1>4 DEF seal

LEMMA CommitFailsEffect ==
  ASSUME TypeInv, CommitFails
  PROVE  /\ tree'.at = tree.at
         /\ tree'.copy.plan = tree.copy.plan
         /\ tree'.copy.seal = IF op.path = "steer" THEN op.hash
                              ELSE tree.copy.seal
         /\ tree'.copy.on = tree.copy.on /\ tree'.copy.stop = tree.copy.stop
<1>1. tree \in Trees /\ tree.copy \in Copies
  BY Fields DEF TypeInv, PTypeOK
<1>2. CASE op.path = "steer"
  <2>1. tree' = [tree EXCEPT !.copy = [tree.copy EXCEPT !.seal = op.hash]]
    BY <1>2 DEF CommitFails
  <2>2. tree'.copy = [tree.copy EXCEPT !.seal = op.hash] /\ tree'.at = tree.at
    BY <1>1, <2>1, TreeFields
  <2> QED
    BY <1>1, <1>2, <2>2, CopyFields
<1>3. CASE op.path # "steer"
  BY <1>3 DEF CommitFails
<1> QED
  BY <1>2, <1>3

LEMMA StopEffect ==
  ASSUME TypeInv, Retire \/ Retry \/ ChangeStops
  PROVE  /\ tree'.at = tree.at
         /\ tree'.copy.plan = tree.copy.plan
         /\ tree'.copy.seal = tree.copy.seal /\ tree'.copy.on = tree.copy.on
         /\ stacked'.plan = stacked.plan /\ stacked'.seal = stacked.seal
         /\ stacked'.on = stacked.on
         /\ branch'.at = branch.at
         /\ branch'.base = branch.base /\ branch'.by = branch.by
         /\ branch'.copy.plan = branch.copy.plan
         /\ branch'.copy.seal = branch.copy.seal
         /\ branch'.copy.on = branch.copy.on
<1>1. /\ tree \in Trees /\ tree.copy \in Copies /\ stacked \in Copies
      /\ branch \in Branches /\ branch.copy \in Copies
  BY Fields DEF TypeInv, PTypeOK
<1>2. \/ tree' = tree
      \/ \E s : tree' = [tree EXCEPT !.copy = [tree.copy EXCEPT !.stop = s]]
  BY DEF Retire, Retry, ChangeStops
<1>3. stacked' = stacked \/ stacked' = [stacked EXCEPT !.stop = "none"]
  BY DEF Retire, Retry, ChangeStops
<1>4. ASSUME NEW s,
             tree' = [tree EXCEPT !.copy = [tree.copy EXCEPT !.stop = s]]
      PROVE  /\ tree'.at = tree.at
             /\ tree'.copy.plan = tree.copy.plan
             /\ tree'.copy.seal = tree.copy.seal
             /\ tree'.copy.on = tree.copy.on
  <2>1. tree'.copy = [tree.copy EXCEPT !.stop = s] /\ tree'.at = tree.at
    BY <1>1, <1>4, TreeFields
  <2> QED
    BY <1>1, <2>1, CopyFields
<1>5. /\ tree'.at = tree.at
      /\ tree'.copy.plan = tree.copy.plan /\ tree'.copy.seal = tree.copy.seal
      /\ tree'.copy.on = tree.copy.on
  BY <1>2, <1>4
<1>6. /\ stacked'.plan = stacked.plan /\ stacked'.seal = stacked.seal
      /\ stacked'.on = stacked.on
  <2>1. CASE stacked' = [stacked EXCEPT !.stop = "none"]
    BY <1>1, <2>1, CopyFields
  <2> QED
    BY <1>3, <2>1
<1>7. /\ branch'.at = branch.at
      /\ branch'.base = branch.base /\ branch'.by = branch.by
      /\ branch'.copy.plan = branch.copy.plan
      /\ branch'.copy.seal = branch.copy.seal
      /\ branch'.copy.on = branch.copy.on
  <2>1. \/ branch' = branch
        \/ branch' = [branch EXCEPT !.copy = [branch.copy EXCEPT !.stop = "dead"]]
    BY DEF Retire, Retry, ChangeStops
  <2>2. CASE branch' = [branch EXCEPT !.copy = [branch.copy EXCEPT !.stop = "dead"]]
    <3>1. /\ branch'.copy = [branch.copy EXCEPT !.stop = "dead"]
          /\ branch'.at = branch.at
          /\ branch'.base = branch.base /\ branch'.by = branch.by
      BY <1>1, <2>2, BranchFields
    <3> QED
      BY <1>1, <3>1, CopyFields
  <2> QED
    BY <2>1, <2>2
<1> QED
  BY <1>5, <1>6, <1>7

LEMMA EditEffect ==
  ASSUME TypeInv, Edit
  PROVE  /\ latest' = latest + 1
         /\ draft' \in {draft, latest'}
         /\ stacked'.plan \in {stacked.plan, latest'}
         /\ tree'.copy.plan \in {tree.copy.plan, latest'}
         /\ stacked'.seal = stacked.seal /\ stacked'.on = stacked.on
         /\ stacked'.stop = stacked.stop
         /\ tree'.at = tree.at /\ tree'.copy.seal = tree.copy.seal
         /\ tree'.copy.on = tree.copy.on /\ tree'.copy.stop = tree.copy.stop
         /\ UNCHANGED <<branch, kept, op, cut, dep, reviewed, unseen, odd>>
<1>1. tree \in Trees /\ tree.copy \in Copies /\ stacked \in Copies
  BY Fields DEF TypeInv, PTypeOK
<1>2. /\ latest' = latest + 1 /\ draft' \in {draft, latest'}
      /\ UNCHANGED <<branch, kept, op, cut, dep, reviewed, unseen, odd>>
  BY DEF Edit
<1>3. \/ tree' = tree
      \/ tree' = [tree EXCEPT !.copy = [tree.copy EXCEPT !.plan = latest']]
  BY DEF Edit
<1>4. ASSUME tree' = [tree EXCEPT !.copy = [tree.copy EXCEPT !.plan = latest']]
      PROVE  /\ tree'.at = tree.at
             /\ tree'.copy.plan = latest' /\ tree'.copy.seal = tree.copy.seal
             /\ tree'.copy.on = tree.copy.on
             /\ tree'.copy.stop = tree.copy.stop
  <2>1. tree'.copy = [tree.copy EXCEPT !.plan = latest'] /\ tree'.at = tree.at
    BY <1>1, <1>4, TreeFields
  <2> QED
    BY <1>1, <2>1, CopyFields
<1>5. /\ tree'.at = tree.at
      /\ tree'.copy.plan \in {tree.copy.plan, latest'}
      /\ tree'.copy.seal = tree.copy.seal
      /\ tree'.copy.on = tree.copy.on /\ tree'.copy.stop = tree.copy.stop
  BY <1>3, <1>4
<1>6. stacked' = stacked \/ stacked' = [stacked EXCEPT !.plan = latest']
  BY DEF Edit
<1>7. /\ stacked'.plan \in {stacked.plan, latest'}
      /\ stacked'.seal = stacked.seal /\ stacked'.on = stacked.on
      /\ stacked'.stop = stacked.stop
  <2>1. CASE stacked' = [stacked EXCEPT !.plan = latest']
    BY <1>1, <2>1, CopyFields
  <2> QED
    BY <1>6, <2>1
<1> QED
  BY <1>2, <1>5, <1>7

(* A command begun beside a cut, or a cut beside a command, is noted.      *)
LEMMA ApartStep == SealInv /\ [PNext]_aVars => Apart'
<1> SUFFICES ASSUME SealInv, [PNext]_aVars PROVE Apart'
  OBVIOUS
<1> USE Fields, Starts DEF SealInv, TypeInv, PTypeOK, Apart, NoOp, NoCut
<1>1. CASE ApproveDraft
  BY <1>1 DEF ApproveDraft
<1>2. CASE ApproveStacked
  BY <1>2 DEF ApproveStacked
<1>3. CASE ApproveSteered
  BY <1>3 DEF ApproveSteered
<1>4. CASE Claim
  BY <1>4 DEF Claim
<1>5. CASE ClaimRefused
  BY <1>5 DEF ClaimRefused
<1>6. CASE Review
  BY <1>6 DEF Review
<1>7. CASE Decline
  BY <1>7 DEF Decline
<1>8. CASE Confirm
  BY <1>8 DEF Confirm
<1>9. CASE ConfirmStacked
  BY <1>9 DEF ConfirmStacked
<1>10. CASE CopyStacked
  BY <1>10 DEF CopyStacked
<1>11. CASE SealStacked
  BY <1>11 DEF SealStacked
<1>12. CASE WriteStackedOn
  BY <1>12 DEF WriteStackedOn
<1>13. CASE CreateBranch
  BY <1>13 DEF CreateBranch
<1>14. CASE AddTree
  BY <1>14 DEF AddTree
<1>15. CASE GitRefuses
  BY <1>15 DEF GitRefuses
<1>16. CASE Place
  BY <1>16 DEF Place
<1>17. CASE WriteSeal
  BY <1>17 DEF WriteSeal
<1>18. CASE CommitApproved
  BY <1>18 DEF CommitApproved
<1>19. CASE CommitFails
  BY <1>19 DEF CommitFails
<1>20. CASE CommandFails
  BY <1>20 DEF CommandFails
<1>21. CASE Withdraw
  BY <1>21 DEF Withdraw
<1>22. CASE Clear
  BY <1>22 DEF Clear
<1>23. CASE Retire
  BY <1>23 DEF Retire
<1>24. CASE Replan
  BY <1>24 DEF Replan
<1>25. CASE RemoveTree
  BY <1>25 DEF RemoveTree
<1>26. CASE KeepBranch
  BY <1>26 DEF KeepBranch
<1>27. CASE RejectStacked
  BY <1>27 DEF RejectStacked
<1>28. CASE RejectInWorktree
  BY <1>28 DEF RejectInWorktree
<1>29. CASE CommitRejected
  BY <1>29 DEF CommitRejected
<1>30. CASE DropTree
  BY <1>30 DEF DropTree
<1>31. CASE RejectFails
  BY <1>31 DEF RejectFails
<1>32. CASE Decide
  BY <1>32 DEF Decide
<1>33. CASE CutBranch
  BY <1>33 DEF CutBranch
<1>34. CASE CutAdd
  BY <1>34 DEF CutAdd
<1>35. CASE CutFinds
  BY <1>35 DEF CutFinds
<1>36. CASE CutCopy
  BY <1>36 DEF CutCopy
<1>37. CASE CutCommit
  BY <1>37 DEF CutCommit
<1>38. CASE CutWithdraw
  BY <1>38 DEF CutWithdraw
<1>39. CASE CutFails
  BY <1>39 DEF CutFails, HaltCut
<1>40. CASE CutFindsNothing
  BY <1>40 DEF CutFindsNothing, HaltCut
<1>41. CASE DependencyMoves
  BY <1>41 DEF DependencyMoves
<1>42. CASE Kill
  BY <1>42 DEF Kill
<1>43. CASE UNCHANGED <<op, cut, odd>>
  BY <1>43
<1> QED
  BY <1>1, <1>2, <1>3, <1>4, <1>5, <1>6, <1>7, <1>8, <1>9, <1>10, <1>11,
     <1>12, <1>13, <1>14, <1>15, <1>16, <1>17, <1>18, <1>19, <1>20, <1>21,
     <1>22, <1>23, <1>24, <1>25, <1>26, <1>27, <1>28, <1>29, <1>30, <1>31,
     <1>32, <1>33, <1>34, <1>35, <1>36, <1>37, <1>38, <1>39, <1>40, <1>41,
     <1>42, <1>43
  DEF PNext, Approves, Rejects, Cutting, World, Retry, HaltChanged, Edit,
     ChangeStops, RecreateTree

(* Plans are copied, and only an edit makes a new one.                     *)
LEMMA NewerStep == SealInv /\ [PNext]_aVars => NoneIsNewer'
<1> SUFFICES ASSUME SealInv, [PNext]_aVars PROVE NoneIsNewer'
  OBVIOUS
<1> USE Fields, Starts
        DEF SealInv, TypeInv, PTypeOK, NoneIsNewer, Plans, None, NoOp, NoTree,
            NoBranch, Nothing
<1>1. CASE ApproveDraft
  BY <1>1 DEF ApproveDraft
<1>2. CASE ApproveStacked
  BY <1>2 DEF ApproveStacked
<1>3. CASE ApproveSteered
  <2>1. CASE op' = [NoOp EXCEPT !.path = "steer", !.pc = "review"]
    BY <1>3, <2>1 DEF ApproveSteered
  <2>2. CASE op' = [NoOp EXCEPT !.path = "restart", !.pc = "review"]
    BY <1>3, <2>2 DEF ApproveSteered
  <2> QED
    BY <1>3, <2>1, <2>2 DEF ApproveSteered
<1>4. CASE Claim
  BY <1>4 DEF Claim
<1>5. CASE ClaimRefused
  BY <1>5 DEF ClaimRefused
<1>6. CASE Review
  BY <1>6 DEF Review
<1>7. CASE Decline
  BY <1>7 DEF Decline
<1>8. CASE Confirm
  BY <1>8 DEF Confirm
<1>9. CASE ConfirmStacked
  BY <1>9 DEF ConfirmStacked
<1>10. CASE CopyStacked
  BY <1>10 DEF CopyStacked
<1>11. CASE SealStacked
  BY <1>11 DEF SealStacked
<1>12. CASE WriteStackedOn
  BY <1>12 DEF WriteStackedOn
<1>13. CASE CreateBranch
  BY <1>13 DEF CreateBranch
<1>14. CASE AddTree
  BY <1>14 DEF AddTree
<1>15. CASE GitRefuses
  BY <1>15 DEF GitRefuses
<1>16. CASE Place
  BY <1>16 DEF Place
<1>17. CASE WriteSeal
  BY <1>17, WriteSealEffect DEF WriteSeal, Reseals
<1>18. CASE CommitApproved
  BY <1>18 DEF CommitApproved
<1>19. CASE CommitFails
  BY <1>19, CommitFailsEffect DEF CommitFails
<1>20. CASE CommandFails
  BY <1>20 DEF CommandFails
<1>21. CASE Withdraw
  <2>1. /\ stacked' = Nothing /\ op' \in {[op EXCEPT !.pc = "clear"], NoOp}
        /\ UNCHANGED <<draft, branch, tree, latest>>
    BY <1>21 DEF Withdraw
  <2>2. op'.hash \in {op.hash, None} /\ op'.aside \in {op.aside, None}
    BY <2>1 DEF Ops
  <2> QED
    BY <2>1, <2>2
<1>22. CASE Clear
  BY <1>22 DEF Clear
<1>23. CASE Retire
  BY <1>23, StopEffect DEF Retire
<1>24. CASE Replan
  BY <1>24 DEF Replan
<1>25. CASE RemoveTree
  <2>1. CASE tree' = NoTree /\ To("keep")
    BY <1>25, <2>1 DEF RemoveTree
  <2>2. CASE op' = NoOp /\ UNCHANGED tree
    BY <1>25, <2>2 DEF RemoveTree
  <2> QED
    BY <1>25, <2>1, <2>2 DEF RemoveTree
<1>26. CASE KeepBranch
  BY <1>26 DEF KeepBranch
<1>27. CASE RejectStacked
  BY <1>27 DEF RejectStacked
<1>28. CASE RejectInWorktree
  BY <1>28 DEF RejectInWorktree
<1>29. CASE CommitRejected
  BY <1>29 DEF CommitRejected
<1>30. CASE DropTree
  BY <1>30 DEF DropTree
<1>31. CASE RejectFails
  BY <1>31 DEF RejectFails
<1>32. CASE Retry
  BY <1>32, StopEffect DEF Retry
<1>33. CASE HaltChanged
  BY <1>33 DEF HaltChanged
<1>34. CASE CutBranch
  BY <1>34 DEF CutBranch
<1>35. CASE CutAdd
  BY <1>35 DEF CutAdd
<1>36. CASE CutCopy
  BY <1>36 DEF CutCopy
<1>37. CASE CutCommit
  BY <1>37 DEF CutCommit
<1>38. CASE CutWithdraw
  BY <1>38 DEF CutWithdraw
<1>39. CASE CutFails
  BY <1>39 DEF CutFails, HaltCut
<1>40. CASE CutFindsNothing
  BY <1>40 DEF CutFindsNothing, HaltCut
<1>41. CASE Edit
  <2>1. latest \in Nat /\ latest' = latest + 1
    BY <1>41, EditEffect
  <2>2. /\ draft \in Nat /\ op.hash \in Nat /\ op.aside \in Nat
        /\ stacked.plan \in Nat /\ stacked.seal \in Nat
        /\ tree.copy.plan \in Nat /\ tree.copy.seal \in Nat
        /\ branch.copy.plan \in Nat /\ branch.copy.seal \in Nat
    BY DEF Ops
  <2>3. \A p \in Nat : p <= latest => p <= latest'
    BY <2>1
  <2> QED
    BY <1>41, EditEffect, <2>1, <2>2, <2>3
<1>42. CASE ChangeStops
  BY <1>42, StopEffect DEF ChangeStops
<1>43. CASE Kill
  BY <1>43 DEF Kill
<1>44. CASE RecreateTree
  BY <1>44 DEF RecreateTree
<1>45. CASE UNCHANGED <<draft, stacked, tree, branch, op, latest>>
  BY <1>45
<1> QED
  BY <1>1, <1>2, <1>3, <1>4, <1>5, <1>6, <1>7, <1>8, <1>9, <1>10, <1>11,
     <1>12, <1>13, <1>14, <1>15, <1>16, <1>17, <1>18, <1>19, <1>20, <1>21,
     <1>22, <1>23, <1>24, <1>25, <1>26, <1>27, <1>28, <1>29, <1>30, <1>31,
     <1>32, <1>33, <1>34, <1>35, <1>36, <1>37, <1>38, <1>39, <1>40, <1>41,
     <1>42, <1>43, <1>44, <1>45
  DEF PNext, Approves, Rejects, Cutting, World, Decide, CutFinds,
     DependencyMoves

(* What is laid on a plan, or carried to it, is the hash of what was read.   *)
LEMMA ReadStep ==
  ASSUME SealInv, [PNext]_aVars
  PROVE  ("overlap" \notin odd => HashIsRead /\ SealsAreRead)'
<1> USE Fields, Starts
        DEF SealInv, TypeInv, PTypeOK, Apart, HashIsRead, SealsAreRead,
            ReadIf, Plans, None, NoOp, NoTree, NoBranch, Nothing, Paths, Ops
<1>1. CASE ApproveDraft
  BY <1>1 DEF ApproveDraft
<1>2. CASE ApproveStacked
  BY <1>2 DEF ApproveStacked
<1>3. CASE ApproveSteered
  <2>1. CASE op' = [NoOp EXCEPT !.path = "steer", !.pc = "review"]
    BY <1>3, <2>1 DEF ApproveSteered
  <2>2. CASE op' = [NoOp EXCEPT !.path = "restart", !.pc = "review"]
    BY <1>3, <2>2 DEF ApproveSteered
  <2> QED
    BY <1>3, <2>1, <2>2 DEF ApproveSteered
<1>4. CASE Claim
  BY <1>4 DEF Claim
<1>5. CASE ClaimRefused
  BY <1>5 DEF ClaimRefused
<1>6. CASE Review
  BY <1>6 DEF Review
<1>7. CASE Decline
  BY <1>7 DEF Decline
<1>8. CASE Confirm
  <2>1. CASE op.path = "fresh"
    BY <1>8, <2>1 DEF Confirm
  <2>2. CASE op.path # "fresh"
    <3>1. op.path = "steer" \/ op.path = "restart"
      BY <1>8, <2>2 DEF Confirm, PathFits
    <3>2. op'.hash = op.hash /\ op'.path = op.path
      BY <1>8 DEF Confirm
    <3>3. op'.pc \in {"seal", "replan"}
      BY <1>8, <3>1 DEF Confirm
    <3> QED
      BY <1>8, <2>2, <3>2, <3>3 DEF Confirm
  <2> QED
    BY <2>1, <2>2
<1>9. CASE ConfirmStacked
  BY <1>9 DEF ConfirmStacked
<1>10. CASE CopyStacked
  <2>1. stacked'.plan = draft /\ stacked'.seal = stacked.seal
    BY <1>10, CopyFields DEF CopyStacked
  <2> QED
    BY <1>10, <2>1 DEF CopyStacked
<1>11. CASE SealStacked
  BY <1>11 DEF SealStacked
<1>12. CASE WriteStackedOn
  BY <1>12 DEF WriteStackedOn
<1>13. CASE CreateBranch
  BY <1>13 DEF CreateBranch
<1>14. CASE AddTree
  BY <1>14 DEF AddTree
<1>15. CASE GitRefuses
  BY <1>15 DEF GitRefuses
<1>16. CASE Place
  BY <1>16 DEF Place
<1>17. CASE WriteSeal
  BY <1>17, WriteSealEffect DEF WriteSeal, Reseals
<1>18. CASE CommitApproved
  <2>1. op.path \in {"fresh", "steer", "restart"}
    BY <1>18 DEF CommitApproved, PathFits
  <2> DEFINE next == [fresh |-> "withdraw", steer |-> "retire",
                      restart |-> "idle"][op.path]
  <2>2. next \in {"withdraw", "retire", "idle"}
    BY <2>1
  <2>3. op' = [NoOp EXCEPT !.pc = next]
    BY <1>18 DEF CommitApproved
  <2> HIDE DEF next
  <2>4. op'.pc \in {"withdraw", "retire", "idle"}
    BY <2>2, <2>3
  <2>5. branch'.copy = tree.copy
    BY <1>18 DEF CommitApproved, Branches
  <2> QED
    BY <1>18, <2>4, <2>5 DEF CommitApproved
<1>19. CASE CommitFails
  BY <1>19, CommitFailsEffect DEF CommitFails
<1>20. CASE CommandFails
  BY <1>20 DEF CommandFails
<1>21. CASE Withdraw
  <2>1. CASE op.path = "fresh"
    BY <1>21, <2>1 DEF Withdraw
  <2>2. CASE op.path # "fresh"
    BY <1>21, <2>2 DEF Withdraw
  <2> QED
    BY <2>1, <2>2
<1>22. CASE Clear
  BY <1>22 DEF Clear
<1>23. CASE Retire
  BY <1>23, StopEffect DEF Retire
<1>24. CASE Replan
  BY <1>24 DEF Replan
<1>25. CASE RemoveTree
  <2>1. CASE tree' = NoTree /\ To("keep")
    BY <1>25, <2>1 DEF RemoveTree
  <2>2. CASE op' = NoOp /\ UNCHANGED tree
    BY <1>25, <2>2 DEF RemoveTree
  <2> QED
    BY <1>25, <2>1, <2>2 DEF RemoveTree
<1>26. CASE KeepBranch
  BY <1>26 DEF KeepBranch, PathFits
<1>27. CASE RejectStacked
  BY <1>27 DEF RejectStacked
<1>28. CASE RejectInWorktree
  BY <1>28 DEF RejectInWorktree
<1>29. CASE CommitRejected
  BY <1>29 DEF CommitRejected
<1>30. CASE DropTree
  BY <1>30 DEF DropTree
<1>31. CASE RejectFails
  BY <1>31 DEF RejectFails
<1>32. CASE Retry
  BY <1>32, StopEffect DEF Retry
<1>33. CASE HaltChanged
  BY <1>33 DEF HaltChanged
<1>34. CASE Decide
  BY <1>34 DEF Decide
<1>35. CASE CutBranch
  BY <1>35 DEF CutBranch
<1>36. CASE CutAdd
  BY <1>36 DEF CutAdd
<1>37. CASE CutCopy
  BY <1>37 DEF CutCopy
<1>38. CASE CutCommit
  BY <1>38 DEF CutCommit
<1>39. CASE CutWithdraw
  BY <1>39 DEF CutWithdraw
<1>40. CASE CutFails
  BY <1>40 DEF CutFails, HaltCut
<1>41. CASE CutFindsNothing
  BY <1>41 DEF CutFindsNothing, HaltCut
<1>42. CASE Edit
  BY <1>42, EditEffect DEF NoneIsNewer
<1>43. CASE ChangeStops
  BY <1>43, StopEffect DEF ChangeStops
<1>44. CASE DependencyMoves
  BY <1>44 DEF DependencyMoves
<1>45. CASE Kill
  BY <1>45 DEF Kill
<1>46. CASE RecreateTree
  BY <1>46 DEF RecreateTree
<1>47. CASE UNCHANGED <<draft, stacked, tree, branch, op, reviewed, unseen, odd>>
  BY <1>47
<1> QED
  BY <1>1, <1>2, <1>3, <1>4, <1>5, <1>6, <1>7, <1>8, <1>9, <1>10, <1>11,
     <1>12, <1>13, <1>14, <1>15, <1>16, <1>17, <1>18, <1>19, <1>20, <1>21,
     <1>22, <1>23, <1>24, <1>25, <1>26, <1>27, <1>28, <1>29, <1>30, <1>31,
     <1>32, <1>33, <1>34, <1>35, <1>36, <1>37, <1>38, <1>39, <1>40, <1>41,
     <1>42, <1>43, <1>44, <1>45, <1>46, <1>47
  DEF PNext, Approves, Rejects, Cutting, World, CutFinds

LEMMA SealInit == PInit => SealInv
<1> SUFFICES ASSUME PInit PROVE SealInv
  OBVIOUS
<1>1. TypeInv
  BY InitType
<1>2. Apart /\ HashIsRead /\ SealsAreRead
  BY DEF PInit, Apart, HashIsRead, SealsAreRead, ReadIf, NoOp, NoTree,
     NoBranch, Nothing, None
<1>3. NoneIsNewer
  BY DEF PInit, NoneIsNewer, NoOp, NoTree, NoBranch, Nothing, None
<1> QED
  BY <1>1, <1>2, <1>3 DEF SealInv

LEMMA SealStep == SealInv /\ [PNext]_aVars => SealInv'
  BY TypeStep, ApartStep, NewerStep, ReadStep DEF SealInv

(* Whatever is sealed, in the stack, in a worktree or on a branch, was read: *)
(* it is a plan some digest was built from, or one a steered approval        *)
(* hashed after its prompt, unless an approval ran beside a cut.             *)
THEOREM SealsWhatWasRead == PSpec => []SealedWasReviewed
<1>1. PSpec => []SealInv
  BY SealInit, SealStep, PTL DEF PSpec
<1>2. SealInv => SealedWasReviewed
  BY DEF SealInv, SealedWasReviewed, SealsAreRead, ReadIf
<1> QED
  BY <1>1, <1>2, PTL

-----------------------------------------------------------------------------
(***************************************************************************)
(* Where the change is, phase by phase, as long as no approval met a cut   *)
(* and no half-written approval was cut: what a branch and a worktree      *)
(* hold, and what a command or a cut that is between two of its steps has  *)
(* done so far.                                                            *)
(***************************************************************************)
Calm == odd \cap {"overlap", "half"} = {}

PlacesFit ==
  /\ branch.at = "gone" => tree.at = "gone"
  /\ branch.at \in {"gone", "bare"} => branch.copy = Nothing
  /\ branch.at = "changes" =>
       /\ branch.copy.seal # None /\ branch.copy.plan # None
       /\ tree.at # "bare"
       /\ tree.at = "changes" => tree.copy.seal # None
  /\ tree.at \in {"gone", "bare"} => tree.copy = Nothing
  /\ tree.at = "changes" =>
       /\ tree.copy.plan # None
       /\ tree.copy.stop # "none" => branch.at = "changes"
  /\ stacked.on # None => stacked.seal # None /\ stacked.plan # None

Fresh(phases)   == op.path = "fresh" /\ op.pc \in phases
Steer(phases)   == op.path = "steer" /\ op.pc \in phases
Restart(phases) == op.path = "restart" /\ op.pc \in phases

CommandFits ==
  /\ op.restored => op.path = "fresh"
  /\ op.aside # None
       <=> Restart({"remove", "keep", "branch", "add", "prepare"})
  /\ Fresh({"claim", "review", "prompt", "copy", "branch", "add", "prepare"})
       => draft # None
  /\ Fresh({"review", "prompt", "copy", "mark", "branch", "add", "prepare",
            "seal"})
       => op.hash # None
  /\ Fresh({"review", "prompt", "copy", "mark", "await"}) \/ op.pc = "branch"
       => branch.at = "gone"
  /\ op.pc \in {"claim", "copy", "mark", "await"} => op.path = "fresh"
  /\ op.pc \in {"branch", "add", "prepare"} => op.path \in {"fresh", "restart"}
  /\ op.pc = "withdraw" => op.path \in {"fresh", "reject"}
  /\ op.pc = "copy" => stacked = Nothing
  /\ op.pc \in {"mark", "await"} => stacked.plan # None /\ stacked.on = None
  /\ op.pc = "await" => stacked.seal # None
  /\ op.pc = "add" => branch.at = "bare" /\ tree.at = "gone"
  /\ op.pc = "prepare" => branch.at = "bare" /\ tree.at = "bare"
  /\ op.pc \in {"seal", "commit"} /\ op.path # "steer"
       => branch.at = "bare" /\ tree.at = "changes"
  /\ op.pc = "commit" => tree.copy.seal # None
  /\ \/ Steer({"review", "prompt", "seal", "commit"})
     \/ Restart({"review", "prompt", "replan", "remove"})
     \/ Fresh({"withdraw"})
     => branch.at = "changes" /\ tree.at = "changes"
  /\ Steer({"commit"}) => op.hash # None
  /\ op.pc = "keep" => branch.at = "changes" /\ tree.at = "gone"
  /\ op.pc \in {"record", "drop"} => tree.at = "rejected"
  /\ op.pc = "drop" => branch.at = "rejected"

CutFits ==
  /\ cut.pc # "idle" => stacked.on # None /\ stacked.stop = "none"
  /\ cut.pc \in {"branch", "add"} => ~Names
  /\ cut.pc \in {"add", "prepare", "commit"} => branch.at # "gone"
  /\ cut.pc = "prepare" =>
       /\ tree.at # "gone"
       /\ ~Names \/ tree.at = branch.at
  /\ cut.pc = "commit" => tree.at = "changes" /\ tree.copy.seal # None
  /\ cut.pc = "withdraw" => branch.at = "changes" /\ tree.at = "changes"

WhereInv == SealInv /\ (Calm => PlacesFit /\ CommandFits /\ CutFits)

(***************************************************************************)
(* The strengthening of ApprovedIsKept: which place holds the plan that    *)
(* was approved last, so that it is never the one about to be removed.     *)
(***************************************************************************)
Places == {stacked.plan, tree.copy.plan, branch.copy.plan} \cup kept

LastIsHeld ==
  /\ tree.at # "rejected" /\ branch.at # "rejected"
  /\ last \in Places \cup {draft}
  /\ branch.at = "changes" =>
       last \in kept \cup {IF tree.at = "changes" THEN tree.copy.plan
                           ELSE branch.copy.plan}
  /\ branch.at # "changes" /\ InStack => last \in kept \cup {stacked.plan}
  /\ op.pc = "copy" => last \in kept \cup {draft}
  /\ op.pc = "clear" \/ (op.restored /\ op.pc # "copy") => last \in Places
  /\ Restart({"branch", "add", "prepare", "seal", "commit"}) => last \in kept
  /\ cut.pc = "commit" => last \in kept \cup {tree.copy.plan}

KeptInv == WhereInv /\ (Calm /\ last # None => LastIsHeld)

(***************************************************************************)
(* The strengthening of RunsLastApproved: wherever the change is found, a  *)
(* seal that fits its plan is that of the last approval.                   *)
(***************************************************************************)
FitsItsSeal(copy) == copy.seal # None /\ copy.seal = copy.plan

FoundIsLast ==
  /\ stacked # Nothing /\ branch.at = "changes"
       => Fresh({"withdraw"}) \/ cut.pc = "withdraw"
  /\ stacked # Nothing =>
       /\ tree.at # "rejected" /\ branch.at # "rejected"
       /\ ~Restart({"branch", "add", "prepare", "seal", "commit"})
  /\ op.path = "reject" /\ op.pc = "withdraw" => branch.at # "changes"
  /\ branch.at = "changes" /\ tree.at = "changes" /\ FitsItsSeal(tree.copy)
       => last = tree.copy.plan
  /\ branch.at = "changes" /\ tree.at = "gone" /\ FitsItsSeal(branch.copy)
       => last = branch.copy.plan
  /\ branch.at # "changes" /\ ~Names /\ stacked.on # None
       /\ FitsItsSeal(stacked)
       => last = stacked.plan
  /\ cut.pc = "commit" /\ FitsItsSeal(tree.copy) => last = tree.copy.plan

LastInv == WhereInv /\ (Calm /\ "leftover" \notin odd => FoundIsLast)

(***************************************************************************)
(* The strengthening of StartsOnDependency: what the watcher decided still *)
(* stands when it makes the branch, and no copy of another approval comes  *)
(* onto that branch.                                                       *)
(***************************************************************************)
Holds(version) ==
  branch.base = version \/ ("unread" \in odd /\ branch.base # None)

BaseFits ==
  /\ cut.pc = "branch" =>
       \/ /\ cut.base = "dependency"
          /\ dep.state = "archived" /\ dep.version = stacked.on
       \/ /\ cut.base = "main" /\ dep.state = "landed"
          /\ (dep.version = stacked.on \/ "unread" \in odd)
  /\ cut.pc \in {"add", "prepare", "commit"} => branch.by = "cut"
  /\ branch.at = "gone" => branch.by = "approval"
  /\ branch.by = "approval" => branch.copy.on = None /\ tree.copy.on = None
  /\ branch.by = "cut" =>
       \A copy \in {stacked, tree.copy, branch.copy} :
         copy.on # None => Holds(copy.on)

BaseInv == WhereInv /\ (Calm /\ "reused" \notin odd => BaseFits)

(* What was noted stays noted.                                              *)
LEMMA OddStep == [PNext]_aVars => odd \subseteq odd'
<1> SUFFICES ASSUME [PNext]_aVars PROVE odd \subseteq odd'
  OBVIOUS
<1>1. CASE ApproveDraft
  BY <1>1 DEF ApproveDraft
<1>2. CASE ApproveStacked
  BY <1>2 DEF ApproveStacked
<1>3. CASE ApproveSteered
  BY <1>3 DEF ApproveSteered
<1>4. CASE RejectStacked
  BY <1>4 DEF RejectStacked
<1>5. CASE RejectInWorktree
  BY <1>5 DEF RejectInWorktree
<1>6. CASE Decide
  BY <1>6 DEF Decide
<1>7. CASE CutBranch
  BY <1>7 DEF CutBranch
<1>8. CASE DependencyMoves
  BY <1>8 DEF DependencyMoves
<1>9. CASE Kill
  BY <1>9 DEF Kill
<1>10. CASE UNCHANGED <<odd>>
  BY <1>10
<1> QED
  BY <1>1, <1>2, <1>3, <1>4, <1>5, <1>6, <1>7, <1>8, <1>9, <1>10
  DEF PNext, Approves, Rejects, Cutting, World, Claim, ClaimRefused, Review,
     Decline, Confirm, ConfirmStacked, CopyStacked, SealStacked,
     WriteStackedOn, CreateBranch, AddTree, GitRefuses, Place, WriteSeal,
     CommitApproved, CommitFails, CommandFails, Withdraw, Clear, Retire,
     Replan, RemoveTree, KeepBranch, CommitRejected, DropTree, RejectFails,
     Retry, HaltChanged, CutAdd, CutFinds, CutCopy, CutCommit, CutWithdraw,
     CutFails, CutFindsNothing, Edit, ChangeStops, RecreateTree

LEMMA CalmStep ==
  ASSUME WhereInv, [PNext]_aVars, Calm'
  PROVE  Calm /\ PlacesFit /\ CommandFits /\ CutFits
         /\ (op.pc = "idle" \/ cut.pc = "idle")
  BY OddStep DEF WhereInv, SealInv, Apart, Calm

(* The places.                                                              *)
LEMMA PlacesStep ==
  ASSUME WhereInv, [PNext]_aVars, Calm'
  PROVE  PlacesFit'
<1>0. /\ Calm /\ PlacesFit /\ CommandFits /\ CutFits
      /\ op.pc = "idle" \/ cut.pc = "idle"
  BY CalmStep
<1>00. TypeInv /\ NoneIsNewer
  BY DEF WhereInv, SealInv
<1> USE Fields, Starts, <1>0, <1>00
        DEF TypeInv, PTypeOK, PlacesFit, Nothing,
            NoBranch, NoTree, None
<1>1. CASE Claim
  BY <1>1 DEF Claim, CommandFits, Fresh, Steer, Restart
<1>2. CASE ConfirmStacked
  BY <1>2 DEF ConfirmStacked
<1>3. CASE CopyStacked
  BY <1>3, CopyFields DEF CopyStacked, CommandFits, Fresh, Steer, Restart
<1>4. CASE SealStacked
  BY <1>4, CopyFields DEF SealStacked, CommandFits, Fresh, Steer, Restart
<1>5. CASE WriteStackedOn
  BY <1>5, CopyFields DEF WriteStackedOn, CommandFits, Fresh, Steer, Restart
<1>6. CASE CreateBranch
  BY <1>6 DEF CreateBranch
<1>7. CASE AddTree
  BY <1>7 DEF AddTree, CommandFits, Fresh, Steer, Restart
<1>8. CASE Place
  <2> DEFINE plan == IF op.path = "restart" THEN op.aside ELSE draft
  <2>1. plan # None
    BY <1>8 DEF Place, PathFits, Ops, Paths, CommandFits, Fresh, Restart
  <2>2. tree' = [at |-> "changes", copy |-> [Nothing EXCEPT !.plan = plan]]
    BY <1>8 DEF Place
  <2> HIDE DEF plan
  <2>3. tree'.at = "changes" /\ tree'.copy.plan = plan
        /\ tree'.copy.stop = "none"
    BY <2>2
  <2> QED
    BY <1>8, <2>1, <2>3 DEF Place, CommandFits
<1>9. CASE WriteSeal
  BY <1>9, WriteSealEffect DEF WriteSeal, Reseals, CommandFits, Fresh, Steer,
     Restart
<1>10. CASE CommitApproved
  BY <1>10, CommitEffect DEF CommitApproved, CommandFits, Fresh, Steer, Restart
<1>11. CASE CommitFails
  BY <1>11, CommitFailsEffect DEF CommitFails, CommandFits, Fresh, Steer,
     Restart
<1>12. CASE Withdraw
  BY <1>12 DEF Withdraw
<1>13. CASE Retire
  BY <1>13, StopEffect DEF Retire
<1>14. CASE Replan
  <2>1. op.path = "restart" /\ op.pc = "replan"
    BY <1>14 DEF Replan, PathFits
  <2>2. tree.at = "changes" /\ branch.at = "changes"
    BY <2>1 DEF CommandFits, Restart
  <2> QED
    BY <1>14, <2>2, CommitEffect DEF Replan
<1>15. CASE RemoveTree
  BY <1>15 DEF RemoveTree, CommandFits, Fresh, Steer, Restart
<1>16. CASE KeepBranch
  <2>1. tree.at = "gone"
    BY <1>16 DEF KeepBranch, CommandFits
  <2> QED
    BY <1>16, <2>1 DEF KeepBranch
<1>17. CASE RejectInWorktree
  BY <1>17 DEF RejectInWorktree, CommandFits, Fresh, Steer, Restart, InWorktree
<1>18. CASE CommitRejected
  BY <1>18, CommitEffect DEF CommitRejected, CommandFits, Fresh, Steer, Restart
<1>19. CASE DropTree
  BY <1>19 DEF DropTree, CommandFits, Fresh, Steer, Restart
<1>20. CASE Retry
  BY <1>20, StopEffect DEF Retry
<1>21. CASE HaltChanged
  BY <1>21, CopyFields DEF HaltChanged
<1>22. CASE CutBranch
  BY <1>22 DEF CutBranch, CutFits
<1>23. CASE CutAdd
  BY <1>23 DEF CutAdd, CutFits, Names
<1>24. CASE CutCopy
  BY <1>24 DEF CutCopy, CutFits, Sealed
<1>25. CASE CutCommit
  BY <1>25, CommitEffect DEF CutCommit, CutFits
<1>26. CASE CutWithdraw
  BY <1>26 DEF CutWithdraw
<1>27. CASE CutFails
  BY <1>27, CopyFields DEF CutFails, HaltCut
<1>28. CASE CutFindsNothing
  BY <1>28, CopyFields DEF CutFindsNothing, CutFits, Sealed, HaltCut
<1>29. CASE Edit
  <2>1. latest' # None
    BY <1>29, EditEffect DEF Plans
  <2> QED
    BY <1>29, <2>1, EditEffect DEF Edit
<1>30. CASE ChangeStops
  BY <1>30, StopEffect DEF ChangeStops, InWorktree, Sealed
<1>31. CASE RecreateTree
  BY <1>31 DEF RecreateTree, Sealed
<1>32. CASE UNCHANGED <<branch, tree, stacked>>
  BY <1>32
<1> QED
  BY <1>1, <1>2, <1>3, <1>4, <1>5, <1>6, <1>7, <1>8, <1>9, <1>10, <1>11,
     <1>12, <1>13, <1>14, <1>15, <1>16, <1>17, <1>18, <1>19, <1>20, <1>21,
     <1>22, <1>23, <1>24, <1>25, <1>26, <1>27, <1>28, <1>29, <1>30, <1>31,
     <1>32
  DEF PNext, Approves, Rejects, Cutting, World, ApproveDraft, ApproveStacked,
     ApproveSteered, ClaimRefused, Review, Decline, Confirm, GitRefuses,
     CommandFails, Clear, RejectStacked, RejectFails, Decide, CutFinds,
     DependencyMoves, Kill

(* The command.                                                             *)
LEMMA CommandStep ==
  ASSUME WhereInv, [PNext]_aVars, Calm'
  PROVE  CommandFits'
<1>0. /\ Calm /\ PlacesFit /\ CommandFits /\ CutFits
      /\ op.pc = "idle" \/ cut.pc = "idle"
  BY CalmStep
<1>00. TypeInv /\ NoneIsNewer
  BY DEF WhereInv, SealInv
<1> USE Fields, Starts, <1>0, <1>00
        DEF TypeInv, PTypeOK, PathFits, CommandFits, Fresh, Steer, Restart,
            NoOp, None
<1>1. CASE ApproveDraft
  BY <1>1 DEF ApproveDraft, InCheckout
<1>2. CASE ApproveStacked
  BY <1>2 DEF ApproveStacked, Calm
<1>3. CASE ApproveSteered
  <2>1. tree.at = "changes" /\ tree.copy.stop # "none"
        /\ UNCHANGED <<draft, branch, tree, stacked>>
    BY <1>3 DEF ApproveSteered, InWorktree
  <2>2. branch.at = "changes"
    BY <2>1 DEF PlacesFit
  <2>3. \/ op' = [NoOp EXCEPT !.path = "steer", !.pc = "review"]
        \/ op' = [NoOp EXCEPT !.path = "restart", !.pc = "review"]
    BY <1>3 DEF ApproveSteered
  <2>4. op'.path \in {"steer", "restart"} /\ op'.pc = "review"
        /\ op'.aside = None /\ op'.restored = FALSE
    BY <2>3
  <2> QED
    BY <2>1, <2>2, <2>4
<1>4. CASE Claim
  <2>1. branch'.at = "gone"
    BY <1>4 DEF Claim, NoBranch
  <2>2. /\ op'.path = op.path /\ op'.pc = "review" /\ op'.hash = draft
        /\ op'.aside = op.aside /\ op'.restored = op.restored
        /\ UNCHANGED <<draft, stacked, tree>>
    BY <1>4 DEF Claim, Ops
  <2> QED
    BY <1>4, <2>1, <2>2 DEF Claim
<1>5. CASE ClaimRefused
  BY <1>5 DEF ClaimRefused
<1>6. CASE Review
  BY <1>6 DEF Review
<1>7. CASE Decline
  BY <1>7 DEF Decline
<1>8. CASE Confirm
  <2>1. op.path \in {"fresh", "steer", "restart"} /\ op.pc = "prompt"
    BY <1>8 DEF Confirm, Paths, Ops
  <2>2. /\ op'.path = op.path /\ op'.hash = op.hash
        /\ op'.aside = op.aside /\ op'.restored = op.restored
        /\ UNCHANGED <<draft, branch, tree, stacked>>
    BY <1>8 DEF Confirm, Ops
  <2>3. /\ op.path = "fresh" => op'.pc = "branch"
        /\ op.path = "steer" => op'.pc = "seal"
        /\ op.path = "restart" => op'.pc = "replan"
    BY <1>8, <2>1 DEF Confirm, Ops
  <2> QED
    BY <2>1, <2>2, <2>3
<1>9. CASE ConfirmStacked
  BY <1>9 DEF ConfirmStacked
<1>10. CASE CopyStacked
  BY <1>10, CopyFields DEF CopyStacked, Nothing
<1>11. CASE SealStacked
  BY <1>11, CopyFields DEF SealStacked
<1>12. CASE WriteStackedOn
  BY <1>12, CopyFields DEF WriteStackedOn
<1>13. CASE CreateBranch
  BY <1>13 DEF CreateBranch, NoBranch, PlacesFit
<1>14. CASE AddTree
  BY <1>14 DEF AddTree
<1>15. CASE GitRefuses
  BY <1>15 DEF GitRefuses
<1>16. CASE Place
  BY <1>16 DEF Place
<1>17. CASE WriteSeal
  BY <1>17, WriteSealEffect DEF WriteSeal, Reseals, PlacesFit
<1>18. CASE CommitApproved
  <2>1. op.path \in {"fresh", "steer", "restart"}
        /\ tree.at = "changes" /\ UNCHANGED <<draft, tree, stacked>>
    BY <1>18 DEF CommitApproved, Paths, Ops
  <2> DEFINE next == [fresh |-> "withdraw", steer |-> "retire",
                      restart |-> "idle"][op.path]
  <2>2. next \in {"withdraw", "retire", "idle"}
    BY <2>1
  <2>3. op' = [NoOp EXCEPT !.pc = next]
    BY <1>18 DEF CommitApproved
  <2> HIDE DEF next
  <2>4. /\ op'.pc \in {"withdraw", "retire", "idle"} /\ op'.path = "fresh"
        /\ op'.aside = None /\ op'.restored = FALSE
    BY <2>2, <2>3
  <2>5. branch'.at = "changes"
    BY <1>18, <2>1, CommitEffect DEF CommitApproved
  <2> QED
    BY <2>1, <2>4, <2>5
<1>19. CASE CommitFails
  BY <1>19, CommitFailsEffect DEF CommitFails
<1>20. CASE CommandFails
  BY <1>20 DEF CommandFails
<1>21. CASE Withdraw
  <2>1. CASE op.path = "fresh"
    <3>1. /\ op'.path = op.path /\ op'.pc = "clear"
          /\ op'.aside = op.aside /\ op'.restored = op.restored
      BY <1>21, <2>1 DEF Withdraw, Ops
    <3> QED
      BY <2>1, <3>1
  <2>2. CASE op.path # "fresh"
    BY <1>21, <2>2 DEF Withdraw
  <2> QED
    BY <2>1, <2>2
<1>22. CASE Clear
  BY <1>22 DEF Clear
<1>23. CASE Retire
  BY <1>23, StopEffect DEF Retire
<1>24. CASE Replan
  BY <1>24, CommitEffect DEF Replan, PlacesFit
<1>25. CASE RemoveTree
  <2>1. CASE tree' = NoTree /\ To("keep")
    <3>1. op.path = "restart" /\ op.pc = "remove"
      BY <1>25 DEF RemoveTree
    <3>2. /\ op'.path = "restart" /\ op'.pc = "keep"
          /\ op'.aside = op.aside /\ op'.restored = op.restored
          /\ tree'.at = "gone" /\ branch' = branch
      BY <1>25, <2>1, <3>1 DEF RemoveTree, NoTree, Ops
    <3> QED
      BY <3>1, <3>2
  <2>2. CASE op' = NoOp /\ UNCHANGED tree
    BY <2>2
  <2> QED
    BY <1>25, <2>1, <2>2 DEF RemoveTree
<1>26. CASE KeepBranch
  BY <1>26 DEF KeepBranch, NoBranch
<1>27. CASE RejectStacked
  BY <1>27 DEF RejectStacked
<1>28. CASE RejectInWorktree
  BY <1>28 DEF RejectInWorktree, Trees
<1>29. CASE CommitRejected
  BY <1>29, CommitEffect DEF CommitRejected
<1>30. CASE DropTree
  BY <1>30 DEF DropTree, NoTree
<1>31. CASE RejectFails
  BY <1>31 DEF RejectFails
<1>32. CASE Retry
  BY <1>32 DEF Retry
<1>33. CASE HaltChanged
  BY <1>33, CopyFields DEF HaltChanged, Changed, Visited, InStack
<1>34. CASE CutBranch
  BY <1>34 DEF CutBranch
<1>35. CASE CutAdd
  BY <1>35 DEF CutAdd
<1>36. CASE CutCopy
  BY <1>36 DEF CutCopy
<1>37. CASE CutCommit
  BY <1>37 DEF CutCommit
<1>38. CASE CutWithdraw
  BY <1>38 DEF CutWithdraw
<1>39. CASE CutFails
  BY <1>39 DEF CutFails, HaltCut
<1>40. CASE CutFindsNothing
  BY <1>40 DEF CutFindsNothing, HaltCut
<1>41. CASE Edit
  <2>1. latest' # None
    BY <1>41, EditEffect DEF Plans
  <2>2. /\ draft # None => draft' # None
        /\ stacked.plan # None => stacked'.plan # None
    BY <1>41, <2>1, EditEffect
  <2>3. stacked = Nothing => stacked' = Nothing
    <3>1. stacked' = stacked \/ stacked.plan # None
      BY <1>41 DEF Edit
    <3>2. Nothing.plan = None
      BY DEF Nothing
    <3> QED
      BY <3>1, <3>2
  <2> QED
    BY <1>41, <2>2, <2>3, EditEffect
<1>42. CASE ChangeStops
  BY <1>42, StopEffect DEF ChangeStops
<1>43. CASE Kill
  BY <1>43 DEF Kill
<1>44. CASE RecreateTree
  BY <1>44 DEF RecreateTree
<1>45. CASE UNCHANGED <<op, draft, branch, tree, stacked>>
  BY <1>45
<1> QED
  BY <1>1, <1>2, <1>3, <1>4, <1>5, <1>6, <1>7, <1>8, <1>9, <1>10, <1>11,
     <1>12, <1>13, <1>14, <1>15, <1>16, <1>17, <1>18, <1>19, <1>20, <1>21,
     <1>22, <1>23, <1>24, <1>25, <1>26, <1>27, <1>28, <1>29, <1>30, <1>31,
     <1>32, <1>33, <1>34, <1>35, <1>36, <1>37, <1>38, <1>39, <1>40, <1>41,
     <1>42, <1>43, <1>44, <1>45
  DEF PNext, Approves, Rejects, Cutting, World, Decide, CutFinds,
     DependencyMoves

(* The cut.                                                                 *)
LEMMA CutStep ==
  ASSUME WhereInv, [PNext]_aVars, Calm'
  PROVE  CutFits'
<1>0. /\ Calm /\ PlacesFit /\ CommandFits /\ CutFits
      /\ op.pc = "idle" \/ cut.pc = "idle"
  BY CalmStep
<1>00. TypeInv /\ NoneIsNewer
  BY DEF WhereInv, SealInv
<1> USE Fields, Starts, <1>0, <1>00
        DEF TypeInv, PTypeOK, PathFits, CutFits, NoCut, None, Names
<1>1. CASE Claim
  BY <1>1 DEF Claim
<1>2. CASE ConfirmStacked
  BY <1>2 DEF ConfirmStacked
<1>3. CASE CopyStacked
  BY <1>3 DEF CopyStacked
<1>4. CASE SealStacked
  BY <1>4 DEF SealStacked
<1>5. CASE WriteStackedOn
  BY <1>5 DEF WriteStackedOn
<1>6. CASE CreateBranch
  BY <1>6 DEF CreateBranch
<1>7. CASE AddTree
  BY <1>7 DEF AddTree
<1>8. CASE Place
  BY <1>8 DEF Place
<1>9. CASE WriteSeal
  BY <1>9 DEF WriteSeal
<1>10. CASE CommitApproved
  BY <1>10 DEF CommitApproved
<1>11. CASE CommitFails
  BY <1>11 DEF CommitFails
<1>12. CASE Withdraw
  BY <1>12 DEF Withdraw
<1>13. CASE Retire
  BY <1>13, StopEffect DEF Retire
<1>14. CASE Replan
  BY <1>14 DEF Replan
<1>15. CASE RemoveTree
  BY <1>15 DEF RemoveTree
<1>16. CASE KeepBranch
  BY <1>16 DEF KeepBranch
<1>17. CASE RejectInWorktree
  BY <1>17 DEF RejectInWorktree, Calm
<1>18. CASE CommitRejected
  BY <1>18 DEF CommitRejected
<1>19. CASE DropTree
  BY <1>19 DEF DropTree
<1>20. CASE Retry
  BY <1>20, StopEffect DEF Retry, InStack
<1>21. CASE HaltChanged
  BY <1>21 DEF HaltChanged, Visited
<1>22. CASE Decide
  BY <1>22 DEF Decide, Visited, InStack, Calm, Ready
<1>23. CASE CutBranch
  BY <1>23 DEF CutBranch, Cuts, NoBranch
<1>24. CASE CutAdd
  BY <1>24 DEF CutAdd, Cuts, PlacesFit
<1>25. CASE CutFinds
  <2>1. /\ cut.pc = "prepare" /\ cut'.pc = "withdraw" /\ branch.at = "changes"
        /\ UNCHANGED <<branch, tree, stacked>>
    BY <1>25 DEF CutFinds, Cuts, Sealed
  <2>2. tree.at # "gone" /\ tree.at # "bare"
    BY <2>1 DEF PlacesFit
  <2>3. tree.at # "rejected"
    BY <2>1
  <2>4. tree.at = "changes"
    BY <2>2, <2>3 DEF Spots
  <2> QED
    BY <2>1, <2>4
<1>26. CASE CutCopy
  BY <1>26 DEF CutCopy, Cuts, PlacesFit
<1>27. CASE CutCommit
  BY <1>27, CommitEffect DEF CutCommit, Cuts
<1>28. CASE CutWithdraw
  BY <1>28 DEF CutWithdraw
<1>29. CASE CutFails
  BY <1>29 DEF CutFails, HaltCut
<1>30. CASE CutFindsNothing
  BY <1>30 DEF CutFindsNothing, HaltCut
<1>31. CASE Edit
  BY <1>31, EditEffect DEF Edit
<1>32. CASE ChangeStops
  BY <1>32, StopEffect DEF ChangeStops
<1>33. CASE Kill
  BY <1>33 DEF Kill
<1>34. CASE RecreateTree
  BY <1>34 DEF RecreateTree
<1>35. CASE UNCHANGED <<cut, branch, tree, stacked>>
  BY <1>35
<1> QED
  BY <1>1, <1>2, <1>3, <1>4, <1>5, <1>6, <1>7, <1>8, <1>9, <1>10, <1>11,
     <1>12, <1>13, <1>14, <1>15, <1>16, <1>17, <1>18, <1>19, <1>20, <1>21,
     <1>22, <1>23, <1>24, <1>25, <1>26, <1>27, <1>28, <1>29, <1>30, <1>31,
     <1>32, <1>33, <1>34, <1>35
  DEF PNext, Approves, Rejects, Cutting, World, ApproveDraft, ApproveStacked,
     ApproveSteered, ClaimRefused, Review, Decline, Confirm, GitRefuses,
     CommandFails, Clear, RejectStacked, RejectFails, DependencyMoves

LEMMA WhereInit == PInit => WhereInv
<1> SUFFICES ASSUME PInit PROVE WhereInv
  OBVIOUS
<1>1. SealInv
  BY SealInit
<1>2. PlacesFit /\ CommandFits /\ CutFits
  BY DEF PInit, PlacesFit, CommandFits, CutFits, Fresh, Steer, Restart, NoOp,
     NoCut, NoTree, NoBranch, Nothing, None
<1> QED
  BY <1>1, <1>2 DEF WhereInv

LEMMA WhereStep == WhereInv /\ [PNext]_aVars => WhereInv'
<1> SUFFICES ASSUME WhereInv, [PNext]_aVars PROVE WhereInv'
  OBVIOUS
<1>1. SealInv'
  BY SealStep DEF WhereInv
<1>2. ASSUME Calm' PROVE PlacesFit' /\ CommandFits' /\ CutFits'
  BY <1>2, PlacesStep, CommandStep, CutStep
<1> QED
  BY <1>1, <1>2 DEF WhereInv

(* No step removes the place that holds the plan approved last.             *)
LEMMA HeldStep ==
  ASSUME KeptInv, [PNext]_aVars, Calm', last' # None
  PROVE  LastIsHeld'
<1>0. WhereInv
  BY DEF KeptInv
<1>00. /\ Calm /\ PlacesFit /\ CommandFits /\ CutFits
       /\ op.pc = "idle" \/ cut.pc = "idle"
  BY <1>0, CalmStep
<1>000. /\ TypeInv /\ NoneIsNewer
        /\ last # None => LastIsHeld
  BY <1>0, <1>00 DEF WhereInv, SealInv, KeptInv
<1> USE Fields, Starts, <1>00, <1>000
        DEF TypeInv, PTypeOK, PathFits, LastIsHeld, Places, InStack, Names,
            Restart, NoOp, None
<1>1. CASE ApproveDraft
  BY <1>1 DEF ApproveDraft
<1>2. CASE ApproveStacked
  BY <1>2 DEF ApproveStacked
<1>3. CASE ApproveSteered
  <2>1. op'.pc = "review" /\ op'.restored = FALSE
    <3>1. \/ op' = [NoOp EXCEPT !.path = "steer", !.pc = "review"]
          \/ op' = [NoOp EXCEPT !.path = "restart", !.pc = "review"]
      BY <1>3 DEF ApproveSteered
    <3> QED
      BY <3>1
  <2>2. UNCHANGED <<last, kept, draft, stacked, tree, branch, cut>>
    BY <1>3 DEF ApproveSteered
  <2> QED
    BY <2>1, <2>2
<1>4. CASE Claim
  BY <1>4 DEF Claim
<1>5. CASE ClaimRefused
  BY <1>5 DEF ClaimRefused
<1>6. CASE Review
  BY <1>6 DEF Review
<1>7. CASE Decline
  BY <1>7 DEF Decline
<1>8. CASE Confirm
  <2>1. /\ op'.path = op.path /\ op'.restored = op.restored
        /\ op.pc = "prompt" /\ op'.pc \notin {"copy", "clear"}
        /\ op.path = "restart" => op'.pc = "replan"
    <3>1. op.path \in {"fresh", "steer", "restart"}
      BY <1>8 DEF Confirm, Ops, Paths
    <3> QED
      BY <1>8, <3>1 DEF Confirm, Ops
  <2>2. UNCHANGED <<last, kept, draft, stacked, tree, branch, cut>>
    BY <1>8 DEF Confirm
  <2> QED
    BY <2>1, <2>2
<1>9. CASE ConfirmStacked
  BY <1>9 DEF ConfirmStacked
<1>10. CASE CopyStacked
  BY <1>10 DEF CopyStacked
<1>11. CASE SealStacked
  <2>1. /\ op.pc = "mark" /\ op'.pc = "await"
        /\ op'.path = op.path /\ op'.restored = op.restored
        /\ UNCHANGED <<last, kept, draft, tree, branch, cut>>
    BY <1>11 DEF SealStacked, Ops
  <2>2. stacked'.plan = stacked.plan /\ stacked # Nothing
    BY <1>11, CopyFields DEF SealStacked, CommandFits, Nothing
  <2> QED
    BY <2>1, <2>2
<1>12. CASE WriteStackedOn
  <2>1. /\ op'.pc = "clear" /\ op'.restored = FALSE /\ last' = stacked.plan
        /\ UNCHANGED <<kept, draft, tree, branch, cut>>
    BY <1>12 DEF WriteStackedOn
  <2>2. stacked'.plan = stacked.plan
    BY <1>12, CopyFields DEF WriteStackedOn
  <2>3. branch.at = "gone" /\ tree.at = "gone"
    BY <1>12 DEF WriteStackedOn, CommandFits, Fresh, PlacesFit
  <2>4. cut.pc = "idle"
    BY <1>12 DEF WriteStackedOn
  <2> QED
    BY <2>1, <2>2, <2>3, <2>4
<1>13. CASE CreateBranch
  <2>1. /\ op.pc = "branch" /\ op'.pc = "add"
        /\ op'.path = op.path /\ op'.restored = op.restored
        /\ UNCHANGED <<last, kept, draft, stacked, tree, cut>>
    BY <1>13 DEF CreateBranch, Ops
  <2>2. /\ branch.at = "gone" /\ branch.copy.plan = None
        /\ branch'.at = "bare" /\ branch'.copy.plan = None
    BY <1>13 DEF CreateBranch, PlacesFit, NoBranch, Nothing
  <2> QED
    BY <2>1, <2>2
<1>14. CASE AddTree
  <2>1. /\ op.pc = "add" /\ op'.pc = "prepare"
        /\ op'.path = op.path /\ op'.restored = op.restored
        /\ UNCHANGED <<last, kept, draft, stacked, branch, cut>>
    BY <1>14 DEF AddTree, Ops
  <2>2. branch.at = "bare" /\ tree.at = "gone"
    BY <2>1 DEF CommandFits
  <2>3. branch.copy.plan = None /\ tree.copy.plan = None
    BY <2>2 DEF PlacesFit, Nothing
  <2>4. tree'.at = "bare" /\ tree'.copy.plan = None
    BY <1>14, <2>2, <2>3 DEF AddTree
  <2> QED
    BY <2>1, <2>2, <2>3, <2>4
<1>15. CASE GitRefuses
  BY <1>15 DEF GitRefuses
<1>16. CASE Place
  <2>1. /\ op.pc = "prepare" /\ op'.pc = "seal"
        /\ op'.path = op.path /\ op'.restored = op.restored
        /\ UNCHANGED <<last, kept, draft, stacked, branch, cut>>
    BY <1>16 DEF Place, Ops
  <2>2. branch.at = "bare" /\ tree.at = "bare"
    BY <2>1 DEF CommandFits
  <2>3. branch.copy.plan = None /\ tree.copy.plan = None
    BY <2>2 DEF PlacesFit, Nothing
  <2>4. tree'.at = "changes" /\ tree'.copy.seal = None
    BY <1>16 DEF Place, Nothing
  <2> QED
    BY <2>1, <2>2, <2>3, <2>4
<1>17. CASE WriteSeal
  <2>1. /\ op.pc = "seal" /\ op'.pc = "commit"
        /\ op'.path = op.path /\ op'.restored = op.restored
        /\ UNCHANGED <<kept, draft, stacked, branch, cut>>
    BY <1>17 DEF WriteSeal, Ops
  <2>2. tree'.at = tree.at /\ tree'.copy.plan = tree.copy.plan
    BY <1>17, WriteSealEffect
  <2>3. cut.pc = "idle" /\ tree.at = "changes"
    BY <2>1 DEF CommandFits, Steer
  <2>4. CASE op.path = "steer"
    <3>1. last' = tree.copy.plan
      BY <1>17, <2>4 DEF WriteSeal
    <3>2. branch.at = "changes"
      BY <2>1, <2>4 DEF CommandFits, Steer
    <3> QED
      BY <2>1, <2>2, <2>3, <2>4, <3>1, <3>2
  <2>5. CASE op.path # "steer"
    <3>1. last' = last
      BY <1>17, <2>5 DEF WriteSeal
    <3>2. branch.at = "bare"
      BY <2>1, <2>5 DEF CommandFits
    <3>3. Names => Names'
      BY <1>17, <2>2, <2>3, WriteSealEffect DEF Reseals, CommandFits, Fresh,
         PlacesFit, Ops, Paths, WriteSeal
    <3> QED
      BY <2>1, <2>2, <2>3, <2>5, <3>1, <3>2, <3>3
  <2> QED
    BY <2>4, <2>5
<1>18. CASE CommitApproved
  <2>1. op.pc = "commit" /\ op.path \in {"fresh", "steer", "restart"}
        /\ UNCHANGED <<kept, draft, stacked, tree, cut>>
    BY <1>18 DEF CommitApproved, Ops, Paths
  <2> DEFINE next == [fresh |-> "withdraw", steer |-> "retire",
                      restart |-> "idle"][op.path]
  <2>2. next \in {"withdraw", "retire", "idle"}
    BY <2>1
  <2>3. op' = [NoOp EXCEPT !.pc = next]
    BY <1>18 DEF CommitApproved
  <2> HIDE DEF next
  <2>4. op'.pc \notin {"copy", "clear"} /\ op'.path = "fresh"
        /\ op'.restored = FALSE
    BY <2>2, <2>3
  <2>5. last' = tree.copy.plan
    BY <1>18 DEF CommitApproved
  <2>6. tree.at = "changes" /\ cut.pc = "idle"
    BY <2>1 DEF CommandFits, Steer
  <2>7. branch'.at = "changes" /\ branch'.copy = tree.copy
    BY <1>18, <2>6, CommitEffect DEF CommitApproved
  <2> QED
    BY <2>1, <2>4, <2>5, <2>6, <2>7
<1>19. CASE CommitFails
  <2>1. /\ op.pc = "commit" /\ op' = NoOp /\ cut.pc = "idle"
        /\ tree'.at = tree.at /\ tree'.copy.plan = tree.copy.plan
        /\ UNCHANGED <<kept, stacked, branch, cut>>
        /\ draft' = draft \/ op.restored
    BY <1>19, CommitFailsEffect DEF CommitFails
  <2>2. op'.pc = "idle" /\ op'.restored = FALSE
    BY <2>1
  <2>3. CASE op.path = "steer"
    <3>1. last' = tree.copy.plan
      BY <1>19, <2>3 DEF CommitFails
    <3>2. branch.at = "changes" /\ tree.at = "changes"
      BY <2>1, <2>3 DEF CommandFits, Steer
    <3> QED
      BY <2>1, <2>2, <3>1, <3>2
  <2>4. CASE op.path # "steer"
    <3>1. last' = last /\ tree' = tree
      BY <1>19, <2>4 DEF CommitFails
    <3> QED
      BY <2>1, <2>2, <3>1
  <2> QED
    BY <2>3, <2>4
<1>20. CASE CommandFails
  BY <1>20 DEF CommandFails
<1>21. CASE Withdraw
  <2>1. op.path = "fresh" /\ last' = last
    BY <1>21 DEF Withdraw
  <2>2. /\ stacked'.plan = None /\ UNCHANGED <<kept, draft, tree, branch, cut>>
        /\ op'.path = "fresh"
        /\ op'.pc = "clear" /\ op.pc = "withdraw" /\ cut.pc = "idle"
    BY <1>21, <2>1 DEF Withdraw, Nothing, Ops
  <2>3. stacked' = Nothing
    BY <1>21 DEF Withdraw
  <2>4. branch.at = "changes" /\ tree.at = "changes"
    BY <2>1, <2>2 DEF CommandFits, Fresh
  <2> QED
    BY <2>1, <2>2, <2>3, <2>4
<1>22. CASE Clear
  BY <1>22 DEF Clear
<1>23. CASE Retire
  BY <1>23, StopEffect DEF Retire
<1>24. CASE Replan
  <2>1. /\ op.path = "restart" /\ op.pc = "replan"
        /\ op'.path = "restart" /\ op'.pc = "remove"
        /\ op'.restored = op.restored
        /\ UNCHANGED <<last, kept, draft, stacked, tree, cut>>
    BY <1>24 DEF Replan, Ops
  <2>2. tree.at = "changes" /\ branch.at = "changes" /\ cut.pc = "idle"
    BY <2>1 DEF CommandFits, Restart
  <2>3. branch'.at = "changes" /\ branch'.copy = tree.copy
    BY <1>24, <2>2, CommitEffect DEF Replan
  <2> QED
    BY <2>1, <2>2, <2>3
<1>25. CASE RemoveTree
  <2>1. /\ op.path = "restart" /\ op.pc = "remove"
        /\ UNCHANGED <<last, kept, draft, stacked, branch, cut>>
    BY <1>25 DEF RemoveTree
  <2>2. tree.at = "changes" /\ branch.at = "changes" /\ cut.pc = "idle"
    BY <2>1 DEF CommandFits, Restart
  <2>3. CASE tree = Checkout(branch) /\ tree' = NoTree /\ To("keep")
    <3>1. tree.copy = branch.copy
      BY <2>3
    <3>2. tree'.at = "gone" /\ tree'.copy.plan = None
      BY <2>3 DEF NoTree, Nothing
    <3>3. op'.pc = "keep" /\ op'.restored = op.restored
      BY <2>3 DEF Ops
    <3> QED
      BY <2>1, <2>2, <3>1, <3>2, <3>3
  <2>4. CASE op' = NoOp /\ tree' = tree
    BY <2>1, <2>2, <2>4
  <2> QED
    BY <1>25, <2>3, <2>4 DEF RemoveTree
<1>26. CASE KeepBranch
  <2>1. /\ op.pc = "keep" /\ op'.pc = "branch"
        /\ op'.restored = op.restored /\ op'.path = op.path
        /\ UNCHANGED <<last, draft, stacked, tree, cut>>
        /\ kept' = kept \cup {branch.copy.plan}
    BY <1>26 DEF KeepBranch, Ops
  <2>2. tree.at = "gone" /\ branch.at = "changes" /\ cut.pc = "idle"
    BY <2>1 DEF CommandFits
  <2>3. branch'.at = "gone"
    BY <1>26 DEF KeepBranch, NoBranch
  <2>4. last \in kept'
    BY <2>1, <2>2
  <2> QED
    BY <2>1, <2>2, <2>3, <2>4
<1>27. CASE RejectStacked
  BY <1>27 DEF RejectStacked
<1>28. CASE RejectInWorktree
  BY <1>28 DEF RejectInWorktree
<1>29. CASE CommitRejected
  BY <1>29, CommitEffect DEF CommitRejected, CommandFits
<1>30. CASE DropTree
  <2>1. tree.at = "rejected" /\ last' = last
    BY <1>30 DEF DropTree, CommandFits
  <2> QED
    BY <2>1
<1>31. CASE RejectFails
  BY <1>31 DEF RejectFails
<1>32. CASE Retry
  BY <1>32, StopEffect DEF Retry, InStack, Names
<1>33. CASE HaltChanged
  <2>1. /\ stacked # Nothing /\ cut.pc = "idle"
        /\ UNCHANGED <<last, kept, draft, tree, branch, op, cut>>
    BY <1>33 DEF HaltChanged, Visited
  <2>2. stacked'.plan = stacked.plan
    BY <1>33, CopyFields DEF HaltChanged
  <2> QED
    BY <2>1, <2>2
<1>34. CASE Decide
  BY <1>34 DEF Decide
<1>35. CASE CutBranch
  <2>1. /\ cut'.pc = "add"
        /\ UNCHANGED <<last, kept, draft, stacked, tree, op>>
    BY <1>35 DEF CutBranch, Cuts
  <2>2. CASE branch' = branch
    BY <2>1, <2>2
  <2>3. CASE branch.at = "gone" /\ branch'.at = "bare"
    <3>1. branch.copy.plan = None
      BY <2>3 DEF PlacesFit, Nothing
    <3> QED
      BY <2>1, <2>3, <3>1
  <2> QED
    BY <1>35, <2>2, <2>3 DEF CutBranch, NoBranch
<1>36. CASE CutAdd
  <2>1. /\ cut'.pc = "prepare" /\ op.pc = "idle"
        /\ UNCHANGED <<last, kept, draft, stacked, branch, op>>
    BY <1>36 DEF CutAdd, Cuts
  <2>2. CASE tree' = tree
    BY <2>1, <2>2
  <2>3. CASE tree.at = "gone" /\ tree' = Checkout(branch)
    <3>1. tree.copy.plan = None
      BY <2>3 DEF PlacesFit, Nothing
    <3>2. tree'.at = branch.at /\ tree'.copy = branch.copy
      BY <2>3
    <3>3. ~Names
      BY <2>3
    <3> QED
      BY <2>1, <2>3, <3>1, <3>2, <3>3
  <2> QED
    BY <1>36, <2>2, <2>3 DEF CutAdd
<1>37. CASE CutFinds
  BY <1>37 DEF CutFinds
<1>38. CASE CutCopy
  <2>1. /\ cut.pc = "prepare" /\ cut'.pc = "commit" /\ op.pc = "idle"
        /\ stacked # Nothing /\ ~Sealed(branch)
        /\ UNCHANGED <<last, kept, draft, stacked, branch, op>>
    BY <1>38 DEF CutCopy, Cuts, Nothing
  <2>2. tree'.at = "changes" /\ tree'.copy = stacked
    BY <1>38 DEF CutCopy
  <2>3. branch.at # "changes"
    BY <2>1 DEF Sealed, PlacesFit
  <2>4. ~Names
    BY <2>1, <2>3 DEF CutFits
  <2>5. last \in kept \cup {stacked.plan}
    BY <2>1, <2>3, <2>4
  <2> QED
    BY <2>1, <2>2, <2>3, <2>5
<1>39. CASE CutCommit
  BY <1>39, CommitEffect DEF CutCommit, CutFits
<1>40. CASE CutWithdraw
  <2>1. /\ cut.pc = "withdraw" /\ cut'.pc = "idle" /\ op.pc = "idle"
        /\ stacked' = Nothing
        /\ UNCHANGED <<last, kept, draft, tree, branch, op>>
    BY <1>40 DEF CutWithdraw, NoCut
  <2>2. branch.at = "changes" /\ tree.at = "changes"
    BY <2>1 DEF CutFits
  <2> QED
    BY <2>1, <2>2
<1>41. CASE CutFails
  <2>1. /\ cut.pc # "idle" /\ cut'.pc = "idle"
        /\ UNCHANGED <<last, kept, draft, tree, branch, op>>
    BY <1>41 DEF CutFails, HaltCut, NoCut
  <2>2. stacked'.plan = stacked.plan
    BY <1>41, CopyFields DEF CutFails, HaltCut
  <2>3. stacked # Nothing
    BY <2>1 DEF CutFits, Nothing
  <2> QED
    BY <2>1, <2>2, <2>3
<1>42. CASE CutFindsNothing
  <2>1. cut.pc # "idle" /\ stacked.plan = None
    BY <1>42 DEF CutFindsNothing
  <2> QED
    BY <2>1 DEF CutFits, PlacesFit
<1>43. CASE Edit
  <2>1. /\ last' = last /\ UNCHANGED <<kept, branch, op, cut>>
        /\ tree'.at = tree.at /\ tree'.copy.seal = tree.copy.seal
    BY <1>43, EditEffect DEF Edit, Outdates
  <2>2. stacked = Nothing => stacked' = Nothing
    <3>1. stacked' = stacked \/ stacked.plan # None
      BY <1>43 DEF Edit
    <3>2. Nothing.plan = None
      BY DEF Nothing
    <3> QED
      BY <3>1, <3>2
  <2>3. op.aside # None
          => last \in kept \cup {tree.copy.plan, branch.copy.plan}
    <3>1. CASE Restart({"branch", "add", "prepare"})
      BY <2>1, <3>1
    <3>2. CASE Restart({"remove", "keep"})
      BY <2>1, <3>2 DEF CommandFits
    <3> QED
      BY <3>1, <3>2 DEF CommandFits
  <2>5. CASE /\ draft' = latest' /\ UNCHANGED <<stacked, tree>>
             /\ Outdates(FALSE, {stacked.plan, tree.copy.plan})
    <3>0. last \in {stacked.plan, tree.copy.plan} \cup kept
                     \cup {branch.copy.plan, op.aside}
      BY <2>1, <2>5 DEF Outdates
    <3>1. last \in Places
      BY <2>1, <2>3, <3>0
    <3>2. op.pc = "copy" => last \in kept
      <4>1. op.pc = "copy" => branch.at = "gone" /\ stacked = Nothing
        BY DEF CommandFits, Fresh
      <4> QED
        BY <2>1, <3>1, <4>1 DEF PlacesFit, Nothing
    <3> QED
      BY <2>1, <2>5, <3>1, <3>2
  <2>6. CASE /\ stacked.plan # None /\ UNCHANGED <<draft, tree>>
             /\ Outdates(InStack /\ last = stacked.plan, {tree.copy.plan})
    <3>0. last \in {tree.copy.plan} \cup kept
                     \cup {branch.copy.plan, op.aside}
      BY <2>1, <2>6 DEF Outdates
    <3>1. last \in kept \cup {tree.copy.plan, branch.copy.plan}
      BY <2>1, <2>3, <3>0
    <3>2. InStack => last # stacked.plan
      BY <2>1, <2>6 DEF Outdates
    <3>3. op.pc # "copy"
      BY <2>6 DEF CommandFits, Nothing
    <3> QED
      BY <2>1, <2>2, <2>6, <3>1, <3>2, <3>3
  <2>7. CASE /\ tree.at = "changes" /\ UNCHANGED <<draft, stacked>>
             /\ Outdates(InWorktree /\ last = tree.copy.plan, {stacked.plan})
    <3>1. last \in kept \cup {stacked.plan, branch.copy.plan, op.aside}
      BY <2>1, <2>7 DEF Outdates
    <3>2. InWorktree => last # tree.copy.plan
      BY <2>1, <2>7 DEF Outdates
    <3>3. branch.at = "changes" \/ cut.pc = "commit" => InWorktree
      BY <2>7 DEF InWorktree, PlacesFit, CutFits
    <3>4. op.aside # None => last \in kept \cup {branch.copy.plan}
      BY <2>1, <2>3, <3>2, <3>3 DEF PlacesFit, Nothing, CommandFits
    <3> QED
      BY <2>1, <2>2, <2>7, <3>1, <3>2, <3>3, <3>4
  <2> QED
    BY <1>43, <2>5, <2>6, <2>7 DEF Edit
<1>44. CASE ChangeStops
  BY <1>44, StopEffect DEF ChangeStops
<1>45. CASE Kill
  <2>1. UNCHANGED <<last, kept, draft, tree, branch, stacked>>
    BY <1>45 DEF Kill
  <2>2. \/ op' = NoOp /\ cut' = cut
        \/ cut' = NoCut /\ op' = op
    BY <1>45 DEF Kill
  <2> QED
    BY <2>1, <2>2 DEF NoCut
<1>46. CASE RecreateTree
  <2>1. /\ op.pc = "idle" /\ cut.pc = "idle"
        /\ tree.at = "gone" /\ branch.at = "changes"
        /\ UNCHANGED <<last, kept, draft, stacked, branch, op, cut>>
    BY <1>46 DEF RecreateTree, Sealed
  <2>2. tree'.at = "changes" /\ tree'.copy = branch.copy
    BY <1>46, <2>1 DEF RecreateTree
  <2>3. tree.copy.plan = None
    BY <2>1 DEF PlacesFit, Nothing
  <2> QED
    BY <2>1, <2>2, <2>3
<1>47. CASE UNCHANGED <<last, kept, draft, stacked, tree, branch, op, cut>>
  BY <1>47
<1> QED
  BY <1>1, <1>2, <1>3, <1>4, <1>5, <1>6, <1>7, <1>8, <1>9, <1>10, <1>11,
     <1>12, <1>13, <1>14, <1>15, <1>16, <1>17, <1>18, <1>19, <1>20, <1>21,
     <1>22, <1>23, <1>24, <1>25, <1>26, <1>27, <1>28, <1>29, <1>30, <1>31,
     <1>32, <1>33, <1>34, <1>35, <1>36, <1>37, <1>38, <1>39, <1>40, <1>41,
     <1>42, <1>43, <1>44, <1>45, <1>46, <1>47
  DEF PNext, Approves, Rejects, Cutting, World, DependencyMoves

(* The plan approved last is in some place, whatever failed or was killed    *)
(* while it was moved: at every step of an approval, a rejection or a cut    *)
(* one of them still holds it, unless a human edited it.                     *)
THEOREM ApprovedPlanIsKept == PSpec => []ApprovedIsKept
<1>1. PInit => KeptInv
  BY WhereInit DEF PInit, KeptInv
<1>2. KeptInv /\ [PNext]_aVars => KeptInv'
  BY WhereStep, HeldStep DEF KeptInv
<1>3. KeptInv => ApprovedIsKept
  BY DEF KeptInv, LastIsHeld, Places, ApprovedIsKept, Calm, Elsewhere
<1> QED
  BY <1>1, <1>2, <1>3, PTL DEF PSpec

(* Where the change is found, a seal that fits is that of the last approval. *)
LEMMA FoundStep ==
  ASSUME LastInv, [PNext]_aVars, Calm', "leftover" \notin odd'
  PROVE  FoundIsLast'
<1>0. WhereInv
  BY DEF LastInv
<1>00. /\ Calm /\ PlacesFit /\ CommandFits /\ CutFits
       /\ op.pc = "idle" \/ cut.pc = "idle"
  BY <1>0, CalmStep
<1>000. TypeInv /\ NoneIsNewer /\ FoundIsLast
  BY <1>0, <1>00, OddStep DEF WhereInv, SealInv, LastInv
<1> USE Fields, Starts, <1>00, <1>000
        DEF TypeInv, PTypeOK, PathFits, FoundIsLast, FitsItsSeal, Names,
            Fresh, Restart, NoOp, None
<1>1. CASE ApproveDraft
  BY <1>1 DEF ApproveDraft
<1>2. CASE ApproveStacked
  BY <1>2 DEF ApproveStacked
<1>3. CASE ApproveSteered
  <2>1. op'.path \in {"steer", "restart"} /\ op'.pc = "review"
    <3>1. \/ op' = [NoOp EXCEPT !.path = "steer", !.pc = "review"]
          \/ op' = [NoOp EXCEPT !.path = "restart", !.pc = "review"]
      BY <1>3 DEF ApproveSteered
    <3> QED
      BY <3>1
  <2>2. op.pc = "idle" /\ UNCHANGED <<last, stacked, tree, branch, cut>>
    BY <1>3 DEF ApproveSteered
  <2> QED
    BY <2>1, <2>2
<1>4. CASE Claim
  <2>1. /\ branch'.at = "gone" /\ branch.at # "changes"
        /\ op.pc = "claim" /\ op'.path = op.path /\ op'.pc = "review"
        /\ UNCHANGED <<last, stacked, tree, cut>>
    BY <1>4 DEF Claim, NoBranch, Ops
  <2> QED
    BY <2>1
<1>5. CASE ClaimRefused
  BY <1>5 DEF ClaimRefused
<1>6. CASE Review
  BY <1>6 DEF Review
<1>7. CASE Decline
  BY <1>7 DEF Decline
<1>8. CASE Confirm
  BY <1>8 DEF Confirm
<1>9. CASE ConfirmStacked
  <2>1. /\ op.path = "fresh" /\ op.pc = "prompt" /\ op'.path = "fresh"
        /\ stacked' = Nothing /\ stacked'.on = None
        /\ UNCHANGED <<tree, branch, cut>>
    BY <1>9 DEF ConfirmStacked, Nothing, Ops
  <2>2. branch.at = "gone" /\ cut.pc = "idle"
    BY <2>1 DEF CommandFits
  <2> QED
    BY <2>1, <2>2
<1>10. CASE CopyStacked
  <2>1. /\ op.pc = "copy" /\ op.path = "fresh" /\ op'.path = "fresh"
        /\ UNCHANGED <<last, tree, branch, cut>>
    BY <1>10 DEF CopyStacked, CommandFits, Ops
  <2>2. stacked'.on = None
    BY <1>10, CopyFields DEF CopyStacked, CommandFits, Nothing
  <2>3. branch.at = "gone" /\ tree.at = "gone" /\ cut.pc = "idle"
    BY <2>1 DEF CommandFits, PlacesFit
  <2> QED
    BY <2>1, <2>2, <2>3
<1>11. CASE SealStacked
  <2>1. /\ op.pc = "mark" /\ op.path = "fresh" /\ op'.path = "fresh"
        /\ UNCHANGED <<last, tree, branch, cut>>
    BY <1>11 DEF SealStacked, CommandFits, Ops
  <2>2. stacked'.on = None
    BY <1>11, CopyFields DEF SealStacked, CommandFits
  <2>3. branch.at = "gone" /\ tree.at = "gone" /\ cut.pc = "idle"
    BY <2>1 DEF CommandFits, PlacesFit
  <2> QED
    BY <2>1, <2>2, <2>3
<1>12. CASE WriteStackedOn
  <2>1. /\ op.pc = "await" /\ op.path = "fresh" /\ op'.path = "fresh"
        /\ UNCHANGED <<tree, branch, cut>>
        /\ last' = IF stacked.plan = stacked.seal THEN stacked.plan ELSE None
    BY <1>12 DEF WriteStackedOn, CommandFits, Ops
  <2>2. stacked'.plan = stacked.plan /\ stacked'.seal = stacked.seal
    BY <1>12, CopyFields DEF WriteStackedOn
  <2>3. branch.at = "gone" /\ tree.at = "gone" /\ cut.pc = "idle"
    BY <2>1 DEF CommandFits, PlacesFit
  <2> QED
    BY <2>1, <2>2, <2>3
<1>13. CASE CreateBranch
  BY <1>13 DEF CreateBranch
<1>14. CASE AddTree
  BY <1>14 DEF AddTree
<1>15. CASE GitRefuses
  BY <1>15 DEF GitRefuses
<1>16. CASE Place
  <2>1. /\ op.pc = "prepare" /\ op'.pc = "seal" /\ op'.path = op.path
        /\ UNCHANGED <<last, stacked, branch, cut>>
    BY <1>16 DEF Place, Ops
  <2>2. branch.at = "bare" /\ tree.at = "bare" /\ cut.pc = "idle"
    BY <2>1 DEF CommandFits
  <2>3. tree'.at = "changes"
    BY <1>16 DEF Place
  <2> QED
    BY <2>1, <2>2, <2>3
<1>17. CASE WriteSeal
  <2>1. /\ op.pc = "seal" /\ op'.pc = "commit" /\ op'.path = op.path
        /\ UNCHANGED <<stacked, branch, cut>> /\ cut.pc = "idle"
    BY <1>17 DEF WriteSeal, Ops
  <2>2. tree'.at = tree.at /\ tree'.copy.plan = tree.copy.plan
    BY <1>17, WriteSealEffect
  <2>3. tree.at = "changes"
    BY <2>1 DEF CommandFits, Steer
  <2>4. CASE op.path = "steer"
    <3>1. last' = tree.copy.plan
      BY <1>17, <2>4 DEF WriteSeal
    <3>2. branch.at = "changes"
      BY <2>1, <2>4 DEF CommandFits, Steer
    <3> QED
      BY <2>1, <2>2, <2>3, <2>4, <3>1, <3>2
  <2>5. CASE op.path # "steer"
    <3>1. branch.at = "bare" /\ last' = last
      BY <1>17, <2>1, <2>5 DEF CommandFits, WriteSeal
    <3>2. tree'.copy.seal # None
      BY <1>17, <2>1, <2>3, <2>5, WriteSealEffect
      DEF Reseals, CommandFits, PlacesFit
    <3> QED
      BY <2>1, <2>2, <2>3, <2>5, <3>1, <3>2
  <2> QED
    BY <2>4, <2>5
<1>18. CASE CommitApproved
  <2>1. op.pc = "commit" /\ op.path \in {"fresh", "steer", "restart"}
        /\ UNCHANGED <<stacked, tree, cut>> /\ cut.pc = "idle"
    BY <1>18 DEF CommitApproved, Ops, Paths
  <2> DEFINE next == [fresh |-> "withdraw", steer |-> "retire",
                      restart |-> "idle"][op.path]
  <2>2. next \in {"withdraw", "retire", "idle"}
        /\ (op.path = "fresh" => next = "withdraw")
    BY <2>1
  <2>3. op' = [NoOp EXCEPT !.pc = next]
    BY <1>18 DEF CommitApproved
  <2> HIDE DEF next
  <2>4. op'.path = "fresh" /\ (op.path = "fresh" => op'.pc = "withdraw")
    BY <2>2, <2>3
  <2>5. last' = IF tree.copy.plan = tree.copy.seal THEN tree.copy.plan
                ELSE None
    BY <1>18 DEF CommitApproved
  <2>6. /\ tree.at = "changes" /\ tree.copy.seal # None
        /\ op.path = "steer" => branch.at = "changes"
    BY <2>1 DEF CommandFits, Steer
  <2>7. branch'.at = "changes" /\ branch'.copy = tree.copy
    BY <1>18, <2>6, CommitEffect DEF CommitApproved
  <2>8. stacked # Nothing => op.path = "fresh"
    BY <2>1, <2>6
  <2> QED
    BY <2>1, <2>4, <2>5, <2>6, <2>7, <2>8
<1>19. CASE CommitFails
  <2>1. /\ op.pc = "commit" /\ op' = NoOp /\ op'.pc = "idle"
        /\ UNCHANGED <<stacked, branch, cut>> /\ cut.pc = "idle"
    BY <1>19 DEF CommitFails
  <2>2. CASE op.path = "steer"
    <3>1. last' = IF tree.copy.plan = op.hash THEN op.hash ELSE None
      BY <1>19, <2>2 DEF CommitFails
    <3>2. /\ tree'.at = tree.at /\ tree'.copy.plan = tree.copy.plan
          /\ tree'.copy.seal = op.hash
      BY <1>19, <2>2, CommitFailsEffect
    <3>3. branch.at = "changes" /\ tree.at = "changes"
      BY <2>1, <2>2 DEF CommandFits, Steer
    <3> QED
      BY <2>1, <2>2, <3>1, <3>2, <3>3
  <2>3. CASE op.path # "steer"
    <3>1. last' = last /\ tree' = tree
      BY <1>19, <2>3 DEF CommitFails
    <3> QED
      BY <2>1, <3>1
  <2> QED
    BY <2>2, <2>3
<1>20. CASE CommandFails
  BY <1>20 DEF CommandFails
<1>21. CASE Withdraw
  <2>1. /\ op.pc = "withdraw" /\ stacked' = Nothing /\ stacked'.on = None
        /\ UNCHANGED <<tree, branch, cut>> /\ cut.pc = "idle"
    BY <1>21 DEF Withdraw, Nothing
  <2>2. CASE op.path = "fresh"
    <3>1. last' = last /\ op'.path = "fresh"
      BY <1>21, <2>2 DEF Withdraw, Ops
    <3> QED
      BY <2>1, <3>1
  <2>3. CASE op.path # "fresh"
    <3>1. branch.at # "changes"
      BY <2>1, <2>3 DEF CommandFits
    <3>2. op'.path = "fresh"
      BY <1>21, <2>3 DEF Withdraw
    <3> QED
      BY <2>1, <3>1, <3>2
  <2> QED
    BY <2>2, <2>3
<1>22. CASE Clear
  BY <1>22 DEF Clear
<1>23. CASE Retire
  BY <1>23, StopEffect DEF Retire
<1>24. CASE Replan
  <2>1. /\ op.path = "restart" /\ op.pc = "replan"
        /\ op'.path = "restart" /\ op'.pc = "remove"
        /\ UNCHANGED <<last, stacked, tree, cut>> /\ cut.pc = "idle"
    BY <1>24 DEF Replan, Ops
  <2>2. tree.at = "changes" /\ branch.at = "changes"
    BY <2>1 DEF CommandFits, Restart
  <2>3. branch'.at = "changes" /\ branch'.copy = tree.copy
    BY <1>24, <2>2, CommitEffect DEF Replan
  <2> QED
    BY <2>1, <2>2, <2>3
<1>25. CASE RemoveTree
  <2>1. /\ op.path = "restart" /\ op.pc = "remove"
        /\ UNCHANGED <<last, stacked, branch, cut>> /\ cut.pc = "idle"
    BY <1>25 DEF RemoveTree
  <2>2. tree.at = "changes" /\ branch.at = "changes"
    BY <2>1 DEF CommandFits, Restart
  <2>3. CASE tree = Checkout(branch) /\ tree' = NoTree /\ To("keep")
    <3>1. tree.copy = branch.copy /\ tree'.at = "gone"
      BY <2>3 DEF NoTree
    <3>2. op'.pc = "keep" /\ op'.path = "restart"
      BY <2>1, <2>3 DEF Ops
    <3> QED
      BY <2>1, <2>2, <3>1, <3>2
  <2>4. CASE op' = NoOp /\ tree' = tree
    BY <2>1, <2>2, <2>4
  <2> QED
    BY <1>25, <2>3, <2>4 DEF RemoveTree
<1>26. CASE KeepBranch
  <2>1. /\ op.pc = "keep" /\ op.path = "restart"
        /\ op'.pc = "branch" /\ op'.path = "restart"
        /\ UNCHANGED <<last, stacked, tree, cut>> /\ cut.pc = "idle"
    BY <1>26 DEF KeepBranch, Ops
  <2>2. branch.at = "changes" /\ branch'.at = "gone"
    BY <1>26 DEF KeepBranch, CommandFits, NoBranch
  <2>3. stacked = Nothing /\ stacked.on = None
    BY <2>1, <2>2 DEF Nothing
  <2> QED
    BY <2>1, <2>2, <2>3
<1>27. CASE RejectStacked
  <2>1. /\ op.pc = "idle" /\ cut.pc = "idle" /\ stacked # Nothing
        /\ op'.path = "reject" /\ op'.pc = "withdraw"
        /\ UNCHANGED <<last, stacked, tree, branch, cut>>
    BY <1>27 DEF RejectStacked, InStack, Calm
  <2>2. branch.at # "changes"
    BY <2>1
  <2> QED
    BY <2>1, <2>2
<1>28. CASE RejectInWorktree
  <2>1. /\ op.pc = "idle" /\ cut.pc = "idle" /\ tree.at = "changes"
        /\ tree.copy.stop # "none" /\ op'.path = "reject" /\ op'.pc = "record"
        /\ UNCHANGED <<stacked, branch, cut>>
    BY <1>28 DEF RejectInWorktree, InWorktree, Calm
  <2>2. tree'.at = "rejected"
    BY <1>28 DEF RejectInWorktree, Trees
  <2>3. branch.at = "changes"
    BY <2>1 DEF PlacesFit
  <2>4. stacked = Nothing
    BY <2>1, <2>3
  <2> QED
    BY <2>1, <2>2, <2>3, <2>4
<1>29. CASE CommitRejected
  BY <1>29, CommitEffect DEF CommitRejected, CommandFits
<1>30. CASE DropTree
  <2>1. /\ tree.at = "rejected" /\ branch.at = "rejected" /\ tree'.at = "gone"
        /\ op' = NoOp /\ op'.pc = "idle"
        /\ UNCHANGED <<last, stacked, branch, cut>>
    BY <1>30 DEF DropTree, CommandFits, NoTree
  <2>2. stacked = Nothing /\ stacked.on = None
    BY <2>1 DEF Nothing
  <2> QED
    BY <1>30, <2>1, <2>2 DEF DropTree
<1>31. CASE RejectFails
  BY <1>31 DEF RejectFails
<1>32. CASE Retry
  BY <1>32, StopEffect DEF Retry, InStack
<1>33. CASE HaltChanged
  <2>1. /\ stacked # Nothing /\ cut.pc = "idle"
        /\ UNCHANGED <<last, tree, branch, op, cut>>
    BY <1>33 DEF HaltChanged, Visited, InStack
  <2>2. /\ stacked'.plan = stacked.plan /\ stacked'.seal = stacked.seal
        /\ stacked'.on = stacked.on
    BY <1>33, CopyFields DEF HaltChanged
  <2> QED
    BY <2>1, <2>2
<1>34. CASE Decide
  <2>1. /\ cut.pc = "idle" /\ cut'.pc = "branch"
        /\ UNCHANGED <<last, stacked, tree, branch, op>>
    BY <1>34 DEF Decide, Visited
  <2> QED
    BY <2>1
<1>35. CASE CutBranch
  BY <1>35 DEF CutBranch
<1>36. CASE CutAdd
  BY <1>36 DEF CutAdd
<1>37. CASE CutFinds
  BY <1>37 DEF CutFinds
<1>38. CASE CutCopy
  <2>1. /\ cut.pc = "prepare" /\ cut'.pc = "commit" /\ op.pc = "idle"
        /\ ~Sealed(branch) /\ UNCHANGED <<last, stacked, branch, op>>
    BY <1>38 DEF CutCopy, Cuts
  <2>2. tree'.at = "changes" /\ tree'.copy = stacked
    BY <1>38 DEF CutCopy
  <2>3. branch.at # "changes"
    BY <2>1 DEF Sealed, PlacesFit
  <2>4. stacked.on # None /\ stacked.seal # None
    BY <2>1 DEF CutFits, PlacesFit
  <2>5. stacked # Nothing
    BY <2>4 DEF Nothing
  <2>6. ~Names
    BY <2>1, <2>3, <2>5 DEF CutFits
  <2> QED
    BY <2>1, <2>2, <2>3, <2>4, <2>5, <2>6
<1>39. CASE CutCommit
  BY <1>39, CommitEffect DEF CutCommit, CutFits
<1>40. CASE CutWithdraw
  <2>1. /\ cut.pc = "withdraw" /\ cut'.pc = "idle"
        /\ stacked' = Nothing /\ stacked'.on = None
        /\ UNCHANGED <<last, tree, branch, op>>
    BY <1>40 DEF CutWithdraw, NoCut, Nothing
  <2> QED
    BY <2>1
<1>41. CASE CutFails
  <2>1. /\ cut.pc \in {"prepare", "commit"} /\ cut'.pc = "idle"
        /\ UNCHANGED <<last, tree, branch, op>>
    BY <1>41 DEF CutFails, HaltCut, NoCut
  <2>2. /\ stacked'.plan = stacked.plan /\ stacked'.seal = stacked.seal
        /\ stacked'.on = stacked.on
    BY <1>41, CopyFields DEF CutFails, HaltCut
  <2>3. stacked # Nothing
    BY <2>1 DEF CutFits, Nothing
  <2> QED
    BY <2>1, <2>2, <2>3
<1>42. CASE CutFindsNothing
  <2>1. cut.pc # "idle" /\ stacked.plan = None
    BY <1>42 DEF CutFindsNothing
  <2> QED
    BY <2>1 DEF CutFits, PlacesFit
<1>43. CASE Edit
  <2>1. /\ UNCHANGED <<branch, op, cut>>
        /\ tree'.at = tree.at /\ tree'.copy.seal = tree.copy.seal
        /\ stacked'.seal = stacked.seal /\ stacked'.on = stacked.on
        /\ latest \in Nat /\ latest' = latest + 1
    BY <1>43, EditEffect DEF Plans
  <2>2. stacked = Nothing => stacked' = Nothing
    <3>1. stacked' = stacked \/ stacked.plan # None
      BY <1>43 DEF Edit
    <3>2. Nothing.plan = None
      BY DEF Nothing
    <3> QED
      BY <3>1, <3>2
  <2>3. /\ stacked.seal # latest' /\ tree.copy.seal # latest'
    <3>1. stacked.seal \in Nat /\ tree.copy.seal \in Nat
      BY DEF Plans
    <3> QED
      BY <2>1, <3>1 DEF NoneIsNewer
  <2>4. CASE /\ UNCHANGED <<stacked, tree>>
             /\ Outdates(FALSE, {stacked.plan, tree.copy.plan})
    <3>1. last \in {stacked.plan, tree.copy.plan, branch.copy.plan}
            => last' = last
      BY <2>4 DEF Outdates
    <3> QED
      BY <2>1, <2>4, <3>1
  <2>5. CASE /\ stacked'.plan = latest' /\ stacked.plan # None
             /\ UNCHANGED tree
             /\ Outdates(InStack /\ last = stacked.plan, {tree.copy.plan})
    <3>1. ~InStack /\ last \in {tree.copy.plan, branch.copy.plan}
            => last' = last
      BY <2>5 DEF Outdates
    <3>2. stacked # Nothing
      BY <2>5 DEF Nothing
    <3>3. branch.at = "changes" /\ tree.at = "gone" => FALSE
      BY <3>2 DEF CommandFits, CutFits
    <3>4. tree.at = "changes" /\ tree.copy.seal # None => ~InStack
      BY DEF InStack
    <3>5. ~FitsItsSeal(stacked')
      BY <2>1, <2>3, <2>5
    <3> QED
      BY <2>1, <2>5, <3>1, <3>2, <3>3, <3>4, <3>5 DEF CutFits
  <2>6. CASE /\ tree'.copy.plan = latest' /\ tree.at = "changes"
             /\ UNCHANGED stacked
             /\ Outdates(InWorktree /\ last = tree.copy.plan, {stacked.plan})
    <3>1. ~InWorktree /\ last = stacked.plan => last' = last
      BY <2>6 DEF Outdates
    <3>2. ~Names => ~InWorktree
      BY DEF InWorktree
    <3>3. ~FitsItsSeal(tree'.copy)
      BY <2>1, <2>3, <2>6
    <3> QED
      BY <2>1, <2>6, <3>1, <3>2, <3>3
  <2>7. /\ stacked' = [stacked EXCEPT !.plan = latest']
          => stacked'.plan = latest'
        /\ tree' = [tree EXCEPT !.copy.plan = latest']
          => tree'.copy.plan = latest'
    BY DEF Trees, Copies
  <2> QED
    BY <1>43, <2>4, <2>5, <2>6, <2>7 DEF Edit
<1>44. CASE ChangeStops
  BY <1>44, StopEffect DEF ChangeStops
<1>45. CASE DependencyMoves
  BY <1>45 DEF DependencyMoves
<1>46. CASE Kill
  <2>1. UNCHANGED <<last, stacked, tree, branch>>
    BY <1>46 DEF Kill
  <2>2. CASE op' = NoOp /\ cut' = cut
             /\ ~(op.path = "fresh" /\ op.pc = "withdraw" /\ stacked # Nothing)
    BY <2>1, <2>2
  <2>3. CASE cut' = NoCut /\ op' = op /\ cut.pc # "withdraw"
    BY <2>1, <2>3 DEF NoCut
  <2> QED
    BY <1>46, <2>2, <2>3 DEF Kill
<1>47. CASE RecreateTree
  BY <1>47 DEF RecreateTree
<1>48. CASE UNCHANGED <<last, stacked, tree, branch, op, cut, odd>>
  BY <1>48
<1> HIDE DEF FoundIsLast, FitsItsSeal, Names, Restart, TypeInv, PTypeOK
<1> QED
  BY <1>1, <1>2, <1>3, <1>4, <1>5, <1>6, <1>7, <1>8, <1>9, <1>10, <1>11,
     <1>12, <1>13, <1>14, <1>15, <1>16, <1>17, <1>18, <1>19, <1>20, <1>21,
     <1>22, <1>23, <1>24, <1>25, <1>26, <1>27, <1>28, <1>29, <1>30, <1>31,
     <1>32, <1>33, <1>34, <1>35, <1>36, <1>37, <1>38, <1>39, <1>40, <1>41,
     <1>42, <1>43, <1>44, <1>45, <1>46, <1>47, <1>48
  DEF PNext, Approves, Rejects, Cutting, World

(* As long as no command met a cut, no half-written approval was cut, and no *)
(* kill fell between an approval's commit and the removal of its stacked     *)
(* copy, what runs in a worktree is the plan approved last: edits, failures, *)
(* rejections, restarts and kills between any other two steps bring no older *)
(* copy back.  After such a kill an older copy may come back, by a rejection.*)
THEOREM LastApprovedRuns == PSpec => []RunsLastApproved
<1>1. PInit => LastInv
  BY WhereInit DEF PInit, LastInv, FoundIsLast, Nothing, NoBranch, NoTree,
     NoOp, NoCut
<1>2. LastInv /\ [PNext]_aVars => LastInv'
  BY WhereStep, FoundStep DEF LastInv
<1>3. LastInv => RunsLastApproved
  BY DEF LastInv, FoundIsLast, FitsItsSeal, RunsLastApproved, Runs,
     InWorktree, Sealed, Calm
<1> QED
  BY <1>1, <1>2, <1>3, PTL DEF PSpec

(* What the watcher decided of the dependency holds until there is a branch. *)
LEMMA BaseStep ==
  ASSUME BaseInv, [PNext]_aVars, Calm', "reused" \notin odd'
  PROVE  BaseFits'
<1>0. WhereInv
  BY DEF BaseInv
<1>00. /\ Calm /\ PlacesFit /\ CommandFits /\ CutFits
       /\ op.pc = "idle" \/ cut.pc = "idle"
  BY <1>0, CalmStep
<1>000. TypeInv /\ BaseFits
  BY <1>0, <1>00, OddStep DEF WhereInv, SealInv, BaseInv
<1> USE Fields, Starts, <1>00, <1>000, OddStep
        DEF TypeInv, PTypeOK, PathFits, BaseFits, Holds, NoOp, None
<1>1. CASE ApproveDraft
  BY <1>1 DEF ApproveDraft
<1>2. CASE ApproveStacked
  BY <1>2 DEF ApproveStacked
<1>3. CASE ApproveSteered
  BY <1>3 DEF ApproveSteered
<1>4. CASE Claim
  <2>1. /\ op.pc = "claim" /\ cut.pc = "idle"
        /\ UNCHANGED <<cut, dep, stacked, tree, odd>>
        /\ branch' = branch \/ (tree.at = "gone" /\ branch' = NoBranch)
    BY <1>4 DEF Claim
  <2>2. CASE tree.at = "gone" /\ branch' = NoBranch
    BY <2>1, <2>2 DEF PlacesFit, NoBranch, Nothing
  <2> QED
    BY <2>1, <2>2
<1>5. CASE ConfirmStacked
  <2>1. /\ op.pc = "prompt" /\ cut.pc = "idle" /\ stacked'.on = None
        /\ UNCHANGED <<cut, dep, tree, branch, odd>>
    BY <1>5 DEF ConfirmStacked, Nothing
  <2> QED
    BY <2>1
<1>6. CASE CopyStacked
  BY <1>6 DEF CopyStacked
<1>7. CASE SealStacked
  BY <1>7 DEF SealStacked
<1>8. CASE WriteStackedOn
  <2>1. /\ op.pc = "await" /\ cut.pc = "idle" /\ branch.at = "gone"
        /\ UNCHANGED <<cut, dep, tree, branch, odd>>
    BY <1>8 DEF WriteStackedOn, CommandFits, Fresh
  <2> QED
    BY <2>1
<1>9. CASE CreateBranch
  <2>1. /\ op.pc = "branch" /\ cut.pc = "idle" /\ branch.at = "gone"
        /\ UNCHANGED <<cut, dep, stacked, tree, odd>>
    BY <1>9 DEF CreateBranch
  <2>2. /\ branch'.at = "bare" /\ branch'.by = "approval"
        /\ branch'.copy = Nothing
    BY <1>9 DEF CreateBranch, NoBranch
  <2> QED
    BY <2>1, <2>2 DEF PlacesFit, Nothing
<1>10. CASE AddTree
  BY <1>10 DEF AddTree
<1>11. CASE Place
  <2>1. /\ op.pc = "prepare" /\ cut.pc = "idle"
        /\ UNCHANGED <<cut, dep, stacked, branch, odd>>
    BY <1>11 DEF Place
  <2>2. tree'.copy.on = None
    BY <1>11 DEF Place, Nothing
  <2> QED
    BY <2>1, <2>2
<1>12. CASE WriteSeal
  BY <1>12, WriteSealEffect DEF WriteSeal
<1>13. CASE CommitApproved
  <2>1. /\ op.pc = "commit" /\ cut.pc = "idle"
        /\ UNCHANGED <<cut, dep, stacked, tree, odd>>
    BY <1>13 DEF CommitApproved
  <2>2. /\ branch'.copy = tree.copy
        /\ branch'.by = branch.by /\ branch'.base = branch.base
        /\ branch'.at = tree.at /\ tree.at = "changes"
    BY <1>13, <2>1, CommitEffect DEF CommitApproved, CommandFits, Steer
  <2> QED
    BY <2>1, <2>2
<1>14. CASE CommitFails
  BY <1>14, CommitFailsEffect DEF CommitFails
<1>15. CASE Withdraw
  <2>1. /\ op.pc = "withdraw" /\ cut.pc = "idle" /\ stacked'.on = None
        /\ UNCHANGED <<cut, dep, tree, branch, odd>>
    BY <1>15 DEF Withdraw, Nothing
  <2> QED
    BY <2>1
<1>16. CASE Retire
  BY <1>16, StopEffect DEF Retire
<1>17. CASE Replan
  <2>1. /\ op.pc = "replan" /\ op.path = "restart" /\ cut.pc = "idle"
        /\ UNCHANGED <<cut, dep, stacked, tree, odd>>
    BY <1>17 DEF Replan
  <2>2. /\ branch'.copy = tree.copy
        /\ branch'.by = branch.by /\ branch'.base = branch.base
        /\ branch'.at = tree.at /\ tree.at = "changes"
    BY <1>17, <2>1, CommitEffect DEF Replan, CommandFits, Restart
  <2> QED
    BY <2>1, <2>2
<1>18. CASE RemoveTree
  <2>1. /\ op.pc = "remove" /\ cut.pc = "idle"
        /\ UNCHANGED <<cut, dep, stacked, branch, odd>>
        /\ tree'.copy.on = None \/ tree' = tree
    BY <1>18 DEF RemoveTree, NoTree, Nothing
  <2> QED
    BY <2>1
<1>19. CASE KeepBranch
  <2>1. /\ op.pc = "keep" /\ cut.pc = "idle" /\ tree.at = "gone"
        /\ branch' = NoBranch
        /\ UNCHANGED <<cut, dep, stacked, tree, odd>>
    BY <1>19 DEF KeepBranch, CommandFits
  <2>2. /\ tree.copy.on = None /\ branch'.copy.on = None
        /\ branch'.by = "approval"
    BY <2>1 DEF PlacesFit, NoBranch, Nothing
  <2> QED
    BY <2>1, <2>2
<1>20. CASE RejectStacked
  BY <1>20 DEF RejectStacked
<1>21. CASE RejectInWorktree
  BY <1>21 DEF RejectInWorktree
<1>22. CASE CommitRejected
  BY <1>22, CommitEffect DEF CommitRejected, CommandFits
<1>23. CASE DropTree
  <2>1. /\ op.pc = "drop" /\ cut.pc = "idle" /\ tree'.copy.on = None
        /\ UNCHANGED <<cut, dep, stacked, branch, odd>>
    BY <1>23 DEF DropTree, NoTree, Nothing
  <2> QED
    BY <2>1
<1>24. CASE Retry
  BY <1>24, StopEffect DEF Retry, InStack
<1>25. CASE HaltChanged
  BY <1>25 DEF HaltChanged
<1>26. CASE Decide
  <2>1. /\ cut'.pc = "branch"
        /\ cut'.base = IF stacked.on # None /\ dep.state = "archived"
                       THEN "dependency" ELSE "main"
        /\ UNCHANGED <<dep, stacked, tree, branch>>
    BY <1>26 DEF Decide
  <2>2. stacked.on # None
    BY <1>26 DEF Decide, Calm
  <2>3. dep.state = "landed" /\ dep.version # stacked.on => "unread" \in odd'
    BY <1>26, <2>2 DEF Decide
  <2>4. \/ dep.state = "archived" /\ dep.version = stacked.on
        \/ dep.state = "landed"
    BY <1>26, <2>2 DEF Decide, Ready, Changed, Awaited
  <2>5. "unread" \in odd => "unread" \in odd'
    OBVIOUS
  <2> QED
    BY <2>1, <2>2, <2>3, <2>4, <2>5
<1>27. CASE CutBranch
  <2>1. /\ cut.pc = "branch" /\ cut'.pc = "add"
        /\ UNCHANGED <<dep, stacked, tree>>
    BY <1>27 DEF CutBranch, Cuts
  <2>2. "unread" \in odd => "unread" \in odd'
    OBVIOUS
  <2>3. CASE branch.at # "gone"
    <3>1. branch' = branch /\ branch.by # "approval"
      BY <1>27, <2>3 DEF CutBranch
    <3> QED
      BY <2>1, <2>2, <3>1 DEF Branches
  <2>4. CASE branch.at = "gone"
    <3>1. /\ branch'.at = "bare" /\ branch'.by = "cut"
          /\ branch'.copy = Nothing
          /\ branch'.base = IF cut.base = "main" THEN OnMain ELSE OnBranch
      BY <1>27, <2>4 DEF CutBranch, NoBranch
    <3>2. tree.copy.on = None /\ branch'.copy.on = None
      BY <2>4, <3>1 DEF PlacesFit, Nothing
    <3>3. \/ branch'.base = stacked.on
          \/ "unread" \in odd /\ branch'.base = dep.version
      BY <2>1, <3>1 DEF OnMain, OnBranch
    <3>4. dep.version # None
      BY DEF Versions
    <3> QED
      BY <2>1, <2>2, <3>1, <3>2, <3>3, <3>4
  <2> QED
    BY <2>3, <2>4
<1>28. CASE CutAdd
  BY <1>28 DEF CutAdd
<1>29. CASE CutFinds
  BY <1>29 DEF CutFinds
<1>30. CASE CutCopy
  BY <1>30 DEF CutCopy
<1>31. CASE CutCommit
  BY <1>31, CommitEffect DEF CutCommit, CutFits
<1>32. CASE CutWithdraw
  <2>1. /\ cut'.pc = "idle" /\ stacked'.on = None
        /\ UNCHANGED <<dep, tree, branch, odd>>
    BY <1>32 DEF CutWithdraw, NoCut, Nothing
  <2> QED
    BY <2>1
<1>33. CASE CutFails
  <2>1. /\ cut'.pc = "idle" /\ UNCHANGED <<dep, tree, branch>>
    BY <1>33 DEF CutFails, HaltCut, NoCut
  <2>2. stacked'.on = stacked.on
    BY <1>33, CopyFields DEF CutFails, HaltCut
  <2>3. "unread" \in odd => "unread" \in odd'
    OBVIOUS
  <2> QED
    BY <2>1, <2>2, <2>3
<1>34. CASE CutFindsNothing
  <2>1. cut.pc # "idle" /\ stacked.plan = None
    BY <1>34 DEF CutFindsNothing
  <2> QED
    BY <2>1 DEF CutFits, PlacesFit
<1>35. CASE Edit
  <2>1. /\ UNCHANGED <<cut, dep, branch, odd>>
        /\ stacked'.on = stacked.on /\ tree'.copy.on = tree.copy.on
    BY <1>35, EditEffect
  <2> QED
    BY <2>1
<1>36. CASE ChangeStops
  BY <1>36, StopEffect DEF ChangeStops
<1>37. CASE DependencyMoves
  <2>1. cut.pc # "branch" /\ UNCHANGED <<cut, stacked, tree, branch>>
    BY <1>37 DEF DependencyMoves, Calm
  <2>2. "unread" \in odd => "unread" \in odd'
    OBVIOUS
  <2> QED
    BY <2>1, <2>2
<1>38. CASE Kill
  <2>1. /\ UNCHANGED <<dep, stacked, tree, branch>>
        /\ cut'.pc = "idle" \/ cut' = cut
    BY <1>38 DEF Kill, NoCut
  <2>2. "unread" \in odd => "unread" \in odd'
    OBVIOUS
  <2> QED
    BY <2>1, <2>2
<1>39. CASE RecreateTree
  BY <1>39 DEF RecreateTree
<1>40. CASE UNCHANGED <<cut, dep, stacked, tree, branch, odd>>
  BY <1>40
<1> HIDE DEF BaseFits, Holds, TypeInv, PTypeOK
<1> QED
  BY <1>1, <1>2, <1>3, <1>4, <1>5, <1>6, <1>7, <1>8, <1>9, <1>10, <1>11,
     <1>12, <1>13, <1>14, <1>15, <1>16, <1>17, <1>18, <1>19, <1>20, <1>21,
     <1>22, <1>23, <1>24, <1>25, <1>26, <1>27, <1>28, <1>29, <1>30, <1>31,
     <1>32, <1>33, <1>34, <1>35, <1>36, <1>37, <1>38, <1>39, <1>40
  DEF PNext, Approves, Rejects, Cutting, World, ClaimRefused, Review,
     Decline, Confirm, GitRefuses, CommandFails, Clear, RejectFails

(* As long as no command met a cut, the dependency did not move between a    *)
(* cut's decision and its branch, no half-written approval was cut and no    *)
(* cut found a branch of an approval's, a change that runs after a cut       *)
(* starts on the dependency it was approved against; or, when one that       *)
(* landed in another version was cut, on some version.  The dependency may   *)
(* move at every other point: before the decision, from the branch on, and   *)
(* over failed cuts and their retries.                                       *)
THEOREM CutHoldsDependency == PSpec => []StartsOnDependency
<1>1. PInit => BaseInv
  BY WhereInit DEF PInit, BaseInv, BaseFits, NoCut, NoBranch, NoTree, Nothing,
     None
<1>2. BaseInv /\ [PNext]_aVars => BaseInv'
  BY WhereStep, BaseStep DEF BaseInv
<1>3. BaseInv => StartsOnDependency
  <2> SUFFICES ASSUME BaseInv, Runs, branch.copy.on # None, Calm,
                      "reused" \notin odd
               PROVE  Holds(branch.copy.on)
    BY DEF StartsOnDependency, Holds, Calm
  <2>1. branch \in Branches /\ BaseFits
    BY DEF BaseInv, WhereInv, SealInv, TypeInv, PTypeOK
  <2> QED
    BY <2>1 DEF BaseFits, Branches
<1> QED
  BY <1>1, <1>2, <1>3, PTL DEF PSpec


-----------------------------------------------------------------------------
(***************************************************************************)
(* With planners.  A planner writes places Approval's steps do not write   *)
(* then, with a seal and a stop it took down earlier; TypeInv needs of its *)
(* step only that they are of those types.                                 *)
(***************************************************************************)
SteerInv == STypeOK /\ PathFits

USE DEF steerVars, sVars

LEMMA RunPut ==
  ASSUME NEW r \in Runnings
  PROVE  \A c \in {"idle", "boot", "begin", "planning", "same", "changed"} :
           [r EXCEPT !.pc = c] \in Runnings
  BY DEF Runnings

LEMMA RunFields ==
  \A r \in Runnings : /\ r.key \in Keys
                      /\ r.seal \in Plans \cup {None, Clean}
                      /\ r.stop \in Stops \cup {"none", "clean"}
                      /\ r.mark \in Nat
  BY DEF Runnings

LEMMA KeyType == STypeOK => Key \in Keys
  BY Fields DEF STypeOK, PTypeOK, Key, Keys

LEMMA HeadType == STypeOK => Head \in Copies
  BY Fields, Starts DEF STypeOK, PTypeOK, Head

LEMMA NotRunningType == NotRunning \in Runnings /\ NoKey \in Keys
<1>1. NoKey \in Keys
  BY DEF NoKey, Keys
<1> QED
  BY <1>1 DEF NotRunning, Runnings, Stops

LEMMA SteerInit == SInit => SteerInv
<1> SUFFICES ASSUME SInit PROVE SteerInv
  OBVIOUS
<1>1. PTypeOK /\ PathFits
  BY InitType DEF SInit, TypeInv
<1>2. mark \in [tree : Nat, tip : Nat]
  BY DEF SInit
<1>3. record \in Records
  BY NotRunningType DEF SInit, NoRecord, Records, Pids
<1>4. planner \in [Processes -> Runnings]
  BY NotRunningType DEF SInit
<1>5. asking \in [for : {"none", "draft", "steered"}, key : Keys]
  BY NotRunningType DEF SInit, NotAsking
<1>6. quota \in [QuotaKinds -> Nat]
  BY QuotaAssumption DEF SInit, PInit
<1>7. drafting \in BOOLEAN /\ ran \subseteq Keys
  BY DEF SInit
<1> QED
  BY <1>1, <1>2, <1>3, <1>4, <1>5, <1>6, <1>7 DEF SteerInv, STypeOK

(* executeRun up to the spawn.  *)
LEMMA BeginTypes ==
  ASSUME SteerInv, NEW p \in Processes, NEW key \in Keys, Begin(p, key)
  PROVE  /\ planner' \in [Processes -> Runnings] /\ record' \in Records
         /\ ran' \subseteq Keys /\ odd' \subseteq Oddities
<1> USE DEF SteerInv, STypeOK, PTypeOK
<1> DEFINE run == [
      pc |-> "planning", place |-> "steered", key |-> key,
      plan |-> tree.copy.plan,
      seal |-> IF tree.copy.seal = Head.seal THEN Clean
               ELSE tree.copy.seal,
      stop |-> IF tree.copy.stop = Head.stop /\ mark.tree = mark.tip
               THEN "clean" ELSE tree.copy.stop,
      mark |-> mark.tree]
<1>1. run \in Runnings
  BY Fields DEF Runnings
<1>2. planner' = [planner EXCEPT ![p] = run]
  BY DEF Begin
<1>3. planner' \in [Processes -> Runnings]
  <2> HIDE DEF run
  <2> QED
    BY <1>1, <1>2
<1>4. record' \in Records
  BY DEF Begin, Records, Pids, Processes
<1>5. ran' \subseteq Keys /\ odd' \subseteq Oddities
  BY DEF Begin, Remembers, Oddities
<1> QED
  BY <1>3, <1>4, <1>5

(* Approval's variables: its own steps, and what a planner writes.         *)
LEMMA PlacesTyped == SteerInv /\ [SNext]_sVars => TypeInv'
<1> SUFFICES ASSUME SteerInv, [SNext]_sVars PROVE TypeInv'
  OBVIOUS
<1>0. TypeInv
  BY DEF SteerInv, STypeOK, TypeInv
<1> USE DEF SteerInv, STypeOK
<1>1. CASE (Others \/ Cycles \/ Begun) /\ Meanwhile
  <2>1. PNext
    BY <1>1 DEF Others, Cycles, Begun, PNext, World
  <2> QED
    BY <1>0, <2>1, TypeStep
<1>2. CASE UNCHANGED aVars
  BY <1>0, <1>2, TypeStep
<1>3. ASSUME Spend("fail") \/ Spend("kill"),
             UNCHANGED <<placeVars, historyVars, tracked, dep, latest, op, cut>>
      PROVE  TypeInv'
  <2>1. budget' \in [Kinds -> Nat]
    BY <1>0, <1>3 DEF TypeInv, PTypeOK, Kinds
  <2> QED
    BY <1>0, <1>3, <2>1 DEF TypeInv, PTypeOK, PathFits
<1>4. ASSUME odd' \subseteq Oddities,
             UNCHANGED <<placeVars, envVars, op, cut, reviewed, unseen, last>>
      PROVE  TypeInv'
  BY <1>0, <1>4 DEF TypeInv, PTypeOK, PathFits
<1>5. CASE BeginRun
  <2>1. CASE Triggered
    <3>1. planner["watch"].key \in Keys
      BY RunFields DEF Processes
    <3>2. odd' \subseteq Oddities
      BY <1>5, <2>1, <3>1, BeginTypes DEF BeginRun, Processes
    <3> QED
      BY <1>4, <1>5, <3>2 DEF BeginRun
  <2>2. CASE ~Triggered
    BY <1>0, <1>4, <1>5, <2>2 DEF BeginRun, TypeInv, PTypeOK
  <2> QED
    BY <2>1, <2>2
<1>6. CASE BootWorker
  <2>1. odd' \subseteq Oddities
    BY <1>0, <1>6, BeginTypes, KeyType
    DEF BootWorker, Begin, TypeInv, PTypeOK, Oddities
  <2> QED
    BY <1>4, <1>6, <2>1 DEF BootWorker
<1>7. CASE CopyBack
  <2>1. CASE UNCHANGED <<draft, stacked, tree, latest, budget, last>>
    BY <1>0, <1>7, <2>1 DEF CopyBack, TypeInv, PTypeOK, PathFits
  <2>2. CASE latest < NPlans /\ Spend("edit") /\ latest' = latest + 1
    <3>1. latest' \in Plans
      BY <1>0, <2>2, BoundsAssumption DEF TypeInv, PTypeOK, Plans
    <3>2. budget' \in [Kinds -> Nat]
      BY <1>0, <2>2 DEF TypeInv, PTypeOK, Kinds
    <3>3. /\ draft' \in Plans \cup {None} /\ stacked' \in Copies
          /\ tree' \in Trees /\ last' \in Plans \cup {None}
      <4>1. /\ [stacked EXCEPT !.plan = latest'] \in Copies
            /\ [tree.copy EXCEPT !.plan = latest'] \in Copies
        BY <1>0, <3>1, Fields, CopyPut DEF TypeInv, PTypeOK
      <4>2. [tree EXCEPT !.copy = [tree.copy EXCEPT !.plan = latest']] \in Trees
        BY <1>0, <4>1, TreePut DEF TypeInv, PTypeOK
      <4>3. [tree EXCEPT !.copy.plan = latest'] \in Trees
        BY <1>0, <4>2 DEF TypeInv, PTypeOK, Trees
      <4> QED
        BY <1>0, <1>7, <2>2, <3>1, <4>1, <4>3
        DEF CopyBack, Outdates, TypeInv, PTypeOK, None
    <3> QED
      BY <1>0, <1>7, <3>1, <3>2, <3>3 DEF CopyBack, TypeInv, PTypeOK, PathFits
  <2> QED
    BY <1>7, <2>1, <2>2 DEF CopyBack
<1>8. CASE \E p \in Processes : Restore(p)
  <2> PICK p \in Processes : Restore(p)
    BY <1>8
  <2>1. PutBack(p) \in Copies
    <3>1. planner[p] \in Runnings
      OBVIOUS
    <3>2. /\ (IF planner[p].seal = Clean THEN Head.seal
              ELSE planner[p].seal) \in Plans \cup {None}
          /\ (IF planner[p].stop = "clean" THEN Head.stop
              ELSE planner[p].stop) \in Stops \cup {"none"}
      BY <3>1, RunFields, Fields, HeadType
    <3>3. tree.copy \in Copies
      BY <1>0, Fields DEF TypeInv, PTypeOK
    <3> QED
      BY <3>2, <3>3 DEF PutBack, Copies
  <2>2. [branch.copy EXCEPT !.plan = None] \in Copies
    BY <1>0, Fields, CopyPut DEF TypeInv, PTypeOK
  <2>3. tree' \in Trees
    BY <1>0, <2>1, <2>2, TreePut DEF Restore, TypeInv, PTypeOK, Spots
  <2> QED
    BY <1>0, <2>3 DEF Restore, TypeInv, PTypeOK, PathFits
<1>9. CASE \E p \in Processes : RestoreFails(p)
  <2> PICK p \in Processes : RestoreFails(p)
    BY <1>9
  <2>1. CASE UNCHANGED budget
    BY <1>2, <2>1 DEF RestoreFails
  <2>2. CASE Spend("fail")
    BY <1>3, <2>2 DEF RestoreFails
  <2> QED
    BY <2>1, <2>2 DEF RestoreFails
<1>10. CASE PromptFails
  BY <1>3, <1>10 DEF PromptFails
<1>11. CASE \E p \in Processes : KillPlanner(p)
  BY <1>3, <1>11 DEF KillPlanner
<1> QED
  BY <1>1, <1>2, <1>5, <1>6, <1>7, <1>8, <1>9, <1>10, <1>11
  DEF SNext, Planning, Conclude, DecideRun, Interrupt, AskPlanner,
      WriteRunningRecord, Finish

(* What the actions put together. *)
LEMMA Ended ==
  ASSUME STypeOK, NEW p \in Processes, Ends(p)
  PROVE  planner' \in [Processes -> Runnings]
  BY NotRunningType DEF STypeOK, Ends

LEMMA Settled ==
  ASSUME STypeOK, NEW p \in Processes, NEW o \in {"ready", "other"},
         Settles(p, o)
  PROVE  record' \in Records /\ ran' \subseteq Keys
<1>1. planner[p].key \in Keys
  BY RunFields DEF STypeOK
<1> QED
  BY <1>1 DEF STypeOK, Settles, Remembers, Records, Pids

LEMMA Exited ==
  ASSUME STypeOK, NEW p \in Processes, Exits(p)
  PROVE  record' \in Records
  BY DEF STypeOK, Exits, Records, Pids

LEMMA Used ==
  ASSUME STypeOK, NEW kind \in QuotaKinds, Use(kind)
  PROVE  quota' \in [QuotaKinds -> Nat]
  BY DEF STypeOK, Use

(* The planners' own variables. *)
LEMMA SteerTypes ==
  ASSUME SteerInv, [SNext]_sVars
  PROVE  /\ mark' \in [tree : Nat, tip : Nat] /\ record' \in Records
         /\ drafting' \in BOOLEAN /\ planner' \in [Processes -> Runnings]
         /\ asking' \in [for : {"none", "draft", "steered"}, key : Keys]
         /\ quota' \in [QuotaKinds -> Nat] /\ ran' \subseteq Keys
<1> USE RunFields, KeyType, NotRunningType DEF SteerInv, STypeOK
<1>0. \A p \in Processes : planner[p] \in Runnings /\ planner[p].key \in Keys
  OBVIOUS
<1>1. CASE (Others \/ Cycles \/ Begun) /\ Meanwhile
  <2>1. budget \in [Kinds -> Nat]
    BY DEF PTypeOK
  <2>2. mark' \in [tree : Nat, tip : Nat]
    BY <1>1, <2>1 DEF Meanwhile, Marks, Kinds
  <2>3. record' \in Records
    BY <1>1 DEF Meanwhile, Records, NoRecord, Pids
  <2> QED
    BY <1>1, <2>2, <2>3 DEF Meanwhile
<1>2. CASE DecideRun /\ UNCHANGED mark
  <2> DEFINE run == [planner["watch"] EXCEPT !.pc = "begin", !.key = Key]
  <2>1. run \in Runnings
    BY <1>0 DEF Runnings, Processes
  <2>2. planner' = [planner EXCEPT !["watch"] = run]
    BY <1>2 DEF DecideRun, Processes
  <2> HIDE DEF run
  <2> QED
    <3>1. planner' \in [Processes -> Runnings]
      BY <2>1, <2>2
    <3> QED
      BY <1>2, <3>1, Used DEF DecideRun, QuotaKinds
<1>3. CASE PromptFails /\ UNCHANGED mark
  BY <1>3, Ended, Settled DEF PromptFails, Processes
<1>4. CASE BeginRun /\ UNCHANGED mark
  <2>1. CASE Triggered
    BY <1>0, <1>4, <2>1, BeginTypes DEF BeginRun, Processes
  <2>2. CASE ~Triggered
    BY <1>4, <2>2, Ended DEF BeginRun, Processes
  <2> QED
    BY <2>1, <2>2
<1>5. CASE Interrupt /\ UNCHANGED mark
  <2>1. record' \in Records
    BY <1>5 DEF Interrupt, Records, Pids
  <2> QED
    BY <1>5, <2>1 DEF Interrupt
<1>6. CASE AskPlanner /\ UNCHANGED mark
  <2>1. planner' \in [Processes -> Runnings]
    BY <1>0, <1>6, RunPut DEF AskPlanner, RunTo, Processes
  <2>2. asking' \in [for : {"none", "draft", "steered"}, key : Keys]
    BY <1>6 DEF AskPlanner
  <2> QED
    BY <1>6, <2>1, <2>2, Used DEF AskPlanner, QuotaKinds
<1>7. CASE WriteRunningRecord /\ UNCHANGED mark
  <2>1. WrittenKeys \subseteq Keys
    BY DEF WrittenKeys, Keys
  <2>2. record' \in Records /\ ran' \subseteq Keys
    BY <1>7, <2>1 DEF WriteRunningRecord, Remembers, Records, Pids
  <2> QED
    <3>1. drafting' \in BOOLEAN
      BY <1>7 DEF WriteRunningRecord
    <3>2. asking' \in [for : {"none", "draft", "steered"}, key : Keys]
      BY <1>7 DEF WriteRunningRecord, NotAsking
    <3> QED
      BY <1>7, <2>2, <3>1, <3>2 DEF WriteRunningRecord
<1>8. CASE BootWorker /\ UNCHANGED mark
  <2>1. CASE Triggered
    <3>1. Begin("plan", Key) /\ UNCHANGED <<mark, drafting, asking, quota>>
      BY <1>8, <2>1 DEF BootWorker
    <3> QED
      BY <3>1, BeginTypes DEF Processes
  <2>2. CASE ~Triggered
    <3>1. drafting' \in BOOLEAN
      BY <1>8, <2>2 DEF BootWorker, InCheckout
    <3>2. CASE InWorktree \/ InStack \/ InCheckout
      <4> DEFINE place == IF InWorktree THEN "worktree"
                          ELSE IF InStack THEN "stacked" ELSE "draft"
                 run == [planner["plan"] EXCEPT !.pc = "planning",
                                                !.place = place]
      <4>1. place \in {"draft", "stacked", "worktree"}
        OBVIOUS
      <4>2. planner' = [planner EXCEPT !["plan"].pc = "planning",
                                       !["plan"].place = place]
        BY <1>8, <2>2, <3>2 DEF BootWorker
      <4> HIDE DEF place
      <4>3. run \in Runnings
        BY <1>0, <4>1 DEF Runnings, Processes
      <4>4. planner' = [planner EXCEPT !["plan"] = run]
        BY <4>2 DEF Processes
      <4> HIDE DEF run
      <4> QED
        BY <1>8, <2>2, <3>1, <3>2, <4>3, <4>4 DEF BootWorker
    <3>3. CASE ~(InWorktree \/ InStack \/ InCheckout)
      BY <1>8, <2>2, <3>1, <3>3, Ended, Exited DEF BootWorker, Processes
    <3> QED
      BY <3>2, <3>3
  <2> QED
    BY <2>1, <2>2
<1>9. CASE CopyBack /\ UNCHANGED mark
  BY <1>9, Ended, Exited DEF CopyBack, Processes
<1>10. CASE (\E p \in Processes : KillPlanner(p)) /\ UNCHANGED mark
  BY <1>10, Ended, Exited DEF KillPlanner
<1>11. CASE \E p \in Processes : Restore(p)
  <2> PICK p \in Processes : Restore(p)
    BY <1>11
  <2>1. mark' \in [tree : Nat, tip : Nat]
    BY <1>0 DEF Restore
  <2>2. planner' \in [Processes -> Runnings]
    BY <1>0, RunPut DEF Restore, RunTo
  <2> QED
    BY <2>1, <2>2 DEF Restore
<1>12. CASE \E p \in Processes : RestoreFails(p)
  BY <1>12, Ended, Settled DEF RestoreFails
<1>13. CASE \E p \in Processes : Finish(p)
  BY <1>13, Ended, Settled DEF Finish
<1>14. CASE UNCHANGED sVars
  BY <1>14
<1> QED
  BY <1>1, <1>2, <1>3, <1>4, <1>5, <1>6, <1>7, <1>8, <1>9, <1>10, <1>11,
     <1>12, <1>13, <1>14
  DEF SNext, Planning, Conclude

LEMMA SteerStep == SteerInv /\ [SNext]_sVars => SteerInv'
  BY PlacesTyped, SteerTypes DEF SteerInv, STypeOK, TypeInv

(* With planners as well every variable keeps its type: what a planner     *)
(* took down at its begin is a seal, a stop and a key the change had, and  *)
(* what it restores from them is a tree again.                             *)
THEOREM SteerTypeCorrect == SSpec => []STypeOK
<1>1. SSpec => []SteerInv
  BY SteerInit, SteerStep, PTL DEF SSpec
<1> QED
  BY <1>1, PTL DEF SteerInv

=============================================================================
