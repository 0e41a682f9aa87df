---------------------------- MODULE MCChangeRun ----------------------------
(***************************************************************************)
(* Values of ChangeRun's constants for TLC.                                *)
(***************************************************************************)
EXTENDS ChangeRun, TLC

\* watchers differ in nothing but their names
WatcherSymmetry == Permutations(Watchers)

NoBudget == [k \in Kinds |-> 0]

\* a kill, an approval and two more commands of a human, a tree somebody edits
CoreBudget ==
  [NoBudget EXCEPT !["crash"] = 1, !["command"] = 3, !["tree"] = 1]

\* the failures an attempt can have, a kill and a usage limit
RetriesBudget ==
  [NoBudget EXCEPT !["crash"] = 1, !["command"] = 2, !["limit"] = 1]

\* an approval, a torn read, an old lock, and edits of the plan and of the
\* tree while two watchers share the checkout
PairBudget ==
  [NoBudget EXCEPT !["command"] = 1, !["torn"] = 1, !["age"] = 1,
                   !["plan"] = 1, !["tree"] = 1]

\* one kill, nothing else
KillBudget == [NoBudget EXCEPT !["crash"] = 1, !["command"] = 1]
=============================================================================
