----------------------------- MODULE MCApproval -----------------------------
(***************************************************************************)
(* One change of three plan versions on a dependency of two.  What happens *)
(* to it comes in profiles: a cut that fails, kills, a change that is      *)
(* steered or restarted, one that is rejected and approved again; and      *)
(* planners that are killed, throw, race an approval or one another.       *)
(***************************************************************************)
EXTENDS AutoSteer

Limit(kinds, given) == [k \in kinds |-> IF k \in DOMAIN given THEN given[k] ELSE 0]

Moved == {
  [command |-> 3, fail |-> 1, dep |-> 2],
  [command |-> 2, dep |-> 2, edit |-> 1],
  [command |-> 1, fail |-> 1, dep |-> 4, edit |-> 1],
  [command |-> 2, kill |-> 1, dep |-> 1, stop |-> 1, edit |-> 1],
  [command |-> 2, kill |-> 1, fail |-> 1, stop |-> 2, edit |-> 1],
  [command |-> 3, stop |-> 1, edit |-> 1],
  [command |-> 2, dep |-> 1, edit |-> 2],
  [command |-> 1, fail |-> 1, dep |-> 1, edit |-> 2]}

Planned == {
  <<[command |-> 2, fail |-> 1, stop |-> 1, edit |-> 1], [auto |-> 2]>>,
  <<[command |-> 1, kill |-> 1, stop |-> 1], [auto |-> 1, plan |-> 1]>>,
  <<[command |-> 2, stop |-> 2], [auto |-> 2, plan |-> 1]>>,
  <<[command |-> 1, stop |-> 1, edit |-> 1], [plan |-> 1]>>,
  <<[command |-> 2, fail |-> 1, stop |-> 1], [plan |-> 1]>>}

Profiles == Planned \cup {<<b, [auto |-> 0]>> : b \in Moved}
TheBudgets == {Limit(Kinds, p[1]) : p \in Profiles}
TheQuota ==
  [b \in TheBudgets |->
     Limit(QuotaKinds, (CHOOSE p \in Profiles : Limit(Kinds, p[1]) = b)[2])]
=============================================================================
