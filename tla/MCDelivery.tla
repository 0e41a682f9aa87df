----------------------------- MODULE MCDelivery -----------------------------
(***************************************************************************)
(* A small delivery: two tasks, two landers, one commit of others of each  *)
(* kind.  What goes wrong goes wrong in one of a few profiles: faults that *)
(* can meet are combined, in work of the change, in two landers' race, in  *)
(* a publication or in the autopilot's planning.                           *)
(***************************************************************************)
EXTENDS Autopilot

CONSTANTS plain, rewrite, clash, Profiles

Limits(kinds, given) == [k \in kinds |-> IF k \in DOMAIN given THEN given[k] ELSE 0]

None == [k \in {} |-> 0]
Item == [queue |-> 1]

Profile(work, lands, items) ==
  [work  |-> Limits(Kinds, work),
   lands |-> Limits(LandKinds, lands),
   items |-> Limits(QuotaKinds, items)]

All == [
  crash |-> Profile([kill |-> 1, hook |-> 1, death |-> 2, human |-> 1], None, Item),
  retry |-> Profile([kill |-> 1, limit |-> 1, death |-> 2, human |-> 1], None, Item),
  halt  |-> Profile([kill |-> 1, hook |-> 1, red |-> 1, limit |-> 1, human |-> 1],
                    None, Item),
  sync  |-> Profile([red |-> 1], [main |-> 2, red |-> 1], Item),
  race  |-> Profile([hook |-> 1],
                    [land |-> 2, main |-> 1, kill |-> 1, human |-> 1], Item),
  fail  |-> Profile([human |-> 1],
                    [land |-> 2, origin |-> 1, red |-> 2, blocked |-> 1], Item),
  push  |-> Profile(None,
                    [land |-> 2, main |-> 1, origin |-> 1, human |-> 1], Item),
  plan  |-> Profile([kill |-> 1], None,
                    [queue |-> 2, throw |-> 1, worker |-> 1, human |-> 1])]

TheBudgets == {All[p].work : p \in Profiles}
ProfileOf(b) == CHOOSE p \in Profiles : All[p].work = b
TheLand == [b \in TheBudgets |-> All[ProfileOf(b)].lands]
TheQuota == [b \in TheBudgets |-> All[ProfileOf(b)].items]
=============================================================================
