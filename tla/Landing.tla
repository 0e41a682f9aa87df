------------------------------ MODULE Landing ------------------------------
(***************************************************************************)
(* The default branch around one change's branch: the sync that takes it   *)
(* into the worktree, and `osq land`, which builds the land commit, pushes *)
(* it, moves the checkout to it and removes the worktree.  The watcher     *)
(* syncs while the change is active; once it is archived a human's         *)
(* terminal, the server and the autopilot may each land it, and nothing    *)
(* keeps two of them apart.  WorktreeChange leaves the sync one outcome;   *)
(* here it is the steps between which the default branch, read by name     *)
(* each time, may move.                                                    *)
(*                                                                         *)
(* Abstractions:                                                           *)
(*  - a branch is the set of commits it holds, its tip's history; a land   *)
(*    commit is named by its lander;                                       *)
(*  - the text of the living specs is the set of commits whose text it is, *)
(*    the change's own requirements left out;                              *)
(*  - a lander that only refuses ends where it began;                      *)
(*  - the bridge of a stacked change, its dependencies and the other       *)
(*    changes of the project are left out;                                 *)
(*  - how often the others act is capped by left.                          *)
(***************************************************************************)
EXTENDS WorktreeChange

CONSTANTS
  Landers,      \* who may run `osq land`
  Publishers,   \* those of them that publish: the server
  Moves,        \* the commits of others
  Rewrites,     \* those that change a requirement this change rewrites
  Conflicts,    \* those whose code conflicts with this change's
  LandBudget    \* left, for each member of Budgets

LandKinds == {"land", "main", "origin", "kill", "red", "human", "blocked"}

ASSUME LandersAssumption ==
  /\ Publishers \subseteq Landers
  /\ Landers \cap Moves = {}
  /\ "watcher" \notin Landers

ASSUME MovesAssumption ==
  /\ Rewrites \subseteq Moves
  /\ Conflicts \subseteq Moves

ASSUME LandBudgetAssumption == LandBudget \in [Budgets -> [LandKinds -> Nat]]

VARIABLES
  main,      \* the default branch, checked out in the project's own tree
  origin,    \* origin's default branch
  joined,    \* what the change's branch holds of the default branch
  text,      \* whose living-spec text the branch holds
  draft,     \* whose text the worktree holds
  theirs,    \* what the unfinished merge brings in
  at,        \* where each process is
  saw,       \* what a publisher saw first: origin, and whether it had landed
  built,     \* a lander's land commit: its parent's history and its tree
  worktree,  \* "there" until a land removes it
  after,     \* the after-land command: "unrun", "passed", "failed"
  dropped,   \* history: landers whose land stopped, or was killed, after its
             \* commit was pushed or landed and before its after-land command
  left,      \* how often the others may still act
  killed     \* history: a kill took a lander or the watcher

refVars    == <<main, origin>>
branchVars == <<joined, text, draft, theirs>>
workings   == <<saw, built>>
endVars    == <<worktree, after, dropped>>
landVars   == <<refVars, branchVars, at, workings, endVars, left, killed>>
lVars      == <<wVars, landVars>>

Syncers == Landers \cup {"watcher"}
History == Moves \cup Landers

Rest       == {"out", "landed"}
SyncPhases == {"ask", "merge", "specs", "verify", "join"}
LandPhases == Rest \cup {"fetch", "check", "build", "push", "move", "clean",
                         "after", "again", "tidy", "ahead"}

LTypeOK ==
  /\ WTypeOK
  /\ main \in SUBSET History
  /\ origin \in SUBSET History
  /\ joined \in SUBSET History
  /\ text \in SUBSET History
  /\ draft \in SUBSET History
  /\ theirs \in SUBSET History
  /\ at \in [Syncers -> SyncPhases \cup LandPhases]
  /\ at["watcher"] \in SyncPhases
  /\ saw \in [Publishers -> [origin : SUBSET History, landed : BOOLEAN]]
  /\ built \in [Landers -> [base : SUBSET History, code : SUBSET History,
                            text : SUBSET History]]
  /\ worktree \in {"there", "gone"}
  /\ after \in {"unrun", "passed", "failed"}
  /\ dropped \in SUBSET Landers
  /\ left \in [LandKinds -> Nat]
  /\ killed \in BOOLEAN

LInit ==
  /\ WInit
  /\ main = {} /\ origin = {}
  /\ joined = {} /\ text = {} /\ draft = {} /\ theirs = {}
  /\ at = [a \in Syncers |-> IF a = "watcher" THEN "ask" ELSE "out"]
  /\ saw = [l \in Publishers |-> [origin |-> {}, landed |-> FALSE]]
  /\ built = [l \in Landers |-> [base |-> {}, code |-> {}, text |-> {}]]
  /\ worktree = "there" /\ after = "unrun" /\ dropped = {}
  /\ left = LandBudget[budget] /\ killed = FALSE

-----------------------------------------------------------------------------
(* Control *)

At(a, phase) == at' = [at EXCEPT ![a] = phase]
Allow(kind)  == /\ left[kind] > 0
                /\ left' = [left EXCEPT ![kind] = @ - 1]

Landed == main \cap Landers # {}

\* the worktree as git sees it; a merge starts only on a clean index
Unstaged == ~merging /\ draft = text
CleanTree == /\ Unstaged /\ dirty = {} /\ staged = {}
             /\ specs = head.specs /\ head.sealed

\* the watcher syncs when its visit says so, a lander when its checks passed
Syncing(a, phase) ==
  /\ at[a] = phase
  /\ IF a = "watcher" THEN pc = "sync" ELSE worktree = "there"

WorktreeStays == UNCHANGED <<pc, cur, restVars>>

\* how a sync ends for who called it
Returns(a) ==
  IF a = "watcher" THEN SyncEnds /\ At(a, "ask")
  ELSE SetMerge(FALSE) /\ WorktreeStays /\ At(a, "build")

\* defect: every stop is recorded
RecordedAll(reason, m) == hook = "passes" /\ ~m

\* rethrowSyncStop and recordLandStop: a lander commits three of the stops,
\* unless a hook rejects it or another merge is in the way
Recorded(reason, m) == reason # "sync_failed" /\ hook = "passes" /\ ~m

Stops(a, reason, m) ==
  IF a = "watcher" THEN SyncHalts(reason) /\ At(a, "ask")
  ELSE /\ SetMerge(m)
       /\ halt' = IF Recorded(reason, m) THEN reason ELSE halt
       /\ UNCHANGED <<pc, cur, fails, tries, again, head, worldVars>>
       /\ At(a, "out")

\* stopAfter: git can only abort a merge that is there, whoever began it
AbortsMerge ==
  /\ theirs' = {}
  /\ draft' = IF merging THEN text ELSE draft

syncStays == <<refVars, workings, endVars, killed>>

-----------------------------------------------------------------------------
(* syncWithDefaultBranch *)

\* nothing to merge, a requirement that moved, or a merge to begin
SyncAsks(a) ==
  /\ Syncing(a, "ask")
  /\ \/ main \subseteq joined /\ Returns(a)
     \/ ~(main \subseteq joined) /\ main \cap Rewrites # {}
        /\ Stops(a, "requirement_changed", merging)
     \/ ~(main \subseteq joined) /\ main \cap Rewrites = {}
        /\ At(a, "merge") /\ UNCHANGED wVars
  /\ UNCHANGED <<branchVars, syncStays, left>>

SyncMerges(a) ==
  /\ Syncing(a, "merge") /\ Unstaged
  /\ (main \ joined) \cap Conflicts = {}
  /\ theirs' = main
  /\ draft' = text \cup main
  /\ SetMerge(TRUE) /\ WorktreeStays
  /\ At(a, "specs")
  /\ UNCHANGED <<joined, text, syncStays, left>>

SyncConflicts(a) ==
  /\ Syncing(a, "merge") /\ Unstaged
  /\ (main \ joined) \cap Conflicts # {}
  /\ Stops(a, "sync_conflict", FALSE)
  /\ UNCHANGED <<branchVars, syncStays, left>>

\* git refuses to merge in a worktree that is in the middle of something
SyncRefused(a) ==
  /\ Syncing(a, "merge") /\ ~Unstaged
  /\ AbortsMerge
  /\ Stops(a, "sync_failed", FALSE)
  /\ UNCHANGED <<joined, text, syncStays, left>>

\* rebuildLivingSpecs takes the default branch's text as it is by now
SyncRewrites(a) ==
  /\ Syncing(a, "specs")
  /\ draft' = main
  /\ At(a, "verify")
  /\ UNCHANGED <<wVars, joined, text, theirs, syncStays, left>>

SyncVerifies(a) ==
  /\ Syncing(a, "verify")
  /\ At(a, "join")
  /\ UNCHANGED <<wVars, branchVars, syncStays, left>>

\* a delta, a lockfile or a prepare step that fails, or a red verify
SyncFails(a, reason) ==
  /\ \/ Syncing(a, "specs") /\ reason = "sync_failed"
     \/ Syncing(a, "verify") /\ reason = "sync_verify_red"
  /\ Allow("red")
  /\ AbortsMerge
  /\ Stops(a, reason, FALSE)
  /\ UNCHANGED <<joined, text, syncStays>>

\* the commit concludes whichever merge the worktree is in
SyncJoins(a) ==
  /\ Syncing(a, "join") /\ hook = "passes"
  /\ joined' = joined \cup theirs
  /\ text' = draft /\ theirs' = {}
  /\ Returns(a)
  /\ UNCHANGED <<draft, syncStays, left>>

\* defect: a rejected sync leaves its merge
SyncRejectedOpen(a) ==
  /\ Syncing(a, "join") /\ hook = "rejects"
  /\ Stops(a, "sync_failed", merging)
  /\ UNCHANGED <<branchVars, syncStays, left>>

SyncRejected(a) ==
  /\ Syncing(a, "join") /\ hook = "rejects"
  /\ AbortsMerge
  /\ Stops(a, "sync_failed", FALSE)
  /\ UNCHANGED <<joined, text, syncStays, left>>

SyncSteps(a) ==
  \/ SyncAsks(a) \/ SyncMerges(a) \/ SyncConflicts(a) \/ SyncRefused(a)
  \/ SyncRewrites(a) \/ SyncVerifies(a) \/ SyncJoins(a) \/ SyncRejected(a)
  \/ \E reason \in SyncStops : SyncFails(a, reason)

-----------------------------------------------------------------------------
(* landAndPublish and landChange *)

LandBegins(l) ==
  /\ at[l] \in Rest /\ head.sealed /\ Allow("land")
  /\ At(l, IF l \in Publishers THEN "fetch" ELSE "check")
  /\ UNCHANGED <<wVars, refVars, branchVars, workings, endVars, killed>>

\* fetchOrigin, catchUp: a checkout that cannot move is not reported, and
\* whether the change has landed is read before landChange reads it again
LandFetches(l) ==
  /\ at[l] = "fetch"
  /\ main \subseteq origin \/ origin \subseteq main
  /\ \/ main' = main \cup origin /\ UNCHANGED left
     \/ ~(origin \subseteq main) /\ Allow("blocked") /\ UNCHANGED main
  /\ saw' = [saw EXCEPT ![l] =
               [origin |-> origin, landed |-> main' \cap Landers # {}]]
  /\ At(l, "check")
  /\ UNCHANGED <<wVars, origin, branchVars, built, endVars, killed>>

LandDiverged(l) ==
  /\ at[l] = "fetch"
  /\ ~(main \subseteq origin) /\ ~(origin \subseteq main)
  /\ At(l, "out")
  /\ UNCHANGED <<wVars, refVars, branchVars, workings, endVars, left, killed>>

\* the refusals: a failed archive commit, an unclean worktree, steering
Refused ==
  \/ worktree = "there" /\ (halt = "commit_failed" \/ ~CleanTree)
  \/ ~Landed /\ (worktree = "gone" \/ halt # "none")

LandChecks(l) ==
  /\ at[l] = "check"
  /\ At(l, IF Refused THEN "out" ELSE IF Landed THEN "again" ELSE "ask")
  /\ UNCHANGED <<wVars, refVars, branchVars, workings, endVars, left, killed>>

\* defect: the checkout's HEAD is taken as it is
LandBuildsAnyway(l) ==
  /\ at[l] = "build" /\ worktree = "there"
  /\ built' = [built EXCEPT ![l] =
                 [base |-> main, code |-> joined, text |-> text]]
  /\ At(l, IF l \in Publishers THEN "push" ELSE "move")
  /\ UNCHANGED <<wVars, refVars, branchVars, saw, endVars, left, killed>>

\* the tip, the checkout's HEAD, and whether the one holds the other
LandBuilds(l) ==
  /\ at[l] = "build" /\ worktree = "there"
  /\ IF main \subseteq joined
     THEN /\ built' = [built EXCEPT ![l] =
                         [base |-> main, code |-> joined, text |-> text]]
          /\ At(l, IF l \in Publishers THEN "push" ELSE "move")
     ELSE At(l, "out") /\ UNCHANGED built
  /\ UNCHANGED <<wVars, refVars, branchVars, saw, endVars, left, killed>>

LandCommit(l) == built[l].base \cup {l}

\* defect: a rejected push is passed over
LandPushesAnyway(l) ==
  /\ at[l] = "push"
  /\ origin' = IF origin \subseteq built[l].base THEN LandCommit(l) ELSE origin
  /\ At(l, "move")
  /\ UNCHANGED <<wVars, main, branchVars, workings, endVars, left, killed>>

LandPushes(l) ==
  /\ at[l] = "push"
  /\ IF origin \subseteq built[l].base
     THEN origin' = LandCommit(l) /\ At(l, "move")
     ELSE At(l, "out") /\ UNCHANGED origin
  /\ UNCHANGED <<wVars, main, branchVars, workings, endVars, left, killed>>

\* defect: the checkout is reset to the land commit
LandMovesForced(l) ==
  /\ at[l] = "move"
  /\ main' = LandCommit(l) /\ At(l, "clean")
  /\ UNCHANGED <<wVars, origin, branchVars, workings, endVars, left, killed>>

\* defect: a checkout that did not move is cleaned up after
LandMovesOrNot(l) ==
  /\ at[l] = "move"
  /\ main' = IF main \subseteq LandCommit(l) THEN LandCommit(l) ELSE main
  /\ At(l, "clean")
  /\ UNCHANGED <<wVars, origin, branchVars, workings, endVars, left, killed>>

\* a land that ends here leaves no record that its command was not run
Drops(S) ==
  dropped' = dropped \cup {l \in S \cap (main \cup origin) :
                              at[l] \in {"move", "clean", "after"}}

\* a fast-forward of the checkout, also to a commit a pull has brought it, or
\* "moved while landing"
LandMoves(l) ==
  /\ at[l] = "move"
  /\ IF main \subseteq LandCommit(l) \/ LandCommit(l) \subseteq main
     THEN main' = main \cup LandCommit(l) /\ At(l, "clean") /\ UNCHANGED dropped
     ELSE At(l, "out") /\ Drops({l}) /\ UNCHANGED main
  /\ UNCHANGED <<wVars, origin, branchVars, workings, worktree, after, left,
                 killed>>

LandBlocked(l) ==
  /\ at[l] = "move" /\ Allow("blocked")
  /\ At(l, "out") /\ Drops({l})
  /\ UNCHANGED <<wVars, refVars, branchVars, workings, worktree, after, killed>>

\* defect: a land that publishes ends with its clean-up
LandCleansOrEnds(l) ==
  /\ at[l] \in {"clean", "tidy"}
  /\ \/ worktree' = "gone" /\ UNCHANGED left
     \/ Allow("blocked") /\ UNCHANGED worktree
  /\ At(l, IF at[l] = "clean" /\ l \notin Publishers THEN "after" ELSE "landed")
  /\ UNCHANGED <<wVars, refVars, branchVars, workings, after, dropped, killed>>

\* cleanupChange, which may fail and leave the worktree
LandCleans(l) ==
  /\ at[l] \in {"clean", "tidy"}
  /\ \/ worktree' = "gone" /\ UNCHANGED left
     \/ Allow("blocked") /\ UNCHANGED worktree
  /\ At(l, IF at[l] = "clean" THEN "after"
           ELSE IF l \in Publishers /\ saw[l].landed THEN "ahead" ELSE "landed")
  /\ UNCHANGED <<wVars, refVars, branchVars, workings, after, dropped, killed>>

RunAfterLand ==
  \/ after' = "passed" /\ UNCHANGED left
  \/ after' = "failed" /\ Allow("red")

LandRunsAfter(l) ==
  /\ at[l] = "after"
  /\ RunAfterLand
  /\ At(l, "landed")
  /\ UNCHANGED <<wVars, refVars, branchVars, workings, worktree, dropped,
                 killed>>

\* retryAfterLand: only a recorded failure runs the command again
LandRetriesAfter(l) ==
  /\ at[l] = "again"
  /\ IF after = "failed" THEN RunAfterLand ELSE UNCHANGED <<after, left>>
  /\ At(l, "tidy")
  /\ UNCHANGED <<wVars, refVars, branchVars, workings, worktree, dropped,
                 killed>>

\* pushAhead compares with what was fetched at the start
LandPushesAhead(l) ==
  /\ at[l] = "ahead"
  /\ origin' = IF saw[l].origin \cup origin \subseteq main THEN main ELSE origin
  /\ At(l, "landed")
  /\ UNCHANGED <<wVars, main, branchVars, workings, endVars, left, killed>>

\* another lander removed the worktree this one works in
LandLosesTree(l) ==
  /\ at[l] \in SyncPhases \cup {"build"} /\ worktree = "gone"
  /\ At(l, "out")
  /\ UNCHANGED <<wVars, refVars, branchVars, workings, endVars, left, killed>>

LandSteps(l) ==
  \/ LandFetches(l) \/ LandDiverged(l) \/ LandChecks(l) \/ LandBuilds(l)
  \/ LandPushes(l) \/ LandMoves(l) \/ LandBlocked(l) \/ LandCleans(l)
  \/ LandRunsAfter(l) \/ LandRetriesAfter(l) \/ LandPushesAhead(l)
  \/ LandLosesTree(l)

-----------------------------------------------------------------------------
(* The others *)

\* the branches are read in a sync and in a land alone: they move there
Read == pc = "sync" \/ head.sealed

MainMoves(c) ==
  /\ Read /\ c \notin main \cup origin /\ Allow("main")
  /\ main' = main \cup {c}
  /\ UNCHANGED <<wVars, origin, branchVars, at, workings, endVars, killed>>

OriginMoves(c) ==
  /\ Read /\ c \notin main \cup origin /\ Allow("origin")
  /\ origin' = origin \cup {c}
  /\ UNCHANGED <<wVars, main, branchVars, at, workings, endVars, killed>>

\* a human merges origin into the checkout
HumanPulls ==
  /\ Read /\ ~(origin \subseteq main) /\ Allow("human")
  /\ main' = main \cup origin
  /\ UNCHANGED <<wVars, origin, branchVars, at, workings, endVars, killed>>

\* a human settles an archived worktree a dead land left unclean
HumanAborts ==
  /\ folder = "archived" /\ head.sealed /\ worktree = "there" /\ ~Unstaged
  /\ Allow("human")
  /\ draft' = text /\ theirs' = {}
  /\ SetMerge(FALSE) /\ WorktreeStays
  /\ UNCHANGED <<refVars, joined, text, at, workings, endVars, killed>>

LandKilled(l) ==
  /\ at[l] \notin Rest /\ Allow("kill")
  /\ At(l, "out") /\ Drops({l}) /\ killed' = TRUE
  /\ UNCHANGED <<wVars, refVars, branchVars, workings, worktree, after>>

\* a kill of the watcher takes the autopilot's land with it
WatcherKilled ==
  /\ Kill
  /\ at' = [a \in Syncers |-> CASE a = "watcher" -> "ask"
                                [] a = "autopilot" -> "out"
                                [] OTHER -> at[a]]
  /\ Drops({"autopilot"} \cap Landers) /\ killed' = TRUE
  /\ UNCHANGED <<refVars, branchVars, workings, worktree, after, left>>

TreeCleaned ==
  /\ \E kept \in SUBSET dirty : HumanCleans(kept)
  /\ draft' = text /\ theirs' = {}
  /\ UNCHANGED <<refVars, joined, text, at, workings, endVars, left, killed>>

-----------------------------------------------------------------------------
(* The specification *)

Elsewhere ==
  \/ AgentPauses \/ HookBreaks \/ HookFixed
  \/ \E t \in Tasks : HumanRetryTask(t)
  \/ HumanRetryChange \/ HumanRetryArchive \/ HumanSeals

Work == (Watcher \/ Elsewhere) /\ UNCHANGED landVars

Others ==
  \/ \E c \in Moves : MainMoves(c) \/ OriginMoves(c)
  \/ HumanPulls \/ HumanAborts \/ TreeCleaned \/ WatcherKilled
  \/ \E l \in Landers : LandKilled(l)

LNext ==
  \/ Work \/ Others
  \/ \E a \in Syncers : SyncSteps(a)
  \/ \E l \in Landers : LandBegins(l) \/ LandSteps(l)

LSpec == LInit /\ [][LNext]_lVars

-----------------------------------------------------------------------------
(* Properties *)

\* Neither the default branch nor the change's branch ever loses a commit,
\* whatever two landers, a catch-up and the others' pushes do.
MainOnlyGrows == [][main \subseteq main' /\ joined \subseteq joined']_lVars

\* A land commit's tree holds the code and the living-spec text of every
\* commit it is put on: the tree is the branch's, so a default branch that
\* moved after the sync would be reverted by it.
NoWorkReverted ==
  \A l \in Landers : at[l] \in {"push", "move"} \/ l \in main \cup origin =>
    /\ built[l].base \subseteq built[l].code
    /\ built[l].base \subseteq built[l].text

\* The worktree is removed only once the default branch holds the change's
\* land: a clean-up never takes work that has not landed (the branch is kept).
CleanupKeepsWork == worktree = "gone" => Landed

\* A publisher's land commit is origin's before it is the checkout's, so a
\* rejected push leaves nothing landed that origin lacks.
PushedBeforeMoved ==
  \A l \in Publishers : l \in main => l \in origin

\* A merge begun in the worktree is one some live sync will end, as long as
\* no process was killed: two landers in one worktree abort and conclude each
\* other's merge and still leave none behind.
MergeHasItsSync ==
  merging /\ worktree = "there" /\ ~killed =>
    \E a \in Syncers : at[a] \in {"specs", "verify", "join"}

\* For every land commit the checkout holds, landed with a push or without,
\* the change's after-land command has run, in that land or in another's, or
\* that land still goes on to it; unless the land was killed or stopped
\* between its push or move and the command.
AfterLandRan ==
  \A l \in main \cap Landers :
    \/ after # "unrun"
    \/ at[l] \in {"move", "clean", "after"}
    \/ l \in dropped
=============================================================================
