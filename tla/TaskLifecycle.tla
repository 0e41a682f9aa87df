--------------------------- MODULE TaskLifecycle ---------------------------
(***************************************************************************)
(* What a change promises whoever reads `osq status`, without locks,       *)
(* markers, audits or processes: how the statuses of its tasks may move.   *)
(* Tasks start one at a time, in order, and only while nothing is dead or  *)
(* regressed; a task becomes done only by running; an archive begins and   *)
(* ends only when every task is done, and is given up as soon as one       *)
(* regresses.  A retry that takes a completion away in the middle of that  *)
(* (undone) is all that excuses a start beside a dead task, out of order,  *)
(* or an archive of less.                                                  *)
(***************************************************************************)
EXTENDS Integers

CONSTANT NTasks

Tasks == 1..NTasks

VARIABLES
  status,   \* per task: pending, running, done, dead or regressed
  closing,  \* an archive is under way
  archived,
  undone    \* a completion was taken away since the change was last looked at

vars == <<status, closing, archived, undone>>

Init ==
  /\ status = [t \in Tasks |-> "pending"]
  /\ closing = FALSE
  /\ archived = FALSE
  /\ undone = FALSE

Moves(t, from, to) ==
  /\ status[t] = from
  /\ status' = [status EXCEPT ![t] = to]
  /\ UNCHANGED archived

Start(t) ==
  /\ ~closing
  /\ \A n \in Tasks \ {t} : \/ status[n] \in {"pending", "done"}
                            \/ status[n] = "dead" /\ undone
  /\ undone \/ \A n \in Tasks : n < t => status[n] = "done"
  /\ Moves(t, "pending", "running")
  /\ UNCHANGED <<closing, undone>>

\* the run ends: verified, failed, or paused or reaped and due again
Finish(t) == Moves(t, "running", "done") /\ UNCHANGED <<closing, undone>>
Die(t)    == /\ ~closing
             /\ Moves(t, "running", "dead") \/ Moves(t, "pending", "dead")
             /\ UNCHANGED <<closing, undone>>
Yield(t)  == /\ Moves(t, "running", "pending")
             /\ UNCHANGED closing /\ (undone' => undone)

\* an audit finds an edit, or an archive-time verify is red
\* (of a task that a retry may have reopened meanwhile)
Regress(t) ==
  /\ \/ Moves(t, "done", "regressed") /\ (closing' => closing)
     \/ /\ Moves(t, "pending", "regressed") \/ Moves(t, "dead", "regressed")
        /\ undone /\ closing /\ ~closing'
  /\ UNCHANGED undone

\* A retry retires one marker and shows what that one covered: a death beside
\* a completion, the lock of an attempt that has not ended yet, or nothing.
\* (A requeue, killed or not, has removed the completion under a regression
\* before its caller retires it.)
Retry(t) ==
  /\ UNCHANGED closing
  /\ \/ /\ \/ Moves(t, "dead", "pending") \/ Moves(t, "dead", "running")
           \/ Moves(t, "regressed", "done") \/ Moves(t, "regressed", "dead")
           \/ Moves(t, "regressed", "pending")
        /\ UNCHANGED undone
     \/ /\ \/ Moves(t, "done", "pending") \/ Moves(t, "done", "dead")
           \/ Moves(t, "done", "running") \/ Moves(t, "regressed", "regressed")
        /\ undone => undone'

\* the change is looked at again, before its next task or its archive
Look ==
  /\ ~closing /\ undone' = FALSE
  /\ UNCHANGED <<status, closing, archived>>

BeginArchive ==
  /\ ~closing /\ closing' = TRUE
  /\ \A t \in Tasks : status[t] = "done"
  /\ UNCHANGED <<status, archived, undone>>

GiveUp ==
  /\ closing /\ closing' = FALSE
  /\ UNCHANGED <<status, archived, undone>>

EndArchive ==
  /\ closing /\ closing' = FALSE
  /\ undone \/ \A t \in Tasks : status[t] = "done"
  /\ archived' = TRUE
  /\ UNCHANGED <<status, undone>>

Next ==
  \/ \E t \in Tasks : \/ Start(t) \/ Finish(t) \/ Die(t) \/ Yield(t)
                      \/ Regress(t) \/ Retry(t)
  \/ Look \/ BeginArchive \/ GiveUp \/ EndArchive

Spec == Init /\ [][~archived /\ Next]_vars
=============================================================================
