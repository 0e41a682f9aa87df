-------------------------- MODULE MCWorktreeChange --------------------------
(***************************************************************************)
(* A worktree change of two tasks with one fault of each kind.             *)
(***************************************************************************)
EXTENDS WorktreeChange

OneOfEach == {[k \in Kinds |-> 1]}
=============================================================================
