---------------------------- MODULE MCWorktrees ----------------------------
(* Two worktrees, one branch, and its slug is the name a failing git gives.  *)
EXTENDS Worktrees, TLC

CONSTANTS w1, w2, a, pa, pb, s1, s2

Slugs == (a :> pa) @@ (HEAD :> pb) @@ (UNKNOWN :> pa)
Symmetry == Permutations(Worktree) \union Permutations(Secret)

=============================================================================
