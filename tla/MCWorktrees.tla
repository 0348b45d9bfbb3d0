---- MODULE MCWorktrees ----
EXTENDS Worktrees
CONSTANTS c1, c2, r1, wt, nb, nr, a, x, y
====
