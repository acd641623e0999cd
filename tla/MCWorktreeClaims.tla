-------------------------- MODULE MCWorktreeClaims --------------------------
(* Small instances of WorktreeClaims.                                      *)
EXTENDS WorktreeClaims, TLC

\* Holders are alike, their callers are, and branches are.
Symmetry == Permutations(Run) \cup Permutations(Thread) \cup Permutations(Resource)
=============================================================================
