----------------------------- MODULE MCPullMerge ----------------------------
(* Instances of PullMerge for TLC: small constant values for its functions. *)
EXTENDS PullMerge, TLC

CONSTANTS p1, p2, c1, c2, c3

\* Each pull request brings one commit; c3 is pushed straight to the base.
OwnCommit == [p \in Pull |-> IF p = p1 THEN {c1} ELSE {c2}]

\* The first pull request conflicts with the direct push.
Clash == {{c1, c3}}

NoConflict == {}

Symmetry == Permutations(Merger) \cup Permutations(Editor) \cup Permutations(Title)
=============================================================================
