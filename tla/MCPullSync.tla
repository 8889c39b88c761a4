----------------------------- MODULE MCPullSync -----------------------------
(* Instances of PullSync for TLC. *)
EXTENDS PullSync, TLC

CONSTANTS p1, p2, main, topic, stack

\* p1 merges topic into main; p2 is stacked on it, and merges stack into topic.
Heads == [p \in Pull |-> IF p = p1 THEN topic ELSE stack]
Bases == [p \in Pull |-> IF p = p1 THEN main ELSE topic]

Symmetry == Permutations(Pusher) \cup Permutations(Slot)
=============================================================================
