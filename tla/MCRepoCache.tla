----------------------------- MODULE MCRepoCache ----------------------------
(* Instances of RepoCache for TLC. *)
EXTENDS RepoCache, TLC

\* Directories, requests and handles are interchangeable (safety runs only).
Symmetry == Permutations(Dir) \cup Permutations(Reader) \cup Permutations(Pusher)
            \cup Permutations(Handle)
=============================================================================
