----------------------------- MODULE MCGitStore -----------------------------
(***************************************************************************)
(* Bare repositories, for TLC: the lookup of objects and the moves of a    *)
(* branch.  They share no state, so a behaviour moves one of them, chosen  *)
(* at its start.                                                           *)
(***************************************************************************)
EXTENDS ObjectLookup, BranchWrites, TLC

VARIABLE part

storeVars == <<part, lookupVars, branchVars>>

StoreInit == part \in {"objects", "branch"} /\ LookupInit /\ BranchInit

StoreNext ==
    \/ part = "objects" /\ LookupNext /\ UNCHANGED <<part, branchVars>>
    \/ part = "branch" /\ BranchNext /\ UNCHANGED <<part, lookupVars>>

StoreSpec == StoreInit /\ [][StoreNext]_storeVars

\* Type correctness of both.
StoreTypeOK == LookupTypeOK /\ BranchTypeOK

\* Goroutines, processes and repositories are interchangeable, and so are contents
\* requests and movers; the instance gives goroutines and contents requests, and
\* repositories and movers, the same values, so that one permutation serves both.
Symmetry == Permutations(Client) \cup Permutations(Proc) \cup Permutations(Repo)
=============================================================================
