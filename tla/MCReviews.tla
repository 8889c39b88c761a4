----------------------------- MODULE MCReviews -----------------------------
(***************************************************************************)
(* Reviews and check suites, for TLC.  A report on a suite reaches the     *)
(* decision as the action Report of ReviewDecision and they share nothing  *)
(* else, so a behaviour moves one of them, chosen at its start.            *)
(***************************************************************************)
EXTENDS ReviewDecision, CheckSuites, TLC

VARIABLE side

checkVars == <<side, reviewVars, suiteVars>>

ChecksInit == side \in {"reviews", "suite"} /\ ReviewInit /\ SuiteInit

ChecksNext ==
    \/ side = "reviews" /\ ReviewNext /\ UNCHANGED <<side, suiteVars>>
    \/ side = "suite" /\ SuiteNext /\ UNCHANGED <<side, reviewVars>>

ChecksSpec == ChecksInit /\ [][ChecksNext]_checkVars

\* Type correctness of both.
ChecksTypeOK == ReviewTypeOK /\ SuiteTypeOK

\* Requests and job rows are interchangeable.
Symmetry == Permutations(Client) \cup Permutations(Slot)
=============================================================================
