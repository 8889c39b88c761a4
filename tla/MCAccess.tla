------------------------------ MODULE MCAccess ------------------------------
(***************************************************************************)
(* The parts of a request's way in, for TLC: the tokens it may carry, the  *)
(* touch of the token it carries, the unit it is charged, the repository   *)
(* its URL names.  They share no state, so a behaviour moves one of them,  *)
(* chosen at its start.                                                    *)
(***************************************************************************)
EXTENDS TokenGrants, RateLimit, LastUsed, RepoNames, TLC

VARIABLE moving

accessVars == <<moving, grantVars, rateVars, usedVars, namesVars>>

AccessInit ==
    /\ moving \in {"grants", "rate", "used", "names"}
    /\ GrantInit /\ RateInit /\ UsedInit /\ NamesInit

AccessNext ==
    \/ moving = "grants" /\ GrantNext /\ UNCHANGED <<moving, rateVars, usedVars, namesVars>>
    \/ moving = "rate" /\ RateNext /\ UNCHANGED <<moving, grantVars, usedVars, namesVars>>
    \/ moving = "used" /\ UsedNext /\ UNCHANGED <<moving, grantVars, rateVars, namesVars>>
    \/ moving = "names" /\ NamesNext /\ UNCHANGED <<moving, grantVars, rateVars, usedVars>>

AccessSpec == AccessInit /\ [][AccessNext]_accessVars

\* Type correctness of the four; one live repository to a name.
AccessTypeOK == GrantTypeOK /\ RateTypeOK /\ UsedTypeOK /\ NamesTypeOK

\* Users, apps and the requests that redeem codes are interchangeable, and so are
\* names and the requests that change them, which the instance gives the values of
\* redeeming requests and of users.
Symmetry == Permutations(User) \cup Permutations(App) \cup Permutations(Request)
=============================================================================
