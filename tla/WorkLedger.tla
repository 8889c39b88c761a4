----------------------------- MODULE WorkLedger -----------------------------
(***************************************************************************)
(* What the job queue promises its producers, with no claim loop, enqueuer *)
(* or clock in sight: an accepted job is attempted one attempt at a time,  *)
(* each attempt ends at most once, in completion, a retry or the dead      *)
(* state, the dead state is entered only when the attempts are spent (or   *)
(* nothing handles the kind) and never left, and a dedupe key is carried   *)
(* by one live job at most.  JobQueue implements it.                       *)
(***************************************************************************)
EXTENDS Naturals

CONSTANTS Pk, Key, NoKey, MaxAttempts

VARIABLE ledger   \* what a producer may know of each slot

Free == [state |-> "none", key |-> NoKey, handled |-> FALSE, attempts |-> 0]

Live(j) == ledger[j].state \in {"queued", "running"}

Init == ledger = [j \in Pk |-> Free]

Accept(j, k, h) ==
    /\ ledger[j].state = "none"
    /\ k # NoKey => \A i \in Pk : Live(i) => ledger[i].key # k
    /\ ledger' = [ledger EXCEPT ![j] =
                    [state |-> "queued", key |-> k, handled |-> h, attempts |-> 0]]

Start(j) ==
    /\ ledger[j].state = "queued"
    /\ ledger[j].attempts < MaxAttempts
    /\ ledger' = [ledger EXCEPT ![j].state = "running", ![j].attempts = @ + 1]

Finish(j) ==
    /\ ledger[j].state = "running"
    /\ ledger' = [ledger EXCEPT ![j] = Free]

Retry(j) ==
    /\ ledger[j].state = "running"
    /\ ledger[j].attempts < MaxAttempts
    /\ ledger' = [ledger EXCEPT ![j].state = "queued"]

Park(j) ==
    /\ ledger[j].state = "running"
    /\ ledger[j].attempts = MaxAttempts \/ ~ledger[j].handled
    /\ ledger' = [ledger EXCEPT ![j].state = "dead"]

Next ==
    \E j \in Pk :
        \/ \E k \in Key \cup {NoKey}, h \in BOOLEAN : Accept(j, k, h)
        \/ Start(j) \/ Finish(j) \/ Retry(j) \/ Park(j)

Spec == Init /\ [][Next]_ledger
=============================================================================
