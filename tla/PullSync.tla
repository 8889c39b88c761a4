------------------------------ MODULE PullSync ------------------------------
(***************************************************************************)
(* How a pull request's recorded head and merge state follow its branches: *)
(* the pushes that move branches and sync the rows, and the background     *)
(* recomputes those syncs ask for.                                         *)
(*                                                                         *)
(* Source: gittransport/receivepack.go (handleReceivePack, syncPulls),     *)
(* domain/pr_service.go (CreatePR, UpdatePR, UpdateBranch, Merge,          *)
(* OnHeadPush, enqueueRecompute, RecomputeMergeability), the statements of *)
(* store/queries_pull.go, and the writers of branches that know nothing of *)
(* pull requests: domain/git_ref_service.go (CreateRef, UpdateRef),        *)
(* domain/repo_merge.go (MergeBranch) and the contents requests of         *)
(* domain/repo_service.go.  The job queue is WorkLedger, which JobQueue    *)
(* implements: what holds here needs only its promises.                    *)
(*                                                                         *)
(* Granularity.  A snapshot of the refs, a ref update, a query, a          *)
(* transaction and an enqueue are one action each.  An enqueue is atomic:  *)
(* the dedupe SELECT that hits, the INSERT that goes through and the one   *)
(* the unique index refuses are each decided by the table at one instant.  *)
(*                                                                         *)
(* Abstractions.  A commit is a branch and how often it has moved, and the *)
(* merge state (mergeable, mergeable_state, the stats) is the pair of tips *)
(* it was computed from, of which it is a function.  Branches are not      *)
(* deleted.  Merge is one action here; PullMerge takes it apart.           *)
(***************************************************************************)
EXTENDS Integers, FiniteSets

CONSTANTS Pull, Branch,
          HeadOf, BaseOf,  \* the branches a pull request is opened between
          Mergeable,       \* the pull requests a run merges
          Pusher,          \* receive-pack and update-branch requests
          Slot, NoKey,     \* rows of the jobs table
          MaxAttempts,     \* jobs.max_attempts
          MaxMoves,        \* pushes and other writes of a branch a run explores
          MaxRefs,         \* branches one push moves
          MaxCuts,         \* requests a run cuts short
          MaxFails,        \* handler errors a run explores
          MaxRetargets     \* base changes a run explores

ASSUME BranchAssumption == HeadOf \in [Pull -> Branch] /\ BaseOf \in [Pull -> Branch]
ASSUME BranchesAssumption == IsFiniteSet(Branch)
ASSUME NoKeyAssumption == NoKey \notin Pull
ASSUME PullsAssumption == Pull # {}
ASSUME BoundsAssumption ==
    /\ MaxAttempts \in Nat /\ MaxMoves \in Nat /\ MaxRefs \in Nat
    /\ MaxCuts \in Nat /\ MaxFails \in Nat /\ MaxRetargets \in Nat

VARIABLES ref,     \* how often each branch has moved
          pull,    \* the pull_requests table
          opener,  \* where each CreatePR is
          push,    \* where each pusher is
          ledger,  \* the recompute jobs
          run,     \* where the handler of each running job is
          missed,  \* history: a change after which no recompute was queued
          moves, cuts, fails, retargets

vars == <<ref, pull, opener, push, ledger, run, missed, moves, cuts, fails, retargets>>

Jobs == INSTANCE WorkLedger WITH Pk <- Slot, Key <- Pull

-----------------------------------------------------------------------------
Sha == Branch \X Nat
Tip(b) == <<b, ref[b]>>

\* A row: merge state "unknown", or computed from the tips in basis.
Row == [state : {"none", "unknown", "known"}, merged : BOOLEAN,
        base : Branch, head : Sha, basis : Sha \X Sha]

Rows == {p \in Pull : pull[p].state # "none"}

\* OpenPullsByHeadRef and OpenPullsByBaseRef: merged is all they look at.
ByHead(b) == {p \in Rows : HeadOf[p] = b /\ ~pull[p].merged}
ByBase(b) == {p \in Rows : pull[p].base = b /\ ~pull[p].merged}
Touched(b) == ByHead(b) \cup ByBase(b)

Idle == [pc |-> "idle"]

\* snap is the ref snapshot before the push, then the one after it; todo the
\* branches still to be synced, pulls the rows of the current loop over branch.
Pushing == [pc : {"write", "after", "next", "heads", "enqueue", "bases"},
            snap : [Branch -> Nat], todo : SUBSET Branch, branch : Branch,
            pulls : SUBSET Pull, pull : Pull]

Running == [pc : {"load", "base", "head", "store", "done"},
            pull : Pull, baseRef : Branch, base : Sha, head : Sha]

Opening == [pc : {"insert", "enqueue"}, base : Sha, head : Sha]

TypeOK ==
    /\ ref \in [Branch -> Nat]
    /\ pull \in [Pull -> Row]
    /\ opener \in [Pull -> {Idle} \cup Opening]
    /\ push \in [Pusher -> {Idle} \cup Pushing]
    /\ ledger \in [Slot -> [state : {"none", "queued", "running", "dead"}, key : Pull \cup {NoKey},
                            handled : BOOLEAN, attempts : 0..MaxAttempts]]
    /\ run \in [Slot -> {Idle} \cup Running]
    /\ missed \in [Pull -> BOOLEAN]
    /\ moves \in 0..MaxMoves /\ cuts \in 0..MaxCuts
    /\ fails \in 0..MaxFails /\ retargets \in 0..MaxRetargets

-----------------------------------------------------------------------------
Init ==
    /\ ref = [b \in Branch |-> 0]
    /\ pull = [p \in Pull |-> [state |-> "none", merged |-> FALSE, base |-> BaseOf[p],
                               head |-> <<HeadOf[p], 0>>,
                               basis |-> <<<<BaseOf[p], 0>>, <<HeadOf[p], 0>>>>]]
    /\ opener = [p \in Pull |-> Idle]
    /\ push = [u \in Pusher |-> Idle]
    /\ Jobs!Init
    /\ run = [s \in Slot |-> Idle]
    /\ missed = [p \in Pull |-> FALSE]
    /\ moves = 0 /\ cuts = 0 /\ fails = 0 /\ retargets = 0

-----------------------------------------------------------------------------
(* The queue. *)

Active(p) == {s \in Slot : Jobs!Live(s) /\ ledger[s].key = p}

\* Mutant: the enqueue is folded into a parked job too.
FoldsDead(p) == \E s \in Slot : ledger[s].key = p

\* The dedupe of EnqueueJob: a queued or running job of the key is enough.
Folds(p) == Active(p) # {}

\* enqueueRecompute, its error ignored.  A fold into a running job may come too
\* late for it.
Enqueue(p) ==
    /\ IF Folds(p)
       THEN UNCHANGED ledger
       ELSE \E s \in Slot : Jobs!Accept(s, p, TRUE)
    /\ missed' = [missed EXCEPT ![p] = \E s \in Active(p) : ledger[s].state = "running"]

-----------------------------------------------------------------------------
(* CreatePR. *)

OpenRead(p) ==
    /\ opener[p] = Idle /\ pull[p].state = "none"
    /\ opener' = [opener EXCEPT ![p] =
          [pc |-> "insert", base |-> Tip(BaseOf[p]), head |-> Tip(HeadOf[p])]]
    /\ UNCHANGED <<ref, pull, push, ledger, run, missed, moves, cuts, fails, retargets>>

OpenInsert(p) ==
    /\ opener[p].pc = "insert"
    /\ pull' = [pull EXCEPT ![p].state = "unknown", ![p].head = opener[p].head]
    /\ opener' = [opener EXCEPT ![p].pc = "enqueue"]
    /\ UNCHANGED <<ref, push, ledger, run, missed, moves, cuts, fails, retargets>>

OpenEnqueue(p) ==
    /\ opener[p].pc = "enqueue"
    /\ Enqueue(p)
    /\ opener' = [opener EXCEPT ![p] = Idle]
    /\ UNCHANGED <<ref, pull, push, run, moves, cuts, fails, retargets>>

-----------------------------------------------------------------------------
(* Pushes. *)

NewPush == [pc |-> "write", snap |-> ref, todo |-> {}, branch |-> CHOOSE b \in Branch : TRUE,
            pulls |-> {}, pull |-> CHOOSE p \in Pull : TRUE]

\* RefSnapshot, before receive-pack runs.
PushBegin(u) ==
    /\ push[u] = Idle
    /\ moves < MaxMoves
    /\ push' = [push EXCEPT ![u] = NewPush]
    /\ UNCHANGED <<ref, pull, opener, ledger, run, missed, moves, cuts, fails, retargets>>

\* receive-pack moves some branches.
PushWrite(u) ==
    /\ push[u].pc = "write" /\ moves < MaxMoves
    /\ \E moved \in SUBSET Branch \ {{}} :
          /\ Cardinality(moved) <= MaxRefs
          /\ ref' = [b \in Branch |-> IF b \in moved THEN ref[b] + 1 ELSE ref[b]]
    /\ moves' = moves + 1
    /\ push' = [push EXCEPT ![u].pc = "after"]
    /\ UNCHANGED <<pull, opener, ledger, run, missed, cuts, fails, retargets>>

\* A rejected push moves nothing.
PushRejected(u) ==
    /\ push[u].pc = "write"
    /\ push' = [push EXCEPT ![u].pc = "after"]
    /\ UNCHANGED <<ref, pull, opener, ledger, run, missed, moves, cuts, fails, retargets>>

\* The snapshot after, and the diff: another push's branch may be in it.
PushDiff(u) ==
    /\ push[u].pc = "after"
    /\ push' = [push EXCEPT ![u].pc = "next", ![u].snap = ref,
                            ![u].todo = {b \in Branch : ref[b] # push[u].snap[b]}]
    /\ UNCHANGED <<ref, pull, opener, ledger, run, missed, moves, cuts, fails, retargets>>

\* UpdateBranch merges the base into the head branch and syncs that branch.
UpdateBranch(u, p) ==
    /\ push[u] = Idle
    /\ moves < MaxMoves
    /\ p \in Rows /\ ~pull[p].merged
    /\ ref' = [ref EXCEPT ![HeadOf[p]] = @ + 1]
    /\ moves' = moves + 1
    /\ push' = [push EXCEPT ![u] = [NewPush EXCEPT !.pc = "next", !.snap = ref',
                                                  !.todo = {HeadOf[p]}]]
    /\ UNCHANGED <<pull, opener, ledger, run, missed, cuts, fails, retargets>>

\* syncPulls goes on to OnHeadPush(branch), which lists the rows with that head.
SyncBranch(u) ==
    /\ push[u].pc = "next" /\ push[u].todo # {}
    /\ \E b \in push[u].todo :
          push' = [push EXCEPT ![u].pc = "heads", ![u].todo = @ \ {b}, ![u].branch = b,
                               ![u].pulls = ByHead(b)]
    /\ UNCHANGED <<ref, pull, opener, ledger, run, missed, moves, cuts, fails, retargets>>

\* Mutant: a merge state no reader knows.
SyncedRowNull(p, sha) == [pull[p] EXCEPT !.head = sha, !.state = "null"]

\* UpdatePullHead: the pushed sha, and the merge state is unknown again.
SyncedRow(p, sha) == [pull[p] EXCEPT !.head = sha, !.state = "unknown"]

SyncHead(u, p) ==
    /\ push[u].pc = "heads" /\ p \in push[u].pulls
    /\ pull' = [pull EXCEPT ![p] = SyncedRow(p, <<push[u].branch, push[u].snap[push[u].branch]>>)]
    /\ push' = [push EXCEPT ![u].pc = "enqueue", ![u].pull = p, ![u].pulls = @ \ {p}]
    /\ UNCHANGED <<ref, opener, ledger, run, missed, moves, cuts, fails, retargets>>

SyncEnqueue(u) ==
    /\ push[u].pc = "enqueue"
    /\ Enqueue(push[u].pull)
    /\ push' = [push EXCEPT ![u].pc = "heads"]
    /\ UNCHANGED <<ref, pull, opener, run, moves, cuts, fails, retargets>>

\* The second query of OnHeadPush: the rows with that base.
SyncListBases(u) ==
    /\ push[u].pc = "heads" /\ push[u].pulls = {}
    /\ push' = [push EXCEPT ![u].pc = "bases", ![u].pulls = ByBase(push[u].branch)]
    /\ UNCHANGED <<ref, pull, opener, ledger, run, missed, moves, cuts, fails, retargets>>

SyncBase(u, p) ==
    /\ push[u].pc = "bases" /\ p \in push[u].pulls
    /\ Enqueue(p)
    /\ push' = [push EXCEPT ![u].pulls = @ \ {p}]
    /\ UNCHANGED <<ref, pull, opener, run, moves, cuts, fails, retargets>>

SyncNext(u) ==
    /\ push[u].pc = "bases" /\ push[u].pulls = {}
    /\ push' = [push EXCEPT ![u].pc = "next"]
    /\ UNCHANGED <<ref, pull, opener, ledger, run, missed, moves, cuts, fails, retargets>>

PushDone(u) ==
    /\ push[u].pc = "next" /\ push[u].todo = {}
    /\ push' = [push EXCEPT ![u] = Idle]
    /\ UNCHANGED <<ref, pull, opener, ledger, run, missed, moves, cuts, fails, retargets>>

\* The pull requests a request under way has still to enqueue a recompute for:
\* those of the current call of OnHeadPush, and those of the branches to come.
OwedHere(u) ==
    CASE push[u].pc = "heads"   -> push[u].pulls \cup ByBase(push[u].branch)
      [] push[u].pc = "enqueue" -> push[u].pulls \cup ByBase(push[u].branch) \cup {push[u].pull}
      [] push[u].pc = "bases"   -> push[u].pulls
      [] OTHER -> {}

OwedLater(u) ==
    CASE push[u].pc = "after" -> {b \in Branch : ref[b] # push[u].snap[b]}
      [] push[u].pc \in {"next", "heads", "enqueue", "bases"} -> push[u].todo
      [] OTHER -> {}

Owed(u) == OwedHere(u) \cup UNION {Touched(b) : b \in OwedLater(u)}

\* What may go wrong in a request, at most MaxCuts times; q stands for the pull
\* requests it will now not enqueue a recompute for.
Forgets(q) ==
    /\ cuts < MaxCuts
    /\ cuts' = cuts + 1
    /\ missed' = [p \in Pull |-> missed[p] \/ p \in q]

\* The client goes away: the request's context is cancelled and what is left of
\* its sync fails.
Cut(u) ==
    /\ push[u].pc \in {"after", "next", "heads", "enqueue", "bases"}
    /\ Forgets(Owed(u))
    /\ push' = [push EXCEPT ![u] = Idle]
    /\ UNCHANGED <<ref, pull, opener, ledger, run, moves, fails, retargets>>

\* A statement of OnHeadPush fails: syncPulls logs it and takes the next branch.
SyncFails(u) ==
    /\ push[u].pc \in {"heads", "enqueue", "bases"}
    /\ Forgets(OwedHere(u))
    /\ push' = [push EXCEPT ![u].pc = "next", ![u].pulls = {}]
    /\ UNCHANGED <<ref, pull, opener, ledger, run, moves, fails, retargets>>

\* An enqueue fails, and OnHeadPush does not look at its error.
EnqueueFails(u) ==
    \/ /\ push[u].pc = "enqueue"
       /\ Forgets({push[u].pull})
       /\ push' = [push EXCEPT ![u].pc = "heads"]
       /\ UNCHANGED <<ref, pull, opener, ledger, run, moves, fails, retargets>>
    \/ /\ push[u].pc = "bases"
       /\ \E p \in push[u].pulls : /\ Forgets({p})
                                  /\ push' = [push EXCEPT ![u].pulls = @ \ {p}]
       /\ UNCHANGED <<ref, pull, opener, ledger, run, moves, fails, retargets>>

\* CreatePR's enqueue fails, or upsertRef does and it returns before it.
CutOpen(p) ==
    /\ opener[p].pc = "enqueue"
    /\ Forgets({p})
    /\ opener' = [opener EXCEPT ![p] = Idle]
    /\ UNCHANGED <<ref, pull, push, ledger, run, moves, fails, retargets>>

-----------------------------------------------------------------------------
(* Changes that ask for no recompute. *)

\* Merge moves the base branch itself and marks the pull request merged, with no
\* OnHeadPush for the others that have this branch as base or head.
Merge(p) ==
    /\ p \in Mergeable \cap Rows /\ ~pull[p].merged
    /\ ref' = [ref EXCEPT ![pull[p].base] = @ + 1]
    /\ pull' = [pull EXCEPT ![p].merged = TRUE, ![p].state = "unknown"]
    /\ missed' = [q \in Pull |-> missed[q] \/ q \in Touched(pull[p].base) \ {p}]
    /\ UNCHANGED <<opener, push, ledger, run, moves, cuts, fails, retargets>>

\* The requests on refs, POST /merges and the contents requests move a branch with
\* no OnHeadPush: OnPush records the event and asks for no recompute.  So does a
\* Merge whose transaction fails once its UpdateRef has moved the base.
WriteBranch(b) ==
    /\ moves < MaxMoves
    /\ moves' = moves + 1
    /\ ref' = [ref EXCEPT ![b] = @ + 1]
    /\ missed' = [p \in Pull |-> missed[p] \/ p \in Touched(b)]
    /\ UNCHANGED <<pull, opener, push, ledger, run, cuts, fails, retargets>>

\* UpdatePR changes the base branch and leaves the merge state.
Retarget(p, b) ==
    /\ p \in Rows /\ b # pull[p].base
    /\ retargets < MaxRetargets
    /\ retargets' = retargets + 1
    /\ pull' = [pull EXCEPT ![p].base = b]
    /\ missed' = [missed EXCEPT ![p] = TRUE]
    /\ UNCHANGED <<ref, opener, push, ledger, run, moves, cuts, fails>>

-----------------------------------------------------------------------------
(* RecomputeMergeability, run by the queue. *)

Start(s) ==
    /\ Jobs!Start(s)
    /\ LET p == ledger[s].key IN
       run' = [run EXCEPT ![s] = [pc |-> "load", pull |-> p, baseRef |-> pull[p].base,
                                  base |-> Tip(pull[p].base), head |-> Tip(HeadOf[p])]]
    /\ UNCHANGED <<ref, pull, opener, push, missed, moves, cuts, fails, retargets>>

\* Mutant: the head as it was last recorded, not the branch.
HeadRecorded(p) == pull[p].head

HeadTip(p) == Tip(HeadOf[p])

\* The row, then one tip, then the other; a merged pull request is left alone.
Read(s) ==
    /\ LET p == run[s].pull IN
       \/ /\ run[s].pc = "load"
          /\ run' = [run EXCEPT ![s].pc = IF pull[p].merged THEN "done" ELSE "base",
                                ![s].baseRef = pull[p].base]
       \/ /\ run[s].pc = "base"
          /\ run' = [run EXCEPT ![s].pc = "head", ![s].base = Tip(run[s].baseRef)]
       \/ /\ run[s].pc = "head"
          /\ run' = [run EXCEPT ![s].pc = "store", ![s].head = HeadTip(p)]
    /\ UNCHANGED <<ref, pull, opener, push, ledger, missed, moves, cuts, fails, retargets>>

\* SetMergeability, WHERE issue_pk = ?: nothing else is compared.
Store(s) ==
    /\ run[s].pc = "store"
    /\ pull' = [pull EXCEPT ![run[s].pull].state = "known",
                            ![run[s].pull].basis = <<run[s].base, run[s].head>>]
    /\ run' = [run EXCEPT ![s].pc = "done"]
    /\ UNCHANGED <<ref, opener, push, ledger, missed, moves, cuts, fails, retargets>>

Done(s) ==
    /\ run[s].pc = "done"
    /\ Jobs!Finish(s)
    /\ run' = [run EXCEPT ![s] = Idle]
    /\ UNCHANGED <<ref, pull, opener, push, missed, moves, cuts, fails, retargets>>

\* A git command or a statement fails: the job is run again, or parked.
Fail(s) ==
    /\ run[s].pc \in {"load", "base", "head", "store"}
    /\ fails < MaxFails
    /\ fails' = fails + 1
    /\ \/ Jobs!Retry(s) /\ missed' = [missed EXCEPT ![run[s].pull] = FALSE]
       \/ Jobs!Park(s) /\ missed' = [missed EXCEPT ![run[s].pull] = TRUE]
    /\ run' = [run EXCEPT ![s] = Idle]
    /\ UNCHANGED <<ref, pull, opener, push, moves, cuts, retargets>>

-----------------------------------------------------------------------------
OpenStep(p) == OpenInsert(p) \/ OpenEnqueue(p)

PushStep(u) ==
    \/ PushWrite(u) \/ PushRejected(u) \/ PushDiff(u)
    \/ SyncBranch(u) \/ (\E p \in Pull : SyncHead(u, p) \/ SyncBase(u, p))
    \/ SyncEnqueue(u) \/ SyncListBases(u) \/ SyncNext(u) \/ PushDone(u)

RunStep(s) == Start(s) \/ Read(s) \/ Store(s) \/ Done(s)

Next ==
    \/ \E p \in Pull : OpenRead(p) \/ OpenStep(p) \/ CutOpen(p) \/ Merge(p)
    \/ \E p \in Pull, b \in Branch : Retarget(p, b)
    \/ \E b \in Branch : WriteBranch(b)
    \/ \E u \in Pusher : PushBegin(u) \/ PushStep(u)
    \/ \E u \in Pusher : Cut(u) \/ SyncFails(u) \/ EnqueueFails(u)
    \/ \E u \in Pusher, p \in Pull : UpdateBranch(u, p)
    \/ \E s \in Slot : RunStep(s) \/ Fail(s)

Spec == Init /\ [][Next]_vars

\* A request goes on to its end, and the queue runs and settles what it accepted.
FairSpec ==
    /\ Spec
    /\ \A p \in Pull : WF_vars(OpenStep(p))
    /\ \A u \in Pusher : WF_vars(PushStep(u))
    /\ \A s \in Slot : WF_vars(RunStep(s))

-----------------------------------------------------------------------------
(* What holds. *)

\* The stored merge state is that of the two branches as they are.
Current(p) == /\ pull[p].state = "known"
              /\ pull[p].basis = <<Tip(pull[p].base), Tip(HeadOf[p])>>

Queued(p) == \E s \in Active(p) : ledger[s].state = "queued"

\* A running handler that has read nothing out of date.
Rereading(p) ==
    \E s \in Active(p) :
        /\ run[s].pc \in {"load", "base", "head", "store"}
        /\ run[s].pc # "load" => run[s].baseRef = pull[p].base
        /\ run[s].pc \in {"head", "store"} => run[s].base = Tip(pull[p].base)
        /\ run[s].pc = "store" => run[s].head = Tip(HeadOf[p])

\* An open pull request's merge state is out of date only while a recompute is
\* queued or still reads what is new, or while a request will yet enqueue one;
\* or for the causes "missed" names: a fold into a job already running; a request
\* cut short; a merge, recorded or not, a base change, or a branch moved by a
\* refs, merges or contents request, which enqueue nothing; a parked job.
NothingElseGoesStale ==
    \A p \in Rows :
        \/ pull[p].merged \/ Current(p) \/ missed[p]
        \/ Queued(p) \/ Rereading(p)
        \/ opener[p].pc = "enqueue" \/ \E u \in Pusher : p \in Owed(u)

\* When branches stop moving, every open pull request gets the merge state of its branches
\* and keeps it, but for those causes.
SettlesCurrent ==
    \A p \in Pull : <>[](p \in Rows => pull[p].merged \/ Current(p) \/ missed[p])
=============================================================================
