------------------------------ MODULE JobQueue ------------------------------
(***************************************************************************)
(* The background queue of githome: the jobs table, the enqueuers that     *)
(* insert into it and the claim loops that drain it.                       *)
(*                                                                         *)
(* Source: store/queries_jobs.go (the table's operations), worker/enqueue.go*)
(* and worker/runtime.go (RunOnce, runLoop), cmd/githome/main.go (four     *)
(* claim loops in one process).                                            *)
(*                                                                         *)
(* Granularity.  One SQL statement is one action.  Enqueue is two of them  *)
(* (a SELECT for the dedupe key, then the INSERT), RunOnce three (claim,   *)
(* handler, settle), and other actors run in between.                      *)
(*                                                                         *)
(* Abstractions.  A job's kind matters only by whether a handler is        *)
(* registered for it ("handled").  run_after is compared only with now and *)
(* with other run_afters: "due" is run_after <= now, and "age" counts the  *)
(* seconds between the job's run_after and the newest run_after among the  *)
(* due jobs, seconds in which nothing came due left out.  Primary keys are *)
(* slots: a deleted row's key is AUTOINCREMENT and never seen again, and   *)
(* since nothing remembers a deleted key a slot may serve for a new row.   *)
(***************************************************************************)
EXTENDS Integers, FiniteSets

CONSTANTS Pk,            \* rows the table has room for
          Key,           \* dedupe keys
          NoKey,         \* dedupe_key IS NULL
          Worker,        \* claim loops (runLoop goroutines)
          Client,        \* goroutines that enqueue
          MaxAttempts,   \* jobs.max_attempts, 5 in the schema
          MaxFaults      \* how many crashes and lost settles a run explores

ASSUME AttemptsAssumption == MaxAttempts \in Nat \ {0}
ASSUME FaultsAssumption == MaxFaults \in Nat
ASSUME KeyAssumption == NoKey \notin Key

VARIABLES jobs,     \* the table: a row for every slot
          worker,   \* where each claim loop is in RunOnce, and its JobRow copy
          client,   \* where each enqueuer is in EnqueueJob
          faults    \* faults injected so far

vars == <<jobs, worker, client, faults>>

-----------------------------------------------------------------------------
(* Rows and the two kinds of process. *)

JobRow == [state    : {"none", "queued", "running", "dead"},
           key      : Key \cup {NoKey},
           handled  : BOOLEAN,
           attempts : Nat,
           due      : BOOLEAN,
           age      : Nat]

NoRow == [state |-> "none", key |-> NoKey, handled |-> FALSE,
          attempts |-> 0, due |-> FALSE, age |-> 0]

\* Mutant: a row inserted in a state no claim knows.
NewRowPending(k, h) == [state |-> "pending", key |-> k, handled |-> h,
                        attempts |-> 0, due |-> TRUE, age |-> 0]

NewRow(k, h) == [state |-> "queued", key |-> k, handled |-> h,
                 attempts |-> 0, due |-> TRUE, age |-> 0]

Idle == [pc |-> "idle"]

\* attempts is the value ClaimJob returned, which FailJob is later called with.
Holding == [pc : {"handling", "failing", "completing"}, job : Pk, attempts : Nat]

Inserting == [pc : {"insert"}, key : Key \cup {NoKey}, handled : BOOLEAN]

TypeOK ==
    /\ jobs \in [Pk -> JobRow]
    /\ worker \in [Worker -> {Idle} \cup Holding]
    /\ client \in [Client -> {Idle} \cup Inserting]
    /\ faults \in 0..MaxFaults

Busy(w) == worker[w].pc # "idle"

-----------------------------------------------------------------------------
(* Conditions of the SQL statements. *)

\* Mutant: a predicate that forgets the jobs a worker has already claimed.
IsActiveQueuedOnly(row) == row.state = "queued"

\* state IN ('queued', 'running'): the predicate of the dedupe SELECT and of
\* the partial unique index.
IsActive(row) == row.state \in {"queued", "running"}

KeyActive(k) == k # NoKey /\ \E j \in Pk : IsActive(jobs[j]) /\ jobs[j].key = k

\* Mutant: the unique index is not there and the pre-check stands alone.
UniqueNone(k) == TRUE

\* The partial unique index jobs_dedupe_active_uq lets an insert of k through.
UniqueOK(k) == ~KeyActive(k)

\* Mutant: the claim takes a row whatever its state, as a claim that selects
\* and updates in two statements would.
RunnableAnyActive(j) == IsActive(jobs[j]) /\ jobs[j].due

Runnable(j) == jobs[j].state = "queued" /\ jobs[j].due

\* Mutant: no ORDER BY run_after.
AnyRunnable(j) == Runnable(j)

\* ORDER BY run_after LIMIT 1; rows with one run_after come in any order.
Oldest(j) == /\ Runnable(j)
             /\ \A k \in Pk : Runnable(k) => jobs[k].age <= jobs[j].age

\* Mutant: parked an attempt too early.
SpentEarly(a) == a + 1 >= MaxAttempts

\* attempts >= max_attempts, evaluated in FailJob on the worker's copy.
Spent(a) == a >= MaxAttempts

-----------------------------------------------------------------------------
Init ==
    /\ jobs = [j \in Pk |-> NoRow]
    /\ worker = [w \in Worker |-> Idle]
    /\ client = [c \in Client |-> Idle]
    /\ faults = 0

-----------------------------------------------------------------------------
(* EnqueueJob. *)

\* The dedupe SELECT.  A hit returns deduped = true and the call is over; a
\* submission without a key (and InsertEventAndJob's insertJob) skips it.
Precheck(c, k, h) ==
    /\ client[c] = Idle
    /\ ~KeyActive(k)
    /\ client' = [client EXCEPT ![c] = [pc |-> "insert", key |-> k, handled |-> h]]
    /\ UNCHANGED <<jobs, worker, faults>>

\* The INSERT.  A violated unique index, or any other failure of the statement,
\* is an error returned to the caller.
Insert(c) ==
    /\ client[c].pc = "insert"
    /\ \/ /\ UniqueOK(client[c].key)
          /\ \E j \in Pk :
                /\ jobs[j].state = "none"
                /\ jobs' = [jobs EXCEPT ![j] = NewRow(client[c].key, client[c].handled)]
       \/ UNCHANGED jobs
    /\ client' = [client EXCEPT ![c] = Idle]
    /\ UNCHANGED <<worker, faults>>

-----------------------------------------------------------------------------
(* RunOnce. *)

\* ClaimJob, and RunOnce's branch on the handler: without one the job is failed
\* with its attempts replaced by the maximum.
Claim(w) ==
    /\ worker[w] = Idle
    /\ \E j \in Pk :
        /\ Oldest(j)
        /\ jobs' = [jobs EXCEPT ![j].state = "running", ![j].attempts = @ + 1,
                                ![j].age = 0]
        /\ worker' = [worker EXCEPT ![w] =
              IF jobs[j].handled
              THEN [pc |-> "handling", job |-> j, attempts |-> jobs[j].attempts + 1]
              ELSE [pc |-> "failing", job |-> j, attempts |-> MaxAttempts]]
    /\ UNCHANGED <<client, faults>>

\* runGuarded: the handler returns nil, or an error, or panics (an error too).
Handle(w) ==
    /\ worker[w].pc = "handling"
    /\ \E outcome \in {"completing", "failing"} :
          worker' = [worker EXCEPT ![w].pc = outcome]
    /\ UNCHANGED <<jobs, client, faults>>

\* CompleteJob: DELETE by primary key.
CompleteJob(w) ==
    /\ worker[w].pc = "completing"
    /\ jobs' = [jobs EXCEPT ![worker[w].job] = NoRow]
    /\ worker' = [worker EXCEPT ![w] = Idle]
    /\ UNCHANGED <<client, faults>>

\* FailJob: requeued after a backoff, or parked once the attempts are spent.
\* Neither UPDATE looks at the row's state.
FailJob(w) ==
    /\ worker[w].pc = "failing"
    /\ jobs' = [jobs EXCEPT
          ![worker[w].job].state = IF Spent(worker[w].attempts) THEN "dead" ELSE "queued",
          ![worker[w].job].due = FALSE]
    /\ worker' = [worker EXCEPT ![w] = Idle]
    /\ UNCHANGED <<client, faults>>

-----------------------------------------------------------------------------
(* Time. *)

\* run_after of a requeued job is reached.
BackoffElapses(j) ==
    /\ jobs[j].state = "queued"
    /\ ~jobs[j].due
    /\ jobs' = [jobs EXCEPT ![j].due = TRUE, ![j].age = 0]
    /\ UNCHANGED <<worker, client, faults>>

\* A second goes by, after one in which some job came due.
Tick ==
    /\ \E j \in Pk : Runnable(j) /\ jobs[j].age = 0
    /\ jobs' = [j \in Pk |-> IF Runnable(j) THEN [jobs[j] EXCEPT !.age = @ + 1] ELSE jobs[j]]
    /\ UNCHANGED <<worker, client, faults>>

-----------------------------------------------------------------------------
(* Faults, at most MaxFaults of them. *)

\* CompleteJob or FailJob returns an error (runLoop logs it and moves on), as
\* it does when the root context is cancelled while the job runs.
SettleFails(w) ==
    /\ worker[w].pc \in {"completing", "failing"}
    /\ faults < MaxFaults
    /\ faults' = faults + 1
    /\ worker' = [worker EXCEPT ![w] = Idle]
    /\ UNCHANGED <<jobs, client>>

\* The process dies and is started again: every goroutine is gone, the table
\* is as it was, and nothing at start looks at running rows.
Restart ==
    /\ faults < MaxFaults
    /\ faults' = faults + 1
    /\ worker' = [w \in Worker |-> Idle]
    /\ client' = [c \in Client |-> Idle]
    /\ UNCHANGED jobs

-----------------------------------------------------------------------------
Settle(w) == CompleteJob(w) \/ FailJob(w)

Next ==
    \/ \E c \in Client, k \in Key \cup {NoKey}, h \in BOOLEAN : Precheck(c, k, h)
    \/ \E c \in Client : Insert(c)
    \/ \E w \in Worker : Claim(w) \/ Handle(w) \/ Settle(w) \/ SettleFails(w)
    \/ \E j \in Pk : BackoffElapses(j)
    \/ Tick
    \/ Restart

Spec == Init /\ [][Next]_vars

\* A claim loop polls at least once a second and drains greedily, a handler
\* returns (its git and HTTP calls are bounded), a settle is issued, and time
\* goes on.  Enqueuers owe nothing.
FairSpec ==
    /\ Spec
    /\ \A w \in Worker : WF_vars(Claim(w)) /\ WF_vars(Handle(w)) /\ WF_vars(Settle(w))
    /\ \A j \in Pk : WF_vars(BackoffElapses(j))
    /\ WF_vars(Tick)

-----------------------------------------------------------------------------
(* What the queue promises. *)

\* At most one active job carries a dedupe key, whatever two racing enqueuers,
\* retries and restarts do (EnqueueJob's pre-check and its index together).
KeyExclusive ==
    \A i, j \in Pk :
        /\ IsActive(jobs[i]) /\ IsActive(jobs[j])
        /\ jobs[i].key = jobs[j].key /\ jobs[i].key # NoKey
        => i = j

\* A job a claim loop is working on is still its own: no other loop has it, its
\* row says running, and the attempt count the loop will settle it with is the
\* row's.  FailJob and CompleteJob, which check nothing, rely on this.
LeaseExclusive ==
    \A w \in Worker : Busy(w) =>
        /\ jobs[worker[w].job].state = "running"
        /\ \A v \in Worker \ {w} : Busy(v) => worker[v].job # worker[w].job
        /\ \/ worker[w].attempts = jobs[worker[w].job].attempts
           \/ ~jobs[worker[w].job].handled /\ worker[w].attempts = MaxAttempts

\* A handler is never started more than max_attempts times for one job, and a
\* job that waits for a retry has attempts left.
AttemptsBounded ==
    \A j \in Pk : /\ jobs[j].attempts <= MaxAttempts
                  /\ jobs[j].state = "queued" => jobs[j].attempts < MaxAttempts

\* A job is parked for good only when its attempts are spent or nothing handles
\* its kind, and no later step of anyone takes it out of the dead state.
ParkedForGood ==
    [][\A j \in Pk :
          /\ jobs[j].state = "dead" => jobs'[j] = jobs[j]
          /\ jobs[j].state # "dead" /\ jobs'[j].state = "dead"
                => jobs[j].attempts = MaxAttempts \/ ~jobs[j].handled]_vars

\* The table as its producers see it: the row without its schedule.
LedgerView == [j \in Pk |-> [state |-> jobs[j].state, key |-> jobs[j].key,
                            handled |-> jobs[j].handled, attempts |-> jobs[j].attempts]]

Ledger == INSTANCE WorkLedger WITH ledger <- LedgerView

\* The queue, its racing enqueuers and its claim loops with their copied attempt
\* counts, do only what WorkLedger promises, crashes and lost settles included.
ImplementsLedger == Ledger!Spec

\* A job whose time has come is run although new jobs keep arriving: the claim
\* takes the oldest run_after first.
NoStarvation == \A j \in Pk : Runnable(j) ~> ~Runnable(j)

\* Every accepted job ends, its row deleted or parked, unless a settle was lost or
\* the process stopped meanwhile.
EveryJobSettles == \A j \in Pk : IsActive(jobs[j]) ~> ~IsActive(jobs[j]) \/ faults > 0

\* "persists each job as a row in the jobs table so the work survives a restart
\* and any process running the claim loop can pick it up" (worker/enqueue.go:30):
\* a job no claim loop holds does not stay in the running state.
SurvivesRestart ==
    \A j \in Pk :
        (jobs[j].state = "running") ~>
            (jobs[j].state # "running" \/ \E w \in Worker : Busy(w) /\ worker[w].job = j)
=============================================================================
