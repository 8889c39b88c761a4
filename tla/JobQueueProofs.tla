--------------------------- MODULE JobQueueProofs ---------------------------
(***************************************************************************)
(* Proofs about JobQueue for every table size, set of keys, claim loops,   *)
(* enqueuers, attempt limit and number of faults.                          *)
(*                                                                         *)
(* The inductive invariant is the conjunction of the safety properties:    *)
(* LeaseExclusive is what makes a worker's copy of the attempt count good  *)
(* when FailJob uses it, so AttemptsBounded is not inductive without it,   *)
(* and KeyExclusive needs only the condition of the unique index.          *)
(***************************************************************************)
EXTENDS JobQueue, TLAPS

IInv == TypeOK /\ KeyExclusive /\ LeaseExclusive /\ AttemptsBounded

USE AttemptsAssumption, FaultsAssumption, KeyAssumption

\* A claim loop that is not idle holds a job and an attempt count.
LEMMA HoldingFact ==
    ASSUME TypeOK, NEW w \in Worker, Busy(w)
    PROVE  worker[w] \in Holding /\ worker[w].job \in Pk /\ worker[w].attempts \in Nat
BY DEF TypeOK, Busy, Idle, Holding

\* An enqueuer that is not idle is about to insert.
LEMMA InsertingFact ==
    ASSUME TypeOK, NEW c \in Client, client[c].pc = "insert"
    PROVE  client[c].key \in Key \cup {NoKey} /\ client[c].handled \in BOOLEAN
BY DEF TypeOK, Idle, Inserting

-----------------------------------------------------------------------------
LEMMA InitIInv == Init => IInv
BY DEF Init, IInv, TypeOK, KeyExclusive, LeaseExclusive, AttemptsBounded,
       JobRow, NoRow, Idle, IsActive, Busy

-----------------------------------------------------------------------------
(* One lemma per action. *)

LEMMA PrecheckKeeps ==
    ASSUME IInv, NEW c \in Client, NEW k \in Key \cup {NoKey}, NEW h \in BOOLEAN,
           Precheck(c, k, h)
    PROVE  IInv'
<1>1. client' \in [Client -> {Idle} \cup Inserting]
  BY DEF IInv, TypeOK, Precheck, Inserting
<1>2. QED
  BY <1>1 DEF IInv, TypeOK, KeyExclusive, LeaseExclusive, AttemptsBounded, Precheck,
              IsActive, Busy

LEMMA InsertKeeps ==
    ASSUME IInv, NEW c \in Client, Insert(c)
    PROVE  IInv'
<1>1. client[c].key \in Key \cup {NoKey} /\ client[c].handled \in BOOLEAN
  BY InsertingFact DEF IInv, Insert
<1>2. client' \in [Client -> {Idle} \cup Inserting]
  BY DEF IInv, TypeOK, Insert
<1>3. CASE UNCHANGED jobs
  BY <1>2, <1>3 DEF IInv, TypeOK, KeyExclusive, LeaseExclusive, AttemptsBounded, Insert,
                    IsActive, Busy
<1>4. ASSUME NEW j \in Pk, jobs[j].state = "none", UniqueOK(client[c].key),
             jobs' = [jobs EXCEPT ![j] = NewRow(client[c].key, client[c].handled)]
      PROVE  IInv'
  <2>1. jobs' \in [Pk -> JobRow]
    BY <1>1, <1>4 DEF IInv, TypeOK, JobRow, NewRow
  <2>2. TypeOK'
    BY <1>2, <2>1 DEF IInv, TypeOK, Insert
  <2>3. KeyExclusive'
    BY <1>4 DEF IInv, TypeOK, KeyExclusive, UniqueOK, KeyActive, IsActive, NewRow
  <2>4. LeaseExclusive'
    BY <1>4, HoldingFact DEF IInv, TypeOK, LeaseExclusive, Insert, Busy
  <2>5. AttemptsBounded'
    BY <1>4 DEF IInv, TypeOK, AttemptsBounded, NewRow
  <2>6. QED
    BY <2>2, <2>3, <2>4, <2>5 DEF IInv
<1>5. QED
  BY <1>3, <1>4 DEF Insert

LEMMA ClaimKeeps ==
    ASSUME IInv, NEW w \in Worker, Claim(w)
    PROVE  IInv'
<1>1. PICK j \in Pk :
        /\ Oldest(j)
        /\ jobs' = [jobs EXCEPT ![j].state = "running", ![j].attempts = @ + 1, ![j].age = 0]
        /\ worker' = [worker EXCEPT ![w] =
              IF jobs[j].handled
              THEN [pc |-> "handling", job |-> j, attempts |-> jobs[j].attempts + 1]
              ELSE [pc |-> "failing", job |-> j, attempts |-> MaxAttempts]]
  BY DEF Claim
<1>2. jobs[j].state = "queued"
  BY <1>1 DEF Oldest, Runnable
<1>3. jobs[j] \in JobRow /\ jobs[j].attempts < MaxAttempts
  BY <1>2 DEF IInv, TypeOK, AttemptsBounded
<1>4. TypeOK'
  <2>1. jobs' \in [Pk -> JobRow]
    BY <1>1, <1>3 DEF IInv, TypeOK, JobRow
  <2>2. worker' \in [Worker -> {Idle} \cup Holding]
    BY <1>1, <1>3 DEF IInv, TypeOK, Holding, JobRow
  <2>3. QED
    BY <2>1, <2>2 DEF IInv, TypeOK, Claim
<1>5. KeyExclusive'
  <2>1. \A i \in Pk : IsActive(jobs'[i]) => IsActive(jobs[i]) /\ jobs'[i].key = jobs[i].key
    BY <1>1, <1>2 DEF IInv, TypeOK, JobRow, IsActive
  <2>2. QED
    BY <2>1 DEF IInv, KeyExclusive
<1>6. LeaseExclusive'
  <2>1. \A v \in Worker : Busy(v) => worker[v].job # j
    BY <1>2 DEF IInv, LeaseExclusive
  <2>2. worker'[w].job = j /\ jobs'[j].state = "running" /\ jobs'[j].handled = jobs[j].handled
        /\ jobs'[j].attempts = jobs[j].attempts + 1
    BY <1>1 DEF IInv, TypeOK, JobRow
  <2>3. \A v \in Worker \ {w} : worker'[v] = worker[v]
    BY <1>1 DEF IInv, TypeOK
  <2>4. \A i \in Pk \ {j} : jobs'[i] = jobs[i]
    BY <1>1 DEF IInv, TypeOK
  <2>5. \/ worker'[w].attempts = jobs'[j].attempts
        \/ ~jobs'[j].handled /\ worker'[w].attempts = MaxAttempts
    BY <1>1, <2>2 DEF IInv, TypeOK
  <2>6. ASSUME NEW v \in Worker, v # w, Busy(v)'
        PROVE  /\ jobs'[worker'[v].job].state = "running"
               /\ \A u \in Worker \ {v} : Busy(u)' => worker'[u].job # worker'[v].job
               /\ \/ worker'[v].attempts = jobs'[worker'[v].job].attempts
                  \/ ~jobs'[worker'[v].job].handled /\ worker'[v].attempts = MaxAttempts
    <3>1. Busy(v) /\ worker[v].job # j /\ worker[v].job \in Pk
      BY <2>1, <2>3, <2>6, HoldingFact DEF Busy, IInv
    <3>2. QED
      BY <2>1, <2>2, <2>3, <2>4, <2>6, <3>1 DEF IInv, LeaseExclusive, Busy
  <2>7. \A v \in Worker \ {w} : Busy(v)' => worker'[v].job # worker'[w].job
    BY <2>1, <2>2, <2>3 DEF Busy
  <2>8. QED
    BY <2>2, <2>5, <2>6, <2>7 DEF LeaseExclusive
<1>7. AttemptsBounded'
  BY <1>1, <1>3 DEF IInv, TypeOK, AttemptsBounded, JobRow
<1>8. QED
  BY <1>4, <1>5, <1>6, <1>7 DEF IInv

LEMMA HandleKeeps ==
    ASSUME IInv, NEW w \in Worker, Handle(w)
    PROVE  IInv'
<1>1. worker[w] \in Holding
  BY HoldingFact DEF IInv, Handle, Busy
<1>2. worker' \in [Worker -> {Idle} \cup Holding]
  BY <1>1 DEF IInv, TypeOK, Handle, Holding
<1>3. \A v \in Worker : /\ Busy(v)' <=> Busy(v)
                        /\ Busy(v) => /\ worker'[v].job = worker[v].job
                                      /\ worker'[v].attempts = worker[v].attempts
  BY <1>1 DEF IInv, TypeOK, Handle, Holding, Busy
<1>4. LeaseExclusive'
  BY <1>3 DEF IInv, LeaseExclusive, Handle
<1>5. QED
  BY <1>2, <1>4 DEF IInv, TypeOK, KeyExclusive, AttemptsBounded, Handle, IsActive

\* What a worker that settles may rely on, from LeaseExclusive.
LEMMA SettlingFact ==
    ASSUME IInv, NEW w \in Worker, Busy(w)
    PROVE  /\ worker[w].job \in Pk
           /\ jobs[worker[w].job] \in JobRow
           /\ jobs[worker[w].job].state = "running"
           /\ \A v \in Worker \ {w} : Busy(v) => worker[v].job # worker[w].job
           /\ Spent(worker[w].attempts) =>
                 \/ jobs[worker[w].job].attempts = MaxAttempts
                 \/ ~jobs[worker[w].job].handled
           /\ ~Spent(worker[w].attempts) => jobs[worker[w].job].attempts < MaxAttempts
<1>1. worker[w].job \in Pk /\ worker[w].attempts \in Nat
  BY HoldingFact DEF IInv
<1>2. jobs[worker[w].job] \in JobRow
  BY <1>1 DEF IInv, TypeOK
<1>3. jobs[worker[w].job].attempts \in Nat /\ jobs[worker[w].job].attempts <= MaxAttempts
  BY <1>1, <1>2 DEF IInv, AttemptsBounded, JobRow
<1>4. /\ jobs[worker[w].job].state = "running"
      /\ \A v \in Worker \ {w} : Busy(v) => worker[v].job # worker[w].job
      /\ \/ worker[w].attempts = jobs[worker[w].job].attempts
         \/ ~jobs[worker[w].job].handled /\ worker[w].attempts = MaxAttempts
  BY DEF IInv, LeaseExclusive
<1>5. QED
  BY <1>1, <1>2, <1>3, <1>4 DEF Spent

\* Settling a job changes its row only and makes its worker idle: what is left
\* to show of the invariant is about that row.
LEMMA SettleKeeps ==
    ASSUME IInv, NEW w \in Worker, Busy(w), NEW row \in JobRow,
           jobs' = [jobs EXCEPT ![worker[w].job] = row],
           worker' = [worker EXCEPT ![w] = Idle],
           client' = client, faults' = faults,
           IsActive(row) => row.key = jobs[worker[w].job].key,
           row.attempts <= MaxAttempts,
           row.state = "queued" => row.attempts < MaxAttempts
    PROVE  IInv'
<1>1. worker[w].job \in Pk
  BY SettlingFact
<1>2. TypeOK'
  BY <1>1 DEF IInv, TypeOK
<1>3. KeyExclusive'
  <2>1. IsActive(jobs[worker[w].job])
    BY SettlingFact DEF IsActive
  <2>2. \A i \in Pk : IsActive(jobs'[i]) => IsActive(jobs[i]) /\ jobs'[i].key = jobs[i].key
    BY <1>1, <2>1 DEF IInv, TypeOK
  <2>3. QED
    BY <2>2 DEF IInv, KeyExclusive
<1>4. LeaseExclusive'
  <2>1. \A v \in Worker : Busy(v)' => v # w /\ Busy(v) /\ worker'[v] = worker[v]
    BY DEF IInv, TypeOK, Busy, Idle
  <2>2. \A v \in Worker : Busy(v)' => jobs'[worker[v].job] = jobs[worker[v].job]
    BY <1>1, <2>1, SettlingFact, HoldingFact DEF IInv, TypeOK
  <2>3. QED
    BY <2>1, <2>2 DEF IInv, LeaseExclusive
<1>5. AttemptsBounded'
  BY <1>1 DEF IInv, TypeOK, AttemptsBounded
<1>6. QED
  BY <1>2, <1>3, <1>4, <1>5 DEF IInv

LEMMA CompleteJobKeeps ==
    ASSUME IInv, NEW w \in Worker, CompleteJob(w)
    PROVE  IInv'
<1>1. Busy(w)
  BY DEF CompleteJob, Busy
<1>2. NoRow \in JobRow /\ ~IsActive(NoRow) /\ NoRow.attempts <= MaxAttempts /\ NoRow.state # "queued"
  BY DEF NoRow, JobRow, IsActive
<1>3. QED
  BY <1>1, <1>2, SettleKeeps DEF CompleteJob

LEMMA FailJobKeeps ==
    ASSUME IInv, NEW w \in Worker, FailJob(w)
    PROVE  IInv'
<1> DEFINE old == jobs[worker[w].job]
           row == [old EXCEPT !.state = IF Spent(worker[w].attempts) THEN "dead" ELSE "queued",
                              !.due = FALSE]
<1>1. Busy(w)
  BY DEF FailJob, Busy
<1>2. old \in JobRow /\ worker[w].job \in Pk
  BY <1>1, SettlingFact
<1>3. row \in JobRow /\ row.key = old.key /\ row.attempts = old.attempts
      /\ row.state = IF Spent(worker[w].attempts) THEN "dead" ELSE "queued"
  BY <1>2 DEF JobRow
<1>4. row.attempts <= MaxAttempts /\ (row.state = "queued" => row.attempts < MaxAttempts)
  BY <1>1, <1>2, <1>3, SettlingFact DEF IInv, AttemptsBounded
<1>5. jobs' = [jobs EXCEPT ![worker[w].job] = row]
  BY <1>2 DEF FailJob, IInv, TypeOK
<1>6. QED
  <2> HIDE DEF row
  <2>1. QED
    BY <1>1, <1>3, <1>4, <1>5, SettleKeeps DEF FailJob

\* The clock touches due and age only.
LEMMA ClockKeeps ==
    ASSUME IInv, UNCHANGED <<worker, client, faults>>,
           jobs' \in [Pk -> JobRow],
           \A i \in Pk : /\ jobs'[i].state = jobs[i].state
                         /\ jobs'[i].key = jobs[i].key
                         /\ jobs'[i].handled = jobs[i].handled
                         /\ jobs'[i].attempts = jobs[i].attempts
    PROVE  IInv'
<1>1. TypeOK'
  BY DEF IInv, TypeOK
<1>2. KeyExclusive'
  BY DEF IInv, KeyExclusive, IsActive
<1>3. LeaseExclusive'
  BY HoldingFact DEF IInv, LeaseExclusive, Busy
<1>4. AttemptsBounded'
  BY DEF IInv, AttemptsBounded
<1>5. QED
  BY <1>1, <1>2, <1>3, <1>4 DEF IInv

LEMMA BackoffElapsesKeeps ==
    ASSUME IInv, NEW j \in Pk, BackoffElapses(j)
    PROVE  IInv'
<1> DEFINE row == [jobs[j] EXCEPT !.due = TRUE, !.age = 0]
<1>1. jobs \in [Pk -> JobRow]
  BY DEF IInv, TypeOK, JobRow
<1>2. /\ row \in JobRow /\ row.state = jobs[j].state /\ row.key = jobs[j].key
      /\ row.handled = jobs[j].handled /\ row.attempts = jobs[j].attempts
  BY <1>1 DEF JobRow
<1>3. jobs' = [jobs EXCEPT ![j] = row]
  BY <1>1 DEF BackoffElapses
<1> HIDE DEF row
<1>4. jobs' \in [Pk -> JobRow]
  BY <1>1, <1>2, <1>3
<1>5. \A i \in Pk : /\ jobs'[i].state = jobs[i].state
                    /\ jobs'[i].key = jobs[i].key
                    /\ jobs'[i].handled = jobs[i].handled
                    /\ jobs'[i].attempts = jobs[i].attempts
  BY <1>1, <1>2, <1>3
<1>6. QED
  BY <1>4, <1>5, ClockKeeps DEF BackoffElapses

LEMMA TickKeeps ==
    ASSUME IInv, Tick
    PROVE  IInv'
<1>1. jobs' \in [Pk -> JobRow]
  BY DEF IInv, TypeOK, Tick, JobRow
<1>2. \A i \in Pk : /\ jobs'[i].state = jobs[i].state
                    /\ jobs'[i].key = jobs[i].key
                    /\ jobs'[i].handled = jobs[i].handled
                    /\ jobs'[i].attempts = jobs[i].attempts
  BY DEF IInv, TypeOK, Tick, JobRow
<1>3. QED
  BY <1>1, <1>2, ClockKeeps DEF Tick

LEMMA FaultKeeps ==
    ASSUME IInv, Restart \/ \E w \in Worker : SettleFails(w)
    PROVE  IInv'
<1>1. faults' \in 0..MaxFaults
  BY DEF IInv, TypeOK, Restart, SettleFails
<1>2. \A v \in Worker : Busy(v)' => Busy(v) /\ worker'[v] = worker[v]
  BY DEF IInv, TypeOK, Restart, SettleFails, Busy, Idle
<1>3. LeaseExclusive'
  BY <1>2 DEF IInv, LeaseExclusive, Restart, SettleFails
<1>4. worker' \in [Worker -> {Idle} \cup Holding] /\ client' \in [Client -> {Idle} \cup Inserting]
  BY DEF IInv, TypeOK, Restart, SettleFails
<1>5. QED
  BY <1>1, <1>3, <1>4 DEF IInv, TypeOK, KeyExclusive, AttemptsBounded, Restart, SettleFails,
                          IsActive

LEMMA NextKeeps == IInv /\ [Next]_vars => IInv'
<1>1. SUFFICES ASSUME IInv, [Next]_vars PROVE IInv'
  OBVIOUS
<1>2. CASE UNCHANGED vars
  BY <1>1, <1>2 DEF IInv, TypeOK, KeyExclusive, LeaseExclusive, AttemptsBounded, vars,
                    IsActive, Busy
<1>3. CASE Next
  BY <1>1, <1>3, PrecheckKeeps, InsertKeeps, ClaimKeeps, HandleKeeps, CompleteJobKeeps,
     FailJobKeeps, BackoffElapsesKeeps, TickKeeps, FaultKeeps DEF Next, Settle
<1>4. QED
  BY <1>1, <1>2, <1>3

-----------------------------------------------------------------------------
\* The inductive invariant holds in every reachable state of the queue.
THEOREM Inductive == Spec => []IInv
<1>1. Init => IInv
  BY InitIInv
<1>2. IInv /\ [Next]_vars => IInv'
  BY NextKeeps
<1>3. QED
  BY <1>1, <1>2, PTL DEF Spec

\* Every row, worker copy and enqueuer has its type (store.JobRow).
THEOREM TypeCorrect == Spec => []TypeOK
<1>1. IInv => TypeOK
  BY DEF IInv
<1>2. QED
  BY <1>1, Inductive, PTL

\* One active job per dedupe key (EnqueueJob and its partial unique index).
THEOREM OneActiveJobPerKey == Spec => []KeyExclusive
<1>1. IInv => KeyExclusive
  BY DEF IInv
<1>2. QED
  BY <1>1, Inductive, PTL

\* A claimed job belongs to its claim loop until that loop settles it (ClaimJob).
THEOREM OneWorkerPerJob == Spec => []LeaseExclusive
<1>1. IInv => LeaseExclusive
  BY DEF IInv
<1>2. QED
  BY <1>1, Inductive, PTL

\* No job is started more often than max_attempts (ClaimJob, FailJob).
THEOREM BoundedAttempts == Spec => []AttemptsBounded
<1>1. IInv => AttemptsBounded
  BY DEF IInv
<1>2. QED
  BY <1>1, Inductive, PTL

-----------------------------------------------------------------------------
(* The dead state is entered for cause and never left. *)

LEMMA StepParks ==
    ASSUME IInv, [Next]_vars, NEW j \in Pk
    PROVE  /\ jobs[j].state = "dead" => jobs'[j] = jobs[j]
           /\ jobs[j].state # "dead" /\ jobs'[j].state = "dead"
                 => jobs[j].attempts = MaxAttempts \/ ~jobs[j].handled
<1>1. CASE UNCHANGED jobs
  BY <1>1
<1>2. ASSUME NEW c \in Client, Insert(c) PROVE jobs[j].state # "none" => jobs'[j] = jobs[j]
  BY <1>2 DEF IInv, TypeOK, Insert
<1>3. ASSUME NEW c \in Client, Insert(c) PROVE jobs[j].state = "none" => jobs'[j].state # "dead"
  BY <1>3 DEF IInv, TypeOK, Insert, NewRow
<1>4. ASSUME NEW w \in Worker, Claim(w)
      PROVE  jobs'[j] = jobs[j] \/ (jobs[j].state = "queued" /\ jobs'[j].state = "running")
  BY <1>4 DEF IInv, TypeOK, JobRow, Claim, Oldest, Runnable
<1>5. ASSUME NEW w \in Worker, CompleteJob(w)
      PROVE  jobs'[j] = jobs[j] \/ (jobs[j].state = "running" /\ jobs'[j].state = "none")
  <2>1. Busy(w) /\ jobs' = [jobs EXCEPT ![worker[w].job] = NoRow]
    BY <1>5 DEF CompleteJob, Busy
  <2>2. jobs[worker[w].job].state = "running" /\ NoRow.state = "none"
    BY <2>1, SettlingFact DEF NoRow
  <2>3. QED
    BY <2>1, <2>2 DEF IInv, TypeOK
<1>6. ASSUME NEW w \in Worker, FailJob(w)
      PROVE  \/ jobs'[j] = jobs[j]
             \/ /\ jobs[j].state = "running"
                /\ jobs'[j].state = "dead" => jobs[j].attempts = MaxAttempts \/ ~jobs[j].handled
  <2>1. CASE j # worker[w].job
    BY <1>6, <2>1 DEF IInv, TypeOK, FailJob
  <2>2. CASE j = worker[w].job
    BY <1>6, <2>2, SettlingFact DEF IInv, TypeOK, JobRow, FailJob, Busy
  <2>3. QED
    BY <2>1, <2>2
<1>7. ASSUME Tick \/ \E i \in Pk : BackoffElapses(i)
      PROVE  jobs'[j] = jobs[j] \/ (jobs[j].state = "queued" /\ jobs'[j].state = "queued")
  <2>1. ASSUME Tick
        PROVE  jobs'[j] = jobs[j] \/ (jobs[j].state = "queued" /\ jobs'[j].state = "queued")
    BY <2>1 DEF IInv, TypeOK, JobRow, Tick, Runnable
  <2>2. ASSUME NEW i \in Pk, BackoffElapses(i)
        PROVE  jobs'[j] = jobs[j] \/ (jobs[j].state = "queued" /\ jobs'[j].state = "queued")
    BY <2>2 DEF IInv, TypeOK, JobRow, BackoffElapses
  <2>3. QED
    BY <1>7, <2>1, <2>2
<1>8. QED
  BY <1>1, <1>2, <1>3, <1>4, <1>5, <1>6, <1>7
  DEF Next, vars, Settle, Precheck, Handle, SettleFails, Restart

\* FailJob parks a job only when its attempts are spent or nothing handles it,
\* and no statement brings a parked job back.
THEOREM DeadJobsStayDead == Spec => ParkedForGood
<1>1. IInv /\ [Next]_vars =>
        [\A j \in Pk :
          /\ jobs[j].state = "dead" => jobs'[j] = jobs[j]
          /\ jobs[j].state # "dead" /\ jobs'[j].state = "dead"
                => jobs[j].attempts = MaxAttempts \/ ~jobs[j].handled]_vars
  BY StepParks
<1>2. QED
  BY <1>1, Inductive, PTL DEF Spec, ParkedForGood

-----------------------------------------------------------------------------
(* Refinement: every step is a step of WorkLedger or leaves the ledger alone. *)

LEMMA ViewOfRow ==
    ASSUME NEW j \in Pk
    PROVE  /\ LedgerView[j].state = jobs[j].state
           /\ LedgerView[j].key = jobs[j].key
           /\ LedgerView[j].attempts = jobs[j].attempts
           /\ LedgerView[j].handled = jobs[j].handled
BY DEF LedgerView

LEMMA InsertAccepts ==
    ASSUME IInv, NEW c \in Client, NEW j \in Pk,
           client[c].pc = "insert", jobs[j].state = "none", UniqueOK(client[c].key),
           jobs' = [jobs EXCEPT ![j] = NewRow(client[c].key, client[c].handled)]
    PROVE  Ledger!Next
<1>1. client[c].key \in Key \cup {NoKey} /\ client[c].handled \in BOOLEAN
  BY InsertingFact DEF IInv
<1>2. LedgerView[j].state = "none"
  BY ViewOfRow
<1>3. client[c].key # NoKey => \A i \in Pk : Ledger!Live(i) => LedgerView[i].key # client[c].key
  BY ViewOfRow DEF UniqueOK, KeyActive, IsActive, Ledger!Live
<1>4. LedgerView' = [LedgerView EXCEPT ![j] =
          [state |-> "queued", key |-> client[c].key, handled |-> client[c].handled,
           attempts |-> 0]]
  BY DEF IInv, TypeOK, LedgerView, NewRow
<1>5. Ledger!Accept(j, client[c].key, client[c].handled)
  BY <1>2, <1>3, <1>4 DEF Ledger!Accept
<1>6. QED
  BY <1>1, <1>5 DEF Ledger!Next

LEMMA ClaimStarts ==
    ASSUME IInv, NEW w \in Worker, Claim(w)
    PROVE  Ledger!Next
<1>1. PICK j \in Pk :
        /\ Oldest(j)
        /\ jobs' = [jobs EXCEPT ![j].state = "running", ![j].attempts = @ + 1, ![j].age = 0]
  BY DEF Claim
<1>2. jobs[j].state = "queued" /\ jobs[j].attempts < MaxAttempts /\ jobs[j] \in JobRow
  BY <1>1 DEF Oldest, Runnable, IInv, TypeOK, AttemptsBounded
<1>3. LedgerView' = [LedgerView EXCEPT ![j].state = "running", ![j].attempts = @ + 1]
  BY <1>1, <1>2 DEF IInv, TypeOK, JobRow, LedgerView
<1>4. Ledger!Start(j)
  BY <1>2, <1>3, ViewOfRow DEF Ledger!Start
<1>5. QED
  BY <1>4 DEF Ledger!Next

LEMMA SettleEndsAttempt ==
    ASSUME IInv, NEW w \in Worker, Settle(w)
    PROVE  Ledger!Next
<1> DEFINE j == worker[w].job
<1>1. Busy(w)
  BY DEF Settle, CompleteJob, FailJob, Busy
<1>2. j \in Pk /\ jobs[j] \in JobRow /\ jobs[j].state = "running"
  BY <1>1, SettlingFact
<1>3. CASE CompleteJob(w)
  <2>1. LedgerView' = [LedgerView EXCEPT ![j] = Ledger!Free]
    BY <1>2, <1>3 DEF CompleteJob, IInv, TypeOK, LedgerView, Ledger!Free, NoRow
  <2>2. Ledger!Finish(j)
    BY <1>2, <2>1, ViewOfRow DEF Ledger!Finish
  <2>3. QED
    BY <1>2, <2>2 DEF Ledger!Next
<1>4. CASE FailJob(w) /\ Spent(worker[w].attempts)
  <2>1. LedgerView' = [LedgerView EXCEPT ![j].state = "dead"]
    BY <1>2, <1>4 DEF FailJob, IInv, TypeOK, JobRow, LedgerView
  <2>2. jobs[j].attempts = MaxAttempts \/ ~jobs[j].handled
    BY <1>1, <1>4, SettlingFact
  <2>3. Ledger!Park(j)
    BY <1>2, <2>1, <2>2, ViewOfRow DEF Ledger!Park
  <2>4. QED
    BY <1>2, <2>3 DEF Ledger!Next
<1>5. CASE FailJob(w) /\ ~Spent(worker[w].attempts)
  <2>1. LedgerView' = [LedgerView EXCEPT ![j].state = "queued"]
    BY <1>2, <1>5 DEF FailJob, IInv, TypeOK, JobRow, LedgerView
  <2>2. jobs[j].attempts < MaxAttempts
    BY <1>1, <1>5, SettlingFact
  <2>3. Ledger!Retry(j)
    BY <1>2, <2>1, <2>2, ViewOfRow DEF Ledger!Retry
  <2>4. QED
    BY <1>2, <2>3 DEF Ledger!Next
<1>6. QED
  BY <1>3, <1>4, <1>5 DEF Settle

LEMMA StepRefines == IInv /\ [Next]_vars => [Ledger!Next]_LedgerView
<1>1. SUFFICES ASSUME IInv, [Next]_vars PROVE Ledger!Next \/ UNCHANGED LedgerView
  OBVIOUS
<1>2. CASE UNCHANGED jobs
  BY <1>2 DEF LedgerView
<1>3. ASSUME NEW c \in Client, Insert(c), ~UNCHANGED jobs PROVE Ledger!Next
  BY <1>1, <1>3, InsertAccepts DEF Insert
<1>4. ASSUME NEW i \in Pk, BackoffElapses(i) PROVE UNCHANGED LedgerView
  BY <1>1, <1>4 DEF BackoffElapses, IInv, TypeOK, JobRow, LedgerView
<1>5. CASE Tick
  BY <1>1, <1>5 DEF Tick, IInv, TypeOK, JobRow, LedgerView
<1>6. QED
  BY <1>1, <1>2, <1>3, <1>4, <1>5, ClaimStarts, SettleEndsAttempt
  DEF Next, vars, Precheck, Handle, SettleFails, Restart

\* The queue implements what it promises its producers.
THEOREM QueueImplementsLedger == Spec => ImplementsLedger
<1>1. Init => Ledger!Init
  BY DEF Init, Ledger!Init, Ledger!Free, LedgerView, NoRow
<1>2. IInv /\ [Next]_vars => [Ledger!Next]_LedgerView
  BY StepRefines
<1>3. QED
  BY <1>1, <1>2, Inductive, PTL DEF Spec, ImplementsLedger, Ledger!Spec
=============================================================================
