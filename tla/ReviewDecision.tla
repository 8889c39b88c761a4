--------------------------- MODULE ReviewDecision ---------------------------
(***************************************************************************)
(* The reviews of one pull request: drafts, submissions and dismissals by  *)
(* concurrent requests, and the background job that stores the decision    *)
(* they add up to, with the rollup of the checks reported on the head.     *)
(*                                                                         *)
(* Source: domain/review_service.go (CreateReview, SubmitReview,           *)
(* DismissReview, DeleteReview, enqueueRecompute, RecomputeReviewDecision, *)
(* computeDecision), domain/checks_service.go (recomputeForSHA), and the   *)
(* statements of store/queries_review.go and store/queries_checks.go.      *)
(* The queue is WorkLedger.                                                *)
(*                                                                         *)
(* Granularity.  A query, a transaction and an enqueue are one action      *)
(* each.  A request reads the review it is about, acts on what it read in  *)
(* one statement, and then enqueues.                                       *)
(*                                                                         *)
(* Abstractions.  A review is its author, its state and its submission     *)
(* instant; ReplyComment is CreateReview with the event COMMENT.  The      *)
(* rollup is the pair of the head and the number of reports it was         *)
(* computed from.  Comments, bodies and webhook events are left out.       *)
(***************************************************************************)
EXTENDS Naturals, FiniteSets

CONSTANTS User, Author,    \* who reviews; who opened the pull request
          Client,          \* requests under way at once
          MaxReviews,      \* rows of pull_request_reviews
          Slot, Issue, NoKey, MaxAttempts,  \* the jobs table
          MaxRequests,     \* requests a run explores
          MaxReports,      \* status and check reports, and pushes, it explores
          MaxFaults        \* handler errors and lost enqueues it explores

ASSUME ReviewBounds ==
    /\ MaxReviews \in Nat /\ MaxRequests \in Nat /\ MaxReports \in Nat
    /\ MaxFaults \in Nat /\ MaxAttempts \in Nat
ASSUME AuthorIsUser == Author \in User

VARIABLES review,   \* the pull_request_reviews table, by pk
          client,   \* where each request is
          raced,    \* history: the drafts two submissions had read at once
          head, reports,  \* pushes to the head, and reports on it
          merged,   \* pull_requests.merged
          owing,    \* reports that found the pull request, their enqueue to come
          version,  \* history: how often the submitted reviews have changed
          cache,    \* the pull_request_check_state row
          ledger,   \* the jobs table
          handler,  \* where the handler of each running job is
          late,     \* history: a change whose recompute was not queued, or too late
          requests, faults

reviewVars == <<review, client, raced, head, reports, merged, owing, version, cache,
                ledger, handler, late, requests, faults>>

Pk == 1..MaxReviews
Key == {Issue} \cup Pk
Jobs == INSTANCE WorkLedger WITH Pk <- Slot

-----------------------------------------------------------------------------
Verdict == {"COMMENTED", "APPROVED", "CHANGES_REQUESTED"}
Blocking == {"APPROVED", "CHANGES_REQUESTED"}
Opinion == Blocking \cup {"DISMISSED"}
Submitted(r) == review[r].state \in Verdict \cup {"DISMISSED"}

Resting == [pc |-> "idle"]
Asking == [pc : {"insert", "submit", "dismiss", "delete", "enqueue"}, user : User,
           review : 0..MaxReviews, verdict : Verdict \cup {"PENDING"}, at : 0..MaxRequests]
Working == [pc : {"load", "reviews", "reports", "store", "done"}, decision : Blocking \cup {"none"},
            version : Nat, head : Nat, reports : Nat]

ReviewTypeOK ==
    /\ review \in [Pk -> [state : {"none", "gone", "PENDING"} \cup Verdict \cup {"DISMISSED"},
                          user : User, at : 0..MaxRequests]]
    /\ client \in [Client -> {Resting} \cup Asking]
    /\ raced \subseteq Pk
    /\ head \in Nat /\ reports \in Nat /\ owing \in Nat /\ merged \in BOOLEAN
    /\ version \in Nat
    /\ cache \in [decision : Blocking \cup {"none"}, version : Nat, head : Nat, reports : Nat]
    /\ ledger \in [Slot -> [state : {"none", "queued", "running", "dead"}, key : Key \cup {NoKey},
                            handled : BOOLEAN, attempts : 0..MaxAttempts]]
    /\ handler \in [Slot -> {Resting} \cup Working]
    /\ late \in BOOLEAN
    /\ requests \in 0..MaxRequests /\ faults \in 0..MaxFaults

\* A pull request is opened, on a commit with reports or without.  CreatePR asks for
\* no recompute of its decision.
ReviewInit ==
    /\ review = [r \in Pk |-> [state |-> "none", user |-> Author, at |-> 0]]
    /\ client = [c \in Client |-> Resting]
    /\ raced = {}
    /\ head = 0 /\ reports \in 0..MaxReports /\ owing = 0 /\ version = 0
    /\ merged = FALSE
    /\ cache = [decision |-> "none", version |-> 0, head |-> 0, reports |-> 0]
    /\ Jobs!Init
    /\ handler = [s \in Slot |-> Resting]
    /\ late = (reports > 0)
    /\ requests = 0 /\ faults = 0

-----------------------------------------------------------------------------
(* The decision. *)

\* ListReviews: the submitted reviews, ORDER BY submitted_at, pk.
Before(q, r) == review[q].at < review[r].at \/ (review[q].at = review[r].at /\ q < r)

\* A user's opinions, comments left aside; the last one is what stands.
Opinions(u) == {r \in Pk : review[r].user = u /\ review[r].state \in Opinion}
Stands(u, state) ==
    \E r \in Opinions(u) : /\ review[r].state = state
                           /\ \A q \in Opinions(u) \ {r} : Before(q, r)

Decision ==
    IF \E u \in User : Stands(u, "CHANGES_REQUESTED") THEN "CHANGES_REQUESTED"
    ELSE IF \E u \in User : Stands(u, "APPROVED") THEN "APPROVED"
    ELSE "none"

-----------------------------------------------------------------------------
(* The queue. *)

\* Mutant: each review asks for a recompute of its own.
KeyForEach(r) == IF r = 0 THEN Issue ELSE r

\* review_decision:issue:<pk>, whatever the review.
KeyFor(r) == Issue

\* Mutant: a parked job answers for its key too.
ActiveOrParked(k) == {s \in Slot : ledger[s].key = k}

\* EnqueueJob's dedupe: a queued or running job of the key.
Active(k) == {s \in Slot : Jobs!Live(s) /\ ledger[s].key = k}

\* enqueueRecompute, its error ignored.  A fold into a running job may come too
\* late for it.
EnqueueFor(r) ==
    /\ IF Active(KeyFor(r)) # {}
       THEN UNCHANGED ledger
       ELSE \E s \in Slot : Jobs!Accept(s, KeyFor(r), TRUE)
    /\ late' = \E s \in Active(KeyFor(r)) : ledger[s].state = "running"

-----------------------------------------------------------------------------
(* The requests. *)

Asks(c, pc, u, r, verdict) ==
    client' = [client EXCEPT ![c] =
        [pc |-> pc, user |-> u, review |-> r, verdict |-> verdict, at |-> requests']]

\* No one approves or blocks their own pull request.
MayVote(u, verdict) == u = Author => verdict \notin Blocking

Draft(r, u) == review[r].state = "PENDING" /\ review[r].user = u

Receives(c) ==
    /\ client[c] = Resting
    /\ requests < MaxRequests
    /\ requests' = requests + 1

\* CreateReview up to its transaction: a second draft is refused.
CreateReads(c, u, verdict) ==
    /\ Receives(c)
    /\ MayVote(u, verdict)
    /\ verdict = "PENDING" => \A r \in Pk : ~Draft(r, u)
    /\ Asks(c, "insert", u, 0, verdict)
    /\ UNCHANGED <<review, raced, head, merged, reports, owing, version, cache, ledger, handler,
                   late, faults>>

\* Mutant: a review one is the author of, submitted or not.
SubmittableOwn(r, u) == review[r].state \notin {"none", "gone"} /\ review[r].user = u

Submittable(r, u) == Draft(r, u)

\* SubmitReview up to its transaction.
SubmitReads(c, u, r, verdict) ==
    /\ Receives(c)
    /\ Submittable(r, u)
    /\ verdict # "PENDING" /\ MayVote(u, verdict)
    /\ Asks(c, "submit", u, r, verdict)
    /\ raced' = IF \E d \in Client : client[d].pc = "submit" /\ client[d].review = r
                THEN raced \cup {r} ELSE raced
    /\ UNCHANGED <<review, head, merged, reports, owing, version, cache, ledger, handler, late, faults>>

\* DismissReview up to its UPDATE; who has write access does not matter here.
DismissReads(c, r) ==
    /\ Receives(c)
    /\ review[r].state \in Blocking
    /\ Asks(c, "dismiss", review[r].user, r, "COMMENTED")
    /\ UNCHANGED <<review, raced, head, merged, reports, owing, version, cache, ledger, handler,
                   late, faults>>

\* DeleteReview up to its DELETE.
DeleteReads(c, u, r) ==
    /\ Receives(c)
    /\ Draft(r, u)
    /\ Asks(c, "delete", u, r, "COMMENTED")
    /\ UNCHANGED <<review, raced, head, merged, reports, owing, version, cache, ledger, handler,
                   late, faults>>

\* The next primary key: no key is used twice.
Fresh(r) == review[r].state = "none" /\ \A q \in 1..r - 1 : review[q].state # "none"

\* InsertReview.  The unique index refuses a second draft; a draft enqueues nothing.
Insert(c) ==
    /\ client[c].pc = "insert"
    /\ IF client[c].verdict = "PENDING" /\ \E r \in Pk : Draft(r, client[c].user)
       THEN client' = [client EXCEPT ![c] = Resting] /\ UNCHANGED <<review, version>>
       ELSE \E r \in Pk :
              /\ Fresh(r)
              /\ review' = [review EXCEPT ![r] = [state |-> client[c].verdict,
                                                  user |-> client[c].user, at |-> client[c].at]]
              /\ IF client[c].verdict = "PENDING"
                 THEN client' = [client EXCEPT ![c] = Resting] /\ UNCHANGED version
                 ELSE /\ client' = [client EXCEPT ![c].pc = "enqueue", ![c].review = r]
                      /\ version' = version + 1
    /\ UNCHANGED <<raced, head, merged, reports, owing, cache, ledger, handler, late, requests, faults>>

\* UPDATE ... WHERE pk = ?: whatever became of the row since it was read, and
\* nothing at all when the draft was deleted.
Submit(c) ==
    /\ client[c].pc = "submit"
    /\ LET r == client[c].review IN
       IF review[r].state = "gone"
       THEN UNCHANGED <<review, version>>
       ELSE /\ review' = [review EXCEPT ![r].state = client[c].verdict, ![r].at = requests]
            /\ version' = version + 1
    /\ client' = [client EXCEPT ![c].pc = "enqueue"]
    /\ UNCHANGED <<raced, head, merged, reports, owing, cache, ledger, handler, late, requests, faults>>

Dismiss(c) ==
    /\ client[c].pc = "dismiss"
    /\ review' = [review EXCEPT ![client[c].review].state = "DISMISSED"]
    /\ version' = version + 1
    /\ client' = [client EXCEPT ![c].pc = "enqueue"]
    /\ UNCHANGED <<raced, head, merged, reports, owing, cache, ledger, handler, late, requests, faults>>

\* DELETE ... AND state = 'PENDING'.
Deletable(r) == review[r].state = "PENDING"

Delete(c) ==
    /\ client[c].pc = "delete"
    /\ LET r == client[c].review IN
       review' = IF Deletable(r) THEN [review EXCEPT ![r].state = "gone"] ELSE review
    /\ client' = [client EXCEPT ![c] = Resting]
    /\ UNCHANGED <<raced, head, merged, reports, owing, version, cache, ledger, handler, late,
                   requests, faults>>

Enqueue(c) ==
    /\ client[c].pc = "enqueue"
    /\ EnqueueFor(client[c].review)
    /\ client' = [client EXCEPT ![c] = Resting]
    /\ UNCHANGED <<review, raced, head, merged, reports, owing, version, cache, handler,
                   requests, faults>>

\* The enqueue fails, or the request is cancelled before it.
EnqueueLost(c) ==
    /\ client[c].pc = "enqueue"
    /\ faults < MaxFaults
    /\ faults' = faults + 1
    /\ late' = TRUE
    /\ client' = [client EXCEPT ![c] = Resting]
    /\ UNCHANGED <<review, raced, head, merged, reports, owing, version, cache, ledger, handler,
                   requests>>

-----------------------------------------------------------------------------
(* The head and its checks. *)

\* A status or a check run of the head is written, and recomputeForSHA looks for the
\* pull requests that have this head: those that are not merged.
Report ==
    /\ head + reports < MaxReports
    /\ reports' = reports + 1
    /\ IF merged THEN late' = TRUE /\ UNCHANGED owing
                 ELSE owing' = owing + 1 /\ UNCHANGED late
    /\ UNCHANGED <<review, client, raced, head, merged, version, cache, ledger, handler,
                   requests, faults>>

\* recomputeForSHA enqueues for what it found.
ReportEnqueue ==
    /\ owing > 0
    /\ owing' = owing - 1
    /\ EnqueueFor(0)
    /\ UNCHANGED <<review, client, raced, head, reports, merged, version, cache, handler,
                   requests, faults>>

\* The query or the enqueue fails, its error dropped, or the request ends with an
\* error of its annotations, or of a run after the first of a suite, before it.
ReportLost ==
    /\ owing > 0
    /\ faults < MaxFaults
    /\ owing' = owing - 1
    /\ faults' = faults + 1
    /\ late' = TRUE
    /\ UNCHANGED <<review, client, raced, head, reports, merged, version, cache, ledger,
                   handler, requests>>

\* MarkMerged.  Of the reports under way those whose query is still to come find
\* nothing.
Merges ==
    /\ ~merged
    /\ merged' = TRUE
    /\ owing' \in 0..owing
    /\ late' = (late \/ owing' < owing)
    /\ UNCHANGED <<review, client, raced, head, reports, version, cache, ledger, handler,
                   requests, faults>>

\* UpdatePullHead: the new head may have reports of its own, and no decision recompute
\* is asked for (OnHeadPush enqueues the mergeability one).  Of the reports on the old
\* head those whose query has found the row yet enqueue.
HeadMoves ==
    /\ head + reports < MaxReports
    /\ head' = head + 1 /\ reports' \in 0..MaxReports - head' /\ owing' \in 0..owing
    /\ late' = TRUE
    /\ UNCHANGED <<review, client, raced, merged, version, cache, ledger, handler, requests,
                   faults>>

-----------------------------------------------------------------------------
(* RecomputeReviewDecision, run by the queue. *)

JobStarts(s) ==
    /\ Jobs!Start(s)
    /\ handler' = [handler EXCEPT ![s] = [pc |-> "load", decision |-> "none", version |-> 0,
                                          head |-> 0, reports |-> 0]]
    /\ UNCHANGED <<review, client, raced, head, merged, reports, owing, version, cache, late,
                   requests, faults>>

\* The pull request row, the reviews, and the reports on the head that row names.
JobReads(s) ==
    /\ \/ /\ handler[s].pc = "load"
          /\ handler' = [handler EXCEPT ![s].pc = "reviews", ![s].head = head]
       \/ /\ handler[s].pc = "reviews"
          /\ handler' = [handler EXCEPT ![s].pc = "reports", ![s].decision = Decision,
                                        ![s].version = version]
       \/ /\ handler[s].pc = "reports"
          /\ \E n \in IF handler[s].head = head THEN {reports} ELSE 0..MaxReports :
                handler' = [handler EXCEPT ![s].pc = "store", ![s].reports = n]
    /\ UNCHANGED <<review, client, raced, head, merged, reports, owing, version, cache, ledger, late,
                   requests, faults>>

\* UpsertPullCheckState: nothing is compared.
JobStores(s) ==
    /\ handler[s].pc = "store"
    /\ cache' = [decision |-> handler[s].decision, version |-> handler[s].version,
                 head |-> handler[s].head, reports |-> handler[s].reports]
    /\ handler' = [handler EXCEPT ![s].pc = "done"]
    /\ UNCHANGED <<review, client, raced, head, merged, reports, owing, version, ledger, late,
                   requests, faults>>

JobEnds(s) ==
    /\ handler[s].pc = "done"
    /\ Jobs!Finish(s)
    /\ handler' = [handler EXCEPT ![s] = Resting]
    /\ UNCHANGED <<review, client, raced, head, merged, reports, owing, version, cache, late,
                   requests, faults>>

\* A statement fails: the job is run again, or parked.
JobFails(s) ==
    /\ handler[s].pc \in {"load", "reviews", "reports", "store"}
    /\ faults < MaxFaults
    /\ faults' = faults + 1
    /\ \/ Jobs!Retry(s) /\ late' = FALSE
       \/ Jobs!Park(s) /\ late' = TRUE
    /\ handler' = [handler EXCEPT ![s] = Resting]
    /\ UNCHANGED <<review, client, raced, head, merged, reports, owing, version, cache, requests>>

-----------------------------------------------------------------------------
RequestReads(c) ==
    \/ \E r \in Pk : DismissReads(c, r)
    \/ \E u \in User :
        \/ \E v \in Verdict \cup {"PENDING"} : CreateReads(c, u, v)
        \/ \E r \in Pk, v \in Verdict : SubmitReads(c, u, r, v)
        \/ \E r \in Pk : DeleteReads(c, u, r)

ReviewNext ==
    \/ \E c \in Client : \/ RequestReads(c) \/ Insert(c) \/ Submit(c) \/ Dismiss(c)
                         \/ Delete(c) \/ Enqueue(c) \/ EnqueueLost(c)
    \/ Report \/ ReportEnqueue \/ ReportLost \/ Merges \/ HeadMoves
    \/ \E s \in Slot : \/ JobStarts(s) \/ JobReads(s) \/ JobStores(s)
                       \/ JobEnds(s) \/ JobFails(s)

ReviewSpec == ReviewInit /\ [][ReviewNext]_reviewVars

-----------------------------------------------------------------------------
(* What holds. *)

\* A submitted review changes only by being dismissed, and is never deleted,
\* unless two submissions had both read it as a draft (SubmitReview checks the
\* state outside its transaction, and DeleteReview's guard is in its statement).
FinalUnlessRaced ==
    [][\A r \in Pk : Submitted(r) /\ review'[r] # review[r] =>
            r \in raced \/ review'[r].state = "DISMISSED"]_reviewVars

\* The stored decision never goes back to that of an older set of reviews: the
\* dedupe key lets one recompute of a pull request run at a time.
CacheOnlyAdvances == [][cache'.version >= cache.version]_reviewVars

Quiet == /\ \A c \in Client : client[c].pc # "enqueue"
         /\ owing = 0
         /\ \A s \in Slot : ~Jobs!Live(s)

\* With no enqueue owed and no job live, the stored row is the decision of the
\* reviews and the rollup of the head as they are, unless after the last enqueue
\* that was accepted as a job still to run
\*   - one was folded into a recompute already running,
\*   - the enqueue of a review or of a report failed or was never come to,
\*   - a job was parked,
\*   - the head moved, or was reported on once the pull request was merged,
\* or there has been no enqueue yet and the pull request was opened on a commit
\* with reports.
CacheSettles ==
    Quiet => \/ late
             \/ cache = [decision |-> Decision, version |-> version, head |-> head,
                         reports |-> reports]
=============================================================================
