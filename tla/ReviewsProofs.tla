--------------------------- MODULE ReviewsProofs ----------------------------
(***************************************************************************)
(* What is proved of reviews and the decision, of check suites, and of the *)
(* two together.                                                           *)
(***************************************************************************)
EXTENDS MCReviews, TLAPS

-----------------------------------------------------------------------------
(* A submitted review stays as it is, the stored decision only advances,   *)
(* and it is that of the reviews once nothing is owed.                     *)
(*                                                                         *)
(* The first needs that a review about to be submitted is a draft, or was  *)
(* read as one by two submissions, and that one about to be dismissed is   *)
(* submitted.  The second needs that the queue has one live job at most,   *)
(* that only a running one is in the handler, and that what the handler    *)
(* has read is no older than what is stored.  The third needs an invariant *)
(* of its own, stated where it is proved.                                  *)

\* A request that has read a review finds it as it read it, or raced.
ReadAs(c) ==
    /\ client[c].pc = "submit" =>
           /\ client[c].review \in Pk /\ client[c].verdict \in Verdict
           /\ client[c].review \in raced \/ review[client[c].review].state \in {"PENDING", "gone"}
    /\ client[c].pc = "dismiss" => client[c].review \in Pk /\ Submitted(client[c].review)

Rivals ==
    \A c, d \in Client :
        client[c].pc = "submit" /\ client[d].pc = "submit" /\ client[c].review = client[d].review /\ c # d
            => client[c].review \in raced

Reviewing == Rivals /\ \A c \in Client : ReadAs(c)

\* One recompute at a time, and what it has read.
OneLive ==
    /\ \A s \in Slot : Jobs!Live(s) => ledger[s].key = Issue
    /\ \A s, t \in Slot : Jobs!Live(s) /\ Jobs!Live(t) => s = t

Recomputing ==
    /\ OneLive
    /\ cache.version <= version
    /\ \A s \in Slot :
           /\ handler[s] # Resting => ledger[s].state = "running" /\ handler[s].version <= version
           /\ handler[s].pc \in {"reports", "store"} => cache.version <= handler[s].version

ReviewInv == ReviewTypeOK /\ Reviewing /\ Recomputing

-----------------------------------------------------------------------------
LEMMA ReviewInitially == ReviewInit => ReviewInv
<1> SUFFICES ASSUME ReviewInit PROVE ReviewInv
  OBVIOUS
<1>1. ReviewTypeOK
  <2>1. 0 \in 0..MaxReviews /\ 0 \in 0..MaxRequests /\ 0 \in 0..MaxFaults /\ 0 \in 0..MaxAttempts
    BY ReviewBounds
  <2>2. review \in [Pk -> [state : {"none", "gone", "PENDING"} \cup Verdict \cup {"DISMISSED"},
                           user : User, at : 0..MaxRequests]]
    BY <2>1, AuthorIsUser DEF ReviewInit
  <2>3. ledger \in [Slot -> [state : {"none", "queued", "running", "dead"}, key : Key \cup {NoKey},
                             handled : BOOLEAN, attempts : 0..MaxAttempts]]
    BY <2>1 DEF ReviewInit, Jobs!Init, Jobs!Free
  <2>4. cache \in [decision : Blocking \cup {"none"}, version : Nat, head : Nat, reports : Nat]
    BY DEF ReviewInit
  <2>5. reports \in Nat /\ late \in BOOLEAN /\ merged \in BOOLEAN
    <3>1. reports \in Nat
      BY ReviewBounds DEF ReviewInit
    <3>2. late \in BOOLEAN
      BY DEF ReviewInit
    <3>3. merged \in BOOLEAN
      BY DEF ReviewInit
    <3>4. QED
      BY <3>1, <3>2, <3>3
  <2>6. QED
    BY <2>1, <2>2, <2>3, <2>4, <2>5 DEF ReviewInit, ReviewTypeOK
<1>2. Reviewing
  BY DEF ReviewInit, Reviewing, Rivals, ReadAs, Resting
<1>3. Recomputing
  BY DEF ReviewInit, Recomputing, OneLive, Jobs!Init, Jobs!Live, Jobs!Free, Resting
<1>4. QED
  BY <1>1, <1>2, <1>3 DEF ReviewInv

LEMMA Kinds ==
    ASSUME ReviewTypeOK, NEW c \in Client
    PROVE  /\ client[c].pc # "idle" => client[c] \in Asking
           /\ client[c].pc = "idle" => client[c] = Resting
           /\ Resting.pc = "idle"
BY DEF ReviewTypeOK, Resting, Asking

\* The job's side does not see what only the requests' side changes.
LEMMA JobsAside ==
    ASSUME ReviewInv, UNCHANGED <<cache, ledger, handler>>, version' \in Nat, version <= version'
    PROVE  Recomputing'
<1>1. \A s \in Slot : Jobs!Live(s)' <=> Jobs!Live(s)
  BY DEF Jobs!Live
<1>2. OneLive'
  BY <1>1 DEF ReviewInv, Recomputing, OneLive
<1>3. cache.version \in Nat /\ version \in Nat
  BY DEF ReviewInv, ReviewTypeOK
<1>4. cache'.version <= version'
  BY <1>3 DEF ReviewInv, Recomputing
<1>5. ASSUME NEW s \in Slot, handler[s] # Resting
      PROVE  ledger[s].state = "running" /\ handler[s].version <= version'
  <2>1. handler[s] \in Working /\ ledger[s].state = "running" /\ handler[s].version <= version
    BY <1>5 DEF ReviewInv, ReviewTypeOK, Recomputing
  <2>2. handler[s].version \in Nat
    BY <2>1 DEF Working
  <2>3. QED
    BY <1>3, <2>1, <2>2
<1>6. QED
  BY <1>2, <1>4, <1>5 DEF ReviewInv, Recomputing

LEMMA ReviewsAside ==
    ASSUME ReviewInv, UNCHANGED <<review, client, raced>> PROVE Reviewing'
BY DEF ReviewInv, Reviewing, Rivals, ReadAs, Submitted

-----------------------------------------------------------------------------
(* Requests that begin. *)

\* The record Asks stores.
LEMMA Asked ==
    ASSUME ReviewInv, NEW c \in Client, Receives(c), NEW u \in User, NEW r \in 0..MaxReviews,
           NEW pc \in {"insert", "submit", "dismiss", "delete"}, NEW verdict \in Verdict \cup {"PENDING"},
           Asks(c, pc, u, r, verdict)
    PROVE  /\ requests' \in 0..MaxRequests
           /\ client' \in [Client -> {Resting} \cup Asking]
           /\ client'[c].pc = pc /\ client'[c].review = r /\ client'[c].verdict = verdict
           /\ \A d \in Client \ {c} : client'[d] = client[d]
<1> DEFINE a == [pc |-> pc, user |-> u, review |-> r, verdict |-> verdict, at |-> requests']
<1>1. requests' \in 0..MaxRequests
  BY ReviewBounds DEF Receives, ReviewInv, ReviewTypeOK
<1>2. a \in Asking /\ a.pc = pc /\ a.review = r /\ a.verdict = verdict
  BY <1>1 DEF Asking
<1>3. client' = [client EXCEPT ![c] = a]
  BY DEF Asks
<1> HIDE DEF a
<1>4. QED
  BY <1>1, <1>2, <1>3 DEF ReviewInv, ReviewTypeOK

LEMMA CreateReadsStep ==
    ASSUME ReviewInv, NEW c \in Client, NEW u \in User, NEW v \in Verdict \cup {"PENDING"}, CreateReads(c, u, v)
    PROVE  ReviewInv'
<1>1. Receives(c) /\ Asks(c, "insert", u, 0, v) /\ 0 \in 0..MaxReviews
      /\ UNCHANGED <<review, raced, head, reports, merged, owing, version, cache, ledger, handler, late, faults>>
  BY ReviewBounds DEF CreateReads
<1>2. /\ requests' \in 0..MaxRequests /\ client' \in [Client -> {Resting} \cup Asking]
      /\ client'[c].pc = "insert" /\ \A d \in Client \ {c} : client'[d] = client[d]
  BY <1>1, Asked
<1>3. ReviewTypeOK'
  BY <1>1, <1>2 DEF ReviewInv, ReviewTypeOK
<1>4. Reviewing'
  BY <1>1, <1>2 DEF ReviewInv, Reviewing, Rivals, ReadAs, Submitted
<1>5. version' \in Nat /\ version <= version'
  BY <1>1 DEF ReviewInv, ReviewTypeOK
<1>6. QED
  BY <1>1, <1>3, <1>4, <1>5, JobsAside DEF ReviewInv

LEMMA SubmitReadsStep ==
    ASSUME ReviewInv, NEW c \in Client, NEW u \in User, NEW r \in Pk, NEW v \in Verdict, SubmitReads(c, u, r, v)
    PROVE  ReviewInv'
<1>1. /\ Receives(c) /\ Asks(c, "submit", u, r, v) /\ r \in 0..MaxReviews /\ review[r].state = "PENDING"
      /\ UNCHANGED <<review, head, reports, merged, owing, version, cache, ledger, handler, late, faults>>
      /\ raced' = IF \E d \in Client : client[d].pc = "submit" /\ client[d].review = r
                  THEN raced \cup {r} ELSE raced
  BY ReviewBounds DEF SubmitReads, Submittable, Draft, Pk
<1>2. /\ requests' \in 0..MaxRequests /\ client' \in [Client -> {Resting} \cup Asking]
      /\ client'[c].pc = "submit" /\ client'[c].review = r /\ client'[c].verdict = v
      /\ \A d \in Client \ {c} : client'[d] = client[d]
  BY <1>1, Asked
<1>3. raced' \subseteq Pk /\ raced \subseteq raced'
  BY <1>1 DEF ReviewInv, ReviewTypeOK
<1>4. ReviewTypeOK'
  BY <1>1, <1>2, <1>3 DEF ReviewInv, ReviewTypeOK
<1>5. \A d \in Client : ReadAs(d)'
  BY <1>1, <1>2, <1>3 DEF ReviewInv, Reviewing, ReadAs, Submitted
<1>6. Rivals'
  BY <1>1, <1>2, <1>3 DEF ReviewInv, Reviewing, Rivals
<1>7. version' \in Nat /\ version <= version'
  BY <1>1 DEF ReviewInv, ReviewTypeOK
<1>8. QED
  BY <1>1, <1>4, <1>5, <1>6, <1>7, JobsAside DEF ReviewInv, Reviewing

LEMMA DismissReadsStep ==
    ASSUME ReviewInv, NEW c \in Client, NEW r \in Pk, DismissReads(c, r) PROVE ReviewInv'
<1>1. /\ Receives(c) /\ Asks(c, "dismiss", review[r].user, r, "COMMENTED") /\ r \in 0..MaxReviews
      /\ Submitted(r) /\ review[r].user \in User /\ "COMMENTED" \in Verdict
      /\ UNCHANGED <<review, raced, head, reports, merged, owing, version, cache, ledger, handler, late, faults>>
  BY ReviewBounds DEF DismissReads, Pk, Submitted, Blocking, Verdict, ReviewInv, ReviewTypeOK
<1>2. /\ requests' \in 0..MaxRequests /\ client' \in [Client -> {Resting} \cup Asking]
      /\ client'[c].pc = "dismiss" /\ client'[c].review = r
      /\ \A d \in Client \ {c} : client'[d] = client[d]
  BY <1>1, Asked
<1>3. ReviewTypeOK'
  BY <1>1, <1>2 DEF ReviewInv, ReviewTypeOK
<1>4. Reviewing'
  BY <1>1, <1>2 DEF ReviewInv, Reviewing, Rivals, ReadAs, Submitted
<1>5. version' \in Nat /\ version <= version'
  BY <1>1 DEF ReviewInv, ReviewTypeOK
<1>6. QED
  BY <1>1, <1>3, <1>4, <1>5, JobsAside DEF ReviewInv

LEMMA DeleteReadsStep ==
    ASSUME ReviewInv, NEW c \in Client, NEW u \in User, NEW r \in Pk, DeleteReads(c, u, r) PROVE ReviewInv'
<1>1. /\ Receives(c) /\ Asks(c, "delete", u, r, "COMMENTED") /\ r \in 0..MaxReviews
      /\ "COMMENTED" \in Verdict
      /\ UNCHANGED <<review, raced, head, reports, merged, owing, version, cache, ledger, handler, late, faults>>
  BY ReviewBounds DEF DeleteReads, Pk, Verdict
<1>2. /\ requests' \in 0..MaxRequests /\ client' \in [Client -> {Resting} \cup Asking]
      /\ client'[c].pc = "delete" /\ \A d \in Client \ {c} : client'[d] = client[d]
  BY <1>1, Asked
<1>3. ReviewTypeOK'
  BY <1>1, <1>2 DEF ReviewInv, ReviewTypeOK
<1>4. Reviewing'
  BY <1>1, <1>2 DEF ReviewInv, Reviewing, Rivals, ReadAs, Submitted
<1>5. version' \in Nat /\ version <= version'
  BY <1>1 DEF ReviewInv, ReviewTypeOK
<1>6. QED
  BY <1>1, <1>3, <1>4, <1>5, JobsAside DEF ReviewInv

-----------------------------------------------------------------------------
(* Requests that write. *)

\* A request goes on, or ends, having written at most the review r: those others
\* have read stay as they read them.
LEMMA WritesToReviews ==
    ASSUME ReviewInv, NEW c \in Client, NEW a \in {Resting} \cup Asking, a.pc \notin {"submit", "dismiss"},
           client' = [client EXCEPT ![c] = a], UNCHANGED raced, review' \in [Pk -> [
               state : {"none", "gone", "PENDING"} \cup Verdict \cup {"DISMISSED"},
               user : User, at : 0..MaxRequests]],
           \A r \in Pk, d \in Client \ {c} : review'[r] # review[r] =>
               /\ client[d].pc = "submit" /\ client[d].review = r =>
                      r \in raced \/ review'[r].state \in {"PENDING", "gone"}
               /\ client[d].pc = "dismiss" /\ client[d].review = r => Submitted(r)'
    PROVE  client' \in [Client -> {Resting} \cup Asking] /\ Reviewing'
<1>1. client' \in [Client -> {Resting} \cup Asking] /\ client'[c] = a
      /\ \A d \in Client \ {c} : client'[d] = client[d]
  BY DEF ReviewInv, ReviewTypeOK
<1>2. Rivals'
  BY <1>1 DEF ReviewInv, Reviewing, Rivals
<1>3. ASSUME NEW d \in Client PROVE ReadAs(d)'
  BY <1>1 DEF ReviewInv, Reviewing, ReadAs, Submitted
<1>4. QED
  BY <1>1, <1>2, <1>3 DEF Reviewing

LEMMA InsertStep == ASSUME ReviewInv, NEW c \in Client, Insert(c) PROVE ReviewInv'
<1>1. client[c] \in Asking /\ Resting.pc = "idle" /\ client[c].pc = "insert"
      /\ UNCHANGED <<raced, head, reports, merged, owing, cache, ledger, handler, late, requests, faults>>
  BY Kinds DEF Insert, ReviewInv
<1>2. version \in Nat /\ review \in [Pk -> [state : {"none", "gone", "PENDING"} \cup Verdict \cup {"DISMISSED"},
                                            user : User, at : 0..MaxRequests]]
  BY DEF ReviewInv, ReviewTypeOK
<1>3. CASE client' = [client EXCEPT ![c] = Resting] /\ UNCHANGED <<review, version>>
  <2>1. client' \in [Client -> {Resting} \cup Asking] /\ Reviewing'
    BY <1>1, <1>2, <1>3, WritesToReviews
  <2>2. ReviewTypeOK'
    BY <1>1, <1>3, <2>1 DEF ReviewInv, ReviewTypeOK
  <2>3. version' \in Nat /\ version <= version'
    BY <1>2, <1>3
  <2>4. QED
    BY <1>1, <2>1, <2>2, <2>3, JobsAside DEF ReviewInv
<1>4. ASSUME NEW r \in Pk, Fresh(r),
             review' = [review EXCEPT ![r] = [state |-> client[c].verdict, user |-> client[c].user,
                                              at |-> client[c].at]],
             \/ client' = [client EXCEPT ![c] = Resting] /\ UNCHANGED version
             \/ /\ client' = [client EXCEPT ![c].pc = "enqueue", ![c].review = r]
                /\ version' = version + 1
      PROVE  ReviewInv'
  <2> DEFINE row == [state |-> client[c].verdict, user |-> client[c].user, at |-> client[c].at]
             a == [client[c] EXCEPT !.pc = "enqueue", !.review = r]
  <2>1. row \in [state : {"none", "gone", "PENDING"} \cup Verdict \cup {"DISMISSED"},
                 user : User, at : 0..MaxRequests]
    BY <1>1 DEF Asking
  <2>2. a \in Asking /\ a.pc = "enqueue"
    <3>1. r \in 0..MaxReviews
      BY ReviewBounds DEF Pk
    <3>2. QED
      BY <1>1, <3>1 DEF Asking
  <2>3. client' = [client EXCEPT ![c] = Resting] \/ client' = [client EXCEPT ![c] = a]
    BY <1>4 DEF ReviewInv, ReviewTypeOK
  <2>4. review' = [review EXCEPT ![r] = row]
    BY <1>4
  <2> HIDE DEF row, a
  <2>5. review' \in [Pk -> [state : {"none", "gone", "PENDING"} \cup Verdict \cup {"DISMISSED"},
                            user : User, at : 0..MaxRequests]]
        /\ \A q \in Pk : review'[q] # review[q] => q = r
    BY <1>2, <1>4, <2>1, <2>4
  <2>6. review[r].state = "none"
    BY <1>4 DEF Fresh
  <2>7. \A d \in Client : /\ client[d].pc = "submit" /\ client[d].review = r => r \in raced
                          /\ ~(client[d].pc = "dismiss" /\ client[d].review = r)
    BY <2>6 DEF ReviewInv, Reviewing, ReadAs, Submitted, Verdict
  <2>8. client' \in [Client -> {Resting} \cup Asking] /\ Reviewing'
    BY <1>1, <2>2, <2>3, <2>5, <2>7, WritesToReviews
  <2>9. version' \in Nat /\ version <= version'
    BY <1>2, <1>4
  <2>10. ReviewTypeOK'
    BY <1>1, <2>5, <2>8, <2>9 DEF ReviewInv, ReviewTypeOK
  <2>11. QED
    BY <1>1, <2>8, <2>9, <2>10, JobsAside DEF ReviewInv
<1>5. QED
  BY <1>3, <1>4 DEF Insert

\* The table with the row of one review replaced, or with its state alone.
LEMMA RowOf ==
    ASSUME ReviewInv, NEW r \in Pk, NEW row \in [state : {"none", "gone", "PENDING"} \cup Verdict \cup {"DISMISSED"},
                     user : User, at : 0..MaxRequests], review' = [review EXCEPT ![r] = row]
    PROVE  /\ review' \in [Pk -> [state : {"none", "gone", "PENDING"} \cup Verdict \cup {"DISMISSED"},
                     user : User, at : 0..MaxRequests]]
           /\ review'[r] = row /\ \A q \in Pk : review'[q] # review[q] => q = r
BY DEF ReviewInv, ReviewTypeOK

LEMMA StateOf ==
    ASSUME ReviewInv, NEW r \in Pk, NEW state \in {"gone", "DISMISSED"}, review' = [review EXCEPT ![r].state = state]
    PROVE  /\ review' \in [Pk -> [state : {"none", "gone", "PENDING"} \cup Verdict \cup {"DISMISSED"},
                     user : User, at : 0..MaxRequests]]
           /\ review'[r].state = state /\ \A q \in Pk : review'[q] # review[q] => q = r
<1> DEFINE row == [review[r] EXCEPT !.state = state]
<1>1. row \in [state : {"none", "gone", "PENDING"} \cup Verdict \cup {"DISMISSED"},
                     user : User, at : 0..MaxRequests] /\ row.state = state
  BY DEF ReviewInv, ReviewTypeOK
<1>2. review' = [review EXCEPT ![r] = row]
  BY DEF ReviewInv, ReviewTypeOK
<1> HIDE DEF row
<1>3. QED
  BY <1>1, <1>2, RowOf

LEMMA SubmitStep == ASSUME ReviewInv, NEW c \in Client, Submit(c) PROVE ReviewInv'
<1> DEFINE a == [client[c] EXCEPT !.pc = "enqueue"]
<1>1. client[c] \in Asking /\ client[c].pc = "submit"
      /\ UNCHANGED <<raced, head, reports, merged, owing, cache, ledger, handler, late, requests, faults>>
  BY Kinds DEF Submit, ReviewInv
<1>2. PICK r \in Pk : r = client[c].review
  BY <1>1 DEF ReviewInv, Reviewing, ReadAs
<1>3. client[c].verdict \in Verdict /\ requests \in 0..MaxRequests /\ version \in Nat
  BY <1>1 DEF ReviewInv, Reviewing, ReadAs, ReviewTypeOK
<1>4. a \in Asking /\ a.pc = "enqueue" /\ client' = [client EXCEPT ![c] = a]
  BY <1>1 DEF Submit, Asking, ReviewInv, ReviewTypeOK
<1> HIDE DEF a
<1>5. \/ UNCHANGED <<review, version>>
      \/ /\ review' = [review EXCEPT ![r].state = client[c].verdict, ![r].at = requests]
         /\ version' = version + 1
  BY <1>2 DEF Submit
<1>6. /\ review' \in [Pk -> [state : {"none", "gone", "PENDING"} \cup Verdict \cup {"DISMISSED"},
                             user : User, at : 0..MaxRequests]]
      /\ \A q \in Pk : review'[q] # review[q] => q = r /\ review'[q].state \in Verdict
  <2>1. CASE UNCHANGED <<review, version>>
    BY <2>1 DEF ReviewInv, ReviewTypeOK
  <2>2. CASE review' = [review EXCEPT ![r].state = client[c].verdict, ![r].at = requests]
    <3> DEFINE row == [review[r] EXCEPT !.state = client[c].verdict, !.at = requests]
    <3>1. row \in [state : {"none", "gone", "PENDING"} \cup Verdict \cup {"DISMISSED"},
                     user : User, at : 0..MaxRequests] /\ row.state = client[c].verdict
      BY <1>3 DEF ReviewInv, ReviewTypeOK
    <3>2. review' = [review EXCEPT ![r] = row]
      BY <2>2 DEF ReviewInv, ReviewTypeOK
    <3> HIDE DEF row
    <3>3. review' \in [Pk -> [state : {"none", "gone", "PENDING"} \cup Verdict \cup {"DISMISSED"},
                              user : User, at : 0..MaxRequests]]
      BY <3>1, <3>2, RowOf
    <3>4. review'[r] = row /\ \A q \in Pk : review'[q] # review[q] => q = r
      BY <3>1, <3>2, RowOf
    <3>5. QED
      BY <1>3, <3>1, <3>3, <3>4
  <2>3. QED
    BY <1>5, <2>1, <2>2
<1>7. /\ \A d \in Client \ {c} : client[d].pc = "submit" /\ client[d].review = r => r \in raced
      /\ \A q \in Pk : review'[q] # review[q] => Submitted(q)'
  BY <1>1, <1>2, <1>6 DEF ReviewInv, Reviewing, Rivals, Submitted
<1>8. client' \in [Client -> {Resting} \cup Asking] /\ Reviewing'
  <2>1. a \in {Resting} \cup Asking /\ a.pc \notin {"submit", "dismiss"}
    BY <1>4
  <2>2. \A q \in Pk, d \in Client \ {c} : review'[q] # review[q] =>
            /\ client[d].pc = "submit" /\ client[d].review = q => q \in raced
            /\ Submitted(q)'
    BY <1>6, <1>7
  <2>3. QED
    BY <1>1, <1>4, <1>6, <2>1, <2>2, WritesToReviews
<1>9. version' \in Nat /\ version <= version'
  BY <1>3, <1>5
<1>10. ReviewTypeOK'
  BY <1>1, <1>6, <1>8, <1>9 DEF ReviewInv, ReviewTypeOK
<1>11. QED
  BY <1>1, <1>8, <1>9, <1>10, JobsAside DEF ReviewInv

LEMMA DismissStep == ASSUME ReviewInv, NEW c \in Client, Dismiss(c) PROVE ReviewInv'
<1> DEFINE a == [client[c] EXCEPT !.pc = "enqueue"]
<1>1. client[c] \in Asking /\ client[c].pc = "dismiss" /\ version' = version + 1
      /\ UNCHANGED <<raced, head, reports, merged, owing, cache, ledger, handler, late, requests, faults>>
  BY Kinds DEF Dismiss, ReviewInv
<1>2. PICK r \in Pk : r = client[c].review /\ Submitted(r)
  BY <1>1 DEF ReviewInv, Reviewing, ReadAs
<1>3. 0 \in 0..MaxRequests /\ version \in Nat
  BY ReviewBounds DEF ReviewInv, ReviewTypeOK
<1>4. a \in Asking /\ a.pc = "enqueue" /\ client' = [client EXCEPT ![c] = a]
  BY <1>1 DEF Dismiss, Asking, ReviewInv, ReviewTypeOK
<1> HIDE DEF a
<1>5. review' = [review EXCEPT ![r].state = "DISMISSED"]
  BY <1>2 DEF Dismiss
<1>6. /\ review' \in [Pk -> [state : {"none", "gone", "PENDING"} \cup Verdict \cup {"DISMISSED"},
                             user : User, at : 0..MaxRequests]]
      /\ \A q \in Pk : review'[q] # review[q] => q = r /\ review'[q].state = "DISMISSED"
  BY <1>3, <1>5, StateOf
<1>7. /\ \A d \in Client \ {c} : client[d].pc = "submit" /\ client[d].review = r => r \in raced
      /\ \A q \in Pk : review'[q] # review[q] => Submitted(q)'
  BY <1>2, <1>6 DEF ReviewInv, Reviewing, ReadAs, Submitted, Verdict
<1>8. client' \in [Client -> {Resting} \cup Asking] /\ Reviewing'
  <2>1. a \in {Resting} \cup Asking /\ a.pc \notin {"submit", "dismiss"}
    BY <1>4
  <2>2. \A q \in Pk, d \in Client \ {c} : review'[q] # review[q] =>
            /\ client[d].pc = "submit" /\ client[d].review = q => q \in raced
            /\ Submitted(q)'
    BY <1>6, <1>7
  <2>3. QED
    BY <1>1, <1>4, <1>6, <2>1, <2>2, WritesToReviews
<1>9. version' \in Nat /\ version <= version'
  BY <1>1, <1>3
<1>10. ReviewTypeOK'
  BY <1>1, <1>6, <1>8, <1>9 DEF ReviewInv, ReviewTypeOK
<1>11. QED
  BY <1>1, <1>8, <1>9, <1>10, JobsAside DEF ReviewInv

LEMMA DeleteStep == ASSUME ReviewInv, NEW c \in Client, Delete(c) PROVE ReviewInv'
<1>1. client' = [client EXCEPT ![c] = Resting] /\ Resting.pc = "idle"
      /\ UNCHANGED <<raced, head, reports, merged, owing, version, cache, ledger, handler, late, requests, faults>>
  BY DEF Delete, Resting
<1>2. PICK r : r = client[c].review
  OBVIOUS
<1>3. review' = review \/ (r \in Pk /\ Deletable(r) /\ review' = [review EXCEPT ![r].state = "gone"])
  BY <1>2 DEF Delete, ReviewInv, ReviewTypeOK
<1>4. /\ review' \in [Pk -> [state : {"none", "gone", "PENDING"} \cup Verdict \cup {"DISMISSED"},
                             user : User, at : 0..MaxRequests]]
      /\ \A q \in Pk : review'[q] # review[q] => review[q].state = "PENDING" /\ review'[q].state = "gone"
  <2>1. 0 \in 0..MaxRequests /\ "gone" \in {"gone"} \cup Verdict \cup {"DISMISSED"}
    BY ReviewBounds
  <2>2. CASE review' = review
    BY <2>2 DEF ReviewInv, ReviewTypeOK
  <2>3. CASE r \in Pk /\ Deletable(r) /\ review' = [review EXCEPT ![r].state = "gone"]
    <3>1. /\ review' \in [Pk -> [state : {"none", "gone", "PENDING"} \cup Verdict \cup {"DISMISSED"},
                                  user : User, at : 0..MaxRequests]]
          /\ review'[r].state = "gone" /\ \A q \in Pk : review'[q] # review[q] => q = r
      BY <2>1, <2>3, StateOf
    <3>2. QED
      BY <2>3, <3>1 DEF Deletable
  <2>4. QED
    BY <1>3, <2>2, <2>3
<1>5. \A q \in Pk, d \in Client : client[d].pc = "dismiss" /\ client[d].review = q => review[q].state # "PENDING"
  BY DEF ReviewInv, Reviewing, ReadAs, Submitted, Verdict
<1>6. client' \in [Client -> {Resting} \cup Asking] /\ Reviewing'
  <2>1. \A q \in Pk, d \in Client \ {c} : review'[q] # review[q] =>
            /\ review'[q].state \in {"PENDING", "gone"}
            /\ ~(client[d].pc = "dismiss" /\ client[d].review = q)
    BY <1>4, <1>5
  <2>2. \A q \in Pk, d \in Client \ {c} : review'[q] # review[q] =>
            /\ client[d].pc = "submit" /\ client[d].review = q =>
                   q \in raced \/ review'[q].state \in {"PENDING", "gone"}
            /\ client[d].pc = "dismiss" /\ client[d].review = q => Submitted(q)'
    BY <2>1
  <2>3. PICK a : a = Resting
    OBVIOUS
  <2>4. /\ a.pc \notin {"submit", "dismiss"} /\ UNCHANGED raced /\ a \in {Resting} \cup Asking
        /\ client' = [client EXCEPT ![c] = a]
    BY <1>1, <2>3
  <2>5. review' \in [Pk -> [state : {"none", "gone", "PENDING"} \cup Verdict \cup {"DISMISSED"},
                            user : User, at : 0..MaxRequests]]
    BY <1>4
  <2>6. QED
    BY <2>2, <2>4, <2>5, WritesToReviews
<1>7. version' \in Nat /\ version <= version'
  BY <1>1 DEF ReviewInv, ReviewTypeOK
<1>8. ReviewTypeOK'
  BY <1>1, <1>4, <1>6, <1>7 DEF ReviewInv, ReviewTypeOK
<1>9. QED
  BY <1>1, <1>6, <1>7, <1>8, JobsAside DEF ReviewInv

-----------------------------------------------------------------------------
(* The queue and the handler. *)

\* A live job keeps a second one from being accepted: every review has one key.
LEMMA Enqueued ==
    ASSUME ReviewInv, NEW r, EnqueueFor(r), UNCHANGED <<handler, cache, version>>
    PROVE  /\ ledger' \in [Slot -> [state : {"none", "queued", "running", "dead"}, key : Key \cup {NoKey},
                                    handled : BOOLEAN, attempts : 0..MaxAttempts]]
           /\ late' \in BOOLEAN /\ Recomputing'
<1>1. late' \in BOOLEAN
  BY DEF EnqueueFor
<1>2. CASE Active(Issue) # {}
  <2>1. ledger' = ledger
    BY <1>2 DEF EnqueueFor, KeyFor
  <2>2. QED
    BY <1>1, <2>1 DEF ReviewInv, ReviewTypeOK, Recomputing, OneLive, Jobs!Live
<1>3. CASE Active(Issue) = {}
  <2>1. PICK s \in Slot : Jobs!Accept(s, Issue, TRUE)
    BY <1>3 DEF EnqueueFor, KeyFor
  <2> DEFINE job == [state |-> "queued", key |-> Issue, handled |-> TRUE, attempts |-> 0]
  <2>2. job \in [state : {"none", "queued", "running", "dead"}, key : Key \cup {NoKey},
                 handled : BOOLEAN, attempts : 0..MaxAttempts] /\ job.state = "queued" /\ job.key = Issue
    BY ReviewBounds DEF Key
  <2>3. ledger' = [ledger EXCEPT ![s] = job] /\ ledger[s].state = "none"
    BY <2>1 DEF Jobs!Accept
  <2> HIDE DEF job
  <2>4. /\ ledger' \in [Slot -> [state : {"none", "queued", "running", "dead"}, key : Key \cup {NoKey},
                                 handled : BOOLEAN, attempts : 0..MaxAttempts]]
        /\ ledger'[s] = job /\ \A t \in Slot \ {s} : ledger'[t] = ledger[t]
    BY <2>2, <2>3 DEF ReviewInv, ReviewTypeOK
  <2>5. \A t \in Slot : ~Jobs!Live(t)
    BY <1>3 DEF Active, ReviewInv, Recomputing, OneLive
  <2>6. \A t \in Slot : Jobs!Live(t)' => t = s
    BY <2>4, <2>5 DEF Jobs!Live
  <2>7. OneLive'
    BY <2>2, <2>4, <2>6 DEF OneLive
  <2>8. \A t \in Slot : handler[t] # Resting => ledger'[t].state = "running"
    BY <2>3, <2>4 DEF ReviewInv, Recomputing
  <2>9. QED
    BY <1>1, <2>4, <2>7, <2>8 DEF ReviewInv, Recomputing
<1>4. QED
  BY <1>2, <1>3

LEMMA EnqueueStep ==
    ASSUME ReviewInv, NEW c \in Client, Enqueue(c) \/ EnqueueLost(c) PROVE ReviewInv'
<1>1. client' = [client EXCEPT ![c] = Resting] /\ Resting.pc = "idle"
      /\ UNCHANGED <<review, raced, head, reports, merged, owing, version, cache, handler, requests>>
  BY DEF Enqueue, EnqueueLost, Resting
<1>2. review' \in [Pk -> [state : {"none", "gone", "PENDING"} \cup Verdict \cup {"DISMISSED"},
                          user : User, at : 0..MaxRequests]]
  BY <1>1 DEF ReviewInv, ReviewTypeOK
<1>3. client' \in [Client -> {Resting} \cup Asking] /\ Reviewing'
  BY <1>1, <1>2, WritesToReviews
<1>4. /\ ledger' \in [Slot -> [state : {"none", "queued", "running", "dead"}, key : Key \cup {NoKey},
                               handled : BOOLEAN, attempts : 0..MaxAttempts]]
      /\ late' \in BOOLEAN /\ Recomputing' /\ faults' \in 0..MaxFaults
  <2>1. CASE Enqueue(c)
    BY <1>1, <2>1, Enqueued DEF Enqueue, ReviewInv, ReviewTypeOK
  <2>2. CASE EnqueueLost(c)
    <3>1. ledger' = ledger /\ late' = TRUE /\ faults' = faults + 1 /\ faults < MaxFaults
      BY <2>2 DEF EnqueueLost
    <3>2. faults' \in 0..MaxFaults /\ version' \in Nat /\ version <= version'
      BY <1>1, <3>1, ReviewBounds DEF ReviewInv, ReviewTypeOK
    <3>3. QED
      BY <1>1, <3>1, <3>2, JobsAside DEF ReviewInv, ReviewTypeOK
  <2>3. QED
    BY <2>1, <2>2
<1>5. ReviewTypeOK'
  BY <1>1, <1>2, <1>3, <1>4 DEF ReviewInv, ReviewTypeOK
<1>6. QED
  BY <1>3, <1>4, <1>5 DEF ReviewInv

LEMMA ReportStep ==
    ASSUME ReviewInv, Report \/ ReportEnqueue \/ ReportLost \/ Merges \/ HeadMoves PROVE ReviewInv'
<1>1. UNCHANGED <<review, client, raced, version, cache, handler, requests>>
  BY DEF Report, ReportEnqueue, ReportLost, Merges, HeadMoves
<1>2. Reviewing' /\ version' \in Nat /\ version <= version'
  BY <1>1, ReviewsAside DEF ReviewInv, ReviewTypeOK
<1>3. CASE Report \/ ReportLost \/ Merges \/ HeadMoves
  <2>1. UNCHANGED ledger /\ faults' \in 0..MaxFaults
    BY <1>3, ReviewBounds DEF Report, ReportLost, Merges, HeadMoves, ReviewInv, ReviewTypeOK
  <2>2. reports' \in Nat /\ owing' \in Nat /\ head' \in Nat /\ merged' \in BOOLEAN /\ late' \in BOOLEAN
    <3>1. head \in Nat /\ reports \in Nat /\ owing \in Nat /\ merged \in BOOLEAN /\ late \in BOOLEAN
      BY DEF ReviewInv, ReviewTypeOK
    <3>2. CASE Report
      <4>1. reports' = reports + 1 /\ UNCHANGED <<head, merged>>
        BY <3>2 DEF Report
      <4>2. (late' = TRUE /\ owing' = owing) \/ (owing' = owing + 1 /\ late' = late)
        BY <3>1, <3>2 DEF Report
      <4>3. reports' \in Nat /\ owing' \in Nat
        BY <3>1, <4>1, <4>2
      <4>4. late' \in BOOLEAN
        BY <3>1, <4>2
      <4>5. QED
        BY <3>1, <4>1, <4>3, <4>4
    <3>3. CASE ReportLost
      BY <3>1, <3>3 DEF ReportLost
    <3>4. CASE Merges
      <4>1. merged' = TRUE /\ owing' \in 0..owing /\ UNCHANGED <<head, reports>>
        BY <3>4 DEF Merges
      <4>2. late' \in BOOLEAN
        BY <3>4 DEF Merges
      <4>3. owing' \in Nat /\ head' \in Nat /\ reports' \in Nat
        BY <3>1, <4>1
      <4>4. merged' \in BOOLEAN
        BY <4>1
      <4>5. QED
        BY <4>2, <4>3, <4>4
    <3>5. CASE HeadMoves
      <4>1. /\ head + reports < MaxReports /\ head' = head + 1 /\ late' = TRUE /\ owing' \in 0..owing
            /\ reports' \in 0..MaxReports - head' /\ merged' = merged
        BY <3>5 DEF HeadMoves
      <4>2. MaxReports - head' \in Nat
        BY <3>1, <4>1, ReviewBounds
      <4>3. QED
        BY <3>1, <4>1, <4>2
    <3>6. QED
      BY <1>3, <3>2, <3>3, <3>4, <3>5
  <2>3. ReviewTypeOK'
    BY <1>1, <2>1, <2>2 DEF ReviewInv, ReviewTypeOK
  <2>4. QED
    BY <1>1, <1>2, <2>1, <2>3, JobsAside DEF ReviewInv
<1>5. CASE ReportEnqueue
  <2>1. owing' \in Nat /\ EnqueueFor(0) /\ UNCHANGED <<head, reports, merged, faults>>
    BY <1>5 DEF ReportEnqueue, ReviewInv, ReviewTypeOK
  <2>2. /\ ledger' \in [Slot -> [state : {"none", "queued", "running", "dead"}, key : Key \cup {NoKey},
                                 handled : BOOLEAN, attempts : 0..MaxAttempts]]
        /\ late' \in BOOLEAN /\ Recomputing'
    BY <1>1, <2>1, Enqueued
  <2>3. ReviewTypeOK'
    BY <1>1, <2>1, <2>2 DEF ReviewInv, ReviewTypeOK
  <2>4. QED
    BY <1>2, <2>2, <2>3 DEF ReviewInv
<1>6. QED
  BY <1>3, <1>5

\* A step of the one job that runs: its slot and its handler.
LEMMA JobStep ==
    ASSUME ReviewInv, NEW s \in Slot, Jobs!Live(s),
           UNCHANGED <<review, client, raced, head, reports, merged, owing, version, requests>>,
           late' \in BOOLEAN, faults' \in 0..MaxFaults,
           NEW job \in [state : {"none", "queued", "running", "dead"}, key : Key \cup {NoKey},
                        handled : BOOLEAN, attempts : 0..MaxAttempts],
           ledger' = [ledger EXCEPT ![s] = job],
           job.state \in {"queued", "running"} => job.key = Issue,
           NEW h \in {Resting} \cup Working, handler' = [handler EXCEPT ![s] = h],
           h # Resting => job.state = "running" /\ h.version <= version,
           cache' \in [decision : Blocking \cup {"none"}, version : Nat, head : Nat, reports : Nat],
           cache'.version <= version, h.pc \in {"reports", "store"} => cache'.version <= h.version
    PROVE  ReviewInv'
<1>1. /\ ledger' \in [Slot -> [state : {"none", "queued", "running", "dead"}, key : Key \cup {NoKey},
                               handled : BOOLEAN, attempts : 0..MaxAttempts]]
      /\ ledger'[s] = job /\ \A t \in Slot \ {s} : ledger'[t] = ledger[t]
  BY DEF ReviewInv, ReviewTypeOK
<1>2. /\ handler' \in [Slot -> {Resting} \cup Working]
      /\ handler'[s] = h /\ \A t \in Slot \ {s} : handler'[t] = handler[t]
  BY DEF ReviewInv, ReviewTypeOK
<1>3. ReviewTypeOK'
  BY <1>1, <1>2 DEF ReviewInv, ReviewTypeOK
<1>4. \A t \in Slot \ {s} : ~Jobs!Live(t) /\ ~Jobs!Live(t)'
  BY <1>1 DEF ReviewInv, Recomputing, OneLive, Jobs!Live
<1>5. OneLive'
  BY <1>1, <1>4 DEF OneLive, Jobs!Live
<1>6. \A t \in Slot \ {s} : handler[t] = Resting
  BY <1>4 DEF ReviewInv, Recomputing, Jobs!Live
<1>7. Resting.pc = "idle"
  BY DEF Resting
<1>8. Recomputing'
  BY <1>1, <1>2, <1>5, <1>6, <1>7 DEF ReviewInv, Recomputing
<1>9. Reviewing'
  BY ReviewsAside
<1>10. QED
  BY <1>3, <1>8, <1>9 DEF ReviewInv

\* What the queue and the handler are about, in a step of slot s.
LEMMA Slots ==
    ASSUME ReviewInv, NEW s \in Slot
    PROVE  /\ ledger[s] \in [state : {"none", "queued", "running", "dead"}, key : Key \cup {NoKey},
                             handled : BOOLEAN, attempts : 0..MaxAttempts]
           /\ handler[s] # Resting => /\ handler[s] \in Working /\ ledger[s].state = "running"
                                      /\ handler[s].version <= version
           /\ Jobs!Live(s) => ledger[s].key = Issue
           /\ Jobs!Live(s) <=> ledger[s].state \in {"queued", "running"}
           /\ Resting.pc = "idle" /\ version \in Nat /\ cache.version \in Nat /\ cache.version <= version
           /\ cache \in [decision : Blocking \cup {"none"}, version : Nat, head : Nat, reports : Nat]
           /\ late \in BOOLEAN /\ faults \in 0..MaxFaults /\ head \in Nat /\ reports \in Nat
           /\ ledger = [ledger EXCEPT ![s] = ledger[s]] /\ handler = [handler EXCEPT ![s] = handler[s]]
BY DEF ReviewInv, ReviewTypeOK, Recomputing, OneLive, Jobs!Live, Resting

LEMMA JobStartsStep == ASSUME ReviewInv, NEW s \in Slot, JobStarts(s) PROVE ReviewInv'
<1> DEFINE job == [ledger[s] EXCEPT !.state = "running", !.attempts = @ + 1]
           h == [pc |-> "load", decision |-> "none", version |-> 0, head |-> 0, reports |-> 0]
<1>1. /\ ledger[s].state = "queued" /\ ledger[s].attempts < MaxAttempts
      /\ UNCHANGED <<review, client, raced, head, reports, merged, owing, version, cache, late, requests, faults>>
      /\ handler' = [handler EXCEPT ![s] = h]
  BY DEF JobStarts, Jobs!Start
<1>2. ledger' = [ledger EXCEPT ![s] = job]
  BY DEF JobStarts, Jobs!Start, ReviewInv, ReviewTypeOK
<1>3. ledger[s].attempts + 1 \in 0..MaxAttempts
  BY <1>1, Slots, ReviewBounds
<1>4. job \in [state : {"none", "queued", "running", "dead"}, key : Key \cup {NoKey},
               handled : BOOLEAN, attempts : 0..MaxAttempts]
      /\ job.state = "running" /\ job.key = ledger[s].key
  BY <1>3, Slots
<1>5. h \in Working /\ h.pc = "load" /\ h.version = 0
  BY DEF Working
<1> HIDE DEF job, h
<1>6. Jobs!Live(s) /\ job.key = Issue
  BY <1>1, <1>4, Slots
<1>7. 0 <= version
  BY Slots
<1>8. QED
  BY <1>1, <1>2, <1>4, <1>5, <1>6, <1>7, Slots, JobStep

LEMMA JobReadsStep == ASSUME ReviewInv, NEW s \in Slot, JobReads(s) PROVE ReviewInv'
<1>1. /\ UNCHANGED <<review, client, raced, head, reports, merged, owing, version, cache, ledger, late, requests, faults>>
      /\ handler[s] # Resting
  BY DEF JobReads, Resting
<1>2. handler[s] \in Working /\ ledger[s].state = "running" /\ Jobs!Live(s) /\ ledger[s].key = Issue
  BY <1>1, Slots
<1>3. Decision \in Blocking \cup {"none"}
  BY DEF Decision, Blocking
<1>4. ASSUME NEW h \in Working, handler' = [handler EXCEPT ![s] = h], h.version <= version,
             h.pc \in {"reports", "store"} => cache.version <= h.version
      PROVE  ReviewInv'
  BY <1>1, <1>2, <1>4, Slots, JobStep
<1>5. CASE handler' = [handler EXCEPT ![s].pc = "reviews", ![s].head = head]
  <2> DEFINE h == [handler[s] EXCEPT !.pc = "reviews", !.head = head]
  <2>1. handler' = [handler EXCEPT ![s] = h]
    BY <1>5 DEF ReviewInv, ReviewTypeOK
  <2>2. h \in Working /\ h.pc = "reviews" /\ h.version = handler[s].version
    BY <1>2, Slots DEF Working
  <2> HIDE DEF h
  <2>3. QED
    BY <1>1, <1>4, <2>1, <2>2, Slots
<1>6. CASE handler' = [handler EXCEPT ![s].pc = "reports", ![s].decision = Decision, ![s].version = version]
  <2> DEFINE h == [handler[s] EXCEPT !.pc = "reports", !.decision = Decision, !.version = version]
  <2>1. handler' = [handler EXCEPT ![s] = h]
    BY <1>6 DEF ReviewInv, ReviewTypeOK
  <2>2. h \in Working /\ h.version = version
    BY <1>2, <1>3, Slots DEF Working
  <2> HIDE DEF h
  <2>3. h.version <= version /\ cache.version <= h.version
    BY <2>2, Slots
  <2>4. QED
    BY <1>4, <2>1, <2>2, <2>3
<1>7. ASSUME handler[s].pc = "reports",
             NEW n \in Nat, handler' = [handler EXCEPT ![s].pc = "store", ![s].reports = n]
      PROVE  ReviewInv'
  <2> DEFINE h == [handler[s] EXCEPT !.pc = "store", !.reports = n]
  <2>1. handler' = [handler EXCEPT ![s] = h]
    BY <1>7 DEF ReviewInv, ReviewTypeOK
  <2>2. h \in Working /\ h.version = handler[s].version
    BY <1>2 DEF Working
  <2>3. cache.version <= handler[s].version
    BY <1>7 DEF ReviewInv, Recomputing
  <2> HIDE DEF h
  <2>4. QED
    BY <1>1, <1>4, <2>1, <2>2, <2>3, Slots
<1>8. \A n \in IF handler[s].head = head THEN {reports} ELSE 0..MaxReports : n \in Nat
  BY ReviewBounds, Slots
<1>9. QED
  BY <1>5, <1>6, <1>7, <1>8 DEF JobReads

LEMMA JobStoresStep == ASSUME ReviewInv, NEW s \in Slot, JobStores(s) PROVE ReviewInv'
<1> DEFINE h == [handler[s] EXCEPT !.pc = "done"]
           row == [decision |-> handler[s].decision, version |-> handler[s].version,
                   head |-> handler[s].head, reports |-> handler[s].reports]
<1>1. /\ UNCHANGED <<review, client, raced, head, reports, merged, owing, version, ledger, late, requests, faults>>
      /\ handler[s] # Resting /\ cache' = row
  BY DEF JobStores, Resting
<1>2. handler' = [handler EXCEPT ![s] = h]
  BY DEF JobStores, ReviewInv, ReviewTypeOK
<1>3. handler[s] \in Working /\ ledger[s].state = "running" /\ Jobs!Live(s) /\ ledger[s].key = Issue
      /\ handler[s].version <= version
  BY <1>1, Slots
<1>4. h \in Working /\ h.pc = "done" /\ h.version = handler[s].version
  BY <1>3 DEF Working
<1>5. row \in [decision : Blocking \cup {"none"}, version : Nat, head : Nat, reports : Nat]
      /\ row.version = handler[s].version
  BY <1>3 DEF Working
<1> HIDE DEF h, row
<1>6. QED
  BY <1>1, <1>2, <1>3, <1>4, <1>5, Slots, JobStep

LEMMA JobEndsStep == ASSUME ReviewInv, NEW s \in Slot, JobEnds(s) PROVE ReviewInv'
<1>1. /\ UNCHANGED <<review, client, raced, head, reports, merged, owing, version, cache, late, requests, faults>>
      /\ ledger[s].state = "running" /\ ledger' = [ledger EXCEPT ![s] = Jobs!Free]
      /\ handler' = [handler EXCEPT ![s] = Resting]
  BY DEF JobEnds, Jobs!Finish
<1>2. Jobs!Free \in [state : {"none", "queued", "running", "dead"}, key : Key \cup {NoKey},
                     handled : BOOLEAN, attempts : 0..MaxAttempts]
      /\ Jobs!Free.state = "none"
  BY ReviewBounds DEF Jobs!Free
<1>3. Jobs!Live(s)
  BY <1>1, Slots
<1>4. QED
  BY <1>1, <1>2, <1>3, Slots, JobStep

LEMMA JobFailsStep == ASSUME ReviewInv, NEW s \in Slot, JobFails(s) PROVE ReviewInv'
<1>1. /\ UNCHANGED <<review, client, raced, head, reports, merged, owing, version, cache, requests>>
      /\ handler' = [handler EXCEPT ![s] = Resting] /\ late' \in BOOLEAN
      /\ faults' = faults + 1 /\ faults < MaxFaults /\ ledger[s].state = "running"
  BY DEF JobFails, Jobs!Retry, Jobs!Park
<1>2. PICK state \in {"queued", "dead"} : ledger' = [ledger EXCEPT ![s].state = state]
  BY DEF JobFails, Jobs!Retry, Jobs!Park
<1> DEFINE job == [ledger[s] EXCEPT !.state = state]
<1>3. ledger' = [ledger EXCEPT ![s] = job]
  BY <1>2 DEF ReviewInv, ReviewTypeOK
<1>4. job \in [state : {"none", "queued", "running", "dead"}, key : Key \cup {NoKey},
               handled : BOOLEAN, attempts : 0..MaxAttempts] /\ job.key = ledger[s].key
  BY Slots
<1>5. Jobs!Live(s) /\ ledger[s].key = Issue
  BY <1>1, Slots
<1>6. faults' \in 0..MaxFaults
  BY <1>1, ReviewBounds, Slots
<1> HIDE DEF job
<1>7. QED
  BY <1>1, <1>3, <1>4, <1>5, <1>6, Slots, JobStep

-----------------------------------------------------------------------------
LEMMA ReviewInductive == ReviewInv /\ [ReviewNext]_reviewVars => ReviewInv'
<1> SUFFICES ASSUME ReviewInv, [ReviewNext]_reviewVars PROVE ReviewInv'
  OBVIOUS
<1>1. ASSUME NEW c \in Client, RequestReads(c) PROVE ReviewInv'
  BY <1>1, CreateReadsStep, SubmitReadsStep, DismissReadsStep, DeleteReadsStep DEF RequestReads
<1>2. ASSUME NEW c \in Client,
             Insert(c) \/ Submit(c) \/ Dismiss(c) \/ Delete(c) \/ Enqueue(c) \/ EnqueueLost(c)
      PROVE  ReviewInv'
  BY <1>2, InsertStep, SubmitStep, DismissStep, DeleteStep, EnqueueStep
<1>3. CASE Report \/ ReportEnqueue \/ ReportLost \/ Merges \/ HeadMoves
  BY <1>3, ReportStep
<1>4. ASSUME NEW s \in Slot,
             JobStarts(s) \/ JobReads(s) \/ JobStores(s) \/ JobEnds(s) \/ JobFails(s)
      PROVE  ReviewInv'
  BY <1>4, JobStartsStep, JobReadsStep, JobStoresStep, JobEndsStep, JobFailsStep
<1>5. CASE UNCHANGED reviewVars
  BY <1>5 DEF reviewVars, ReviewInv, ReviewTypeOK, Reviewing, Rivals, ReadAs, Submitted, Recomputing, OneLive,
              Jobs!Live
<1>6. QED
  BY <1>1, <1>2, <1>3, <1>4, <1>5 DEF ReviewNext

LEMMA ReviewInvariant == ReviewSpec => []ReviewInv
BY ReviewInitially, ReviewInductive, PTL DEF ReviewSpec

\* Every state has the types of ReviewTypeOK, whatever requests, reports and jobs
\* cross (domain/review_service.go).
THEOREM ReviewTypeCorrect == ReviewSpec => []ReviewTypeOK
<1>1. ReviewInv => ReviewTypeOK
  BY DEF ReviewInv
<1>2. QED
  BY <1>1, ReviewInvariant, PTL

\* A submitted review is never edited back, deleted or given another verdict, unless
\* two submissions had read it as a draft: only a dismissal changes it
\* (SubmitReview, DismissReview, DeleteReview of domain/review_service.go).
THEOREM SubmittedReviewsAreFinal == ReviewSpec => FinalUnlessRaced
<1> DEFINE Final == \A r \in Pk : Submitted(r) /\ review'[r] # review[r] =>
                        r \in raced \/ review'[r].state = "DISMISSED"
<1>1. ASSUME ReviewInv, [ReviewNext]_reviewVars PROVE [Final]_reviewVars
  <2> SUFFICES ASSUME ReviewNext, NEW r \in Pk, Submitted(r), review'[r] # review[r]
               PROVE  r \in raced \/ review'[r].state = "DISMISSED"
    BY <1>1
  <2>1. review \in [Pk -> [state : {"none", "gone", "PENDING"} \cup Verdict \cup {"DISMISSED"},
                           user : User, at : 0..MaxRequests]]
    BY <1>1 DEF ReviewInv, ReviewTypeOK
  <2>2. PICK c \in Client : Insert(c) \/ Submit(c) \/ Dismiss(c) \/ Delete(c)
    <3>1. ASSUME NEW c \in Client, RequestReads(c) \/ Enqueue(c) \/ EnqueueLost(c) PROVE review' = review
      BY <3>1 DEF RequestReads, CreateReads, SubmitReads, DismissReads, DeleteReads, Enqueue, EnqueueLost
    <3>2. Report \/ ReportEnqueue \/ ReportLost \/ Merges \/ HeadMoves => review' = review
      BY DEF Report, ReportEnqueue, ReportLost, Merges, HeadMoves
    <3>3. ASSUME NEW s \in Slot, JobStarts(s) \/ JobReads(s) \/ JobStores(s) \/ JobEnds(s) \/ JobFails(s)
          PROVE  review' = review
      BY <3>3 DEF JobStarts, JobReads, JobStores, JobEnds, JobFails
    <3>4. QED
      BY <3>1, <3>2, <3>3 DEF ReviewNext
  <2>3. CASE Insert(c)
    BY <2>1, <2>3 DEF Insert, Fresh, Submitted, Verdict
  <2>4. CASE Submit(c)
    <3>1. client[c].review = r /\ client[c].pc = "submit"
      BY <2>1, <2>4 DEF Submit
    <3>2. QED
      BY <1>1, <3>1 DEF ReviewInv, Reviewing, ReadAs, Submitted, Verdict
  <2>5. CASE Dismiss(c)
    BY <2>1, <2>5 DEF Dismiss
  <2>6. CASE Delete(c)
    BY <2>1, <2>6 DEF Delete, Deletable, Submitted, Verdict
  <2>7. QED
    BY <2>2, <2>3, <2>4, <2>5, <2>6
<1>2. QED
  BY <1>1, ReviewInvariant, PTL DEF ReviewSpec, FinalUnlessRaced

\* The stored decision is never replaced by that of an older set of reviews
\* (RecomputeReviewDecision, domain/review_service.go).
THEOREM DecisionOnlyAdvances == ReviewSpec => CacheOnlyAdvances
<1>1. ASSUME ReviewInv, [ReviewNext]_reviewVars PROVE [cache'.version >= cache.version]_reviewVars
  <2> SUFFICES ASSUME ReviewNext, cache' # cache PROVE cache'.version >= cache.version
    BY <1>1 DEF reviewVars, ReviewInv, ReviewTypeOK
  <2>1. PICK s \in Slot : JobStores(s)
    <3>1. ASSUME NEW c \in Client,
                 RequestReads(c) \/ Insert(c) \/ Submit(c) \/ Dismiss(c) \/ Delete(c) \/ Enqueue(c) \/ EnqueueLost(c)
          PROVE  cache' = cache
      BY <3>1 DEF RequestReads, CreateReads, SubmitReads, DismissReads, DeleteReads, Insert, Submit,
                  Dismiss, Delete, Enqueue, EnqueueLost
    <3>2. Report \/ ReportEnqueue \/ ReportLost \/ Merges \/ HeadMoves => cache' = cache
      BY DEF Report, ReportEnqueue, ReportLost, Merges, HeadMoves
    <3>3. ASSUME NEW s \in Slot, JobStarts(s) \/ JobReads(s) \/ JobEnds(s) \/ JobFails(s) PROVE cache' = cache
      BY <3>3 DEF JobStarts, JobReads, JobEnds, JobFails
    <3>4. QED
      BY <3>1, <3>2, <3>3 DEF ReviewNext
  <2>2. handler[s].pc = "store" /\ cache'.version = handler[s].version
    BY <2>1 DEF JobStores
  <2>3. handler[s] \in Working /\ cache.version \in Nat /\ cache.version <= handler[s].version
    BY <1>1, <2>2, Slots DEF Recomputing, ReviewInv, Resting
  <2>4. QED
    BY <2>2, <2>3 DEF Working
<1>2. QED
  BY <1>1, ReviewInvariant, PTL DEF ReviewSpec, CacheOnlyAdvances

-----------------------------------------------------------------------------
(* The stored decision settles.  A recompute is still owed, or the one     *)
(* that runs has read only what still holds, or the row stored is the      *)
(* decision of today.                                                      *)

Today == [decision |-> Decision, version |-> version, head |-> head, reports |-> reports]

Owed ==
    \/ late \/ owing > 0
    \/ \E c \in Client : client[c].pc = "enqueue"
    \/ \E s \in Slot : ledger[s].state = "queued"

CaughtUp(s) ==
    \/ handler[s].pc = "load"
    \/ handler[s].pc = "reviews" /\ handler[s].head = head
    \/ /\ handler[s].pc = "reports" /\ handler[s].head = head
       /\ handler[s].decision = Decision /\ handler[s].version = version
    \/ /\ handler[s].pc = "store" /\ handler[s].head = head /\ handler[s].reports = reports
       /\ handler[s].decision = Decision /\ handler[s].version = version

Settling ==
    \/ Owed
    \/ \E s \in Slot : CaughtUp(s)
    \/ cache = Today /\ \A s \in Slot : handler[s].pc \in {"idle", "done"}

\* What is no opinion, before and after, does not count.
LEMMA DecisionSame ==
    ASSUME \A r \in Pk : \/ review'[r] = review[r]
                         \/ review[r].state \notin Opinion /\ review'[r].state \notin Opinion
    PROVE  Decision' = Decision
<1>1. ASSUME NEW u \in User, NEW state \in Blocking PROVE Stands(u, state)' <=> Stands(u, state)
  <2>1. Opinions(u)' = Opinions(u) /\ \A r \in Opinions(u) : r \in Pk /\ review'[r] = review[r]
    BY DEF Opinions
  <2>2. \A q, r \in Opinions(u) : Before(q, r)' <=> Before(q, r)
    BY <2>1 DEF Before
  <2>3. QED
    BY <2>1, <2>2 DEF Stands
<1>2. QED
  BY <1>1 DEF Decision, Blocking

LEMMA DecisionKept == ASSUME UNCHANGED review PROVE Decision' = Decision
BY DecisionSame

\* A step of the requests after which the reviews decide as before.
LEMMA SettlingAside ==
    ASSUME Settling, Decision' = Decision, UNCHANGED <<head, reports, version, cache, ledger, handler>>,
           owing' >= owing, owing \in Nat, owing' \in Nat, late' = late,
           \A c \in Client : client[c].pc = "enqueue" => client'[c].pc = "enqueue"
    PROVE  Settling'
<1>1. Owed => Owed'
  BY DEF Owed
<1>2. \A s \in Slot : CaughtUp(s) => CaughtUp(s)'
  BY DEF CaughtUp
<1>3. Today' = Today
  BY DEF Today
<1>4. QED
  BY <1>1, <1>2, <1>3 DEF Settling

LEMMA RequestSettles ==
    ASSUME ReviewInv, Settling, NEW c \in Client, RequestReads(c) \/ Insert(c) \/ Submit(c) \/ Dismiss(c) \/ Delete(c)
    PROVE  Settling'
<1>1. client \in [Client -> {Resting} \cup Asking] /\ owing \in Nat
  BY DEF ReviewInv, ReviewTypeOK
<1>2. review \in [Pk -> [state : {"none", "gone", "PENDING"} \cup Verdict \cup {"DISMISSED"},
                        user : User, at : 0..MaxRequests]]
  BY DEF ReviewInv, ReviewTypeOK
<1>3. CASE RequestReads(c)
  <2>1. UNCHANGED <<review, head, reports, version, cache, ledger, handler, merged, owing, late>>
    BY <1>3 DEF RequestReads, CreateReads, SubmitReads, DismissReads, DeleteReads
  <2>2. client[c] = Resting /\ \A d \in Client \ {c} : client'[d] = client[d]
    BY <1>1, <1>3 DEF RequestReads, CreateReads, SubmitReads, DismissReads, DeleteReads, Receives, Asks
  <2>3. \A d \in Client : client[d].pc = "enqueue" => client'[d].pc = "enqueue"
    BY <2>2 DEF Resting
  <2>4. QED
    BY <1>1, <2>1, <2>3, DecisionKept, SettlingAside
<1>4. CASE Insert(c)
  <2>1. /\ client[c].pc = "insert" /\ UNCHANGED <<head, reports, merged, owing, cache, ledger, handler, late>>
        /\ \A d \in Client \ {c} : client'[d] = client[d]
    BY <1>1, <1>4 DEF Insert
  <2>2. \A d \in Client : client[d].pc = "enqueue" => client'[d].pc = "enqueue"
    BY <2>1
  <2>3. CASE client[c].verdict = "PENDING"
    <3>1. UNCHANGED version /\ (UNCHANGED review \/ \E r \in Pk : Fresh(r)
              /\ review' = [review EXCEPT ![r] = [state |-> client[c].verdict,
                                                  user |-> client[c].user, at |-> client[c].at]])
      BY <1>4, <2>3 DEF Insert
    <3>2. \A r \in Pk : \/ review'[r] = review[r]
                        \/ review[r].state \notin Opinion /\ review'[r].state \notin Opinion
      BY <1>2, <2>3, <3>1 DEF Fresh, Opinion, Blocking
    <3>3. QED
      BY <1>1, <2>1, <2>2, <3>1, <3>2, DecisionSame, SettlingAside
  <2>4. CASE client[c].verdict # "PENDING"
    <3>1. PICK r \in Pk : client' = [client EXCEPT ![c].pc = "enqueue", ![c].review = r]
      BY <1>4, <2>4 DEF Insert
    <3>2. client[c] \in Asking
      BY <2>1, Kinds DEF ReviewInv
    <3>3. client'[c].pc = "enqueue"
      BY <1>1, <3>1, <3>2 DEF Asking
    <3>4. QED
      BY <3>3 DEF Settling, Owed
  <2>5. QED
    BY <2>3, <2>4
<1>5. CASE Submit(c) \/ Dismiss(c)
  <2>1. client' = [client EXCEPT ![c].pc = "enqueue"] /\ client[c].pc # "idle"
    BY <1>5 DEF Submit, Dismiss
  <2>2. client[c] \in Asking
    BY <2>1, Kinds DEF ReviewInv
  <2>3. client'[c].pc = "enqueue"
    BY <1>1, <2>1, <2>2 DEF Asking
  <2>4. QED
    BY <2>3 DEF Settling, Owed
<1>6. CASE Delete(c)
  <2>1. /\ client[c].pc = "delete" /\ UNCHANGED <<head, reports, version, merged, owing, cache, ledger, handler, late>>
        /\ \A d \in Client \ {c} : client'[d] = client[d]
    BY <1>1, <1>6 DEF Delete
  <2>2. \A d \in Client : client[d].pc = "enqueue" => client'[d].pc = "enqueue"
    BY <2>1
  <2>3. review' = review \/ \E r \in {client[c].review} : review[r].state = "PENDING"
                                                       /\ review' = [review EXCEPT ![r].state = "gone"]
    BY <1>6 DEF Delete, Deletable
  <2>4. \A r \in Pk : \/ review'[r] = review[r]
                      \/ review[r].state \notin Opinion /\ review'[r].state \notin Opinion
    BY <1>2, <2>3 DEF Opinion, Blocking
  <2>5. QED
    BY <1>1, <2>1, <2>2, <2>4, DecisionSame, SettlingAside
<1>7. QED
  BY <1>3, <1>4, <1>5, <1>6

\* After an enqueue a job is queued, or one was running.
LEMMA EnqueueOwes ==
    ASSUME ReviewInv, NEW r \in Nat, EnqueueFor(r) PROVE Owed'
<1>1. ledger \in [Slot -> [state : {"none", "queued", "running", "dead"}, key : Key \cup {NoKey},
                          handled : BOOLEAN, attempts : 0..MaxAttempts]]
  BY DEF ReviewInv, ReviewTypeOK
<1>2. CASE Active(Issue) = {}
  <2>1. PICK s \in Slot : Jobs!Accept(s, Issue, TRUE)
    BY <1>2 DEF EnqueueFor, KeyFor
  <2>2. ledger'[s].state = "queued"
    BY <1>1, <2>1 DEF Jobs!Accept
  <2>3. QED
    BY <2>2 DEF Owed
<1>3. CASE Active(Issue) # {}
  <2>1. UNCHANGED ledger
    BY <1>3 DEF EnqueueFor, KeyFor
  <2>2. PICK s \in Active(Issue) : TRUE
    BY <1>3
  <2>3. s \in Slot /\ ledger[s].state \in {"queued", "running"}
    BY <2>2 DEF Active, Jobs!Live
  <2>4. late' = \E t \in Active(Issue) : ledger[t].state = "running"
    BY DEF EnqueueFor, KeyFor
  <2>5. CASE ledger[s].state = "queued"
    BY <2>1, <2>3, <2>5 DEF Owed
  <2>6. CASE ledger[s].state = "running"
    BY <2>2, <2>4, <2>6 DEF Owed
  <2>7. QED
    BY <2>3, <2>5, <2>6
<1>4. QED
  BY <1>2, <1>3

LEMMA EnqueueSettles ==
    ASSUME ReviewInv, NEW c \in Client, Enqueue(c) \/ EnqueueLost(c) PROVE Settling'
<1>1. CASE Enqueue(c)
  <2>1. client[c] \in Asking
    BY <1>1, Kinds DEF ReviewInv, Enqueue
  <2>2. client[c].review \in Nat
    BY <2>1, ReviewBounds DEF Asking
  <2>3. QED
    BY <1>1, <2>2, EnqueueOwes DEF Enqueue, Settling
<1>2. CASE EnqueueLost(c)
  BY <1>2 DEF EnqueueLost, Settling, Owed
<1>3. QED
  BY <1>1, <1>2

LEMMA ReportSettles ==
    ASSUME ReviewInv, Settling, Report \/ ReportEnqueue \/ ReportLost \/ Merges \/ HeadMoves PROVE Settling'
<1>1. CASE Report
  BY <1>1 DEF Report, Settling, Owed, ReviewInv, ReviewTypeOK
<1>2. CASE ReportEnqueue
  BY <1>2, EnqueueOwes DEF ReportEnqueue, Settling
<1>3. CASE ReportLost \/ HeadMoves
  BY <1>3 DEF ReportLost, HeadMoves, Settling, Owed
<1>4. CASE Merges
  <2>1. /\ UNCHANGED <<review, client, head, reports, version, cache, ledger, handler>>
        /\ owing' \in 0..owing /\ late' = (late \/ owing' < owing) /\ owing \in Nat /\ late \in BOOLEAN
    BY <1>4 DEF Merges, ReviewInv, ReviewTypeOK
  <2>2. Decision' = Decision
    BY <2>1, DecisionKept
  <2>3. CASE owing' < owing
    BY <2>1, <2>3 DEF Settling, Owed
  <2>4. CASE owing' = owing
    BY <2>1, <2>2, <2>4, SettlingAside
  <2>5. QED
    BY <2>1, <2>3, <2>4
<1>5. QED
  BY <1>1, <1>2, <1>3, <1>4

\* While the handler is in slot s no other slot is.
LEMMA Alone ==
    ASSUME ReviewInv, NEW s \in Slot, Jobs!Live(s)
    PROVE  \A t \in Slot \ {s} : handler[t] = Resting /\ ~CaughtUp(t)
<1>1. ASSUME NEW t \in Slot \ {s} PROVE handler[t] = Resting
  BY <1>1 DEF ReviewInv, Recomputing, OneLive, Jobs!Live
<1>2. QED
  BY <1>1 DEF CaughtUp, Resting

LEMMA JobStartsSettles == ASSUME ReviewInv, NEW s \in Slot, JobStarts(s) PROVE Settling'
<1>1. handler'[s].pc = "load"
  BY DEF JobStarts, ReviewInv, ReviewTypeOK
<1>2. QED
  BY <1>1 DEF Settling, CaughtUp

LEMMA JobReadsSettles == ASSUME ReviewInv, Settling, NEW s \in Slot, JobReads(s) PROVE Settling'
<1>1. /\ UNCHANGED <<review, client, head, reports, merged, owing, version, cache, ledger, late>>
      /\ handler[s].pc \in {"load", "reviews", "reports"}
  BY DEF JobReads
<1>2. handler[s] # Resting /\ handler \in [Slot -> {Resting} \cup Working]
  BY <1>1 DEF Resting, ReviewInv, ReviewTypeOK
<1>3. handler[s] \in Working /\ Jobs!Live(s)
  BY <1>2, Slots
<1>4. Decision' = Decision
  BY <1>1, DecisionKept
<1>5. CASE Owed
  BY <1>1, <1>5 DEF Settling, Owed
<1>6. CASE CaughtUp(s)
  <2>1. CASE handler[s].pc = "load"
    <3>1. handler'[s].pc = "reviews" /\ handler'[s].head = head
      BY <1>2, <1>3, <2>1 DEF JobReads, Working
    <3>2. QED
      BY <1>1, <3>1 DEF Settling, CaughtUp
  <2>2. CASE handler[s].pc = "reviews"
    <3>1. handler[s].head = head
      BY <1>6, <2>2 DEF CaughtUp
    <3>2. handler' = [handler EXCEPT ![s].pc = "reports", ![s].decision = Decision, ![s].version = version]
      BY <2>2 DEF JobReads
    <3>3. /\ handler'[s].pc = "reports" /\ handler'[s].head = head
          /\ handler'[s].decision = Decision /\ handler'[s].version = version
      BY <1>2, <1>3, <3>1, <3>2 DEF Working
    <3>4. QED
      BY <1>1, <1>4, <3>3 DEF Settling, CaughtUp
  <2>3. CASE handler[s].pc = "reports"
    <3>1. /\ handler[s].head = head /\ handler[s].decision = Decision /\ handler[s].version = version
      BY <1>6, <2>3 DEF CaughtUp
    <3>2. handler' = [handler EXCEPT ![s].pc = "store", ![s].reports = reports]
      BY <2>3, <3>1 DEF JobReads
    <3>3. /\ handler'[s].pc = "store" /\ handler'[s].head = head /\ handler'[s].reports = reports
          /\ handler'[s].decision = Decision /\ handler'[s].version = version
      BY <1>2, <1>3, <3>1, <3>2 DEF Working
    <3>4. QED
      BY <1>1, <1>4, <3>3 DEF Settling, CaughtUp
  <2>4. QED
    BY <1>1, <2>1, <2>2, <2>3
<1>7. QED
  BY <1>1, <1>3, <1>5, <1>6, Alone DEF Settling

LEMMA JobStoresSettles == ASSUME ReviewInv, Settling, NEW s \in Slot, JobStores(s) PROVE Settling'
<1>1. /\ UNCHANGED <<review, client, head, reports, merged, owing, version, ledger, late>>
      /\ handler[s].pc = "store" /\ handler' = [handler EXCEPT ![s].pc = "done"]
      /\ cache' = [decision |-> handler[s].decision, version |-> handler[s].version,
                   head |-> handler[s].head, reports |-> handler[s].reports]
  BY DEF JobStores
<1>2. handler[s] # Resting /\ handler \in [Slot -> {Resting} \cup Working]
  BY <1>1 DEF Resting, ReviewInv, ReviewTypeOK
<1>3. handler[s] \in Working /\ Jobs!Live(s)
  BY <1>2, Slots
<1>4. CASE Owed
  BY <1>1, <1>4 DEF Settling, Owed
<1>5. CASE CaughtUp(s)
  <2>1. cache' = Today
    BY <1>1, <1>5 DEF CaughtUp, Today
  <2>2. Today' = Today
    BY <1>1, DecisionKept DEF Today
  <2>3. ASSUME NEW t \in Slot PROVE handler'[t].pc \in {"idle", "done"}
    <3>1. CASE t = s
      BY <1>1, <1>2, <1>3, <3>1 DEF Working
    <3>2. CASE t # s
      BY <1>1, <1>2, <1>3, <3>2, Alone DEF Resting
    <3>3. QED
      BY <3>1, <3>2
  <2>4. QED
    BY <2>1, <2>2, <2>3 DEF Settling
<1>6. QED
  BY <1>1, <1>3, <1>4, <1>5, Alone DEF Settling

LEMMA JobEndsSettles == ASSUME ReviewInv, Settling, NEW s \in Slot, JobEnds(s) PROVE Settling'
<1>1. /\ UNCHANGED <<review, client, head, reports, merged, owing, version, cache, late>>
      /\ handler[s].pc = "done" /\ handler' = [handler EXCEPT ![s] = Resting]
      /\ ledger[s].state = "running" /\ ledger' = [ledger EXCEPT ![s] = Jobs!Free]
  BY DEF JobEnds, Jobs!Finish
<1>2. handler \in [Slot -> {Resting} \cup Working] /\ Jobs!Live(s)
  BY <1>1 DEF ReviewInv, ReviewTypeOK, Jobs!Live
<1>3. ledger \in [Slot -> [state : {"none", "queued", "running", "dead"}, key : Key \cup {NoKey},
                          handled : BOOLEAN, attempts : 0..MaxAttempts]]
  BY DEF ReviewInv, ReviewTypeOK
<1>4. CASE Owed
  <2>1. \A t \in Slot : ledger[t].state = "queued" => ledger'[t].state = "queued"
    BY <1>1, <1>3
  <2>2. QED
    BY <1>1, <1>4, <2>1 DEF Settling, Owed
<1>5. ~CaughtUp(s)
  BY <1>1 DEF CaughtUp
<1>6. CASE cache = Today /\ \A t \in Slot : handler[t].pc \in {"idle", "done"}
  <2>1. Today' = Today
    BY <1>1, DecisionKept DEF Today
  <2>2. \A t \in Slot : handler'[t].pc \in {"idle", "done"}
    BY <1>1, <1>2, <1>6 DEF Resting
  <2>3. QED
    BY <1>1, <1>6, <2>1, <2>2 DEF Settling
<1>7. QED
  BY <1>2, <1>4, <1>5, <1>6, Alone DEF Settling

LEMMA JobFailsSettles == ASSUME ReviewInv, NEW s \in Slot, JobFails(s) PROVE Settling'
<1>1. CASE Jobs!Park(s) /\ late' = TRUE
  BY <1>1 DEF Settling, Owed
<1>2. CASE Jobs!Retry(s)
  <2>1. ledger'[s].state = "queued"
    BY <1>2 DEF Jobs!Retry, ReviewInv, ReviewTypeOK
  <2>2. QED
    BY <2>1 DEF Settling, Owed
<1>3. QED
  BY <1>1, <1>2 DEF JobFails

LEMMA SettlingInductive == ASSUME ReviewInv, Settling, [ReviewNext]_reviewVars PROVE Settling'
<1>1. CASE UNCHANGED reviewVars
  <2>1. Decision' = Decision
    BY <1>1, DecisionKept DEF reviewVars
  <2>2. QED
    BY <1>1, <2>1, SettlingAside DEF reviewVars, ReviewInv, ReviewTypeOK
<1>2. CASE ReviewNext
  BY <1>2, RequestSettles, EnqueueSettles, ReportSettles, JobStartsSettles, JobReadsSettles,
     JobStoresSettles, JobEndsSettles, JobFailsSettles DEF ReviewNext
<1>3. QED
  BY <1>1, <1>2

LEMMA SettlingInitially == ASSUME ReviewInit PROVE Settling
<1>1. Decision = "none"
  BY DEF ReviewInit, Decision, Stands, Opinions, Opinion, Blocking
<1>2. reports \in Nat
  BY ReviewBounds DEF ReviewInit
<1>3. CASE reports > 0
  BY <1>3 DEF ReviewInit, Settling, Owed
<1>4. CASE reports = 0
  <2>1. cache = Today /\ \A s \in Slot : handler[s].pc \in {"idle", "done"}
    BY <1>1, <1>4 DEF ReviewInit, Today, Resting
  <2>2. QED
    BY <2>1 DEF Settling
<1>5. QED
  BY <1>2, <1>3, <1>4

\* When no enqueue is owed and no job is live, the stored row is the decision of the
\* reviews and the rollup of the head as they are, but for an enqueue folded too late,
\* one lost or never come to, a parked job, a push, a report on a merged pull request,
\* and the reports that a head had when its pull request was opened (enqueueRecompute
\* and RecomputeReviewDecision, domain/review_service.go; recomputeForSHA,
\* domain/checks_service.go).
THEOREM DecisionSettles == ReviewSpec => []CacheSettles
<1>1. ReviewInit => ReviewInv /\ Settling
  BY ReviewInitially, SettlingInitially
<1>2. ReviewInv /\ Settling /\ [ReviewNext]_reviewVars => (ReviewInv /\ Settling)'
  BY ReviewInductive, SettlingInductive
<1>3. ASSUME ReviewInv, Settling PROVE CacheSettles
  <2>1. SUFFICES ASSUME Quiet, ~late PROVE cache = Today
    BY DEF CacheSettles, Today
  <2>2. ~Owed
    BY <2>1 DEF Quiet, Owed, Jobs!Live
  <2>3. \A s \in Slot : ~CaughtUp(s)
    BY <1>3, <2>1 DEF Quiet, ReviewInv, Recomputing, Jobs!Live, CaughtUp, Resting
  <2>4. QED
    BY <1>3, <2>2, <2>3 DEF Settling
<1>4. QED
  BY <1>1, <1>2, <1>3, PTL DEF ReviewSpec

-----------------------------------------------------------------------------
(* Check suites.                                                           *)
(*                                                                         *)
(* Neither SuiteSettles nor StaysCompleted is inductive.  Inserts: a run   *)
(* is inserted once, under a suite.  Copies: what a request read of a      *)
(* completed run it will not undo, unless it may or another has the run    *)
(* in hand.  Listing: once no run is still to be written or listed, the    *)
(* newest list is what the table holds.                                    *)

Inserts ==
    /\ suite = NoRun => Rows = {}
    /\ \A r \in Run : r \in Rows \/ run[r] = NoRun
    /\ \A p \in Reporter :
        /\ reporter[p].pc \in {"ensure", "insert"} =>
               \E r \in Run : reporter[p].todo = {r} /\ reporter[p].row[r].status # "none"
        /\ reporter[p].pc = "insert" => suite # NoRun /\ \A r \in reporter[p].todo : run[r] = NoRun
        /\ \A q \in Reporter \ {p} : reporter[p].pc = "insert" /\ reporter[q].pc = "insert" =>
               reporter[p].todo \cap reporter[q].todo = {}

Copies ==
    \A p \in Reporter : reporter[p].pc = "write" =>
        /\ reporter[p].todo \subseteq Rows
        /\ \A r \in reporter[p].todo :
            /\ reporter[p].row[r].status # "none"
            /\ \/ r \in mixed \/ reporter[p].reopens
               \/ run[r].status = "completed" => reporter[p].row[r].status = "completed"
        /\ \A q \in Reporter \ {p} : reporter[q].pc = "write" =>
               reporter[p].todo \cap reporter[q].todo \subseteq mixed

Listing ==
    /\ \A p \in Reporter : reporter[p].pc = "set" => reporter[p].list <= lists
    /\ newest = lists \/ \E p \in Reporter : reporter[p].pc = "set" /\ reporter[p].list = lists
    /\ \/ \E p \in Reporter : reporter[p].pc \in {"write", "list"}
       \/ /\ \A p \in Reporter :
                reporter[p].pc = "set" /\ reporter[p].list = lists => reporter[p].summary = Summary
          /\ stored = lists => Rows = {} \/ suite = Summary

SuiteInv == SuiteTypeOK /\ Inserts /\ Copies /\ Listing

RunRow == [status : {"none"} \cup Status, conclusion : Conclusion]

LEMMA SuiteTypes ==
    ASSUME SuiteTypeOK
    PROVE  /\ run \in [Run -> RunRow] /\ \A r \in Run : run[r] \in RunRow
           /\ suite \in RunRow /\ lists \in Nat /\ stored \in 0..lists /\ newest \in 0..lists
           /\ reporter \in [Reporter -> {Ended} \cup Reporting]
           /\ \A p \in Reporter : reporter[p] # Ended => reporter[p] \in Reporting
           /\ \A p \in Reporter : reporter[p].pc # "idle" => reporter[p] \in Reporting
BY DEF SuiteTypeOK, RunRow, Ended

LEMMA SuiteInitially == ASSUME SuiteInit PROVE SuiteInv
<1>1. SuiteTypeOK
  BY SuiteBounds DEF SuiteInit, SuiteTypeOK, NoRun, Conclusion, Verdicts
<1>2. Rows = {} /\ \A p \in Reporter : reporter[p].pc = "idle"
  BY DEF SuiteInit, Rows, NoRun, Ended
<1>3. Inserts /\ Copies /\ Listing
  BY <1>2 DEF SuiteInit, Inserts, Copies, Listing, Rows
<1>4. QED
  BY <1>1, <1>3 DEF SuiteInv

LEMMA SummaryType ==
    ASSUME SuiteTypeOK
    PROVE  /\ Summary \in [status : Status, conclusion : Conclusion]
           /\ Queued \in [status : Status, conclusion : Conclusion]
           /\ Queued \in RunRow /\ NoRun \in RunRow
<1>1. Worst \in Conclusion
  BY DEF Worst, Conclusion, Verdicts
<1>2. QED
  BY <1>1 DEF Summary, Queued, NoRun, RunRow, Status, Conclusion, Verdicts

LEMMA ReporterSet ==
    ASSUME SuiteTypeOK, NEW p \in Reporter, NEW x \in {Ended} \cup Reporting,
           reporter' = [reporter EXCEPT ![p] = x]
    PROVE  /\ reporter' \in [Reporter -> {Ended} \cup Reporting] /\ reporter'[p] = x
           /\ \A q \in Reporter \ {p} : reporter'[q] = reporter[q]
BY SuiteTypes

LEMMA SameRuns ==
    ASSUME UNCHANGED run
    PROVE  Rows' = Rows /\ Summary' = Summary
BY DEF Rows, Summary, Complete, Worst

\* A run as a request may report it, or as it would have it after its report.
LEMMA RolledType ==
    ASSUME NEW old \in RunRow, old.status # "none", NEW report \in {Nothing} \cup Progress
    PROVE  /\ Rolled(old, report) \in RunRow /\ Rolled(old, report).status # "none"
           /\ report.status # "in_progress" /\ old.status = "completed"
                  => Rolled(old, report).status = "completed"
<1>1. report \in RunRow /\ report.status \in {"none", "in_progress", "completed"}
  BY DEF Nothing, Progress, RunRow, Status, Conclusion, Verdicts
<1>2. Rolled(old, report) =
        [status |-> IF report.status = "none" THEN old.status ELSE report.status,
         conclusion |-> IF report.conclusion = "none" THEN old.conclusion ELSE report.conclusion]
  BY DEF Rolled
<1>3. QED
  BY <1>1, <1>2 DEF RunRow

\* A request begins, with the rows it is to write.
LEMMA Begun ==
    ASSUME SuiteTypeOK, NEW p \in Reporter, NEW pc \in {"ensure", "insert", "write"},
           NEW rs \in SUBSET Run, NEW rows \in [Run -> RunRow], NEW reopens \in BOOLEAN,
           Reports(p, pc, rs, rows, reopens)
    PROVE  /\ reporter[p].pc = "idle" /\ reported' \in 0..MaxReported
           /\ reporter' \in [Reporter -> {Ended} \cup Reporting]
           /\ reporter'[p].pc = pc /\ reporter'[p].todo = rs /\ reporter'[p].row = rows
           /\ reporter'[p].reopens = reopens
           /\ \A q \in Reporter \ {p} : reporter'[q] = reporter[q]
<1> DEFINE x == [pc |-> pc, todo |-> rs, row |-> rows, summary |-> Queued, list |-> 0, reopens |-> reopens]
<1>1. x \in Reporting
  <2>1. rows \in [Run -> [status : Status \cup {"none"}, conclusion : Conclusion]]
    BY DEF RunRow
  <2>2. QED
    BY <2>1, SummaryType DEF Reporting
<1>2. /\ reporter[p] = Ended /\ reported < MaxReported /\ reported' = reported + 1
      /\ reporter' = [reporter EXCEPT ![p] = x]
  BY DEF Reports
<1>3. x.pc = pc /\ x.todo = rs /\ x.row = rows /\ x.reopens = reopens
  OBVIOUS
<1> HIDE DEF x
<1>4. reported' \in 0..MaxReported
  BY <1>2, SuiteBounds DEF SuiteTypeOK
<1>5. /\ reporter' \in [Reporter -> {Ended} \cup Reporting] /\ reporter'[p] = x
      /\ \A q \in Reporter \ {p} : reporter'[q] = reporter[q]
  BY <1>1, <1>2, ReporterSet
<1>6. reporter[p].pc = "idle"
  BY <1>2 DEF Ended
<1>7. QED
  BY <1>3, <1>4, <1>5, <1>6

\* What a step of p leaves of the listing while the runs and the suite stay.
LEMMA ListingBegun ==
    ASSUME SuiteInv, NEW p \in Reporter, UNCHANGED <<suite, run, lists, stored, newest>>,
           reporter[p].pc = "idle", reporter'[p].pc # "set",
           \A q \in Reporter \ {p} : reporter'[q] = reporter[q]
    PROVE  Listing'
BY SameRuns DEF SuiteInv, Listing

LEMMA CreateRunReadsStep ==
    ASSUME SuiteInv, NEW p \in Reporter, NEW r \in Run, NEW row \in {Queued} \cup Progress,
           CreateRunReads(p, r, row)
    PROVE  SuiteInv'
<1>1. row \in RunRow /\ row.status # "none"
  BY DEF Queued, Progress, RunRow, Status, Conclusion, Verdicts
<1>2. PICK rows : rows = Only({r}, row)
  OBVIOUS
<1>3. rows \in [Run -> RunRow] /\ rows[r] = row
  BY <1>1, <1>2, SummaryType DEF Only, SuiteInv
<1>4. PICK pc : pc = IF suite = NoRun THEN "ensure" ELSE "insert"
  OBVIOUS
<1>5. /\ run[r] = NoRun /\ \A q \in Reporter : reporter[q].pc = "insert" => reporter[q].todo # {r}
      /\ Reports(p, pc, {r}, rows, FALSE)
      /\ UNCHANGED <<suite, run, lists, stored, newest, mixed, lost>>
  BY <1>2, <1>4 DEF CreateRunReads
<1>6. /\ reporter[p].pc = "idle" /\ reported' \in 0..MaxReported
      /\ reporter' \in [Reporter -> {Ended} \cup Reporting]
      /\ reporter'[p].pc = pc /\ reporter'[p].todo = {r} /\ reporter'[p].row = rows
      /\ \A q \in Reporter \ {p} : reporter'[q] = reporter[q]
  <2>1. SuiteTypeOK /\ pc \in {"ensure", "insert", "write"}
    BY <1>4 DEF SuiteInv
  <2>2. PICK rs : rs = {r}
    OBVIOUS
  <2>3. rs \in SUBSET Run /\ Reports(p, pc, rs, rows, FALSE) /\ rows \in [Run -> RunRow]
    BY <1>3, <1>5, <2>2
  <2>4. PICK no \in BOOLEAN : no = FALSE
    OBVIOUS
  <2>5. Reports(p, pc, rs, rows, no)
    BY <2>3, <2>4
  <2>6. /\ reporter[p].pc = "idle" /\ reported' \in 0..MaxReported
        /\ reporter' \in [Reporter -> {Ended} \cup Reporting]
        /\ reporter'[p].pc = pc /\ reporter'[p].todo = rs /\ reporter'[p].row = rows
        /\ \A q \in Reporter \ {p} : reporter'[q] = reporter[q]
    <3>1. /\ reporter[p].pc = "idle" /\ reported' \in 0..MaxReported
          /\ reporter' \in [Reporter -> {Ended} \cup Reporting]
      BY <2>1, <2>3, <2>5, Begun
    <3>2. reporter'[p].pc = pc /\ reporter'[p].todo = rs /\ reporter'[p].row = rows
      BY <2>1, <2>3 DEF Reports, SuiteTypeOK
    <3>3. \A q \in Reporter \ {p} : reporter'[q] = reporter[q]
      BY <2>1, <2>3, <2>5, Begun
    <3>4. QED
      BY <3>1, <3>2, <3>3
  <2>7. QED
    BY <2>2, <2>6
<1>7. SuiteTypeOK'
  BY <1>5, <1>6 DEF SuiteInv, SuiteTypeOK
<1>8. Inserts'
  <2>1. ASSUME NEW q \in Reporter \ {p}, reporter[q].pc = "insert" PROVE r \notin reporter[q].todo
    BY <1>5, <2>1 DEF SuiteInv, Inserts
  <2>2. ASSUME NEW q \in Reporter
        PROVE /\ reporter'[q].pc \in {"ensure", "insert"} =>
                     \E k \in Run : reporter'[q].todo = {k} /\ reporter'[q].row[k].status # "none"
              /\ reporter'[q].pc = "insert" => suite' # NoRun /\ \A k \in reporter'[q].todo : run'[k] = NoRun
    BY <1>1, <1>3, <1>4, <1>5, <1>6 DEF SuiteInv, Inserts
  <2>3. ASSUME NEW q \in Reporter, NEW u \in Reporter \ {q},
               reporter'[q].pc = "insert", reporter'[u].pc = "insert"
        PROVE  reporter'[q].todo \cap reporter'[u].todo = {}
    BY <1>6, <2>1, <2>3 DEF SuiteInv, Inserts
  <2>4. Rows' = Rows
    BY <1>5, SameRuns
  <2>5. QED
    BY <1>5, <2>2, <2>3, <2>4 DEF SuiteInv, Inserts
<1>9. Copies'
  BY <1>4, <1>5, <1>6, SameRuns DEF SuiteInv, Copies
<1>10. Listing'
  BY <1>4, <1>5, <1>6, ListingBegun
<1>11. QED
  BY <1>7, <1>8, <1>9, <1>10 DEF SuiteInv

\* A request has read the rows it will write whole.
LEMMA BegunToWrite ==
    ASSUME SuiteInv, NEW p \in Reporter, NEW rs \in SUBSET Rows, NEW row \in RunRow, row.status # "none",
           NEW reopens \in BOOLEAN, Reports(p, "write", rs, Only(rs, row), reopens), Reads(rs),
           reopens \/ \A r \in rs : run[r].status = "completed" => row.status = "completed",
           UNCHANGED <<suite, run, lists, stored, newest, lost>>
    PROVE  SuiteInv'
<1>1. PICK rows : rows = Only(rs, row)
  OBVIOUS
<1>2. rs \subseteq Run
  BY DEF Rows
<1>3. rows \in [Run -> RunRow] /\ \A r \in rs : rows[r] = row
  BY <1>1, <1>2, SummaryType DEF Only, SuiteInv
<1>4. /\ reporter[p].pc = "idle" /\ reported' \in 0..MaxReported
      /\ reporter' \in [Reporter -> {Ended} \cup Reporting]
      /\ reporter'[p].pc = "write" /\ reporter'[p].todo = rs /\ reporter'[p].row = rows
      /\ reporter'[p].reopens = reopens
      /\ \A q \in Reporter \ {p} : reporter'[q] = reporter[q]
  BY <1>1, <1>2, <1>3, Begun DEF SuiteInv
<1>5. /\ mixed \subseteq mixed' /\ mixed' \subseteq Run
      /\ \A q \in Reporter : reporter[q].pc = "write" => rs \cap reporter[q].todo \subseteq mixed'
  BY <1>2 DEF Reads, InHand, SuiteInv, SuiteTypeOK
<1>6. SuiteTypeOK'
  BY <1>4, <1>5 DEF SuiteInv, SuiteTypeOK
<1>7. Inserts'
  BY <1>4, SameRuns DEF SuiteInv, Inserts
<1>8. Copies'
  <2>1. ASSUME NEW q \in Reporter, reporter'[q].pc = "write"
        PROVE  /\ reporter'[q].todo \subseteq Rows'
               /\ \A r \in reporter'[q].todo :
                    /\ reporter'[q].row[r].status # "none"
                    /\ \/ r \in mixed' \/ reporter'[q].reopens
                       \/ run'[r].status = "completed" => reporter'[q].row[r].status = "completed"
    <3>1. CASE q = p
      BY <1>3, <1>4, <3>1, SameRuns
    <3>2. CASE q # p
      BY <1>4, <1>5, <2>1, <3>2, SameRuns DEF SuiteInv, Copies
    <3>3. QED
      BY <3>1, <3>2
  <2>2. ASSUME NEW q \in Reporter, NEW u \in Reporter \ {q},
               reporter'[q].pc = "write", reporter'[u].pc = "write"
        PROVE  reporter'[q].todo \cap reporter'[u].todo \subseteq mixed'
    <3>1. CASE q = p \/ u = p
      BY <1>4, <1>5, <2>2, <3>1
    <3>2. CASE q # p /\ u # p
      BY <1>4, <1>5, <2>2, <3>2 DEF SuiteInv, Copies
    <3>3. QED
      BY <3>1, <3>2
  <2>3. QED
    BY <2>1, <2>2 DEF Copies
<1>9. Listing'
  BY <1>4, ListingBegun
<1>10. QED
  BY <1>6, <1>7, <1>8, <1>9 DEF SuiteInv

LEMMA UpdateReadsStep ==
    ASSUME SuiteInv, NEW p \in Reporter, NEW r \in Run, NEW report \in {Nothing} \cup Progress,
           UpdateReads(p, r, report)
    PROVE  SuiteInv'
<1>1. r \in Rows /\ run[r] \in RunRow /\ run[r].status # "none" /\ {r} \in SUBSET Rows
  BY SuiteTypes DEF UpdateReads, Rows, SuiteInv
<1>2. PICK row : row = Rolled(run[r], report)
  OBVIOUS
<1>3. /\ row \in RunRow /\ row.status # "none"
      /\ report.status # "in_progress" /\ run[r].status = "completed" => row.status = "completed"
  BY <1>1, <1>2, RolledType
<1>4. PICK reopens \in BOOLEAN : reopens = (report.status = "in_progress")
  OBVIOUS
<1>5. /\ Reports(p, "write", {r}, Only({r}, row), reopens) /\ Reads({r})
      /\ UNCHANGED <<suite, run, lists, stored, newest, lost>>
  BY <1>2, <1>4 DEF UpdateReads
<1>6. reopens \/ \A k \in {r} : run[k].status = "completed" => row.status = "completed"
  <2>1. CASE report.status = "in_progress"
    BY <1>4, <2>1
  <2>2. CASE report.status # "in_progress"
    BY <1>3, <2>2
  <2>3. QED
    BY <2>1, <2>2
<1>7. QED
  BY <1>1, <1>3, <1>5, <1>6, BegunToWrite

LEMMA RerequestReadsStep ==
    ASSUME SuiteInv, NEW p \in Reporter, NEW rs \in SUBSET Rows, RerequestReads(p, rs)
    PROVE  SuiteInv'
<1>1. Queued \in RunRow /\ Queued.status # "none"
  BY DEF Queued, RunRow, Status, Conclusion
<1>2. /\ Reports(p, "write", rs, Only(rs, Queued), TRUE) /\ Reads(rs)
      /\ UNCHANGED <<suite, run, lists, stored, newest, lost>>
  BY DEF RerequestReads
<1>3. QED
  BY <1>1, <1>2, BegunToWrite

LEMMA EnsureStep == ASSUME SuiteInv, NEW p \in Reporter, Ensure(p) PROVE SuiteInv'
<1>1. reporter[p].pc = "ensure" /\ UNCHANGED <<run, lists, stored, newest, mixed, reported, lost>>
  BY DEF Ensure
<1>2. reporter[p] \in Reporting
  BY <1>1, SuiteTypes DEF SuiteInv
<1>3. CASE suite = NoRun
  <2> DEFINE x == [reporter[p] EXCEPT !.pc = "insert"]
  <2>1. suite' = Queued /\ reporter' = [reporter EXCEPT ![p] = x]
    BY <1>3 DEF Ensure
  <2>2. x \in Reporting /\ x.pc = "insert" /\ x.todo = reporter[p].todo /\ x.row = reporter[p].row
    BY <1>2 DEF Reporting
  <2> HIDE DEF x
  <2>3. /\ reporter' \in [Reporter -> {Ended} \cup Reporting] /\ reporter'[p] = x
        /\ \A q \in Reporter \ {p} : reporter'[q] = reporter[q]
    BY <2>1, <2>2, ReporterSet DEF SuiteInv
  <2>4. Rows = {} /\ \A q \in Reporter : reporter[q].pc # "insert"
    BY <1>3 DEF SuiteInv, Inserts
  <2>5. SuiteTypeOK'
    BY <1>1, <2>1, <2>3, SummaryType DEF SuiteInv, SuiteTypeOK, RunRow
  <2>6. Inserts'
    <3>1. Queued # NoRun
      BY DEF Queued, NoRun
    <3>2. PICK r \in Run : reporter[p].todo = {r} /\ reporter[p].row[r].status # "none"
      BY <1>1 DEF SuiteInv, Inserts
    <3>3. ASSUME NEW k \in reporter[p].todo PROVE run[k] = NoRun
      <4>1. k \in Run
        BY <3>2
      <4>2. QED
        BY <1>3, <4>1 DEF SuiteInv, Inserts
    <3>4. QED
      BY <1>1, <2>1, <2>2, <2>3, <2>4, <3>1, <3>2, <3>3, SameRuns DEF SuiteInv, Inserts
  <2>7. Copies'
    BY <1>1, <2>2, <2>3, SameRuns DEF SuiteInv, Copies
  <2>8. Listing'
    BY <1>1, <2>1, <2>2, <2>3, <2>4, SameRuns DEF SuiteInv, Listing
  <2>9. QED
    BY <2>5, <2>6, <2>7, <2>8 DEF SuiteInv
<1>4. CASE suite # NoRun
  <2>1. UNCHANGED suite /\ reporter' = [reporter EXCEPT ![p] = Ended]
    BY <1>4 DEF Ensure
  <2>2. /\ reporter' \in [Reporter -> {Ended} \cup Reporting] /\ reporter'[p].pc = "idle"
        /\ \A q \in Reporter \ {p} : reporter'[q] = reporter[q]
    BY <2>1, ReporterSet DEF SuiteInv, Ended
  <2>3. SuiteTypeOK'
    BY <1>1, <2>1, <2>2 DEF SuiteInv, SuiteTypeOK
  <2>4. Inserts' /\ Copies' /\ Listing'
    BY <1>1, <2>1, <2>2, SameRuns DEF SuiteInv, Inserts, Copies, Listing
  <2>5. QED
    BY <2>3, <2>4 DEF SuiteInv
<1>5. QED
  BY <1>3, <1>4

\* A run is written.
LEMMA Written ==
    ASSUME SuiteInv, NEW p \in Reporter, NEW r \in Run, Writes(p, r)
    PROVE  /\ reporter[p] \in Reporting /\ reporter[p].row[r] \in RunRow
           /\ reporter[p].row[r].status # "none" /\ run' \in [Run -> RunRow]
           /\ run'[r] = reporter[p].row[r] /\ \A k \in Run \ {r} : run'[k] = run[k]
           /\ Rows' = Rows \cup {r}
           /\ reporter' \in [Reporter -> {Ended} \cup Reporting]
           /\ reporter'[p].pc = IF reporter[p].todo = {r} THEN "list" ELSE reporter[p].pc
           /\ reporter'[p].todo = reporter[p].todo \ {r} /\ reporter'[p].row = reporter[p].row
           /\ reporter'[p].reopens = reporter[p].reopens
           /\ reporter[p].pc = "insert" => reporter'[p].pc = "list"
           /\ \A q \in Reporter \ {p} : reporter'[q] = reporter[q]
<1>1. reporter[p].pc \in {"insert", "write"} /\ r \in reporter[p].todo
  BY DEF Writes
<1>2. reporter[p] \in Reporting /\ run \in [Run -> RunRow]
  BY <1>1, SuiteTypes DEF SuiteInv
<1>3. reporter[p].row[r] \in RunRow /\ reporter[p].row[r].status # "none"
  <2>1. reporter[p].row[r] \in RunRow
    BY <1>2 DEF Reporting, RunRow
  <2>2. CASE reporter[p].pc = "insert"
    BY <1>1, <2>1, <2>2 DEF SuiteInv, Inserts
  <2>3. CASE reporter[p].pc = "write"
    BY <1>1, <2>1, <2>3 DEF SuiteInv, Copies
  <2>4. QED
    BY <1>1, <2>1, <2>2, <2>3
<1>4. PICK row : row = reporter[p].row[r]
  OBVIOUS
<1>5. run' = [run EXCEPT ![r] = row]
  BY <1>4 DEF Writes
<1>6. run' \in [Run -> RunRow] /\ run'[r] = row /\ \A k \in Run \ {r} : run'[k] = run[k]
  BY <1>2, <1>3, <1>4, <1>5
<1>7. Rows' = Rows \cup {r}
  BY <1>3, <1>4, <1>6 DEF Rows
<1> DEFINE pc == IF reporter[p].todo = {r} THEN "list" ELSE reporter[p].pc
           x == [[reporter[p] EXCEPT !.todo = reporter[p].todo \ {r}] EXCEPT !.pc = pc]
<1>8. /\ x \in Reporting /\ x.pc = pc /\ x.todo = reporter[p].todo \ {r}
      /\ x.row = reporter[p].row /\ x.reopens = reporter[p].reopens
  BY <1>1, <1>2 DEF Reporting
<1>9. reporter' = [reporter EXCEPT ![p] = x]
  BY <1>2 DEF Writes, Reporting
<1>10. reporter[p].pc = "insert" => pc = "list"
  BY <1>1 DEF SuiteInv, Inserts
<1> HIDE DEF x
<1>11. /\ reporter' \in [Reporter -> {Ended} \cup Reporting] /\ reporter'[p] = x
       /\ \A q \in Reporter \ {p} : reporter'[q] = reporter[q]
  BY <1>8, <1>9, ReporterSet DEF SuiteInv
<1>12. QED
  BY <1>2, <1>3, <1>4, <1>6, <1>7, <1>8, <1>10, <1>11

LEMMA WritesStep ==
    ASSUME SuiteInv, NEW p \in Reporter, NEW r \in Run, Writes(p, r) PROVE SuiteInv'
<1>1. /\ reporter[p].pc \in {"insert", "write"} /\ r \in reporter[p].todo
      /\ UNCHANGED <<suite, lists, stored, newest, reported, lost>>
  BY DEF Writes
<1>2. /\ mixed' \subseteq mixed /\ mixed \ {r} \subseteq mixed'
      /\ \A q \in Reporter \ {p} :
            reporter[q].pc = "write" /\ r \in reporter[q].todo /\ r \in mixed => r \in mixed'
  BY DEF Writes, Releases
<1>3. /\ reporter[p] \in Reporting /\ reporter[p].row[r] \in RunRow
      /\ reporter[p].row[r].status # "none" /\ run' \in [Run -> RunRow]
      /\ run'[r] = reporter[p].row[r] /\ \A k \in Run \ {r} : run'[k] = run[k]
      /\ Rows' = Rows \cup {r}
      /\ reporter' \in [Reporter -> {Ended} \cup Reporting]
      /\ reporter'[p].pc = IF reporter[p].todo = {r} THEN "list" ELSE reporter[p].pc
      /\ reporter'[p].todo = reporter[p].todo \ {r} /\ reporter'[p].row = reporter[p].row
      /\ reporter'[p].reopens = reporter[p].reopens
      /\ reporter[p].pc = "insert" => reporter'[p].pc = "list"
      /\ \A q \in Reporter \ {p} : reporter'[q] = reporter[q]
  BY Written
<1>4. SuiteTypeOK'
  BY <1>1, <1>2, <1>3 DEF SuiteInv, SuiteTypeOK, RunRow
<1>5. suite # NoRun
  BY <1>1 DEF SuiteInv, Inserts, Copies
<1>6. \A q \in Reporter \ {p} : reporter[q].pc = "insert" => r \notin reporter[q].todo
  <2>1. CASE reporter[p].pc = "insert"
    BY <1>1, <2>1 DEF SuiteInv, Inserts
  <2>2. CASE reporter[p].pc = "write"
    BY <1>1, <2>2 DEF SuiteInv, Inserts, Copies, Rows, NoRun
  <2>3. QED
    BY <1>1, <2>1, <2>2
<1>7. Inserts'
  <2>1. suite' = suite /\ \A k \in Run : k \in Rows' \/ run'[k] = NoRun
    BY <1>1, <1>3 DEF SuiteInv, Inserts
  <2>2. ASSUME NEW q \in Reporter, reporter'[q].pc \in {"ensure", "insert"}
        PROVE  q # p /\ reporter'[q] = reporter[q]
    BY <1>1, <1>3, <2>2
  <2>3. ASSUME NEW q \in Reporter
        PROVE /\ reporter'[q].pc \in {"ensure", "insert"} =>
                     \E k \in Run : reporter'[q].todo = {k} /\ reporter'[q].row[k].status # "none"
              /\ reporter'[q].pc = "insert" => suite' # NoRun /\ \A k \in reporter'[q].todo : run'[k] = NoRun
    <3>1. ASSUME reporter'[q].pc = "insert", NEW k \in reporter'[q].todo PROVE run'[k] = NoRun
      <4>1. k \in Run /\ k # r /\ run[k] = NoRun
        BY <1>6, <2>2, <3>1 DEF SuiteInv, Inserts
      <4>2. QED
        BY <1>3, <4>1
    <3>2. QED
      BY <1>5, <2>1, <2>2, <3>1 DEF SuiteInv, Inserts
  <2>4. ASSUME NEW q \in Reporter, NEW u \in Reporter \ {q},
               reporter'[q].pc = "insert", reporter'[u].pc = "insert"
        PROVE  reporter'[q].todo \cap reporter'[u].todo = {}
    BY <2>2, <2>4 DEF SuiteInv, Inserts
  <2>5. QED
    BY <1>5, <2>1, <2>3, <2>4 DEF Inserts
<1>8. Copies'
  <2>1. ASSUME NEW q \in Reporter, reporter'[q].pc = "write"
        PROVE  /\ reporter[q].pc = "write" /\ reporter'[q].todo \subseteq reporter[q].todo
               /\ reporter'[q].row = reporter[q].row /\ reporter'[q].reopens = reporter[q].reopens
               /\ q = p => r \notin reporter'[q].todo
    BY <1>1, <1>3, <2>1
  <2>2. ASSUME NEW q \in Reporter \ {p}, reporter[q].pc = "write", r \in reporter[q].todo
        PROVE  r \in mixed
    <3>1. CASE reporter[p].pc = "insert"
      BY <1>1, <2>2, <3>1 DEF SuiteInv, Inserts, Copies, Rows, NoRun
    <3>2. CASE reporter[p].pc = "write"
      BY <1>1, <2>2, <3>2 DEF SuiteInv, Copies
    <3>3. QED
      BY <1>1, <3>1, <3>2
  <2>3. ASSUME NEW q \in Reporter, reporter'[q].pc = "write", NEW k \in reporter'[q].todo
        PROVE  /\ k \in Rows' /\ reporter'[q].row[k].status # "none"
               /\ \/ k \in mixed' \/ reporter'[q].reopens
                  \/ run'[k].status = "completed" => reporter'[q].row[k].status = "completed"
    <3>1. k \in Rows /\ reporter[q].row[k].status # "none" /\ k \in reporter[q].todo
      BY <2>1, <2>3 DEF SuiteInv, Copies
    <3>2. CASE k = r
      BY <1>2, <1>3, <2>1, <2>2, <2>3, <3>1, <3>2
    <3>3. CASE k # r
      <4>1. run'[k] = run[k]
        BY <1>3, <3>1, <3>3 DEF Rows
      <4>2. QED
        BY <1>2, <1>3, <2>1, <2>3, <3>1, <3>3, <4>1 DEF SuiteInv, Copies
    <3>4. QED
      BY <3>2, <3>3
  <2>4. ASSUME NEW q \in Reporter, NEW u \in Reporter \ {q},
               reporter'[q].pc = "write", reporter'[u].pc = "write",
               NEW k \in reporter'[q].todo \cap reporter'[u].todo
        PROVE  k \in mixed'
    <3>1. reporter[q].pc = "write" /\ reporter[u].pc = "write" /\ k \in reporter[q].todo \cap reporter[u].todo
      BY <2>1, <2>4
    <3>2. k \in mixed
      BY <3>1 DEF SuiteInv, Copies
    <3>3. CASE k = r
      BY <1>2, <2>1, <2>4, <3>1, <3>2, <3>3
    <3>4. CASE k # r
      BY <1>2, <3>2, <3>4
    <3>5. QED
      BY <3>3, <3>4
  <2>5. QED
    BY <2>1, <2>3, <2>4 DEF Copies
<1>9. Listing'
  <2>1. reporter'[p].pc \in {"write", "list"}
    BY <1>1, <1>3
  <2>2. \A q \in Reporter : reporter'[q].pc = "set" => q # p
    BY <2>1
  <2>3. newest = lists \/ \E q \in Reporter : reporter'[q].pc = "set" /\ reporter'[q].list = lists
    BY <1>1, <1>3 DEF SuiteInv, Listing
  <2>4. \A q \in Reporter : reporter'[q].pc = "set" => reporter'[q].list <= lists
    BY <1>3, <2>2 DEF SuiteInv, Listing
  <2>5. QED
    BY <1>1, <2>1, <2>3, <2>4 DEF Listing
<1>10. QED
  BY <1>4, <1>7, <1>8, <1>9 DEF SuiteInv

\* A step of p that writes no run and after which p has none in hand keeps
\* Inserts and Copies, if what it leaves mixed covers what others have in hand.
LEMMA OutOfHand ==
    ASSUME SuiteInv, NEW p \in Reporter, UNCHANGED run, suite = suite' \/ suite' # NoRun,
           reporter'[p].pc \in {"idle", "list", "set"},
           \A q \in Reporter \ {p} : reporter'[q] = reporter[q],
           \A q \in Reporter \ {p} : reporter[q].pc = "write" => reporter[q].todo \cap mixed \subseteq mixed'
    PROVE  Inserts' /\ Copies'
<1>1. Rows' = Rows
  BY SameRuns
<1>2. \A q \in Reporter : reporter'[q].pc \in {"ensure", "insert", "write"} => q # p /\ reporter'[q] = reporter[q]
  OBVIOUS
<1>3. Inserts'
  BY <1>1, <1>2 DEF SuiteInv, Inserts
<1>4. Copies'
  BY <1>1, <1>2 DEF SuiteInv, Copies
<1>5. QED
  BY <1>3, <1>4

LEMMA ListsStep == ASSUME SuiteInv, NEW p \in Reporter, Lists(p) PROVE SuiteInv'
<1>1. /\ reporter[p].pc = "list" /\ lists' = lists + 1
      /\ UNCHANGED <<suite, run, stored, newest, mixed, reported, lost>>
  BY DEF Lists
<1>2. /\ reporter[p] \in Reporting /\ lists \in Nat /\ stored \in 0..lists /\ newest \in 0..lists
      /\ Summary \in [status : Status, conclusion : Conclusion]
  BY <1>1, SuiteTypes, SummaryType DEF SuiteInv
<1>3. PICK n : n = lists + 1
  OBVIOUS
<1>4. PICK s : s = Summary
  OBVIOUS
<1> DEFINE x == [[[reporter[p] EXCEPT !.pc = "set"] EXCEPT !.summary = s] EXCEPT !.list = n]
<1>5. x \in Reporting /\ x.pc = "set" /\ x.summary = s /\ x.list = n
  <2>1. n \in Nat /\ s \in [status : Status, conclusion : Conclusion]
    BY <1>2, <1>3, <1>4
  <2>2. [reporter[p] EXCEPT !.pc = "set"] \in Reporting
    BY <1>2 DEF Reporting
  <2>3. [[reporter[p] EXCEPT !.pc = "set"] EXCEPT !.summary = s] \in Reporting
    BY <2>1, <2>2 DEF Reporting
  <2>4. QED
    BY <1>2, <2>1, <2>3 DEF Reporting
<1>6. reporter' = [reporter EXCEPT ![p] = x]
  BY <1>1, <1>2, <1>3, <1>4 DEF Lists, Reporting
<1> HIDE DEF x
<1>7. /\ reporter' \in [Reporter -> {Ended} \cup Reporting] /\ reporter'[p] = x
      /\ \A q \in Reporter \ {p} : reporter'[q] = reporter[q]
  BY <1>5, <1>6, ReporterSet DEF SuiteInv
<1>8. SuiteTypeOK'
  BY <1>1, <1>2, <1>7 DEF SuiteInv, SuiteTypeOK
<1>9. Inserts' /\ Copies'
  BY <1>1, <1>5, <1>7, OutOfHand
<1>10. Listing'
  <2>1. \A q \in Reporter : reporter'[q].pc = "set" =>
            \/ q = p /\ reporter'[q].list = lists' /\ reporter'[q].summary = Summary
            \/ q # p /\ reporter'[q].list <= lists /\ reporter'[q] \in Reporting
    <3>1. ASSUME NEW q \in Reporter \ {p}, reporter'[q].pc = "set"
          PROVE  reporter'[q].list <= lists /\ reporter'[q] \in Reporting
      BY <1>7, <3>1, SuiteTypes DEF SuiteInv, Listing
    <3>2. QED
      BY <1>1, <1>3, <1>4, <1>5, <1>7, <3>1
  <2>2. Summary' = Summary
    BY <1>1, SameRuns
  <2>3. \A q \in Reporter : reporter'[q].pc = "set" =>
            /\ reporter'[q].list <= lists'
            /\ reporter'[q].list = lists' => reporter'[q].summary = Summary'
    BY <1>1, <1>2, <2>1, <2>2 DEF Reporting
  <2>4. stored' # lists'
    BY <1>1, <1>2
  <2>5. reporter'[p].pc = "set" /\ reporter'[p].list = lists'
    BY <1>1, <1>3, <1>5, <1>7
  <2>6. \E q \in Reporter : reporter'[q].pc = "set" /\ reporter'[q].list = lists'
    BY <2>5
  <2>7. QED
    BY <2>3, <2>4, <2>6 DEF Listing
<1>11. QED
  BY <1>8, <1>9, <1>10 DEF SuiteInv

LEMMA SetsStep == ASSUME SuiteInv, NEW p \in Reporter, Sets(p) PROVE SuiteInv'
<1>1. /\ reporter[p].pc = "set" /\ suite' = reporter[p].summary
      /\ stored' = reporter[p].list /\ newest' = Newer(reporter[p].list)
      /\ reporter' = [reporter EXCEPT ![p] = Ended]
      /\ UNCHANGED <<run, lists, mixed, reported, lost>>
  BY DEF Sets
<1>2. /\ reporter[p] \in Reporting /\ lists \in Nat /\ stored \in 0..lists /\ newest \in 0..lists
      /\ reporter[p].list \in 0..lists /\ reporter[p].summary \in [status : Status, conclusion : Conclusion]
  BY <1>1, SuiteTypes DEF SuiteInv, Listing, Reporting
<1>3. /\ reporter' \in [Reporter -> {Ended} \cup Reporting] /\ reporter'[p].pc = "idle"
      /\ \A q \in Reporter \ {p} : reporter'[q] = reporter[q]
  BY <1>1, ReporterSet DEF SuiteInv, Ended
<1>4. /\ newest' \in 0..lists
      /\ newest = lists => newest' = lists
      /\ reporter[p].list = lists => newest' = lists
  BY <1>1, <1>2 DEF Newer
<1>5. suite' \in RunRow /\ suite' # NoRun
  BY <1>1, <1>2 DEF RunRow, NoRun, Status
<1>6. SuiteTypeOK'
  <2>1. suite' \in [status : {"none"} \cup Status, conclusion : Conclusion] /\ stored' \in 0..lists'
    BY <1>1, <1>2, <1>5 DEF RunRow
  <2>2. QED
    BY <1>1, <1>3, <1>4, <2>1 DEF SuiteInv, SuiteTypeOK
<1>7. Inserts' /\ Copies'
  BY <1>1, <1>3, <1>5, OutOfHand
<1>8. Listing'
  <2>1. Rows' = Rows /\ Summary' = Summary
    BY <1>1, SameRuns
  <2>2. \A q \in Reporter : reporter'[q].pc = "set" => q # p /\ reporter'[q] = reporter[q]
    BY <1>3
  <2>3. newest' = lists \/ \E q \in Reporter : reporter'[q].pc = "set" /\ reporter'[q].list = lists
    <3>1. CASE newest = lists
      BY <1>4, <3>1
    <3>2. CASE \E q \in Reporter : reporter[q].pc = "set" /\ reporter[q].list = lists
      <4>1. PICK q \in Reporter : reporter[q].pc = "set" /\ reporter[q].list = lists
        BY <3>2
      <4>2. QED
        BY <1>3, <1>4, <4>1
    <3>3. QED
      BY <3>1, <3>2 DEF SuiteInv, Listing
  <2>4. CASE \E q \in Reporter : reporter[q].pc \in {"write", "list"}
    BY <1>1, <1>3, <2>2, <2>3, <2>4 DEF SuiteInv, Listing
  <2>5. CASE ~ \E q \in Reporter : reporter[q].pc \in {"write", "list"}
    BY <1>1, <2>1, <2>2, <2>3, <2>5 DEF SuiteInv, Listing
  <2>6. QED
    BY <2>4, <2>5
<1>9. QED
  BY <1>6, <1>7, <1>8 DEF SuiteInv

LEMMA LosesStep == ASSUME SuiteInv, NEW p \in Reporter, Loses(p) PROVE SuiteInv'
<1>1. /\ lost < MaxLost /\ lost' = lost + 1 /\ lists' = lists + 1 /\ newest' = lists'
      /\ Releases(p, reporter[p].todo) /\ reporter' = [reporter EXCEPT ![p] = Ended]
      /\ UNCHANGED <<suite, run, stored, reported>>
  BY DEF Loses
<1>2. lists \in Nat /\ stored \in 0..lists /\ newest \in 0..lists
  BY SuiteTypes DEF SuiteInv
<1>3. /\ reporter' \in [Reporter -> {Ended} \cup Reporting] /\ reporter'[p].pc = "idle"
      /\ \A q \in Reporter \ {p} : reporter'[q] = reporter[q]
  BY <1>1, ReporterSet DEF SuiteInv, Ended
<1>4. /\ mixed' \subseteq mixed
      /\ \A q \in Reporter \ {p} : reporter[q].pc = "write" => reporter[q].todo \cap mixed \subseteq mixed'
  BY <1>1 DEF Releases
<1>5. SuiteTypeOK'
  BY <1>1, <1>2, <1>3, <1>4, SuiteBounds DEF SuiteInv, SuiteTypeOK
<1>6. Inserts' /\ Copies'
  BY <1>1, <1>3, <1>4, OutOfHand
<1>7. Listing'
  <2>1. \A q \in Reporter : reporter'[q].pc = "set" =>
            q # p /\ reporter'[q].list <= lists /\ reporter'[q].list \in Nat
    BY <1>3, SuiteTypes DEF SuiteInv, Listing, Reporting
  <2>2. \A q \in Reporter : reporter'[q].pc = "set" => reporter'[q].list <= lists' /\ reporter'[q].list # lists'
    BY <1>1, <1>2, <2>1
  <2>3. stored' # lists' /\ newest' = lists'
    BY <1>1, <1>2
  <2>4. QED
    BY <2>2, <2>3 DEF Listing
<1>8. QED
  BY <1>5, <1>6, <1>7 DEF SuiteInv

LEMMA SuiteSteps == ASSUME SuiteInv, [SuiteNext]_suiteVars PROVE SuiteInv'
<1>1. CASE UNCHANGED suiteVars
  <2>1. Rows' = Rows /\ Summary' = Summary
    BY <1>1, SameRuns DEF suiteVars
  <2>2. QED
    BY <1>1, <2>1 DEF suiteVars, SuiteInv, SuiteTypeOK, Inserts, Copies, Listing
<1>2. CASE SuiteNext
  <2>1. PICK p \in Reporter :
            \/ \E r \in Run, row \in {Queued} \cup Progress : CreateRunReads(p, r, row)
            \/ \E r \in Run, report \in {Nothing} \cup Progress : UpdateReads(p, r, report)
            \/ \E r \in Rows : RerequestReads(p, {r})
            \/ RerequestReads(p, Rows)
            \/ Ensure(p) \/ (\E r \in Run : Writes(p, r)) \/ Lists(p) \/ Sets(p) \/ Loses(p)
    BY <1>2 DEF SuiteNext
  <2>2. CASE \E r \in Run, row \in {Queued} \cup Progress : CreateRunReads(p, r, row)
    BY <2>2, CreateRunReadsStep
  <2>3. CASE \E r \in Run, report \in {Nothing} \cup Progress : UpdateReads(p, r, report)
    BY <2>3, UpdateReadsStep
  <2>4. CASE \E r \in Rows : RerequestReads(p, {r})
    BY <2>4, RerequestReadsStep
  <2>5. CASE RerequestReads(p, Rows)
    BY <2>5, RerequestReadsStep
  <2>6. CASE \E r \in Run : Writes(p, r)
    BY <2>6, WritesStep
  <2>7. QED
    BY <2>1, <2>2, <2>3, <2>4, <2>5, <2>6, EnsureStep, ListsStep, SetsStep, LosesStep
<1>3. QED
  BY <1>1, <1>2

\* The invariant of the suite and its reporters.
THEOREM SuitesKept == SuiteSpec => []SuiteInv
<1>1. QED
  BY SuiteInitially, SuiteSteps, PTL DEF SuiteSpec

\* Every state has the types of SuiteTypeOK: nothing is read, reported or stored but
\* what the columns of check_runs and check_suites take (domain/checks_service.go).
THEOREM SuiteTypeCorrect == SuiteSpec => []SuiteTypeOK
<1>1. SuiteInv => SuiteTypeOK
  BY DEF SuiteInv
<1>2. QED
  BY <1>1, SuitesKept, PTL

\* A summary says of the runs it is of what the suite is to say.
LEMMA SummarySumsUp ==
    ASSUME SuiteTypeOK, Rows # {}, suite = Summary
    PROVE  SumsUp
<1>1. \A r \in Rows : run[r].status \in Status
  BY SuiteTypes DEF Rows, RunRow
<1>2. CASE \A r \in Rows : run[r].status = "queued"
  <2>1. suite = Queued /\ ~ Every("completed")
    BY <1>2 DEF Summary, Every
  <2>2. QED
    BY <1>2, <2>1 DEF SumsUp, Every, Queued
<1>3. CASE ~ (\A r \in Rows : run[r].status = "queued") /\ Complete
  <2>1. suite = [status |-> "completed", conclusion |-> Worst] /\ Every("completed") /\ ~ Every("queued")
    BY <1>3 DEF Summary, Complete, Every
  <2>2. /\ Worst \in Verdicts
        /\ Worst = "failure" <=> Some("failure")
        /\ Worst = "success" <=> ~Some("failure") /\ ~Some("cancelled")
    BY DEF Worst, Some, Verdicts
  <2>3. suite.status = "completed" /\ suite.conclusion = Worst /\ Worst # "none"
    BY <2>1, <2>2 DEF Verdicts
  <2>4. QED
    BY <2>1, <2>2, <2>3 DEF SumsUp
<1>4. CASE ~ (\A r \in Rows : run[r].status = "queued") /\ ~ Complete
  <2>1. /\ suite = [status |-> "in_progress", conclusion |-> "none"]
        /\ ~ Every("completed") /\ ~ Every("queued")
    BY <1>4 DEF Summary, Complete, Every
  <2>2. QED
    BY <2>1 DEF SumsUp
<1>5. QED
  BY <1>2, <1>3, <1>4

\* With no report under way, the suite sums up its runs, unless an older refresh
\* stored last or the newest failed (refreshSuite, domain/checks_service.go).
THEOREM SuiteSumsUp == SuiteSpec => []SuiteSettles
<1>1. ASSUME SuiteInv PROVE SuiteSettles
  <2>1. SUFFICES ASSUME \A p \in Reporter : reporter[p].pc \in {"idle", "ensure", "insert"},
                        stored = newest, Rows # {}
                 PROVE  SumsUp
    BY DEF SuiteSettles
  <2>2. newest = lists
    BY <1>1, <2>1 DEF SuiteInv, Listing
  <2>3. suite = Summary
    BY <1>1, <2>1, <2>2 DEF SuiteInv, Listing
  <2>4. QED
    BY <1>1, <2>1, <2>3, SummarySumsUp DEF SuiteInv
<1>2. QED
  BY <1>1, SuitesKept, PTL

\* A completed run is taken up again only by a request that says so, unless two
\* requests had read its row at once (UpdateCheckRun, domain/checks_service.go).
THEOREM CompletedStays == SuiteSpec => StaysCompleted
<1> DEFINE Stays == \A r \in Run :
               run[r].status = "completed" /\ run'[r].status # "completed" =>
                  \/ r \in mixed
                  \/ \E p \in Reporter : reporter[p].pc = "write" /\ reporter[p].reopens
                                         /\ r \in reporter[p].todo
<1>1. ASSUME SuiteInv, [SuiteNext]_suiteVars PROVE [Stays]_suiteVars
  <2>1. ASSUME NEW r \in Run, run[r].status = "completed", run'[r].status # "completed"
        PROVE  \/ r \in mixed
               \/ \E p \in Reporter : reporter[p].pc = "write" /\ reporter[p].reopens
                                      /\ r \in reporter[p].todo
    <3>1. SuiteNext /\ run' # run
      BY <1>1, <2>1 DEF suiteVars
    <3>2. PICK p \in Reporter, k \in Run : Writes(p, k)
      BY <3>1 DEF SuiteNext, CreateRunReads, UpdateReads, RerequestReads, Ensure, Lists, Sets, Loses
    <3>3. k = r /\ run'[r] = reporter[p].row[r]
      BY <1>1, <2>1, <3>2, Written
    <3>4. reporter[p].pc = "write" /\ r \in reporter[p].todo
      BY <1>1, <2>1, <3>2, <3>3 DEF Writes, SuiteInv, Inserts, NoRun
    <3>5. QED
      BY <1>1, <2>1, <3>3, <3>4 DEF SuiteInv, Copies
  <2>2. QED
    BY <2>1 DEF Stays
<1>2. QED
  BY <1>1, SuitesKept, PTL DEF SuiteSpec, StaysCompleted

-----------------------------------------------------------------------------
(* The two together.                                                       *)

\* A step of one leaves the other as it was, so a behaviour of the two together is a
\* behaviour of each.
LEMMA EachPart == ChecksSpec => ReviewSpec /\ SuiteSpec
<1>1. ChecksInit => ReviewInit /\ SuiteInit
  BY DEF ChecksInit
<1>2. [ChecksNext]_checkVars => [ReviewNext]_reviewVars /\ [SuiteNext]_suiteVars
  BY DEF ChecksNext, checkVars
<1>3. QED
  BY <1>1, <1>2, PTL DEF ChecksSpec, ReviewSpec, SuiteSpec

\* Whichever of the two moves (requests on reviews and the recompute of the decision,
\* reports of check runs on a suite), every state has the types of both.
THEOREM ChecksTypeCorrect == ChecksSpec => []ChecksTypeOK
<1>1. ReviewTypeOK /\ SuiteTypeOK => ChecksTypeOK
  BY DEF ChecksTypeOK
<1>2. QED
  BY EachPart, ReviewTypeCorrect, SuiteTypeCorrect, <1>1, PTL
=============================================================================
