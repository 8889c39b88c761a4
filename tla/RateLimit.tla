------------------------------ MODULE RateLimit -----------------------------
(***************************************************************************)
(* The REST rate limiter: fixed windows per actor and resource, charged    *)
(* when a request enters and refunded when it is answered 304.             *)
(*                                                                         *)
(* Source: api/rest/ratelimit.go.                                          *)
(*                                                                         *)
(* Granularity.  take, refund and peek hold the limiter's mutex and are    *)
(* one action each; the handler runs between take and refund, for any      *)
(* time.  A bucket is an actor's key with a resource family.  Time is      *)
(* whether the window of a bucket is past its reset.                       *)
(***************************************************************************)
EXTENDS Integers, FiniteSets

CONSTANTS Bucket,     \* buckets: a rate key and a resource family each
          Call,       \* requests being served at once
          Limit,      \* limitFor's budget, the default where config has none
          MaxWindows  \* windows of a bucket a run explores

ASSUME RateBounds == Limit \in Nat \ {0} /\ MaxWindows \in Nat
ASSUME RateCalls == IsFiniteSet(Call)

VARIABLES used,   \* rateWindow.used of each bucket
          over,   \* the buckets with no window, or one past its reset
          epoch,  \* which window of its bucket the present one is
          call,   \* the bucket and window each request was charged to
          billed, \* history: requests charged to the present window, less refunds of theirs
          late    \* history: units the present window gave back for an earlier one

rateVars == <<used, over, epoch, call, billed, late>>

NoCharge == [pc |-> "idle"]
Charges == [pc : {"serving"}, bucket : Bucket, epoch : Nat]

RateTypeOK ==
    /\ used \in [Bucket -> 0..Limit]
    /\ over \subseteq Bucket
    /\ epoch \in [Bucket -> Nat]
    /\ call \in [Call -> {NoCharge} \cup Charges]
    /\ billed \in [Bucket -> Nat]
    /\ late \in [Bucket -> Nat]

RateInit ==
    /\ used = [b \in Bucket |-> 0]
    /\ over = Bucket
    /\ epoch = [b \in Bucket |-> 0]
    /\ call = [c \in Call |-> NoCharge]
    /\ billed = [b \in Bucket |-> 0]
    /\ late = [b \in Bucket |-> 0]

-----------------------------------------------------------------------------
\* window: a window past its reset is replaced, never refilled.  All three
\* operations begin with it.
Now(b) == IF b \in over
          THEN [used |-> 0, epoch |-> epoch[b] + 1, billed |-> 0, late |-> 0]
          ELSE [used |-> used[b], epoch |-> epoch[b], billed |-> billed[b], late |-> late[b]]

SetWindow(b, w) ==
    /\ used' = [used EXCEPT ![b] = w.used]
    /\ epoch' = [epoch EXCEPT ![b] = w.epoch]
    /\ billed' = [billed EXCEPT ![b] = w.billed]
    /\ late' = [late EXCEPT ![b] = w.late]
    /\ over' = over \ {b}

\* The clock passes a window's reset.
Elapse(b) ==
    /\ b \notin over /\ epoch[b] < MaxWindows
    /\ over' = over \cup {b}
    /\ UNCHANGED <<used, epoch, call, billed, late>>

\* take: one unit, or a refusal.  The charge is recorded in the request.
Take(c, b) ==
    LET w == Now(b)
    IN  /\ call[c] = NoCharge
        /\ IF w.used >= Limit
           THEN SetWindow(b, w) /\ UNCHANGED call
           ELSE /\ SetWindow(b, [w EXCEPT !.used = @ + 1, !.billed = @ + 1])
                /\ call' = [call EXCEPT ![c] = [pc |-> "serving", bucket |-> b, epoch |-> w.epoch]]

\* Mutant: a refund pushes used below zero.
LessOneAny(n) == n - 1

\* Mutant: each refund gives back two units.
LessTwo(n) == IF n > 1 THEN n - 2 ELSE 0

\* refund never pushes used below zero.
LessOne(n) == IF n > 0 THEN n - 1 ELSE n

\* refund, on the way to a 304: it charges off whatever window is live by now.
Refund(c) ==
    LET b == call[c].bucket
        w == Now(b)
        same == w.epoch = call[c].epoch
    IN  /\ call[c] # NoCharge
        /\ SetWindow(b, [w EXCEPT !.used = LessOne(@),
                                !.billed = IF same THEN @ - 1 ELSE @,
                                !.late = IF same \/ w.used = 0 THEN @ ELSE @ + 1])
        /\ call' = [call EXCEPT ![c] = NoCharge]

\* Any other answer keeps the charge.
Answer(c) ==
    /\ call[c] # NoCharge
    /\ call' = [call EXCEPT ![c] = NoCharge]
    /\ UNCHANGED <<used, over, epoch, billed, late>>

\* peek: GET /rate_limit.
Peek(b) == SetWindow(b, Now(b)) /\ UNCHANGED call

RateNext ==
    \/ \E b \in Bucket : Elapse(b) \/ Peek(b)
    \/ \E c \in Call : Refund(c) \/ Answer(c) \/ \E b \in Bucket : Take(c, b)

RateSpec == RateInit /\ [][RateNext]_rateVars

-----------------------------------------------------------------------------
\* A window bills no more requests than the limit, and the count the client is
\* told is the number of them, except for what late refunds took off: a request
\* charged to one window and refunded in the next is given a unit of the next.
BudgetKept ==
    \A b \in Bucket \ over :
        /\ billed[b] <= Limit + late[b]
        /\ late[b] = 0 => used[b] = billed[b]
=============================================================================
