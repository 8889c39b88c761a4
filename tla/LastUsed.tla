------------------------------ MODULE LastUsed ------------------------------
(***************************************************************************)
(* The debounced writes of last_used_at: requests put touches into a       *)
(* bounded channel, one goroutine keeps the last of each token and writes  *)
(* them in batches.                                                        *)
(*                                                                         *)
(* Source: auth/lastused.go, BumpTokenLastUsed of store/queries_token.go.  *)
(*                                                                         *)
(* Granularity.  A touch takes its time and then tries the channel; the    *)
(* flusher receives, takes its batch, and writes it in one transaction.    *)
(***************************************************************************)
EXTENDS Integers, Sequences

CONSTANTS Token,      \* tokens in use
          Toucher,    \* requests being authenticated at once
          QueueSize,  \* 4096 in the code
          MaxTime     \* how far the clock of a run goes

ASSUME UsedBounds == QueueSize \in Nat /\ MaxTime \in Nat \ {0}

VARIABLES clock,    \* the wall clock
          toucher,  \* the touch each request has stamped and not yet sent
          queue,    \* the channel
          pending,  \* the flusher's map, 0 for no entry
          batch,    \* what the flusher is writing, 0 for no entry
          flusher,  \* "select", "write", "last write" or "stopped"
          stored,   \* tokens.last_used_at, 0 for NULL
          sent,     \* history: the last touch of each token the channel took
          lost      \* history: tokens whose last touch was lost in a failed write

usedVars == <<clock, toucher, queue, pending, batch, flusher, stored, sent, lost>>

NoTouch == [at |-> 0]
Touches == [token : Token, at : 1..MaxTime]
None == [t \in Token |-> 0]

UsedTypeOK ==
    /\ clock \in 1..MaxTime
    /\ toucher \in [Toucher -> {NoTouch} \cup Touches]
    /\ queue \in Seq(Touches) /\ Len(queue) <= QueueSize
    /\ flusher \in {"select", "write", "last write", "stopped"}
    /\ \A f \in {pending, batch, stored, sent} : f \in [Token -> 0..MaxTime]
    /\ lost \subseteq Token

UsedInit ==
    /\ clock = 1
    /\ toucher = [q \in Toucher |-> NoTouch]
    /\ queue = << >>
    /\ pending = None /\ batch = None /\ stored = None /\ sent = None
    /\ flusher = "select"
    /\ lost = {}

Clock ==
    /\ clock < MaxTime
    /\ clock' = clock + 1
    /\ UNCHANGED <<toucher, queue, pending, batch, flusher, stored, sent, lost>>

\* touch evaluates nowFunc ...
Stamp(q, t) ==
    /\ toucher[q] = NoTouch
    /\ toucher' = [toucher EXCEPT ![q] = [token |-> t, at |-> clock]]
    /\ UNCHANGED <<clock, queue, pending, batch, flusher, stored, sent, lost>>

\* ... and then sends, or drops the touch when the channel is full.
Send(q) ==
    LET x == toucher[q]
    IN  /\ x # NoTouch
        /\ toucher' = [toucher EXCEPT ![q] = NoTouch]
        /\ IF Len(queue) < QueueSize
           THEN /\ queue' = Append(queue, x)
                /\ sent' = [sent EXCEPT ![x.token] = x.at]
                /\ lost' = lost \ {x.token}
           ELSE UNCHANGED <<queue, sent, lost>>
        /\ UNCHANGED <<clock, pending, batch, flusher, stored>>

\* Mutant: the first touch of a batch is kept.
CoalesceFirst(old, new) == IF old = 0 THEN new ELSE old

\* The map keeps what came last out of the channel.
Coalesce(old, new) == new

TakeTouch ==
    LET x == Head(queue)
    IN  /\ flusher = "select"
        /\ queue # << >>
        /\ queue' = Tail(queue)
        /\ pending' = [pending EXCEPT ![x.token] = Coalesce(@, x.at)]
        /\ UNCHANGED <<clock, toucher, batch, flusher, stored, sent, lost>>

\* The ticker fires, or Close was called: select takes any ready case, so what
\* the channel still holds may stay there.
Flush ==
    /\ flusher = "select"
    /\ batch' = pending
    /\ pending' = None
    /\ flusher' \in {"write", "last write"}
    /\ UNCHANGED <<clock, toucher, queue, stored, sent, lost>>

InQueue(t) == {i \in DOMAIN queue : queue[i].token = t}

Written == IF flusher = "write" THEN "select" ELSE "stopped"

\* BumpTokenLastUsed.
Bump ==
    /\ flusher \in {"write", "last write"}
    /\ stored' = [t \in Token |-> IF batch[t] # 0 THEN batch[t] ELSE stored[t]]
    /\ batch' = None
    /\ flusher' = Written
    /\ UNCHANGED <<clock, toucher, queue, pending, sent, lost>>

\* Its transaction fails and the batch is gone.
BumpFails ==
    /\ flusher \in {"write", "last write"}
    /\ lost' = lost \cup {t \in Token : batch[t] # 0 /\ InQueue(t) = {}}
    /\ batch' = None
    /\ flusher' = Written
    /\ UNCHANGED <<clock, toucher, queue, pending, stored, sent>>

UsedNext ==
    \/ Clock
    \/ \E q \in Toucher : Send(q) \/ \E t \in Token : Stamp(q, t)
    \/ TakeTouch
    \/ Flush
    \/ Bump
    \/ BumpFails

UsedSpec == UsedInit /\ [][UsedNext]_usedVars

-----------------------------------------------------------------------------
\* The touch of t that will be written last: the one furthest from the row.
Upstream(t) ==
    IF InQueue(t) # {} THEN queue[CHOOSE i \in InQueue(t) : \A j \in InQueue(t) : j <= i].at
    ELSE IF pending[t] # 0 THEN pending[t]
    ELSE IF batch[t] # 0 THEN batch[t]
    ELSE stored[t]

\* No touch the channel took is overtaken by an earlier one on its way through
\* queue, map, batch and row, or dropped otherwise than by a failed write or by
\* a later touch: once all is written the row has the last one sent.
LastSentArrives == \A t \in Token : t \notin lost => Upstream(t) = sent[t]
=============================================================================
