--------------------------- MODULE WebhookDelivery ---------------------------
(***************************************************************************)
(* From a recorded event to the webhooks of its repository and of the      *)
(* owning organization: the fan-out job, one delivery job per subscribed   *)
(* hook, the POST, and the delivery log, while hooks are edited.           *)
(*                                                                         *)
(* Source: domain/event.go (recordEvent), store/queries_event.go           *)
(* (InsertEventAndJob), webhook/deliver.go (DeliverEventHandler, orgHooks, *)
(* DeliverWebhookHandler, buildRequest, send), domain/hook_service.go,     *)
(* store/queries_webhook.go and worker/retention.go.  The job queue is     *)
(* WorkLedger, which JobQueue implements; these jobs carry no dedupe key.  *)
(*                                                                         *)
(* Granularity.  A transaction, a query, an enqueue and a POST are one     *)
(* action each.  CreateHook's ping names nothing but the new hook, so the  *)
(* insert and the ping are one action.  Before the POST a handler reads    *)
(* the hook and then the event or the recorded delivery; events are never  *)
(* deleted and a deleted hook takes its deliveries along, so the reads     *)
(* could all have been made at the instant of the last one, and are one    *)
(* action here.                                                            *)
(*                                                                         *)
(* Abstractions.  Of a hook there is whether it is active and what it      *)
(* subscribes to; of a request, the hook and the event it is about; equal  *)
(* rows of the delivery log are one.  A slot of the jobs table is used     *)
(* again once its row is gone.                                             *)
(***************************************************************************)
EXTENDS Integers, FiniteSets

CONSTANTS Hook,
          OrgHook,         \* hooks on the organization's anchor repository
          Event,           \* rows of the events table, none of them the anchor's
          Kind, Push,      \* event names; Push is what an empty list stands for
          Star,            \* "*" in a hook's list: every name
          KindOf,          \* the name of each event
          Patch, Keep,     \* what UpdateHook may be asked; Keep leaves a field
          NoEvent, NoHook,
          Slot, NoKey, MaxAttempts,
          Loops,           \* claim loops
          Editor,          \* UpdateHook requests
          Offer,           \* what CreateHook may be asked
          MaxUpsets        \* edits, extra deliveries, failures and faults a run explores

ASSUME OrgAssumption == OrgHook \subseteq Hook
ASSUME KindAssumption == Push \in Kind /\ Star \notin Kind /\ KindOf \in [Event -> Kind]
ASSUME NoneAssumption == NoEvent \notin Event /\ NoHook \notin Hook
ASSUME BoundsAssumption == MaxUpsets \in Nat /\ MaxAttempts \in Nat
ASSUME OfferAssumption == Offer \subseteq [active : BOOLEAN, events : SUBSET (Kind \cup {Star})]
ASSUME PatchAssumption ==
    Patch \subseteq [active : BOOLEAN \cup {Keep}, events : (SUBSET (Kind \cup {Star})) \cup {Keep},
                     add : SUBSET (Kind \cup {Star}), remove : SUBSET (Kind \cup {Star})]

VARIABLES hook,      \* the webhooks table
          recorded,  \* the events table
          log,       \* the webhook_deliveries table
          ledger,    \* the jobs table, as WorkLedger
          work,      \* the payload of each job
          run,       \* where the handler of each running job is
          editor,    \* where each UpdateHook is, and its copy of the row
          steady,    \* history: hooks that listened ever since the event
          invited,   \* history: hooks that listened at some time since the event
          accepted,  \* history: how often each hook answered 2xx to each event
          refanned,  \* history: events whose fan-out was begun again
          edits,     \* hook edits and deletions
          extras,    \* pings, tests and redeliveries
          fails,     \* refused deliveries and handler errors
          faults     \* restarts and lost settles

hist == <<steady, invited, accepted, refanned>>
vars == <<hook, recorded, log, ledger, work, run, editor, hist, edits, extras, fails, faults>>

Jobs == INSTANCE WorkLedger WITH Pk <- Slot, Key <- {}

-----------------------------------------------------------------------------
HookRow == [state : {"none", "there", "deleted"}, active : BOOLEAN, wants : SUBSET (Kind \cup {Star})]

Idle == [pc |-> "idle"]
NoWork == [kind |-> "none"]

\* kind "fanout" is deliver_event; the others are deliver_webhook.
Work == [kind : {"fanout", "event", "ping", "test", "again"},
         hook : Hook \cup {NoHook}, what : Event \cup {NoEvent}, called : BOOLEAN]

Running == [pc : {"repo", "org", "enqueue", "load", "post", "record", "done", "failed"},
            todo : SUBSET Hook, ok : BOOLEAN]

Editing == [pc : {"write"}, hook : Hook, row : HookRow, patch : Patch]

TypeOK ==
    /\ hook \in [Hook -> HookRow]
    /\ recorded \subseteq Event
    /\ log \subseteq Hook \X (Event \cup {NoEvent})
    /\ ledger \in [Slot -> [state : {"none", "queued", "running", "dead"}, key : {NoKey},
                            handled : BOOLEAN, attempts : 0..MaxAttempts]]
    /\ work \in [Slot -> {NoWork} \cup Work]
    /\ run \in [Slot -> {Idle} \cup Running]
    /\ editor \in [Editor -> {Idle} \cup Editing]
    /\ steady \in [Event -> SUBSET Hook] /\ invited \in [Event -> SUBSET Hook]
    /\ accepted \in [Event -> [Hook -> 0..2]] /\ refanned \subseteq Event
    /\ {edits, extras, fails, faults} \subseteq 0..MaxUpsets

Upset == edits + extras + fails + faults < MaxUpsets

-----------------------------------------------------------------------------
Init ==
    /\ hook = [h \in Hook |-> [state |-> "none", active |-> FALSE, wants |-> {}]]
    /\ recorded = {} /\ log = {}
    /\ Jobs!Init
    /\ work = [s \in Slot |-> NoWork]
    /\ run = [s \in Slot |-> Idle]
    /\ editor = [a \in Editor |-> Idle]
    /\ steady = [e \in Event |-> {}] /\ invited = [e \in Event |-> {}]
    /\ accepted = [e \in Event |-> [h \in Hook |-> 0]] /\ refanned = {}
    /\ edits = 0 /\ extras = 0 /\ fails = 0 /\ faults = 0

\* INSERT INTO jobs: one row; which slot stands for it does not matter.
Put(w) ==
    /\ \E s \in Slot : ledger[s].state = "none"
    /\ LET s == CHOOSE s \in Slot : ledger[s].state = "none"
       IN  /\ Jobs!Accept(s, NoKey, TRUE)
           /\ work' = [work EXCEPT ![s] = w]

\* Mutant: a job of a kind that nothing handles.
DeliveryUnnamed(kind, h, e) == [kind |-> "deliver", hook |-> h, what |-> e, called |-> FALSE]

Delivery(kind, h, e) == [kind |-> kind, hook |-> h, what |-> e, called |-> FALSE]

-----------------------------------------------------------------------------
(* Hooks. *)

Covers(list, k) == k \in list \/ Star \in list

\* Mutant: an inactive hook is a candidate.
HearsInactive(row, k) == row.state = "there" /\ Covers(row.wants, k)

\* The row is selected by ListActiveWebhooks and its list covers the event.
Hears(row, k) == row.state = "there" /\ row.active /\ Covers(row.wants, k)

\* What the histories call listening.
Listens(row, k) == row.state = "there" /\ row.active /\ Covers(row.wants, k)

\* The row of h changes; the histories follow.
SetHook(h, row) ==
    /\ hook' = [hook EXCEPT ![h] = row]
    /\ steady' = [e \in Event |-> IF Listens(row, KindOf[e]) THEN steady[e] ELSE steady[e] \ {h}]
    /\ invited' = [e \in Event |-> IF e \in recorded /\ Listens(row, KindOf[e])
                                   THEN invited[e] \cup {h} ELSE invited[e]]
    /\ UNCHANGED <<accepted, refanned>>

\* A list as it is stored: "*" stands alone, and an empty list is {push}.
Normal(list) == IF Star \in list THEN {Star} ELSE IF list = {} THEN {Push} ELSE list

\* CreateHook, and its ping, whose enqueue may fail unnoticed.
CreateHook(h, in) ==
    /\ hook[h].state = "none"
    /\ SetHook(h, [state |-> "there", active |-> in.active, wants |-> Normal(in.events)])
    /\ \/ /\ Upset
          /\ extras' = extras + 1
          /\ Put(Delivery("ping", h, NoEvent))
       \/ UNCHANGED <<ledger, work, extras>>
    /\ UNCHANGED <<recorded, log, run, editor, edits, fails, faults>>

\* The row a patch makes of the one that was read: replaced, added to, removed
\* from; and a list that has become empty is {push} again.
Patched(row, p) ==
    LET base == IF p.events = Keep THEN row.wants ELSE p.events
    IN  [row EXCEPT !.active = IF p.active = Keep THEN @ ELSE p.active,
                    !.wants = Normal(Normal(base \cup p.add) \ p.remove)]

\* UpdateHook reads the row,
EditBegin(a, h, p) ==
    /\ editor[a] = Idle /\ hook[h].state = "there" /\ Upset
    /\ edits' = edits + 1
    /\ editor' = [editor EXCEPT ![a] = [pc |-> "write", hook |-> h, row |-> hook[h], patch |-> p]]
    /\ UNCHANGED <<hook, recorded, log, ledger, work, run, hist, extras, fails, faults>>

\* and UpdateWebhook writes all of it; no row is an error.
EditWrite(a) ==
    /\ editor[a].pc = "write"
    /\ IF hook[editor[a].hook].state = "there"
       THEN SetHook(editor[a].hook, Patched(editor[a].row, editor[a].patch))
       ELSE UNCHANGED <<hook, hist>>
    /\ editor' = [editor EXCEPT ![a] = Idle]
    /\ UNCHANGED <<recorded, log, ledger, work, run, edits, extras, fails, faults>>

\* DeleteWebhook, and by cascade the hook's deliveries.
DeleteHook(h) ==
    /\ hook[h].state = "there" /\ Upset
    /\ edits' = edits + 1
    /\ SetHook(h, [state |-> "deleted", active |-> FALSE, wants |-> {}])
    /\ log' = {d \in log : d[1] # h}
    /\ UNCHANGED <<recorded, ledger, work, run, editor, extras, fails, faults>>

\* PingHook, TestHook (its job names no event) and RedeliverHookDelivery.
Extra(w) ==
    /\ hook[w.hook].state = "there" /\ Upset
    /\ extras' = extras + 1
    /\ Put(w)
    /\ UNCHANGED <<hook, recorded, log, run, editor, hist, edits, fails, faults>>

PingHook(h) == Extra(Delivery("ping", h, NoEvent))

TestHook(h) == Covers(hook[h].wants, Push) /\ Extra(Delivery("test", h, NoEvent))

Redeliver(d) == d \in log /\ Extra(Delivery("again", d[1], d[2]))

\* The retention sweep reaches a row.
PruneDeliveries(d) ==
    /\ d \in log
    /\ log' = log \ {d}
    /\ UNCHANGED <<hook, recorded, ledger, work, run, editor, hist, edits, extras, fails, faults>>

-----------------------------------------------------------------------------
\* InsertEventAndJob: the event and its fan-out job in one transaction.
RecordEvent(e) ==
    /\ e \notin recorded
    /\ recorded' = recorded \cup {e}
    /\ Put([kind |-> "fanout", hook |-> NoHook, what |-> e, called |-> FALSE])
    /\ LET now == {h \in Hook : Listens(hook[h], KindOf[e])}
       IN  steady' = [steady EXCEPT ![e] = now] /\ invited' = [invited EXCEPT ![e] = now]
    /\ UNCHANGED <<hook, log, run, editor, accepted, refanned, edits, extras, fails, faults>>

-----------------------------------------------------------------------------
(* The handlers. *)

Start(s) ==
    /\ Cardinality({t \in Slot : run[t] # Idle}) < Loops
    /\ Jobs!Start(s)
    /\ run' = [run EXCEPT ![s] = [pc |-> IF work[s].kind = "fanout" THEN "repo" ELSE "load",
                                  todo |-> {}, ok |-> FALSE]]
    /\ refanned' = IF work[s].kind = "fanout" /\ ledger[s].attempts > 0
                   THEN refanned \cup {work[s].what} ELSE refanned
    /\ UNCHANGED <<hook, recorded, log, work, editor, steady, invited, accepted,
                   edits, extras, fails, faults>>

\* ListActiveWebhooks twice: of the repository, then of its owner's anchor.
List(s) ==
    /\ LET found(some) == {h \in some : Hears(hook[h], KindOf[work[s].what])} IN
       \/ /\ run[s].pc = "repo"
          /\ run' = [run EXCEPT ![s].pc = "org", ![s].todo = found(Hook \ OrgHook)]
       \/ /\ run[s].pc = "org"
          /\ run' = [run EXCEPT ![s].pc = "enqueue", ![s].todo = @ \cup found(OrgHook)]
    /\ UNCHANGED <<hook, recorded, log, ledger, work, editor, hist, edits, extras, fails, faults>>

\* One job per listed hook.
FanOut(s, h) ==
    /\ run[s].pc = "enqueue" /\ h \in run[s].todo
    /\ Put(Delivery("event", h, work[s].what))
    /\ run' = [run EXCEPT ![s].todo = @ \ {h}]
    /\ UNCHANGED <<hook, recorded, log, editor, hist, edits, extras, fails, faults>>

FanOutDone(s) ==
    /\ run[s].pc = "enqueue" /\ run[s].todo = {}
    /\ run' = [run EXCEPT ![s].pc = "done"]
    /\ UNCHANGED <<hook, recorded, log, ledger, work, editor, hist, edits, extras, fails, faults>>

\* What the request is built from: the recorded delivery, nothing for a ping,
\* and the event row for all others.
Found(w) ==
    CASE w.kind = "again" -> <<w.hook, w.what>> \in log
      [] w.kind = "ping"  -> TRUE
      [] OTHER            -> w.what \in recorded

\* GetWebhookByPK and buildRequest; whether the hook is active does not matter.
Load(s) ==
    /\ run[s].pc = "load"
    /\ run' = [run EXCEPT ![s].pc =
          IF hook[work[s].hook].state = "there" /\ Found(work[s]) THEN "post" ELSE "failed"]
    /\ UNCHANGED <<hook, recorded, log, ledger, work, editor, hist, edits, extras, fails, faults>>

\* The POST: a 2xx answer, or another one or none.
Post(s, ok) ==
    /\ run[s].pc = "post"
    /\ IF ok THEN UNCHANGED fails ELSE Upset /\ fails' = fails + 1
    /\ run' = [run EXCEPT ![s].pc = "record", ![s].ok = ok]
    /\ work' = [work EXCEPT ![s].called = TRUE]
    /\ accepted' = IF ok /\ work[s].kind = "event"
                   THEN [accepted EXCEPT ![work[s].what][work[s].hook] = IF @ < 2 THEN @ + 1 ELSE @]
                   ELSE accepted
    /\ UNCHANGED <<hook, recorded, log, ledger, editor, steady, invited, refanned,
                   edits, extras, faults>>

\* Mutants: any answer will do; a delivery that could not be logged is an error.
OutcomeSwallowed(ok, logged) == "done"
OutcomeLogged(ok, logged) == IF ok /\ logged THEN "done" ELSE "failed"

\* The answer alone decides; InsertDelivery's error is ignored.
Outcome(ok, logged) == IF ok THEN "done" ELSE "failed"

\* InsertDelivery refers to the hook: no row is written once that is gone.
Record(s) ==
    /\ run[s].pc = "record"
    /\ \E logged \in BOOLEAN :
          /\ IF logged
             THEN /\ hook[work[s].hook].state = "there"
                  /\ log' = log \cup {<<work[s].hook, work[s].what>>}
                  /\ UNCHANGED fails
             ELSE /\ UNCHANGED log
                  /\ IF hook[work[s].hook].state = "there"
                     THEN Upset /\ fails' = fails + 1
                     ELSE UNCHANGED fails
          /\ run' = [run EXCEPT ![s].pc = Outcome(run[s].ok, logged)]
    /\ UNCHANGED <<hook, recorded, ledger, work, editor, hist, edits, extras, faults>>

\* A query, a rendering or an enqueue fails, and with it the handler.
Break(s) ==
    /\ run[s].pc \in {"repo", "org", "enqueue", "load"}
    /\ run[s].pc = "enqueue" => run[s].todo # {}
    /\ Upset /\ fails' = fails + 1
    /\ run' = [run EXCEPT ![s].pc = "failed"]
    /\ UNCHANGED <<hook, recorded, log, ledger, work, editor, hist, edits, extras, faults>>

\* The queue settles the job: gone, run again, or parked.
Settle(s) ==
    /\ \/ /\ run[s].pc = "done"
          /\ Jobs!Finish(s)
          /\ work' = [work EXCEPT ![s] = NoWork]
       \/ /\ run[s].pc = "failed"
          /\ Jobs!Retry(s) \/ Jobs!Park(s)
          /\ UNCHANGED work
    /\ run' = [run EXCEPT ![s] = Idle]
    /\ UNCHANGED <<hook, recorded, log, editor, hist, edits, extras, fails, faults>>

\* The settle is lost, or the process restarts: the rows stay in "running".
SettleLost(s) ==
    /\ run[s].pc \in {"done", "failed"} /\ Upset
    /\ faults' = faults + 1
    /\ run' = [run EXCEPT ![s] = Idle]
    /\ UNCHANGED <<hook, recorded, log, ledger, work, editor, hist, edits, extras, fails>>

Restart ==
    /\ Upset
    /\ faults' = faults + 1
    /\ run' = [s \in Slot |-> Idle]
    /\ editor' = [a \in Editor |-> Idle]
    /\ UNCHANGED <<hook, recorded, log, ledger, work, hist, edits, extras, fails>>

-----------------------------------------------------------------------------
HandlerStep(s) ==
    \/ List(s) \/ (\E h \in Hook : FanOut(s, h)) \/ FanOutDone(s)
    \/ Load(s) \/ (\E ok \in BOOLEAN : Post(s, ok)) \/ Record(s) \/ Settle(s)

Next ==
    \/ \E h \in Hook, in \in Offer : CreateHook(h, in)
    \/ \E a \in Editor, h \in Hook, p \in Patch : EditBegin(a, h, p)
    \/ \E a \in Editor : EditWrite(a)
    \/ \E h \in Hook : DeleteHook(h) \/ PingHook(h) \/ TestHook(h)
    \/ \E d \in log : Redeliver(d) \/ PruneDeliveries(d)
    \/ \E e \in Event : RecordEvent(e)
    \/ \E s \in Slot : Start(s) \/ HandlerStep(s) \/ Break(s) \/ SettleLost(s)
    \/ Restart

Spec == Init /\ [][Next]_vars

\* The queue starts what it accepted, a handler returns (its client has a
\* timeout), and its result is settled.
FairSpec == Spec /\ \A s \in Slot : WF_vars(Start(s)) /\ WF_vars(HandlerStep(s))

-----------------------------------------------------------------------------
(* What holds. *)

FanOutOf(s, e) == work[s].kind = "fanout" /\ work[s].what = e
DeliveryOf(s, h, e) == work[s].kind = "event" /\ work[s].hook = h /\ work[s].what = e

\* A fan-out that will still make a job for h, or whose row is there to show that
\* it did not.
Ahead(s, h) == run[s].pc = "enqueue" => h \in run[s].todo

\* At least once: a hook that listens ever since an event was recorded has
\* answered it with a 2xx, or the jobs table holds a row that accounts for it: the
\* fan-out that has still to reach it or the delivery itself, be they queued,
\* running, parked or left behind by a crash.  Partial fan-outs, lost log rows and
\* retries never lose one.
AcceptedOrOwed ==
    \A e \in recorded : \A h \in steady[e] :
        \/ accepted[e][h] > 0
        \/ \E s \in Slot : \/ DeliveryOf(s, h, e)
                           \/ FanOutOf(s, e) /\ run[s].pc # "done" /\ Ahead(s, h)

\* A hook is called for an event only when it listened at some time since the
\* event was recorded, however late the retry or the fan-out.
OnlyInvited ==
    \A s \in Slot : work[s].kind = "event" /\ work[s].called => work[s].hook \in invited[work[s].what]

\* A hook accepts an event twice only when the fan-out was begun twice: a retried
\* delivery never follows one that was accepted, whatever became of its log row.
TwiceOnlyRefanned ==
    \A e \in Event, h \in Hook : accepted[e][h] > 1 => e \in refanned

\* Under fairness every event reaches the hooks that keep listening, or a parked
\* row says that it did not, unless a fault left a row running.
Reaches ==
    \A e \in Event, h \in Hook :
        (e \in recorded /\ h \in steady[e]) ~>
            \/ accepted[e][h] > 0 \/ h \notin steady[e] \/ faults > 0
            \/ \E s \in Slot : /\ ledger[s].state = "dead"
                               /\ DeliveryOf(s, h, e) \/ FanOutOf(s, e)
=============================================================================
