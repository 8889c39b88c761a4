----------------------- MODULE WebhookDeliveryProofs -----------------------
(***************************************************************************)
(* Proofs about WebhookDelivery for any hooks, events, job slots, editors, *)
(* attempts and upsets.                                                    *)
(*                                                                         *)
(* Two ideas carry the argument.  Owes: a slot accounts for a pair of an   *)
(* event and a hook as long as its row is the delivery or a fan-out that   *)
(* has still to reach the hook, and a slot ceases to account for a pair    *)
(* only when another takes over or the hook has accepted.  Potent: a slot  *)
(* may still bring about an acceptance of the pair without the fan-out     *)
(* being begun again; one slot at most is, and none once it was accepted.  *)
(***************************************************************************)
EXTENDS WebhookDelivery, TLAPS

\* The job's row and its handler fit each other.
Sound(s) ==
    /\ work[s].kind = "none" <=> ledger[s].state = "none"
    /\ run[s].pc # "idle" => ledger[s].state = "running"
    /\ ledger[s].state = "running" => ledger[s].attempts > 0
    /\ run[s].pc \in {"repo", "org", "enqueue"} => work[s].kind = "fanout"
    /\ run[s].pc \in {"load", "post", "record"} => work[s].kind # "fanout"
    /\ work[s].kind \notin {"none", "fanout"} => work[s].hook \in Hook

\* A job about an event comes after it, and is for hooks that were invited.
Named(s) ==
    /\ work[s].kind \in {"fanout", "event"} => work[s].what \in recorded
    /\ work[s].kind = "event" => work[s].hook \in invited[work[s].what]
    /\ run[s].pc \in {"org", "enqueue"} => run[s].todo \subseteq invited[work[s].what]

\* A delivery is done when it was answered 2xx, and failed when it was not.
Answered(s) ==
    work[s].kind = "event" /\ run[s].pc # "idle" =>
        /\ run[s].ok => accepted[work[s].what][work[s].hook] > 0
        /\ run[s].pc = "done" => run[s].ok
        /\ run[s].pc \in {"load", "post", "failed"} => ~run[s].ok

\* Between the two queries the repository's steady hooks are on the list.
Listed(s) == run[s].pc = "org" => steady[work[s].what] \ OrgHook \subseteq run[s].todo

Slots == \A s \in Slot : Sound(s) /\ Named(s) /\ Answered(s) /\ Listed(s)

Histories ==
    \A e \in Event, h \in Hook :
        /\ h \in steady[e] => e \in recorded /\ Listens(hook[h], KindOf[e])
        /\ e \in recorded /\ Listens(hook[h], KindOf[e]) => h \in invited[e]
        /\ accepted[e][h] > 0 => e \in recorded

Owes(s, h, e) ==
    \/ DeliveryOf(s, h, e)
    \/ FanOutOf(s, e) /\ run[s].pc # "done" /\ Ahead(s, h)

Potent(s, h, e) ==
    \/ /\ FanOutOf(s, e)
       /\ \/ ledger[s].state = "queued" /\ ledger[s].attempts = 0
          \/ run[s].pc \in {"repo", "org"}
          \/ run[s].pc = "enqueue" /\ h \in run[s].todo
    \/ /\ DeliveryOf(s, h, e)
       /\ ledger[s].state = "queued" \/ (run[s].pc # "idle" /\ ~run[s].ok)

Once ==
    \A e \in Event \ refanned, h \in Hook :
        /\ accepted[e][h] <= 1
        /\ \A s \in Slot : Potent(s, h, e) => accepted[e][h] = 0
        /\ \A s, t \in Slot : Potent(s, h, e) /\ Potent(t, h, e) => s = t

IInv == TypeOK /\ Slots /\ Histories /\ AcceptedOrOwed /\ Once

USE OrgAssumption, KindAssumption, NoneAssumption, BoundsAssumption

-----------------------------------------------------------------------------
LEMMA RunFact ==
    ASSUME TypeOK, NEW s \in Slot, run[s].pc # "idle"
    PROVE  /\ run[s] \in Running
           /\ run[s].pc \in {"repo", "org", "enqueue", "load", "post", "record", "done", "failed"}
           /\ run[s].todo \subseteq Hook /\ run[s].ok \in BOOLEAN
BY DEF TypeOK, Idle, Running

LEMMA WorkFact ==
    ASSUME TypeOK, NEW s \in Slot, work[s].kind # "none"
    PROVE  /\ work[s] \in Work
           /\ work[s].hook \in Hook \cup {NoHook} /\ work[s].what \in Event \cup {NoEvent}
           /\ work[s].kind \in {"fanout", "event", "ping", "test", "again"}
BY DEF TypeOK, NoWork, Work

LEMMA LedgerFact ==
    ASSUME TypeOK, NEW s \in Slot
    PROVE  /\ ledger[s].state \in {"none", "queued", "running", "dead"}
           /\ ledger[s].key = NoKey /\ ledger[s].handled \in BOOLEAN
           /\ ledger[s].attempts \in 0..MaxAttempts /\ ledger[s].attempts \in Nat
BY DEF TypeOK

JobRow == [state : {"none", "queued", "running", "dead"}, key : {NoKey},
           handled : BOOLEAN, attempts : 0..MaxAttempts]

LEMMA JobRowFact ==
    ASSUME TypeOK, NEW s \in Slot
    PROVE  \E a, c, d : /\ ledger[s] = [state |-> a, key |-> NoKey, handled |-> c, attempts |-> d]
                        /\ a = ledger[s].state /\ c \in BOOLEAN /\ d \in 0..MaxAttempts
                        /\ d = ledger[s].attempts
<1>1. ledger[s] \in JobRow
  BY DEF TypeOK, JobRow
<1>2. QED
  BY <1>1 DEF JobRow

\* What Start and Settle do to a row, and that it stays one.
LEMMA JobSteps ==
    ASSUME TypeOK, NEW s \in Slot
    PROVE  /\ Jobs!Start(s) => /\ ledger[s].state = "queued"
                               /\ ledger'[s].state = "running"
                               /\ ledger'[s].attempts = ledger[s].attempts + 1
           /\ Jobs!Finish(s) => ledger[s].state = "running" /\ ledger'[s].state = "none"
           /\ Jobs!Retry(s) => /\ ledger[s].state = "running" /\ ledger'[s].state = "queued"
                               /\ ledger'[s].attempts = ledger[s].attempts
           /\ Jobs!Park(s) => ledger[s].state = "running" /\ ledger'[s].state = "dead"
           /\ Jobs!Start(s) \/ Jobs!Finish(s) \/ Jobs!Retry(s) \/ Jobs!Park(s) =>
                 /\ ledger' \in [Slot -> JobRow]
                 /\ \A t \in Slot \ {s} : ledger'[t] = ledger[t]
<1>1. ledger \in [Slot -> JobRow]
  BY DEF TypeOK, JobRow
<1>2. PICK a, c, d : /\ ledger[s] = [state |-> a, key |-> NoKey, handled |-> c, attempts |-> d]
                     /\ c \in BOOLEAN /\ d \in 0..MaxAttempts /\ d = ledger[s].attempts
  BY JobRowFact
<1>3. ASSUME NEW row \in JobRow, ledger' = [ledger EXCEPT ![s] = row]
      PROVE  /\ ledger' \in [Slot -> JobRow] /\ ledger'[s] = row
             /\ \A t \in Slot \ {s} : ledger'[t] = ledger[t]
  BY <1>1, <1>3
<1>4. ASSUME Jobs!Start(s)
      PROVE  /\ ledger[s].state = "queued" /\ ledger'[s].state = "running"
             /\ ledger'[s].attempts = ledger[s].attempts + 1
             /\ ledger' \in [Slot -> JobRow]
             /\ \A t \in Slot \ {s} : ledger'[t] = ledger[t]
  <2>1. ledger[s].state = "queued" /\ ledger[s].attempts < MaxAttempts
        /\ ledger' = [ledger EXCEPT ![s].state = "running", ![s].attempts = @ + 1]
    BY <1>4 DEF Jobs!Start
  <2>2. PICK n : n = d + 1
    OBVIOUS
  <2>3. ledger' = [ledger EXCEPT ![s] = [[ledger[s] EXCEPT !.state = "running"] EXCEPT !.attempts = n]]
    BY <1>2, <2>1, <2>2
  <2>4. PICK q : q = [ledger[s] EXCEPT !.state = "running"]
    OBVIOUS
  <2>5. q = [state |-> "running", key |-> NoKey, handled |-> c, attempts |-> d]
    BY ONLY <1>2, <2>4
  <2>6. PICK row : row = [q EXCEPT !.attempts = n]
    OBVIOUS
  <2>7. row = [state |-> "running", key |-> NoKey, handled |-> c, attempts |-> n]
    BY ONLY <2>5, <2>6
  <2>8. n \in 0..MaxAttempts
    BY <1>2, <2>1, <2>2
  <2>9. row \in JobRow
    BY <1>2, <2>7, <2>8 DEF JobRow
  <2>10. ledger' = [ledger EXCEPT ![s] = row]
    BY ONLY <2>3, <2>4, <2>6
  <2>11. row.state = "running" /\ row.attempts = n
    BY ONLY <2>7
  <2>12. QED
    BY <1>2, <1>3, <2>1, <2>2, <2>9, <2>10, <2>11
<1>5. ASSUME NEW state \in {"queued", "dead"}, ledger' = [ledger EXCEPT ![s].state = state]
      PROVE  /\ ledger'[s].state = state /\ ledger'[s].attempts = ledger[s].attempts
             /\ ledger' \in [Slot -> JobRow]
             /\ \A t \in Slot \ {s} : ledger'[t] = ledger[t]
  <2>1. PICK row : row = [ledger[s] EXCEPT !.state = state]
    OBVIOUS
  <2>2. row = [state |-> state, key |-> NoKey, handled |-> c, attempts |-> d]
    BY ONLY <1>2, <2>1
  <2>3. row \in JobRow
    BY <1>2, <2>2 DEF JobRow
  <2>4. ledger' = [ledger EXCEPT ![s] = row]
    BY ONLY <1>5, <2>1
  <2>5. row.state = state /\ row.attempts = d
    BY ONLY <2>2
  <2>6. QED
    BY <1>2, <1>3, <2>3, <2>4, <2>5
<1>6. ASSUME Jobs!Finish(s)
      PROVE  /\ ledger[s].state = "running" /\ ledger'[s].state = "none"
             /\ ledger' \in [Slot -> JobRow]
             /\ \A t \in Slot \ {s} : ledger'[t] = ledger[t]
  <2>1. 0 \in 0..MaxAttempts
    OBVIOUS
  <2>2. Jobs!Free \in JobRow /\ Jobs!Free.state = "none"
    BY <2>1 DEF Jobs!Free, JobRow
  <2>3. QED
    BY <1>3, <1>6, <2>2 DEF Jobs!Finish
<1>7. Jobs!Retry(s) => ledger[s].state = "running" /\ ledger' = [ledger EXCEPT ![s].state = "queued"]
  BY DEF Jobs!Retry
<1>8. Jobs!Park(s) => ledger[s].state = "running" /\ ledger' = [ledger EXCEPT ![s].state = "dead"]
  BY DEF Jobs!Park
<1>9. QED
  BY <1>4, <1>5, <1>6, <1>7, <1>8

\* What Put does, to a slot that was free.
LEMMA PutFact ==
    ASSUME NEW w, Put(w)
    PROVE  \E s \in Slot :
              /\ ledger[s].state = "none"
              /\ ledger' = [ledger EXCEPT ![s] = [state |-> "queued", key |-> NoKey,
                                                  handled |-> TRUE, attempts |-> 0]]
              /\ work' = [work EXCEPT ![s] = w]
BY DEF Put, Jobs!Accept

\* One slot's row and job are new; the others are what they were.
LEMMA PutType ==
    ASSUME TypeOK, NEW w \in Work, Put(w)
    PROVE  /\ ledger' \in [Slot -> [state : {"none", "queued", "running", "dead"}, key : {NoKey},
                                    handled : BOOLEAN, attempts : 0..MaxAttempts]]
           /\ work' \in [Slot -> {NoWork} \cup Work]
<1>1. PICK s \in Slot :
         /\ ledger' = [ledger EXCEPT ![s] = [state |-> "queued", key |-> NoKey,
                                             handled |-> TRUE, attempts |-> 0]]
         /\ work' = [work EXCEPT ![s] = w]
  BY PutFact
<1>2. 0 \in 0..MaxAttempts
  OBVIOUS
<1>3. QED
  BY <1>1, <1>2 DEF TypeOK

\* A row that is written, patched or not, is a row.
LEMMA PatchedType ==
    ASSUME NEW row \in HookRow, NEW p \in Patch
    PROVE  Patched(row, p) \in HookRow
<1> DEFINE base == IF p.events = Keep THEN row.wants ELSE p.events
           wants == Normal(Normal(base \cup p.add) \ p.remove)
           active == IF p.active = Keep THEN row.active ELSE p.active
<1>1. row.active \in BOOLEAN /\ row.wants \subseteq Kind \cup {Star}
  BY DEF HookRow
<1>2. p \in [active : BOOLEAN \cup {Keep}, events : (SUBSET (Kind \cup {Star})) \cup {Keep},
             add : SUBSET (Kind \cup {Star}), remove : SUBSET (Kind \cup {Star})]
  BY PatchAssumption
<1>3. active \in BOOLEAN
  BY <1>1, <1>2
<1>4. base \subseteq Kind \cup {Star}
  BY <1>1, <1>2
<1>5. Normal(base \cup p.add) \subseteq Kind \cup {Star}
  <2>1. p.add \subseteq Kind \cup {Star}
    BY <1>2
  <2>2. QED
    BY <1>4, <2>1 DEF Normal
<1>6. wants \in SUBSET (Kind \cup {Star})
  BY <1>5 DEF Normal
<1>7. Patched(row, p) = [row EXCEPT !.active = active, !.wants = wants]
  BY DEF Patched
<1> HIDE DEF active, wants
<1> QED
  BY <1>3, <1>6, <1>7 DEF HookRow

LEMMA SetHookType ==
    ASSUME TypeOK, NEW h \in Hook, NEW row \in HookRow, SetHook(h, row)
    PROVE  /\ hook' \in [Hook -> HookRow]
           /\ steady' \in [Event -> SUBSET Hook] /\ invited' \in [Event -> SUBSET Hook]
           /\ accepted' = accepted /\ refanned' = refanned
<1>1. hook' \in [Hook -> HookRow]
  BY DEF TypeOK, SetHook
<1>2. steady' \in [Event -> SUBSET Hook] /\ invited' \in [Event -> SUBSET Hook]
  BY DEF TypeOK, SetHook
<1>3. QED
  BY <1>1, <1>2 DEF SetHook

\* The bounds are kept by what counts an upset.
LEMMA UpsetType ==
    ASSUME {edits, extras, fails, faults} \subseteq 0..MaxUpsets, Upset
    PROVE  /\ edits + 1 \in 0..MaxUpsets /\ extras + 1 \in 0..MaxUpsets
           /\ fails + 1 \in 0..MaxUpsets /\ faults + 1 \in 0..MaxUpsets
<1>1. edits \in 0..MaxUpsets /\ extras \in 0..MaxUpsets /\ fails \in 0..MaxUpsets /\ faults \in 0..MaxUpsets
  OBVIOUS
<1>2. edits + extras + fails + faults < MaxUpsets
  BY DEF Upset
<1>3. QED
  BY <1>1, <1>2


\* A handler's step at one slot.
LEMMA RunType ==
    ASSUME TypeOK, NEW s \in Slot, NEW r \in {Idle} \cup Running, run' = [run EXCEPT ![s] = r]
    PROVE  run' \in [Slot -> {Idle} \cup Running]
BY DEF TypeOK

\* The deliveries of the environment and of a fan-out.
LEMMA DeliveryType == ASSUME NEW kind \in {"event", "ping", "test", "again"}, NEW h \in Hook,
                             NEW e \in Event \cup {NoEvent}
                      PROVE  Delivery(kind, h, e) \in Work
BY DEF Delivery, Work

LEMMA InitType == ASSUME Init PROVE TypeOK
<1>1. \A h \in Hook : [state |-> "none", active |-> FALSE, wants |-> {}] \in HookRow
  BY DEF HookRow
<1>2. 0 \in 0..MaxAttempts /\ 0 \in 0..MaxUpsets
  OBVIOUS
<1>3. ledger \in [Slot -> [state : {"none", "queued", "running", "dead"}, key : {NoKey},
                           handled : BOOLEAN, attempts : 0..MaxAttempts]]
  BY <1>2 DEF Init, Jobs!Init, Jobs!Free
<1>4. QED
  BY <1>1, <1>2, <1>3 DEF Init, TypeOK, Idle

LEMMA CreateHookType ==
    ASSUME TypeOK, NEW h \in Hook, NEW in \in Offer, CreateHook(h, in)
    PROVE  TypeOK'
<1> DEFINE row == [state |-> "there", active |-> in.active, wants |-> Normal(in.events)]
<1>1. row \in HookRow
  <2>1. in \in [active : BOOLEAN, events : SUBSET (Kind \cup {Star})]
    BY OfferAssumption
  <2>2. in.active \in BOOLEAN /\ Normal(in.events) \subseteq Kind \cup {Star}
    BY <2>1 DEF Normal
  <2>3. QED
    BY <2>2 DEF HookRow
<1>2. SetHook(h, row)
  BY DEF CreateHook
<1> HIDE DEF row
<1>3. Delivery("ping", h, NoEvent) \in Work
  BY DeliveryType
<1>4. UNCHANGED <<recorded, log, run, editor, edits, fails, faults>>
  BY DEF CreateHook
<1>5. CASE /\ Upset /\ extras' = extras + 1
           /\ Put(Delivery("ping", h, NoEvent))
  <2>1. extras' \in 0..MaxUpsets
    BY <1>5, UpsetType DEF TypeOK
  <2>2. QED
    BY <1>1, <1>2, <1>3, <1>4, <1>5, <2>1, SetHookType, PutType DEF TypeOK
<1>6. CASE UNCHANGED <<ledger, work, extras>>
  BY <1>1, <1>2, <1>4, <1>6, SetHookType DEF TypeOK
<1>7. QED
  BY <1>5, <1>6 DEF CreateHook

LEMMA EditType ==
    ASSUME TypeOK, NEW a \in Editor,
           (\E h \in Hook, p \in Patch : EditBegin(a, h, p)) \/ EditWrite(a)
    PROVE  TypeOK'
<1>1. ASSUME NEW h \in Hook, NEW p \in Patch, EditBegin(a, h, p) PROVE TypeOK'
  <2>1. [pc |-> "write", hook |-> h, row |-> hook[h], patch |-> p] \in Editing
    BY DEF TypeOK, Editing
  <2>2. editor' \in [Editor -> {Idle} \cup Editing]
    BY <1>1, <2>1 DEF TypeOK, EditBegin
  <2>3. edits' \in 0..MaxUpsets
    BY <1>1, UpsetType DEF TypeOK, EditBegin
  <2>4. QED
    BY <1>1, <2>2, <2>3 DEF TypeOK, EditBegin, hist
<1>2. ASSUME EditWrite(a) PROVE TypeOK'
  <2>1. editor[a] \in Editing
    BY <1>2 DEF TypeOK, EditWrite, Idle
  <2>2. editor[a].hook \in Hook /\ editor[a].row \in HookRow /\ editor[a].patch \in Patch
    BY <2>1 DEF Editing
  <2>3. Patched(editor[a].row, editor[a].patch) \in HookRow
    BY <2>2, PatchedType
  <2>4. editor' \in [Editor -> {Idle} \cup Editing]
    BY <1>2 DEF TypeOK, EditWrite
  <2>5. UNCHANGED <<recorded, log, ledger, work, run, edits, extras, fails, faults>>
    BY <1>2 DEF EditWrite
  <2>6. CASE SetHook(editor[a].hook, Patched(editor[a].row, editor[a].patch))
    BY <2>2, <2>3, <2>4, <2>5, <2>6, SetHookType DEF TypeOK
  <2>7. CASE UNCHANGED <<hook, hist>>
    BY <2>4, <2>5, <2>7 DEF TypeOK, hist
  <2>8. QED
    BY <1>2, <2>6, <2>7 DEF EditWrite
<1>3. QED
  BY <1>1, <1>2

LEMMA DeleteHookType == ASSUME TypeOK, NEW h \in Hook, DeleteHook(h) PROVE TypeOK'
<1> DEFINE row == [state |-> "deleted", active |-> FALSE, wants |-> {}]
<1>1. row \in HookRow
  BY DEF HookRow
<1>2. SetHook(h, row)
  BY DEF DeleteHook
<1> HIDE DEF row
<1>3. edits' \in 0..MaxUpsets
  BY UpsetType DEF TypeOK, DeleteHook
<1>4. log' \subseteq Hook \X (Event \cup {NoEvent})
  BY DEF TypeOK, DeleteHook
<1>5. UNCHANGED <<recorded, ledger, work, run, editor, extras, fails, faults>>
  BY DEF DeleteHook
<1>6. QED
  BY <1>1, <1>2, <1>3, <1>4, <1>5, SetHookType DEF TypeOK

LEMMA ExtraType == ASSUME TypeOK, NEW w \in Work, Extra(w) PROVE TypeOK'
<1>1. extras' \in 0..MaxUpsets
  BY UpsetType DEF TypeOK, Extra
<1>2. Put(w) /\ UNCHANGED <<hook, recorded, log, run, editor, hist, edits, fails, faults>>
  BY DEF Extra
<1>3. QED
  BY <1>1, <1>2, PutType DEF TypeOK, hist

LEMMA RecordEventType == ASSUME TypeOK, NEW e \in Event, RecordEvent(e) PROVE TypeOK'
<1>1. [kind |-> "fanout", hook |-> NoHook, what |-> e, called |-> FALSE] \in Work
  BY DEF Work
<1>2. Put([kind |-> "fanout", hook |-> NoHook, what |-> e, called |-> FALSE])
  BY DEF RecordEvent
<1>3. UNCHANGED <<hook, log, run, editor, accepted, refanned, edits, extras, fails, faults>>
  BY DEF RecordEvent
<1>4. recorded' \subseteq Event
  BY DEF RecordEvent, TypeOK
<1>5. steady' \in [Event -> SUBSET Hook] /\ invited' \in [Event -> SUBSET Hook]
  BY DEF RecordEvent, TypeOK
<1>6. QED
  BY <1>1, <1>2, <1>3, <1>4, <1>5, PutType DEF TypeOK

LEMMA StartType == ASSUME TypeOK, NEW s \in Slot, Named(s), Start(s) PROVE TypeOK'
<1> DEFINE r == [pc |-> IF work[s].kind = "fanout" THEN "repo" ELSE "load", todo |-> {}, ok |-> FALSE]
<1>1. r \in Running
  BY DEF Running
<1>2. run' = [run EXCEPT ![s] = r]
  BY DEF Start
<1> HIDE DEF r
<1>3. run' \in [Slot -> {Idle} \cup Running]
  BY <1>1, <1>2, RunType
<1>5. ledger' \in [Slot -> JobRow]
  BY JobSteps DEF Start
<1>6. refanned' \subseteq Event
  <2>1. CASE work[s].kind = "fanout" /\ ledger[s].attempts > 0
    <3>1. PICK e \in Event : e = work[s].what
      BY <2>1 DEF Named, TypeOK
    <3>2. refanned' = refanned \cup {e}
      BY <2>1, <3>1 DEF Start
    <3>3. QED
      BY <3>2 DEF TypeOK
  <2>2. CASE ~(work[s].kind = "fanout" /\ ledger[s].attempts > 0)
    BY <2>2 DEF Start, TypeOK
  <2>3. QED
    BY <2>1, <2>2
<1>7. UNCHANGED <<hook, recorded, log, work, editor, steady, invited, accepted,
                  edits, extras, fails, faults>>
  BY DEF Start
<1>8. QED
  BY <1>3, <1>5, <1>6, <1>7 DEF TypeOK, JobRow


\* The steps of a handler that touch nothing but its own place, its failures and
\* the log.
HandlerMove(s) == List(s) \/ FanOutDone(s) \/ Load(s) \/ Record(s) \/ Break(s)

LEMMA Moved ==
    ASSUME NEW r \in Running, NEW pc, NEW todo
    PROVE  /\ [r EXCEPT !.pc = pc] = [pc |-> pc, todo |-> r.todo, ok |-> r.ok]
           /\ [r EXCEPT !.pc = pc, !.todo = todo] = [pc |-> pc, todo |-> todo, ok |-> r.ok]
<1>1. PICK a, b, c : r = [pc |-> a, todo |-> b, ok |-> c]
  BY DEF Running
<1>2. [r EXCEPT !.pc = pc] = [pc |-> pc, todo |-> b, ok |-> c]
  BY ONLY <1>1
<1>3. [r EXCEPT !.pc = pc, !.todo = todo] = [pc |-> pc, todo |-> todo, ok |-> c]
  <2>1. PICK q : q = [r EXCEPT !.pc = pc]
    OBVIOUS
  <2>2. q = [pc |-> pc, todo |-> b, ok |-> c]
    BY <1>2, <2>1
  <2>3. [q EXCEPT !.todo = todo] = [pc |-> pc, todo |-> todo, ok |-> c]
    BY ONLY <2>2
  <2>4. QED
    BY <2>1, <2>3
<1>4. QED
  BY <1>1, <1>2, <1>3

LEMMA ListFact ==
    ASSUME TypeOK, NEW s \in Slot, List(s)
    PROVE  \E some \in {Hook \ OrgHook, OrgHook} :
             LET found == {h \in some : Hears(hook[h], KindOf[work[s].what])}
                 r == [pc |-> IF run[s].pc = "repo" THEN "org" ELSE "enqueue",
                       todo |-> IF run[s].pc = "repo" THEN found ELSE run[s].todo \cup found,
                       ok |-> run[s].ok]
             IN  /\ run[s].pc \in {"repo", "org"}
                 /\ run[s].pc = "repo" => some = Hook \ OrgHook
                 /\ run[s].pc = "org" => some = OrgHook
                 /\ r \in Running
                 /\ run' = [run EXCEPT ![s] = r]
<1> DEFINE foundIn(some) == {h \in some : Hears(hook[h], KindOf[work[s].what])}
<1>1. CASE run[s].pc = "repo"
  <2>1. run' = [run EXCEPT ![s].pc = "org", ![s].todo = foundIn(Hook \ OrgHook)]
    BY <1>1 DEF List
  <2>2. run[s] \in Running /\ run[s].ok \in BOOLEAN
    BY <1>1, RunFact
  <2>3. PICK f : f = foundIn(Hook \ OrgHook)
    OBVIOUS
  <2>4. f \subseteq Hook
    BY <2>3
  <2>5. [pc |-> "org", todo |-> f, ok |-> run[s].ok] \in Running
    BY <2>2, <2>4 DEF Running
  <2>6. run' = [run EXCEPT ![s] = [pc |-> "org", todo |-> f, ok |-> run[s].ok]]
    <3>1. run' = [run EXCEPT ![s] = [run[s] EXCEPT !.pc = "org", !.todo = f]]
      BY <2>1, <2>3
    <3>2. [run[s] EXCEPT !.pc = "org", !.todo = f] = [pc |-> "org", todo |-> f, ok |-> run[s].ok]
      BY <2>2, Moved
    <3>3. QED
      BY ONLY <3>1, <3>2
  <2>7. QED
    BY <1>1, <2>3, <2>5, <2>6
<1>2. CASE run[s].pc = "org"
  <2>1. run' = [run EXCEPT ![s].pc = "enqueue", ![s].todo = @ \cup foundIn(OrgHook)]
    BY <1>2 DEF List
  <2>2. run[s] \in Running /\ run[s].ok \in BOOLEAN /\ run[s].todo \subseteq Hook
    BY <1>2, RunFact
  <2>3. PICK f : f = run[s].todo \cup foundIn(OrgHook)
    OBVIOUS
  <2>4. f \subseteq Hook
    BY <2>2, <2>3
  <2>5. [pc |-> "enqueue", todo |-> f, ok |-> run[s].ok] \in Running
    BY <2>2, <2>4 DEF Running
  <2>6. run' = [run EXCEPT ![s] = [pc |-> "enqueue", todo |-> f, ok |-> run[s].ok]]
    <3>1. run' = [run EXCEPT ![s] = [run[s] EXCEPT !.pc = "enqueue", !.todo = f]]
      BY <2>1, <2>3
    <3>2. [run[s] EXCEPT !.pc = "enqueue", !.todo = f] = [pc |-> "enqueue", todo |-> f, ok |-> run[s].ok]
      BY <2>2, Moved
    <3>3. QED
      BY ONLY <3>1, <3>2
  <2>7. QED
    BY <1>2, <2>3, <2>5, <2>6
<1>3. run[s].pc = "repo" \/ run[s].pc = "org"
  BY DEF List
<1>4. QED
  BY <1>1, <1>2, <1>3

LEMMA FanOutDoneFact ==
    ASSUME TypeOK, NEW s \in Slot, FanOutDone(s)
    PROVE  LET r == [pc |-> "done", todo |-> run[s].todo, ok |-> run[s].ok]
           IN  run[s].pc = "enqueue" /\ run[s].todo = {} /\ r \in Running
               /\ run' = [run EXCEPT ![s] = r]
<1>1. run[s] \in Running /\ run[s].pc = "enqueue"
  BY RunFact DEF FanOutDone
<1>2. [pc |-> "done", todo |-> run[s].todo, ok |-> run[s].ok] \in Running
  BY <1>1 DEF Running
<1>3. run' = [run EXCEPT ![s] = [pc |-> "done", todo |-> run[s].todo, ok |-> run[s].ok]]
  BY <1>1, Moved DEF FanOutDone
<1>4. QED
  BY <1>1, <1>2, <1>3 DEF FanOutDone

LEMMA LoadFact ==
    ASSUME TypeOK, NEW s \in Slot, Load(s)
    PROVE  \E pc \in {"post", "failed"} :
             LET r == [pc |-> pc, todo |-> run[s].todo, ok |-> run[s].ok]
             IN  run[s].pc = "load" /\ r \in Running /\ run' = [run EXCEPT ![s] = r]
<1>1. run[s] \in Running /\ run[s].pc = "load"
  BY RunFact DEF Load
<1>2. PICK pc \in {"post", "failed"} : run' = [run EXCEPT ![s].pc = pc]
  BY DEF Load
<1>3. [pc |-> pc, todo |-> run[s].todo, ok |-> run[s].ok] \in Running
  BY <1>1 DEF Running
<1>4. run' = [run EXCEPT ![s] = [pc |-> pc, todo |-> run[s].todo, ok |-> run[s].ok]]
  BY <1>1, <1>2, Moved
<1>5. QED
  BY <1>1, <1>3, <1>4

LEMMA RecordFact ==
    ASSUME TypeOK, NEW s \in Slot, Record(s)
    PROVE  LET r == [pc |-> IF run[s].ok THEN "done" ELSE "failed",
                     todo |-> run[s].todo, ok |-> run[s].ok]
           IN  run[s].pc = "record" /\ r \in Running /\ run' = [run EXCEPT ![s] = r]
<1>1. run[s] \in Running /\ run[s].pc = "record"
  BY RunFact DEF Record
<1>2. run' = [run EXCEPT ![s].pc = IF run[s].ok THEN "done" ELSE "failed"]
  BY DEF Record, Outcome
<1>3. [pc |-> IF run[s].ok THEN "done" ELSE "failed",
       todo |-> run[s].todo, ok |-> run[s].ok] \in Running
  BY <1>1 DEF Running
<1>4. run' = [run EXCEPT ![s] = [pc |-> IF run[s].ok THEN "done" ELSE "failed",
                                todo |-> run[s].todo, ok |-> run[s].ok]]
  BY <1>1, <1>2, Moved
<1>5. QED
  BY <1>1, <1>3, <1>4

LEMMA BreakFact ==
    ASSUME TypeOK, NEW s \in Slot, Break(s)
    PROVE  LET r == [pc |-> "failed", todo |-> run[s].todo, ok |-> run[s].ok]
           IN  run[s].pc \in {"repo", "org", "enqueue", "load"} /\ r \in Running
               /\ run' = [run EXCEPT ![s] = r]
<1>1. run[s] \in Running
  BY RunFact DEF Break
<1>2. [pc |-> "failed", todo |-> run[s].todo, ok |-> run[s].ok] \in Running
  BY <1>1 DEF Running
<1>3. run' = [run EXCEPT ![s] = [pc |-> "failed", todo |-> run[s].todo, ok |-> run[s].ok]]
  BY <1>1, Moved DEF Break
<1>4. QED
  BY <1>1, <1>2, <1>3 DEF Break

LEMMA HandlerMoveType == ASSUME TypeOK, NEW s \in Slot, Sound(s), HandlerMove(s) PROVE TypeOK'
<1>1. run' \in [Slot -> {Idle} \cup Running]
  <2>1. CASE List(s)
    BY <2>1, ListFact, RunType
  <2>2. CASE FanOutDone(s)
    BY <2>2, FanOutDoneFact, RunType
  <2>3. CASE Load(s)
    BY <2>3, LoadFact, RunType
  <2>4. CASE Record(s)
    BY <2>4, RecordFact, RunType
  <2>5. CASE Break(s)
    BY <2>5, BreakFact, RunType
  <2>6. QED
    BY <2>1, <2>2, <2>3, <2>4, <2>5 DEF HandlerMove
<1>2. UNCHANGED <<hook, recorded, ledger, work, editor, hist, edits, extras, faults>>
  BY DEF HandlerMove, List, FanOutDone, Load, Record, Break
<1>3. fails' \in 0..MaxUpsets
  <2>1. fails' = fails \/ (Upset /\ fails' = fails + 1)
    BY DEF HandlerMove, List, FanOutDone, Load, Record, Break
  <2>2. QED
    BY <2>1, UpsetType DEF TypeOK
<1>4. log' \subseteq Hook \X (Event \cup {NoEvent})
  <2>1. CASE Record(s) /\ log' # log
    <3>1. log' = log \cup {<<work[s].hook, work[s].what>>}
      BY <2>1 DEF Record
    <3>2. run[s].pc = "record"
      BY <2>1 DEF Record
    <3>3. <<work[s].hook, work[s].what>> \in Hook \X (Event \cup {NoEvent})
      <4>1. work[s].kind \notin {"none", "fanout"} /\ work[s].hook \in Hook
        BY <3>2, LedgerFact DEF Sound
      <4>2. QED
        BY <4>1, WorkFact
    <3>4. QED
      BY <3>1, <3>3 DEF TypeOK
  <2>2. CASE log' = log
    BY <2>2 DEF TypeOK
  <2>3. QED
    BY <2>1, <2>2 DEF HandlerMove, List, FanOutDone, Load, Break
<1>5. QED
  BY <1>1, <1>2, <1>3, <1>4 DEF TypeOK, hist


LEMMA PostFact ==
    ASSUME TypeOK, NEW s \in Slot, NEW ok \in BOOLEAN, Post(s, ok)
    PROVE  LET r == [pc |-> "record", todo |-> run[s].todo, ok |-> ok]
           IN  run[s].pc = "post" /\ r \in Running /\ run' = [run EXCEPT ![s] = r]
<1>1. run[s] \in Running /\ run[s].pc = "post"
  BY RunFact DEF Post
<1>2. PICK a, b, c : run[s] = [pc |-> a, todo |-> b, ok |-> c] /\ b = run[s].todo
  BY <1>1 DEF Running
<1>3. PICK q : q = [run[s] EXCEPT !.pc = "record"]
  OBVIOUS
<1>4. q = [pc |-> "record", todo |-> b, ok |-> c]
  BY ONLY <1>2, <1>3
<1>5. [q EXCEPT !.ok = ok] = [pc |-> "record", todo |-> b, ok |-> ok]
  BY ONLY <1>4
<1>6. run' = [run EXCEPT ![s] = [q EXCEPT !.ok = ok]]
  BY <1>3 DEF Post
<1>7. run' = [run EXCEPT ![s] = [pc |-> "record", todo |-> run[s].todo, ok |-> ok]]
  BY ONLY <1>2, <1>5, <1>6
<1>8. [pc |-> "record", todo |-> run[s].todo, ok |-> ok] \in Running
  BY <1>1 DEF Running
<1>9. QED
  BY <1>1, <1>7, <1>8

LEMMA FanOutFact ==
    ASSUME TypeOK, NEW s \in Slot, NEW h \in Hook, FanOut(s, h)
    PROVE  LET r == [pc |-> "enqueue", todo |-> run[s].todo \ {h}, ok |-> run[s].ok]
           IN  run[s].pc = "enqueue" /\ r \in Running /\ run' = [run EXCEPT ![s] = r]
<1>1. run[s] \in Running /\ run[s].pc = "enqueue"
  BY RunFact DEF FanOut
<1>2. PICK a, b, c : run[s] = [pc |-> a, todo |-> b, ok |-> c]
                     /\ a = "enqueue" /\ b = run[s].todo /\ c = run[s].ok
  BY <1>1 DEF Running
<1>3. PICK d : d = b \ {h}
  OBVIOUS
<1>4. [run[s] EXCEPT !.todo = d] = [pc |-> "enqueue", todo |-> d, ok |-> c]
  BY ONLY <1>2
<1>5. run' = [run EXCEPT ![s] = [run[s] EXCEPT !.todo = d]]
  BY <1>2, <1>3 DEF FanOut
<1>6. run' = [run EXCEPT ![s] = [pc |-> "enqueue", todo |-> d, ok |-> c]]
  BY ONLY <1>4, <1>5
<1>7. [pc |-> "enqueue", todo |-> d, ok |-> c] \in Running
  BY <1>1, <1>2, <1>3 DEF Running
<1>8. QED
  BY <1>1, <1>2, <1>3, <1>6, <1>7

\* An acceptance is counted, up to two.
LEMMA CountedType ==
    ASSUME NEW a \in [Event -> [Hook -> 0..2]], NEW x, NEW y
    PROVE  [a EXCEPT ![x][y] = IF @ < 2 THEN @ + 1 ELSE @] \in [Event -> [Hook -> 0..2]]
<1>1. CASE x \in Event
  <2>1. PICK f \in [Hook -> 0..2] : f = a[x]
    BY <1>1
  <2>2. PICK n : n = IF f[y] < 2 THEN f[y] + 1 ELSE f[y]
    OBVIOUS
  <2>3. y \in Hook => n \in 0..2
    <3>1. y \in Hook => f[y] \in {0, 1, 2}
      BY <2>1
    <3>2. QED
      BY <2>2, <3>1
  <2>4. [f EXCEPT ![y] = n] \in [Hook -> 0..2]
    BY ONLY <2>1, <2>3
  <2>5. [a EXCEPT ![x] = [f EXCEPT ![y] = n]] \in [Event -> [Hook -> 0..2]]
    BY <2>4
  <2>6. [a EXCEPT ![x][y] = IF @ < 2 THEN @ + 1 ELSE @] = [a EXCEPT ![x] = [f EXCEPT ![y] = n]]
    BY <2>1, <2>2
  <2>7. QED
    BY <2>5, <2>6
<1>2. CASE x \notin Event
  BY <1>2
<1>3. QED
  BY <1>1, <1>2

LEMMA PostType ==
    ASSUME TypeOK, NEW s \in Slot, NEW ok \in BOOLEAN, Post(s, ok) PROVE TypeOK'
<1>1. run' \in [Slot -> {Idle} \cup Running]
  BY PostFact, RunType
<1>2. work' \in [Slot -> {NoWork} \cup Work]
  <2>1. work' = [work EXCEPT ![s].called = TRUE]
    BY DEF Post
  <2>2. CASE work[s] = NoWork
    <3>1. [NoWork EXCEPT !.called = TRUE] = NoWork
      BY DEF NoWork
    <3>2. QED
      BY <2>1, <2>2, <3>1 DEF TypeOK
  <2>3. CASE work[s] \in Work
    BY <2>1, <2>3 DEF TypeOK, Work
  <2>4. QED
    BY <2>2, <2>3 DEF TypeOK
<1>3. fails' \in 0..MaxUpsets
  BY UpsetType DEF TypeOK, Post
<1>4. accepted' \in [Event -> [Hook -> 0..2]]
  <2>2. CASE accepted' = accepted
    BY <2>2 DEF TypeOK
  <2>3. CASE accepted' = [accepted EXCEPT ![work[s].what][work[s].hook] = IF @ < 2 THEN @ + 1 ELSE @]
    BY <2>3, CountedType DEF TypeOK
  <2>4. QED
    BY <2>2, <2>3 DEF Post
<1>5. UNCHANGED <<hook, recorded, log, ledger, editor, steady, invited, refanned,
                  edits, extras, faults>>
  BY DEF Post
<1>6. QED
  BY <1>1, <1>2, <1>3, <1>4, <1>5 DEF TypeOK

LEMMA FanOutType ==
    ASSUME TypeOK, NEW s \in Slot, NEW h \in Hook, Sound(s), Named(s), FanOut(s, h) PROVE TypeOK'
<1>1. run' \in [Slot -> {Idle} \cup Running]
  BY FanOutFact, RunType
<1>2. Delivery("event", h, work[s].what) \in Work
  <2>1. work[s].what \in Event
    BY FanOutFact DEF Sound, Named, TypeOK
  <2>2. QED
    BY <2>1, DeliveryType
<1>3. Put(Delivery("event", h, work[s].what))
      /\ UNCHANGED <<hook, recorded, log, editor, hist, edits, extras, fails, faults>>
  BY DEF FanOut
<1>4. QED
  BY <1>1, <1>2, <1>3, PutType DEF TypeOK, hist

LEMMA SettleType == ASSUME TypeOK, NEW s \in Slot, Settle(s) PROVE TypeOK'
<1>1. run' \in [Slot -> {Idle} \cup Running]
  BY RunType DEF Settle
<1>2. work' \in [Slot -> {NoWork} \cup Work]
  BY DEF Settle, TypeOK
<1>3. ledger' \in [Slot -> JobRow]
  BY JobSteps DEF Settle
<1>4. UNCHANGED <<hook, recorded, log, editor, hist, edits, extras, fails, faults>>
  BY DEF Settle
<1>5. QED
  BY <1>1, <1>2, <1>3, <1>4 DEF TypeOK, JobRow, hist

LEMMA FaultType ==
    ASSUME TypeOK, Restart \/ \E s \in Slot : SettleLost(s) PROVE TypeOK'
<1>1. run' \in [Slot -> {Idle} \cup Running] /\ editor' \in [Editor -> {Idle} \cup Editing]
  BY DEF Restart, SettleLost, TypeOK
<1>2. faults' \in 0..MaxUpsets
  BY UpsetType DEF TypeOK, Restart, SettleLost
<1>3. UNCHANGED <<hook, recorded, log, ledger, work, hist, edits, extras, fails>>
  BY DEF Restart, SettleLost
<1>4. QED
  BY <1>1, <1>2, <1>3 DEF TypeOK, hist

LEMMA PruneType == ASSUME TypeOK, NEW d, PruneDeliveries(d) PROVE TypeOK'
BY DEF TypeOK, PruneDeliveries, hist

-----------------------------------------------------------------------------
(* What the steps do to the invariant, by the parts of it. *)

\* A pair stays accounted for when whoever accounts for it goes on doing so.
LEMMA OwedKept ==
    ASSUME TypeOK, AcceptedOrOwed, recorded' = recorded,
           \A e \in Event : steady'[e] \subseteq steady[e],
           \A e \in Event, h \in Hook : accepted[e][h] > 0 => accepted'[e][h] > 0,
           \A s \in Slot, e \in Event, h \in Hook :
              h \in steady[e] /\ Owes(s, h, e) =>
                 accepted'[e][h] > 0 \/ \E t \in Slot : Owes(t, h, e)'
    PROVE  AcceptedOrOwed'
<1> SUFFICES ASSUME NEW e \in recorded', NEW h \in steady'[e]
             PROVE  accepted'[e][h] > 0 \/ \E t \in Slot : Owes(t, h, e)'
  BY DEF AcceptedOrOwed, Owes
<1>1. e \in recorded /\ e \in Event /\ h \in steady[e] /\ h \in Hook
  BY DEF TypeOK
<1>2. accepted[e][h] > 0 \/ \E s \in Slot : Owes(s, h, e)
  BY <1>1 DEF AcceptedOrOwed, Owes
<1>3. QED
  BY <1>1, <1>2

\* No slot becomes potent, nothing is accepted.
LEMMA OnceKept ==
    ASSUME TypeOK, Once, accepted' = accepted, refanned \subseteq refanned',
           \A s \in Slot, e \in Event, h \in Hook :
              e \notin refanned' /\ Potent(s, h, e)' => Potent(s, h, e)
    PROVE  Once'
<1> SUFFICES ASSUME NEW e \in Event \ refanned', NEW h \in Hook
             PROVE  /\ accepted'[e][h] <= 1
                    /\ \A s \in Slot : Potent(s, h, e)' => accepted'[e][h] = 0
                    /\ \A s, t \in Slot : Potent(s, h, e)' /\ Potent(t, h, e)' => s = t
  BY DEF Once
<1>1. e \in Event \ refanned
  OBVIOUS
<1>2. QED
  BY <1>1 DEF Once


\* The histories of a recorded event only shrink, grow and grow.
Grows ==
    /\ recorded \subseteq recorded'
    /\ \A e \in recorded : steady'[e] \subseteq steady[e] /\ invited[e] \subseteq invited'[e]
    /\ \A e \in Event, h \in Hook : accepted[e][h] > 0 => accepted'[e][h] > 0

Good(s) == Sound(s) /\ Named(s) /\ Answered(s) /\ Listed(s)

SameSlot(s) == work'[s] = work[s] /\ run'[s] = run[s] /\ ledger'[s] = ledger[s]

LEMMA EventJobFact ==
    ASSUME TypeOK, NEW s \in Slot, Named(s), work[s].kind = "event"
    PROVE  work[s].what \in recorded /\ work[s].what \in Event /\ work[s].hook \in Hook
BY DEF Named, TypeOK

LEMMA SlotKept ==
    ASSUME TypeOK, NEW s \in Slot, Good(s), SameSlot(s), Grows
    PROVE  /\ Good(s)'
           /\ \A e \in Event, h \in Hook : Owes(s, h, e)' <=> Owes(s, h, e)
           /\ \A e \in Event, h \in Hook : Potent(s, h, e)' <=> Potent(s, h, e)
<1>1. Sound(s)'
  BY DEF Good, Sound, SameSlot
<1>2. Named(s)'
  <2>1. work[s].kind \in {"fanout", "event"} => work[s].what \in recorded
    BY DEF Good, Named
  <2>2. run[s].pc \in {"org", "enqueue"} => work[s].kind = "fanout"
    BY DEF Good, Sound
  <2>3. QED
    BY <2>1, <2>2 DEF Good, Named, SameSlot, Grows
<1>3. Answered(s)'
  <2>1. CASE work[s].kind = "event"
    <3>1. work[s].what \in Event /\ work[s].hook \in Hook
      BY <2>1, EventJobFact DEF Good
    <3>2. accepted[work[s].what][work[s].hook] > 0 => accepted'[work[s].what][work[s].hook] > 0
      BY <3>1 DEF Grows
    <3>3. QED
      BY <2>1, <3>2 DEF Good, Answered, SameSlot
  <2>2. CASE work[s].kind # "event"
    BY <2>2 DEF Answered, SameSlot
  <2>3. QED
    BY <2>1, <2>2
<1>4. Listed(s)'
  <2>1. run[s].pc = "org" => work[s].what \in recorded
    BY DEF Good, Sound, Named
  <2>2. QED
    BY <2>1 DEF Good, Listed, SameSlot, Grows
<1>5. \A e \in Event, h \in Hook : Owes(s, h, e)' <=> Owes(s, h, e)
  BY DEF Owes, DeliveryOf, FanOutOf, Ahead, SameSlot
<1>6. \A e \in Event, h \in Hook : Potent(s, h, e)' <=> Potent(s, h, e)
  BY DEF Potent, DeliveryOf, FanOutOf, SameSlot
<1>7. QED
  BY <1>1, <1>2, <1>3, <1>4, <1>5, <1>6 DEF Good

\* A row that was just inserted.
LEMMA FreshSlot ==
    ASSUME TypeOK, NEW s \in Slot, NEW w \in Work, Good(s), ledger[s].state = "none",
           ledger'[s] = [state |-> "queued", key |-> NoKey, handled |-> TRUE, attempts |-> 0],
           work'[s] = w, run'[s] = run[s],
           w.kind \in {"fanout", "event"} => w.what \in recorded',
           w.kind = "event" => w.hook \in invited'[w.what],
           w.kind # "fanout" => w.hook \in Hook
    PROVE  /\ Good(s)'
           /\ run[s].pc = "idle" /\ work[s].kind = "none"
           /\ \A e \in Event, h \in Hook : ~Owes(s, h, e) /\ ~Potent(s, h, e)
<1>1. run[s].pc = "idle" /\ work[s].kind = "none"
  <2>1. work[s].kind = "none"
    BY DEF Good, Sound
  <2>2. run[s].pc # "idle" => ledger[s].state = "running"
    BY DEF Good, Sound
  <2>3. QED
    BY <2>1, <2>2
<1>2. w.kind # "none"
  BY DEF Work
<1>3. Sound(s)'
  BY <1>1, <1>2 DEF Sound
<1>4. Named(s)' /\ Answered(s)' /\ Listed(s)'
  BY <1>1 DEF Named, Answered, Listed
<1>5. \A e \in Event, h \in Hook : ~Owes(s, h, e) /\ ~Potent(s, h, e)
  BY <1>1 DEF Owes, Potent, DeliveryOf, FanOutOf
<1>6. QED
  BY <1>1, <1>3, <1>4, <1>5 DEF Good

\* Edits of hooks and extra deliveries.
LEMMA HookStep ==
    ASSUME IInv, UNCHANGED <<recorded, run, accepted, refanned>>,
           \/ UNCHANGED <<hook, steady, invited>>
           \/ \E h \in Hook, row \in HookRow : SetHook(h, row),
           \/ UNCHANGED <<ledger, work>>
           \/ \E w \in Work : /\ w.kind \in {"ping", "test", "again"} /\ w.hook \in Hook
                              /\ Put(w)
    PROVE  /\ Slots' /\ Histories' /\ AcceptedOrOwed' /\ Once'
<1>1. TypeOK /\ Histories /\ \A s \in Slot : Good(s)
  BY DEF IInv, Slots, Good
<1>2. Histories' /\ Grows /\ \A e \in Event : steady'[e] \subseteq steady[e]
  <2>1. CASE UNCHANGED <<hook, steady, invited>>
    BY <1>1, <2>1 DEF Histories, Grows
  <2>2. ASSUME NEW h \in Hook, NEW row \in HookRow, SetHook(h, row)
        PROVE  Histories' /\ Grows /\ \A e \in Event : steady'[e] \subseteq steady[e]
    <3>1. hook' = [hook EXCEPT ![h] = row]
      BY <2>2 DEF SetHook
    <3>2. \A e \in Event : steady'[e] = IF Listens(row, KindOf[e]) THEN steady[e] ELSE steady[e] \ {h}
      BY <2>2 DEF SetHook
    <3>3. \A e \in Event : invited'[e] = IF e \in recorded /\ Listens(row, KindOf[e])
                                        THEN invited[e] \cup {h} ELSE invited[e]
      BY <2>2 DEF SetHook
    <3>4. recorded \subseteq Event
      BY <1>1 DEF TypeOK
    <3>5. Grows /\ \A e \in Event : steady'[e] \subseteq steady[e]
      BY <3>2, <3>3, <3>4 DEF Grows
    <3>6. ASSUME NEW e \in Event, NEW k \in Hook
          PROVE  /\ k \in steady'[e] => e \in recorded' /\ Listens(hook'[k], KindOf[e])
                 /\ e \in recorded' /\ Listens(hook'[k], KindOf[e]) => k \in invited'[e]
                 /\ accepted'[e][k] > 0 => e \in recorded'
      <4>1. /\ k \in steady[e] => e \in recorded /\ Listens(hook[k], KindOf[e])
            /\ e \in recorded /\ Listens(hook[k], KindOf[e]) => k \in invited[e]
            /\ accepted[e][k] > 0 => e \in recorded
        BY <1>1 DEF Histories
      <4>2. hook'[k] = IF k = h THEN row ELSE hook[k]
        BY <3>1, <1>1 DEF TypeOK
      <4>3. QED
        BY <3>2, <3>3, <4>1, <4>2
    <3>7. Histories'
      BY <3>6 DEF Histories, Listens
    <3>8. QED
      BY <3>5, <3>7
  <2>3. QED
    BY <2>1, <2>2
<1>3. ASSUME NEW s \in Slot
      PROVE  /\ Good(s)'
             /\ \A e \in Event, h \in Hook : Owes(s, h, e) => Owes(s, h, e)'
             /\ \A e \in Event, h \in Hook : Potent(s, h, e)' => Potent(s, h, e)
  <2>1. CASE SameSlot(s)
    BY <1>1, <1>2, <2>1, SlotKept
  <2>2. CASE ~SameSlot(s)
    <3>1. PICK w \in Work : w.kind \in {"ping", "test", "again"} /\ w.hook \in Hook /\ Put(w)
      BY <2>2 DEF SameSlot
    <3>2. PICK r \in Slot :
             /\ ledger[r].state = "none"
             /\ ledger' = [ledger EXCEPT ![r] = [state |-> "queued", key |-> NoKey,
                                                 handled |-> TRUE, attempts |-> 0]]
             /\ work' = [work EXCEPT ![r] = w]
      BY <3>1, PutFact
    <3>3. r = s
      BY <2>2, <3>2, <1>1 DEF SameSlot, TypeOK
    <3>4. /\ work'[s] = w /\ ledger[s].state = "none"
          /\ ledger'[s] = [state |-> "queued", key |-> NoKey, handled |-> TRUE, attempts |-> 0]
      BY <3>2, <3>3, <1>1 DEF TypeOK
    <3>5. Good(s)' /\ \A e \in Event, h \in Hook : ~Owes(s, h, e)
      BY <1>1, <3>1, <3>4, FreshSlot
    <3>6. \A e \in Event, h \in Hook : ~Potent(s, h, e)'
      BY <3>1, <3>4 DEF Potent, DeliveryOf, FanOutOf
    <3>7. QED
      BY <3>5, <3>6
  <2>3. QED
    BY <2>1, <2>2
<1>4. Slots'
  BY <1>3 DEF Slots, Good
<1>5. AcceptedOrOwed'
  BY <1>1, <1>2, <1>3, OwedKept DEF IInv
<1>6. Once'
  BY <1>1, <1>3, OnceKept DEF IInv
<1>7. QED
  BY <1>2, <1>4, <1>5, <1>6


\* A step at one slot.
LEMMA OneSlot ==
    ASSUME IInv, NEW s \in Slot, UNCHANGED <<hook, recorded, steady, invited>>,
           \A e \in Event, h \in Hook : /\ accepted[e][h] > 0 => accepted'[e][h] > 0
                                        /\ accepted'[e][h] > 0 => e \in recorded,
           \A t \in Slot \ {s} : SameSlot(t),
           Good(s)',
           \A e \in Event, h \in Hook :
              h \in steady[e] /\ Owes(s, h, e) => accepted'[e][h] > 0 \/ Owes(s, h, e)'
    PROVE  /\ Slots' /\ Histories' /\ AcceptedOrOwed'
           /\ \A t \in Slot \ {s}, e \in Event, h \in Hook : Potent(t, h, e)' <=> Potent(t, h, e)
<1>1. TypeOK /\ Histories /\ AcceptedOrOwed /\ \A t \in Slot : Good(t)
  BY DEF IInv, Slots, Good
<1>2. Grows
  BY DEF Grows
<1>3. \A t \in Slot \ {s} :
         /\ Good(t)'
         /\ \A e \in Event, h \in Hook : Owes(t, h, e)' <=> Owes(t, h, e)
         /\ \A e \in Event, h \in Hook : Potent(t, h, e)' <=> Potent(t, h, e)
  BY <1>1, <1>2, SlotKept
<1>4. Slots'
  BY <1>3 DEF Slots, Good
<1>5. Histories'
  BY <1>1 DEF Histories
<1>6. AcceptedOrOwed'
  BY <1>1, <1>3, OwedKept
<1>7. QED
  BY <1>3, <1>4, <1>5, <1>6

\* The same, when nothing is accepted and the slot becomes potent for no pair.
LEMMA OneSlotStep ==
    ASSUME IInv, NEW s \in Slot, UNCHANGED <<hook, recorded, steady, invited, accepted>>,
           refanned \subseteq refanned',
           \A t \in Slot \ {s} : SameSlot(t),
           Good(s)',
           \A e \in Event, h \in Hook :
              h \in steady[e] /\ Owes(s, h, e) => accepted[e][h] > 0 \/ Owes(s, h, e)',
           \A e \in Event, h \in Hook :
              e \notin refanned' /\ Potent(s, h, e)' => Potent(s, h, e)
    PROVE  Slots' /\ Histories' /\ AcceptedOrOwed' /\ Once'
<1>1. \A e \in Event, h \in Hook : accepted'[e][h] > 0 => e \in recorded
  BY DEF IInv, Histories
<1>2. /\ Slots' /\ Histories' /\ AcceptedOrOwed'
      /\ \A t \in Slot \ {s}, e \in Event, h \in Hook : Potent(t, h, e)' <=> Potent(t, h, e)
  BY <1>1, OneSlot
<1>3. Once'
  BY <1>2, OnceKept DEF IInv
<1>4. QED
  BY <1>2, <1>3

\* A handler has moved on, and its job is what it was.
LEMMA RunStep ==
    ASSUME IInv, NEW s \in Slot, NEW r \in {Idle} \cup Running,
           UNCHANGED <<hook, recorded, ledger, work, hist>>, run' = [run EXCEPT ![s] = r],
           Good(s)',
           \A e \in Event, h \in Hook : h \in steady[e] /\ Owes(s, h, e) => Owes(s, h, e)',
           \A e \in Event, h \in Hook : Potent(s, h, e)' => Potent(s, h, e)
    PROVE  Slots' /\ Histories' /\ AcceptedOrOwed' /\ Once'
<1>1. \A t \in Slot \ {s} : SameSlot(t)
  BY DEF SameSlot, IInv, TypeOK
<1>2. UNCHANGED <<hook, recorded, steady, invited, accepted>> /\ refanned \subseteq refanned'
  BY DEF hist
<1>3. QED
  BY <1>1, <1>2, OneSlotStep

LEMMA RunAt ==
    ASSUME TypeOK, NEW s \in Slot, NEW r, run' = [run EXCEPT ![s] = r]
    PROVE  run'[s] = r
BY DEF TypeOK

LEMMA ListStep == ASSUME IInv, NEW s \in Slot, List(s)
                  PROVE  Slots' /\ Histories' /\ AcceptedOrOwed' /\ Once'
<1>1. TypeOK /\ Histories /\ Good(s)
  BY DEF IInv, Slots, Good
<1>2. UNCHANGED <<hook, recorded, ledger, work, hist>>
  BY DEF List
<1>3. PICK some \in {Hook \ OrgHook, OrgHook} :
         LET found == {h \in some : Hears(hook[h], KindOf[work[s].what])}
             r == [pc |-> IF run[s].pc = "repo" THEN "org" ELSE "enqueue",
                   todo |-> IF run[s].pc = "repo" THEN found ELSE run[s].todo \cup found,
                   ok |-> run[s].ok]
         IN  /\ run[s].pc \in {"repo", "org"}
             /\ run[s].pc = "repo" => some = Hook \ OrgHook
             /\ run[s].pc = "org" => some = OrgHook
             /\ r \in Running
             /\ run' = [run EXCEPT ![s] = r]
  BY <1>1, ListFact
<1>4. PICK found : found = {h \in some : Hears(hook[h], KindOf[work[s].what])}
  OBVIOUS
<1>5. PICK r : r = [pc |-> IF run[s].pc = "repo" THEN "org" ELSE "enqueue",
                    todo |-> IF run[s].pc = "repo" THEN found ELSE run[s].todo \cup found,
                    ok |-> run[s].ok]
  OBVIOUS
<1>6. /\ r \in Running /\ run' = [run EXCEPT ![s] = r] /\ run'[s] = r
      /\ r.pc = IF run[s].pc = "repo" THEN "org" ELSE "enqueue"
      /\ r.todo = IF run[s].pc = "repo" THEN found ELSE run[s].todo \cup found
  BY <1>1, <1>3, <1>4, <1>5, RunAt
<1>7. PICK e \in Event : e = work[s].what /\ e \in recorded /\ work[s].kind = "fanout"
  BY <1>1, <1>3 DEF Good, Sound, Named, TypeOK
<1>8. run[s].pc # "idle" /\ ledger[s].state = "running" /\ ledger[s].attempts > 0
  BY <1>1, <1>3 DEF Good, Sound
<1>9. found \subseteq invited[e] /\ \A h \in some : h \in steady[e] => h \in found
  BY <1>1, <1>4, <1>7 DEF Histories, Hears, Listens
<1>10. Good(s)'
  <2>1. Sound(s)'
    BY <1>2, <1>3, <1>6, <1>7, <1>8 DEF Sound
  <2>2. Named(s)'
    <3>1. run[s].pc = "org" => run[s].todo \subseteq invited[e]
      BY <1>1, <1>7 DEF Good, Named
    <3>2. r.todo \subseteq invited[e]
      BY <1>3, <1>6, <1>9, <3>1
    <3>3. QED
      BY <1>2, <1>6, <1>7, <3>2 DEF Named, hist
  <2>3. Answered(s)'
    BY <1>2, <1>7 DEF Answered
  <2>4. Listed(s)'
    <3>1. run[s].pc = "repo" => steady[e] \ OrgHook \subseteq found
      BY <1>1, <1>3, <1>9 DEF TypeOK
    <3>2. QED
      BY <1>2, <1>3, <1>6, <1>7, <3>1 DEF Listed, hist
  <2>5. QED
    BY <2>1, <2>2, <2>3, <2>4 DEF Good
<1>11. ASSUME NEW f \in Event, NEW h \in Hook, h \in steady[f], Owes(s, h, f) PROVE Owes(s, h, f)'
  <2>1. f = e /\ FanOutOf(s, f)' /\ run'[s].pc # "done"
    BY <1>2, <1>3, <1>6, <1>7, <1>11 DEF Owes, DeliveryOf, FanOutOf
  <2>2. run[s].pc = "org" => h \in r.todo
    <3>1. run[s].pc = "org" /\ h \notin OrgHook => h \in run[s].todo
      BY <1>1, <1>7, <2>1, <1>11 DEF Good, Listed
    <3>2. run[s].pc = "org" /\ h \in OrgHook => h \in found
      BY <1>3, <1>9, <2>1, <1>11
    <3>3. QED
      BY <1>6, <3>1, <3>2
  <2>3. QED
    BY <1>3, <1>6, <2>1, <2>2 DEF Owes, Ahead
<1>12. ASSUME NEW f \in Event, NEW h \in Hook, Potent(s, h, f)' PROVE Potent(s, h, f)
  BY <1>2, <1>3, <1>7, <1>12 DEF Potent, DeliveryOf, FanOutOf
<1>13. QED
  BY <1>2, <1>6, <1>10, <1>11, <1>12, RunStep


LEMMA FanOutDoneStep == ASSUME IInv, NEW s \in Slot, FanOutDone(s)
                        PROVE  Slots' /\ Histories' /\ AcceptedOrOwed' /\ Once'
<1>1. TypeOK /\ Good(s)
  BY DEF IInv, Slots, Good
<1>2. UNCHANGED <<hook, recorded, ledger, work, hist>>
  BY DEF FanOutDone
<1>3. PICK r : r = [pc |-> "done", todo |-> run[s].todo, ok |-> run[s].ok]
  OBVIOUS
<1>4. /\ run[s].pc = "enqueue" /\ run[s].todo = {}
      /\ r \in Running /\ run' = [run EXCEPT ![s] = r] /\ run'[s] = r /\ r.pc = "done"
  BY <1>1, <1>3, FanOutDoneFact, RunAt
<1>5. work[s].kind = "fanout" /\ ledger[s].state = "running" /\ ledger[s].attempts > 0
  BY <1>1, <1>4 DEF Good, Sound
<1>6. Good(s)'
  BY <1>1, <1>2, <1>4, <1>5 DEF Good, Sound, Named, Answered, Listed, hist
<1>7. ASSUME NEW e \in Event, NEW h \in Hook PROVE ~Owes(s, h, e) /\ ~Potent(s, h, e)'
  BY <1>2, <1>4, <1>5 DEF Owes, Potent, DeliveryOf, FanOutOf, Ahead
<1>8. QED
  BY <1>2, <1>4, <1>6, <1>7, RunStep

LEMMA LoadStep == ASSUME IInv, NEW s \in Slot, Load(s)
                  PROVE  Slots' /\ Histories' /\ AcceptedOrOwed' /\ Once'
<1>1. TypeOK /\ Good(s)
  BY DEF IInv, Slots, Good
<1>2. UNCHANGED <<hook, recorded, ledger, work, hist>>
  BY DEF Load
<1>3. PICK pc \in {"post", "failed"} :
         LET r == [pc |-> pc, todo |-> run[s].todo, ok |-> run[s].ok]
         IN  run[s].pc = "load" /\ r \in Running /\ run' = [run EXCEPT ![s] = r]
  BY <1>1, LoadFact
<1>4. PICK r : r = [pc |-> pc, todo |-> run[s].todo, ok |-> run[s].ok]
  OBVIOUS
<1>5. /\ run[s].pc = "load" /\ r \in Running /\ run' = [run EXCEPT ![s] = r]
      /\ run'[s] = r /\ r.pc = pc /\ r.ok = run[s].ok
  BY <1>1, <1>3, <1>4, RunAt
<1>6. work[s].kind # "fanout" /\ ledger[s].state = "running" /\ ledger[s].attempts > 0
  BY <1>1, <1>5 DEF Good, Sound
<1>7. Good(s)'
  <2>1. Sound(s)'
    BY <1>1, <1>2, <1>5, <1>6 DEF Good, Sound
  <2>2. Named(s)' /\ Listed(s)'
    BY <1>1, <1>2, <1>5 DEF Good, Named, Listed, hist
  <2>3. Answered(s)'
    BY <1>1, <1>2, <1>5 DEF Good, Answered, hist
  <2>4. QED
    BY <2>1, <2>2, <2>3 DEF Good
<1>8. ASSUME NEW e \in Event, NEW h \in Hook
      PROVE  (Owes(s, h, e) => Owes(s, h, e)') /\ (Potent(s, h, e)' => Potent(s, h, e))
  BY <1>2, <1>5, <1>6 DEF Owes, Potent, DeliveryOf, FanOutOf
<1>9. QED
  BY <1>2, <1>5, <1>7, <1>8, RunStep

LEMMA RecordStep == ASSUME IInv, NEW s \in Slot, Record(s)
                    PROVE  Slots' /\ Histories' /\ AcceptedOrOwed' /\ Once'
<1>1. TypeOK /\ Good(s)
  BY DEF IInv, Slots, Good
<1>2. UNCHANGED <<hook, recorded, ledger, work, hist>>
  BY DEF Record
<1>3. PICK r : r = [pc |-> IF run[s].ok THEN "done" ELSE "failed",
                    todo |-> run[s].todo, ok |-> run[s].ok]
  OBVIOUS
<1>4. /\ run[s].pc = "record" /\ r \in Running /\ run' = [run EXCEPT ![s] = r] /\ run'[s] = r
      /\ r.pc = IF run[s].ok THEN "done" ELSE "failed"
      /\ r.ok = run[s].ok
  BY <1>1, <1>3, RecordFact, RunAt
<1>5. work[s].kind # "fanout" /\ ledger[s].state = "running" /\ ledger[s].attempts > 0
  BY <1>1, <1>4 DEF Good, Sound
<1>6. Good(s)'
  <2>1. Sound(s)'
    BY <1>1, <1>2, <1>4, <1>5 DEF Good, Sound
  <2>2. Named(s)' /\ Listed(s)'
    BY <1>1, <1>2, <1>4 DEF Good, Named, Listed, hist
  <2>3. Answered(s)'
    BY <1>1, <1>2, <1>4 DEF Good, Answered, hist
  <2>4. QED
    BY <2>1, <2>2, <2>3 DEF Good
<1>7. ASSUME NEW e \in Event, NEW h \in Hook
      PROVE  (Owes(s, h, e) => Owes(s, h, e)') /\ (Potent(s, h, e)' => Potent(s, h, e))
  BY <1>2, <1>4, <1>5 DEF Owes, Potent, DeliveryOf, FanOutOf
<1>8. QED
  BY <1>2, <1>4, <1>6, <1>7, RunStep

LEMMA BreakStep == ASSUME IInv, NEW s \in Slot, Break(s)
                   PROVE  Slots' /\ Histories' /\ AcceptedOrOwed' /\ Once'
<1>1. TypeOK /\ Good(s)
  BY DEF IInv, Slots, Good
<1>2. UNCHANGED <<hook, recorded, ledger, work, hist>>
  BY DEF Break
<1>3. PICK r : r = [pc |-> "failed", todo |-> run[s].todo, ok |-> run[s].ok]
  OBVIOUS
<1>4. /\ run[s].pc \in {"repo", "org", "enqueue", "load"}
      /\ r \in Running /\ run' = [run EXCEPT ![s] = r] /\ run'[s] = r
      /\ r.pc = "failed" /\ r.ok = run[s].ok
  BY <1>1, <1>3, BreakFact, RunAt
<1>5. ledger[s].state = "running" /\ ledger[s].attempts > 0
      /\ (run[s].pc # "load" => work[s].kind = "fanout")
      /\ (run[s].pc = "load" => work[s].kind # "fanout")
  BY <1>1, <1>4 DEF Good, Sound
<1>6. Good(s)'
  <2>1. Sound(s)'
    BY <1>1, <1>2, <1>4, <1>5 DEF Good, Sound
  <2>2. Named(s)' /\ Listed(s)'
    BY <1>1, <1>2, <1>4 DEF Good, Named, Listed, hist
  <2>3. Answered(s)'
    BY <1>1, <1>2, <1>4, <1>5 DEF Good, Answered, hist
  <2>4. QED
    BY <2>1, <2>2, <2>3 DEF Good
<1>7. ASSUME NEW e \in Event, NEW h \in Hook
      PROVE  (Owes(s, h, e) => Owes(s, h, e)') /\ (Potent(s, h, e)' => Potent(s, h, e))
  BY <1>2, <1>4, <1>5 DEF Owes, Potent, DeliveryOf, FanOutOf, Ahead
<1>8. QED
  BY <1>2, <1>4, <1>6, <1>7, RunStep

\* A handler is gone, and its row stays in "running".
LEMMA LostSlot ==
    ASSUME TypeOK, NEW s \in Slot, Good(s), UNCHANGED <<hook, recorded, ledger, work, hist>>,
           run'[s] = Idle
    PROVE  /\ Good(s)'
           /\ \A e \in Event, h \in Hook : Owes(s, h, e) => Owes(s, h, e)'
           /\ \A e \in Event, h \in Hook : Potent(s, h, e)' => Potent(s, h, e)
<1>1. run'[s].pc = "idle"
  BY DEF Idle
<1>2. Sound(s)'
  BY <1>1 DEF Good, Sound
<1>3. Named(s)' /\ Answered(s)' /\ Listed(s)'
  BY <1>1 DEF Good, Named, Answered, Listed, hist
<1>4. ASSUME NEW e \in Event, NEW h \in Hook
      PROVE  (Owes(s, h, e) => Owes(s, h, e)') /\ (Potent(s, h, e)' => Potent(s, h, e))
  BY <1>1 DEF Owes, Potent, DeliveryOf, FanOutOf, Ahead
<1>5. QED
  BY <1>2, <1>3, <1>4 DEF Good

LEMMA SettleLostStep == ASSUME IInv, NEW s \in Slot, SettleLost(s)
                        PROVE  Slots' /\ Histories' /\ AcceptedOrOwed' /\ Once'
<1>1. TypeOK /\ Good(s)
  BY DEF IInv, Slots, Good
<1>2. UNCHANGED <<hook, recorded, ledger, work, hist>> /\ run' = [run EXCEPT ![s] = Idle]
  BY DEF SettleLost
<1>3. run'[s] = Idle
  BY <1>1, <1>2, RunAt
<1>4. QED
  BY <1>1, <1>2, <1>3, LostSlot, RunStep

LEMMA RestartStep == ASSUME IInv, Restart
                     PROVE  Slots' /\ Histories' /\ AcceptedOrOwed' /\ Once'
<1>1. TypeOK /\ Histories /\ \A s \in Slot : Good(s)
  BY DEF IInv, Slots, Good
<1>2. UNCHANGED <<hook, recorded, ledger, work, hist>> /\ \A s \in Slot : run'[s] = Idle
  BY DEF Restart
<1>3. ASSUME NEW s \in Slot
      PROVE  /\ Good(s)'
             /\ \A e \in Event, h \in Hook : Owes(s, h, e) => Owes(s, h, e)'
             /\ \A e \in Event, h \in Hook : Potent(s, h, e)' => Potent(s, h, e)
  BY <1>1, <1>2, LostSlot
<1>4. UNCHANGED <<steady, invited, accepted, refanned>>
  BY <1>2 DEF hist
<1>5. Slots'
  BY <1>3 DEF Slots, Good
<1>6. Histories'
  BY <1>1, <1>2, <1>4 DEF Histories
<1>7. AcceptedOrOwed'
  BY <1>1, <1>2, <1>3, <1>4, OwedKept DEF IInv
<1>8. Once'
  BY <1>1, <1>3, <1>4, OnceKept DEF IInv
<1>9. QED
  BY <1>5, <1>6, <1>7, <1>8


LEMMA StartStep == ASSUME IInv, NEW s \in Slot, Start(s)
                   PROVE  Slots' /\ Histories' /\ AcceptedOrOwed' /\ Once'
<1>1. TypeOK /\ Good(s)
  BY DEF IInv, Slots, Good
<1>2. UNCHANGED <<hook, recorded, work, steady, invited, accepted>>
  BY DEF Start
<1>3. PICK r : r = [pc |-> IF work[s].kind = "fanout" THEN "repo" ELSE "load",
                    todo |-> {}, ok |-> FALSE]
  OBVIOUS
<1>4. /\ run' = [run EXCEPT ![s] = r] /\ run'[s] = r /\ r.ok = FALSE
      /\ r.pc = IF work[s].kind = "fanout" THEN "repo" ELSE "load"
  BY <1>1, <1>3, RunAt DEF Start
<1>5. /\ ledger[s].state = "queued" /\ ledger'[s].state = "running"
      /\ ledger'[s].attempts = ledger[s].attempts + 1
      /\ \A t \in Slot \ {s} : ledger'[t] = ledger[t]
  BY <1>1, JobSteps DEF Start
<1>6. ledger[s].attempts \in Nat /\ work[s].kind # "none"
  BY <1>1, <1>5, LedgerFact DEF Good, Sound
<1>7. \A t \in Slot \ {s} : SameSlot(t)
  BY <1>1, <1>2, <1>4, <1>5 DEF SameSlot, TypeOK
<1>8. Good(s)'
  <2>1. Sound(s)'
    <3>1. ledger'[s].attempts > 0
      BY <1>5, <1>6
    <3>2. QED
      BY <1>1, <1>2, <1>4, <1>5, <1>6, <3>1 DEF Good, Sound
  <2>2. Named(s)' /\ Listed(s)' /\ Answered(s)'
    BY <1>1, <1>2, <1>4 DEF Good, Named, Listed, Answered
  <2>3. QED
    BY <2>1, <2>2 DEF Good
<1>9. ASSUME NEW e \in Event, NEW h \in Hook, Owes(s, h, e) PROVE Owes(s, h, e)'
  BY <1>2, <1>4, <1>9 DEF Owes, DeliveryOf, FanOutOf, Ahead
<1>10. refanned \subseteq refanned'
       /\ (work[s].kind = "fanout" /\ ledger[s].attempts > 0 => work[s].what \in refanned')
  BY DEF Start
<1>11. ASSUME NEW e \in Event, NEW h \in Hook, e \notin refanned', Potent(s, h, e)'
       PROVE  Potent(s, h, e)
  <2>1. FanOutOf(s, e) => ledger[s].attempts = 0
    <3>1. FanOutOf(s, e) => ~(ledger[s].attempts > 0)
      BY <1>10, <1>11 DEF FanOutOf
    <3>2. QED
      BY <1>6, <3>1
  <2>2. FanOutOf(s, e) \/ DeliveryOf(s, h, e)
    BY <1>2, <1>11 DEF Potent, FanOutOf, DeliveryOf
  <2>3. QED
    BY <1>5, <2>1, <2>2 DEF Potent
<1>12. QED
  BY <1>2, <1>7, <1>8, <1>9, <1>10, <1>11, OneSlotStep

LEMMA SettleStep == ASSUME IInv, NEW s \in Slot, Settle(s)
                    PROVE  Slots' /\ Histories' /\ AcceptedOrOwed' /\ Once'
<1>1. TypeOK /\ Good(s)
  BY DEF IInv, Slots, Good
<1>2. UNCHANGED <<hook, recorded, steady, invited, accepted>> /\ refanned \subseteq refanned'
      /\ run' = [run EXCEPT ![s] = Idle]
  BY DEF Settle, hist
<1>3. run'[s] = Idle /\ run'[s].pc = "idle"
  BY <1>1, <1>2, RunAt DEF Idle
<1>4. \A t \in Slot \ {s} : ledger'[t] = ledger[t] /\ work'[t] = work[t]
  BY <1>1, JobSteps DEF Settle, TypeOK
<1>5. \A t \in Slot \ {s} : SameSlot(t)
  BY <1>1, <1>2, <1>4 DEF SameSlot, TypeOK
<1>6. CASE run[s].pc = "done" /\ Jobs!Finish(s) /\ work' = [work EXCEPT ![s] = NoWork]
  <2>1. work'[s].kind = "none" /\ ledger'[s].state = "none"
    BY <1>1, <1>6, JobSteps DEF TypeOK, NoWork
  <2>2. Good(s)'
    BY <1>3, <2>1 DEF Good, Sound, Named, Answered, Listed
  <2>3. ASSUME NEW e \in Event, NEW h \in Hook, Owes(s, h, e) PROVE accepted[e][h] > 0
    BY <1>1, <1>6, <2>3 DEF Owes, DeliveryOf, Good, Answered
  <2>4. ASSUME NEW e \in Event, NEW h \in Hook PROVE ~Potent(s, h, e)'
    BY <2>1 DEF Potent, FanOutOf, DeliveryOf
  <2>5. QED
    BY <1>2, <1>5, <2>2, <2>3, <2>4, OneSlotStep
<1>7. CASE run[s].pc = "failed" /\ (Jobs!Retry(s) \/ Jobs!Park(s)) /\ UNCHANGED work
  <2>1. \/ ledger'[s].state = "queued" /\ ledger'[s].attempts = ledger[s].attempts
        \/ ledger'[s].state = "dead"
    BY <1>1, <1>7, JobSteps
  <2>2. ledger[s].state = "running" /\ ledger[s].attempts > 0 /\ work[s].kind # "none"
    BY <1>1, <1>7 DEF Good, Sound
  <2>3. Good(s)'
    <3>1. Sound(s)'
      BY <1>1, <1>3, <1>7, <2>1, <2>2 DEF Good, Sound
    <3>2. Named(s)' /\ Answered(s)' /\ Listed(s)'
      BY <1>1, <1>2, <1>3, <1>7 DEF Good, Named, Answered, Listed
    <3>3. QED
      BY <3>1, <3>2 DEF Good
  <2>4. ASSUME NEW e \in Event, NEW h \in Hook, Owes(s, h, e) PROVE Owes(s, h, e)'
    BY <1>3, <1>7, <2>4 DEF Owes, DeliveryOf, FanOutOf, Ahead
  <2>5. ASSUME NEW e \in Event, NEW h \in Hook, Potent(s, h, e)' PROVE Potent(s, h, e)
    <3>1. ledger'[s].attempts = 0 => ledger'[s].state # "queued"
      BY <2>1, <2>2
    <3>2. DeliveryOf(s, h, e)
      BY <1>3, <1>7, <2>5, <3>1 DEF Potent, FanOutOf, DeliveryOf
    <3>3. ~run[s].ok
      BY <1>1, <1>7, <3>2 DEF Good, Answered, DeliveryOf
    <3>4. QED
      BY <1>7, <3>2, <3>3 DEF Potent
  <2>6. QED
    BY <1>2, <1>5, <2>3, <2>4, <2>5, OneSlotStep
<1>8. QED
  BY <1>6, <1>7 DEF Settle

LEMMA PostStep == ASSUME IInv, NEW s \in Slot, NEW ok \in BOOLEAN, Post(s, ok)
                  PROVE  Slots' /\ Histories' /\ AcceptedOrOwed' /\ Once'
<1>1. TypeOK /\ Good(s) /\ Histories /\ Once
  BY DEF IInv, Slots, Good
<1>2. UNCHANGED <<hook, recorded, ledger, steady, invited, refanned>>
  BY DEF Post
<1>3. PICK r : r = [pc |-> "record", todo |-> run[s].todo, ok |-> ok]
  OBVIOUS
<1>4. /\ run[s].pc = "post" /\ run' = [run EXCEPT ![s] = r] /\ run'[s] = r
      /\ r.pc = "record" /\ r.ok = ok
  BY <1>1, <1>3, PostFact, RunAt
<1>5. /\ work[s].kind # "fanout" /\ work[s].kind # "none"
      /\ ledger[s].state = "running" /\ ledger[s].attempts > 0
  BY <1>1, <1>4 DEF Good, Sound
<1>6. /\ work'[s].kind = work[s].kind /\ work'[s].hook = work[s].hook
      /\ work'[s].what = work[s].what
      /\ \A t \in Slot \ {s} : work'[t] = work[t]
  <2>1. work[s] \in Work /\ work' = [work EXCEPT ![s].called = TRUE]
    BY <1>1, <1>5, WorkFact DEF Post
  <2>2. QED
    BY <1>1, <2>1 DEF TypeOK, Work
<1>7. \A t \in Slot \ {s} : SameSlot(t)
  BY <1>1, <1>2, <1>4, <1>6 DEF SameSlot, TypeOK
<1>8. ASSUME NEW e \in Event, NEW h \in Hook
      PROVE  /\ DeliveryOf(s, h, e)' <=> DeliveryOf(s, h, e)
             /\ ~FanOutOf(s, e)
             /\ Owes(s, h, e) => Owes(s, h, e)'
             /\ DeliveryOf(s, h, e) => Potent(s, h, e)
             /\ Potent(s, h, e)' => DeliveryOf(s, h, e) /\ ~ok
  <2>1. (DeliveryOf(s, h, e)' <=> DeliveryOf(s, h, e)) /\ ~FanOutOf(s, e) /\ ~FanOutOf(s, e)'
    BY <1>5, <1>6 DEF DeliveryOf, FanOutOf
  <2>2. DeliveryOf(s, h, e) => ~run[s].ok
    BY <1>1, <1>4 DEF DeliveryOf, Good, Answered
  <2>3. ledger'[s].state # "queued"
    BY <1>2, <1>5
  <2>4. QED
    BY <1>4, <2>1, <2>2, <2>3 DEF Owes, Potent
\* What is accepted: the pair of this delivery, when the answer is 2xx.
<1>9. ASSUME NEW e \in Event, NEW h \in Hook
      PROVE  accepted'[e][h] = IF ok /\ DeliveryOf(s, h, e) /\ accepted[e][h] < 2
                               THEN accepted[e][h] + 1 ELSE accepted[e][h]
  <2>1. PICK f : f = accepted[e]
    OBVIOUS
  <2>2. CASE ok /\ work[s].kind = "event"
    <3>1. accepted' = [accepted EXCEPT ![work[s].what][work[s].hook] = IF @ < 2 THEN @ + 1 ELSE @]
      BY <2>2 DEF Post
    <3>2. accepted \in [Event -> [Hook -> 0..2]]
      BY <1>1 DEF TypeOK
    <3>3. CASE work[s].what = e /\ work[s].hook = h
      BY <2>2, <3>1, <3>2, <3>3 DEF DeliveryOf
    <3>4. CASE ~(work[s].what = e /\ work[s].hook = h)
      BY <3>1, <3>2, <3>4 DEF DeliveryOf
    <3>5. QED
      BY <3>3, <3>4
  <2>3. CASE ~(ok /\ work[s].kind = "event")
    <3>1. accepted' = accepted
      BY <2>3 DEF Post
    <3>2. QED
      BY <2>3, <3>1 DEF DeliveryOf
  <2>4. QED
    BY <2>2, <2>3
<1>10. ASSUME NEW e \in Event, NEW h \in Hook
       PROVE  /\ accepted[e][h] \in {0, 1, 2}
              /\ accepted[e][h] > 0 => accepted'[e][h] > 0
              /\ ok /\ DeliveryOf(s, h, e) => accepted'[e][h] > 0
              /\ accepted'[e][h] > 0 => e \in recorded
  <2>1. accepted[e][h] \in {0, 1, 2}
    BY <1>1 DEF TypeOK
  <2>2. DeliveryOf(s, h, e) => e \in recorded
    BY <1>1 DEF DeliveryOf, Good, Named
  <2>3. accepted[e][h] > 0 => e \in recorded
    BY <1>1 DEF Histories
  <2>4. CASE ok /\ DeliveryOf(s, h, e) /\ accepted[e][h] < 2
    BY <1>9, <2>1, <2>2, <2>4
  <2>5. CASE ~(ok /\ DeliveryOf(s, h, e) /\ accepted[e][h] < 2)
    BY <1>9, <2>1, <2>3, <2>5
  <2>6. QED
    BY <2>1, <2>4, <2>5
<1>11. Good(s)'
  <2>1. Sound(s)'
    BY <1>1, <1>2, <1>4, <1>5, <1>6 DEF Good, Sound
  <2>2. Named(s)' /\ Listed(s)'
    BY <1>1, <1>2, <1>4, <1>6 DEF Good, Named, Listed
  <2>3. Answered(s)'
    <3>1. CASE work[s].kind = "event"
      <4>1. PICK e \in Event, h \in Hook : e = work[s].what /\ h = work[s].hook
        BY <1>1, <3>1, EventJobFact DEF Good
      <4>2. ok => accepted'[e][h] > 0
        BY <1>10, <3>1, <4>1 DEF DeliveryOf
      <4>3. QED
        BY <1>4, <1>6, <4>1, <4>2 DEF Answered
    <3>2. CASE work[s].kind # "event"
      BY <1>6, <3>2 DEF Answered
    <3>3. QED
      BY <3>1, <3>2
  <2>4. QED
    BY <2>1, <2>2, <2>3 DEF Good
<1>12. /\ Slots' /\ Histories' /\ AcceptedOrOwed'
       /\ \A t \in Slot \ {s}, e \in Event, h \in Hook : Potent(t, h, e)' <=> Potent(t, h, e)
  <2>1. \A e \in Event, h \in Hook : /\ accepted[e][h] > 0 => accepted'[e][h] > 0
                                     /\ accepted'[e][h] > 0 => e \in recorded
    BY <1>10
  <2>2. \A e \in Event, h \in Hook : Owes(s, h, e) => Owes(s, h, e)'
    BY <1>8
  <2>3. QED
    BY <1>2, <1>7, <1>11, <2>1, <2>2, OneSlot
<1>13. Once'
  <2> SUFFICES ASSUME NEW e \in Event \ refanned', NEW h \in Hook
               PROVE  /\ accepted'[e][h] <= 1
                      /\ \A t \in Slot : Potent(t, h, e)' => accepted'[e][h] = 0
                      /\ \A t, u \in Slot : Potent(t, h, e)' /\ Potent(u, h, e)' => t = u
    BY DEF Once
  <2>1. /\ accepted[e][h] <= 1
        /\ \A t \in Slot : Potent(t, h, e) => accepted[e][h] = 0
        /\ \A t, u \in Slot : Potent(t, h, e) /\ Potent(u, h, e) => t = u
    BY <1>1, <1>2 DEF Once
  <2>2. CASE ok /\ DeliveryOf(s, h, e)
    <3>1. Potent(s, h, e) /\ accepted[e][h] = 0
      BY <1>8, <2>1, <2>2
    <3>2. accepted'[e][h] = 1
      BY <1>9, <2>2, <3>1
    <3>3. \A t \in Slot : ~Potent(t, h, e)'
      BY <1>8, <1>12, <2>1, <2>2, <3>1
    <3>4. QED
      BY <3>2, <3>3
  <2>3. CASE ~(ok /\ DeliveryOf(s, h, e))
    <3>1. accepted'[e][h] = accepted[e][h]
      BY <1>9, <2>3
    <3>2. \A t \in Slot : Potent(t, h, e)' => Potent(t, h, e)
      BY <1>8, <1>12
    <3>3. QED
      BY <2>1, <3>1, <3>2
  <2>4. QED
    BY <2>2, <2>3
<1>14. QED
  BY <1>12, <1>13


LEMMA FanOutStep == ASSUME IInv, NEW s \in Slot, NEW h \in Hook, FanOut(s, h)
                    PROVE  Slots' /\ Histories' /\ AcceptedOrOwed' /\ Once'
<1>1. TypeOK /\ Histories /\ Once /\ AcceptedOrOwed /\ \A t \in Slot : Good(t)
  BY DEF IInv, Slots, Good
<1>2. UNCHANGED <<hook, recorded, steady, invited, accepted, refanned>>
  BY DEF FanOut, hist
<1>3. PICK r : r = [pc |-> "enqueue", todo |-> run[s].todo \ {h}, ok |-> run[s].ok]
  OBVIOUS
<1>4. /\ run[s].pc = "enqueue" /\ run' = [run EXCEPT ![s] = r] /\ run'[s] = r
      /\ r.pc = "enqueue" /\ r.todo = run[s].todo \ {h} /\ h \in run[s].todo
  <2>1. run[s].pc = "enqueue" /\ run' = [run EXCEPT ![s] = r]
    BY <1>1, <1>3, FanOutFact
  <2>2. run'[s] = r
    BY <1>1, <2>1, RunAt
  <2>3. r.pc = "enqueue" /\ r.todo = run[s].todo \ {h}
    BY <1>3
  <2>4. h \in run[s].todo
    BY DEF FanOut
  <2>5. QED
    BY <2>1, <2>2, <2>3, <2>4
<1>5. /\ work[s].kind = "fanout" /\ ledger[s].state = "running" /\ ledger[s].attempts > 0
      /\ work[s].what \in recorded /\ run[s].todo \subseteq invited[work[s].what]
  BY <1>1, <1>4 DEF Good, Sound, Named
<1>6. PICK e \in Event : e = work[s].what /\ e \in recorded /\ h \in invited[e]
  BY <1>1, <1>4, <1>5 DEF TypeOK
<1>7. PICK w \in Work : w = Delivery("event", h, e)
  BY DeliveryType
<1>8. w.kind = "event" /\ w.hook = h /\ w.what = e
  BY <1>7 DEF Delivery
<1>9. Put(w)
  BY <1>6, <1>7 DEF FanOut
<1>10. PICK t \in Slot :
          /\ ledger[t].state = "none"
          /\ ledger' = [ledger EXCEPT ![t] = [state |-> "queued", key |-> NoKey,
                                              handled |-> TRUE, attempts |-> 0]]
          /\ work' = [work EXCEPT ![t] = w]
  BY <1>9, PutFact
<1>11. t # s
  BY <1>5, <1>10
<1>12. /\ ledger'[t] = [state |-> "queued", key |-> NoKey, handled |-> TRUE, attempts |-> 0]
       /\ work'[t] = w /\ run'[t] = run[t]
       /\ ledger'[s] = ledger[s] /\ work'[s] = work[s]
  BY <1>1, <1>4, <1>10, <1>11 DEF TypeOK
<1>13. \A u \in Slot \ {s, t} : SameSlot(u)
  BY <1>1, <1>4, <1>10 DEF SameSlot, TypeOK
<1>14. Grows
  BY <1>2 DEF Grows
<1>15. \A u \in Slot \ {s, t} :
          /\ Good(u)'
          /\ \A f \in Event, k \in Hook : Owes(u, k, f)' <=> Owes(u, k, f)
          /\ \A f \in Event, k \in Hook : Potent(u, k, f)' <=> Potent(u, k, f)
  BY <1>1, <1>13, <1>14, SlotKept
\* The new delivery.
<1>16. /\ Good(t)' /\ run[t].pc = "idle"
       /\ \A f \in Event, k \in Hook : ~Owes(t, k, f) /\ ~Potent(t, k, f)
  <2>1. w.what \in recorded' /\ w.hook \in invited'[w.what] /\ w.hook \in Hook
    BY <1>2, <1>6, <1>8
  <2>2. QED
    BY <1>1, <1>8, <1>10, <1>12, <2>1, FreshSlot
<1>17. ASSUME NEW f \in Event, NEW k \in Hook
       PROVE  /\ Owes(t, k, f)' <=> f = e /\ k = h
              /\ Potent(t, k, f)' <=> f = e /\ k = h
  <2>1. ledger'[t].state = "queued" /\ ~FanOutOf(t, f)' /\ (DeliveryOf(t, k, f)' <=> f = e /\ k = h)
    BY <1>8, <1>12 DEF FanOutOf, DeliveryOf
  <2>2. QED
    BY <2>1 DEF Owes, Potent
\* The fan-out goes on.
<1>18. Good(s)'
  BY <1>1, <1>2, <1>4, <1>5, <1>12 DEF Good, Sound, Named, Answered, Listed
<1>19. ASSUME NEW f \in Event, NEW k \in Hook
       PROVE  /\ Owes(s, k, f) => Owes(s, k, f)' \/ (f = e /\ k = h)
              /\ Potent(s, k, f)' => Potent(s, k, f)
              /\ Potent(s, h, e) /\ ~Potent(s, h, e)'
  <2>1. /\ ~DeliveryOf(s, k, f) /\ ~DeliveryOf(s, k, f)' /\ ~DeliveryOf(s, h, e)'
        /\ FanOutOf(s, f)' <=> FanOutOf(s, f)
        /\ FanOutOf(s, f) <=> f = e
        /\ FanOutOf(s, e)
    BY <1>5, <1>6, <1>12 DEF DeliveryOf, FanOutOf
  <2>2. Owes(s, k, f) => Owes(s, k, f)' \/ (f = e /\ k = h)
    BY <1>4, <2>1 DEF Owes, Ahead
  <2>3. Potent(s, k, f)' => Potent(s, k, f)
    <3>1. Potent(s, k, f)' => f = e /\ k \in r.todo
      BY <1>4, <1>5, <1>12, <2>1 DEF Potent
    <3>2. QED
      BY <1>4, <2>1, <3>1 DEF Potent
  <2>4. Potent(s, h, e)
    BY <1>4, <2>1 DEF Potent
  <2>5. ~Potent(s, h, e)'
    BY <1>4, <1>5, <1>12, <2>1 DEF Potent
  <2>6. QED
    BY <2>2, <2>3, <2>4, <2>5
<1>20. Slots'
  BY <1>15, <1>16, <1>18 DEF Slots, Good
<1>21. Histories'
  BY <1>1, <1>2 DEF Histories
<1>22. AcceptedOrOwed'
  <2>1. ASSUME NEW u \in Slot, NEW f \in Event, NEW k \in Hook, Owes(u, k, f)
        PROVE  \E v \in Slot : Owes(v, k, f)'
    BY <1>15, <1>16, <1>17, <1>19, <2>1
  <2>2. QED
    BY <1>1, <1>2, <2>1, OwedKept
<1>23. Once'
  <2> SUFFICES ASSUME NEW f \in Event \ refanned', NEW k \in Hook
               PROVE  /\ accepted'[f][k] <= 1
                      /\ \A u \in Slot : Potent(u, k, f)' => accepted'[f][k] = 0
                      /\ \A u, v \in Slot : Potent(u, k, f)' /\ Potent(v, k, f)' => u = v
    BY DEF Once
  <2>1. /\ accepted'[f][k] = accepted[f][k] /\ accepted[f][k] <= 1
        /\ \A u \in Slot : Potent(u, k, f) => accepted[f][k] = 0
        /\ \A u, v \in Slot : Potent(u, k, f) /\ Potent(v, k, f) => u = v
    BY <1>1, <1>2 DEF Once
  <2>2. CASE f = e /\ k = h
    <3>1. Potent(s, k, f)
      BY <1>19, <2>2
    <3>2. \A u \in Slot : Potent(u, k, f)' => u = t
      BY <1>15, <1>19, <2>1, <2>2, <3>1
    <3>3. QED
      BY <2>1, <3>1, <3>2
  <2>3. CASE ~(f = e /\ k = h)
    <3>1. \A u \in Slot : Potent(u, k, f)' => Potent(u, k, f)
      BY <1>15, <1>17, <1>19, <2>3
    <3>2. QED
      BY <2>1, <3>1
  <2>4. QED
    BY <2>2, <2>3
<1>24. QED
  BY <1>20, <1>21, <1>22, <1>23

LEMMA RecordEventStep == ASSUME IInv, NEW e \in Event, RecordEvent(e)
                         PROVE  Slots' /\ Histories' /\ AcceptedOrOwed' /\ Once'
<1>1. TypeOK /\ Histories /\ Once /\ AcceptedOrOwed /\ \A t \in Slot : Good(t)
  BY DEF IInv, Slots, Good
<1>2. /\ e \notin recorded /\ recorded' = recorded \cup {e}
      /\ UNCHANGED <<hook, run, accepted, refanned>>
  BY DEF RecordEvent
<1>3. PICK now : now = {h \in Hook : Listens(hook[h], KindOf[e])}
  OBVIOUS
<1>4. steady' = [steady EXCEPT ![e] = now] /\ invited' = [invited EXCEPT ![e] = now]
  BY <1>3 DEF RecordEvent
<1>5. /\ steady'[e] = now /\ invited'[e] = now
      /\ \A f \in Event \ {e} : steady'[f] = steady[f] /\ invited'[f] = invited[f]
  BY <1>1, <1>4 DEF TypeOK
<1>6. Grows
  BY <1>1, <1>2, <1>5 DEF Grows, TypeOK
<1>7. PICK w \in Work : w = [kind |-> "fanout", hook |-> NoHook, what |-> e, called |-> FALSE]
  BY DEF Work
<1>8. w.kind = "fanout" /\ w.what = e /\ Put(w)
  BY <1>7 DEF RecordEvent
<1>9. PICK t \in Slot :
         /\ ledger[t].state = "none"
         /\ ledger' = [ledger EXCEPT ![t] = [state |-> "queued", key |-> NoKey,
                                             handled |-> TRUE, attempts |-> 0]]
         /\ work' = [work EXCEPT ![t] = w]
  BY <1>8, PutFact
<1>10. /\ ledger'[t] = [state |-> "queued", key |-> NoKey, handled |-> TRUE, attempts |-> 0]
       /\ work'[t] = w /\ run'[t] = run[t]
       /\ \A u \in Slot \ {t} : SameSlot(u)
  BY <1>1, <1>2, <1>9 DEF TypeOK, SameSlot
<1>11. /\ Good(t)' /\ run[t].pc = "idle"
       /\ \A f \in Event, k \in Hook : ~Owes(t, k, f) /\ ~Potent(t, k, f)
  BY <1>1, <1>2, <1>8, <1>9, <1>10, FreshSlot
<1>12. \A u \in Slot \ {t} :
          /\ Good(u)'
          /\ \A f \in Event, k \in Hook : Owes(u, k, f)' <=> Owes(u, k, f)
          /\ \A f \in Event, k \in Hook : Potent(u, k, f)' <=> Potent(u, k, f)
  BY <1>1, <1>6, <1>10, SlotKept
<1>13. ASSUME NEW f \in Event, NEW k \in Hook
       PROVE  /\ Owes(t, k, f)' <=> f = e
              /\ Potent(t, k, f)' <=> f = e
  <2>1. /\ ledger'[t].state = "queued" /\ ledger'[t].attempts = 0 /\ run'[t].pc = "idle"
        /\ ~DeliveryOf(t, k, f)' /\ (FanOutOf(t, f)' <=> f = e)
    BY <1>8, <1>10, <1>11 DEF FanOutOf, DeliveryOf
  <2>2. QED
    BY <2>1 DEF Owes, Potent, Ahead
\* Nothing was about e before.
<1>14. ASSUME NEW u \in Slot, NEW k \in Hook PROVE ~Potent(u, k, e) /\ ~(accepted[e][k] > 0)
  BY <1>1, <1>2 DEF Potent, FanOutOf, DeliveryOf, Good, Named, Histories
<1>15. Slots'
  BY <1>11, <1>12 DEF Slots, Good
<1>16. Histories'
  <2>1. ASSUME NEW f \in Event, NEW k \in Hook
        PROVE  /\ k \in steady'[f] => f \in recorded' /\ Listens(hook[k], KindOf[f])
               /\ f \in recorded' /\ Listens(hook[k], KindOf[f]) => k \in invited'[f]
               /\ accepted[f][k] > 0 => f \in recorded'
    <3>1. CASE f = e
      BY <1>2, <1>3, <1>5, <3>1
    <3>2. CASE f # e
      BY <1>1, <1>2, <1>5, <3>2 DEF Histories
    <3>3. QED
      BY <3>1, <3>2
  <2>2. QED
    BY <1>2, <2>1 DEF Histories, Listens
<1>17. AcceptedOrOwed'
  <2> SUFFICES ASSUME NEW f \in recorded', NEW k \in steady'[f]
               PROVE  accepted'[f][k] > 0 \/ \E u \in Slot : Owes(u, k, f)'
    BY DEF AcceptedOrOwed, Owes
  <2>1. CASE f = e
    <3>1. k \in Hook
      BY <1>3, <1>5, <2>1
    <3>2. QED
      BY <1>13, <2>1, <3>1
  <2>2. CASE f # e
    <3>1. f \in recorded /\ f \in Event /\ k \in steady[f] /\ k \in Hook
      BY <1>1, <1>2, <1>5, <2>2 DEF TypeOK
    <3>2. accepted[f][k] > 0 \/ \E u \in Slot : Owes(u, k, f)
      BY <1>1, <3>1 DEF AcceptedOrOwed, Owes
    <3>3. QED
      BY <1>2, <1>11, <1>12, <3>1, <3>2
  <2>3. QED
    BY <2>1, <2>2
<1>18. Once'
  <2> SUFFICES ASSUME NEW f \in Event \ refanned', NEW k \in Hook
               PROVE  /\ accepted'[f][k] <= 1
                      /\ \A u \in Slot : Potent(u, k, f)' => accepted'[f][k] = 0
                      /\ \A u, v \in Slot : Potent(u, k, f)' /\ Potent(v, k, f)' => u = v
    BY DEF Once
  <2>1. /\ accepted'[f][k] = accepted[f][k] /\ accepted[f][k] <= 1
        /\ \A u \in Slot : Potent(u, k, f) => accepted[f][k] = 0
        /\ \A u, v \in Slot : Potent(u, k, f) /\ Potent(v, k, f) => u = v
    BY <1>1, <1>2 DEF Once
  <2>2. CASE f = e
    <3>1. \A u \in Slot : Potent(u, k, f)' => u = t
      BY <1>12, <1>14, <2>2
    <3>2. accepted[f][k] = 0
      <4>1. accepted[f][k] \in {0, 1, 2}
        BY <1>1 DEF TypeOK
      <4>2. QED
        BY <1>14, <2>2, <4>1
    <3>3. QED
      BY <2>1, <3>1, <3>2
  <2>3. CASE f # e
    <3>1. \A u \in Slot : Potent(u, k, f)' => Potent(u, k, f)
      BY <1>12, <1>13, <2>3
    <3>2. QED
      BY <2>1, <3>1
  <2>4. QED
    BY <2>2, <2>3
<1>19. QED
  BY <1>15, <1>16, <1>17, <1>18

-----------------------------------------------------------------------------
LEMMA InitInv == Init => IInv
<1> SUFFICES ASSUME Init PROVE IInv
  OBVIOUS
<1>1. TypeOK
  BY InitType
<1>2. \A s \in Slot : run[s].pc = "idle" /\ work[s].kind = "none" /\ ledger[s].state = "none"
  BY DEF Init, Idle, NoWork, Jobs!Init, Jobs!Free
<1>3. Slots
  BY <1>2 DEF Slots, Sound, Named, Answered, Listed
<1>4. \A e \in Event : /\ steady[e] = {} /\ e \notin recorded
                       /\ \A h \in Hook : accepted[e][h] = 0
  BY DEF Init
<1>5. Histories /\ AcceptedOrOwed
  BY <1>4 DEF Init, Histories, AcceptedOrOwed
<1>6. \A s \in Slot, h \in Hook, e \in Event : ~Potent(s, h, e)
  BY <1>2 DEF Potent, FanOutOf, DeliveryOf
<1>7. Once
  BY <1>4, <1>6 DEF Once
<1>8. QED
  BY <1>1, <1>3, <1>5, <1>7 DEF IInv

LEMMA StutterInv == ASSUME IInv, UNCHANGED vars PROVE IInv'
<1>1. \A s \in Slot : (Sound(s)' <=> Sound(s)) /\ (Named(s)' <=> Named(s))
                      /\ (Answered(s)' <=> Answered(s)) /\ (Listed(s)' <=> Listed(s))
  BY DEF vars, hist, Sound, Named, Answered, Listed
<1>2. \A s \in Slot, h \in Hook, e \in Event : /\ Owes(s, h, e)' <=> Owes(s, h, e)
                                               /\ Potent(s, h, e)' <=> Potent(s, h, e)
  BY DEF vars, hist, Owes, Potent, DeliveryOf, FanOutOf, Ahead
<1>3. TypeOK' /\ Slots' /\ Histories'
  BY <1>1 DEF IInv, vars, hist, TypeOK, Slots, Histories
<1>4. AcceptedOrOwed'
  BY <1>2, OwedKept DEF IInv, vars, hist
<1>5. Once'
  BY <1>2, OnceKept DEF IInv, vars, hist
<1>6. QED
  BY <1>3, <1>4, <1>5 DEF IInv


LEMMA NextInv == ASSUME IInv, Next PROVE IInv'
<1>1. TypeOK /\ \A s \in Slot : Good(s)
  BY DEF IInv, Slots, Good
\* Hooks.
<1>2. ASSUME NEW h \in Hook, NEW in \in Offer, CreateHook(h, in) PROVE IInv'
  <2>1. PICK row : row = [state |-> "there", active |-> in.active, wants |-> Normal(in.events)]
    OBVIOUS
  <2>2. SetHook(h, row) /\ UNCHANGED <<recorded, run>>
    BY <1>2, <2>1 DEF CreateHook
  <2>3. TypeOK' /\ UNCHANGED <<accepted, refanned>>
    BY <1>1, <1>2, <2>2, CreateHookType DEF SetHook
  <2>4. row \in HookRow
    <3>1. in \in [active : BOOLEAN, events : SUBSET (Kind \cup {Star})]
      BY OfferAssumption
    <3>2. in.active \in BOOLEAN /\ Normal(in.events) \subseteq Kind \cup {Star}
      BY <3>1 DEF Normal
    <3>3. QED
      BY <2>1, <3>2 DEF HookRow
  <2>5. PICK w \in Work : w = Delivery("ping", h, NoEvent)
    BY DeliveryType
  <2>6. w.kind = "ping" /\ w.hook = h
    BY <2>5 DEF Delivery
  <2>7. UNCHANGED <<ledger, work>> \/ Put(w)
    BY <1>2, <2>5 DEF CreateHook
  <2>8. Slots' /\ Histories' /\ AcceptedOrOwed' /\ Once'
    BY <2>2, <2>3, <2>4, <2>6, <2>7, HookStep
  <2>9. QED
    BY <2>3, <2>8 DEF IInv
<1>3. ASSUME NEW a \in Editor, NEW h \in Hook, NEW p \in Patch, EditBegin(a, h, p) PROVE IInv'
  <2>1. UNCHANGED <<recorded, run, accepted, refanned, hook, steady, invited, ledger, work>>
    BY <1>3 DEF EditBegin, hist
  <2>2. Slots' /\ Histories' /\ AcceptedOrOwed' /\ Once'
    BY <2>1, HookStep
  <2>3. TypeOK'
    BY <1>1, <1>3, EditType
  <2>4. QED
    BY <2>2, <2>3 DEF IInv
<1>4. ASSUME NEW a \in Editor, EditWrite(a) PROVE IInv'
  <2>1. editor[a] \in Editing
    BY <1>1, <1>4 DEF TypeOK, EditWrite, Idle
  <2>2. editor[a].hook \in Hook /\ editor[a].row \in HookRow /\ editor[a].patch \in Patch
    BY <2>1 DEF Editing
  <2>3. Patched(editor[a].row, editor[a].patch) \in HookRow
    BY <2>2, PatchedType
  <2>4. UNCHANGED <<recorded, run, ledger, work>>
    BY <1>4 DEF EditWrite
  <2>5. \/ UNCHANGED <<hook, steady, invited, accepted, refanned>>
        \/ SetHook(editor[a].hook, Patched(editor[a].row, editor[a].patch))
    BY <1>4 DEF EditWrite, hist
  <2>6. UNCHANGED <<accepted, refanned>>
    BY <2>5 DEF SetHook
  <2>7. Slots' /\ Histories' /\ AcceptedOrOwed' /\ Once'
    BY <2>2, <2>3, <2>4, <2>5, <2>6, HookStep
  <2>8. TypeOK'
    BY <1>1, <1>4, EditType
  <2>9. QED
    BY <2>7, <2>8 DEF IInv
<1>5. ASSUME NEW h \in Hook, DeleteHook(h) PROVE IInv'
  <2>1. PICK row : row = [state |-> "deleted", active |-> FALSE, wants |-> {}]
    OBVIOUS
  <2>2. SetHook(h, row) /\ UNCHANGED <<recorded, run, ledger, work>>
    BY <1>5, <2>1 DEF DeleteHook
  <2>3. row \in HookRow /\ UNCHANGED <<accepted, refanned>>
    BY <2>1, <2>2 DEF HookRow, SetHook
  <2>4. Slots' /\ Histories' /\ AcceptedOrOwed' /\ Once'
    BY <2>2, <2>3, HookStep
  <2>5. TypeOK'
    BY <1>1, <1>5, DeleteHookType
  <2>6. QED
    BY <2>4, <2>5 DEF IInv
\* Extra deliveries.
<1>6. ASSUME NEW w \in Work, w.kind \in {"ping", "test", "again"}, w.hook \in Hook, Extra(w)
      PROVE  IInv'
  <2>1. UNCHANGED <<recorded, run, accepted, refanned, hook, steady, invited>> /\ Put(w)
    BY <1>6 DEF Extra, hist
  <2>2. Slots' /\ Histories' /\ AcceptedOrOwed' /\ Once'
    BY <1>6, <2>1, HookStep
  <2>3. TypeOK'
    BY <1>1, <1>6, ExtraType
  <2>4. QED
    BY <2>2, <2>3 DEF IInv
<1>7. ASSUME NEW h \in Hook, NEW e \in Event \cup {NoEvent}, NEW kind \in {"ping", "test", "again"},
             Extra(Delivery(kind, h, e))
      PROVE  IInv'
  <2>1. PICK w \in Work : w = Delivery(kind, h, e)
    BY DeliveryType
  <2>2. w.kind = kind /\ w.hook = h
    BY <2>1 DEF Delivery
  <2>3. QED
    BY <1>6, <1>7, <2>1, <2>2
<1>8. ASSUME NEW h \in Hook, PingHook(h) \/ TestHook(h) PROVE IInv'
  BY <1>7, <1>8 DEF PingHook, TestHook
<1>9. ASSUME NEW d \in log, Redeliver(d) PROVE IInv'
  <2>1. d[1] \in Hook /\ d[2] \in Event \cup {NoEvent}
    BY <1>1 DEF TypeOK
  <2>2. QED
    BY <1>7, <1>9, <2>1 DEF Redeliver
<1>10. ASSUME NEW d \in log, PruneDeliveries(d) PROVE IInv'
  <2>1. UNCHANGED <<recorded, run, accepted, refanned, hook, steady, invited, ledger, work>>
    BY <1>10 DEF PruneDeliveries, hist
  <2>2. Slots' /\ Histories' /\ AcceptedOrOwed' /\ Once'
    BY <2>1, HookStep
  <2>3. TypeOK'
    BY <1>1, <1>10, PruneType
  <2>4. QED
    BY <2>2, <2>3 DEF IInv
\* Events and their jobs.
<1>11. ASSUME NEW e \in Event, RecordEvent(e) PROVE IInv'
  BY <1>1, <1>11, RecordEventStep, RecordEventType DEF IInv
<1>12. ASSUME NEW s \in Slot, Start(s) PROVE IInv'
  BY <1>1, <1>12, StartStep, StartType DEF IInv, Good
<1>13. ASSUME NEW s \in Slot, HandlerMove(s) PROVE IInv'
  <2>1. TypeOK'
    BY <1>1, <1>13, HandlerMoveType DEF Good
  <2>2. Slots' /\ Histories' /\ AcceptedOrOwed' /\ Once'
    BY <1>13, ListStep, FanOutDoneStep, LoadStep, RecordStep, BreakStep DEF HandlerMove
  <2>3. QED
    BY <2>1, <2>2 DEF IInv
<1>14. ASSUME NEW s \in Slot, NEW h \in Hook, FanOut(s, h) PROVE IInv'
  BY <1>1, <1>14, FanOutStep, FanOutType DEF IInv, Good
<1>15. ASSUME NEW s \in Slot, NEW ok \in BOOLEAN, Post(s, ok) PROVE IInv'
  BY <1>1, <1>15, PostStep, PostType DEF IInv
<1>16. ASSUME NEW s \in Slot, Settle(s) PROVE IInv'
  BY <1>1, <1>16, SettleStep, SettleType DEF IInv
<1>17. ASSUME NEW s \in Slot, SettleLost(s) PROVE IInv'
  BY <1>1, <1>17, SettleLostStep, FaultType DEF IInv
<1>18. CASE Restart
  BY <1>1, <1>18, RestartStep, FaultType DEF IInv
<1>19. ASSUME NEW s \in Slot, HandlerStep(s) \/ Break(s) PROVE IInv'
  BY <1>13, <1>14, <1>15, <1>16, <1>19 DEF HandlerStep, HandlerMove
<1>20. QED
  BY <1>2, <1>3, <1>4, <1>5, <1>8, <1>9, <1>10, <1>11, <1>12, <1>17, <1>18, <1>19 DEF Next

\* Everything below follows from the invariant.
LEMMA Invariance == Spec => []IInv
<1>1. IInv /\ [Next]_vars => IInv'
  BY NextInv, StutterInv
<1>2. QED
  BY <1>1, InitInv, PTL DEF Spec

\* Hooks, events, deliveries and the jobs that carry them have the shapes the
\* tables and the handlers of webhook/deliver.go give them, and the counts keep
\* their bounds.
THEOREM TypeCorrect == Spec => []TypeOK
<1>1. IInv => TypeOK
  BY DEF IInv
<1>2. QED
  BY <1>1, Invariance, PTL

\* No event is lost to a hook that keeps listening (domain/event.go's transaction,
\* DeliverEventHandler's two queries and its job per hook, DeliverWebhookHandler's
\* result): it was accepted, or a row of the jobs table accounts for it, through
\* partial fan-outs, retries, lost settles and restarts.
THEOREM NoEventIsLost == Spec => []AcceptedOrOwed
<1>1. IInv => AcceptedOrOwed
  BY DEF IInv
<1>2. QED
  BY <1>1, Invariance, PTL

\* However late DeliverWebhookHandler calls a hook for an event, the hook listened
\* for that event at some time since it was recorded.
THEOREM OnlyInvitedAreCalled == Spec => []OnlyInvited
<1>1. IInv => OnlyInvited
  BY DEF IInv, Slots, Named, OnlyInvited
<1>2. QED
  BY <1>1, Invariance, PTL

\* A delivery that was accepted is never repeated by its own retries (send's answer
\* alone decides DeliverWebhookHandler's result): a second acceptance needs a second
\* fan-out of the event.
THEOREM TwiceNeedsTwoFanOuts == Spec => []TwiceOnlyRefanned
<1>1. IInv => TwiceOnlyRefanned
  <2> SUFFICES ASSUME IInv, NEW e \in Event, NEW h \in Hook, accepted[e][h] > 1,
                      e \notin refanned
               PROVE  FALSE
    BY DEF TwiceOnlyRefanned
  <2>1. accepted[e][h] \in {0, 1, 2}
    BY DEF IInv, TypeOK
  <2>2. accepted[e][h] <= 1
    BY DEF IInv, Once
  <2>3. QED
    BY <2>1, <2>2
<1>2. QED
  BY <1>1, Invariance, PTL
=============================================================================
