--------------------------- MODULE PullSyncProofs ---------------------------
(***************************************************************************)
(* No merge state goes stale but for the named causes, for any pull        *)
(* requests, branches, pushers and job slots.                              *)
(*                                                                         *)
(* NothingElseGoesStale is not inductive: a recompute that stores what is  *)
(* out of date may run beside a merge state that is current.  Followed     *)
(* says more: unless a pull request is excused, its running job has read   *)
(* nothing out of date, whether or not the stored state needs it.          *)
(***************************************************************************)
EXTENDS PullSync, TLAPS

\* p is among those a pusher has still to enqueue a recompute for: OwedHere and
\* OwedLater, spelt out.
OwedTo(u, p) ==
    \/ push[u].pc \in {"heads", "enqueue", "bases"} /\ p \in push[u].pulls
    \/ push[u].pc \in {"heads", "enqueue"} /\ p \in ByBase(push[u].branch)
    \/ push[u].pc = "enqueue" /\ p = push[u].pull
    \/ push[u].pc = "after" /\ \E b \in Branch : ref[b] # push[u].snap[b] /\ p \in Touched(b)
    \/ push[u].pc \in {"next", "heads", "enqueue", "bases"} /\ \E b \in push[u].todo : p \in Touched(b)

Excused(p) ==
    \/ pull[p].merged \/ missed[p]
    \/ opener[p].pc = "enqueue" \/ \E u \in Pusher : OwedTo(u, p)

\* What the handler at s has read of p is so still, and so is what it stored.
UpToDate(s, p) ==
    /\ run[s].pc \in {"base", "head", "store"} => run[s].baseRef = pull[p].base
    /\ run[s].pc \in {"head", "store"} => run[s].base = Tip(pull[p].base)
    /\ run[s].pc = "store" => run[s].head = Tip(HeadOf[p])
    /\ run[s].pc = "done" => Current(p)

Fresh(p) ==
    /\ Active(p) = {} => Current(p)
    /\ \A s \in Active(p) : UpToDate(s, p)

Followed == \A p \in Rows : Excused(p) \/ Fresh(p)

\* Only a running job is in a handler, and it is about its key; keys are exclusive.
QueueSound ==
    /\ \A s \in Slot :
           /\ ledger[s].state = "running" <=> run[s].pc # "idle"
           /\ run[s].pc # "idle" => run[s].pull = ledger[s].key
    /\ \A s, t \in Slot :
           Jobs!Live(s) /\ Jobs!Live(t) /\ ledger[s].key = ledger[t].key => s = t

\* Whatever will be synced or recomputed has a row.
Known ==
    /\ \A s \in Slot : Jobs!Live(s) => ledger[s].key \in Rows
    /\ \A p \in Pull : opener[p].pc = "enqueue" => p \in Rows
    /\ \A u \in Pusher : push[u].pc # "idle" =>
           /\ push[u].pulls \subseteq Rows
           /\ push[u].pc = "enqueue" => push[u].pull \in Rows

\* Branches only move on from a snapshot.
Snapped == \A u \in Pusher : push[u].pc # "idle" => \A b \in Branch : push[u].snap[b] <= ref[b]

IInv == TypeOK /\ QueueSound /\ Known /\ Snapped /\ Followed

USE BranchAssumption, NoKeyAssumption, PullsAssumption, BoundsAssumption

JobRow == [state : {"none", "queued", "running", "dead"}, key : Pull \cup {NoKey},
           handled : BOOLEAN, attempts : 0..MaxAttempts]

-----------------------------------------------------------------------------
(* What is owed, and what keeps it. *)

LEMMA OwedMeans ==
    ASSUME NEW u \in Pusher, NEW p
    PROVE  p \in Owed(u) <=> OwedTo(u, p)
BY DEF Owed, OwedHere, OwedLater, OwedTo

\* A pusher that does not move goes on owing what it owes, as branches only grow.
LEMMA OwedKept ==
    ASSUME TypeOK, Snapped, ref' \in [Branch -> Nat], \A b \in Branch : ref[b] <= ref'[b],
           NEW u \in Pusher, NEW p \in Rows, push'[u] = push[u],
           p \in Rows', pull'[p].base = pull[p].base, pull'[p].merged = pull[p].merged,
           OwedTo(u, p)
    PROVE  OwedTo(u, p)'
<1>1. \A b : p \in ByHead(b) => p \in ByHead(b)'
  BY DEF ByHead
<1>2. \A b : p \in ByBase(b) => p \in ByBase(b)'
  BY DEF ByBase
<1>3. \A b : p \in Touched(b) => p \in Touched(b)'
  BY <1>1, <1>2 DEF Touched
<1>4. ASSUME NEW b \in Branch, push[u].pc = "after", ref[b] # push[u].snap[b]
      PROVE  ref'[b] # push[u].snap[b]
  <2>1. push[u] \in Pushing
    BY <1>4 DEF TypeOK, Idle
  <2>2. push[u].snap[b] \in Nat /\ ref[b] \in Nat /\ ref'[b] \in Nat
    BY <2>1 DEF Pushing, TypeOK
  <2>3. push[u].snap[b] <= ref[b] /\ ref[b] <= ref'[b]
    BY <1>4 DEF Snapped
  <2>4. QED
    BY <1>4, <2>2, <2>3
<1>5. CASE push[u].pc = "after" /\ \E b \in Branch : ref[b] # push[u].snap[b] /\ p \in Touched(b)
  BY <1>3, <1>4, <1>5 DEF OwedTo
<1>6. QED
  BY <1>2, <1>3, <1>5 DEF OwedTo

\* What is up to date stays so while its row and its branches stay.
LEMMA FreshKept ==
    ASSUME NEW p \in Pull, Fresh(p), pull'[p] = pull[p],
           ref'[pull[p].base] = ref[pull[p].base], ref'[HeadOf[p]] = ref[HeadOf[p]],
           Active(p)' = Active(p),
           \A s \in Active(p) : run'[s] = run[s] \/ UpToDate(s, p)'
    PROVE  Fresh(p)'
<1>1. Current(p) => Current(p)'
  BY DEF Current, Tip
<1>2. \A s \in Active(p) : run'[s] = run[s] => UpToDate(s, p)'
  BY <1>1 DEF Fresh, UpToDate, Tip
<1>3. QED
  BY <1>1, <1>2 DEF Fresh

LEMMA ActiveKept == ASSUME UNCHANGED ledger, NEW p PROVE Active(p)' = Active(p)
BY DEF Active, Jobs!Live

\* A step of one pusher that only says what it still owes.
LEMMA OnlyPush ==
    ASSUME IInv, NEW u \in Pusher, UNCHANGED <<ref, pull, opener, ledger, run>>,
           \A v \in Pusher \ {u} : push'[v] = push[v],
           \A p \in Pull : missed[p] => missed'[p],
           \A p \in Rows : OwedTo(u, p) => OwedTo(u, p)' \/ missed'[p]
    PROVE  Followed' /\ QueueSound'
<1>1. ASSUME NEW p \in Rows PROVE Excused(p)' \/ Fresh(p)'
  <2>1. p \in Pull
    BY DEF Rows
  <2>2. ASSUME Fresh(p) PROVE Fresh(p)'
    BY <2>1, <2>2, FreshKept, ActiveKept
  <2>3. ASSUME Excused(p) PROVE Excused(p)'
    <3>1. ASSUME NEW v \in Pusher \ {u}, OwedTo(v, p) PROVE OwedTo(v, p)'
      <4>1. ref' \in [Branch -> Nat] /\ \A b \in Branch : ref[b] <= ref'[b]
        BY DEF IInv, TypeOK
      <4>2. Rows' = Rows
        BY DEF Rows
      <4>3. QED
        BY <3>1, <4>1, <4>2, OwedKept DEF IInv
    <3>2. QED
      BY <2>1, <2>3, <3>1 DEF Excused
  <2>4. QED
    BY <2>2, <2>3 DEF IInv, Followed
<1>2. Rows' = Rows
  BY DEF Rows
<1>3. QED
  BY <1>1, <1>2 DEF IInv, Followed, QueueSound, Jobs!Live

-----------------------------------------------------------------------------
LEMMA Initially == ASSUME Init PROVE IInv
<1>1. TypeOK
  <2>1. ledger \in [Slot -> [state : {"none", "queued", "running", "dead"}, key : Pull \cup {NoKey},
                             handled : BOOLEAN, attempts : 0..MaxAttempts]]
    BY DEF Init, Jobs!Init, Jobs!Free
  <2>2. pull \in [Pull -> Row]
    BY DEF Init, Row, Sha
  <2>3. QED
    BY <2>1, <2>2 DEF Init, TypeOK
<1>2. Rows = {}
  BY DEF Init, Rows
<1>3. \A s \in Slot : ledger[s].state = "none" /\ run[s].pc = "idle"
  BY DEF Init, Jobs!Init, Jobs!Free, Idle
<1>4. QueueSound /\ Known /\ Snapped
  BY <1>3 DEF Init, QueueSound, Known, Snapped, Jobs!Live, Idle
<1>5. QED
  BY <1>1, <1>2, <1>4 DEF IInv, Followed

-----------------------------------------------------------------------------
(* CreatePR. *)

\* An enqueue leaves its pull request with a queued job and none running, or marked.
LEMMA EnqueueLedger ==
    ASSUME IInv, NEW p \in Rows, Enqueue(p), UNCHANGED <<pull, run>>
    PROVE  /\ ledger' \in [Slot -> JobRow]
           /\ missed' \in [Pull -> BOOLEAN]
           /\ QueueSound'
           /\ \A s \in Slot : Jobs!Live(s)' => ledger'[s].key \in Rows
           /\ \A q \in Pull \ {p} : missed'[q] = missed[q] /\ Active(q)' = Active(q)
           /\ missed'[p] \/ Fresh(p)'
<1>1. p \in Pull /\ ledger \in [Slot -> JobRow] /\ missed \in [Pull -> BOOLEAN]
  BY DEF Rows, IInv, TypeOK, JobRow
<1>2. missed' \in [Pull -> BOOLEAN] /\ \A q \in Pull \ {p} : missed'[q] = missed[q]
  BY <1>1 DEF Enqueue
<1>3. missed'[p] <=> \E s \in Active(p) : ledger[s].state = "running"
  BY <1>1 DEF Enqueue
<1>4. CASE Folds(p)
  <2>1. UNCHANGED ledger
    BY <1>4 DEF Enqueue
  <2>2. QueueSound' /\ \A s \in Slot : Jobs!Live(s)' => ledger'[s].key \in Rows
    BY <2>1 DEF IInv, QueueSound, Known, Jobs!Live
  <2>3. ASSUME ~missed'[p] PROVE Fresh(p)'
    <3>1. Active(p) # {} /\ \A s \in Active(p) : ledger[s].state = "queued"
      BY <1>3, <1>4, <2>3 DEF Folds, Active, Jobs!Live
    <3>2. \A s \in Active(p) : run[s].pc = "idle"
      <4>1. ASSUME NEW s \in Active(p) PROVE run[s].pc = "idle"
        <5>1. s \in Slot /\ ledger[s].state = "queued"
          BY <3>1 DEF Active
        <5>2. QED
          BY <5>1 DEF IInv, QueueSound
      <4>2. QED
        BY <4>1
    <3>3. QED
      BY <2>1, <3>1, <3>2, ActiveKept DEF Fresh, UpToDate
  <2>4. QED
    BY <1>1, <1>2, <2>1, <2>2, <2>3, ActiveKept
<1>5. CASE ~Folds(p)
  <2>1. PICK s \in Slot : Jobs!Accept(s, p, TRUE)
    BY <1>5 DEF Enqueue
  <2>2. /\ ledger[s].state = "none"
        /\ ledger' = [ledger EXCEPT ![s] = [state |-> "queued", key |-> p, handled |-> TRUE, attempts |-> 0]]
        /\ \A i \in Slot : Jobs!Live(i) => ledger[i].key # p
    BY <1>1, <2>1 DEF Jobs!Accept
  <2>3. ledger' \in [Slot -> JobRow]
    BY <1>1, <2>2 DEF JobRow
  <2>4. /\ ledger'[s].state = "queued" /\ ledger'[s].key = p
        /\ \A t \in Slot \ {s} : ledger'[t] = ledger[t]
    BY <1>1, <2>2
  <2>5. run[s].pc = "idle"
    BY <2>2 DEF IInv, QueueSound
  <2>6. QueueSound'
    <3>1. ASSUME NEW t \in Slot
          PROVE /\ ledger'[t].state = "running" <=> run[t].pc # "idle"
                /\ run[t].pc # "idle" => run[t].pull = ledger'[t].key
      BY <2>4, <2>5 DEF IInv, QueueSound
    <3>2. ASSUME NEW t \in Slot, NEW r \in Slot, Jobs!Live(t)', Jobs!Live(r)',
                 ledger'[t].key = ledger'[r].key
          PROVE t = r
      BY <2>2, <2>4, <3>2 DEF IInv, QueueSound, Jobs!Live
    <3>3. QED
      BY <3>1, <3>2 DEF QueueSound
  <2>7. \A t \in Slot : Jobs!Live(t)' => ledger'[t].key \in Rows
    BY <2>4 DEF IInv, Known, Jobs!Live
  <2>8. \A q \in Pull \ {p} : Active(q)' = Active(q)
    BY <2>2, <2>4 DEF Active, Jobs!Live
  <2>9. Active(p)' = {s}
    BY <2>2, <2>4 DEF Active, Jobs!Live
  <2>10. Fresh(p)'
    BY <2>5, <2>9 DEF Fresh, UpToDate
  <2>11. QED
    BY <1>2, <2>3, <2>6, <2>7, <2>8, <2>10
<1>6. QED
  BY <1>4, <1>5

LEMMA EnqueueFollowed ==
    ASSUME IInv, NEW p \in Rows, Enqueue(p), UNCHANGED <<ref, pull, run>>,
           \A q \in Rows \ {p} : Excused(q) => Excused(q)'
    PROVE  Followed'
<1>1. Rows' = Rows /\ Rows \subseteq Pull
  BY DEF Rows
<1>2. ASSUME NEW q \in Rows \ {p} PROVE Excused(q)' \/ Fresh(q)'
  <2>1. Active(q)' = Active(q)
    BY <1>1, EnqueueLedger
  <2>2. Fresh(q) => Fresh(q)'
    BY <1>1, <2>1, FreshKept
  <2>3. QED
    BY <2>2 DEF IInv, Followed
<1>3. Excused(p)' \/ Fresh(p)'
  BY EnqueueLedger DEF Excused
<1>4. QED
  BY <1>1, <1>2, <1>3 DEF Followed

LEMMA OpenReadStep == ASSUME IInv, NEW p \in Pull, OpenRead(p) PROVE IInv'
<1>1. /\ opener[p] = Idle /\ UNCHANGED <<ref, pull, push, ledger, run, missed, moves, cuts, fails, retargets>>
      /\ opener' = [opener EXCEPT ![p] = [pc |-> "insert", base |-> Tip(BaseOf[p]), head |-> Tip(HeadOf[p])]]
  BY DEF OpenRead
<1>2. TypeOK'
  <2>1. Tip(BaseOf[p]) \in Sha /\ Tip(HeadOf[p]) \in Sha
    BY DEF IInv, TypeOK, Tip, Sha
  <2>2. opener' \in [Pull -> {Idle} \cup Opening]
    BY <1>1, <2>1 DEF IInv, TypeOK, Opening
  <2>3. QED
    BY <1>1, <2>2 DEF IInv, TypeOK
<1>3. \A q \in Pull : opener'[q].pc = "enqueue" <=> opener[q].pc = "enqueue"
  BY <1>1 DEF IInv, TypeOK, Idle
<1>4. QueueSound' /\ Known' /\ Snapped'
  BY <1>1, <1>3 DEF IInv, QueueSound, Known, Snapped, Jobs!Live, Rows
<1>5. \A q \in Rows : q \in Pull
  BY DEF Rows
<1>6. Followed'
  BY <1>1, <1>3, <1>5 DEF IInv, Followed, Excused, OwedTo, ByHead, ByBase, Touched, Rows, Fresh, Active,
     Jobs!Live, Current, UpToDate, Tip
<1>7. QED
  BY <1>2, <1>4, <1>6 DEF IInv

LEMMA OpenInsertStep == ASSUME IInv, NEW p \in Pull, OpenInsert(p) PROVE IInv'
<1>1. /\ opener[p].pc = "insert" /\ UNCHANGED <<ref, push, ledger, run, missed, moves, cuts, fails, retargets>>
      /\ opener[p] \in Opening /\ pull[p] \in Row
  BY DEF OpenInsert, IInv, TypeOK, Idle
<1>2. /\ pull' = [pull EXCEPT ![p] = [[pull[p] EXCEPT !.state = "unknown"] EXCEPT !.head = opener[p].head]]
      /\ opener' = [opener EXCEPT ![p] = [opener[p] EXCEPT !.pc = "enqueue"]]
  BY DEF OpenInsert
<1>3. TypeOK'
  <2>1. [pull[p] EXCEPT !.state = "unknown"] \in Row /\ opener[p].head \in Sha
    BY <1>1 DEF Row, Opening
  <2>2. [[pull[p] EXCEPT !.state = "unknown"] EXCEPT !.head = opener[p].head] \in Row
    BY <2>1 DEF Row
  <2>3. [opener[p] EXCEPT !.pc = "enqueue"] \in Opening
    BY <1>1 DEF Opening
  <2>4. pull' \in [Pull -> Row] /\ opener' \in [Pull -> {Idle} \cup Opening]
    BY <1>2, <2>2, <2>3 DEF IInv, TypeOK
  <2>5. QED
    BY <1>1, <2>4 DEF IInv, TypeOK
<1>4. /\ \A q \in Pull \ {p} : pull'[q] = pull[q] /\ opener'[q] = opener[q]
      /\ pull'[p].merged = pull[p].merged /\ pull'[p].base = pull[p].base /\ pull'[p].state = "unknown"
      /\ opener'[p].pc = "enqueue"
  BY <1>1, <1>2 DEF IInv, TypeOK, Row, Opening
<1>5. Rows' = Rows \cup {p} /\ Rows \subseteq Pull
  BY <1>4 DEF Rows
<1>6. QueueSound' /\ Known' /\ Snapped'
  BY <1>1, <1>4, <1>5 DEF IInv, QueueSound, Known, Snapped, Jobs!Live
<1>7. ASSUME NEW q \in Rows \ {p} PROVE Excused(q)' \/ Fresh(q)'
  <2>1. q \in Pull /\ pull'[q] = pull[q] /\ opener'[q] = opener[q] /\ q \in Rows'
    BY <1>4, <1>5
  <2>2. ref' \in [Branch -> Nat] /\ \A b \in Branch : ref[b] <= ref'[b]
    BY <1>1 DEF IInv, TypeOK
  <2>3. Fresh(q) => Fresh(q)'
    BY <1>1, <2>1, FreshKept, ActiveKept
  <2>4. \A u \in Pusher : OwedTo(u, q) => OwedTo(u, q)'
    BY <1>1, <2>1, <2>2, OwedKept DEF IInv
  <2>5. QED
    BY <1>1, <2>1, <2>3, <2>4 DEF IInv, Followed, Excused
<1>8. Excused(p)'
  BY <1>4 DEF Excused
<1>9. QED
  BY <1>3, <1>5, <1>6, <1>7, <1>8 DEF IInv, Followed

LEMMA OpenEnqueueStep == ASSUME IInv, NEW p \in Pull, OpenEnqueue(p) PROVE IInv'
<1>1. /\ p \in Rows /\ Enqueue(p) /\ opener' = [opener EXCEPT ![p] = Idle]
      /\ UNCHANGED <<ref, pull, push, run, moves, cuts, fails, retargets>>
  BY DEF OpenEnqueue, IInv, Known
<1>2. /\ \A q \in Pull \ {p} : opener'[q] = opener[q]
      /\ opener' \in [Pull -> {Idle} \cup Opening] /\ opener'[p].pc = "idle"
  BY <1>1 DEF IInv, TypeOK, Idle
<1>3. Rows' = Rows /\ Rows \subseteq Pull
  BY <1>1 DEF Rows
<1>4. /\ ledger' \in [Slot -> JobRow] /\ missed' \in [Pull -> BOOLEAN] /\ QueueSound'
      /\ \A s \in Slot : Jobs!Live(s)' => ledger'[s].key \in Rows
      /\ \A q \in Pull \ {p} : missed'[q] = missed[q]
  BY <1>1, EnqueueLedger
<1>5. TypeOK'
  BY <1>1, <1>2, <1>4 DEF IInv, TypeOK, JobRow
<1>6. Known' /\ Snapped'
  BY <1>1, <1>2, <1>3, <1>4 DEF IInv, Known, Snapped
<1>7. ASSUME NEW q \in Rows \ {p}, Excused(q) PROVE Excused(q)'
  BY <1>1, <1>2, <1>3, <1>4, <1>7 DEF Excused, OwedTo, ByHead, ByBase, Touched
<1>8. QED
  BY <1>1, <1>4, <1>5, <1>6, <1>7, EnqueueFollowed DEF IInv

-----------------------------------------------------------------------------
(* Pushes. *)

LEMMA NewPushFact ==
    ASSUME TypeOK
    PROVE  NewPush \in Pushing /\ NewPush.pc = "write" /\ NewPush.snap = ref
           /\ NewPush.pulls = {} /\ NewPush.todo = {}
<1>1. PICK p \in Pull : TRUE
  OBVIOUS
<1>2. HeadOf[p] \in Branch
  OBVIOUS
<1>3. (CHOOSE b \in Branch : TRUE) \in Branch /\ (CHOOSE q \in Pull : TRUE) \in Pull
  BY <1>2
<1>4. QED
  BY <1>3 DEF NewPush, Pushing, TypeOK

\* A pusher moves and its request still has what it lists of existing rows.
LEMMA PushInv ==
    ASSUME IInv, NEW u \in Pusher, push' \in [Pusher -> {Idle} \cup Pushing],
           UNCHANGED <<ref, pull, opener, ledger, run>>,
           \A v \in Pusher \ {u} : push'[v] = push[v],
           push'[u].pc # "idle" =>
               /\ push'[u].pulls \subseteq Rows
               /\ push'[u].pc = "enqueue" => push'[u].pull \in Rows
               /\ push'[u].snap # ref => push[u].pc # "idle" /\ push'[u].snap = push[u].snap,
           missed' \in [Pull -> BOOLEAN], \A p \in Pull : missed[p] => missed'[p],
           moves' \in 0..MaxMoves, cuts' \in 0..MaxCuts, fails' = fails, retargets' = retargets,
           \A p \in Rows : OwedTo(u, p) => OwedTo(u, p)' \/ missed'[p]
    PROVE  IInv'
<1>1. Rows' = Rows
  BY DEF Rows
<1>2. TypeOK'
  BY DEF IInv, TypeOK
<1>3. Known'
  BY <1>1 DEF IInv, Known, Jobs!Live
<1>4. Snapped'
  <2>1. \A b \in Branch : ref[b] <= ref[b]
    BY DEF IInv, TypeOK
  <2>2. QED
    BY <2>1 DEF IInv, Snapped
<1>5. QED
  BY <1>2, <1>3, <1>4, OnlyPush DEF IInv

LEMMA PushBeginStep == ASSUME IInv, NEW u \in Pusher, PushBegin(u) PROVE IInv'
<1>1. /\ push[u] = Idle /\ push' = [push EXCEPT ![u] = NewPush]
      /\ UNCHANGED <<ref, pull, opener, ledger, run, missed, moves, cuts, fails, retargets>>
  BY DEF PushBegin
<1>2. /\ push' \in [Pusher -> {Idle} \cup Pushing] /\ push'[u] = NewPush
      /\ \A v \in Pusher \ {u} : push'[v] = push[v]
  BY <1>1, NewPushFact DEF IInv, TypeOK
<1>3. \A p \in Rows : ~OwedTo(u, p)
  BY <1>1 DEF OwedTo, Idle
<1>4. missed \in [Pull -> BOOLEAN] /\ moves \in 0..MaxMoves /\ cuts \in 0..MaxCuts
  BY DEF IInv, TypeOK
<1>5. NewPush.pc = "write" /\ NewPush.snap = ref /\ NewPush.pulls = {}
  BY NewPushFact DEF IInv
<1>6. QED
  BY <1>1, <1>2, <1>3, <1>4, <1>5, PushInv

\* A pusher under way, and what each of its moves leaves it with.
LEMMA Under ==
    ASSUME IInv, NEW u \in Pusher, push[u].pc # "idle"
    PROVE  /\ push[u] \in Pushing
           /\ push[u].pulls \subseteq Rows /\ Rows \subseteq Pull
           /\ push[u].pc = "enqueue" => push[u].pull \in Rows
BY DEF IInv, TypeOK, Known, Rows, Idle

LEMMA PushSet ==
    ASSUME IInv, NEW u \in Pusher, NEW r \in {Idle} \cup Pushing, push' = [push EXCEPT ![u] = r]
    PROVE  /\ push' \in [Pusher -> {Idle} \cup Pushing] /\ push'[u] = r
           /\ \A v \in Pusher \ {u} : push'[v] = push[v]
BY DEF IInv, TypeOK

LEMMA Counters ==
    ASSUME IInv
    PROVE  missed \in [Pull -> BOOLEAN] /\ moves \in 0..MaxMoves /\ cuts \in 0..MaxCuts
BY DEF IInv, TypeOK

LEMMA PushRejectedStep == ASSUME IInv, NEW u \in Pusher, PushRejected(u) PROVE IInv'
<1> DEFINE r == [push[u] EXCEPT !.pc = "after"]
<1>1. /\ push[u].pc = "write" /\ push' = [push EXCEPT ![u] = r]
      /\ UNCHANGED <<ref, pull, opener, ledger, run, missed, moves, cuts, fails, retargets>>
  BY DEF PushRejected
<1>2. push[u] \in Pushing /\ push[u].pulls \subseteq Rows
  BY <1>1, Under
<1>3. r \in Pushing /\ r.pc = "after" /\ r.snap = push[u].snap /\ r.pulls = push[u].pulls
  BY <1>2 DEF Pushing
<1> HIDE DEF r
<1>4. \A p \in Rows : ~OwedTo(u, p)
  BY <1>1 DEF OwedTo
<1>5. QED
  BY <1>1, <1>2, <1>3, <1>4, PushSet, PushInv, Counters

LEMMA PushDiffStep == ASSUME IInv, NEW u \in Pusher, PushDiff(u) PROVE IInv'
<1> DEFINE todo == {b \in Branch : ref[b] # push[u].snap[b]}
           r == [[[push[u] EXCEPT !.pc = "next"] EXCEPT !.snap = ref] EXCEPT !.todo = todo]
<1>1. /\ push[u].pc = "after" /\ push' = [push EXCEPT ![u] = r]
      /\ UNCHANGED <<ref, pull, opener, ledger, run, missed, moves, cuts, fails, retargets>>
  BY DEF PushDiff
<1>2. push[u] \in Pushing /\ push[u].pulls \subseteq Rows
  BY <1>1, Under
<1>3. /\ r \in Pushing /\ r.pc = "next" /\ r.snap = ref /\ r.pulls = push[u].pulls
      /\ r.todo = {b \in Branch : ref[b] # push[u].snap[b]}
  BY <1>2 DEF Pushing, IInv, TypeOK
<1> HIDE DEF r, todo
<1>4. push' \in [Pusher -> {Idle} \cup Pushing] /\ push'[u] = r /\ \A v \in Pusher \ {u} : push'[v] = push[v]
  BY <1>1, <1>3, PushSet
<1>5. \A p \in Rows : OwedTo(u, p) => OwedTo(u, p)'
  BY <1>1, <1>3, <1>4 DEF OwedTo, ByHead, ByBase, Touched, Rows
<1>6. QED
  BY <1>1, <1>2, <1>3, <1>4, <1>5, PushInv, Counters

LEMMA SyncBranchStep == ASSUME IInv, NEW u \in Pusher, SyncBranch(u) PROVE IInv'
<1>1. PICK b \in push[u].todo :
         /\ push[u].pc = "next"
         /\ push' = [push EXCEPT ![u].pc = "heads", ![u].todo = @ \ {b}, ![u].branch = b,
                                 ![u].pulls = ByHead(b)]
         /\ UNCHANGED <<ref, pull, opener, ledger, run, missed, moves, cuts, fails, retargets>>
  BY DEF SyncBranch
<1> DEFINE r == [[[[push[u] EXCEPT !.pc = "heads"] EXCEPT !.todo = push[u].todo \ {b}]
                    EXCEPT !.branch = b] EXCEPT !.pulls = ByHead(b)]
<1>2. push[u] \in Pushing /\ Rows \subseteq Pull
  BY <1>1, Under
<1>3. push' = [push EXCEPT ![u] = r]
  BY <1>1
<1>4. ByHead(b) \subseteq Rows /\ b \in Branch
  BY <1>2 DEF ByHead, Pushing
<1>5. /\ r \in Pushing /\ r.pc = "heads" /\ r.snap = push[u].snap /\ r.pulls = ByHead(b)
      /\ r.todo = push[u].todo \ {b} /\ r.branch = b
  BY <1>2, <1>4 DEF Pushing
<1> HIDE DEF r
<1>6. push' \in [Pusher -> {Idle} \cup Pushing] /\ push'[u] = r /\ \A v \in Pusher \ {u} : push'[v] = push[v]
  BY <1>3, <1>5, PushSet
<1>7. ASSUME NEW p \in Rows, OwedTo(u, p) PROVE OwedTo(u, p)'
  <2>1. PICK c \in push[u].todo : p \in Touched(c)
    BY <1>1, <1>7 DEF OwedTo
  <2>2. p \in Touched(c)' /\ ByBase(b)' = ByBase(b)
    BY <1>1, <2>1 DEF ByHead, ByBase, Touched, Rows
  <2>3. CASE c = b
    BY <1>5, <1>6, <2>1, <2>2, <2>3 DEF OwedTo, Touched
  <2>4. CASE c # b
    BY <1>5, <1>6, <2>1, <2>2, <2>4 DEF OwedTo
  <2>5. QED
    BY <2>3, <2>4
<1>8. QED
  BY <1>1, <1>4, <1>5, <1>6, <1>7, PushInv, Counters

LEMMA SyncListBasesStep == ASSUME IInv, NEW u \in Pusher, SyncListBases(u) PROVE IInv'
<1> DEFINE r == [[push[u] EXCEPT !.pc = "bases"] EXCEPT !.pulls = ByBase(push[u].branch)]
<1>1. /\ push[u].pc = "heads" /\ push[u].pulls = {} /\ push' = [push EXCEPT ![u] = r]
      /\ UNCHANGED <<ref, pull, opener, ledger, run, missed, moves, cuts, fails, retargets>>
  BY DEF SyncListBases
<1>2. push[u] \in Pushing /\ Rows \subseteq Pull
  BY <1>1, Under
<1>3. ByBase(push[u].branch) \subseteq Rows
  BY DEF ByBase
<1>4. /\ r \in Pushing /\ r.pc = "bases" /\ r.snap = push[u].snap
      /\ r.pulls = ByBase(push[u].branch) /\ r.todo = push[u].todo
  BY <1>2, <1>3 DEF Pushing
<1> HIDE DEF r
<1>5. push' \in [Pusher -> {Idle} \cup Pushing] /\ push'[u] = r /\ \A v \in Pusher \ {u} : push'[v] = push[v]
  BY <1>1, <1>4, PushSet
<1>6. \A p \in Rows : OwedTo(u, p) => OwedTo(u, p)'
  BY <1>1, <1>4, <1>5 DEF OwedTo, ByHead, ByBase, Touched, Rows
<1>7. QED
  BY <1>1, <1>3, <1>4, <1>5, <1>6, PushInv, Counters

LEMMA SyncNextStep == ASSUME IInv, NEW u \in Pusher, SyncNext(u) PROVE IInv'
<1> DEFINE r == [push[u] EXCEPT !.pc = "next"]
<1>1. /\ push[u].pc = "bases" /\ push[u].pulls = {} /\ push' = [push EXCEPT ![u] = r]
      /\ UNCHANGED <<ref, pull, opener, ledger, run, missed, moves, cuts, fails, retargets>>
  BY DEF SyncNext
<1>2. push[u] \in Pushing
  BY <1>1, Under
<1>3. /\ r \in Pushing /\ r.pc = "next" /\ r.snap = push[u].snap
      /\ r.pulls = {} /\ r.todo = push[u].todo
  BY <1>1, <1>2 DEF Pushing
<1> HIDE DEF r
<1>4. push' \in [Pusher -> {Idle} \cup Pushing] /\ push'[u] = r /\ \A v \in Pusher \ {u} : push'[v] = push[v]
  BY <1>1, <1>3, PushSet
<1>5. \A p \in Rows : OwedTo(u, p) => OwedTo(u, p)'
  BY <1>1, <1>3, <1>4 DEF OwedTo, ByHead, ByBase, Touched, Rows
<1>6. QED
  BY <1>1, <1>3, <1>4, <1>5, PushInv, Counters

LEMMA PushDoneStep == ASSUME IInv, NEW u \in Pusher, PushDone(u) PROVE IInv'
<1>1. /\ push[u].pc = "next" /\ push[u].todo = {} /\ push' = [push EXCEPT ![u] = Idle]
      /\ UNCHANGED <<ref, pull, opener, ledger, run, missed, moves, cuts, fails, retargets>>
  BY DEF PushDone
<1>2. push' \in [Pusher -> {Idle} \cup Pushing] /\ push'[u] = Idle /\ \A v \in Pusher \ {u} : push'[v] = push[v]
  BY <1>1, PushSet
<1>3. \A p \in Rows : ~OwedTo(u, p)
  BY <1>1 DEF OwedTo
<1>4. QED
  BY <1>1, <1>2, <1>3, PushInv, Counters DEF Idle

-----------------------------------------------------------------------------
(* Requests that go wrong. *)

LEMMA Forgotten ==
    ASSUME IInv, NEW q, Forgets(q)
    PROVE  /\ cuts' \in 0..MaxCuts /\ missed' \in [Pull -> BOOLEAN]
           /\ \A p \in Pull : (missed[p] => missed'[p]) /\ (p \in q => missed'[p])
<1>1. missed' = [p \in Pull |-> missed[p] \/ p \in q] /\ cuts < MaxCuts /\ cuts' = cuts + 1
  BY DEF Forgets
<1>2. cuts' \in 0..MaxCuts
  BY <1>1 DEF IInv, TypeOK
<1>3. missed' \in [Pull -> BOOLEAN]
  BY <1>1, Zenon
<1>4. \A p \in Pull : missed'[p] = (missed[p] \/ p \in q)
  BY <1>1, Zenon
<1>5. QED
  BY <1>2, <1>3, <1>4, Zenon

LEMMA CutStep == ASSUME IInv, NEW u \in Pusher, Cut(u) PROVE IInv'
<1>1. /\ push[u].pc # "idle" /\ push' = [push EXCEPT ![u] = Idle] /\ Forgets(Owed(u))
      /\ UNCHANGED <<ref, pull, opener, ledger, run, moves, fails, retargets>>
  BY DEF Cut
<1>2. push' \in [Pusher -> {Idle} \cup Pushing] /\ push'[u] = Idle /\ \A v \in Pusher \ {u} : push'[v] = push[v]
  BY <1>1, PushSet
<1>3. Rows \subseteq Pull
  BY DEF Rows
<1>4. /\ cuts' \in 0..MaxCuts /\ missed' \in [Pull -> BOOLEAN]
      /\ \A p \in Pull : (missed[p] => missed'[p]) /\ (p \in Owed(u) => missed'[p])
  BY <1>1, Forgotten
<1>5. \A p \in Rows : OwedTo(u, p) => missed'[p]
  BY <1>3, <1>4, OwedMeans
<1>6. QED
  BY <1>1, <1>2, <1>4, <1>5, PushInv, Counters DEF Idle

LEMMA SyncFailsStep == ASSUME IInv, NEW u \in Pusher, SyncFails(u) PROVE IInv'
<1> DEFINE r == [[push[u] EXCEPT !.pc = "next"] EXCEPT !.pulls = {}]
<1>1. /\ push[u].pc \in {"heads", "enqueue", "bases"} /\ push' = [push EXCEPT ![u] = r]
      /\ Forgets(OwedHere(u))
      /\ UNCHANGED <<ref, pull, opener, ledger, run, moves, fails, retargets>>
  BY DEF SyncFails
<1>2. push[u] \in Pushing /\ Rows \subseteq Pull
  BY <1>1, Under
<1>3. /\ r \in Pushing /\ r.pc = "next" /\ r.snap = push[u].snap
      /\ r.pulls = {} /\ r.todo = push[u].todo
  BY <1>1, <1>2 DEF Pushing
<1> HIDE DEF r
<1>4. push' \in [Pusher -> {Idle} \cup Pushing] /\ push'[u] = r /\ \A v \in Pusher \ {u} : push'[v] = push[v]
  BY <1>1, <1>3, PushSet
<1>5. /\ cuts' \in 0..MaxCuts /\ missed' \in [Pull -> BOOLEAN]
      /\ \A p \in Pull : (missed[p] => missed'[p]) /\ (p \in OwedHere(u) => missed'[p])
  BY <1>1, Forgotten
<1>6. ASSUME NEW p \in Rows, OwedTo(u, p) PROVE OwedTo(u, p)' \/ missed'[p]
  <2>1. p \in OwedHere(u) \/ \E b \in push[u].todo : p \in Touched(b)
    BY <1>1, <1>6 DEF OwedTo, OwedHere
  <2>2. (\E b \in push[u].todo : p \in Touched(b)) => OwedTo(u, p)'
    BY <1>1, <1>3, <1>4 DEF OwedTo, ByHead, ByBase, Touched, Rows
  <2>3. QED
    BY <1>2, <1>5, <2>1, <2>2
<1>7. QED
  BY <1>1, <1>3, <1>4, <1>5, <1>6, PushInv, Counters

LEMMA EnqueueFailsStep == ASSUME IInv, NEW u \in Pusher, EnqueueFails(u) PROVE IInv'
<1>1. /\ push[u].pc # "idle"
      /\ UNCHANGED <<ref, pull, opener, ledger, run, moves, fails, retargets>>
  BY DEF EnqueueFails
<1>2. push[u] \in Pushing /\ Rows \subseteq Pull /\ push[u].pulls \subseteq Rows
  BY <1>1, Under
<1>3. ASSUME push[u].pc = "enqueue", Forgets({push[u].pull}),
             push' = [push EXCEPT ![u].pc = "heads"]
      PROVE  IInv'
  <2> DEFINE r == [push[u] EXCEPT !.pc = "heads"]
  <2>1. push' = [push EXCEPT ![u] = r]
    BY <1>3
  <2>2. /\ r \in Pushing /\ r.pc = "heads" /\ r.snap = push[u].snap
        /\ r.pulls = push[u].pulls /\ r.todo = push[u].todo /\ r.branch = push[u].branch
    BY <1>2 DEF Pushing
  <2> HIDE DEF r
  <2>3. push' \in [Pusher -> {Idle} \cup Pushing] /\ push'[u] = r /\ \A v \in Pusher \ {u} : push'[v] = push[v]
    BY <2>1, <2>2, PushSet
  <2>4. /\ cuts' \in 0..MaxCuts /\ missed' \in [Pull -> BOOLEAN]
        /\ \A p \in Pull : (missed[p] => missed'[p]) /\ (p = push[u].pull => missed'[p])
    BY <1>3, Forgotten
  <2>5. \A p \in Rows : OwedTo(u, p) => OwedTo(u, p)' \/ missed'[p]
    BY <1>1, <1>2, <1>3, <2>2, <2>3, <2>4 DEF OwedTo, ByHead, ByBase, Touched, Rows
  <2>6. QED
    BY <1>1, <1>2, <2>2, <2>3, <2>4, <2>5, PushInv, Counters
<1>4. ASSUME push[u].pc = "bases", NEW q \in push[u].pulls, Forgets({q}),
             push' = [push EXCEPT ![u].pulls = @ \ {q}]
      PROVE  IInv'
  <2> DEFINE r == [push[u] EXCEPT !.pulls = push[u].pulls \ {q}]
  <2>1. push' = [push EXCEPT ![u] = r]
    BY <1>4
  <2>2. /\ r \in Pushing /\ r.pc = "bases" /\ r.snap = push[u].snap
        /\ r.pulls = push[u].pulls \ {q} /\ r.todo = push[u].todo /\ r.branch = push[u].branch
    BY <1>2, <1>4 DEF Pushing
  <2> HIDE DEF r
  <2>3. push' \in [Pusher -> {Idle} \cup Pushing] /\ push'[u] = r /\ \A v \in Pusher \ {u} : push'[v] = push[v]
    BY <2>1, <2>2, PushSet
  <2>4. /\ cuts' \in 0..MaxCuts /\ missed' \in [Pull -> BOOLEAN]
        /\ \A p \in Pull : (missed[p] => missed'[p]) /\ (p = q => missed'[p])
    BY <1>4, Forgotten
  <2>5. \A p \in Rows : OwedTo(u, p) => OwedTo(u, p)' \/ missed'[p]
    BY <1>1, <1>2, <1>4, <2>2, <2>3, <2>4 DEF OwedTo, ByHead, ByBase, Touched, Rows
  <2>6. QED
    BY <1>1, <1>2, <2>2, <2>3, <2>4, <2>5, PushInv, Counters
<1>5. QED
  BY <1>3, <1>4 DEF EnqueueFails

\* A pull request whose branches and row stay, where no debt is dropped.
LEMMA RestKept ==
    ASSUME IInv, NEW p \in Rows, pull'[p] = pull[p], opener'[p] = opener[p],
           ref'[pull[p].base] = ref[pull[p].base], ref'[HeadOf[p]] = ref[HeadOf[p]],
           UNCHANGED <<ledger, run>>, missed[p] => missed'[p],
           \A u \in Pusher : OwedTo(u, p) => OwedTo(u, p)'
    PROVE  Excused(p)' \/ Fresh(p)'
<1>1. p \in Pull
  BY DEF Rows
<1>2. Fresh(p) => Fresh(p)'
  BY <1>1, FreshKept, ActiveKept
<1>3. Excused(p) => Excused(p)'
  BY DEF Excused
<1>4. QED
  BY <1>2, <1>3 DEF IInv, Followed

LEMMA CutOpenStep == ASSUME IInv, NEW p \in Pull, CutOpen(p) PROVE IInv'
<1>1. /\ opener' = [opener EXCEPT ![p] = Idle] /\ Forgets({p})
      /\ UNCHANGED <<ref, pull, push, ledger, run, moves, fails, retargets>>
  BY DEF CutOpen
<1>2. /\ \A q \in Pull \ {p} : opener'[q] = opener[q]
      /\ opener' \in [Pull -> {Idle} \cup Opening] /\ opener'[p].pc = "idle"
  BY <1>1 DEF IInv, TypeOK, Idle
<1>3. Rows' = Rows /\ Rows \subseteq Pull
  BY <1>1 DEF Rows
<1>4. /\ cuts' \in 0..MaxCuts /\ missed' \in [Pull -> BOOLEAN]
      /\ \A q \in Pull : (missed[q] => missed'[q]) /\ (q = p => missed'[q])
  BY <1>1, Forgotten
<1>5. TypeOK'
  BY <1>1, <1>2, <1>4 DEF IInv, TypeOK
<1>6. QueueSound' /\ Known' /\ Snapped'
  BY <1>1, <1>2, <1>3 DEF IInv, QueueSound, Known, Snapped, Jobs!Live
<1>7. ASSUME NEW q \in Rows \ {p} PROVE Excused(q)' \/ Fresh(q)'
  <2>1. \A u \in Pusher : OwedTo(u, q) => OwedTo(u, q)'
    BY <1>1, <1>3 DEF OwedTo, ByHead, ByBase, Touched
  <2>2. QED
    BY <1>1, <1>2, <1>3, <1>4, <2>1, RestKept
<1>8. Excused(p)'
  BY <1>4 DEF Excused
<1>9. QED
  BY <1>3, <1>5, <1>6, <1>7, <1>8 DEF IInv, Followed

-----------------------------------------------------------------------------
(* Branches that move. *)

\* A branch moves: nobody forgets a debt, and no snapshot is ahead.
LEMMA RefMoves ==
    ASSUME IInv, ref' \in [Branch -> Nat], \A b \in Branch : ref[b] <= ref'[b],
           NEW u \in Pusher, \A v \in Pusher \ {u} : push'[v] = push[v],
           push'[u].pc # "idle" => \A b \in Branch : push'[u].snap[b] <= ref'[b]
    PROVE  Snapped'
<1>1. ASSUME NEW v \in Pusher \ {u}, push'[v].pc # "idle", NEW b \in Branch
      PROVE  push'[v].snap[b] <= ref'[b]
  <2>1. push[v] \in Pushing /\ push[v].snap[b] <= ref[b]
    BY <1>1 DEF IInv, TypeOK, Idle, Snapped
  <2>2. push[v].snap[b] \in Nat /\ ref[b] \in Nat /\ ref'[b] \in Nat /\ ref[b] <= ref'[b]
    BY <2>1 DEF Pushing, IInv, TypeOK
  <2>3. QED
    BY <1>1, <2>1, <2>2
<1>2. QED
  BY <1>1 DEF Snapped

LEMMA PushWriteStep == ASSUME IInv, NEW u \in Pusher, PushWrite(u) PROVE IInv'
<1>1. PICK moved \in SUBSET Branch \ {{}} :
         ref' = [b \in Branch |-> IF b \in moved THEN ref[b] + 1 ELSE ref[b]]
  BY DEF PushWrite
<1> DEFINE r == [push[u] EXCEPT !.pc = "after"]
<1>2. /\ push[u].pc = "write" /\ moves < MaxMoves /\ moves' = moves + 1 /\ push' = [push EXCEPT ![u] = r]
      /\ UNCHANGED <<pull, opener, ledger, run, missed, cuts, fails, retargets>>
  BY DEF PushWrite
<1>3. /\ ref' \in [Branch -> Nat]
      /\ \A b \in Branch : ref[b] <= ref'[b] /\ (b \in moved => ref'[b] = ref[b] + 1)
                           /\ (b \notin moved => ref'[b] = ref[b])
  BY <1>1 DEF IInv, TypeOK
<1>4. push[u] \in Pushing /\ push[u].pulls \subseteq Rows /\ Rows \subseteq Pull
  BY <1>2, Under
<1>5. r \in Pushing /\ r.pc = "after" /\ r.snap = push[u].snap /\ r.pulls = push[u].pulls
  BY <1>4 DEF Pushing
<1> HIDE DEF r
<1>6. push' \in [Pusher -> {Idle} \cup Pushing] /\ push'[u] = r /\ \A v \in Pusher \ {u} : push'[v] = push[v]
  BY <1>2, <1>5, PushSet
<1>7. TypeOK'
  BY <1>2, <1>3, <1>6 DEF IInv, TypeOK
<1>8. QueueSound' /\ Known'
  BY <1>2, <1>4, <1>5, <1>6 DEF IInv, QueueSound, Known, Jobs!Live, Rows
<1>9. \A b \in Branch : /\ push[u].snap[b] \in Nat /\ ref[b] \in Nat
                        /\ push[u].snap[b] <= ref[b]
  BY <1>2, <1>4 DEF Pushing, IInv, TypeOK, Snapped
<1>10. Snapped'
  <2>1. \A b \in Branch : r.snap[b] <= ref'[b]
    BY <1>3, <1>5, <1>9
  <2>2. QED
    BY <1>3, <1>6, <2>1, RefMoves
<1>11. ASSUME NEW p \in Rows PROVE Excused(p)' \/ Fresh(p)'
  <2>1. p \in Pull /\ HeadOf[p] \in Branch /\ pull[p].base \in Branch
    BY <1>4 DEF IInv, TypeOK, Row
  <2>2. p \in Rows' /\ pull' = pull
    BY <1>2 DEF Rows
  <2>3. ASSUME NEW b \in moved, b = HeadOf[p] \/ b = pull[p].base, ~pull[p].merged
        PROVE  Excused(p)'
    <3>1. p \in Touched(b)'
      BY <2>2, <2>3 DEF Touched, ByHead, ByBase
    <3>2. ref'[b] # push'[u].snap[b]
      BY <1>3, <1>5, <1>6, <1>9
    <3>3. OwedTo(u, p)'
      BY <1>5, <1>6, <3>1, <3>2 DEF OwedTo
    <3>4. QED
      BY <3>3 DEF Excused
  <2>4. CASE pull[p].merged
    BY <2>2, <2>4 DEF Excused
  <2>5. CASE HeadOf[p] \notin moved /\ pull[p].base \notin moved
    <3>1. \A v \in Pusher \ {u} : OwedTo(v, p) => OwedTo(v, p)'
      BY <1>3, <1>6, <2>2, OwedKept DEF IInv
    <3>2. ~OwedTo(u, p)
      BY <1>2 DEF OwedTo
    <3>3. QED
      BY <1>2, <1>3, <2>1, <2>5, <3>1, <3>2, RestKept
  <2>6. QED
    BY <2>3, <2>4, <2>5
<1>12. Rows' = Rows
  BY <1>2 DEF Rows
<1>13. QED
  BY <1>7, <1>8, <1>10, <1>11, <1>12 DEF IInv, Followed

LEMMA UpdateBranchStep == ASSUME IInv, NEW u \in Pusher, NEW p \in Pull, UpdateBranch(u, p) PROVE IInv'
<1> DEFINE r == [[[NewPush EXCEPT !.pc = "next"] EXCEPT !.snap = ref'] EXCEPT !.todo = {HeadOf[p]}]
<1>1. /\ push[u] = Idle /\ moves < MaxMoves /\ moves' = moves + 1 /\ push' = [push EXCEPT ![u] = r]
      /\ ref' = [ref EXCEPT ![HeadOf[p]] = @ + 1]
      /\ UNCHANGED <<pull, opener, ledger, run, missed, cuts, fails, retargets>>
  BY DEF UpdateBranch
<1>2. HeadOf[p] \in Branch
  OBVIOUS
<1>3. /\ ref' \in [Branch -> Nat] /\ \A b \in Branch : ref[b] <= ref'[b]
      /\ \A b \in Branch \ {HeadOf[p]} : ref'[b] = ref[b]
  BY <1>1, <1>2 DEF IInv, TypeOK
<1>4. r \in Pushing /\ r.pc = "next" /\ r.snap = ref' /\ r.pulls = {} /\ r.todo = {HeadOf[p]}
  BY <1>2, <1>3, NewPushFact DEF Pushing, IInv
<1> HIDE DEF r
<1>5. push' \in [Pusher -> {Idle} \cup Pushing] /\ push'[u] = r /\ \A v \in Pusher \ {u} : push'[v] = push[v]
  BY <1>1, <1>4, PushSet
<1>6. TypeOK'
  BY <1>1, <1>3, <1>5 DEF IInv, TypeOK
<1>7. QueueSound' /\ Known'
  BY <1>1, <1>4, <1>5 DEF IInv, QueueSound, Known, Jobs!Live, Rows
<1>8. Snapped'
  <2>1. \A b \in Branch : r.snap[b] <= ref'[b]
    BY <1>3, <1>4
  <2>2. QED
    BY <1>3, <1>5, <2>1, RefMoves
<1>9. ASSUME NEW q \in Rows PROVE Excused(q)' \/ Fresh(q)'
  <2>1. q \in Pull /\ HeadOf[q] \in Branch /\ pull[q].base \in Branch /\ q \in Rows' /\ pull' = pull
    BY <1>1 DEF Rows, IInv, TypeOK, Row
  <2>2. CASE pull[q].merged
    BY <2>1, <2>2 DEF Excused
  <2>3. CASE ~pull[q].merged /\ (HeadOf[q] = HeadOf[p] \/ pull[q].base = HeadOf[p])
    <3>1. q \in Touched(HeadOf[p])'
      BY <2>1, <2>3 DEF Touched, ByHead, ByBase
    <3>2. OwedTo(u, q)'
      BY <1>4, <1>5, <3>1 DEF OwedTo
    <3>3. QED
      BY <3>2 DEF Excused
  <2>4. CASE HeadOf[q] # HeadOf[p] /\ pull[q].base # HeadOf[p]
    <3>1. \A v \in Pusher \ {u} : OwedTo(v, q) => OwedTo(v, q)'
      BY <1>3, <1>5, <2>1, OwedKept DEF IInv
    <3>2. ~OwedTo(u, q)
      BY <1>1 DEF OwedTo, Idle
    <3>3. QED
      BY <1>1, <1>3, <2>1, <2>4, <3>1, <3>2, RestKept
  <2>5. QED
    BY <2>2, <2>3, <2>4
<1>10. Rows' = Rows
  BY <1>1 DEF Rows
<1>11. QED
  BY <1>6, <1>7, <1>8, <1>9, <1>10 DEF IInv, Followed

LEMMA MergeStep == ASSUME IInv, NEW p \in Pull, Merge(p) PROVE IInv'
<1> DEFINE base == pull[p].base
           row == [[pull[p] EXCEPT !.merged = TRUE] EXCEPT !.state = "unknown"]
<1>1. /\ p \in Rows /\ ref' = [ref EXCEPT ![base] = @ + 1] /\ pull' = [pull EXCEPT ![p] = row]
      /\ missed' = [q \in Pull |-> missed[q] \/ q \in Touched(base) \ {p}]
      /\ UNCHANGED <<opener, push, ledger, run, moves, cuts, fails, retargets>>
  BY DEF Merge
<1>2. pull[p] \in Row /\ base \in Branch /\ Rows \subseteq Pull
  BY DEF IInv, TypeOK, Row, Rows
<1>3. row \in Row /\ row.merged /\ row.state = "unknown" /\ row.base = base
  <2>1. [pull[p] EXCEPT !.merged = TRUE] \in Row
    BY <1>2 DEF Row
  <2>2. QED
    BY <1>2, <2>1 DEF Row
<1>4. /\ ref' \in [Branch -> Nat] /\ \A b \in Branch : ref[b] <= ref'[b]
      /\ \A b \in Branch \ {base} : ref'[b] = ref[b]
  BY <1>1, <1>2 DEF IInv, TypeOK
<1>5. pull' \in [Pull -> Row] /\ pull'[p] = row /\ \A q \in Pull \ {p} : pull'[q] = pull[q]
  BY <1>1, <1>3 DEF IInv, TypeOK
<1>6. missed' \in [Pull -> BOOLEAN]
  BY <1>1, Zenon
<1>7. \A q \in Pull : missed'[q] = (missed[q] \/ q \in Touched(base) \ {p})
  BY <1>1, Zenon
<1> HIDE DEF row, base
<1>8. Rows' = Rows
  BY <1>1, <1>2, <1>3, <1>5 DEF Rows
<1>9. TypeOK'
  BY <1>1, <1>4, <1>5, <1>6 DEF IInv, TypeOK
<1>10. QueueSound' /\ Known'
  BY <1>1, <1>8 DEF IInv, QueueSound, Known, Jobs!Live
<1>11. Snapped'
  <2>1. ASSUME NEW u \in Pusher PROVE Snapped'
    <3>1. ASSUME push[u].pc # "idle", NEW b \in Branch PROVE push[u].snap[b] <= ref'[b]
      <4>1. push[u] \in Pushing /\ push[u].snap[b] <= ref[b]
        BY <3>1 DEF IInv, TypeOK, Idle, Snapped
      <4>2. push[u].snap[b] \in Nat /\ ref[b] \in Nat /\ ref'[b] \in Nat /\ ref[b] <= ref'[b]
        BY <1>4, <4>1 DEF Pushing, IInv, TypeOK
      <4>3. QED
        BY <4>1, <4>2
    <3>2. QED
      BY <1>1, <1>4, <3>1, RefMoves
  <2>2. QED
    BY <2>1 DEF Snapped
<1>12. ASSUME NEW q \in Rows \ {p} PROVE Excused(q)' \/ Fresh(q)'
  <2>1. q \in Pull /\ HeadOf[q] \in Branch /\ pull[q].base \in Branch /\ pull'[q] = pull[q]
    BY <1>2, <1>5 DEF IInv, TypeOK, Row
  <2>2. CASE pull[q].merged \/ q \in Touched(base)
    BY <1>7, <2>1, <2>2 DEF Excused
  <2>3. CASE ~pull[q].merged /\ q \notin Touched(base)
    <3>1. HeadOf[q] # base /\ pull[q].base # base
      BY <2>3 DEF Touched, ByHead, ByBase
    <3>2. \A v \in Pusher : OwedTo(v, q) => OwedTo(v, q)'
      BY <1>1, <1>4, <1>8, <2>1, OwedKept DEF IInv
    <3>3. QED
      BY <1>1, <1>4, <1>7, <2>1, <3>1, <3>2, RestKept
  <2>4. QED
    BY <2>2, <2>3
<1>13. Excused(p)'
  BY <1>3, <1>5 DEF Excused
<1>14. QED
  BY <1>8, <1>9, <1>10, <1>11, <1>12, <1>13 DEF IInv, Followed

LEMMA WriteBranchStep == ASSUME IInv, NEW b \in Branch, WriteBranch(b) PROVE IInv'
<1>1. /\ ref' = [ref EXCEPT ![b] = @ + 1] /\ moves < MaxMoves /\ moves' = moves + 1
      /\ missed' = [q \in Pull |-> missed[q] \/ q \in Touched(b)]
      /\ UNCHANGED <<pull, opener, push, ledger, run, cuts, fails, retargets>>
  BY DEF WriteBranch
<1>2. /\ ref' \in [Branch -> Nat] /\ \A c \in Branch : ref[c] <= ref'[c]
      /\ \A c \in Branch \ {b} : ref'[c] = ref[c]
  BY <1>1 DEF IInv, TypeOK
<1>3. missed' \in [Pull -> BOOLEAN]
  BY <1>1, Zenon
<1>4. \A q \in Pull : missed'[q] = (missed[q] \/ q \in Touched(b))
  BY <1>1, Zenon
<1>5. Rows' = Rows /\ Rows \subseteq Pull
  BY <1>1 DEF Rows
<1>6. TypeOK'
  BY <1>1, <1>2, <1>3 DEF IInv, TypeOK
<1>7. QueueSound' /\ Known'
  BY <1>1, <1>5 DEF IInv, QueueSound, Known, Jobs!Live
<1>8. Snapped'
  <2>1. ASSUME NEW u \in Pusher, push[u].pc # "idle", NEW c \in Branch PROVE push[u].snap[c] <= ref'[c]
    <3>1. push[u] \in Pushing /\ push[u].snap[c] <= ref[c]
      BY <2>1 DEF IInv, TypeOK, Idle, Snapped
    <3>2. push[u].snap[c] \in Nat /\ ref[c] \in Nat /\ ref'[c] \in Nat /\ ref[c] <= ref'[c]
      BY <1>2, <3>1 DEF Pushing, IInv, TypeOK
    <3>3. QED
      BY <3>1, <3>2
  <2>2. QED
    BY <1>1, <2>1 DEF Snapped
<1>9. ASSUME NEW q \in Rows PROVE Excused(q)' \/ Fresh(q)'
  <2>1. q \in Pull /\ pull'[q] = pull[q] /\ opener'[q] = opener[q]
    BY <1>1, <1>5
  <2>2. CASE pull[q].merged \/ q \in Touched(b)
    BY <1>4, <2>1, <2>2 DEF Excused
  <2>3. CASE ~pull[q].merged /\ q \notin Touched(b)
    <3>1. HeadOf[q] # b /\ pull[q].base # b
      BY <2>3 DEF Touched, ByHead, ByBase
    <3>2. HeadOf[q] \in Branch /\ pull[q].base \in Branch
      BY <2>1 DEF IInv, TypeOK, Row
    <3>3. \A v \in Pusher : OwedTo(v, q) => OwedTo(v, q)'
      BY <1>1, <1>2, <1>5, <2>1, OwedKept DEF IInv
    <3>4. QED
      BY <1>1, <1>2, <1>4, <2>1, <3>1, <3>2, <3>3, RestKept
  <2>4. QED
    BY <2>2, <2>3
<1>10. QED
  BY <1>5, <1>6, <1>7, <1>8, <1>9 DEF IInv, Followed

LEMMA RetargetStep == ASSUME IInv, NEW p \in Pull, NEW b \in Branch, Retarget(p, b) PROVE IInv'
<1> DEFINE row == [pull[p] EXCEPT !.base = b]
<1>1. /\ p \in Rows /\ pull' = [pull EXCEPT ![p] = row] /\ missed' = [missed EXCEPT ![p] = TRUE]
      /\ retargets < MaxRetargets /\ retargets' = retargets + 1
      /\ UNCHANGED <<ref, opener, push, ledger, run, moves, cuts, fails>>
  BY DEF Retarget
<1>2. pull[p] \in Row /\ Rows \subseteq Pull
  BY DEF IInv, TypeOK, Rows
<1>3. row \in Row /\ row.state = pull[p].state
  BY <1>2 DEF Row
<1> HIDE DEF row
<1>4. /\ pull' \in [Pull -> Row] /\ pull'[p] = row /\ \A q \in Pull \ {p} : pull'[q] = pull[q]
      /\ missed' \in [Pull -> BOOLEAN] /\ missed'[p] /\ \A q \in Pull \ {p} : missed'[q] = missed[q]
  BY <1>1, <1>3 DEF IInv, TypeOK
<1>5. Rows' = Rows
  BY <1>1, <1>2, <1>3, <1>4 DEF Rows
<1>6. TypeOK'
  BY <1>1, <1>4 DEF IInv, TypeOK
<1>7. QueueSound' /\ Known' /\ Snapped'
  BY <1>1, <1>5 DEF IInv, QueueSound, Known, Snapped, Jobs!Live
<1>8. ASSUME NEW q \in Rows \ {p} PROVE Excused(q)' \/ Fresh(q)'
  <2>1. q \in Pull /\ pull'[q] = pull[q]
    BY <1>2, <1>4
  <2>2. ref' \in [Branch -> Nat] /\ \A c \in Branch : ref[c] <= ref'[c]
    BY <1>1 DEF IInv, TypeOK
  <2>3. \A v \in Pusher : OwedTo(v, q) => OwedTo(v, q)'
    BY <1>1, <1>5, <2>1, <2>2, OwedKept DEF IInv
  <2>4. QED
    BY <1>1, <1>4, <2>1, <2>3, RestKept
<1>9. QED
  BY <1>4, <1>5, <1>6, <1>7, <1>8 DEF IInv, Followed, Excused

-----------------------------------------------------------------------------
(* A sync that writes and enqueues. *)

LEMMA SyncHeadStep == ASSUME IInv, NEW u \in Pusher, NEW p \in Pull, SyncHead(u, p) PROVE IInv'
<1> DEFINE sha == <<push[u].branch, push[u].snap[push[u].branch]>>
           row == [[pull[p] EXCEPT !.head = sha] EXCEPT !.state = "unknown"]
           r == [[[push[u] EXCEPT !.pc = "enqueue"] EXCEPT !.pull = p] EXCEPT !.pulls = push[u].pulls \ {p}]
<1>1. /\ push[u].pc = "heads" /\ p \in push[u].pulls
      /\ pull' = [pull EXCEPT ![p] = row] /\ push' = [push EXCEPT ![u] = r]
      /\ UNCHANGED <<ref, opener, ledger, run, missed, moves, cuts, fails, retargets>>
  BY DEF SyncHead, SyncedRow
<1>2. push[u] \in Pushing /\ push[u].pulls \subseteq Rows /\ Rows \subseteq Pull
  BY <1>1, Under
<1>3. sha \in Sha /\ pull[p] \in Row
  BY <1>2 DEF Pushing, Sha, IInv, TypeOK
<1> HIDE DEF sha
<1>4. row \in Row /\ row.state = "unknown" /\ row.base = pull[p].base /\ row.merged = pull[p].merged
  <2>1. [pull[p] EXCEPT !.head = sha] \in Row
    BY <1>3 DEF Row
  <2>2. QED
    BY <1>3, <2>1 DEF Row
<1>5. /\ r \in Pushing /\ r.pc = "enqueue" /\ r.pull = p /\ r.snap = push[u].snap
      /\ r.pulls = push[u].pulls \ {p} /\ r.todo = push[u].todo /\ r.branch = push[u].branch
  BY <1>2 DEF Pushing
<1> HIDE DEF row, r
<1>6. push' \in [Pusher -> {Idle} \cup Pushing] /\ push'[u] = r /\ \A v \in Pusher \ {u} : push'[v] = push[v]
  BY <1>1, <1>5, PushSet
<1>7. /\ pull' \in [Pull -> Row] /\ pull'[p].state = "unknown"
      /\ \A q \in Pull \ {p} : pull'[q] = pull[q]
      /\ \A q \in Pull : pull'[q].base = pull[q].base /\ pull'[q].merged = pull[q].merged
  BY <1>1, <1>4 DEF IInv, TypeOK
<1>8. Rows' = Rows
  BY <1>1, <1>2, <1>7 DEF Rows
<1>9. TypeOK'
  BY <1>1, <1>6, <1>7 DEF IInv, TypeOK
<1>10. QueueSound' /\ Known' /\ Snapped'
  BY <1>1, <1>2, <1>5, <1>6, <1>8 DEF IInv, QueueSound, Known, Snapped, Jobs!Live
<1>11. ASSUME NEW q \in Rows \ {p} PROVE Excused(q)' \/ Fresh(q)'
  <2>1. q \in Pull /\ pull'[q] = pull[q] /\ q \in Rows'
    BY <1>2, <1>7, <1>8
  <2>2. ref' \in [Branch -> Nat] /\ \A b \in Branch : ref[b] <= ref'[b]
    BY <1>1 DEF IInv, TypeOK
  <2>3. \A v \in Pusher \ {u} : OwedTo(v, q) => OwedTo(v, q)'
    BY <1>6, <2>1, <2>2, OwedKept DEF IInv
  <2>4. ASSUME OwedTo(u, q) PROVE OwedTo(u, q)'
    <3>1. \A b : /\ q \in ByBase(b) => q \in ByBase(b)'
                 /\ q \in Touched(b) => q \in Touched(b)'
      BY <2>1 DEF Touched, ByHead, ByBase
    <3>2. QED
      BY <1>1, <1>5, <1>6, <2>4, <3>1 DEF OwedTo
  <2>5. QED
    BY <1>1, <2>1, <2>3, <2>4, RestKept
<1>12. Excused(p)'
  BY <1>5, <1>6 DEF Excused, OwedTo
<1>13. QED
  BY <1>8, <1>9, <1>10, <1>11, <1>12 DEF IInv, Followed

\* An enqueue of a pusher, whose request goes on with every other debt.
LEMMA PushEnqueue ==
    ASSUME IInv, NEW u \in Pusher, NEW p \in Rows, Enqueue(p),
           NEW r \in Pushing, push' = [push EXCEPT ![u] = r],
           r.pulls \subseteq Rows, r.pc # "enqueue", push[u].pc # "idle", r.snap = push[u].snap,
           UNCHANGED <<ref, pull, opener, run, moves, cuts, fails, retargets>>,
           \A q \in Rows \ {p} : OwedTo(u, q) => OwedTo(u, q)'
    PROVE  IInv'
<1>1. push' \in [Pusher -> {Idle} \cup Pushing] /\ push'[u] = r /\ \A v \in Pusher \ {u} : push'[v] = push[v]
  BY PushSet
<1>2. /\ ledger' \in [Slot -> JobRow] /\ missed' \in [Pull -> BOOLEAN] /\ QueueSound'
      /\ \A s \in Slot : Jobs!Live(s)' => ledger'[s].key \in Rows
      /\ \A q \in Pull \ {p} : missed'[q] = missed[q]
  BY EnqueueLedger
<1>3. Rows' = Rows /\ Rows \subseteq Pull
  BY DEF Rows
<1>4. TypeOK'
  BY <1>1, <1>2 DEF IInv, TypeOK, JobRow
<1>5. Known' /\ Snapped'
  BY <1>1, <1>2, <1>3 DEF IInv, Known, Snapped
<1>6. ASSUME NEW q \in Rows \ {p}, Excused(q) PROVE Excused(q)'
  <2>1. \A v \in Pusher \ {u} : OwedTo(v, q) => OwedTo(v, q)'
    BY <1>1, <1>3 DEF OwedTo, ByHead, ByBase, Touched
  <2>2. QED
    BY <1>2, <1>3, <1>6, <2>1 DEF Excused
<1>7. QED
  BY <1>2, <1>4, <1>5, <1>6, EnqueueFollowed DEF IInv

LEMMA SyncEnqueueStep == ASSUME IInv, NEW u \in Pusher, SyncEnqueue(u) PROVE IInv'
<1> DEFINE r == [push[u] EXCEPT !.pc = "heads"]
<1>1. /\ push[u].pc = "enqueue" /\ Enqueue(push[u].pull) /\ push' = [push EXCEPT ![u] = r]
      /\ UNCHANGED <<ref, pull, opener, run, moves, cuts, fails, retargets>>
  BY DEF SyncEnqueue
<1>2. push[u] \in Pushing /\ push[u].pulls \subseteq Rows /\ push[u].pull \in Rows
  BY <1>1, Under
<1>3. /\ r \in Pushing /\ r.pc = "heads" /\ r.snap = push[u].snap /\ r.pulls = push[u].pulls
      /\ r.todo = push[u].todo /\ r.branch = push[u].branch
  BY <1>2 DEF Pushing
<1> HIDE DEF r
<1>4. push'[u] = r
  BY <1>1, <1>3, PushSet
<1>5. \A q \in Rows \ {push[u].pull} : OwedTo(u, q) => OwedTo(u, q)'
  BY <1>1, <1>3, <1>4 DEF OwedTo, ByHead, ByBase, Touched, Rows
<1>6. QED
  BY <1>1, <1>2, <1>3, <1>5, PushEnqueue

LEMMA SyncBaseStep == ASSUME IInv, NEW u \in Pusher, NEW p \in Pull, SyncBase(u, p) PROVE IInv'
<1> DEFINE r == [push[u] EXCEPT !.pulls = push[u].pulls \ {p}]
<1>1. /\ push[u].pc = "bases" /\ p \in push[u].pulls /\ Enqueue(p) /\ push' = [push EXCEPT ![u] = r]
      /\ UNCHANGED <<ref, pull, opener, run, moves, cuts, fails, retargets>>
  BY DEF SyncBase
<1>2. push[u] \in Pushing /\ push[u].pulls \subseteq Rows
  BY <1>1, Under
<1>3. /\ r \in Pushing /\ r.pc = "bases" /\ r.snap = push[u].snap /\ r.pulls = push[u].pulls \ {p}
      /\ r.todo = push[u].todo /\ r.branch = push[u].branch
  BY <1>1, <1>2 DEF Pushing
<1> HIDE DEF r
<1>4. push'[u] = r
  BY <1>1, <1>3, PushSet
<1>5. \A q \in Rows \ {p} : OwedTo(u, q) => OwedTo(u, q)'
  BY <1>1, <1>3, <1>4 DEF OwedTo, ByHead, ByBase, Touched, Rows
<1>6. QED
  BY <1>1, <1>2, <1>3, <1>5, PushEnqueue

-----------------------------------------------------------------------------
(* Recomputes. *)

\* A step of the job at s moves that job and the row of its pull request alone.
LEMMA SlotInv ==
    ASSUME IInv, NEW s \in Slot, Jobs!Live(s), NEW p, ledger[s].key = p,
           NEW j \in JobRow, ledger' = [ledger EXCEPT ![s] = j],
           NEW h \in {Idle} \cup Running, run' = [run EXCEPT ![s] = h],
           j.state = "running" <=> h.pc # "idle", h.pc # "idle" => h.pull = p,
           j.state \in {"queued", "running"} => j.key = p,
           pull' \in [Pull -> Row], \A q \in Pull \ {p} : pull'[q] = pull[q],
           pull'[p].state # "none", pull'[p].merged = pull[p].merged, pull'[p].base = pull[p].base,
           missed' \in [Pull -> BOOLEAN], \A q \in Pull \ {p} : missed'[q] = missed[q],
           UNCHANGED <<ref, opener, push, moves, cuts, retargets>>, fails' \in 0..MaxFails,
           \/ missed'[p]
           \/ Excused(p) /\ missed'[p] = missed[p]
           \/ /\ j.state \in {"queued", "running"} => UpToDate(s, p)'
              /\ j.state \in {"none", "dead"} => Current(p)'
    PROVE  IInv'
<1>1. p \in Rows /\ Rows \subseteq Pull
  BY DEF IInv, Known, Rows
<1>2. Rows' = Rows
  BY <1>1 DEF Rows
<1>3. /\ ledger' \in [Slot -> JobRow] /\ ledger'[s] = j /\ \A t \in Slot \ {s} : ledger'[t] = ledger[t]
      /\ run' \in [Slot -> {Idle} \cup Running] /\ run'[s] = h /\ \A t \in Slot \ {s} : run'[t] = run[t]
  BY DEF IInv, TypeOK, JobRow
<1>4. TypeOK'
  BY <1>3 DEF IInv, TypeOK, JobRow
<1>5. QueueSound'
  <2>1. ASSUME NEW t \in Slot
        PROVE /\ ledger'[t].state = "running" <=> run'[t].pc # "idle"
              /\ run'[t].pc # "idle" => run'[t].pull = ledger'[t].key
    BY <1>3 DEF IInv, QueueSound
  <2>2. \A t, i \in Slot :
           Jobs!Live(t)' /\ Jobs!Live(i)' /\ ledger'[t].key = ledger'[i].key => t = i
    <3>1. \A t \in Slot : Jobs!Live(t)' => Jobs!Live(t) /\ ledger'[t].key = ledger[t].key
      BY <1>3 DEF Jobs!Live
    <3>2. QED
      BY <3>1 DEF IInv, QueueSound
  <2>3. QED
    BY <2>1, <2>2 DEF QueueSound
<1>6. Known' /\ Snapped'
  BY <1>1, <1>2, <1>3 DEF IInv, Known, Snapped, Jobs!Live
<1>7. \A q \in Rows : \A u \in Pusher : OwedTo(u, q) => OwedTo(u, q)'
  <2>1. ref' \in [Branch -> Nat] /\ \A b \in Branch : ref[b] <= ref'[b]
    BY DEF IInv, TypeOK
  <2>2. \A q \in Rows : q \in Rows' /\ pull'[q].base = pull[q].base /\ pull'[q].merged = pull[q].merged
    BY <1>1, <1>2
  <2>3. QED
    BY <2>1, <2>2, OwedKept DEF IInv
<1>8. ASSUME NEW q \in Rows \ {p} PROVE Excused(q)' \/ Fresh(q)'
  <2>1. Active(q)' = Active(q) /\ s \notin Active(q)
    BY <1>3, <1>8 DEF Active, Jobs!Live
  <2>2. \A t \in Active(q) : run'[t] = run[t]
    BY <1>3, <2>1 DEF Active
  <2>3. Fresh(q) => Fresh(q)'
    BY <1>1, <2>1, <2>2, FreshKept
  <2>4. Excused(q) => Excused(q)'
    BY <1>1, <1>7 DEF Excused
  <2>5. QED
    BY <2>3, <2>4 DEF IInv, Followed
<1>9. Excused(p)' \/ Fresh(p)'
  <2>1. Active(p)' = IF j.state \in {"queued", "running"} THEN {s} ELSE {}
    <3>1. \A t \in Slot \ {s} : ~(Jobs!Live(t) /\ ledger[t].key = p)
      BY DEF IInv, QueueSound
    <3>2. \A t \in Slot \ {s} : t \notin Active(p)'
      BY <1>3, <3>1 DEF Active, Jobs!Live
    <3>3. s \in Active(p)' <=> j.state \in {"queued", "running"}
      BY <1>3 DEF Active, Jobs!Live
    <3>4. Active(p)' \subseteq Slot
      BY DEF Active
    <3>5. QED
      BY <3>2, <3>3, <3>4
  <2>2. Excused(p) /\ missed'[p] = missed[p] => Excused(p)'
    BY <1>1, <1>7 DEF Excused
  <2>3. j.state \in {"none", "dead", "queued", "running"}
    BY DEF JobRow
  <2>4. QED
    BY <2>1, <2>2, <2>3 DEF Fresh, Excused
<1>10. QED
  BY <1>2, <1>4, <1>5, <1>6, <1>8, <1>9 DEF IInv, Followed

\* The handler of a running job and the job itself.
LEMMA Handling ==
    ASSUME IInv, NEW s \in Slot, run[s].pc # "idle"
    PROVE  /\ run[s] \in Running /\ ledger[s] \in JobRow
           /\ ledger[s].state = "running" /\ Jobs!Live(s) /\ run[s].pull = ledger[s].key
           /\ run[s].pull \in Rows /\ run[s].pull \in Pull /\ pull[run[s].pull] \in Row
           /\ s \in Active(run[s].pull)
           /\ Excused(run[s].pull) \/ UpToDate(s, run[s].pull)
<1>1. run[s] \in Running /\ ledger[s] \in JobRow
  BY DEF IInv, TypeOK, Idle, JobRow
<1>2. ledger[s].state = "running" /\ run[s].pull = ledger[s].key
  BY DEF IInv, QueueSound
<1>3. Jobs!Live(s)
  BY <1>2 DEF Jobs!Live
<1>4. run[s].pull \in Rows
  BY <1>2, <1>3 DEF IInv, Known
<1>5. s \in Active(run[s].pull)
  BY <1>2, <1>3 DEF Active
<1>6. run[s].pull \in Pull /\ pull[run[s].pull] \in Row
  BY <1>4 DEF Rows, IInv, TypeOK
<1>7. Excused(run[s].pull) \/ UpToDate(s, run[s].pull)
  BY <1>4, <1>5 DEF IInv, Followed, Fresh
<1>8. QED
  BY <1>1, <1>2, <1>3, <1>4, <1>5, <1>6, <1>7

LEMMA StartStep == ASSUME IInv, NEW s \in Slot, Start(s) PROVE IInv'
<1>0. PICK p : p = ledger[s].key
  OBVIOUS
<1> DEFINE h == [pc |-> "load", pull |-> p, baseRef |-> pull[p].base,
                 base |-> Tip(pull[p].base), head |-> Tip(HeadOf[p])]
           j == [[ledger[s] EXCEPT !.state = "running"] EXCEPT !.attempts = ledger[s].attempts + 1]
<1>1. /\ ledger[s].state = "queued" /\ ledger[s].attempts < MaxAttempts
      /\ ledger' = [ledger EXCEPT ![s] = j] /\ run' = [run EXCEPT ![s] = h]
      /\ UNCHANGED <<ref, pull, opener, push, missed, moves, cuts, fails, retargets>>
  BY <1>0 DEF Start, Jobs!Start
<1>2. Jobs!Live(s) /\ ledger[s] \in JobRow
  BY <1>1 DEF Jobs!Live, IInv, TypeOK, JobRow
<1>3. p \in Rows /\ p \in Pull /\ pull[p] \in Row
  BY <1>0, <1>2 DEF IInv, Known, Rows, TypeOK
<1>4. Tip(pull[p].base) \in Sha /\ Tip(HeadOf[p]) \in Sha /\ pull[p].base \in Branch
  BY <1>3 DEF Tip, Sha, Row, IInv, TypeOK
<1>5. h \in Running /\ h.pc = "load" /\ h.pull = p
  BY <1>3, <1>4 DEF Running
<1>6. j \in JobRow /\ j.state = "running" /\ j.key = p
  <2>1. ledger[s].attempts + 1 \in 0..MaxAttempts
    BY <1>1, <1>2 DEF JobRow
  <2>2. [ledger[s] EXCEPT !.state = "running"] \in JobRow
    BY <1>2 DEF JobRow
  <2>3. QED
    BY <1>0, <1>2, <2>1, <2>2 DEF JobRow
<1> HIDE DEF h, j
<1>7. run'[s] = h
  BY <1>1 DEF IInv, TypeOK
<1>8. UpToDate(s, p)'
  BY <1>5, <1>7 DEF UpToDate
<1>9. /\ pull' \in [Pull -> Row] /\ missed' \in [Pull -> BOOLEAN] /\ fails' \in 0..MaxFails
      /\ pull'[p].state # "none"
  BY <1>1, <1>3 DEF IInv, TypeOK, Rows
<1>10. ledger[s].key = p
  BY <1>0
<1>11. QED
  BY <1>1, <1>2, <1>5, <1>6, <1>8, <1>9, <1>10, SlotInv

\* A handler goes on, its job untouched.
LEMMA HandlerInv ==
    ASSUME IInv, NEW s \in Slot, run[s].pc # "idle", NEW p, run[s].pull = p,
           NEW h \in Running, run' = [run EXCEPT ![s] = h], h.pull = p,
           UNCHANGED <<ref, opener, push, ledger, missed, moves, cuts, fails, retargets>>,
           pull' \in [Pull -> Row], \A q \in Pull \ {p} : pull'[q] = pull[q],
           pull'[p].state # "none",
           pull'[p].merged = pull[p].merged,
           pull'[p].base = pull[p].base,
           Excused(p) \/ UpToDate(s, p)'
    PROVE  IInv'
<1>1. /\ ledger[s] \in JobRow /\ ledger[s].state = "running" /\ Jobs!Live(s)
      /\ ledger[s].key = p
  BY Handling
<1>2. ledger' = [ledger EXCEPT ![s] = ledger[s]]
  BY DEF IInv, TypeOK
<1>3. h.pc # "idle" /\ h \in {Idle} \cup Running
  BY DEF Running
<1>4. missed' \in [Pull -> BOOLEAN] /\ fails' \in 0..MaxFails
  BY DEF IInv, TypeOK
<1>5. QED
  BY <1>1, <1>2, <1>3, <1>4, SlotInv

LEMMA ReadStep == ASSUME IInv, NEW s \in Slot, Read(s) PROVE IInv'
<1>0. PICK p : p = run[s].pull
  OBVIOUS
<1>1. /\ run[s].pc \in {"load", "base", "head"}
      /\ UNCHANGED <<ref, pull, opener, push, ledger, missed, moves, cuts, fails, retargets>>
  BY DEF Read
<1>2. /\ run[s] \in Running /\ p \in Pull /\ pull[p] \in Row /\ pull[p].state # "none"
      /\ Excused(p) \/ UpToDate(s, p)
  BY <1>0, <1>1, Handling DEF Rows
<1>3. /\ pull' \in [Pull -> Row] /\ pull' = pull /\ run \in [Slot -> {Idle} \cup Running]
      /\ HeadOf[p] \in Branch /\ pull[p].base \in Branch /\ \A b \in Branch : Tip(b) \in Sha
  BY <1>1, <1>2 DEF IInv, TypeOK, Row, Tip, Sha
<1>4. CASE /\ run[s].pc = "load"
           /\ run' = [run EXCEPT ![s].pc = IF pull[p].merged THEN "done" ELSE "base",
                                 ![s].baseRef = pull[p].base]
  <2> DEFINE h == [[run[s] EXCEPT !.pc = IF pull[p].merged THEN "done" ELSE "base"]
                     EXCEPT !.baseRef = pull[p].base]
  <2>1. run' = [run EXCEPT ![s] = h]
    BY <1>4
  <2>2. h \in Running /\ h.pull = p /\ h.pc = (IF pull[p].merged THEN "done" ELSE "base")
        /\ h.baseRef = pull[p].base
    BY <1>0, <1>2, <1>3 DEF Running
  <2> HIDE DEF h
  <2>3. run'[s] = h
    BY <1>3, <2>1
  <2>4. Excused(p) \/ UpToDate(s, p)'
    <3>1. CASE pull[p].merged
      BY <3>1 DEF Excused
    <3>2. CASE ~pull[p].merged
      BY <1>3, <2>2, <2>3, <3>2 DEF UpToDate
    <3>3. QED
      BY <3>1, <3>2
  <2>5. QED
    BY <1>0, <1>1, <1>2, <1>3, <2>1, <2>2, <2>4, HandlerInv
<1>5. CASE run[s].pc = "base" /\ run' = [run EXCEPT ![s].pc = "head", ![s].base = Tip(run[s].baseRef)]
  <2> DEFINE h == [[run[s] EXCEPT !.pc = "head"] EXCEPT !.base = Tip(run[s].baseRef)]
  <2>1. run' = [run EXCEPT ![s] = h]
    BY <1>5
  <2>2. run[s].baseRef \in Branch
    BY <1>2 DEF Running
  <2>3. h \in Running /\ h.pull = p /\ h.pc = "head" /\ h.baseRef = run[s].baseRef
        /\ h.base = Tip(run[s].baseRef)
    BY <1>0, <1>2, <1>3, <2>2 DEF Running
  <2> HIDE DEF h
  <2>4. run'[s] = h
    BY <1>3, <2>1
  <2>5. UpToDate(s, p) => UpToDate(s, p)'
    BY <1>1, <1>3, <1>5, <2>3, <2>4 DEF UpToDate, Tip
  <2>6. QED
    BY <1>0, <1>1, <1>2, <1>3, <2>1, <2>3, <2>5, HandlerInv
<1>6. CASE run[s].pc = "head" /\ run' = [run EXCEPT ![s].pc = "store", ![s].head = HeadTip(p)]
  <2> DEFINE h == [[run[s] EXCEPT !.pc = "store"] EXCEPT !.head = Tip(HeadOf[p])]
  <2>1. run' = [run EXCEPT ![s] = h]
    BY <1>6 DEF HeadTip
  <2>2. h \in Running /\ h.pull = p /\ h.pc = "store" /\ h.baseRef = run[s].baseRef
        /\ h.base = run[s].base /\ h.head = Tip(HeadOf[p])
    BY <1>0, <1>2, <1>3 DEF Running
  <2> HIDE DEF h
  <2>3. run'[s] = h
    BY <1>3, <2>1
  <2>4. UpToDate(s, p) => UpToDate(s, p)'
    BY <1>1, <1>3, <1>6, <2>2, <2>3 DEF UpToDate, Tip
  <2>5. QED
    BY <1>0, <1>1, <1>2, <1>3, <2>1, <2>2, <2>4, HandlerInv
<1>7. QED
  BY <1>0, <1>4, <1>5, <1>6 DEF Read

LEMMA StoreStep == ASSUME IInv, NEW s \in Slot, Store(s) PROVE IInv'
<1>0. PICK p : p = run[s].pull
  OBVIOUS
<1> DEFINE row == [[pull[p] EXCEPT !.state = "known"] EXCEPT !.basis = <<run[s].base, run[s].head>>]
           h == [run[s] EXCEPT !.pc = "done"]
<1>1. /\ run[s].pc = "store" /\ pull' = [pull EXCEPT ![p] = row] /\ run' = [run EXCEPT ![s] = h]
      /\ UNCHANGED <<ref, opener, push, ledger, missed, moves, cuts, fails, retargets>>
  BY <1>0 DEF Store
<1>2. /\ run[s] \in Running /\ p \in Pull /\ pull[p] \in Row
      /\ Excused(p) \/ UpToDate(s, p)
  BY <1>0, <1>1, Handling
<1>3. /\ row \in Row /\ row.state = "known" /\ row.basis = <<run[s].base, run[s].head>>
      /\ row.merged = pull[p].merged /\ row.base = pull[p].base
  <2>1. [pull[p] EXCEPT !.state = "known"] \in Row
    BY <1>2 DEF Row
  <2>2. <<run[s].base, run[s].head>> \in Sha \X Sha
    BY <1>2 DEF Running
  <2>3. QED
    BY <1>2, <2>1, <2>2 DEF Row
<1>4. h \in Running /\ h.pull = p /\ h.pc = "done"
  BY <1>0, <1>2 DEF Running
<1> HIDE DEF row, h
<1>5. /\ pull' \in [Pull -> Row] /\ pull'[p] = row /\ \A q \in Pull \ {p} : pull'[q] = pull[q]
      /\ run'[s] = h
  BY <1>1, <1>2, <1>3 DEF IInv, TypeOK
<1>6. UpToDate(s, p) => UpToDate(s, p)'
  <2>1. ASSUME UpToDate(s, p) PROVE Current(p)'
    <3>1. run[s].base = Tip(pull[p].base) /\ run[s].head = Tip(HeadOf[p])
      BY <1>1, <2>1 DEF UpToDate
    <3>2. /\ pull'[p].state = "known" /\ pull'[p].base = pull[p].base
          /\ pull'[p].basis = <<Tip(pull[p].base), Tip(HeadOf[p])>>
      BY <1>3, <1>5, <3>1
    <3>3. QED
      BY <1>1, <3>2 DEF Current, Tip
  <2>2. QED
    BY <1>4, <1>5, <2>1 DEF UpToDate
<1>7. QED
  BY <1>0, <1>1, <1>2, <1>3, <1>4, <1>5, <1>6, HandlerInv

LEMMA DoneStep == ASSUME IInv, NEW s \in Slot, Done(s) PROVE IInv'
<1>0. PICK p : p = run[s].pull
  OBVIOUS
<1>1. /\ run[s].pc = "done" /\ ledger' = [ledger EXCEPT ![s] = Jobs!Free] /\ run' = [run EXCEPT ![s] = Idle]
      /\ UNCHANGED <<ref, pull, opener, push, missed, moves, cuts, fails, retargets>>
  BY DEF Done, Jobs!Finish
<1>2. /\ Jobs!Live(s) /\ ledger[s].key = p /\ p \in Pull /\ pull[p].state # "none"
      /\ Excused(p) \/ UpToDate(s, p)
  BY <1>0, <1>1, Handling DEF Rows
<1>3. Jobs!Free \in JobRow /\ Jobs!Free.state = "none" /\ Idle.pc = "idle"
  BY DEF Jobs!Free, JobRow, Idle
<1>4. pull' \in [Pull -> Row] /\ pull' = pull /\ missed' \in [Pull -> BOOLEAN] /\ fails' \in 0..MaxFails
  BY <1>1 DEF IInv, TypeOK
<1>5. UpToDate(s, p) => Current(p)'
  BY <1>1 DEF UpToDate, Current, Tip
<1>6. QED
  BY <1>0, <1>1, <1>2, <1>3, <1>4, <1>5, SlotInv

LEMMA FailStep == ASSUME IInv, NEW s \in Slot, Fail(s) PROVE IInv'
<1>0. PICK p : p = run[s].pull
  OBVIOUS
<1>1. /\ run[s].pc # "idle" /\ fails < MaxFails /\ fails' = fails + 1 /\ run' = [run EXCEPT ![s] = Idle]
      /\ UNCHANGED <<ref, pull, opener, push, moves, cuts, retargets>>
  BY DEF Fail
<1>2. /\ Jobs!Live(s) /\ ledger[s].key = p /\ p \in Pull /\ pull[p].state # "none"
      /\ ledger[s] \in JobRow
  BY <1>0, <1>1, Handling DEF Rows
<1>3. /\ pull' \in [Pull -> Row] /\ pull' = pull /\ fails' \in 0..MaxFails
      /\ missed \in [Pull -> BOOLEAN] /\ run'[s] = Idle /\ Idle.pc = "idle"
  BY <1>1 DEF IInv, TypeOK, Idle
<1>4. CASE Jobs!Retry(s) /\ missed' = [missed EXCEPT ![p] = FALSE]
  <2> DEFINE j == [ledger[s] EXCEPT !.state = "queued"]
  <2>1. ledger' = [ledger EXCEPT ![s] = j]
    BY <1>4 DEF Jobs!Retry
  <2>2. j \in JobRow /\ j.state = "queued" /\ j.key = p
    BY <1>2 DEF JobRow
  <2> HIDE DEF j
  <2>3. UpToDate(s, p)'
    BY <1>3 DEF UpToDate
  <2>4. missed' \in [Pull -> BOOLEAN] /\ \A q \in Pull \ {p} : missed'[q] = missed[q]
    BY <1>3, <1>4
  <2>5. QED
    BY <1>1, <1>2, <1>3, <2>1, <2>2, <2>3, <2>4, SlotInv
<1>5. CASE Jobs!Park(s) /\ missed' = [missed EXCEPT ![p] = TRUE]
  <2> DEFINE j == [ledger[s] EXCEPT !.state = "dead"]
  <2>1. ledger' = [ledger EXCEPT ![s] = j]
    BY <1>5 DEF Jobs!Park
  <2>2. j \in JobRow /\ j.state = "dead" /\ j.key = p
    BY <1>2 DEF JobRow
  <2> HIDE DEF j
  <2>3. missed' \in [Pull -> BOOLEAN] /\ missed'[p] /\ \A q \in Pull \ {p} : missed'[q] = missed[q]
    BY <1>2, <1>3, <1>5
  <2>4. QED
    BY <1>1, <1>2, <1>3, <2>1, <2>2, <2>3, SlotInv
<1>6. QED
  BY <1>0, <1>4, <1>5 DEF Fail

-----------------------------------------------------------------------------
LEMMA NextStep == ASSUME IInv, [Next]_vars PROVE IInv'
<1>1. CASE UNCHANGED vars
  BY <1>1 DEF vars, IInv, TypeOK, QueueSound, Known, Snapped, Followed, Excused, OwedTo, ByHead, ByBase,
     Touched, Rows, Fresh, Active, Jobs!Live, Current, UpToDate, Tip
<1>2. ASSUME NEW p \in Pull, OpenRead(p) \/ OpenStep(p) \/ CutOpen(p) \/ Merge(p) PROVE IInv'
  BY <1>2, OpenReadStep, OpenInsertStep, OpenEnqueueStep, CutOpenStep, MergeStep DEF OpenStep
<1>3. ASSUME NEW p \in Pull, NEW b \in Branch, Retarget(p, b) PROVE IInv'
  BY <1>3, RetargetStep
<1>9. ASSUME NEW b \in Branch, WriteBranch(b) PROVE IInv'
  BY <1>9, WriteBranchStep
<1>4. ASSUME NEW u \in Pusher, PushBegin(u) \/ PushStep(u) PROVE IInv'
  BY <1>4, PushBeginStep, PushWriteStep, PushRejectedStep, PushDiffStep, SyncBranchStep, SyncHeadStep,
     SyncBaseStep, SyncEnqueueStep, SyncListBasesStep, SyncNextStep, PushDoneStep DEF PushStep
<1>5. ASSUME NEW u \in Pusher, Cut(u) \/ SyncFails(u) \/ EnqueueFails(u) PROVE IInv'
  BY <1>5, CutStep, SyncFailsStep, EnqueueFailsStep
<1>6. ASSUME NEW u \in Pusher, NEW p \in Pull, UpdateBranch(u, p) PROVE IInv'
  BY <1>6, UpdateBranchStep
<1>7. ASSUME NEW s \in Slot, RunStep(s) \/ Fail(s) PROVE IInv'
  BY <1>7, StartStep, ReadStep, StoreStep, DoneStep, FailStep DEF RunStep
<1>8. QED
  BY <1>1, <1>2, <1>3, <1>4, <1>5, <1>6, <1>7, <1>9 DEF Next

\* The strengthened invariant holds in every state of every pull request,
\* pusher and recompute.
THEOREM Followers == Spec => []IInv
BY Initially, NextStep, PTL DEF Spec

\* The pull request tables, the requests under way and the recompute jobs only
\* take the values their types allow, for any number of each.
THEOREM TypeCorrect == Spec => []TypeOK
<1>1. IInv => TypeOK
  BY DEF IInv
<1>2. QED
  BY <1>1, Followers, PTL

\* A merge state is out of date only while OnHeadPush or a recompute of
\* RecomputeMergeability that is on its way will see to it, or for the causes
\* NothingElseGoesStale names (a fold into a running job, a request cut short, a
\* branch moved or a base changed with no OnHeadPush, a parked job), whoever writes
\* the branches and for any pull requests, branches, pushes and failures.
THEOREM StaleOnlyForCause == Spec => []NothingElseGoesStale
<1>1. ASSUME IInv PROVE NothingElseGoesStale
  <2>1. SUFFICES ASSUME NEW p \in Rows, ~pull[p].merged, ~missed[p], opener[p].pc # "enqueue",
                        \A u \in Pusher : p \notin Owed(u)
                 PROVE  Current(p) \/ Queued(p) \/ Rereading(p)
    BY DEF NothingElseGoesStale
  <2>2. Fresh(p)
    BY <1>1, <2>1, OwedMeans DEF IInv, Followed, Excused
  <2>3. CASE Active(p) = {}
    BY <2>2, <2>3 DEF Fresh
  <2>4. ASSUME NEW s \in Active(p) PROVE Current(p) \/ Queued(p) \/ Rereading(p)
    <3>1. s \in Slot /\ ledger[s].state \in {"queued", "running"} /\ UpToDate(s, p)
      BY <2>2 DEF Active, Jobs!Live, Fresh
    <3>2. CASE ledger[s].state = "queued"
      BY <2>4, <3>2 DEF Queued
    <3>3. CASE ledger[s].state = "running"
      <4>1. run[s] \in Running
        BY <1>1, <3>1, <3>3 DEF IInv, QueueSound, TypeOK, Idle
      <4>2. run[s].pc \in {"load", "base", "head", "store", "done"}
        BY <4>1 DEF Running
      <4>3. QED
        BY <2>4, <3>1, <4>2 DEF UpToDate, Rereading
    <3>4. QED
      BY <3>1, <3>2, <3>3
  <2>5. QED
    BY <2>3, <2>4
<1>2. QED
  BY <1>1, Followers, PTL
=============================================================================
