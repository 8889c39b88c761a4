--------------------------- MODULE GitStoreProofs ---------------------------
(***************************************************************************)
(* What is proved of a branch's history, of the lookup of objects, and of the*)
(* two together.                                                           *)
(***************************************************************************)
EXTENDS MCGitStore, TLAPS

-----------------------------------------------------------------------------
(* What a branch has named stays in its history.                           *)
(*                                                                         *)
(* LandedStays is not inductive: it needs that histories are closed under  *)
(* history, that a commit about to be set has its parent's, and that a     *)
(* swap without force goes to a commit whose history has the old one's.    *)

\* A commit is in its own history, which is of commits made, closed, and but for
\* the commit itself of commits the branch has named.
Histories ==
    /\ past[0] = {}
    /\ \A c \in 1..made : c \in past[c] /\ past[c] \ {c} \subseteq landed
    /\ \A c \in 0..made : past[c] \subseteq 1..made
    /\ \A c \in 0..made : \A d \in past[c] : past[d] \subseteq past[c]
    /\ tip # 0 => tip \in landed

\* What is about to be set, or swapped in, is made; it is built on its parent, or on
\* the old value unless forced.
SetPending(w) ==
    writer[w].pc = "set" =>
        /\ writer[w].commit \in 1..made
        /\ parent[writer[w].commit] \in 0..made
        /\ past[parent[writer[w].commit]] \subseteq past[writer[w].commit]

SwapPending(m) ==
    mover[m] # Still =>
        /\ mover[m].old \in 0..made /\ mover[m].new \in 0..made
        /\ mover[m].pc = "ancestor" => ~mover[m].force /\ mover[m].old # 0
        /\ mover[m].pc = "swap" /\ ~mover[m].force => past[mover[m].old] \subseteq past[mover[m].new]

Pending == (\A w \in Writer : SetPending(w)) /\ (\A m \in Mover : SwapPending(m))

BranchInv == BranchTypeOK /\ Histories /\ Pending /\ LandedStays

-----------------------------------------------------------------------------
LEMMA BranchInitially == BranchInit => BranchInv
<1>1. BranchInit => BranchTypeOK
  BY BranchAssumption DEF BranchInit, BranchTypeOK, Commit, NoFiles
<1>2. BranchInit => Histories /\ LandedStays
  BY BranchAssumption DEF BranchInit, Histories, LandedStays
<1>3. BranchInit => Pending
  BY DEF BranchInit, Pending, SetPending, SwapPending, Still
<1>4. QED
  BY <1>1, <1>2, <1>3 DEF BranchInv

\* A move of the branch to a commit made keeps what landed, if freely or forward.
LEMMA Moved ==
    ASSUME BranchInv, NEW c \in 0..made, NEW freely \in BOOLEAN, Goes(c, freely),
           freely \/ past[tip] \subseteq past[c], UNCHANGED <<made, past>>
    PROVE  /\ tip' \in 0..made' /\ landed' \subseteq 1..made' /\ dropped' \subseteq landed'
           /\ Histories' /\ LandedStays'
<1>1. {c} \ {0} \subseteq past[c] /\ past[tip] \subseteq landed /\ made \in Nat
  BY BranchAssumption DEF BranchInv, Histories, BranchTypeOK
<1>2. landed \subseteq 1..made /\ dropped \subseteq landed /\ landed \subseteq past[tip] \cup dropped
  BY DEF BranchInv, BranchTypeOK, LandedStays
<1>3. tip' = c /\ landed' = landed \cup ({c} \ {0})
      /\ dropped' = (IF freely THEN dropped \cup (past[tip] \ past[c]) ELSE dropped)
  BY DEF Goes
<1>4. landed' \subseteq 1..made /\ dropped' \subseteq landed'
  <2>1. c # 0 => c \in 1..made
    BY <1>1
  <2>2. landed' \subseteq 1..made
    BY <2>1, <1>2, <1>3
  <2>3. dropped' \subseteq landed'
    BY <1>1, <1>2, <1>3
  <2>4. QED
    BY <2>2, <2>3
<1>5. LandedStays'
  BY <1>1, <1>2, <1>3 DEF LandedStays
<1>6. Histories'
  BY <1>3 DEF BranchInv, Histories
<1>7. QED
  BY <1>3, <1>4, <1>5, <1>6

\* A commit built on the tip leaves the histories of the others alone.
LEMMA Made ==
    ASSUME BranchInv, NEW path \in Path, NEW del \in BOOLEAN, Makes(tip, path, del),
           UNCHANGED <<tip, landed, dropped>>
    PROVE  /\ made' \in 1..MaxCommits /\ made' = made + 1 /\ made \in Nat
           /\ parent' \in [Commit -> 0..MaxCommits] /\ parent'[made'] = tip
           /\ \A c \in 1..made : parent'[c] = parent[c]
           /\ past' \in [0..MaxCommits -> SUBSET Commit]
           /\ \A c \in 0..made : past'[c] = past[c]
           /\ past'[made'] = past[tip] \cup {made'}
           /\ tree' \in [0..MaxCommits -> [Path -> 0..MaxCommits]]
           /\ Histories' /\ LandedStays'
<1>1. /\ made' = made + 1 /\ made' \in 1..MaxCommits /\ made \in Nat /\ tip \in 0..made
      /\ 0..made \subseteq 0..MaxCommits /\ 1..made \subseteq Commit
  <2>1. made' = made + 1 /\ made < MaxCommits
    BY DEF Makes
  <2>2. made \in 0..MaxCommits /\ tip \in 0..made
    BY DEF BranchInv, BranchTypeOK
  <2>3. QED
    BY <2>1, <2>2, BranchAssumption DEF Commit
<1>2. parent' \in [Commit -> 0..MaxCommits] /\ parent'[made'] = tip
      /\ \A c \in 1..made : parent'[c] = parent[c]
  BY <1>1 DEF Makes, BranchInv, BranchTypeOK, Commit
<1>3. /\ past' \in [0..MaxCommits -> SUBSET Commit]
      /\ \A c \in 0..made : past'[c] = past[c]
      /\ past'[made'] = past[tip] \cup {made'}
  <2>1. past' = [past EXCEPT ![made'] = past[tip] \cup {made'}] /\ past \in [0..MaxCommits -> SUBSET Commit]
    BY DEF Makes, BranchInv, BranchTypeOK
  <2>2. past[tip] \cup {made'} \in SUBSET Commit /\ made' \in 0..MaxCommits
    BY <1>1, <2>1 DEF Commit
  <2>3. \A c \in 0..made : c # made' /\ c \in 0..MaxCommits
    BY <1>1
  <2>4. QED
    BY <2>1, <2>2, <2>3
<1>4. tree' \in [0..MaxCommits -> [Path -> 0..MaxCommits]]
  <2>1. tree[tip] \in [Path -> 0..MaxCommits]
    BY <1>1 DEF BranchInv, BranchTypeOK
  <2>2. [tree[tip] EXCEPT ![path] = IF del THEN 0 ELSE made'] \in [Path -> 0..MaxCommits]
    BY <2>1, <1>1
  <2>3. QED
    BY <2>2, <1>1 DEF Makes, BranchInv, BranchTypeOK
<1>5. past[tip] \subseteq 1..made /\ past[tip] \subseteq landed /\ landed \subseteq 1..made
  BY <1>1 DEF BranchInv, Histories, BranchTypeOK
<1>6. ASSUME NEW c \in 0..made'
      PROVE  past'[c] \subseteq 1..made' /\ \A d \in past'[c] : past'[d] \subseteq past'[c]
  <2>1. CASE c \in 0..made
    <3>1. past'[c] = past[c] /\ past[c] \subseteq 1..made
      BY <2>1, <1>3 DEF BranchInv, Histories
    <3>2. \A d \in past[c] : past'[d] = past[d] /\ past[d] \subseteq past[c]
      BY <2>1, <3>1, <1>3 DEF BranchInv, Histories
    <3>3. QED
      BY <3>1, <3>2, <1>1
  <2>2. CASE c = made'
    <3>1. \A d \in past[tip] : past'[d] = past[d] /\ past[d] \subseteq past[tip]
      BY <1>1, <1>5, <1>3 DEF BranchInv, Histories
    <3>2. QED
      BY <3>1, <2>2, <1>1, <1>3, <1>5
  <2>3. QED
    BY <1>1, <1>6, <2>1, <2>2
<1>7. \A c \in 1..made' : c \in past'[c] /\ past'[c] \ {c} \subseteq landed'
  BY <1>1, <1>3, <1>5 DEF BranchInv, Histories
<1>8. Histories'
  BY <1>1, <1>3, <1>6, <1>7 DEF BranchInv, Histories
<1>9. LandedStays'
  BY <1>1, <1>3 DEF BranchInv, LandedStays
<1>10. QED
  BY <1>1, <1>2, <1>3, <1>4, <1>8, <1>9

-----------------------------------------------------------------------------
(* One step of a contents request. *)

\* A request that only reads, or gives up, leaves everything else alone.
LEMMA WriterReads ==
    ASSUME BranchInv, NEW w \in Writer,
           UNCHANGED <<tip, made, parent, past, tree, mover, landed, dropped, moves>>,
           NEW r \in {Still} \cup Writing, r.pc # "set", writer' = [writer EXCEPT ![w] = r]
    PROVE  BranchInv'
<1>1. writer' \in [Writer -> {Still} \cup Writing]
  BY DEF BranchInv, BranchTypeOK
<1>2. BranchTypeOK'
  BY <1>1 DEF BranchInv, BranchTypeOK
<1>3. \A v \in Writer : SetPending(v)'
  BY DEF BranchInv, BranchTypeOK, Pending, SetPending
<1>4. \A m \in Mover : SwapPending(m)'
  BY DEF BranchInv, Pending, SwapPending
<1>5. QED
  BY <1>2, <1>3, <1>4 DEF BranchInv, Histories, Pending, LandedStays

LEMMA StatStep == ASSUME BranchInv, NEW w \in Writer, NEW p \in Path, NEW del \in BOOLEAN, Stat(w, p, del)
                  PROVE  BranchInv'
<1> DEFINE r == [pc |-> "check", path |-> p, sha |-> tree[tip][p], del |-> del, commit |-> 0]
<1>1. tree[tip][p] \in 0..MaxCommits /\ 0 \in 0..MaxCommits
  BY BranchAssumption DEF BranchInv, BranchTypeOK
<1>2. r \in Writing /\ r.pc # "set"
  BY <1>1 DEF Writing
<1>3. writer' = [writer EXCEPT ![w] = r]
  BY DEF Stat
<1> HIDE DEF r
<1>4. QED
  BY <1>2, <1>3, WriterReads DEF Stat

LEMMA CheckStep == ASSUME BranchInv, NEW w \in Writer, Check(w) PROVE BranchInv'
<1>1. writer[w] \in Writing /\ Still.pc # "set"
  BY DEF BranchInv, BranchTypeOK, Check, Still
<1> DEFINE r == [writer[w] EXCEPT !.pc = "build"]
<1>2. r \in Writing /\ r.pc # "set"
  BY <1>1 DEF Writing
<1>3. writer' = [writer EXCEPT ![w] = r] \/ writer' = [writer EXCEPT ![w] = Still]
  BY DEF Check, BranchInv, BranchTypeOK
<1> HIDE DEF r
<1>4. QED
  BY <1>1, <1>2, <1>3, WriterReads DEF Check

LEMMA BuildStep == ASSUME BranchInv, NEW w \in Writer, Build(w) PROVE BranchInv'
<1>1. writer[w] \in Writing /\ writer[w].pc = "build" /\ Still.pc # "set"
  BY DEF BranchInv, BranchTypeOK, Build, Still
<1>2. CASE writer[w].del /\ tip = 0
  BY <1>1, <1>2, WriterReads DEF Build
<1>3. CASE ~(writer[w].del /\ tip = 0)
  <2> DEFINE r == [writer[w] EXCEPT !.pc = "set", !.commit = made']
  <2>1. writer[w].path \in Path /\ writer[w].del \in BOOLEAN
    BY <1>1 DEF Writing
  <2>2. /\ Makes(tip, writer[w].path, writer[w].del)
        /\ writer' = [writer EXCEPT ![w].pc = "set", ![w].commit = made']
        /\ UNCHANGED <<tip, mover, landed, dropped, moves>>
    BY <1>3 DEF Build
  <2>3. /\ made' \in 1..MaxCommits /\ made' = made + 1 /\ made \in Nat
        /\ parent' \in [Commit -> 0..MaxCommits] /\ parent'[made'] = tip
        /\ \A c \in 1..made : parent'[c] = parent[c]
        /\ past' \in [0..MaxCommits -> SUBSET Commit]
        /\ \A c \in 0..made : past'[c] = past[c]
        /\ past'[made'] = past[tip] \cup {made'}
        /\ tree' \in [0..MaxCommits -> [Path -> 0..MaxCommits]]
        /\ Histories' /\ LandedStays'
    BY <2>1, <2>2, Made
  <2>4. writer' = [writer EXCEPT ![w] = r] /\ r \in Writing /\ r.commit = made'
    <3>1. writer' = [writer EXCEPT ![w] = r]
      BY <2>2 DEF BranchInv, BranchTypeOK
    <3>2. made' \in 0..MaxCommits
      BY <2>3
    <3>3. r \in Writing /\ r.commit = made'
      BY <1>1, <3>2 DEF Writing
    <3>4. QED
      BY <3>1, <3>3
  <2> HIDE DEF r
  <2>5. writer' \in [Writer -> {Still} \cup Writing]
    BY <2>4 DEF BranchInv, BranchTypeOK
  <2>6. BranchTypeOK'
    <3>1. made' \in 0..MaxCommits /\ tip' \in 0..made' /\ landed' \subseteq 1..made'
      BY <2>2, <2>3 DEF BranchInv, BranchTypeOK
    <3>2. mover' \in [Mover -> {Still} \cup Moving] /\ dropped' \subseteq landed' /\ moves' \in 0..MaxMoves
      BY <2>2 DEF BranchInv, BranchTypeOK
    <3>3. QED
      BY <2>3, <2>5, <3>1, <3>2 DEF BranchTypeOK
  <2>7. ASSUME NEW v \in Writer PROVE SetPending(v)'
    <3>1. CASE v = w
      <4>1. tip \in 0..made /\ past'[tip] = past[tip]
        BY <2>3 DEF BranchInv, BranchTypeOK
      <4>2. writer'[v] = r
        BY <3>1, <2>4 DEF BranchInv, BranchTypeOK
      <4>3. QED
        BY <4>1, <4>2, <2>3, <2>4 DEF SetPending
    <3>2. CASE v # w
      <4>1. writer'[v] = writer[v]
        BY <3>2, <2>2 DEF BranchInv, BranchTypeOK
      <4>2. SetPending(v)
        BY DEF BranchInv, Pending
      <4>3. 1..made \subseteq 1..made' /\ 0..made \subseteq 0..made' /\ 1..made \subseteq 0..made
        BY <2>3
      <4>4. ASSUME writer[v].pc = "set"
            PROVE  /\ writer[v].commit \in 1..made /\ parent'[writer[v].commit] = parent[writer[v].commit]
                   /\ parent[writer[v].commit] \in 0..made
                   /\ past[parent[writer[v].commit]] \subseteq past[writer[v].commit]
        BY <4>2, <4>4, <2>3 DEF SetPending
      <4>5. ASSUME writer[v].pc = "set"
            PROVE  past'[parent'[writer[v].commit]] \subseteq past'[writer[v].commit]
        <5>1. \A k \in 0..made : past'[k] = past[k]
          BY <2>3
        <5>2. writer[v].commit \in 0..made
          BY <4>3, <4>4, <4>5
        <5>3. QED
          BY <4>4, <4>5, <5>1, <5>2
      <4>6. QED
        BY <4>1, <4>3, <4>4, <4>5 DEF SetPending
    <3>3. QED
      BY <3>1, <3>2
  <2>8. ASSUME NEW m \in Mover PROVE SwapPending(m)'
    <3>1. SwapPending(m)
      BY DEF BranchInv, Pending
    <3>2. 0..made \subseteq 0..made' /\ mover' = mover
      BY <2>2, <2>3
    <3>3. QED
      BY <3>1, <3>2, <2>3 DEF SwapPending
  <2>9. QED
    BY <2>3, <2>6, <2>7, <2>8 DEF BranchInv, Pending
<1>4. QED
  BY <1>2, <1>3

LEMMA SetStep == ASSUME BranchInv, NEW w \in Writer, Set(w) PROVE BranchInv'
<1> DEFINE c == writer[w].commit
           freely == tip # parent[writer[w].commit]
<1>1. /\ Goes(c, freely) /\ writer[w].pc = "set"
      /\ writer' = [writer EXCEPT ![w] = Still]
      /\ UNCHANGED <<made, parent, past, tree, mover, moves>>
  BY DEF Set
<1>2. c \in 1..made /\ c \in 0..made /\ freely \in BOOLEAN /\ (freely \/ past[tip] \subseteq past[c])
  BY <1>1 DEF BranchInv, Pending, SetPending
<1> HIDE DEF c, freely
<1>3. /\ tip' \in 0..made' /\ landed' \subseteq 1..made' /\ dropped' \subseteq landed'
      /\ Histories' /\ LandedStays'
  BY <1>1, <1>2, Moved
<1>4. writer' \in [Writer -> {Still} \cup Writing] /\ Still.pc # "set"
  BY <1>1 DEF BranchInv, BranchTypeOK, Still
<1>5. BranchTypeOK'
  BY <1>1, <1>3, <1>4 DEF BranchInv, BranchTypeOK
<1>6. Pending'
  BY <1>1, <1>4 DEF BranchInv, BranchTypeOK, Pending, SetPending, SwapPending
<1>7. QED
  BY <1>3, <1>5, <1>6 DEF BranchInv

-----------------------------------------------------------------------------
(* One step of a refs request or a push. *)

\* A request has read the tip: r is what it will do.
LEMMA MoverBegins ==
    ASSUME BranchInv, NEW m \in Mover, NEW r \in Moving,
           UNCHANGED <<tip, made, parent, past, tree, writer, landed, dropped>>,
           moves' \in 0..MaxMoves, mover' = [mover EXCEPT ![m] = r],
           r.old \in 0..made, r.new \in 0..made,
           r.pc = "ancestor" => ~r.force /\ r.old # 0,
           r.pc = "swap" /\ ~r.force => past[r.old] \subseteq past[r.new]
    PROVE  BranchInv'
<1>1. mover' \in [Mover -> {Still} \cup Moving]
  BY DEF BranchInv, BranchTypeOK
<1>2. BranchTypeOK'
  BY <1>1 DEF BranchInv, BranchTypeOK
<1>3. \A w \in Writer : SetPending(w)'
  BY DEF BranchInv, Pending, SetPending
<1>4. ASSUME NEW n \in Mover PROVE SwapPending(n)'
  <2>1. SwapPending(n)
    BY DEF BranchInv, Pending
  <2>2. mover'[n] = IF n = m THEN r ELSE mover[n]
    BY DEF BranchInv, BranchTypeOK
  <2>3. QED
    BY <2>1, <2>2 DEF SwapPending
<1>5. QED
  BY <1>2, <1>3, <1>4 DEF BranchInv, Histories, Pending, LandedStays

\* The record MoverReads stores.
LEMMA ReadRecord ==
    ASSUME BranchInv, NEW m \in Mover, NEW pc \in {"ancestor", "swap"}, NEW new \in 0..MaxCommits,
           NEW force \in BOOLEAN, MoverReads(m, pc, new, force)
    PROVE  /\ [pc |-> pc, old |-> tip, new |-> new, force |-> force] \in Moving
           /\ mover' = [mover EXCEPT ![m] = [pc |-> pc, old |-> tip, new |-> new, force |-> force]]
           /\ moves' \in 0..MaxMoves /\ UNCHANGED <<tip, landed, dropped, writer>>
<1>1. tip \in 0..MaxCommits
  BY BranchAssumption DEF BranchInv, BranchTypeOK
<1>2. [pc |-> pc, old |-> tip, new |-> new, force |-> force] \in Moving
  BY <1>1 DEF Moving
<1>3. moves' \in 0..MaxMoves
  BY BranchAssumption DEF BranchInv, BranchTypeOK, MoverReads
<1>4. QED
  BY <1>2, <1>3 DEF MoverReads

LEMMA CreateReadsStep == ASSUME BranchInv, NEW m \in Mover, NEW c \in 1..made, CreateReads(m, c) PROVE BranchInv'
<1> DEFINE r == [pc |-> "swap", old |-> tip, new |-> c, force |-> FALSE]
<1>1. c \in 0..MaxCommits /\ c \in 0..made /\ tip = 0 /\ past[tip] = {} /\ tip \in 0..made
  BY BranchAssumption DEF CreateReads, BranchInv, BranchTypeOK, Histories
<1>2. r \in Moving /\ mover' = [mover EXCEPT ![m] = r]
      /\ moves' \in 0..MaxMoves /\ UNCHANGED <<tip, landed, dropped, writer>>
  BY <1>1, ReadRecord DEF CreateReads
<1>3. r.old = tip /\ r.new = c /\ r.pc = "swap"
  OBVIOUS
<1> HIDE DEF r
<1>4. QED
  BY <1>1, <1>2, <1>3, MoverBegins DEF CreateReads

LEMMA UpdateReadsStep ==
    ASSUME BranchInv, NEW m \in Mover, NEW c \in 1..made, NEW force \in BOOLEAN, UpdateReads(m, c, force)
    PROVE  BranchInv'
<1> DEFINE pc == IF force \/ c = tip THEN "swap" ELSE "ancestor"
           r == [pc |-> pc, old |-> tip, new |-> c, force |-> force]
<1>1. c \in 0..MaxCommits /\ c \in 0..made /\ tip # 0 /\ pc \in {"ancestor", "swap"} /\ tip \in 0..made
  BY BranchAssumption DEF UpdateReads, BranchInv, BranchTypeOK
<1>2. r \in Moving /\ mover' = [mover EXCEPT ![m] = r]
      /\ moves' \in 0..MaxMoves /\ UNCHANGED <<tip, landed, dropped, writer>>
  BY <1>1, ReadRecord DEF UpdateReads
<1>3. r.old = tip /\ r.new = c /\ r.force = force /\ r.pc = pc
  OBVIOUS
<1>4. /\ pc = "ancestor" => ~force
      /\ pc = "swap" /\ ~force => c = tip
  OBVIOUS
<1> HIDE DEF r, pc
<1>5. QED
  BY <1>1, <1>2, <1>3, <1>4, MoverBegins DEF UpdateReads

LEMMA DeleteReadsStep == ASSUME BranchInv, NEW m \in Mover, DeleteReads(m) PROVE BranchInv'
<1> DEFINE r == [pc |-> "swap", old |-> tip, new |-> 0, force |-> TRUE]
<1>1. 0 \in 0..MaxCommits /\ 0 \in 0..made /\ tip \in 0..made
  BY BranchAssumption DEF BranchInv, BranchTypeOK
<1>2. r \in Moving /\ mover' = [mover EXCEPT ![m] = r]
      /\ moves' \in 0..MaxMoves /\ UNCHANGED <<tip, landed, dropped, writer>>
  BY <1>1, ReadRecord DEF DeleteReads
<1>3. r.old = tip /\ r.new = 0 /\ r.force /\ r.pc = "swap"
  OBVIOUS
<1> HIDE DEF r
<1>4. QED
  BY <1>1, <1>2, <1>3, MoverBegins DEF DeleteReads

LEMMA PushReadsStep == ASSUME BranchInv, NEW m \in Mover, NEW p \in Path, PushReads(m, p) PROVE BranchInv'
<1> DEFINE r == [pc |-> "swap", old |-> tip, new |-> made + 1, force |-> FALSE]
<1>1. Makes(tip, p, FALSE) /\ MoverReads(m, "swap", made + 1, FALSE) /\ UNCHANGED <<tip, landed, dropped>>
  BY DEF PushReads, MoverReads
<1>2. /\ made' \in 1..MaxCommits /\ made' = made + 1 /\ made \in Nat
      /\ parent' \in [Commit -> 0..MaxCommits] /\ parent'[made'] = tip
      /\ \A c \in 1..made : parent'[c] = parent[c]
      /\ past' \in [0..MaxCommits -> SUBSET Commit]
      /\ \A c \in 0..made : past'[c] = past[c]
      /\ past'[made'] = past[tip] \cup {made'}
      /\ tree' \in [0..MaxCommits -> [Path -> 0..MaxCommits]]
      /\ Histories' /\ LandedStays'
  BY <1>1, Made
<1>3. r \in Moving /\ mover' = [mover EXCEPT ![m] = r]
      /\ moves' \in 0..MaxMoves /\ UNCHANGED <<tip, landed, dropped, writer>>
  <2>1. made + 1 \in 0..MaxCommits /\ FALSE \in BOOLEAN /\ "swap" \in {"ancestor", "swap"}
    BY <1>2
  <2>2. QED
    BY <1>1, <2>1, ReadRecord
<1>4. r.old = tip /\ r.new = made' /\ r.pc = "swap"
  BY <1>2
<1>5. 1..made \subseteq 1..made' /\ 0..made \subseteq 0..made' /\ tip \in 0..made /\ 1..made \subseteq 0..made
  <2>1. tip \in 0..made
    BY DEF BranchInv, BranchTypeOK
  <2>2. made' = made + 1 /\ made \in Nat
    BY <1>2
  <2>3. QED
    BY <2>1, <2>2
<1> HIDE DEF r
<1>6. mover' \in [Mover -> {Still} \cup Moving]
  BY <1>3 DEF BranchInv, BranchTypeOK
<1>7. BranchTypeOK'
  <2>1. landed \subseteq 1..made /\ dropped \subseteq landed
        /\ writer \in [Writer -> {Still} \cup Writing]
    BY DEF BranchInv, BranchTypeOK
  <2>2. made' \in 0..MaxCommits /\ tip' \in 0..made' /\ landed' \subseteq 1..made' /\ dropped' \subseteq landed'
        /\ writer' \in [Writer -> {Still} \cup Writing]
    <3>1. made' \in 0..MaxCommits
      BY <1>2
    <3>2. tip' = tip /\ landed' = landed /\ dropped' = dropped /\ writer' = writer
      BY <1>3
    <3>3. QED
      BY <2>1, <3>1, <3>2, <1>5
  <2>3. moves' \in 0..MaxMoves
    BY <1>3
  <2>4. /\ parent' \in [Commit -> 0..MaxCommits] /\ past' \in [0..MaxCommits -> SUBSET Commit]
        /\ tree' \in [0..MaxCommits -> [Path -> 0..MaxCommits]]
    BY <1>2
  <2>5. QED
    BY <2>2, <2>3, <2>4, <1>6 DEF BranchTypeOK
<1>8. ASSUME NEW w \in Writer PROVE SetPending(w)'
  <2>1. SetPending(w) /\ writer' = writer
    BY <1>3 DEF BranchInv, Pending
  <2>2. QED
    BY <2>1, <1>2, <1>5 DEF SetPending
<1>9. ASSUME NEW n \in Mover PROVE SwapPending(n)'
  <2>1. SwapPending(n) /\ mover'[n] = IF n = m THEN r ELSE mover[n]
    BY <1>3 DEF BranchInv, Pending, BranchTypeOK
  <2>2. CASE n = m
    <3>1. mover'[n].old \in 0..made' /\ mover'[n].new \in 0..made' /\ mover'[n].pc = "swap"
      <4>1. made' \in 0..made' /\ tip \in 0..made'
        BY <1>2, <1>5
      <4>2. QED
        BY <2>1, <2>2, <4>1, <1>4
    <3>2. past'[mover'[n].old] \subseteq past'[mover'[n].new]
      BY <2>1, <2>2, <1>2, <1>4, <1>5
    <3>3. QED
      BY <3>1, <3>2 DEF SwapPending
  <2>3. CASE n # m
    <3>1. \A c \in 0..made : c \in 0..made' /\ past'[c] = past[c]
      BY <1>2, <1>5
    <3>2. mover'[n] = mover[n] /\ SwapPending(n)
      BY <2>1, <2>3
    <3>3. QED
      BY <3>1, <3>2 DEF SwapPending
  <2>4. QED
    BY <2>2, <2>3
<1>10. QED
  BY <1>2, <1>7, <1>8, <1>9 DEF BranchInv, Pending

LEMMA AncestorStep == ASSUME BranchInv, NEW m \in Mover, Ancestor(m) PROVE BranchInv'
<1> DEFINE r == [mover[m] EXCEPT !.pc = "swap"]
<1>1. mover[m] \in Moving /\ mover[m] # Still /\ SwapPending(m) /\ mover[m].pc = "ancestor"
  BY DEF BranchInv, BranchTypeOK, Ancestor, Still, Pending
<1>2. mover' = IF Forward(m) THEN [mover EXCEPT ![m] = r] ELSE [mover EXCEPT ![m] = Still]
  BY DEF Ancestor, BranchInv, BranchTypeOK
<1>3. r \in Moving /\ r.pc = "swap" /\ r.old = mover[m].old /\ r.new = mover[m].new /\ r.force = mover[m].force
  BY <1>1 DEF Moving
<1> HIDE DEF r
<1>4. CASE Forward(m)
  <2>1. mover[m].old \in 0..made /\ mover[m].new \in 0..made
        /\ past[mover[m].old] \subseteq past[mover[m].new]
    BY <1>1, <1>4 DEF SwapPending, Forward, BranchInv, Histories
  <2>2. moves' \in 0..MaxMoves
    BY DEF Ancestor, BranchInv, BranchTypeOK
  <2>3. QED
    BY <1>2, <1>3, <1>4, <2>1, <2>2, MoverBegins DEF Ancestor
<1>5. CASE ~Forward(m)
  <2>1. mover' \in [Mover -> {Still} \cup Moving]
    BY <1>2, <1>5 DEF BranchInv, BranchTypeOK
  <2>2. BranchTypeOK'
    BY <2>1 DEF Ancestor, BranchInv, BranchTypeOK
  <2>3. Pending'
    BY <1>2, <1>5 DEF Ancestor, BranchInv, BranchTypeOK, Pending, SetPending, SwapPending
  <2>4. QED
    BY <2>2, <2>3 DEF Ancestor, BranchInv, Histories, LandedStays
<1>6. QED
  BY <1>4, <1>5

LEMMA SwapStep == ASSUME BranchInv, NEW m \in Mover, Swap(m) PROVE BranchInv'
<1>1. /\ mover[m] \in Moving /\ mover[m] # Still /\ SwapPending(m) /\ mover[m].pc = "swap"
      /\ mover[m].force \in BOOLEAN
  BY DEF BranchInv, BranchTypeOK, Swap, Still, Moving, Pending
<1>2. /\ mover' = [mover EXCEPT ![m] = Still] /\ UNCHANGED <<made, parent, past, tree, writer, moves>>
  BY DEF Swap
<1>3. /\ tip' \in 0..made' /\ landed' \subseteq 1..made' /\ dropped' \subseteq landed'
      /\ Histories' /\ LandedStays'
  <2>1. CASE Swaps(m)
    <3>1. Goes(mover[m].new, mover[m].force)
      BY <2>1 DEF Swap
    <3>2. mover[m].new \in 0..made /\ (mover[m].force \/ past[tip] \subseteq past[mover[m].new])
      BY <1>1, <2>1 DEF SwapPending, Swaps
    <3>3. QED
      BY <1>1, <1>2, <3>1, <3>2, Moved
  <2>2. CASE ~Swaps(m)
    <3>1. tip' = tip /\ landed' = landed /\ dropped' = dropped /\ made' = made /\ past' = past
      BY <1>2, <2>2 DEF Swap
    <3>2. tip \in 0..made /\ landed \subseteq 1..made /\ dropped \subseteq landed /\ Histories /\ LandedStays
      BY DEF BranchInv, BranchTypeOK
    <3>3. tip' \in 0..made' /\ landed' \subseteq 1..made' /\ dropped' \subseteq landed'
      BY <3>1, <3>2
    <3>4. Histories'
      BY <3>1, <3>2 DEF Histories
    <3>5. LandedStays'
      BY <3>1, <3>2 DEF LandedStays
    <3>6. QED
      BY <3>3, <3>4, <3>5
  <2>3. QED
    BY <2>1, <2>2
<1>4. mover' \in [Mover -> {Still} \cup Moving]
  BY <1>2 DEF BranchInv, BranchTypeOK
<1>5. BranchTypeOK'
  BY <1>2, <1>3, <1>4 DEF BranchInv, BranchTypeOK
<1>6. Pending'
  BY <1>2 DEF BranchInv, BranchTypeOK, Pending, SetPending, SwapPending
<1>7. QED
  BY <1>3, <1>5, <1>6 DEF BranchInv

-----------------------------------------------------------------------------
LEMMA BranchInductive == BranchInv /\ [BranchNext]_branchVars => BranchInv'
<1> SUFFICES ASSUME BranchInv, [BranchNext]_branchVars PROVE BranchInv'
  OBVIOUS
<1>1. ASSUME NEW w \in Writer,
             (\E p \in Path, del \in BOOLEAN : Stat(w, p, del)) \/ Check(w) \/ Build(w) \/ Set(w)
      PROVE  BranchInv'
  BY <1>1, StatStep, CheckStep, BuildStep, SetStep
<1>2. ASSUME NEW m \in Mover, \E c \in 1..made : CreateReads(m, c)
      PROVE  BranchInv'
  BY <1>2, CreateReadsStep
<1>3. ASSUME NEW m \in Mover, \E c \in 1..made, force \in BOOLEAN : UpdateReads(m, c, force)
      PROVE  BranchInv'
  BY <1>3, UpdateReadsStep
<1>4. ASSUME NEW m \in Mover,
             DeleteReads(m) \/ (\E p \in Path : PushReads(m, p)) \/ Ancestor(m) \/ Swap(m)
      PROVE  BranchInv'
  BY <1>4, DeleteReadsStep, PushReadsStep, AncestorStep, SwapStep
<1>5. CASE UNCHANGED branchVars
  BY <1>5 DEF branchVars, BranchInv, BranchTypeOK, Histories, Pending, SetPending, SwapPending, LandedStays
<1>6. QED
  BY <1>1, <1>2, <1>3, <1>4, <1>5 DEF BranchNext

LEMMA BranchInvariant == BranchSpec => []BranchInv
BY BranchInitially, BranchInductive, PTL DEF BranchSpec

\* Every state has the types of BranchTypeOK, whatever the writes of files, the moves
\* and the pushes (git/repo_write.go, git/repo_write_file.go) do to one branch.
THEOREM BranchTypeCorrect == BranchSpec => []BranchTypeOK
<1>1. BranchInv => BranchTypeOK
  BY DEF BranchInv
<1>2. QED
  BY <1>1, BranchInvariant, PTL

\* A commit the branch has named stays in its history, unless it was forced away or
\* deleted, or a contents write set a commit built on an older tip: UpdateRef,
\* CreateRef, DeleteRef and receive-pack swap (git/repo_write.go:301).
THEOREM LandedCommitsStay == BranchSpec => []LandedStays
<1>1. BranchInv => LandedStays
  BY DEF BranchInv
<1>2. QED
  BY <1>1, BranchInvariant, PTL

-----------------------------------------------------------------------------
(* Object lookups.                                                         *)
(*                                                                         *)
(* What the pool promises needs, of each lookup, that it holds a process   *)
(* from acquire to the end of the query or the eviction, and that this     *)
(* process is in the pool for its own repository only (or no more): the    *)
(* eviction that follows a death is then that of the right entry.  The     *)
(* answers need that what was on disk at the start is still there, and     *)
(* that the lines read were not those of an earlier query (astray).        *)

Holds(l) ==
    \/ l = NoLookup
    \/ /\ l.floor \subseteq l.want /\ l.floor \subseteq objects[l.repo]
       /\ l.proc # NoProc <=> l.pc \in {"query", "evict"}
       /\ \A r \in Repo : procs[r] = l.proc => l.proc = NoProc \/ r = l.repo
       /\ (l.pc = "put" \/ (l.pc = "evict" /\ ~l.failed)) /\ ~l.astray =>
              l.floor \subseteq l.found /\ l.found \subseteq objects[l.repo]

Answering == \A c \in Client : Holds(client[c])

LookupInv == LookupTypeOK /\ PoolSound /\ Answering

-----------------------------------------------------------------------------
(* The lists. *)

LEMMA Pushed ==
    ASSUME NEW S, NEW e \in S, NEW q \in Seq(S)
    PROVE  /\ <<e>> \o q \in Seq(S) /\ Len(<<e>> \o q) = Len(q) + 1
           /\ DOMAIN (<<e>> \o q) = 1..Len(q) + 1
           /\ (<<e>> \o q)[1] = e /\ \A j \in 1..Len(q) : (<<e>> \o q)[j + 1] = q[j]
OBVIOUS

LEMMA Cut ==
    ASSUME NEW S, NEW q \in Seq(S), NEW n \in Nat, n <= Len(q)
    PROVE  /\ SubSeq(q, 1, n) \in Seq(S) /\ Len(SubSeq(q, 1, n)) = n
           /\ DOMAIN SubSeq(q, 1, n) = 1..n
           /\ \A j \in 1..n : SubSeq(q, 1, n)[j] = q[j]
OBVIOUS

LEMMA Joined ==
    ASSUME NEW S, NEW a \in Seq(S), NEW b \in Seq(S)
    PROVE  /\ a \o b \in Seq(S) /\ Len(a \o b) = Len(a) + Len(b)
           /\ \A j \in 1..Len(a) + Len(b) : (a \o b)[j] = IF j <= Len(a) THEN a[j] ELSE b[j - Len(a)]
OBVIOUS

LEMMA Removed ==
    ASSUME NEW S, NEW q \in Seq(S), NEW i \in 1..Len(q)
    PROVE  /\ RemoveAt(q, i) \in Seq(S) /\ Len(RemoveAt(q, i)) = Len(q) - 1
           /\ DOMAIN RemoveAt(q, i) = 1..Len(q) - 1
           /\ \A j \in 1..Len(q) - 1 : RemoveAt(q, i)[j] = IF j < i THEN q[j] ELSE q[j + 1]
<1>1. SubSeq(q, 1, i - 1) \in Seq(S) /\ Len(SubSeq(q, 1, i - 1)) = i - 1
      /\ \A j \in 1..i - 1 : SubSeq(q, 1, i - 1)[j] = q[j]
  OBVIOUS
<1>2. SubSeq(q, i + 1, Len(q)) \in Seq(S) /\ Len(SubSeq(q, i + 1, Len(q))) = Len(q) - i
      /\ \A j \in 1..Len(q) - i : SubSeq(q, i + 1, Len(q))[j] = q[i + j]
  OBVIOUS
<1> DEFINE a == SubSeq(q, 1, i - 1)
           b == SubSeq(q, i + 1, Len(q))
<1> HIDE DEF a, b
<1>3. a \in Seq(S) /\ b \in Seq(S) /\ Len(a) = i - 1 /\ Len(b) = Len(q) - i
      /\ (\A j \in 1..i - 1 : a[j] = q[j]) /\ \A j \in 1..Len(q) - i : b[j] = q[i + j]
  BY <1>1, <1>2 DEF a, b
<1>4. /\ a \o b \in Seq(S) /\ Len(a \o b) = Len(q) - 1 /\ DOMAIN (a \o b) = 1..Len(q) - 1
      /\ \A j \in 1..Len(q) - 1 : (a \o b)[j] = IF j <= i - 1 THEN a[j] ELSE b[j - (i - 1)]
  <2>1. /\ a \o b \in Seq(S) /\ Len(a \o b) = Len(a) + Len(b)
        /\ \A j \in 1..Len(a) + Len(b) : (a \o b)[j] = IF j <= Len(a) THEN a[j] ELSE b[j - Len(a)]
    BY <1>3, Joined
  <2>2. Len(a) + Len(b) = Len(q) - 1
    BY <1>3
  <2>3. DOMAIN (a \o b) = 1..Len(a \o b)
    BY <2>1
  <2>4. QED
    BY <1>3, <2>1, <2>2, <2>3
<1>5. ASSUME NEW j \in 1..Len(q) - 1 PROVE (a \o b)[j] = IF j < i THEN q[j] ELSE q[j + 1]
  <2>1. CASE j < i
    BY <1>3, <1>4, <2>1
  <2>2. CASE ~ j < i
    <3>1. (a \o b)[j] = b[j - (i - 1)] /\ j - (i - 1) \in 1..Len(q) - i
      BY <1>4, <2>2
    <3>2. b[j - (i - 1)] = q[i + (j - (i - 1))] /\ i + (j - (i - 1)) = j + 1
      BY <1>3, <3>1
    <3>3. QED
      BY <2>2, <3>1, <3>2
  <2>3. QED
    BY <2>1, <2>2
<1>6. RemoveAt(q, i) = a \o b
  BY DEF RemoveAt, a, b
<1>7. QED
  BY <1>4, <1>5, <1>6

LEMMA WithoutSeq ==
    ASSUME NEW S, NEW q \in Seq(S), NEW I \in SUBSET (DOMAIN q)
    PROVE  /\ I = {} => Without(q, I) = q
           /\ I # {} => \E i \in I :
                /\ Without(q, I) \in Seq(S) /\ Len(Without(q, I)) = Len(q) - 1
                /\ DOMAIN Without(q, I) = 1..Len(q) - 1
                /\ \A j \in 1..Len(q) - 1 : Without(q, I)[j] = IF j < i THEN q[j] ELSE q[j + 1]
<1>1. ASSUME I # {} PROVE (CHOOSE i \in I : TRUE) \in I
  BY <1>1
<1>2. DOMAIN q = 1..Len(q)
  OBVIOUS
<1>3. QED
  BY <1>1, <1>2, Removed DEF Without

\* An index that has one element at most for an id: without it the id is gone and
\* the others are left.
LEMMA Unlisted ==
    ASSUME NEW S, NEW q \in Seq(S), NEW r, IsInjective(q), NEW t, t = Without(q, Index(q, r))
    PROVE  /\ t \in Seq(S) /\ IsInjective(t) /\ ToSet(t) = ToSet(q) \ {r} /\ Len(t) <= Len(q)
           /\ r \in ToSet(q) => Len(t) = Len(q) - 1
<1>1. DOMAIN q = 1..Len(q) /\ Len(q) \in Nat /\ Index(q, r) \subseteq DOMAIN q
  BY DEF Index
<1>2. CASE Index(q, r) = {}
  <2>1. t = q
    BY <1>1, <1>2, WithoutSeq
  <2>2. r \notin ToSet(q)
    BY <1>2 DEF Index, ToSet
  <2>3. ToSet(t) = ToSet(q) \ {r} /\ Len(t) <= Len(q)
    BY <1>1, <2>1, <2>2
  <2>4. QED
    BY <2>1, <2>2, <2>3
<1>3. CASE Index(q, r) # {}
  <2> DEFINE w == Without(q, Index(q, r))
  <2>0. \E i \in Index(q, r) :
            /\ w \in Seq(S) /\ Len(w) = Len(q) - 1 /\ DOMAIN w = 1..Len(q) - 1
            /\ \A j \in 1..Len(q) - 1 : w[j] = IF j < i THEN q[j] ELSE q[j + 1]
    <3>1. Index(q, r) \in SUBSET (DOMAIN q)
      BY <1>1
    <3> HIDE DEF w
    <3>2. QED
      BY <1>3, <3>1, WithoutSeq DEF w
  <2> HIDE DEF w
  <2>1. PICK i \in Index(q, r) :
            /\ t \in Seq(S) /\ Len(t) = Len(q) - 1 /\ DOMAIN t = 1..Len(q) - 1
            /\ \A j \in 1..Len(q) - 1 : t[j] = IF j < i THEN q[j] ELSE q[j + 1]
    BY <2>0 DEF w
  <2>2. i \in 1..Len(q) /\ q[i] = r
    BY <1>1 DEF Index
  <2>3. \A a, b \in 1..Len(q) : q[a] = q[b] => a = b
    BY <1>1 DEF IsInjective
  <2>4. ASSUME NEW a \in 1..Len(q) - 1, NEW b \in 1..Len(q) - 1, t[a] = t[b] PROVE a = b
    <3> DEFINE at(j) == IF j < i THEN j ELSE j + 1
    <3>1. t[a] = q[at(a)] /\ t[b] = q[at(b)] /\ at(a) \in 1..Len(q) /\ at(b) \in 1..Len(q)
      BY <1>1, <2>1, <2>2
    <3>2. at(a) = at(b)
      BY <2>3, <2>4, <3>1
    <3>3. QED
      BY <2>2, <3>2
  <2>5. IsInjective(t)
    BY <2>1, <2>4 DEF IsInjective
  <2>6. ASSUME NEW j \in 1..Len(q) - 1 PROVE \E k \in 1..Len(q) : k # i /\ t[j] = q[k]
    <3>1. CASE j < i
      BY <1>1, <2>1, <2>2, <3>1
    <3>2. CASE ~ j < i
      BY <1>1, <2>1, <2>2, <3>2
    <3>3. QED
      BY <3>1, <3>2
  <2>7. ASSUME NEW k \in 1..Len(q), k # i PROVE \E j \in 1..Len(q) - 1 : t[j] = q[k]
    <3>1. CASE k < i
      BY <1>1, <2>1, <2>2, <3>1
    <3>2. CASE k > i
      <4>1. k - 1 \in 1..Len(q) - 1 /\ ~ k - 1 < i /\ k - 1 + 1 = k
        BY <1>1, <2>2, <3>2
      <4>2. t[k - 1] = q[k]
        BY <2>1, <4>1
      <4>3. QED
        BY <4>1, <4>2
    <3>3. QED
      BY <1>1, <2>2, <2>7, <3>1, <3>2
  <2>8. ASSUME NEW x PROVE x \in ToSet(t) <=> x \in ToSet(q) /\ x # r
    <3>1. x \in ToSet(t) <=> \E j \in 1..Len(q) - 1 : t[j] = x
      BY <2>1 DEF ToSet
    <3>2. x \in ToSet(q) <=> \E k \in 1..Len(q) : q[k] = x
      BY <1>1 DEF ToSet
    <3>3. ASSUME NEW j \in 1..Len(q) - 1, t[j] = x PROVE x # r /\ \E k \in 1..Len(q) : q[k] = x
      BY <2>2, <2>3, <2>6, <3>3
    <3>4. ASSUME NEW k \in 1..Len(q), q[k] = x, x # r PROVE \E j \in 1..Len(q) - 1 : t[j] = x
      BY <2>2, <2>7, <3>4
    <3>5. QED
      BY <3>1, <3>2, <3>3, <3>4
  <2>9. ToSet(t) = ToSet(q) \ {r}
    BY <2>8
  <2>10. QED
    BY <1>1, <2>1, <2>5, <2>9
<1>4. QED
  BY <1>2, <1>3

\* What is pushed on a list it is not on.
LEMMA PushedNew ==
    ASSUME NEW S, NEW q \in Seq(S), NEW r \in S, IsInjective(q), r \notin ToSet(q), NEW t, t = <<r>> \o q
    PROVE  /\ t \in Seq(S) /\ IsInjective(t) /\ Len(t) = Len(q) + 1
           /\ \A x : x \in ToSet(t) <=> x \in ToSet(q) \/ x = r
<1>1. /\ t \in Seq(S) /\ Len(t) = Len(q) + 1 /\ DOMAIN t = 1..Len(q) + 1 /\ DOMAIN q = 1..Len(q)
      /\ Len(q) \in Nat /\ t[1] = r /\ \A j \in 1..Len(q) : t[j + 1] = q[j]
  BY Pushed
<1>2. \A a \in 1..Len(q) : q[a] # r
  BY <1>1 DEF ToSet
<1>3. ASSUME NEW a \in 1..Len(q) + 1 PROVE a = 1 \/ \E j \in 1..Len(q) : a = j + 1 /\ t[a] = q[j]
  <2>1. CASE a # 1
    <3>1. a - 1 \in 1..Len(q) /\ a - 1 + 1 = a
      BY <1>1, <2>1
    <3>2. QED
      BY <1>1, <3>1
  <2>2. QED
    BY <2>1
<1>4. ASSUME NEW a \in 1..Len(q) + 1, NEW b \in 1..Len(q) + 1, t[a] = t[b] PROVE a = b
  <2>1. \A j, k \in 1..Len(q) : q[j] = q[k] => j = k
    BY <1>1 DEF IsInjective
  <2>2. CASE a = 1
    BY <1>1, <1>2, <1>3, <1>4, <2>2
  <2>3. CASE a # 1
    BY <1>1, <1>2, <1>3, <1>4, <2>1, <2>3
  <2>4. QED
    BY <2>2, <2>3
<1>5. ASSUME NEW x PROVE x \in ToSet(t) <=> x \in ToSet(q) \/ x = r
  <2>1. x \in ToSet(t) <=> \E a \in 1..Len(q) + 1 : t[a] = x
    BY <1>1 DEF ToSet
  <2>2. x \in ToSet(q) <=> \E a \in 1..Len(q) : q[a] = x
    BY <1>1 DEF ToSet
  <2>3. 1 \in 1..Len(q) + 1 /\ \A j \in 1..Len(q) : j + 1 \in 1..Len(q) + 1
    BY <1>1
  <2>4. QED
    BY <1>1, <1>3, <2>1, <2>2, <2>3
<1>6. QED
  BY <1>1, <1>4, <1>5 DEF IsInjective

LEMMA RoomMade ==
    ASSUME NEW S, NEW q \in Seq(S), IsInjective(q), Len(q) <= MaxProcs
    PROVE  /\ Room(q) \in Seq(S) /\ IsInjective(Room(q)) /\ Len(Room(q)) < MaxProcs
           /\ ToSet(Room(q)) \subseteq ToSet(q)
<1>1. Len(q) \in Nat /\ DOMAIN q = 1..Len(q)
  OBVIOUS
<1>2. CASE Len(q) >= MaxProcs
  <2>1. PICK n : n = MaxProcs - 1
    OBVIOUS
  <2>2. n \in Nat /\ n <= Len(q) /\ n < MaxProcs
    BY <1>1, <1>2, <2>1, SizeAssumption
  <2>3. PICK t : t = Room(q)
    OBVIOUS
  <2>4. t \in Seq(S) /\ Len(t) = n /\ DOMAIN t = 1..n /\ \A j \in 1..n : t[j] = q[j]
    BY <1>2, <2>1, <2>2, <2>3, Cut DEF Room
  <2>5. 1..n \subseteq 1..Len(q)
    BY <1>1, <2>2
  <2>6. QED
    BY <1>1, <2>2, <2>3, <2>4, <2>5 DEF IsInjective, ToSet
<1>3. CASE ~ Len(q) >= MaxProcs
  BY <1>1, <1>3, SizeAssumption DEF Room
<1>4. QED
  BY <1>2, <1>3

\* One entry of an id, within the limit.
Cached(q) ==
    /\ q \in Seq(Sha \X Info) /\ Len(q) <= MaxEntries
    /\ \A i, j \in DOMAIN q : q[i][1] = q[j][1] => i = j

LEMMA TouchedCached ==
    ASSUME NEW q, Cached(q), NEW want, NEW t \in Touched(q, want) PROVE Cached(t)
<1>1. q \in Seq(Sha \X Info) /\ Len(q) \in Nat /\ DOMAIN q = 1..Len(q)
  BY DEF Cached
<1>2. PICK f \in Injection(DOMAIN q, DOMAIN q) : t = [i \in DOMAIN q |-> q[f[i]]]
  BY DEF Touched
<1>3. f \in [1..Len(q) -> 1..Len(q)] /\ \A a, b \in 1..Len(q) : f[a] = f[b] => a = b
  BY <1>1 DEF Injection, IsInjective
<1>4. \A i \in 1..Len(q) : q[f[i]] \in Sha \X Info
  BY <1>1, <1>3
<1>5. t \in [1..Len(q) -> Sha \X Info]
  BY <1>1, <1>2, <1>4
<1>6. t \in Seq(Sha \X Info) /\ Len(t) = Len(q) /\ DOMAIN t = 1..Len(q)
  BY <1>1, <1>5
<1>7. \A i, j \in 1..Len(q) : q[i][1] = q[j][1] => i = j
  BY <1>1 DEF Cached
<1>8. ASSUME NEW i \in 1..Len(q), NEW j \in 1..Len(q), t[i][1] = t[j][1] PROVE i = j
  <2>1. t[i] = q[f[i]] /\ t[j] = q[f[j]]
    BY <1>1, <1>2
  <2>2. f[i] = f[j]
    BY <1>3, <1>7, <1>8, <2>1
  <2>3. QED
    BY <1>3, <2>2
<1>9. QED
  BY <1>6, <1>8 DEF Cached

LEMMA FrontedSeq ==
    ASSUME NEW q, Cached(q), NEW s \in Sha, NEW i \in Info, NEW t, t = Fronted(q, s, i)
    PROVE  t \in Seq(Sha \X Info) /\ \A a, b \in DOMAIN t : t[a][1] = t[b][1] => a = b
<1>1. q \in Seq(Sha \X Info) /\ Len(q) \in Nat /\ DOMAIN q = 1..Len(q)
  BY DEF Cached
<1>2. \A a, b \in 1..Len(q) : q[a][1] = q[b][1] => a = b
  BY <1>1 DEF Cached
<1>3. Entries(q, s) \subseteq DOMAIN q
  BY DEF Entries
<1>4. PICK u : u = Without(q, Entries(q, s))
  OBVIOUS
<1>5. /\ u \in Seq(Sha \X Info) /\ DOMAIN u = 1..Len(u) /\ Len(u) \in Nat
      /\ \A a \in 1..Len(u) : u[a][1] # s
      /\ \A a, b \in 1..Len(u) : u[a][1] = u[b][1] => a = b
  <2>1. CASE Entries(q, s) = {}
    <3>1. u = q
      BY <1>1, <1>3, <1>4, <2>1, WithoutSeq
    <3>2. \A a \in 1..Len(q) : q[a][1] # s
      BY <1>1, <2>1 DEF Entries
    <3>3. QED
      BY <1>1, <1>2, <3>1, <3>2
  <2>2. CASE Entries(q, s) # {}
    <3>1. PICK k \in Entries(q, s) :
              /\ u \in Seq(Sha \X Info) /\ Len(u) = Len(q) - 1 /\ DOMAIN u = 1..Len(q) - 1
              /\ \A j \in 1..Len(q) - 1 : u[j] = IF j < k THEN q[j] ELSE q[j + 1]
      <4> DEFINE w == Without(q, Entries(q, s))
      <4>1. Entries(q, s) \in SUBSET (DOMAIN q)
        BY <1>3
      <4> HIDE DEF w
      <4>2. \E k \in Entries(q, s) :
                /\ w \in Seq(Sha \X Info) /\ Len(w) = Len(q) - 1 /\ DOMAIN w = 1..Len(q) - 1
                /\ \A j \in 1..Len(q) - 1 : w[j] = IF j < k THEN q[j] ELSE q[j + 1]
        <5>1. PICK S : S = Sha \X Info
          OBVIOUS
        <5>2. q \in Seq(S)
          BY <1>1, <5>1
        <5>3. \E k \in Entries(q, s) :
                  /\ w \in Seq(S) /\ Len(w) = Len(q) - 1 /\ DOMAIN w = 1..Len(q) - 1
                  /\ \A j \in 1..Len(q) - 1 : w[j] = IF j < k THEN q[j] ELSE q[j + 1]
          BY <2>2, <4>1, <5>2, WithoutSeq DEF w
        <5>4. QED
          BY <5>1, <5>3
      <4>3. QED
        BY <1>4, <4>2 DEF w
    <3>2. k \in 1..Len(q) /\ q[k][1] = s
      BY <1>1 DEF Entries
    <3> DEFINE at(j) == IF j < k THEN j ELSE j + 1
    <3>3. \A j \in 1..Len(u) : u[j] = q[at(j)] /\ at(j) \in 1..Len(q) /\ at(j) # k
      BY <1>1, <3>1, <3>2
    <3>4. \A a, b \in 1..Len(u) : at(a) = at(b) => a = b
      BY <1>1, <3>1, <3>2
    <3>5. Len(u) \in Nat
      BY <3>1
    <3> HIDE DEF at
    <3>6. \A a \in 1..Len(u) : u[a][1] # s
      BY <1>2, <3>2, <3>3
    <3>7. \A a, b \in 1..Len(u) : u[a][1] = u[b][1] => a = b
      BY <1>2, <3>3, <3>4
    <3>8. QED
      BY <3>1, <3>5, <3>6, <3>7
  <2>3. QED
    BY <2>1, <2>2
<1>6. PICK e : e = <<s, i>>
  OBVIOUS
<1>7. e \in Sha \X Info /\ e[1] = s /\ t = <<e>> \o u
  BY <1>4, <1>6 DEF Fronted
<1>8. /\ t \in Seq(Sha \X Info) /\ Len(t) = Len(u) + 1 /\ DOMAIN t = 1..Len(u) + 1
      /\ t[1] = e /\ \A j \in 1..Len(u) : t[j + 1] = u[j]
  BY <1>5, <1>7, Pushed
<1>9. ASSUME NEW a \in 1..Len(u) + 1 PROVE a = 1 \/ \E j \in 1..Len(u) : a = j + 1 /\ t[a] = u[j]
  <2>1. CASE a # 1
    <3>1. a - 1 \in 1..Len(u) /\ a - 1 + 1 = a
      BY <1>5, <2>1
    <3>2. QED
      BY <1>8, <3>1
  <2>2. QED
    BY <2>1
<1>10. ASSUME NEW a \in 1..Len(u) + 1, NEW b \in 1..Len(u) + 1, t[a][1] = t[b][1] PROVE a = b
  BY <1>5, <1>7, <1>8, <1>9, <1>10
<1>11. QED
  BY <1>8, <1>10

LEMMA PutCached ==
    ASSUME NEW q, Cached(q), NEW s \in Sha, NEW i \in Info, NEW big \in BOOLEAN
    PROVE  Cached(AfterPut(q, s, i, big))
<1>1. PICK t : t = Fronted(q, s, i)
  OBVIOUS
<1>2. t \in Seq(Sha \X Info) /\ \A a, b \in DOMAIN t : t[a][1] = t[b][1] => a = b
  BY <1>1, FrontedSeq
<1>3. MaxEntries \in Nat /\ Len(t) \in Nat /\ DOMAIN t = 1..Len(t)
  BY <1>2, SizeAssumption
<1>4. CASE i = "found" /\ big
  BY <1>4 DEF AfterPut
<1>5. CASE ~(i = "found" /\ big) /\ Len(t) > MaxEntries
  <2>1. PICK u : u = SubSeq(t, 1, MaxEntries)
    OBVIOUS
  <2>2. u \in Seq(Sha \X Info) /\ Len(u) = MaxEntries /\ DOMAIN u = 1..MaxEntries
        /\ \A j \in 1..MaxEntries : u[j] = t[j]
    BY <1>2, <1>3, <1>5, <2>1, Cut
  <2>3. 1..MaxEntries \subseteq DOMAIN t
    BY <1>3, <1>5
  <2>4. Cached(u)
    BY <1>2, <1>3, <2>2, <2>3 DEF Cached
  <2>5. QED
    BY <1>1, <1>5, <2>1, <2>4 DEF AfterPut
<1>6. CASE ~(i = "found" /\ big) /\ ~ Len(t) > MaxEntries
  <2>1. Cached(t)
    BY <1>2, <1>3, <1>6 DEF Cached
  <2>2. QED
    BY <1>1, <1>6, <2>1 DEF AfterPut
<1>7. QED
  BY <1>4, <1>5, <1>6

-----------------------------------------------------------------------------
LEMMA LookupInitially == ASSUME LookupInit PROVE LookupInv
<1>1. LookupTypeOK
  BY SizeAssumption DEF LookupInit, LookupTypeOK
<1>2. Listed
  BY SizeAssumption DEF LookupInit, Listed, IsInjective, ToSet
<1>3. NoLeak /\ DeadIsLeaving /\ Answering
  BY DEF LookupInit, NoLeak, DeadIsLeaving, Answering, Holds
<1>4. QED
  BY <1>1, <1>2, <1>3 DEF LookupInv, PoolSound

LEMMA LookupTypes ==
    ASSUME LookupTypeOK
    PROVE  /\ NoLookup \notin Lookups /\ NoLookup.pc = "idle"
           /\ client \in [Client -> {NoLookup} \cup Lookups]
           /\ \A c \in Client : client[c] = NoLookup \/ client[c] \in Lookups
           /\ \A c \in Client : client[c].pc # "idle" => client[c] \in Lookups
           /\ objects \in [Repo -> SUBSET Sha] /\ procs \in [Repo -> Proc \cup {NoProc}]
           /\ crashes \in 0..MaxCrashes /\ MaxCrashes \in Nat /\ received \in 0..MaxReceived
           /\ unread \subseteq dead
           /\ dead \subseteq Proc /\ NoProc \notin dead /\ running \subseteq Proc /\ NoProc \notin running
BY SizeAssumption, NoProcAssumption DEF LookupTypeOK, NoLookup, Lookups

\* The limits and the lists, together.
LEMMA ListedCached == ASSUME LookupInv PROVE Cached(cached)
BY DEF LookupInv, LookupTypeOK, PoolSound, Listed, Cached

LEMMA ListedSame ==
    ASSUME LookupInv, UNCHANGED <<procs, lru>>, Cached(cached') PROVE Listed'
BY DEF LookupInv, PoolSound, Listed, Cached

\* A step of the lookup of c, the others' left alone.
LEMMA ClientStep ==
    ASSUME LookupInv, NEW c \in Client, NEW l \in {NoLookup} \cup Lookups,
           client' = [client EXCEPT ![c] = l], Holds(l)',
           \A r \in Repo : objects[r] \subseteq objects'[r],
           \A q \in Client \ {c} : client[q] # NoLookup =>
               \A r \in Repo : procs'[r] = client[q].proc =>
                   client[q].proc = NoProc \/ procs[r] = client[q].proc
    PROVE  /\ client' \in [Client -> {NoLookup} \cup Lookups] /\ client'[c] = l
           /\ \A q \in Client \ {c} : client'[q] = client[q]
           /\ Answering'
<1>1. /\ client' \in [Client -> {NoLookup} \cup Lookups] /\ client'[c] = l
      /\ \A q \in Client \ {c} : client'[q] = client[q]
  BY LookupTypes DEF LookupInv
<1>2. ASSUME NEW q \in Client \ {c} PROVE Holds(client[q])'
  <2>1. PICK k : k = client[q]
    OBVIOUS
  <2>2. CASE k = NoLookup
    BY <1>1, <2>1, <2>2 DEF Holds
  <2>3. CASE k # NoLookup
    <3>1. k \in Lookups /\ k.repo \in Repo
      BY <2>1, <2>3, LookupTypes DEF LookupInv, Lookups
    <3>2. Holds(k)
      BY <2>1 DEF LookupInv, Answering
    <3>3. Holds(k)'
      BY <2>1, <2>3, <3>1, <3>2 DEF Holds
    <3>4. QED
      BY <1>1, <2>1, <3>3
  <2>4. QED
    BY <2>2, <2>3
<1>3. Answering'
  BY <1>1, <1>2 DEF Answering
<1>4. QED
  BY <1>1, <1>3

\* The same where neither the objects nor the pool change.
LEMMA ClientOnly ==
    ASSUME LookupInv, NEW c \in Client, NEW l \in {NoLookup} \cup Lookups,
           client' = [client EXCEPT ![c] = l], Holds(l)', UNCHANGED <<objects, procs>>
    PROVE  /\ client' \in [Client -> {NoLookup} \cup Lookups] /\ client'[c] = l
           /\ \A q \in Client \ {c} : client'[q] = client[q]
           /\ Answering'
BY ClientStep

LEMMA LeavingStep ==
    ASSUME LookupInv, NEW c \in Client, \A q \in Client \ {c} : client'[q] = client[q],
           \A r \in Repo : procs'[r] \in dead' =>
               \/ procs[r] \in dead /\ ~(client[c].pc = "evict" /\ client[c].repo = r)
               \/ client'[c].pc = "evict" /\ client'[c].repo = r
    PROVE  DeadIsLeaving'
BY DEF LookupInv, PoolSound, DeadIsLeaving

-----------------------------------------------------------------------------
LEMMA ReceiveStep == ASSUME LookupInv, NEW r \in Repo, NEW s \in Sha, Receive(r, s) PROVE LookupInv'
<1>1. /\ received' \in 0..MaxReceived /\ objects' \in [Repo -> SUBSET Sha]
      /\ \A q \in Repo : objects[q] \subseteq objects'[q]
      /\ UNCHANGED <<cached, procs, lru, running, dead, unread, client, crashes>>
  BY LookupTypes, SizeAssumption DEF Receive, LookupInv
<1>2. LookupTypeOK'
  BY <1>1 DEF LookupInv, LookupTypeOK
<1>3. PoolSound'
  BY <1>1 DEF LookupInv, PoolSound, Listed, NoLeak, DeadIsLeaving
<1>4. ASSUME NEW c \in Client PROVE Holds(client[c])'
  <2>1. PICK k : k = client[c]
    OBVIOUS
  <2>2. Holds(k) /\ (k = NoLookup \/ k.repo \in Repo)
    BY <2>1, LookupTypes DEF LookupInv, Answering, Lookups
  <2>3. Holds(k)'
    BY <1>1, <2>2 DEF Holds
  <2>4. QED
    BY <1>1, <2>1, <2>3
<1>5. QED
  BY <1>1, <1>2, <1>3, <1>4 DEF LookupInv, Answering

LEMMA BeginStep ==
    ASSUME LookupInv, NEW c \in Client, NEW r \in Repo, NEW want \in SUBSET Sha, NEW batch \in BOOLEAN,
           Begin(c, r, want, batch)
    PROVE  LookupInv'
<1>1. /\ client[c] = NoLookup /\ cached' \in Touched(cached, want)
      /\ UNCHANGED <<objects, procs, lru, running, dead, unread, crashes, received>>
  BY DEF Begin
<1>2. Cached(cached')
  BY <1>1, ListedCached, TouchedCached
<1> DEFINE l == LookupOf(r, want \ Hits(want), batch)
<1>3. l \in Lookups /\ l.pc = "acquire" /\ l.proc = NoProc /\ l.floor \subseteq l.want
      /\ l.repo = r /\ l.floor \subseteq objects[r]
  BY LookupTypes DEF LookupOf, Lookups, LookupInv
<1>4. client' = client \/ client' = [client EXCEPT ![c] = l]
  BY DEF Begin
<1> HIDE DEF l
<1>5. CASE client' = client
  <2>1. LookupTypeOK'
    BY <1>1, <1>2, <1>5 DEF LookupInv, LookupTypeOK, Cached
  <2>2. NoLeak' /\ DeadIsLeaving' /\ Answering'
    BY <1>1, <1>5 DEF LookupInv, PoolSound, NoLeak, DeadIsLeaving, Answering, Holds
  <2>3. QED
    BY <1>1, <1>2, <2>1, <2>2, ListedSame DEF LookupInv, PoolSound
<1>6. CASE client' = [client EXCEPT ![c] = l]
  <2>1. PICK k : k = l
    OBVIOUS
  <2>2. Holds(k)'
    BY <1>1, <1>3, <2>1 DEF Holds
  <2>3. /\ client' \in [Client -> {NoLookup} \cup Lookups] /\ client'[c] = k
        /\ \A q \in Client \ {c} : client'[q] = client[q]
        /\ Answering'
    BY <1>1, <1>3, <1>6, <2>1, <2>2, ClientOnly
  <2>4. LookupTypeOK'
    BY <1>1, <1>2, <2>3 DEF LookupInv, LookupTypeOK, Cached
  <2>5. DeadIsLeaving'
    BY <1>1, <2>3, LeavingStep, LookupTypes DEF LookupInv
  <2>6. NoLeak'
    BY <1>1 DEF LookupInv, PoolSound, NoLeak
  <2>7. QED
    BY <1>1, <1>2, <2>3, <2>4, <2>5, <2>6, ListedSame DEF LookupInv, PoolSound
<1>7. QED
  BY <1>4, <1>5, <1>6

LEMMA PutStep == ASSUME LookupInv, NEW c \in Client, NEW s \in Sha, Put(c, s) PROVE LookupInv'
<1> DEFINE m == [client[c] EXCEPT !.want = client[c].want \ {s}, !.found = client[c].found \ {s},
                                  !.floor = client[c].floor \ {s}]
<1>1. /\ client[c].pc = "put" /\ s \in client[c].want
      /\ UNCHANGED <<objects, procs, lru, running, dead, unread, crashes, received>>
  BY DEF Put
<1>2. client[c] \in Lookups
  BY <1>1, LookupTypes DEF LookupInv
<1>3. Cached(cached')
  <2>1. PICK big \in BOOLEAN : cached' = AfterPut(cached, s, Answer(client[c], s), big)
    BY DEF Put
  <2>2. Answer(client[c], s) \in Info
    BY DEF Answer, Info
  <2>3. QED
    BY <2>1, <2>2, ListedCached, PutCached
<1>4. /\ m \in Lookups /\ m.pc = "put" /\ m.repo = client[c].repo /\ m.proc = client[c].proc
      /\ m.want = client[c].want \ {s} /\ m.found = client[c].found \ {s}
      /\ m.floor = client[c].floor \ {s} /\ m.astray = client[c].astray
  BY <1>1, <1>2 DEF Lookups
<1>5. client' = [client EXCEPT ![c] = NoLookup] \/ client' = [client EXCEPT ![c] = m]
  <2>1. client' = [client EXCEPT ![c] = IF client[c].want = {s} THEN NoLookup ELSE m]
    BY <1>2, LookupTypes DEF Put, Answered, LookupInv
  <2> HIDE DEF m
  <2>2. QED
    BY <2>1
<1> HIDE DEF m
<1>6. PICK l \in {NoLookup, m} : client' = [client EXCEPT ![c] = l]
  BY <1>5
<1>7. Holds(l)'
  <2>1. Holds(client[c]) /\ client[c] # NoLookup
    BY <1>2, LookupTypes DEF LookupInv, Answering
  <2>2. CASE l = m
    BY <1>1, <1>4, <2>1, <2>2 DEF Holds
  <2>3. CASE l = NoLookup
    BY <2>3 DEF Holds
  <2>4. QED
    BY <2>2, <2>3
<1>8. /\ client' \in [Client -> {NoLookup} \cup Lookups]
      /\ \A q \in Client \ {c} : client'[q] = client[q]
      /\ Answering'
  BY <1>1, <1>4, <1>6, <1>7, ClientOnly
<1>9. LookupTypeOK'
  BY <1>1, <1>3, <1>8 DEF LookupInv, LookupTypeOK, Cached
<1>10. DeadIsLeaving'
  BY <1>1, <1>8, LeavingStep
<1>11. NoLeak'
  BY <1>1 DEF LookupInv, PoolSound, NoLeak
<1>12. QED
  BY <1>1, <1>3, <1>8, <1>9, <1>10, <1>11, ListedSame DEF LookupInv, PoolSound

\* A step of the lookup of c that leaves the lists as they are.
LEMMA QueryStep ==
    ASSUME LookupInv, NEW c \in Client, NEW l \in {NoLookup} \cup Lookups,
           client' = [client EXCEPT ![c] = l], Holds(l)', client[c].pc # "evict",
           UNCHANGED <<objects, cached, procs, lru, running, received>>,
           crashes' \in 0..MaxCrashes, dead' \subseteq Proc, unread' \subseteq dead',
           \A r \in Repo : procs[r] \in dead' /\ procs[r] \notin dead => l.pc = "evict" /\ l.repo = r
    PROVE  LookupInv'
<1>1. /\ client' \in [Client -> {NoLookup} \cup Lookups] /\ client'[c] = l
      /\ \A q \in Client \ {c} : client'[q] = client[q]
      /\ Answering'
  BY ClientOnly
<1>2. LookupTypeOK'
  BY <1>1 DEF LookupInv, LookupTypeOK
<1>3. DeadIsLeaving'
  BY <1>1, LeavingStep
<1>4. NoLeak'
  BY DEF LookupInv, PoolSound, NoLeak
<1>5. QED
  BY <1>1, <1>2, <1>3, <1>4, ListedSame, ListedCached DEF LookupInv, PoolSound

LEMMA AcquireWarmStep == ASSUME LookupInv, NEW c \in Client, AcquireWarm(c) PROVE LookupInv'
<1>1. PICK r : r = client[c].repo
  OBVIOUS
<1>2. PICK p : p = procs[r]
  OBVIOUS
<1>3. /\ client[c].pc = "acquire" /\ p # NoProc /\ lru' = <<r>> \o Without(lru, Index(lru, r))
      /\ client' = [client EXCEPT ![c].pc = "query", ![c].proc = p]
      /\ UNCHANGED <<objects, cached, procs, running, dead, unread, crashes, received>>
  BY <1>1, <1>2 DEF AcquireWarm
<1>4. client[c] \in Lookups /\ r \in Repo /\ p \in Proc
  BY <1>1, <1>2, <1>3, LookupTypes DEF LookupInv, Lookups
<1> DEFINE m == [client[c] EXCEPT !.pc = "query", !.proc = p]
<1>5. client' = [client EXCEPT ![c] = m]
  BY <1>3, LookupTypes DEF LookupInv
<1>6. PICK l \in Lookups : /\ l = m /\ l.pc = "query" /\ l.proc = p /\ l.repo = r
                          /\ l.want = client[c].want /\ l.floor = client[c].floor
  <2>1. /\ m \in Lookups /\ m.pc = "query" /\ m.proc = p /\ m.repo = r
        /\ m.want = client[c].want /\ m.floor = client[c].floor
    BY <1>1, <1>4 DEF Lookups
  <2> HIDE DEF m
  <2>2. QED
    BY <2>1
<1> HIDE DEF m
<1>7. Holds(l)'
  <2>1. Holds(client[c]) /\ client[c] # NoLookup
    BY <1>4, LookupTypes DEF LookupInv, Answering
  <2>2. \A q \in Repo : procs[q] = p => q = r
    BY <1>2, <1>3, <1>4 DEF LookupInv, PoolSound, Listed
  <2>3. QED
    BY <1>1, <1>3, <1>6, <2>1, <2>2 DEF Holds
<1>8. /\ client' \in [Client -> {NoLookup} \cup Lookups]
      /\ \A q \in Client \ {c} : client'[q] = client[q]
      /\ Answering'
  BY <1>3, <1>5, <1>6, <1>7, ClientOnly
<1>9. lru' \in Seq(Repo) /\ IsInjective(lru') /\ ToSet(lru') = ToSet(lru) /\ Len(lru') <= MaxProcs
  <2>1. lru \in Seq(Repo) /\ IsInjective(lru) /\ r \in ToSet(lru) /\ Len(lru) <= MaxProcs
    BY <1>2, <1>3, <1>4 DEF LookupInv, LookupTypeOK, PoolSound, Listed
  <2>2. PICK rest : rest = Without(lru, Index(lru, r))
    OBVIOUS
  <2>3. rest \in Seq(Repo) /\ IsInjective(rest) /\ ToSet(rest) = ToSet(lru) \ {r} /\ Len(rest) = Len(lru) - 1
    BY <2>1, <2>2, Unlisted
  <2>4. /\ lru' \in Seq(Repo) /\ IsInjective(lru') /\ ToSet(lru') = ToSet(rest) \cup {r}
        /\ Len(lru') = Len(rest) + 1
    <3>1. PICK u : u = lru'
      OBVIOUS
    <3>2. r \in Repo /\ rest \in Seq(Repo) /\ IsInjective(rest) /\ r \notin ToSet(rest) /\ u = <<r>> \o rest
      BY <1>3, <1>4, <2>2, <2>3, <3>1
    <3>3. u \in Seq(Repo) /\ IsInjective(u)
      BY <3>2, PushedNew
    <3>4. Len(u) = Len(rest) + 1
      BY <3>2, PushedNew
    <3>5. \A x : x \in ToSet(u) <=> x \in ToSet(rest) \/ x = r
      BY <3>2, PushedNew
    <3>6. ToSet(u) = ToSet(rest) \cup {r}
      BY <3>5
    <3>7. QED
      BY <3>1, <3>3, <3>4, <3>6
  <2>5. Len(lru) \in Nat
    BY <2>1
  <2>6. QED
    BY <2>1, <2>3, <2>4, <2>5
<1>10. LookupTypeOK'
  BY <1>3, <1>8, <1>9 DEF LookupInv, LookupTypeOK
<1>11. Listed'
  BY <1>3, <1>9 DEF LookupInv, PoolSound, Listed
<1>12. DeadIsLeaving'
  BY <1>3, <1>8, LeavingStep
<1>13. NoLeak'
  BY <1>3 DEF LookupInv, PoolSound, NoLeak
<1>14. QED
  BY <1>8, <1>10, <1>11, <1>12, <1>13 DEF LookupInv, PoolSound

\* acquire makes room: what it leaves of the pool.
LEMMA RoomKept ==
    ASSUME LookupInv
    PROVE  /\ Room(lru) \in Seq(Repo) /\ IsInjective(Room(lru)) /\ Len(Room(lru)) < MaxProcs
           /\ \A x \in ToSet(Room(lru)) : x \in Repo /\ procs[x] # NoProc
<1>1. lru \in Seq(Repo) /\ IsInjective(lru) /\ Len(lru) <= MaxProcs
      /\ ToSet(lru) = {r \in Repo : procs[r] # NoProc}
  BY DEF LookupInv, LookupTypeOK, PoolSound, Listed
<1>2. QED
  BY <1>1, RoomMade

LEMMA AcquireColdStep == ASSUME LookupInv, NEW c \in Client, NEW p \in Proc, AcquireCold(c, p) PROVE LookupInv'
<1>1. PICK r : r = client[c].repo
  OBVIOUS
<1>2. PICK kept : kept = ToSet(Room(lru))
  OBVIOUS
<1>3. PICK room : room = Room(lru)
  OBVIOUS
<1>4. /\ client[c].pc = "acquire" /\ procs[r] = NoProc /\ Collected(p) /\ lru' = <<r>> \o room
      /\ procs' = [x \in Repo |-> IF x = r THEN p ELSE IF x \in kept THEN procs[x] ELSE NoProc]
      /\ running' = (running \ {procs[x] : x \in Repo \ kept}) \cup {p} /\ dead' = dead \ {p}
      /\ unread' = unread \ {p}
      /\ client' = [client EXCEPT ![c].pc = "query", ![c].proc = p]
      /\ UNCHANGED <<objects, cached, crashes, received>>
  BY <1>1, <1>2, <1>3 DEF AcquireCold
<1>5. client[c] \in Lookups /\ r \in Repo /\ p # NoProc
  BY <1>1, <1>4, LookupTypes, NoProcAssumption DEF LookupInv, Lookups
<1>6. /\ \A x \in Repo : procs[x] # p
      /\ \A q \in Client : client[q] # NoLookup => client[q].proc # p
  BY <1>4 DEF Collected, Borrows, Busy
<1>7. /\ room \in Seq(Repo) /\ IsInjective(room) /\ Len(room) < MaxProcs /\ ToSet(room) = kept
      /\ kept \subseteq Repo /\ r \notin kept /\ \A x \in kept : procs[x] # NoProc
  BY <1>2, <1>3, <1>4, RoomKept
<1>8. /\ procs' \in [Repo -> Proc \cup {NoProc}] /\ procs'[r] = p
      /\ \A x \in kept : x # r /\ procs'[x] = procs[x]
      /\ \A x \in Repo \ (kept \cup {r}) : procs'[x] = NoProc
  BY <1>4, <1>5, <1>7, LookupTypes DEF LookupInv
<1> DEFINE m == [client[c] EXCEPT !.pc = "query", !.proc = p]
<1>9. client' = [client EXCEPT ![c] = m]
  BY <1>4, LookupTypes DEF LookupInv
<1>10. PICK l \in Lookups : /\ l = m /\ l.pc = "query" /\ l.proc = p /\ l.repo = r
                           /\ l.want = client[c].want /\ l.floor = client[c].floor
  <2>1. /\ m \in Lookups /\ m.pc = "query" /\ m.proc = p /\ m.repo = r
        /\ m.want = client[c].want /\ m.floor = client[c].floor
    BY <1>1, <1>5 DEF Lookups
  <2> HIDE DEF m
  <2>2. QED
    BY <2>1
<1> HIDE DEF m
<1>11. Holds(l)'
  <2>1. Holds(client[c]) /\ client[c] # NoLookup
    BY <1>5, LookupTypes DEF LookupInv, Answering
  <2>2. \A x \in Repo : procs'[x] = p => x = r
    BY <1>5, <1>6, <1>8
  <2>3. QED
    BY <1>1, <1>4, <1>5, <1>10, <2>1, <2>2 DEF Holds
<1>12. /\ client' \in [Client -> {NoLookup} \cup Lookups]
       /\ \A q \in Client \ {c} : client'[q] = client[q]
       /\ Answering'
  <2>1. \A q \in Client \ {c} : client[q] # NoLookup =>
            \A x \in Repo : procs'[x] = client[q].proc =>
                client[q].proc = NoProc \/ procs[x] = client[q].proc
    BY <1>6, <1>8
  <2>2. QED
    BY <1>4, <1>9, <1>10, <1>11, <2>1, ClientStep
<1>13. lru' \in Seq(Repo) /\ IsInjective(lru') /\ ToSet(lru') = kept \cup {r} /\ Len(lru') <= MaxProcs
  <2>1. /\ lru' \in Seq(Repo) /\ IsInjective(lru') /\ ToSet(lru') = kept \cup {r}
        /\ Len(lru') = Len(room) + 1
    <3>1. PICK u : u = lru'
      OBVIOUS
    <3>2. r \notin ToSet(room) /\ u = <<r>> \o room
      BY <1>4, <1>7, <3>1
    <3>3. /\ u \in Seq(Repo) /\ IsInjective(u) /\ Len(u) = Len(room) + 1
          /\ \A x : x \in ToSet(u) <=> x \in ToSet(room) \/ x = r
      BY <1>5, <1>7, <3>2, PushedNew
    <3>4. ToSet(u) = kept \cup {r}
      BY <1>7, <3>3
    <3>5. QED
      BY <3>1, <3>3, <3>4
  <2>2. Len(room) \in Nat /\ MaxProcs \in Nat
    BY <1>7, SizeAssumption
  <2>3. QED
    BY <1>7, <2>1, <2>2
<1>14. running' \subseteq Proc /\ dead' \subseteq Proc /\ unread' \subseteq dead'
  BY <1>4, LookupTypes DEF LookupInv
<1>15. LookupTypeOK'
  BY <1>4, <1>8, <1>12, <1>13, <1>14 DEF LookupInv, LookupTypeOK
<1>16. Listed'
  <2>1. ToSet(lru') = {x \in Repo : procs'[x] # NoProc}
    BY <1>5, <1>7, <1>8, <1>13
  <2>2. ASSUME NEW x \in Repo, NEW y \in Repo, procs'[x] = procs'[y], x # y PROVE procs'[x] = NoProc
    BY <1>6, <1>8, <2>2 DEF LookupInv, PoolSound, Listed
  <2>3. QED
    BY <1>4, <1>13, <2>1, <2>2 DEF LookupInv, PoolSound, Listed
<1>17. NoLeak'
  <2>1. ASSUME NEW q \in running', q # p PROVE \E x \in Repo : procs'[x] = q
    <3>1. q \in running /\ q \notin {procs[x] : x \in Repo \ kept}
      BY <1>4, <2>1
    <3>2. PICK x \in Repo : procs[x] = q
      BY <3>1 DEF LookupInv, PoolSound, NoLeak
    <3>3. x \in kept
      BY <3>1, <3>2
    <3>4. QED
      BY <1>8, <3>2, <3>3
  <2>2. QED
    BY <1>5, <1>8, <2>1 DEF NoLeak
<1>18. DeadIsLeaving'
  <2>1. \A x \in Repo : procs'[x] \in dead' => procs[x] \in dead
    BY <1>4, <1>8, LookupTypes DEF LookupInv
  <2>2. QED
    BY <1>4, <1>12, <2>1, LeavingStep
<1>19. QED
  BY <1>12, <1>15, <1>16, <1>17, <1>18 DEF LookupInv, PoolSound

\* What follows a lookup the pool could not serve.
LEMMA FallsBack ==
    ASSUME NEW l \in Lookups, Holds(l)
    PROVE  /\ Fallback(l) \in {NoLookup} \cup Lookups
           /\ Fallback(l) = NoLookup \/
                  /\ Fallback(l).pc = "spawn" /\ Fallback(l).proc = NoProc /\ Fallback(l).repo = l.repo
                  /\ Fallback(l).want = l.want /\ Fallback(l).floor = l.floor
BY NoProcAssumption DEF Fallback, Lookups

LEMMA AcquireFailsStep == ASSUME LookupInv, NEW c \in Client, AcquireFails(c) PROVE LookupInv'
<1>1. PICK kept : kept = ToSet(Room(lru))
  OBVIOUS
<1>2. PICK room : room = Room(lru)
  OBVIOUS
<1>3. /\ client[c].pc = "acquire" /\ crashes < MaxCrashes /\ crashes' = crashes + 1 /\ lru' = room
      /\ procs' = [x \in Repo |-> IF x \in kept THEN procs[x] ELSE NoProc]
      /\ running' = running \ {procs[x] : x \in Repo \ kept}
      /\ client' = [client EXCEPT ![c] = Fallback(client[c])]
      /\ UNCHANGED <<objects, cached, dead, unread, received>>
  BY <1>1, <1>2 DEF AcquireFails
<1>4. client[c] \in Lookups /\ Holds(client[c]) /\ crashes' \in 0..MaxCrashes
  BY <1>3, LookupTypes DEF LookupInv, Answering
<1>5. /\ room \in Seq(Repo) /\ IsInjective(room) /\ Len(room) < MaxProcs /\ ToSet(room) = kept
      /\ kept \subseteq Repo /\ \A x \in kept : procs[x] # NoProc
  BY <1>1, <1>2, RoomKept
<1>6. /\ procs' \in [Repo -> Proc \cup {NoProc}]
      /\ \A x \in kept : procs'[x] = procs[x]
      /\ \A x \in Repo \ kept : procs'[x] = NoProc
  BY <1>3, <1>5, LookupTypes DEF LookupInv
<1>7. PICK l \in {NoLookup} \cup Lookups :
          /\ l = Fallback(client[c])
          /\ l = NoLookup \/
                  /\ l.pc = "spawn" /\ l.proc = NoProc /\ l.repo = client[c].repo
                  /\ l.want = client[c].want /\ l.floor = client[c].floor
  BY <1>4, FallsBack
<1>8. Holds(l)'
  BY <1>3, <1>4, <1>7, LookupTypes DEF Holds, LookupInv
<1>9. /\ client' \in [Client -> {NoLookup} \cup Lookups]
      /\ \A q \in Client \ {c} : client'[q] = client[q]
      /\ Answering'
  <2>1. \A q \in Client \ {c} : client[q] # NoLookup =>
            \A x \in Repo : procs'[x] = client[q].proc =>
                client[q].proc = NoProc \/ procs[x] = client[q].proc
    BY <1>6
  <2>2. client' = [client EXCEPT ![c] = l]
    BY <1>3, <1>7
  <2>3. QED
    BY <1>3, <1>8, <2>1, <2>2, ClientStep
<1>10. LookupTypeOK'
  BY <1>3, <1>4, <1>5, <1>6, <1>9 DEF LookupInv, LookupTypeOK
<1>11. Listed'
  <2>1. ToSet(lru') = {x \in Repo : procs'[x] # NoProc}
    BY <1>3, <1>5, <1>6
  <2>2. ASSUME NEW x \in Repo, NEW y \in Repo, procs'[x] = procs'[y], x # y PROVE procs'[x] = NoProc
    BY <1>6, <2>2 DEF LookupInv, PoolSound, Listed
  <2>3. Len(room) \in Nat /\ MaxProcs \in Nat
    BY <1>5, SizeAssumption
  <2>4. QED
    BY <1>3, <1>5, <2>1, <2>2, <2>3 DEF LookupInv, PoolSound, Listed
<1>12. NoLeak'
  <2>1. ASSUME NEW q \in running' PROVE \E x \in Repo : procs'[x] = q
    <3>1. q \in running /\ q \notin {procs[x] : x \in Repo \ kept}
      BY <1>3, <2>1
    <3>2. PICK x \in Repo : procs[x] = q
      BY <3>1 DEF LookupInv, PoolSound, NoLeak
    <3>3. QED
      BY <1>6, <3>1, <3>2
  <2>2. QED
    BY <2>1 DEF NoLeak
<1>13. DeadIsLeaving'
  <2>1. \A x \in Repo : procs'[x] \in dead' => procs[x] \in dead
    BY <1>3, <1>6, LookupTypes DEF LookupInv
  <2>2. QED
    BY <1>3, <1>9, <2>1, LeavingStep
<1>14. QED
  BY <1>9, <1>10, <1>11, <1>12, <1>13 DEF LookupInv, PoolSound

LEMMA QueryAnswersStep == ASSUME LookupInv, NEW c \in Client, QueryAnswers(c) PROVE LookupInv'
<1>1. PICK k : k = client[c]
  OBVIOUS
<1>2. PICK seen : seen = k.want \cap objects[k.repo]
  OBVIOUS
<1>3. k.pc = "query" /\ UNCHANGED <<objects, cached, procs, lru, running, dead, unread, crashes, received>>
  BY <1>1 DEF QueryAnswers
<1>4. k \in Lookups /\ Holds(k) /\ k # NoLookup /\ seen \in SUBSET Sha
  BY <1>1, <1>2, <1>3, LookupTypes DEF LookupInv, Answering, Lookups
<1> DEFINE f == [k EXCEPT !.found = seen]
           a == [f EXCEPT !.pc = "evict", !.failed = FALSE]
           b == [f EXCEPT !.pc = "put", !.proc = NoProc]
<1>5. client' = [client EXCEPT ![c] = a] \/ client' = [client EXCEPT ![c] = b]
  BY <1>1, <1>2 DEF QueryAnswers, AfterQuery
<1>6. /\ f \in Lookups /\ f.found = seen /\ f.want = k.want /\ f.floor = k.floor /\ f.repo = k.repo
      /\ f.proc = k.proc
  BY <1>4 DEF Lookups
<1> HIDE DEF f
<1>7. /\ a \in Lookups /\ a.pc = "evict" /\ a.proc = k.proc /\ a.found = seen /\ a.want = k.want
      /\ a.floor = k.floor /\ a.repo = k.repo
  BY <1>6 DEF Lookups
<1>8. /\ b \in Lookups /\ b.pc = "put" /\ b.proc = NoProc /\ b.found = seen /\ b.want = k.want
      /\ b.floor = k.floor /\ b.repo = k.repo
  BY <1>6 DEF Lookups
<1> HIDE DEF a, b
<1>9. PICK l \in Lookups :
          /\ client' = [client EXCEPT ![c] = l] /\ l.found = seen /\ l.want = k.want
          /\ l.floor = k.floor /\ l.repo = k.repo
          /\ \/ l.pc = "evict" /\ l.proc = k.proc
             \/ l.pc = "put" /\ l.proc = NoProc
  BY <1>5, <1>7, <1>8
<1>10. /\ k.floor \subseteq k.want /\ k.floor \subseteq objects[k.repo] /\ k.proc # NoProc
       /\ \A r \in Repo : procs[r] = k.proc => r = k.repo
  BY <1>3, <1>4 DEF Holds
<1>11. Holds(l)'
  BY <1>2, <1>3, <1>9, <1>10 DEF Holds
<1>12. QED
  BY <1>1, <1>3, <1>9, <1>11, QueryStep, LookupTypes DEF LookupInv

LEMMA QueryAstrayStep == ASSUME LookupInv, NEW c \in Client, QueryAstray(c) PROVE LookupInv'
<1>1. PICK k : k = client[c]
  OBVIOUS
<1>2. k.pc = "query" /\ UNCHANGED <<objects, cached, procs, lru, running, dead, unread, crashes, received>>
  BY <1>1 DEF QueryAstray
<1>3. k \in Lookups /\ Holds(k) /\ k # NoLookup
  BY <1>1, <1>2, LookupTypes DEF LookupInv, Answering
<1>4. PICK seen \in SUBSET k.want :
          client' = [client EXCEPT ![c] =
                       AfterQuery([k EXCEPT !.found = seen, !.astray = TRUE], FALSE, k.proc \in dead)]
  BY <1>1 DEF QueryAstray
<1> DEFINE f == [k EXCEPT !.found = seen, !.astray = TRUE]
           a == [f EXCEPT !.pc = "evict", !.failed = FALSE]
           b == [f EXCEPT !.pc = "put", !.proc = NoProc]
<1>5. client' = [client EXCEPT ![c] = a] \/ client' = [client EXCEPT ![c] = b]
  BY <1>4 DEF AfterQuery
<1>6. /\ f \in Lookups /\ f.astray /\ f.want = k.want /\ f.floor = k.floor /\ f.repo = k.repo
      /\ f.proc = k.proc
  BY <1>3 DEF Lookups
<1> HIDE DEF f
<1>7. /\ a \in Lookups /\ a.pc = "evict" /\ a.proc = k.proc /\ a.astray /\ a.want = k.want
      /\ a.floor = k.floor /\ a.repo = k.repo
  BY <1>6 DEF Lookups
<1>8. /\ b \in Lookups /\ b.pc = "put" /\ b.proc = NoProc /\ b.astray /\ b.want = k.want
      /\ b.floor = k.floor /\ b.repo = k.repo
  BY <1>6 DEF Lookups
<1> HIDE DEF a, b
<1>9. PICK l \in Lookups :
          /\ client' = [client EXCEPT ![c] = l] /\ l.astray /\ l.want = k.want
          /\ l.floor = k.floor /\ l.repo = k.repo
          /\ \/ l.pc = "evict" /\ l.proc = k.proc
             \/ l.pc = "put" /\ l.proc = NoProc
  BY <1>5, <1>7, <1>8
<1>10. /\ k.floor \subseteq k.want /\ k.floor \subseteq objects[k.repo] /\ k.proc # NoProc
       /\ \A r \in Repo : procs[r] = k.proc => r = k.repo
  BY <1>2, <1>3 DEF Holds
<1>11. Holds(l)'
  BY <1>2, <1>9, <1>10 DEF Holds
<1>12. QED
  BY <1>1, <1>2, <1>9, <1>11, QueryStep, LookupTypes DEF LookupInv

\* A query that fails: its process is marked, and the lookup goes to evict it.
LEMMA MarkedStep ==
    ASSUME LookupInv, NEW c \in Client, client[c].pc = "query", crashes' \in 0..MaxCrashes,
           dead' = dead \cup {client[c].proc}, unread' \subseteq dead',
           client' = [client EXCEPT ![c] = AfterQuery(client[c], TRUE, TRUE)],
           UNCHANGED <<objects, cached, procs, lru, running, received>>
    PROVE  LookupInv'
<1>1. PICK k : k = client[c]
  OBVIOUS
<1>2. k \in Lookups /\ Holds(k) /\ k # NoLookup /\ k.pc = "query"
  BY <1>1, LookupTypes DEF LookupInv, Answering
<1>3. /\ k.floor \subseteq k.want /\ k.floor \subseteq objects[k.repo] /\ k.proc # NoProc /\ k.proc \in Proc
      /\ \A r \in Repo : procs[r] = k.proc => r = k.repo
  BY <1>2 DEF Holds, Lookups
<1> DEFINE m == [k EXCEPT !.pc = "evict", !.failed = TRUE]
<1>4. client' = [client EXCEPT ![c] = m]
  BY <1>1 DEF AfterQuery
<1>5. /\ m \in Lookups /\ m.pc = "evict" /\ m.proc = k.proc /\ m.failed /\ m.want = k.want
      /\ m.floor = k.floor /\ m.repo = k.repo
  BY <1>2 DEF Lookups
<1> HIDE DEF m
<1>6. PICK l \in Lookups :
          /\ client' = [client EXCEPT ![c] = l] /\ l.pc = "evict" /\ l.proc = k.proc /\ l.failed
          /\ l.want = k.want /\ l.floor = k.floor /\ l.repo = k.repo
  BY <1>4, <1>5
<1>7. Holds(l)'
  BY <1>3, <1>6 DEF Holds
<1>8. /\ dead' \subseteq Proc
      /\ \A r \in Repo : procs[r] \in dead' /\ procs[r] \notin dead => l.pc = "evict" /\ l.repo = r
  BY <1>1, <1>3, <1>6, LookupTypes DEF LookupInv
<1>9. QED
  BY <1>1, <1>2, <1>6, <1>7, <1>8, QueryStep

LEMMA QueryFailsStep == ASSUME LookupInv, NEW c \in Client, QueryFails(c) PROVE LookupInv'
<1>1. crashes' \in 0..MaxCrashes /\ unread' \subseteq dead'
  BY LookupTypes DEF QueryFails, LookupInv
<1>2. QED
  BY <1>1, MarkedStep DEF QueryFails

LEMMA QueryGarbledStep == ASSUME LookupInv, NEW c \in Client, QueryGarbled(c) PROVE LookupInv'
<1>1. crashes' \in 0..MaxCrashes /\ unread' \subseteq dead'
  BY LookupTypes DEF QueryGarbled, LookupInv
<1>2. QED
  BY <1>1, MarkedStep DEF QueryGarbled

LEMMA EvictStep == ASSUME LookupInv, NEW c \in Client, Evict(c) PROVE LookupInv'
<1>1. PICK k : k = client[c]
  OBVIOUS
<1>2. PICK r : r = k.repo
  OBVIOUS
<1>3. PICK rest : rest = Without(lru, Index(lru, r))
  OBVIOUS
<1>4. /\ k.pc = "evict" /\ running' = running \ {procs[r]} /\ procs' = [procs EXCEPT ![r] = NoProc]
      /\ lru' = rest
      /\ client' = [client EXCEPT ![c] = IF k.failed THEN Fallback(k)
                                        ELSE [k EXCEPT !.pc = "put", !.proc = NoProc]]
      /\ UNCHANGED <<objects, cached, dead, unread, crashes, received>>
  BY <1>1, <1>2, <1>3 DEF Evict, EvictedFrom
<1>5. k \in Lookups /\ Holds(k) /\ k # NoLookup /\ r \in Repo
  BY <1>1, <1>2, <1>4, LookupTypes DEF LookupInv, Answering, Lookups
<1>6. /\ k.floor \subseteq k.want /\ k.floor \subseteq objects[r]
      /\ ~k.failed /\ ~k.astray => k.floor \subseteq k.found /\ k.found \subseteq objects[r]
  BY <1>2, <1>4, <1>5 DEF Holds
<1>7. PICK l \in {NoLookup} \cup Lookups :
          /\ client' = [client EXCEPT ![c] = l]
          /\ \/ l = NoLookup
             \/ /\ l.proc = NoProc /\ l.repo = r /\ l.want = k.want /\ l.floor = k.floor
                /\ \/ l.pc = "spawn"
                   \/ l.pc = "put" /\ l.found = k.found /\ l.astray = k.astray /\ ~k.failed
  <2>1. CASE k.failed
    <3>1. client' = [client EXCEPT ![c] = Fallback(k)]
      BY <1>4, <2>1
    <3>2. QED
      BY <1>2, <1>5, <3>1, FallsBack
  <2>2. CASE ~k.failed
    <3> DEFINE m == [k EXCEPT !.pc = "put", !.proc = NoProc]
    <3>1. client' = [client EXCEPT ![c] = m]
      BY <1>4, <2>2
    <3>2. /\ m \in Lookups /\ m.pc = "put" /\ m.proc = NoProc /\ m.repo = r /\ m.want = k.want
          /\ m.floor = k.floor /\ m.found = k.found /\ m.astray = k.astray
      BY <1>2, <1>5 DEF Lookups
    <3> HIDE DEF m
    <3>3. QED
      BY <2>2, <3>1, <3>2
  <2>3. QED
    BY <2>1, <2>2
<1>8. Holds(l)'
  BY <1>4, <1>6, <1>7 DEF Holds
<1>9. /\ procs' \in [Repo -> Proc \cup {NoProc}] /\ procs'[r] = NoProc
      /\ \A x \in Repo \ {r} : procs'[x] = procs[x]
  BY <1>4, <1>5, LookupTypes DEF LookupInv
<1>10. /\ client' \in [Client -> {NoLookup} \cup Lookups]
       /\ \A q \in Client \ {c} : client'[q] = client[q]
       /\ Answering'
  <2>1. \A q \in Client \ {c} : client[q] # NoLookup =>
            \A x \in Repo : procs'[x] = client[q].proc =>
                client[q].proc = NoProc \/ procs[x] = client[q].proc
    BY <1>9
  <2>2. QED
    BY <1>4, <1>7, <1>8, <2>1, ClientStep
<1>11. rest \in Seq(Repo) /\ IsInjective(rest) /\ ToSet(rest) = ToSet(lru) \ {r} /\ Len(rest) <= MaxProcs
  <2>1. lru \in Seq(Repo) /\ IsInjective(lru) /\ Len(lru) <= MaxProcs
    BY DEF LookupInv, LookupTypeOK, PoolSound, Listed
  <2>2. rest \in Seq(Repo) /\ IsInjective(rest) /\ ToSet(rest) = ToSet(lru) \ {r} /\ Len(rest) <= Len(lru)
    BY <1>3, <2>1, Unlisted
  <2>3. Len(rest) \in Nat /\ Len(lru) \in Nat /\ MaxProcs \in Nat
    BY <2>1, <2>2, SizeAssumption
  <2>4. QED
    BY <2>1, <2>2, <2>3
<1>12. LookupTypeOK'
  BY <1>4, <1>9, <1>10, <1>11 DEF LookupInv, LookupTypeOK
<1>13. Listed'
  <2>1. ToSet(lru') = {x \in Repo : procs'[x] # NoProc}
    BY <1>4, <1>9, <1>11 DEF LookupInv, PoolSound, Listed
  <2>2. ASSUME NEW x \in Repo, NEW y \in Repo, procs'[x] = procs'[y], x # y PROVE procs'[x] = NoProc
    BY <1>9, <2>2 DEF LookupInv, PoolSound, Listed
  <2>3. QED
    BY <1>4, <1>11, <2>1, <2>2 DEF LookupInv, PoolSound, Listed
<1>14. NoLeak'
  BY <1>4, <1>9 DEF LookupInv, PoolSound, NoLeak
<1>15. DeadIsLeaving'
  <2>1. \A x \in Repo : procs'[x] \in dead' => procs[x] \in dead /\ x # r
    BY <1>4, <1>9, LookupTypes DEF LookupInv
  <2>2. QED
    BY <1>1, <1>2, <1>10, <2>1, LeavingStep
<1>16. QED
  BY <1>10, <1>12, <1>13, <1>14, <1>15 DEF LookupInv, PoolSound

LEMMA SpawnStep == ASSUME LookupInv, NEW c \in Client, Spawn(c) PROVE LookupInv'
<1>1. PICK k : k = client[c]
  OBVIOUS
<1>2. PICK seen : seen = k.want \cap objects[k.repo]
  OBVIOUS
<1> DEFINE m == [k EXCEPT !.pc = "put", !.found = seen]
<1>3. /\ k.pc = "spawn" /\ client' = [client EXCEPT ![c] = m]
      /\ UNCHANGED <<objects, cached, procs, lru, running, dead, unread, crashes, received>>
  BY <1>1, <1>2 DEF Spawn
<1>4. k \in Lookups /\ Holds(k) /\ k # NoLookup /\ seen \in SUBSET Sha
  BY <1>1, <1>2, <1>3, LookupTypes DEF LookupInv, Answering, Lookups
<1>5. /\ m \in Lookups /\ m.pc = "put" /\ m.proc = k.proc /\ m.found = seen /\ m.want = k.want
      /\ m.floor = k.floor /\ m.repo = k.repo
  BY <1>4 DEF Lookups
<1> HIDE DEF m
<1>6. PICK l \in Lookups :
          /\ client' = [client EXCEPT ![c] = l] /\ l.pc = "put" /\ l.proc = k.proc /\ l.found = seen
          /\ l.want = k.want /\ l.floor = k.floor /\ l.repo = k.repo
  BY <1>3, <1>5
<1>7. k.floor \subseteq k.want /\ k.floor \subseteq objects[k.repo] /\ k.proc = NoProc
  BY <1>3, <1>4 DEF Holds
<1>8. Holds(l)'
  BY <1>2, <1>3, <1>6, <1>7 DEF Holds
<1>9. QED
  BY <1>1, <1>3, <1>6, <1>8, QueryStep, LookupTypes DEF LookupInv

LEMMA SpawnFailsStep == ASSUME LookupInv, NEW c \in Client, SpawnFails(c) PROVE LookupInv'
<1>1. PICK l \in {NoLookup} : client' = [client EXCEPT ![c] = l]
  BY DEF SpawnFails
<1>2. Holds(l)' /\ crashes' \in 0..MaxCrashes
  BY LookupTypes DEF Holds, SpawnFails, LookupInv
<1>3. QED
  BY <1>1, <1>2, QueryStep, LookupTypes DEF SpawnFails, LookupInv

LEMMA CrashStep == ASSUME LookupInv, NEW p \in Proc, Crash(p) PROVE LookupInv'
<1>1. /\ crashes' \in 0..MaxCrashes /\ running' \subseteq running
      /\ UNCHANGED <<objects, cached, procs, lru, dead, unread, client, received>>
  BY LookupTypes DEF Crash, LookupInv
<1>2. QED
  BY <1>1 DEF LookupInv, LookupTypeOK, PoolSound, Listed, NoLeak, DeadIsLeaving, Answering, Holds

LEMMA CloseAllStep == ASSUME LookupInv, CloseAll PROVE LookupInv'
<1>1. /\ running' = running \ {procs[r] : r \in Repo} /\ procs' = [r \in Repo |-> NoProc] /\ lru' = << >>
      /\ UNCHANGED <<objects, cached, dead, unread, client, crashes, received>>
  BY DEF CloseAll
<1>2. running' = {}
  BY <1>1 DEF LookupInv, PoolSound, NoLeak
<1>3. LookupTypeOK'
  BY <1>1, <1>2 DEF LookupInv, LookupTypeOK
<1>4. Listed'
  BY <1>1, SizeAssumption DEF LookupInv, PoolSound, Listed, IsInjective, ToSet
<1>5. NoLeak' /\ DeadIsLeaving'
  BY <1>1, <1>2, LookupTypes DEF NoLeak, DeadIsLeaving, LookupInv
<1>6. Answering'
  BY <1>1 DEF LookupInv, Answering, Holds
<1>7. QED
  BY <1>3, <1>4, <1>5, <1>6 DEF LookupInv, PoolSound

LEMMA LookupSteps == ASSUME LookupInv, [LookupNext]_lookupVars PROVE LookupInv'
<1>1. CASE UNCHANGED lookupVars
  BY <1>1 DEF lookupVars, LookupInv, LookupTypeOK, PoolSound, Listed, NoLeak, DeadIsLeaving, Answering, Holds
<1>2. ASSUME NEW c \in Client, NEW r \in Repo, Request(c, r) PROVE LookupInv'
  <2>1. \A s \in Sha : {s} \in SUBSET Sha
    OBVIOUS
  <2>2. QED
    BY <1>2, <2>1, BeginStep DEF Request
<1>3. ASSUME NEW c \in Client, Go(c) PROVE LookupInv'
  BY <1>3, PutStep, AcquireWarmStep, AcquireColdStep, QueryAnswersStep, QueryAstrayStep,
     QueryFailsStep, EvictStep, SpawnStep DEF Go
<1>4. CASE Faults
  BY <1>4, AcquireFailsStep, QueryGarbledStep, SpawnFailsStep, CrashStep DEF Faults
<1>5. QED
  BY <1>1, <1>2, <1>3, <1>4, ReceiveStep, CloseAllStep DEF LookupNext

\* The invariant of the pool, the cache and the lookups.
THEOREM LookupsKept == LookupSpec => []LookupInv
<1>1. QED
  BY LookupInitially, LookupSteps, PTL DEF LookupSpec

\* The pool's list and map agree within their limit, nothing runs outside it and what
\* died in it is being evicted, whatever lookups, crashes and evictions cross
\* (acquire, evict and close of git/pool.go).
THEOREM PoolKeepsItsBooks == LookupSpec => []PoolSound
<1>1. LookupInv => PoolSound
  BY DEF LookupInv
<1>2. QED
  BY <1>1, LookupsKept, PTL

\* No process death turns into a false answer: what is remembered as found is there,
\* what is remembered as missing was not there when the lookup began, unless a
\* garbled batch had left its process out of step with its queries and another
\* goroutine asked it before its eviction (lookup and lookupBatch of git/pool.go,
\* catFileLookup of git/repo_write.go).
THEOREM AnswersAreFresh == LookupSpec => []FreshAnswer
<1>1. ASSUME LookupInv PROVE FreshAnswer
  <2>1. ASSUME NEW c \in Client, client[c].pc = "put", ~client[c].astray
        PROVE  client[c].floor \subseteq client[c].found
               /\ client[c].found \subseteq objects[client[c].repo]
    BY <1>1, <2>1, LookupTypes DEF LookupInv, Answering, Holds
  <2>2. QED
    BY <2>1 DEF FreshAnswer
<1>2. QED
  BY <1>1, LookupsKept, PTL

-----------------------------------------------------------------------------
(* The two together.                                                       *)

\* A step of one leaves the other as it was, so a behaviour of the two together is a
\* behaviour of each.
LEMMA EachPart == StoreSpec => LookupSpec /\ BranchSpec
<1>1. StoreInit => LookupInit /\ BranchInit
  BY DEF StoreInit
<1>2. [StoreNext]_storeVars => [LookupNext]_lookupVars /\ [BranchNext]_branchVars
  BY DEF StoreNext, storeVars
<1>3. QED
  BY <1>1, <1>2, PTL DEF StoreSpec, LookupSpec, BranchSpec

\* Whichever of the two moves (lookups through the process pool and caches of
\* git/pool.go, writes of contents and refs), every state has the types of both.
THEOREM StoreTypeCorrect == StoreSpec => []StoreTypeOK
<1>1. LookupTypeOK /\ BranchTypeOK => StoreTypeOK
  BY DEF StoreTypeOK
<1>2. LookupInv => LookupTypeOK
  BY DEF LookupInv
<1>3. QED
  BY EachPart, LookupsKept, BranchTypeCorrect, <1>1, <1>2, PTL
=============================================================================
