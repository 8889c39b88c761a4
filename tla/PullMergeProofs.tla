--------------------------- MODULE PullMergeProofs --------------------------
(***************************************************************************)
(* Proofs about PullMerge for any issues, pull requests, commits, requests *)
(* and restarts.                                                           *)
(*                                                                         *)
(* The heart of the argument is CopiesAgree: a copy of an issue row that   *)
(* still has the row's lock_version is the row, and a Merge request whose  *)
(* copy has it is about a pull request that is open and not merged.  So a  *)
(* transaction that passes the optimistic lock decided on the present.     *)
(***************************************************************************)
EXTENDS PullMerge, FiniteSetTheorems, TLAPS

OpenIssues == {i \in Issue : issues[i].state = "open"}

\* A copied row of issue i is an earlier version of it, or is it.
CopyOf(i, row) ==
    /\ issues[i].state # "none"
    /\ row.state # "none"
    /\ row.version <= issues[i].version
    /\ row.version = issues[i].version => row = issues[i]

CopiesAgree ==
    /\ \A m \in Merger : merger[m] # Idle =>
          /\ CopyOf(merger[m].pull, merger[m].row)
          /\ merger[m].row.state = "open"
          /\ merger[m].row.version = issues[merger[m].pull].version => ~Merged(merger[m].pull)
    /\ \A e \in Editor : editor[e] # Idle => CopyOf(editor[e].issue, editor[e].row)

IInv == TypeOK /\ OpenCountExact /\ CopiesAgree

USE PullAssumption, IssueAssumption, HeadAssumption, PushAssumption, NoneAssumption,
    KeepAssumption, BoundsAssumption

LEMMA MergingFact ==
    ASSUME TypeOK, NEW m \in Merger, merger[m].pc # "idle"
    PROVE  /\ merger[m] \in Merging /\ merger[m] # Idle
           /\ merger[m].pull \in Pull /\ merger[m].pull \in Issue
           /\ merger[m].row \in IssueRow
BY DEF TypeOK, Idle, Merging

LEMMA EditingFact ==
    ASSUME TypeOK, NEW e \in Editor, editor[e].pc # "idle"
    PROVE  /\ editor[e] \in Editing /\ editor[e] # Idle
           /\ editor[e].issue \in Issue
           /\ editor[e].patch \in Patch
           /\ editor[e].row \in IssueRow
BY DEF TypeOK, Idle, Editing

\* Writing one row moves the number of open issues by what the row's state says.
LEMMA OpenCountMoves ==
    ASSUME TypeOK, OpenCountExact, NEW i \in Issue, NEW row,
           issues' = [issues EXCEPT ![i] = row],
           openCount' = openCount + (IF row.state = "open" THEN 1 ELSE 0)
                                  - (IF issues[i].state = "open" THEN 1 ELSE 0)
    PROVE  OpenCountExact'
<1>1. IsFiniteSet(OpenIssues) /\ openCount = Cardinality(OpenIssues)
  <2>1. OpenIssues \subseteq Issue
    BY DEF OpenIssues
  <2>2. QED
    BY <2>1, FS_Subset DEF OpenCountExact, OpenIssues
<1>2. Cardinality(OpenIssues) \in Nat
  BY <1>1, FS_CardinalityType
<1>3. CASE row.state = "open" /\ issues[i].state # "open"
  <2>1. OpenIssues' = OpenIssues \cup {i} /\ i \notin OpenIssues
    BY <1>3 DEF OpenIssues, TypeOK
  <2>2. Cardinality(OpenIssues') = Cardinality(OpenIssues) + 1
    BY <1>1, <2>1, FS_AddElement
  <2>3. QED
    BY <1>1, <1>2, <1>3, <2>2 DEF OpenCountExact, OpenIssues
<1>4. CASE row.state # "open" /\ issues[i].state = "open"
  <2>1. OpenIssues' = OpenIssues \ {i} /\ i \in OpenIssues
    BY <1>4 DEF OpenIssues, TypeOK
  <2>2. Cardinality(OpenIssues') = Cardinality(OpenIssues) - 1
    BY <1>1, <2>1, FS_RemoveElement
  <2>3. QED
    BY <1>1, <1>2, <1>4, <2>2 DEF OpenCountExact, OpenIssues
<1>5. CASE (row.state = "open") <=> (issues[i].state = "open")
  <2>1. OpenIssues' = OpenIssues
    BY <1>5 DEF OpenIssues, TypeOK
  <2>2. openCount' = openCount
    BY <1>1, <1>2, <1>5
  <2>3. QED
    BY <1>1, <2>1, <2>2 DEF OpenCountExact, OpenIssues
<1>6. QED
  BY <1>3, <1>4, <1>5

-----------------------------------------------------------------------------
LEMMA InitIInv == Init => IInv
<1>1. SUFFICES ASSUME Init PROVE IInv
  OBVIOUS
<1>2. TypeOK
  BY <1>1 DEF Init, TypeOK, Tip, IssueRow, Idle
<1>3. OpenCountExact
  <2>1. {i \in Issue : issues[i].state = "open"} = {}
    BY <1>1 DEF Init
  <2>2. QED
    BY <1>1, <2>1, FS_EmptySet DEF Init, OpenCountExact
<1>4. CopiesAgree
  BY <1>1 DEF Init, CopiesAgree, Idle
<1>5. QED
  BY <1>2, <1>3, <1>4 DEF IInv

-----------------------------------------------------------------------------
(* Steps that write no issue row. *)

\* A step that leaves the tables alone keeps the count, and the copies of every
\* request that it does not start or rewrite.
LEMMA RowsAlone ==
    ASSUME IInv, TypeOK', UNCHANGED <<issues, pulls, openCount>>,
           \A m \in Merger : \/ merger'[m] = Idle
                             \/ /\ merger[m] # Idle
                                /\ merger'[m].pull = merger[m].pull
                                /\ merger'[m].row = merger[m].row
                             \/ /\ CopyOf(merger'[m].pull, merger'[m].row)
                                /\ merger'[m].row.state = "open"
                                /\ ~Merged(merger'[m].pull),
           \A e \in Editor : \/ editor'[e] = Idle
                             \/ /\ editor[e] # Idle
                                /\ editor'[e].issue = editor[e].issue
                                /\ editor'[e].row = editor[e].row
                             \/ CopyOf(editor'[e].issue, editor'[e].row)
    PROVE  IInv'
<1>1. OpenCountExact'
  BY DEF IInv, OpenCountExact
<1>2. \A k, row : CopyOf(k, row) => CopyOf(k, row)'
  BY DEF CopyOf
<1>3. ASSUME NEW m \in Merger, merger'[m] # Idle
      PROVE  /\ CopyOf(merger[m].pull, merger[m].row)'
             /\ merger'[m].row.state = "open"
             /\ merger'[m].row.version = issues'[merger'[m].pull].version
                   => ~Merged(merger[m].pull)'
  BY <1>3 DEF IInv, CopiesAgree, CopyOf, Merged
<1>4. ASSUME NEW e \in Editor, editor'[e] # Idle
      PROVE  CopyOf(editor[e].issue, editor[e].row)'
  BY <1>4 DEF IInv, CopiesAgree, CopyOf
<1>5. CopiesAgree'
  BY <1>3, <1>4 DEF CopiesAgree
<1>6. QED
  BY <1>1, <1>5 DEF IInv

LEMMA PushBaseKeeps ==
    ASSUME IInv, NEW c \in Change, PushBase(c)
    PROVE  IInv'
<1>1. TypeOK'
  BY DEF IInv, TypeOK, PushBase, Tip, Commit
<1>2. QED
  BY <1>1, RowsAlone DEF PushBase

LEMMA MergeLoadKeeps ==
    ASSUME IInv, NEW m \in Merger, NEW p \in Pull,
           NEW method \in {"merge", "squash", "rebase"}, MergeLoad(m, p, method)
    PROVE  IInv'
<1> DEFINE r == [pc |-> "readTip", pull |-> p, row |-> issues[p], method |-> method,
                 baseTip |-> {}, sha |-> {}, old |-> {}]
<1>1. p \in Issue /\ issues[p] \in IssueRow
  BY DEF IInv, TypeOK
<1>2. r \in Merging
  BY <1>1 DEF Merging, Tip
<1>3. TypeOK'
  BY <1>2 DEF IInv, TypeOK, MergeLoad
<1>4. CopyOf(p, issues[p])
  BY <1>1 DEF CopyOf, MergeLoad, IssueRow
<1>5. \A k \in Merger : k # m => merger'[k] = merger[k]
  BY DEF IInv, TypeOK, MergeLoad
<1>6. merger'[m].pull = p /\ merger'[m].row = issues[p]
  BY DEF IInv, TypeOK, MergeLoad
<1>7. QED
  BY <1>3, <1>4, <1>5, <1>6, RowsAlone DEF MergeLoad

\* A Merge request that reads or swaps refs keeps its pull and its row copy.
LEMMA MergeGitKeeps ==
    ASSUME IInv, NEW m \in Merger,
           MergeReadTip(m) \/ MergeObjects(m) \/ MergeReadOld(m) \/ MergeSwap(m)
    PROVE  IInv'
<1>1. /\ merger[m] \in Merging /\ merger[m] # Idle
      /\ merger[m].pull \in Pull
  BY MergingFact DEF IInv, MergeReadTip, MergeObjects, MergeReadOld, MergeSwap
<1>2. /\ base' \in Tip
      /\ merger'[m] \in {Idle} \cup Merging
      /\ merger'[m] # Idle => /\ merger'[m].pull = merger[m].pull
                              /\ merger'[m].row = merger[m].row
      /\ \A k \in Merger : k # m => merger'[k] = merger[k]
      /\ merger' \in [Merger -> {Idle} \cup Merging]
  <2>1. CASE MergeReadTip(m)
    BY <1>1, <2>1 DEF IInv, TypeOK, MergeReadTip, Merging
  <2>2. CASE MergeObjects(m)
    <3> DEFINE head == HeadOf[merger[m].pull]
               sha == MergeOf(merger[m].method, merger[m].baseTip, head, <<m, merger[m].pull>>)
               new == [merger[m] EXCEPT !.pc = "readOld", !.sha = sha]
    <3>1. head \in SUBSET Change /\ <<m, merger[m].pull>> \in MergeCommit
      BY <1>1 DEF MergeCommit
    <3>2. merger[m].baseTip \in SUBSET Commit
      BY <1>1 DEF Merging, Tip
    <3>3. sha \in Tip
      BY <3>1, <3>2 DEF MergeOf, Tip, Commit
    <3>4. new \in Merging /\ new.pull = merger[m].pull /\ new.row = merger[m].row
      <4> HIDE DEF sha
      <4>1. QED
        BY <1>1, <3>3 DEF Merging
    <3>5. merger' = [merger EXCEPT ![m] = new] \/ merger' = [merger EXCEPT ![m] = Idle]
      BY <2>2 DEF MergeObjects
    <3>6. QED
      <4> HIDE DEF new
      <4>1. QED
        BY <2>2, <3>4, <3>5 DEF IInv, TypeOK, MergeObjects
  <2>3. CASE MergeReadOld(m)
    BY <1>1, <2>3 DEF IInv, TypeOK, MergeReadOld, Merging
  <2>4. CASE MergeSwap(m)
    BY <1>1, <2>4 DEF IInv, TypeOK, MergeSwap, Merging
  <2>5. QED
    BY <2>1, <2>2, <2>3, <2>4
<1>3. UNCHANGED <<issues, pulls, openCount, editor, edits, faults>>
  BY DEF MergeReadTip, MergeObjects, MergeReadOld, MergeSwap
<1>4. TypeOK'
  BY <1>2, <1>3 DEF IInv, TypeOK
<1>5. QED
  BY <1>1, <1>2, <1>3, <1>4, RowsAlone

LEMMA EditReadKeeps ==
    ASSUME IInv, NEW e \in Editor,
           EditReload(e) \/ \E i \in Issue, patch \in Patch : EditBegin(e, i, patch)
    PROVE  IInv'
<1>1. CASE EditReload(e)
  <2>1. editor[e] \in Editing /\ editor[e] # Idle /\ editor[e].issue \in Issue
    BY <1>1, EditingFact DEF IInv, EditReload
  <2>2. issues[editor[e].issue] \in IssueRow /\ issues[editor[e].issue].state # "none"
    BY <2>1 DEF IInv, TypeOK, CopiesAgree, CopyOf
  <2>3. editor' \in [Editor -> {Idle} \cup Editing]
    BY <1>1, <2>1, <2>2 DEF IInv, TypeOK, EditReload, Editing
  <2>4. TypeOK'
    BY <1>1, <2>3 DEF IInv, TypeOK, EditReload
  <2>5. /\ editor'[e].issue = editor[e].issue
        /\ editor'[e].row = issues[editor[e].issue]
        /\ \A k \in Editor : k # e => editor'[k] = editor[k]
    BY <1>1, <2>1 DEF IInv, TypeOK, EditReload, Editing
  <2>6. CopyOf(editor'[e].issue, editor'[e].row)
    BY <2>2, <2>5 DEF CopyOf, IssueRow
  <2>7. QED
    BY <1>1, <2>4, <2>5, <2>6, RowsAlone DEF EditReload
<1>2. ASSUME NEW i \in Issue, NEW patch \in Patch, EditBegin(e, i, patch)
      PROVE  IInv'
  <2> DEFINE r == [pc |-> "commit", issue |-> i, patch |-> patch, row |-> issues[i]]
  <2>1. issues[i] \in IssueRow
    BY DEF IInv, TypeOK
  <2>2. r \in Editing
    BY <2>1 DEF Editing
  <2>3. edits' \in 0..MaxEdits
    BY <1>2 DEF IInv, TypeOK, EditBegin
  <2>4. TypeOK'
    BY <1>2, <2>2, <2>3 DEF IInv, TypeOK, EditBegin
  <2>5. /\ editor'[e].issue = i /\ editor'[e].row = issues[i]
        /\ \A k \in Editor : k # e => editor'[k] = editor[k]
    BY <1>2 DEF IInv, TypeOK, EditBegin
  <2>6. CopyOf(editor'[e].issue, editor'[e].row)
    BY <1>2, <2>1, <2>5 DEF CopyOf, IssueRow, EditBegin
  <2>7. QED
    BY <1>2, <2>4, <2>5, <2>6, RowsAlone DEF EditBegin
<1>3. QED
  BY <1>1, <1>2

LEMMA RestartKeeps ==
    ASSUME IInv, Restart
    PROVE  IInv'
<1>1. TypeOK'
  BY DEF IInv, TypeOK, Restart
<1>2. QED
  BY <1>1, RowsAlone DEF Restart

-----------------------------------------------------------------------------
(* Steps that write an issue row. *)

\* No request holds a copy of an issue that is not there yet.
LEMMA CreateIssueKeeps ==
    ASSUME IInv, NEW i \in Issue, CreateIssue(i)
    PROVE  IInv'
<1> DEFINE row == [issues[i] EXCEPT !.state = "open"]
<1>1. issues[i] \in IssueRow /\ row \in IssueRow /\ row.state = "open"
  BY DEF IInv, TypeOK, IssueRow
<1>2. issues' = [issues EXCEPT ![i] = row]
  BY DEF CreateIssue, IInv, TypeOK
<1>3. TypeOK'
  <2> HIDE DEF row
  <2>1. QED
    BY <1>1, <1>2 DEF IInv, TypeOK, CreateIssue
<1>4. OpenCountExact'
  <2>1. openCount' = openCount + (IF row.state = "open" THEN 1 ELSE 0)
                               - (IF issues[i].state = "open" THEN 1 ELSE 0)
    BY <1>1 DEF CreateIssue, IInv, TypeOK
  <2> HIDE DEF row
  <2>2. QED
    BY <1>2, <2>1, OpenCountMoves DEF IInv
<1>5. CopiesAgree'
  <2>1. \A k, copy : k \in Issue /\ CopyOf(k, copy) => CopyOf(k, copy)' /\ issues'[k] = issues[k]
    BY DEF CreateIssue, CopyOf, IInv, TypeOK
  <2>2. ASSUME NEW m \in Merger, merger'[m] # Idle
        PROVE  /\ CopyOf(merger[m].pull, merger[m].row)'
               /\ merger'[m].row.state = "open"
               /\ merger'[m].row.version = issues'[merger'[m].pull].version
                     => ~Merged(merger[m].pull)'
    <3>1. merger' = merger /\ pulls' = pulls /\ merger[m].pull \in Issue
      BY <2>2 DEF CreateIssue, IInv, TypeOK, Merging
    <3>2. QED
      BY <2>1, <2>2, <3>1 DEF IInv, CopiesAgree, Merged
  <2>3. ASSUME NEW e \in Editor, editor'[e] # Idle
        PROVE  CopyOf(editor[e].issue, editor[e].row)'
    <3>1. editor' = editor /\ editor[e].issue \in Issue
      BY <2>3 DEF CreateIssue, IInv, TypeOK, Editing
    <3>2. QED
      BY <2>1, <2>3, <3>1 DEF IInv, CopiesAgree
  <2>4. QED
    BY <2>2, <2>3 DEF CopiesAgree
<1>6. QED
  BY <1>3, <1>4, <1>5 DEF IInv

\* A row written under the lock: requests that go on keep an older copy of it,
\* and a Merge request that still has the newest copy of its own issue is about
\* a pull request this step did not touch.
LEMMA LockedWriteKeeps ==
    ASSUME IInv, NEW i \in Issue, NEW row \in IssueRow,
           row.state # "none", row.version = issues[i].version + 1,
           issues' = [issues EXCEPT ![i] = row],
           \A p \in Pull : p # i => pulls'[p] = pulls[p],
           \A m \in Merger : merger'[m] = Idle \/ merger'[m] = merger[m],
           \A e \in Editor : editor'[e] = Idle \/ editor'[e] = editor[e]
    PROVE  CopiesAgree'
<1>1. ASSUME NEW k \in Issue, NEW copy \in IssueRow, CopyOf(k, copy)
      PROVE  /\ issues'[k].state # "none" /\ copy.state # "none"
             /\ copy.version <= issues'[k].version
             /\ copy.version = issues'[k].version => (copy = issues'[k] /\ k # i)
  <2>1. issues[i].version \in Nat /\ copy.version \in Nat
    BY DEF IInv, TypeOK, IssueRow
  <2>2. CASE k = i
    BY <1>1, <2>1, <2>2 DEF CopyOf, IInv, TypeOK
  <2>3. CASE k # i
    BY <1>1, <2>3 DEF CopyOf, IInv, TypeOK
  <2>4. QED
    BY <2>2, <2>3
<1>2. ASSUME NEW m \in Merger, merger'[m] # Idle
      PROVE  /\ CopyOf(merger[m].pull, merger[m].row)'
             /\ merger'[m].row.state = "open"
             /\ merger'[m].row.version = issues'[merger'[m].pull].version
                   => ~Merged(merger[m].pull)'
  <2>1. merger'[m] = merger[m] /\ merger[m] # Idle
    BY <1>2
  <2>2. merger[m].pull \in Pull /\ merger[m].pull \in Issue /\ merger[m].row \in IssueRow
    BY <2>1 DEF IInv, TypeOK, Merging
  <2>3. CopyOf(merger[m].pull, merger[m].row) /\ merger[m].row.state = "open"
    BY <2>1 DEF IInv, CopiesAgree
  <2>4. /\ CopyOf(merger[m].pull, merger[m].row)'
        /\ merger[m].row.version = issues'[merger[m].pull].version => merger[m].pull # i
    BY <1>1, <2>1, <2>2, <2>3 DEF CopyOf
  <2>5. ASSUME merger[m].row.version = issues'[merger[m].pull].version
        PROVE  pulls'[merger[m].pull] = None
    <3>1. merger[m].pull # i
      BY <2>4, <2>5
    <3>2. issues'[merger[m].pull] = issues[merger[m].pull]
      BY <2>2, <3>1 DEF IInv, TypeOK
    <3>3. ~Merged(merger[m].pull)
      BY <2>1, <2>5, <3>2 DEF IInv, CopiesAgree
    <3>4. QED
      BY <2>2, <3>1, <3>3 DEF Merged
  <2>6. QED
    BY <2>1, <2>3, <2>4, <2>5 DEF Merged
<1>3. ASSUME NEW e \in Editor, editor'[e] # Idle
      PROVE  CopyOf(editor[e].issue, editor[e].row)'
  <2>1. editor'[e] = editor[e] /\ editor[e] # Idle
    BY <1>3
  <2>2. /\ editor[e].issue \in Issue /\ editor[e].row \in IssueRow
        /\ CopyOf(editor[e].issue, editor[e].row)
    BY <2>1 DEF IInv, TypeOK, Editing, CopiesAgree
  <2>3. QED
    BY <1>1, <2>1, <2>2 DEF CopyOf
<1>4. QED
  BY <1>2, <1>3 DEF CopiesAgree

LEMMA MergeRecordKeeps ==
    ASSUME IInv, NEW m \in Merger, MergeRecord(m)
    PROVE  IInv'
<1> DEFINE p == merger[m].pull
           row == [state |-> "closed", title |-> merger[m].row.title,
                   version |-> issues[p].version + 1]
<1>1. /\ merger[m] # Idle /\ p \in Pull /\ p \in Issue
      /\ merger[m].row \in IssueRow /\ issues[p] \in IssueRow
  <2>1. TypeOK /\ merger[m].pc # "idle"
    BY DEF IInv, MergeRecord
  <2>2. QED
    BY <2>1, MergingFact DEF TypeOK
<1>2. row \in IssueRow /\ row.state = "closed" /\ row.version = issues[p].version + 1
  BY <1>1 DEF IssueRow
<1>3. /\ merger' \in [Merger -> {Idle} \cup Merging]
      /\ \A k \in Merger : merger'[k] = Idle \/ merger'[k] = merger[k]
  BY DEF MergeRecord, IInv, TypeOK
<1>4. CASE RowUnmoved(p, merger[m].row)
  <2>1. /\ issues' = [issues EXCEPT ![p] = row]
        /\ pulls' = [pulls EXCEPT ![p] = <<m, p>>]
        /\ openCount' = openCount - 1
    BY <1>4 DEF MergeRecord, WriteIssue
  <2>2. issues[p].state = "open"
    BY <1>1, <1>4 DEF IInv, CopiesAgree, CopyOf, RowUnmoved
  <2>3. openCount \in Int
    BY DEF IInv, TypeOK
  <2>4. openCount' = openCount + (IF row.state = "open" THEN 1 ELSE 0)
                               - (IF issues[p].state = "open" THEN 1 ELSE 0)
    BY <2>1, <2>2, <2>3
  <2>5. <<m, p>> \in MergeCommit
    BY <1>1 DEF MergeCommit
  <2> HIDE DEF row, p
  <2>6. OpenCountExact'
    BY <1>1, <2>1, <2>4, OpenCountMoves DEF IInv
  <2>7. TypeOK'
    BY <1>1, <1>2, <1>3, <2>1, <2>3, <2>5 DEF IInv, TypeOK, MergeRecord
  <2>8. /\ \A q \in Pull : q # p => pulls'[q] = pulls[q]
        /\ \A e \in Editor : editor'[e] = editor[e]
    BY <1>1, <2>1 DEF MergeRecord, IInv, TypeOK
  <2>9. CopiesAgree'
    BY <1>1, <1>2, <1>3, <2>1, <2>8, LockedWriteKeeps
  <2>10. QED
    BY <2>6, <2>7, <2>9 DEF IInv
<1>5. CASE ~RowUnmoved(p, merger[m].row)
  <2>1. UNCHANGED <<base, issues, pulls, openCount, editor, edits, faults>>
    BY <1>5 DEF MergeRecord
  <2>2. TypeOK'
    BY <1>3, <2>1 DEF IInv, TypeOK
  <2>3. QED
    BY <1>3, <2>1, <2>2, RowsAlone
<1>6. QED
  BY <1>4, <1>5

LEMMA EditCommitKeeps ==
    ASSUME IInv, NEW e \in Editor, EditCommit(e)
    PROVE  IInv'
<1> DEFINE i == editor[e].issue
           old == editor[e].row
           patch == editor[e].patch
           row == [state |-> NewState(old, patch), title |-> NewTitle(old, patch),
                   version |-> issues[i].version + 1]
<1>1. /\ editor[e] \in Editing /\ editor[e] # Idle
      /\ i \in Issue /\ old \in IssueRow /\ patch \in Patch /\ issues[i] \in IssueRow
  <2>1. TypeOK /\ editor[e].pc # "idle"
    BY DEF IInv, EditCommit
  <2>2. QED
    BY <2>1, EditingFact DEF TypeOK
<1>2. CopyOf(i, old) /\ old.state # "none"
  BY <1>1 DEF IInv, CopiesAgree, CopyOf
<1>3. NewState(old, patch) \in {"open", "closed"} /\ NewTitle(old, patch) \in Title
  BY <1>1, <1>2 DEF NewState, NewTitle, Patch, IssueRow
<1>4. /\ row \in IssueRow /\ row.state = NewState(old, patch)
      /\ row.version = issues[i].version + 1
  <2>1. issues[i].version + 1 \in Nat
    BY <1>1 DEF IssueRow
  <2>2. QED
    BY <1>3, <2>1 DEF IssueRow
<1>5. CASE RowUnmoved(i, old)
  <2>1. /\ issues' = [issues EXCEPT ![i] = row]
        /\ openCount' = openCount + OpenDelta(old, patch)
        /\ editor' = [editor EXCEPT ![e] = Idle]
        /\ UNCHANGED <<base, pulls, merger, edits, faults>>
    BY <1>5 DEF EditCommit, WriteIssue
  <2>2. old.state = issues[i].state
    BY <1>2, <1>5 DEF CopyOf, RowUnmoved
  <2>3. openCount \in Int
    BY DEF IInv, TypeOK
  <2>4. openCount' = openCount + (IF row.state = "open" THEN 1 ELSE 0)
                               - (IF issues[i].state = "open" THEN 1 ELSE 0)
    BY <1>1, <1>2, <1>4, <2>1, <2>2, <2>3 DEF OpenDelta, NewState, Patch, IssueRow
  <2>5. openCount' \in Int
    BY <2>1, <2>3 DEF OpenDelta
  <2> HIDE DEF row, i, old, patch
  <2>6. OpenCountExact'
    BY <1>1, <2>1, <2>4, OpenCountMoves DEF IInv
  <2>7. TypeOK'
    BY <1>1, <1>4, <2>1, <2>5 DEF IInv, TypeOK
  <2>8. /\ \A k \in Editor : editor'[k] = Idle \/ editor'[k] = editor[k]
        /\ \A m \in Merger : merger'[m] = merger[m]
        /\ \A q \in Pull : pulls'[q] = pulls[q]
    BY <2>1 DEF IInv, TypeOK
  <2>9. row.state # "none"
    BY <1>3, <1>4
  <2>10. CopiesAgree'
    BY <1>1, <1>4, <2>1, <2>8, <2>9, LockedWriteKeeps
  <2>11. QED
    BY <2>6, <2>7, <2>10 DEF IInv
<1>6. CASE ~RowUnmoved(i, old)
  <2>1. /\ UNCHANGED <<base, issues, pulls, openCount, merger, edits, faults>>
        /\ editor' = [editor EXCEPT ![e].pc = "load"]
    BY <1>6 DEF EditCommit
  <2>2. [editor[e] EXCEPT !.pc = "load"] \in Editing
    BY <1>1 DEF Editing
  <2>3. TypeOK'
    BY <2>1, <2>2 DEF IInv, TypeOK
  <2>4. /\ editor'[e].issue = i /\ editor'[e].row = old
        /\ \A k \in Editor : k # e => editor'[k] = editor[k]
    BY <1>1, <2>1 DEF IInv, TypeOK, Editing
  <2>5. QED
    BY <1>1, <2>1, <2>3, <2>4, RowsAlone
<1>7. QED
  BY <1>5, <1>6

-----------------------------------------------------------------------------
LEMMA NextKeeps == IInv /\ [Next]_vars => IInv'
<1>1. SUFFICES ASSUME IInv, [Next]_vars PROVE IInv'
  OBVIOUS
<1>2. ASSUME NEW i \in Issue, CreateIssue(i) PROVE IInv'
  BY <1>1, <1>2, CreateIssueKeeps
<1>3. ASSUME NEW c \in Change, PushBase(c) PROVE IInv'
  BY <1>1, <1>3, PushBaseKeeps
<1>4. ASSUME NEW m \in Merger, NEW p \in Pull, NEW method \in {"merge", "squash", "rebase"},
             MergeLoad(m, p, method)
      PROVE  IInv'
  BY <1>1, <1>4, MergeLoadKeeps
<1>5. ASSUME NEW m \in Merger, MergeStep(m) PROVE IInv'
  BY <1>1, <1>5, MergeGitKeeps, MergeRecordKeeps DEF MergeStep
<1>6. ASSUME NEW e \in Editor,
             EditStep(e) \/ \E i \in Issue, patch \in Patch : EditBegin(e, i, patch)
      PROVE  IInv'
  BY <1>1, <1>6, EditReadKeeps, EditCommitKeeps DEF EditStep
<1>7. CASE Restart
  BY <1>1, <1>7, RestartKeeps
<1>8. CASE UNCHANGED vars
  <2>1. /\ TypeOK' /\ UNCHANGED <<issues, pulls, openCount>>
        /\ merger' = merger /\ editor' = editor
    BY <1>1, <1>8 DEF IInv, TypeOK, vars
  <2>2. QED
    BY <1>1, <2>1, RowsAlone
<1>9. QED
  BY <1>1, <1>2, <1>3, <1>4, <1>5, <1>6, <1>7, <1>8 DEF Next

\* The inductive invariant holds of every state of every run.
THEOREM Inductive == Spec => []IInv
<1>1. Init => IInv
  BY InitIInv
<1>2. IInv /\ [Next]_vars => IInv'
  BY NextKeeps
<1>3. QED
  BY <1>1, <1>2, PTL DEF Spec

\* Type correctness of pull requests, issues and the requests under way.
THEOREM TypeCorrect == Spec => []TypeOK
<1>1. IInv => TypeOK
  BY DEF IInv
<1>2. QED
  BY <1>1, Inductive, PTL

\* The stored open_issues_count is the number of open issues, for any number of
\* Merge and EditIssue requests racing on copies they read earlier.
THEOREM OpenCountIsExact == Spec => []OpenCountExact
<1>1. IInv => OpenCountExact
  BY DEF IInv
<1>2. QED
  BY <1>1, Inductive, PTL

-----------------------------------------------------------------------------
(* Action properties. *)

\* Only MergeRecord writes the pulls table, and a Merge request that passes its
\* optimistic lock finds the pull request not merged.
LEMMA PullsKeep ==
    ASSUME IInv, [Next]_vars, NEW p \in Pull, pulls'[p] # pulls[p]
    PROVE  /\ ~Merged(p) /\ pulls'[p] # None
           /\ \E m \in Merger : MergeRecord(m) /\ p = merger[m].pull
<1>1. PICK m \in Merger : MergeRecord(m)
  BY DEF Next, vars, CreateIssue, PushBase, MergeLoad, MergeStep, MergeReadTip, MergeObjects,
         MergeReadOld, MergeSwap, EditBegin, EditStep, EditReload, EditCommit, Restart
<1>2. merger[m] # Idle /\ merger[m].pull \in Pull
  <2>1. TypeOK /\ merger[m].pc # "idle"
    BY <1>1 DEF IInv, MergeRecord
  <2>2. QED
    BY <2>1, MergingFact
<1>3. RowUnmoved(merger[m].pull, merger[m].row) /\ pulls' = [pulls EXCEPT ![merger[m].pull] = <<m, merger[m].pull>>]
  BY <1>1 DEF MergeRecord
<1>4. p = merger[m].pull /\ pulls'[p] = <<m, p>>
  BY <1>3 DEF IInv, TypeOK
<1>5. ~Merged(p)
  BY <1>2, <1>3, <1>4 DEF IInv, CopiesAgree, RowUnmoved
<1>6. QED
  BY <1>1, <1>4, <1>5

\* Two racing Merge requests never both record a merge of one pull request, and
\* a recorded merge commit never changes.
THEOREM RecordedOnce == Spec => MergeRecordedOnce
<1>1. IInv /\ [Next]_vars => [\A p \in Pull : Merged(p) => pulls'[p] = pulls[p]]_vars
  BY PullsKeep
<1>2. QED
  BY <1>1, Inductive, PTL DEF Spec, MergeRecordedOnce

\* A field of an issue changes only to a value that a request under way asks for,
\* although UpdateIssue writes the whole row from a copy read earlier.
THEOREM EditsAreKept == Spec => NoLostEdit
<1> DEFINE Kept ==
      \A i \in Issue :
        /\ issues'[i].title # issues[i].title => Asked(i, "title", issues'[i].title)
        /\ issues'[i].state # issues[i].state =>
              \/ issues[i].state = "none"
              \/ Asked(i, "state", issues'[i].state)
              \/ i \in Pull /\ pulls[i] = None /\ pulls'[i] # None
<1>1. ASSUME IInv, NEW i \in Issue, CreateIssue(i) PROVE Kept
  <2>1. \A k \in Issue : /\ issues'[k].title = issues[k].title
                         /\ k # i => issues'[k].state = issues[k].state
    BY <1>1 DEF IInv, TypeOK, IssueRow, CreateIssue
  <2>2. QED
    BY <1>1, <2>1 DEF CreateIssue
<1>2. ASSUME IInv, NEW m \in Merger, MergeRecord(m) PROVE Kept
  <2> DEFINE p == merger[m].pull
  <2>1. merger[m] # Idle /\ p \in Pull /\ p \in Issue
    <3>1. TypeOK /\ merger[m].pc # "idle"
      BY <1>2 DEF IInv, MergeRecord
    <3>2. QED
      BY <3>1, MergingFact
  <2>2. CASE RowUnmoved(p, merger[m].row)
    <3>1. issues[p] = merger[m].row /\ pulls[p] = None
      BY <1>2, <2>1, <2>2 DEF IInv, CopiesAgree, CopyOf, RowUnmoved, Merged
    <3>2. pulls'[p] # None
      <4>1. pulls' = [pulls EXCEPT ![p] = <<m, p>>]
        BY <1>2, <2>2 DEF MergeRecord
      <4>2. pulls'[p] = <<m, p>>
        BY <1>2, <2>1, <4>1 DEF IInv, TypeOK
      <4>3. QED
        BY <2>1, <4>2
    <3>3. \A k \in Issue : /\ issues'[k].title = issues[k].title
                           /\ k # p => issues'[k] = issues[k]
      <4> DEFINE row == [state |-> "closed", title |-> merger[m].row.title,
                         version |-> issues[p].version + 1]
      <4>1. issues' = [issues EXCEPT ![p] = row]
        BY <1>2, <2>2 DEF MergeRecord, WriteIssue
      <4>2. row.title = issues[p].title
        BY <3>1
      <4> HIDE DEF row
      <4>3. QED
        BY <2>1, <4>1, <4>2 DEF IInv, TypeOK
    <3>4. ASSUME NEW k \in Issue, issues'[k].state # issues[k].state
          PROVE  k \in Pull /\ pulls[k] = None /\ pulls'[k] # None
      <4>1. k = p
        BY <3>3, <3>4
      <4>2. QED
        BY <2>1, <3>1, <3>2, <4>1
    <3> HIDE DEF p
    <3>5. QED
      BY <3>3, <3>4
  <2>3. CASE ~RowUnmoved(p, merger[m].row)
    BY <1>2, <2>3 DEF MergeRecord
  <2>4. QED
    BY <2>2, <2>3
<1>3. ASSUME IInv, NEW e \in Editor, EditCommit(e) PROVE Kept
  <2> DEFINE i == editor[e].issue
             old == editor[e].row
             patch == editor[e].patch
  <2>1. editor[e] # Idle /\ i \in Issue /\ patch \in Patch
    <3>1. TypeOK /\ editor[e].pc # "idle"
      BY <1>3 DEF IInv, EditCommit
    <3>2. QED
      BY <3>1, EditingFact
  <2>2. CASE RowUnmoved(i, old)
    <3>1. issues[i] = old
      BY <1>3, <2>1, <2>2 DEF IInv, CopiesAgree, CopyOf, RowUnmoved
    <3>2. /\ issues'[i].state = NewState(old, patch)
          /\ issues'[i].title = NewTitle(old, patch)
          /\ \A k \in Issue : k # i => issues'[k] = issues[k]
      <4> DEFINE row == [state |-> NewState(old, patch), title |-> NewTitle(old, patch),
                         version |-> issues[i].version + 1]
      <4>1. issues' = [issues EXCEPT ![i] = row]
        BY <1>3, <2>2 DEF EditCommit, WriteIssue
      <4>2. row.state = NewState(old, patch) /\ row.title = NewTitle(old, patch)
        OBVIOUS
      <4> HIDE DEF row, old, patch
      <4>3. QED
        BY <1>3, <2>1, <4>1, <4>2 DEF IInv, TypeOK
    <3>3. /\ issues'[i].state # issues[i].state => Asked(i, "state", issues'[i].state)
          /\ issues'[i].title # issues[i].title => Asked(i, "title", issues'[i].title)
      BY <1>3, <3>1, <3>2 DEF EditCommit, NewState, NewTitle, Asked
    <3>4. QED
      BY <3>2, <3>3
  <2>3. CASE ~RowUnmoved(i, old)
    BY <1>3, <2>3 DEF EditCommit
  <2>4. QED
    BY <2>2, <2>3
<1>4. IInv /\ [Next]_vars => [Kept]_vars
  <2>1. SUFFICES ASSUME IInv, Next, issues' # issues PROVE Kept
    BY DEF Kept
  <2>2. \/ \E i \in Issue : CreateIssue(i)
        \/ \E m \in Merger : MergeRecord(m)
        \/ \E e \in Editor : EditCommit(e)
    BY <2>1 DEF Next, CreateIssue, PushBase, MergeLoad, MergeStep, MergeReadTip, MergeObjects,
       MergeReadOld, MergeSwap, EditBegin, EditStep, EditReload, Restart
  <2>3. QED
    BY <1>1, <1>2, <1>3, <2>1, <2>2
<1>5. QED
  BY <1>4, Inductive, PTL DEF Spec, NoLostEdit
=============================================================================
