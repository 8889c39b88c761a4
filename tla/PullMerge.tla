------------------------------ MODULE PullMerge -----------------------------
(***************************************************************************)
(* Merging pull requests into one base branch of one repository, while     *)
(* other requests edit the same issues and push to the same branch.        *)
(*                                                                         *)
(* Source: domain/pr_service.go (Merge), domain/issue_service.go           *)
(* (CreateIssue, EditIssue), git/repo_merge.go and git/repo_write.go       *)
(* (AheadBehind, Merge, UpdateRef), and the statements of                  *)
(* store/queries_issue.go and store/queries_pull.go they run.              *)
(*                                                                         *)
(* Granularity.  A query, a git command and a transaction are one action   *)
(* each (SQLite has a single writer, Postgres locks the updated rows).     *)
(* PRService.load reads the issue row and then the pull row; merged never  *)
(* goes back to false, so the pair it accepts could have been read at the  *)
(* instant of the first read, and it is one action here.                   *)
(*                                                                         *)
(* Abstractions.  A commit is the set of commits reachable from it, so     *)
(* ancestry is inclusion; a merge, squash or rebase commit made by merger  *)
(* m for pull request p is <<m, p>>.  Text conflicts between commits are   *)
(* the constant Conflict.  Of an issue row there is the state, the title   *)
(* (any field an edit may patch) and lock_version.                         *)
(***************************************************************************)
EXTENDS Integers, FiniteSets

CONSTANTS Issue,         \* issue rows of the repository
          Pull,          \* those that are pull requests
          Change,        \* ordinary commits
          Conflict,      \* pairs {c, d} of commits that do not merge cleanly
          HeadOf,        \* the recorded head of each pull request
          PushedToBase,  \* commits pushed to the base branch
          Title,         \* values of a patchable field
          Merger, Editor,\* requests in flight: Merge and EditIssue
          Keep,          \* "the patch does not name this field"
          None,          \* merge_commit_sha IS NULL
          MaxEdits,      \* EditIssue requests a run explores
          MaxFaults      \* process restarts a run explores

ASSUME PullAssumption == Pull \subseteq Issue
ASSUME IssueAssumption == IsFiniteSet(Issue)
ASSUME HeadAssumption == HeadOf \in [Pull -> SUBSET Change]
ASSUME PushAssumption == PushedToBase \subseteq Change
ASSUME NoneAssumption == None \notin Merger \X Pull
ASSUME KeepAssumption == Keep \notin Title
ASSUME BoundsAssumption == MaxEdits \in Nat /\ MaxFaults \in Nat

VARIABLES base,       \* refs/heads/<base>
          issues,     \* the issues table
          pulls,      \* merge_commit_sha of each pull request (merged iff not None)
          openCount,  \* repositories.open_issues_count
          merger,     \* where each Merge request is, and its copies
          editor,     \* where each EditIssue request is, and its copies
          edits,      \* EditIssue requests begun
          faults      \* restarts so far

vars == <<base, issues, pulls, openCount, merger, editor, edits, faults>>

-----------------------------------------------------------------------------
MergeCommit == Merger \X Pull
Commit == Change \cup MergeCommit
Tip == SUBSET Commit
IssueRow == [state : {"none", "open", "closed"}, title : Title, version : Nat]
Patch == [state : {"open", "closed", Keep}, title : Title \cup {Keep}]
Idle == [pc |-> "idle"]

Merging == [pc      : {"readTip", "merge", "readOld", "swap", "record"},
            pull    : Pull,
            row     : IssueRow,     \* the issue row load returned
            method  : {"merge", "squash", "rebase"},
            baseTip : Tip,          \* the base tip the merge commit is built on
            sha     : Tip,          \* the merge commit
            old     : Tip]          \* the value UpdateRef compares with

Editing == [pc : {"load", "commit"}, issue : Issue, patch : Patch,
            row : IssueRow]

TypeOK ==
    /\ base \in Tip
    /\ issues \in [Issue -> IssueRow]
    /\ pulls \in [Pull -> MergeCommit \cup {None}]
    /\ openCount \in Int
    /\ merger \in [Merger -> {Idle} \cup Merging]
    /\ editor \in [Editor -> {Idle} \cup Editing]
    /\ edits \in 0..MaxEdits
    /\ faults \in 0..MaxFaults

Merged(p) == pulls[p] # None

-----------------------------------------------------------------------------
(* Git: what the commands Merge runs compute. *)

Ahead(b, h) == h \ b

Clean(b, h) == \A c \in h \ b, d \in b \ h : {c, d} \notin Conflict

\* A two-parent commit, one commit on top of base, or head's commits replayed
\* on base.  A replay refuses a commit with more than one parent.
MergeOf(method, b, h, id) ==
    IF method = "merge" THEN b \cup h \cup {id} ELSE b \cup {id}

CanMerge(method, b, h) ==
    /\ Clean(b, h)
    /\ method = "rebase" => (h \ b) \cap MergeCommit = {}

-----------------------------------------------------------------------------
Init ==
    /\ base = {}
    /\ \E t \in Title : issues = [i \in Issue |-> [state |-> "none", title |-> t, version |-> 0]]
    /\ pulls = [p \in Pull |-> None]
    /\ openCount = 0
    /\ merger = [m \in Merger |-> Idle]
    /\ editor = [e \in Editor |-> Idle]
    /\ edits = 0
    /\ faults = 0

-----------------------------------------------------------------------------
\* The transaction of CreateIssue and of CreatePR: the row and the open count.
CreateIssue(i) ==
    /\ issues[i].state = "none"
    /\ issues' = [issues EXCEPT ![i].state = "open"]
    /\ openCount' = openCount + 1
    /\ UNCHANGED <<base, pulls, merger, editor, edits, faults>>

\* A push to the base branch: receive-pack moves the ref under git's own lock
\* (a fast-forward: force pushes to the base are not modelled).
PushBase(c) ==
    /\ c \in PushedToBase \ base
    /\ base' = base \cup {c}
    /\ UNCHANGED <<issues, pulls, openCount, merger, editor, edits, faults>>

-----------------------------------------------------------------------------
(* Merge. *)

\* load, and the guard on merged and open.
MergeLoad(m, p, method) ==
    /\ merger[m] = Idle
    /\ issues[p].state = "open"
    /\ ~Merged(p)
    /\ merger' = [merger EXCEPT ![m] =
          [pc |-> "readTip", pull |-> p, row |-> issues[p], method |-> method,
           baseTip |-> {}, sha |-> {}, old |-> {}]]
    /\ UNCHANGED <<base, issues, pulls, openCount, editor, edits, faults>>

\* baseTip, err := RefSHA(base).
MergeReadTip(m) ==
    /\ merger[m].pc = "readTip"
    /\ merger' = [merger EXCEPT ![m].pc = "merge", ![m].baseTip = base]
    /\ UNCHANGED <<base, issues, pulls, openCount, editor, edits, faults>>

\* AheadBehind and git's Merge, which read and write objects only: refused when
\* there is nothing to merge or the two sides conflict.
MergeObjects(m) ==
    /\ merger[m].pc = "merge"
    /\ LET r == merger[m]
           head == HeadOf[r.pull]
       IN  merger' = [merger EXCEPT ![m] =
              IF Ahead(r.baseTip, head) # {} /\ CanMerge(r.method, r.baseTip, head)
              THEN [r EXCEPT !.pc = "readOld",
                             !.sha = MergeOf(r.method, r.baseTip, head, <<m, r.pull>>)]
              ELSE Idle]
    /\ UNCHANGED <<base, issues, pulls, openCount, editor, edits, faults>>

\* UpdateRef(base, sha, force = true) reads the ref again: the value it swaps
\* against is this one, not the tip the merge commit was built on.
MergeReadOld(m) ==
    /\ merger[m].pc = "readOld"
    /\ merger' = [merger EXCEPT ![m].pc = "swap", ![m].old = base]
    /\ UNCHANGED <<base, issues, pulls, openCount, editor, edits, faults>>

\* git update-ref <ref> <sha> <old>: an error when the ref is no longer at old.
MergeSwap(m) ==
    /\ merger[m].pc = "swap"
    /\ IF base = merger[m].old
       THEN /\ base' = merger[m].sha
            /\ merger' = [merger EXCEPT ![m].pc = "record"]
       ELSE /\ merger' = [merger EXCEPT ![m] = Idle]
            /\ UNCHANGED base
    /\ UNCHANGED <<issues, pulls, openCount, editor, edits, faults>>

\* Mutant: an UPDATE without the version in its WHERE clause.
NoLock(i, row) == TRUE

\* WHERE pk = ? AND lock_version = ?: the row is still the one that was read.
RowUnmoved(i, row) == issues[i].version = row.version

\* UpdateIssue writes every editable field and bumps lock_version.
WriteIssue(i, state, title) ==
    issues' = [issues EXCEPT ![i] = [state |-> state, title |-> title, version |-> @.version + 1]]

\* The closing transaction: MarkMerged, UpdateIssue, AdjustOpenIssuesCount(-1).
\* A lost optimistic lock rolls MarkMerged back; the base branch stays moved.
MergeRecord(m) ==
    /\ merger[m].pc = "record"
    /\ LET p == merger[m].pull IN
       IF RowUnmoved(p, merger[m].row)
       THEN /\ pulls' = [pulls EXCEPT ![p] = <<m, p>>]
            /\ WriteIssue(p, "closed", merger[m].row.title)
            /\ openCount' = openCount - 1
       ELSE UNCHANGED <<pulls, issues, openCount>>
    /\ merger' = [merger EXCEPT ![m] = Idle]
    /\ UNCHANGED <<base, editor, edits, faults>>

-----------------------------------------------------------------------------
(* EditIssue. *)

EditBegin(e, i, patch) ==
    /\ editor[e] = Idle
    /\ edits < MaxEdits
    /\ issues[i].state # "none"
    /\ edits' = edits + 1
    /\ editor' = [editor EXCEPT ![e] =
          [pc |-> "commit", issue |-> i, patch |-> patch, row |-> issues[i]]]
    /\ UNCHANGED <<base, issues, pulls, openCount, merger, faults>>

\* The row is read again after a lost optimistic lock: EditIssue calls itself, as
\* often as it loses.
EditReload(e) ==
    /\ editor[e].pc = "load"
    /\ editor' = [editor EXCEPT ![e].pc = "commit",
                                ![e].row = issues[editor[e].issue]]
    /\ UNCHANGED <<base, issues, pulls, openCount, merger, edits, faults>>

\* Mutant: the patch's state is written although it names none.
StateUnpatched(row, patch) == patch.state

NewState(row, patch) == IF patch.state = Keep THEN row.state ELSE patch.state
NewTitle(row, patch) == IF patch.title = Keep THEN row.title ELSE patch.title

\* Mutant: counts a close of what is closed and a reopen of what is open.
DeltaUnchecked(row, patch) ==
    IF patch.state = Keep THEN 0 ELSE IF patch.state = "open" THEN 1 ELSE -1

\* openDelta, from the row that was read: only a state that changes counts.
OpenDelta(row, patch) ==
    IF patch.state \in {Keep, row.state} THEN 0
    ELSE IF patch.state = "open" THEN 1 ELSE -1

\* The transaction of EditIssue.
EditCommit(e) ==
    /\ editor[e].pc = "commit"
    /\ LET i == editor[e].issue
           row == editor[e].row
           patch == editor[e].patch
       IN  IF RowUnmoved(i, row)
           THEN /\ WriteIssue(i, NewState(row, patch), NewTitle(row, patch))
                /\ openCount' = openCount + OpenDelta(row, patch)
                /\ editor' = [editor EXCEPT ![e] = Idle]
           ELSE /\ editor' = [editor EXCEPT ![e].pc = "load"]
                /\ UNCHANGED <<issues, openCount>>
    /\ UNCHANGED <<base, pulls, merger, edits, faults>>

-----------------------------------------------------------------------------
\* The process stops and starts again: refs and rows stay, requests are gone.
Restart ==
    /\ faults < MaxFaults
    /\ faults' = faults + 1
    /\ merger' = [m \in Merger |-> Idle]
    /\ editor' = [e \in Editor |-> Idle]
    /\ UNCHANGED <<base, issues, pulls, openCount, edits>>

MergeStep(m) ==
    \/ MergeReadTip(m) \/ MergeObjects(m) \/ MergeReadOld(m)
    \/ MergeSwap(m) \/ MergeRecord(m)

EditStep(e) == EditReload(e) \/ EditCommit(e)

Next ==
    \/ \E i \in Issue : CreateIssue(i)
    \/ \E c \in Change : PushBase(c)
    \/ \E m \in Merger, p \in Pull, method \in {"merge", "squash", "rebase"} :
          MergeLoad(m, p, method)
    \/ \E m \in Merger : MergeStep(m)
    \/ \E e \in Editor, i \in Issue, patch \in Patch : EditBegin(e, i, patch)
    \/ \E e \in Editor : EditStep(e)
    \/ Restart

Spec == Init /\ [][Next]_vars

\* A request that was accepted goes on to its end.
FairSpec == /\ Spec
            /\ \A m \in Merger : WF_vars(MergeStep(m))
            /\ \A e \in Editor : WF_vars(EditStep(e))

-----------------------------------------------------------------------------
(* What holds. *)

\* open_issues_count is the number of open issues in every state, although each
\* Merge and EditIssue decides its delta from a row it read before the
\* transaction: the optimistic lock makes a stale decision roll back.
OpenCountExact == openCount = Cardinality({i \in Issue : issues[i].state = "open"})

\* A pull request is recorded as merged once: two racing Merge requests never
\* both record their commit, and a recorded merge commit never changes.
MergeRecordedOnce == [][\A p \in Pull : Merged(p) => pulls'[p] = pulls[p]]_vars

\* A request about to commit asks for this value.
Asked(i, field, value) ==
    \E e \in Editor : /\ editor[e].pc = "commit" /\ editor[e].issue = i
                      /\ editor[e].patch[field] = value

\* No lost update: UpdateIssue writes the whole row from a copy read earlier, and
\* yet a field changes only to a value some request under way asks for.
NoLostEdit ==
    [][\A i \in Issue :
        /\ issues'[i].title # issues[i].title => Asked(i, "title", issues'[i].title)
        /\ issues'[i].state # issues[i].state =>
              \/ issues[i].state = "none"
              \/ Asked(i, "state", issues'[i].state)
              \/ i \in Pull /\ pulls[i] = None /\ pulls'[i] # None]_vars

-----------------------------------------------------------------------------
(* What the comments say and the code does not do. *)

\* "Compare-and-swap against the observed old value so a concurrent update loses
\* rather than silently clobbering" (git/repo_write.go:301): no merge takes
\* commits off the base branch.
BaseOnlyGrows == [][base \subseteq base']_vars
=============================================================================
