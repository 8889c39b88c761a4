---------------------------- MODULE BranchWrites ----------------------------
(***************************************************************************)
(* One branch of a bare repository and everyone who moves it: the contents *)
(* API, which commits a file at a time, the refs API, and pushes.          *)
(*                                                                         *)
(* Source: api/rest/contents_write.go, domain/repo_service.go (WriteFile,  *)
(* DeleteFile, checkCurrentBlob), git/repo_write_file.go                   *)
(* (applyFileChange), domain/git_ref_service.go and git/repo_write.go      *)
(* (CreateRef, UpdateRef, DeleteRef).                                      *)
(*                                                                         *)
(* Granularity.  A read of the ref or of a file under it, and a write of   *)
(* the ref, are one action each.  git update-ref with an old value         *)
(* compares and swaps; go-git's SetReference only sets.                    *)
(*                                                                         *)
(* Abstractions.  A commit is a number; a blob is the commit that wrote    *)
(* it, 0 is no file.  Objects, once written, stay.  Authors, messages and  *)
(* subdirectories are left out.                                            *)
(***************************************************************************)
EXTENDS Naturals

CONSTANTS Path,
          Writer,      \* contents requests under way
          Mover,       \* refs requests and pushes under way
          MaxCommits,  \* commits a run makes
          MaxMoves     \* refs requests a run makes

ASSUME BranchAssumption == MaxCommits \in Nat /\ MaxMoves \in Nat

VARIABLES tip,      \* the commit the branch names, 0 when there is no branch
          made,     \* commits made so far
          parent,   \* the parent of each, 0 for none
          past,     \* each commit and all it is built on
          tree,     \* the files of each
          writer, mover,
          landed,   \* history: commits the branch has named
          dropped,  \* history: commits left behind by what may leave them behind
          moves

branchVars == <<tip, made, parent, past, tree, writer, mover, landed, dropped, moves>>

Commit == 1..MaxCommits
NoFiles == [p \in Path |-> 0]
Still == [pc |-> "idle"]

Writing == [pc : {"check", "build", "set"}, path : Path, sha : 0..MaxCommits,
            del : BOOLEAN, commit : 0..MaxCommits]
Moving == [pc : {"ancestor", "swap"}, old : 0..MaxCommits, new : 0..MaxCommits,
           force : BOOLEAN]

BranchTypeOK ==
    /\ tip \in 0..made /\ made \in 0..MaxCommits
    /\ parent \in [Commit -> 0..MaxCommits]
    /\ past \in [0..MaxCommits -> SUBSET Commit]
    /\ tree \in [0..MaxCommits -> [Path -> 0..MaxCommits]]
    /\ writer \in [Writer -> {Still} \cup Writing]
    /\ mover \in [Mover -> {Still} \cup Moving]
    /\ landed \subseteq 1..made /\ dropped \subseteq landed
    /\ moves \in 0..MaxMoves

BranchInit ==
    /\ tip = 0 /\ made = 0
    /\ parent = [c \in Commit |-> 0]
    /\ past = [c \in 0..MaxCommits |-> {}]
    /\ tree = [c \in 0..MaxCommits |-> NoFiles]
    /\ writer = [w \in Writer |-> Still]
    /\ mover = [m \in Mover |-> Still]
    /\ landed = {} /\ dropped = {} /\ moves = 0

\* The branch goes to c; "freely" when whoever moves it may leave commits behind.
Goes(c, freely) ==
    /\ tip' = c
    /\ landed' = landed \cup ({c} \ {0})
    /\ dropped' = IF freely THEN dropped \cup (past[tip] \ past[c]) ELSE dropped

\* A new commit with this parent, whose tree is that one's with one file changed.
Makes(from, path, del) ==
    /\ made < MaxCommits
    /\ made' = made + 1
    /\ parent' = [parent EXCEPT ![made'] = from]
    /\ past' = [past EXCEPT ![made'] = past[from] \cup {made'}]
    /\ tree' = [tree EXCEPT ![made'] = [tree[from] EXCEPT ![path] = IF del THEN 0 ELSE made']]

-----------------------------------------------------------------------------
(* PUT and DELETE .../contents/{path}. *)

\* The handler's stat.  A request whose sha is not the file's is a 409 or a 422;
\* a create names none.
Stat(w, p, del) ==
    /\ writer[w] = Still
    /\ del => tree[tip][p] # 0
    /\ writer' = [writer EXCEPT ![w] = [pc |-> "check", path |-> p, sha |-> tree[tip][p],
                                        del |-> del, commit |-> 0]]
    /\ UNCHANGED <<tip, made, parent, past, tree, mover, landed, dropped, moves>>

\* checkCurrentBlob: skipped when no sha was named.
Check(w) ==
    /\ writer[w].pc = "check"
    /\ writer' = IF writer[w].sha \in {0, tree[tip][writer[w].path]}
                 THEN [writer EXCEPT ![w].pc = "build"]
                 ELSE [writer EXCEPT ![w] = Still]
    /\ UNCHANGED <<tip, made, parent, past, tree, mover, landed, dropped, moves>>

\* applyFileChange reads the branch and commits on top; a branch that is gone is
\* started anew, but not to delete a file from it.
Build(w) ==
    /\ writer[w].pc = "build"
    /\ IF writer[w].del /\ tip = 0
       THEN writer' = [writer EXCEPT ![w] = Still] /\ UNCHANGED <<made, parent, past, tree>>
       ELSE /\ Makes(tip, writer[w].path, writer[w].del)
            /\ writer' = [writer EXCEPT ![w].pc = "set", ![w].commit = made']
    /\ UNCHANGED <<tip, mover, landed, dropped, moves>>

\* SetReference, whatever the branch names by now: if that is not the parent, what
\* was there in between is left behind.
Set(w) ==
    /\ writer[w].pc = "set"
    /\ Goes(writer[w].commit, tip # parent[writer[w].commit])
    /\ writer' = [writer EXCEPT ![w] = Still]
    /\ UNCHANGED <<made, parent, past, tree, mover, moves>>

-----------------------------------------------------------------------------
(* The refs API and pushes. *)

MoverReads(m, pc, new, force) ==
    /\ mover[m] = Still
    /\ moves < MaxMoves
    /\ moves' = moves + 1
    /\ mover' = [mover EXCEPT ![m] = [pc |-> pc, old |-> tip, new |-> new, force |-> force]]
    /\ UNCHANGED <<tip, landed, dropped, writer>>

\* CreateRef: RefSHA finds nothing.
CreateReads(m, c) == tip = 0 /\ MoverReads(m, "swap", c, FALSE) /\ UNCHANGED <<made, parent, past, tree>>

\* UpdateRef: RefSHA, and then the fast-forward test unless force is set.
UpdateReads(m, c, force) ==
    /\ tip # 0
    /\ MoverReads(m, IF force \/ c = tip THEN "swap" ELSE "ancestor", c, force)
    /\ UNCHANGED <<made, parent, past, tree>>

\* DeleteRef.
DeleteReads(m) ==
    tip # 0 /\ MoverReads(m, "swap", 0, TRUE) /\ UNCHANGED <<made, parent, past, tree>>

\* A client fetches the branch, commits, and pushes: receive-pack swaps too.
PushReads(m, p) == MoverReads(m, "swap", made + 1, FALSE) /\ Makes(tip, p, FALSE)

\* Mutant: the two ends the other way round.
ForwardBack(m) == mover[m].new \in past[mover[m].old]

Forward(m) == mover[m].old \in past[mover[m].new]

\* IsAncestor, of the old value read.
Ancestor(m) ==
    /\ mover[m].pc = "ancestor"
    /\ mover' = IF Forward(m) THEN [mover EXCEPT ![m].pc = "swap"] ELSE [mover EXCEPT ![m] = Still]
    /\ UNCHANGED <<tip, made, parent, past, tree, writer, landed, dropped, moves>>

\* Mutant: update-ref without the old value.
SwapsAlways(m) == TRUE

\* update-ref <ref> <new> <old>, and -d <ref> <old>.
Swaps(m) == tip = mover[m].old

Swap(m) ==
    /\ mover[m].pc = "swap"
    /\ IF Swaps(m) THEN Goes(mover[m].new, mover[m].force)
                   ELSE UNCHANGED <<tip, landed, dropped>>
    /\ mover' = [mover EXCEPT ![m] = Still]
    /\ UNCHANGED <<made, parent, past, tree, writer, moves>>

-----------------------------------------------------------------------------
BranchNext ==
    \/ \E w \in Writer : \/ \E p \in Path, del \in BOOLEAN : Stat(w, p, del)
                         \/ Check(w) \/ Build(w) \/ Set(w)
    \/ \E m \in Mover : \/ \E c \in 1..made : CreateReads(m, c)
                        \/ \E c \in 1..made, force \in BOOLEAN : UpdateReads(m, c, force)
                        \/ DeleteReads(m) \/ (\E p \in Path : PushReads(m, p))
                        \/ Ancestor(m) \/ Swap(m)

BranchSpec == BranchInit /\ [][BranchNext]_branchVars

-----------------------------------------------------------------------------
(* What holds. *)

\* A commit the branch has named stays in its history, unless the branch was
\* forced away or deleted, or a contents write set it to a commit built on an
\* older tip: the refs API and pushes swap (git/repo_write.go:303), so they never
\* leave a commit behind.
LandedStays == landed \subseteq past[tip] \cup dropped
=============================================================================
