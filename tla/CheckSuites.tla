---------------------------- MODULE CheckSuites ----------------------------
(***************************************************************************)
(* The check runs reported on one commit and the suite that sums them up:  *)
(* concurrent reporters create runs, roll them forward and ask for a       *)
(* rerun, and each writes the suite's summary from a list it read.         *)
(*                                                                         *)
(* Source: domain/checks_service.go (CreateCheckRun, UpdateCheckRun,       *)
(* RerequestCheckRun, RerequestCheckSuite, refreshSuite, suiteSummary) and *)
(* store/queries_checks.go (EnsureCheckSuite, InsertCheckRun,              *)
(* UpdateCheckRun, SetCheckSuiteState).                                    *)
(*                                                                         *)
(* Granularity.  A query and a statement are one action each.  The suite   *)
(* row is made by whichever reporter's insert comes first; the unique      *)
(* index refuses the other.  The recompute of the decision that follows a  *)
(* report is Report and ReportEnqueue of ReviewDecision.                   *)
(*                                                                         *)
(* Abstractions.  One suite.  A conclusion is one of those the summary     *)
(* tells apart; names, outputs, times and annotations are left out.        *)
(***************************************************************************)
EXTENDS Naturals, FiniteSets

CONSTANTS Run,          \* rows of check_runs
          Reporter,     \* requests under way at once
          MaxReported,  \* requests a run explores
          MaxLost       \* refreshes that fail

ASSUME SuiteBounds == MaxReported \in Nat /\ MaxLost \in Nat

VARIABLES suite,     \* the check_suites row
          run,       \* the check_runs table
          reporter,  \* where each request is
          lists,     \* history: how many lists of the runs were read
          stored,    \* history: which of them the suite's summary is of
          newest,    \* history: the latest whose refresh is over
          mixed,     \* history: runs two requests had read to rewrite at once
          reported, lost

suiteVars == <<suite, run, reporter, lists, stored, newest, mixed, reported, lost>>

Status == {"queued", "in_progress", "completed"}
Verdicts == {"success", "failure", "cancelled"}
Conclusion == {"none"} \cup Verdicts
NoRun == [status |-> "none", conclusion |-> "none"]
Queued == [status |-> "queued", conclusion |-> "none"]

Ended == [pc |-> "idle"]
Reporting == [pc : {"ensure", "insert", "write", "list", "set"}, todo : SUBSET Run,
              row : [Run -> [status : Status \cup {"none"}, conclusion : Conclusion]],
              summary : [status : Status, conclusion : Conclusion], list : Nat, reopens : BOOLEAN]

SuiteTypeOK ==
    /\ suite \in [status : {"none"} \cup Status, conclusion : Conclusion]
    /\ run \in [Run -> [status : {"none"} \cup Status, conclusion : Conclusion]]
    /\ reporter \in [Reporter -> {Ended} \cup Reporting]
    /\ lists \in Nat /\ stored \in 0..lists /\ newest \in 0..lists
    /\ mixed \subseteq Run
    /\ reported \in 0..MaxReported /\ lost \in 0..MaxLost

SuiteInit ==
    /\ suite = NoRun
    /\ run = [r \in Run |-> NoRun]
    /\ reporter = [p \in Reporter |-> Ended]
    /\ lists = 0 /\ stored = 0 /\ newest = 0
    /\ mixed = {}
    /\ reported = 0 /\ lost = 0

-----------------------------------------------------------------------------
(* The summary. *)

Rows == {r \in Run : run[r].status # "none"}

\* Mutant: complete as soon as one run is.
CompleteAny == \E r \in Rows : run[r].status = "completed"

Complete == \A r \in Rows : run[r].status = "completed"

\* Mutant: the rollup's word for a bad end, which no suite knows.
WorstError == IF \E r \in Rows : run[r].conclusion # "success" THEN "error" ELSE "success"

Worst ==
    IF \E r \in Rows : run[r].conclusion = "failure" THEN "failure"
    ELSE IF \E r \in Rows : run[r].conclusion = "cancelled" THEN "cancelled"
    ELSE "success"

\* suiteSummary.
Summary ==
    IF \A r \in Rows : run[r].status = "queued" THEN Queued
    ELSE IF Complete THEN [status |-> "completed", conclusion |-> Worst]
    ELSE [status |-> "in_progress", conclusion |-> "none"]

-----------------------------------------------------------------------------
(* The requests. *)

Reports(p, pc, todo, rows, reopens) ==
    /\ reporter[p] = Ended
    /\ reported < MaxReported
    /\ reported' = reported + 1
    /\ reporter' = [reporter EXCEPT ![p] = [pc |-> pc, todo |-> todo, row |-> rows,
                                            summary |-> Queued, list |-> 0,
                                            reopens |-> reopens]]

Only(rs, row) == [r \in Run |-> IF r \in rs THEN row ELSE NoRun]

\* The runs another request has read and will write whole.
InHand == UNION {reporter[p].todo : p \in {q \in Reporter : reporter[q].pc = "write"}}
Reads(rs) == mixed' = mixed \cup (rs \cap InHand)

\* p is done with rs: what nobody else has in hand is mixed no longer.
Releases(p, rs) ==
    mixed' = {r \in mixed : r \in rs => \E q \in Reporter \ {p} :
                 reporter[q].pc = "write" /\ r \in reporter[q].todo}

\* What a reporter sends: a conclusion comes with the end of a run.
Progress == {[status |-> "in_progress", conclusion |-> "none"]}
            \cup [status : {"completed"}, conclusion : Verdicts]
Nothing == [status |-> "none", conclusion |-> "none"]

\* CreateCheckRun: the run as it is reported; then EnsureCheckSuite's SELECT.
CreateRunReads(p, r, row) ==
    /\ run[r] = NoRun /\ \A q \in Reporter : reporter[q].pc = "insert" => reporter[q].todo # {r}
    /\ Reports(p, IF suite = NoRun THEN "ensure" ELSE "insert", {r}, Only({r}, row), FALSE)
    /\ UNCHANGED <<suite, run, lists, stored, newest, mixed, lost>>

\* The INSERT of the suite: the loser of two gets an error, and so does its client.
Ensure(p) ==
    /\ reporter[p].pc = "ensure"
    /\ IF suite = NoRun
       THEN suite' = Queued /\ reporter' = [reporter EXCEPT ![p].pc = "insert"]
       ELSE reporter' = [reporter EXCEPT ![p] = Ended] /\ UNCHANGED suite
    /\ UNCHANGED <<run, lists, stored, newest, mixed, reported, lost>>

\* Mutant: a report that names no status puts the run in the queue.
RolledDefault(old, report) == IF report = Nothing THEN Queued ELSE report

\* A report that names no status, or no conclusion, leaves it as it was.
Rolled(old, report) ==
    [f \in {"status", "conclusion"} |-> IF report[f] = "none" THEN old[f] ELSE report[f]]

\* UpdateCheckRun reads the row and rolls it forward in memory: a report of
\* progress or of the end, or one about something else.
UpdateReads(p, r, report) ==
    /\ r \in Rows
    /\ Reports(p, "write", {r}, Only({r}, Rolled(run[r], report)),
               report.status = "in_progress")
    /\ Reads({r})
    /\ UNCHANGED <<suite, run, lists, stored, newest, lost>>

\* RerequestCheckRun, one run; RerequestCheckSuite, the runs listed.
RerequestReads(p, rs) ==
    /\ rs # {}
    /\ Reports(p, "write", rs, Only(rs, Queued), TRUE)
    /\ Reads(rs)
    /\ UNCHANGED <<suite, run, lists, stored, newest, lost>>

\* InsertCheckRun, or UpdateCheckRun ... WHERE pk = ?: the row whole.
Writes(p, r) ==
    /\ reporter[p].pc \in {"insert", "write"} /\ r \in reporter[p].todo
    /\ run' = [run EXCEPT ![r] = reporter[p].row[r]]
    /\ reporter' = [reporter EXCEPT ![p].todo = @ \ {r},
                                    ![p].pc = IF reporter[p].todo = {r} THEN "list" ELSE @]
    /\ Releases(p, {r})
    /\ UNCHANGED <<suite, lists, stored, newest, reported, lost>>

\* refreshSuite: the list ...
Lists(p) ==
    /\ reporter[p].pc = "list"
    /\ lists' = lists + 1
    /\ reporter' = [reporter EXCEPT ![p].pc = "set", ![p].summary = Summary, ![p].list = lists']
    /\ UNCHANGED <<suite, run, stored, newest, mixed, reported, lost>>

Newer(list) == IF list > newest THEN list ELSE newest

\* ... and SetCheckSuiteState, whatever has been stored since.
Sets(p) ==
    /\ reporter[p].pc = "set"
    /\ suite' = reporter[p].summary
    /\ stored' = reporter[p].list /\ newest' = Newer(reporter[p].list)
    /\ reporter' = [reporter EXCEPT ![p] = Ended]
    /\ UNCHANGED <<run, lists, mixed, reported, lost>>

\* A statement fails.  A rerequest then stops between two runs; refreshSuite drops
\* its errors.  Either way the runs written are summed up by no one.
Loses(p) ==
    /\ reporter[p].pc \in {"write", "list", "set"}
    /\ lost < MaxLost
    /\ lost' = lost + 1
    /\ lists' = lists + 1 /\ newest' = lists'
    /\ Releases(p, reporter[p].todo)
    /\ reporter' = [reporter EXCEPT ![p] = Ended]
    /\ UNCHANGED <<suite, run, stored, reported>>

SuiteNext ==
    \E p \in Reporter :
        \/ \E r \in Run, row \in {Queued} \cup Progress : CreateRunReads(p, r, row)
        \/ \E r \in Run, report \in {Nothing} \cup Progress : UpdateReads(p, r, report)
        \/ \E r \in Rows : RerequestReads(p, {r})
        \/ RerequestReads(p, Rows)
        \/ Ensure(p) \/ (\E r \in Run : Writes(p, r)) \/ Lists(p) \/ Sets(p) \/ Loses(p)

SuiteSpec == SuiteInit /\ [][SuiteNext]_suiteVars

-----------------------------------------------------------------------------
(* What holds. *)

Every(status) == \A r \in Rows : run[r].status = status
Some(conclusion) == \E r \in Rows : run[r].conclusion = conclusion

\* What the suite is to say of its runs.
SumsUp ==
    /\ suite.status = "queued" <=> Every("queued")
    /\ suite.status = "completed" <=> Every("completed")
    /\ suite.conclusion = "none" <=> ~Every("completed")
    /\ Every("completed") => /\ suite.conclusion = "failure" <=> Some("failure")
                             /\ suite.conclusion = "success" <=> ~Some("failure") /\ ~Some("cancelled")

\* With no report under way, the suite sums up its runs, unless the refresh that
\* had read the newest list stored its summary before an older one did, or failed:
\* SetCheckSuiteState compares nothing.
SuiteSettles ==
    /\ \A p \in Reporter : reporter[p].pc \in {"idle", "ensure", "insert"}
    /\ stored = newest
    => Rows = {} \/ SumsUp

\* A completed run is taken up again only by a rerequest or a report that says so,
\* unless two requests had read its row at once: UpdateCheckRun writes the whole
\* row from the copy it read, the status of a report that names none included.
StaysCompleted ==
    [][\A r \in Run :
         run[r].status = "completed" /\ run'[r].status # "completed" =>
            \/ r \in mixed
            \/ \E p \in Reporter : reporter[p].pc = "write" /\ reporter[p].reopens
                                   /\ r \in reporter[p].todo]_suiteVars
=============================================================================
