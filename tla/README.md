# Githome in TLA+

Githome is a self-hosted git forge in one Go process: an HTTP server (REST,
GraphQL, a web front end and smart-HTTP git), a SQL store (SQLite or Postgres),
bare git repositories on disk, and a pool of background claim loops. This
directory holds TLA+ models of its concurrent core, the TLC configurations that
check them and proofs of their main properties.

## 1. Inventory

| Component | State | Operations | Talks to |
|---|---|---|---|
| Job queue (`store/queries_jobs.go`, `worker/`) | `jobs` rows: state, dedupe key, attempts, `run_after` | EnqueueJob, ClaimJob, CompleteJob, FailJob; RunOnce in four claim loops | every service enqueues; handlers call services |
| Pull requests (`domain/pr_service.go`, `store/queries_pull.go`) | `pull_requests` rows: base, head sha, merge state, merged | CreatePR, UpdatePR, Merge, UpdateBranch, OnHeadPush, RecomputeMergeability | issue rows, git refs, job queue, push path |
| Issues (`domain/issue_service.go`, `store/queries_issue.go`) | `issues` rows with `lock_version`; `open_issues_count`; labels, assignees, events | CreateIssue, EditIssue, SetLocked, label and assignee edits | pull requests extend issue rows; events |
| Git writes (`git/repo_merge.go`, `git/repo_write*.go`) | refs and objects on disk | AheadBehind, Merge, UpdateRef, commits of single files | one git process per command |
| Push path (`gittransport/receivepack.go`, `domain/push.go`) | two ref snapshots of a request | handleReceivePack, OnPush, syncPulls | refs, pull requests, events, handle cache |
| Handle cache (`git/repocache.go`, `git/store.go`) | LRU list of entries, each with a generation and idle handles | acquire, release, invalidate | every read request, the push path |
| Object lookup (`git/pool.go`, `git/repo_write.go`) | one cat-file process per repository with an LRU list, one object cache for all | acquire, lookup, evict, close; get, put | object reads, pushes |
| Refs and contents (`domain/contents_write.go`, `git/repo_write_file.go`, `domain/git_ref_service.go`) | the ref of a branch, the commit under construction | write or delete a file; create, update, delete a ref | the refs on disk, pushes |
| Repository names (`domain/repo_service.go`, `store/queries_repo.go`) | `repos` rows, `repo_redirects` | create, fork, rename, delete | every request that names a repository |
| Webhooks (`webhook/`, `store/queries_webhook.go`) | hooks, events, deliveries | InsertEventAndJob, DeliverEvent fan-out, DeliverWebhook, pruning | job queue, HTTP receivers |
| Reviews and checks (`domain/review_service.go`, `domain/checks_service.go`) | reviews, threads, check suites and runs, cached decision and rollup | submit, dismiss, report, recompute | job queue, pull requests |
| OAuth (`auth/device.go`, `auth/webflow.go`) | device codes, authorization codes, tokens | request, approve, deny, poll; issue, exchange | apps, users |
| Last-used writer (`auth/lastused.go`) | a channel, the flusher's map, `tokens.last_used_at` | touch, flush, close | every authenticated request |
| Credentials (`auth/`) | tokens, sessions, app keys | resolve a PAT, an app JWT, a session | every request |
| Rate limiter (`api/rest/ratelimit.go`) | a window per caller and resource | take, refund, peek | every REST request |
| Store migrations (`store/migrate.go`) | schema version, dirty flag | up, down | start-up |
| APIs, presenter, front end, search, markup, tools | none of their own beyond rows | decode, call, encode | the services |

What is hard about this code: it is many goroutines over one database and a
tree of git repositories, and few of its operations are one transaction. A
request reads rows, runs git commands, and writes rows; a ref update and the row
that records it are never atomic; background jobs read what requests move; jobs
are retried; requests can be cancelled by their client after the ref moved; the
process can stop between any two statements. What makes each component right:

- queue: one active job per dedupe key, one worker per job, bounded attempts, no
  job lost or starved;
- merge: the base branch keeps what was pushed to it, the row says what the
  branch says, a pull request is merged once, the open count is exact, no edit
  is lost;
- sync: head sha and merge state follow the branches;
- handle cache: no handle is shared, no reader sees packs older than the push it
  follows;
- webhooks: every recorded event reaches every subscribed hook at least once;
- reviews and checks: a submitted review stays what it is, the stored decision
  follows the reviews and never goes back, a suite sums up its runs;
- refs and contents: what a branch has named stays in its history;
- names: an old name leads to the repository that last had it;
- OAuth: a code yields one token, for who approved it and for the client it was
  issued to;
- rate limiter: no window bills more than its limit; last-used writer: the last
  touch is the one written;
- pool and caches: never over their limits, never a dead or foreign process,
  never an answer that was not true when it was asked for.

## 2. Plan

Done, in this order:

1. `WorkLedger`, `JobQueue`: proved, and shown to implement `WorkLedger`.
2. `PullMerge`: proved.
3. `RepoCache`: proved.
4. `PullSync`, over `WorkLedger` in place of the concrete queue: proved.
5. `WebhookDelivery`, also over `WorkLedger`: proved.
6. `TokenGrants`, `RateLimit`, `LastUsed`, `RepoNames`, which run together in
   `MCAccess`: proved.
7. `ObjectLookup`, `BranchWrites`, together in `MCGitStore`: proved.
8. `ReviewDecision`, over `WorkLedger`, and `CheckSuites`, together in `MCReviews`:
   proved.

"Proved" is said of the safety properties; liveness is checked.

Left:

- an abstract specification of `WebhookDelivery`: a set of (event, hook) pairs
  owed, accepted, given up;
- the other issue operations (labels, assignees, locking, milestones) and the row
  UpdatePR copies, in `PullMerge`;
- review comments and threads, pushes of many branches at once, migrations.

## 3. Modules

`X.tla` is the specification, `MCX.tla` gives TLC constant values and symmetry
sets, `XProofs.tla` holds the theorems. `MCAccess`, `MCGitStore` and `MCReviews`
are unions of small components that share no state: a behaviour moves one of
them, chosen at its start, so that one run asks the questions of several modules
without multiplying their states. Their parts are proved about together too, in
`AccessProofs`, `GitStoreProofs` and `ReviewsProofs`: each property for the
specification of its own module, and for the union that a behaviour of it is a
behaviour of every part (`EachPart`).

### JobQueue, WorkLedger

One SQL statement is one action. `jobs` is the table, one row or `NoRow` per
slot. An enqueue is two actions (`Precheck`, the dedupe SELECT; `Insert`), a
claim loop's RunOnce three (`Claim`, `Handle`, and `CompleteJob` or `FailJob`),
and `worker[w]` is the loop's copy of the row, whose attempt count FailJob is
called with. `run_after` is abstracted to due or not, and to an age that keeps
the ORDER BY. `SettleFails` and `Restart` are the faults: a settle that returns
an error (as every settle does when the root context is cancelled) and a stop
and start of the process, which looks at no running row. `WorkLedger` is what
producers may assume: accepted, started, finished, retried, parked.

### PullMerge

Merge taken apart: `MergeLoad` (the guard), `MergeReadTip`, `MergeObjects`
(AheadBehind and git's merge), `MergeReadOld` and `MergeSwap` (the two halves of
UpdateRef), `MergeRecord` (the transaction). EditIssue is a read (`EditBegin`,
`EditReload`) and a transaction (`EditCommit`) that writes the whole row under
`lock_version`. A commit is the set of commits reachable from it, so that "takes
commits off the branch" is set inclusion. `CreateIssue`, `PushBase` and
`Restart` complete the environment.

### RepoCache

`acquire`, `release` and `invalidate` run under the cache's mutex and are one
action each; opening a repository (`Open`), the first object read through a
handle (`Read`, which is when go-git parses the pack index) and receive-pack
(`Write`, then `Invalidate`) are actions of their own. `place` is the LRU list.
`packs`, `synced`, a reader's `floor` and `lost` are history: pushes written,
pushes invalidated for, what had been invalidated for when a request began, and
the repositories whose entry was evicted while a request used it.

### PullSync

Two snapshots and a diff around receive-pack (`PushBegin`, `PushWrite`,
`PushDiff`), the sync loops over branches and rows (`SyncBranch`, `SyncHead`,
`SyncEnqueue`, `SyncListBases`, `SyncBase`), CreatePR in its three steps, the
recompute in its reads and its one unguarded write (`Start`, `Read`, `Store`,
`Done`, `Fail`). A merge state is the pair of tips it was computed from.
`Merge`, `UpdateBranch` and `Retarget` are one action each. `WriteBranch` is every
writer of a branch that never reaches OnHeadPush: the refs API, POST /merges, a
contents request, and a Merge whose transaction fails. `Cut`, `SyncFails`,
`EnqueueFails` and `CutOpen` are the ways in which a sync ends early. The queue
is `INSTANCE WorkLedger`: what holds here rests on the queue's promises alone,
and `JobQueue` is proved to keep them. `missed` is a history variable: it marks
the pull requests for which the code, by its own structure, queued no recompute
after a change.

### WebhookDelivery

`RecordEvent` is InsertEventAndJob, one transaction. The fan-out handler is
`List` (two queries: the repository's hooks, then those of the organization's
anchor repository), one `FanOut` per subscribed hook and `FanOutDone`; a
delivery is `Load` (hook and request), `Post` and `Record` (the log row, whose
error is ignored). `Break` is any other failure of a handler, `Settle` what the
queue does with the result, `SettleLost` and `Restart` the faults. CreateHook,
UpdateHook (a read, `EditBegin`, and a write of the whole row, `EditWrite`),
DeleteHook, PingHook, TestHook, redelivery and the retention sweep are the
environment. The queue is `INSTANCE WorkLedger` with no dedupe keys. Four
history variables say what is owed: `steady` (hooks that listened ever since an
event was recorded), `invited` (at some time since), `accepted` (2xx answers)
and `refanned` (events whose fan-out was begun again).

### TokenGrants

A code is a row of the device or of the authorization table, and a request is
where it stands between two statements. The device flow: `RequestDeviceCode`;
`Decide` (the lookup of an approval or a denial) and `SetDeviceState` (its UPDATE
by primary key); `Poll` (the row and the switch over its state), `Mint` (the
token's INSERT) and `DropCode`, whose error is ignored (`DropFails`). The web
flow: `IssueAuthCode`; `Exchange` (the SELECT), `MarkUsed` (the UPDATE that
compares nothing), `CheckClient` (app and redirect URI) and the same `Mint`.
`Expire` lets a code's time pass at any moment. The history variables `overlap`
and `kept` name the two ways in which the code itself lets one code yield two
tokens: two requests that were about to redeem it at once, and a deletion that
failed.

### RateLimit, LastUsed

In `RateLimit` each of `Take`, `Refund` and `Peek` runs under the limiter's mutex
and begins by replacing a window past its reset (`Now`). `Refund` is what a 304
does: it finds the window that is live by then, so `late` counts the units the
present window gave back for an earlier one. `Answer` is any other response.

`LastUsed` splits a touch in two, as its goroutine does: `Stamp` reads the clock,
`Send` sends or, with the channel full, drops. The flusher is `TakeTouch`,
`Flush` (the ticker or the stop, which select may take before what is queued),
and `Bump` or `BumpFails`.

### RepoNames

`repos` is the rows with their names, `live` those not soft-deleted, `redirect`
the table of old names. A rename is three statements (`RenameReads`,
`RenameUpdates`, `RenameRedirects`), the last of which may be lost
(`RenameLosesRedirect`); a deletion is a read and an UPDATE by key; `CreateOrFork`
is the insert that the unique index may refuse. `heir` and `excuse` are history:
the repository that had each name last, and why the name may lead elsewhere all the
same. There are three reasons, forgotten when a repository takes the name again: the
one that moved it on had read another name (`raced`), its redirect failed (`lost`),
or the redirect of an earlier holder was written after its own (`overtaken`).

### ObjectLookup

`Begin` asks the object cache; what it misses goes to the pool: `AcquireWarm`,
`AcquireCold` (which closes the back of the LRU list to make room) or
`AcquireFails`; the query on the process `acquire` returned, which another
goroutine may have closed by now (`QueryAnswers`, `QueryFails`, `QueryGarbled`);
`Evict` of whatever process the repository has by then; `Spawn`, a command of its
own, when the pool could not serve; `Put`, one answer into the cache. `Crash`,
`CloseAll` (Store.Close) and `Receive` (a push writes an object) happen around it.
A goroutine's `floor` is what was on disk when its lookup began. `unread` is the
processes whose pipe holds lines nobody has read, which a batch leaves behind when
it returns at a line it does not expect; `QueryAstray` is a query of such a process,
answered by whatever those lines say, and `astray` marks the lookup it was for.

### BranchWrites

One branch. A contents request is `Stat` (the handler's look at the file),
`Check` (checkCurrentBlob), `Build` (read the tip, commit on top) and `Set`, which
compares nothing. Refs requests and pushes read the old value (`CreateReads`,
`UpdateReads`, `DeleteReads`, `PushReads`), may test that the new one descends
from it (`Ancestor`) and compare and swap (`Swap`). A commit's `past` is the set
of commits reachable from it; `dropped` is history: commits left behind by a
forced move, a deletion, or a contents write whose parent was the tip no longer.

### ReviewDecision, CheckSuites

In `ReviewDecision` each operation on a review is a read of its state and a later
statement: `CreateReads`/`Insert`, `SubmitReads`/`Submit`, `DismissReads`/`Dismiss`,
`DeleteReads`/`Delete`, and then the enqueue (`Enqueue`, or `EnqueueLost`, its
error ignored). `Decision` is the rule of computeReviewDecision: the last opinion
of each reviewer stands, and one request for changes outweighs every approval.
The recompute job runs over `INSTANCE WorkLedger` in its reads and its one
unguarded write (`JobStarts`, `JobReads`, `JobStores`, `JobEnds`, `JobFails`). A
status or check report on the head and a push (`HeadMoves`, which enqueues nothing)
move the other half of the cached row. A report is its rows and the query for pull
requests that are not merged (`Report`), then the enqueue (`ReportEnqueue`), unless
the request ends or an error is dropped before it (`ReportLost`). `Merges` is a merge
elsewhere, after which reports find nothing; and a pull request may be opened on a
commit that has reports (`ReviewInit`). `late` is history: the last change of reviews,
head or reports that asked for a recompute too late, or for none.

`CheckSuites` is one suite and its runs: `CreateRunReads`, `Ensure` (two inserts
of the suite, one of which loses), `Insert`; `UpdateReads` and `Writes` of a whole
row rolled forward in memory (`Rolled`); reruns of one run or of all; and the
refresh of the suite after each, `Lists` and `Sets`, with `Loses` for one that
fails. `Summary` is suiteSummary. `mixed` marks the runs two requests had read to
rewrite at once.

## 4. What the runs check

| Run | Question | Bounds |
|---|---|---|
| `jobqueue` | keys exclusive, a claimed job its loop's alone, dead jobs dead, `JobQueue` implements `WorkLedger`, a due job is not passed over for ever, every job ends unless a fault took one | 2 rows, 1 key, 2 enqueuers, 2 loops, 2 attempts, 1 fault |
| `jobqueue_crash` | violated: a job survives a restart | 1 row, 1 loop, 1 fault |
| `merge_safety` | a merge is recorded once, the open count is exact, no edit is lost | 1 pull request, 2 merges, 2 edits at once, 1 push that conflicts, 1 restart |
| `merge_lost` | violated: a merge takes nothing off the base | 2 pull requests, 2 merges |
| `cache_safety` | handles exclusive, bounds kept, no reader sees packs older than its floor unless its entry was evicted under it | 3 repositories for 2 entries of 1 handle, 2 readers, 1 push |
| `sync_safety` | a merge state goes stale only for the named causes | 1 pull request, 2 moves of a branch, pushes at once or requests that sync nothing, 1 cut or partial failure, 1 base change, 1 parked recompute |
| `sync_settles` | when branches stop moving every merge state becomes and stays current, but for the named causes | 2 stacked pull requests of which one is merged, 1 move of a branch by a push or by a request that syncs nothing, 1 retried recompute |
| `hooks` | a hook that keeps listening loses no event, one that never listened gets none, only a repeated fan-out delivers twice, deliveries end | 1 event, 1 repository hook, 1 organization hook, 5 job slots, 1 loop, 2 attempts, 2 upsets of any sort |
| `access` | a code yields one token unless requests overlapped or a deletion failed, only what was approved is minted and only for the code's client; no window bills over its limit; the last touch sent is the last written; an old name leads to its last repository, unless renames raced, a redirect was lost or an earlier one was written after it | 3 requests on 1 device code and 1 authorization code, 2 users, 2 apps, 1 failed statement; 1 bucket of limit 2, 3 calls, 3 windows; 2 tokens, 2 touchers, a channel of 2, 2 ticks; 3 names, 2 sessions, 2 repositories, 1 lost redirect |
| `git_store` | the pool's map and list agree and leak nothing, what is remembered was true when asked, unless a process out of step with its queries answered, no commit leaves a branch but by force or by a contents write that was overtaken | 2 repositories for 1 process, 2 objects for 1 cache entry, 2 goroutines, 3 process identities, 2 crashes, 1 push; 2 contents requests and 2 movers, 3 commits, 2 moves |
| `lookup_stale` | violated: a cached answer stays true | 1 repository, 2 objects, 1 goroutine |
| `reviews` | a submitted review changes only by dismissal unless two submissions raced, the stored decision never goes back and at rest is that of the present reviews and the rollup that of the present head, a suite at rest sums up its runs, a completed run is reopened only on demand, each but for the causes its comment names | 2 users (one the author), 2 clients, 3 requests, 2 reviews, 1 report or push, 1 merge, 2 faults; 2 runs, 2 reporters, 3 reports, 1 lost refresh |

The bounds are small because each hazard needs few actors: a lost update needs
two writers and one reader, an ABA on a generation one eviction and one push, a
folded enqueue one job in flight. A push moves one branch (`MaxRefs`) in the
passing sync runs; a sync of two branches happens there all the same, when the
diff of one push contains the branch of the other. Two attempts per job exercise
both a retry and a park. Two claim loops, two enqueuers and two rows suffice for
every race on one row or one key, since no statement involves more than two of
them. In `hooks` an upset is a hook edit or deletion, an extra delivery, a
failure or a fault (`MaxUpsets`): two of them in any combination are a partial
fan-out whose retry races with an edit, or a lost log row and a restart. Three
jobs are the most the event itself needs (its fan-out and two deliveries) and
two upsets add at most two. In `access` three requests are the two that overlap
and one that comes after both; three calls against a limit of two make one be
refused; three windows let a refund be one or two windows late; a third name lets
two renames cross. In `git_store` one process for two repositories makes every
cold acquire an eviction, and three identities let a dead process, its
replacement and a third be known at once; three commits are a tip, what overtakes
a write, and the write. In `reviews` three requests are two that race and one to
race with what they left. Safety runs use symmetry on interchangeable
processes, rows and values; runs with a liveness property use none.
`CHECK_DEADLOCK FALSE` is set where the run's bounded supply of requests can be
used up, and the system then rightly rests; `JobQueue` and `RepoCache` never
rest and are checked for deadlock.

### What the violated runs show

Each states what a comment of the repository says and is violated by what the
code does; the comments are quoted in `PROJECT.json` and next to the properties.

- `SurvivesRestart`: a job running at a crash, or at a shutdown that cancels the
  context its settle uses, stays `running` for ever, its dedupe key with it.
- `BaseOnlyGrows`: UpdateRef compares with a value it reads itself, later than
  the tip the merge was built on, so a concurrent merge is overwritten.
- `CacheStaysTrue`: the answer "missing" is cached like an object, for every
  repository, and outlives the push that writes the object.

Smaller disagreements show in the actions themselves and have no run:

*Pull requests and issues.*

- `EditCommit` reopens a merged pull request (`store/queries_pull.go:400` says a
  merged one is a closed issue);
- `EditReload` is taken as often as other edits win
  (`domain/issue_service.go:405` says it retries once);
- `MergeSwap` moves the ref before the transaction `MergeRecord`, which an edit or
  a stop can prevent (`domain/pr_service.go:508` says all is done so that a
  re-read reports merged);
- `Store` compares nothing, so a pull request merged after `Read` looked at it has
  its merge state overwritten (`domain/pr_service.go:650` says it is left
  untouched);
- `SyncHead` writes what its own request's snapshot saw, so of two pushes whose
  syncs run in the other order the older head stays recorded
  (`domain/pr_service.go:699` says a push repoints the recorded head);
- `SyncEnqueue` folds into a job that has already read the old branches, and a base
  change enqueues nothing (`domain/pr_service.go:702` says every affected pull
  request is re-checked);
- `WriteBranch`: CreateRef and UpdateRef of the refs API
  (`domain/git_ref_service.go:44`, `:80`) sync no pull request, a contents write
  neither, and POST /merges calls OnPush, which records the event, and not
  OnHeadPush (`domain/repo_merge.go:73` says the merge is observed like any other
  update of the branch): head shas and merge states stay as they were;
- UpdatePR, which the models leave out but for the base, writes its whole row
  from a copy read earlier.

*Git.*

- an eviction forgets the generation that a later `Release` is compared with
  (`git/repocache.go:18` says a push refuses the return of older handles), which
  is why `FreshRead` excepts `lost`;
- `Evict` is called after a process has died (`git/pool.go:234`) and may close the
  live replacement another goroutine has started since;
- a lookup that began before `CloseAll` starts a process after it
  (`git/store.go:209` says the helper processes do not outlive the store);
- `Set` moves the branch without comparing, whatever `Check` found
  (`domain/repo_service.go:949` says the compare-and-swap is enforced), so what
  others moved the branch to since `Build` leaves it, which is why `LandedStays`
  excepts `dropped`; a contents write also invalidates no cached handle;
- a batch returns at a line it does not expect (`QueryGarbled`) and leaves the rest in
  the pipe: until the process is evicted another goroutine's query takes these lines
  for its own answers (`QueryAstray`), since the id they begin with is never compared,
  and caches them for good (`git/pool.go:85` says the result is positional, `:30` that
  a dead entry is evicted so that the next call recreates the process). `FreshAnswer`
  excepts `astray`;
- two renames of one repository that cross leave the name in between without a
  redirect; `RenameRedirects` may come so late that the name has had another holder,
  which has left it and written its own redirect, and then takes the name from it
  (`domain/repo_service.go:513` says a redirect leads to wherever the repository
  lives); `OldNamesLead` excepts both by name; a fork whose copy fails leaves an empty
  repository.

*Webhooks.*

- `EditWrite` writes back every field `EditBegin` read
  (`domain/hook_service.go:70` says a nil field is left unchanged), so of two
  edits of a hook the later one undoes the other; and removing the last event of a
  list subscribes the hook to push;
- the job of `TestHook` names no event and is no ping, so `Load` can never build its
  request and it is retried until parked (`domain/hook_service.go:179` says the
  hook receives the latest push).

*Access.*

- `Exchange` and `MarkUsed` are two statements (`store/queries_auth_code.go:28`
  says the code is marked atomically), and a wrong client spends the code;
- a late `Refund` takes a unit off the new window
  (`api/rest/ratelimit.go:112` says it is a no-op there);
- `TakeTouch` keeps the last touch received, not the latest
  (`auth/lastused.go:69`).

*Reviews and checks.*

- a second `Submit` rewrites a review already submitted
  (`store/queries_review.go:67` says submitted reviews are immutable);
- the cached rollup folds every status of the head where the one that is answered
  takes the latest of each context, and nothing reads the cached one;
- a report is not always followed by a recompute (`domain/checks_service.go:655` says
  it refreshes the cached rollup of every open pull request): the query and the
  enqueue drop their errors (`ReportLost`), annotations that fail or a rerequest that
  stops between two runs return before it (`domain/checks_service.go:203`, `:263`,
  `:549`), and pull requests that are merged are not found. `HeadMoves` enqueues none,
  nor does CreatePR for a commit that already has reports. `CacheSettles` names them;
- of two refreshes of a suite the one with the older list may be stored last (`Sets`),
  which is why `SuiteSettles` asks that the newest list be the one stored; and of two
  requests that write one check run from copies read earlier the later one undoes the
  other (`Writes`), which is why `StaysCompleted` excepts `mixed`;
- `Ensure` gives the loser of two first reports an error
  (`store/queries_checks.go:93` says the unique key makes the create idempotent);
- an update of a check run cannot change its name; resolving a thread by the id of
  a reply marks the thread and answers not found. Neither is modelled.

## 5. Fairness

`JobQueue!FairSpec`: weak fairness of claim, handler and settle of every loop
(each polls at least once a second and drains greedily; handlers run bounded git
and HTTP calls), of a backoff running out and of the clock. Enqueuers owe
nothing. `NoStarvation` holds because a claim takes the oldest `run_after`, not
because of fairness: without the ORDER BY its mutant starves a job.
`PullSync!FairSpec`: a request that began goes on (its goroutine is not blocked
by anyone) and the queue runs and settles what it accepted, which is what
`EveryJobSettles` checks of the queue as long as no fault occurs.
`WebhookDelivery!FairSpec` assumes the same of the queue, and that a handler
returns: its HTTP client has a timeout. `Reaches` excepts runs with a fault,
which may leave a row running for ever, as `jobqueue_crash` shows. Nothing is
assumed of pushes, opens, base changes and hook edits, and no fairness of faults
anywhere. The modules of `access`, `git_store` and `reviews` state safety only:
what should hold "at rest" (`CacheSettles`, `SuiteSettles`) is an invariant of the
states with nothing under way, and needs no fairness.

## 6. What is proved

For every value of the constants, under the modules' named assumptions (bounds
are naturals, null values are no values, finite sets where a cardinality is
taken):

- `JobQueueProofs`: `TypeOK`, `KeyExclusive`, `LeaseExclusive`,
  `ParkedForGood`, `ImplementsLedger`, and that no job is attempted more often
  than allowed (`BoundedAttempts`). The inductive
  invariant joins them with what they need of each other: the attempt count a
  loop carries is its row's, and a queued row has attempts left. `KeyExclusive`
  is inductive by the unique index alone: the pre-check plays no part in it.
  The refinement maps each action to a ledger action or to a stutter; a claim of
  a job nobody handles is a Start, its parking a Park.
- `PullMergeProofs`: `TypeOK`, `OpenCountExact`, `MergeRecordedOnce`,
  `NoLostEdit`. All rest on one fact about copies (`CopiesAgree`): a request's
  copy of a row never has a version ahead of the row's, and when the versions
  are equal the copy is the row (and, for a merge under way, the pull request is
  not merged). So a transaction that passes the lock decided on the current row.
- `RepoCacheProofs`: `TypeOK`, `Exclusive`, `Bounded` and `FreshRead`. `Bounded`
  needs the list to be a bijection between the entries and 1..n (`Listed`),
  which `Touch` preserves by a counting argument. `FreshRead` speaks of the
  repositories outside `lost`: there the entry of a request under way was never
  evicted (`Tracked`), so equal generations mean no invalidation in between, and
  an idle handle, or a borrowed one of the current generation, has an index no
  older than the last invalidation.
- `PullSyncProofs`: `TypeOK`, `NothingElseGoesStale`. The property itself is not
  inductive: while the stored merge state is right a job may run that has read
  something else, and will store it. `Followed` says what is true of such jobs
  too: unless a recompute of the pull request is owed by a pusher or by CreatePR,
  or it is merged or excepted, either no job for it is live and the row is
  current, or what every live job has read so far is so still. A push makes that
  false of a branch and owes the recompute in the same step, since a branch never
  returns to what a snapshot saw of it (`Snapped`). The queue gives that keys are
  exclusive and only running jobs are in a handler (`QueueSound`), and all that is
  enqueued has a row (`Known`).
- `WebhookDeliveryProofs`: `TypeOK`, `AcceptedOrOwed`, `OnlyInvited`,
  `TwiceOnlyRefanned`. A pair of an event and a steady hook is owed by a slot
  whose row is its delivery or a fan-out that has still to reach the hook
  (`Owes`), a parked row included; a step ends that only by handing the pair to
  another slot or by an accepted answer, to which `Answered` ties the job's
  outcome. Between
  the fan-out's two queries the first list must hold the repository's steady hooks
  (`Listed`). For the converse a slot is `Potent` when it can still bring about an
  acceptance without a new fan-out: at most one is, none once the hook has
  accepted (`Once`).
- `AccessProofs`, the types of the four parts (`AccessTypeOK`) and:
  - of `TokenGrants`, `SingleUse`, `OnlyApproved`, `RightClient`. Where no overlap
    and no failed deletion is recorded, one request at most is spending a code,
    none once its token exists, and the row is then gone, marked, or about to be
    deleted (`Once`); the other two rest on what a request copied from a row still
    agreeing with it (`Agrees`);
  - of `RateLimit`, `BudgetKept`. A refund of the present window takes off a unit
    that is there because the requests charged to the window and not yet answered
    are no more than the units billed: a statement about cardinalities, for which
    `Call` is assumed finite;
  - of `LastUsed`, `LastSentArrives`. The flusher takes a batch only when it has
    written the one before (`BatchWritten`), so that channel, map, batch and row
    hold a token's touches in the order they were sent; of the channel it is shown
    that a token in it has a last place there (`HasLast`). Time starts at 1, zero
    being no touch (`MaxTime` is at least 1);
  - of `RepoNames`, `OldNamesLead`. A live repository is the one its name should
    lead to (`HolderIsHeir`), so a name that is taken leads where it should, and one
    that is free leads where its redirect does: the redirect of the last holder once
    that is written, since only the rename of an earlier holder could replace it, and
    that is recorded as `overtaken`.
- `GitStoreProofs`, the types of both parts (`StoreTypeOK`) and:
  - of `BranchWrites`, `LandedStays`. Histories are closed under history and made of
    commits the branch has named (`Histories`), a commit about to be set has its
    parent's history, and a swap without force goes to a descendant of the value
    it compares with (`Pending`);
  - of `ObjectLookup`, `PoolSound` and `FreshAnswer`. A lookup holds a process from
    `acquire` to the end of the query or of the eviction, and while the pool still
    has that process it has it for the lookup's own repository (`Holds`): so the
    entry that an eviction removes after a death is the dead process's or its
    replacement's, never another repository's. What was on disk when the lookup
    began is among what it has found, which is among what is on disk; that is said of
    the lookups that are not `astray`. The list
    lemmas (`Pushed`, `Cut` and those after them) say where each element of a list
    is once one is moved to the front, taken out, or cut off at the back.
- `ReviewsProofs`, the types of both parts (`ChecksTypeOK`) and:
  - of `ReviewDecision`, `FinalUnlessRaced`, `CacheOnlyAdvances` and `CacheSettles`. A
    review about to be submitted is a draft or was read as one by two requests; the
    key leaves one live job, only a running one is in the handler, and what the
    handler has read is no older than what is stored. For the third (`Settling`): a
    recompute is owed or queued (`Owed`), or the one that runs has read only what
    still holds (`CaughtUp`), or the stored row is the decision of today, or the last
    change is recorded as `late`: one whose enqueue was folded into a running job, or
    lost, or parked, or that asked for none;
  - of `CheckSuites`, `SuiteSettles` and `StaysCompleted`. A run is inserted once
    (`Inserts`); what a request has read of a completed run it does not undo, unless
    it may or the run is `mixed` (`Copies`); and once no run is still to be written
    or listed, the newest list is what the table holds (`Listing`).

So every invariant and every safety action property that a passing run checks is
proved. Liveness (`NoStarvation`, `EveryJobSettles`, `SettlesCurrent`,
`Reaches`) stays with TLC, since the provers do not reason about fairness and
ENABLED. No proof uses induction over data: the list operations
are stated by index (`Without`, `Touched` in `ObjectLookup`) and sets by
cardinality lemmas of the library.

## 7. What is not modelled

Text conflicts (a constant relation), the contents of commits, diffs and
messages; the capacity of the pipes to git, so that a wait for a process whose
output nobody reads does not show; timestamps other than as an order; force pushes that return a branch
to an earlier commit and branch deletion; the deletion of a repository, with its
hooks and events; payloads, signatures and the address guard of webhook
requests; the fields of a row that no property distinguishes; HTTP, GraphQL,
rendering, search and markup, which keep no state of their own; the poll interval
of the device flow, which only decides whether an answer is slow_down; the diff
cache, another bounded map of immutable values. Components without a module are
listed in `PROJECT.json` with the reason: row-at-a-time operations that hardly
interact, pure computation, formatting, or start-up.

Bounds on what a run explores are constants of the modules and appear only in
guards: `MaxFaults`, `MaxEdits`, `MaxPushes`, `MaxMoves`, `MaxRefs`, `MaxCuts`,
`MaxFails`, `MaxRetargets`, `MaxUpsets`, `MaxTokens`, `MaxWindows`, `MaxTime`,
`MaxRedirectFaults`, `MaxReceived`, `MaxCrashes`, `MaxCommits`, `MaxReviews`,
`MaxRequests`, `MaxReports`, `MaxReported`, `MaxLost`, and in `RepoNames`
`MaxRepos`. `QueueSize`, `MaxProcs`, `MaxEntries`, `Limit`, `MaxAttempts`,
`PerRepo`, and in `RepoCache` `MaxRepos`, are the code's own limits made small.
