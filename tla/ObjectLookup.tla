---------------------------- MODULE ObjectLookup ----------------------------
(***************************************************************************)
(* Object lookups: the process-wide cache of object infos, the pool of     *)
(* long-lived cat-file processes behind it, and the one-off process that   *)
(* serves a lookup when the pool fails.                                    *)
(*                                                                         *)
(* Source: git/pool.go, catFileLookup of git/repo_write.go, blobSizes and  *)
(* Close of git/store.go.                                                  *)
(*                                                                         *)
(* Granularity.  cache.get, cache.put, acquire, evict and close run under  *)
(* one mutex each and are one action each.  A query holds the process's    *)
(* mutex from its first byte to the read of the dead flag and is one       *)
(* action: a process closed under a query in progress fails it, as does    *)
(* one closed just before.                                                 *)
(*                                                                         *)
(* Abstractions.  An object is there or missing; its type and size are     *)
(* functions of its id, and Big holds the blobs put refuses to cache.  A   *)
(* query asks for each id on a line and takes the next line for its        *)
(* answer, whatever id that is about; pipes hold all that is written to    *)
(* them.  A process no map and no goroutine refers to is garbage, and its  *)
(* identity serves again for the next one started.                         *)
(***************************************************************************)
EXTENDS Integers, FiniteSets, SequencesExt

CONSTANTS Repo,       \* repositories, by pk
          Sha,        \* object ids
          Big,        \* the ids of blobs over objCacheMaxBlobBytes
          Client,     \* goroutines that look objects up
          Proc,       \* cat-file --batch-check processes
          MaxProcs,   \* 64 in the code
          MaxEntries, \* objCacheMaxEntries, 4096 in the code
          MaxReceived, \* objects written, as far as a run explores
          MaxCrashes, \* processes that die, answer garbage or fail to start
          NoProc      \* a repository without a process

ASSUME SizeAssumption == MaxProcs \in Nat \ {0} /\ MaxEntries \in Nat \ {0} /\ MaxCrashes \in Nat /\ MaxReceived \in Nat
ASSUME BigAssumption == Big \subseteq Sha
ASSUME NoProcAssumption == NoProc \notin Proc

VARIABLES objects,  \* the objects on disk of each repository
          cached,   \* objCache.list, front first, as <<sha, info>> pairs
          procs,    \* catFilePool.procs
          lru,      \* catFilePool.lru (and its index lruIdx), front first
          running,  \* the processes that run
          dead,     \* the processes marked dead
          unread,   \* those whose pipe holds answers nobody has read
          client,   \* what each goroutine is doing
          crashes,  \* faults so far
          received  \* objects written so far

lookupVars == <<objects, cached, procs, lru, running, dead, unread, client, crashes, received>>

-----------------------------------------------------------------------------
Info == {"found", "missing"}

\* A lookup: batch is blobSizes, which has no fallback; found is what git said,
\* and floor what was on disk when the lookup began.  astray is history: the lines
\* it read were the answers to an earlier query.
NoLookup == [pc |-> "idle"]
Lookups == [pc : {"acquire", "query", "evict", "spawn", "put"}, repo : Repo, want : SUBSET Sha,
            batch : BOOLEAN, proc : Proc \cup {NoProc}, failed : BOOLEAN,
            astray : BOOLEAN, found : SUBSET Sha, floor : SUBSET Sha]

LookupTypeOK ==
    /\ objects \in [Repo -> SUBSET Sha]
    /\ cached \in Seq(Sha \X Info)
    /\ procs \in [Repo -> Proc \cup {NoProc}]
    /\ lru \in Seq(Repo)
    /\ running \subseteq Proc
    /\ dead \subseteq Proc
    /\ unread \subseteq dead
    /\ client \in [Client -> {NoLookup} \cup Lookups]
    /\ crashes \in 0..MaxCrashes
    /\ received \in 0..MaxReceived

Busy(c) == client[c] # NoLookup
Borrows(c, p) == Busy(c) /\ client[c].proc = p

\* A fresh process: no map and no goroutine refers to it.
Collected(p) == /\ \A r \in Repo : procs[r] # p
              /\ \A c \in Client : ~Borrows(c, p)

-----------------------------------------------------------------------------
LookupInit ==
    /\ objects = [r \in Repo |-> {}]
    /\ cached = << >>
    /\ procs = [r \in Repo |-> NoProc]
    /\ lru = << >>
    /\ running = {}
    /\ dead = {}
    /\ unread = {}
    /\ client = [c \in Client |-> NoLookup]
    /\ crashes = 0
    /\ received = 0

\* A push, or any other git command, writes an object.
Receive(r, s) ==
    /\ received < MaxReceived
    /\ received' = received + 1
    /\ s \notin objects[r]
    /\ objects' = [objects EXCEPT ![r] = @ \cup {s}]
    /\ UNCHANGED <<cached, procs, lru, running, dead, unread, client, crashes>>

-----------------------------------------------------------------------------
(* The object cache. *)

\* A list without the element its index has for an id: the one at I, or none.
Without(q, I) == IF I = {} THEN q ELSE RemoveAt(q, CHOOSE i \in I : TRUE)

\* objCache.entries.
Entries(q, s) == {i \in DOMAIN q : q[i][1] = s}

\* The list with the entry of s, or a new one, at its front.
Fronted(q, s, i) == << <<s, i>> >> \o Without(q, Entries(q, s))

Hits(want) == {s \in want : \E e \in ToSet(cached) : e[1] = s}

\* The lists get may leave: the hits at the front, a batch's in any order, and the
\* others behind them as they were.
Touched(q, want) ==
    {[i \in DOMAIN q |-> q[f[i]]] :
        f \in {f \in Injection(DOMAIN q, DOMAIN q) : \A i, j \in DOMAIN q :
                 i < j /\ q[f[i]][1] \notin want => f[i] < f[j] /\ q[f[j]][1] \notin want}}

\* Mutant: the request does not say which repository it is about.
LookupOfBare(r, want, batch) ==
    [pc |-> "acquire", want |-> want, batch |-> batch, proc |-> NoProc, failed |-> FALSE,
     astray |-> FALSE, found |-> {}, floor |-> objects[r] \cap want]

LookupOf(r, want, batch) ==
    [pc |-> "acquire", repo |-> r, want |-> want, batch |-> batch, proc |-> NoProc,
     failed |-> FALSE, astray |-> FALSE, found |-> {}, floor |-> objects[r] \cap want]

\* catFileLookup (one id) and blobSizes (several): what the cache has is
\* answered, and the request goes to the pool only for what it misses.
Begin(c, r, want, batch) ==
    /\ client[c] = NoLookup
    /\ cached' \in Touched(cached, want)
    /\ client' = IF want = Hits(want) THEN client
                 ELSE [client EXCEPT ![c] = LookupOf(r, want \ Hits(want), batch)]
    /\ UNCHANGED <<objects, procs, lru, running, dead, unread, crashes, received>>

\* put: what is called a big blob is not cached, an entry is replaced in place, and
\* a new one pushes the oldest out.
AfterPut(q, s, i, big) ==
    IF i = "found" /\ big THEN q
    ELSE LET n == Fronted(q, s, i)
         IN  IF Len(n) > MaxEntries THEN SubSeq(n, 1, MaxEntries) ELSE n

Answer(l, s) == IF s \in l.found THEN "found" ELSE "missing"

\* After the answer of the last id the lookup returns.
Answered(l, s) ==
    IF l.want = {s} THEN NoLookup
    ELSE [l EXCEPT !.want = @ \ {s}, !.found = @ \ {s}, !.floor = @ \ {s}]

\* The answer of one id is remembered, the type and size of another object with it
\* where the line was about another.
Put(c, s) ==
    /\ client[c].pc = "put"
    /\ s \in client[c].want
    /\ \E big \in IF client[c].astray THEN BOOLEAN ELSE {s \in Big} :
          cached' = AfterPut(cached, s, Answer(client[c], s), big)
    /\ client' = [client EXCEPT ![c] = Answered(@, s)]
    /\ UNCHANGED <<objects, procs, lru, running, dead, unread, crashes, received>>

-----------------------------------------------------------------------------
(* The pool. *)

\* Mutant: room is made only when the limit is already passed.
RoomOver(q) == IF Len(q) > MaxProcs THEN SubSeq(q, 1, MaxProcs) ELSE q

\* What is left of the list when acquire has dropped its back, below the limit.
Room(q) == IF Len(q) >= MaxProcs THEN SubSeq(q, 1, MaxProcs - 1) ELSE q

\* catFilePool.lruIdx.
Index(q, r) == {i \in DOMAIN q : q[i] = r}

\* acquire, the repository has a process.
AcquireWarm(c) ==
    LET r == client[c].repo
    IN  /\ client[c].pc = "acquire"
        /\ procs[r] # NoProc
        /\ lru' = <<r>> \o Without(lru, Index(lru, r))
        /\ client' = [client EXCEPT ![c].pc = "query", ![c].proc = procs[r]]
        /\ UNCHANGED <<objects, cached, procs, running, dead, unread, crashes, received>>

\* acquire starts one, after it has closed what is at the back of the list.
\* close waits for the process to end.
AcquireCold(c, p) ==
    LET r == client[c].repo
        kept == ToSet(Room(lru))
    IN  /\ client[c].pc = "acquire"
        /\ procs[r] = NoProc
        /\ Collected(p)
        /\ lru' = <<r>> \o Room(lru)
        /\ procs' = [x \in Repo |-> IF x = r THEN p ELSE IF x \in kept THEN procs[x] ELSE NoProc]
        /\ running' = (running \ {procs[x] : x \in Repo \ kept}) \cup {p}
        /\ dead' = dead \ {p}
        /\ unread' = unread \ {p}
        /\ client' = [client EXCEPT ![c].pc = "query", ![c].proc = p]
        /\ UNCHANGED <<objects, cached, crashes, received>>

\* Mutant: a failed query is taken for a missing object.
FallbackNone(l) == IF l.batch THEN NoLookup ELSE [l EXCEPT !.pc = "put", !.proc = NoProc]

\* What follows a lookup the pool could not serve: catFileLookup runs a process
\* of its own, blobSizes returns the error.
Fallback(l) == IF l.batch THEN NoLookup ELSE [l EXCEPT !.pc = "spawn", !.proc = NoProc]

\* acquire, the process does not start: the room has been made all the same.
AcquireFails(c) ==
    LET r == client[c].repo
        kept == ToSet(Room(lru))
    IN  /\ client[c].pc = "acquire"
        /\ procs[r] = NoProc
        /\ crashes < MaxCrashes
        /\ crashes' = crashes + 1
        /\ lru' = Room(lru)
        /\ procs' = [x \in Repo |-> IF x \in kept THEN procs[x] ELSE NoProc]
        /\ running' = running \ {procs[x] : x \in Repo \ kept}
        /\ client' = [client EXCEPT ![c] = Fallback(@)]
        /\ UNCHANGED <<objects, cached, dead, unread, received>>

\* After the query: evict when the process is dead, whoever found it so.
AfterQuery(l, failed, isDead) ==
    IF isDead THEN [l EXCEPT !.pc = "evict", !.failed = failed]
    ELSE [l EXCEPT !.pc = "put", !.proc = NoProc]

\* The process answers.
QueryAnswers(c) ==
    LET l == client[c]
        seen == l.want \cap objects[l.repo]
    IN  /\ l.pc = "query"
        /\ l.proc \in running \ unread
        /\ client' = [client EXCEPT ![c] = AfterQuery([l EXCEPT !.found = seen], FALSE, l.proc \in dead)]
        /\ UNCHANGED <<objects, cached, procs, lru, running, dead, unread, crashes, received>>

\* The process has answers in its pipe that nobody has read: these are taken for
\* what was asked, and its own answers are left for the next query.
QueryAstray(c) ==
    LET l == client[c]
    IN  /\ l.pc = "query"
        /\ l.proc \in running \cap unread
        /\ \E seen \in SUBSET l.want :
              /\ objects[l.repo] = {} => seen = {}
              /\ client' = [client EXCEPT ![c] =
                     AfterQuery([l EXCEPT !.found = seen, !.astray = TRUE], FALSE, l.proc \in dead)]
        /\ UNCHANGED <<objects, cached, procs, lru, running, dead, unread, crashes, received>>

\* The process is gone: a write or a read fails and it is marked dead.
QueryFails(c) ==
    LET l == client[c]
    IN  /\ l.pc = "query"
        /\ l.proc \notin running
        /\ dead' = dead \cup {l.proc}
        /\ client' = [client EXCEPT ![c] = AfterQuery(l, TRUE, TRUE)]
        /\ UNCHANGED <<objects, cached, procs, lru, running, unread, crashes, received>>

\* A line the parser does not expect: an error from a process that runs on.  A batch
\* returns at that line, and does not read those that follow.
QueryGarbled(c) ==
    LET l == client[c]
    IN  /\ l.pc = "query"
        /\ l.proc \in running
        /\ crashes < MaxCrashes
        /\ crashes' = crashes + 1
        /\ dead' = dead \cup {l.proc}
        /\ \/ unread' = unread
           \/ Cardinality(l.want) > 1 /\ unread' = unread \cup {l.proc}
        /\ client' = [client EXCEPT ![c] = AfterQuery(l, TRUE, TRUE)]
        /\ UNCHANGED <<objects, cached, procs, lru, running, received>>

\* Mutant: the entry leaves the list, and the process runs on.
EvictedOpen(r) == running

\* The processes that run after evict.
EvictedFrom(r) == running \ {procs[r]}

\* evict closes the process the repository has by now.
Evict(c) ==
    LET l == client[c]
    IN  /\ l.pc = "evict"
        /\ running' = EvictedFrom(l.repo)
        /\ procs' = [procs EXCEPT ![l.repo] = NoProc]
        /\ lru' = Without(lru, Index(lru, l.repo))
        /\ client' = [client EXCEPT ![c] = IF l.failed THEN Fallback(l)
                                           ELSE [l EXCEPT !.pc = "put", !.proc = NoProc]]
        /\ UNCHANGED <<objects, cached, dead, unread, crashes, received>>

\* The one-off process answers, or its error is returned.
Spawn(c) ==
    LET l == client[c]
        seen == l.want \cap objects[l.repo]
    IN  /\ l.pc = "spawn"
        /\ client' = [client EXCEPT ![c] = [l EXCEPT !.pc = "put", !.found = seen]]
        /\ UNCHANGED <<objects, cached, procs, lru, running, dead, unread, crashes, received>>

SpawnFails(c) ==
    /\ client[c].pc = "spawn"
    /\ crashes < MaxCrashes
    /\ crashes' = crashes + 1
    /\ client' = [client EXCEPT ![c] = NoLookup]
    /\ UNCHANGED <<objects, cached, procs, lru, running, dead, unread, received>>

\* A process dies.
Crash(p) ==
    /\ p \in running
    /\ crashes < MaxCrashes
    /\ crashes' = crashes + 1
    /\ running' = running \ {p}
    /\ UNCHANGED <<objects, cached, procs, lru, dead, unread, client, received>>

\* Store.Close.
CloseAll ==
    /\ running' = running \ {procs[r] : r \in Repo}
    /\ procs' = [r \in Repo |-> NoProc]
    /\ lru' = << >>
    /\ UNCHANGED <<objects, cached, dead, unread, client, crashes, received>>

-----------------------------------------------------------------------------
Go(c) ==
    \/ \E s \in Sha : Put(c, s)
    \/ AcquireWarm(c)
    \/ \E p \in Proc : AcquireCold(c, p)
    \/ QueryAnswers(c)
    \/ QueryAstray(c)
    \/ QueryFails(c)
    \/ Evict(c)
    \/ Spawn(c)

Faults ==
    \/ \E c \in Client : AcquireFails(c) \/ QueryGarbled(c) \/ SpawnFails(c)
    \/ \E p \in Proc : Crash(p)

\* A lookup of one id, and the batch of a recursive tree listing.
Request(c, r) ==
    \/ \E s \in Sha : Begin(c, r, {s}, FALSE)
    \/ \E want \in SUBSET Sha \ {{}} : Begin(c, r, want, TRUE)

LookupNext ==
    \/ \E r \in Repo, s \in Sha : Receive(r, s)
    \/ \E c \in Client, r \in Repo : Request(c, r)
    \/ \E c \in Client : Go(c)
    \/ Faults
    \/ CloseAll

LookupSpec == LookupInit /\ [][LookupNext]_lookupVars

-----------------------------------------------------------------------------
\* The two lists and their maps agree and stay within their limits: no
\* repository is listed twice or has a process without being listed, no two
\* share one, and no id is cached twice.  acquire, evict and close each change
\* procs, lru and lruIdx and must change them alike.
Listed ==
    /\ Len(lru) <= MaxProcs
    /\ IsInjective(lru)
    /\ ToSet(lru) = {r \in Repo : procs[r] # NoProc}
    /\ \A q, r \in Repo : procs[q] = procs[r] /\ q # r => procs[q] = NoProc
    /\ Len(cached) <= MaxEntries
    /\ \A i, j \in DOMAIN cached : cached[i][1] = cached[j][1] => i = j

\* No process is leaked: one that runs is in the pool, so that it will be closed
\* by evict, by eviction at the limit or by Store.Close.
NoLeak == \A p \in running : \E r \in Repo : procs[r] = p

\* What git was asked for is true when it is remembered: a found object is in the
\* repository, a missing one was not there when the lookup began.  A process
\* that dies, or that another goroutine's eviction closes under the query, must
\* not turn into "missing".  The code excepts itself in one case: lookupBatch
\* returns at a line it does not expect (git/pool.go:116-119) with more to read,
\* and a goroutine that has the process already, or acquires it before the
\* eviction, takes these lines for its own answers, since no query compares the
\* id a line begins with.
FreshAnswer ==
    \A c \in Client : client[c].pc = "put" /\ ~client[c].astray => \A s \in client[c].want :
        IF s \in client[c].found THEN s \in objects[client[c].repo]
                                  ELSE s \notin client[c].floor

\* A process marked dead does not stay in the pool: as long as a repository has
\* one, some goroutine is on its way to evict it, though the mark is made under
\* the process's mutex and the eviction under the pool's.  One that is out of step
\* with its queries (unread) is marked, so that it goes as well.
DeadIsLeaving ==
    \A r \in Repo : procs[r] \in dead =>
        \E c \in Client : client[c].pc = "evict" /\ client[c].repo = r

\* The pool keeps its books: its lists agree, nothing runs outside it, and what
\* died in it is on the way out.
PoolSound == Listed /\ NoLeak /\ DeadIsLeaving

\* git/pool.go:262: "a cached entry is permanently valid".  Violated: missing
\* is cached as well, and a later push makes it wrong.
CacheStaysTrue ==
    \A i \in DOMAIN cached : cached[i][2] = "missing" =>
        \A r \in Repo : cached[i][1] \notin objects[r]
=============================================================================
