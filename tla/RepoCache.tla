------------------------------ MODULE RepoCache -----------------------------
(***************************************************************************)
(* The bounded LRU cache of warm go-git handles, the requests that borrow  *)
(* handles from it and the pushes that make handles out of date.           *)
(*                                                                         *)
(* Source: git/repocache.go, Open and InvalidateRepo of git/store.go,      *)
(* Release of git/repo_read.go, gittransport/receivepack.go.               *)
(*                                                                         *)
(* Granularity.  acquire, release and invalidate hold the cache's mutex    *)
(* and are one action each; opening a repository, the first object read    *)
(* through a handle and the run of receive-pack are actions of their own.  *)
(*                                                                         *)
(* Abstractions.  The LRU list is given by the place of each entry in it.  *)
(* The pack files of a repository are counted by the pushes that wrote     *)
(* some; a handle knows those that were there when its pack index was      *)
(* parsed, which is at its first object read.  The idle handles of an      *)
(* entry are a set, and acquire hands out any of them (the code, the last  *)
(* one in).  A handle nobody refers to is garbage, and its identity serves *)
(* again for the next one opened.                                          *)
(***************************************************************************)
EXTENDS Integers, FiniteSets

CONSTANTS Dir,        \* repository directories
          Reader,     \* requests that read a repository
          Pusher,     \* receive-pack requests
          Handle,     \* go-git handles
          MaxRepos,   \* repoCacheMaxRepos, 64 in the code
          PerRepo,    \* repoCacheHandlesPerRepo, 4 in the code
          MaxPushes,  \* pushes to one repository a run explores
          Lazy        \* the index of a handle has not been parsed

ASSUME DirAssumption == IsFiniteSet(Dir)
ASSUME SizeAssumption == MaxRepos \in Nat \ {0} /\ PerRepo \in Nat /\ MaxPushes \in Nat
ASSUME LazyAssumption == Lazy \notin Nat

VARIABLES place,    \* of each entry in the LRU list, 1 the front; 0 for no entry
          gen,      \* generation of each entry (0 where there is none)
          idle,     \* idle handles of each entry ({} where there is none)
          seen,     \* the packs in a handle's parsed index
          reader,   \* what each request has borrowed
          pusher,   \* the repository each push has written and not yet invalidated
          packs,    \* packs on disk
          synced,   \* packs on disk at the last invalidation
          lost      \* history: entries evicted while a request was using them

vars == <<place, gen, idle, seen, reader, pusher, packs, synced, lost>>

-----------------------------------------------------------------------------
NoRequest == [pc |-> "idle"]

\* floor is what had been invalidated for when the request called acquire.
Opening == [pc : {"opening"}, dir : Dir, gen : Nat, floor : Nat]
Reading == [pc : {"reading"}, dir : Dir, gen : Nat, floor : Nat, handle : Handle]

TypeOK ==
    /\ place \in [Dir -> Nat]
    /\ gen \in [Dir -> Nat]
    /\ idle \in [Dir -> SUBSET Handle]
    /\ seen \in [Handle -> Nat \cup {Lazy}]
    /\ reader \in [Reader -> {NoRequest} \cup Opening \cup Reading]
    /\ pusher \in [Pusher -> {NoRequest} \cup [pc : {"written"}, dir : Dir]]
    /\ packs \in [Dir -> Nat]
    /\ synced \in [Dir -> Nat]
    /\ lost \subseteq Dir
    /\ \A d \in Dir : place[d] = 0 => gen[d] = 0 /\ idle[d] = {}

Holds(r, h) == reader[r].pc = "reading" /\ reader[r].handle = h

Uses(r, d) == reader[r] # NoRequest /\ reader[r].dir = d

Garbage(h) == /\ \A d \in Dir : h \notin idle[d]
              /\ \A r \in Reader : ~Holds(r, h)

-----------------------------------------------------------------------------
Init ==
    /\ place = [d \in Dir |-> 0]
    /\ gen = [d \in Dir |-> 0]
    /\ idle = [d \in Dir |-> {}]
    /\ seen = [h \in Handle |-> Lazy]
    /\ reader = [r \in Reader |-> NoRequest]
    /\ pusher = [p \in Pusher |-> NoRequest]
    /\ packs = [d \in Dir |-> 0]
    /\ synced = [d \in Dir |-> 0]
    /\ lost = {}

-----------------------------------------------------------------------------
(* The cache. *)

Present == {d \in Dir : place[d] # 0}
Last == {d \in Present : place[d] = Cardinality(Present)}

\* touch evicts the least recently used entry when a new one finds no room.
Evicted(d) == IF d \notin Present /\ Cardinality(Present) >= MaxRepos THEN Last ELSE {}

\* d goes to the front, and the entries that were before it move back by one.
Touch(d) ==
    /\ place' = [x \in Dir |-> CASE x = d -> 1
                               [] x # d /\ (x \notin Present \/ x \in Evicted(d)) -> 0
                               [] OTHER -> IF d \notin Present \/ place[x] < place[d]
                                           THEN place[x] + 1 ELSE place[x]]
    /\ gen' = [x \in Dir |-> IF x \in Evicted(d) THEN 0 ELSE gen[x]]
    /\ lost' = lost \cup {x \in Evicted(d) : \E r \in Reader : Uses(r, x)}

\* Mutant: the handle handed out stays in the idle list.
RemainingAll(x, h) == idle[x]

\* The idle list a handle was taken from.
Remaining(x, h) == idle[x] \ {h}

\* acquire: a warm handle, or none and Open goes to disk.
Acquire(r, d) ==
    /\ reader[r] = NoRequest
    /\ Touch(d)
    /\ \/ \E h \in idle[d] :
            /\ idle' = [x \in Dir |-> IF x \in Evicted(d) THEN {} ELSE Remaining(x, h)]
            /\ reader' = [reader EXCEPT ![r] =
                  [pc |-> "reading", dir |-> d, gen |-> gen[d], floor |-> synced[d], handle |-> h]]
       \/ /\ idle[d] = {}
          /\ idle' = [x \in Dir |-> IF x \in Evicted(d) THEN {} ELSE idle[x]]
          /\ reader' = [reader EXCEPT ![r] =
                [pc |-> "opening", dir |-> d, gen |-> gen[d], floor |-> synced[d]]]
    /\ UNCHANGED <<seen, pusher, packs, synced>>

\* gogit.PlainOpen of a fresh handle, or ErrRepoNotFound.
Open(r) ==
    /\ reader[r].pc = "opening"
    /\ \/ \E h \in Handle :
            /\ Garbage(h)
            /\ seen' = [seen EXCEPT ![h] = Lazy]
            /\ reader' = [reader EXCEPT ![r] =
                  [pc |-> "reading", dir |-> reader[r].dir, gen |-> reader[r].gen,
                   floor |-> reader[r].floor, handle |-> h]]
       \/ /\ reader' = [reader EXCEPT ![r] = NoRequest]
          /\ UNCHANGED seen
    /\ UNCHANGED <<place, gen, idle, pusher, packs, synced, lost>>

\* The first object read through a handle parses the pack index.
Read(r) ==
    /\ reader[r].pc = "reading"
    /\ seen[reader[r].handle] = Lazy
    /\ seen' = [seen EXCEPT ![reader[r].handle] = packs[reader[r].dir]]
    /\ UNCHANGED <<place, gen, idle, reader, pusher, packs, synced, lost>>

\* Mutants: the eviction, the generation or the bound on the idle list is not
\* looked at.
TakesBackGone(d, g) == gen[d] = g /\ Cardinality(idle[d]) < PerRepo
TakesBackAny(d, g) == d \in Present /\ Cardinality(idle[d]) < PerRepo
TakesBackFull(d, g) == d \in Present /\ gen[d] = g

\* release puts the handle back, unless the entry is gone, has moved on to
\* another generation or is full.
TakesBack(d, g) == d \in Present /\ gen[d] = g /\ Cardinality(idle[d]) < PerRepo

Release(r) ==
    /\ reader[r].pc = "reading"
    /\ LET d == reader[r].dir IN
       IF TakesBack(d, reader[r].gen)
       THEN /\ idle' = [idle EXCEPT ![d] = @ \cup {reader[r].handle}]
            /\ Touch(d)
       ELSE UNCHANGED <<idle, place, gen, lost>>
    /\ reader' = [reader EXCEPT ![r] = NoRequest]
    /\ UNCHANGED <<seen, pusher, packs, synced>>

\* "Releasing is optional": the handle is just collected.
Abandon(r) ==
    /\ reader[r].pc = "reading"
    /\ reader' = [reader EXCEPT ![r] = NoRequest]
    /\ UNCHANGED <<place, gen, idle, seen, pusher, packs, synced, lost>>

-----------------------------------------------------------------------------
(* Pushes. *)

\* receive-pack writes a pack.
Write(p, d) ==
    /\ pusher[p] = NoRequest
    /\ packs[d] < MaxPushes
    /\ packs' = [packs EXCEPT ![d] = @ + 1]
    /\ pusher' = [pusher EXCEPT ![p] = [pc |-> "written", dir |-> d]]
    /\ UNCHANGED <<place, gen, idle, seen, reader, synced, lost>>

\* invalidate, which does nothing when the repository has no entry.
Invalidate(p) ==
    /\ pusher[p].pc = "written"
    /\ LET d == pusher[p].dir IN
       /\ IF d \in Present
          THEN /\ gen' = [gen EXCEPT ![d] = @ + 1]
               /\ idle' = [idle EXCEPT ![d] = {}]
          ELSE UNCHANGED <<gen, idle>>
       /\ synced' = [synced EXCEPT ![d] = packs[d]]
    /\ pusher' = [pusher EXCEPT ![p] = NoRequest]
    /\ UNCHANGED <<place, seen, reader, packs, lost>>

-----------------------------------------------------------------------------
Next ==
    \/ \E r \in Reader, d \in Dir : Acquire(r, d)
    \/ \E r \in Reader : Open(r) \/ Read(r) \/ Release(r) \/ Abandon(r)
    \/ \E p \in Pusher, d \in Dir : Write(p, d)
    \/ \E p \in Pusher : Invalidate(p)

Spec == Init /\ [][Next]_vars

-----------------------------------------------------------------------------
(* What holds. *)

\* go-git handles are not safe for concurrent use: a handle is borrowed by one
\* request at most, and is idle in one entry at most and only while not borrowed.
Exclusive ==
    \A h \in Handle :
        /\ \A r, s \in Reader : Holds(r, h) /\ Holds(s, h) => r = s
        /\ \A d, e \in Dir : h \in idle[d] /\ h \in idle[e] => d = e
        /\ \A r \in Reader, d \in Dir : ~(Holds(r, h) /\ h \in idle[d])

\* The cache stays within its two bounds, and its list has each entry once.
Bounded ==
    /\ Cardinality(Present) <= MaxRepos
    /\ \A d \in Dir : Cardinality(idle[d]) <= PerRepo
    /\ {place[d] : d \in Present} = 1..Cardinality(Present)

\* A request that begins after a push was invalidated for reads that push,
\* through a warm handle as through a fresh one, unless the repository's entry
\* was once evicted while a request was using it.
FreshRead ==
    \A r \in Reader :
        reader[r].pc = "reading" /\ reader[r].dir \notin lost =>
            LET s == seen[reader[r].handle] IN s # Lazy => s >= reader[r].floor
=============================================================================
