--------------------------- MODULE RepoCacheProofs --------------------------
(***************************************************************************)
(* Proofs about RepoCache for any repositories, requests, pushes, handles  *)
(* and cache sizes.                                                        *)
(***************************************************************************)
EXTENDS RepoCache, FiniteSetTheorems, TLAPS

USE DirAssumption, SizeAssumption, LazyAssumption

\* The LRU list is a list: each place is that of one entry.
Listed ==
    /\ \A d \in Present : place[d] \in 1..Cardinality(Present)
    /\ \A i \in 1..Cardinality(Present) : \E d \in Present : place[d] = i
    /\ \A d, e \in Present : place[d] = place[e] => d = e

Fits == /\ Cardinality(Present) <= MaxRepos
        /\ \A d \in Dir : Cardinality(idle[d]) <= PerRepo

\* Idle lists are finite, so that their bound means something.
IdleFinite == \A d \in Dir : IsFiniteSet(idle[d])

IInv == TypeOK /\ Exclusive /\ Listed /\ Fits /\ IdleFinite

LEMMA PresentFact ==
    ASSUME TypeOK
    PROVE  /\ IsFiniteSet(Present) /\ Cardinality(Present) \in Nat
           /\ \A d \in Dir : d \in Present <=> place[d] # 0
<1>1. Present \subseteq Dir
  BY DEF Present
<1>2. QED
  BY <1>1, FS_Subset, FS_CardinalityType DEF Present

-----------------------------------------------------------------------------
(* The LRU list. *)

\* touch evicts one entry when it evicts any.
LEMMA EvictedFact ==
    ASSUME TypeOK, Listed, NEW d \in Dir
    PROVE  \/ Evicted(d) = {} /\ (d \in Present \/ Cardinality(Present) < MaxRepos)
           \/ /\ d \notin Present /\ Cardinality(Present) >= MaxRepos
              /\ \E e \in Present : /\ Evicted(d) = {e}
                                    /\ place[e] = Cardinality(Present)
<1>1. Cardinality(Present) \in Nat
  BY PresentFact
<1>2. CASE d \notin Present /\ Cardinality(Present) >= MaxRepos
  <2>1. Cardinality(Present) \in 1..Cardinality(Present)
    BY <1>1, <1>2
  <2>2. PICK e \in Present : place[e] = Cardinality(Present)
    BY <2>1 DEF Listed
  <2>3. Last = {e}
    BY <2>2 DEF Last, Listed
  <2>4. QED
    BY <1>2, <2>2, <2>3 DEF Evicted
<1>3. CASE ~(d \notin Present /\ Cardinality(Present) >= MaxRepos)
  BY <1>1, <1>3 DEF Evicted
<1>4. QED
  BY <1>2, <1>3

\* touch keeps the list a list and the cache within MaxRepos entries.
LEMMA TouchKeeps ==
    ASSUME TypeOK, Listed, Cardinality(Present) <= MaxRepos, NEW d \in Dir, Touch(d)
    PROVE  /\ place' \in [Dir -> Nat] /\ gen' \in [Dir -> Nat]
           /\ Present' = (Present \ Evicted(d)) \cup {d}
           /\ Listed' /\ Cardinality(Present)' <= MaxRepos
<1> DEFINE n == Cardinality(Present)
<1>1. n \in Nat /\ IsFiniteSet(Present)
  BY PresentFact
<1>2. place' \in [Dir -> Nat] /\ gen' \in [Dir -> Nat]
  BY DEF Touch, TypeOK
<1>3. \A x \in Dir :
        place'[x] = IF x = d THEN 1
                    ELSE IF x \notin Present \/ x \in Evicted(d) THEN 0
                    ELSE IF d \notin Present \/ place[x] < place[d] THEN place[x] + 1
                    ELSE place[x]
  BY DEF Touch
<1>4. Present' = (Present \ Evicted(d)) \cup {d}
  BY <1>3 DEF Present, TypeOK
<1>5. CASE d \in Present
  <2>1. Evicted(d) = {} /\ Present' = Present /\ Cardinality(Present') = n
    BY <1>4, <1>5, EvictedFact
  <2>2. \A x \in Present : place'[x] \in 1..n
    BY <1>1, <1>3, <1>5, <2>1 DEF Listed, Present, TypeOK
  <2>3. ASSUME NEW x \in Present, NEW y \in Present, place'[x] = place'[y]
        PROVE  x = y
    <3>1. /\ place[x] \in 1..n /\ place[y] \in 1..n /\ place[d] \in 1..n
          /\ place[x] = place[d] => x = d
          /\ place[y] = place[d] => y = d
          /\ place[x] = place[y] => x = y
      BY <1>5 DEF Listed
    <3>2. /\ place'[x] = IF x = d THEN 1 ELSE IF place[x] < place[d] THEN place[x] + 1 ELSE place[x]
          /\ place'[y] = IF y = d THEN 1 ELSE IF place[y] < place[d] THEN place[y] + 1 ELSE place[y]
      BY <1>3, <1>5, <2>1 DEF Present
    <3> DEFINE i == place[x]
               j == place[y]
               k == place[d]
    <3>3. /\ i \in Nat /\ j \in Nat /\ k \in Nat /\ i >= 1 /\ j >= 1 /\ k >= 1
          /\ i = k => x = d
          /\ j = k => y = d
          /\ i = j => x = y
      BY <1>1, <3>1
    <3>4. (IF x = d THEN 1 ELSE IF i < k THEN i + 1 ELSE i)
            = (IF y = d THEN 1 ELSE IF j < k THEN j + 1 ELSE j)
      BY <2>3, <3>2
    <3> HIDE DEF i, j, k
    <3>5. CASE x = d \/ y = d
      BY <3>3, <3>4, <3>5
    <3>6. CASE x # d /\ y # d
      BY <3>3, <3>4, <3>6
    <3>7. QED
      BY <3>5, <3>6
  <2>4. ASSUME NEW i \in 1..n
        PROVE  \E x \in Present : place'[x] = i
    <3>1. CASE i = 1
      BY <1>3, <1>5, <3>1
    <3>2. CASE i # 1 /\ i <= place[d]
      <4>1. i - 1 \in 1..n
        BY <1>1, <2>4, <3>2
      <4>2. PICK x \in Present : place[x] = i - 1
        BY <4>1 DEF Listed
      <4>3. x \in Dir /\ x # d /\ place[x] < place[d] /\ place'[x] = i
        BY <1>1, <1>3, <1>5, <2>1, <3>2, <4>2 DEF Present, TypeOK
      <4>4. QED
        BY <4>3
    <3>3. CASE i > place[d]
      <4>1. PICK x \in Present : place[x] = i
        BY DEF Listed
      <4>2. x \in Dir /\ x # d /\ place'[x] = i
        BY <1>1, <1>3, <1>5, <2>1, <3>3, <4>1 DEF Present, TypeOK
      <4>3. QED
        BY <4>2
    <3>4. QED
      BY <1>1, <1>5, <3>1, <3>2, <3>3 DEF Present, TypeOK
  <2>5. \A x, y \in Present : place'[x] = place'[y] => x = y
    BY <2>3
  <2>6. QED
    BY <1>2, <1>4, <2>1, <2>2, <2>4, <2>5 DEF Listed
<1>6. CASE d \notin Present /\ Evicted(d) = {} /\ n < MaxRepos
  <2>1. Present' = Present \cup {d} /\ Cardinality(Present') = n + 1
    BY <1>1, <1>4, <1>6, FS_AddElement
  <2>2. \A x \in Present : x # d /\ place'[x] = place[x] + 1
    BY <1>3, <1>6 DEF Present
  <2>3. place'[d] = 1
    BY <1>3
  <2>4. \A x \in Present' : place'[x] \in 1..(n + 1)
    BY <1>1, <2>1, <2>2, <2>3 DEF Listed
  <2>5. \A x, y \in Present' : place'[x] = place'[y] => x = y
    BY <1>1, <2>1, <2>2, <2>3 DEF Listed
  <2>6. ASSUME NEW i \in 1..(n + 1)
        PROVE  \E x \in Present' : place'[x] = i
    <3>1. CASE i = 1
      BY <2>1, <2>3, <3>1
    <3>2. CASE i # 1
      <4>1. i - 1 \in 1..n /\ (i - 1) + 1 = i
        BY <1>1, <3>2
      <4>2. QED
        BY <2>1, <2>2, <4>1 DEF Listed
    <3>3. QED
      BY <3>1, <3>2
  <2>7. n + 1 <= MaxRepos
    BY <1>1, <1>6
  <2>8. QED
    BY <1>2, <1>4, <2>1, <2>4, <2>5, <2>6, <2>7 DEF Listed
<1>7. ASSUME NEW e \in Present, d \notin Present, Evicted(d) = {e}, place[e] = n
      PROVE  Listed' /\ Cardinality(Present)' <= MaxRepos
  <2>1. Present' = (Present \ {e}) \cup {d} /\ e # d
    BY <1>4, <1>7
  <2>2. Cardinality(Present') = n
    <3>1. IsFiniteSet(Present \ {e}) /\ Cardinality(Present \ {e}) = n - 1
      BY <1>1, <1>7, FS_RemoveElement
    <3>2. Cardinality((Present \ {e}) \cup {d}) = (n - 1) + 1
      BY <1>7, <3>1, FS_AddElement
    <3>3. QED
      BY <1>1, <2>1, <3>2
  <2>3. \A x \in Present \ {e} : x # d /\ place'[x] = place[x] + 1 /\ place[x] < n
    BY <1>1, <1>3, <1>7 DEF Present, Listed
  <2>4. place'[d] = 1
    BY <1>3
  <2>5. n >= 1
    BY <1>1, <1>7 DEF Listed
  <2>6. \A x \in Present' : place'[x] \in 1..n
    BY <1>1, <2>1, <2>3, <2>4, <2>5 DEF Listed
  <2>7. \A x, y \in Present' : place'[x] = place'[y] => x = y
    BY <1>1, <2>1, <2>3, <2>4 DEF Listed
  <2>8. ASSUME NEW i \in 1..n
        PROVE  \E x \in Present' : place'[x] = i
    <3>1. CASE i = 1
      BY <2>1, <2>4, <3>1
    <3>2. CASE i # 1
      <4>1. i - 1 \in 1..n /\ i - 1 # n /\ (i - 1) + 1 = i
        BY <1>1, <3>2
      <4>2. PICK x \in Present : place[x] = i - 1
        BY <4>1 DEF Listed
      <4>3. x # e /\ x \in Present' /\ place'[x] = i
        BY <1>7, <2>1, <2>3, <4>1, <4>2
      <4>4. QED
        BY <4>3
    <3>3. QED
      BY <3>1, <3>2
  <2>9. QED
    BY <2>2, <2>6, <2>7, <2>8 DEF Listed
<1>8. QED
  BY <1>2, <1>4, <1>5, <1>6, <1>7, EvictedFact

\* What touch leaves without an entry had none, or was evicted.
LEMMA TouchEmpties ==
    ASSUME TypeOK, NEW d \in Dir, Touch(d), NEW x \in Dir, place'[x] = 0
    PROVE  /\ x # d /\ gen'[x] = 0
           /\ x \in Evicted(d) \/ (place[x] = 0 /\ idle[x] = {})
BY DEF Touch, TypeOK, Present

\* An entry is lost when it is evicted, so it was one of the directories.
LEMMA TouchLost ==
    ASSUME TypeOK, NEW d \in Dir, Touch(d)
    PROVE  lost' \subseteq Dir
BY DEF Touch, TypeOK, Evicted, Last, Present

-----------------------------------------------------------------------------
(* The invariant, action by action. *)

LEMMA ReadingFact ==
    ASSUME TypeOK, NEW r \in Reader, reader[r].pc = "reading"
    PROVE  /\ reader[r] \in Reading /\ reader[r] # NoRequest
           /\ reader[r].dir \in Dir /\ reader[r].gen \in Nat
           /\ reader[r].floor \in Nat /\ reader[r].handle \in Handle
BY DEF TypeOK, NoRequest, Opening, Reading

LEMMA OpeningFact ==
    ASSUME TypeOK, NEW r \in Reader, reader[r].pc = "opening"
    PROVE  /\ reader[r] \in Opening /\ reader[r] # NoRequest
           /\ reader[r].dir \in Dir /\ reader[r].gen \in Nat /\ reader[r].floor \in Nat
BY DEF TypeOK, NoRequest, Opening, Reading

\* Idle lists that lose handles keep their bound, and handles nobody new borrows
\* stay exclusive.
LEMMA FewerHandles ==
    ASSUME IInv, \A d \in Dir : idle'[d] \subseteq idle[d],
           \A r \in Reader, h \in Handle : Holds(r, h)' => Holds(r, h)
    PROVE  Exclusive' /\ IdleFinite' /\ \A d \in Dir : Cardinality(idle'[d]) <= PerRepo
<1>1. \A d \in Dir : /\ IsFiniteSet(idle'[d])
                      /\ Cardinality(idle'[d]) <= Cardinality(idle[d])
                      /\ Cardinality(idle'[d]) \in Nat /\ Cardinality(idle[d]) \in Nat
  BY FS_Subset, FS_CardinalityType DEF IInv, IdleFinite
<1>2. \A d \in Dir : Cardinality(idle'[d]) <= PerRepo
  BY <1>1 DEF IInv, Fits
<1>3. Exclusive'
  BY DEF IInv, Exclusive
<1>4. QED
  BY <1>1, <1>2, <1>3 DEF IdleFinite

LEMMA InitIInv == Init => IInv
<1>1. SUFFICES ASSUME Init PROVE IInv
  OBVIOUS
<1>2. TypeOK
  BY <1>1 DEF Init, TypeOK, NoRequest
<1>3. Exclusive
  BY <1>1 DEF Init, Exclusive, Holds, NoRequest
<1>4. Present = {} /\ Cardinality(Present) = 0
  BY <1>1, FS_EmptySet DEF Init, Present
<1>5. Listed
  BY <1>4 DEF Listed
<1>6. Fits /\ IdleFinite
  BY <1>1, <1>4, FS_EmptySet DEF Init, Fits, IdleFinite
<1>7. QED
  BY <1>2, <1>3, <1>5, <1>6 DEF IInv

LEMMA AcquireKeeps ==
    ASSUME IInv, NEW r \in Reader, NEW d \in Dir, Acquire(r, d)
    PROVE  IInv'
<1>1. TypeOK /\ Touch(d) /\ reader[r] = NoRequest
  BY DEF IInv, Acquire
<1>2. /\ place' \in [Dir -> Nat] /\ gen' \in [Dir -> Nat] /\ lost' \subseteq Dir
      /\ Listed' /\ Cardinality(Present)' <= MaxRepos
  BY <1>1, TouchKeeps, TouchLost DEF IInv, Fits
<1>3. ASSUME NEW h \in idle[d],
             idle' = [x \in Dir |-> IF x \in Evicted(d) THEN {} ELSE Remaining(x, h)],
             reader' = [reader EXCEPT ![r] =
               [pc |-> "reading", dir |-> d, gen |-> gen[d], floor |-> synced[d], handle |-> h]]
      PROVE  IInv'
  <2> DEFINE q == [pc |-> "reading", dir |-> d, gen |-> gen[d], floor |-> synced[d], handle |-> h]
  <2>1. h \in Handle /\ q \in Reading /\ q.pc = "reading" /\ q.handle = h
    BY <1>1 DEF TypeOK, Reading
  <2>2. \A x \in Dir : idle'[x] \subseteq idle[x] /\ h \notin idle'[x]
    BY <1>3, <2>1 DEF Remaining, IInv, Exclusive
  <2> HIDE DEF q
  <2>3. \A s \in Reader, k \in Handle : Holds(s, k)' <=> IF s = r THEN k = h ELSE Holds(s, k)
    BY <1>1, <1>3, <2>1 DEF q, Holds, TypeOK
  <2>4. Exclusive'
    <3>1. \A s \in Reader : ~Holds(s, h)
      BY <2>1 DEF IInv, Exclusive
    <3>2. QED
      BY <2>1, <2>2, <2>3, <3>1 DEF IInv, Exclusive
  <2>5. IdleFinite' /\ \A x \in Dir : Cardinality(idle'[x]) <= PerRepo
    <3>1. \A x \in Dir : /\ IsFiniteSet(idle'[x]) /\ Cardinality(idle'[x]) \in Nat
                         /\ Cardinality(idle'[x]) <= Cardinality(idle[x])
                         /\ Cardinality(idle[x]) \in Nat
      BY <2>2, FS_Subset, FS_CardinalityType DEF IInv, IdleFinite
    <3>2. QED
      BY <3>1 DEF IInv, Fits, IdleFinite
  <2>6. TypeOK'
    <3>1. /\ idle' \in [Dir -> SUBSET Handle]
          /\ reader' \in [Reader -> {NoRequest} \cup Opening \cup Reading]
      BY <1>1, <1>3, <2>1, <2>2 DEF TypeOK, q
    <3>2. \A x \in Dir : place'[x] = 0 => gen'[x] = 0 /\ idle'[x] = {}
      BY <1>1, <1>3, <2>2, TouchEmpties
    <3>3. QED
      BY <1>1, <1>2, <3>1, <3>2 DEF TypeOK, Acquire
  <2>7. QED
    BY <1>2, <2>4, <2>5, <2>6 DEF IInv, Fits
<1>4. ASSUME idle' = [x \in Dir |-> IF x \in Evicted(d) THEN {} ELSE idle[x]],
             reader' = [reader EXCEPT ![r] =
               [pc |-> "opening", dir |-> d, gen |-> gen[d], floor |-> synced[d]]]
      PROVE  IInv'
  <2> DEFINE q == [pc |-> "opening", dir |-> d, gen |-> gen[d], floor |-> synced[d]]
  <2>1. q \in Opening /\ q.pc = "opening"
    BY <1>1 DEF TypeOK, Opening
  <2>2. \A x \in Dir : idle'[x] \subseteq idle[x]
    BY <1>4
  <2> HIDE DEF q
  <2>3. \A s \in Reader, k \in Handle : Holds(s, k)' => Holds(s, k)
    BY <1>1, <1>4, <2>1 DEF q, Holds, TypeOK
  <2>4. Exclusive' /\ IdleFinite' /\ \A x \in Dir : Cardinality(idle'[x]) <= PerRepo
    BY <2>2, <2>3, FewerHandles
  <2>5. TypeOK'
    <3>1. /\ idle' \in [Dir -> SUBSET Handle]
          /\ reader' \in [Reader -> {NoRequest} \cup Opening \cup Reading]
      BY <1>1, <1>4, <2>1, <2>2 DEF TypeOK, q
    <3>2. \A x \in Dir : place'[x] = 0 => gen'[x] = 0 /\ idle'[x] = {}
      BY <1>1, <1>4, <2>2, TouchEmpties
    <3>3. QED
      BY <1>1, <1>2, <3>1, <3>2 DEF TypeOK, Acquire
  <2>6. QED
    BY <1>2, <2>4, <2>5 DEF IInv, Fits
<1>5. QED
  BY <1>3, <1>4 DEF Acquire

LEMMA OpenKeeps ==
    ASSUME IInv, NEW r \in Reader, Open(r)
    PROVE  IInv'
<1>1. TypeOK /\ reader[r].pc = "opening"
  BY DEF IInv, Open
<1>2. reader[r].dir \in Dir /\ reader[r].gen \in Nat /\ reader[r].floor \in Nat
  BY <1>1, OpeningFact
<1>3. /\ Listed' /\ Cardinality(Present)' <= MaxRepos
      /\ UNCHANGED <<place, gen, idle, pusher, packs, synced, lost>>
  BY DEF IInv, Fits, Listed, Present, Open
<1>4. ASSUME NEW h \in Handle, Garbage(h), seen' = [seen EXCEPT ![h] = Lazy],
             reader' = [reader EXCEPT ![r] =
               [pc |-> "reading", dir |-> reader[r].dir, gen |-> reader[r].gen,
                floor |-> reader[r].floor, handle |-> h]]
      PROVE  IInv'
  <2> DEFINE q == [pc |-> "reading", dir |-> reader[r].dir, gen |-> reader[r].gen,
                   floor |-> reader[r].floor, handle |-> h]
  <2>1. q \in Reading /\ q.pc = "reading" /\ q.handle = h
    BY <1>2 DEF Reading
  <2> HIDE DEF q
  <2>2. \A s \in Reader, k \in Handle : Holds(s, k)' <=> IF s = r THEN k = h ELSE Holds(s, k)
    BY <1>1, <1>4, <2>1 DEF q, Holds, TypeOK
  <2>3. Exclusive'
    BY <1>3, <1>4, <2>2 DEF IInv, Exclusive, Garbage
  <2>4. TypeOK'
    BY <1>1, <1>3, <1>4, <2>1 DEF TypeOK, q
  <2>5. QED
    BY <1>3, <2>3, <2>4 DEF IInv, Fits, IdleFinite
<1>5. ASSUME reader' = [reader EXCEPT ![r] = NoRequest], UNCHANGED seen
      PROVE  IInv'
  <2>1. \A s \in Reader, k \in Handle : Holds(s, k)' => Holds(s, k)
    BY <1>1, <1>5 DEF Holds, TypeOK, NoRequest
  <2>2. TypeOK'
    BY <1>1, <1>3, <1>5 DEF TypeOK
  <2>3. QED
    BY <1>3, <2>1, <2>2 DEF IInv, Exclusive, Fits, IdleFinite
<1>6. QED
  BY <1>4, <1>5 DEF Open

\* Steps that leave the cache and what is borrowed from it alone, or give it up.
LEMMA CacheAlone ==
    ASSUME IInv, TypeOK', UNCHANGED <<place, gen, idle>>,
           \A s \in Reader : reader'[s] = reader[s] \/ reader'[s] = NoRequest
    PROVE  IInv'
<1>1. Listed' /\ Fits' /\ IdleFinite'
  BY DEF IInv, Listed, Fits, IdleFinite, Present
<1>2. \A s \in Reader, k \in Handle : Holds(s, k)' => Holds(s, k)
  BY DEF Holds, NoRequest
<1>3. QED
  BY <1>1, <1>2 DEF IInv, Exclusive

LEMMA ReadKeeps ==
    ASSUME IInv, NEW r \in Reader, Read(r)
    PROVE  IInv'
<1>1. reader[r].handle \in Handle /\ reader[r].dir \in Dir
  BY ReadingFact DEF IInv, Read
<1>2. TypeOK'
  BY <1>1 DEF IInv, TypeOK, Read
<1>3. QED
  BY <1>2, CacheAlone DEF Read

LEMMA AbandonKeeps ==
    ASSUME IInv, NEW r \in Reader, Abandon(r)
    PROVE  IInv'
<1>1. TypeOK' /\ \A s \in Reader : reader'[s] = reader[s] \/ reader'[s] = NoRequest
  BY DEF IInv, TypeOK, Abandon
<1>2. QED
  BY <1>1, CacheAlone DEF Abandon

LEMMA ReleaseKeeps ==
    ASSUME IInv, NEW r \in Reader, Release(r)
    PROVE  IInv'
<1> DEFINE d == reader[r].dir
           h == reader[r].handle
<1>1. /\ TypeOK /\ d \in Dir /\ h \in Handle /\ Holds(r, h)
      /\ reader' = [reader EXCEPT ![r] = NoRequest]
  BY ReadingFact DEF IInv, Release, Holds
<1>2. \A s \in Reader : reader'[s] = IF s = r THEN NoRequest ELSE reader[s]
  BY <1>1 DEF TypeOK
<1>3. CASE TakesBack(d, reader[r].gen)
  <2>1. idle' = [idle EXCEPT ![d] = @ \cup {h}] /\ Touch(d) /\ d \in Present
    BY <1>3 DEF Release, TakesBack
  <2>2. /\ place' \in [Dir -> Nat] /\ gen' \in [Dir -> Nat] /\ lost' \subseteq Dir
        /\ Listed' /\ Cardinality(Present)' <= MaxRepos
    BY <1>1, <2>1, TouchKeeps, TouchLost DEF IInv, Fits
  <2>3. \A x \in Dir : idle'[x] = IF x = d THEN idle[d] \cup {h} ELSE idle[x]
    BY <1>1, <2>1 DEF TypeOK
  <2>4. \A s \in Reader, k \in Handle : Holds(s, k)' <=> (s # r /\ Holds(s, k))
    BY <1>2 DEF Holds, NoRequest
  <2>5. Exclusive'
    <3>1. /\ \A s \in Reader : s # r => ~Holds(s, h)
          /\ \A x \in Dir : h \notin idle[x]
      BY <1>1 DEF IInv, Exclusive
    <3> HIDE DEF h, d
    <3>2. QED
      BY <1>1, <2>3, <2>4, <3>1 DEF IInv, Exclusive
  <2>6. IdleFinite' /\ \A x \in Dir : Cardinality(idle'[x]) <= PerRepo
    <3>1. h \notin idle[d] /\ IsFiniteSet(idle[d]) /\ Cardinality(idle[d]) < PerRepo
      BY <1>1, <1>3 DEF IInv, Exclusive, IdleFinite, TakesBack
    <3>2. /\ IsFiniteSet(idle[d] \cup {h})
          /\ Cardinality(idle[d] \cup {h}) = Cardinality(idle[d]) + 1
          /\ Cardinality(idle[d]) \in Nat
      BY <3>1, FS_AddElement, FS_CardinalityType
    <3>3. Cardinality(idle[d] \cup {h}) <= PerRepo
      BY <3>1, <3>2
    <3>4. QED
      BY <2>3, <3>2, <3>3 DEF IInv, Fits, IdleFinite
  <2>7. TypeOK'
    <3>1. \A x \in Dir : place'[x] = 0 => gen'[x] = 0 /\ idle'[x] = {}
      <4>1. Evicted(d) = {}
        BY <2>1 DEF Evicted
      <4>2. QED
        BY <1>1, <2>1, <2>3, <4>1, TouchEmpties
    <3>2. idle' \in [Dir -> SUBSET Handle]
      BY <1>1, <2>1 DEF TypeOK
    <3>3. reader' \in [Reader -> {NoRequest} \cup Opening \cup Reading]
      BY <1>1 DEF TypeOK
    <3>4. QED
      BY <1>1, <2>2, <3>1, <3>2, <3>3 DEF TypeOK, Release
  <2>8. QED
    BY <2>2, <2>5, <2>6, <2>7 DEF IInv, Fits
<1>4. CASE ~TakesBack(d, reader[r].gen)
  <2>1. UNCHANGED <<place, gen, idle, seen, pusher, packs, synced, lost>>
    BY <1>4 DEF Release
  <2>2. TypeOK'
    BY <1>1, <2>1 DEF TypeOK
  <2>3. QED
    BY <1>2, <2>1, <2>2, CacheAlone
<1>5. QED
  BY <1>3, <1>4

LEMMA WriteKeeps ==
    ASSUME IInv, NEW p \in Pusher, NEW d \in Dir, Write(p, d)
    PROVE  IInv'
<1>1. TypeOK'
  BY DEF IInv, TypeOK, Write
<1>2. QED
  BY <1>1, CacheAlone DEF Write

LEMMA InvalidateKeeps ==
    ASSUME IInv, NEW p \in Pusher, Invalidate(p)
    PROVE  IInv'
<1> DEFINE d == pusher[p].dir
<1>1. TypeOK /\ d \in Dir /\ UNCHANGED <<place, reader>>
  BY DEF IInv, TypeOK, Invalidate, NoRequest
<1>2. CASE d \in Present
  <2>1. /\ \A x \in Dir : idle'[x] = IF x = d THEN {} ELSE idle[x]
        /\ \A x \in Dir : gen'[x] = IF x = d THEN gen[d] + 1 ELSE gen[x]
        /\ place[d] # 0
    BY <1>1, <1>2 DEF Invalidate, TypeOK, Present
  <2>2. TypeOK'
    BY <1>1, <1>2, <2>1 DEF TypeOK, Invalidate
  <2>3. \A r \in Reader, h \in Handle : Holds(r, h)' => Holds(r, h)
    BY <1>1 DEF Holds
  <2>4. Exclusive' /\ IdleFinite' /\ \A x \in Dir : Cardinality(idle'[x]) <= PerRepo
    BY <2>1, <2>3, FewerHandles
  <2>5. Listed' /\ Cardinality(Present)' <= MaxRepos
    BY <1>1 DEF IInv, Listed, Fits, Present
  <2>6. QED
    BY <2>2, <2>4, <2>5 DEF IInv, Fits
<1>3. CASE d \notin Present
  <2>1. TypeOK' /\ UNCHANGED <<place, gen, idle>>
    BY <1>1, <1>3 DEF TypeOK, Invalidate
  <2>2. QED
    BY <1>1, <2>1, CacheAlone
<1>4. QED
  BY <1>2, <1>3

LEMMA NextKeeps == IInv /\ [Next]_vars => IInv'
<1>1. SUFFICES ASSUME IInv, [Next]_vars PROVE IInv'
  OBVIOUS
<1>2. CASE UNCHANGED vars
  <2>1. TypeOK' /\ UNCHANGED <<place, gen, idle, reader>>
    BY <1>1, <1>2 DEF IInv, TypeOK, vars
  <2>2. QED
    BY <1>1, <2>1, CacheAlone
<1>3. CASE Next
  BY <1>1, <1>3, AcquireKeeps, OpenKeeps, ReadKeeps, ReleaseKeeps, AbandonKeeps,
     WriteKeeps, InvalidateKeeps DEF Next
<1>4. QED
  BY <1>1, <1>2, <1>3

\* The inductive invariant holds of every state of every run.
THEOREM Inductive == Spec => []IInv
<1>1. Init => IInv
  BY InitIInv
<1>2. IInv /\ [Next]_vars => IInv'
  BY NextKeeps
<1>3. QED
  BY <1>1, <1>2, PTL DEF Spec

\* Type correctness; a directory without an entry has no generation and no
\* idle handles.
THEOREM TypeCorrect == Spec => []TypeOK
<1>1. IInv => TypeOK
  BY DEF IInv
<1>2. QED
  BY <1>1, Inductive, PTL

\* No two requests share a go-git handle, and none shares one with the cache.
THEOREM HandlesExclusive == Spec => []Exclusive
<1>1. IInv => Exclusive
  BY DEF IInv
<1>2. QED
  BY <1>1, Inductive, PTL

\* The cache never outgrows its bounds, and its LRU list is a list.
THEOREM CacheBounded == Spec => []Bounded
<1>1. IInv => Bounded
  BY DEF IInv, Bounded, Listed, Fits
<1>2. QED
  BY <1>1, Inductive, PTL

-----------------------------------------------------------------------------
(* Freshness. *)

\* What git/repocache.go:19 says of idle handles, for the entries that were never evicted under a request's feet.
IdleFresh ==
    \A d \in Dir \ lost, h \in Handle :
        h \in idle[d] /\ seen[h] # Lazy => seen[h] >= synced[d]

\* The entry such a request acquired from is still there, and a request whose
\* generation is the entry's began after the last invalidation.
Tracked(r) ==
    LET q == reader[r] IN
    /\ q.dir \in Present
    /\ q.gen <= gen[q.dir]
    /\ q.floor <= synced[q.dir]
    /\ q.gen = gen[q.dir] => q.floor = synced[q.dir]

FreshInv ==
    /\ \A d \in Dir : synced[d] <= packs[d]
    /\ IdleFresh
    /\ \A r \in Reader : reader[r] # NoRequest /\ reader[r].dir \notin lost => Tracked(r)
    /\ FreshRead

\* Borrowing a handle may evict an entry: one that is then lost, or that nobody
\* was using.
LEMMA FreshAcquire ==
    ASSUME IInv, FreshInv, NEW r \in Reader, NEW d \in Dir, Acquire(r, d)
    PROVE  FreshInv'
<1>1. TypeOK /\ Touch(d) /\ d \notin Evicted(d) /\ UNCHANGED <<seen, packs, synced>>
  BY DEF IInv, Acquire, Evicted, Last
<1>2. /\ Present' = (Present \ Evicted(d)) \cup {d}
      /\ \A x \in Dir : x \notin Evicted(d) => gen'[x] = gen[x]
      /\ lost' = lost \cup {x \in Evicted(d) : \E s \in Reader : Uses(s, x)}
  <2>1. Present' = (Present \ Evicted(d)) \cup {d}
    BY <1>1, TouchKeeps DEF IInv, Fits
  <2>2. QED
    BY <1>1, <2>1 DEF Touch, TypeOK
<1>3. \A x \in Dir : idle'[x] \subseteq idle[x]
  BY <1>1 DEF Acquire, Remaining
<1>4. IdleFresh'
  BY <1>1, <1>2, <1>3 DEF FreshInv, IdleFresh
<1>5. /\ reader'[r].dir = d /\ reader'[r].gen = gen[d] /\ reader'[r].floor = synced[d]
      /\ reader'[r].pc = "reading" => reader'[r].handle \in idle[d]
      /\ \A s \in Reader : s # r => reader'[s] = reader[s]
  BY <1>1 DEF Acquire, TypeOK
<1>6. reader'[r].pc = "reading" => reader'[r].handle \in Handle
  BY <1>1, <1>5 DEF TypeOK
<1>7. gen[d] \in Nat /\ synced[d] \in Nat
  BY <1>1 DEF TypeOK
<1>8. ASSUME NEW s \in Reader, reader'[s] # NoRequest, reader'[s].dir \notin lost'
      PROVE  Tracked(s)'
  <2>1. CASE s = r
    BY <1>1, <1>2, <1>5, <1>7, <2>1 DEF Tracked
  <2>2. CASE s # r
    <3>1. reader'[s] = reader[s] /\ reader[s] # NoRequest /\ reader[s].dir \notin lost
      BY <1>2, <1>5, <1>8, <2>2
    <3>2. Tracked(s) /\ reader[s].dir \in Dir /\ reader[s].dir \in Present
      BY <3>1 DEF FreshInv, Tracked, Present
    <3>3. reader[s].dir \notin Evicted(d)
      BY <1>2, <1>8, <3>1 DEF Uses
    <3>4. reader[s].dir \in Present' /\ gen'[reader[s].dir] = gen[reader[s].dir]
      BY <1>2, <3>2, <3>3
    <3>5. QED
      BY <1>1, <3>1, <3>2, <3>4 DEF Tracked
  <2>3. QED
    BY <2>1, <2>2
<1>9. FreshRead'
  <2>1. ASSUME NEW s \in Reader, reader'[s].pc = "reading", reader'[s].dir \notin lost',
               seen'[reader'[s].handle] # Lazy
        PROVE  seen'[reader'[s].handle] >= reader'[s].floor
    <3>1. reader'[s].dir \notin lost
      BY <1>2, <2>1
    <3>2. CASE s = r
      BY <1>1, <1>5, <1>6, <2>1, <3>1, <3>2 DEF FreshInv, IdleFresh
    <3>3. CASE s # r
      BY <1>1, <1>5, <2>1, <3>1, <3>3 DEF FreshInv, FreshRead
    <3>4. QED
      BY <3>2, <3>3
  <2>2. QED
    BY <2>1 DEF FreshRead
<1>10. QED
  BY <1>1, <1>4, <1>8, <1>9 DEF FreshInv

LEMMA FreshOpen ==
    ASSUME IInv, FreshInv, NEW r \in Reader, Open(r)
    PROVE  FreshInv'
<1>1. /\ TypeOK /\ reader[r].pc = "opening" /\ reader[r] # NoRequest
      /\ UNCHANGED <<place, gen, idle, packs, synced, lost>> /\ Present' = Present
  BY DEF IInv, Open, Present, NoRequest
<1>2. /\ reader'[r] # NoRequest => /\ reader'[r].dir = reader[r].dir
                                   /\ reader'[r].gen = reader[r].gen
                                   /\ reader'[r].floor = reader[r].floor
                                   /\ reader'[r].handle \in Handle
                                   /\ seen'[reader'[r].handle] = Lazy
      /\ \A s \in Reader : s # r => reader'[s] = reader[s]
  BY <1>1 DEF Open, TypeOK
<1>3. ASSUME NEW h \in Handle, seen'[h] # seen[h]
      PROVE  seen'[h] = Lazy
  BY <1>1, <1>3 DEF Open, TypeOK
<1>4. IdleFresh'
  BY <1>1, <1>3 DEF FreshInv, IdleFresh
<1>5. FreshRead'
  <2>1. ASSUME NEW s \in Reader, reader'[s].pc = "reading", reader'[s].dir \notin lost',
               seen'[reader'[s].handle] # Lazy
        PROVE  seen'[reader'[s].handle] >= reader'[s].floor
    <3>1. s # r
      BY <1>2, <2>1 DEF NoRequest
    <3>2. reader'[s] = reader[s] /\ reader[s].handle \in Handle
      BY <1>1, <1>2, <2>1, <3>1, ReadingFact
    <3>3. seen'[reader[s].handle] = seen[reader[s].handle]
      BY <1>3, <2>1, <3>2
    <3>4. QED
      BY <1>1, <2>1, <3>2, <3>3 DEF FreshInv, FreshRead
  <2>2. QED
    BY <2>1 DEF FreshRead
<1>6. ASSUME NEW s \in Reader, reader'[s] # NoRequest, reader'[s].dir \notin lost'
      PROVE  Tracked(s)'
  <2>1. /\ reader[s] # NoRequest
        /\ reader'[s].dir = reader[s].dir /\ reader'[s].gen = reader[s].gen
        /\ reader'[s].floor = reader[s].floor
    BY <1>1, <1>2, <1>6
  <2>2. Tracked(s)
    BY <1>1, <1>6, <2>1 DEF FreshInv
  <2>3. QED
    BY <1>1, <2>1, <2>2 DEF Tracked
<1>7. QED
  BY <1>1, <1>4, <1>5, <1>6 DEF FreshInv

LEMMA FreshReadStep ==
    ASSUME IInv, FreshInv, NEW r \in Reader, Read(r)
    PROVE  FreshInv'
<1> DEFINE h == reader[r].handle
           d == reader[r].dir
<1>1. /\ TypeOK /\ d \in Dir /\ h \in Handle /\ Holds(r, h) /\ reader[r] # NoRequest
      /\ reader[r].floor \in Nat
      /\ UNCHANGED <<place, gen, idle, reader, packs, synced, lost>> /\ Present' = Present
  BY ReadingFact DEF IInv, Read, Holds, Present
<1>2. \A k \in Handle : seen'[k] = IF k = h THEN packs[d] ELSE seen[k]
  BY <1>1 DEF Read, TypeOK
<1>3. \A x \in Dir : h \notin idle[x]
  BY <1>1 DEF IInv, Exclusive
<1>4. IdleFresh'
  <2> HIDE DEF h, d
  <2>1. QED
    BY <1>1, <1>2, <1>3 DEF FreshInv, IdleFresh
<1>5. d \notin lost => reader[r].floor <= packs[d]
  <2>1. d \notin lost => reader[r].floor <= synced[d] /\ synced[d] <= packs[d]
    BY <1>1 DEF FreshInv, Tracked
  <2>2. synced[d] \in Nat /\ packs[d] \in Nat
    BY <1>1 DEF TypeOK
  <2>3. QED
    BY <1>1, <2>1, <2>2
<1>6. ASSUME NEW s \in Reader, reader'[s].pc = "reading", reader'[s].dir \notin lost',
             seen'[reader'[s].handle] # Lazy
      PROVE  seen'[reader'[s].handle] >= reader'[s].floor
  <2>1. reader[s].handle \in Handle
    BY <1>1, <1>6, ReadingFact
  <2>2. CASE s = r
    BY <1>1, <1>2, <1>5, <1>6, <2>2 DEF TypeOK
  <2>3. CASE s # r
    <3>1. reader[s].handle # h
      BY <1>1, <1>6, <2>1, <2>3 DEF IInv, Exclusive, Holds
    <3>2. seen'[reader[s].handle] = seen[reader[s].handle]
      BY <1>2, <2>1, <3>1
    <3>3. QED
      BY <1>1, <1>6, <3>2 DEF FreshInv, FreshRead
  <2>4. QED
    BY <2>2, <2>3
<1>7. FreshRead'
  BY <1>6 DEF FreshRead
<1>8. QED
  BY <1>1, <1>4, <1>7 DEF FreshInv, Tracked

LEMMA FreshRelease ==
    ASSUME IInv, FreshInv, NEW r \in Reader, Release(r) \/ Abandon(r)
    PROVE  FreshInv'
<1> DEFINE h == reader[r].handle
           d == reader[r].dir
<1>1. /\ TypeOK /\ d \in Dir /\ h \in Handle /\ reader[r] # NoRequest
      /\ reader[r].pc = "reading" /\ UNCHANGED <<seen, packs, synced>>
      /\ \A s \in Reader : reader'[s] = IF s = r THEN NoRequest ELSE reader[s]
  BY ReadingFact DEF IInv, Release, Abandon, TypeOK
<1>2. Present' = Present /\ gen' = gen /\ lost' = lost
  <2>1. CASE UNCHANGED <<place, gen, lost>>
    BY <2>1 DEF Present
  <2>2. CASE d \in Present /\ Touch(d)
    <3>1. Evicted(d) = {} /\ Present' = (Present \ Evicted(d)) \cup {d}
      BY <1>1, <2>2, TouchKeeps DEF IInv, Fits, Evicted
    <3>2. gen' = gen
      BY <1>1, <2>2, <3>1 DEF Touch, TypeOK
    <3>3. lost' = lost
      BY <2>2, <3>1 DEF Touch
    <3>4. QED
      BY <2>2, <3>1, <3>2, <3>3
  <2>3. QED
    BY <2>1, <2>2 DEF Release, Abandon, TakesBack
<1>3. ASSUME NEW x \in Dir, NEW k \in Handle, k \in idle'[x], k \notin idle[x]
      PROVE  x = d /\ k = h /\ reader[r].gen = gen[d]
  BY <1>1, <1>3 DEF Release, Abandon, TakesBack, TypeOK
<1>4. ASSUME d \notin lost, reader[r].gen = gen[d], seen[h] # Lazy
      PROVE  seen[h] >= synced[d]
  BY <1>1, <1>4 DEF FreshInv, FreshRead, Tracked
<1>5. ASSUME NEW x \in Dir, NEW k \in Handle, x \notin lost, k \in idle'[x], seen[k] # Lazy
      PROVE  seen[k] >= synced[x]
  <2>1. CASE k \in idle[x]
    BY <1>5, <2>1 DEF FreshInv, IdleFresh
  <2>2. CASE k \notin idle[x]
    BY <1>3, <1>4, <1>5, <2>2
  <2>3. QED
    BY <2>1, <2>2
<1>6. IdleFresh'
  BY <1>1, <1>2, <1>5 DEF IdleFresh
<1>7. FreshRead'
  BY <1>1, <1>2 DEF FreshInv, FreshRead, NoRequest
<1>8. ASSUME NEW s \in Reader, reader'[s] # NoRequest, reader'[s].dir \notin lost'
      PROVE  Tracked(s)'
  BY <1>1, <1>2, <1>8 DEF FreshInv, Tracked
<1>9. QED
  BY <1>1, <1>6, <1>7, <1>8 DEF FreshInv

LEMMA FreshWrite ==
    ASSUME IInv, FreshInv, NEW p \in Pusher, NEW d \in Dir, Write(p, d)
    PROVE  FreshInv'
<1>1. UNCHANGED <<place, gen, idle, seen, reader, synced, lost>> /\ Present' = Present
  BY DEF Write, Present
<1>2. \A x \in Dir : synced[x] <= packs'[x]
  BY DEF Write, IInv, TypeOK, FreshInv
<1>3. IdleFresh' /\ FreshRead'
  BY <1>1 DEF FreshInv, IdleFresh, FreshRead
<1>4. QED
  BY <1>1, <1>2, <1>3 DEF FreshInv, Tracked

\* Invalidation: the idle handles are gone, and no request under way has the new
\* generation.
LEMMA FreshInvalidate ==
    ASSUME IInv, FreshInv, NEW p \in Pusher, Invalidate(p)
    PROVE  FreshInv'
<1> DEFINE d == pusher[p].dir
<1>1. /\ TypeOK /\ d \in Dir
      /\ UNCHANGED <<place, seen, reader, packs, lost>> /\ Present' = Present
  BY DEF IInv, TypeOK, Invalidate, NoRequest, Present
<1>2. /\ \A x \in Dir : synced'[x] = IF x = d THEN packs[d] ELSE synced[x]
      /\ \A x \in Dir : gen'[x] = IF x = d /\ d \in Present THEN gen[d] + 1 ELSE gen[x]
      /\ \A x \in Dir : idle'[x] = IF x = d THEN {} ELSE idle[x]
  BY <1>1 DEF TypeOK, Invalidate, Present
<1>3. \A x \in Dir : synced'[x] <= packs'[x] /\ synced[x] <= synced'[x]
  BY <1>1, <1>2 DEF FreshInv, TypeOK
<1>4. IdleFresh'
  BY <1>1, <1>2 DEF FreshInv, IdleFresh
<1>5. FreshRead'
  BY <1>1 DEF FreshInv, FreshRead
<1>6. ASSUME NEW s \in Reader, reader'[s] # NoRequest, reader'[s].dir \notin lost'
      PROVE  Tracked(s)'
  <2>1. Tracked(s) /\ reader[s] # NoRequest /\ reader'[s] = reader[s]
    BY <1>1, <1>6 DEF FreshInv
  <2>2. /\ reader[s].dir \in Present /\ reader[s].dir \in Dir
        /\ reader[s].gen \in Nat /\ reader[s].floor \in Nat
        /\ gen[reader[s].dir] \in Nat /\ synced[reader[s].dir] \in Nat
        /\ packs[reader[s].dir] \in Nat
    BY <1>1, <2>1 DEF Tracked, TypeOK, Opening, Reading, Present
  <2>3. /\ reader[s].gen <= gen[reader[s].dir]
        /\ reader[s].floor <= synced[reader[s].dir]
        /\ reader[s].gen = gen[reader[s].dir] => reader[s].floor = synced[reader[s].dir]
    BY <2>1 DEF Tracked
  <2> HIDE DEF d
  <2>4. CASE reader[s].dir = d
    BY <1>1, <1>2, <1>3, <2>1, <2>2, <2>3, <2>4 DEF Tracked
  <2>5. CASE reader[s].dir # d
    BY <1>1, <1>2, <2>1, <2>2, <2>3, <2>5 DEF Tracked
  <2>6. QED
    BY <2>4, <2>5
<1>7. QED
  BY <1>1, <1>3, <1>4, <1>5, <1>6 DEF FreshInv

\* A request that begins after a push was invalidated for reads that push, for
\* any number of requests and pushes and whatever the cache evicts, unless its
\* repository's entry was once evicted while a request was using it.
THEOREM ReadsAreFresh == Spec => []FreshRead
<1>1. Init => FreshInv
  BY DEF Init, FreshInv, IdleFresh, FreshRead, NoRequest
<1>2. IInv /\ FreshInv /\ [Next]_vars => FreshInv'
  <2>1. SUFFICES ASSUME IInv, FreshInv, [Next]_vars PROVE FreshInv'
    OBVIOUS
  <2>2. CASE UNCHANGED vars
    BY <2>1, <2>2 DEF vars, FreshInv, IdleFresh, FreshRead, Tracked, Present
  <2>3. CASE Next
    BY <2>1, <2>3, FreshAcquire, FreshOpen, FreshReadStep, FreshRelease, FreshWrite,
       FreshInvalidate DEF Next
  <2>4. QED
    BY <2>1, <2>2, <2>3
<1>3. FreshInv => FreshRead
  BY DEF FreshInv
<1>4. QED
  BY <1>1, <1>2, <1>3, Inductive, PTL DEF Spec
=============================================================================
