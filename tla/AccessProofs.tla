---------------------------- MODULE AccessProofs ----------------------------
(***************************************************************************)
(* What is proved of the four parts of a request's way in, each for its own*)
(* specification, and of the four together.                                *)
(***************************************************************************)
EXTENDS MCAccess, FiniteSetTheorems, TLAPS

-----------------------------------------------------------------------------
(* A code yields one token, for the user who approved it and the client it *)
(* was issued to.                                                          *)
(*                                                                         *)
(* None of the three is inductive.  SingleUse needs that, but for overlaps *)
(* and failed deletions, at most one request is spending a code, none once *)
(* the token is there, and that the row is gone, marked, or about to go;   *)
(* the other two need that what a request copied from a row still agrees   *)
(* with it.                                                                *)

Work == {NoRequest} \cup Deciding \cup Exchanging \cup Redeeming \cup Dropping

\* A request at one of these points of spending c.
On(r, c, pcs) == r.pc \in pcs /\ r.code = c
Spends(r, c) == On(r, c, {"mark", "check", "redeem"})

\* No later request will find the code good.
Gone(c) ==
    /\ c \in DeviceCode => device[c] = NoRow \/ \E q \in Request : On(request[q], c, {"drop"})
    /\ c \in AuthCode => auth[c].state = "used"

Once(c) ==
    c \notin overlap \cup kept =>
        /\ \A p, q \in Request : Spends(request[p], c) /\ Spends(request[q], c) => p = q
        /\ minted[c] # 0 => /\ minted[c] = 1 /\ Gone(c)
                            /\ \A q \in Request : ~Spends(request[q], c)
        /\ c \in AuthCode =>
               \A q \in Request : On(request[q], c, {"check", "redeem"}) => auth[c].state = "used"

\* A code not yet handed out is in no table and no request.
Unissued(c) ==
    c \notin issued =>
        /\ minted[c] = 0 /\ owners[c] = {}
        /\ c \in DeviceCode => device[c] = NoRow
        /\ c \in AuthCode => auth[c] = NoRow
        /\ \A q \in Request : request[q] = NoRequest \/ request[q].code # c

\* What a request copied agrees with what is recorded.
Agrees(r) ==
    /\ r.pc = "decide" => (r.verdict = "denied" <=> r.user = NoUser)
    /\ r.pc = "redeem" /\ r.code \in DeviceCode => r.user \in approvals[r.code]
    /\ r.pc \in {"mark", "check"} =>
           auth[r.code] # NoRow /\ r.row.user = auth[r.code].user /\ r.row.app = auth[r.code].app
    /\ r.pc = "redeem" /\ r.code \in AuthCode =>
           auth[r.code] # NoRow /\ r.user = auth[r.code].user /\ r.app = auth[r.code].app

Approved(d) == device[d].state = "approved" => device[d].user \in approvals[d]

GrantInv ==
    /\ GrantTypeOK
    /\ \A c \in Code : Once(c) /\ Unissued(c)
    /\ \A q \in Request : Agrees(request[q])
    /\ \A d \in DeviceCode : Approved(d)
    /\ OnlyApproved /\ RightClient

-----------------------------------------------------------------------------
LEMMA GrantInitially == GrantInit => GrantInv
<1> SUFFICES ASSUME GrantInit PROVE GrantInv
  OBVIOUS
<1>1. GrantTypeOK
  BY GrantBounds DEF GrantInit, GrantTypeOK
<1>2. \A c \in Code : Once(c) /\ Unissued(c)
  BY DEF GrantInit, Once, Unissued, Spends, On, NoRequest, Code
<1>3. \A q \in Request : Agrees(request[q])
  BY DEF GrantInit, Agrees, NoRequest
<1>4. (\A d \in DeviceCode : Approved(d)) /\ OnlyApproved /\ RightClient
  BY DEF GrantInit, Approved, OnlyApproved, RightClient, NoRow, Code
<1>5. QED
  BY <1>1, <1>2, <1>3, <1>4 DEF GrantInv

\* What a request is follows from its pc.
LEMMA Kinds ==
    ASSUME GrantTypeOK, NEW q \in Request
    PROVE  /\ request[q] \in Work
           /\ request[q].pc = "decide" => request[q] \in Deciding
           /\ request[q].pc \in {"mark", "check"} => request[q] \in Exchanging
           /\ request[q].pc = "redeem" => request[q] \in Redeeming
           /\ request[q].pc = "drop" => request[q] \in Dropping
           /\ NoRequest.pc = "idle"
BY DEF GrantTypeOK, Work, NoRequest, Deciding, Exchanging, Redeeming, Dropping

LEMMA Becoming ==
    ASSUME GrantTypeOK, NEW q \in Request, NEW r \in Work, Becomes(q, r)
    PROVE  /\ request' \in [Request -> {NoRequest} \cup Deciding \cup Exchanging \cup Redeeming \cup Dropping]
           /\ request'[q] = r /\ \A p \in Request \ {q} : request'[p] = request[p]
BY DEF GrantTypeOK, Becomes, Work

\* A step of one request that touches no row: what it becomes must agree with the
\* rows, spend no code another is spending or has spent, and drop what it was to
\* drop.
LEMMA RequestStep ==
    ASSUME GrantInv, NEW q \in Request, NEW r \in Work, Becomes(q, r),
           UNCHANGED <<device, auth, issued, expired, minted, owners, approvals>>,
           overlap' \subseteq Code, kept' \subseteq DeviceCode, failures' \in 0..MaxFails,
           overlap \subseteq overlap', kept \subseteq kept',
           Agrees(r), r = NoRequest \/ r.code \in issued,
           \A c \in Code \ (overlap' \cup kept') :
               /\ Spends(r, c) => /\ \A p \in Request \ {q} : ~Spends(request[p], c)
                                  /\ minted[c] = 0
               /\ c \in AuthCode /\ On(r, c, {"check", "redeem"}) => auth[c].state = "used"
               /\ On(request[q], c, {"drop"}) => On(r, c, {"drop"}) \/ device[c] = NoRow
    PROVE  GrantInv'
<1>1. /\ request' \in [Request -> {NoRequest} \cup Deciding \cup Exchanging \cup Redeeming \cup Dropping]
      /\ request'[q] = r /\ \A p \in Request \ {q} : request'[p] = request[p]
  BY Becoming DEF GrantInv
<1>2. GrantTypeOK'
  BY <1>1 DEF GrantInv, GrantTypeOK
<1>3. ASSUME NEW c \in Code PROVE Once(c)'
  <2> SUFFICES ASSUME c \notin overlap' \cup kept'
               PROVE  /\ \A p, o \in Request : Spends(request'[p], c) /\ Spends(request'[o], c) => p = o
                      /\ minted[c] # 0 => /\ minted[c] = 1 /\ Gone(c)'
                                          /\ \A o \in Request : ~Spends(request'[o], c)
                      /\ c \in AuthCode =>
                             \A o \in Request : On(request'[o], c, {"check", "redeem"}) => auth[c].state = "used"
    BY DEF Once, Spends, On
  <2>1. Once(c) /\ c \notin overlap \cup kept
    BY DEF GrantInv
  <2>2. \A p, o \in Request : Spends(request'[p], c) /\ Spends(request'[o], c) => p = o
    BY <1>1, <2>1 DEF Once
  <2>3. ASSUME minted[c] # 0 PROVE Gone(c)'
    <3>1. Gone(c)
      BY <2>1, <2>3 DEF Once
    <3>2. ASSUME c \in DeviceCode, device[c] # NoRow
          PROVE  \E o \in Request : On(request'[o], c, {"drop"})
      <4>1. PICK o \in Request : On(request[o], c, {"drop"})
        BY <3>1, <3>2 DEF Gone
      <4>2. On(request'[o], c, {"drop"})
        BY <1>1, <3>2, <4>1
      <4>3. QED
        BY <4>2
    <3>3. QED
      BY <3>1, <3>2 DEF Gone, On
  <2>4. \A o \in Request : minted[c] # 0 => minted[c] = 1 /\ ~Spends(request'[o], c)
    BY <1>1, <2>1 DEF Once
  <2>5. c \in AuthCode => \A o \in Request : On(request'[o], c, {"check", "redeem"}) => auth[c].state = "used"
    BY <1>1, <2>1 DEF Once
  <2>6. QED
    BY <2>2, <2>3, <2>4, <2>5
<1>4. ASSUME NEW c \in Code PROVE Unissued(c)'
  BY <1>1 DEF GrantInv, Unissued
<1>5. ASSUME NEW p \in Request PROVE Agrees(request[p])'
  BY <1>1 DEF GrantInv, Agrees
<1>6. (\A d \in DeviceCode : Approved(d)') /\ OnlyApproved' /\ RightClient'
  BY DEF GrantInv, Approved, OnlyApproved, RightClient
<1>7. QED
  BY <1>2, <1>3, <1>4, <1>5, <1>6 DEF GrantInv

-----------------------------------------------------------------------------
(* Steps that hand out codes. *)

LEMMA ExpireStep == ASSUME GrantInv, NEW c \in Code, Expire(c) PROVE GrantInv'
<1>1. GrantTypeOK'
  BY DEF GrantInv, GrantTypeOK, Expire
<1>2. \A k \in Code : Once(k)' /\ Unissued(k)'
  BY DEF GrantInv, Expire, Once, Unissued, Gone, Spends, On
<1>3. (\A q \in Request : Agrees(request[q])') /\ (\A d \in DeviceCode : Approved(d)')
  BY DEF GrantInv, Expire, Agrees, Approved
<1>4. QED
  BY <1>1, <1>2, <1>3 DEF GrantInv, Expire, OnlyApproved, RightClient

LEMMA RequestDeviceCodeStep ==
    ASSUME GrantInv, NEW d \in DeviceCode, NEW a \in App, RequestDeviceCode(d, a)
    PROVE  GrantInv'
<1> DEFINE row == [state |-> "pending", app |-> a, user |-> NoUser]
<1>1. row \in DeviceRow /\ row.state = "pending"
  BY DEF DeviceRow
<1>2. /\ d \notin issued /\ issued' = issued \cup {d} /\ device' = [device EXCEPT ![d] = row]
      /\ UNCHANGED <<auth, expired, minted, owners, approvals, request, overlap, kept, failures>>
  BY DEF RequestDeviceCode
<1> HIDE DEF row
<1>3. d \in Code /\ device' \in [DeviceCode -> {NoRow} \cup DeviceRow]
      /\ \A e \in DeviceCode : device'[e] = IF e = d THEN row ELSE device[e]
  BY <1>1, <1>2 DEF GrantInv, GrantTypeOK, Code
<1>4. GrantTypeOK'
  BY <1>2, <1>3 DEF GrantInv, GrantTypeOK
<1>5. ASSUME NEW c \in Code PROVE Once(c)'
  <2>1. Once(c) /\ (c = d => minted[c] = 0)
    BY <1>2 DEF GrantInv, Unissued
  <2>2. c # d /\ Gone(c) => Gone(c)'
    BY <1>2, <1>3 DEF Gone, On
  <2>3. QED
    BY <1>2, <2>1, <2>2 DEF Once, Spends, On
<1>6. ASSUME NEW c \in Code PROVE Unissued(c)'
  BY <1>2, <1>3 DEF GrantInv, Unissued
<1>7. \A q \in Request : Agrees(request[q])'
  BY <1>2 DEF GrantInv, Agrees
<1>8. \A e \in DeviceCode : Approved(e)'
  BY <1>1, <1>2, <1>3 DEF GrantInv, Approved
<1>9. OnlyApproved' /\ RightClient'
  BY <1>2 DEF GrantInv, OnlyApproved, RightClient
<1>10. QED
  BY <1>4, <1>5, <1>6, <1>7, <1>8, <1>9 DEF GrantInv

LEMMA IssueAuthCodeStep ==
    ASSUME GrantInv, NEW c \in AuthCode, NEW a \in App, NEW u \in User, NEW uri \in Uri,
           IssueAuthCode(c, a, u, uri)
    PROVE  GrantInv'
<1> DEFINE row == [state |-> "unused", app |-> a, user |-> u, uri |-> uri]
<1>1. row \in AuthRow
  BY DEF AuthRow
<1>2. /\ c \notin issued /\ issued' = issued \cup {c} /\ auth' = [auth EXCEPT ![c] = row]
      /\ UNCHANGED <<device, expired, minted, owners, approvals, request, overlap, kept, failures>>
  BY DEF IssueAuthCode
<1> HIDE DEF row
<1>3. c \in Code /\ auth' \in [AuthCode -> {NoRow} \cup AuthRow]
      /\ \A e \in AuthCode \ {c} : auth'[e] = auth[e]
  BY <1>1, <1>2 DEF GrantInv, GrantTypeOK, Code
<1>4. minted[c] = 0 /\ owners[c] = {} /\ \A q \in Request : request[q] = NoRequest \/ request[q].code # c
  BY <1>2, <1>3 DEF GrantInv, Unissued
<1>5. GrantTypeOK'
  BY <1>2, <1>3 DEF GrantInv, GrantTypeOK
<1>6. \A q \in Request, pcs \in SUBSET {"mark", "check", "redeem", "drop"} : ~On(request[q], c, pcs)
  BY <1>4 DEF On, NoRequest
<1>7. ASSUME NEW k \in Code PROVE Once(k)'
  <2>1. Once(k)
    BY DEF GrantInv
  <2>2. CASE k = c
    <3>1. \A q \in Request : ~Spends(request'[q], k) /\ ~On(request'[q], k, {"check", "redeem"})
      BY <1>2, <1>6, <2>2 DEF Spends
    <3>2. minted'[k] = 0
      BY <1>2, <1>4, <2>2
    <3>3. QED
      BY <3>1, <3>2 DEF Once, Spends, On
  <2>3. CASE k # c
    BY <1>2, <1>3, <2>1, <2>3 DEF Once, Gone, Spends, On
  <2>4. QED
    BY <2>2, <2>3
<1>8. ASSUME NEW k \in Code PROVE Unissued(k)'
  BY <1>2, <1>3 DEF GrantInv, Unissued
<1>9. ASSUME NEW q \in Request PROVE Agrees(request[q])'
  <2>1. request[q] \in Work /\ Agrees(request[q]) /\ (request[q] = NoRequest \/ request[q].code # c)
    BY <1>4, Kinds DEF GrantInv
  <2>2. request[q].pc \in {"mark", "check"} => request[q].code \in AuthCode
    BY Kinds DEF GrantInv, Exchanging
  <2>3. QED
    BY <1>2, <1>3, <2>1, <2>2 DEF Agrees, NoRequest
<1>10. (\A d \in DeviceCode : Approved(d)') /\ OnlyApproved' /\ RightClient'
  BY <1>2, <1>3, <1>4 DEF GrantInv, Approved, OnlyApproved, RightClient
<1>11. QED
  BY <1>5, <1>7, <1>8, <1>9, <1>10 DEF GrantInv

-----------------------------------------------------------------------------
(* Steps of a request that touch no row. *)

LEMMA LetGo ==
    ASSUME GrantInv, NEW q \in Request, Becomes(q, NoRequest),
           UNCHANGED <<device, auth, issued, expired, minted, owners, approvals, overlap>>,
           kept' \subseteq DeviceCode, kept \subseteq kept', failures' \in 0..MaxFails,
           request[q].pc # "drop" \/ request[q].code \in kept'
    PROVE  GrantInv'
<1>1. NoRequest \in Work /\ Agrees(NoRequest)
  BY DEF Work, NoRequest, Agrees
<1>2. \A c \in Code : ~Spends(NoRequest, c) /\ ~On(NoRequest, c, {"check", "redeem"})
  BY DEF Spends, On, NoRequest
<1>3. \A c \in Code \ kept' : ~On(request[q], c, {"drop"})
  BY DEF On
<1>4. overlap' \subseteq Code /\ overlap \subseteq overlap'
  BY DEF GrantInv, GrantTypeOK
<1>5. QED
  BY <1>1, <1>2, <1>3, <1>4, RequestStep

LEMMA DecideStep ==
    ASSUME GrantInv, NEW q \in Request, NEW d \in DeviceCode, NEW verdict \in {"approved", "denied"},
           NEW u \in User \cup {NoUser}, Decide(q, d, verdict, u)
    PROVE  GrantInv'
<1> DEFINE r == [pc |-> "decide", code |-> d, verdict |-> verdict, user |-> u]
<1>1. r \in Work
  BY DEF Work, Deciding
<1>2. Agrees(r)
  BY DEF Agrees, Decide
<1>3. \A c \in Code : ~Spends(r, c) /\ ~On(r, c, {"check", "redeem"})
  BY DEF Spends, On
<1>4. r.code = d /\ d \in issued
  BY DEF Decide, GrantInv, Unissued, Code
<1>5. \A c \in Code : ~On(request[q], c, {"drop"})
  BY DEF Decide, Idle, On, NoRequest
<1>6. Becomes(q, r)
      /\ UNCHANGED <<device, auth, issued, expired, minted, owners, approvals, overlap, kept, failures>>
  BY DEF Decide
<1> HIDE DEF r
<1>7. overlap' \subseteq Code /\ kept' \subseteq DeviceCode /\ failures' \in 0..MaxFails
      /\ overlap \subseteq overlap' /\ kept \subseteq kept'
  BY <1>6 DEF GrantInv, GrantTypeOK
<1>8. QED
  BY <1>1, <1>2, <1>3, <1>4, <1>5, <1>6, <1>7, RequestStep

\* A code no request has found good before this one, and no token came of.
LEMMA FirstAt ==
    ASSUME GrantInv, NEW c \in Code, c \notin overlap', Overlapped(c), c \notin kept,
           c \in DeviceCode => device[c] # NoRow, c \in AuthCode => auth[c].state # "used"
    PROVE  minted[c] = 0 /\ \A p \in Request : ~Spends(request[p], c)
<1>1. \A p \in Request : ~Redeems(p, c)
  BY DEF Overlapped
<1>2. c \notin overlap
  BY DEF Overlapped
<1>3. Once(c)
  BY DEF GrantInv
<1>4. \A p \in Request : ~On(request[p], c, {"mark", "redeem", "drop"})
  BY <1>1 DEF Redeems, Idle, On, NoRequest
<1>5. minted[c] = 0
  BY <1>2, <1>3, <1>4 DEF Once, Gone, Code, On
<1>6. ASSUME NEW p \in Request PROVE ~On(request[p], c, {"check"})
  <2>1. c \in AuthCode => ~On(request[p], c, {"check", "redeem"})
    BY <1>2, <1>3 DEF Once
  <2>2. request[p].pc = "check" => request[p].code \in AuthCode
    BY Kinds DEF GrantInv, Exchanging
  <2>3. QED
    BY <2>1, <2>2 DEF On
<1>7. QED
  BY <1>4, <1>5, <1>6 DEF Spends, On

LEMMA PollStep == ASSUME GrantInv, NEW q \in Request, NEW d \in DeviceCode, Poll(q, d) PROVE GrantInv'
<1>1. device[d] # NoRow /\ device[d] \in DeviceRow /\ d \in issued /\ d \in Code /\ d \notin AuthCode
  BY GrantNulls DEF Poll, GrantInv, GrantTypeOK, Unissued, Code
<1>2. \A c \in Code : ~On(request[q], c, {"drop"}) /\ ~Spends(request[q], c)
  BY DEF Poll, Idle, On, Spends, NoRequest
<1>3. overlap' \subseteq Code /\ overlap \subseteq overlap' /\ kept' \subseteq DeviceCode
      /\ kept \subseteq kept' /\ failures' \in 0..MaxFails
  BY <1>1 DEF Poll, Overlapped, GrantInv, GrantTypeOK
<1>4. UNCHANGED <<device, auth, issued, expired, minted, owners, approvals, kept>>
  BY DEF Poll
<1>5. CASE Becomes(q, [pc |-> "drop", code |-> d])
  <2> DEFINE r == [pc |-> "drop", code |-> d]
  <2>1. r \in Work /\ Agrees(r) /\ r.code = d
    BY DEF Work, Dropping, Agrees
  <2>2. \A c \in Code : ~Spends(r, c) /\ ~On(r, c, {"check", "redeem"})
    BY DEF Spends, On
  <2> HIDE DEF r
  <2>3. QED
    BY <1>1, <1>2, <1>3, <1>4, <1>5, <2>1, <2>2, RequestStep DEF r
<1>6. CASE /\ Ripe(device[d]) /\ Overlapped(d)
           /\ Becomes(q, [pc |-> "redeem", code |-> d, user |-> device[d].user, app |-> device[d].app])
  <2> DEFINE r == [pc |-> "redeem", code |-> d, user |-> device[d].user, app |-> device[d].app]
  <2>1. r \in Work /\ r.code = d /\ r.pc = "redeem" /\ r.user = device[d].user
    BY <1>1 DEF Work, Redeeming, DeviceRow
  <2>2. Becomes(q, r)
    BY <1>6
  <2> HIDE DEF r
  <2>3. Agrees(r)
    BY <1>1, <1>6, <2>1 DEF Agrees, Ripe, GrantInv, Approved
  <2>4. ASSUME NEW c \in Code \ (overlap' \cup kept'), Spends(r, c)
        PROVE  minted[c] = 0 /\ \A p \in Request \ {q} : ~Spends(request[p], c)
    <3>1. c = d
      BY <2>1, <2>4 DEF Spends, On
    <3>2. QED
      BY <1>1, <1>4, <1>6, <2>4, <3>1, FirstAt
  <2>5. \A c \in AuthCode : ~On(r, c, {"check", "redeem"})
    BY <1>1, <2>1 DEF On
  <2>6. QED
    BY <1>1, <1>2, <1>3, <1>4, <2>1, <2>2, <2>3, <2>4, <2>5, RequestStep
<1>7. QED
  BY <1>5, <1>6 DEF Poll

LEMMA ExchangeStep ==
    ASSUME GrantInv, NEW q \in Request, NEW c \in AuthCode, NEW a \in App, NEW uri \in Uri,
           Exchange(q, c, a, uri)
    PROVE  GrantInv'
<1> DEFINE r == [pc |-> "mark", code |-> c, row |-> auth[c], app |-> a, uri |-> uri]
<1>1. auth[c] \in AuthRow /\ auth[c] # NoRow /\ auth[c].state # "used" /\ c \in Code /\ c \in issued
      /\ c \notin DeviceCode
  BY GrantNulls DEF Exchange, GrantInv, GrantTypeOK, Unissued, Code
<1>2. r \in Work /\ r.code = c /\ r.pc = "mark" /\ r.row = auth[c]
  BY <1>1 DEF Work, Exchanging
<1>3. Becomes(q, r) /\ Overlapped(c)
      /\ UNCHANGED <<device, auth, issued, expired, minted, owners, approvals, kept, failures>>
  BY DEF Exchange
<1>4. \A k \in Code : ~On(request[q], k, {"drop"})
  BY DEF Exchange, Idle, On, NoRequest
<1> HIDE DEF r
<1>5. Agrees(r)
  BY <1>1, <1>2 DEF Agrees
<1>6. overlap' \subseteq Code /\ overlap \subseteq overlap' /\ kept' \subseteq DeviceCode
      /\ kept \subseteq kept' /\ failures' \in 0..MaxFails
  BY <1>1, <1>3 DEF Overlapped, GrantInv, GrantTypeOK
<1>7. ASSUME NEW k \in Code \ (overlap' \cup kept'), Spends(r, k)
      PROVE  minted[k] = 0 /\ \A p \in Request \ {q} : ~Spends(request[p], k)
  <2>1. k = c
    BY <1>2, <1>7 DEF Spends, On
  <2>2. QED
    BY <1>1, <1>3, <1>7, <2>1, FirstAt
<1>8. \A k \in Code : ~On(r, k, {"check", "redeem"})
  BY <1>2 DEF On
<1>9. QED
  BY <1>1, <1>2, <1>3, <1>4, <1>5, <1>6, <1>7, <1>8, RequestStep

LEMMA CheckClientStep == ASSUME GrantInv, NEW q \in Request, CheckClient(q) PROVE GrantInv'
<1>1. request[q].pc = "check" /\ request[q] \in Exchanging /\ Agrees(request[q])
      /\ UNCHANGED <<device, auth, issued, expired, minted, owners, approvals, overlap, kept, failures>>
  BY Kinds DEF CheckClient, GrantInv
<1>2. CASE ~ForClient(request[q])
  <2>1. Becomes(q, NoRequest) /\ request[q].pc # "drop"
    BY <1>1, <1>2 DEF CheckClient
  <2>2. kept' \subseteq DeviceCode /\ kept \subseteq kept' /\ failures' \in 0..MaxFails
    BY <1>1 DEF GrantInv, GrantTypeOK
  <2>3. QED
    BY <1>1, <2>1, <2>2, LetGo
<1>3. CASE ForClient(request[q])
  <2> DEFINE r == [pc |-> "redeem", code |-> request[q].code, user |-> request[q].row.user,
                   app |-> request[q].app]
  <2>1. /\ request[q].code \in AuthCode /\ request[q].code \in Code /\ request[q].code \notin DeviceCode
        /\ request[q].row.user \in User /\ request[q].app \in App
    BY <1>1, GrantNulls DEF Exchanging, AuthRow, Code
  <2>2. r \in Work /\ r.code = request[q].code /\ r.pc = "redeem" /\ r.user = request[q].row.user
        /\ r.app = request[q].app
    BY <2>1 DEF Work, Redeeming
  <2>3. Becomes(q, r)
    BY <1>3 DEF CheckClient
  <2> HIDE DEF r
  <2>4. Agrees(r)
    BY <1>1, <1>3, <2>1, <2>2 DEF Agrees, ForClient
  <2>5. r.code \in issued /\ request[q] # NoRequest
    BY <1>1, <2>1, <2>2 DEF GrantInv, Unissued, NoRequest
  <2>6. ASSUME NEW c \in Code \ (overlap \cup kept), c = r.code
        PROVE  /\ \A p \in Request \ {q} : ~Spends(request[p], c)
               /\ minted[c] = 0 /\ auth[c].state = "used"
    <3>1. Once(c) /\ Spends(request[q], c) /\ On(request[q], c, {"check", "redeem"}) /\ c \in AuthCode
      BY <1>1, <2>1, <2>2, <2>6 DEF GrantInv, Spends, On
    <3>2. QED
      BY <2>6, <3>1 DEF Once
  <2>7. \A c \in Code : (Spends(r, c) \/ On(r, c, {"check", "redeem"})) => c = r.code
    BY DEF Spends, On
  <2>8. \A c \in Code : ~On(request[q], c, {"drop"})
    BY <1>1 DEF On
  <2>9. overlap' \subseteq Code /\ overlap \subseteq overlap' /\ kept' \subseteq DeviceCode
        /\ kept \subseteq kept' /\ failures' \in 0..MaxFails
    BY <1>1 DEF GrantInv, GrantTypeOK
  <2>10. QED
    BY <1>1, <2>2, <2>3, <2>4, <2>5, <2>6, <2>7, <2>8, <2>9, RequestStep
<1>4. QED
  BY <1>2, <1>3

LEMMA RequestFailsStep == ASSUME GrantInv, NEW q \in Request, RequestFails(q) PROVE GrantInv'
<1>1. request[q].pc # "drop" /\ Becomes(q, NoRequest)
      /\ UNCHANGED <<device, auth, issued, expired, minted, owners, approvals, overlap, kept>>
  BY DEF RequestFails
<1>2. kept' \subseteq DeviceCode /\ kept \subseteq kept' /\ failures' \in 0..MaxFails
  BY <1>1, GrantBounds DEF RequestFails, Failing, GrantInv, GrantTypeOK
<1>3. QED
  BY <1>1, <1>2, LetGo

LEMMA DropFailsStep == ASSUME GrantInv, NEW q \in Request, DropFails(q) PROVE GrantInv'
<1>1. /\ request[q] \in Dropping /\ kept' = kept \cup {request[q].code} /\ Becomes(q, NoRequest)
      /\ UNCHANGED <<device, auth, issued, expired, minted, owners, approvals, overlap>>
  BY Kinds DEF DropFails, GrantInv
<1>2. kept' \subseteq DeviceCode /\ kept \subseteq kept' /\ failures' \in 0..MaxFails
      /\ request[q].code \in kept'
  BY <1>1, GrantBounds DEF DropFails, Failing, GrantInv, GrantTypeOK, Dropping
<1>3. QED
  BY <1>1, <1>2, LetGo

-----------------------------------------------------------------------------
(* Steps of a request that write a row or a token. *)

LEMMA SetDeviceStateStep == ASSUME GrantInv, NEW q \in Request, SetDeviceState(q) PROVE GrantInv'
<1> DEFINE r == request[q]
           d == request[q].code
<1>1. r \in Deciding /\ r.pc = "decide" /\ d \in DeviceCode /\ d \in Code /\ r.user \in User \cup {NoUser}
      /\ r.verdict \in {"approved", "denied"} /\ (r.verdict = "denied" <=> r.user = NoUser)
  BY Kinds DEF SetDeviceState, GrantInv, Deciding, Code, Agrees
<1>2. Becomes(q, NoRequest)
      /\ UNCHANGED <<auth, issued, expired, minted, owners, overlap, kept, failures>>
  BY DEF SetDeviceState
<1>3. CASE device[d] = NoRow
  <2>1. UNCHANGED <<device, approvals>> /\ kept' \subseteq DeviceCode /\ kept \subseteq kept'
        /\ failures' \in 0..MaxFails /\ request[q].pc # "drop"
    BY <1>1, <1>2, <1>3 DEF SetDeviceState, GrantInv, GrantTypeOK
  <2>2. QED
    BY <1>2, <2>1, LetGo
<1>4. CASE device[d] # NoRow
  <2>1. NoRequest \in Work
    BY DEF Work
  <2>2. /\ request' \in [Request -> {NoRequest} \cup Deciding \cup Exchanging \cup Redeeming \cup Dropping]
        /\ request'[q] = NoRequest /\ \A p \in Request \ {q} : request'[p] = request[p]
    BY <1>2, <2>1, Becoming DEF GrantInv
  <2>3. device[d] \in DeviceRow
    BY <1>1, <1>4 DEF GrantInv, GrantTypeOK
  <2>4. PICK row : row = [device[d] EXCEPT !.state = r.verdict, !.user = r.user]
    OBVIOUS
  <2>5. row \in DeviceRow /\ row.state = r.verdict /\ row.user = r.user /\ row # NoRow
    BY <1>1, <2>3, <2>4 DEF DeviceRow, NoRow
  <2>6. device' = [device EXCEPT ![d] = row]
        /\ approvals' = [approvals EXCEPT ![d] = @ \cup ({r.user} \ {NoUser})]
    BY <1>1, <1>4, <2>4 DEF SetDeviceState, GrantInv, GrantTypeOK
  <2>7. device' \in [DeviceCode -> {NoRow} \cup DeviceRow]
        /\ \A e \in DeviceCode : device'[e] = IF e = d THEN row ELSE device[e]
    BY <1>1, <2>5, <2>6 DEF GrantInv, GrantTypeOK
  <2>8. approvals' \in [DeviceCode -> SUBSET User]
        /\ \A e \in DeviceCode : approvals[e] \subseteq approvals'[e]
        /\ (r.user # NoUser => r.user \in approvals'[d])
    BY <1>1, <2>6 DEF GrantInv, GrantTypeOK
  <2>9. \A c \in Code : ~Spends(NoRequest, c) /\ ~On(NoRequest, c, {"check", "redeem"})
                        /\ ~On(request[q], c, {"drop"})
    BY <1>1 DEF Spends, On, NoRequest
  <2>10. GrantTypeOK'
    BY <1>2, <2>2, <2>7, <2>8 DEF GrantInv, GrantTypeOK
  <2>11. ASSUME NEW c \in Code PROVE Once(c)'
    <3>1. Once(c)
      BY DEF GrantInv
    <3>2. ASSUME Gone(c) PROVE Gone(c)'
      <4>1. ASSUME c \in DeviceCode, device'[c] # NoRow
            PROVE  \E o \in Request : On(request'[o], c, {"drop"})
        <5>1. device[c] # NoRow
          BY <1>4, <2>7, <4>1
        <5>2. PICK o \in Request : On(request[o], c, {"drop"})
          BY <3>2, <4>1, <5>1 DEF Gone
        <5>3. On(request'[o], c, {"drop"})
          BY <2>2, <2>9, <5>2
        <5>4. QED
          BY <5>3
      <4>2. QED
        BY <1>2, <3>2, <4>1 DEF Gone, On
    <3>3. \A p \in Request : Spends(request'[p], c) => Spends(request[p], c)
      BY <2>2, <2>9
    <3>4. \A p \in Request : On(request'[p], c, {"check", "redeem"}) => On(request[p], c, {"check", "redeem"})
      BY <2>2, <2>9
    <3>5. QED
      BY <1>2, <3>1, <3>2, <3>3, <3>4 DEF Once, Spends, On
  <2>12. ASSUME NEW c \in Code PROVE Unissued(c)'
    <3>1. Unissued(c) /\ (c = d => c \in issued)
      BY <1>1, <1>4 DEF GrantInv, Unissued
    <3>2. QED
      BY <1>2, <2>2, <2>7, <3>1 DEF Unissued
  <2>13. ASSUME NEW p \in Request PROVE Agrees(request[p])'
    <3>1. CASE p = q
      BY <2>2, <3>1 DEF Agrees, NoRequest
    <3>2. CASE p # q
      BY <1>2, <2>2, <2>8, <3>2 DEF GrantInv, Agrees
    <3>3. QED
      BY <3>1, <3>2
  <2>14. ASSUME NEW e \in DeviceCode PROVE Approved(e)'
    BY <1>1, <2>5, <2>7, <2>8 DEF GrantInv, Approved
  <2>15. OnlyApproved' /\ RightClient'
    BY <1>2, <2>8 DEF GrantInv, OnlyApproved, RightClient
  <2>16. QED
    BY <2>10, <2>11, <2>12, <2>13, <2>14, <2>15 DEF GrantInv
<1>5. QED
  BY <1>3, <1>4

LEMMA DropCodeStep == ASSUME GrantInv, NEW q \in Request, DropCode(q) PROVE GrantInv'
<1>1. PICK d \in DeviceCode : d = request[q].code /\ request[q].pc = "drop"
  BY Kinds DEF DropCode, GrantInv, Dropping
<1>2. /\ Becomes(q, NoRequest) /\ device' = [device EXCEPT ![d] = NoRow] /\ NoRequest \in Work
      /\ UNCHANGED <<auth, issued, expired, minted, owners, approvals, overlap, kept, failures>>
  BY <1>1 DEF DropCode, Work
<1>3. /\ request' \in [Request -> {NoRequest} \cup Deciding \cup Exchanging \cup Redeeming \cup Dropping]
      /\ request'[q] = NoRequest /\ \A p \in Request \ {q} : request'[p] = request[p]
  BY <1>2, Becoming DEF GrantInv
<1>4. device' \in [DeviceCode -> {NoRow} \cup DeviceRow]
      /\ \A e \in DeviceCode : device'[e] = IF e = d THEN NoRow ELSE device[e]
  BY <1>2 DEF GrantInv, GrantTypeOK
<1>5. GrantTypeOK'
  BY <1>2, <1>3, <1>4 DEF GrantInv, GrantTypeOK
<1>6. \A c \in Code : ~Spends(NoRequest, c) /\ ~On(NoRequest, c, {"check", "redeem"})
                      /\ (On(request[q], c, {"drop"}) => c = d)
  BY <1>1 DEF Spends, On, NoRequest
<1>7. ASSUME NEW c \in Code PROVE Once(c)'
  <2>1. Once(c)
    BY DEF GrantInv
  <2>2. ASSUME Gone(c) PROVE Gone(c)'
    <3>1. ASSUME c \in DeviceCode, device'[c] # NoRow
          PROVE  \E o \in Request : On(request'[o], c, {"drop"})
      <4>1. device[c] # NoRow /\ c # d
        BY <1>4, <3>1
      <4>2. PICK o \in Request : On(request[o], c, {"drop"})
        BY <2>2, <3>1, <4>1 DEF Gone
      <4>3. On(request'[o], c, {"drop"})
        BY <1>3, <1>6, <4>1, <4>2
      <4>4. QED
        BY <4>3
    <3>2. QED
      BY <1>2, <2>2, <3>1 DEF Gone, On
  <2>3. \A p \in Request : Spends(request'[p], c) => Spends(request[p], c)
    BY <1>3, <1>6
  <2>4. \A p \in Request : On(request'[p], c, {"check", "redeem"}) => On(request[p], c, {"check", "redeem"})
    BY <1>3, <1>6
  <2>5. QED
    BY <1>2, <2>1, <2>2, <2>3, <2>4 DEF Once, Spends, On
<1>8. ASSUME NEW c \in Code PROVE Unissued(c)'
  BY <1>2, <1>3, <1>4 DEF GrantInv, Unissued
<1>9. ASSUME NEW p \in Request PROVE Agrees(request[p])'
  BY <1>2, <1>3 DEF GrantInv, Agrees, NoRequest
<1>10. \A e \in DeviceCode : Approved(e)'
  BY <1>2, <1>4 DEF GrantInv, Approved, NoRow
<1>11. OnlyApproved' /\ RightClient'
  BY <1>2 DEF GrantInv, OnlyApproved, RightClient
<1>12. QED
  BY <1>5, <1>7, <1>8, <1>9, <1>10, <1>11 DEF GrantInv

LEMMA MarkUsedStep == ASSUME GrantInv, NEW q \in Request, MarkUsed(q) PROVE GrantInv'
<1>1. PICK r \in Exchanging : r = request[q] /\ r.pc = "mark" /\ Agrees(r)
  BY Kinds DEF MarkUsed, GrantInv
<1>2. PICK k \in AuthCode : k = r.code
  BY <1>1 DEF Exchanging
<1>3. PICK s : s = [r EXCEPT !.pc = "check"]
  OBVIOUS
<1>4. PICK row : row = [auth[k] EXCEPT !.state = "used"]
  OBVIOUS
<1>5. auth[k] \in AuthRow /\ k \in Code /\ k \notin DeviceCode
  BY <1>1, <1>2, GrantNulls DEF Agrees, GrantInv, GrantTypeOK, Code
<1>6. /\ Becomes(q, s) /\ auth' = [auth EXCEPT ![k] = row]
      /\ UNCHANGED <<device, issued, expired, minted, owners, approvals, overlap, kept, failures>>
  BY <1>1, <1>2, <1>3, <1>4 DEF MarkUsed, GrantInv, GrantTypeOK
<1>7. /\ row \in AuthRow /\ row # NoRow /\ row.state = "used" /\ row.user = auth[k].user
      /\ row.app = auth[k].app
  BY <1>4, <1>5 DEF AuthRow, NoRow
<1>8. /\ s \in Work /\ s.pc = "check" /\ s.code = k /\ s.row = r.row
  BY <1>1, <1>2, <1>3 DEF Work, Exchanging
<1>9. /\ request' \in [Request -> {NoRequest} \cup Deciding \cup Exchanging \cup Redeeming \cup Dropping]
      /\ request'[q] = s /\ \A p \in Request \ {q} : request'[p] = request[p]
  BY <1>6, <1>8, Becoming DEF GrantInv
<1>10. auth' \in [AuthCode -> {NoRow} \cup AuthRow]
       /\ \A c \in AuthCode : auth'[c] = IF c = k THEN row ELSE auth[c]
  BY <1>6, <1>7 DEF GrantInv, GrantTypeOK
<1>11. GrantTypeOK'
  BY <1>6, <1>9, <1>10 DEF GrantInv, GrantTypeOK
<1>12. ASSUME NEW c \in Code PROVE Once(c)'
  <2>1. Once(c)
    BY DEF GrantInv
  <2>2. \A p \in Request : Spends(request'[p], c) => Spends(request[p], c)
    BY <1>1, <1>2, <1>8, <1>9 DEF Spends, On
  <2>3. \A p \in Request : On(request[p], c, {"drop"}) => On(request'[p], c, {"drop"})
    BY <1>1, <1>9 DEF On
  <2>4. Gone(c) => Gone(c)'
    BY <1>6, <1>7, <1>10, <2>3 DEF Gone, On
  <2>5. \A p \in Request : c \in AuthCode /\ On(request'[p], c, {"check", "redeem"}) =>
            auth'[c].state = "used" \/ On(request[p], c, {"check", "redeem"})
    BY <1>7, <1>8, <1>9, <1>10 DEF On
  <2>6. c \in AuthCode => auth'[c].state = "used" \/ auth'[c] = auth[c]
    BY <1>7, <1>10
  <2>7. QED
    BY <1>6, <2>1, <2>2, <2>4, <2>5, <2>6 DEF Once, Spends, On
<1>13. ASSUME NEW c \in Code PROVE Unissued(c)'
  <2>1. Unissued(c) /\ (c = k => c \in issued)
    BY <1>1, <1>2, <1>5 DEF GrantInv, Unissued, Agrees
  <2>2. QED
    BY <1>1, <1>2, <1>6, <1>8, <1>9, <1>10, <2>1 DEF Unissued
<1>14. \A c \in AuthCode : /\ auth'[c] = NoRow <=> auth[c] = NoRow
                           /\ auth'[c].user = auth[c].user /\ auth'[c].app = auth[c].app
  BY <1>1, <1>2, <1>7, <1>10 DEF Agrees
<1>15. ASSUME NEW p \in Request PROVE Agrees(request[p])'
  <2>1. CASE p = q
    BY <1>1, <1>2, <1>8, <1>9, <1>14, <2>1 DEF Agrees
  <2>2. CASE p # q
    <3>1. Agrees(request[p]) /\ request'[p] = request[p]
      BY <1>9, <2>2 DEF GrantInv
    <3>2. request[p].pc \in {"mark", "check"} => request[p].code \in AuthCode
      BY Kinds DEF GrantInv, Exchanging
    <3>3. QED
      BY <1>6, <1>14, <3>1, <3>2 DEF Agrees
  <2>3. QED
    BY <2>1, <2>2
<1>16. (\A d \in DeviceCode : Approved(d)') /\ OnlyApproved' /\ RightClient'
  BY <1>6, <1>14 DEF GrantInv, Approved, OnlyApproved, RightClient
<1>17. QED
  BY <1>11, <1>12, <1>13, <1>15, <1>16 DEF GrantInv

LEMMA MintStep == ASSUME GrantInv, NEW q \in Request, Mint(q) PROVE GrantInv'
<1>1. PICK r \in Redeeming : r = request[q] /\ r.pc = "redeem" /\ Agrees(r)
  BY Kinds DEF Mint, GrantInv
<1>2. PICK k \in Code : k = r.code
  BY <1>1 DEF Redeeming
<1>3. PICK s : s = AfterMint(k)
  OBVIOUS
<1>4. /\ Becomes(q, s)
      /\ minted' = [minted EXCEPT ![k] = minted[k] + 1]
      /\ owners' = [owners EXCEPT ![k] = owners[k] \cup {<<r.user, r.app>>}]
      /\ UNCHANGED <<device, auth, issued, expired, approvals, overlap, kept, failures>>
  BY <1>1, <1>2, <1>3 DEF Mint
<1>5. /\ s \in Work /\ (s = NoRequest \/ s.code = k) /\ Agrees(s)
      /\ k \in DeviceCode => On(s, k, {"drop"})
      /\ \A c \in Code : ~Spends(s, c) /\ ~On(s, c, {"check", "redeem"})
  BY <1>2, <1>3 DEF AfterMint, Work, Dropping, Agrees, NoRequest, On, Spends
<1>6. /\ request' \in [Request -> {NoRequest} \cup Deciding \cup Exchanging \cup Redeeming \cup Dropping]
      /\ request'[q] = s /\ \A p \in Request \ {q} : request'[p] = request[p]
  BY <1>4, <1>5, Becoming DEF GrantInv
<1>7. /\ minted' \in [Code -> Nat] /\ minted'[k] = minted[k] + 1 /\ minted[k] \in Nat
      /\ \A c \in Code \ {k} : minted'[c] = minted[c]
  BY <1>4 DEF GrantInv, GrantTypeOK
<1>8. /\ owners' \in [Code -> SUBSET ((User \cup {NoUser}) \X App)]
      /\ owners'[k] = owners[k] \cup {<<r.user, r.app>>}
      /\ \A c \in Code \ {k} : owners'[c] = owners[c]
  BY <1>1, <1>4 DEF GrantInv, GrantTypeOK, Redeeming
<1>9. GrantTypeOK'
  BY <1>4, <1>6, <1>7, <1>8 DEF GrantInv, GrantTypeOK
<1>10. \A c \in Code : (On(request[q], c, {"drop"}) => FALSE) /\ (Spends(request[q], c) <=> c = k)
  BY <1>1, <1>2 DEF On, Spends
<1>11. ASSUME NEW c \in Code PROVE Once(c)'
  <2>1. Once(c)
    BY DEF GrantInv
  <2>2. \A p \in Request : Spends(request'[p], c) => Spends(request[p], c) /\ p # q
    BY <1>5, <1>6
  <2>3. \A p \in Request : On(request[p], c, {"drop"}) => On(request'[p], c, {"drop"})
    BY <1>6, <1>10
  <2>4. \A p \in Request : On(request'[p], c, {"check", "redeem"}) => On(request[p], c, {"check", "redeem"})
    BY <1>5, <1>6
  <2>5. Gone(c) => Gone(c)'
    BY <1>4, <2>3 DEF Gone, On
  <2>6. CASE c # k
    BY <1>4, <1>7, <2>1, <2>2, <2>4, <2>5, <2>6 DEF Once, Spends, On
  <2>7. CASE c = k /\ c \notin overlap \cup kept
    <3>1. minted[c] = 0 /\ \A p \in Request : Spends(request[p], c) => p = q
      BY <1>10, <2>1, <2>7 DEF Once
    <3>2. minted'[c] = 1 /\ \A p \in Request : ~Spends(request'[p], c)
      BY <1>7, <2>2, <2>7, <3>1
    <3>3. c \in AuthCode => auth'[c].state = "used"
      <4>1. On(request[q], c, {"check", "redeem"})
        BY <1>1, <1>2, <2>7 DEF On
      <4>2. QED
        BY <1>4, <2>1, <2>7, <4>1 DEF Once
    <3>4. Gone(c)'
      BY <1>5, <1>6, <2>7, <3>3 DEF Gone, On
    <3>5. QED
      BY <3>2, <3>3, <3>4 DEF Once, Spends, On
  <2>8. CASE c \in overlap \cup kept
    BY <1>4, <2>8 DEF Once
  <2>9. QED
    BY <2>6, <2>7, <2>8
<1>12. ASSUME NEW c \in Code PROVE Unissued(c)'
  <2>1. Unissued(c) /\ (c = k => c \in issued)
    BY <1>1, <1>2 DEF GrantInv, Unissued, NoRequest
  <2>2. QED
    BY <1>2, <1>4, <1>5, <1>6, <1>7, <1>8, <2>1 DEF Unissued
<1>13. ASSUME NEW p \in Request PROVE Agrees(request[p])'
  BY <1>4, <1>5, <1>6 DEF GrantInv, Agrees
<1>14. \A d \in DeviceCode : Approved(d)'
  BY <1>4 DEF GrantInv, Approved
<1>15. OnlyApproved'
  <2>1. k \in DeviceCode => r.user \in approvals[k]
    BY <1>1, <1>2 DEF Agrees
  <2>2. QED
    BY <1>4, <1>8, <2>1 DEF GrantInv, OnlyApproved, Code
<1>16. RightClient'
  <2>1. k \in AuthCode => <<r.user, r.app>> = <<auth[k].user, auth[k].app>>
    BY <1>1, <1>2 DEF Agrees
  <2>2. QED
    BY <1>4, <1>8, <2>1 DEF GrantInv, RightClient, Code
<1>17. QED
  BY <1>9, <1>11, <1>12, <1>13, <1>14, <1>15, <1>16 DEF GrantInv

-----------------------------------------------------------------------------
LEMMA GrantInductive == GrantInv /\ [GrantNext]_grantVars => GrantInv'
<1> SUFFICES ASSUME GrantInv, [GrantNext]_grantVars PROVE GrantInv'
  OBVIOUS
<1>1. ASSUME NEW c \in Code, Expire(c) PROVE GrantInv'
  BY <1>1, ExpireStep
<1>2. ASSUME NEW d \in DeviceCode, NEW a \in App, RequestDeviceCode(d, a) PROVE GrantInv'
  BY <1>2, RequestDeviceCodeStep
<1>3. ASSUME NEW c \in AuthCode, NEW a \in App, NEW u \in User, NEW uri \in Uri, IssueAuthCode(c, a, u, uri)
      PROVE  GrantInv'
  BY <1>3, IssueAuthCodeStep
<1>4. ASSUME NEW q \in Request, Device(q) PROVE GrantInv'
  BY <1>4, PollStep, DecideStep, SetDeviceStateStep, DropCodeStep, DropFailsStep DEF Device
<1>5. ASSUME NEW q \in Request, Web(q) PROVE GrantInv'
  BY <1>5, ExchangeStep, MarkUsedStep, CheckClientStep DEF Web
<1>6. ASSUME NEW q \in Request, Mint(q) \/ RequestFails(q) PROVE GrantInv'
  BY <1>6, MintStep, RequestFailsStep
<1>7. CASE UNCHANGED grantVars
  BY <1>7 DEF grantVars, GrantInv, GrantTypeOK, Once, Gone, Spends, On, Unissued, Agrees, Approved,
              OnlyApproved, RightClient
<1>8. QED
  BY <1>1, <1>2, <1>3, <1>4, <1>5, <1>6, <1>7 DEF GrantNext

LEMMA GrantInvariant == GrantSpec => []GrantInv
BY GrantInitially, GrantInductive, PTL DEF GrantSpec

\* Every state has the types of GrantTypeOK, whatever requests, approvals and failed
\* statements cross (auth/device.go, auth/webflow.go).
THEOREM GrantTypeCorrect == GrantSpec => []GrantTypeOK
<1>1. GrantInv => GrantTypeOK
  BY DEF GrantInv
<1>2. QED
  BY <1>1, GrantInvariant, PTL

\* A code yields a second token only to requests that found it good at the same time,
\* or after its deletion failed (auth/device.go:178, store/queries_auth_code.go:28).
THEOREM CodesAreSingleUse == GrantSpec => []SingleUse
<1>1. GrantInv => SingleUse
  <2> SUFFICES ASSUME GrantInv, NEW c \in Code, minted[c] > 1 PROVE c \in overlap \cup kept
    BY DEF SingleUse
  <2>1. minted[c] \in Nat /\ Once(c)
    BY DEF GrantInv, GrantTypeOK
  <2>2. QED
    BY <2>1 DEF Once
<1>2. QED
  BY <1>1, GrantInvariant, PTL

\* A device code yields tokens only for users whose approval was written
\* (ApproveDeviceCode and PollDeviceToken, auth/device.go).
THEOREM OnlyApprovedCodesMint == GrantSpec => []OnlyApproved
<1>1. GrantInv => OnlyApproved
  BY DEF GrantInv
<1>2. QED
  BY <1>1, GrantInvariant, PTL

\* An authorization code yields tokens only for the user and the app it was issued
\* for (ExchangeAuthCode, auth/webflow.go).
THEOREM CodesKeepTheirClient == GrantSpec => []RightClient
<1>1. GrantInv => RightClient
  BY DEF GrantInv
<1>2. QED
  BY <1>1, GrantInvariant, PTL

-----------------------------------------------------------------------------
(* No window of the rate limiter bills more than its limit.                *)
(*                                                                         *)
(* BudgetKept is not inductive: a refund of the present window takes a     *)
(* unit off, which is there only because the requests charged to the       *)
(* window and still served are no more than the units billed.              *)

\* The requests being served that were charged to the present window of b.
Charged(b) == {c \in Call : call[c] # NoCharge /\ call[c].bucket = b /\ call[c].epoch = epoch[b]}

\* What a bucket counts, whether or not its window is past its reset.
Counted(b) ==
    /\ billed[b] <= used[b] + late[b]
    /\ late[b] = 0 => used[b] = billed[b]
    /\ Cardinality(Charged(b)) <= billed[b]

\* No request was charged to a window to come.
Begun == \A c \in Call : call[c] # NoCharge => call[c].epoch <= epoch[call[c].bucket]

RateInv == RateTypeOK /\ Begun /\ \A b \in Bucket : Counted(b)

-----------------------------------------------------------------------------
LEMMA RateInitially == RateInit => RateInv
<1> SUFFICES ASSUME RateInit PROVE RateInv
  OBVIOUS
<1>1. RateTypeOK /\ Begun
  BY RateBounds DEF RateInit, RateTypeOK, Begun, NoCharge
<1>2. ASSUME NEW b \in Bucket PROVE Counted(b)
  <2>1. Charged(b) = {}
    BY DEF RateInit, Charged
  <2>2. QED
    BY <2>1, FS_EmptySet DEF RateInit, Counted
<1>3. QED
  BY <1>1, <1>2 DEF RateInv

\* The requests charged to a window are finitely many.
LEMMA FewCharged ==
    ASSUME NEW b \in Bucket
    PROVE  IsFiniteSet(Charged(b)) /\ Cardinality(Charged(b)) \in Nat
BY RateCalls, FS_Subset, FS_CardinalityType DEF Charged

\* The window an operation starts from is the present one or a new one, in which
\* nothing has been charged.
LEMMA Window ==
    ASSUME RateInv, NEW b \in Bucket
    PROVE  /\ Now(b).used \in 0..Limit /\ Now(b).epoch \in Nat
           /\ Now(b).billed \in Nat /\ Now(b).late \in Nat
           /\ Now(b).billed <= Now(b).used + Now(b).late
           /\ Now(b).late = 0 => Now(b).used = Now(b).billed
           /\ epoch[b] <= Now(b).epoch
           /\ LET S == {c \in Call : call[c] # NoCharge /\ call[c].bucket = b
                                     /\ call[c].epoch = Now(b).epoch}
              IN  IsFiniteSet(S) /\ Cardinality(S) <= Now(b).billed
<1>1. CASE b \notin over
  BY <1>1, FewCharged DEF Now, RateInv, RateTypeOK, Counted, Charged
<1>2. CASE b \in over
  <2> DEFINE S == {c \in Call : call[c] # NoCharge /\ call[c].bucket = b /\ call[c].epoch = Now(b).epoch}
  <2>1. Now(b) = [used |-> 0, epoch |-> epoch[b] + 1, billed |-> 0, late |-> 0]
    BY <1>2 DEF Now
  <2>2. epoch[b] \in Nat
    BY DEF RateInv, RateTypeOK
  <2>3. \A c \in Call : call[c] # NoCharge => call[c].epoch \in Nat
    BY DEF RateInv, RateTypeOK, Charges
  <2>4. S = {}
    BY <2>1, <2>2, <2>3 DEF RateInv, Begun
  <2>5. IsFiniteSet(S) /\ Cardinality(S) = 0
    BY <2>4, FS_EmptySet
  <2>6. QED
    BY <2>1, <2>2, <2>5, RateBounds
<1>3. QED
  BY <1>1, <1>2

\* Another bucket keeps its counts when no request is newly charged to it.
LEMMA Others ==
    ASSUME RateInv, NEW b \in Bucket, NEW w, SetWindow(b, w), NEW o \in Bucket, o # b,
           \A c \in Call : call'[c] # call[c] => call'[c] = NoCharge \/ call'[c].bucket = b
    PROVE  Counted(o)'
<1>1. /\ used'[o] = used[o] /\ epoch'[o] = epoch[o] /\ billed'[o] = billed[o] /\ late'[o] = late[o]
  BY DEF SetWindow, RateInv, RateTypeOK
<1>2. Charged(o)' \subseteq Charged(o)
  BY <1>1 DEF Charged
<1>3. Cardinality(Charged(o)') <= Cardinality(Charged(o)) /\ Cardinality(Charged(o)') \in Nat
  BY <1>2, FewCharged, FS_Subset, FS_CardinalityType
<1>4. Counted(o) /\ billed[o] \in Nat /\ Cardinality(Charged(o)) \in Nat
  BY FewCharged DEF RateInv, RateTypeOK
<1>5. Cardinality(Charged(o)') <= billed[o]
  BY <1>3, <1>4 DEF Counted
<1>6. QED
  BY <1>1, <1>4, <1>5 DEF Counted

\* What SetWindow leaves behind.
LEMMA Wrote ==
    ASSUME RateInv, NEW b \in Bucket, NEW w, SetWindow(b, w),
           w.used \in 0..Limit, w.epoch \in Nat, w.billed \in Nat, w.late \in Nat,
           epoch[b] <= w.epoch
    PROVE  /\ used' \in [Bucket -> 0..Limit] /\ over' \subseteq Bucket /\ epoch' \in [Bucket -> Nat]
           /\ billed' \in [Bucket -> Nat] /\ late' \in [Bucket -> Nat]
           /\ used'[b] = w.used /\ epoch'[b] = w.epoch /\ billed'[b] = w.billed /\ late'[b] = w.late
           /\ \A o \in Bucket : epoch[o] <= epoch'[o]
<1>1. epoch \in [Bucket -> Nat]
  BY DEF RateInv, RateTypeOK
<1>2. epoch' = [epoch EXCEPT ![b] = w.epoch]
  BY DEF SetWindow
<1>3. \A o \in Bucket : epoch[o] <= epoch'[o]
  BY <1>1, <1>2
<1>4. QED
  BY <1>3 DEF RateInv, RateTypeOK, SetWindow

\* Requests go on being served in windows begun.
LEMMA StillBegun ==
    ASSUME RateInv, epoch' \in [Bucket -> Nat], \A o \in Bucket : epoch[o] <= epoch'[o],
           \A c \in Call : call'[c] # call[c] =>
               call'[c] = NoCharge \/ (call'[c].bucket \in Bucket /\ call'[c].epoch = epoch'[call'[c].bucket])
    PROVE  Begun'
<1> SUFFICES ASSUME NEW c \in Call, call'[c] # NoCharge
             PROVE  call'[c].epoch <= epoch'[call'[c].bucket]
  BY DEF Begun
<1>1. CASE call'[c] # call[c]
  BY <1>1
<1>2. CASE call'[c] = call[c]
  <2>1. call[c] \in Charges /\ call[c].epoch <= epoch[call[c].bucket]
    BY <1>2 DEF RateInv, RateTypeOK, Begun
  <2>2. call[c].bucket \in Bucket /\ call[c].epoch \in Nat
    BY <2>1 DEF Charges
  <2>3. epoch[call[c].bucket] \in Nat
    BY <2>2 DEF RateInv, RateTypeOK
  <2>4. QED
    BY <1>2, <2>1, <2>2, <2>3
<1>3. QED
  BY <1>1, <1>2

-----------------------------------------------------------------------------
LEMMA ElapseStep == ASSUME RateInv, NEW b \in Bucket, Elapse(b) PROVE RateInv'
<1>1. RateTypeOK' /\ Begun'
  BY DEF RateInv, Elapse, RateTypeOK, Begun
<1>2. \A o \in Bucket : Charged(o)' = Charged(o)
  BY DEF Elapse, Charged
<1>3. QED
  BY <1>1, <1>2 DEF RateInv, Counted, Elapse

\* The window begins anew, or nothing happens: peek, and take at the limit.
LEMMA RollStep == ASSUME RateInv, NEW b \in Bucket, SetWindow(b, Now(b)), UNCHANGED call PROVE RateInv'
<1> DEFINE w == Now(b)
           S == {c \in Call : call[c] # NoCharge /\ call[c].bucket = b /\ call[c].epoch = w.epoch}
<1>1. /\ w.used \in 0..Limit /\ w.epoch \in Nat /\ w.billed \in Nat /\ w.late \in Nat
      /\ w.billed <= w.used + w.late /\ (w.late = 0 => w.used = w.billed) /\ epoch[b] <= w.epoch
      /\ Cardinality(S) <= w.billed
  BY Window
<1>2. SetWindow(b, w)
  OBVIOUS
<1> HIDE DEF w
<1>3. /\ used' \in [Bucket -> 0..Limit] /\ over' \subseteq Bucket /\ epoch' \in [Bucket -> Nat]
      /\ billed' \in [Bucket -> Nat] /\ late' \in [Bucket -> Nat]
      /\ used'[b] = w.used /\ epoch'[b] = w.epoch /\ billed'[b] = w.billed /\ late'[b] = w.late
      /\ \A o \in Bucket : epoch[o] <= epoch'[o]
  BY <1>1, <1>2, Wrote
<1>4. RateTypeOK'
  BY <1>3 DEF RateTypeOK, RateInv
<1>5. Begun'
  BY <1>3, StillBegun
<1>6. Charged(b)' = S
  BY <1>3 DEF Charged
<1>7. Counted(b)'
  BY <1>1, <1>3, <1>6 DEF Counted
<1>8. \A o \in Bucket : Counted(o)'
  BY <1>2, <1>7, Others
<1>9. QED
  BY <1>4, <1>5, <1>8 DEF RateInv

LEMMA ChargeStep ==
    ASSUME RateInv, NEW c \in Call, NEW b \in Bucket, Take(c, b), Now(b).used < Limit
    PROVE  RateInv'
<1> DEFINE w == Now(b)
           v == [w EXCEPT !.used = @ + 1, !.billed = @ + 1]
           r == [pc |-> "serving", bucket |-> b, epoch |-> w.epoch]
           S == {k \in Call : call[k] # NoCharge /\ call[k].bucket = b /\ call[k].epoch = w.epoch}
<1>1. /\ w.used \in 0..Limit /\ w.epoch \in Nat /\ w.billed \in Nat /\ w.late \in Nat
      /\ w.billed <= w.used + w.late /\ (w.late = 0 => w.used = w.billed) /\ epoch[b] <= w.epoch
      /\ IsFiniteSet(S) /\ Cardinality(S) <= w.billed
  BY Window
<1>2. w.used < Limit /\ ~(w.used >= Limit)
  BY <1>1, RateBounds
<1>3. SetWindow(b, v) /\ call' = [call EXCEPT ![c] = r] /\ call[c] = NoCharge
  BY <1>2 DEF Take
<1>4. v.used = w.used + 1 /\ v.billed = w.billed + 1 /\ v.epoch = w.epoch /\ v.late = w.late
  BY DEF Now
<1>5. r \in Charges /\ r # NoCharge /\ r.bucket = b /\ r.epoch = w.epoch
  BY <1>1 DEF Charges, NoCharge
<1> HIDE DEF w, v, r
<1>6. /\ v.used \in 0..Limit /\ v.epoch \in Nat /\ v.billed \in Nat /\ v.late \in Nat
      /\ v.billed <= v.used + v.late /\ (v.late = 0 => v.used = v.billed) /\ epoch[b] <= v.epoch
  BY <1>1, <1>2, <1>4, RateBounds
<1>7. /\ used' \in [Bucket -> 0..Limit] /\ over' \subseteq Bucket /\ epoch' \in [Bucket -> Nat]
      /\ billed' \in [Bucket -> Nat] /\ late' \in [Bucket -> Nat]
      /\ used'[b] = v.used /\ epoch'[b] = v.epoch /\ billed'[b] = v.billed /\ late'[b] = v.late
      /\ \A o \in Bucket : epoch[o] <= epoch'[o]
  BY <1>3, <1>6, Wrote
<1>8. call \in [Call -> {NoCharge} \cup Charges]
  BY DEF RateInv, RateTypeOK
<1>9. call' \in [Call -> {NoCharge} \cup Charges] /\ call'[c] = r /\ \A k \in Call \ {c} : call'[k] = call[k]
  BY <1>3, <1>5, <1>8
<1>10. RateTypeOK'
  BY <1>7, <1>9 DEF RateTypeOK
<1>11. Begun'
  BY <1>4, <1>5, <1>7, <1>9, StillBegun
<1>12. Charged(b)' = S \cup {c}
  BY <1>3, <1>4, <1>5, <1>7, <1>9 DEF Charged
<1>13. Cardinality(Charged(b)') <= v.billed
  <2>1. c \notin S
    BY <1>3
  <2>2. Cardinality(S \cup {c}) = Cardinality(S) + 1 /\ Cardinality(S) \in Nat
    BY <1>1, <2>1, FS_AddElement, FS_CardinalityType
  <2>3. QED
    BY <1>1, <1>4, <1>12, <2>2
<1>14. Counted(b)'
  BY <1>6, <1>7, <1>13 DEF Counted
<1>15. \A k \in Call : call'[k] # call[k] => call'[k] = NoCharge \/ call'[k].bucket = b
  BY <1>5, <1>9
<1>16. \A o \in Bucket : Counted(o)'
  BY <1>3, <1>14, <1>15, Others
<1>17. QED
  BY <1>10, <1>11, <1>16 DEF RateInv

LEMMA RefundStep ==
    ASSUME RateInv, NEW c \in Call, NEW b \in Bucket, call[c].bucket = b, Refund(c)
    PROVE  RateInv'
<1> DEFINE w == Now(b)
           same == w.epoch = call[c].epoch
           v == [w EXCEPT !.used = LessOne(@), !.billed = IF same THEN @ - 1 ELSE @,
                          !.late = IF same \/ w.used = 0 THEN @ ELSE @ + 1]
           S == {k \in Call : call[k] # NoCharge /\ call[k].bucket = b /\ call[k].epoch = w.epoch}
<1>1. call[c] # NoCharge /\ SetWindow(b, v) /\ call' = [call EXCEPT ![c] = NoCharge]
  BY DEF Refund
<1>2. call \in [Call -> {NoCharge} \cup Charges]
  BY DEF RateInv, RateTypeOK
<1>3. /\ w.used \in 0..Limit /\ w.epoch \in Nat /\ w.billed \in Nat /\ w.late \in Nat
      /\ w.billed <= w.used + w.late /\ (w.late = 0 => w.used = w.billed) /\ epoch[b] <= w.epoch
      /\ IsFiniteSet(S) /\ Cardinality(S) <= w.billed
  BY Window
<1>4. /\ v.used = LessOne(w.used) /\ v.epoch = w.epoch
      /\ v.billed = (IF same THEN w.billed - 1 ELSE w.billed)
      /\ v.late = (IF same \/ w.used = 0 THEN w.late ELSE w.late + 1)
  BY DEF Now
<1>5. same \in BOOLEAN /\ (same <=> c \in S)
  BY <1>1
<1> HIDE DEF w, v, same
<1>6. Cardinality(S) \in Nat /\ (same => Cardinality(S) >= 1 /\ Cardinality(S \ {c}) = Cardinality(S) - 1)
  <2>1. Cardinality(S) \in Nat
    BY <1>3, FS_CardinalityType
  <2>2. ASSUME same PROVE Cardinality(S) >= 1 /\ Cardinality(S \ {c}) = Cardinality(S) - 1
    <3>1. c \in S
      BY <1>5, <2>2
    <3>2. Cardinality(S \ {c}) = Cardinality(S) - 1 /\ IsFiniteSet(S \ {c})
      BY <1>3, <3>1, FS_RemoveElement
    <3>3. Cardinality(S \ {c}) \in Nat
      BY <3>2, FS_CardinalityType
    <3>4. QED
      BY <2>1, <3>2, <3>3
  <2>3. QED
    BY <2>1, <2>2
<1>7. Limit \in Nat
  BY RateBounds
<1>8. /\ v.used \in 0..Limit /\ v.epoch \in Nat /\ v.billed \in Nat /\ v.late \in Nat
      /\ v.billed <= v.used + v.late /\ (v.late = 0 => v.used = v.billed) /\ epoch[b] <= v.epoch
  <2>1. CASE same
    BY <1>3, <1>4, <1>6, <1>7, <2>1 DEF LessOne
  <2>2. CASE ~same
    BY <1>3, <1>4, <1>7, <2>2 DEF LessOne
  <2>3. QED
    BY <2>1, <2>2
<1>9. /\ used' \in [Bucket -> 0..Limit] /\ over' \subseteq Bucket /\ epoch' \in [Bucket -> Nat]
       /\ billed' \in [Bucket -> Nat] /\ late' \in [Bucket -> Nat]
       /\ used'[b] = v.used /\ epoch'[b] = v.epoch /\ billed'[b] = v.billed /\ late'[b] = v.late
       /\ \A o \in Bucket : epoch[o] <= epoch'[o]
  BY <1>1, <1>8, Wrote
<1>10. call' \in [Call -> {NoCharge} \cup Charges] /\ call'[c] = NoCharge
       /\ \A k \in Call \ {c} : call'[k] = call[k]
  BY <1>1, <1>2
<1>11. RateTypeOK'
  BY <1>9, <1>10 DEF RateTypeOK
<1>12. Begun'
  BY <1>9, <1>10, StillBegun
<1>13. Charged(b)' = S \ {c}
  BY <1>4, <1>9, <1>10 DEF Charged
<1>14. Cardinality(Charged(b)') <= v.billed
  <2>1. CASE same
    BY <1>3, <1>4, <1>6, <1>13, <2>1
  <2>2. CASE ~same
    <3>1. S \ {c} = S
      BY <1>5, <2>2
    <3>2. QED
      BY <1>3, <1>4, <1>13, <2>2, <3>1
  <2>3. QED
    BY <2>1, <2>2
<1>15. Counted(b)'
  BY <1>8, <1>9, <1>14 DEF Counted
<1>16. \A k \in Call : call'[k] # call[k] => call'[k] = NoCharge \/ call'[k].bucket = b
  BY <1>10
<1>17. \A o \in Bucket : Counted(o)'
  BY <1>1, <1>15, <1>16, Others
<1>18. QED
  BY <1>11, <1>12, <1>17 DEF RateInv

LEMMA AnswerStep == ASSUME RateInv, NEW c \in Call, Answer(c) PROVE RateInv'
<1>1. call' \in [Call -> {NoCharge} \cup Charges] /\ call'[c] = NoCharge
      /\ \A k \in Call \ {c} : call'[k] = call[k]
  BY DEF RateInv, RateTypeOK, Answer
<1>2. RateTypeOK'
  BY <1>1 DEF RateInv, RateTypeOK, Answer
<1>3. Begun'
  BY <1>1 DEF RateInv, Begun, Answer
<1>4. ASSUME NEW o \in Bucket PROVE Counted(o)'
  <2>1. Charged(o)' \subseteq Charged(o)
    BY <1>1 DEF Charged, Answer
  <2>2. Cardinality(Charged(o)') <= Cardinality(Charged(o)) /\ Cardinality(Charged(o)') \in Nat
    BY <2>1, FewCharged, FS_Subset, FS_CardinalityType
  <2>3. Counted(o) /\ billed[o] \in Nat /\ Cardinality(Charged(o)) \in Nat
    BY FewCharged DEF RateInv, RateTypeOK
  <2>4. Cardinality(Charged(o)') <= billed[o]
    BY <2>2, <2>3 DEF Counted
  <2>5. QED
    BY <2>3, <2>4 DEF Counted, Answer
<1>5. QED
  BY <1>2, <1>3, <1>4 DEF RateInv

-----------------------------------------------------------------------------
LEMMA RateInductive == RateInv /\ [RateNext]_rateVars => RateInv'
<1> SUFFICES ASSUME RateInv, [RateNext]_rateVars PROVE RateInv'
  OBVIOUS
<1>1. ASSUME NEW b \in Bucket, Elapse(b) \/ Peek(b) PROVE RateInv'
  BY <1>1, ElapseStep, RollStep DEF Peek
<1>2. ASSUME NEW c \in Call, NEW b \in Bucket, Take(c, b) PROVE RateInv'
  <2>1. Now(b).used \in 0..Limit /\ Limit \in Nat
    BY Window, RateBounds
  <2>2. CASE Now(b).used >= Limit
    BY <1>2, <2>2, RollStep DEF Take
  <2>3. CASE ~(Now(b).used >= Limit)
    BY <1>2, <2>1, <2>3, ChargeStep
  <2>4. QED
    BY <2>2, <2>3
<1>3. ASSUME NEW c \in Call, Refund(c) \/ Answer(c) PROVE RateInv'
  <2>1. CASE Refund(c)
    <3>1. call[c].bucket \in Bucket
      BY <2>1 DEF Refund, RateInv, RateTypeOK, Charges
    <3>2. QED
      BY <2>1, <3>1, RefundStep
  <2>2. CASE Answer(c)
    BY <2>2, AnswerStep
  <2>3. QED
    BY <1>3, <2>1, <2>2
<1>4. CASE UNCHANGED rateVars
  <2>1. \A b \in Bucket : Charged(b)' = Charged(b)
    BY <1>4 DEF rateVars, Charged
  <2>2. QED
    BY <1>4, <2>1 DEF rateVars, RateInv, RateTypeOK, Begun, Counted
<1>5. QED
  BY <1>1, <1>2, <1>3, <1>4 DEF RateNext

LEMMA RateInvariant == RateSpec => []RateInv
BY RateInitially, RateInductive, PTL DEF RateSpec

\* Every state has the types of RateTypeOK: in particular used stays within the
\* limit whatever refunds come late (api/rest/ratelimit.go).
THEOREM RateTypeCorrect == RateSpec => []RateTypeOK
<1>1. RateInv => RateTypeOK
  BY DEF RateInv
<1>2. QED
  BY <1>1, RateInvariant, PTL

\* A window bills no more requests than the limit and reports as many as it billed,
\* but for the units late refunds took off it (take and refund,
\* api/rest/ratelimit.go).
THEOREM BudgetIsKept == RateSpec => []BudgetKept
<1>1. RateInv => BudgetKept
  <2> SUFFICES ASSUME RateInv, NEW b \in Bucket
               PROVE  billed[b] <= Limit + late[b] /\ (late[b] = 0 => used[b] = billed[b])
    BY DEF BudgetKept
  <2>1. used[b] \in 0..Limit /\ billed[b] \in Nat /\ late[b] \in Nat /\ Counted(b)
    BY DEF RateInv, RateTypeOK
  <2>2. QED
    BY <2>1, RateBounds DEF Counted
<1>2. QED
  BY <1>1, RateInvariant, PTL

-----------------------------------------------------------------------------
(* The touches of a token, from the channel to the row.                    *)
(*                                                                         *)
(* LastSentArrives is not inductive: it needs that the flusher has nothing *)
(* of an earlier batch in hand when it takes the next, and that a token in *)
(* the channel has a last place there, which its definition CHOOSEs.       *)

LastOf(t, i) == i \in InQueue(t) /\ \A j \in InQueue(t) : j <= i

HasLast == \A t \in Token : InQueue(t) # {} => \E i \in DOMAIN queue : LastOf(t, i)

BatchWritten == flusher \in {"select", "stopped"} => batch = None

UsedInv == UsedTypeOK /\ HasLast /\ BatchWritten /\ LastSentArrives

LEMMA UsedTypes ==
    ASSUME UsedTypeOK
    PROVE  /\ queue \in Seq(Touches) /\ DOMAIN queue = 1..Len(queue) /\ Len(queue) \in Nat
           /\ Len(queue) <= QueueSize /\ clock \in 1..MaxTime
           /\ \A i \in 1..Len(queue) : queue[i] \in Touches
           /\ pending \in [Token -> 0..MaxTime] /\ batch \in [Token -> 0..MaxTime]
           /\ stored \in [Token -> 0..MaxTime] /\ sent \in [Token -> 0..MaxTime]
           /\ None \in [Token -> 0..MaxTime]
<1>1. queue \in Seq(Touches)
  BY DEF UsedTypeOK
<1>2. \A i \in 1..Len(queue) : queue[i] \in Touches
  BY <1>1
<1>3. None \in [Token -> 0..MaxTime]
  BY UsedBounds DEF None
<1>4. \A f : f = pending \/ f = batch \/ f = stored \/ f = sent => f \in [Token -> 0..MaxTime]
  BY DEF UsedTypeOK
<1>5. DOMAIN queue = 1..Len(queue) /\ Len(queue) \in Nat
  BY <1>1
<1>6. Len(queue) <= QueueSize /\ clock \in 1..MaxTime
  BY DEF UsedTypeOK
<1>7. QED
  BY <1>1, <1>2, <1>3, <1>4, <1>5, <1>6

LEMMA LastIsOne ==
    ASSUME NEW S \in SUBSET Nat, NEW i \in S, \A j \in S : j <= i
    PROVE  (CHOOSE k \in S : \A j \in S : j <= k) = i
<1>1. ASSUME NEW k \in S, \A j \in S : j <= k PROVE k = i
  BY <1>1
<1>2. QED
  BY <1>1

\* What Upstream finds in the channel is at the last place of the token, before a
\* step and after it.
LEMMA UpstreamOf ==
    ASSUME UsedTypeOK, NEW t, NEW i, LastOf(t, i)
    PROVE  Upstream(t) = queue[i].at
<1>1. InQueue(t) \in SUBSET Nat
  BY UsedTypes DEF InQueue
<1>2. QED
  BY <1>1, LastIsOne DEF Upstream, LastOf

LEMMA UpstreamNext ==
    ASSUME queue' \in Seq(Touches), NEW t, NEW i, LastOf(t, i)'
    PROVE  Upstream(t)' = queue'[i].at
<1>1. InQueue(t)' \in SUBSET Nat
  BY DEF InQueue
<1>2. QED
  BY <1>1, LastIsOne DEF Upstream, LastOf

LEMMA UsedInitially == ASSUME UsedInit PROVE UsedInv
<1>1. UsedTypeOK
  <2>1. << >> \in Seq(Touches) /\ Len(<< >>) <= QueueSize
    BY UsedBounds
  <2>2. None \in [Token -> 0..MaxTime] /\ 1 \in 1..MaxTime
    BY UsedBounds DEF None
  <2>3. QED
    BY <2>1, <2>2 DEF UsedInit, UsedTypeOK
<1>2. \A t : InQueue(t) = {}
  BY DEF UsedInit, InQueue
<1>3. HasLast /\ BatchWritten /\ LastSentArrives
  BY <1>2 DEF UsedInit, HasLast, BatchWritten, LastSentArrives, Upstream, None
<1>4. QED
  BY <1>1, <1>3 DEF UsedInv

\* A step that leaves the way of every touch as it is.
LEMMA StillUpstream ==
    ASSUME UsedInv, UsedTypeOK', UNCHANGED <<queue, pending, batch, flusher, stored, sent, lost>>
    PROVE  UsedInv'
BY DEF UsedInv, HasLast, LastOf, InQueue, BatchWritten, LastSentArrives, Upstream

LEMMA ClockStep == ASSUME UsedInv, Clock PROVE UsedInv'
<1>1. UsedTypeOK'
  <2>1. clock' \in 1..MaxTime
    BY UsedTypes, UsedBounds DEF UsedInv, Clock
  <2>2. QED
    BY <2>1 DEF UsedInv, UsedTypeOK, Clock
<1>2. QED
  BY <1>1, StillUpstream DEF Clock

LEMMA StampStep == ASSUME UsedInv, NEW q \in Toucher, NEW t \in Token, Stamp(q, t) PROVE UsedInv'
<1>1. [token |-> t, at |-> clock] \in Touches
  BY DEF UsedInv, UsedTypeOK, Touches
<1>2. UsedTypeOK'
  BY <1>1 DEF UsedInv, UsedTypeOK, Stamp
<1>3. QED
  BY <1>2, StillUpstream DEF Stamp

LEMMA SendStep == ASSUME UsedInv, NEW q \in Toucher, Send(q) PROVE UsedInv'
<1>0. PICK x : x = toucher[q]
  OBVIOUS
<1>1. x \in Touches /\ toucher' \in [Toucher -> {NoTouch} \cup Touches]
  BY <1>0 DEF Send, UsedInv, UsedTypeOK
<1>2. x.token \in Token /\ x.at \in 1..MaxTime /\ x.at \in 0..MaxTime
  BY <1>1 DEF Touches
<1>3. UNCHANGED <<clock, pending, batch, flusher, stored>>
  BY DEF Send
<1>4. CASE UNCHANGED <<queue, sent, lost>>
  <2>1. UsedTypeOK'
    BY <1>1, <1>3, <1>4 DEF UsedInv, UsedTypeOK
  <2>2. QED
    BY <1>3, <1>4, <2>1, StillUpstream
<1>5. ASSUME /\ Len(queue) < QueueSize /\ queue' = Append(queue, x)
             /\ sent' = [sent EXCEPT ![x.token] = x.at] /\ lost' = lost \ {x.token}
      PROVE  UsedInv'
  <2>1. /\ queue \in Seq(Touches) /\ Len(queue) \in Nat
        /\ pending \in [Token -> 0..MaxTime] /\ batch \in [Token -> 0..MaxTime]
        /\ stored \in [Token -> 0..MaxTime] /\ sent \in [Token -> 0..MaxTime]
    BY UsedTypes DEF UsedInv
  <2>2. /\ queue' \in Seq(Touches) /\ Len(queue') = Len(queue) + 1
        /\ DOMAIN queue = 1..Len(queue) /\ DOMAIN queue' = 1..Len(queue')
        /\ queue'[Len(queue) + 1] = x
        /\ \A i \in 1..Len(queue) : queue'[i] = queue[i]
    BY <1>1, <1>5, <2>1
  <2>3. UsedTypeOK'
    <3>1. sent' \in [Token -> 0..MaxTime] /\ lost' \subseteq Token
      BY <1>2, <1>5, <2>1 DEF UsedInv, UsedTypeOK
    <3>2. Len(queue') <= QueueSize
      BY <1>5, <2>1, <2>2, UsedBounds
    <3>3. QED
      BY <1>1, <1>3, <2>1, <2>2, <3>1, <3>2 DEF UsedInv, UsedTypeOK
  <2>4. PICK n : n = Len(queue) + 1
    OBVIOUS
  <2>5. LastOf(x.token, n)' /\ n \in DOMAIN queue' /\ queue'[n] = x
    BY <2>1, <2>2, <2>4 DEF LastOf, InQueue
  <2>6. Upstream(x.token)' = sent'[x.token]
    BY <1>2, <1>5, <2>1, <2>2, <2>5, UpstreamNext
  <2>7. ASSUME NEW t \in Token \ {x.token}
        PROVE  InQueue(t)' = InQueue(t) /\ Upstream(t)' = Upstream(t)
    <3>1. InQueue(t)' = InQueue(t)
      BY <2>1, <2>2, <2>7 DEF InQueue
    <3>2. \A i \in InQueue(t) : queue'[i] = queue[i]
      BY <2>1, <2>2 DEF InQueue
    <3>3. CASE InQueue(t) # {}
      <4>1. PICK i \in DOMAIN queue : LastOf(t, i)
        BY <3>3 DEF UsedInv, HasLast
      <4>2. LastOf(t, i)'
        BY <3>1, <4>1 DEF LastOf
      <4>3. Upstream(t)' = queue'[i].at /\ Upstream(t) = queue[i].at
        BY <2>2, <4>1, <4>2, UpstreamOf, UpstreamNext DEF UsedInv
      <4>4. QED
        BY <3>1, <3>2, <4>1, <4>3 DEF LastOf
    <3>4. CASE InQueue(t) = {}
      BY <1>3, <3>1, <3>4 DEF Upstream
    <3>5. QED
      BY <3>1, <3>3, <3>4
  <2>8. HasLast'
    <3>1. ASSUME NEW t \in Token \ {x.token}, InQueue(t)' # {}
          PROVE  \E i \in DOMAIN queue' : LastOf(t, i)'
      <4>1. PICK i \in DOMAIN queue : LastOf(t, i)
        BY <2>7, <3>1 DEF UsedInv, HasLast
      <4>2. LastOf(t, i)'
        BY <2>7, <4>1 DEF LastOf
      <4>3. QED
        BY <4>2 DEF LastOf, InQueue
    <3>2. QED
      BY <2>5, <3>1 DEF HasLast
  <2>9. LastSentArrives'
    <3>1. \A t \in Token \ {x.token} : sent'[t] = sent[t] /\ (t \notin lost' => t \notin lost)
      BY <1>5, <2>1
    <3>2. QED
      BY <2>6, <2>7, <3>1 DEF UsedInv, LastSentArrives
  <2>10. QED
    BY <1>3, <2>3, <2>8, <2>9 DEF UsedInv, BatchWritten
<1>6. QED
  BY <1>0, <1>4, <1>5 DEF Send

LEMMA TakeTouchStep == ASSUME UsedInv, TakeTouch PROVE UsedInv'
<1>0. PICK x : x = Head(queue)
  OBVIOUS
<1>1. /\ queue \in Seq(Touches) /\ Len(queue) \in Nat /\ DOMAIN queue = 1..Len(queue)
      /\ pending \in [Token -> 0..MaxTime] /\ batch \in [Token -> 0..MaxTime]
      /\ stored \in [Token -> 0..MaxTime] /\ sent \in [Token -> 0..MaxTime]
  BY UsedTypes DEF UsedInv
<1>2. /\ queue # << >> /\ queue' = Tail(queue) /\ pending' = [pending EXCEPT ![x.token] = x.at]
      /\ UNCHANGED <<clock, toucher, batch, flusher, stored, sent, lost>>
  BY <1>0 DEF TakeTouch, Coalesce
<1>3. /\ x = queue[1] /\ x \in Touches /\ queue' \in Seq(Touches)
      /\ Len(queue) > 0 /\ Len(queue') = Len(queue) - 1 /\ DOMAIN queue' = 1..Len(queue')
      /\ \A i \in 1..Len(queue') : queue'[i] = queue[i + 1]
  BY <1>0, <1>1, <1>2
<1>4. x.token \in Token /\ x.at \in 1..MaxTime
  BY <1>3 DEF Touches
<1>5. UsedTypeOK'
  <2>1. pending' \in [Token -> 0..MaxTime]
    BY <1>1, <1>2, <1>4
  <2>2. Len(queue') <= QueueSize
    BY <1>1, <1>3, UsedTypes, UsedBounds DEF UsedInv
  <2>3. QED
    BY <1>1, <1>2, <1>3, <2>1, <2>2 DEF UsedInv, UsedTypeOK
<1>6. ASSUME NEW t \in Token
      PROVE  /\ \A i \in Int : i \in InQueue(t)' <=> i + 1 \in InQueue(t) /\ i # 0
             /\ 1 \in InQueue(t) <=> t = x.token
  BY <1>1, <1>3 DEF InQueue
<1>7. ASSUME NEW t \in Token, NEW i \in DOMAIN queue, LastOf(t, i), InQueue(t)' # {}
      PROVE  i - 1 \in DOMAIN queue' /\ LastOf(t, i - 1)' /\ Upstream(t)' = Upstream(t)
  <2>1. \A j \in InQueue(t)' : j \in Int /\ j + 1 <= i /\ j # 0
    <3>1. ASSUME NEW j \in InQueue(t)' PROVE j \in 1..Len(queue')
      BY <1>3 DEF InQueue
    <3>2. ASSUME NEW j \in InQueue(t)' PROVE j + 1 \in InQueue(t)
      BY <1>3, <1>6, <3>1
    <3>3. QED
      BY <1>3, <1>7, <3>1, <3>2 DEF LastOf
  <2>2. i \in Int /\ i \in InQueue(t) /\ i - 1 # 0
    BY <1>1, <1>3, <1>7, <2>1 DEF LastOf, InQueue
  <2>3. LastOf(t, i - 1)'
    BY <1>6, <2>1, <2>2 DEF LastOf
  <2>4. i - 1 \in DOMAIN queue' /\ queue'[i - 1] = queue[i]
    BY <1>1, <1>3, <2>2 DEF InQueue
  <2>5. QED
    BY <1>3, <1>7, <2>3, <2>4, UpstreamOf, UpstreamNext DEF UsedInv
<1>8. ASSUME NEW t \in Token PROVE Upstream(t)' = Upstream(t)
  <2>1. CASE InQueue(t)' # {}
    <3>1. PICK i \in InQueue(t)' : TRUE
      BY <2>1
    <3>2. i \in Int
      BY <1>3 DEF InQueue
    <3>3. InQueue(t) # {}
      BY <1>6, <3>1, <3>2
    <3>4. QED
      BY <1>7, <2>1, <3>3 DEF UsedInv, HasLast
  <2>2. CASE InQueue(t)' = {} /\ t = x.token
    <3>1. \A j \in InQueue(t) : j = 1
      <4>1. ASSUME NEW j \in InQueue(t), j # 1 PROVE FALSE
        <5>1. j - 1 \in Int /\ j - 1 # 0 /\ (j - 1) + 1 = j
          BY <1>1, <4>1 DEF InQueue
        <5>2. QED
          BY <1>6, <2>2, <4>1, <5>1
      <4>2. QED
        BY <4>1
    <3>2. LastOf(t, 1)
      BY <1>6, <2>2, <3>1 DEF LastOf
    <3>3. Upstream(t) = x.at
      BY <1>3, <3>2, UpstreamOf DEF UsedInv
    <3>4. Upstream(t)' = x.at
      BY <1>1, <1>2, <1>4, <2>2 DEF Upstream
    <3>5. QED
      BY <3>3, <3>4
  <2>3. CASE InQueue(t)' = {} /\ t # x.token
    <3>1. InQueue(t) = {}
      <4>1. ASSUME NEW j \in InQueue(t) PROVE FALSE
        <5>1. j # 1
          BY <1>6, <2>3, <4>1
        <5>2. j - 1 \in Int /\ j - 1 # 0 /\ (j - 1) + 1 = j
          BY <1>1, <4>1, <5>1 DEF InQueue
        <5>3. QED
          BY <1>6, <2>3, <4>1, <5>2
      <4>2. QED
        BY <4>1
    <3>2. pending'[t] = pending[t]
      BY <1>1, <1>2, <2>3
    <3>3. QED
      BY <1>2, <2>3, <3>1, <3>2 DEF Upstream
  <2>4. QED
    BY <2>1, <2>2, <2>3
<1>9. HasLast'
  <2>1. ASSUME NEW t \in Token, InQueue(t)' # {} PROVE \E i \in DOMAIN queue' : LastOf(t, i)'
    <3>1. PICK i \in InQueue(t)' : TRUE
      BY <2>1
    <3>2. i \in Int
      BY <1>3 DEF InQueue
    <3>3. InQueue(t) # {}
      BY <1>6, <3>1, <3>2
    <3>4. QED
      BY <1>7, <2>1, <3>3 DEF UsedInv, HasLast
  <2>2. QED
    BY <2>1 DEF HasLast
<1>10. QED
  BY <1>2, <1>5, <1>8, <1>9 DEF UsedInv, BatchWritten, LastSentArrives

\* The flusher's own steps move what is out of the channel.
LEMMA ChannelStays ==
    ASSUME UsedInv, UsedTypeOK', UNCHANGED <<queue, sent>>, BatchWritten',
           \A t \in Token : t \notin lost' =>
               t \notin lost /\ (InQueue(t) = {} => Upstream(t)' = Upstream(t))
    PROVE  UsedInv'
<1>1. \A t : InQueue(t)' = InQueue(t)
  BY DEF InQueue
<1>2. HasLast'
  BY <1>1 DEF UsedInv, HasLast, LastOf
<1>3. ASSUME NEW t \in Token, InQueue(t) # {} PROVE Upstream(t)' = Upstream(t)
  <2>1. PICK i \in DOMAIN queue : LastOf(t, i)
    BY <1>3 DEF UsedInv, HasLast
  <2>2. LastOf(t, i)' /\ queue' \in Seq(Touches)
    BY <1>1, <2>1, UsedTypes DEF LastOf, UsedInv
  <2>3. QED
    BY <2>1, <2>2, UpstreamOf, UpstreamNext DEF UsedInv
<1>4. QED
  BY <1>2, <1>3 DEF UsedInv, LastSentArrives

LEMMA FlushStep == ASSUME UsedInv, Flush PROVE UsedInv'
<1>1. /\ batch' = pending /\ pending' = None /\ flusher' \in {"write", "last write"} /\ batch = None
      /\ UNCHANGED <<clock, toucher, queue, stored, sent, lost>>
  BY DEF Flush, UsedInv, BatchWritten
<1>2. UsedTypeOK'
  BY <1>1, UsedTypes DEF UsedInv, UsedTypeOK
<1>3. BatchWritten'
  BY <1>1 DEF BatchWritten
<1>4. ASSUME NEW t \in Token, InQueue(t) = {} PROVE Upstream(t)' = Upstream(t)
  BY <1>1, <1>4 DEF Upstream, InQueue, None
<1>5. QED
  BY <1>1, <1>2, <1>3, <1>4, ChannelStays

LEMMA BumpStep == ASSUME UsedInv, Bump PROVE UsedInv'
<1>1. /\ stored' = [t \in Token |-> IF batch[t] # 0 THEN batch[t] ELSE stored[t]]
      /\ batch' = None /\ flusher' = Written
      /\ UNCHANGED <<clock, toucher, queue, pending, sent, lost>>
  BY DEF Bump
<1>2. stored' \in [Token -> 0..MaxTime]
  BY <1>1, UsedTypes DEF UsedInv
<1>3. UsedTypeOK'
  BY <1>1, <1>2, UsedTypes DEF UsedInv, UsedTypeOK, Written
<1>4. BatchWritten'
  BY <1>1 DEF BatchWritten
<1>5. ASSUME NEW t \in Token, InQueue(t) = {} PROVE Upstream(t)' = Upstream(t)
  BY <1>1, <1>5 DEF Upstream, InQueue, None
<1>6. QED
  BY <1>1, <1>3, <1>4, <1>5, ChannelStays

LEMMA BumpFailsStep == ASSUME UsedInv, BumpFails PROVE UsedInv'
<1>1. /\ lost' = lost \cup {t \in Token : batch[t] # 0 /\ InQueue(t) = {}}
      /\ batch' = None /\ flusher' = Written
      /\ UNCHANGED <<clock, toucher, queue, pending, stored, sent>>
  BY DEF BumpFails
<1>2. UsedTypeOK'
  BY <1>1, UsedTypes DEF UsedInv, UsedTypeOK, Written
<1>3. BatchWritten'
  BY <1>1 DEF BatchWritten
<1>4. ASSUME NEW t \in Token, t \notin lost', InQueue(t) = {} PROVE Upstream(t)' = Upstream(t)
  BY <1>1, <1>4 DEF Upstream, InQueue, None
<1>5. QED
  BY <1>1, <1>2, <1>3, <1>4, ChannelStays

LEMMA UsedSteps == ASSUME UsedInv, [UsedNext]_usedVars PROVE UsedInv'
<1>1. CASE UNCHANGED usedVars
  <2>1. UsedTypeOK'
    BY <1>1 DEF usedVars, UsedInv, UsedTypeOK
  <2>2. QED
    BY <1>1, <2>1, StillUpstream DEF usedVars
<1>2. QED
  BY <1>1, ClockStep, SendStep, StampStep, TakeTouchStep, FlushStep, BumpStep, BumpFailsStep DEF UsedNext

\* The strengthened invariant of the touches.
THEOREM TouchesInOrder == UsedSpec => []UsedInv
BY UsedInitially, UsedSteps, PTL DEF UsedSpec

\* The last touch of each token that the bounded channel of auth/lastused.go took
\* is the one that reaches its row, for any tokens, requests, queue size and time.
THEOREM LastTouchArrives == UsedSpec => []LastSentArrives
<1>1. UsedInv => LastSentArrives
  BY DEF UsedInv
<1>2. QED
  BY <1>1, TouchesInOrder, PTL

-----------------------------------------------------------------------------
(* The names of repositories.                                              *)
(*                                                                         *)
(* OldNamesLead is not inductive: it needs that the live row that has a    *)
(* name is the one the name should lead to, and that a request is about a  *)
(* row inserted.                                                           *)

HolderIsHeir == \A r \in live : name[r] \in Name /\ heir[name[r]] = r

SessionRows == \A c \in Session : session[c] # Quiet => session[c].row \in 1..count

NamesInv == NamesTypeOK /\ HolderIsHeir /\ SessionRows /\ OldNamesLead

\* A name someone has leads to its heir; one nobody has, where its redirect does.
LEMMA Leading ==
    ASSUME HolderIsHeir, NEW n \in Name
    PROVE  /\ \A r \in Holder(n) : r \in live /\ name[r] = n /\ heir[n] = r
           /\ Holder(n) # {} => LeadsTo(n) = {heir[n]}
           /\ Holder(n) = {} => LeadsTo(n) = {redirect[n]} \cap live
BY DEF HolderIsHeir, Holder, LeadsTo

LEMMA NamesInitially == ASSUME NamesInit PROVE NamesInv
<1>1. NamesTypeOK
  BY NamesAssumption DEF NamesInit, NamesTypeOK, Excuse
<1>2. HolderIsHeir /\ SessionRows /\ OldNamesLead
  BY DEF NamesInit, HolderIsHeir, SessionRows, OldNamesLead
<1>3. QED
  BY <1>1, <1>2 DEF NamesInv

\* A request that has only read, or is over, while names and rows stay.
LEMMA SessionReads ==
    ASSUME NamesInv, UNCHANGED <<count, name, live, redirect, faults, heir, excuse>>,
           NEW c \in Session, session[c].pc # "redirect",
           NEW s \in {Quiet} \cup Renaming \cup Leaving, session' = [session EXCEPT ![c] = s],
           s # Quiet => s.row \in 1..count
    PROVE  NamesInv'
<1>1. /\ session' \in [Session -> {Quiet} \cup Renaming \cup Leaving]
      /\ session'[c] = s /\ \A d \in Session \ {c} : session'[d] = session[d]
  BY DEF NamesInv, NamesTypeOK
<1>2. NamesTypeOK'
  BY <1>1 DEF NamesInv, NamesTypeOK
<1>3. HolderIsHeir' /\ SessionRows'
  BY <1>1 DEF NamesInv, HolderIsHeir, SessionRows
<1>4. \A n, r : Owed(n, r) => Owed(n, r)'
  BY <1>1 DEF Owed
<1>5. OldNamesLead'
  BY <1>4 DEF NamesInv, OldNamesLead, LeadsTo, Holder
<1>6. QED
  BY <1>2, <1>3, <1>5 DEF NamesInv

LEMMA RenameReadsStep ==
    ASSUME NamesInv, NEW c \in Session, NEW n \in Name, NEW new \in Name, RenameReads(c, n, new)
    PROVE  NamesInv'
<1>1. PICK r \in Holder(n) :
         session' = [session EXCEPT ![c] = [pc |-> "update", row |-> r, old |-> n, new |-> new]]
  BY DEF RenameReads
<1>2. r \in 1..count /\ r \in Row
  BY NamesAssumption DEF Holder, NamesInv, NamesTypeOK, Row
<1>3. [pc |-> "update", row |-> r, old |-> n, new |-> new] \in Renaming
  BY <1>2 DEF Renaming
<1>4. session[c].pc # "redirect" /\ UNCHANGED <<count, name, live, redirect, faults, heir, excuse>>
  BY DEF RenameReads, Quiet
<1>5. QED
  BY <1>1, <1>2, <1>3, <1>4, SessionReads

LEMMA DeleteReadsStep ==
    ASSUME NamesInv, NEW c \in Session, NEW n \in Name, DeleteReads(c, n)
    PROVE  NamesInv'
<1>1. PICK r \in Holder(n) : session' = [session EXCEPT ![c] = [pc |-> "delete", row |-> r]]
  BY DEF DeleteReads
<1>2. r \in 1..count /\ r \in Row
  BY NamesAssumption DEF Holder, NamesInv, NamesTypeOK, Row
<1>3. [pc |-> "delete", row |-> r] \in Leaving
  BY <1>2 DEF Leaving
<1>4. session[c].pc # "redirect" /\ UNCHANGED <<count, name, live, redirect, faults, heir, excuse>>
  BY DEF DeleteReads, Quiet
<1>5. QED
  BY <1>1, <1>2, <1>3, <1>4, SessionReads

LEMMA CreateStep == ASSUME NamesInv, NEW n \in Name, CreateOrFork(n) PROVE NamesInv'
<1>1. PICK k : k = count + 1
  OBVIOUS
<1>2. /\ count < MaxRepos /\ Holder(n) = {} /\ count' = k
      /\ name' = [name EXCEPT ![k] = n] /\ live' = live \cup {k} /\ heir' = [heir EXCEPT ![n] = k]
      /\ excuse' = [excuse EXCEPT ![n] = "none"] /\ UNCHANGED <<redirect, session, faults>>
  BY <1>1 DEF CreateOrFork, Free
<1>3. /\ k \in Row /\ k \in 1..k /\ k \notin 0..count /\ 0..count \subseteq 0..k /\ 1..count \subseteq 1..k
      /\ k \in 0..MaxRepos
  BY <1>1, <1>2, NamesAssumption DEF NamesInv, NamesTypeOK, Row
<1>4. live \subseteq 1..count /\ k \notin live
  BY <1>3 DEF NamesInv, NamesTypeOK
<1>5. /\ name' \in [Row -> Name \cup {NoName}] /\ name'[k] = n /\ \A r \in live : name'[r] = name[r]
      /\ heir' \in [Name -> 0..k] /\ heir'[n] = k /\ \A m \in Name \ {n} : heir'[m] = heir[m]
      /\ excuse' \in [Name -> Excuse] /\ \A m \in Name \ {n} : excuse'[m] = excuse[m]
  BY <1>2, <1>3, <1>4 DEF NamesInv, NamesTypeOK, Excuse
<1>6. \A r \in live : name[r] # n
  BY <1>2 DEF Holder
<1>7. HolderIsHeir'
  BY <1>2, <1>5, <1>6 DEF NamesInv, HolderIsHeir
<1>8. NamesTypeOK'
  <2>1. redirect \in [Name -> 0..k]
    BY <1>3 DEF NamesInv, NamesTypeOK
  <2>2. live' \subseteq 1..k
    BY <1>2, <1>3, <1>4
  <2>3. \A r, s \in live' : name'[r] = name'[s] => r = s
    BY <1>7 DEF HolderIsHeir
  <2>4. QED
    BY <1>2, <1>3, <1>5, <2>1, <2>2, <2>3 DEF NamesInv, NamesTypeOK
<1>9. SessionRows'
  BY <1>2, <1>3 DEF NamesInv, SessionRows
<1>10. OldNamesLead'
  <2>1. Holder(n)' = {k}
    BY <1>2, <1>4, <1>5, <1>6 DEF Holder
  <2>2. LeadsTo(n)' = {heir'[n]}
    BY <1>5, <2>1 DEF LeadsTo
  <2>3. ASSUME NEW m \in Name \ {n}, heir'[m] \in live', excuse'[m] = "none"
        PROVE  LeadsTo(m)' = {heir'[m]} \/ Owed(m, heir[m])'
    <3>1. heir[m] \in 0..count /\ redirect[m] \in 0..count
      BY DEF NamesInv, NamesTypeOK
    <3>2. heir[m] \in live
      BY <1>2, <1>3, <1>5, <2>3, <3>1
    <3>3. Holder(m)' = Holder(m)
      BY <1>2, <1>4, <1>5, <2>3 DEF Holder
    <3>4. {redirect[m]} \cap live' = {redirect[m]} \cap live
      BY <1>2, <1>3, <3>1
    <3>5. LeadsTo(m)' = LeadsTo(m)
      BY <1>2, <3>3, <3>4 DEF LeadsTo
    <3>6. Owed(m, heir[m]) => Owed(m, heir[m])'
      BY <1>2, <1>5, <2>3 DEF Owed
    <3>7. QED
      BY <1>5, <2>3, <3>2, <3>5, <3>6 DEF NamesInv, OldNamesLead
  <2>4. QED
    BY <2>2, <2>3 DEF OldNamesLead
<1>11. QED
  BY <1>7, <1>8, <1>9, <1>10 DEF NamesInv

\* A request is at its name and its row.
LEMMA RenamingFacts ==
    ASSUME NamesInv, NEW c \in Session, session[c].pc \in {"update", "redirect"}
    PROVE  /\ session[c] \in Renaming /\ session[c].row \in 1..count /\ session[c].row \in Row
           /\ session[c].old \in Name /\ session[c].new \in Name
<1>1. session[c] \in Renaming
  BY DEF NamesInv, NamesTypeOK, Quiet, Leaving
<1>2. session[c] # Quiet
  BY DEF Quiet
<1>3. QED
  BY <1>1, <1>2 DEF NamesInv, SessionRows, Renaming

LEMMA EndsFact ==
    ASSUME NamesInv, NEW c \in Session, Ends(c)
    PROVE  /\ session' \in [Session -> {Quiet} \cup Renaming \cup Leaving]
           /\ session'[c] = Quiet /\ \A d \in Session \ {c} : session'[d] = session[d]
           /\ UNCHANGED count => SessionRows'
           /\ \A n, r : Owed(n, r) /\ ~(session[c].pc = "redirect" /\ session[c].old = n /\ session[c].row = r)
                            => Owed(n, r)'
BY DEF Ends, NamesInv, NamesTypeOK, SessionRows, Owed

LEMMA RenameUpdatesStep == ASSUME NamesInv, NEW c \in Session, RenameUpdates(c) PROVE NamesInv'
<1>0. PICK s : s = session[c]
  OBVIOUS
<1>1. s.pc = "update" /\ UNCHANGED <<count, live, redirect, faults>>
  BY <1>0 DEF RenameUpdates
<1>2. s \in Renaming /\ s.row \in 1..count /\ s.row \in Row /\ s.old \in Name /\ s.new \in Name
  BY <1>0, <1>1, RenamingFacts
<1>3. ASSUME Ends(c), UNCHANGED <<name, heir, excuse>> PROVE NamesInv'
  BY <1>0, <1>1, <1>3, SessionReads DEF Ends
<1>4. PICK a : a = name[s.row]
  OBVIOUS
<1>5. ASSUME /\ s.row \in live /\ Free(s.new, {s.row}) /\ name' = [name EXCEPT ![s.row] = s.new]
             /\ heir' = [heir EXCEPT ![s.new] = s.row]
             /\ excuse' = [excuse EXCEPT ![a] = IF a # s.old THEN "raced" ELSE @, ![s.new] = "none"]
             /\ IF s.new = s.old THEN Ends(c) ELSE session' = [session EXCEPT ![c].pc = "redirect"]
      PROVE  NamesInv'
  <2>1. a \in Name /\ heir[a] = s.row
    BY <1>4, <1>5 DEF NamesInv, HolderIsHeir
  <2>2. /\ name' \in [Row -> Name \cup {NoName}] /\ name'[s.row] = s.new
        /\ \A r \in live \ {s.row} : name'[r] = name[r]
    <3>1. live \subseteq Row
      BY NamesAssumption DEF NamesInv, NamesTypeOK, Row
    <3>2. QED
      BY <1>2, <1>5, <3>1 DEF NamesInv, NamesTypeOK
  <2>3. /\ heir' \in [Name -> 0..count] /\ heir'[s.new] = s.row
        /\ \A n \in Name \ {s.new} : heir'[n] = heir[n]
        /\ excuse' \in [Name -> Excuse] /\ (a \notin {s.old, s.new} => excuse'[a] = "raced")
        /\ \A n \in Name \ {a, s.new} : excuse'[n] = excuse[n]
    <3>1. s.row \in 0..count
      BY <1>2 DEF NamesInv, NamesTypeOK
    <3>2. /\ heir' \in [Name -> 0..count] /\ heir'[s.new] = s.row
          /\ \A n \in Name \ {s.new} : heir'[n] = heir[n]
      BY <1>2, <1>5, <3>1 DEF NamesInv, NamesTypeOK
    <3>3. /\ excuse' \in [Name -> Excuse] /\ (a \notin {s.old, s.new} => excuse'[a] = "raced")
          /\ \A n \in Name \ {a, s.new} : excuse'[n] = excuse[n]
      BY <1>2, <1>5, <2>1 DEF NamesInv, NamesTypeOK, Excuse
    <3>4. QED
      BY <3>2, <3>3
  <2>4. /\ session' \in [Session -> {Quiet} \cup Renaming \cup Leaving]
        /\ SessionRows' /\ \A n, r : Owed(n, r) => Owed(n, r)'
        /\ s.new # s.old => Owed(s.old, s.row)'
    <3>1. CASE s.new = s.old
      <4>1. Ends(c)
        BY <1>5, <3>1
      <4>2. QED
        BY <1>0, <1>1, <3>1, <4>1, EndsFact
    <3>2. CASE s.new # s.old
      <4>1. session' = [session EXCEPT ![c] = [s EXCEPT !.pc = "redirect"]]
        BY <1>0, <1>5, <3>2
      <4>2. PICK x : x = [s EXCEPT !.pc = "redirect"]
        OBVIOUS
      <4>3. x \in Renaming /\ x.pc = "redirect" /\ x.row = s.row /\ x.old = s.old
        BY <1>2, <4>2 DEF Renaming
      <4>4. /\ session' \in [Session -> {Quiet} \cup Renaming \cup Leaving]
            /\ session'[c] = x /\ \A d \in Session \ {c} : session'[d] = session[d]
        BY <4>1, <4>2, <4>3 DEF NamesInv, NamesTypeOK
      <4>5. SessionRows'
        BY <1>1, <1>2, <4>3, <4>4 DEF NamesInv, SessionRows
      <4>6. \A n, r : Owed(n, r) => Owed(n, r)'
        BY <1>0, <1>1, <4>4 DEF Owed
      <4>7. Owed(s.old, s.row)'
        BY <4>3, <4>4 DEF Owed
      <4>8. QED
        BY <4>4, <4>5, <4>6, <4>7
    <3>3. QED
      BY <3>1, <3>2
  <2>5. \A r \in live \ {s.row} : name[r] # s.new /\ name[r] # a
    BY <1>4, <1>5, <2>1 DEF Free, Holder, NamesInv, HolderIsHeir
  <2>6. HolderIsHeir'
    <3>1. ASSUME NEW r \in live \ {s.row} PROVE name'[r] \in Name /\ heir'[name'[r]] = r
      <4>1. name[r] \in Name /\ heir[name[r]] = r
        BY DEF NamesInv, HolderIsHeir
      <4>2. QED
        BY <2>2, <2>3, <2>5, <4>1
    <3>2. QED
      BY <1>1, <1>2, <2>2, <2>3, <3>1 DEF HolderIsHeir
  <2>7. NamesTypeOK'
    <3>1. \A r, t \in live' : name'[r] = name'[t] => r = t
      BY <2>6 DEF HolderIsHeir
    <3>2. QED
      BY <1>1, <2>2, <2>3, <2>4, <3>1 DEF NamesInv, NamesTypeOK
  <2>8. ASSUME NEW n \in Name, heir'[n] \in live, excuse'[n] = "none"
        PROVE  LeadsTo(n)' = {heir'[n]} \/ Owed(n, heir[n])'
    <3>1. CASE n = s.new
      <4>1. Holder(n)' = {s.row}
        BY <1>1, <1>5, <2>2, <2>5, <3>1 DEF Holder
      <4>2. QED
        BY <2>3, <3>1, <4>1 DEF LeadsTo
    <3>2. CASE n # s.new /\ n = a
      <4>1. a = s.old /\ heir'[n] = s.row /\ heir[n] = s.row
        BY <2>1, <2>3, <2>8, <3>2
      <4>2. QED
        BY <2>4, <3>2, <4>1
    <3>3. CASE n # s.new /\ n # a
      <4>1. heir'[n] = heir[n] /\ excuse'[n] = excuse[n]
        BY <2>3, <3>3
      <4>2. Holder(n)' = Holder(n)
        BY <1>1, <1>4, <1>5, <2>2, <3>3 DEF Holder
      <4>3. LeadsTo(n)' = LeadsTo(n)
        BY <1>1, <4>2 DEF LeadsTo
      <4>4. PICK h : h = heir[n]
        OBVIOUS
      <4>5. LeadsTo(n) = {h} \/ Owed(n, h)
        BY <2>8, <4>1, <4>4 DEF NamesInv, OldNamesLead
      <4>6. LeadsTo(n)' = {h} \/ Owed(n, h)'
        BY <2>4, <4>3, <4>5
      <4>7. QED
        BY <4>1, <4>4, <4>6
    <3>4. QED
      BY <3>1, <3>2, <3>3
  <2>9. OldNamesLead'
    BY <1>1, <2>8 DEF OldNamesLead
  <2>10. QED
    BY <2>4, <2>6, <2>7, <2>9 DEF NamesInv
<1>6. QED
  BY <1>0, <1>3, <1>4, <1>5 DEF RenameUpdates

\* The end of a rename: one name's redirect and excuse at most are written.
LEMMA RenameEnds ==
    ASSUME NamesInv, NEW c \in Session, Ends(c), session[c].pc = "redirect",
           NEW n \in Name, n = session[c].old,
           redirect' \in [Name -> 0..count], \A m \in Name \ {n} : redirect'[m] = redirect[m],
           excuse' \in [Name -> Excuse], \A m \in Name \ {n} : excuse'[m] = excuse[m],
           UNCHANGED <<count, name, live, heir>>, faults' \in 0..MaxRedirectFaults,
           heir[n] \in live /\ excuse'[n] = "none" /\ Holder(n) = {} =>
               redirect'[n] = heir[n] \/ Owed(n, heir[n])'
    PROVE  NamesInv'
<1>1. \A m : Holder(m)' = Holder(m)
  BY DEF Holder
<1>2. HolderIsHeir'
  BY DEF NamesInv, HolderIsHeir
<1>3. NamesTypeOK' /\ SessionRows'
  BY EndsFact DEF NamesInv, NamesTypeOK
<1>4. ASSUME NEW m \in Name, heir'[m] \in live', excuse'[m] = "none"
      PROVE  LeadsTo(m)' = {heir'[m]} \/ Owed(m, heir[m])'
  <2>1. PICK h : h = heir[m]
    OBVIOUS
  <2>2. heir'[m] = h /\ h \in live /\ live' = live
    BY <1>4, <2>1
  <2>3. CASE Holder(m) # {}
    <3>1. LeadsTo(m)' = Holder(m) /\ LeadsTo(m) = Holder(m)
      BY <1>1, <2>3 DEF LeadsTo
    <3>2. LeadsTo(m) = {h}
      BY <2>1, <2>3, Leading DEF NamesInv
    <3>3. QED
      BY <2>2, <3>1, <3>2
  <2>4. CASE Holder(m) = {} /\ m = n
    <3>1. redirect'[m] = h \/ Owed(m, heir[m])'
      BY <1>4, <2>1, <2>2, <2>4
    <3>2. redirect'[m] = h => LeadsTo(m)' = {h}
      BY <1>1, <2>2, <2>4 DEF LeadsTo
    <3>3. QED
      BY <2>2, <3>1, <3>2
  <2>5. CASE Holder(m) = {} /\ m # n
    <3>1. redirect'[m] = redirect[m] /\ excuse[m] = "none"
      BY <1>4, <2>5
    <3>2. LeadsTo(m)' = LeadsTo(m)
      BY <1>1, <2>2, <2>5, <3>1 DEF LeadsTo
    <3>3. LeadsTo(m) = {h} \/ Owed(m, h)
      BY <2>1, <2>2, <3>1 DEF NamesInv, OldNamesLead
    <3>4. Owed(m, h) => Owed(m, h)'
      BY <2>1, <2>2, <2>5, EndsFact
    <3>5. LeadsTo(m)' = {h} \/ Owed(m, h)'
      BY <3>2, <3>3, <3>4
    <3>6. QED
      BY <2>1, <2>2, <3>5
  <2>6. QED
    BY <2>3, <2>4, <2>5
<1>5. OldNamesLead'
  BY <1>4 DEF OldNamesLead
<1>6. QED
  BY <1>2, <1>3, <1>5 DEF NamesInv

LEMMA RenameRedirectsStep == ASSUME NamesInv, NEW c \in Session, RenameRedirects(c) PROVE NamesInv'
<1>0. PICK s : s = session[c]
  OBVIOUS
<1>1. /\ s.pc = "redirect" /\ redirect' = [redirect EXCEPT ![s.old] = s.row] /\ Ends(c)
      /\ excuse' = [excuse EXCEPT ![s.old] = IF Overtakes(s) THEN "overtaken" ELSE @]
      /\ UNCHANGED <<count, name, live, faults, heir>>
  BY <1>0 DEF RenameRedirects, Rebind
<1>2. s.old \in Name /\ s.row \in 0..count
  BY <1>0, <1>1, RenamingFacts DEF NamesInv, NamesTypeOK
<1>3. PICK n \in Name : n = s.old
  BY <1>2
<1>4. /\ redirect' \in [Name -> 0..count] /\ redirect'[n] = s.row
      /\ \A m \in Name \ {n} : redirect'[m] = redirect[m]
  BY <1>1, <1>2, <1>3 DEF NamesInv, NamesTypeOK
<1>5. /\ excuse' \in [Name -> Excuse] /\ \A m \in Name \ {n} : excuse'[m] = excuse[m]
      /\ Overtakes(s) => excuse'[n] = "overtaken"
  BY <1>1, <1>2, <1>3 DEF NamesInv, NamesTypeOK, Excuse
<1>6. ASSUME excuse'[n] = "none", Holder(n) = {}
      PROVE  redirect'[n] = heir[n] \/ Owed(n, heir[n])'
  <2>1. PICK h : h = heir[n]
    OBVIOUS
  <2>2. h = s.row \/ Owed(n, h)
    BY <1>3, <1>5, <1>6, <2>1 DEF Overtakes
  <2>3. Owed(n, h) /\ h # s.row => Owed(n, h)'
    BY <1>0, <1>1, EndsFact
  <2>4. h = s.row \/ Owed(n, h)'
    BY <2>2, <2>3
  <2>5. h = heir'[n]
    BY <1>1, <2>1
  <2>6. QED
    BY <1>4, <2>1, <2>4, <2>5
<1>7. faults' \in 0..MaxRedirectFaults
  BY <1>1 DEF NamesInv, NamesTypeOK
<1>8. QED
  BY <1>0, <1>1, <1>3, <1>4, <1>5, <1>6, <1>7, RenameEnds

LEMMA RenameLosesRedirectStep ==
    ASSUME NamesInv, NEW c \in Session, RenameLosesRedirect(c)
    PROVE  NamesInv'
<1>0. PICK s : s = session[c]
  OBVIOUS
<1>1. /\ s.pc = "redirect" /\ Ends(c) /\ faults < MaxRedirectFaults /\ faults' = faults + 1
      /\ excuse' = [excuse EXCEPT ![s.old] =
                        IF heir[s.old] = s.row /\ s.row \notin LeadsTo(s.old) THEN "lost" ELSE @]
      /\ UNCHANGED <<count, name, live, redirect, heir>>
  BY <1>0 DEF RenameLosesRedirect
<1>2. PICK n \in Name : n = s.old
  BY <1>0, <1>1, RenamingFacts
<1>3. /\ excuse' \in [Name -> Excuse] /\ \A m \in Name \ {n} : excuse'[m] = excuse[m]
      /\ excuse'[n] = IF heir[n] = s.row /\ s.row \notin LeadsTo(n) THEN "lost" ELSE excuse[n]
  BY <1>1, <1>2 DEF NamesInv, NamesTypeOK, Excuse
<1>4. faults' \in 0..MaxRedirectFaults
  BY <1>1, NamesAssumption DEF NamesInv, NamesTypeOK
<1>5. ASSUME heir[n] \in live, excuse'[n] = "none", Holder(n) = {}
      PROVE  redirect'[n] = heir[n] \/ Owed(n, heir[n])'
  <2>1. PICK h : h = heir[n]
    OBVIOUS
  <2>2. LeadsTo(n) \subseteq {redirect[n]}
    BY <1>5 DEF LeadsTo
  <2>3. CASE h = s.row
    <3>1. h \in LeadsTo(n)
      BY <1>3, <1>5, <2>1, <2>3
    <3>2. QED
      BY <1>1, <2>1, <2>2, <3>1
  <2>4. CASE h # s.row
    <3>1. excuse[n] = "none"
      BY <1>3, <1>5, <2>1, <2>4
    <3>2. LeadsTo(n) = {h} \/ Owed(n, h)
      BY <1>5, <2>1, <3>1 DEF NamesInv, OldNamesLead
    <3>3. Owed(n, h) => Owed(n, h)'
      BY <1>0, <1>1, <2>4, EndsFact
    <3>4. LeadsTo(n) = {h} => redirect[n] = h
      BY <2>2
    <3>5. redirect[n] = h \/ Owed(n, h)'
      BY <3>2, <3>3, <3>4
    <3>6. h = heir'[n]
      BY <1>1, <2>1
    <3>7. QED
      BY <1>1, <2>1, <3>5, <3>6
  <2>5. QED
    BY <2>3, <2>4
<1>6. redirect' \in [Name -> 0..count]
  BY <1>1 DEF NamesInv, NamesTypeOK
<1>7. QED
  BY <1>0, <1>1, <1>2, <1>3, <1>4, <1>5, <1>6, RenameEnds

LEMMA DeletesStep == ASSUME NamesInv, NEW c \in Session, Deletes(c) PROVE NamesInv'
<1>1. PICK k : k = session[c].row
  OBVIOUS
<1>2. /\ session[c].pc = "delete" /\ live' = live \ {k} /\ Ends(c)
      /\ UNCHANGED <<count, name, redirect, faults, heir, excuse>>
  BY <1>1 DEF Deletes
<1>3. NamesTypeOK' /\ SessionRows' /\ \A n, r : Owed(n, r) => Owed(n, r)'
  BY <1>2, EndsFact DEF NamesInv, NamesTypeOK
<1>4. HolderIsHeir'
  BY <1>2 DEF NamesInv, HolderIsHeir
<1>5. ASSUME NEW n \in Name, heir[n] \in live', excuse[n] = "none"
      PROVE  LeadsTo(n)' = {heir[n]} \/ Owed(n, heir[n])'
  <2>1. PICK h : h = heir[n]
    OBVIOUS
  <2>2. Holder(n)' = Holder(n) \ {k} /\ h # k /\ h \in live
    BY <1>2, <1>5, <2>1 DEF Holder
  <2>3. CASE Holder(n) # {}
    <3>1. Holder(n) = {h}
      BY <2>1, <2>3, Leading DEF NamesInv
    <3>2. QED
      BY <2>1, <2>2, <3>1 DEF LeadsTo
  <2>4. CASE Holder(n) = {}
    <3>1. LeadsTo(n) = {h} => LeadsTo(n)' = {h}
      BY <1>2, <2>2, <2>4 DEF LeadsTo
    <3>2. LeadsTo(n) = {h} \/ Owed(n, h)
      BY <1>5, <2>1, <2>2 DEF NamesInv, OldNamesLead
    <3>3. LeadsTo(n)' = {h} \/ Owed(n, h)'
      BY <1>3, <3>1, <3>2
    <3>4. h = heir'[n]
      BY <1>2, <2>1
    <3>5. QED
      BY <2>1, <3>3, <3>4
  <2>5. QED
    BY <2>3, <2>4
<1>6. OldNamesLead'
  BY <1>2, <1>5 DEF OldNamesLead
<1>7. QED
  BY <1>3, <1>4, <1>6 DEF NamesInv

LEMMA NamesSteps == ASSUME NamesInv, [NamesNext]_namesVars PROVE NamesInv'
<1>1. CASE UNCHANGED namesVars
  BY <1>1 DEF namesVars, NamesInv, NamesTypeOK, HolderIsHeir, SessionRows, OldNamesLead, LeadsTo, Holder, Owed
<1>2. QED
  BY <1>1, CreateStep, RenameReadsStep, DeleteReadsStep, RenameUpdatesStep, RenameRedirectsStep,
     RenameLosesRedirectStep, DeletesStep DEF NamesNext

\* The strengthened invariant of the names.
THEOREM NamesKept == NamesSpec => []NamesInv
BY NamesInitially, NamesSteps, PTL DEF NamesSpec

\* A name leads to the last repository that had it, through any chain of creates,
\* renames, deletes and forks of any number of requests, unless that repository is
\* deleted, its redirect is still to be written or was lost, a rename that had read
\* another name moved it on, or the delayed redirect of an earlier holder replaced it.
THEOREM OldNamesAlwaysLead == NamesSpec => []OldNamesLead
<1>1. NamesInv => OldNamesLead
  BY DEF NamesInv
<1>2. QED
  BY <1>1, NamesKept, PTL

-----------------------------------------------------------------------------
(* The four together.                                                      *)

\* A step of one of the four leaves the others as they were, so a behaviour of the
\* four together is a behaviour of each.
LEMMA EachPart == AccessSpec => GrantSpec /\ RateSpec /\ UsedSpec /\ NamesSpec
<1>1. AccessInit => GrantInit /\ RateInit /\ UsedInit /\ NamesInit
  BY DEF AccessInit
<1>2. [AccessNext]_accessVars =>
          [GrantNext]_grantVars /\ [RateNext]_rateVars /\ [UsedNext]_usedVars /\ [NamesNext]_namesVars
  BY DEF AccessNext, accessVars
<1>3. QED
  BY <1>1, <1>2, PTL DEF AccessSpec, GrantSpec, RateSpec, UsedSpec, NamesSpec

\* Whichever of the four moves (codes and tokens, windows, touches, names of
\* repositories), every state has the types of all four; those of RepoNames say that no
\* two live repositories have one name (repos_owner_name_uq).
THEOREM AccessTypeCorrect == AccessSpec => []AccessTypeOK
<1>1. GrantTypeOK /\ RateTypeOK /\ UsedTypeOK /\ NamesTypeOK => AccessTypeOK
  BY DEF AccessTypeOK
<1>2. UsedInv => UsedTypeOK
  BY DEF UsedInv
<1>3. NamesInv => NamesTypeOK
  BY DEF NamesInv
<1>4. QED
  BY EachPart, GrantTypeCorrect, RateTypeCorrect, TouchesInOrder, NamesKept, <1>1, <1>2, <1>3, PTL
=============================================================================
