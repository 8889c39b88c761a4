----------------------------- MODULE TokenGrants ----------------------------
(***************************************************************************)
(* The two ways in which an OAuth client gets a user token: the device     *)
(* code, polled by the client while the user approves or denies it, and    *)
(* the authorization code, exchanged once after the redirect.              *)
(*                                                                         *)
(* Source: auth/device.go, auth/webflow.go, store/queries_oauth.go,        *)
(* store/queries_auth_code.go, InsertToken of store/queries_token.go.      *)
(*                                                                         *)
(* Granularity.  One SQL statement is one action.  A request is its pc and *)
(* its copy of the row it read.                                            *)
(*                                                                         *)
(* Abstractions.  A code is a model value, its hash and its text being as  *)
(* good.  Time is whether a code has expired and whether two polls were    *)
(* further apart than the stored interval, which slow_down raises; so the  *)
(* interval and the time of the last poll are left out.  An expired code   *)
(* may still be used by a request that looked before.                      *)
(***************************************************************************)
EXTENDS Integers, FiniteSets

CONSTANTS User,        \* users of the forge
          App,         \* registered OAuth apps
          Uri,         \* redirect URIs allowed to every app
          DeviceCode,  \* device codes, each requested at most once
          AuthCode,    \* authorization codes, each issued at most once
          Request,     \* requests being served at once
          MaxFails,    \* statements that fail, as far as a run explores
          MaxTokens,   \* tokens of one code, as far as a run explores
          NoUser       \* NULL in user_pk

ASSUME GrantBounds == MaxFails \in Nat /\ MaxTokens \in Nat
ASSUME GrantNulls == NoUser \notin User /\ DeviceCode \cap AuthCode = {}

VARIABLES device,    \* rows of oauth_device_codes
          auth,      \* rows of oauth_auth_codes
          issued,    \* codes handed out so far
          expired,   \* codes past expires_at
          minted,    \* history: how many tokens each code yielded
          owners,    \* history: the (user, app) pairs those tokens are for
          approvals, \* history: the users whose approval of a code was written
          request,   \* what each request is doing
          overlap,   \* history: codes two requests were about to redeem at once
          kept,      \* history: device codes whose deletion failed
          failures   \* statements that failed so far

grantVars == <<device, auth, issued, expired, minted, owners, approvals, request,
               overlap, kept, failures>>

-----------------------------------------------------------------------------
Code == DeviceCode \cup AuthCode
NoRow == [state |-> "none"]
DeviceRow == [state : {"pending", "approved", "denied"}, app : App, user : User \cup {NoUser}]
AuthRow == [state : {"unused", "used"}, app : App, user : User, uri : Uri]

\* A decision on a device code; an exchange before its checks, with the row it
\* read and the client it serves; a request about to insert a token; a poll
\* about to delete its code.
NoRequest == [pc |-> "idle"]
Deciding == [pc : {"decide"}, code : DeviceCode, verdict : {"approved", "denied"},
             user : User \cup {NoUser}]
Exchanging == [pc : {"mark", "check"}, code : AuthCode, row : AuthRow, app : App, uri : Uri]
Redeeming == [pc : {"redeem"}, code : Code, user : User \cup {NoUser}, app : App]
Dropping == [pc : {"drop"}, code : DeviceCode]

GrantTypeOK ==
    /\ device \in [DeviceCode -> {NoRow} \cup DeviceRow]
    /\ auth \in [AuthCode -> {NoRow} \cup AuthRow]
    /\ issued \subseteq Code
    /\ expired \subseteq Code
    /\ minted \in [Code -> Nat]
    /\ owners \in [Code -> SUBSET ((User \cup {NoUser}) \X App)]
    /\ approvals \in [DeviceCode -> SUBSET User]
    /\ request \in [Request -> {NoRequest} \cup Deciding \cup Exchanging \cup Redeeming \cup Dropping]
    /\ overlap \subseteq Code
    /\ kept \subseteq DeviceCode
    /\ failures \in 0..MaxFails

GrantInit ==
    /\ device = [d \in DeviceCode |-> NoRow]
    /\ auth = [c \in AuthCode |-> NoRow]
    /\ issued = {}
    /\ expired = {}
    /\ minted = [c \in Code |-> 0]
    /\ owners = [c \in Code |-> {}]
    /\ approvals = [d \in DeviceCode |-> {}]
    /\ request = [q \in Request |-> NoRequest]
    /\ overlap = {}
    /\ kept = {}
    /\ failures = 0

Idle(q) == request[q] = NoRequest
Becomes(q, r) == request' = [request EXCEPT ![q] = r]

\* A request that will spend the code it has already looked at.
Redeems(q, c) == ~Idle(q) /\ request[q].code = c /\ request[q].pc \in {"mark", "redeem", "drop"}

\* Whether a second request has found the code good while a first one is at it.
Overlapped(c) == overlap' = IF \E q \in Request : Redeems(q, c) THEN overlap \cup {c} ELSE overlap

Expire(c) ==
    /\ c \in issued \ expired
    /\ expired' = expired \cup {c}
    /\ UNCHANGED <<device, auth, issued, minted, owners, approvals, request, overlap, kept, failures>>

\* A statement returns an error (or its request's context is cancelled).
Failing == failures < MaxFails /\ failures' = failures + 1

-----------------------------------------------------------------------------
(* The device flow. *)

\* RequestDeviceCode.
RequestDeviceCode(d, a) ==
    /\ d \notin issued
    /\ issued' = issued \cup {d}
    /\ device' = [device EXCEPT ![d] = [state |-> "pending", app |-> a, user |-> NoUser]]
    /\ UNCHANGED <<auth, expired, minted, owners, approvals, request, overlap, kept, failures>>

\* ApproveDeviceCode and DenyDeviceCode: liveDeviceByUserCode.
Decide(q, d, verdict, u) ==
    /\ Idle(q)
    /\ device[d] # NoRow /\ d \notin expired
    /\ verdict = "denied" <=> u = NoUser
    /\ Becomes(q, [pc |-> "decide", code |-> d, verdict |-> verdict, user |-> u])
    /\ UNCHANGED <<device, auth, issued, expired, minted, owners, approvals, overlap, kept, failures>>

\* SetDeviceState: an UPDATE by pk, whatever the row says by now; none is left
\* to update when the code was deleted.
SetDeviceState(q) ==
    LET r == request[q]
    IN  /\ r.pc = "decide"
        /\ IF device[r.code] = NoRow
           THEN UNCHANGED <<device, approvals>>
           ELSE /\ device' = [device EXCEPT ![r.code].state = r.verdict, ![r.code].user = r.user]
                /\ approvals' = [approvals EXCEPT ![r.code] = @ \cup ({r.user} \ {NoUser})]
        /\ Becomes(q, NoRequest)
        /\ UNCHANGED <<auth, issued, expired, minted, owners, overlap, kept, failures>>

\* Mutant: a pending code falls through to the approved case.
RipePending(row) == row.state # "denied"

\* The state in which a poll mints.
Ripe(row) == row.state = "approved" /\ row.user # NoUser

\* The state in which a poll deletes the code without minting.
Spent(row, late) == late \/ row.state = "denied"

\* PollDeviceToken up to its switch, on the row DeviceCodeByHash returned.  A
\* poll that comes too fast or finds the code pending only answers.
Poll(q, d) ==
    LET row == device[d]
        late == d \in expired
    IN  /\ Idle(q)
        /\ row # NoRow
        /\ \/ /\ Spent(row, late)
              /\ Becomes(q, [pc |-> "drop", code |-> d])
              /\ UNCHANGED overlap
           \/ /\ ~Spent(row, late) /\ Ripe(row)
              /\ Becomes(q, [pc |-> "redeem", code |-> d, user |-> row.user, app |-> row.app])
              /\ Overlapped(d)
        /\ UNCHANGED <<device, auth, issued, expired, minted, owners, approvals, kept, failures>>

\* Mutant: the code is kept for the next poll.
AfterMintKeep(c) == NoRequest

\* A device code is deleted once its token is there; an authorization code has
\* been marked before.
AfterMint(c) == IF c \in DeviceCode THEN [pc |-> "drop", code |-> c] ELSE NoRequest

\* issueOAuthToken: InsertToken.
Mint(q) ==
    LET r == request[q]
    IN  /\ r.pc = "redeem"
        /\ minted[r.code] < MaxTokens
        /\ minted' = [minted EXCEPT ![r.code] = @ + 1]
        /\ owners' = [owners EXCEPT ![r.code] = @ \cup {<<r.user, r.app>>}]
        /\ Becomes(q, AfterMint(r.code))
        /\ UNCHANGED <<device, auth, issued, expired, approvals, overlap, kept, failures>>

\* DeleteDeviceCode.
DropCode(q) ==
    /\ request[q].pc = "drop"
    /\ device' = [device EXCEPT ![request[q].code] = NoRow]
    /\ Becomes(q, NoRequest)
    /\ UNCHANGED <<auth, issued, expired, minted, owners, approvals, overlap, kept, failures>>

\* Its error is ignored, and the poll answers as if the code were gone.
DropFails(q) ==
    /\ request[q].pc = "drop"
    /\ Failing
    /\ kept' = kept \cup {request[q].code}
    /\ Becomes(q, NoRequest)
    /\ UNCHANGED <<device, auth, issued, expired, minted, owners, approvals, overlap>>

-----------------------------------------------------------------------------
(* The web flow. *)

\* GenerateOAuthAuthCode.
IssueAuthCode(c, a, u, uri) ==
    /\ c \notin issued
    /\ issued' = issued \cup {c}
    /\ auth' = [auth EXCEPT ![c] = [state |-> "unused", app |-> a, user |-> u, uri |-> uri]]
    /\ UNCHANGED <<device, expired, minted, owners, approvals, request, overlap, kept, failures>>

\* ExchangeAuthCode for a client that has proved who it is; ConsumeAuthCode's
\* SELECT and its test of the row.
Exchange(q, c, a, uri) ==
    /\ Idle(q)
    /\ auth[c] # NoRow /\ auth[c].state = "unused" /\ c \notin expired
    /\ Becomes(q, [pc |-> "mark", code |-> c, row |-> auth[c], app |-> a, uri |-> uri])
    /\ Overlapped(c)
    /\ UNCHANGED <<device, auth, issued, expired, minted, owners, approvals, kept, failures>>

\* ConsumeAuthCode's UPDATE.
MarkUsed(q) ==
    LET r == request[q]
    IN  /\ r.pc = "mark"
        /\ auth' = [auth EXCEPT ![r.code].state = "used"]
        /\ Becomes(q, [r EXCEPT !.pc = "check"])
        /\ UNCHANGED <<device, issued, expired, minted, owners, approvals, overlap, kept, failures>>

\* Mutant: any client may redeem the code.
ForClientAny(r) == r.row.uri = r.uri

\* The app and the redirect the code was issued for.
ForClient(r) == r.row.app = r.app /\ r.row.uri = r.uri

\* The rest of ExchangeAuthCode: a mismatch is refused, and the code is spent.
CheckClient(q) ==
    LET r == request[q]
    IN  /\ r.pc = "check"
        /\ Becomes(q, IF ForClient(r)
                      THEN [pc |-> "redeem", code |-> r.code, user |-> r.row.user, app |-> r.app]
                      ELSE NoRequest)
        /\ UNCHANGED <<device, auth, issued, expired, minted, owners, approvals, overlap, kept, failures>>

\* Any other statement of a request fails, and the request with it.
RequestFails(q) ==
    /\ request[q].pc \in {"decide", "mark", "redeem"}
    /\ Failing
    /\ Becomes(q, NoRequest)
    /\ UNCHANGED <<device, auth, issued, expired, minted, owners, approvals, overlap, kept>>

-----------------------------------------------------------------------------
Device(q) ==
    \/ \E d \in DeviceCode : Poll(q, d) \/ Decide(q, d, "denied", NoUser)
    \/ \E d \in DeviceCode, u \in User : Decide(q, d, "approved", u)
    \/ SetDeviceState(q)
    \/ DropCode(q)
    \/ DropFails(q)

Web(q) ==
    \/ \E c \in AuthCode, a \in App, uri \in Uri : Exchange(q, c, a, uri)
    \/ MarkUsed(q)
    \/ CheckClient(q)

GrantNext ==
    \/ \E c \in Code : Expire(c)
    \/ \E d \in DeviceCode, a \in App : RequestDeviceCode(d, a)
    \/ \E c \in AuthCode, a \in App, u \in User, uri \in Uri : IssueAuthCode(c, a, u, uri)
    \/ \E q \in Request : Device(q) \/ Web(q) \/ Mint(q) \/ RequestFails(q)

GrantSpec == GrantInit /\ [][GrantNext]_grantVars

-----------------------------------------------------------------------------
\* auth/device.go:178 deletes a device code as "single use", and a used
\* authorization code is refused: a code yields a second token only to requests
\* that found it good at the same time, or when its deletion failed.
SingleUse == \A c \in Code : minted[c] > 1 => c \in overlap \cup kept

\* A device code yields a token only for a user whose approval was recorded,
\* whatever decisions, polls and deletions cross.
OnlyApproved ==
    \A d \in DeviceCode : \A o \in owners[d] : o[1] \in approvals[d]

\* An authorization code yields tokens only for its own user and app, though the
\* client is compared after the code was marked.
RightClient == \A c \in AuthCode : \A o \in owners[c] : o = <<auth[c].user, auth[c].app>>
=============================================================================
