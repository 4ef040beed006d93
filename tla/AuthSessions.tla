---------------------------- MODULE AuthSessions ----------------------------
(***************************************************************************)
(* The session core of AuthService (src/service.rs) and the deletion of an *)
(* account (src/account.rs) as concurrent requests (see Handlers).  A      *)
(* handler draws fresh UUIDs for the session it creates; a request creates *)
(* at most one, so the session is named after the request.  Input that     *)
(* fails validation is refused before the first await and is left out.     *)
(***************************************************************************)
EXTENDS Naturals, Handlers

CONSTANTS Users,        \* ids of the user records
          Calls,        \* the operations that clients call
          NoUser,       \* a request that has not learnt its user
          NoSession,    \* an absent record, and a token that names no session
          Second,       \* readings of the clock in a second: it is finer than that
          RefreshTtl,   \* AuthConfig::refresh_token_ttl, in seconds
          Leeway,       \* seconds the JWT library grants past `exp'
          MaxTime       \* bound on the clock

ASSUME CallsAssumption == Calls \subseteq {"login", "rotate", "logout", "delete", "require"}
ASSUME SessionAssumption ==
    NoSession \notin Requests \cup [user : Users, expires : Nat, revoked : BOOLEAN]
ASSUME UserAssumption == NoUser \notin Users
ASSUME TimeAssumption == /\ Second \in Nat \ {0}
                         /\ RefreshTtl \in Nat
                         /\ Leeway \in Nat
                         /\ MaxTime \in Nat

VARIABLES now,          \* the wall clock
          users,        \* UserStore: the ids with a record
          sessions      \* SessionStore: session id -> record

vars == <<now, users, sessions, request, telemetry, published>>

-----------------------------------------------------------------------------
(* Types *)

Ops == {"none", "login", "rotate", "logout", "delete", "require"}

StoreCalls == {"get_user", "get_session", "revoke_session", "create_session",
               "delete_user", "has_permissions", "persist_event", "publish"}

Errors == {"InvalidCredentials", "InvalidToken", "RevokedToken", "NotFound",
           "PermissionDenied", "Failed"}

Session == [user : Users, expires : Nat, revoked : BOOLEAN]

Request == [op      : Ops,
            phase   : StoreCalls \cup {"idle", "done"},
            user    : Users \cup {NoUser},
            old     : Requests \cup {NoSession},  \* the session named by the input
            expires : Nat,                        \* of the session being built
            exp     : Nat,                        \* of the refresh token minted, in seconds
            result  : Errors \cup {"none", "Ok"},
            after   : SUBSET Requests]            \* history: calls answered Ok before it began

TypeOK == /\ now \in Nat
          /\ users \subseteq Users
          /\ sessions \in [Requests -> Session \cup {NoSession}]
          /\ request \in [Requests -> Request]
          /\ telemetry \subseteq Requests
          /\ published \subseteq Requests

-----------------------------------------------------------------------------
(* The state seen by the handlers and by the clients *)

Stored(s) == s \in Requests /\ sessions[s] # NoSession
Revoked(s) == Stored(s) /\ sessions[s].revoked
Live(s) == Stored(s) /\ ~sessions[s].revoked

\* list_sessions: the store returns the user's sessions that are not revoked.
ActiveSessions(u) == {s \in Requests : Live(s) /\ sessions[s].user = u}

\* The client holds the token pair of session s: its request answered Ok.
Issued(s) == request[s].op \in {"login", "rotate"} /\ Answered(s, "Ok")

\* What a caller can pass as a refresh token: one it was given, or one whose
\* sid is no refresh_token_id (an access token carries the session's id).
Presentable == {s \in Requests : Issued(s)} \cup {NoSession}

\* A JWT tells the time in whole seconds: unix_timestamp drops the fraction.
UnixTimestamp(time) == time \div Second

\* Fault: the clock is not truncated, as `exp' is, before the two are compared.
Decodes_Exact(s) == s \in Requests => now <= (request[s].exp + Leeway) * Second

\* decode_claims: the library accepts a token until exp + leeway.
Decodes(s) == s \in Requests => UnixTimestamp(now) <= request[s].exp + Leeway

-----------------------------------------------------------------------------
(* Moving one handler on *)

IdleRequest == [op |-> "none", phase |-> "idle", user |-> NoUser, old |-> NoSession,
                expires |-> 0, exp |-> 0, result |-> "none", after |-> {}]

Begin(r, op, call, u, s) ==
    /\ Idle(r)
    /\ request' = [request EXCEPT ![r] =
                     [IdleRequest EXCEPT !.op = op, !.phase = call, !.user = u, !.old = s,
                                         !.after = AnsweredOk]]

\* The handler goes on to create a session for u, which expires RefreshTtl from now.
AwaitCreate(r, u) ==
    request' = [request EXCEPT ![r].phase = "create_session", ![r].user = u,
                               ![r].expires = now + RefreshTtl * Second]

-----------------------------------------------------------------------------
(* login *)

StartLogin(r) == /\ \E u \in Users : Begin(r, "login", "get_user", u, NoSession)
                 /\ UNCHANGED <<now, users, sessions, telemetry, published>>

\* No record, no password hash or a password that does not match it: InvalidCredentials.
LoginRejected(r) == /\ At(r, "login", "get_user")
                    /\ Answer(r, "InvalidCredentials")
                    /\ UNCHANGED <<now, users, sessions, telemetry, published>>

\* Fault: the user record is taken from a cache that the deletion does not reach.
LoginVerified_Cached(r) == /\ At(r, "login", "get_user")
                           /\ AwaitCreate(r, request[r].user)
                           /\ UNCHANGED <<now, users, sessions, telemetry, published>>

LoginVerified(r) == /\ At(r, "login", "get_user")
                    /\ request[r].user \in users
                    /\ AwaitCreate(r, request[r].user)
                    /\ UNCHANGED <<now, users, sessions, telemetry, published>>

-----------------------------------------------------------------------------
(* rotate_refresh_token *)

StartRotate(r) ==
    /\ \E s \in Presentable : /\ Decodes(s)
                              /\ Begin(r, "rotate", "get_session", NoUser, s)
    /\ UNCHANGED <<now, users, sessions, telemetry, published>>

\* decode_claims refuses the token before the first await.
RotateExpired(r) ==
    /\ Idle(r)
    /\ \E s \in Presentable :
         /\ ~Decodes(s)
         /\ request' = [request EXCEPT ![r].op = "rotate", ![r].phase = "done", ![r].old = s,
                                       ![r].result = "InvalidToken"]
    /\ UNCHANGED <<now, users, sessions, telemetry, published>>

RotateUnknown(r) == /\ At(r, "rotate", "get_session")
                    /\ ~Stored(request[r].old)
                    /\ Answer(r, "InvalidToken")
                    /\ UNCHANGED <<now, users, sessions, telemetry, published>>

RotateRevoked(r) == /\ At(r, "rotate", "get_session")
                    /\ Revoked(request[r].old)
                    /\ Answer(r, "RevokedToken")
                    /\ UNCHANGED <<now, users, sessions, telemetry, published>>

\* Faults: revoked_at is not looked at; the session is replaced without being revoked.
RotateFound_Unchecked(r) == /\ At(r, "rotate", "get_session")
                            /\ Stored(request[r].old)
                            /\ Await(r, "revoke_session")
                            /\ UNCHANGED <<now, users, sessions, telemetry, published>>
RotateFound_KeepsOld(r) == /\ At(r, "rotate", "get_session")
                           /\ Live(request[r].old)
                           /\ AwaitCreate(r, sessions[request[r].old].user)
                           /\ UNCHANGED <<now, users, sessions, telemetry, published>>

RotateFound(r) == /\ At(r, "rotate", "get_session")
                  /\ Live(request[r].old)
                  /\ Await(r, "revoke_session")
                  /\ UNCHANGED <<now, users, sessions, telemetry, published>>

\* Fault: revoking removes the record.
RevokeStored_Removes(s) == sessions' = [sessions EXCEPT ![s] = NoSession]

\* revoke_session sets revoked_at whether or not it was set before.
RevokeStored(s) == sessions' = [sessions EXCEPT ![s].revoked = TRUE]

\* Fault: the new session does not take over the user of the old one.
RotateRevokes_NoUser(r) == /\ At(r, "rotate", "revoke_session")
                           /\ RevokeStored(request[r].old)
                           /\ AwaitCreate(r, request[r].user)
                           /\ UNCHANGED <<now, users, telemetry, published>>

RotateRevokes(r) == /\ At(r, "rotate", "revoke_session")
                    /\ RevokeStored(request[r].old)
                    /\ AwaitCreate(r, sessions[request[r].old].user)
                    /\ UNCHANGED <<now, users, telemetry, published>>

NewSession(r) == [user |-> request[r].user, expires |-> request[r].expires, revoked |-> FALSE]

\* issue_refresh_token reads the clock again.
MintExpiry == UnixTimestamp(now + RefreshTtl * Second)

\* Fault: the user is looked up only after create_session.
CreateSession_ThenChecks(r) ==
    /\ request[r].phase = "create_session"
    /\ sessions' = [sessions EXCEPT ![r] = NewSession(r)]
    /\ request' = [request EXCEPT
                     ![r].phase = IF request[r].user \in users THEN "persist_event" ELSE "done",
                     ![r].result = IF request[r].user \in users THEN "none" ELSE "NotFound"]
    /\ UNCHANGED <<now, users, telemetry, published>>

\* create_session, then both tokens are minted from a later reading of the clock.
CreateSession(r) ==
    /\ request[r].phase = "create_session"
    /\ sessions' = [sessions EXCEPT ![r] = NewSession(r)]
    /\ request' = [request EXCEPT ![r].phase = "persist_event", ![r].exp = MintExpiry]
    /\ UNCHANGED <<now, users, telemetry, published>>

-----------------------------------------------------------------------------
(* revoke_refresh_token *)

StartLogout(r) == /\ \E s \in Presentable : Begin(r, "logout", "get_session", NoUser, s)
                  /\ UNCHANGED <<now, users, sessions, telemetry, published>>

LogoutUnknown(r) == /\ At(r, "logout", "get_session")
                    /\ ~Stored(request[r].old)
                    /\ Answer(r, "NotFound")
                    /\ UNCHANGED <<now, users, sessions, telemetry, published>>

\* Fault: a logout waits for a session that is still live.
LogoutFound_Live(r) == /\ At(r, "logout", "get_session")
                       /\ Live(request[r].old)
                       /\ Await(r, "revoke_session")
                       /\ UNCHANGED <<now, users, sessions, telemetry, published>>

LogoutFound(r) == /\ At(r, "logout", "get_session")
                  /\ Stored(request[r].old)
                  /\ Await(r, "revoke_session")
                  /\ UNCHANGED <<now, users, sessions, telemetry, published>>

\* Fault: the answer of revoke_session is not awaited, so the call may never be made.
LogoutRevokes_Unawaited(r) == /\ At(r, "logout", "revoke_session")
                              /\ Await(r, "persist_event")
                              /\ UNCHANGED <<now, users, sessions, telemetry, published>>

LogoutRevokes(r) == /\ At(r, "logout", "revoke_session")
                    /\ RevokeStored(request[r].old)
                    /\ Await(r, "persist_event")
                    /\ UNCHANGED <<now, users, telemetry, published>>

-----------------------------------------------------------------------------
(* delete_account, require_permissions *)

StartDelete(r) == /\ \E u \in Users : Begin(r, "delete", "delete_user", u, NoSession)
                  /\ UNCHANGED <<now, users, sessions, telemetry, published>>

DeleteUser(r) == /\ At(r, "delete", "delete_user")
                 /\ users' = users \ {request[r].user}
                 /\ Await(r, "persist_event")
                 /\ UNCHANGED <<now, sessions, telemetry, published>>

StartRequire(r) == /\ \E u \in Users : Begin(r, "require", "has_permissions", u, NoSession)
                   /\ UNCHANGED <<now, users, sessions, telemetry, published>>

RequireAllowed(r) == /\ At(r, "require", "has_permissions")
                     /\ Answer(r, "Ok")
                     /\ UNCHANGED <<now, users, sessions, telemetry, published>>

RequireDenied(r) == /\ At(r, "require", "has_permissions")
                    /\ Await(r, "persist_event")
                    /\ UNCHANGED <<now, users, sessions, telemetry, published>>

-----------------------------------------------------------------------------
(* emit_event, the common end of every handler *)

\* Fault: an error of persist_event is swallowed.
PersistEvent_Swallows(r) == /\ request[r].phase = "persist_event"
                            /\ telemetry' \in {telemetry, telemetry \cup {r}}
                            /\ Await(r, "publish")
                            /\ UNCHANGED <<now, users, sessions, published>>

PersistEvent(r) == /\ PersistsEvent(r)
                   /\ UNCHANGED <<now, users, sessions>>

\* require_permissions answers an error once its event is out.
Publish(r) ==
    /\ HandsOutEvent(r, IF request[r].op = "require" THEN "PermissionDenied" ELSE "Ok")
    /\ UNCHANGED <<now, users, sessions>>

Fail(r) == /\ Fails(r)
           /\ UNCHANGED <<now, users, sessions>>

Tick == /\ now < MaxTime
        /\ now' = now + 1
        /\ UNCHANGED <<users, sessions, request, telemetry, published>>

-----------------------------------------------------------------------------
Init == /\ now = 0
        /\ users = Users
        /\ sessions = [r \in Requests |-> NoSession]
        /\ request = [r \in Requests |-> IdleRequest]
        /\ telemetry = {}
        /\ published = {}

Start(r) == \/ "login" \in Calls /\ StartLogin(r)
            \/ "rotate" \in Calls /\ (StartRotate(r) \/ RotateExpired(r))
            \/ "logout" \in Calls /\ StartLogout(r)
            \/ "delete" \in Calls /\ StartDelete(r)
            \/ "require" \in Calls /\ StartRequire(r)

\* The store answered: the handler runs to its next await or to its end.
Step(r) == \/ LoginRejected(r)
           \/ LoginVerified(r)
           \/ RotateUnknown(r)
           \/ RotateRevoked(r)
           \/ RotateFound(r)
           \/ RotateRevokes(r)
           \/ CreateSession(r)
           \/ LogoutUnknown(r)
           \/ LogoutFound(r)
           \/ LogoutRevokes(r)
           \/ DeleteUser(r)
           \/ RequireAllowed(r)
           \/ RequireDenied(r)
           \/ PersistEvent(r)
           \/ Publish(r)

Next == \/ Tick
        \/ \E r \in Requests : \/ Start(r)
                               \/ Step(r)
                               \/ Fail(r)

Spec == Init /\ [][Next]_vars

\* The executor polls a future again once its store call is answered.
FairSpec == Spec /\ \A r \in Requests : WF_vars(Step(r))

-----------------------------------------------------------------------------
(* Safety *)

\* The requests that set out to end session s, and its successors.
Ends(r, s) == request[r].op \in {"rotate", "logout"} /\ request[r].old = s
Successors(s) == {r \in Requests : request[r].op = "rotate" /\ request[r].old = s /\ Stored(r)}

(***************************************************************************)
(* A session created by a rotation belongs to the user of the session it   *)
(* replaces, and that one is revoked: no failure, hang-up or overlap of    *)
(* rotate_refresh_token leaves both usable because of one rotation.        *)
(***************************************************************************)
LineageOK == \A p \in Requests : \A s \in Successors(p) :
                 Revoked(p) /\ sessions[s].user = sessions[p].user

(***************************************************************************)
(* Once a logout or a rotation of a session was answered Ok, a rotation    *)
(* that begins later with the same refresh token creates no session:       *)
(* two successors, or a successor that outlives a logout, need requests    *)
(* that overlap.                                                           *)
(***************************************************************************)
AnsweredEndIsFinal ==
    \A q, r \in Requests : \A s \in Requests :
        /\ Ends(q, s) /\ Answered(q, "Ok")
        /\ Ends(r, s) /\ q \in request[r].after
        => ~Stored(r)

(***************************************************************************)
(* Once delete_account answered Ok, a login that begins later creates no   *)
(* session for that user, although login reads the user and creates the    *)
(* session in two store calls.                                             *)
(***************************************************************************)
DeletionStopsLogin ==
    \A d, r \in Requests :
        /\ request[d].op = "delete" /\ Answered(d, "Ok")
        /\ request[r].op = "login" /\ request[r].user = request[d].user
        /\ d \in request[r].after
        => ~Stored(r)

(***************************************************************************)
(* list_sessions shows a session nobody holds a token of only while the    *)
(* request that created it runs, or because that request failed after      *)
(* create_session: a store error or a dropped future.                      *)
(***************************************************************************)
OrphansComeFromFailures ==
    \A u \in Users : \A s \in ActiveSessions(u) :
        \/ Issued(s)
        \/ Awaiting(s)
        \/ Failed(s)

\* What the event of r tells its consumers has happened in the stores.
EventIsTrue(r) ==
    CASE request[r].op = "login"   -> Stored(r)
      [] request[r].op = "rotate"  -> Stored(r) /\ Revoked(request[r].old)
      [] request[r].op = "logout"  -> Revoked(request[r].old)
      [] request[r].op = "delete"  -> request[r].user \notin users
      [] request[r].op = "require" -> ~Answered(r, "Ok")
      [] OTHER -> FALSE

(***************************************************************************)
(* The audit trail is sound: an event that a subscriber receives was       *)
(* persisted first, it describes a change that is in the stores, and every *)
(* Ok answer of a state-changing call has its event in both places.        *)
(***************************************************************************)
AuditSound ==
    /\ published \subseteq telemetry
    /\ \A r \in telemetry : EventIsTrue(r)
    /\ \A r \in Requests :
          Answered(r, "Ok") /\ request[r].op # "require" => r \in published

(***************************************************************************)
(* A refresh token decodes for as long as its session record lasts.  The   *)
(* record's expiry keeps the fraction of a second, `exp' has lost it and   *)
(* may be the earlier of the two: two readings of the clock, on two sides  *)
(* of create_session, and two truncations must not refuse a client early.  *)
(***************************************************************************)
TokenOutlastsSession ==
    \A s \in Requests : Issued(s) /\ now <= sessions[s].expires => Decodes(s)

-----------------------------------------------------------------------------
(* Refinement *)

\* A successor's parent is the session its request rotated.
Parent == [s \in Requests |->
             IF request[s].op = "rotate" /\ Stored(s) THEN request[s].old ELSE NoSession]

Lifecycle == INSTANCE SessionLifecycle
                 WITH Sessions <- Requests,
                      live <- {s \in Requests : Live(s)},
                      revoked <- {s \in Requests : Revoked(s)},
                      parent <- Parent

\* The handlers, with every interleaving and failure, implement the lifecycle of sessions.
ImplementsLifecycle == Lifecycle!Spec

-----------------------------------------------------------------------------
(* Liveness *)

\* Every request is answered or dropped: no handler waits for another one.
EveryRequestEnds == \A r \in Requests : Awaiting(r) ~> request[r].phase = "done"

\* A logout that named a stored session revokes it unless the request fails first,
\* whatever rotations of the same session do meanwhile.
LogoutTakesEffect ==
    \A r, s \in Requests :
        At(r, "logout", "get_session") /\ request[r].old = s /\ Stored(s)
            ~> Revoked(s) \/ Failed(r)

-----------------------------------------------------------------------------
(* What the documentation says and the code does not do *)

(***************************************************************************)
(* README.detailed.md: "The old session is revoked atomically before the   *)
(* new session is created": a session is replaced by at most one other.    *)
(***************************************************************************)
AtMostOneSuccessor ==
    \A s \in Requests : \A r1, r2 \in Successors(s) : r1 = r2

(***************************************************************************)
(* README.detailed.md: get_user_by_id is called by the "token refresh": no *)
(* rotation that begins after the user's deletion was answered succeeds.   *)
(***************************************************************************)
DeletionStopsRotation ==
    \A d, r \in Requests :
        /\ request[d].op = "delete" /\ Answered(d, "Ok")
        /\ request[r].op = "rotate" /\ Answered(r, "Ok")
        /\ request[r].user = request[d].user
        => d \notin request[r].after
=============================================================================
