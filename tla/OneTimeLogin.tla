---------------------------- MODULE OneTimeLogin ----------------------------
(***************************************************************************)
(* Passwordless login: magic links (src/magic_link.rs) and one-time codes  *)
(* (src/otp.rs), with the accounts they log in to being deleted meanwhile. *)
(* A link, a code record and a session are named after the request that    *)
(* makes them.  A link's token is a random string, so it names the link; a *)
(* code is one of few digits, and two records may hold the same one.       *)
(***************************************************************************)
EXTENDS Naturals, Handlers

CONSTANTS Users,        \* ids of the user records
          Codes,        \* what generate_otp can draw
          NoUser, NoToken, NoCode,
          LinkTtl,      \* MAGIC_LINK_TTL, in clock ticks
          OtpTtl,       \* OTP_TTL
          MaxTime       \* bound on the clock

ASSUME OneTimeAssumption == /\ NoUser \notin Users
                            /\ NoToken \notin Requests
                            /\ NoCode \notin Codes
                            /\ LinkTtl \in Nat /\ OtpTtl \in Nat /\ MaxTime \in Nat

VARIABLES now,          \* the wall clock
          users,        \* UserStore: the ids with a record
          links,        \* MagicLinkStore: links stored and not consumed
          otp,          \* OtpStore: the record of each user, named by its request
          sessions      \* SessionStore: the sessions stored by these handlers

vars == <<now, users, links, otp, sessions, request, telemetry, published>>
stores == <<users, links, otp, sessions>>

-----------------------------------------------------------------------------
Ops == {"none", "request_link", "verify_link", "request_otp", "verify_otp", "delete"}

StoreCalls == {"get_user", "create_token", "consume", "get_user_by_id", "create_session",
               "delete_user", "persist_event", "publish"}

Request == [op      : Ops,
            phase   : StoreCalls \cup {"idle", "done"},
            user    : Users \cup {NoUser},
            code    : Codes \cup {NoCode},        \* drawn, or submitted to verify
            token   : Requests \cup {NoToken},    \* the link or code record consumed
            expires : Nat,                        \* of the link or code record made
            began   : Nat,                        \* history: when it began
            result  : {"none", "Ok", "InvalidToken", "InvalidCredentials", "NotFound",
                       "Failed"},
            after   : SUBSET Requests]            \* history: calls answered Ok before it began

TypeOK == /\ now \in Nat
          /\ users \subseteq Users
          /\ links \subseteq Requests
          /\ otp \in [Users -> Requests \cup {NoToken}]
          /\ sessions \subseteq Requests
          /\ request \in [Requests -> Request]
          /\ telemetry \subseteq Requests
          /\ published \subseteq Requests

IdleRequest == [op |-> "none", phase |-> "idle", user |-> NoUser, code |-> NoCode,
                token |-> NoToken, expires |-> 0, began |-> 0, result |-> "none", after |-> {}]

Begin(r, op, call, u, t, c) ==
    /\ Idle(r)
    /\ request' = [request EXCEPT ![r] =
                     [IdleRequest EXCEPT !.op = op, !.phase = call, !.user = u, !.token = t,
                                         !.code = c, !.began = now, !.after = AnsweredOk]]
    /\ UNCHANGED <<now, stores, telemetry, published>>

\* The check both verify handlers make after the record was consumed.
Expired(t) == now > request[t].expires

NothingStored == UNCHANGED <<now, stores, telemetry, published>>

-----------------------------------------------------------------------------
(* request: the user is looked up, and a token with a lifetime is stored *)

StartRequest(r) == \E u \in Users, op \in {"request_link", "request_otp"} :
                       Begin(r, op, "get_user", u, NoToken, NoCode)

Asks(r) == request[r].op \in {"request_link", "request_otp"}

UserUnknown(r) == /\ Asks(r) \/ request[r].op = "verify_otp"
                  /\ request[r].phase = "get_user"
                  /\ request[r].user \notin users
                  /\ Answer(r, "NotFound")
                  /\ NothingStored

\* The token is drawn and its expiry computed before the store is called.
DrawLink(r) == /\ At(r, "request_link", "get_user")
               /\ request[r].user \in users
               /\ request' = [request EXCEPT ![r].phase = "create_token",
                                             ![r].expires = now + LinkTtl]
               /\ NothingStored

DrawOtp(r) == /\ At(r, "request_otp", "get_user")
              /\ request[r].user \in users
              /\ \E c \in Codes :
                   request' = [request EXCEPT ![r].phase = "create_token", ![r].code = c,
                                              ![r].expires = now + OtpTtl]
              /\ NothingStored

\* Fault: the store keeps one link per user, as it does codes.
CreateLink_Overwrites(r) ==
    /\ At(r, "request_link", "create_token")
    /\ links' = {t \in links : request[t].user # request[r].user} \cup {r}
    /\ Await(r, "persist_event")
    /\ UNCHANGED <<now, users, otp, sessions, telemetry, published>>

CreateLink(r) == /\ At(r, "request_link", "create_token")
                 /\ links' = links \cup {r}
                 /\ Await(r, "persist_event")
                 /\ UNCHANGED <<now, users, otp, sessions, telemetry, published>>

\* Fault: the record the user already has is kept.
CreateOtp_KeepsFirst(r) ==
    /\ At(r, "request_otp", "create_token")
    /\ otp' = [otp EXCEPT ![request[r].user] = IF @ = NoToken THEN r ELSE @]
    /\ Await(r, "persist_event")
    /\ UNCHANGED <<now, users, links, sessions, telemetry, published>>

\* create_otp overwrites the record the user had.
CreateOtp(r) == /\ At(r, "request_otp", "create_token")
                /\ otp' = [otp EXCEPT ![request[r].user] = r]
                /\ Await(r, "persist_event")
                /\ UNCHANGED <<now, users, links, sessions, telemetry, published>>

-----------------------------------------------------------------------------
(* Magic link verify: consume, expiry, user, session *)

\* Anyone who was sent a link presents it, as often as they like.
StartVerifyLink(r) == \E t \in Requests :
                          /\ request[t].op = "request_link" /\ Answered(t, "Ok")
                          /\ Begin(r, "verify_link", "consume", NoUser, t, NoCode)

\* The link was consumed before.
LinkUnknown(r) == /\ At(r, "verify_link", "consume")
                  /\ request[r].token \notin links
                  /\ Answer(r, "InvalidToken")
                  /\ NothingStored

\* Fault: the expiry of the link is not looked at.
JudgeLink_Eternal(r, t) == request' = [request EXCEPT ![r].phase = "get_user_by_id",
                                                      ![r].user = request[t].user]

\* What the handler does with the link t it has consumed, without another await.
JudgeLink(r, t) == IF Expired(t)
                     THEN Answer(r, "InvalidToken")
                     ELSE request' = [request EXCEPT ![r].phase = "get_user_by_id",
                                                     ![r].user = request[t].user]

\* Fault: the link is read and not removed.
ConsumeLink_Reads(r) == /\ At(r, "verify_link", "consume")
                        /\ request[r].token \in links
                        /\ JudgeLink(r, request[r].token)
                        /\ UNCHANGED <<now, users, links, otp, sessions, telemetry, published>>

ConsumeLink(r) ==
    /\ At(r, "verify_link", "consume")
    /\ request[r].token \in links
    /\ links' = links \ {request[r].token}
    /\ JudgeLink(r, request[r].token)
    /\ UNCHANGED <<now, users, otp, sessions, telemetry, published>>

LinkUserGone(r) == /\ At(r, "verify_link", "get_user_by_id")
                   /\ request[r].user \notin users
                   /\ Answer(r, "NotFound")
                   /\ NothingStored

\* Fault: the user is not looked up again.
LinkUserFound_Unchecked(r) == /\ At(r, "verify_link", "get_user_by_id")
                              /\ Await(r, "create_session")
                              /\ NothingStored

LinkUserFound(r) == /\ At(r, "verify_link", "get_user_by_id")
                    /\ request[r].user \in users
                    /\ Await(r, "create_session")
                    /\ NothingStored

-----------------------------------------------------------------------------
(* One-time code verify: user, consume, expiry, code, session *)

StartVerifyOtp(r) == \E u \in Users, c \in Codes : Begin(r, "verify_otp", "get_user", u, NoToken, c)

OtpUserFound(r) == /\ At(r, "verify_otp", "get_user")
                   /\ request[r].user \in users
                   /\ Await(r, "consume")
                   /\ NothingStored

OtpUnknown(r) == /\ At(r, "verify_otp", "consume")
                 /\ otp[request[r].user] = NoToken
                 /\ Answer(r, "InvalidToken")
                 /\ NothingStored

\* r consumed record t and goes on, or answers, without another await.
Judged(r, t, call, result) ==
    request' = [request EXCEPT ![r].token = t, ![r].phase = call, ![r].result = result]

RightCode(r, t) == request[r].code = request[t].code

\* Faults: another error for a late code; the code is not compared; the last tick of the
\* lifetime is refused.
JudgeOtp_Revoked(r, t) == \/ Expired(t) /\ Judged(r, t, "done", "RevokedToken")
                          \/ ~Expired(t) /\ Judged(r, t, "create_session", "none")
JudgeOtp_IgnoresCode(r, t) == \/ Expired(t) /\ Judged(r, t, "done", "InvalidToken")
                              \/ ~Expired(t) /\ Judged(r, t, "create_session", "none")
JudgeOtp_Early(r, t) == \/ now >= request[t].expires /\ Judged(r, t, "done", "InvalidToken")
                        \/ now < request[t].expires /\ Judged(r, t, "create_session", "none")

JudgeOtp(r, t) ==
    \/ Expired(t) /\ Judged(r, t, "done", "InvalidToken")
    \/ ~Expired(t) /\ ~RightCode(r, t) /\ Judged(r, t, "done", "InvalidCredentials")
    \/ ~Expired(t) /\ RightCode(r, t) /\ Judged(r, t, "create_session", "none")

\* Fault: the record is only consumed by the right code.
ConsumeOtp_ComparesFirst(r) ==
    /\ At(r, "verify_otp", "consume")
    /\ otp[request[r].user] # NoToken
    /\ otp' = [otp EXCEPT ![request[r].user] =
                 IF request[@].code = request[r].code THEN NoToken ELSE @]
    /\ JudgeOtp(r, otp[request[r].user])
    /\ UNCHANGED <<now, users, links, sessions, telemetry, published>>

\* The record is consumed before the code is compared.
ConsumeOtp(r) ==
    /\ At(r, "verify_otp", "consume")
    /\ otp[request[r].user] # NoToken
    /\ otp' = [otp EXCEPT ![request[r].user] = NoToken]
    /\ JudgeOtp(r, otp[request[r].user])
    /\ UNCHANGED <<now, users, links, sessions, telemetry, published>>

-----------------------------------------------------------------------------
CreateSession(r) == /\ request[r].phase = "create_session"
                    /\ sessions' = sessions \cup {r}
                    /\ Await(r, "persist_event")
                    /\ UNCHANGED <<now, users, links, otp, telemetry, published>>

StartDelete(r) == \E u \in Users : Begin(r, "delete", "delete_user", u, NoToken, NoCode)

\* delete_account removes the user and leaves links, codes and sessions where they are.
DeleteUser(r) == /\ At(r, "delete", "delete_user")
                 /\ users' = users \ {request[r].user}
                 /\ Await(r, "persist_event")
                 /\ UNCHANGED <<now, links, otp, sessions, telemetry, published>>

PersistEvent(r) == PersistsEvent(r) /\ UNCHANGED <<now, stores>>
Publish(r) == HandsOutEvent(r, "Ok") /\ UNCHANGED <<now, stores>>
Fail(r) == Fails(r) /\ UNCHANGED <<now, stores>>

Tick == /\ now < MaxTime
        /\ now' = now + 1
        /\ UNCHANGED <<stores, request, telemetry, published>>

-----------------------------------------------------------------------------
Init == /\ now = 0
        /\ users = Users
        /\ links = {}
        /\ otp = [u \in Users |-> NoToken]
        /\ sessions = {}
        /\ request = [r \in Requests |-> IdleRequest]
        /\ telemetry = {}
        /\ published = {}

Start(r) == StartRequest(r) \/ StartVerifyLink(r) \/ StartVerifyOtp(r) \/ StartDelete(r)

Step(r) == \/ UserUnknown(r)
           \/ DrawLink(r)
           \/ DrawOtp(r)
           \/ CreateLink(r)
           \/ CreateOtp(r)
           \/ LinkUnknown(r)
           \/ ConsumeLink(r)
           \/ LinkUserGone(r)
           \/ LinkUserFound(r)
           \/ OtpUserFound(r)
           \/ OtpUnknown(r)
           \/ ConsumeOtp(r)
           \/ CreateSession(r)
           \/ DeleteUser(r)
           \/ PersistEvent(r)
           \/ Publish(r)

Next == \/ Tick
        \/ \E r \in Requests : Start(r) \/ Step(r) \/ Fail(r)

Spec == Init /\ [][Next]_vars

FairSpec == Spec /\ \A r \in Requests : WF_vars(Step(r))

-----------------------------------------------------------------------------
(* Safety *)

Verifies(r) == request[r].op \in {"verify_link", "verify_otp"}

(***************************************************************************)
(* A link or a code record logs in at most once, however many verify calls *)
(* present it at the same time.                                            *)
(***************************************************************************)
SingleUse == \A r, q \in sessions : request[r].token = request[q].token => r = q

(***************************************************************************)
(* A session from a one-time login is for the user the link or code was    *)
(* requested for, and a code's session was opened with that code.          *)
(***************************************************************************)
SessionMatchesRequest ==
    \A r \in sessions :
        LET t == request[r].token
        IN  /\ t \in Requests
            /\ Asks(t)
            /\ request[r].user = request[t].user
            /\ request[r].code = request[t].code

(***************************************************************************)
(* A verify call that begins after its link or code has expired opens no   *)
(* session, wherever the expiry falls among its store calls.               *)
(***************************************************************************)
ExpiredNeverLogsIn ==
    \A r \in sessions : request[r].began <= request[request[r].token].expires

(***************************************************************************)
(* Once a newer code request of a user was answered Ok, a verify call that *)
(* begins later is not let in by a code whose request had been answered    *)
(* before the newer one began.                                             *)
(***************************************************************************)
NewerCodeReplacesOlder ==
    \A r \in sessions : \A q \in request[r].after :
        /\ request[r].op = "verify_otp"
        /\ request[q].op = "request_otp" /\ request[q].user = request[r].user
        => request[r].token \notin request[q].after

(***************************************************************************)
(* After a wrong code, the code that was current is spent: a verify call   *)
(* that begins after the wrong answer does not get in with it.             *)
(***************************************************************************)
OneGuessPerCode ==
    \A r, q \in Requests :
        /\ Verifies(q) /\ request[q].token # NoToken /\ Answered(q, "InvalidCredentials")
        /\ r \in sessions
        => request[r].token # request[q].token

(***************************************************************************)
(* Once delete_account answered Ok, a link or code verify that begins      *)
(* later opens no session, although links and codes outlive their user.    *)
(***************************************************************************)
DeletionStopsOneTimeLogin ==
    \A r \in sessions : \A d \in request[r].after :
        request[d].op = "delete" => request[d].user # request[r].user

StoredFor(t) == IF request[t].op = "request_link" THEN t \in links ELSE otp[request[t].user] = t

\* r took record t out of its store, and what came of it is known; or r failed before.
Spends(r, t) ==
    /\ Verifies(r) /\ request[r].token = t
    /\ \/ r \in sessions
       \/ request[r].phase \in {"get_user_by_id", "create_session"}
       \/ Answered(r, "InvalidToken") /\ Expired(t)
       \/ Answered(r, "InvalidCredentials") /\ ~RightCode(r, t)
       \/ Answered(r, "NotFound") /\ request[t].user \notin users
       \/ Failed(r)

\* q stored its code over t, or failed in the attempt.
ReplacesCode(q, t) ==
    /\ q # t /\ request[q].op = "request_otp" /\ request[t].op = "request_otp"
    /\ request[q].user = request[t].user /\ q \notin request[t].after
    /\ request[q].phase \in {"persist_event", "publish"} \/ Answered(q, "Ok") \/ Failed(q)

(***************************************************************************)
(* A link or code that was answered to its user and is gone was spent by a *)
(* verify call that logged in, is still running, came too late, guessed    *)
(* wrong, found the user deleted or failed half-way; or the code was       *)
(* replaced by a request for another one that had not been answered when   *)
(* it was asked for.  No other way loses it.                               *)
(***************************************************************************)
SpentRecordExplained ==
    \A t \in Requests :
        Asks(t) /\ Answered(t, "Ok") /\ ~StoredFor(t) =>
            \E r \in Requests : Spends(r, t) \/ ReplacesCode(r, t)

-----------------------------------------------------------------------------
(* Liveness *)

(***************************************************************************)
(* The right code gets in: a verify call about to consume a record with    *)
(* the submitted code opens a session, unless it fails, the record expires *)
(* or another call replaces or consumes the record first.                  *)
(***************************************************************************)
RightCodeGetsIn ==
    \A r, t \in Requests :
        /\ At(r, "verify_otp", "consume")
        /\ otp[request[r].user] = t /\ request[t].code = request[r].code
        ~> \/ r \in sessions
           \/ Failed(r)
           \/ Expired(t)
           \/ /\ request[r].token # t
              /\ At(r, "verify_otp", "consume") => otp[request[r].user] # t
=============================================================================
