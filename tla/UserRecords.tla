----------------------------- MODULE UserRecords -----------------------------
(***************************************************************************)
(* The user records and the handlers that change them, as concurrent       *)
(* requests (see Handlers).  This module holds the state, signup           *)
(* (src/service.rs), update_profile and delete_account (src/account.rs);   *)
(* Passwords, Addresses and AccountLinks add the other operations and      *)
(* Accounts composes them.  One tenant is modelled.  An account is named   *)
(* after the signup that creates it, a random token after the request that *)
(* draws it.                                                               *)
(***************************************************************************)
EXTENDS Naturals, FiniteSets, Handlers

CONSTANTS Resident,     \* the account that exists from the start
          Emails, Passwords, Names, Providers,
          HomeEmail, HomePassword, HomeProvider,        \* of the resident
          Workloads,    \* sets of operations that the clients of one behaviour call
          None,         \* no user, no value, no token
          TokenTtl,     \* PASSWORD_RESET_TTL and EMAIL_VERIFY_TTL, in clock ticks
          MaxTime       \* bound on the clock

ASSUME AccountAssumption ==
    /\ HomeEmail \in Emails /\ HomePassword \in Passwords /\ HomeProvider \in Providers
    /\ None \notin UNION {{Resident}, Requests, Emails, Passwords, Names, Providers}
    /\ Resident \notin Requests
    /\ TokenTtl \in Nat /\ MaxTime \in Nat

VARIABLES now,            \* the wall clock
          workload,       \* the operations called in this behaviour
          users,          \* UserStore: account -> record
          resets,         \* PasswordResetStore: tokens not consumed
          verifications,  \* EmailVerificationStore: tokens not consumed
          pending         \* PendingLinkStore: tokens not consumed

tokens == <<resets, verifications, pending>>
vars == <<now, workload, users, tokens, request, telemetry, published>>

-----------------------------------------------------------------------------
Ids == {Resident} \cup Requests

\* A linked OAuth account, and the request that initiated it.
Link == [provider : Providers, by : Requests \cup {None}]

User == [email : Emails, password : Passwords, verified : BOOLEAN,
         name : Names \cup {None}, links : SUBSET Link]

ASSUME RecordAssumption == None \notin User

Ops == {"none", "signup", "update_profile", "delete_account",
        "change_password", "request_password_reset", "complete_password_reset",
        "request_email_verification", "verify_email",
        "request_email_change", "confirm_email_change",
        "initiate_account_link", "complete_account_link", "unlink_account"}

StoreCalls == {"get_user_by_email", "get_user_by_id", "create_user", "update_profile",
               "delete_user", "set_password_hash", "set_email_verified", "update_email",
               "update_oauth_links", "reread_user", "create_token", "consume_token",
               "persist_event", "publish"}

Request == [op      : Ops,
            phase   : StoreCalls \cup {"idle", "done"},
            user    : Ids \cup {None},
            value   : UNION {Emails, Passwords, Names, Providers, {None}},  \* to be written
            current : Passwords \cup {None},      \* the password of the input
            token   : Requests \cup {None},       \* presented
            links   : SUBSET Link,                \* the list about to be written back
            expires : Nat,                        \* of the token drawn
            wrote   : BOOLEAN,                    \* history: it changed a record
            began   : Nat,                        \* history: when it began
            result  : {"none", "Ok", "Validation", "NotFound", "InvalidToken",
                       "InvalidCredentials", "Failed"},
            after   : SUBSET Requests]            \* history: calls answered Ok before it began

TypeOK == /\ now \in Nat
          /\ workload \in Workloads
          /\ users \in [Ids -> User \cup {None}]
          /\ resets \subseteq Requests
          /\ verifications \subseteq Requests
          /\ pending \subseteq Requests
          /\ request \in [Requests -> Request]
          /\ telemetry \subseteq Requests
          /\ published \subseteq Requests

-----------------------------------------------------------------------------
Exists(u) == users[u] # None
HasEmail(u, e) == Exists(u) /\ users[u].email = e

\* The ids that callers know.
KnownUsers == {Resident} \cup {q \in Requests : request[q].op = "signup" /\ Answered(q, "Ok")}

\* Tokens that were answered to a caller, and so can be presented.
Drawn(ops) == {q \in Requests : request[q].op \in ops /\ Answered(q, "Ok")}

IdleRequest == [op |-> "none", phase |-> "idle", user |-> None, value |-> None,
                current |-> None, token |-> None, links |-> {}, expires |-> 0,
                wrote |-> FALSE, began |-> 0, result |-> "none", after |-> {}]

\* A handler is called and runs to its first await.
Begin(r, call) ==
    /\ call.op \in workload
    /\ Idle(r)
    /\ request' = [request EXCEPT ![r] = [call EXCEPT !.began = now, !.after = AnsweredOk]]
    /\ UNCHANGED <<now, workload, users, tokens, telemetry, published>>

NothingStored == UNCHANGED <<now, workload, users, tokens, telemetry, published>>
OnlyUsers == UNCHANGED <<now, workload, tokens, telemetry, published>>

\* A field is replaced.  The record may be gone: then the update finds no row to change.
WriteField(r, f, v, call) ==
    LET u == request[r].user
    IN  /\ users' = [users EXCEPT ![u] = IF @ = None THEN None ELSE [@ EXCEPT ![f] = v]]
        /\ request' = [request EXCEPT ![r].phase = call, ![r].wrote = Exists(u)]
        /\ OnlyUsers

-----------------------------------------------------------------------------
(* signup: look the address up, then create *)

StartSignup(r) == \E e \in Emails, p \in Passwords :
                      Begin(r, [IdleRequest EXCEPT !.op = "signup", !.phase = "get_user_by_email",
                                                   !.value = e, !.current = p])

SignupTaken(r) == /\ At(r, "signup", "get_user_by_email")
                  /\ \E u \in Ids : HasEmail(u, request[r].value)
                  /\ Answer(r, "Validation")
                  /\ NothingStored

\* Fault: only the resident is looked at, as if the store answered from a cache.
SignupFree_Cached(r) == /\ At(r, "signup", "get_user_by_email")
                        /\ ~HasEmail(Resident, request[r].value)
                        /\ Await(r, "create_user")
                        /\ NothingStored

SignupFree(r) == /\ At(r, "signup", "get_user_by_email")
                 /\ \A u \in Ids : ~HasEmail(u, request[r].value)
                 /\ Await(r, "create_user")
                 /\ NothingStored

NewUser(r) == [email |-> request[r].value, password |-> request[r].current,
               verified |-> FALSE, name |-> None, links |-> {}]

\* create_user stores what it is given.
CreateUser(r) == /\ At(r, "signup", "create_user")
                 /\ users' = [users EXCEPT ![r] = NewUser(r)]
                 /\ request' = [request EXCEPT ![r].phase = "persist_event", ![r].user = r,
                                               ![r].wrote = TRUE]
                 /\ OnlyUsers

-----------------------------------------------------------------------------
(* update_profile, delete_account *)

StartProfile(r) == \E u \in KnownUsers, n \in Names :
                       Begin(r, [IdleRequest EXCEPT !.op = "update_profile", !.phase = "update_profile",
                                                    !.user = u, !.value = n])

\* Fault: the whole record is written back as it was at signup.
UpdateProfile_WritesBack(r) ==
    /\ At(r, "update_profile", "update_profile")
    /\ Exists(request[r].user)
    /\ users' = [users EXCEPT ![request[r].user].name = request[r].value,
                              ![request[r].user].password = HomePassword]
    /\ request' = [request EXCEPT ![r].phase = "persist_event", ![r].wrote = TRUE]
    /\ OnlyUsers

\* The store answers the updated user: there is one, or it answers an error (Fail).
UpdateProfile(r) == /\ At(r, "update_profile", "update_profile")
                    /\ Exists(request[r].user)
                    /\ WriteField(r, "name", request[r].value, "persist_event")

StartDelete(r) == \E u \in KnownUsers :
                      Begin(r, [IdleRequest EXCEPT !.op = "delete_account", !.phase = "delete_user",
                                                   !.user = u])

DeleteUser(r) == /\ At(r, "delete_account", "delete_user")
                 /\ users' = [users EXCEPT ![request[r].user] = None]
                 /\ request' = [request EXCEPT ![r].phase = "persist_event",
                                               ![r].wrote = Exists(request[r].user)]
                 /\ OnlyUsers

-----------------------------------------------------------------------------
(* emit, and time *)

PersistEvent(r) == PersistsEvent(r) /\ UNCHANGED <<now, workload, users, tokens>>
Publish(r) == HandsOutEvent(r, "Ok") /\ UNCHANGED <<now, workload, users, tokens>>
Fail(r) == Fails(r) /\ UNCHANGED <<now, workload, users, tokens>>

Tick == /\ now < MaxTime
        /\ now' = now + 1
        /\ UNCHANGED <<workload, users, tokens, request, telemetry, published>>

\* Every token carries its lifetime; the handlers compare after they consumed it.
Expired(t) == now > request[t].expires
=============================================================================
