------------------------------ MODULE Passwords ------------------------------
(***************************************************************************)
(* change_password and the two steps of a password reset (src/account.rs). *)
(* A stored hash is represented by the password it was made from.          *)
(***************************************************************************)
EXTENDS UserRecords

StartChangePassword(r) == \E u \in KnownUsers, p, new \in Passwords :
    Begin(r, [IdleRequest EXCEPT !.op = "change_password", !.phase = "get_user_by_id",
                                 !.user = u, !.current = p, !.value = new])

ChangeUnknown(r) == /\ At(r, "change_password", "get_user_by_id")
                    /\ ~Exists(request[r].user)
                    /\ Answer(r, "NotFound")
                    /\ NothingStored

ChangeRejected(r) == /\ At(r, "change_password", "get_user_by_id")
                     /\ Exists(request[r].user)
                     /\ users[request[r].user].password # request[r].current
                     /\ Answer(r, "InvalidCredentials")
                     /\ NothingStored

\* Fault: any password will do.
ChangeVerified_Unchecked(r) == /\ At(r, "change_password", "get_user_by_id")
                               /\ Exists(request[r].user)
                               /\ Await(r, "set_password_hash")
                               /\ NothingStored

ChangeVerified(r) == /\ At(r, "change_password", "get_user_by_id")
                     /\ Exists(request[r].user)
                     /\ users[request[r].user].password = request[r].current
                     /\ Await(r, "set_password_hash")
                     /\ NothingStored

\* Both operations end by replacing the hash, whatever it is by then.
SetPassword(r) == /\ request[r].phase = "set_password_hash"
                  /\ WriteField(r, "password", request[r].value, "persist_event")

-----------------------------------------------------------------------------
(* request_password_reset, complete_password_reset *)

StartRequestReset(r) == \E e \in Emails :
    Begin(r, [IdleRequest EXCEPT !.op = "request_password_reset", !.phase = "get_user_by_email",
                                 !.value = e])

ResetUnknown(r) == /\ At(r, "request_password_reset", "get_user_by_email")
                   /\ \A u \in Ids : ~HasEmail(u, request[r].value)
                   /\ Answer(r, "NotFound")
                   /\ NothingStored

\* Two accounts may have the address: the store answers one of them.
DrawReset(r) == /\ At(r, "request_password_reset", "get_user_by_email")
                /\ \E u \in Ids : /\ HasEmail(u, request[r].value)
                                  /\ request' = [request EXCEPT ![r].phase = "create_token",
                                                                ![r].user = u,
                                                                ![r].expires = now + TokenTtl]
                /\ NothingStored

\* Fault: a new token replaces the ones stored before.
CreateReset_Replaces(r) ==
    /\ At(r, "request_password_reset", "create_token")
    /\ resets' = {r}
    /\ Await(r, "persist_event")
    /\ UNCHANGED <<now, workload, users, verifications, pending, telemetry, published>>

CreateReset(r) ==
    /\ At(r, "request_password_reset", "create_token")
    /\ resets' = resets \cup {r}
    /\ Await(r, "persist_event")
    /\ UNCHANGED <<now, workload, users, verifications, pending, telemetry, published>>

StartCompleteReset(r) == \E t \in Drawn({"request_password_reset"}), new \in Passwords :
    Begin(r, [IdleRequest EXCEPT !.op = "complete_password_reset", !.phase = "consume_token",
                                 !.token = t, !.value = new])

ResetTokenUnknown(r) == /\ At(r, "complete_password_reset", "consume_token")
                        /\ request[r].token \notin resets
                        /\ Answer(r, "InvalidToken")
                        /\ NothingStored

\* Fault: the expiry is not looked at.
JudgeReset_Eternal(r, t) == request' = [request EXCEPT ![r].phase = "set_password_hash",
                                                       ![r].user = request[t].user]

JudgeReset(r, t) == IF Expired(t)
                      THEN Answer(r, "InvalidToken")
                      ELSE request' = [request EXCEPT ![r].phase = "set_password_hash",
                                                      ![r].user = request[t].user]

ConsumeReset(r) ==
    /\ At(r, "complete_password_reset", "consume_token")
    /\ request[r].token \in resets
    /\ resets' = resets \ {request[r].token}
    /\ JudgeReset(r, request[r].token)
    /\ UNCHANGED <<now, workload, users, verifications, pending, telemetry, published>>

-----------------------------------------------------------------------------
StartPassword(r) == StartChangePassword(r) \/ StartRequestReset(r) \/ StartCompleteReset(r)

PasswordStep(r) == \/ ChangeUnknown(r) \/ ChangeRejected(r) \/ ChangeVerified(r)
                   \/ SetPassword(r)
                   \/ ResetUnknown(r) \/ DrawReset(r) \/ CreateReset(r)
                   \/ ResetTokenUnknown(r) \/ ConsumeReset(r)
=============================================================================
