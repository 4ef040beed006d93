------------------------------ MODULE Addresses ------------------------------
(***************************************************************************)
(* Email verification and email change (src/account.rs).  Both kinds of    *)
(* token live in one store; a token for a change carries the new address.  *)
(***************************************************************************)
EXTENDS UserRecords

\* The token is drawn before the first await.
StartRequestVerification(r) == \E u \in KnownUsers :
    Begin(r, [IdleRequest EXCEPT !.op = "request_email_verification", !.phase = "create_token",
                                 !.user = u, !.expires = now + TokenTtl])

StartRequestChange(r) == \E u \in KnownUsers, e \in Emails :
    Begin(r, [IdleRequest EXCEPT !.op = "request_email_change", !.phase = "create_token",
                                 !.user = u, !.value = e, !.expires = now + TokenTtl])

AsksForMail(r) == request[r].op \in {"request_email_verification", "request_email_change"}

CreateVerification(r) ==
    /\ AsksForMail(r) /\ request[r].phase = "create_token"
    /\ verifications' = verifications \cup {r}
    /\ Await(r, "persist_event")
    /\ UNCHANGED <<now, workload, users, resets, pending, telemetry, published>>

StartVerify(r) == \E op \in {"verify_email", "confirm_email_change"} :
                  \E t \in Drawn({"request_email_verification", "request_email_change"}) :
                      Begin(r, [IdleRequest EXCEPT !.op = op, !.phase = "consume_token", !.token = t])

Redeems(r) == request[r].op \in {"verify_email", "confirm_email_change"}

MailTokenUnknown(r) == /\ Redeems(r) /\ request[r].phase = "consume_token"
                       /\ request[r].token \notin verifications
                       /\ Answer(r, "InvalidToken")
                       /\ NothingStored

IsChangeToken(t) == request[t].value # None

\* Fault: the kind of the token is not looked at.
JudgeMailToken_AnyKind(r, t) ==
    \/ Expired(t) /\ Answer(r, "InvalidToken")
    \/ /\ ~Expired(t)
       /\ request' = [request EXCEPT
                        ![r].phase = IF request[r].op = "verify_email" THEN "set_email_verified"
                                                                       ELSE "update_email",
                        ![r].user = request[t].user,
                        ![r].value = request[t].value]

\* What the handlers do with the token they consumed: verify_email takes both kinds.
JudgeMailToken(r, t) ==
    \/ Expired(t) /\ Answer(r, "InvalidToken")
    \/ /\ ~Expired(t) /\ request[r].op = "verify_email"
       /\ request' = [request EXCEPT ![r].phase = "set_email_verified",
                                     ![r].user = request[t].user]
    \/ /\ ~Expired(t) /\ request[r].op = "confirm_email_change" /\ ~IsChangeToken(t)
       /\ Answer(r, "Validation")
    \/ /\ ~Expired(t) /\ request[r].op = "confirm_email_change" /\ IsChangeToken(t)
       /\ request' = [request EXCEPT ![r].phase = "update_email",
                                     ![r].user = request[t].user,
                                     ![r].value = request[t].value]

\* Fault: the token is read and not removed.
ConsumeMailToken_Reads(r) == /\ Redeems(r) /\ request[r].phase = "consume_token"
                             /\ request[r].token \in verifications
                             /\ JudgeMailToken(r, request[r].token)
                             /\ NothingStored

ConsumeMailToken(r) ==
    /\ Redeems(r) /\ request[r].phase = "consume_token"
    /\ request[r].token \in verifications
    /\ verifications' = verifications \ {request[r].token}
    /\ JudgeMailToken(r, request[r].token)
    /\ UNCHANGED <<now, workload, users, resets, pending, telemetry, published>>

SetVerified(r) == /\ At(r, "verify_email", "set_email_verified")
                  /\ WriteField(r, "verified", TRUE, "persist_event")

\* update_email replaces the address, whoever else has it by then.
UpdateEmail(r) == /\ At(r, "confirm_email_change", "update_email")
                  /\ WriteField(r, "email", request[r].value, "persist_event")

-----------------------------------------------------------------------------
StartAddress(r) == StartRequestVerification(r) \/ StartRequestChange(r) \/ StartVerify(r)

AddressStep(r) == \/ CreateVerification(r)
                  \/ MailTokenUnknown(r) \/ ConsumeMailToken(r)
                  \/ SetVerified(r) \/ UpdateEmail(r)
=============================================================================
