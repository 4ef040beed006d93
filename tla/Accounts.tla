------------------------------ MODULE Accounts ------------------------------
(***************************************************************************)
(* Everything that changes a user record, composed: signup, profile and    *)
(* deletion (UserRecords), Passwords, Addresses and AccountLinks run       *)
(* against the same records.                                               *)
(***************************************************************************)
EXTENDS Passwords, Addresses, AccountLinks

HomeLink == [provider |-> HomeProvider, by |-> None]
HomeUser == [email |-> HomeEmail, password |-> HomePassword, verified |-> FALSE, name |-> None,
             links |-> {HomeLink}]

Init == /\ now = 0
        /\ workload \in Workloads
        /\ users = [u \in Ids |-> IF u = Resident THEN HomeUser ELSE None]
        /\ resets = {}
        /\ verifications = {}
        /\ pending = {}
        /\ request = [r \in Requests |-> IdleRequest]
        /\ telemetry = {}
        /\ published = {}

Start(r) == StartSignup(r) \/ StartProfile(r) \/ StartDelete(r)
            \/ StartPassword(r) \/ StartAddress(r) \/ StartLink(r)

Step(r) == \/ SignupTaken(r) \/ SignupFree(r) \/ CreateUser(r)
           \/ UpdateProfile(r) \/ DeleteUser(r)
           \/ PasswordStep(r) \/ AddressStep(r) \/ LinkStep(r)
           \/ PersistEvent(r) \/ Publish(r)

Next == \/ Tick
        \/ \E r \in Requests : Start(r) \/ Step(r) \/ Fail(r)

Spec == Init /\ [][Next]_vars

-----------------------------------------------------------------------------
(* Safety *)

\* The field that a request replaced, in the record of its user.
FieldOf(q) ==
    CASE request[q].op \in {"change_password", "complete_password_reset"} -> "password"
      [] request[q].op = "confirm_email_change" -> "email"
      [] request[q].op = "update_profile" -> "name"
      [] OTHER -> "none"

Replaced(q, u, f) == request[q].wrote /\ request[q].user = u /\ FieldOf(q) = f

\* v can be in field f of u after s wrote it: s wrote v, or a call not answered before s began.
MayFollow(u, f, v, s, others) ==
    \/ request[s].value = v
    \/ \E q \in others : /\ Replaced(q, u, f)
                         /\ request[q].value = v
                         /\ q \notin request[s].after

(***************************************************************************)
(* A password, address or name whose change was answered Ok stays until a  *)
(* call that overlapped the change, or came later, replaces that field: no *)
(* other handler writes an old record back over it.                        *)
(***************************************************************************)
AnsweredWriteSticks ==
    \A s \in Requests : \A f \in {"password", "email", "name"} :
        LET u == request[s].user
        IN  Answered(s, "Ok") /\ Replaced(s, u, f) /\ Exists(u)
                => MayFollow(u, f, users[u][f], s, Requests)

(***************************************************************************)
(* change_password succeeds only with a password that was the user's while *)
(* the call ran, although it checks one store call before it writes: one   *)
(* that an answered change or reset had replaced before does not do.       *)
(***************************************************************************)
FirstPassword(u) == IF u = Resident THEN HomePassword ELSE request[u].current

ChangeKnewPassword ==
    \A r \in Requests :
        LET u == request[r].user
            p == request[r].current
            others == Requests \ {r}
        IN  request[r].op = "change_password" /\ request[r].wrote =>
                /\ \/ p = FirstPassword(u)
                   \/ \E q \in others : Replaced(q, u, "password") /\ request[q].value = p
                /\ \A s \in request[r].after :
                      Replaced(s, u, "password") => MayFollow(u, "password", p, s, others)

(***************************************************************************)
(* A reset, verification, change or link token changes a record at most    *)
(* once, however many calls present it and to whichever handler.           *)
(***************************************************************************)
TokenActsOnce ==
    \A r, q \in Requests :
        /\ request[r].wrote /\ request[q].wrote
        /\ request[r].token # None /\ request[r].token = request[q].token
        => r = q

(***************************************************************************)
(* A call that began after its token had expired changes nothing.  Links   *)
(* in waiting have no lifetime.                                            *)
(***************************************************************************)
ExpiredTokensDoNothing ==
    \A r \in Requests :
        /\ request[r].wrote /\ request[r].token # None
        /\ request[r].op # "complete_account_link"
        => request[r].began <= request[request[r].token].expires

(***************************************************************************)
(* Two accounts have one address only because their signups overlapped, or *)
(* because an email change brought one of them there.                      *)
(***************************************************************************)
DuplicatesExplained ==
    \A u, v \in Ids :
        u # v /\ Exists(u) /\ Exists(v) /\ users[u].email = users[v].email =>
            \/ \E c \in Requests : \E w \in {u, v} :
                   Replaced(c, w, "email") /\ request[c].value = users[u].email
            \/ /\ {u, v} \subseteq Requests
               /\ u \notin request[v].after /\ v \notin request[u].after

(***************************************************************************)
(* A link that was answered Ok is lost, and one that was unlinked is back, *)
(* only by a later call for it or by a call on the user's links that       *)
(* overlapped: the lists are read and written back in two store calls.     *)
(* The link a user had before is lost only by an unlink of its provider.   *)
(***************************************************************************)
Relinked(q, u) == Relinks(q) /\ request[q].wrote /\ request[q].user = u

LinkLossNeedsOverlap ==
    \A c \in Requests :
        LET u == request[c].user
            later == {q \in Requests \ {c} : Relinked(q, u) /\ q \notin request[c].after}
            overlapping == {q \in later : c \notin request[q].after}
        IN  /\ Answered(c, "Ok") /\ request[c].op = "complete_account_link" /\ Exists(u)
               /\ LinkFrom(request[c].token) \notin users[u].links
               => \/ overlapping # {}
                  \/ \E q \in later : /\ request[q].op = "unlink_account"
                                      /\ request[q].value = request[request[c].token].value
            /\ Answered(c, "Ok") /\ request[c].op = "unlink_account" /\ Exists(u)
               => \A l \in OfProvider(users[u].links, request[c].value) :
                      \/ overlapping # {}
                      \/ \E q \in later : request[q].token = l.by
            /\ Exists(Resident) /\ HomeLink \notin users[Resident].links
               => \E q \in Requests : /\ Relinked(q, Resident)
                                      /\ request[q].op = "unlink_account"
                                      /\ request[q].value = HomeProvider

(***************************************************************************)
(* A token that was answered to its user and is gone was presented, and    *)
(* either did its work, is at it, came too late, was shown to the handler  *)
(* of the other kind, found no user, or its call failed half-way.          *)
(***************************************************************************)
StoredTokens == resets \cup verifications \cup pending

SpentTokenExplained ==
    \A t \in Drawn({"request_password_reset", "request_email_verification",
                    "request_email_change", "initiate_account_link"}) \ StoredTokens :
        \E r \in Requests :
            /\ request[r].token = t
            /\ \/ request[r].wrote
               \/ Awaiting(r) /\ request[r].phase # "consume_token"
               \/ Answered(r, "InvalidToken") /\ Expired(t)
               \/ Answered(r, "Validation") /\ ~IsChangeToken(t)
               \/ ~Exists(request[t].user)
               \/ Failed(r)

-----------------------------------------------------------------------------
(* What the documentation says and the code does not do *)

(***************************************************************************)
(* models.rs says of a token's new_email: "`Some(email)` for email-change  *)
(* requests, `None` for initial verification": an account is verified by a *)
(* token for its verification, not by one that was sent to a new address.  *)
(***************************************************************************)
VerifiedByVerification ==
    \A r \in Requests :
        request[r].op = "verify_email" /\ request[r].wrote => ~IsChangeToken(request[r].token)
=============================================================================
