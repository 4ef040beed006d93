---------------------------- MODULE AccountsProofs ----------------------------
(***************************************************************************)
(* What Accounts guarantees of its tokens, for any requests, values,       *)
(* lifetimes, workloads and any bound on the clock.                        *)
(***************************************************************************)
EXTENDS Accounts, TLAPS

\* A handler past its last change of the stores; and one that did not fail before it.
Past(r) == request[r].phase \in {"persist_event", "publish", "done"}
Effective(r) == request[r].phase \in {"persist_event", "publish"} \/ Answered(r, "Ok")

Draws == {"request_password_reset", "request_email_verification", "request_email_change",
          "initiate_account_link"}
Takes == {"complete_password_reset", "verify_email", "confirm_email_change",
          "complete_account_link"}

\* Operations on the caller's own account.
Acts == {"change_password", "update_profile", "delete_account", "unlink_account"}

\* The handler a takes tokens that b draws.
Fits(a, b) ==
    \/ a = "complete_password_reset" /\ b = "request_password_reset"
    \/ /\ a \in {"verify_email", "confirm_email_change"}
       /\ b \in {"request_email_verification", "request_email_change"}
    \/ a = "complete_account_link" /\ b = "initiate_account_link"

\* An account whose record will not be created any more.
Settled(u) == u = Resident \/ (u \in Requests /\ request[u].op = "signup" /\ Past(u))

\* Which operations make which store call.
PhaseFits(r) ==
    /\ request[r].phase = "idle" => request[r].op = "none"
    /\ request[r].phase = "consume_token" => request[r].op \in Takes
    /\ request[r].phase = "create_token" => request[r].op \in Draws
    /\ request[r].phase = "get_user_by_email" => request[r].op \in {"signup", "request_password_reset"}
    /\ request[r].phase = "create_user" => request[r].op = "signup"
    /\ request[r].phase \in {"update_oauth_links", "reread_user"} => Relinks(r)
    /\ request[r].phase = "set_password_hash"
         => request[r].op \in {"change_password", "complete_password_reset"}
    /\ request[r].phase = "update_email" => request[r].op = "confirm_email_change"
    /\ request[r].wrote => Past(r) \/ request[r].phase = "reread_user"

PhasesOK == \A r \in Requests : PhaseFits(r)

\* What kind of value a handler writes, or gives its token.
ValueFits(r) ==
    /\ request[r].op \in {"signup", "request_email_change"} \/ request[r].phase = "update_email"
         => request[r].value \in Emails
    /\ request[r].op = "request_email_verification" => request[r].value = None
    /\ request[r].op \in {"change_password", "complete_password_reset"}
         => request[r].value \in Passwords
    /\ request[r].op = "update_profile" => request[r].value \in Names
    /\ request[r].op \in {"initiate_account_link", "unlink_account"} => request[r].value \in Providers
    /\ request[r].op = "signup" => request[r].current \in Passwords

ValuesOK == \A r \in Requests : ValueFits(r)

\* What a handler knows of its own call.
CallsOK == \A r \in Requests :
    /\ request[r].token # None => request[r].op \in Takes
    /\ request[r].op \in Takes => /\ request[r].token \in Requests
                                  /\ Fits(request[r].op, request[request[r].token].op)
                                  /\ Past(request[r].token)
    /\ request[r].began <= now
    /\ \A q \in request[r].after : Answered(q, "Ok")
    /\ request[r].user # None => Settled(request[r].user)
    /\ request[r].op \in Draws /\ (request[r].phase = "create_token" \/ Effective(r))
         => request[r].user # None
    /\ request[r].op \in Acts => request[r].user # None

\* What a stored record or token says of the request that made it.
StoresOK ==
    /\ \A u \in Ids : Exists(u) => Settled(u)
    /\ \A t \in resets : request[t].op = "request_password_reset"
    /\ \A t \in verifications : AsksForMail(t)
    /\ \A t \in pending : request[t].op = "initiate_account_link"
    /\ \A t \in StoredTokens : Past(t) /\ request[t].user # None

\* r has taken its token out of the store and goes on with it, or did its work.
Took(r) == /\ request[r].op \in Takes
           /\ request[r].wrote \/ request[r].phase \notin {"idle", "consume_token", "done"}

\* A token that was taken is in no store, and the handler does with it what it was drawn for.
TakenOK == \A r \in Requests : Took(r) =>
    /\ request[r].token \notin StoredTokens
    /\ request[r].user = request[request[r].token].user /\ request[r].user # None
    /\ request[r].op # "complete_account_link"
         => request[r].began <= request[request[r].token].expires
    /\ ~request[r].wrote /\ request[r].phase \in {"reread_user", "persist_event", "publish"}
         => ~Exists(request[r].user)

OneTaker == \A r, q \in Requests :
    Took(r) /\ Took(q) /\ request[r].token = request[q].token => r = q

Explains(r, t) ==
    /\ request[r].token = t
    /\ \/ request[r].wrote
       \/ Awaiting(r) /\ request[r].phase # "consume_token"
       \/ Answered(r, "InvalidToken") /\ Expired(t)
       \/ Answered(r, "Validation") /\ ~IsChangeToken(t)
       \/ ~Exists(request[t].user)
       \/ Failed(r)

SpentTokens == \A t \in Requests :
    request[t].op \in Draws /\ Effective(t) /\ t \notin StoredTokens
        => \E r \in Requests : Explains(r, t)

IInv == TypeOK /\ PhasesOK /\ ValuesOK /\ CallsOK /\ StoresOK /\ TakenOK /\ OneTaker /\ SpentTokens

LEMMA InitIInv == Init => IInv
<1> SUFFICES ASSUME Init PROVE IInv
  OBVIOUS
<1>1. HomeUser \in User
  <2>1. HomeLink \in Link
    BY AccountAssumption DEF HomeLink, Link
  <2>2. QED
    BY <2>1, AccountAssumption DEF HomeUser, User
<1>2. TypeOK
  BY <1>1, AccountAssumption
  DEF Init, TypeOK, IdleRequest, Request, Ops, StoreCalls, Ids
<1>3. PhasesOK /\ ValuesOK
  BY DEF Init, PhasesOK, ValuesOK, PhaseFits, ValueFits, IdleRequest
<1>4. CallsOK
  BY <1>2 DEF Init, CallsOK, IdleRequest, Takes, Draws, Acts, TypeOK
<1>5. StoresOK
  BY DEF Init, StoresOK, StoredTokens, Exists, Settled, Ids
<1>6. TakenOK /\ OneTaker /\ SpentTokens
  BY DEF Init, TakenOK, OneTaker, SpentTokens, Took, Effective, Answered, IdleRequest, Takes, Draws
<1>7. QED
  BY <1>2, <1>3, <1>4, <1>5, <1>6 DEF IInv

-----------------------------------------------------------------------------
(* How one step moves one handler *)

Others(r) == \A q \in Requests \ {r} : request'[q] = request[q]

\* The call itself stays, with the token that it presents.
SameCall(r) == /\ Others(r)
               /\ request'[r].op = request[r].op
               /\ request'[r].current = request[r].current
               /\ request'[r].token = request[r].token
               /\ request'[r].began = request[r].began
               /\ request'[r].after = request[r].after

SameLocals(r) == /\ SameCall(r)
                 /\ request'[r].user = request[r].user
                 /\ request'[r].value = request[r].value
                 /\ request'[r].links = request[r].links
                 /\ request'[r].expires = request[r].expires

Typed == request' \in [Requests -> Request]
Results == {"none", "Ok", "Validation", "NotFound", "InvalidToken", "InvalidCredentials", "Failed"}

LEMMA AnswerMoves ==
    ASSUME TypeOK, NEW r \in Requests, NEW result \in Results, Answer(r, result)
    PROVE  /\ Typed /\ SameLocals(r) /\ request'[r].wrote = request[r].wrote
           /\ request'[r].phase = "done" /\ request'[r].result = result
<1>1. request[r] \in Request /\ request \in [Requests -> Request]
  BY DEF TypeOK
<1>2. request'[r] = [request[r] EXCEPT !.phase = "done", !.result = result] /\ Others(r)
  BY <1>1 DEF Answer, Others
<1>3. [request[r] EXCEPT !.phase = "done", !.result = result] \in Request
  BY <1>1 DEF Request, Results
<1>4. Typed
  BY <1>1, <1>3 DEF Answer, Typed
<1>5. QED
  BY <1>1, <1>2, <1>4 DEF Request, SameLocals, SameCall

LEMMA AwaitMoves ==
    ASSUME TypeOK, NEW r \in Requests, NEW call \in StoreCalls, Await(r, call)
    PROVE  /\ Typed /\ SameLocals(r) /\ request'[r].wrote = request[r].wrote
           /\ request'[r].phase = call /\ request'[r].result = request[r].result
<1>1. request[r] \in Request /\ request \in [Requests -> Request]
  BY DEF TypeOK
<1>2. request'[r] = [request[r] EXCEPT !.phase = call] /\ Others(r)
  BY <1>1 DEF Await, Others
<1>3. [request[r] EXCEPT !.phase = call] \in Request
  BY <1>1 DEF Request
<1>4. Typed
  BY <1>1, <1>3 DEF Await, Typed
<1>5. QED
  BY <1>1, <1>2, <1>4 DEF Request, SameLocals, SameCall

Parts == PhasesOK /\ ValuesOK /\ CallsOK /\ StoresOK /\ TakenOK /\ OneTaker /\ SpentTokens

-----------------------------------------------------------------------------
(* The steps of a call under way *)

\* The user of a call is an account that can be acted on, or the one it has just created.
UserFits(r) ==
    /\ request'[r].user \in {request[r].user, None} \/ Settled(request'[r].user)
       \/ (request'[r].user = r /\ request[r].op = "signup" /\ Past(r)')
    /\ request[r].op \in Draws /\ (request'[r].phase = "create_token" \/ Effective(r)')
         => request'[r].user # None
    /\ request[r].op \in Acts => request'[r].user = request[r].user

\* Records are created by signups alone.
Creates(r) == \A u \in Ids : Exists(u)' =>
    Exists(u) \/ (u = r /\ request[r].op = "signup" /\ ~Past(r) /\ Past(r)')

\* A token is stored by the call that drew it.
Stores(r) ==
    /\ \A t \in resets' : t \in resets \/ (t = r /\ request[r].op = "request_password_reset")
    /\ \A t \in verifications' : t \in verifications \/ (t = r /\ AsksForMail(r))
    /\ \A t \in pending' : t \in pending \/ (t = r /\ request[r].op = "initiate_account_link")
    /\ \A t \in StoredTokens' \ StoredTokens :
           t = r /\ ~Past(r) /\ Past(r)' /\ request'[r].user # None
    /\ request[r].op \in Draws /\ Effective(r)' /\ ~Effective(r) => r \in StoredTokens'

\* A call that takes its token out of the store, or took it before.
Consumes(r) ==
    LET t == request[r].token
    IN  /\ request[r].op \in Takes /\ ~Took(r)
        /\ t \in StoredTokens /\ t \notin StoredTokens'
        /\ request'[r].user = request[t].user
        /\ request[r].op # "complete_account_link" => request[r].began <= request[t].expires

Takings(r) ==
    /\ Took(r)' => \/ Took(r) /\ request'[r].user = request[r].user
                   \/ Consumes(r)
    /\ Took(r)' /\ ~request'[r].wrote /\ request'[r].phase \in {"reread_user", "persist_event", "publish"}
         => ~Exists(request[r].user)'

\* What explained that a token is gone does so after the step.
Explanations(r) ==
    /\ \A t \in Requests : Explains(r, t) => Explains(r, t)'
    /\ \A t \in StoredTokens \ StoredTokens' : Explains(r, t)'

Moves(r) ==
    /\ Typed /\ SameCall(r) /\ Awaiting(r) /\ now' = now
    /\ Past(r) => Past(r)' /\ SameLocals(r)
    /\ PhaseFits(r)' /\ ValueFits(r)'
    /\ UserFits(r) /\ Creates(r) /\ Stores(r) /\ Takings(r) /\ Explanations(r)

LEMMA MovesKeep == ASSUME IInv, NEW r \in Requests, Moves(r) PROVE Typed /\ Parts'
<1>1. /\ request[r] \in Request /\ request \in [Requests -> Request] /\ Typed
      /\ StoredTokens \subseteq Requests /\ SameCall(r) /\ Others(r) /\ now' = now
  BY DEF IInv, TypeOK, StoredTokens, Moves, SameCall
\* the request of a token or of an account keeps what it has
<1>2. \A q \in Requests : Past(q) =>
        /\ Past(q)' /\ request'[q].op = request[q].op /\ request'[q].user = request[q].user
        /\ request'[q].value = request[q].value /\ request'[q].expires = request[q].expires
  BY <1>1 DEF Moves, SameLocals, SameCall, Others, Past
<1>3. \A q \in Requests :
        /\ request'[q].op = request[q].op /\ request'[q].token = request[q].token
        /\ request'[q].began = request[q].began /\ request'[q].after = request[q].after
  BY <1>1 DEF SameCall, Others
<1>4. \A q \in Requests : request[q].op \in Takes =>
        /\ request[q].token \in Requests /\ Past(request[q].token)
        /\ Fits(request[q].op, request[request[q].token].op)
  BY DEF IInv, CallsOK
<1>5. \A u \in Ids : Settled(u) => Settled(u)'
  BY <1>2 DEF Settled, Ids
<1>6. \A q \in Requests : \A p \in request[q].after :
        p \in Requests /\ p # r /\ request'[p] = request[p] /\ Answered(p, "Ok")
  BY <1>1 DEF IInv, CallsOK, Moves, Awaiting, Answered, Others, Request
<1>7. PhasesOK' /\ ValuesOK'
  BY <1>1 DEF IInv, PhasesOK, ValuesOK, PhaseFits, ValueFits, Moves, Others, Past, Relinks
<1>8. \A q \in Requests : request'[q].user \in Ids \cup {None}
  BY <1>1 DEF Typed, Request
<1>9. Resident # None /\ None \notin Requests /\ Resident \notin Requests
  BY AccountAssumption
<1>10. CallsOK'
  <2>1. \A q \in Requests :
          /\ request'[q].token # None => request'[q].op \in Takes
          /\ request'[q].began <= now'
          /\ \A p \in request'[q].after : Answered(p, "Ok")'
    BY <1>1, <1>3, <1>6 DEF IInv, CallsOK, Answered
  <2>2. ASSUME NEW q \in Requests, request'[q].op \in Takes
        PROVE  /\ request'[q].token \in Requests
               /\ Fits(request'[q].op, request'[request'[q].token].op)
               /\ Past(request[q].token)'
    <3>1. PICK t \in Requests : t = request[q].token /\ t = request'[q].token
      BY <1>3, <1>4, <2>2
    <3>2. Fits(request[q].op, request[t].op) /\ Past(t)
      BY <1>3, <1>4, <2>2, <3>1
    <3>3. Past(request[q].token)' = Past(t)'
      BY <3>1 DEF Past
    <3>4. QED
      BY <1>2, <1>3, <3>1, <3>2, <3>3
  <2>3. \A q \in Requests : request'[q].user # None => Settled(request[q].user)'
    <3>1. ASSUME NEW q \in Requests, request'[q].user # None
          PROVE  Settled(request[q].user)'
      <4>1. PICK u \in Ids : u = request'[q].user
        BY <1>8, <3>1
      <4>2. Settled(u) \/ (u = r /\ q = r /\ request[r].op = "signup" /\ Past(r)')
        BY <1>1, <3>1, <4>1 DEF IInv, CallsOK, Others, Moves, UserFits
      <4>3. Settled(u)'
        BY <1>3, <1>5, <4>2 DEF Settled
      <4>4. QED
        BY <4>1, <4>3 DEF Settled
    <3>2. QED
      BY <3>1
  <2>4. \A q \in Requests :
          request'[q].op \in Draws /\ (request'[q].phase = "create_token" \/ Effective(q)')
            => request'[q].user # None
    BY <1>1, <1>3 DEF IInv, CallsOK, Others, Moves, UserFits, Effective, Answered
  <2>5. \A q \in Requests : request'[q].op \in Acts => request'[q].user # None
    BY <1>1, <1>3 DEF IInv, CallsOK, Others, Moves, UserFits
  <2>6. QED
    BY <2>1, <2>2, <2>3, <2>4, <2>5 DEF CallsOK
\* no other record than that of a signup under way comes to be
<1>11. \A u \in Ids : Settled(u) /\ Exists(u)' => Exists(u)
  BY <1>9 DEF Moves, Creates, Settled, Ids
<1>12. \A t \in StoredTokens' : t \in StoredTokens \/ (t = r /\ ~Past(r) /\ Past(r)' /\ request'[r].user # None)
  BY DEF Moves, Stores
<1>13. StoresOK'
  <2>1. \A u \in Ids : Exists(u)' => Settled(u)'
    BY <1>3, <1>5 DEF IInv, StoresOK, Moves, Creates, Settled
  <2>2. \A t \in StoredTokens' : t \in Requests /\ Past(t)' /\ request'[t].user # None
    BY <1>1, <1>2, <1>12 DEF IInv, StoresOK
  <2>3. /\ \A t \in resets' : request'[t].op = "request_password_reset"
        /\ \A t \in verifications' : AsksForMail(t)'
        /\ \A t \in pending' : request'[t].op = "initiate_account_link"
    BY <1>1, <1>3, <2>2 DEF IInv, StoresOK, Moves, Stores, AsksForMail, StoredTokens
  <2>4. QED
    BY <2>1, <2>2, <2>3 DEF StoresOK
<1>14. \A q \in Requests \ {r} : (Took(q)' <=> Took(q)) /\ request'[q] = request[q]
  BY <1>1 DEF Others, Took
<1>15. TakenOK'
  <2> SUFFICES ASSUME NEW q \in Requests, Took(q)'
               PROVE  /\ request'[q].token \notin StoredTokens'
                      /\ request'[q].user = request'[request'[q].token].user /\ request'[q].user # None
                      /\ request'[q].op # "complete_account_link"
                           => request'[q].began <= request'[request'[q].token].expires
                      /\ ~request'[q].wrote /\ request'[q].phase \in {"reread_user", "persist_event", "publish"}
                           => ~Exists(request[q].user)'
    BY DEF TakenOK
  <2>1. request[q].op \in Takes
    BY <1>3 DEF Took
  <2>2. PICK t \in Requests : t = request[q].token /\ t = request'[q].token
    BY <1>3, <1>4, <2>1
  <2>3. /\ Past(t) /\ request'[t].user = request[t].user /\ request'[t].expires = request[t].expires
    BY <1>2, <1>4, <2>1, <2>2
  <2>4. /\ request'[q].user = request[t].user /\ request'[q].user # None
        /\ request[q].op # "complete_account_link" => request[q].began <= request[t].expires
        /\ t \notin StoredTokens'
    <3>1. CASE Took(q) /\ request'[q].user = request[q].user
      BY <1>12, <2>2, <2>3, <3>1 DEF IInv, TakenOK
    <3>2. CASE q = r /\ Consumes(r)
      BY <2>2, <3>2 DEF Consumes, IInv, StoresOK
    <3>3. QED
      BY <1>14, <3>1, <3>2 DEF Moves, Takings
  <2>5. ~request'[q].wrote /\ request'[q].phase \in {"reread_user", "persist_event", "publish"}
          => ~Exists(request[q].user)'
    <3>1. CASE q = r
      BY <3>1 DEF Moves, Takings
    <3>2. CASE q # r
      <4>1. PICK u \in Ids : u = request[q].user /\ u = request'[q].user
        BY <1>8, <1>14, <2>4, <3>2
      <4>2. Settled(u)
        BY <2>4, <4>1 DEF IInv, CallsOK
      <4>3. ~request'[q].wrote /\ request'[q].phase \in {"reread_user", "persist_event", "publish"} => ~Exists(u)
        BY <1>14, <3>2, <4>1 DEF IInv, TakenOK
      <4>4. Exists(request[q].user)' = Exists(u)'
        BY <4>1 DEF Exists
      <4>5. QED
        BY <1>11, <4>2, <4>3, <4>4
    <3>3. QED
      BY <3>1, <3>2
  <2>6. QED
    BY <1>3, <2>2, <2>3, <2>4, <2>5
<1>16. OneTaker'
  <2> SUFFICES ASSUME NEW p \in Requests, NEW q \in Requests, Took(p)', Took(q)',
                      request'[p].token = request'[q].token
               PROVE  p = q
    BY DEF OneTaker
  <2>1. request[p].token = request[q].token
    BY <1>3
  <2>2. CASE Took(p) /\ Took(q)
    BY <2>1, <2>2 DEF IInv, OneTaker
  <2>3. CASE ~Took(p) \/ ~Took(q)
    <3>1. Consumes(r) /\ (p = r \/ q = r)
      BY <1>14, <2>3 DEF Moves, Takings
    <3>2. \A s \in Requests : Took(s) => request[s].token # request[r].token
      BY <3>1 DEF Consumes, IInv, TakenOK
    <3>3. QED
      BY <1>14, <2>1, <3>1, <3>2
  <2>4. QED
    BY <2>2, <2>3
<1>17. SpentTokens'
  <2> SUFFICES ASSUME NEW t \in Requests, request'[t].op \in Draws, Effective(t)', t \notin StoredTokens'
               PROVE  \E q \in Requests : Explains(q, t)'
    BY DEF SpentTokens
  <2>1. CASE t \in StoredTokens
    BY <2>1 DEF Moves, Explanations
  <2>2. CASE t \notin StoredTokens
    <3>1. Effective(t)
      BY <1>1, <1>3, <2>2 DEF Moves, Stores, Others, Effective, Answered
    <3>2. PICK q \in Requests : Explains(q, t)
      BY <1>3, <2>2, <3>1 DEF IInv, SpentTokens
    <3>3. CASE q = r
      BY <3>2, <3>3 DEF Moves, Explanations
    <3>4. CASE q # r
      <4>1. Past(t)
        BY <3>1 DEF Past, Effective, Answered
      <4>2. request[t].user # None
        BY <1>3, <3>1 DEF IInv, CallsOK
      <4>3. PICK u \in Ids : u = request[t].user /\ u = request'[t].user
        BY <1>1, <1>2, <4>1, <4>2 DEF Request
      <4>4. Settled(u)
        BY <4>2, <4>3 DEF IInv, CallsOK
      <4>5. ~Exists(request[t].user) => ~Exists(request[t].user)'
        BY <1>11, <4>3, <4>4 DEF Exists
      <4>6. (Expired(t)' <=> Expired(t)) /\ (IsChangeToken(t)' <=> IsChangeToken(t))
        BY <1>1, <1>2, <4>1 DEF Expired, IsChangeToken
      <4>7. Explains(q, t)'
        BY <1>14, <3>2, <3>4, <4>5, <4>6 DEF Explains, Answered, Awaiting, Failed
      <4>8. QED
        BY <4>7
    <3>5. QED
      BY <3>3, <3>4
  <2>3. QED
    BY <2>1, <2>2
<1>18. QED
  BY <1>1, <1>7, <1>10, <1>13, <1>15, <1>16, <1>17 DEF Parts

-----------------------------------------------------------------------------
(* A call begins *)

LEMMA BeginKeeps ==
    ASSUME IInv, NEW r \in Requests, NEW call \in Request, Begin(r, call),
           call.phase \notin {"idle", "done", "persist_event", "publish", "reread_user"},
           ~call.wrote, call.result = "none",
           call.user # None => Settled(call.user),
           call.phase = "create_token" \/ call.op \in Acts => call.user # None,
           call.op \notin Takes => call.token = None,
           call.op \in Takes => /\ call.phase = "consume_token" /\ call.token \in Requests
                                /\ Fits(call.op, request[call.token].op) /\ Past(call.token),
           call.phase \notin {"create_user", "update_oauth_links", "set_password_hash", "update_email"},
           call.phase = "consume_token" => call.op \in Takes,
           call.phase = "create_token" => call.op \in Draws,
           call.phase = "get_user_by_email" => call.op \in {"signup", "request_password_reset"},
           call.op \in {"signup", "request_email_change"} => call.value \in Emails,
           call.op = "request_email_verification" => call.value = None,
           call.op \in {"change_password", "complete_password_reset"} => call.value \in Passwords,
           call.op = "update_profile" => call.value \in Names,
           call.op \in {"initiate_account_link", "unlink_account"} => call.value \in Providers,
           call.op = "signup" => call.current \in Passwords
    PROVE  Typed /\ Parts'
<1>1. request[r] \in Request /\ request \in [Requests -> Request] /\ now \in Nat
  BY DEF IInv, TypeOK
<1>2. /\ request' = [request EXCEPT ![r] = [call EXCEPT !.began = now, !.after = AnsweredOk]]
      /\ request[r].phase = "idle"
      /\ UNCHANGED <<now, users, resets, verifications, pending>>
  BY DEF Begin, Idle, tokens
<1>3. /\ Others(r)
      /\ request'[r] = [call EXCEPT !.began = now, !.after = AnsweredOk]
  BY <1>1, <1>2 DEF Others
<1>4. request'[r] \in Request
  BY <1>1, <1>3 DEF Request, AnsweredOk
<1>5. Typed
  BY <1>1, <1>2, <1>3, <1>4 DEF Typed
<1>6. /\ request'[r].op = call.op /\ request'[r].phase = call.phase /\ request'[r].user = call.user
      /\ request'[r].value = call.value /\ request'[r].current = call.current
      /\ request'[r].token = call.token /\ request'[r].wrote = call.wrote
      /\ request'[r].result = "none" /\ request'[r].began = now /\ request'[r].after = AnsweredOk
  BY <1>3 DEF Request
<1>7. ~Past(r) /\ ~Past(r)' /\ ~Took(r)' /\ ~Effective(r) /\ ~Effective(r)' /\ r \notin StoredTokens
  BY <1>2, <1>6 DEF IInv, StoresOK, Past, Took, Effective, Answered
<1>8. /\ \A q \in Requests \ {r} : request'[q] = request[q]
      /\ \A q \in Requests : Past(q) => Past(q)' /\ request'[q] = request[q]
      /\ \A q \in Requests : Took(q)' => Took(q) /\ q # r
  BY <1>3, <1>7 DEF Others, Past, Took
<1>9. \A u \in Ids : Settled(u) => Settled(u)'
  BY <1>8 DEF Settled, Ids
<1>10. \A q \in Requests : request[q].op \in Takes =>
        /\ request[q].token \in Requests /\ Past(request[q].token)
        /\ Fits(request[q].op, request[request[q].token].op)
  BY DEF IInv, CallsOK
<1>11. PhasesOK' /\ ValuesOK'
  BY <1>6, <1>8 DEF IInv, PhasesOK, ValuesOK, PhaseFits, ValueFits, Past, Relinks
<1>12. CallsOK'
  <2>1. \A q \in Requests : \A p \in request[q].after :
          p \in Requests /\ Answered(p, "Ok") /\ request'[p] = request[p]
    BY <1>1, <1>8 DEF IInv, CallsOK, Request, Past, Answered
  <2>2. \A q \in Requests : \A p \in request'[q].after : Answered(p, "Ok")'
    <3>1. \A p \in Requests : Answered(p, "Ok") => Answered(p, "Ok")'
      BY <1>8 DEF Answered, Past
    <3>2. \A p \in AnsweredOk : p \in Requests /\ Answered(p, "Ok")
      BY DEF AnsweredOk
    <3>3. QED
      BY <1>6, <1>8, <2>1, <3>1, <3>2
  <2>3. \A q \in Requests : request'[q].op \in Takes =>
          /\ request'[q].token \in Requests
          /\ Fits(request'[q].op, request'[request'[q].token].op)
          /\ Past(request[q].token)'
    <3> SUFFICES ASSUME NEW q \in Requests, request'[q].op \in Takes
                 PROVE  /\ request'[q].token \in Requests
                        /\ Fits(request'[q].op, request'[request'[q].token].op)
                        /\ Past(request[q].token)'
      OBVIOUS
    <3>1. PICK t \in Requests : /\ t = request'[q].token /\ Past(t)
                                /\ Fits(request'[q].op, request[t].op)
      BY <1>6, <1>8, <1>10
    <3>2. Past(request[q].token)' = Past(t)'
      BY <3>1 DEF Past
    <3>3. QED
      BY <1>8, <3>1, <3>2
  <2>4. \A q \in Requests : request'[q].user # None => Settled(request[q].user)'
    <3> SUFFICES ASSUME NEW q \in Requests, request'[q].user # None
                 PROVE  Settled(request[q].user)'
      OBVIOUS
    <3>1. PICK u \in Ids : u = request'[q].user
      BY <1>5 DEF Typed, Request
    <3>2. Settled(u)
      BY <1>6, <1>8, <3>1 DEF IInv, CallsOK
    <3>3. QED
      BY <1>9, <3>1, <3>2 DEF Settled
  <2>5. \A q \in Requests : request'[q].began <= now'
    BY <1>1, <1>2, <1>6, <1>8 DEF IInv, CallsOK
  <2>6. \A q \in Requests :
          /\ request'[q].token # None => request'[q].op \in Takes
          /\ request'[q].op \in Draws /\ (request'[q].phase = "create_token" \/ Effective(q)')
               => request'[q].user # None
          /\ request'[q].op \in Acts => request'[q].user # None
    BY <1>6, <1>7, <1>8 DEF IInv, CallsOK, Effective, Answered
  <2>7. QED
    BY <2>2, <2>3, <2>4, <2>5, <2>6 DEF CallsOK
<1>13. StoresOK'
  <2>1. \A u \in Ids : Exists(u)' => Settled(u)'
    BY <1>2, <1>9 DEF IInv, StoresOK, Exists
  <2>2. \A t \in StoredTokens : t \in Requests /\ Past(t) /\ request'[t] = request[t] /\ Past(t)'
    BY <1>8 DEF IInv, StoresOK, StoredTokens, TypeOK
  <2>3. StoredTokens' = StoredTokens
    BY <1>2 DEF StoredTokens
  <2>4. /\ \A t \in resets' : request'[t].op = "request_password_reset"
        /\ \A t \in verifications' : AsksForMail(t)'
        /\ \A t \in pending' : request'[t].op = "initiate_account_link"
    BY <1>2, <2>2 DEF IInv, StoresOK, AsksForMail, StoredTokens
  <2>5. QED
    BY <2>1, <2>2, <2>3, <2>4 DEF StoresOK, IInv
<1>14. StoredTokens' = StoredTokens /\ \A u \in Ids : Exists(u)' <=> Exists(u)
  BY <1>2 DEF StoredTokens, Exists
<1>15. TakenOK' /\ OneTaker'
  <2>1. ASSUME NEW q \in Requests, Took(q)'
        PROVE  /\ Took(q) /\ request'[q] = request[q] /\ request[q].token \in Requests
               /\ request'[request[q].token] = request[request[q].token]
    BY <1>8, <1>10, <2>1 DEF Took
  <2>2. TakenOK'
    <3>1. \A q \in Requests : Took(q)' => (Exists(request[q].user)' <=> Exists(request[q].user))
      BY <1>2, <2>1 DEF Exists
    <3>2. QED
      BY <1>14, <2>1, <3>1 DEF IInv, TakenOK
  <2>3. OneTaker'
    BY <2>1 DEF IInv, OneTaker
  <2>4. QED
    BY <2>2, <2>3
<1>16. SpentTokens'
  <2> SUFFICES ASSUME NEW t \in Requests, request'[t].op \in Draws, Effective(t)', t \notin StoredTokens'
               PROVE  \E q \in Requests : Explains(q, t)'
    BY DEF SpentTokens
  <2>1. t # r /\ Effective(t) /\ request'[t] = request[t]
    BY <1>7, <1>8 DEF Effective, Answered
  <2>2. PICK q \in Requests : Explains(q, t)
    BY <1>14, <2>1 DEF IInv, SpentTokens
  <2>3. CASE q # r
    <3>1. request'[q] = request[q]
      BY <1>8, <2>3
    <3>2. QED
      BY <1>2, <2>1, <2>2, <3>1 DEF Explains, Answered, Awaiting, Failed, Exists, Expired, IsChangeToken
  <2>4. CASE q = r
    <3>1. request[r].token \in Requests \cup {None} /\ request[r].token = t
      BY <1>1, <2>2, <2>4 DEF Request, Explains
    <3>2. FALSE
      BY <1>2, <3>1, AccountAssumption DEF IInv, PhasesOK, PhaseFits, CallsOK, Takes
    <3>3. QED
      BY <3>2
  <2>5. QED
    BY <2>3, <2>4
<1>17. QED
  BY <1>5, <1>11, <1>12, <1>13, <1>15, <1>16 DEF Parts

LEMMA PasswordStarts == ASSUME IInv, NEW r \in Requests, StartPassword(r) PROVE Typed /\ Parts'
<1>1. CASE StartChangePassword(r)
  <2>1. PICK u \in KnownUsers, p \in Passwords, new \in Passwords :
          Begin(r, [IdleRequest EXCEPT !.op = "change_password", !.phase = "get_user_by_id",
                                       !.user = u, !.current = p, !.value = new])
    BY <1>1 DEF StartChangePassword
  <2> DEFINE call == [IdleRequest EXCEPT !.op = "change_password", !.phase = "get_user_by_id",
                                         !.user = u, !.current = p, !.value = new]
  <2>2. u \in Ids /\ Settled(u) /\ u # None
    BY AccountAssumption DEF KnownUsers, Ids, Settled, Answered, Past
  <2>3. call \in Request /\ call.op = "change_password" /\ call.phase = "get_user_by_id"
        /\ call.user = u /\ call.value = new /\ call.token = None /\ call.result = "none" /\ ~call.wrote
    BY <2>2 DEF IdleRequest, Request, Ops, StoreCalls
  <2>4. Begin(r, call)
    BY <2>1
  <2> HIDE DEF call
  <2>5. QED
    BY <2>2, <2>3, <2>4, BeginKeeps DEF Takes, Acts
<1>2. CASE StartRequestReset(r)
  <2>1. PICK e \in Emails :
          Begin(r, [IdleRequest EXCEPT !.op = "request_password_reset",
                                       !.phase = "get_user_by_email", !.value = e])
    BY <1>2 DEF StartRequestReset
  <2> DEFINE call == [IdleRequest EXCEPT !.op = "request_password_reset",
                                         !.phase = "get_user_by_email", !.value = e]
  <2>2. call \in Request /\ call.op = "request_password_reset" /\ call.phase = "get_user_by_email"
        /\ call.user = None /\ call.token = None /\ call.result = "none" /\ ~call.wrote
    BY DEF IdleRequest, Request, Ops, StoreCalls
  <2>3. Begin(r, call)
    BY <2>1
  <2> HIDE DEF call
  <2>4. QED
    BY <2>2, <2>3, BeginKeeps DEF Takes, Acts
<1>3. CASE StartCompleteReset(r)
  <2>1. PICK t \in Drawn({"request_password_reset"}), new \in Passwords :
          Begin(r, [IdleRequest EXCEPT !.op = "complete_password_reset", !.phase = "consume_token",
                                       !.token = t, !.value = new])
    BY <1>3 DEF StartCompleteReset
  <2> DEFINE call == [IdleRequest EXCEPT !.op = "complete_password_reset", !.phase = "consume_token",
                                         !.token = t, !.value = new]
  <2>2. t \in Requests /\ request[t].op = "request_password_reset" /\ Past(t)
    BY DEF Drawn, Answered, Past
  <2>3. call \in Request /\ call.op = "complete_password_reset" /\ call.phase = "consume_token"
        /\ call.user = None /\ call.value = new /\ call.token = t /\ call.result = "none" /\ ~call.wrote
    BY <2>2 DEF IdleRequest, Request, Ops, StoreCalls
  <2>4. Begin(r, call)
    BY <2>1
  <2> HIDE DEF call
  <2>5. QED
    BY <2>2, <2>3, <2>4, BeginKeeps DEF Takes, Acts, Fits
<1>4. QED
  BY <1>1, <1>2, <1>3 DEF StartPassword

LEMMA AddressStarts == ASSUME IInv, NEW r \in Requests, StartAddress(r) PROVE Typed /\ Parts'
<1>0. now + TokenTtl \in Nat
  BY AccountAssumption DEF IInv, TypeOK
<1>1. CASE StartRequestVerification(r)
  <2>1. PICK u \in KnownUsers :
          Begin(r, [IdleRequest EXCEPT !.op = "request_email_verification", !.phase = "create_token",
                                       !.user = u, !.expires = now + TokenTtl])
    BY <1>1 DEF StartRequestVerification
  <2> DEFINE call == [IdleRequest EXCEPT !.op = "request_email_verification", !.phase = "create_token",
                                         !.user = u, !.expires = now + TokenTtl]
  <2>2. u \in Ids /\ Settled(u) /\ u # None
    BY AccountAssumption DEF KnownUsers, Ids, Settled, Answered, Past
  <2>3. call \in Request /\ call.op = "request_email_verification" /\ call.phase = "create_token"
        /\ call.user = u /\ call.value = None /\ call.token = None /\ call.result = "none" /\ ~call.wrote
    BY <1>0, <2>2 DEF IdleRequest, Request, Ops, StoreCalls
  <2>4. Begin(r, call)
    BY <2>1
  <2> HIDE DEF call
  <2>5. QED
    BY <2>2, <2>3, <2>4, BeginKeeps DEF Takes, Acts, Draws
<1>2. CASE StartRequestChange(r)
  <2>1. PICK u \in KnownUsers, e \in Emails :
          Begin(r, [IdleRequest EXCEPT !.op = "request_email_change", !.phase = "create_token",
                                       !.user = u, !.value = e, !.expires = now + TokenTtl])
    BY <1>2 DEF StartRequestChange
  <2> DEFINE call == [IdleRequest EXCEPT !.op = "request_email_change", !.phase = "create_token",
                                         !.user = u, !.value = e, !.expires = now + TokenTtl]
  <2>2. u \in Ids /\ Settled(u) /\ u # None
    BY AccountAssumption DEF KnownUsers, Ids, Settled, Answered, Past
  <2>3. call \in Request /\ call.op = "request_email_change" /\ call.phase = "create_token"
        /\ call.user = u /\ call.value = e /\ call.token = None /\ call.result = "none" /\ ~call.wrote
    BY <1>0, <2>2 DEF IdleRequest, Request, Ops, StoreCalls
  <2>4. Begin(r, call)
    BY <2>1
  <2> HIDE DEF call
  <2>5. QED
    BY <2>2, <2>3, <2>4, BeginKeeps DEF Takes, Acts, Draws
<1>3. CASE StartVerify(r)
  <2>1. PICK op \in {"verify_email", "confirm_email_change"},
             t \in Drawn({"request_email_verification", "request_email_change"}) :
          Begin(r, [IdleRequest EXCEPT !.op = op, !.phase = "consume_token", !.token = t])
    BY <1>3 DEF StartVerify
  <2> DEFINE call == [IdleRequest EXCEPT !.op = op, !.phase = "consume_token", !.token = t]
  <2>2. /\ t \in Requests /\ Past(t)
        /\ request[t].op \in {"request_email_verification", "request_email_change"}
    BY DEF Drawn, Answered, Past
  <2>3. call \in Request /\ call.op = op /\ call.phase = "consume_token"
        /\ call.user = None /\ call.token = t /\ call.result = "none" /\ ~call.wrote
    BY <2>2 DEF IdleRequest, Request, Ops, StoreCalls
  <2>4. Begin(r, call)
    BY <2>1
  <2> HIDE DEF call
  <2>5. QED
    BY <2>2, <2>3, <2>4, BeginKeeps DEF Takes, Acts, Fits
<1>4. QED
  BY <1>1, <1>2, <1>3 DEF StartAddress

LEMMA LinkStarts == ASSUME IInv, NEW r \in Requests, StartLink(r) PROVE Typed /\ Parts'
<1>1. CASE StartInitiate(r)
  <2>1. PICK u \in KnownUsers, p \in Providers :
          Begin(r, [IdleRequest EXCEPT !.op = "initiate_account_link", !.phase = "create_token",
                                       !.user = u, !.value = p])
    BY <1>1 DEF StartInitiate
  <2> DEFINE call == [IdleRequest EXCEPT !.op = "initiate_account_link", !.phase = "create_token",
                                         !.user = u, !.value = p]
  <2>2. u \in Ids /\ Settled(u) /\ u # None
    BY AccountAssumption DEF KnownUsers, Ids, Settled, Answered, Past
  <2>3. call \in Request /\ call.op = "initiate_account_link" /\ call.phase = "create_token"
        /\ call.user = u /\ call.value = p /\ call.token = None /\ call.result = "none" /\ ~call.wrote
    BY <2>2 DEF IdleRequest, Request, Ops, StoreCalls
  <2>4. Begin(r, call)
    BY <2>1
  <2> HIDE DEF call
  <2>5. QED
    BY <2>2, <2>3, <2>4, BeginKeeps DEF Takes, Acts, Draws
<1>2. CASE StartUnlink(r)
  <2>1. PICK u \in KnownUsers, p \in Providers :
          Begin(r, [IdleRequest EXCEPT !.op = "unlink_account", !.phase = "get_user_by_id",
                                       !.user = u, !.value = p])
    BY <1>2 DEF StartUnlink
  <2> DEFINE call == [IdleRequest EXCEPT !.op = "unlink_account", !.phase = "get_user_by_id",
                                         !.user = u, !.value = p]
  <2>2. u \in Ids /\ Settled(u) /\ u # None
    BY AccountAssumption DEF KnownUsers, Ids, Settled, Answered, Past
  <2>3. call \in Request /\ call.op = "unlink_account" /\ call.phase = "get_user_by_id"
        /\ call.user = u /\ call.value = p /\ call.token = None /\ call.result = "none" /\ ~call.wrote
    BY <2>2 DEF IdleRequest, Request, Ops, StoreCalls
  <2>4. Begin(r, call)
    BY <2>1
  <2> HIDE DEF call
  <2>5. QED
    BY <2>2, <2>3, <2>4, BeginKeeps DEF Takes, Acts
<1>3. CASE StartComplete(r)
  <2>1. PICK t \in Drawn({"initiate_account_link"}) :
          Begin(r, [IdleRequest EXCEPT !.op = "complete_account_link", !.phase = "consume_token",
                                       !.token = t])
    BY <1>3 DEF StartComplete
  <2> DEFINE call == [IdleRequest EXCEPT !.op = "complete_account_link", !.phase = "consume_token",
                                         !.token = t]
  <2>2. t \in Requests /\ request[t].op = "initiate_account_link" /\ Past(t)
    BY DEF Drawn, Answered, Past
  <2>3. call \in Request /\ call.op = "complete_account_link" /\ call.phase = "consume_token"
        /\ call.user = None /\ call.token = t /\ call.result = "none" /\ ~call.wrote
    BY <2>2 DEF IdleRequest, Request, Ops, StoreCalls
  <2>4. Begin(r, call)
    BY <2>1
  <2> HIDE DEF call
  <2>5. QED
    BY <2>2, <2>3, <2>4, BeginKeeps DEF Takes, Acts, Fits
<1>4. QED
  BY <1>1, <1>2, <1>3 DEF StartLink

LEMMA StartKeeps == ASSUME IInv, NEW r \in Requests, Start(r) PROVE Typed /\ Parts'
<1>1. CASE StartSignup(r)
  <2>1. PICK e \in Emails, p \in Passwords :
          Begin(r, [IdleRequest EXCEPT !.op = "signup", !.phase = "get_user_by_email",
                                       !.value = e, !.current = p])
    BY <1>1 DEF StartSignup
  <2> DEFINE call == [IdleRequest EXCEPT !.op = "signup", !.phase = "get_user_by_email",
                                         !.value = e, !.current = p]
  <2>2. call \in Request /\ call.op = "signup" /\ call.phase = "get_user_by_email"
        /\ call.user = None /\ call.value = e /\ call.current = p /\ call.token = None
        /\ call.result = "none" /\ ~call.wrote
    BY DEF IdleRequest, Request, Ops, StoreCalls
  <2>3. Begin(r, call)
    BY <2>1
  <2> HIDE DEF call
  <2>4. QED
    BY <2>2, <2>3, BeginKeeps DEF Takes, Acts
<1>2. CASE StartProfile(r)
  <2>1. PICK u \in KnownUsers, n \in Names :
          Begin(r, [IdleRequest EXCEPT !.op = "update_profile", !.phase = "update_profile",
                                       !.user = u, !.value = n])
    BY <1>2 DEF StartProfile
  <2> DEFINE call == [IdleRequest EXCEPT !.op = "update_profile", !.phase = "update_profile",
                                         !.user = u, !.value = n]
  <2>2. u \in Ids /\ Settled(u) /\ u # None
    BY AccountAssumption DEF KnownUsers, Ids, Settled, Answered, Past
  <2>3. call \in Request /\ call.op = "update_profile" /\ call.phase = "update_profile"
        /\ call.user = u /\ call.value = n /\ call.token = None /\ call.result = "none" /\ ~call.wrote
    BY <2>2 DEF IdleRequest, Request, Ops, StoreCalls
  <2>4. Begin(r, call)
    BY <2>1
  <2> HIDE DEF call
  <2>5. QED
    BY <2>2, <2>3, <2>4, BeginKeeps DEF Takes, Acts
<1>3. CASE StartDelete(r)
  <2>1. PICK u \in KnownUsers :
          Begin(r, [IdleRequest EXCEPT !.op = "delete_account", !.phase = "delete_user", !.user = u])
    BY <1>3 DEF StartDelete
  <2> DEFINE call == [IdleRequest EXCEPT !.op = "delete_account", !.phase = "delete_user", !.user = u]
  <2>2. u \in Ids /\ Settled(u) /\ u # None
    BY AccountAssumption DEF KnownUsers, Ids, Settled, Answered, Past
  <2>3. call \in Request /\ call.op = "delete_account" /\ call.phase = "delete_user"
        /\ call.user = u /\ call.token = None /\ call.result = "none" /\ ~call.wrote
    BY <2>2 DEF IdleRequest, Request, Ops, StoreCalls
  <2>4. Begin(r, call)
    BY <2>1
  <2> HIDE DEF call
  <2>5. QED
    BY <2>2, <2>3, <2>4, BeginKeeps DEF Takes, Acts
<1>4. QED
  BY <1>1, <1>2, <1>3, PasswordStarts, AddressStarts, LinkStarts DEF Start

-----------------------------------------------------------------------------
(* Answers, and steps to the next store call *)

Handling(r) == /\ request[r] \in Request /\ request \in [Requests -> Request]
               /\ users \in [Ids -> User \cup {None}]
               /\ PhaseFits(r) /\ ValueFits(r)
               /\ request[r].user \in Ids \cup {None}
               /\ request[r].token # None => request[r].op \in Takes
               /\ request[r].op \in Draws /\ (request[r].phase = "create_token" \/ Effective(r))
                     => request[r].user # None
               /\ request[r].op \in Acts => request[r].user # None
               /\ Took(r) => request[r].user # None

LEMMA HandlingFacts == ASSUME IInv, NEW r \in Requests PROVE Handling(r)
BY DEF IInv, TypeOK, PhasesOK, ValuesOK, CallsOK, TakenOK, Handling, Request

LEMMA AnswerKeeps ==
    ASSUME IInv, NEW r \in Requests, NEW result \in Results, Awaiting(r), Answer(r, result),
           UNCHANGED <<now, users, tokens>>,
           result = "Ok" => Effective(r),
           \A t \in Requests : Explains(r, t) =>
               request[r].wrote \/ result = "Failed" \/ ~Exists(request[t].user)
    PROVE  Typed /\ Parts'
<1>1. /\ Typed /\ SameLocals(r) /\ SameCall(r) /\ request'[r].wrote = request[r].wrote
      /\ request'[r].phase = "done" /\ request'[r].result = result
  BY AnswerMoves DEF IInv, SameLocals
<1>2. UNCHANGED <<now, users, resets, verifications, pending>>
  BY DEF tokens
<1>3. Handling(r)
  BY HandlingFacts
<1>4. /\ StoredTokens' = StoredTokens
      /\ \A u \in Ids : Exists(u)' <=> Exists(u)
  BY <1>2 DEF StoredTokens, Exists
<1>5. PhaseFits(r)' /\ ValueFits(r)'
  BY <1>1, <1>3 DEF Handling, PhaseFits, ValueFits, SameLocals, SameCall, Past
<1>6. /\ UserFits(r) /\ Creates(r) /\ Stores(r) /\ Takings(r)
      /\ Past(r) => Past(r)' /\ SameLocals(r)
  BY <1>1, <1>2, <1>3, <1>4 DEF Handling, SameLocals, SameCall, UserFits, Creates, Stores, Takings,
    Past, Effective, Answered, Took
<1>7. ASSUME NEW t \in Requests, Explains(r, t) PROVE Explains(r, t)'
  <2>1. request'[t].user = request[t].user /\ request'[r].token = t
    BY <1>1, <1>7 DEF SameLocals, SameCall, Others, Explains
  <2>2. request'[r].wrote \/ Failed(r)' \/ ~Exists(request[t].user)'
    BY <1>1, <1>2, <1>7, <2>1 DEF Failed, Answered, Exists
  <2>3. QED
    BY <2>1, <2>2 DEF Explains
<1>8. Moves(r)
  BY <1>1, <1>2, <1>4, <1>5, <1>6, <1>7 DEF Moves, Explanations
<1>9. QED
  BY <1>8, MovesKeep

\* The handler goes on to a call that it has earned.
LEMMA AwaitKeeps ==
    ASSUME IInv, NEW r \in Requests, NEW call \in StoreCalls, Awaiting(r), Await(r, call),
           UNCHANGED <<now, users, tokens>>,
           \/ call = "create_user" /\ request[r].op = "signup"
           \/ call = "set_password_hash" /\ request[r].op = "change_password"
           \/ call = "persist_event" /\ request[r].phase = "reread_user" /\ Exists(request[r].user)
           \/ call = "publish" /\ request[r].phase = "persist_event",
           call \in {"create_user", "set_password_hash"} => ~Past(r)
    PROVE  Typed /\ Parts'
<1>1. /\ Typed /\ SameLocals(r) /\ SameCall(r) /\ request'[r].wrote = request[r].wrote
      /\ request'[r].phase = call /\ request'[r].result = request[r].result
  BY AwaitMoves DEF IInv, SameLocals
<1>2. UNCHANGED <<now, users, resets, verifications, pending>>
  BY DEF tokens
<1>3. Handling(r)
  BY HandlingFacts
<1>4. /\ StoredTokens' = StoredTokens
      /\ \A u \in Ids : Exists(u)' <=> Exists(u)
  BY <1>2 DEF StoredTokens, Exists
<1>5. PhaseFits(r)' /\ ValueFits(r)'
  <2>1. request'[r].wrote => Past(r)' \/ request'[r].phase = "reread_user"
    BY <1>1, <1>3 DEF Handling, PhaseFits, Past, Relinks
  <2>2. PhaseFits(r)'
    BY <1>1, <2>1 DEF PhaseFits, SameLocals, SameCall
  <2>3. ValueFits(r)'
    BY <1>1, <1>3 DEF Handling, ValueFits, SameLocals, SameCall
  <2>4. QED
    BY <2>2, <2>3
<1>6. /\ UserFits(r) /\ Creates(r) /\ Stores(r)
      /\ Past(r) => Past(r)' /\ SameLocals(r)
  BY <1>1, <1>2, <1>3, <1>4 DEF Handling, SameLocals, SameCall, UserFits, Creates, Stores,
    Past, Effective, Answered, PhaseFits, Relinks, Draws
<1>7. Took(r)' => Took(r)
  BY <1>1, <1>3 DEF Handling, PhaseFits, Took, SameLocals, SameCall, Takes
<1>8. Takings(r)
  <2>1. ASSUME Took(r)', ~request'[r].wrote, request'[r].phase \in {"reread_user", "persist_event", "publish"}
        PROVE  ~Exists(request[r].user)'
    <3>1. request[r].phase \in {"reread_user", "persist_event"} /\ ~request[r].wrote
      BY <1>1, <2>1
    <3>2. ~Exists(request[r].user)
      BY <1>7, <2>1, <3>1 DEF IInv, TakenOK
    <3>3. QED
      BY <1>1, <1>2, <3>2 DEF Exists, SameLocals
  <2>2. QED
    BY <1>1, <1>7, <2>1 DEF Takings, SameLocals
<1>9. ASSUME NEW t \in Requests, Explains(r, t) PROVE Explains(r, t)'
  <2>1. request'[r].token = t /\ Awaiting(r)' /\ request'[r].phase # "consume_token"
    BY <1>1, <1>9 DEF SameLocals, SameCall, Explains, Awaiting, StoreCalls
  <2>2. QED
    BY <2>1 DEF Explains
<1>10. Moves(r)
  BY <1>1, <1>2, <1>4, <1>5, <1>6, <1>8, <1>9 DEF Moves, Explanations
<1>11. QED
  BY <1>10, MovesKeep

-----------------------------------------------------------------------------
(* Steps that write a record *)

\* What a step that writes to a record does to its call.
Wrote(r, u, call, wrote) ==
    /\ request' = [request EXCEPT ![r].phase = call, ![r].user = u, ![r].wrote = wrote]
    /\ UNCHANGED <<now, tokens>>

LEMMA WriteMoves ==
    ASSUME IInv, NEW r \in Requests, NEW call \in StoreCalls, NEW u \in Ids \cup {None},
           NEW wrote \in BOOLEAN, Wrote(r, u, call, wrote)
    PROVE  /\ Typed /\ SameCall(r)
           /\ request'[r].phase = call /\ request'[r].user = u /\ request'[r].wrote = wrote
           /\ request'[r].value = request[r].value /\ request'[r].links = request[r].links
           /\ request'[r].expires = request[r].expires /\ request'[r].result = request[r].result
           /\ UNCHANGED <<now, resets, verifications, pending>> /\ StoredTokens' = StoredTokens
<1>1. request[r] \in Request /\ request \in [Requests -> Request]
  BY DEF IInv, TypeOK
<1>2. request'[r] = [request[r] EXCEPT !.phase = call, !.user = u, !.wrote = wrote] /\ Others(r)
  BY <1>1 DEF Wrote, Others
<1>3. request'[r] \in Request
  BY <1>1, <1>2 DEF Request
<1>4. Typed
  BY <1>1, <1>3 DEF Wrote, Typed
<1>5. UNCHANGED <<now, resets, verifications, pending>> /\ StoredTokens' = StoredTokens
  BY DEF Wrote, tokens, StoredTokens
<1>6. QED
  BY <1>1, <1>2, <1>4, <1>5 DEF Request, SameCall

LEMMA RecordKeeps ==
    ASSUME IInv, NEW r \in Requests, NEW call \in {"persist_event", "reread_user"},
           NEW u \in Ids \cup {None}, NEW wrote \in BOOLEAN, Wrote(r, u, call, wrote),
           Awaiting(r), ~Past(r), request[r].phase # "consume_token",
           request[r].op \notin Draws,
           call = "reread_user" => Relinks(r),
           \/ u = request[r].user
           \/ u = r /\ request[r].op = "signup" /\ call = "persist_event",
           Creates(r),
           request[r].op \in Takes /\ ~wrote => ~Exists(u)'
    PROVE  Typed /\ Parts'
<1>1. /\ Typed /\ SameCall(r)
      /\ request'[r].phase = call /\ request'[r].user = u /\ request'[r].wrote = wrote
      /\ request'[r].value = request[r].value
      /\ UNCHANGED <<now, resets, verifications, pending>> /\ StoredTokens' = StoredTokens
  BY WriteMoves DEF StoreCalls
<1>2. Handling(r)
  BY HandlingFacts
<1>3. PhaseFits(r)' /\ ValueFits(r)'
  BY <1>1, <1>2 DEF Handling, PhaseFits, ValueFits, SameCall, Past, Relinks
<1>4. UserFits(r)
  BY <1>1, <1>2 DEF UserFits, Past, Handling, Acts
<1>5. Stores(r)
  BY <1>1 DEF Stores
<1>6. Takings(r)
  <2>1. Took(r)' => Took(r) /\ u = request[r].user
    BY <1>1 DEF Took, Takes, SameCall, Awaiting
  <2>2. Exists(request[r].user)' <=> Exists(u)'
    BY <1>1 DEF Exists
  <2>3. QED
    BY <1>1, <2>1, <2>2 DEF Takings, Took, SameCall
<1>7. ASSUME NEW t \in Requests, Explains(r, t) PROVE Explains(r, t)'
  <2>1. request'[r].token = t /\ Awaiting(r)' /\ request'[r].phase # "consume_token"
    BY <1>1, <1>7 DEF SameCall, Explains, Awaiting
  <2>2. QED
    BY <2>1 DEF Explains
<1>8. Moves(r)
  BY <1>1, <1>3, <1>4, <1>5, <1>6, <1>7 DEF Moves, Explanations
<1>9. QED
  BY <1>8, MovesKeep

\* A field of a record takes another value of its kind.
LEMMA WriteKeeps ==
    ASSUME IInv, NEW r \in Requests, NEW call \in {"persist_event", "reread_user"},
           NEW f, NEW v, WriteField(r, f, v, call),
           \A rec \in User : [rec EXCEPT ![f] = v] \in User,
           request[r].phase \in {"update_profile", "set_password_hash", "set_email_verified",
                                 "update_email", "update_oauth_links"},
           request[r].op \notin Draws,
           call = "reread_user" => Relinks(r)
    PROVE  Typed /\ Parts' /\ users' \in [Ids -> User \cup {None}]
<1> DEFINE u == request[r].user
<1>1. Handling(r) /\ u \in Ids \cup {None}
  BY HandlingFacts DEF Handling
<1>2. /\ users' = [users EXCEPT ![u] = IF @ = None THEN None ELSE [@ EXCEPT ![f] = v]]
      /\ request' = [request EXCEPT ![r].phase = call, ![r].wrote = Exists(u)]
      /\ UNCHANGED <<now, tokens>>
  BY DEF WriteField, OnlyUsers
<1>3. Wrote(r, u, call, Exists(u)) /\ Exists(u) \in BOOLEAN
  <2>1. request' = [request EXCEPT ![r].phase = call, ![r].user = request[r].user,
                                   ![r].wrote = Exists(u)]
    BY <1>1, <1>2 DEF Handling, Request
  <2>2. QED
    BY <1>2, <2>1 DEF Wrote, Exists
<1>4. users' \in [Ids -> User \cup {None}]
  <2>1. users \in [Ids -> User \cup {None}]
    BY DEF IInv, TypeOK
  <2>2. \A rec \in User \cup {None} :
            (IF rec = None THEN None ELSE [rec EXCEPT ![f] = v]) \in User \cup {None}
    OBVIOUS
  <2>3. QED
    BY <1>2, <2>1, <2>2
<1>5. \A w \in Ids : Exists(w)' <=> Exists(w)
  <2> SUFFICES ASSUME NEW w \in Ids PROVE users'[w] # None <=> users[w] # None
    BY DEF Exists
  <2>1. users \in [Ids -> User \cup {None}]
    BY DEF IInv, TypeOK
  <2>2. CASE w # u
    BY <1>2, <2>1, <2>2
  <2>3. CASE w = u
    <3>1. users'[w] = IF users[w] = None THEN None ELSE [users[w] EXCEPT ![f] = v]
      BY <1>2, <2>1, <2>3
    <3>2. users[w] # None => [users[w] EXCEPT ![f] = v] # None
      BY <2>1, RecordAssumption
    <3>3. QED
      BY <3>1, <3>2
  <2>4. QED
    BY <2>2, <2>3
<1>6. request[r].op \in Takes => u \in Ids
  BY <1>1 DEF Handling, Took
<1>7. Creates(r) /\ Awaiting(r) /\ ~Past(r)
  BY <1>5 DEF Creates, Awaiting, Past
<1>8. request[r].op \in Takes /\ ~Exists(u) => ~Exists(u)'
  <2>1. request[r].op \in Takes => \E w \in Ids : w = u
    BY <1>6
  <2>2. ASSUME NEW w \in Ids, w = request[r].user, ~Exists(u) PROVE ~(users'[w] # None)
    BY <1>5, <2>2 DEF Exists
  <2>3. request'[r].user = request[r].user
    BY <1>1, <1>3, WriteMoves DEF StoreCalls
  <2>4. QED
    BY <2>1, <2>2, <2>3 DEF Exists
<1>9. Typed /\ Parts'
  <2>1. request'[r].user = request[r].user
    BY <1>1, <1>3, WriteMoves DEF StoreCalls
  <2>2. PICK w \in Ids \cup {None}, b \in BOOLEAN : w = u /\ b = Exists(u)
    BY <1>1, <1>3
  <2>3. request[r].op \in Takes /\ ~b => ~Exists(w)'
    BY <1>8, <2>1, <2>2 DEF Exists
  <2>4. Wrote(r, w, call, b) /\ w = request[r].user
    BY <1>3, <2>2
  <2>5. request[r].phase # "consume_token"
    OBVIOUS
  <2> HIDE DEF u
  <2>6. QED
    BY <1>7, <2>3, <2>4, <2>5, RecordKeeps
<1>10. QED
  BY <1>4, <1>9

LEMMA FieldKinds ==
    ASSUME NEW rec \in User
    PROVE  /\ \A v \in Emails : [rec EXCEPT !["email"] = v] \in User
           /\ \A v \in Passwords : [rec EXCEPT !["password"] = v] \in User
           /\ \A v \in Names : [rec EXCEPT !["name"] = v] \in User
           /\ \A v \in SUBSET Link : [rec EXCEPT !["links"] = v] \in User
           /\ [rec EXCEPT !["verified"] = TRUE] \in User
BY DEF User

LEMMA WritesKeep ==
    ASSUME IInv, NEW r \in Requests,
           UpdateProfile(r) \/ SetPassword(r) \/ SetVerified(r) \/ UpdateEmail(r) \/ StoreLinks(r)
    PROVE  Typed /\ Parts' /\ users' \in [Ids -> User \cup {None}]
<1>1. Handling(r)
  BY HandlingFacts
<1>2. CASE UpdateProfile(r)
  <2>1. PICK v \in Names : v = request[r].value
    BY <1>1, <1>2 DEF Handling, ValueFits, UpdateProfile, At
  <2>2. WriteField(r, "name", v, "persist_event") /\ request[r].op \notin Draws
    BY <1>2, <2>1 DEF UpdateProfile, At, Draws
  <2>3. \A rec \in User : [rec EXCEPT !["name"] = v] \in User
    BY FieldKinds
  <2>4. QED
    BY <1>2, <2>2, <2>3, WriteKeeps DEF UpdateProfile, At
<1>3. CASE SetPassword(r)
  <2>1. PICK v \in Passwords : v = request[r].value
    BY <1>1, <1>3 DEF Handling, ValueFits, PhaseFits, SetPassword
  <2>2. WriteField(r, "password", v, "persist_event") /\ request[r].op \notin Draws
    BY <1>1, <1>3, <2>1 DEF SetPassword, Handling, PhaseFits, Draws
  <2>3. \A rec \in User : [rec EXCEPT !["password"] = v] \in User
    BY FieldKinds
  <2>4. QED
    BY <1>3, <2>2, <2>3, WriteKeeps DEF SetPassword
<1>4. CASE SetVerified(r)
  BY <1>4, WriteKeeps, FieldKinds DEF SetVerified, At, Draws
<1>5. CASE UpdateEmail(r)
  <2>1. PICK v \in Emails : v = request[r].value
    BY <1>1, <1>5 DEF Handling, ValueFits, UpdateEmail, At
  <2>2. WriteField(r, "email", v, "persist_event") /\ request[r].op \notin Draws
    BY <1>5, <2>1 DEF UpdateEmail, At, Draws
  <2>3. \A rec \in User : [rec EXCEPT !["email"] = v] \in User
    BY FieldKinds
  <2>4. QED
    BY <1>5, <2>2, <2>3, WriteKeeps DEF UpdateEmail, At
<1>6. CASE StoreLinks(r)
  <2>1. PICK v \in SUBSET Link : v = request[r].links
    BY <1>1, <1>6 DEF Handling, Request
  <2>2. WriteField(r, "links", v, "reread_user") /\ request[r].op \notin Draws
    BY <1>1, <1>6, <2>1 DEF StoreLinks, Handling, PhaseFits, Relinks, Draws
  <2>3. \A rec \in User : [rec EXCEPT !["links"] = v] \in User
    BY FieldKinds
  <2>4. QED
    <3>1. Relinks(r)
      BY <1>1, <1>6 DEF Handling, PhaseFits, StoreLinks
    <3>2. QED
      BY <1>6, <2>2, <2>3, <3>1, WriteKeeps DEF StoreLinks
<1>7. QED
  BY <1>2, <1>3, <1>4, <1>5, <1>6

LEMMA RecordsKeep ==
    ASSUME IInv, NEW r \in Requests, CreateUser(r) \/ DeleteUser(r)
    PROVE  Typed /\ Parts' /\ users' \in [Ids -> User \cup {None}]
<1>1. /\ request[r] \in Request /\ request \in [Requests -> Request]
      /\ users \in [Ids -> User \cup {None}] /\ request[r].user \in Ids \cup {None}
  BY DEF IInv, TypeOK, Request
<1>2. CASE CreateUser(r)
  <2>1. At(r, "signup", "create_user") /\ users' = [users EXCEPT ![r] = NewUser(r)]
    BY <1>2 DEF CreateUser
  <2>2. Wrote(r, r, "persist_event", TRUE)
    BY <1>2 DEF CreateUser, OnlyUsers, Wrote
  <2>3. NewUser(r) \in User
    BY <2>1 DEF IInv, ValuesOK, ValueFits, At, NewUser, User
  <2>4. users' \in [Ids -> User \cup {None}]
    BY <1>1, <2>1, <2>3
  <2>5. r \in Ids
    BY DEF Ids
  <2>6. request'[r].phase = "persist_event"
    BY <2>2, <2>5, WriteMoves DEF StoreCalls
  <2>7. Creates(r)
    BY <1>1, <2>1, <2>6 DEF Creates, Exists, At, Past
  <2>8. Typed /\ Parts'
    BY <2>1, <2>2, <2>5, <2>7, RecordKeeps DEF At, Past, Awaiting, Draws, Takes
  <2>9. QED
    BY <2>4, <2>8
<1>3. CASE DeleteUser(r)
  <2>1. At(r, "delete_account", "delete_user") /\ users' = [users EXCEPT ![request[r].user] = None]
    BY <1>3 DEF DeleteUser
  <2>2. PICK u \in Ids \cup {None}, b \in BOOLEAN : u = request[r].user /\ b = Exists(u)
    BY <1>1 DEF Exists
  <2>3. Wrote(r, u, "persist_event", b)
    <3>1. request' = [request EXCEPT ![r].phase = "persist_event", ![r].wrote = b]
      BY <1>3, <2>2 DEF DeleteUser
    <3>2. request' = [request EXCEPT ![r].phase = "persist_event", ![r].user = u, ![r].wrote = b]
      BY <1>1, <2>2, <3>1 DEF Request
    <3>3. QED
      BY <1>3, <3>2 DEF DeleteUser, OnlyUsers, Wrote
  <2>4. users' \in [Ids -> User \cup {None}]
    BY <1>1, <2>1
  <2>5. Creates(r)
    BY <1>1, <2>1 DEF Creates, Exists
  <2>6. Typed /\ Parts'
    BY <2>1, <2>2, <2>3, <2>5, RecordKeeps DEF At, Past, Awaiting, Draws, Takes
  <2>7. QED
    BY <2>4, <2>6
<1>4. QED
  BY <1>2, <1>3

-----------------------------------------------------------------------------
(* Tokens are drawn, stored and taken; lists of links are drawn up *)

\* A handler goes on with what it has found out.
Learns(r, call, u, v, l, e) ==
    request' = [request EXCEPT ![r].phase = call, ![r].user = u, ![r].value = v,
                               ![r].links = l, ![r].expires = e]

Values == UNION {Emails, Passwords, Names, Providers, {None}}

LEMMA LearnMoves ==
    ASSUME IInv, NEW r \in Requests, NEW call \in StoreCalls, NEW u \in Ids \cup {None},
           NEW v \in Values, NEW l \in SUBSET Link, NEW e \in Nat, Learns(r, call, u, v, l, e)
    PROVE  /\ Typed /\ SameCall(r)
           /\ request'[r].phase = call /\ request'[r].user = u /\ request'[r].value = v
           /\ request'[r].links = l /\ request'[r].expires = e
           /\ request'[r].wrote = request[r].wrote
<1>1. request[r] \in Request /\ request \in [Requests -> Request]
  BY DEF IInv, TypeOK
<1>2. /\ request'[r] = [request[r] EXCEPT !.phase = call, !.user = u, !.value = v,
                                          !.links = l, !.expires = e]
      /\ Others(r)
  BY <1>1 DEF Learns, Others
<1>3. request'[r] \in Request
  BY <1>1, <1>2 DEF Request, Values
<1>4. Typed
  BY <1>1, <1>3 DEF Learns, Typed
<1>5. QED
  BY <1>1, <1>2, <1>4 DEF Request, SameCall

\* Without a change of the stores.
LEMMA LearnKeeps ==
    ASSUME IInv, NEW r \in Requests, NEW call \in {"create_token", "update_oauth_links"},
           NEW u \in Ids, NEW l \in SUBSET Link, NEW e \in Nat, Awaiting(r), ~Past(r),
           Learns(r, call, u, request[r].value, l, e), UNCHANGED <<now, users, tokens>>,
           request[r].phase \notin {"reread_user", "consume_token"},
           call = "create_token" => request[r].op \in Draws /\ Exists(u),
           call = "update_oauth_links" => Relinks(r) /\ u = request[r].user
    PROVE  Typed /\ Parts'
<1>1. Handling(r)
  BY HandlingFacts
<1>2. request[r].value \in Values
  BY <1>1 DEF Handling, Request, Values
<1>3. /\ Typed /\ SameCall(r) /\ request'[r].phase = call /\ request'[r].user = u
      /\ request'[r].value = request[r].value /\ request'[r].wrote = request[r].wrote
  BY <1>2, LearnMoves DEF StoreCalls
<1>4. /\ UNCHANGED <<now, users, resets, verifications, pending>> /\ StoredTokens' = StoredTokens
      /\ \A w \in Ids : Exists(w)' <=> Exists(w)
  BY DEF tokens, StoredTokens, Exists
<1>5. u # None
  BY AccountAssumption DEF Ids
<1>6. PhaseFits(r)' /\ ValueFits(r)'
  <2>1. ~request'[r].wrote
    BY <1>1, <1>3 DEF Handling, PhaseFits
  <2>2. PhaseFits(r)'
    BY <1>3, <2>1 DEF PhaseFits, SameCall, Relinks
  <2>3. ValueFits(r)'
    BY <1>1, <1>3 DEF Handling, ValueFits, SameCall
  <2>4. QED
    BY <2>2, <2>3
<1>7. UserFits(r)
  BY <1>3, <1>5 DEF IInv, StoresOK, UserFits, Draws, Acts, Relinks
<1>8. ~Effective(r)'
  BY <1>3 DEF Effective, Answered
<1>9. Creates(r) /\ Stores(r)
  BY <1>4, <1>8 DEF Creates, Stores
<1>10. Took(r)' => Took(r) /\ u = request[r].user /\ call = "update_oauth_links"
  BY <1>3 DEF Took, Takes, Draws, SameCall, Awaiting
<1>11. Takings(r)
  BY <1>3, <1>10 DEF Takings
<1>12. ASSUME NEW t \in Requests, Explains(r, t) PROVE Explains(r, t)'
  <2>1. request'[r].token = t /\ Awaiting(r)' /\ request'[r].phase # "consume_token"
    BY <1>3, <1>12 DEF SameCall, Explains, Awaiting
  <2>2. QED
    BY <2>1 DEF Explains
<1>13. Moves(r)
  BY <1>3, <1>4, <1>6, <1>7, <1>9, <1>11, <1>12 DEF Moves, Explanations
<1>14. QED
  BY <1>13, MovesKeep

LEMMA LearnsKeep ==
    ASSUME IInv, NEW r \in Requests, DrawReset(r) \/ AddLink(r) \/ DropLinks(r)
    PROVE  Typed /\ Parts'
<1>1. Handling(r) /\ request[r].links \in SUBSET Link /\ request[r].expires \in Nat /\ now \in Nat
  BY HandlingFacts DEF Handling, Request, IInv, TypeOK
<1>2. UNCHANGED <<now, users, tokens>>
  BY DEF DrawReset, AddLink, DropLinks, NothingStored
<1>3. CASE DrawReset(r)
  <2>1. PICK u \in Ids :
          /\ HasEmail(u, request[r].value)
          /\ request' = [request EXCEPT ![r].phase = "create_token", ![r].user = u,
                                        ![r].expires = now + TokenTtl]
    BY <1>3 DEF DrawReset
  <2>2. now + TokenTtl \in Nat
    BY <1>1, AccountAssumption
  <2>3. Learns(r, "create_token", u, request[r].value, request[r].links, now + TokenTtl)
    BY <1>1, <2>1 DEF Learns, Handling, Request
  <2>4. At(r, "request_password_reset", "get_user_by_email") /\ Exists(u)
    BY <1>3, <2>1 DEF DrawReset, HasEmail
  <2>5. PICK l \in SUBSET Link, e \in Nat : l = request[r].links /\ e = now + TokenTtl
    BY <1>1, <2>2
  <2>6. Learns(r, "create_token", u, request[r].value, l, e)
    BY <2>3, <2>5
  <2>7. QED
    BY <1>2, <2>4, <2>6, LearnKeeps DEF At, Awaiting, Past, Draws
<1>4. CASE AddLink(r) \/ DropLinks(r)
  <2>1. PICK u \in Ids : u = request[r].user
    BY <1>1, <1>4 DEF AddLink, DropLinks, At, Handling, Took, Takes, Acts
  <2>2. Exists(u) /\ users[u].links \in SUBSET Link
    BY <1>1, <1>4, <2>1 DEF AddLink, DropLinks, Exists, Handling, User
  <2>3. PICK l \in SUBSET Link :
          request' = [request EXCEPT ![r].phase = "update_oauth_links", ![r].links = l]
    <3>1. CASE AddLink(r)
      <4>1. PICK t \in Requests : t = request[r].token /\ request[t].op = "initiate_account_link"
        BY <3>1 DEF AddLink, At, IInv, CallsOK, Takes, Fits
      <4>2. LinkFrom(t) \in Link
        BY <4>1 DEF LinkFrom, Link, IInv, ValuesOK, ValueFits
      <4>3. users[u].links \cup {LinkFrom(t)} \in SUBSET Link
        BY <2>2, <4>2
      <4>4. QED
        BY <2>1, <3>1, <4>1, <4>3 DEF AddLink
    <3>2. CASE DropLinks(r)
      BY <2>1, <2>2, <3>2 DEF DropLinks
    <3>3. QED
      BY <1>4, <3>1, <3>2
  <2>4. PICK e \in Nat : e = request[r].expires
    BY <1>1
  <2>5. Learns(r, "update_oauth_links", u, request[r].value, l, e)
    BY <1>1, <2>1, <2>3, <2>4 DEF Learns, Handling, Request
  <2>6. Relinks(r) /\ request[r].phase = "get_user_by_id"
    BY <1>4 DEF AddLink, DropLinks, At, Relinks
  <2>7. QED
    BY <1>2, <2>1, <2>5, <2>6, LearnKeeps DEF Awaiting, Past
<1>5. QED
  BY <1>3, <1>4

\* A token that was drawn is stored.
LEMMA CreateKeeps ==
    ASSUME IInv, NEW r \in Requests,
           CreateReset(r) \/ CreateVerification(r) \/ CreatePendingLink(r)
    PROVE  Typed /\ Parts'
<1>1. Handling(r)
  BY HandlingFacts
<1>2. /\ Typed /\ SameLocals(r) /\ SameCall(r) /\ request'[r].wrote = request[r].wrote
      /\ request'[r].phase = "persist_event" /\ request'[r].result = request[r].result
  BY AwaitMoves DEF IInv, CreateReset, CreateVerification, CreatePendingLink, StoreCalls, SameLocals
<1>3. /\ UNCHANGED <<now, users>>
      /\ request[r].phase = "create_token" /\ request[r].op \in Draws
      /\ \/ /\ request[r].op = "request_password_reset"
            /\ resets' = resets \cup {r} /\ UNCHANGED <<verifications, pending>>
         \/ /\ AsksForMail(r)
            /\ verifications' = verifications \cup {r} /\ UNCHANGED <<resets, pending>>
         \/ /\ request[r].op = "initiate_account_link"
            /\ pending' = pending \cup {r} /\ UNCHANGED <<resets, verifications>>
  BY DEF CreateReset, CreateVerification, CreatePendingLink, At, AsksForMail, Draws
<1>4. StoredTokens' = StoredTokens \cup {r}
  BY <1>3 DEF StoredTokens
<1>5. ~Past(r) /\ Past(r)' /\ Awaiting(r) /\ ~Took(r)' /\ request'[r].user # None
  BY <1>1, <1>2, <1>3 DEF Past, Awaiting, Took, Draws, Takes, SameLocals, SameCall, Handling
<1>6. PhaseFits(r)' /\ ValueFits(r)'
  BY <1>1, <1>2, <1>5 DEF Handling, PhaseFits, ValueFits, SameLocals, SameCall
<1>7. UserFits(r) /\ Creates(r) /\ Stores(r) /\ Takings(r)
  BY <1>2, <1>3, <1>4, <1>5 DEF UserFits, Creates, Stores, Takings, SameLocals, SameCall, Exists
<1>8. \A t \in Requests : ~Explains(r, t)
  BY <1>1, <1>3, AccountAssumption DEF Handling, Explains, Draws, Takes
<1>9. Moves(r)
  BY <1>2, <1>3, <1>4, <1>5, <1>6, <1>7, <1>8 DEF Moves, Explanations
<1>10. QED
  BY <1>9, MovesKeep

\* A call consumes its token t: it is gone from its store, and in no other.
Consumed(r, t) ==
    /\ request[r].phase = "consume_token" /\ request[r].op \in Takes /\ request[r].token = t
    /\ t \in StoredTokens /\ t \notin StoredTokens'
    /\ resets' \subseteq resets /\ verifications' \subseteq verifications /\ pending' \subseteq pending
    /\ StoredTokens \ StoredTokens' \subseteq {t}
    /\ UNCHANGED <<now, users>>

LEMMA ConsumedFacts ==
    ASSUME IInv, NEW r \in Requests, NEW t \in Requests, Consumed(r, t)
    PROVE  /\ Handling(r) /\ Awaiting(r) /\ ~Past(r) /\ ~Took(r) /\ ~Effective(r) /\ t # r
           /\ StoredTokens' \subseteq StoredTokens
           /\ request[t].user \in Ids /\ Settled(request[t].user) /\ Past(t)
           /\ Creates(r) /\ request[r].op \notin Draws \cup Acts
<1>1. Handling(r)
  BY HandlingFacts
<1>2. /\ Awaiting(r) /\ ~Past(r) /\ ~Effective(r) /\ ~Took(r)
      /\ request[r].op \notin Draws \cup Acts
  BY <1>1 DEF Consumed, Awaiting, Past, Effective, Answered, Took, Handling, PhaseFits, Takes, Draws, Acts
<1>3. Past(t) /\ request[t].user # None
  BY DEF Consumed, IInv, StoresOK
<1>4. request[t].user \in Ids /\ Settled(request[t].user)
  BY <1>3 DEF IInv, TypeOK, CallsOK, Request
<1>5. Creates(r) /\ StoredTokens' \subseteq StoredTokens
  BY DEF Consumed, Creates, Exists, StoredTokens
<1>6. QED
  BY <1>1, <1>2, <1>3, <1>4, <1>5

LEMMA RefusalKeeps ==
    ASSUME IInv, NEW r \in Requests, NEW t \in Requests, Consumed(r, t),
           \/ Expired(t) /\ Answer(r, "InvalidToken")
           \/ ~IsChangeToken(t) /\ Answer(r, "Validation")
    PROVE  Typed /\ Parts'
<1>1. /\ Handling(r) /\ Awaiting(r) /\ ~Past(r) /\ ~Took(r) /\ ~Effective(r) /\ t # r
      /\ StoredTokens' \subseteq StoredTokens /\ Creates(r) /\ request[r].op \notin Draws \cup Acts
  BY ConsumedFacts
<1>2. /\ Typed /\ SameLocals(r) /\ SameCall(r) /\ request'[r].wrote = request[r].wrote
      /\ request'[r].phase = "done" /\ request'[r].result \in {"InvalidToken", "Validation"}
      /\ request'[r].result = "InvalidToken" => Expired(t)
      /\ request'[r].result = "Validation" => ~IsChangeToken(t)
  BY AnswerMoves DEF IInv, Results, SameLocals
<1>3. ~request[r].wrote /\ ~request'[r].wrote
  BY <1>1, <1>2 DEF Handling, PhaseFits, Consumed
<1>4. PhaseFits(r)' /\ ValueFits(r)'
  BY <1>1, <1>2, <1>3 DEF Handling, PhaseFits, ValueFits, SameLocals, SameCall
<1>5. UserFits(r)
  BY <1>1, <1>2 DEF UserFits, SameLocals, SameCall
<1>6. Stores(r)
  BY <1>1, <1>2 DEF Stores, Consumed
<1>7. Takings(r)
  BY <1>2, <1>3 DEF Takings, Took
<1>8. Explains(r, t)'
  <2>1. (Expired(t)' <=> Expired(t)) /\ (IsChangeToken(t)' <=> IsChangeToken(t))
    BY <1>1, <1>2 DEF Expired, IsChangeToken, SameLocals, SameCall, Others, Consumed
  <2>2. QED
    BY <1>2, <2>1 DEF Explains, Answered, SameCall, Consumed
<1>9. \A s \in Requests : Explains(r, s) => s = t
  BY DEF Explains, Consumed
<1>10. Explanations(r)
  BY <1>8, <1>9 DEF Explanations, Consumed
<1>11. Moves(r)
  BY <1>1, <1>2, <1>4, <1>5, <1>6, <1>7, <1>10 DEF Moves, Consumed
<1>12. QED
  BY <1>11, MovesKeep

LEMMA TakeKeeps ==
    ASSUME IInv, NEW r \in Requests, NEW t \in Requests, Consumed(r, t),
           NEW call \in {"set_password_hash", "set_email_verified", "update_email", "get_user_by_id"},
           NEW u \in Ids, NEW v \in Values, NEW l \in SUBSET Link, NEW e \in Nat,
           Learns(r, call, u, v, l, e), u = request[t].user,
           call = "set_password_hash" => request[r].op = "complete_password_reset",
           call = "update_email" => request[r].op = "confirm_email_change" /\ v \in Emails,
           call # "update_email" => v = request[r].value,
           request[r].op # "complete_account_link" => ~Expired(t)
    PROVE  Typed /\ Parts'
<1>1. /\ Handling(r) /\ Awaiting(r) /\ ~Past(r) /\ ~Took(r) /\ ~Effective(r) /\ t # r
      /\ StoredTokens' \subseteq StoredTokens /\ Settled(u)
      /\ Creates(r) /\ request[r].op \notin Draws \cup Acts
  BY ConsumedFacts
<1>2. /\ Typed /\ SameCall(r) /\ request'[r].phase = call /\ request'[r].user = u
      /\ request'[r].value = v /\ request'[r].wrote = request[r].wrote
  BY LearnMoves DEF StoreCalls
<1>3. ~request'[r].wrote
  BY <1>1, <1>2 DEF Handling, PhaseFits, Consumed
<1>4. PhaseFits(r)'
  BY <1>2, <1>3 DEF PhaseFits, SameCall
<1>5. ValueFits(r)'
  BY <1>1, <1>2 DEF Handling, ValueFits, SameCall, Consumed, Takes
<1>6. UserFits(r)
  BY <1>1, <1>2 DEF UserFits
<1>7. Stores(r)
  BY <1>1, <1>2 DEF Stores, Consumed
<1>8. request[r].op # "complete_account_link" => request[r].began <= request[t].expires
  <2>1. /\ request[r].began <= now /\ request[r].began \in Nat /\ request[t].expires \in Nat
        /\ now \in Nat
    BY DEF IInv, TypeOK, CallsOK, Request
  <2>2. QED
    BY <2>1 DEF Expired
<1>9. Takings(r)
  BY <1>1, <1>2, <1>8 DEF Takings, Consumes, Consumed
<1>10. Explains(r, t)'
  BY <1>2 DEF Explains, Awaiting, SameCall, Consumed
<1>11. \A s \in Requests : Explains(r, s) => s = t
  BY DEF Explains, Consumed
<1>12. Explanations(r)
  BY <1>10, <1>11 DEF Explanations, Consumed
<1>13. Moves(r)
  BY <1>1, <1>2, <1>4, <1>5, <1>6, <1>7, <1>9, <1>12 DEF Moves, Consumed
<1>14. QED
  BY <1>13, MovesKeep

LEMMA TakeLearns ==
    ASSUME NEW r \in Requests, request \in [Requests -> Request],
           NEW call, NEW u, NEW v, NEW l, NEW e,
           l = request[r].links, e = request[r].expires,
           \/ /\ request' = [request EXCEPT ![r].phase = call, ![r].user = u]
              /\ v = request[r].value
           \/ request' = [request EXCEPT ![r].phase = call, ![r].user = u, ![r].value = v]
    PROVE  Learns(r, call, u, v, l, e)
<1>1. request[r] \in Request
  OBVIOUS
<1>2. CASE request' = [request EXCEPT ![r].phase = call, ![r].user = u] /\ v = request[r].value
  <2>1. [request[r] EXCEPT !.phase = call, !.user = u]
          = [request[r] EXCEPT !.phase = call, !.user = u, !.value = v, !.links = l, !.expires = e]
    BY <1>1, <1>2 DEF Request
  <2>2. request' = [request EXCEPT ![r] = [request[r] EXCEPT !.phase = call, !.user = u,
                                             !.value = v, !.links = l, !.expires = e]]
    BY <1>2, <2>1
  <2>3. QED
    BY <2>2 DEF Learns
<1>3. CASE request' = [request EXCEPT ![r].phase = call, ![r].user = u, ![r].value = v]
  BY <1>1, <1>3 DEF Learns, Request
<1>4. QED
  BY <1>2, <1>3

LEMMA ConsumesKeep ==
    ASSUME IInv, NEW r \in Requests, ConsumeReset(r) \/ ConsumeMailToken(r) \/ ConsumePending(r)
    PROVE  Typed /\ Parts'
<1>1. /\ Handling(r) /\ request[r].links \in SUBSET Link /\ request[r].expires \in Nat
      /\ request[r].value \in Values /\ request[r].phase = "consume_token" /\ request[r].op \in Takes
  BY HandlingFacts
  DEF Handling, Request, Values, ConsumeReset, ConsumeMailToken, ConsumePending, At, Redeems, Takes
<1>2. PICK t \in Requests : t = request[r].token
  BY <1>1 DEF IInv, CallsOK
<1>3. Consumed(r, t)
  <2>1. /\ t \in resets => t \notin verifications \cup pending
        /\ t \in verifications => t \notin resets \cup pending
        /\ t \in pending => t \notin resets \cup verifications
    BY DEF IInv, StoresOK, AsksForMail
  <2>2. QED
    BY <1>1, <1>2, <2>1
    DEF Consumed, StoredTokens, ConsumeReset, ConsumeMailToken, ConsumePending
<1>4. PICK u \in Ids, l \in SUBSET Link, e \in Nat, w \in Values :
         u = request[t].user /\ l = request[r].links /\ e = request[r].expires /\ w = request[r].value
  BY <1>1, <1>3, ConsumedFacts
<1>5. CASE ConsumeReset(r)
  <2>1. CASE Expired(t)
    BY <1>2, <1>3, <1>5, <2>1, RefusalKeeps DEF ConsumeReset, JudgeReset
  <2>2. CASE ~Expired(t)
    <3>1. Learns(r, "set_password_hash", u, w, l, e)
      BY <1>1, <1>2, <1>4, <1>5, <2>2, TakeLearns DEF ConsumeReset, JudgeReset, Handling
    <3>2. QED
      BY <1>3, <1>4, <1>5, <2>2, <3>1, TakeKeeps DEF ConsumeReset, At
  <2>3. QED
    BY <2>1, <2>2
<1>6. CASE ConsumeMailToken(r)
  <2>1. JudgeMailToken(r, t)
    BY <1>2, <1>6 DEF ConsumeMailToken
  <2>2. CASE Expired(t)
    BY <1>3, <2>1, <2>2, RefusalKeeps DEF JudgeMailToken
  <2>3. CASE ~Expired(t) /\ request[r].op = "verify_email"
    <3>1. Learns(r, "set_email_verified", u, w, l, e)
      BY <1>1, <1>4, <2>1, <2>3, TakeLearns DEF JudgeMailToken, Handling
    <3>2. QED
      BY <1>3, <1>4, <2>3, <3>1, TakeKeeps
  <2>4. CASE ~Expired(t) /\ request[r].op = "confirm_email_change" /\ ~IsChangeToken(t)
    BY <1>3, <2>1, <2>4, RefusalKeeps DEF JudgeMailToken
  <2>5. CASE ~Expired(t) /\ request[r].op = "confirm_email_change" /\ IsChangeToken(t)
    <3>1. t \in verifications
      BY <1>2, <1>6 DEF ConsumeMailToken
    <3>2. PICK v \in Emails : v = request[t].value
      BY <2>5, <3>1 DEF IInv, StoresOK, AsksForMail, ValuesOK, ValueFits, IsChangeToken
    <3>3. Learns(r, "update_email", u, v, l, e) /\ v \in Values
      BY <1>1, <1>4, <2>1, <2>5, <3>2, TakeLearns DEF JudgeMailToken, Handling, Values
    <3>4. QED
      BY <1>3, <1>4, <2>5, <3>3, TakeKeeps
  <2>6. QED
    BY <1>6, <2>2, <2>3, <2>4, <2>5 DEF ConsumeMailToken, Redeems
<1>7. CASE ConsumePending(r)
  <2>1. Learns(r, "get_user_by_id", u, w, l, e)
    BY <1>1, <1>2, <1>4, <1>7, TakeLearns DEF ConsumePending, Handling
  <2>2. QED
    BY <1>3, <1>4, <1>7, <2>1, TakeKeeps DEF ConsumePending, At
<1>8. QED
  BY <1>5, <1>6, <1>7

-----------------------------------------------------------------------------
LEMMA AnswersKeep ==
    ASSUME IInv, NEW r \in Requests,
           \/ SignupTaken(r) \/ ChangeUnknown(r) \/ ChangeRejected(r) \/ ResetUnknown(r)
           \/ ResetTokenUnknown(r) \/ MailTokenUnknown(r) \/ PendingUnknown(r)
           \/ RelinkUserGone(r) \/ NothingToUnlink(r) \/ Publish(r) \/ Fail(r)
    PROVE  Typed /\ Parts'
<1>1. Handling(r)
  BY HandlingFacts
\* a call with a token that has not taken it, or has no token
<1>2. ASSUME request[r].op \notin Takes \/ request[r].phase = "consume_token", Awaiting(r)
      PROVE  \A t \in Requests : Explains(r, t) => request[r].wrote \/ ~Exists(request[t].user)
  BY <1>1, <1>2, AccountAssumption DEF Handling, Explains, Awaiting, Answered, Failed
<1>3. CASE SignupTaken(r)
  BY <1>2, <1>3, AnswerKeeps DEF SignupTaken, At, Awaiting, Takes, Results, NothingStored
<1>4. CASE ChangeUnknown(r) \/ ChangeRejected(r)
  BY <1>2, <1>4, AnswerKeeps DEF ChangeUnknown, ChangeRejected, At, Awaiting, Takes, Results, NothingStored
<1>5. CASE ResetUnknown(r) \/ NothingToUnlink(r)
  BY <1>2, <1>5, AnswerKeeps DEF ResetUnknown, NothingToUnlink, At, Awaiting, Takes, Results, NothingStored
<1>6. CASE ResetTokenUnknown(r) \/ MailTokenUnknown(r) \/ PendingUnknown(r)
  BY <1>2, <1>6, AnswerKeeps
  DEF ResetTokenUnknown, MailTokenUnknown, PendingUnknown, At, Awaiting, Results, NothingStored
<1>7. CASE RelinkUserGone(r)
  <2>1. Awaiting(r) /\ Answer(r, "NotFound") /\ UNCHANGED <<now, users, tokens>>
    BY <1>7 DEF RelinkUserGone, Awaiting, NothingStored
  <2>2. ASSUME NEW t \in Requests, Explains(r, t) PROVE ~Exists(request[t].user)
    <3>1. request[r].op \in Takes /\ request[r].token = t
      BY <1>1, <2>2, AccountAssumption DEF Handling, Explains
    <3>2. Took(r)
      BY <1>7, <3>1 DEF RelinkUserGone, Took
    <3>3. request[r].user = request[t].user
      BY <3>1, <3>2 DEF IInv, TakenOK
    <3>4. QED
      BY <1>7, <3>3 DEF RelinkUserGone
  <2>3. QED
    BY <2>1, <2>2, AnswerKeeps DEF Results
<1>8. CASE Publish(r)
  <2>1. /\ request[r].phase = "publish" /\ Awaiting(r) /\ Answer(r, "Ok")
        /\ UNCHANGED <<now, users, tokens>>
    BY <1>8 DEF Publish, HandsOutEvent, Awaiting
  <2>2. ASSUME NEW t \in Requests, Explains(r, t) PROVE request[r].wrote \/ ~Exists(request[t].user)
    <3>1. request[r].op \in Takes /\ request[r].token = t
      BY <1>1, <2>2, AccountAssumption DEF Handling, Explains
    <3>2. Took(r)
      BY <2>1, <3>1 DEF Took
    <3>3. QED
      BY <2>1, <3>1, <3>2 DEF IInv, TakenOK
  <2>3. QED
    BY <2>1, <2>2, AnswerKeeps DEF Results, Effective
<1>9. CASE Fail(r)
  BY <1>9, AnswerKeeps DEF Fail, Fails, Results, tokens
<1>10. QED
  BY <1>3, <1>4, <1>5, <1>6, <1>7, <1>8, <1>9

LEMMA AwaitsKeep ==
    ASSUME IInv, NEW r \in Requests,
           SignupFree(r) \/ ChangeVerified(r) \/ RereadUser(r) \/ PersistEvent(r)
    PROVE  Typed /\ Parts'
<1>1. CASE SignupFree(r)
  BY <1>1, AwaitKeeps DEF SignupFree, At, Awaiting, Past, StoreCalls, NothingStored
<1>2. CASE ChangeVerified(r)
  BY <1>2, AwaitKeeps DEF ChangeVerified, At, Awaiting, Past, StoreCalls, NothingStored
<1>3. CASE RereadUser(r)
  BY <1>3, AwaitKeeps DEF RereadUser, Awaiting, StoreCalls, NothingStored
<1>4. CASE PersistEvent(r)
  BY <1>4, AwaitKeeps DEF PersistEvent, PersistsEvent, Awaiting, StoreCalls, tokens
<1>5. QED
  BY <1>1, <1>2, <1>3, <1>4

LEMMA TickKeeps == ASSUME IInv, Tick PROVE Typed /\ Parts'
<1>1. /\ UNCHANGED <<users, resets, verifications, pending, request>>
      /\ now \in Nat /\ now' \in Nat /\ now <= now'
      /\ request \in [Requests -> Request]
  BY DEF Tick, tokens, IInv, TypeOK
<1>2. PhasesOK' /\ ValuesOK' /\ StoresOK' /\ OneTaker'
  BY <1>1 DEF IInv, PhasesOK, ValuesOK, StoresOK, OneTaker, PhaseFits, ValueFits, Past, Relinks,
    StoredTokens, Exists, Settled, AsksForMail, Took
<1>3. CallsOK'
  <2>1. \A r \in Requests : request[r].began <= now'
    BY <1>1 DEF IInv, CallsOK, Request
  <2>2. QED
    BY <1>1, <2>1 DEF IInv, CallsOK, Past, Fits, Answered, Settled, Effective
<1>4. TakenOK'
  BY <1>1 DEF IInv, TakenOK, Took, StoredTokens, Exists
<1>5. SpentTokens'
  <2>1. \A t \in Requests : Expired(t) => Expired(t)'
    BY <1>1 DEF Expired, Request
  <2>2. \A r, t \in Requests : Explains(r, t) => Explains(r, t)'
    BY <1>1, <2>1 DEF Explains, Awaiting, Answered, IsChangeToken, Exists, Failed
  <2>3. QED
    BY <1>1, <2>2 DEF IInv, SpentTokens, StoredTokens, Effective, Answered
<1>6. QED
  BY <1>1, <1>2, <1>3, <1>4, <1>5 DEF Parts, Typed

-----------------------------------------------------------------------------
\* What the type invariant says besides of the handlers.
RecordsTyped == users \in [Ids -> User \cup {None}]
Rest == /\ now \in Nat /\ workload \in Workloads
        /\ resets \subseteq Requests /\ verifications \subseteq Requests /\ pending \subseteq Requests
        /\ telemetry \subseteq Requests /\ published \subseteq Requests

LEMMA RestKept == ASSUME IInv, [Next]_vars PROVE Rest'
<1>1. Rest
  BY DEF IInv, TypeOK, Rest
<1>2. CASE UNCHANGED vars \/ Tick
  BY <1>1, <1>2 DEF vars, Tick, tokens, Rest
<1>3. ASSUME NEW r \in Requests, Start(r) \/ Fail(r) PROVE Rest'
  BY <1>1, <1>3
  DEF Start, StartSignup, StartProfile, StartDelete, StartPassword, StartAddress, StartLink,
      StartChangePassword, StartRequestReset, StartCompleteReset, StartRequestVerification,
      StartRequestChange, StartVerify, StartInitiate, StartComplete, StartUnlink, Begin,
      Fail, Fails, tokens, Rest
<1>4. ASSUME NEW r \in Requests, SignupTaken(r) \/ SignupFree(r) \/ CreateUser(r)
                                 \/ UpdateProfile(r) \/ DeleteUser(r) \/ PersistEvent(r) \/ Publish(r)
      PROVE  Rest'
  BY <1>1, <1>4
  DEF SignupTaken, SignupFree, CreateUser, UpdateProfile, DeleteUser, WriteField, OnlyUsers,
      NothingStored, PersistEvent, PersistsEvent, Publish, HandsOutEvent, tokens, Rest
<1>5. ASSUME NEW r \in Requests, PasswordStep(r) PROVE Rest'
  BY <1>1, <1>5
  DEF PasswordStep, ChangeUnknown, ChangeRejected, ChangeVerified, SetPassword, ResetUnknown,
      DrawReset, CreateReset, ResetTokenUnknown, ConsumeReset, WriteField, OnlyUsers,
      NothingStored, tokens, Rest
<1>6. ASSUME NEW r \in Requests, AddressStep(r) PROVE Rest'
  BY <1>1, <1>6
  DEF AddressStep, CreateVerification, MailTokenUnknown, ConsumeMailToken, SetVerified, UpdateEmail,
      WriteField, OnlyUsers, NothingStored, tokens, Rest
<1>7. ASSUME NEW r \in Requests, LinkStep(r) PROVE Rest'
  BY <1>1, <1>7
  DEF LinkStep, CreatePendingLink, PendingUnknown, ConsumePending, RelinkUserGone, AddLink,
      NothingToUnlink, DropLinks, StoreLinks, RereadUser, WriteField, OnlyUsers,
      NothingStored, tokens, Rest
<1>8. QED
  BY <1>2, <1>3, <1>4, <1>5, <1>6, <1>7 DEF Next, Step

LEMMA RecordsTypedKept == ASSUME IInv, [Next]_vars PROVE RecordsTyped'
<1>1. RecordsTyped
  BY DEF IInv, TypeOK, RecordsTyped
<1>2. CASE UNCHANGED vars \/ Tick
  BY <1>1, <1>2 DEF vars, Tick, RecordsTyped
<1>3. ASSUME NEW r \in Requests, Start(r) \/ Fail(r) PROVE RecordsTyped'
  BY <1>1, <1>3
  DEF Start, StartSignup, StartProfile, StartDelete, StartPassword, StartAddress, StartLink,
      StartChangePassword, StartRequestReset, StartCompleteReset, StartRequestVerification,
      StartRequestChange, StartVerify, StartInitiate, StartComplete, StartUnlink, Begin,
      Fail, Fails, RecordsTyped
<1>4. ASSUME NEW r \in Requests, Step(r) PROVE RecordsTyped'
  <2>1. CASE UpdateProfile(r) \/ SetPassword(r) \/ SetVerified(r) \/ UpdateEmail(r) \/ StoreLinks(r)
             \/ CreateUser(r) \/ DeleteUser(r)
    BY <2>1, WritesKeep, RecordsKeep DEF RecordsTyped
  <2>2. CASE SignupTaken(r) \/ SignupFree(r) \/ PersistEvent(r) \/ Publish(r)
    BY <1>1, <2>2 DEF SignupTaken, SignupFree, PersistEvent, Publish, NothingStored, RecordsTyped
  <2>3. CASE PasswordStep(r) /\ ~SetPassword(r)
    BY <1>1, <2>3
    DEF PasswordStep, ChangeUnknown, ChangeRejected, ChangeVerified, ResetUnknown,
        DrawReset, CreateReset, ResetTokenUnknown, ConsumeReset, NothingStored, RecordsTyped
  <2>4. CASE AddressStep(r) /\ ~SetVerified(r) /\ ~UpdateEmail(r)
    BY <1>1, <2>4
    DEF AddressStep, CreateVerification, MailTokenUnknown, ConsumeMailToken, NothingStored, RecordsTyped
  <2>5. CASE LinkStep(r) /\ ~StoreLinks(r)
    BY <1>1, <2>5
    DEF LinkStep, CreatePendingLink, PendingUnknown, ConsumePending, RelinkUserGone, AddLink,
        NothingToUnlink, DropLinks, RereadUser, NothingStored, RecordsTyped
  <2>6. QED
    BY <1>4, <2>1, <2>2, <2>3, <2>4, <2>5 DEF Step
<1>5. QED
  BY <1>2, <1>3, <1>4 DEF Next

LEMMA StepKeeps == ASSUME IInv, NEW r \in Requests, Step(r) PROVE Typed /\ Parts'
BY AnswersKeep, AwaitsKeep, WritesKeep, RecordsKeep, LearnsKeep, CreateKeeps, ConsumesKeep
DEF Step, PasswordStep, AddressStep, LinkStep

LEMMA NextIInv == ASSUME IInv, [Next]_vars PROVE IInv'
<1>1. CASE UNCHANGED vars
  <2>1. Typed /\ PhasesOK' /\ ValuesOK'
    BY <1>1 DEF IInv, TypeOK, Typed, vars, PhasesOK, ValuesOK, PhaseFits, ValueFits, Past, Relinks
  <2>2. CallsOK' /\ StoresOK'
    BY <1>1 DEF IInv, vars, tokens, CallsOK, StoresOK, Past, Fits, Answered, Settled, Effective,
                StoredTokens, Exists, AsksForMail
  <2>3. TakenOK' /\ OneTaker'
    BY <1>1 DEF IInv, vars, tokens, TakenOK, OneTaker, Took, StoredTokens, Exists
  <2>4. SpentTokens'
    BY <1>1 DEF IInv, vars, tokens, SpentTokens, StoredTokens, Effective, Answered, Explains, Awaiting,
                IsChangeToken, Exists, Failed, Expired
  <2>5. QED
    BY <1>1, <2>1, <2>2, <2>3, <2>4 DEF IInv, TypeOK, vars, tokens, Typed
<1>2. CASE Next
  <2>1. Typed /\ Parts'
    BY <1>2, TickKeeps, StartKeeps, AnswersKeep, StepKeeps DEF Next
  <2>2. QED
    BY <2>1, RestKept, RecordsTypedKept DEF Rest, RecordsTyped, Typed, Parts, IInv, TypeOK
<1>3. QED
  BY <1>1, <1>2

-----------------------------------------------------------------------------
(* Theorems *)

\* The strengthened invariant holds: what a call at a given program point, a token or a history
\* says of the stores stays true between the store calls of every handler.
THEOREM Invariance == Spec => []IInv
<1>1. QED
  BY InitIInv, NextIInv, PTL DEF Spec

\* Every variable keeps its type: a record holds values of the kind of its fields, whichever
\* handler wrote them, and the token stores hold requests only.
THEOREM TypeCorrect == Spec => []TypeOK
BY Invariance, PTL DEF IInv

\* consume_reset_token, consume_token and consume_pending_link take what they find: a token
\* changes a record at most once, whichever handlers it is presented to.
THEOREM TokensActOnce == Spec => []TokenActsOnce
<1>1. ASSUME IInv PROVE TokenActsOnce
  <2> SUFFICES ASSUME NEW r \in Requests, NEW q \in Requests, request[r].wrote, request[q].wrote,
                      request[r].token # None, request[r].token = request[q].token
               PROVE  r = q
    BY DEF TokenActsOnce
  <2>1. Took(r) /\ Took(q)
    BY <1>1 DEF IInv, CallsOK, Took
  <2>2. QED
    BY <1>1, <2>1 DEF IInv, OneTaker
<1>2. QED
  BY <1>1, Invariance, PTL

\* The handlers compare the expiry with a clock they read after they began.
THEOREM ExpiryHolds == Spec => []ExpiredTokensDoNothing
<1>1. ASSUME IInv PROVE ExpiredTokensDoNothing
  <2> SUFFICES ASSUME NEW r \in Requests, request[r].wrote, request[r].token # None,
                      request[r].op # "complete_account_link"
               PROVE  request[r].began <= request[request[r].token].expires
    BY DEF ExpiredTokensDoNothing
  <2>1. Took(r)
    BY <1>1 DEF IInv, CallsOK, Took
  <2>2. QED
    BY <1>1, <2>1 DEF IInv, TakenOK
<1>2. QED
  BY <1>1, Invariance, PTL

\* A token that is gone was presented, and the fate of the call that took it is known.
THEOREM SpentTokensExplained == Spec => []SpentTokenExplained
<1>1. IInv => SpentTokenExplained
  BY DEF IInv, SpentTokens, SpentTokenExplained, Drawn, Draws, Explains, Effective
<1>2. QED
  BY <1>1, Invariance, PTL
=============================================================================
