-------------------------- MODULE OneTimeLoginProofs --------------------------
(***************************************************************************)
(* What OneTimeLogin guarantees for any users, codes, requests, lifetimes  *)
(* and any bound on the clock.                                             *)
(***************************************************************************)
EXTENDS OneTimeLogin, TLAPS

\* A handler past its last change of the stores; and one that did not fail before it.
Past(r) == request[r].phase \in {"persist_event", "publish", "done"}
Effective(r) == request[r].phase \in {"persist_event", "publish"} \/ Answered(r, "Ok")

\* What a handler knows of its own call at each store call.
CallsOK == \A r \in Requests :
    /\ request[r].op \notin {"none", "verify_link"} => request[r].user \in Users
    /\ request[r].op \in {"request_link", "verify_link"} => request[r].code = NoCode
    /\ request[r].op = "verify_link"
         => /\ request[r].token \in Requests
            /\ request[request[r].token].op = "request_link" /\ Past(request[r].token)
    /\ request[r].began <= now
    /\ r \notin request[r].after
    /\ \A q \in request[r].after : Answered(q, "Ok")
    /\ request[r].phase = "create_token" => Asks(r)
    /\ request[r].phase \in {"consume", "create_session"} => Verifies(r)
    /\ request[r].phase = "get_user_by_id" => request[r].op = "verify_link"
    /\ r \in sessions => Verifies(r) /\ Past(r) /\ ~Answered(r, "InvalidCredentials")

\* What a stored record says of the request that made it.
RecordsOK ==
    /\ \A t \in links : request[t].op = "request_link" /\ Past(t)
    /\ \A u \in Users : otp[u] # NoToken =>
          request[otp[u]].op = "request_otp" /\ Past(otp[u]) /\ request[otp[u]].user = u

\* r has taken its record out of the store in time, and goes on with it or was told that the
\* code is wrong.
Took(r) == \/ r \in sessions
           \/ request[r].phase \in {"get_user_by_id", "create_session"}
           \/ Answered(r, "InvalidCredentials")

TakenLink(r, t) == request[r].op = "verify_link" /\ request[t].op = "request_link" /\ t \notin links
TakenCode(r, t) == /\ request[r].op = "verify_otp" /\ request[t].op = "request_otp"
                   /\ \A u \in Users : otp[u] # t

\* A record that was taken is in no store, and fits the call that took it.
TakenOK == \A r \in Requests : Took(r) =>
    /\ request[r].token \in Requests /\ Past(request[r].token)
    /\ TakenLink(r, request[r].token) \/ TakenCode(r, request[r].token)
    /\ request[r].user = request[request[r].token].user
    /\ request[r].began <= request[request[r].token].expires
    /\ ~Answered(r, "InvalidCredentials") => request[r].code = request[request[r].token].code

OneTaker == \A r, q \in Requests :
    Took(r) /\ Took(q) /\ request[r].token = request[q].token => r = q

\* The code record of a user is none that had been answered before a stored one was asked for.
NewestStays == \A q \in Requests :
    request[q].op = "request_otp" /\ Effective(q)
        => otp[request[q].user] \notin request[q].after

LateCode == \A r \in Requests : Took(r) /\ request[r].op = "verify_otp" =>
    \A q \in request[r].after :
        request[q].op = "request_otp" /\ request[q].user = request[r].user
            => request[r].token \notin request[q].after

\* A verification that has seen its user began before any deletion of the user was answered.
SawUser(r) == \/ r \in sessions
              \/ request[r].phase = "create_session"
              \/ At(r, "verify_otp", "consume")

Deletions ==
    /\ \A d \in Requests : request[d].op = "delete" /\ Effective(d) => request[d].user \notin users
    /\ \A r \in Requests : SawUser(r) =>
          \A d \in request[r].after : request[d].op = "delete" => request[d].user # request[r].user

Explains(r, t) ==
    /\ request[r].op = "verify_link" /\ request[r].token = t
    /\ \/ r \in sessions
       \/ request[r].phase \in {"get_user_by_id", "create_session"}
       \/ Answered(r, "InvalidToken") /\ Expired(t)
       \/ Answered(r, "NotFound") /\ request[t].user \notin users
       \/ Failed(r)

SpentLinks == \A t \in Requests :
    request[t].op = "request_link" /\ Effective(t) /\ t \notin links
        => \E r \in Requests : Explains(r, t)

SpendsCode(r, t) ==
    /\ request[r].op = "verify_otp" /\ request[r].token = t
    /\ \/ r \in sessions
       \/ request[r].phase = "create_session"
       \/ Answered(r, "InvalidToken") /\ Expired(t)
       \/ Answered(r, "InvalidCredentials") /\ ~RightCode(r, t)
       \/ Failed(r)

Loses(r, t) == SpendsCode(r, t) \/ ReplacesCode(r, t)

SpentCodes == \A t \in Requests :
    request[t].op = "request_otp" /\ Effective(t) /\ otp[request[t].user] # t
        => \E r \in Requests : Loses(r, t)

IInv == /\ TypeOK /\ CallsOK /\ RecordsOK /\ TakenOK /\ OneTaker
        /\ NewestStays /\ LateCode /\ Deletions /\ SpentLinks /\ SpentCodes

LEMMA InitIInv == Init => IInv
BY OneTimeAssumption
DEF Init, IInv, TypeOK, CallsOK, RecordsOK, TakenOK, OneTaker, NewestStays, LateCode, Deletions,
    SpentLinks, SpentCodes, IdleRequest, Request, Ops, StoreCalls, Took, Effective, SawUser, At, Answered,
    Asks, Past

-----------------------------------------------------------------------------
(* How one step moves one handler *)

Others(r) == \A q \in Requests \ {r} : request'[q] = request[q]

\* The call itself stays; and with it what it has drawn or taken.
SameCall(r) == /\ Others(r)
               /\ request'[r].op = request[r].op
               /\ request'[r].began = request[r].began
               /\ request'[r].after = request[r].after

SameLocals(r) == /\ SameCall(r)
                 /\ request'[r].user = request[r].user
                 /\ request'[r].code = request[r].code
                 /\ request'[r].token = request[r].token
                 /\ request'[r].expires = request[r].expires

Typed == request' \in [Requests -> Request]
Results == {"none", "Ok", "InvalidToken", "InvalidCredentials", "NotFound", "Failed"}

LEMMA AnswerMoves ==
    ASSUME IInv, NEW r \in Requests, NEW result \in Results, Answer(r, result)
    PROVE  /\ Typed /\ SameLocals(r)
           /\ request'[r].phase = "done" /\ request'[r].result = result
<1>1. request[r] \in Request /\ request \in [Requests -> Request]
  BY DEF IInv, TypeOK
<1>2. request'[r] = [request[r] EXCEPT !.phase = "done", !.result = result] /\ Others(r)
  BY <1>1 DEF Answer, Others
<1>3. [request[r] EXCEPT !.phase = "done", !.result = result] \in Request
  BY <1>1 DEF Request, Results
<1>4. Typed
  BY <1>1, <1>3 DEF Answer, Typed
<1>5. QED
  BY <1>1, <1>2, <1>4 DEF Request, SameLocals, SameCall

LEMMA AwaitMoves ==
    ASSUME IInv, NEW r \in Requests, NEW call \in StoreCalls, Await(r, call)
    PROVE  /\ Typed /\ SameLocals(r)
           /\ request'[r].phase = call /\ request'[r].result = request[r].result
<1>1. request[r] \in Request /\ request \in [Requests -> Request]
  BY DEF IInv, TypeOK
<1>2. request'[r] = [request[r] EXCEPT !.phase = call] /\ Others(r)
  BY <1>1 DEF Await, Others
<1>3. [request[r] EXCEPT !.phase = call] \in Request
  BY <1>1 DEF Request
<1>4. Typed
  BY <1>1, <1>3 DEF Await, Typed
<1>5. QED
  BY <1>1, <1>2, <1>4 DEF Request, SameLocals, SameCall

Parts == /\ CallsOK /\ RecordsOK /\ TakenOK /\ OneTaker
         /\ NewestStays /\ LateCode /\ Deletions /\ SpentLinks /\ SpentCodes

\* A request begins: it has taken nothing, and knows which calls were answered before it.
LEMMA BeginKeeps ==
    ASSUME IInv, NEW r \in Requests, NEW op \in Ops, NEW call \in StoreCalls,
           NEW u \in Users \cup {NoUser}, NEW t \in Requests \cup {NoToken},
           NEW c \in Codes \cup {NoCode},
           Begin(r, op, call, u, t, c),
           call \in {"get_user", "delete_user"} \/ (call = "consume" /\ op = "verify_link"),
           op # "verify_link" => u \in Users,
           op \in {"request_link", "verify_link"} => c = NoCode,
           op = "verify_link" => t \in Requests /\ request[t].op = "request_link" /\ Past(t)
    PROVE  Typed /\ Parts'
<1>1. request[r] \in Request /\ request \in [Requests -> Request] /\ now \in Nat
  BY DEF IInv, TypeOK
<1>2. /\ request'[r] = [op |-> op, phase |-> call, user |-> u, code |-> c, token |-> t,
                        expires |-> 0, began |-> now, result |-> "none", after |-> AnsweredOk]
      /\ Others(r)
      /\ request[r].phase = "idle"
      /\ UNCHANGED <<now, stores, telemetry, published>>
  BY <1>1 DEF Begin, Idle, IdleRequest, Others
<1>3. request'[r] \in Request
  BY <1>1, <1>2 DEF Request, AnsweredOk
<1>4. Typed
  BY <1>1, <1>3, <1>2 DEF Begin, Typed
<1>5. /\ UNCHANGED <<now, users, links, otp, sessions>>
      /\ ~Past(r) /\ ~Took(r) /\ ~Effective(r) /\ r \notin sessions /\ r \notin AnsweredOk
  BY <1>2, <1>1 DEF stores, IInv, CallsOK, Past, Took, Effective, Answered, AnsweredOk
<1>6. ~Took(r)' /\ ~Effective(r)' /\ ~SawUser(r)'
  BY <1>2, <1>5 DEF Took, Effective, SawUser, Answered, At
<1>7. CallsOK'
  <2>1. \A p \in Requests, q \in Requests : q \in request[p].after => Answered(q, "Ok") /\ q # r
    BY <1>2 DEF IInv, CallsOK, Answered
  <2>2. \A p \in Requests : request'[p].after \subseteq Requests
    BY <1>4 DEF Typed, Request
  <2>3. \A p \in Requests : \A q \in request'[p].after : Answered(q, "Ok")'
    BY <1>2, <1>5, <2>1, <2>2 DEF Others, Answered, AnsweredOk
  <2>4. QED
    BY <1>1, <1>2, <1>5, <2>3 DEF IInv, CallsOK, Others, Past, Asks, Verifies, Answered
<1>8. RecordsOK'
  BY <1>2, <1>5, OneTimeAssumption DEF IInv, TypeOK, RecordsOK, Others, Past
<1>9. TakenOK'
  BY <1>1, <1>2, <1>5, <1>6 DEF IInv, TakenOK, Others, Past, Took, TakenLink, TakenCode, Answered
<1>10. OneTaker'
  BY <1>2, <1>5, <1>6 DEF IInv, OneTaker, Others, Took, Answered
<1>11. NewestStays'
  BY <1>2, <1>5, <1>6 DEF IInv, NewestStays, Others, Effective, Answered
<1>12. LateCode'
  <2> SUFFICES ASSUME NEW p \in Requests \ {r}, Took(p), request[p].op = "verify_otp",
                      NEW q \in request[p].after, request'[q].op = "request_otp",
                      request'[q].user = request[p].user
               PROVE  request[p].token \notin request'[q].after
    BY <1>2, <1>5, <1>6 DEF LateCode, Others, Took, Answered
  <2>1. q \in Requests /\ q # r
    BY <1>1, <1>2 DEF IInv, TypeOK, Request, CallsOK, Answered
  <2>2. QED
    BY <1>2, <2>1 DEF IInv, LateCode, Others
<1>13. Deletions'
  <2>1. \A q \in Requests : q # r => \A d \in request[q].after : d \in Requests /\ d # r
    BY <1>1, <1>2 DEF IInv, TypeOK, Request, CallsOK, Answered
  <2>2. QED
    BY <1>2, <1>5, <1>6, <2>1 DEF IInv, Deletions, Others, Effective, SawUser, Answered, At
<1>14. SpentLinks'
  <2>1. \A q \in Requests : ~Explains(r, q)
    BY <1>2, <1>5 DEF Explains, Answered, Failed
  <2>2. \A p \in Requests \ {r}, q \in Requests \ {r} : Explains(p, q) => Explains(p, q)'
    BY <1>2, <1>5 DEF Explains, Others, Answered, Failed, Expired
  <2>3. QED
    BY <1>2, <1>5, <1>6, <2>1, <2>2 DEF IInv, SpentLinks, Others, Effective, Answered
<1>15. SpentCodes'
  <2>1. \A q \in Requests : ~Loses(r, q)
    BY <1>2, <1>5 DEF Loses, SpendsCode, ReplacesCode, Answered, Failed
  <2>2. \A p \in Requests \ {r}, q \in Requests \ {r} : Loses(p, q) => Loses(p, q)'
    BY <1>2, <1>5
    DEF Loses, SpendsCode, ReplacesCode, Others, Answered, Failed, Expired, RightCode
  <2>3. QED
    BY <1>2, <1>5, <1>6, <2>1, <2>2 DEF IInv, SpentCodes, Others, Effective, Answered
<1>16. QED
  BY <1>4, <1>7, <1>8, <1>9, <1>10, <1>11, <1>12, <1>13, <1>14, <1>15 DEF Parts

-----------------------------------------------------------------------------
(* Steps that put no link or code into a store and take none out *)

LEMMA GentleKeeps ==
    ASSUME IInv, NEW r \in Requests, Typed, SameLocals(r), Awaiting(r),
           UNCHANGED <<now, links, otp>>, users' \subseteq users,
           sessions \subseteq sessions', sessions' \subseteq sessions \cup {r},
           request'[r].phase \notin {"idle", "create_token", "get_user_by_id"},
           request'[r].phase \in {"consume", "create_session"} => Verifies(r),
           Past(r) => Past(r)',
           r \in sessions' => Verifies(r) /\ Past(r)',
           Took(r)' => Took(r),
           ~Answered(r, "InvalidCredentials")',
           Effective(r)' /\ ~Effective(r) =>
               ~Asks(r) /\ (request[r].op = "delete" => request[r].user \notin users'),
           SawUser(r)' => SawUser(r) \/ request[r].user \in users,
           \A t \in Requests : Explains(r, t) => Explains(r, t)',
           \A t \in Requests : Loses(r, t) => Loses(r, t)'
    PROVE  Parts'
<1>1. request[r] \in Request /\ request \in [Requests -> Request]
  BY DEF IInv, TypeOK
<1>2. Others(r) /\ SameCall(r)
  BY DEF SameLocals, SameCall
<1>3. \A q \in Requests : \A p \in request[q].after :
          p \in Requests /\ p # r /\ request'[p] = request[p]
  BY <1>1, <1>2 DEF IInv, TypeOK, Request, CallsOK, Answered, Awaiting, Others
<1>4. \A q \in Requests : /\ request'[q].op = request[q].op
                          /\ request'[q].user = request[q].user
                          /\ request'[q].code = request[q].code
                          /\ request'[q].token = request[q].token
                          /\ request'[q].expires = request[q].expires
                          /\ request'[q].began = request[q].began
                          /\ request'[q].after = request[q].after
  BY <1>2 DEF SameLocals, SameCall, Others
<1>5. \A q \in Requests : /\ Past(q) => Past(q)'
                          /\ Took(q)' => Took(q)
                          /\ Answered(q, "InvalidCredentials")' => Answered(q, "InvalidCredentials")
  BY <1>2 DEF Others, Past, Took, Answered
<1>6. CallsOK'
  <2>1. \A q \in Requests \ {r} : request'[q] = request[q]
    BY <1>2 DEF Others
  <2>2. \A q \in Requests : \A p \in request'[q].after : Answered(p, "Ok")'
    BY <1>3, <1>4 DEF IInv, CallsOK, Answered
  <2>3. \A q \in Requests :
          /\ request'[q].phase = "create_token" => Asks(q)
          /\ request'[q].phase \in {"consume", "create_session"} => Verifies(q)
          /\ request'[q].phase = "get_user_by_id" => request[q].op = "verify_link"
          /\ q \in sessions' => Verifies(q) /\ Past(q)' /\ ~Answered(q, "InvalidCredentials")'
    BY <2>1, <1>5 DEF IInv, CallsOK, Past
  <2>4. QED
    BY <1>4, <1>5, <2>2, <2>3 DEF IInv, CallsOK, Asks, Verifies
<1>7. RecordsOK'
  BY <1>4, <1>5 DEF IInv, TypeOK, RecordsOK
<1>8. TakenOK'
  <2> SUFFICES ASSUME NEW q \in Requests, Took(q)'
               PROVE  /\ request'[q].token \in Requests /\ Past(request[q].token)'
                      /\ TakenLink(q, request[q].token)' \/ TakenCode(q, request[q].token)'
                      /\ request'[q].user = request'[request'[q].token].user
                      /\ request'[q].began <= request'[request'[q].token].expires
                      /\ ~Answered(q, "InvalidCredentials")'
                           => request'[q].code = request'[request'[q].token].code
    BY DEF TakenOK
  <2>1. PICK t \in Requests : t = request[q].token
    BY <1>5 DEF IInv, TakenOK
  <2>2. Past(t) /\ (TakenLink(q, t) \/ TakenCode(q, t))
    BY <1>5, <2>1 DEF IInv, TakenOK
  <2>3. request[q].user = request[t].user /\ request[q].began <= request[t].expires
    BY <1>5, <2>1 DEF IInv, TakenOK
  <2>4. ~Answered(q, "InvalidCredentials")' => request[q].code = request[t].code
    <3>1. CASE Answered(q, "InvalidCredentials")
      <4>1. q # r
        BY <3>1 DEF Answered, Awaiting
      <4>2. QED
        BY <1>2, <3>1, <4>1 DEF Others, Answered
    <3>2. CASE ~Answered(q, "InvalidCredentials")
      BY <1>5, <2>1, <3>2 DEF IInv, TakenOK
    <3>3. QED
      BY <3>1, <3>2
  <2>5. request'[q].token = t
    BY <1>4, <2>1
  <2>6. TakenLink(q, t)' \/ TakenCode(q, t)'
    BY <1>4, <2>2 DEF TakenLink, TakenCode
  <2>7. QED
    BY <1>4, <1>5, <2>1, <2>2, <2>3, <2>4, <2>5, <2>6
<1>9. OneTaker'
  BY <1>4, <1>5 DEF IInv, OneTaker
<1>10. \A q \in Requests : request[q].op = "request_otp" /\ Effective(q)' => Effective(q)
  BY <1>2 DEF Others, Effective, Answered, Asks
<1>11. NewestStays'
  BY <1>4, <1>10 DEF IInv, NewestStays
<1>12. LateCode'
  BY <1>3, <1>4, <1>5 DEF IInv, LateCode
<1>13. Deletions'
  <2>1. \A d \in Requests : request'[d].op = "delete" /\ Effective(d)' => request'[d].user \notin users'
    BY <1>2, <1>4 DEF IInv, Deletions, Others, Effective, Answered
  <2>2. \A q \in Requests : SawUser(q)' => SawUser(q) \/ (q = r /\ request[r].user \in users)
    BY <1>2 DEF Others, SawUser, At
  <2>3. \A q \in Requests : \A d \in request[q].after :
            request[d].op = "delete" => request[d].user \notin users
    BY <1>3 DEF IInv, CallsOK, Deletions, Effective
  <2>4. \A q \in Requests : SawUser(q)' =>
            \A d \in request'[q].after : request'[d].op = "delete" => request'[d].user # request'[q].user
    BY <1>3, <1>4, <2>2, <2>3 DEF IInv, Deletions
  <2>5. QED
    BY <2>1, <2>4 DEF Deletions
<1>14. SpentLinks'
  <2>1. \A q, t \in Requests : Explains(q, t) => Explains(q, t)'
    <3> SUFFICES ASSUME NEW q \in Requests \ {r}, NEW t \in Requests, Explains(q, t)
                 PROVE  Explains(q, t)'
      OBVIOUS
    <3>1. request'[q] = request[q]
      BY <1>2 DEF Others
    <3>2. QED
      BY <1>4, <3>1 DEF Explains, Answered, Failed, Expired
  <2>2. \A t \in Requests : request[t].op = "request_link" /\ Effective(t)' => Effective(t)
    BY <1>2 DEF Others, Effective, Answered, Asks
  <2>3. QED
    BY <1>4, <2>1, <2>2 DEF IInv, SpentLinks
<1>15. SpentCodes'
  <2>1. \A q, t \in Requests : Loses(q, t) => Loses(q, t)'
    <3> SUFFICES ASSUME NEW q \in Requests \ {r}, NEW t \in Requests, Loses(q, t)
                 PROVE  Loses(q, t)'
      OBVIOUS
    <3>1. request'[q] = request[q]
      BY <1>2 DEF Others
    <3>2. QED
      BY <1>4, <3>1
      DEF Loses, SpendsCode, ReplacesCode, Answered, Failed, Expired, RightCode
  <2>2. QED
    BY <1>4, <1>10, <2>1 DEF IInv, SpentCodes
<1>16. QED
  BY <1>6, <1>7, <1>8, <1>9, <1>11, <1>12, <1>13, <1>14, <1>15 DEF Parts

\* A request that is answered, other than with a wrong code.
LEMMA AnswerKeeps ==
    ASSUME IInv, NEW r \in Requests, NEW result \in Results \ {"InvalidCredentials"},
           Awaiting(r), Answer(r, result), UNCHANGED <<now, stores>>,
           result = "Ok" => Effective(r),
           \A t \in Requests : Explains(r, t) =>
               r \in sessions \/ result = "Failed"
               \/ (result = "NotFound" /\ request[t].user \notin users),
           \A t \in Requests : SpendsCode(r, t) => r \in sessions \/ result = "Failed",
           Effective(r) => result \in {"Ok", "Failed"}
    PROVE  Typed /\ Parts'
<1>1. /\ Typed /\ SameLocals(r)
      /\ request'[r].phase = "done" /\ request'[r].result = result
  BY AnswerMoves
<1>2. UNCHANGED <<users, links, otp, sessions>>
  BY DEF stores
<1>3. r \in sessions => Verifies(r) /\ Past(r)
  BY DEF IInv, CallsOK
<1>4. \A t \in Requests : Explains(r, t) => Explains(r, t)'
  <2> SUFFICES ASSUME NEW t \in Requests, Explains(r, t) PROVE Explains(r, t)'
    OBVIOUS
  <2>1. request'[r].op = "verify_link" /\ request'[r].token = t
    BY <1>1 DEF Explains, SameLocals, SameCall
  <2>2. request'[t].user = request[t].user
    BY <1>1 DEF SameLocals, SameCall, Others
  <2>3. QED
    BY <1>1, <1>2, <2>1, <2>2 DEF Explains, Answered, Failed
<1>5. /\ Past(r)' /\ (Took(r)' => Took(r)) /\ ~Answered(r, "InvalidCredentials")'
      /\ Effective(r)' => Effective(r)
      /\ SawUser(r)' => SawUser(r)
  BY <1>1, <1>2 DEF Past, Took, Answered, Effective, SawUser, At
<1>6. \A t \in Requests : Loses(r, t) => Loses(r, t)'
  <2> SUFFICES ASSUME NEW t \in Requests, Loses(r, t) PROVE Loses(r, t)'
    OBVIOUS
  <2>1. /\ request'[r].op = request[r].op /\ request'[r].token = request[r].token
        /\ request'[r].user = request[r].user
        /\ request'[t].op = request[t].op /\ request'[t].user = request[t].user
        /\ request'[t].after = request[t].after
    BY <1>1 DEF SameLocals, SameCall, Others
  <2>2. CASE SpendsCode(r, t)
    BY <1>1, <1>2, <2>1, <2>2 DEF Loses, SpendsCode, Answered, Failed
  <2>3. CASE ReplacesCode(r, t)
    <3>1. Effective(r)
      BY <2>3 DEF ReplacesCode, Effective, Awaiting, Failed, Answered
    <3>2. QED
      BY <1>1, <2>1, <2>3, <3>1 DEF Loses, ReplacesCode, Answered, Failed
  <2>4. QED
    BY <2>2, <2>3 DEF Loses
<1>7. Parts'
  BY <1>1, <1>2, <1>3, <1>4, <1>5, <1>6, GentleKeeps
<1>8. QED
  BY <1>1, <1>7

\* A request goes on to its next store call, with all it had.
LEMMA AwaitKeeps ==
    ASSUME IInv, NEW r \in Requests,
           NEW call \in {"consume", "create_session", "persist_event", "publish"},
           Awaiting(r), Await(r, call),
           UNCHANGED <<now, links, otp>>, users' \subseteq users,
           sessions \subseteq sessions', sessions' \subseteq sessions \cup {r},
           call = "consume" => At(r, "verify_otp", "get_user") /\ request[r].user \in users,
           call = "create_session" =>
               At(r, "verify_link", "get_user_by_id") /\ request[r].user \in users,
           call \in {"consume", "create_session"} => sessions' = sessions,
           call \in {"persist_event", "publish"} =>
               \/ Effective(r) /\ sessions' = sessions
               \/ request[r].phase = "create_session" /\ r \in sessions'
               \/ At(r, "delete", "delete_user") /\ sessions' = sessions /\ request[r].user \notin users'
    PROVE  Typed /\ Parts'
<1>1. /\ Typed /\ SameLocals(r)
      /\ request'[r].phase = call /\ request'[r].result = request[r].result
  BY AwaitMoves DEF StoreCalls
<1>2. r \in sessions => Verifies(r) /\ Past(r)
  BY DEF IInv, CallsOK
<1>3. request[r].phase = "create_session" => Verifies(r)
  BY DEF IInv, CallsOK
<1>4. call \in {"consume", "create_session"} => Verifies(r)
  BY DEF At, Verifies
<1>5. Past(r) => Past(r)'
  BY <1>1 DEF Past, At, Effective, Awaiting, Answered
<1>6. r \in sessions' => Verifies(r) /\ Past(r)'
  BY <1>1, <1>2, <1>3 DEF Past, At, Effective, Awaiting, Answered
<1>7. Took(r)' => Took(r)
  BY <1>1 DEF Took, At, Answered
<1>8. ~Answered(r, "InvalidCredentials")' /\ request'[r].phase \notin {"idle", "create_token", "get_user_by_id"}
  BY <1>1 DEF Answered
<1>9. Effective(r)' /\ ~Effective(r) =>
               ~Asks(r) /\ (request[r].op = "delete" => request[r].user \notin users')
  BY <1>1, <1>3 DEF Effective, Answered, Verifies, At, Asks
<1>10. SawUser(r)' => SawUser(r) \/ request[r].user \in users
  BY <1>1 DEF SawUser, At
<1>11. \A t \in Requests : Explains(r, t) => Explains(r, t)'
  <2> SUFFICES ASSUME NEW t \in Requests, Explains(r, t) PROVE Explains(r, t)'
    OBVIOUS
  <2>1. request'[r].op = "verify_link" /\ request'[r].token = t /\ request[r].op = "verify_link"
    BY <1>1 DEF Explains, SameLocals, SameCall
  <2>2. r \in sessions \/ request[r].phase \in {"get_user_by_id", "create_session"}
    BY DEF Explains, Awaiting, Answered, Failed
  <2>3. r \in sessions' \/ request'[r].phase = "create_session"
    BY <1>1, <2>1, <2>2 DEF At, Effective, Answered
  <2>4. QED
    BY <2>1, <2>3 DEF Explains
<1>12. \A t \in Requests : Loses(r, t) => Loses(r, t)'
  <2> SUFFICES ASSUME NEW t \in Requests, Loses(r, t) PROVE Loses(r, t)'
    OBVIOUS
  <2>1. /\ request'[r].op = request[r].op /\ request'[r].token = request[r].token
        /\ request'[r].user = request[r].user
        /\ request'[t].op = request[t].op /\ request'[t].user = request[t].user
        /\ request'[t].after = request[t].after
    BY <1>1 DEF SameLocals, SameCall, Others
  <2>2. CASE SpendsCode(r, t)
    <3>1. r \in sessions \/ request[r].phase = "create_session"
      BY <2>2 DEF SpendsCode, Awaiting, Answered, Failed
    <3>2. r \in sessions'
      BY <2>2, <3>1 DEF SpendsCode, At, Effective, Answered
    <3>3. QED
      BY <2>1, <2>2, <3>2 DEF Loses, SpendsCode
  <2>3. CASE ReplacesCode(r, t)
    <3>1. request[r].phase \in {"persist_event", "publish"}
      BY <2>3 DEF ReplacesCode, Awaiting, Failed, Answered
    <3>2. call \in {"persist_event", "publish"}
      BY <3>1 DEF At
    <3>3. QED
      BY <1>1, <2>1, <2>3, <3>2 DEF Loses, ReplacesCode
  <2>4. QED
    BY <2>2, <2>3 DEF Loses
<1>13. Parts'
  BY <1>1, <1>4, <1>5, <1>6, <1>7, <1>8, <1>9, <1>10, <1>11, <1>12, GentleKeeps
<1>14. QED
  BY <1>1, <1>13

-----------------------------------------------------------------------------
(* Links and codes are drawn and stored *)

\* A request that is under way and past nothing draws its token.
LEMMA DrawKeeps ==
    ASSUME IInv, NEW r \in Requests, DrawLink(r) \/ DrawOtp(r)
    PROVE  Typed /\ Parts'
<1>1. request[r] \in Request /\ request \in [Requests -> Request] /\ now \in Nat
  BY DEF IInv, TypeOK
<1>2. PICK c \in Codes \cup {NoCode}, e \in Nat :
        /\ request' = [request EXCEPT ![r].phase = "create_token", ![r].code = c,
                                      ![r].expires = e]
        /\ request[r].op = "request_link" => c = NoCode
  <2>1. CASE DrawLink(r)
    <3>1. request' = [request EXCEPT ![r] = [request[r] EXCEPT !.phase = "create_token",
                                                               !.expires = now + LinkTtl]]
      BY <2>1 DEF DrawLink
    <3>2. request[r].code = NoCode
      BY <2>1 DEF DrawLink, At, IInv, CallsOK
    <3>3. request' = [request EXCEPT ![r] = [request[r] EXCEPT !.phase = "create_token",
                                                 !.code = NoCode, !.expires = now + LinkTtl]]
      BY <1>1, <3>1, <3>2 DEF Request
    <3>4. now + LinkTtl \in Nat
      BY <1>1, OneTimeAssumption
    <3>5. QED
      BY <3>3, <3>4
  <2>2. CASE DrawOtp(r)
    <3>1. now + OtpTtl \in Nat
      BY <1>1, OneTimeAssumption
    <3>2. PICK c \in Codes : request' = [request EXCEPT ![r].phase = "create_token", ![r].code = c,
                                                        ![r].expires = now + OtpTtl]
      BY <2>2 DEF DrawOtp
    <3>3. request[r].op # "request_link"
      BY <2>2 DEF DrawOtp, At
    <3>4. QED
      BY <3>1, <3>2, <3>3
  <2>3. QED
    BY <2>1, <2>2
<1>3. /\ request'[r] = [op |-> request[r].op, phase |-> "create_token", user |-> request[r].user,
                        code |-> c, token |-> request[r].token, expires |-> e,
                        began |-> request[r].began, result |-> request[r].result,
                        after |-> request[r].after]
      /\ Others(r)
  <2>1. /\ request'[r] = [request[r] EXCEPT !.phase = "create_token", !.code = c, !.expires = e]
        /\ Others(r)
    BY <1>1, <1>2 DEF Others
  <2>2. QED
    BY <1>1, <2>1 DEF Request
<1>4. request'[r] \in Request
  BY <1>1, <1>3 DEF Request, StoreCalls
<1>5. Typed
  BY <1>1, <1>2, <1>4 DEF Typed
<1>6. /\ UNCHANGED <<now, users, links, otp, sessions>>
      /\ request[r].phase = "get_user" /\ Asks(r) /\ ~Verifies(r)
  BY DEF DrawLink, DrawOtp, NothingStored, stores, At, Asks, Verifies
<1>7. r \notin sessions /\ ~Past(r) /\ ~Past(r)' /\ ~Took(r) /\ ~Took(r)' /\ ~Effective(r) /\ ~Effective(r)'
      /\ ~SawUser(r)'
  BY <1>3, <1>6
  DEF IInv, CallsOK, Past, Took, Effective, SawUser, At, Answered, Verifies, Asks
<1>8. \A p \in Requests : \A q \in request[p].after : q \in Requests /\ q # r
  BY <1>1, <1>6 DEF IInv, TypeOK, CallsOK, Request, Answered
<1>9. CallsOK'
  <2>1. \A p \in Requests : \A q \in request'[p].after : Answered(q, "Ok")'
    BY <1>3, <1>8 DEF IInv, CallsOK, Others, Answered
  <2>2. \A p \in Requests :
          /\ request'[p].op = request[p].op /\ request'[p].user = request[p].user
          /\ request'[p].token = request[p].token /\ request'[p].began = request[p].began
          /\ request'[p].after = request[p].after
          /\ Past(p) => Past(p)'
    BY <1>3, <1>7 DEF Others, Past
  <2>3. \A p \in Requests : request[p].op \in {"request_link", "verify_link"}
                               => request'[p].code = NoCode
    <3>1. request[r].op \in {"request_link", "verify_link"} => request'[r].code = NoCode
      <4>1. request[r].op = "request_link" => c = NoCode
        BY <1>2
      <4>2. request'[r].code = c
        BY <1>3
      <4>3. request[r].op # "verify_link"
        BY <1>6 DEF Verifies
      <4>4. QED
        BY <4>1, <4>2, <4>3
    <3>2. QED
      BY <1>3, <3>1 DEF IInv, CallsOK, Others
  <2>4. \A p \in Requests :
          /\ request'[p].phase = "create_token" => Asks(p)
          /\ request'[p].phase \in {"consume", "create_session"} => Verifies(p)
          /\ request'[p].phase = "get_user_by_id" => request[p].op = "verify_link"
          /\ p \in sessions' => Verifies(p) /\ Past(p)' /\ ~Answered(p, "InvalidCredentials")'
    BY <1>3, <1>6, <1>7 DEF IInv, CallsOK, Others, Past, Answered
  <2>5. QED
    BY <1>6, <2>1, <2>2, <2>3, <2>4 DEF IInv, CallsOK, Asks, Verifies
<1>10. RecordsOK'
  BY <1>3, <1>6, <1>7 DEF IInv, TypeOK, RecordsOK, Others, Past
<1>11. TakenOK'
  BY <1>3, <1>6, <1>7 DEF IInv, TakenOK, Others, Past, Took, TakenLink, TakenCode, Answered
<1>12. OneTaker'
  BY <1>3, <1>6, <1>7 DEF IInv, OneTaker, Others, Took, Answered
<1>13. NewestStays'
  BY <1>3, <1>6, <1>7 DEF IInv, NewestStays, Others, Effective, Answered
<1>14. LateCode'
  BY <1>3, <1>6, <1>7, <1>8 DEF IInv, LateCode, Others, Took, Answered
<1>15. Deletions'
  BY <1>3, <1>6, <1>7, <1>8 DEF IInv, Deletions, Others, Effective, SawUser, Answered, At
<1>16. SpentLinks'
  <2>1. \A q \in Requests : ~Explains(r, q)
    BY <1>6 DEF Explains, Asks
  <2>2. \A p \in Requests \ {r}, q \in Requests \ {r} : Explains(p, q) => Explains(p, q)'
    BY <1>3, <1>6 DEF Explains, Others, Answered, Failed, Expired
  <2>3. QED
    BY <1>3, <1>6, <1>7, <2>1, <2>2 DEF IInv, SpentLinks, Others, Effective, Answered
<1>17. SpentCodes'
  <2>1. \A q \in Requests : ~Loses(r, q)
    BY <1>6 DEF Loses, SpendsCode, ReplacesCode, Asks, Answered, Failed
  <2>2. \A p \in Requests \ {r}, q \in Requests \ {r} : Loses(p, q) => Loses(p, q)'
    BY <1>3, <1>6
    DEF Loses, SpendsCode, ReplacesCode, Others, Answered, Failed, Expired, RightCode
  <2>3. QED
    BY <1>3, <1>6, <1>7, <2>1, <2>2 DEF IInv, SpentCodes, Others, Effective, Answered
<1>18. QED
  BY <1>5, <1>9, <1>10, <1>11, <1>12, <1>13, <1>14, <1>15, <1>16, <1>17 DEF Parts

\* A drawn link or code is stored.
LEMMA CreateKeeps ==
    ASSUME IInv, NEW r \in Requests, CreateLink(r) \/ CreateOtp(r)
    PROVE  Typed /\ Parts'
<1>1. request[r] \in Request /\ request \in [Requests -> Request]
  BY DEF IInv, TypeOK
<1>2. /\ Typed /\ SameLocals(r) /\ SameCall(r) /\ Others(r)
      /\ request'[r].phase = "persist_event"
  BY AwaitMoves DEF CreateLink, CreateOtp, StoreCalls, SameLocals, SameCall
<1>3. /\ UNCHANGED <<now, users, sessions>>
      /\ request[r].phase = "create_token" /\ Asks(r) /\ ~Verifies(r) /\ request[r].user \in Users
  BY DEF CreateLink, CreateOtp, At, Asks, Verifies, IInv, CallsOK
<1>4. \/ request[r].op = "request_link" /\ links' = links \cup {r} /\ otp' = otp
      \/ request[r].op = "request_otp" /\ links' = links /\ otp' = [otp EXCEPT ![request[r].user] = r]
  BY DEF CreateLink, CreateOtp, At
<1>5. r \notin sessions /\ ~Past(r) /\ Past(r)' /\ ~Took(r) /\ ~Took(r)' /\ ~Effective(r) /\ ~SawUser(r)'
  BY <1>2, <1>3
  DEF IInv, CallsOK, Past, Took, Effective, SawUser, At, Answered, Verifies, Asks
<1>6. \A q \in Requests : \A p \in request[q].after :
          p \in Requests /\ p # r /\ request'[p] = request[p]
  BY <1>1, <1>2, <1>3 DEF IInv, TypeOK, Request, CallsOK, Answered, Others
<1>7. \A q \in Requests : /\ request'[q].op = request[q].op
                          /\ request'[q].user = request[q].user
                          /\ request'[q].code = request[q].code
                          /\ request'[q].token = request[q].token
                          /\ request'[q].expires = request[q].expires
                          /\ request'[q].began = request[q].began
                          /\ request'[q].after = request[q].after
  BY <1>2 DEF SameLocals, SameCall, Others
<1>8. \A q \in Requests : /\ Past(q) => Past(q)'
                          /\ Took(q)' <=> Took(q)
                          /\ SawUser(q)' => SawUser(q)
                          /\ q # r => (Effective(q)' <=> Effective(q))
                          /\ Answered(q, "InvalidCredentials")' <=> Answered(q, "InvalidCredentials")
  BY <1>2, <1>3, <1>5 DEF Others, Past, Took, Answered, SawUser, At, Effective
<1>9. otp \in [Users -> Requests \cup {NoToken}]
  BY DEF IInv, TypeOK
<1>10. \A u \in Users : otp'[u] = otp[u] \/ (otp'[u] = r /\ request[r].op = "request_otp" /\ u = request[r].user)
  BY <1>3, <1>4, <1>9
<1>11. CallsOK'
  <2>1. \A q \in Requests : \A p \in request'[q].after : Answered(p, "Ok")'
    BY <1>6, <1>7 DEF IInv, CallsOK, Answered
  <2>2. \A q \in Requests :
          /\ request'[q].phase = "create_token" => Asks(q)
          /\ request'[q].phase \in {"consume", "create_session"} => Verifies(q)
          /\ request'[q].phase = "get_user_by_id" => request[q].op = "verify_link"
          /\ q \in sessions' => Verifies(q) /\ Past(q)' /\ ~Answered(q, "InvalidCredentials")'
    BY <1>2, <1>3, <1>8 DEF IInv, CallsOK, Others
  <2>3. QED
    BY <1>3, <1>7, <1>8, <2>1, <2>2 DEF IInv, CallsOK, Asks, Verifies
<1>12. RecordsOK'
  <2>1. \A t \in links' : request'[t].op = "request_link" /\ Past(t)'
    BY <1>4, <1>5, <1>7, <1>8 DEF IInv, TypeOK, RecordsOK
  <2>2. ASSUME NEW u \in Users, otp'[u] # NoToken
        PROVE  request'[otp'[u]].op = "request_otp" /\ Past(otp[u])' /\ request'[otp'[u]].user = u
    <3>1. CASE otp'[u] = otp[u]
      <4>1. PICK t \in Requests : t = otp[u]
        BY <2>2, <3>1, <1>9
      <4>2. request[t].op = "request_otp" /\ Past(t) /\ request[t].user = u
        BY <2>2, <3>1, <4>1 DEF IInv, RecordsOK
      <4>3. request'[t].op = "request_otp" /\ Past(t)' /\ request'[t].user = u
        BY <1>7, <1>8, <4>2
      <4>4. Past(otp[u])'
        BY <3>1, <4>1, <4>3 DEF Past
      <4>5. QED
        BY <3>1, <4>1, <4>3, <4>4
    <3>2. CASE otp'[u] = r /\ request[r].op = "request_otp" /\ u = request[r].user
      BY <1>5, <1>7, <3>2 DEF Past
    <3>3. QED
      BY <1>10, <3>1, <3>2
  <2>3. QED
    BY <2>1, <2>2 DEF RecordsOK
<1>13. TakenOK'
  <2> SUFFICES ASSUME NEW q \in Requests, Took(q)'
               PROVE  /\ request'[q].token \in Requests /\ Past(request[q].token)'
                      /\ TakenLink(q, request[q].token)' \/ TakenCode(q, request[q].token)'
                      /\ request'[q].user = request'[request'[q].token].user
                      /\ request'[q].began <= request'[request'[q].token].expires
                      /\ ~Answered(q, "InvalidCredentials")'
                           => request'[q].code = request'[request'[q].token].code
    BY DEF TakenOK
  <2>1. PICK t \in Requests : t = request[q].token
    BY <1>8 DEF IInv, TakenOK
  <2>2. /\ Past(t) /\ (TakenLink(q, t) \/ TakenCode(q, t))
        /\ request[q].user = request[t].user /\ request[q].began <= request[t].expires
        /\ ~Answered(q, "InvalidCredentials") => request[q].code = request[t].code
    BY <1>8, <2>1 DEF IInv, TakenOK
  <2>3. t # r
    BY <1>5, <2>2
  <2>4. TakenLink(q, t)' \/ TakenCode(q, t)'
    BY <1>4, <1>7, <1>10, <2>2, <2>3 DEF TakenLink, TakenCode
  <2>5. request'[q].token = t
    BY <1>7, <2>1
  <2>6. QED
    BY <1>7, <1>8, <2>1, <2>2, <2>4, <2>5
<1>14. OneTaker'
  BY <1>7, <1>8 DEF IInv, OneTaker
<1>15. NewestStays'
  <2> SUFFICES ASSUME NEW q \in Requests, request[q].op = "request_otp", Effective(q)'
               PROVE  otp'[request[q].user] \notin request[q].after
    BY <1>7 DEF NewestStays
  <2>1. request[q].user \in Users
    BY DEF IInv, CallsOK
  <2>2. CASE otp'[request[q].user] = r
    BY <1>6, <2>2
  <2>3. CASE otp'[request[q].user] # r
    <3>1. q # r /\ otp'[request[q].user] = otp[request[q].user]
      BY <1>4, <1>9, <1>10, <2>1, <2>3
    <3>2. QED
      BY <1>8, <3>1 DEF IInv, NewestStays
  <2>4. QED
    BY <2>2, <2>3
<1>16. LateCode'
  BY <1>6, <1>7, <1>8 DEF IInv, LateCode
<1>17. Deletions'
  <2>1. \A d \in Requests : request'[d].op = "delete" /\ Effective(d)' => request'[d].user \notin users'
    BY <1>3, <1>7, <1>8 DEF IInv, Deletions, Asks
  <2>2. \A q \in Requests : SawUser(q)' =>
            \A d \in request'[q].after : request'[d].op = "delete" => request'[d].user # request'[q].user
    BY <1>6, <1>7, <1>8 DEF IInv, Deletions
  <2>3. QED
    BY <2>1, <2>2 DEF Deletions
<1>18. SpentLinks'
  <2>1. \A p, q \in Requests : Explains(p, q) => Explains(p, q)'
    <3> SUFFICES ASSUME NEW p \in Requests, NEW q \in Requests, Explains(p, q)
                 PROVE  Explains(p, q)'
      OBVIOUS
    <3>1. p # r
      BY <1>3 DEF Explains, Asks
    <3>2. request'[p] = request[p]
      BY <1>2, <3>1 DEF Others
    <3>3. QED
      BY <1>3, <1>7, <3>2 DEF Explains, Answered, Failed, Expired
  <2>2. \A t \in Requests : request[t].op = "request_link" /\ Effective(t)' /\ t \notin links'
            => Effective(t) /\ t \notin links
    BY <1>4, <1>8
  <2>3. QED
    BY <1>7, <2>1, <2>2 DEF IInv, SpentLinks
<1>19. SpentCodes'
  <2>1. \A p, q \in Requests : Loses(p, q) => Loses(p, q)'
    <3> SUFFICES ASSUME NEW p \in Requests, NEW q \in Requests, Loses(p, q)
                 PROVE  Loses(p, q)'
      OBVIOUS
    <3>1. p # r
      BY <1>3 DEF Loses, SpendsCode, ReplacesCode, Asks, Answered, Failed
    <3>2. request'[p] = request[p]
      BY <1>2, <3>1 DEF Others
    <3>3. QED
      BY <1>3, <1>7, <3>2
      DEF Loses, SpendsCode, ReplacesCode, Answered, Failed, Expired, RightCode
  <2> SUFFICES ASSUME NEW t \in Requests, request[t].op = "request_otp", Effective(t)',
                      otp'[request[t].user] # t
               PROVE  \E p \in Requests : Loses(p, t)'
    BY <1>7 DEF SpentCodes
  <2>2. request[t].user \in Users
    BY DEF IInv, CallsOK
  <2>3. t # r
    BY <1>4, <1>9, <2>2
  <2>4. CASE otp[request[t].user] # t
    BY <1>8, <2>1, <2>3, <2>4 DEF IInv, SpentCodes
  <2>5. CASE otp[request[t].user] = t
    <3>1. request[r].op = "request_otp" /\ request[t].user = request[r].user
      BY <1>10, <2>2, <2>5
    <3>2. r \notin request[t].after
      BY <1>6
    <3>3. ReplacesCode(r, t)'
      BY <1>2, <1>7, <2>3, <3>1, <3>2 DEF ReplacesCode
    <3>4. QED
      BY <3>3 DEF Loses
  <2>6. QED
    BY <2>4, <2>5
<1>20. QED
  BY <1>2, <1>11, <1>12, <1>13, <1>14, <1>15, <1>16, <1>17, <1>18, <1>19 DEF Parts

-----------------------------------------------------------------------------
(* A verification takes its record out of the store *)

\* The call stays as it was but for the user it was for or the record it took.
LEMMA TakeMoves ==
    ASSUME IInv, NEW r \in Requests, ConsumeLink(r) \/ ConsumeOtp(r)
    PROVE  \E t \in Requests :
             /\ Typed /\ SameCall(r)
             /\ request'[r].token = t /\ request'[r].code = request[r].code
             /\ request'[r].expires = request[r].expires
             /\ UNCHANGED <<now, users, sessions>>
             /\ \/ /\ At(r, "verify_link", "consume")
                   /\ request[r].token = t /\ t \in links /\ links' = links \ {t} /\ otp' = otp
                   /\ request[t].op = "request_link"
                   /\ \/ /\ Expired(t) /\ request'[r].user = request[r].user
                         /\ request'[r].phase = "done" /\ request'[r].result = "InvalidToken"
                      \/ /\ ~Expired(t) /\ request'[r].user = request[t].user
                         /\ request'[r].phase = "get_user_by_id"
                \/ /\ At(r, "verify_otp", "consume") /\ request'[r].user = request[r].user
                   /\ request[r].user \in Users /\ otp[request[r].user] = t
                   /\ otp' = [otp EXCEPT ![request[r].user] = NoToken] /\ links' = links
                   /\ request[t].op = "request_otp" /\ request[t].user = request[r].user
                   /\ \/ /\ Expired(t)
                         /\ request'[r].phase = "done" /\ request'[r].result = "InvalidToken"
                      \/ /\ ~Expired(t) /\ ~RightCode(r, t) /\ request'[r].phase = "done"
                         /\ request'[r].result = "InvalidCredentials"
                      \/ /\ ~Expired(t) /\ request[r].code = request[t].code
                         /\ request'[r].phase = "create_session" /\ request'[r].result = "none"
<1>1. request[r] \in Request /\ request \in [Requests -> Request]
  BY DEF IInv, TypeOK
<1>2. CASE ConsumeLink(r)
  <2>1. PICK t \in Requests : t = request[r].token
    BY <1>2 DEF ConsumeLink, At, IInv, CallsOK
  <2>2. /\ t \in links /\ links' = links \ {t} /\ UNCHANGED <<now, users, otp, sessions>>
        /\ At(r, "verify_link", "consume") /\ JudgeLink(r, t)
        /\ request[t].op = "request_link"
    BY <1>2, <2>1 DEF ConsumeLink, IInv, RecordsOK
  <2>3. CASE Expired(t)
    <3>1. Answer(r, "InvalidToken")
      BY <2>2, <2>3 DEF JudgeLink
    <3>2. Typed /\ SameLocals(r) /\ request'[r].phase = "done" /\ request'[r].result = "InvalidToken"
      BY <3>1, AnswerMoves DEF Results
    <3>3. QED
      BY <2>1, <2>2, <2>3, <3>2 DEF SameLocals
  <2>4. CASE ~Expired(t)
    <3>1. request' = [request EXCEPT ![r].phase = "get_user_by_id", ![r].user = request[t].user]
      BY <2>2, <2>4 DEF JudgeLink
    <3>2. /\ request'[r] = [request[r] EXCEPT !.phase = "get_user_by_id", !.user = request[t].user]
          /\ Others(r)
      BY <1>1, <3>1 DEF Others
    <3>3. request[t].user \in Users \cup {NoUser}
      BY <1>1 DEF Request
    <3>4. request'[r] \in Request
      BY <1>1, <3>2, <3>3 DEF Request, StoreCalls
    <3>5. Typed
      BY <1>1, <3>1, <3>4 DEF Typed
    <3>6. QED
      BY <1>1, <2>1, <2>2, <2>4, <3>2, <3>5 DEF Request, SameCall
  <2>5. QED
    BY <2>3, <2>4
<1>3. CASE ConsumeOtp(r)
  <2>1. request[r].user \in Users
    BY <1>3 DEF ConsumeOtp, At, IInv, CallsOK
  <2>2. PICK t \in Requests : t = otp[request[r].user]
    BY <1>3, <2>1 DEF ConsumeOtp, IInv, TypeOK
  <2>3. /\ otp' = [otp EXCEPT ![request[r].user] = NoToken]
        /\ UNCHANGED <<now, users, links, sessions>>
        /\ At(r, "verify_otp", "consume") /\ JudgeOtp(r, t)
        /\ request[t].op = "request_otp" /\ request[t].user = request[r].user
    BY <1>3, <2>1, <2>2 DEF ConsumeOtp, IInv, RecordsOK
  <2>4. ASSUME NEW call \in {"done", "create_session"}, NEW result \in Results,
               Judged(r, t, call, result)
        PROVE  /\ Typed /\ SameCall(r) /\ request'[r].user = request[r].user
               /\ request'[r].token = t /\ request'[r].code = request[r].code
               /\ request'[r].expires = request[r].expires
               /\ request'[r].phase = call /\ request'[r].result = result
    <3>1. request' = [request EXCEPT ![r].token = t, ![r].phase = call, ![r].result = result]
      BY <2>4 DEF Judged
    <3>2. /\ request'[r] = [request[r] EXCEPT !.token = t, !.phase = call, !.result = result]
          /\ Others(r)
      BY <1>1, <3>1 DEF Others
    <3>3. request'[r] \in Request
      BY <1>1, <3>2 DEF Request, StoreCalls, Results
    <3>4. Typed
      BY <1>1, <3>1, <3>3 DEF Typed
    <3>5. QED
      BY <1>1, <3>2, <3>4 DEF Request, SameCall
  <2>5. CASE Expired(t) /\ Judged(r, t, "done", "InvalidToken")
    BY <2>1, <2>2, <2>3, <2>4, <2>5 DEF Results
  <2>6. CASE ~Expired(t) /\ ~RightCode(r, t) /\ Judged(r, t, "done", "InvalidCredentials")
    BY <2>1, <2>2, <2>3, <2>4, <2>6 DEF Results
  <2>7. CASE ~Expired(t) /\ RightCode(r, t) /\ Judged(r, t, "create_session", "none")
    BY <2>1, <2>2, <2>3, <2>4, <2>7 DEF Results, RightCode
  <2>8. QED
    BY <2>3, <2>5, <2>6, <2>7 DEF JudgeOtp
<1>4. QED
  BY <1>2, <1>3

LEMMA TakeKeeps ==
    ASSUME IInv, NEW r \in Requests, ConsumeLink(r) \/ ConsumeOtp(r)
    PROVE  Typed /\ Parts'
<1> DEFINE Link == At(r, "verify_link", "consume")
           Code == At(r, "verify_otp", "consume")
<1>0. PICK t \in Requests :
        /\ Typed /\ SameCall(r)
        /\ request'[r].token = t /\ request'[r].code = request[r].code
        /\ request'[r].expires = request[r].expires
        /\ UNCHANGED <<now, users, sessions>>
        /\ \/ /\ Link
              /\ request[r].token = t /\ t \in links /\ links' = links \ {t} /\ otp' = otp
              /\ request[t].op = "request_link"
              /\ \/ /\ Expired(t) /\ request'[r].user = request[r].user
                    /\ request'[r].phase = "done" /\ request'[r].result = "InvalidToken"
                 \/ /\ ~Expired(t) /\ request'[r].user = request[t].user
                    /\ request'[r].phase = "get_user_by_id"
           \/ /\ Code /\ request'[r].user = request[r].user
              /\ request[r].user \in Users /\ otp[request[r].user] = t
              /\ otp' = [otp EXCEPT ![request[r].user] = NoToken] /\ links' = links
              /\ request[t].op = "request_otp" /\ request[t].user = request[r].user
              /\ \/ /\ Expired(t)
                    /\ request'[r].phase = "done" /\ request'[r].result = "InvalidToken"
                 \/ /\ ~Expired(t) /\ ~RightCode(r, t) /\ request'[r].phase = "done"
                    /\ request'[r].result = "InvalidCredentials"
                 \/ /\ ~Expired(t) /\ request[r].code = request[t].code
                    /\ request'[r].phase = "create_session" /\ request'[r].result = "none"
  BY TakeMoves
<1>1. /\ request[r] \in Request /\ request \in [Requests -> Request] /\ now \in Nat
      /\ otp \in [Users -> Requests \cup {NoToken}] /\ links \subseteq Requests
  BY DEF IInv, TypeOK
<1>2. /\ request[r].phase = "consume" /\ Verifies(r) /\ ~Asks(r) /\ request[r].op # "delete"
      /\ Others(r) /\ SameCall(r)
  BY <1>0 DEF At, Verifies, Asks, SameCall
<1>3. r \notin sessions /\ ~Past(r) /\ ~Took(r) /\ ~Effective(r) /\ t # r
  BY <1>0, <1>2 DEF IInv, CallsOK, Past, Took, Effective, At, Answered, Verifies
<1>4. \A q \in Requests : \A p \in request[q].after :
          p \in Requests /\ p # r /\ request'[p] = request[p]
  BY <1>1, <1>2 DEF IInv, TypeOK, Request, CallsOK, Answered, Others
<1>5. /\ Past(t)
      /\ Link => \A u \in Users : otp[u] # t
      /\ Code => t \notin links
  BY <1>0, <1>1, OneTimeAssumption DEF IInv, RecordsOK, At
<1>6. \A q \in Requests : /\ request'[q].op = request[q].op
                          /\ q # r => request'[q].user = request[q].user
                          /\ q # r => request'[q].token = request[q].token
                          /\ request'[q].code = request[q].code
                          /\ request'[q].expires = request[q].expires
                          /\ request'[q].began = request[q].began
                          /\ request'[q].after = request[q].after
  BY <1>0, <1>2 DEF SameCall, Others
<1>7. \A q \in Requests : /\ Past(q) => Past(q)'
                          /\ q # r => (Took(q)' <=> Took(q))
                          /\ q # r => (SawUser(q)' => SawUser(q))
                          /\ q # r => (Answered(q, "InvalidCredentials")' <=> Answered(q, "InvalidCredentials"))
                          /\ q # r => (Effective(q)' <=> Effective(q))
  BY <1>0, <1>2, <1>3 DEF Others, Past, Took, Answered, SawUser, At, Effective
<1>8. /\ ~Effective(r)'
      /\ request'[r].phase \in {"done", "get_user_by_id", "create_session"}
      /\ request'[r].phase = "get_user_by_id" => Link
  BY <1>0, <1>2 DEF Effective, Answered
<1>9. \A u \in Users : otp'[u] = otp[u] \/ otp'[u] = NoToken
  BY <1>0, <1>1
<1>10. links' \subseteq links
  BY <1>0
\* the record was not taken before
<1>11. \A q \in Requests : Took(q) => request[q].token # t
  <2> SUFFICES ASSUME NEW q \in Requests, Took(q), request[q].token = t PROVE FALSE
    OBVIOUS
  <2>1. TakenLink(q, t) \/ TakenCode(q, t)
    BY DEF IInv, TakenOK
  <2>2. QED
    BY <1>0, <2>1 DEF TakenLink, TakenCode
<1>12. CallsOK'
  <2>1. \A q \in Requests : \A p \in request'[q].after : Answered(p, "Ok")'
    BY <1>4, <1>6 DEF IInv, CallsOK, Answered
  <2>2. \A q \in Requests :
          /\ request'[q].phase = "create_token" => Asks(q)
          /\ request'[q].phase \in {"consume", "create_session"} => Verifies(q)
          /\ request'[q].phase = "get_user_by_id" => request[q].op = "verify_link"
          /\ q \in sessions' => Verifies(q) /\ Past(q)' /\ ~Answered(q, "InvalidCredentials")'
    BY <1>0, <1>2, <1>3, <1>7, <1>8 DEF IInv, CallsOK, Others, At
  <2>3. \A q \in Requests : request[q].op = "verify_link" => request'[q].token = request[q].token
    BY <1>0, <1>6 DEF At
  <2>4. \A q \in Requests : request[q].op \notin {"none", "verify_link"} => request'[q].user \in Users
    BY <1>0, <1>6 DEF At, IInv, CallsOK
  <2>5. QED
    BY <1>0, <1>6, <1>7, <2>1, <2>2, <2>3, <2>4 DEF IInv, CallsOK, Asks, Verifies
<1>13. RecordsOK'
  <2>1. \A q \in Requests : request[q].op \in {"request_link", "request_otp"} => q # r
    BY <1>2 DEF Asks
  <2>2. \A q \in links' : request'[q].op = "request_link" /\ Past(q)'
    BY <1>1, <1>6, <1>7, <1>10 DEF IInv, RecordsOK
  <2>3. ASSUME NEW u \in Users, otp'[u] # NoToken
        PROVE  request'[otp'[u]].op = "request_otp" /\ Past(otp[u])' /\ request'[otp'[u]].user = u
    <3>1. PICK q \in Requests : q = otp[u] /\ q = otp'[u]
      BY <1>1, <1>9, <2>3
    <3>2. request[q].op = "request_otp" /\ Past(q) /\ request[q].user = u
      BY <1>9, <2>3, <3>1 DEF IInv, RecordsOK
    <3>3. request'[q].op = "request_otp" /\ Past(q)' /\ request'[q].user = u
      BY <1>6, <1>7, <2>1, <3>2
    <3>4. Past(otp[u])'
      BY <3>1, <3>3 DEF Past
    <3>5. QED
      BY <3>1, <3>3, <3>4
  <2>4. QED
    BY <2>2, <2>3 DEF RecordsOK
<1>14. TakenOK'
  <2>1. ASSUME NEW q \in Requests \ {r}, Took(q)'
        PROVE  /\ request'[q].token \in Requests /\ Past(request[q].token)'
               /\ TakenLink(q, request[q].token)' \/ TakenCode(q, request[q].token)'
               /\ request'[q].user = request'[request'[q].token].user
               /\ request'[q].began <= request'[request'[q].token].expires
               /\ ~Answered(q, "InvalidCredentials")'
                    => request'[q].code = request'[request'[q].token].code
    <3>1. PICK s \in Requests : s = request[q].token
      BY <1>7, <2>1 DEF IInv, TakenOK
    <3>2. /\ Past(s) /\ (TakenLink(q, s) \/ TakenCode(q, s))
          /\ request[q].user = request[s].user /\ request[q].began <= request[s].expires
          /\ ~Answered(q, "InvalidCredentials") => request[q].code = request[s].code
      BY <1>7, <2>1, <3>1 DEF IInv, TakenOK
    <3>3. s # r
      BY <1>3, <3>2
    <3>4. TakenLink(q, s)' \/ TakenCode(q, s)'
      BY <1>6, <1>9, <1>10, <3>2, OneTimeAssumption DEF TakenLink, TakenCode
    <3>5. request'[q].token = s
      BY <1>6, <2>1, <3>1
    <3>6. QED
      BY <1>6, <1>7, <2>1, <3>1, <3>2, <3>3, <3>4, <3>5
  <2>2. ASSUME Took(r)'
        PROVE  /\ request'[r].token \in Requests /\ Past(request[r].token)'
               /\ TakenLink(r, request[r].token)' \/ TakenCode(r, request[r].token)'
               /\ request'[r].user = request'[request'[r].token].user
               /\ request'[r].began <= request'[request'[r].token].expires
               /\ ~Answered(r, "InvalidCredentials")'
                    => request'[r].code = request'[request'[r].token].code
    <3>1. /\ request'[t].user = request[t].user /\ request'[t].expires = request[t].expires
          /\ request'[t].code = request[t].code /\ Past(t)' /\ request'[t].op = request[t].op
      BY <1>3, <1>5, <1>6, <1>7
    <3>2. ~Expired(t)
      BY <1>0, <1>3, <2>2 DEF Took, Answered
    <3>3. request[r].began <= request[t].expires
      <4>1. request[r].began <= now /\ request[r].began \in Nat /\ request[t].expires \in Nat
        BY <1>1 DEF IInv, CallsOK, Request
      <4>2. QED
        BY <1>1, <3>2, <4>1 DEF Expired
    <3>4. request'[r].user = request[t].user
      BY <1>0, <3>2
    <3>5. TakenLink(r, t)' \/ TakenCode(r, t)'
      <4>1. CASE Link
        BY <1>0, <1>6, <3>1, <4>1 DEF TakenLink, At
      <4>2. CASE Code
        <5>1. \A u \in Users : otp'[u] # t
          BY <1>0, <1>1, <4>2, OneTimeAssumption DEF IInv, RecordsOK, At
        <5>2. QED
          BY <1>0, <1>6, <3>1, <4>2, <5>1 DEF TakenCode, At
      <4>3. QED
        BY <1>0, <4>1, <4>2
    <3>6. ~Answered(r, "InvalidCredentials")' => request[r].code = request[t].code
      <4>1. CASE Link
        BY <1>0, <4>1 DEF At, IInv, CallsOK
      <4>2. CASE Code
        BY <1>0, <3>2, <4>2 DEF At, Answered
      <4>3. QED
        BY <1>0, <4>1, <4>2
    <3>7. QED
      BY <1>0, <1>6, <3>1, <3>3, <3>4, <3>5, <3>6
  <2>3. QED
    BY <2>1, <2>2 DEF TakenOK
<1>15. OneTaker'
  BY <1>0, <1>6, <1>7, <1>11 DEF IInv, OneTaker
<1>16. NewestStays'
  <2> SUFFICES ASSUME NEW q \in Requests, request[q].op = "request_otp", Effective(q)'
               PROVE  otp'[request'[q].user] \notin request[q].after
    BY <1>6 DEF NewestStays
  <2>1. q # r /\ request'[q].user = request[q].user /\ request[q].user \in Users /\ Effective(q)
    BY <1>6, <1>7, <1>8 DEF IInv, CallsOK
  <2>2. otp[request[q].user] \notin request[q].after
    BY <2>1 DEF IInv, NewestStays
  <2>3. NoToken \notin request[q].after
    BY <1>4, OneTimeAssumption
  <2>4. QED
    BY <1>9, <2>1, <2>2, <2>3
<1>17. LateCode'
  <2> SUFFICES ASSUME NEW p \in Requests, Took(p)', request[p].op = "verify_otp",
                      NEW q \in request[p].after, request[q].op = "request_otp",
                      request[q].user = request'[p].user
               PROVE  request'[p].token \notin request[q].after
    BY <1>4, <1>6 DEF LateCode
  <2>1. CASE p # r
    BY <1>6, <1>7, <2>1 DEF IInv, LateCode
  <2>2. CASE p = r
    <3>1. Effective(q) /\ q \in Requests
      BY <1>4 DEF IInv, CallsOK, Effective
    <3>2. Code
      BY <1>0, <2>2 DEF At
    <3>3. QED
      BY <1>0, <2>2, <3>1, <3>2 DEF IInv, NewestStays, At
  <2>3. QED
    BY <2>1, <2>2
<1>18. Deletions'
  <2>1. \A d \in Requests : request'[d].op = "delete" /\ Effective(d)' => request'[d].user \notin users'
    BY <1>0, <1>2, <1>6, <1>7 DEF IInv, Deletions
  <2>2. SawUser(r)' => Code
    BY <1>0, <1>2, <1>3 DEF SawUser, At
  <2>3. Code => SawUser(r) /\ request'[r].user = request[r].user
    BY <1>0 DEF SawUser, At
  <2>4. \A q \in Requests : SawUser(q)' => SawUser(q) /\ request'[q].user = request[q].user
    BY <1>6, <1>7, <2>2, <2>3
  <2>5. \A q \in Requests : SawUser(q)' =>
            \A d \in request'[q].after : request'[d].op = "delete" => request'[d].user # request'[q].user
    BY <1>4, <1>6, <2>4 DEF IInv, Deletions
  <2>6. QED
    BY <2>1, <2>5 DEF Deletions
<1>19. SpentLinks'
  <2>1. \A p \in Requests \ {r}, q \in Requests \ {r} : Explains(p, q) => Explains(p, q)'
    BY <1>0, <1>2, <1>6 DEF Others, Explains, Answered, Failed, Expired
  <2>2. \A q \in Requests : ~Explains(r, q)
    BY <1>2, <1>3 DEF Explains, Answered, Failed
  <2>3. Link => Explains(r, t)'
    <3>1. Expired(t)' <=> Expired(t)
      BY <1>0, <1>6 DEF Expired
    <3>2. QED
      BY <1>0, <1>6, <3>1 DEF Explains, Answered, At
  <2>4. \A q \in Requests : request[q].op = "request_link" /\ Effective(q)' => Effective(q) /\ q # r
    BY <1>7, <1>8
  <2>5. \A q \in Requests : q \notin links' => q \notin links \/ (q = t /\ Link)
    BY <1>0
  <2>6. QED
    BY <1>6, <2>1, <2>2, <2>3, <2>4, <2>5 DEF IInv, SpentLinks
<1>20. SpentCodes'
  <2>1. \A p \in Requests \ {r}, q \in Requests \ {r} : Loses(p, q) => Loses(p, q)'
    BY <1>0, <1>2, <1>6
    DEF Others, Loses, SpendsCode, ReplacesCode, Answered, Failed, Expired, RightCode
  <2>2. \A q \in Requests : ~Loses(r, q)
    BY <1>2, <1>3 DEF Loses, SpendsCode, ReplacesCode, Asks, Answered, Failed
  <2>3. Code => SpendsCode(r, t)'
    <3>1. (Expired(t)' <=> Expired(t)) /\ (RightCode(r, t)' <=> RightCode(r, t))
      BY <1>0, <1>6 DEF Expired, RightCode
    <3>2. QED
      BY <1>0, <1>6, <3>1 DEF SpendsCode, Answered, At
  <2> SUFFICES ASSUME NEW q \in Requests, request[q].op = "request_otp", Effective(q)',
                      otp'[request'[q].user] # q
               PROVE  \E p \in Requests : Loses(p, q)'
    BY <1>6 DEF SpentCodes
  <2>4. q # r /\ Effective(q) /\ request'[q].user = request[q].user /\ request[q].user \in Users
    BY <1>6, <1>7, <1>8 DEF IInv, CallsOK
  <2>5. CASE otp[request[q].user] # q
    BY <2>1, <2>2, <2>4, <2>5 DEF IInv, SpentCodes
  <2>6. CASE otp[request[q].user] = q
    <3>1. Code /\ q = t
      <4>1. otp' # otp
        BY <2>4, <2>6
      <4>2. Code /\ otp' = [otp EXCEPT ![request[r].user] = NoToken]
        BY <1>0, <4>1
      <4>3. request[q].user = request[r].user
        BY <1>1, <2>4, <2>6, <4>2
      <4>4. QED
        BY <1>0, <2>6, <4>2, <4>3 DEF At
    <3>2. QED
      BY <2>3, <3>1 DEF Loses
  <2>7. QED
    BY <2>5, <2>6
<1>21. QED
  BY <1>0, <1>12, <1>13, <1>14, <1>15, <1>16, <1>17, <1>18, <1>19, <1>20 DEF Parts

-----------------------------------------------------------------------------
LEMMA TickKeeps == ASSUME IInv, Tick PROVE Typed /\ Parts'
<1>1. /\ UNCHANGED <<users, links, otp, sessions, request>>
      /\ now \in Nat /\ now' \in Nat /\ now <= now'
      /\ request \in [Requests -> Request]
  BY DEF Tick, stores, IInv, TypeOK
<1>2. CallsOK'
  <2>1. \A r \in Requests : request[r].began <= now'
    BY <1>1 DEF IInv, CallsOK, Request
  <2>2. QED
    BY <1>1, <2>1 DEF IInv, CallsOK, Past, Asks, Verifies, Answered
<1>3. SpentLinks'
  <2>1. \A t \in Requests : Expired(t) => Expired(t)'
    BY <1>1 DEF Expired, Request
  <2>2. QED
    BY <1>1, <2>1 DEF IInv, SpentLinks, Explains, Effective, Answered, Failed
<1>4. RecordsOK' /\ TakenOK' /\ OneTaker'
  BY <1>1 DEF IInv, RecordsOK, TakenOK, OneTaker, Took, TakenLink, TakenCode, Past, Answered
<1>5. NewestStays' /\ LateCode' /\ Deletions'
  BY <1>1 DEF IInv, NewestStays, LateCode, Deletions, Took, SawUser, Effective, At, Answered
<1>6. SpentCodes'
  <2>1. \A t \in Requests : Expired(t) => Expired(t)'
    BY <1>1 DEF Expired, Request
  <2>2. QED
    BY <1>1, <2>1
    DEF IInv, SpentCodes, Loses, SpendsCode, ReplacesCode, Effective, Answered, Failed, RightCode
<1>7. QED
  BY <1>1, <1>2, <1>3, <1>4, <1>5, <1>6 DEF Parts, Typed

\* What the type invariant says besides of the handlers.
Rest == /\ now \in Nat /\ users \subseteq Users /\ links \subseteq Requests
        /\ otp \in [Users -> Requests \cup {NoToken}] /\ sessions \subseteq Requests
        /\ telemetry \subseteq Requests /\ published \subseteq Requests

LEMMA RestKept == ASSUME IInv, [Next]_vars PROVE Rest'
<1>1. Rest
  BY DEF IInv, TypeOK, Rest
<1>2. CASE UNCHANGED vars \/ Tick
  BY <1>1, <1>2 DEF vars, Tick, stores, Rest
<1>3. ASSUME NEW r \in Requests, Start(r) \/ Fail(r) PROVE Rest'
  BY <1>1, <1>3 DEF Start, StartRequest, StartVerifyLink, StartVerifyOtp, StartDelete, Begin,
                    Fail, Fails, stores, Rest
<1>4. ASSUME NEW r \in Requests, CreateLink(r) \/ CreateOtp(r) \/ ConsumeLink(r) \/ ConsumeOtp(r)
                                 \/ CreateSession(r) \/ DeleteUser(r) \/ PersistEvent(r) \/ Publish(r)
      PROVE  Rest'
  BY <1>1, <1>4 DEF CreateLink, CreateOtp, ConsumeLink, ConsumeOtp, CreateSession, DeleteUser,
                    PersistEvent, PersistsEvent, Publish, HandsOutEvent, stores, Rest
<1>5. ASSUME NEW r \in Requests, UserUnknown(r) \/ DrawLink(r) \/ DrawOtp(r) \/ LinkUnknown(r)
                                 \/ LinkUserGone(r) \/ LinkUserFound(r) \/ OtpUserFound(r) \/ OtpUnknown(r)
      PROVE  Rest'
  BY <1>1, <1>5 DEF UserUnknown, DrawLink, DrawOtp, LinkUnknown, LinkUserGone, LinkUserFound,
                    OtpUserFound, OtpUnknown, NothingStored, stores, Rest
<1>6. QED
  BY <1>2, <1>3, <1>4, <1>5 DEF Next, Step

LEMMA StartKeeps == ASSUME IInv, NEW r \in Requests, Start(r) PROVE Typed /\ Parts'
<1>1. CASE StartRequest(r)
  BY <1>1, BeginKeeps DEF StartRequest, Ops, StoreCalls
<1>2. CASE StartVerifyLink(r)
  <2>1. PICK t \in Requests : /\ request[t].op = "request_link" /\ Answered(t, "Ok")
                              /\ Begin(r, "verify_link", "consume", NoUser, t, NoCode)
    BY <1>2 DEF StartVerifyLink
  <2>2. Past(t)
    BY <2>1 DEF Answered, Past
  <2>3. QED
    BY <2>1, <2>2, BeginKeeps DEF Ops, StoreCalls
<1>3. CASE StartVerifyOtp(r)
  BY <1>3, BeginKeeps DEF StartVerifyOtp, Ops, StoreCalls
<1>4. CASE StartDelete(r)
  BY <1>4, BeginKeeps DEF StartDelete, Ops, StoreCalls
<1>5. QED
  BY <1>1, <1>2, <1>3, <1>4 DEF Start

LEMMA AnswersKeep ==
    ASSUME IInv, NEW r \in Requests,
           UserUnknown(r) \/ LinkUnknown(r) \/ LinkUserGone(r) \/ OtpUnknown(r) \/ Publish(r) \/ Fail(r)
    PROVE  Typed /\ Parts'
<1>1. CASE UserUnknown(r)
  <2>1. \A t \in Requests : Explains(r, t) => r \in sessions
    BY <1>1 DEF UserUnknown, Explains, Asks, Answered, Failed
  <2>2. ~Effective(r) /\ \A t \in Requests : SpendsCode(r, t) => r \in sessions
    BY <1>1 DEF UserUnknown, Effective, SpendsCode, Answered, Failed
  <2>3. QED
    BY <1>1, <2>1, <2>2, AnswerKeeps DEF UserUnknown, NothingStored, Awaiting, Results
<1>2. CASE LinkUnknown(r) \/ OtpUnknown(r)
  <2>1. \A t \in Requests : Explains(r, t) => r \in sessions
    BY <1>2 DEF LinkUnknown, OtpUnknown, At, Explains, Answered, Failed
  <2>2. ~Effective(r) /\ \A t \in Requests : SpendsCode(r, t) => r \in sessions
    BY <1>2 DEF LinkUnknown, OtpUnknown, At, Effective, SpendsCode, Answered, Failed
  <2>3. QED
    BY <1>2, <2>1, <2>2, AnswerKeeps DEF LinkUnknown, OtpUnknown, At, NothingStored, Awaiting, Results
<1>3. CASE LinkUserGone(r)
  <2>1. request[r].user = request[request[r].token].user
    BY <1>3 DEF LinkUserGone, At, IInv, TakenOK, Took
  <2>2. \A t \in Requests : Explains(r, t) => request[t].user \notin users
    BY <1>3, <2>1 DEF LinkUserGone, Explains
  <2>3. ~Effective(r) /\ \A t \in Requests : ~SpendsCode(r, t)
    BY <1>3 DEF LinkUserGone, At, Effective, SpendsCode, Answered
  <2>4. QED
    BY <1>3, <2>2, <2>3, AnswerKeeps DEF LinkUserGone, At, NothingStored, Awaiting, Results
<1>4. CASE Publish(r)
  <2>1. \A t \in Requests : Explains(r, t) => r \in sessions
    BY <1>4 DEF Publish, HandsOutEvent, Explains, Answered, Failed
  <2>2. \A t \in Requests : SpendsCode(r, t) => r \in sessions
    BY <1>4 DEF Publish, HandsOutEvent, SpendsCode, Answered, Failed
  <2>3. QED
    BY <1>4, <2>1, <2>2, AnswerKeeps DEF Publish, HandsOutEvent, Awaiting, Results, Effective
<1>5. CASE Fail(r)
  BY <1>5, AnswerKeeps DEF Fail, Fails, Results
<1>6. QED
  BY <1>1, <1>2, <1>3, <1>4, <1>5

LEMMA AwaitsKeep ==
    ASSUME IInv, NEW r \in Requests,
           LinkUserFound(r) \/ OtpUserFound(r) \/ CreateSession(r) \/ DeleteUser(r) \/ PersistEvent(r)
    PROVE  Typed /\ Parts'
<1>1. CASE LinkUserFound(r)
  BY <1>1, AwaitKeeps DEF LinkUserFound, NothingStored, stores, Awaiting, At
<1>2. CASE OtpUserFound(r)
  BY <1>2, AwaitKeeps DEF OtpUserFound, NothingStored, stores, Awaiting, At
<1>3. CASE CreateSession(r)
  BY <1>3, AwaitKeeps DEF CreateSession, Awaiting
<1>4. CASE DeleteUser(r)
  BY <1>4, AwaitKeeps DEF DeleteUser, Awaiting, At
<1>5. CASE PersistEvent(r)
  BY <1>5, AwaitKeeps DEF PersistEvent, PersistsEvent, stores, Awaiting, Effective
<1>6. QED
  BY <1>1, <1>2, <1>3, <1>4, <1>5

LEMMA NextIInv == ASSUME IInv, [Next]_vars PROVE IInv'
<1>1. CASE UNCHANGED vars
  <2>1. Typed
    BY <1>1 DEF IInv, TypeOK, Typed, vars
  <2>2. CallsOK' /\ RecordsOK' /\ TakenOK' /\ OneTaker'
    BY <1>1 DEF IInv, vars, CallsOK, RecordsOK, TakenOK, OneTaker, Took, TakenLink, TakenCode,
                Past, Answered, Asks, Verifies
  <2>3. NewestStays' /\ LateCode' /\ Deletions' /\ SpentLinks'
    BY <1>1 DEF IInv, vars, NewestStays, LateCode, Deletions, SpentLinks, Took, SawUser, Effective,
                At, Answered, Explains, Failed, Expired
  <2>4. SpentCodes'
    BY <1>1 DEF IInv, vars, SpentCodes, Loses, SpendsCode, ReplacesCode, Effective, Answered,
                Failed, Expired, RightCode
  <2>5. QED
    BY <1>1, <2>1, <2>2, <2>3, <2>4 DEF IInv, TypeOK, vars, Typed
<1>2. CASE Next
  <2>1. Typed /\ Parts'
    BY <1>2, TickKeeps, StartKeeps, AnswersKeep, AwaitsKeep, DrawKeeps, CreateKeeps, TakeKeeps
    DEF Next, Step
  <2>2. QED
    BY <2>1, RestKept DEF Rest, Typed, Parts, IInv, TypeOK
<1>3. QED
  BY <1>1, <1>2

-----------------------------------------------------------------------------
(* Theorems *)

\* The strengthened invariant holds: what a call took, and from whom, is known while it goes on.
THEOREM Invariance == Spec => []IInv
<1>1. QED
  BY InitIInv, NextIInv, PTL DEF Spec

\* Every variable keeps its type; the stores hold records of requests only.
THEOREM TypeCorrect == Spec => []TypeOK
BY Invariance, PTL DEF IInv

\* MagicLinkService::verify, OtpService::verify: a link or code record opens one session.
THEOREM OneLoginPerRecord == Spec => []SingleUse
<1>1. IInv => SingleUse
  BY DEF IInv, TypeOK, OneTaker, SingleUse, Took
<1>2. QED
  BY <1>1, Invariance, PTL

\* The session is for the user, and was opened with the code, of the request it goes back to.
THEOREM RightUser == Spec => []SessionMatchesRequest
<1>1. ASSUME IInv PROVE SessionMatchesRequest
  <2> SUFFICES ASSUME NEW r \in sessions
               PROVE  /\ request[r].token \in Requests
                      /\ Asks(request[r].token)
                      /\ request[r].user = request[request[r].token].user
                      /\ request[r].code = request[request[r].token].code
    BY DEF SessionMatchesRequest
  <2>1. r \in Requests /\ Took(r) /\ ~Answered(r, "InvalidCredentials")
    BY <1>1 DEF IInv, TypeOK, CallsOK, Took
  <2>2. QED
    BY <1>1, <2>1 DEF IInv, TakenOK, TakenLink, TakenCode, Asks
<1>2. QED
  BY <1>1, Invariance, PTL

\* A verification that began after the expiry opens no session.
THEOREM ExpiryHolds == Spec => []ExpiredNeverLogsIn
<1>1. IInv => ExpiredNeverLogsIn
  BY DEF IInv, TypeOK, TakenOK, ExpiredNeverLogsIn, Took
<1>2. QED
  BY <1>1, Invariance, PTL

\* create_otp overwrites: a code answered before a newer one was asked for lets nobody in
\* after the newer one was answered.
THEOREM NewestCode == Spec => []NewerCodeReplacesOlder
<1>1. IInv => NewerCodeReplacesOlder
  BY DEF IInv, TypeOK, LateCode, NewerCodeReplacesOlder, Took
<1>2. QED
  BY <1>1, Invariance, PTL

\* consume_otp comes before the comparison: a wrong guess spends the code.
THEOREM OneGuess == Spec => []OneGuessPerCode
<1>1. ASSUME IInv PROVE OneGuessPerCode
  <2> SUFFICES ASSUME NEW r \in Requests, NEW q \in Requests,
                      Answered(q, "InvalidCredentials"), r \in sessions,
                      request[r].token = request[q].token
               PROVE  FALSE
    BY DEF OneGuessPerCode
  <2>1. r = q
    BY <1>1 DEF IInv, OneTaker, Took
  <2>2. QED
    BY <1>1, <2>1 DEF IInv, CallsOK
<1>2. QED
  BY <1>1, Invariance, PTL

\* delete_account leaves links and codes behind, and they open no session any more.
THEOREM DeletionStops == Spec => []DeletionStopsOneTimeLogin
<1>1. IInv => DeletionStopsOneTimeLogin
  BY DEF IInv, TypeOK, Deletions, DeletionStopsOneTimeLogin, SawUser
<1>2. QED
  BY <1>1, Invariance, PTL

\* A link or code that is gone was taken by a call whose fate is known, or the code was replaced.
THEOREM SpentRecordsExplained == Spec => []SpentRecordExplained
<1>1. ASSUME IInv PROVE SpentRecordExplained
  <2> SUFFICES ASSUME NEW t \in Requests, Asks(t), Answered(t, "Ok"), ~StoredFor(t)
               PROVE  \E r \in Requests : Spends(r, t) \/ ReplacesCode(r, t)
    BY DEF SpentRecordExplained
  <2>1. CASE request[t].op = "request_link"
    <3>1. PICK r \in Requests : Explains(r, t)
      BY <1>1, <2>1 DEF IInv, SpentLinks, Effective, StoredFor
    <3>2. QED
      BY <3>1 DEF Explains, Spends, Verifies
  <2>2. CASE request[t].op = "request_otp"
    <3>1. PICK r \in Requests : Loses(r, t)
      BY <1>1, <2>2 DEF IInv, SpentCodes, Effective, StoredFor
    <3>2. QED
      BY <3>1 DEF Loses, SpendsCode, Spends, Verifies
  <2>3. QED
    BY <2>1, <2>2 DEF Asks
<1>2. QED
  BY <1>1, Invariance, PTL
=============================================================================
