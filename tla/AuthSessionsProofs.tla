------------------------- MODULE AuthSessionsProofs -------------------------
(***************************************************************************)
(* What AuthSessions guarantees for any set of users and requests, any     *)
(* lifetimes and any bound on the clock.                                   *)
(***************************************************************************)
EXTENDS AuthSessions, TLAPS

\* The phases of a handler whose change is in the stores and whose event is not out.
Emitting(r) == request[r].phase \in {"persist_event", "publish"}
Creates(r) == request[r].op \in {"login", "rotate"}

\* What the phase of a handler says about the session it is named after ...
OwnSession == \A r \in Requests :
    /\ Stored(r) => /\ Creates(r)
                    /\ Emitting(r) \/ request[r].phase = "done"
                    /\ sessions[r].user = request[r].user
    /\ Creates(r) /\ (Emitting(r) \/ Answered(r, "Ok")) => Stored(r)
    /\ request[r].phase = "create_session" => Creates(r) /\ request[r].user \in Users

\* ... and about the session its input names.
NamedSession == \A r \in Requests :
    /\ request[r].phase = "revoke_session" => Stored(request[r].old)
    /\ request[r].op = "rotate" /\ (request[r].phase = "create_session" \/ Stored(r))
          => /\ Revoked(request[r].old)
             /\ sessions[request[r].old].user = request[r].user
    /\ request[r].op = "logout" /\ (Emitting(r) \/ Answered(r, "Ok"))
          => request[r].old \in Requests /\ Revoked(request[r].old)

\* A rotation that began after its session's end was answered got no further than its lookup.
LateRotation == \A q, r \in Requests :
    q \in request[r].after =>
        /\ Answered(q, "Ok")
        /\ request[r].op = "rotate" /\ Ends(q, request[r].old) /\ request[r].old \in Requests
              => request[r].phase \in {"get_session", "done"} /\ ~Stored(r)

IInv == TypeOK /\ OwnSession /\ NamedSession /\ LateRotation



LEMMA InitIInv == Init => IInv
BY DEF Init, IInv, TypeOK, OwnSession, NamedSession, LateRotation, IdleRequest, Request,
       Ops, StoreCalls, Errors, Stored, Revoked, Emitting, Creates, Answered

-----------------------------------------------------------------------------
(* Steps that leave the session store alone *)

\* The part of IInv that a step of one handler can disturb.
HandlersOK == /\ request \in [Requests -> Request]
            /\ OwnSession
            /\ NamedSession
            /\ LateRotation

\* A request begins: it has no session, and knows which calls were answered before it.
LEMMA BeginKeeps ==
    ASSUME IInv, UNCHANGED sessions, NEW r \in Requests,
           NEW op \in Ops, NEW call \in {"get_user", "get_session", "delete_user", "has_permissions"},
           NEW u \in Users \cup {NoUser}, NEW s \in Requests \cup {NoSession},
           op = "rotate" => call = "get_session",
           Begin(r, op, call, u, s)
    PROVE  HandlersOK'
<1>1. /\ request'[r] = [op |-> op, phase |-> call, user |-> u, old |-> s, expires |-> 0,
                        exp |-> 0, result |-> "none",
                        after |-> AnsweredOk]
      /\ \A q \in Requests \ {r} : request'[q] = request[q]
      /\ request[r].phase = "idle"
  BY DEF IInv, TypeOK, Begin, Idle, IdleRequest
<1>2. request' \in [Requests -> Request]
  <2>1. request'[r] \in Request
    BY <1>1 DEF IInv, TypeOK, Request, Ops, StoreCalls, AnsweredOk
  <2>2. QED
    BY <1>1, <2>1 DEF IInv, TypeOK, Begin
<1>3. ~Stored(r)
  BY <1>1 DEF IInv, OwnSession, Emitting
<1>4. OwnSession'
  BY <1>1, <1>3 DEF IInv, OwnSession, Stored, Creates, Emitting, Answered
<1>5. NamedSession'
  BY <1>1, <1>3 DEF IInv, NamedSession, Stored, Revoked, Emitting, Answered
<1>6. LateRotation'
  BY <1>1, <1>3 DEF IInv, LateRotation, Stored, Ends, Answered, AnsweredOk
<1>7. QED
  BY <1>2, <1>4, <1>5, <1>6 DEF HandlersOK

\* A request is answered.  Ok says that the session it creates, or revokes, is so.
LEMMA AnswerKeeps ==
    ASSUME IInv, UNCHANGED sessions, NEW r \in Requests,
           NEW result \in Errors \cup {"Ok"},
           Awaiting(r), Answer(r, result),
           result = "Ok" => /\ Creates(r) => Stored(r)
                            /\ request[r].op = "logout"
                                  => request[r].old \in Requests /\ Revoked(request[r].old)
    PROVE  HandlersOK'
<1>1. /\ request'[r] = [op |-> request[r].op, phase |-> "done", user |-> request[r].user,
                        old |-> request[r].old, expires |-> request[r].expires,
                        exp |-> request[r].exp, result |-> result,
                        after |-> request[r].after]
      /\ \A q \in Requests \ {r} : request'[q] = request[q]
      /\ request[r].phase \in StoreCalls
  <2>1. request[r] \in Request /\ request[r].phase \in StoreCalls
    BY DEF IInv, TypeOK, Awaiting, Request
  <2>2. /\ request'[r] = [request[r] EXCEPT !.phase = "done", !.result = result]
        /\ \A q \in Requests \ {r} : request'[q] = request[q]
    BY DEF IInv, TypeOK, Answer
  <2>3. QED
    BY <2>1, <2>2 DEF Request
<1>2. request' \in [Requests -> Request]
  <2>1. request'[r] \in Request
    BY <1>1 DEF IInv, TypeOK, Request
  <2>2. QED
    BY <1>1, <2>1 DEF IInv, TypeOK, Answer
<1>4. OwnSession'
  BY <1>1 DEF IInv, OwnSession, Stored, Creates, Emitting, Answered
<1>5. NamedSession'
  BY <1>1 DEF IInv, NamedSession, Stored, Revoked, Creates, Emitting, Answered
<1>6. LateRotation'
  BY <1>1 DEF IInv, LateRotation, Stored, Ends, Answered, StoreCalls
<1>7. QED
  BY <1>2, <1>4, <1>5, <1>6 DEF HandlersOK

\* A request answered Ok has ended the session it names.
LEMMA EndedIsRevoked ==
    ASSUME IInv, NEW q \in Requests, NEW s \in Requests, Ends(q, s), Answered(q, "Ok")
    PROVE  Revoked(s)
BY DEF IInv, OwnSession, NamedSession, Ends, Creates

\* No session changes but by being revoked.
SessionsKept == /\ sessions' \in [Requests -> Session \cup {NoSession}]
                /\ \A q \in Requests : /\ Stored(q)' <=> Stored(q)
                                       /\ Stored(q) => sessions'[q].user = sessions[q].user
                                       /\ Revoked(q) => Revoked(q)'

LEMMA UnchangedKept == ASSUME IInv, UNCHANGED sessions PROVE SessionsKept
BY DEF IInv, TypeOK, SessionsKept, Stored, Revoked

LEMMA RevokeKept ==
    ASSUME IInv, NEW s \in Requests, Stored(s), RevokeStored(s)
    PROVE  SessionsKept /\ Revoked(s)'
<1>1. sessions[s] \in Session
  BY DEF IInv, TypeOK, Stored
<1>2. [sessions[s] EXCEPT !.revoked = TRUE] \in Session \ {NoSession}
  BY <1>1, SessionAssumption DEF Session
<1>3. /\ sessions' \in [Requests -> Session \cup {NoSession}]
      /\ sessions'[s] = [sessions[s] EXCEPT !.revoked = TRUE]
      /\ \A q \in Requests \ {s} : sessions'[q] = sessions[q]
  BY <1>2 DEF IInv, TypeOK, RevokeStored
<1>4. sessions'[s].revoked /\ sessions'[s].user = sessions[s].user
  BY <1>1, <1>3 DEF Session
<1>5. QED
  BY <1>2, <1>3, <1>4 DEF SessionsKept, Stored, Revoked

\* A request goes on to its next store call, and creates no session at it.
LEMMA AwaitKeeps ==
    ASSUME IInv, SessionsKept, NEW r \in Requests,
           NEW call \in {"revoke_session", "persist_event", "publish"},
           Awaiting(r), Await(r, call),
           call = "revoke_session" =>
               /\ request[r].phase = "get_session"
               /\ Stored(request[r].old)
               /\ request[r].op = "rotate" => Live(request[r].old),
           call # "revoke_session" =>
               /\ Creates(r) => Stored(r)
               /\ request[r].op = "logout"
                     => request[r].old \in Requests /\ Revoked(request[r].old)'
    PROVE  HandlersOK'
<1>1. /\ request'[r] = [op |-> request[r].op, phase |-> call, user |-> request[r].user,
                        old |-> request[r].old, expires |-> request[r].expires,
                        exp |-> request[r].exp, result |-> request[r].result,
                        after |-> request[r].after]
      /\ \A q \in Requests \ {r} : request'[q] = request[q]
      /\ request[r].phase \in StoreCalls
  <2>1. request[r] \in Request /\ request[r].phase \in StoreCalls
    BY DEF IInv, TypeOK, Awaiting, Request
  <2>2. /\ request'[r] = [request[r] EXCEPT !.phase = call]
        /\ \A q \in Requests \ {r} : request'[q] = request[q]
    BY DEF IInv, TypeOK, Await
  <2>3. QED
    BY <2>1, <2>2 DEF Request
<1>2. request' \in [Requests -> Request]
  <2>1. request'[r] \in Request
    BY <1>1 DEF IInv, TypeOK, Request, StoreCalls
  <2>2. QED
    BY <1>1, <2>1 DEF IInv, TypeOK, Await
<1>3. call = "revoke_session" => ~Stored(r)
  BY DEF IInv, OwnSession, Emitting
<1>4. OwnSession'
  BY <1>1, <1>3 DEF IInv, OwnSession, SessionsKept, Creates, Emitting, Answered
<1>5. NamedSession'
  BY <1>1, <1>3 DEF IInv, NamedSession, SessionsKept, Stored, Revoked, Creates, Emitting, Answered
<1>6. LateRotation'
  <2> SUFFICES ASSUME NEW p \in Requests, NEW q \in Requests, p \in request'[q].after
               PROVE  /\ Answered(p, "Ok")'
                      /\ request'[q].op = "rotate" /\ Ends(p, request[q].old)'
                            /\ request'[q].old \in Requests
                         => request'[q].phase \in {"get_session", "done"} /\ ~Stored(q)'
    BY DEF LateRotation
  <2>1. Answered(p, "Ok") /\ p # r
    <3>1. request'[q].after = request[q].after
      BY <1>1
    <3>2. QED
      BY <1>1, <3>1 DEF IInv, LateRotation, Answered, StoreCalls
  <2>2. CASE q # r
    BY <1>1, <2>1, <2>2 DEF IInv, LateRotation, SessionsKept, Ends, Answered
  <2>3. CASE q = r /\ request[r].op = "rotate" /\ request[r].old \in Requests /\ Ends(p, request[r].old)
    <3>1. Revoked(request[r].old)
      BY <2>1, <2>3, EndedIsRevoked
    <3>2. ~Stored(r)
      BY <1>1, <2>3 DEF IInv, LateRotation
    <3>3. QED
      BY <2>3, <3>1, <3>2 DEF Live, Revoked, Creates
  <2>4. QED
    BY <1>1, <2>1, <2>2, <2>3 DEF Ends, Answered
<1>7. QED
  BY <1>2, <1>4, <1>5, <1>6 DEF HandlersOK

\* A request goes on to create a session for user u.
LEMMA AwaitCreateKeeps ==
    ASSUME IInv, SessionsKept, NEW r \in Requests, NEW u \in Users,
           AwaitCreate(r, u), Creates(r), request[r].phase \in {"get_user", "revoke_session"},
           request[r].op = "rotate" =>
               /\ request[r].phase = "revoke_session"
               /\ Revoked(request[r].old)'
               /\ u = sessions[request[r].old].user
    PROVE  HandlersOK'
<1>1. /\ request'[r] = [op |-> request[r].op, phase |-> "create_session", user |-> u,
                        old |-> request[r].old, expires |-> now + RefreshTtl * Second,
                        exp |-> request[r].exp, result |-> request[r].result,
                        after |-> request[r].after]
      /\ \A q \in Requests \ {r} : request'[q] = request[q]
  <2>1. request[r] \in Request
    BY DEF IInv, TypeOK
  <2>2. /\ request'[r] = [request[r] EXCEPT !.phase = "create_session", !.user = u,
                                             !.expires = now + RefreshTtl * Second]
        /\ \A q \in Requests \ {r} : request'[q] = request[q]
    BY DEF IInv, TypeOK, AwaitCreate
  <2>3. QED
    BY <2>1, <2>2 DEF Request
<1>2. request' \in [Requests -> Request]
  <2>1. now + RefreshTtl * Second \in Nat
    BY TimeAssumption DEF IInv, TypeOK
  <2>2. request'[r] \in Request
    BY <1>1, <2>1 DEF IInv, TypeOK, Request, StoreCalls
  <2>3. QED
    BY <1>1, <2>2 DEF IInv, TypeOK, AwaitCreate
<1>3. ~Stored(r)
  BY DEF IInv, OwnSession, Emitting
<1>4. OwnSession'
  BY <1>1, <1>3 DEF IInv, OwnSession, SessionsKept, Creates, Emitting, Answered
<1>5. NamedSession'
  BY <1>1, <1>3 DEF IInv, NamedSession, SessionsKept, Stored, Revoked, Emitting, Answered, Creates
<1>6. LateRotation'
  BY <1>1, <1>3 DEF IInv, LateRotation, SessionsKept, Ends, Answered
<1>7. QED
  BY <1>2, <1>4, <1>5, <1>6 DEF HandlersOK

-----------------------------------------------------------------------------
(* The two steps that change a request and the session it is named after *)

LEMMA CreateSessionKeeps ==
    ASSUME IInv, NEW r \in Requests, CreateSession(r)
    PROVE  HandlersOK' /\ sessions' \in [Requests -> Session \cup {NoSession}]
<1>1. /\ request[r] \in Request
      /\ request[r].phase = "create_session"
      /\ Creates(r) /\ request[r].user \in Users /\ ~Stored(r)
  BY DEF IInv, TypeOK, CreateSession, OwnSession, Emitting
<1>2. /\ request'[r] = [op |-> request[r].op, phase |-> "persist_event",
                        user |-> request[r].user, old |-> request[r].old,
                        expires |-> request[r].expires, exp |-> MintExpiry,
                        result |-> request[r].result,
                        after |-> request[r].after]
      /\ \A q \in Requests \ {r} : request'[q] = request[q]
  <2>1. /\ request'[r] = [request[r] EXCEPT !.phase = "persist_event", !.exp = MintExpiry]
        /\ \A q \in Requests \ {r} : request'[q] = request[q]
    BY DEF IInv, TypeOK, CreateSession
  <2>2. QED
    BY <1>1, <2>1 DEF Request
<1>3. request' \in [Requests -> Request]
  <2>1. MintExpiry \in Nat
    BY TimeAssumption DEF IInv, TypeOK, MintExpiry, UnixTimestamp
  <2>2. request'[r] \in Request
    BY <1>1, <1>2, <2>1 DEF IInv, TypeOK, Request, StoreCalls
  <2>3. QED
    BY <1>2, <2>2 DEF IInv, TypeOK, CreateSession
<1>4. NewSession(r) \in Session \ {NoSession} /\ NewSession(r).user = request[r].user
  <2>1. request[r].expires \in Nat
    BY <1>1 DEF Request
  <2>2. NewSession(r) \in Session
    BY <1>1, <2>1 DEF NewSession, Session
  <2>3. QED
    BY <2>2, SessionAssumption DEF NewSession, Session
<1>5. /\ sessions' \in [Requests -> Session \cup {NoSession}]
      /\ sessions'[r] = NewSession(r)
      /\ \A q \in Requests \ {r} : sessions'[q] = sessions[q]
  BY <1>4 DEF IInv, TypeOK, CreateSession
<1>6. OwnSession'
  BY <1>1, <1>2, <1>4, <1>5 DEF IInv, OwnSession, Stored, Creates, Emitting, Answered
<1>7. NamedSession'
  BY <1>1, <1>2, <1>4, <1>5
  DEF IInv, NamedSession, Stored, Revoked, Creates, Emitting, Answered
<1>8. LateRotation'
  BY <1>1, <1>2, <1>5 DEF IInv, LateRotation, Stored, Ends, Answered
<1>9. QED
  BY <1>3, <1>5, <1>6, <1>7, <1>8 DEF HandlersOK

LEMMA RotateExpiredKeeps ==
    ASSUME IInv, NEW r \in Requests, RotateExpired(r) PROVE HandlersOK'
<1>1. PICK s \in Presentable :
        request' = [request EXCEPT ![r].op = "rotate", ![r].phase = "done", ![r].old = s,
                                   ![r].result = "InvalidToken"]
  BY DEF RotateExpired
<1>2. /\ request[r] \in Request
      /\ request[r].phase = "idle" /\ ~Stored(r)
      /\ s \in Requests \cup {NoSession}
  BY DEF IInv, TypeOK, RotateExpired, Idle, OwnSession, Emitting, Presentable
<1>3. /\ request'[r] = [op |-> "rotate", phase |-> "done", user |-> request[r].user, old |-> s,
                        expires |-> request[r].expires, exp |-> request[r].exp,
                        result |-> "InvalidToken",
                        after |-> request[r].after]
      /\ \A q \in Requests \ {r} : request'[q] = request[q]
  <2>1. /\ request'[r] = [request[r] EXCEPT !.op = "rotate", !.phase = "done", !.old = s,
                                             !.result = "InvalidToken"]
        /\ \A q \in Requests \ {r} : request'[q] = request[q]
    BY <1>1 DEF IInv, TypeOK
  <2>2. QED
    BY <1>2, <2>1 DEF Request
<1>4. sessions' = sessions
  BY DEF RotateExpired
<1>5. request' \in [Requests -> Request]
  <2>1. request'[r] \in Request
    BY <1>2, <1>3 DEF Request, Ops, Errors
  <2>2. QED
    BY <1>1, <1>3, <2>1 DEF IInv, TypeOK
<1>6. OwnSession'
  BY <1>2, <1>3, <1>4 DEF IInv, OwnSession, Stored, Creates, Emitting, Answered
<1>7. NamedSession'
  BY <1>2, <1>3, <1>4 DEF IInv, NamedSession, Stored, Revoked, Emitting, Answered
<1>8. LateRotation'
  BY <1>2, <1>3, <1>4 DEF IInv, LateRotation, Stored, Ends, Answered
<1>9. QED
  BY <1>5, <1>6, <1>7, <1>8 DEF HandlersOK

-----------------------------------------------------------------------------
(* Every step keeps the invariant *)

LEMMA NextIInv == IInv /\ [Next]_vars => IInv'
<1> SUFFICES ASSUME IInv, [Next]_vars PROVE IInv'
  OBVIOUS
<1> DEFINE Rest == /\ now' \in Nat /\ users' \subseteq Users
                   /\ sessions' \in [Requests -> Session \cup {NoSession}]
                   /\ telemetry' \subseteq Requests /\ published' \subseteq Requests
<1>a. HandlersOK' /\ Rest => IInv'
  BY DEF HandlersOK, IInv, TypeOK
<1>b. \A r \in Requests : request[r] \in Request
  BY DEF IInv, TypeOK
<1> HIDE DEF Rest
<1>1. CASE Tick
  <2>1. now' \in Nat
    BY <1>1 DEF Tick, IInv, TypeOK
  <2>2. QED
    BY <1>1, <2>1 DEF Tick, IInv, TypeOK, OwnSession, NamedSession, LateRotation,
                      Stored, Revoked, Answered, Ends, Creates, Emitting
<1>2. CASE UNCHANGED vars
  BY <1>2 DEF vars, IInv, TypeOK, OwnSession, NamedSession, LateRotation,
              Stored, Revoked, Answered, Ends, Creates, Emitting
<1>3. ASSUME NEW r \in Requests, StartLogin(r) PROVE IInv'
  <2>1. HandlersOK'
    BY <1>3, BeginKeeps DEF StartLogin, Ops
  <2>2. QED
    BY <1>3, <2>1, <1>a DEF StartLogin, Rest, IInv, TypeOK
<1>4. ASSUME NEW r \in Requests, StartRotate(r) PROVE IInv'
  <2>1. HandlersOK'
    BY <1>4, BeginKeeps DEF StartRotate, Presentable, Ops
  <2>2. QED
    BY <1>4, <2>1, <1>a DEF StartRotate, Rest, IInv, TypeOK
<1>5. ASSUME NEW r \in Requests, RotateExpired(r) PROVE IInv'
  BY <1>5, <1>a, RotateExpiredKeeps DEF RotateExpired, Rest, IInv, TypeOK
<1>6. ASSUME NEW r \in Requests, StartLogout(r) PROVE IInv'
  <2>1. HandlersOK'
    BY <1>6, BeginKeeps DEF StartLogout, Presentable, Ops
  <2>2. QED
    BY <1>6, <2>1, <1>a DEF StartLogout, Rest, IInv, TypeOK
<1>7. ASSUME NEW r \in Requests, StartDelete(r) PROVE IInv'
  <2>1. HandlersOK'
    BY <1>7, BeginKeeps DEF StartDelete, Ops
  <2>2. QED
    BY <1>7, <2>1, <1>a DEF StartDelete, Rest, IInv, TypeOK
<1>8. ASSUME NEW r \in Requests, StartRequire(r) PROVE IInv'
  <2>1. HandlersOK'
    BY <1>8, BeginKeeps DEF StartRequire, Ops
  <2>2. QED
    BY <1>8, <2>1, <1>a DEF StartRequire, Rest, IInv, TypeOK
<1>9. ASSUME NEW r \in Requests, LoginRejected(r) PROVE IInv'
  <2>1. HandlersOK'
    BY <1>9, AnswerKeeps DEF LoginRejected, At, Awaiting, Errors
  <2>2. QED
    BY <1>9, <2>1, <1>a DEF LoginRejected, Rest, IInv, TypeOK
<1>10. ASSUME NEW r \in Requests, LoginVerified(r) PROVE IInv'
  <2>1. request[r].user \in Users /\ Creates(r) /\ request[r].op # "rotate"
    BY <1>10 DEF LoginVerified, At, Creates, IInv, TypeOK
  <2>2. HandlersOK'
    BY <1>10, <2>1, AwaitCreateKeeps, UnchangedKept DEF LoginVerified, At
  <2>3. QED
    BY <1>10, <2>2, <1>a DEF LoginVerified, Rest, IInv, TypeOK
<1>11. ASSUME NEW r \in Requests, RotateUnknown(r) PROVE IInv'
  <2>1. HandlersOK'
    BY <1>11, AnswerKeeps DEF RotateUnknown, At, Awaiting, Errors
  <2>2. QED
    BY <1>11, <2>1, <1>a DEF RotateUnknown, Rest, IInv, TypeOK
<1>12. ASSUME NEW r \in Requests, RotateRevoked(r) PROVE IInv'
  <2>1. HandlersOK'
    BY <1>12, AnswerKeeps DEF RotateRevoked, At, Awaiting, Errors
  <2>2. QED
    BY <1>12, <2>1, <1>a DEF RotateRevoked, Rest, IInv, TypeOK
<1>13. ASSUME NEW r \in Requests, RotateFound(r) PROVE IInv'
  <2>1. HandlersOK'
    BY <1>13, AwaitKeeps, UnchangedKept DEF RotateFound, At, Awaiting, Live
  <2>2. QED
    BY <1>13, <2>1, <1>a DEF RotateFound, Rest, IInv, TypeOK
<1>14. ASSUME NEW r \in Requests, RotateRevokes(r) PROVE IInv'
  <2>1. /\ request[r].old \in Requests /\ Stored(request[r].old)
        /\ sessions[request[r].old].user \in Users
    BY <1>14 DEF RotateRevokes, At, IInv, TypeOK, NamedSession, Stored, Session
  <2>2. SessionsKept /\ Revoked(request[r].old)'
    <3>1. PICK s \in Requests : s = request[r].old
      BY <2>1
    <3>2. SessionsKept /\ Revoked(s)'
      BY <1>14, <2>1, <3>1, RevokeKept DEF RotateRevokes
    <3>3. request'[r].old = s
      BY <1>14, <3>1 DEF RotateRevokes, AwaitCreate, IInv, TypeOK, Request
    <3>4. QED
      BY <3>2, <3>3 DEF Revoked, Stored
  <2>3. HandlersOK'
    BY <1>14, <2>1, <2>2, AwaitCreateKeeps DEF RotateRevokes, At, Creates
  <2>4. QED
    BY <1>14, <2>2, <2>3, <1>a DEF RotateRevokes, SessionsKept, Rest, IInv, TypeOK
<1>15. ASSUME NEW r \in Requests, CreateSession(r) PROVE IInv'
  BY <1>15, <1>a, CreateSessionKeeps DEF CreateSession, Rest, IInv, TypeOK
<1>16. ASSUME NEW r \in Requests, LogoutUnknown(r) PROVE IInv'
  <2>1. HandlersOK'
    BY <1>16, AnswerKeeps DEF LogoutUnknown, At, Awaiting, Errors
  <2>2. QED
    BY <1>16, <2>1, <1>a DEF LogoutUnknown, Rest, IInv, TypeOK
<1>17. ASSUME NEW r \in Requests, LogoutFound(r) PROVE IInv'
  <2>1. HandlersOK'
    BY <1>17, AwaitKeeps, UnchangedKept DEF LogoutFound, At, Awaiting
  <2>2. QED
    BY <1>17, <2>1, <1>a DEF LogoutFound, Rest, IInv, TypeOK
<1>18. ASSUME NEW r \in Requests, LogoutRevokes(r) PROVE IInv'
  <2>1. request[r].old \in Requests /\ Stored(request[r].old)
    BY <1>18 DEF LogoutRevokes, At, IInv, NamedSession, Stored
  <2>2. SessionsKept /\ Revoked(request[r].old)'
    <3>1. PICK s \in Requests : s = request[r].old
      BY <2>1
    <3>2. SessionsKept /\ Revoked(s)'
      BY <1>18, <2>1, <3>1, RevokeKept DEF LogoutRevokes
    <3>3. request'[r].old = s
      BY <1>18, <3>1 DEF LogoutRevokes, Await, IInv, TypeOK, Request
    <3>4. QED
      BY <3>2, <3>3 DEF Revoked, Stored
  <2>3. HandlersOK'
    BY <1>18, <2>1, <2>2, AwaitKeeps DEF LogoutRevokes, At, Awaiting, Creates
  <2>4. QED
    BY <1>18, <2>2, <2>3, <1>a DEF LogoutRevokes, SessionsKept, Rest, IInv, TypeOK
<1>19. ASSUME NEW r \in Requests, DeleteUser(r) PROVE IInv'
  <2>1. HandlersOK'
    BY <1>19, AwaitKeeps, UnchangedKept DEF DeleteUser, At, Awaiting, Creates
  <2>2. QED
    BY <1>19, <2>1, <1>a DEF DeleteUser, Rest, IInv, TypeOK
<1>20. ASSUME NEW r \in Requests, RequireAllowed(r) PROVE IInv'
  <2>1. HandlersOK'
    BY <1>20, AnswerKeeps DEF RequireAllowed, At, Awaiting, Creates
  <2>2. QED
    BY <1>20, <2>1, <1>a DEF RequireAllowed, Rest, IInv, TypeOK
<1>21. ASSUME NEW r \in Requests, RequireDenied(r) PROVE IInv'
  <2>1. HandlersOK'
    BY <1>21, AwaitKeeps, UnchangedKept DEF RequireDenied, At, Awaiting, Creates
  <2>2. QED
    BY <1>21, <2>1, <1>a DEF RequireDenied, Rest, IInv, TypeOK
<1>22. ASSUME NEW r \in Requests, PersistEvent(r) PROVE IInv'
  <2>1. /\ Creates(r) => Stored(r)
        /\ request[r].op = "logout" => request[r].old \in Requests /\ Revoked(request[r].old)
        /\ Awaiting(r)
    BY <1>22 DEF PersistEvent, PersistsEvent, IInv, OwnSession, NamedSession, Emitting, Awaiting
  <2>2. Revoked(request[r].old) => Revoked(request[r].old)'
    BY <1>22 DEF PersistEvent, PersistsEvent, Await, IInv, TypeOK, Revoked, Stored
  <2>3. HandlersOK'
    BY <1>22, <2>1, <2>2, AwaitKeeps, UnchangedKept DEF PersistEvent, PersistsEvent
  <2>4. QED
    BY <1>22, <2>3, <1>a DEF PersistEvent, PersistsEvent, Rest, IInv, TypeOK
<1>23. ASSUME NEW r \in Requests, Publish(r) PROVE IInv'
  <2>1. /\ Creates(r) => Stored(r)
        /\ request[r].op = "logout" => request[r].old \in Requests /\ Revoked(request[r].old)
        /\ Awaiting(r)
    BY <1>23 DEF Publish, HandsOutEvent, IInv, OwnSession, NamedSession, Emitting, Awaiting
  <2>2. HandlersOK'
    BY <1>23, <2>1, AnswerKeeps DEF Publish, HandsOutEvent, Errors
  <2>3. QED
    BY <1>23, <2>2, <1>a DEF Publish, HandsOutEvent, Rest, IInv, TypeOK
<1>24. ASSUME NEW r \in Requests, Fail(r) PROVE IInv'
  <2>1. HandlersOK'
    BY <1>24, AnswerKeeps DEF Fail, Fails, Errors
  <2>2. QED
    BY <1>24, <2>1, <1>a DEF Fail, Fails, Rest, IInv, TypeOK
<1>25. QED
  BY <1>1, <1>2, <1>3, <1>4, <1>5, <1>6, <1>7, <1>8, <1>9, <1>10, <1>11, <1>12, <1>13, <1>14,
     <1>15, <1>16, <1>17, <1>18, <1>19, <1>20, <1>21, <1>22, <1>23, <1>24
  DEF Next, Start, Step

-----------------------------------------------------------------------------
(* Theorems *)

\* The strengthened invariant holds: what a handler between two store calls knows of its session
\* is true of the stores.
THEOREM Invariance == Spec => []IInv
<1>1. QED
  BY InitIInv, NextIInv, PTL DEF Spec

\* Every variable keeps its type: a rotation never stores a session without a user.
THEOREM TypeCorrect == Spec => []TypeOK
BY Invariance, PTL DEF IInv

\* rotate_refresh_token: the session a successor replaces is revoked and had the same user.
THEOREM Lineage == Spec => []LineageOK
<1>1. IInv => LineageOK
  BY DEF IInv, OwnSession, NamedSession, LineageOK, Successors
<1>2. QED
  BY <1>1, Invariance, PTL

\* Once a logout or a rotation of a session is answered Ok, a rotation of it that begins
\* later creates no session.
THEOREM AnsweredEnd == Spec => []AnsweredEndIsFinal
<1>1. IInv => AnsweredEndIsFinal
  BY DEF IInv, OwnSession, LateRotation, AnsweredEndIsFinal, Ends, Creates
<1>2. QED
  BY <1>1, Invariance, PTL

-----------------------------------------------------------------------------
(* AuthSessions implements SessionLifecycle *)

Quiet == /\ sessions' = sessions
         /\ \A s \in Requests : Stored(s) => /\ request'[s].op = request[s].op
                                             /\ request'[s].old = request[s].old

\* Apart from the three steps that write the session store, every step is quiet.
LEMMA QuietOrWrite ==
    ASSUME IInv, Next
    PROVE  \/ Quiet
           \/ \E r \in Requests : CreateSession(r) \/ RotateRevokes(r) \/ LogoutRevokes(r)
<1>1. CASE Tick
  BY <1>1 DEF Tick, Quiet
<1>2. ASSUME NEW r \in Requests, Start(r) PROVE Quiet
  <2>1. sessions' = sessions
    BY <1>2 DEF Start, StartLogin, StartRotate, RotateExpired, StartLogout, StartDelete, StartRequire
  <2>2. request[r].phase = "idle" /\ \A q \in Requests \ {r} : request'[q] = request[q]
    BY <1>2 DEF Start, StartLogin, StartRotate, RotateExpired, StartLogout, StartDelete,
                StartRequire, Begin, Idle, IInv, TypeOK
  <2>3. ~Stored(r)
    BY <2>2 DEF IInv, OwnSession, Emitting
  <2>4. QED
    BY <2>1, <2>2, <2>3 DEF Quiet
<1>3. ASSUME NEW r \in Requests, Step(r) \/ Fail(r),
             ~CreateSession(r), ~RotateRevokes(r), ~LogoutRevokes(r)
      PROVE  Quiet
  <2>1. sessions' = sessions
    BY <1>3 DEF Step, Fail, Fails, LoginRejected, LoginVerified, RotateUnknown, RotateRevoked,
                RotateFound, LogoutUnknown, LogoutFound, DeleteUser, RequireAllowed, RequireDenied,
                PersistEvent, PersistsEvent, Publish, HandsOutEvent
  <2>2. request[r] \in Request
    BY DEF IInv, TypeOK
  <2>3. ASSUME NEW result, Answer(r, result)
        PROVE  request'[r].op = request[r].op /\ request'[r].old = request[r].old
               /\ \A q \in Requests \ {r} : request'[q] = request[q]
    BY <2>2, <2>3 DEF Answer, IInv, TypeOK, Request
  <2>4. ASSUME NEW call, Await(r, call)
        PROVE  request'[r].op = request[r].op /\ request'[r].old = request[r].old
               /\ \A q \in Requests \ {r} : request'[q] = request[q]
    BY <2>2, <2>4 DEF Await, IInv, TypeOK, Request
  <2>5. ASSUME LoginVerified(r)
        PROVE  request'[r].op = request[r].op /\ request'[r].old = request[r].old
               /\ \A q \in Requests \ {r} : request'[q] = request[q]
    BY <2>2, <2>5 DEF LoginVerified, AwaitCreate, IInv, TypeOK, Request
  <2>6. request'[r].op = request[r].op /\ request'[r].old = request[r].old
        /\ \A q \in Requests \ {r} : request'[q] = request[q]
    BY <1>3, <2>3, <2>4, <2>5
    DEF Step, Fail, Fails, LoginRejected, RotateUnknown, RotateRevoked, RotateFound,
        LogoutUnknown, LogoutFound, DeleteUser, RequireAllowed, RequireDenied,
        PersistEvent, PersistsEvent, Publish, HandsOutEvent
  <2>7. QED
    BY <2>1, <2>6 DEF Quiet
<1>4. QED
  BY <1>1, <1>2, <1>3 DEF Next, Step

LEMMA QuietStutters ==
    ASSUME IInv, Quiet PROVE UNCHANGED Lifecycle!vars
<1>1. \A s \in Requests : /\ Stored(s)' <=> Stored(s)
                          /\ Live(s)' <=> Live(s)
                          /\ Revoked(s)' <=> Revoked(s)
  BY DEF Quiet, Stored, Live, Revoked
<1>2. Parent' = Parent
  BY <1>1 DEF Quiet, Parent
<1>3. QED
  BY <1>1, <1>2 DEF Lifecycle!vars

LEMMA RevokeImplements ==
    ASSUME IInv, NEW r \in Requests, RotateRevokes(r) \/ LogoutRevokes(r)
    PROVE  [Lifecycle!Next]_(Lifecycle!vars)
<1>1. PICK s \in Requests : s = request[r].old /\ Stored(s) /\ RevokeStored(s)
  BY DEF RotateRevokes, LogoutRevokes, At, IInv, NamedSession, Stored
<1>2. SessionsKept /\ Revoked(s)'
  BY <1>1, RevokeKept
<1>3. \A q \in Requests : Stored(q) => /\ request'[q].op = request[q].op
                                       /\ request'[q].old = request[q].old
  <2>1. request[r] \in Request
    BY DEF IInv, TypeOK
  <2>2. QED
    BY <2>1 DEF RotateRevokes, LogoutRevokes, Await, AwaitCreate, IInv, TypeOK, Request
<1>4. Parent' = Parent
  BY <1>2, <1>3 DEF Parent, SessionsKept
<1>5. \A q \in Requests \ {s} : (Live(q)' <=> Live(q)) /\ (Revoked(q)' <=> Revoked(q))
  BY <1>1 DEF RevokeStored, Live, Revoked, Stored, IInv, TypeOK
<1>6. ~Live(s)'
  BY <1>2 DEF Live, Revoked
<1>7. CASE Live(s)
  <2>1. Lifecycle!Revoke(s)
    BY <1>2, <1>4, <1>5, <1>6, <1>7 DEF Lifecycle!Revoke
  <2>2. QED
    BY <2>1 DEF Lifecycle!Next
<1>8. CASE ~Live(s)
  <2>1. Revoked(s)
    BY <1>1, <1>8 DEF Live, Revoked
  <2>2. QED
    BY <1>2, <1>4, <1>5, <1>6, <1>8, <2>1 DEF Lifecycle!vars
<1>9. QED
  BY <1>7, <1>8

LEMMA CreateImplements ==
    ASSUME IInv, NEW r \in Requests, CreateSession(r) PROVE Lifecycle!Next
<1>1. /\ request[r] \in Request
      /\ request[r].phase = "create_session" /\ Creates(r) /\ ~Stored(r)
      /\ request[r].op = "rotate" => Revoked(request[r].old)
  BY DEF IInv, TypeOK, CreateSession, OwnSession, NamedSession, Emitting
<1>2. \A q \in Requests : /\ request'[q].op = request[q].op
                          /\ request'[q].old = request[q].old
  BY <1>1 DEF CreateSession, IInv, TypeOK, Request
<1>3. /\ \A q \in Requests \ {r} : sessions'[q] = sessions[q]
      /\ sessions'[r] = NewSession(r)
  BY DEF CreateSession, IInv, TypeOK
<1>4. NewSession(r) # NoSession /\ NewSession(r).revoked = FALSE
  <2>1. request[r].expires \in Nat /\ request[r].user \in Users
    BY <1>1 DEF Request, IInv, OwnSession
  <2>2. NewSession(r) \in Session
    BY <2>1 DEF NewSession, Session
  <2>3. QED
    BY <2>2, SessionAssumption DEF NewSession, Session
<1>5. /\ \A q \in Requests \ {r} : /\ Stored(q)' <=> Stored(q)
                                   /\ Live(q)' <=> Live(q)
                                   /\ Revoked(q)' <=> Revoked(q)
      /\ Stored(r)' /\ Live(r)' /\ ~Revoked(r)'
  BY <1>3, <1>4 DEF Stored, Live, Revoked
<1>6. ~Live(r) /\ ~Revoked(r)
  BY <1>1 DEF Live, Revoked
<1>7. CASE request[r].op = "rotate"
  <2>1. PICK p \in Requests : p = request[r].old /\ Revoked(p)
    BY <1>1, <1>7 DEF Revoked, Stored
  <2>2. Parent' = [Parent EXCEPT ![r] = p]
    BY <1>2, <1>5, <1>7, <2>1 DEF Parent
  <2>3. Lifecycle!Renew(p, r)
    BY <1>5, <1>6, <2>1, <2>2 DEF Lifecycle!Renew, Lifecycle!Known
  <2>4. QED
    BY <2>3 DEF Lifecycle!Next
<1>8. CASE request[r].op # "rotate"
  <2>1. Parent' = Parent
    BY <1>2, <1>5, <1>8 DEF Parent
  <2>2. Lifecycle!Grant(r)
    BY <1>5, <1>6, <2>1 DEF Lifecycle!Grant, Lifecycle!Known
  <2>3. QED
    BY <2>2 DEF Lifecycle!Next
<1>9. QED
  BY <1>7, <1>8

\* Whatever the requests, their interleaving and their failures, sessions live the
\* lifecycle of SessionLifecycle: granted once, revoked for good, renewed after revocation.
THEOREM Implements == Spec => ImplementsLifecycle
<1>1. Init => Lifecycle!Init
  BY DEF Init, Lifecycle!Init, Live, Revoked, Stored, Parent, IdleRequest
<1>2. IInv /\ [Next]_vars => [Lifecycle!Next]_(Lifecycle!vars)
  <2> SUFFICES ASSUME IInv, [Next]_vars PROVE [Lifecycle!Next]_(Lifecycle!vars)
    OBVIOUS
  <2>1. CASE UNCHANGED vars
    BY <2>1, QuietStutters DEF vars, Quiet
  <2>2. CASE Next
    BY <2>2, QuietOrWrite, QuietStutters, RevokeImplements, CreateImplements
  <2>3. QED
    BY <2>1, <2>2
<1>3. QED
  BY <1>1, <1>2, Invariance, PTL DEF Spec, ImplementsLifecycle, Lifecycle!Spec

=============================================================================
