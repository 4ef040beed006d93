------------------------ MODULE SessionPromisesProofs ------------------------
(***************************************************************************)
(* The promises of AuthSessions that rest on more than the invariant of    *)
(* AuthSessionsProofs: on what events say, on who was looked up when, on   *)
(* how handlers end, and on the clock.                                     *)
(***************************************************************************)
EXTENDS AuthSessionsProofs

\* What is said by an event that is about to go out, or is persisted, is so.
Events ==
    /\ published \subseteq telemetry
    /\ \A r \in Requests :
          /\ Emitting(r) \/ r \in telemetry => EventIsTrue(r)
          /\ request[r].phase = "publish" => r \in telemetry
          /\ r \in telemetry => request[r].phase \in {"publish", "done"}
          /\ Answered(r, "Ok") /\ request[r].op # "require" => r \in published

\* A login that began after its user's deletion was answered got no further than its lookup.
LateLogin == \A d, r \in Requests :
    /\ d \in request[r].after
    /\ request[d].op = "delete" /\ request[r].op = "login"
    /\ request[r].user = request[d].user
    => request[r].phase \in {"get_user", "done"} /\ ~Stored(r)

\* A handler that has created its session answers Ok, or fails.
Outcomes == \A r \in Requests :
    Stored(r) /\ request[r].phase = "done" => request[r].result \in {"Ok", "Failed"}

\* A session is built before its token is minted, so it expires in no later second.
Clock == \A r \in Requests :
    /\ request[r].phase = "create_session" => request[r].expires <= now + RefreshTtl * Second
    /\ Stored(r) => UnixTimestamp(sessions[r].expires) <= request[r].exp

PInv == Events /\ LateLogin /\ Outcomes /\ Clock

LEMMA InitPInv == Init => PInv
BY DEF Init, PInv, Events, LateLogin, Outcomes, Clock, IdleRequest, Emitting, Answered,
       Awaiting, Stored

-----------------------------------------------------------------------------
(* How one step moves one handler *)

Others(r) == \A q \in Requests \ {r} : request'[q] = request[q]

\* The call itself, and what was answered before it, stay.
SameCall(r) == /\ Others(r)
               /\ request'[r].op = request[r].op
               /\ request'[r].old = request[r].old
               /\ request'[r].after = request[r].after

SameLocals(r) == /\ SameCall(r)
                 /\ request'[r].user = request[r].user
                 /\ request'[r].expires = request[r].expires
                 /\ request'[r].exp = request[r].exp

LEMMA AnswerMoves ==
    ASSUME IInv, NEW r \in Requests, NEW result, Answer(r, result)
    PROVE  SameLocals(r) /\ request'[r].phase = "done" /\ request'[r].result = result
<1>1. request[r] \in Request
  BY DEF IInv, TypeOK
<1>2. QED
  BY <1>1 DEF Answer, IInv, TypeOK, Request, SameLocals, SameCall, Others

LEMMA AwaitMoves ==
    ASSUME IInv, NEW r \in Requests, NEW call, Await(r, call)
    PROVE  /\ SameLocals(r)
           /\ request'[r].phase = call /\ request'[r].result = request[r].result
<1>1. request[r] \in Request
  BY DEF IInv, TypeOK
<1>2. QED
  BY <1>1 DEF Await, IInv, TypeOK, Request, SameLocals, SameCall, Others

LEMMA AwaitCreateMoves ==
    ASSUME IInv, NEW r \in Requests, NEW u, AwaitCreate(r, u)
    PROVE  /\ SameCall(r)
           /\ request'[r].phase = "create_session" /\ request'[r].user = u
           /\ request'[r].expires = now + RefreshTtl * Second
           /\ request'[r].exp = request[r].exp
<1>1. request[r] \in Request
  BY DEF IInv, TypeOK
<1>2. QED
  BY <1>1 DEF AwaitCreate, IInv, TypeOK, Request, SameCall, Others

LEMMA CreateMoves ==
    ASSUME IInv, NEW r \in Requests, CreateSession(r)
    PROVE  /\ SameCall(r)
           /\ request'[r].phase = "persist_event" /\ request'[r].user = request[r].user
           /\ request'[r].exp = MintExpiry
<1>1. request[r] \in Request
  BY DEF IInv, TypeOK
<1>2. QED
  BY <1>1 DEF CreateSession, IInv, TypeOK, Request, SameCall, Others

\* A request that begins, or is refused before its first await.
Begun(r) ==
    /\ Idle(r) /\ Others(r)
    /\ UNCHANGED <<now, users, sessions, telemetry, published>>
    /\ \/ /\ request'[r].phase \in {"get_user", "get_session", "delete_user", "has_permissions"}
          /\ request'[r].op = "login" => request'[r].phase = "get_user"
          /\ request'[r].op = "rotate" /\ request'[r].old \in Requests
               => Issued(request'[r].old) /\ Decodes(request'[r].old)
       \/ /\ request'[r].phase = "done" /\ request'[r].op = "rotate"
          /\ request'[r].result = "InvalidToken"

LEMMA StartMoves == ASSUME IInv, NEW r \in Requests, Start(r) PROVE Begun(r)
<1>1. request[r] \in Request
  BY DEF IInv, TypeOK
<1>2. ASSUME NEW op, NEW call, NEW u, NEW s, Begin(r, op, call, u, s)
      PROVE  /\ Idle(r) /\ Others(r)
             /\ request'[r].op = op /\ request'[r].phase = call
             /\ request'[r].old = s
  BY <1>2 DEF Begin, IdleRequest, IInv, TypeOK, Others
<1>3. CASE StartLogin(r)
  BY <1>2, <1>3 DEF StartLogin, Begun
<1>4. CASE StartRotate(r)
  <2>1. PICK s \in Presentable : Decodes(s) /\ Begin(r, "rotate", "get_session", NoUser, s)
    BY <1>4 DEF StartRotate
  <2>2. s \in Requests => Issued(s)
    BY SessionAssumption DEF Presentable
  <2>3. QED
    BY <1>2, <1>4, <2>1, <2>2 DEF StartRotate, Begun
<1>5. CASE RotateExpired(r)
  BY <1>1, <1>5 DEF RotateExpired, Begun, Others, IInv, TypeOK, Request
<1>6. CASE StartLogout(r)
  BY <1>2, <1>6 DEF StartLogout, Begun
<1>7. CASE StartDelete(r)
  BY <1>2, <1>7 DEF StartDelete, Begun
<1>8. CASE StartRequire(r)
  BY <1>2, <1>8 DEF StartRequire, Begun
<1>9. QED
  BY <1>3, <1>4, <1>5, <1>6, <1>7, <1>8 DEF Start

\* Records are added by CreateSession only, and keep what they say.
StoreGrows ==
    \A q \in Requests :
        /\ Stored(q) => Stored(q)' /\ sessions'[q].expires = sessions[q].expires
        /\ Revoked(q) => Revoked(q)'

LEMMA RevokeGrows ==
    ASSUME IInv, NEW r \in Requests, RotateRevokes(r) \/ LogoutRevokes(r)
    PROVE  StoreGrows /\ \A q \in Requests : Stored(q)' => Stored(q)
<1>1. PICK s \in Requests : s = request[r].old /\ Stored(s) /\ RevokeStored(s)
  BY DEF RotateRevokes, LogoutRevokes, At, IInv, NamedSession, Stored
<1>2. SessionsKept
  BY <1>1, RevokeKept
<1>3. sessions[s] \in Session
  BY <1>1 DEF IInv, TypeOK, Stored
<1>4. \A q \in Requests : Stored(q) => sessions'[q].expires = sessions[q].expires
  BY <1>1, <1>3 DEF RevokeStored, IInv, TypeOK, Session
<1>5. QED
  BY <1>2, <1>4 DEF SessionsKept, StoreGrows

LEMMA CreateGrows ==
    ASSUME IInv, NEW r \in Requests, CreateSession(r)
    PROVE  /\ StoreGrows /\ sessions'[r] = NewSession(r)
           /\ \A q \in Requests \ {r} : Stored(q)' => Stored(q)
<1>1. ~Stored(r) /\ sessions'[r] = NewSession(r)
      /\ \A q \in Requests \ {r} : sessions'[q] = sessions[q]
  BY DEF CreateSession, IInv, TypeOK, OwnSession, Emitting
<1>2. QED
  BY <1>1 DEF StoreGrows, Stored, Revoked

\* What is common to the steps of a handler that is under way.
LEMMA StepMoves ==
    ASSUME IInv, NEW r \in Requests, Step(r) \/ Fail(r)
    PROVE  /\ SameCall(r) /\ StoreGrows /\ Awaiting(r)
           /\ users' \subseteq users /\ now' = now
           /\ \A q \in Requests \ {r} : Stored(q)' => Stored(q)
           /\ Stored(r)' /\ ~Stored(r) => CreateSession(r)
<1>1. CASE CreateSession(r)
  BY <1>1, CreateMoves, CreateGrows DEF CreateSession, Awaiting
<1>2. CASE RotateRevokes(r)
  BY <1>2, RevokeGrows, AwaitCreateMoves DEF RotateRevokes, At, Awaiting
<1>3. CASE LogoutRevokes(r)
  BY <1>3, RevokeGrows, AwaitMoves DEF LogoutRevokes, At, Awaiting, SameLocals
<1>4. ASSUME ~CreateSession(r), ~RotateRevokes(r), ~LogoutRevokes(r)
      PROVE  /\ UNCHANGED <<sessions, now>> /\ users' \subseteq users
             /\ SameCall(r) /\ Awaiting(r)
  <2>1. UNCHANGED <<sessions, now>> /\ users' \subseteq users /\ Awaiting(r)
    BY <1>4 DEF Step, Fail, Fails, LoginRejected, LoginVerified, RotateUnknown, RotateRevoked,
                RotateFound, LogoutUnknown, LogoutFound, DeleteUser, RequireAllowed, RequireDenied,
                PersistEvent, PersistsEvent, Publish, HandsOutEvent, At, Awaiting
  <2>2. SameCall(r)
    BY <1>4, AnswerMoves, AwaitMoves, AwaitCreateMoves
    DEF Step, Fail, Fails, LoginRejected, LoginVerified, RotateUnknown, RotateRevoked,
        RotateFound, LogoutUnknown, LogoutFound, DeleteUser, RequireAllowed, RequireDenied,
        PersistEvent, PersistsEvent, Publish, HandsOutEvent, SameLocals
  <2>3. QED
    BY <2>1, <2>2
<1>5. UNCHANGED sessions => StoreGrows /\ \A q \in Requests : Stored(q)' <=> Stored(q)
  BY DEF StoreGrows, Stored, Revoked
<1>6. QED
  BY <1>1, <1>2, <1>3, <1>4, <1>5

-----------------------------------------------------------------------------
(* Events *)

LEMMA TruthLasts ==
    ASSUME StoreGrows, users' \subseteq users, NEW q \in Requests,
           UNCHANGED <<request[q].op, request[q].old, request[q].user>>,
           EventIsTrue(q), request[q].op = "require" => ~Answered(q, "Ok")',
           IInv
    PROVE  EventIsTrue(q)'
<1>1. Revoked(request[q].old) => Revoked(request[q].old)'
  BY DEF StoreGrows, Revoked, Stored
<1>2. QED
  BY <1>1 DEF EventIsTrue, StoreGrows

LEMMA EventsStart ==
    ASSUME IInv, PInv, NEW r \in Requests, Begun(r)
    PROVE  Events'
<1>1. StoreGrows /\ users' \subseteq users
  BY DEF Begun, StoreGrows, Stored, Revoked
<1>2. r \notin telemetry /\ ~Emitting(r)' /\ ~Answered(r, "Ok")' /\ request'[r].phase # "publish"
  BY DEF Begun, PInv, Events, Idle, Emitting, Answered
<1>3. \A q \in Requests \ {r} : EventIsTrue(q) /\ (Emitting(q) \/ q \in telemetry) => EventIsTrue(q)'
  <2> SUFFICES ASSUME NEW q \in Requests \ {r}, EventIsTrue(q) PROVE EventIsTrue(q)'
    OBVIOUS
  <2>1. request'[q] = request[q]
    BY DEF Begun, Others
  <2>2. request[q].op = "require" => ~Answered(q, "Ok")'
    BY <2>1 DEF EventIsTrue, Answered
  <2>3. QED
    BY <1>1, <2>1, <2>2, TruthLasts
<1>4. QED
  BY <1>2, <1>3 DEF Begun, Others, PInv, Events, Emitting, Answered

\* A step of r keeps Events if it does so for r itself.
LEMMA EventsStep ==
    ASSUME IInv, PInv, NEW r \in Requests, Step(r) \/ Fail(r),
           published \subseteq published', published' \subseteq published \cup {r},
           telemetry \subseteq telemetry', telemetry' \subseteq telemetry \cup {r},
           r \in published' => r \in telemetry',
           (Emitting(r)' \/ r \in telemetry') => EventIsTrue(r)',
           request'[r].phase = "publish" => r \in telemetry',
           r \in telemetry' => request'[r].phase \in {"publish", "done"},
           Answered(r, "Ok")' /\ request'[r].op # "require" => r \in published'
    PROVE  Events'
<1>1. SameCall(r) /\ StoreGrows /\ users' \subseteq users
  BY StepMoves
<1>2. \A q \in Requests \ {r} : EventIsTrue(q) => EventIsTrue(q)'
  <2> SUFFICES ASSUME NEW q \in Requests \ {r}, EventIsTrue(q) PROVE EventIsTrue(q)'
    OBVIOUS
  <2>1. request'[q] = request[q]
    BY <1>1 DEF SameCall, Others
  <2>2. request[q].op = "require" => ~Answered(q, "Ok")'
    BY <2>1 DEF EventIsTrue, Answered
  <2>3. QED
    BY <1>1, <2>1, <2>2, TruthLasts
<1>3. QED
  BY <1>1, <1>2 DEF SameCall, Others, PInv, Events, Emitting, Answered

LEMMA EventsKept == ASSUME IInv, IInv', PInv, [Next]_vars PROVE Events'
<1>1. CASE UNCHANGED vars \/ Tick
  BY <1>1 DEF vars, Tick, PInv, Events, Emitting, Answered, EventIsTrue, Stored, Revoked
<1>2. ASSUME NEW r \in Requests, Start(r) PROVE Events'
  BY <1>2, StartMoves, EventsStart
<1>3. ASSUME NEW r \in Requests, Fail(r) PROVE Events'
  <2>1. /\ SameLocals(r) /\ request'[r].phase = "done" /\ request'[r].result = "Failed"
        /\ UNCHANGED <<telemetry, published>>
    BY <1>3, AnswerMoves DEF Fail, Fails
  <2>2. StoreGrows /\ users' \subseteq users
    BY <1>3, StepMoves
  <2>3. ~Answered(r, "Ok")'
    BY <2>1 DEF Answered
  <2>4. r \in telemetry => EventIsTrue(r)'
    BY <2>1, <2>2, <2>3, TruthLasts DEF PInv, Events, SameLocals, SameCall
  <2>5. QED
    BY <1>3, <2>1, <2>3, <2>4, EventsStep DEF PInv, Events, Emitting
<1>4. ASSUME NEW r \in Requests, Step(r), ~PersistEvent(r), ~Publish(r) PROVE Events'
  <2>1. UNCHANGED <<telemetry, published>> /\ request[r].phase \notin {"publish", "done"}
    BY <1>4 DEF Step, LoginRejected, LoginVerified, RotateUnknown, RotateRevoked, RotateFound,
                RotateRevokes, CreateSession, LogoutUnknown, LogoutFound, LogoutRevokes,
                DeleteUser, RequireAllowed, RequireDenied, At
  <2>2. r \notin telemetry
    BY <2>1 DEF PInv, Events
  <2>3. CASE CreateSession(r)
    <3>1. request'[r].phase = "persist_event" /\ request'[r].op = request[r].op
      BY <2>3, CreateMoves DEF SameCall
    <3>2. Creates(r)' /\ Stored(r)'
      BY <2>3, <3>1 DEF IInv, OwnSession, CreateSession, Creates, Emitting
    <3>3. EventIsTrue(r)'
      BY <3>2 DEF EventIsTrue, IInv, NamedSession, Creates
    <3>4. QED
      BY <1>4, <2>1, <2>2, <3>1, <3>3, EventsStep DEF PInv, Events, Answered
  <2>4. CASE LogoutRevokes(r)
    <3>1. request'[r].phase = "persist_event" /\ request'[r].op = "logout"
      BY <2>4, AwaitMoves DEF LogoutRevokes, At, SameLocals, SameCall
    <3>2. EventIsTrue(r)'
      BY <3>1 DEF EventIsTrue, IInv, NamedSession, Emitting
    <3>3. QED
      BY <1>4, <2>1, <2>2, <3>1, <3>2, EventsStep DEF PInv, Events, Answered
  <2>5. CASE DeleteUser(r)
    <3>1. /\ request'[r].phase = "persist_event" /\ request'[r].op = "delete"
          /\ request'[r].user = request[r].user /\ users' = users \ {request[r].user}
      BY <2>5, AwaitMoves DEF DeleteUser, At, SameLocals, SameCall
    <3>2. EventIsTrue(r)'
      BY <3>1 DEF EventIsTrue
    <3>3. QED
      BY <1>4, <2>1, <2>2, <3>1, <3>2, EventsStep DEF PInv, Events, Answered
  <2>6. CASE RequireDenied(r)
    <3>1. request'[r].phase = "persist_event" /\ request'[r].op = "require"
      BY <2>6, AwaitMoves DEF RequireDenied, At, SameLocals, SameCall
    <3>2. EventIsTrue(r)'
      BY <3>1 DEF EventIsTrue, Answered
    <3>3. QED
      BY <1>4, <2>1, <2>2, <3>1, <3>2, EventsStep DEF PInv, Events, Answered
  <2>7. ASSUME ~CreateSession(r), ~LogoutRevokes(r), ~DeleteUser(r), ~RequireDenied(r)
        PROVE  /\ ~Emitting(r)'
               /\ Answered(r, "Ok")' => request'[r].op = "require"
    <3>1. CASE RequireAllowed(r)
      BY <3>1, AnswerMoves DEF RequireAllowed, At, SameLocals, SameCall, Emitting
    <3>2. CASE LoginRejected(r) \/ RotateUnknown(r) \/ RotateRevoked(r) \/ LogoutUnknown(r)
      BY <3>2, AnswerMoves
      DEF LoginRejected, RotateUnknown, RotateRevoked, LogoutUnknown, Emitting, Answered
    <3>3. CASE RotateFound(r) \/ LogoutFound(r)
      BY <3>3, AwaitMoves DEF RotateFound, LogoutFound, Emitting, Answered
    <3>4. CASE LoginVerified(r) \/ RotateRevokes(r)
      BY <3>4, AwaitCreateMoves DEF LoginVerified, RotateRevokes, Emitting, Answered
    <3>5. QED
      BY <1>4, <2>7, <3>1, <3>2, <3>3, <3>4 DEF Step
  <2>8. QED
    BY <1>4, <2>1, <2>2, <2>3, <2>4, <2>5, <2>6, <2>7, EventsStep DEF PInv, Events, Emitting
<1>5. ASSUME NEW r \in Requests, PersistEvent(r) PROVE Events'
  <2>1. /\ SameLocals(r) /\ request'[r].phase = "publish"
        /\ telemetry' = telemetry \cup {r} /\ UNCHANGED <<users, sessions, published>>
        /\ Emitting(r)
    BY <1>5, AwaitMoves DEF PersistEvent, PersistsEvent, Emitting
  <2>2. EventIsTrue(r) /\ ~Answered(r, "Ok")' /\ Step(r)
    BY <1>5, <2>1 DEF PInv, Events, Answered, Step
  <2>3. EventIsTrue(r)'
    BY <2>1, <2>2, TruthLasts, StepMoves DEF SameLocals, SameCall
  <2>4. QED
    BY <2>1, <2>2, <2>3, EventsStep DEF PInv, Events
<1>6. ASSUME NEW r \in Requests, Publish(r) PROVE Events'
  <2>1. /\ SameLocals(r) /\ request'[r].phase = "done"
        /\ request'[r].result = IF request[r].op = "require" THEN "PermissionDenied" ELSE "Ok"
        /\ published' = published \cup {r} /\ UNCHANGED <<users, sessions, telemetry>>
        /\ Emitting(r) /\ r \in telemetry
    BY <1>6, AnswerMoves DEF Publish, HandsOutEvent, Emitting, PInv, Events
  <2>2. /\ EventIsTrue(r) /\ Step(r)
        /\ request[r].op = "require" => ~Answered(r, "Ok")'
    BY <1>6, <2>1 DEF PInv, Events, Answered, Step
  <2>3. EventIsTrue(r)'
    BY <2>1, <2>2, TruthLasts, StepMoves DEF SameLocals, SameCall
  <2>4. QED
    BY <2>1, <2>2, <2>3, EventsStep DEF PInv, Events
<1>7. QED
  BY <1>1, <1>2, <1>3, <1>4, <1>5, <1>6 DEF Next

-----------------------------------------------------------------------------
(* Logins, outcomes and the clock *)

\* delete_account was answered: its event is out, so the record is gone.
LEMMA DeletedIsGone ==
    ASSUME IInv, PInv, NEW d \in Requests, request[d].op = "delete", Answered(d, "Ok")
    PROVE  request[d].user \notin users
<1>1. d \in telemetry
  BY DEF PInv, Events
<1>2. QED
  BY <1>1 DEF PInv, Events, EventIsTrue

\* A call that was answered before some call began does not move again.
LEMMA AnsweredStays ==
    ASSUME IInv, [Next]_vars, NEW d \in Requests, request[d].phase = "done"
    PROVE  request'[d] = request[d]
<1>1. CASE UNCHANGED vars \/ Tick
  BY <1>1 DEF vars, Tick
<1>2. ASSUME NEW r \in Requests, Start(r) PROVE request'[d] = request[d]
  BY <1>2, StartMoves DEF Begun, Others, Idle
<1>3. ASSUME NEW r \in Requests, Step(r) \/ Fail(r) PROVE request'[d] = request[d]
  BY <1>3, StepMoves DEF SameCall, Others, Awaiting
<1>4. QED
  BY <1>1, <1>2, <1>3 DEF Next

LEMMA LateLoginKept == ASSUME IInv, IInv', PInv, [Next]_vars PROVE LateLogin'
<1> DEFINE Late(d, r) == /\ d \in request[r].after
                         /\ request[d].op = "delete" /\ request[r].op = "login"
                         /\ request[r].user = request[d].user
<1> SUFFICES ASSUME NEW d \in Requests, NEW r \in Requests, Late(d, r)'
             PROVE  request'[r].phase \in {"get_user", "done"} /\ ~Stored(r)'
  BY DEF LateLogin
<1>1. CASE UNCHANGED vars \/ Tick
  BY <1>1 DEF vars, Tick, PInv, LateLogin, Stored
<1>2. ASSUME NEW q \in Requests, Start(q)
      PROVE  request'[r].phase \in {"get_user", "done"} /\ ~Stored(r)'
  <2>1. Begun(q)
    BY <1>2, StartMoves
  <2>2. CASE q = r
    <3>1. ~Stored(r)
      BY <2>1, <2>2 DEF Begun, Idle, IInv, OwnSession, Emitting
    <3>2. QED
      BY <2>1, <2>2, <3>1 DEF Begun, Stored
  <2>3. CASE q # r
    <3>1. request'[r] = request[r] /\ d \in request[r].after
      BY <2>1, <2>3 DEF Begun, Others
    <3>2. Answered(d, "Ok")
      BY <3>1 DEF IInv, LateRotation
    <3>3. request'[d] = request[d]
      BY <3>2, AnsweredStays DEF Answered
    <3>4. QED
      BY <2>1, <3>1, <3>3 DEF PInv, LateLogin, Begun, Stored
  <2>4. QED
    BY <2>2, <2>3
<1>3. ASSUME NEW q \in Requests, Step(q) \/ Fail(q)
      PROVE  request'[r].phase \in {"get_user", "done"} /\ ~Stored(r)'
  <2>1. /\ SameCall(q) /\ Awaiting(q)
        /\ \A p \in Requests \ {q} : Stored(p)' => Stored(p)
        /\ Stored(q)' /\ ~Stored(q) => CreateSession(q)
    BY <1>3, StepMoves
  <2>2. d \in request[r].after /\ request[r].op = "login"
    BY <2>1 DEF SameCall, Others
  <2>3. Answered(d, "Ok")
    BY <2>2 DEF IInv, LateRotation
  <2>4. request'[d] = request[d]
    BY <2>3, AnsweredStays DEF Answered
  <2>5. CASE q # r
    BY <2>1, <2>2, <2>4, <2>5 DEF PInv, LateLogin, SameCall, Others
  <2>6. CASE q = r /\ request'[r].user = request[r].user
    <3>1. request[r].phase = "get_user" /\ ~Stored(r)
      BY <2>1, <2>2, <2>4, <2>6 DEF PInv, LateLogin, Awaiting
    <3>2. request[r].user \notin users
      BY <2>3, <2>4, <2>6, DeletedIsGone
    <3>3. LoginRejected(r) \/ Fail(r)
      BY <1>3, <2>2, <2>6, <3>1, <3>2
      DEF Step, LoginVerified, RotateUnknown, RotateRevoked, RotateFound, RotateRevokes,
          CreateSession, LogoutUnknown, LogoutFound, LogoutRevokes, DeleteUser, RequireAllowed,
          RequireDenied, PersistEvent, PersistsEvent, Publish, HandsOutEvent, At
    <3>4. request'[r].phase = "done" /\ sessions' = sessions
      BY <3>3, AnswerMoves DEF LoginRejected, Fail, Fails
    <3>5. QED
      BY <3>1, <3>4 DEF Stored
  <2>7. CASE q = r /\ request'[r].user # request[r].user
    <3>1. RotateRevokes(r) \/ LoginVerified(r)
      BY <1>3, <2>7, AnswerMoves, AwaitMoves, CreateMoves
      DEF Step, Fail, Fails, LoginRejected, RotateUnknown, RotateRevoked,
          RotateFound, LogoutUnknown, LogoutFound, LogoutRevokes, DeleteUser, RequireAllowed,
          RequireDenied, PersistEvent, PersistsEvent, Publish, HandsOutEvent, SameLocals
    <3>2. QED
      BY <2>2, <2>7, <3>1, AwaitCreateMoves DEF RotateRevokes, LoginVerified, At
  <2>8. QED
    BY <2>5, <2>6, <2>7
<1>4. QED
  BY <1>1, <1>2, <1>3 DEF Next

LEMMA OutcomesKept == ASSUME IInv, IInv', PInv, [Next]_vars PROVE Outcomes'
<1>1. CASE UNCHANGED vars \/ Tick
  BY <1>1 DEF vars, Tick, PInv, Outcomes, Stored
<1>2. ASSUME NEW r \in Requests, Start(r) PROVE Outcomes'
  <2>1. Begun(r)
    BY <1>2, StartMoves
  <2>2. ~Stored(r)
    BY <2>1 DEF Begun, Idle, IInv, OwnSession, Emitting
  <2>3. QED
    BY <2>1, <2>2 DEF Begun, Others, PInv, Outcomes, Stored
<1>3. ASSUME NEW r \in Requests, Step(r) \/ Fail(r) PROVE Outcomes'
  <2>1. /\ SameCall(r) /\ \A q \in Requests \ {r} : Stored(q)' => Stored(q)
        /\ Stored(r)' /\ ~Stored(r) => CreateSession(r)
    BY <1>3, StepMoves
  <2>2. ASSUME Stored(r)', request'[r].phase = "done" PROVE request'[r].result \in {"Ok", "Failed"}
    <3>1. ~CreateSession(r)
      BY <2>2, CreateMoves
    <3>2. Stored(r) /\ Creates(r)
      BY <2>1, <2>2, <3>1 DEF IInv, OwnSession
    <3>3. request[r].phase \in {"persist_event", "publish", "done"}
      BY <3>2 DEF IInv, OwnSession, Emitting
    <3>4. Publish(r) \/ Fail(r) \/ PersistEvent(r)
      BY <1>3, <3>1, <3>3
      DEF Step, LoginRejected, LoginVerified, RotateUnknown, RotateRevoked, RotateFound,
          RotateRevokes, LogoutUnknown, LogoutFound, LogoutRevokes, DeleteUser, RequireAllowed,
          RequireDenied, At
    <3>5. CASE Publish(r)
      BY <3>2, <3>5, AnswerMoves DEF Publish, HandsOutEvent, Creates
    <3>6. CASE Fail(r)
      BY <3>6, AnswerMoves DEF Fail, Fails
    <3>7. CASE PersistEvent(r)
      BY <2>2, <3>7, AwaitMoves DEF PersistEvent, PersistsEvent
    <3>8. QED
      BY <3>4, <3>5, <3>6, <3>7
  <2>3. QED
    BY <2>1, <2>2 DEF SameCall, Others, PInv, Outcomes
<1>4. QED
  BY <1>1, <1>2, <1>3 DEF Next

\* The expiry of a refresh token changes when it is minted, and at no other step.
LEMMA ExpiryKept ==
    ASSUME IInv, NEW r \in Requests, Step(r) \/ Fail(r), ~CreateSession(r)
    PROVE  /\ request'[r].exp = request[r].exp
           /\ request'[r].phase = "create_session"
                => request'[r].expires = now + RefreshTtl * Second
<1>1. CASE RotateRevokes(r) \/ LoginVerified(r)
  BY <1>1, AwaitCreateMoves DEF RotateRevokes, LoginVerified
<1>2. CASE RotateFound(r) \/ LogoutFound(r) \/ LogoutRevokes(r) \/ DeleteUser(r)
           \/ RequireDenied(r) \/ PersistEvent(r)
  BY <1>2, AwaitMoves DEF RotateFound, LogoutFound, LogoutRevokes, DeleteUser, RequireDenied,
                          PersistEvent, PersistsEvent, SameLocals
<1>3. CASE LoginRejected(r) \/ RotateUnknown(r) \/ RotateRevoked(r) \/ LogoutUnknown(r)
           \/ RequireAllowed(r) \/ Publish(r) \/ Fail(r)
  BY <1>3, AnswerMoves DEF LoginRejected, RotateUnknown, RotateRevoked, LogoutUnknown,
                           RequireAllowed, Publish, HandsOutEvent, Fail, Fails, SameLocals
<1>4. QED
  BY <1>1, <1>2, <1>3 DEF Step

\* UnixTimestamp: whole seconds keep the order of the readings they are made of.
LEMMA TimestampsOrdered ==
    ASSUME NEW time \in Nat, NEW later \in Nat, time <= later
    PROVE  UnixTimestamp(time) <= UnixTimestamp(later)
BY TimeAssumption DEF UnixTimestamp

LEMMA ClockKept == ASSUME IInv, IInv', PInv, [Next]_vars PROVE Clock'
<1> DEFINE Building(r) == request[r].phase = "create_session"
                             => request[r].expires <= now + RefreshTtl * Second
           Covered(r) == Stored(r) => UnixTimestamp(sessions[r].expires) <= request[r].exp
<1> SUFFICES ASSUME NEW q \in Requests PROVE Building(q)' /\ Covered(q)'
  BY DEF Clock
<1>1. /\ Building(q) /\ Covered(q)
      /\ now \in Nat /\ now + RefreshTtl * Second \in Nat
      /\ request[q] \in Request /\ request'[q] \in Request
  BY TimeAssumption DEF PInv, Clock, IInv, TypeOK
<1>2. CASE UNCHANGED vars
  BY <1>1, <1>2 DEF vars, Stored
<1>3. CASE Tick
  <2>1. request[q].expires \in Nat /\ now' = now + 1
    BY <1>1, <1>3 DEF Request, Tick
  <2>2. Building(q)'
    <3>1. RefreshTtl * Second \in Nat
      BY TimeAssumption
    <3>2. QED
      BY <1>1, <1>3, <2>1, <3>1 DEF Tick
  <2>3. QED
    BY <1>1, <1>3, <2>2 DEF Tick, Stored
<1>4. ASSUME NEW r \in Requests, Start(r) PROVE Building(q)' /\ Covered(q)'
  <2>1. Begun(r)
    BY <1>4, StartMoves
  <2>2. CASE q # r
    BY <1>1, <2>1, <2>2 DEF Begun, Others, Stored
  <2>3. CASE q = r
    BY <2>1, <2>3 DEF Begun, Idle, IInv, OwnSession, Emitting, Stored
  <2>4. QED
    BY <2>2, <2>3
<1>5. ASSUME NEW r \in Requests, Step(r) \/ Fail(r) PROVE Building(q)' /\ Covered(q)'
  <2>1. /\ SameCall(r) /\ StoreGrows /\ now' = now
        /\ \A p \in Requests \ {r} : Stored(p)' => Stored(p)
        /\ Stored(r)' /\ ~Stored(r) => CreateSession(r)
    BY <1>5, StepMoves
  <2>2. CASE q # r
    BY <1>1, <2>1, <2>2 DEF SameCall, Others, StoreGrows
  <2>3. CASE q = r /\ CreateSession(r)
    <3>1. sessions'[r].expires = request[r].expires
      <4>1. sessions'[r] = NewSession(r)
        BY <2>3, CreateGrows
      <4>2. QED
        BY <4>1 DEF NewSession
    <3>2. request[r].expires <= now + RefreshTtl * Second /\ request[r].expires \in Nat
      BY <1>1, <2>3 DEF CreateSession, Request
    <3>3. UnixTimestamp(request[r].expires) <= MintExpiry
      BY <1>1, <3>2, TimestampsOrdered DEF MintExpiry
    <3>4. QED
      BY <2>3, <3>1, <3>3, CreateMoves
  <2>4. CASE q = r /\ ~CreateSession(r)
    <3>1. Building(r)'
      BY <1>1, <1>5, <2>1, <2>4, ExpiryKept
    <3>2. Covered(r)'
      BY <1>1, <1>5, <2>1, <2>4, ExpiryKept DEF StoreGrows
    <3>3. QED
      BY <2>4, <3>1, <3>2
  <2>5. QED
    BY <2>2, <2>3, <2>4
<1>6. QED
  BY <1>2, <1>3, <1>4, <1>5 DEF Next

-----------------------------------------------------------------------------
(* Theorems *)

\* The second invariant holds with the first: a handler that is about to tell of its change has
\* made it.
THEOREM PromisesInvariance == Spec => [](IInv /\ PInv)
<1>1. IInv /\ PInv /\ [Next]_vars => (IInv /\ PInv)'
  BY NextIInv, EventsKept, LateLoginKept, OutcomesKept, ClockKept DEF PInv
<1>2. QED
  BY <1>1, InitIInv, InitPInv, PTL DEF Spec

\* emit_event: a subscriber learns only of what was persisted and is so, and every answered
\* change has its event in both places.
THEOREM EventsAreTrue == Spec => []AuditSound
<1>1. IInv /\ PInv => AuditSound
  BY DEF IInv, TypeOK, PInv, Events, AuditSound
<1>2. QED
  BY <1>1, PromisesInvariance, PTL

\* delete_account and login: a login that begins after an answered deletion opens no session.
THEOREM DeletionStops == Spec => []DeletionStopsLogin
<1>1. PInv => DeletionStopsLogin
  BY DEF PInv, LateLogin, DeletionStopsLogin
<1>2. QED
  BY <1>1, PromisesInvariance, PTL

\* list_sessions: a session without a holder belongs to a call under way or to a failed one.
THEOREM NoOrphans == Spec => []OrphansComeFromFailures
<1>1. IInv /\ PInv => OrphansComeFromFailures
  BY DEF IInv, OwnSession, PInv, Outcomes, OrphansComeFromFailures, ActiveSessions, Live,
         Creates, Emitting, Issued, Awaiting, Failed, Answered
<1>2. QED
  BY <1>1, PromisesInvariance, PTL

\* issue_refresh_token and decode_claims: however time is cut into seconds, no client's token
\* is refused before its session record expires.
THEOREM TokensOutlast == Spec => []TokenOutlastsSession
<1>1. IInv /\ PInv => TokenOutlastsSession
  <2> SUFFICES ASSUME IInv, PInv, NEW s \in Requests, Issued(s), now <= sessions[s].expires
               PROVE  UnixTimestamp(now) <= request[s].exp + Leeway
    BY DEF TokenOutlastsSession, Decodes
  <2>1. Stored(s)
    BY DEF IInv, OwnSession, Issued, Creates
  <2>2. now \in Nat /\ request[s].exp \in Nat /\ sessions[s].expires \in Nat
    BY <2>1 DEF IInv, TypeOK, Request, Session, Stored
  <2>3. UnixTimestamp(now) <= UnixTimestamp(sessions[s].expires)
    BY <2>2, TimestampsOrdered
  <2>4. UnixTimestamp(sessions[s].expires) <= request[s].exp
    BY <2>1 DEF PInv, Clock
  <2>5. UnixTimestamp(now) \in Nat /\ UnixTimestamp(sessions[s].expires) \in Nat
    BY <2>2, TimeAssumption DEF UnixTimestamp
  <2>6. QED
    BY <2>2, <2>3, <2>4, <2>5, TimeAssumption
<1>2. QED
  BY <1>1, PromisesInvariance, PTL

=============================================================================
