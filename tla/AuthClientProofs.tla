--------------------------- MODULE AuthClientProofs ---------------------------
(***************************************************************************)
(* What AuthClient guarantees for any calls, users, workloads and any      *)
(* bound on losses.                                                        *)
(***************************************************************************)
EXTENDS AuthClient, TLAPS

\* What one call knows of itself.
LocalOK(t) ==
    /\ task[t].phase = "idle" => task[t] = NewTask
    /\ task[t].phase = "done" => task[t].cookie = {}
    /\ task[t].result # "none" => task[t].phase = "done"
    /\ \A p \in task[t].cookie : p # NoPair => pairs[p].origin = t
    /\ task[t].user # NoUser => task[t].phase \in {"guard", "done"} /\ task[t].sent # NoPair
    /\ task[t].phase = "body" \/ (task[t].phase = "me" /\ task[t].reply = "ok")
         => task[t].sent # NoPair
    /\ task[t].phase = "guard" /\ task[t].ok => task[t].user # NoUser
    /\ task[t].op = "logout" =>
         /\ task[t].phase \in {"request", "done"}
         /\ task[t].reply \in {"none", "ok", "refused", "failed"}
         /\ task[t].phase # "done" /\ task[t].reply = "ok" => task[t].cookie = {NoPair}
    /\ \A q \in task[t].after : task[q].phase = "done"

LocalsOK == \A t \in Tasks : LocalOK(t)

\* No refresh is under way: nothing is left of the last one.
RefreshOK == ~refreshInProgress.active => refreshInProgress = Idle

\* Pairs that an answer still on its way will store.
InFlight(t) == task[t].cookie \ {NoPair}

\* A pair on its way to the cookies is nowhere else, and was not renewed.
FlightsOK ==
    /\ \A t \in Tasks : \A p \in InFlight(t) :
         /\ p # jar /\ p # refreshInProgress.sent /\ p \notin refreshInProgress.cookie
         /\ pairs[p].renewal # "rotated"
         /\ \A q \in Tasks \ {t} : p \notin task[q].cookie
    /\ \A p \in refreshInProgress.cookie : p # NoPair => pairs[p].renewal # "rotated"

\* The cookies hold a renewed pair only while the answer of that renewal is on its way.
JarOK == jar # NoPair /\ pairs[jar].renewal = "rotated" =>
    refreshInProgress.active /\ refreshInProgress.reply = "ok" /\ refreshInProgress.sent = jar
    /\ refreshInProgress.cookie # {}

\* A call that waits for the shared refresh waits for one that is under way: whoever joined it,
\* and whenever, is told when it settles, and no refresh is forgotten that is waited for.
NobodyWaitsInVain ==
    \A t \in Tasks : task[t].phase = "refresh" /\ task[t].reply = "none" =>
        refreshInProgress.active

TInv == TypeOK /\ LocalsOK
RInv == RefreshOK /\ FlightsOK /\ JarOK /\ PresentsCurrentPair

-----------------------------------------------------------------------------
(* How a step of one call moves the page, the cookies and the pairs *)

\* The call goes on, or ends; what it was asked and what it knows of others stays.
CallMoves(t) ==
    /\ task' \in [Tasks -> Task]
    /\ \A q \in Tasks \ {t} : task'[q] = task[q]
    /\ task[t].phase # "done" /\ task'[t].phase # "idle"
    /\ task'[t].sent \in {task[t].sent, jar', NoPair}
    /\ IF task[t].phase = "idle" THEN task'[t].after = Done
       ELSE task'[t].op = task[t].op /\ task'[t].after = task[t].after
    /\ task[t].phase = "guard" => task'[t].phase = "done" /\ task'[t].user = task[t].user

\* What the page believes changes with the phase of the call.
PageMoves(t) ==
    /\ \/ /\ UNCHANGED <<isAuthenticated, currentUser>>
          /\ task[t].phase = "body" <=> task'[t].phase = "body"
       \/ SignsOut /\ ClearsPage(t)' /\ task'[t].phase # "body"
       \/ isAuthenticated' = TRUE /\ UNCHANGED currentUser /\ task'[t].phase = "body"
       \/ /\ task[t].phase = "body" /\ task'[t].phase \in {"guard", "done"}
          /\ UNCHANGED isAuthenticated /\ currentUser' = task'[t].user /\ currentUser' # NoUser
    /\ task'[t].op = "logout" /\ task'[t].result = "ok" => SignsOut
    /\ task'[t].phase = "guard" /\ task'[t].ok => currentUser' = task'[t].user
    /\ task'[t].result = "passed" =>
         /\ task[t].phase = "guard" /\ task[t].ok
         /\ task[t].op = "guardRole" => currentUser \in Admins

\* Pairs keep their owner and origin.
PairsStay == /\ pairs' \in Seq(Pair) /\ Len(pairs) <= Len(pairs')
             /\ \A p \in 1 .. Len(pairs) :
                  pairs'[p].owner = pairs[p].owner /\ pairs'[p].origin = pairs[p].origin

\* Only a refresh makes a pair a renewed one.
PairsMove(t) == /\ PairsStay
                /\ \A p \in 1 .. Len(pairs) :
                     pairs'[p].renewal = "rotated" => pairs[p].renewal = "rotated"
                /\ \A p \in Len(pairs) + 1 .. Len(pairs') :
                     pairs'[p].renewal = "live" /\ pairs'[p].origin = t

\* An answer's cookies are stored once, and not by a call that then joins a refresh.  A call
\* that waits has joined one.
CookiesMove(t) ==
    /\ \A p \in task'[t].cookie : p \in task[t].cookie \/ p = NoPair \/ p \in Len(pairs) + 1 .. Len(pairs')
    /\ jar' = jar \/ (jar' \in task[t].cookie /\ task'[t].cookie = {})
    /\ \/ UNCHANGED refreshInProgress
       \/ /\ ~refreshInProgress.active /\ jar' = jar
          /\ refreshInProgress' = [Idle EXCEPT !.sent = jar, !.active = TRUE]
    /\ task'[t].op = "logout" /\ task'[t].result = "ok" /\ ~task'[t].mixed =>
         jar' = NoPair /\ ~refreshInProgress.active /\ UNCHANGED refreshInProgress
    /\ task'[t].phase = "refresh" /\ task'[t].reply = "none" => refreshInProgress'.active

\* The rest stays what it is.
RestTyped == /\ {isAuthenticated', hooks'} \subseteq BOOLEAN
             /\ currentUser' \in Users \cup {NoUser}
             /\ location' \in {"page", "login", "leaving"}
             /\ losses' \in 0 .. MaxLosses
             /\ UNCHANGED fixed

Moves(t) == /\ CallMoves(t) /\ PageMoves(t) /\ PairsMove(t) /\ CookiesMove(t) /\ RestTyped
            /\ LocalOK(t)'

-----------------------------------------------------------------------------
(* Ending a call, sending its next request *)

LEMMA NewTaskTyped ==
    ASSUME NEW op \in Operations PROVE [NewTask EXCEPT !.op = op] \in Task /\ NewTask \in Task
BY DEF NewTask, Task, Operations, Phases, Replies, Results, NoPair

LEMMA SendingWithFacts ==
    ASSUME NEW rec \in Task, NEW phase \in Phases, NEW cookies \in Nat
    PROVE  /\ SendingWith(cookies, rec, phase) \in Task
           /\ SendingWith(cookies, rec, phase).op = rec.op
           /\ SendingWith(cookies, rec, phase).phase = phase
           /\ SendingWith(cookies, rec, phase).sent = cookies
           /\ SendingWith(cookies, rec, phase).reply = "none"
           /\ SendingWith(cookies, rec, phase).cookie = {}
           /\ SendingWith(cookies, rec, phase).user = rec.user
           /\ SendingWith(cookies, rec, phase).result = rec.result
           /\ SendingWith(cookies, rec, phase).after = rec.after
           /\ SendingWith(cookies, rec, phase).ok = rec.ok
           /\ SendingWith(cookies, rec, phase).mixed = rec.mixed
<1>1. SendingWith(cookies, rec, phase) \in Task
  BY DEF SendingWith, Task, Replies
<1>2. QED
  BY <1>1 DEF SendingWith, Task

LEMMA SendingFacts ==
    ASSUME TypeOK, NEW rec \in Task, NEW phase \in Phases
    PROVE  /\ Sending(rec, phase) \in Task
           /\ Sending(rec, phase).op = rec.op /\ Sending(rec, phase).phase = phase
           /\ Sending(rec, phase).sent = jar /\ Sending(rec, phase).reply = "none"
           /\ Sending(rec, phase).cookie = {} /\ Sending(rec, phase).user = rec.user
           /\ Sending(rec, phase).result = rec.result /\ Sending(rec, phase).after = rec.after
           /\ Sending(rec, phase).ok = rec.ok /\ Sending(rec, phase).mixed = rec.mixed
<1>1. jar \in Nat
  BY DEF TypeOK, Pairs
<1>2. QED
  BY <1>1, SendingWithFacts DEF Sending

LEMMA EndedFacts ==
    ASSUME NEW rec \in Task, NEW result \in Results
    PROVE  /\ Ended(rec, result) \in Task
           /\ Ended(rec, result).op = rec.op /\ Ended(rec, result).phase = "done"
           /\ Ended(rec, result).sent = (IF rec.user = NoUser THEN NoPair ELSE rec.sent)
           /\ Ended(rec, result).reply = "none" /\ Ended(rec, result).cookie = {}
           /\ Ended(rec, result).user = rec.user /\ Ended(rec, result).result = result
           /\ Ended(rec, result).after = rec.after /\ ~Ended(rec, result).ok
           /\ Ended(rec, result).mixed = rec.mixed
BY DEF Ended, Task, Replies, Phases, NoPair

\* What the server knows of a pair is typed.
LEMMA PairTyped == ASSUME TypeOK, NEW p \in Pairs, p # NoPair
                   PROVE  p \in 1 .. Len(pairs) /\ pairs[p] \in Pair /\ pairs[p].owner \in Users
<1>1. p \in 1 .. Len(pairs)
  BY DEF Pairs, NoPair, TypeOK
<1>2. pairs[p] \in Pair
  BY <1>1 DEF TypeOK
<1>3. QED
  BY <1>1, <1>2 DEF Pair

\* A call in the middle keeps the pairs.
LEMMA SamePairs == ASSUME TypeOK, NEW t, UNCHANGED pairs PROVE PairsMove(t)
BY DEF TypeOK, PairsMove, PairsStay

\* A step of a call that has neither begun the page's next belief nor the end of a body.
LEMMA EndMoves ==
    ASSUME TInv, NEW t \in Tasks, NEW r \in Results \ {"passed", "none"},
           task[t].phase \in {"request", "retry", "refresh"}, task[t].op = "logout" => r # "ok",
           task' = [task EXCEPT ![t] = Ended(@, r)],
           UNCHANGED <<page, refreshInProgress, jar, server, fixed>>
    PROVE  Moves(t)
<1>1. task[t] \in Task /\ LocalOK(t)
  BY DEF TInv, TypeOK, LocalsOK
<1>2. task'[t] = Ended(task[t], r)
  BY DEF TInv, TypeOK
<1>3. CallMoves(t)
  BY <1>1, <1>2, EndedFacts DEF CallMoves, TInv, TypeOK
<1>4. PageMoves(t)
  BY <1>1, <1>2, EndedFacts DEF PageMoves, page
<1>5. CookiesMove(t)
  BY <1>1, <1>2, EndedFacts DEF CookiesMove
<1>6. RestTyped
  BY DEF RestTyped, page, server, fixed, TInv, TypeOK
<1>7. \A q \in task'[t].after : task'[q].phase = "done"
  BY <1>1, <1>2, <1>3, EndedFacts DEF LocalOK, CallMoves, Task
<1>8. LocalOK(t)'
  BY <1>1, <1>2, <1>7, EndedFacts DEF LocalOK
<1>9. QED
  BY <1>3, <1>4, <1>5, <1>6, <1>8, SamePairs DEF Moves, server, TInv

\* A call sends its next request.
LEMMA SendMoves ==
    ASSUME TInv, NEW t \in Tasks, NEW phase \in {"retry", "ending", "me"},
           task[t].phase \in {"request", "retry", "refresh", "ending"}, task[t].op # "logout",
           task' = [task EXCEPT ![t] = Sending(@, phase)],
           UNCHANGED <<refreshInProgress, jar, pairs>>, RestTyped,
           UNCHANGED <<isAuthenticated, currentUser>>
    PROVE  Moves(t)
<1>1. task[t] \in Task /\ LocalOK(t)
  BY DEF TInv, TypeOK, LocalsOK
<1>2. task'[t] = Sending(task[t], phase) /\ phase \in Phases
  BY DEF TInv, TypeOK, Phases
<1>3. CallMoves(t)
  BY <1>1, <1>2, SendingFacts DEF CallMoves, TInv, TypeOK
<1>4. PageMoves(t)
  BY <1>1, <1>2, SendingFacts DEF PageMoves, LocalOK, TInv
<1>5. CookiesMove(t)
  BY <1>1, <1>2, SendingFacts DEF CookiesMove, TInv
<1>7. \A q \in task'[t].after : task'[q].phase = "done"
  BY <1>1, <1>2, <1>3, SendingFacts DEF LocalOK, CallMoves, Task, TInv
<1>8. LocalOK(t)'
  BY <1>1, <1>2, <1>7, SendingFacts DEF LocalOK, TInv
<1>9. QED
  BY <1>3, <1>4, <1>5, <1>8, SamePairs DEF Moves, TInv

\* A call whose request is not answered with a success, or not at all, goes on to wait.
LEMMA RenewMoves ==
    ASSUME TInv, NEW t \in Tasks, RenewFirst(t), UNCHANGED <<server, fixed>>
    PROVE  Moves(t)
<1>1. task[t] \in Task /\ LocalOK(t)
  BY DEF TInv, TypeOK, LocalsOK
<1> DEFINE rec == [task[t] EXCEPT !.phase = "refresh", !.reply = "none"]
<1>2. task' = [task EXCEPT ![t] = rec] /\ task'[t] = rec
  BY DEF TInv, TypeOK, RenewFirst
<1>3. /\ rec \in Task /\ rec.op = task[t].op /\ rec.phase = "refresh" /\ rec.reply = "none"
      /\ rec.sent = task[t].sent /\ rec.cookie = task[t].cookie /\ rec.user = task[t].user
      /\ rec.ok = task[t].ok /\ rec.result = task[t].result /\ rec.after = task[t].after
  BY <1>1 DEF Task, Phases, Replies
<1>4. task[t].phase = "request" /\ task[t].op # "logout" /\ UNCHANGED <<page, jar, pairs>>
  BY DEF RenewFirst, Intercepted, AuthEndpoints, server
<1> HIDE DEF rec
<1>5. CallMoves(t)
  BY <1>1, <1>2, <1>3, <1>4 DEF CallMoves, TInv, TypeOK
<1>6. PageMoves(t)
  BY <1>1, <1>2, <1>3, <1>4 DEF PageMoves, page, LocalOK
<1>7. CookiesMove(t)
  BY <1>1, <1>2, <1>3, <1>4 DEF CookiesMove, RenewFirst, JoinRefresh, Idle
<1>8. RestTyped
  BY <1>4 DEF RestTyped, page, server, fixed, TInv, TypeOK
<1>9. \A q \in task'[t].after : task'[q].phase = "done"
  BY <1>1, <1>2, <1>3, <1>5, <1>4 DEF LocalOK, CallMoves, Task
<1>10. LocalOK(t)'
  BY <1>1, <1>2, <1>3, <1>4, <1>9 DEF LocalOK
<1>11. QED
  BY <1>4, <1>5, <1>6, <1>7, <1>8, <1>10, SamePairs DEF Moves, TInv

\* The cookies of an answer go to the browser once.
LEMMA StoresMove ==
    ASSUME TInv, NEW t \in Tasks, UNCHANGED jar \/ Stores(task[t])
    PROVE  jar' = jar \/ jar' \in task[t].cookie
BY DEF Stores

\* A page that signed out gives up its request, or asks /me once more.
LEMMA GiveUpMoves ==
    ASSUME TInv, NEW t \in Tasks, task[t].phase \in {"request", "refresh", "ending"},
           task[t].op # "logout", SignsOut, GivesUp(t), UNCHANGED jar \/ Stores(task[t]), RestTyped,
           UNCHANGED <<refreshInProgress, pairs>>
    PROVE  Moves(t)
<1>1. task[t] \in Task /\ LocalOK(t) /\ task[t].user = NoUser /\ task[t].result = "none"
  BY DEF TInv, TypeOK, LocalsOK, LocalOK
<1>2. jar' = jar \/ jar' \in task[t].cookie
  BY StoresMove
<1>3. jar' \in Nat
  BY <1>1, <1>2 DEF TInv, TypeOK, Pairs, Task
<1> DEFINE rec == IF task[t].op = "init" THEN SendingWith(jar', task[t], "me")
                  ELSE Ended(task[t], "unauthorized")
<1>4. task' = [task EXCEPT ![t] = rec] /\ task'[t] = rec
  BY DEF TInv, TypeOK, GivesUp
<1>5. /\ rec \in Task /\ rec.op = task[t].op /\ rec.cookie = {} /\ rec.user = NoUser
      /\ rec.reply = "none" /\ rec.after = task[t].after /\ rec.sent \in {jar', NoPair}
      /\ rec.op = "init" => rec.phase = "me" /\ rec.result = "none"
      /\ rec.op # "init" => rec.phase = "done" /\ rec.result = "unauthorized"
  <2>1. CASE task[t].op = "init"
    <3>1. "me" \in Phases /\ rec = SendingWith(jar', task[t], "me")
      BY <2>1 DEF Phases
    <3> HIDE DEF rec
    <3>2. /\ rec \in Task /\ rec.op = task[t].op /\ rec.phase = "me" /\ rec.sent = jar'
          /\ rec.reply = "none" /\ rec.cookie = {} /\ rec.user = task[t].user
          /\ rec.result = task[t].result /\ rec.after = task[t].after
      BY <1>1, <1>3, <3>1, SendingWithFacts
    <3>3. QED
      BY <1>1, <2>1, <3>2
  <2>2. CASE task[t].op # "init"
    BY <1>1, <2>2, EndedFacts DEF Results
  <2>3. QED
    BY <2>1, <2>2
<1> HIDE DEF rec
<1>6. CallMoves(t)
  BY <1>1, <1>4, <1>5 DEF CallMoves, TInv, TypeOK
<1>7. PageMoves(t)
  BY <1>1, <1>4, <1>5 DEF PageMoves, ClearsPage
<1>8. CookiesMove(t)
  BY <1>1, <1>2, <1>4, <1>5 DEF CookiesMove
<1>9. \A q \in task'[t].after : task'[q].phase = "done"
  BY <1>1, <1>4, <1>5, <1>6 DEF LocalOK, CallMoves, Task
<1>10. LocalOK(t)'
  BY <1>1, <1>4, <1>5, <1>9 DEF LocalOK
<1>11. QED
  BY <1>6, <1>7, <1>8, <1>10, SamePairs DEF Moves, TInv

\* The answers of /logout and of a deletion sign the page out and clear the cookies.
LEMMA LogoutMoves ==
    ASSUME TInv, NEW t \in Tasks, LogoutReturns(t), UNCHANGED <<server, fixed>>,
           RefreshOK
    PROVE  Moves(t)
<1>1. task[t] \in Task /\ LocalOK(t) /\ task[t].user = NoUser /\ task[t].result = "none"
  BY DEF TInv, TypeOK, LocalsOK, LocalOK, LogoutReturns, Answered
<1>2. /\ jar' = jar \/ jar' \in task[t].cookie
      /\ task[t].reply = "ok" => jar' = NoPair
  BY <1>1 DEF LogoutReturns, Stores, LocalOK, Answered
<1> DEFINE rec == Mixes(Ended(task[t], task[t].reply))
<1>3. task' = [task EXCEPT ![t] = rec] /\ task'[t] = rec
  BY DEF TInv, TypeOK, LogoutReturns
<1>4. task[t].reply \in Results /\ task[t].reply \notin {"passed", "none", "unauthorized"}
  BY <1>1 DEF LogoutReturns, LocalOK, Answered, Results
<1>5. refreshInProgress.active \in BOOLEAN
  BY DEF TInv, TypeOK
<1>6. /\ rec \in Task /\ rec.op = "logout" /\ rec.cookie = {} /\ rec.user = NoUser
      /\ rec.reply = "none" /\ rec.after = task[t].after /\ rec.sent = NoPair
      /\ rec.phase = "done" /\ rec.result = task[t].reply /\ ~rec.ok
      /\ rec.mixed = refreshInProgress.active
  <2> DEFINE ended == Ended(task[t], task[t].reply)
  <2>1. /\ ended \in Task /\ ended.op = "logout" /\ ended.cookie = {} /\ ended.user = NoUser
        /\ ended.reply = "none" /\ ended.after = task[t].after /\ ended.sent = NoPair
        /\ ended.phase = "done" /\ ended.result = task[t].reply /\ ~ended.ok
    BY <1>1, <1>4, EndedFacts DEF LogoutReturns
  <2> HIDE DEF ended
  <2>2. rec = [ended EXCEPT !.mixed = refreshInProgress.active]
    BY DEF Mixes, ended
  <2>3. QED
    BY <1>5, <2>1, <2>2 DEF Task
<1> HIDE DEF rec
<1>7. UNCHANGED <<hooks, refreshInProgress, pairs, losses, fixed>> /\ SignsOut
  BY DEF LogoutReturns, server
<1>8. CallMoves(t)
  BY <1>1, <1>3, <1>6 DEF CallMoves, TInv, TypeOK, LogoutReturns, Answered
<1>9. PageMoves(t)
  BY <1>1, <1>3, <1>6, <1>7, <1>4 DEF PageMoves, ClearsPage
<1>10. CookiesMove(t)
  BY <1>1, <1>2, <1>3, <1>6, <1>7 DEF CookiesMove
<1>11. RestTyped
  BY <1>7 DEF RestTyped, SignsOut, TInv, TypeOK, LogoutReturns
<1>12. \A q \in task'[t].after : task'[q].phase = "done"
  BY <1>1, <1>3, <1>6, <1>8 DEF LocalOK, CallMoves, Task
<1>13. LocalOK(t)'
  BY <1>1, <1>3, <1>6, <1>12 DEF LocalOK
<1>14. QED
  BY <1>7, <1>8, <1>9, <1>10, <1>11, <1>13, SamePairs DEF Moves, TInv

LEMMA DeleteMoves ==
    ASSUME TInv, NEW t \in Tasks, DeleteReturns(t), UNCHANGED <<server, fixed>>
    PROVE  Moves(t)
<1>1. task[t] \in Task /\ LocalOK(t) /\ task[t].user = NoUser /\ task[t].result = "none"
  BY DEF TInv, TypeOK, LocalsOK, LocalOK, DeleteReturns, Answered
<1>2. jar' = jar \/ jar' \in task[t].cookie
  BY DEF DeleteReturns, Stores
<1>3. task'[t] = Ended(task[t], "ok") /\ task' = [task EXCEPT ![t] = Ended(task[t], "ok")]
  BY DEF TInv, TypeOK, DeleteReturns
<1>4. UNCHANGED <<hooks, refreshInProgress, pairs, losses, fixed>> /\ SignsOut
  BY DEF DeleteReturns, server
<1>5. task[t].op = "delete" /\ task[t].phase \in {"request", "retry"}
  BY DEF DeleteReturns, Answered
<1>6. "ok" \in Results
  BY DEF Results
<1>7. CallMoves(t)
  BY <1>1, <1>3, <1>5, <1>6, EndedFacts DEF CallMoves, TInv, TypeOK
<1>8. PageMoves(t)
  BY <1>1, <1>3, <1>4, <1>5, <1>6, EndedFacts DEF PageMoves, ClearsPage
<1>9. CookiesMove(t)
  BY <1>1, <1>2, <1>3, <1>4, <1>5, <1>6, EndedFacts DEF CookiesMove
<1>10. RestTyped
  BY <1>4 DEF RestTyped, SignsOut, TInv, TypeOK, DeleteReturns
<1>11. \A q \in task'[t].after : task'[q].phase = "done"
  BY <1>1, <1>3, <1>6, <1>7, EndedFacts DEF LocalOK, CallMoves, Task
<1>12. LocalOK(t)'
  BY <1>1, <1>3, <1>5, <1>6, <1>11, EndedFacts DEF LocalOK
<1>13. QED
  BY <1>4, <1>7, <1>8, <1>9, <1>10, <1>12, SamePairs DEF Moves, TInv

\* A successful sign-in is followed by a session check, with the cookies it brought.
LEMMA SignInMoves ==
    ASSUME TInv, NEW t \in Tasks, SignInReturns(t), UNCHANGED <<server, fixed>>
    PROVE  Moves(t)
<1>1. task[t] \in Task /\ LocalOK(t) /\ task[t].user = NoUser /\ task[t].result = "none"
  BY DEF TInv, TypeOK, LocalsOK, LocalOK, SignInReturns, Answered
<1>2. jar' = jar \/ jar' \in task[t].cookie
  BY DEF SignInReturns, Stores
<1>3. jar' \in Nat
  BY <1>1, <1>2 DEF TInv, TypeOK, Pairs, Task
<1> DEFINE told == IF task[t].reply = "challenge" THEN "challenge" ELSE "refused"
           rec == IF task[t].reply = "ok" THEN SendingWith(jar', task[t], "me")
                  ELSE Ended(task[t], told)
<1>4. task' = [task EXCEPT ![t] = rec] /\ task'[t] = rec
  BY DEF TInv, TypeOK, SignInReturns
<1>5. /\ rec \in Task /\ rec.op = task[t].op /\ rec.cookie = {} /\ rec.user = NoUser
      /\ rec.reply = "none" /\ rec.after = task[t].after /\ rec.sent \in {jar', NoPair}
      /\ \/ rec.phase = "me" /\ rec.result = "none"
         \/ rec.phase = "done" /\ rec.result \in {"challenge", "refused"}
  <2>1. CASE task[t].reply = "ok"
    <3>1. "me" \in Phases /\ rec = SendingWith(jar', task[t], "me")
      BY <2>1 DEF Phases
    <3> HIDE DEF rec
    <3>2. /\ rec \in Task /\ rec.op = task[t].op /\ rec.phase = "me" /\ rec.sent = jar'
          /\ rec.reply = "none" /\ rec.cookie = {} /\ rec.user = task[t].user
          /\ rec.result = task[t].result /\ rec.after = task[t].after
      BY <1>1, <1>3, <3>1, SendingWithFacts
    <3>3. QED
      BY <1>1, <2>1, <3>2
  <2>2. CASE task[t].reply # "ok"
    <3>1. told \in Results /\ told \in {"challenge", "refused"} /\ rec = Ended(task[t], told)
      BY <2>2 DEF Results
    <3> HIDE DEF told, rec
    <3>2. QED
      BY <1>1, <3>1, EndedFacts
  <2>3. QED
    BY <2>1, <2>2
<1> HIDE DEF rec
<1>6. /\ UNCHANGED <<page, refreshInProgress, pairs, losses, fixed>>
      /\ task[t].op \in {"login", "verify"} /\ task[t].phase \in {"request", "retry"}
  BY DEF SignInReturns, Answered, server
<1>7. CallMoves(t)
  BY <1>1, <1>4, <1>5, <1>6 DEF CallMoves, TInv, TypeOK
<1>8. PageMoves(t)
  BY <1>1, <1>4, <1>5, <1>6 DEF PageMoves, page
<1>9. CookiesMove(t)
  BY <1>1, <1>2, <1>4, <1>5, <1>6 DEF CookiesMove
<1>10. RestTyped
  BY <1>6 DEF RestTyped, page, TInv, TypeOK
<1>11. \A q \in task'[t].after : task'[q].phase = "done"
  BY <1>1, <1>4, <1>5, <1>7 DEF LocalOK, CallMoves, Task
<1>12. LocalOK(t)'
  BY <1>1, <1>4, <1>5, <1>6, <1>11 DEF LocalOK
<1>13. QED
  BY <1>6, <1>7, <1>8, <1>9, <1>10, <1>12, SamePairs DEF Moves, TInv

\* A session check ends: a guard goes on with its answer, any other call is over.
LEMMA CheckReturnsFacts ==
    ASSUME TInv, NEW t \in Tasks, NEW user \in Users \cup {NoUser}, isAuthenticated' \in BOOLEAN,
           task[t].phase \in {"me", "body"}, CheckReturns(t, user)
    PROVE  /\ task' \in [Tasks -> Task]
           /\ \A q \in Tasks \ {t} : task'[q] = task[q]
           /\ task'[t].op = task[t].op /\ task'[t].after = task[t].after
           /\ task'[t].user = user /\ task'[t].cookie \subseteq task[t].cookie
           /\ task'[t].reply \in {task[t].reply, "none"}
           /\ \/ /\ task'[t].phase = "guard" /\ task'[t].ok = isAuthenticated'
                 /\ task'[t].result = "none" /\ task'[t].sent = task[t].sent
              \/ /\ task'[t].phase = "done" /\ ~task'[t].ok /\ task'[t].cookie = {}
                 /\ task'[t].result \in {"ok", "refused"}
                 /\ task'[t].sent = IF user = NoUser THEN NoPair ELSE task[t].sent
<1> DEFINE checked == [task[t] EXCEPT !.user = user, !.ok = isAuthenticated']
           told == IF task[t].op \in {"login", "verify"} \/ isAuthenticated' THEN "ok" ELSE "refused"
           rec == IF task[t].op \in Guards THEN [checked EXCEPT !.phase = "guard"]
                  ELSE Ended(checked, told)
<1>1. task[t] \in Task /\ task[t].result = "none" /\ task \in [Tasks -> Task]
  BY DEF TInv, TypeOK, LocalsOK, LocalOK
<1>2. task' = [task EXCEPT ![t] = rec] /\ task'[t] = rec
  BY <1>1 DEF CheckReturns
<1>3. /\ checked \in Task /\ checked.op = task[t].op /\ checked.after = task[t].after
      /\ checked.user = user /\ checked.cookie = task[t].cookie /\ checked.reply = task[t].reply
      /\ checked.ok = isAuthenticated' /\ checked.sent = task[t].sent /\ checked.result = "none"
  BY <1>1 DEF Task
<1>4. told \in Results /\ told \in {"ok", "refused"}
  BY DEF Results
<1> HIDE DEF checked, told
<1>5. CASE task[t].op \in Guards
  <2>1. rec = [checked EXCEPT !.phase = "guard"]
    BY <1>5
  <2>2. /\ rec \in Task /\ rec.op = checked.op /\ rec.after = checked.after /\ rec.user = checked.user
        /\ rec.cookie = checked.cookie /\ rec.reply = checked.reply /\ rec.ok = checked.ok
        /\ rec.sent = checked.sent /\ rec.result = checked.result /\ rec.phase = "guard"
    BY <1>3, <2>1 DEF Task, Phases
  <2> HIDE DEF rec
  <2>3. QED
    BY <1>1, <1>2, <1>3, <2>2
<1>6. CASE task[t].op \notin Guards
  <2>1. rec = Ended(checked, told)
    BY <1>6
  <2> HIDE DEF rec
  <2>2. rec \in Task /\ rec.op = checked.op /\ rec.after = checked.after /\ rec.user = checked.user
        /\ rec.cookie = {} /\ rec.reply = "none" /\ ~rec.ok /\ rec.phase = "done"
        /\ rec.sent = (IF checked.user = NoUser THEN NoPair ELSE checked.sent) /\ rec.result = told
    BY <1>3, <1>4, <2>1, EndedFacts
  <2>3. QED
    BY <1>1, <1>2, <1>3, <1>4, <2>2
<1>7. QED
  BY <1>5, <1>6

\* A check that finds a session writes the user, one that finds none signs the page out.
LEMMA CheckMoves ==
    ASSUME TInv, NEW t \in Tasks, NEW user \in Users \cup {NoUser}, isAuthenticated' \in BOOLEAN,
           task[t].phase \in {"me", "body"}, CheckReturns(t, user),
           \/ user = NoUser /\ SignsOut
           \/ /\ user # NoUser /\ task[t].phase = "body"
              /\ UNCHANGED isAuthenticated /\ currentUser' = user,
           UNCHANGED <<location, hooks, refreshInProgress, jar, server, fixed>>
    PROVE  Moves(t)
<1>1. task[t] \in Task /\ LocalOK(t) /\ task[t].op # "logout"
  BY DEF TInv, TypeOK, LocalsOK, LocalOK
<1>2. CallMoves(t)
  BY <1>1, CheckReturnsFacts DEF CallMoves, TInv, TypeOK
<1>3. PageMoves(t)
  BY <1>1, CheckReturnsFacts DEF PageMoves, ClearsPage, SignsOut
<1>4. CookiesMove(t)
  BY <1>1, CheckReturnsFacts DEF CookiesMove
<1>5. RestTyped
  BY DEF RestTyped, server, SignsOut, TInv, TypeOK
<1>6. \A q \in task'[t].after : task'[q].phase = "done"
  BY <1>1, <1>2, CheckReturnsFacts DEF LocalOK, CallMoves, Task
<1>7. LocalOK(t)'
  <2>1. user # NoUser => task[t].sent # NoPair
    BY <1>1 DEF LocalOK
  <2>2. \A p \in task'[t].cookie : p # NoPair => pairs'[p].origin = t
    BY <1>1, CheckReturnsFacts DEF LocalOK, server
  <2>3. task'[t].phase = "guard" /\ task'[t].ok => user # NoUser
    BY CheckReturnsFacts DEF SignsOut
  <2>4. QED
    BY <1>1, <1>6, <2>1, <2>2, <2>3, CheckReturnsFacts DEF LocalOK
<1>8. QED
  BY <1>2, <1>3, <1>4, <1>5, <1>7, SamePairs DEF Moves, TInv, server

\* The answer of /me sets the flag; the user comes with its body.
LEMMA MeMoves ==
    ASSUME TInv, NEW t \in Tasks, MeAccepted(t), UNCHANGED <<server, fixed>>
    PROVE  Moves(t)
<1>1. task[t] \in Task /\ LocalOK(t)
  BY DEF TInv, TypeOK, LocalsOK
<1> DEFINE rec == [task[t] EXCEPT !.phase = "body"]
<1>2. task' = [task EXCEPT ![t] = rec] /\ task'[t] = rec
  BY DEF TInv, TypeOK, MeAccepted
<1>3. /\ rec \in Task /\ rec.op = task[t].op /\ rec.phase = "body" /\ rec.reply = task[t].reply
      /\ rec.sent = task[t].sent /\ rec.cookie = task[t].cookie /\ rec.user = task[t].user
      /\ rec.ok = task[t].ok /\ rec.result = task[t].result /\ rec.after = task[t].after
  BY <1>1 DEF Task, Phases
<1> HIDE DEF rec
<1>4. /\ task[t].phase = "me" /\ task[t].reply = "ok" /\ isAuthenticated' = TRUE
      /\ UNCHANGED <<currentUser, location, hooks, refreshInProgress, jar, pairs, losses, fixed>>
  BY DEF MeAccepted, server
<1>5. CallMoves(t)
  BY <1>1, <1>2, <1>3, <1>4 DEF CallMoves, TInv, TypeOK
<1>6. PageMoves(t)
  BY <1>1, <1>2, <1>3, <1>4 DEF PageMoves, LocalOK
<1>7. CookiesMove(t)
  BY <1>1, <1>2, <1>3, <1>4 DEF CookiesMove, LocalOK
<1>8. RestTyped
  BY <1>4 DEF RestTyped, TInv, TypeOK
<1>9. \A q \in task'[t].after : task'[q].phase = "done"
  BY <1>1, <1>2, <1>3, <1>5, <1>4 DEF LocalOK, CallMoves, Task
<1>10. LocalOK(t)'
  BY <1>1, <1>2, <1>3, <1>4, <1>9 DEF LocalOK
<1>11. QED
  BY <1>4, <1>5, <1>6, <1>7, <1>8, <1>10, SamePairs DEF Moves, TInv

\* A guard resumes with what its own check returned.
LEMMA GuardMoves ==
    ASSUME TInv, NEW t \in Tasks, GuardPage(t) \/ GuardRole(t), UNCHANGED <<server, fixed>>
    PROVE  Moves(t)
<1>1. task[t] \in Task /\ LocalOK(t) /\ task[t].phase = "guard" /\ task[t].op \in Guards
  BY DEF TInv, TypeOK, LocalsOK, GuardPage, GuardRole, Guards
<1>2. PICK r \in {"passed", "turned"} :
        /\ task' = [task EXCEPT ![t] = Ended(task[t], r)] /\ task'[t] = Ended(task[t], r)
        /\ r = "passed" => task[t].ok /\ (task[t].op = "guardRole" => currentUser \in Admins)
  <2>1. CASE GuardPage(t)
    BY <2>1 DEF GuardPage, TInv, TypeOK
  <2>2. CASE GuardRole(t)
    BY <2>2 DEF GuardRole, TInv, TypeOK
  <2>3. QED
    BY <2>1, <2>2
<1>3. r \in Results
  BY DEF Results
<1>4. UNCHANGED <<isAuthenticated, currentUser, hooks, refreshInProgress, jar, pairs, losses, fixed>>
  BY DEF GuardPage, GuardRole, server
<1>5. CallMoves(t)
  BY <1>1, <1>2, <1>3, EndedFacts DEF CallMoves, TInv, TypeOK
<1>6. PageMoves(t)
  BY <1>1, <1>2, <1>3, <1>4, EndedFacts DEF PageMoves, LocalOK
<1>7. CookiesMove(t)
  BY <1>1, <1>2, <1>3, <1>4, EndedFacts DEF CookiesMove, Guards
<1>8. RestTyped
  BY <1>4 DEF RestTyped, TInv, TypeOK, GuardPage, GuardRole
<1>9. \A q \in task'[t].after : task'[q].phase = "done"
  BY <1>1, <1>2, <1>3, <1>5, EndedFacts DEF LocalOK, CallMoves, Task
<1>10. LocalOK(t)'
  BY <1>1, <1>2, <1>3, <1>9, EndedFacts DEF LocalOK, Guards
<1>11. QED
  BY <1>4, <1>5, <1>6, <1>7, <1>8, <1>10, SamePairs DEF Moves, TInv

-----------------------------------------------------------------------------
(* Every step of a call moves so *)

LEMMA PageTyped == ASSUME TypeOK, UNCHANGED <<losses, fixed>>,
                          UNCHANGED isAuthenticated \/ isAuthenticated' = FALSE,
                          UNCHANGED currentUser \/ currentUser' = NoUser,
                          UNCHANGED hooks \/ ApplyHeadless, 
                          UNCHANGED location \/ location' = "leaving"
                   PROVE  RestTyped
BY DEF TypeOK, RestTyped, ApplyHeadless

LEMMA StepMoves ==
    ASSUME TInv, RefreshOK, NEW t \in Tasks, Step(t), UNCHANGED <<server, fixed>> PROVE Moves(t)
<1>1. task[t] \in Task /\ LocalOK(t) /\ UNCHANGED <<losses, pairs, fixed>>
  BY DEF TInv, TypeOK, LocalsOK, server
<1>2. CASE RefreshReturns(t)
  BY <1>1, <1>2, EndMoves DEF RefreshReturns, Results
<1>3. CASE RenewFirst(t)
  BY <1>3, RenewMoves
<1>4. CASE Retry(t)
  <2>1. task[t].op # "logout"
    BY <1>1, <1>4 DEF Retry, LocalOK
  <2>2. QED
    BY <1>1, <1>4, <2>1, SendMoves, PageTyped DEF Retry, page, TInv
<1>5. CASE ExpireWithHook(t)
  <2>1. task[t].op # "logout" /\ task[t].phase \in {"request", "refresh"}
    BY <1>1, <1>5 DEF ExpireWithHook, CannotRenew, Intercepted, AuthEndpoints, LocalOK
  <2>2. QED
    BY <1>1, <1>5, <2>1, GiveUpMoves, PageTyped DEF ExpireWithHook, SignsOut, TInv
<1>6. CASE EndSession(t)
  <2>1. task[t].op # "logout" /\ task[t].phase \in {"request", "refresh"}
    BY <1>1, <1>6 DEF EndSession, CannotRenew, Intercepted, AuthEndpoints, LocalOK
  <2>2. QED
    BY <1>1, <1>6, <2>1, SendMoves, PageTyped DEF EndSession, page, TInv
<1>7. CASE ExpireSession(t)
  <2>1. task[t].op # "logout"
    BY <1>1, <1>7 DEF ExpireSession, LocalOK
  <2>2. QED
    BY <1>1, <1>7, <2>1, GiveUpMoves, PageTyped DEF ExpireSession, SignsOut, TInv, LeavesUnlessLogin
<1>8. CASE RequestFails(t)
  BY <1>1, <1>8, EndMoves DEF RequestFails, Results, Answered
<1>9. CASE RequestReturns(t)
  BY <1>1, <1>9, EndMoves DEF RequestReturns, Results, Answered
<1>10. CASE ConfigReturns(t)
  BY <1>1, <1>10, SendMoves, PageTyped DEF ConfigReturns, Answered, TInv
<1>11. CASE SignInReturns(t)
  BY <1>11, SignInMoves
<1>12. CASE LogoutReturns(t)
  BY <1>12, LogoutMoves
<1>13. CASE DeleteReturns(t)
  BY <1>13, DeleteMoves
<1>14. CASE DeleteRefused(t)
  BY <1>1, <1>14, EndMoves DEF DeleteRefused, Results, Answered
<1>15. CASE MeRefused(t) \/ BodyLost(t)
  BY <1>1, <1>15, CheckMoves DEF MeRefused, BodyLost, SignsOut
<1>16. CASE MeAccepted(t)
  BY <1>16, MeMoves
<1>17. CASE BodyRead(t)
  <2>1. task[t].sent # NoPair /\ task[t].sent \in Pairs
    BY <1>1, <1>17 DEF BodyRead, LocalOK, TInv, TypeOK
  <2>2. pairs[task[t].sent].owner \in Users
    BY <2>1, PairTyped DEF TInv
  <2>3. isAuthenticated' \in BOOLEAN
    BY <1>17 DEF BodyRead, TInv, TypeOK
  <2>4. QED
    BY <1>1, <1>17, <2>2, <2>3, UserAssumption, CheckMoves DEF BodyRead
<1>18. CASE GuardPage(t) \/ GuardRole(t)
  BY <1>18, GuardMoves
<1>19. QED
  BY <1>2, <1>3, <1>4, <1>5, <1>6, <1>7, <1>8, <1>9, <1>10, <1>11, <1>12, <1>13, <1>14, <1>15,
     <1>16, <1>17, <1>18 DEF Step

-----------------------------------------------------------------------------
(* The answers of the server, and lost ones *)

LEMMA SessionEnds == ASSUME TypeOK, NEW t, NEW p \in Pairs, EndSessionOf(p) PROVE PairsMove(t)
<1>1. CASE p = NoPair
  BY <1>1, SamePairs DEF EndSessionOf
<1>2. CASE p # NoPair
  <2>1. pairs \in Seq(Pair) /\ p \in 1 .. Len(pairs) /\ pairs' = [pairs EXCEPT ![p].renewal = "ended"]
    BY <1>2 DEF EndSessionOf, TypeOK, Pairs, NoPair
  <2>2. [pairs[p] EXCEPT !.renewal = "ended"] \in Pair
    <3>1. pairs[p] \in Pair
      BY <2>1
    <3>2. QED
      BY <3>1 DEF Pair
  <2>3. pairs' \in Seq(Pair) /\ Len(pairs') = Len(pairs)
    BY <2>1, <2>2
  <2>4. \A i \in 1 .. Len(pairs) :
          /\ pairs'[i].owner = pairs[i].owner /\ pairs'[i].origin = pairs[i].origin
          /\ pairs'[i].renewal = "rotated" => pairs[i].renewal = "rotated"
    <3> TAKE i \in 1 .. Len(pairs)
    <3>1. CASE i = p
      <4>1. pairs'[p] = [pairs[p] EXCEPT !.renewal = "ended"]
        BY <2>1
      <4>2. pairs[p] \in Pair
        BY <2>1
      <4>3. QED
        BY <3>1, <4>1, <4>2 DEF Pair
    <3>2. CASE i # p
      BY <2>1, <3>2
    <3>3. QED
      BY <3>1, <3>2
  <2>5. QED
    BY <2>3, <2>4 DEF PairsMove, PairsStay
<1>3. QED
  BY <1>1, <1>2

LEMMA Issues == ASSUME TypeOK, NEW t \in Tasks, NEW u \in Users, pairs' = Issue(u, t)
                PROVE  PairsMove(t) /\ Len(pairs') = NewPair
<1> DEFINE pair == [owner |-> u, renewal |-> "live", origin |-> t]
<1>1. pair \in Pair
  BY DEF Pair
<1> HIDE DEF pair
<1>2. pairs \in Seq(Pair) /\ pairs' = Append(pairs, pair)
  BY DEF TypeOK, Issue, pair
<1>3. /\ pairs' \in Seq(Pair) /\ Len(pairs') = Len(pairs) + 1
      /\ \A i \in 1 .. Len(pairs) : pairs'[i] = pairs[i]
      /\ pairs'[Len(pairs) + 1] = pair
  BY <1>1, <1>2
<1>4. pair.renewal = "live" /\ pair.origin = t
  BY DEF pair
<1>5. Len(pairs) \in Nat
  BY <1>2
<1>6. QED
  BY <1>3, <1>4, <1>5 DEF PairsMove, PairsStay, NewPair

\* What the server may answer a call.
MayAnswer(t, reply, cookie) ==
    /\ reply \in Replies \ {"none"}
    /\ \A p \in cookie : p = NoPair \/ p \in Len(pairs) + 1 .. Len(pairs')
    /\ task[t].phase = "me" /\ reply = "ok" => task[t].sent # NoPair
    /\ task[t].op = "logout" => /\ reply \in {"ok", "refused", "failed"}
                                /\ reply = "ok" => cookie = {NoPair}

LEMMA AnswerMoves ==
    ASSUME TInv, NEW t \in Tasks, NEW reply, NEW cookie, MayAnswer(t, reply, cookie),
           task[t].phase \in {"request", "retry", "ending", "me", "body"},
           task[t].phase = "body" => reply = "failed",
           Reply(t, reply, cookie), PairsMove(t), losses' \in 0 .. MaxLosses,
           UNCHANGED <<page, refreshInProgress, jar, fixed>>
    PROVE  Moves(t)
<1>1. task[t] \in Task /\ LocalOK(t) /\ pairs \in Seq(Pair)
  BY DEF TInv, TypeOK, LocalsOK
<1> DEFINE rec == [task[t] EXCEPT !.reply = reply, !.cookie = cookie]
<1>2. task' = [task EXCEPT ![t] = rec] /\ task'[t] = rec
  BY DEF TInv, TypeOK, Reply
<1>3. reply \in Replies /\ cookie \in SUBSET Nat
  BY <1>1 DEF MayAnswer, NoPair
<1>4. /\ rec \in Task /\ rec.op = task[t].op /\ rec.phase = task[t].phase /\ rec.reply = reply
      /\ rec.sent = task[t].sent /\ rec.cookie = cookie /\ rec.user = task[t].user
      /\ rec.ok = task[t].ok /\ rec.result = task[t].result /\ rec.after = task[t].after
  BY <1>1, <1>3 DEF Task
<1> HIDE DEF rec
<1>5. CallMoves(t)
  BY <1>1, <1>2, <1>4 DEF CallMoves, TInv, TypeOK
<1>6. PageMoves(t)
  BY <1>1, <1>2, <1>4 DEF PageMoves, LocalOK, page
<1>7. CookiesMove(t)
  BY <1>1, <1>2, <1>4 DEF CookiesMove, LocalOK, MayAnswer
<1>8. RestTyped
  BY DEF RestTyped, TInv, TypeOK, page
<1>9. \A q \in task'[t].after : task'[q].phase = "done"
  BY <1>1, <1>2, <1>4, <1>5 DEF LocalOK, CallMoves, Task
<1>10. \A p \in task'[t].cookie : p # NoPair => pairs'[p].origin = t
  BY <1>2, <1>4 DEF MayAnswer, PairsMove
<1>11. LocalOK(t)'
  BY <1>1, <1>2, <1>4, <1>9, <1>10 DEF LocalOK, MayAnswer
<1>12. QED
  BY <1>5, <1>6, <1>7, <1>8, <1>11 DEF Moves

LEMMA LoseMoves == ASSUME TInv, NEW t \in Tasks, Lose(t) PROVE Moves(t)
<1>1. MayAnswer(t, "failed", {})
  BY DEF MayAnswer, Replies
<1>2. losses' \in 0 .. MaxLosses /\ PairsMove(t)
  BY LossAssumption, SamePairs DEF Lose, TInv, TypeOK
<1>3. QED
  BY <1>1, <1>2, AnswerMoves DEF Lose

LEMMA DeniesMoves == ASSUME TInv, NEW t \in Tasks, Denies(t), task[t].op # "logout"
                     PROVE  \E reply \in Replies : /\ MayAnswer(t, reply, {}) /\ Reply(t, reply, {})
                                                   /\ PairsMove(t)
<1>1. task[t].sent \in Pairs
  BY DEF TInv, TypeOK
<1>2. MayAnswer(t, "unauthorized", {}) /\ MayAnswer(t, "revoked", {})
  BY DEF MayAnswer, Replies
<1>3. QED
  BY <1>1, <1>2, SamePairs, SessionEnds DEF Denies, TInv, Replies

LEMMA SignsInMoves == ASSUME TInv, NEW t \in Tasks, SignsIn(t), task[t].op # "logout",
                             task[t].phase # "me"
                      PROVE  \E reply \in Replies : \E cookie : /\ MayAnswer(t, reply, cookie)
                                                            /\ Reply(t, reply, cookie) /\ PairsMove(t)
<1>1. PICK u \in workload.users : pairs' = Issue(u, t) /\ Reply(t, "ok", {NewPair})
  BY DEF SignsIn
<1>2. u \in Users
  BY WorkloadAssumption DEF TInv, TypeOK, Workload
<1>3. PairsMove(t) /\ Len(pairs') = NewPair
  BY <1>1, <1>2, Issues DEF TInv
<1>4. NewPair \in Len(pairs) + 1 .. Len(pairs')
  BY <1>3 DEF NewPair, TInv, TypeOK
<1>5. MayAnswer(t, "ok", {NewPair})
  BY <1>4 DEF MayAnswer, Replies
<1>6. QED
  BY <1>1, <1>3, <1>5 DEF Replies

LEMMA ServeMoves == ASSUME TInv, NEW t \in Tasks, Serve(t) PROVE Moves(t)
<1>1. task[t] \in Task /\ LocalOK(t) /\ task[t].sent \in Pairs
  BY DEF TInv, TypeOK, LocalsOK
<1>2. task[t].phase \in {"request", "retry", "ending", "me"}
  BY DEF Serve, Asks
<1>3. \E reply \in Replies : \E cookie :
        MayAnswer(t, reply, cookie) /\ Reply(t, reply, cookie) /\ PairsMove(t)
  <2>1. CASE Asks(t, {"init", "request"}) /\ ServeRequest(t)
    <3>1. task[t].op # "logout" /\ task[t].phase # "me"
      BY <2>1 DEF Asks
    <3>2. MayAnswer(t, "ok", {})
      BY <3>1 DEF MayAnswer, Replies
    <3>3. QED
      BY <2>1, <3>1, <3>2, DeniesMoves, SamePairs DEF ServeRequest, Replies, TInv
  <2>2. CASE Asks(t, {"verify"}) /\ ServeVerify(t)
    <3>1. task[t].op # "logout" /\ task[t].phase # "me"
      BY <2>2 DEF Asks
    <3>2. MayAnswer(t, "refused", {})
      BY <3>1 DEF MayAnswer, Replies
    <3>3. QED
      BY <2>2, <3>1, <3>2, DeniesMoves, SignsInMoves, SamePairs DEF ServeVerify, Replies, TInv
  <2>3. CASE Asks(t, {"login"}) /\ ServeLogin(t)
    <3>1. task[t].op # "logout" /\ task[t].phase # "me"
      BY <2>3 DEF Asks
    <3>2. \A reply \in {"challenge", "unauthorized"} : MayAnswer(t, reply, {}) /\ reply \in Replies
      BY <3>1 DEF MayAnswer, Replies
    <3>3. QED
      BY <2>3, <3>1, <3>2, SignsInMoves, SamePairs DEF ServeLogin, TInv
  <2>4. CASE (Asks(t, {"logout"}) \/ task[t].phase = "ending") /\ ServeLogout(t)
    <3>1. task[t].phase # "me"
      BY <2>4 DEF Asks
    <3>2. MayAnswer(t, "ok", {NoPair}) /\ MayAnswer(t, "refused", {})
      BY <3>1 DEF MayAnswer, Replies
    <3>3. QED
      BY <1>1, <2>4, <3>2, SessionEnds, SamePairs DEF ServeLogout, Replies, TInv
  <2>5. CASE Asks(t, {"delete"}) /\ ServeDelete(t)
    <3>1. task[t].op # "logout" /\ task[t].phase # "me"
      BY <2>5 DEF Asks
    <3>2. MayAnswer(t, "ok", {NoPair})
      BY <3>1 DEF MayAnswer, Replies
    <3>3. QED
      BY <1>1, <2>5, <3>1, <3>2, DeniesMoves, SessionEnds DEF ServeDelete, Replies, TInv
  <2>6. CASE task[t].phase = "me" /\ ServeMe(t)
    <3>1. task[t].op # "logout"
      BY <1>1, <2>6 DEF LocalOK
    <3>2. (Accepts(t) => MayAnswer(t, "ok", {})) /\ MayAnswer(t, "unauthorized", {})
      BY <3>1 DEF MayAnswer, Replies, Accepts
    <3>3. QED
      BY <2>6, <3>2, SamePairs DEF ServeMe, Replies, TInv
  <2>7. QED
    BY <2>1, <2>2, <2>3, <2>4, <2>5, <2>6 DEF Serve
<1>4. losses' \in 0 .. MaxLosses /\ UNCHANGED <<page, refreshInProgress, jar, fixed>>
  BY DEF Serve, TInv, TypeOK
<1>5. QED
  BY <1>2, <1>3, <1>4, AnswerMoves

-----------------------------------------------------------------------------
(* A call begins *)

LEMMA BeginMoves ==
    ASSUME TInv, NEW t \in Tasks, NEW rec \in Task, Begin(t, rec),
           rec.phase \in {"request", "me", "refresh"}, rec.op = "logout" => rec.phase = "request",
           rec.sent \in {jar, NoPair}, rec.reply = "none", rec.cookie = {}, rec.user = NoUser,
           rec.result = "none",
           \/ UNCHANGED refreshInProgress
           \/ /\ ~refreshInProgress.active
              /\ refreshInProgress' = [Idle EXCEPT !.sent = jar, !.active = TRUE],
           rec.phase = "refresh" => refreshInProgress'.active,
           UNCHANGED <<isAuthenticated, currentUser, location, jar, server, fixed>>,
           hooks' \in BOOLEAN
    PROVE  Moves(t)
<1> DEFINE begun == [rec EXCEPT !.after = Done]
<1>1. task[t] = NewTask /\ task[t].phase = "idle"
  BY DEF Begin, TInv, LocalsOK, LocalOK
<1>2. task' = [task EXCEPT ![t] = begun] /\ task'[t] = begun
  BY DEF Begin, TInv, TypeOK
<1>3. Done \subseteq Tasks /\ \A q \in Done : task[q].phase = "done"
  BY DEF Done
<1>4. /\ begun \in Task /\ begun.op = rec.op /\ begun.phase = rec.phase /\ begun.reply = "none"
      /\ begun.sent = rec.sent /\ begun.cookie = {} /\ begun.user = NoUser
      /\ begun.result = "none" /\ begun.after = Done
  BY <1>3 DEF Task
<1> HIDE DEF begun
<1>5. CallMoves(t)
  BY <1>1, <1>2, <1>4 DEF CallMoves, TInv, TypeOK
<1>6. PageMoves(t)
  BY <1>1, <1>2, <1>4 DEF PageMoves
<1>7. CookiesMove(t)
  BY <1>1, <1>2, <1>4 DEF CookiesMove
<1>8. RestTyped
  BY DEF RestTyped, TInv, TypeOK, server
<1>9. \A q \in task'[t].after : task'[q].phase = "done"
  BY <1>1, <1>2, <1>3, <1>4, <1>5 DEF CallMoves
<1>10. LocalOK(t)'
  BY <1>1, <1>2, <1>4, <1>9 DEF LocalOK
<1>11. QED
  BY <1>5, <1>6, <1>7, <1>8, <1>10, SamePairs DEF Moves, TInv, server

LEMMA NewTaskFacts ==
    ASSUME TypeOK, NEW op \in Operations, NEW phase \in Phases
    PROVE  LET new == [NewTask EXCEPT !.op = op] IN
           /\ Sending(new, phase) \in Task
           /\ Sending(new, phase).op = op /\ Sending(new, phase).phase = phase
           /\ Sending(new, phase).sent = jar /\ Sending(new, phase).reply = "none"
           /\ Sending(new, phase).cookie = {} /\ Sending(new, phase).user = NoUser
           /\ Sending(new, phase).result = "none"
<1> DEFINE new == [NewTask EXCEPT !.op = op]
<1>1. new \in Task /\ new.op = op /\ new.user = NoUser /\ new.result = "none"
  BY NewTaskTyped DEF NewTask
<1> HIDE DEF new
<1>2. Sending(new, phase) \in Task /\ Sending(new, phase).op = op /\ Sending(new, phase).phase = phase
      /\ Sending(new, phase).sent = jar /\ Sending(new, phase).reply = "none"
      /\ Sending(new, phase).cookie = {} /\ Sending(new, phase).user = NoUser
      /\ Sending(new, phase).result = "none"
  BY <1>1, SendingFacts
<1>3. QED
  BY <1>2 DEF new

LEMMA StartMoves ==
    ASSUME TInv, NEW t \in Tasks, Start(t), UNCHANGED <<server, fixed>> PROVE Moves(t)
<1>1. hooks \in BOOLEAN /\ headless \in BOOLEAN
  BY DEF TInv, TypeOK
<1>2. CASE StartRequest(t) \/ StartVerify(t) \/ StartLogin(t) \/ StartLogout(t) \/ StartDelete(t)
  <2>1. PICK op \in {"request", "verify", "login", "logout", "delete"} :
          Begin(t, Asking(op)) /\ UNCHANGED <<page, refreshInProgress, jar>>
    BY <1>2 DEF StartRequest, StartVerify, StartLogin, StartLogout, StartDelete
  <2>2. op \in Operations /\ "request" \in Phases
    BY DEF Operations, Phases
  <2> DEFINE rec == Asking(op)
  <2>3. /\ rec \in Task /\ rec.phase = "request" /\ rec.sent = jar /\ rec.reply = "none"
        /\ rec.cookie = {} /\ rec.user = NoUser /\ rec.result = "none"
    BY <2>2, NewTaskFacts DEF Asking, TInv
  <2> HIDE DEF rec
  <2>4. Begin(t, rec)
    BY <2>1 DEF rec
  <2>5. QED
    BY <1>1, <2>1, <2>3, <2>4, BeginMoves DEF page
<1>3. CASE StartInit(t) \/ StartCheck(t)
  <2>1. PICK op \in {"init", "check", "guardPage", "guardRole"}, phase \in {"request", "me"} :
          Begin(t, Sending([NewTask EXCEPT !.op = op], phase))
    BY <1>3 DEF StartInit, StartCheck, Asking
  <2>2. op \in Operations /\ phase \in Phases
    BY DEF Operations, Phases
  <2>3. /\ UNCHANGED <<isAuthenticated, currentUser, location, refreshInProgress, jar>>
        /\ hooks' \in BOOLEAN
    BY <1>1, <1>3 DEF StartInit, StartCheck, ApplyHeadless, page
  <2> DEFINE rec == Sending([NewTask EXCEPT !.op = op], phase)
  <2>4. /\ rec \in Task /\ rec.op = op /\ rec.phase = phase /\ rec.sent = jar /\ rec.reply = "none"
        /\ rec.cookie = {} /\ rec.user = NoUser /\ rec.result = "none"
    BY <2>2, NewTaskFacts DEF TInv
  <2> HIDE DEF rec
  <2>5. Begin(t, rec)
    BY <2>1 DEF rec
  <2>6. QED
    BY <2>3, <2>4, <2>5, BeginMoves
<1>4. CASE StartRefresh(t)
  <2> DEFINE rec == [NewTask EXCEPT !.op = "refresh", !.phase = "refresh"]
  <2>1. /\ rec \in Task /\ rec.op = "refresh" /\ rec.phase = "refresh" /\ rec.sent = NoPair
        /\ rec.reply = "none" /\ rec.cookie = {} /\ rec.user = NoUser /\ rec.result = "none"
    BY DEF NewTask, Task, Operations, Phases, Replies, Results, NoPair
  <2>2. Begin(t, rec)
    BY <1>4 DEF StartRefresh
  <2> HIDE DEF rec
  <2>3. \/ UNCHANGED refreshInProgress /\ refreshInProgress.active
        \/ /\ ~refreshInProgress.active
           /\ refreshInProgress' = [Idle EXCEPT !.sent = jar, !.active = TRUE]
    BY <1>4 DEF StartRefresh, JoinRefresh
  <2>4. refreshInProgress'.active
    BY <2>3 DEF Idle
  <2>5. QED
    BY <1>1, <1>4, <2>1, <2>2, <2>3, <2>4, BeginMoves DEF StartRefresh, page
<1>5. QED
  BY <1>2, <1>3, <1>4 DEF Start

-----------------------------------------------------------------------------
(* What such moves keep: the types and what each call knows *)

LEMMA PairsGrow == ASSUME TypeOK, PairsStay PROVE Pairs \subseteq Pairs'
BY DEF TypeOK, PairsStay, Pairs

LEMMA MovesTyped == ASSUME TInv, NEW t \in Tasks, Moves(t) PROVE TypeOK'
<1>1. Pairs \subseteq Pairs' /\ pairs' \in Seq(Pair) /\ NoPair \in Pairs
  BY PairsGrow DEF Moves, PairsMove, PairsStay, TInv, TypeOK, Pairs, NoPair
<1>2. /\ jar \in Pairs /\ task[t].sent \in Pairs
      /\ task[t].cookie \subseteq Pairs
  BY DEF TInv, TypeOK
<1>3. jar' \in Pairs'
  BY <1>1, <1>2 DEF Moves, CookiesMove
<1>4. \A p \in Len(pairs) + 1 .. Len(pairs') : p \in Pairs'
  BY <1>1 DEF Pairs, TInv, TypeOK
<1>5. task'[t].sent \in Pairs' /\ task'[t].cookie \subseteq Pairs'
  BY <1>1, <1>2, <1>3, <1>4 DEF Moves, CookiesMove, CallMoves
<1>6. \A q \in Tasks : task'[q].sent \in Pairs' /\ task'[q].cookie \subseteq Pairs'
  BY <1>1, <1>5 DEF Moves, CallMoves, TInv, TypeOK
<1>7. refreshInProgress' \in [sent : Pairs', reply : Replies, cookie : SUBSET Pairs', active : BOOLEAN]
  <2>1. CASE UNCHANGED refreshInProgress
    BY <1>1, <2>1 DEF TInv, TypeOK
  <2>2. CASE refreshInProgress' = [Idle EXCEPT !.sent = jar, !.active = TRUE]
    BY <1>1, <1>2, <2>2 DEF Idle, Replies
  <2>3. QED
    BY <2>1, <2>2 DEF Moves, CookiesMove
<1>8. QED
  BY <1>1, <1>3, <1>6, <1>7 DEF Moves, CallMoves, RestTyped, fixed, TInv, TypeOK

LEMMA MovesLocal == ASSUME TInv, NEW t \in Tasks, Moves(t) PROVE LocalsOK'
<1> SUFFICES ASSUME NEW q \in Tasks PROVE LocalOK(q)'
  BY DEF LocalsOK
<1>1. CASE q = t
  BY <1>1 DEF Moves
<1>2. CASE q # t
  <2>1. task'[q] = task[q] /\ LocalOK(q) /\ task[q] \in Task
    BY <1>2 DEF Moves, CallMoves, TInv, LocalsOK, TypeOK
  <2>2. \A p \in task[q].cookie : p # NoPair => pairs'[p].origin = pairs[p].origin
    <3> SUFFICES ASSUME NEW p \in task[q].cookie, p # NoPair PROVE pairs'[p].origin = pairs[p].origin
      OBVIOUS
    <3>1. p \in Pairs
      BY DEF TInv, TypeOK
    <3>2. p \in 1 .. Len(pairs)
      BY <3>1, PairTyped DEF TInv
    <3>3. QED
      BY <3>2 DEF Moves, PairsMove, PairsStay
  <2>3. \A c \in task[q].after : task'[c].phase = "done"
    BY <2>1 DEF LocalOK, Moves, CallMoves, Task
  <2>4. QED
    BY <2>1, <2>2, <2>3 DEF LocalOK
<1>3. QED
  BY <1>1, <1>2

LEMMA MovesTInv == ASSUME TInv, NEW t \in Tasks, Moves(t) PROVE TInv'
BY MovesTyped, MovesLocal DEF TInv

-----------------------------------------------------------------------------
(* The shared refresh keeps them *)

RefreshStep == ServeRefresh \/ RefreshSettles \/ LoseRefresh

\* A waiting call may come to know how the refresh ended: nothing else of it changes.
RefreshTells ==
    /\ task' \in [Tasks -> Task]
    /\ \A q \in Tasks :
         \/ task'[q] = task[q]
         \/ /\ task[q].phase = "refresh" /\ task'[q].phase = "refresh"
            /\ \A f \in {"op", "sent", "cookie", "user", "ok", "result", "after", "mixed"} :
                 task'[q][f] = task[q][f]

LEMMA RefreshStepTells == ASSUME TInv, RefreshStep PROVE RefreshTells /\ UNCHANGED <<page, fixed>>
<1>1. CASE ServeRefresh \/ LoseRefresh
  BY <1>1 DEF RefreshTells, ServeRefresh, LoseRefresh, TInv, TypeOK
<1>2. CASE RefreshSettles
  <2>1. task' = [q \in Tasks |-> IF task[q].phase = "refresh" /\ task[q].reply = "none"
                                   THEN [task[q] EXCEPT !.reply = refreshInProgress.reply]
                                   ELSE task[q]]
    BY <1>2 DEF RefreshSettles
  <2>2. task \in [Tasks -> Task] /\ refreshInProgress.reply \in Replies
    BY DEF TInv, TypeOK
  <2>3. ASSUME NEW q \in Tasks
        PROVE  /\ task'[q] \in Task
               /\ \/ task'[q] = task[q]
                  \/ /\ task[q].phase = "refresh" /\ task'[q].phase = "refresh"
                     /\ \A f \in {"op", "sent", "cookie", "user", "ok", "result", "after", "mixed"} :
                          task'[q][f] = task[q][f]
    <3>1. CASE task[q].phase = "refresh" /\ task[q].reply = "none"
      <4>1. task'[q] = [task[q] EXCEPT !.reply = refreshInProgress.reply] /\ task[q] \in Task
        BY <2>1, <2>2, <3>1
      <4>2. QED
        BY <2>2, <3>1, <4>1 DEF Task
    <3>2. CASE ~(task[q].phase = "refresh" /\ task[q].reply = "none")
      BY <2>1, <2>2, <3>2
    <3>3. QED
      BY <3>1, <3>2
  <2>4. QED
    BY <1>2, <2>1, <2>3 DEF RefreshTells, RefreshSettles
<1>3. QED
  BY <1>1, <1>2 DEF RefreshStep

\* What a refresh does with the pairs: a renewed one is followed by another of its session.
Rotates(p) == pairs' = Append([pairs EXCEPT ![p].renewal = "rotated"], pairs[p])
Forgets(p) == pairs' = [pairs EXCEPT ![p].renewal = "lost"]

LEMMA RotatesPair ==
    ASSUME TypeOK, NEW p \in Pairs, p # NoPair, Rotates(p)
    PROVE  /\ PairsStay /\ Len(pairs') = NewPair /\ NewPair \notin Pairs /\ pairs'[NewPair] = pairs[p]
           /\ \A i \in 1 .. Len(pairs) : i # p => pairs'[i] = pairs[i]
<1>1. p \in 1 .. Len(pairs) /\ pairs[p] \in Pair /\ pairs \in Seq(Pair)
  BY PairTyped DEF TypeOK
<1> DEFINE rotated == [pairs[p] EXCEPT !.renewal = "rotated"]
           kept == [pairs EXCEPT ![p] = rotated]
<1>2. rotated \in Pair /\ rotated.owner = pairs[p].owner /\ rotated.origin = pairs[p].origin
  BY <1>1 DEF Pair
<1>3. pairs' = Append(kept, pairs[p])
  BY DEF Rotates
<1> HIDE DEF rotated
<1>4. /\ kept \in Seq(Pair) /\ Len(kept) = Len(pairs) /\ kept[p] = rotated
      /\ \A i \in 1 .. Len(pairs) : i # p => kept[i] = pairs[i]
  BY <1>1, <1>2
<1> HIDE DEF kept
<1>5. /\ pairs' \in Seq(Pair) /\ Len(pairs') = Len(pairs) + 1 /\ pairs'[Len(pairs) + 1] = pairs[p]
      /\ \A i \in 1 .. Len(pairs) : pairs'[i] = kept[i]
  <2>1. \A s \in Seq(Pair), e \in Pair :
          /\ Append(s, e) \in Seq(Pair) /\ Len(Append(s, e)) = Len(s) + 1
          /\ Append(s, e)[Len(s) + 1] = e
          /\ \A i \in 1 .. Len(s) : Append(s, e)[i] = s[i]
    OBVIOUS
  <2>2. QED
    BY <1>1, <1>3, <1>4, <2>1
<1>6. Len(pairs) \in Nat
  BY <1>1
<1>7. NewPair \notin Pairs
  BY <1>6 DEF NewPair, Pairs
<1>8. QED
  BY <1>2, <1>4, <1>5, <1>6, <1>7 DEF PairsStay, NewPair

LEMMA ForgetsPair ==
    ASSUME TypeOK, NEW p \in Pairs, Forgets(p)
    PROVE  /\ PairsStay /\ Len(pairs') = Len(pairs)
           /\ \A i \in 1 .. Len(pairs) :
                pairs'[i].renewal = "rotated" => i # p /\ pairs[i].renewal = "rotated"
<1>1. pairs \in Seq(Pair) /\ Len(pairs) \in Nat
  BY DEF TypeOK
<1> DEFINE lost == [pairs[p] EXCEPT !.renewal = "lost"]
<1>2. CASE p = NoPair
  <2>1. p \notin 1 .. Len(pairs) /\ pairs' = [pairs EXCEPT ![p] = lost]
    BY <1>1, <1>2 DEF NoPair, Forgets
  <2>2. pairs' = pairs
    BY <1>1, <2>1
  <2>3. PairsStay /\ Len(pairs') = Len(pairs)
    BY <1>1, <2>2 DEF PairsStay
  <2>4. QED
    BY <2>1, <2>2, <2>3
<1>3. CASE p # NoPair
  <2>1. p \in 1 .. Len(pairs) /\ pairs[p] \in Pair
    BY <1>3, PairTyped
  <2>2. lost \in Pair /\ lost.renewal = "lost" /\ lost.owner = pairs[p].owner /\ lost.origin = pairs[p].origin
    BY <2>1 DEF Pair
  <2>3. pairs' = [pairs EXCEPT ![p] = lost]
    BY DEF Forgets
  <2> HIDE DEF lost
  <2>4. /\ pairs' \in Seq(Pair) /\ Len(pairs') = Len(pairs) /\ pairs'[p] = lost
        /\ \A i \in 1 .. Len(pairs) : i # p => pairs'[i] = pairs[i]
    BY <1>1, <2>1, <2>2, <2>3
  <2>5. QED
    BY <1>1, <2>1, <2>2, <2>4 DEF PairsStay
<1>4. QED
  BY <1>2, <1>3

LEMMA RefreshTyped == ASSUME TInv, RefreshStep
                      PROVE  TypeOK' /\ PairsStay /\ (jar' = jar \/ jar' \in refreshInProgress.cookie)
<1> DEFINE Flight(any) == [sent : any, reply : Replies, cookie : SUBSET any, active : BOOLEAN]
<1>1. /\ refreshInProgress \in Flight(Pairs) /\ jar \in Pairs /\ pairs \in Seq(Pair)
      /\ Len(pairs) \in Nat /\ NoPair \in Pairs
  BY DEF TInv, TypeOK, Pairs, NoPair
<1> DEFINE r == refreshInProgress
<1>2. /\ PairsStay /\ jar' \in Pairs' /\ (jar' = jar \/ jar' \in r.cookie)
      /\ refreshInProgress' \in Flight(Pairs') /\ losses' \in 0 .. MaxLosses
  <2>1. ASSUME PairsStay PROVE Pairs \subseteq Pairs'
    BY <2>1, PairsGrow DEF TInv
  <2>2. CASE ServeRefresh
    <3>1. UNCHANGED <<jar, losses>> /\ losses' \in 0 .. MaxLosses
      BY <2>2 DEF ServeRefresh, TInv, TypeOK
    <3>2. CASE /\ r.sent # NoPair /\ Rotates(r.sent)
               /\ refreshInProgress' = [r EXCEPT !.reply = "ok", !.cookie = {NewPair}]
      <4>1. PairsStay /\ Len(pairs') = NewPair
        BY <1>1, <3>2, RotatesPair DEF TInv
      <4>2. NewPair \in Pairs'
        BY <1>1, <4>1 DEF Pairs, NewPair
      <4>3. QED
        BY <1>1, <2>1, <3>1, <3>2, <4>1, <4>2 DEF Replies
    <3>3. CASE /\ EndSessionOf(r.sent)
               /\ \E refusal \in {"refused", "bare", "revoked"} :
                    refreshInProgress' = [r EXCEPT !.reply = refusal]
      <4>1. PairsStay
        <5>1. r.sent \in Pairs
          BY <1>1
        <5>2. QED
          BY <3>3, <5>1, SessionEnds DEF TInv, PairsMove
      <4>2. QED
        BY <1>1, <2>1, <3>1, <3>3, <4>1 DEF Replies
    <3>4. QED
      BY <2>2, <3>2, <3>3 DEF ServeRefresh, Rotates
  <2>3. CASE RefreshSettles
    <3>1. UNCHANGED <<pairs, losses>> /\ refreshInProgress' = Idle /\ (jar' = jar \/ jar' \in r.cookie)
      BY <2>3 DEF RefreshSettles, server, Stores
    <3>2. PairsStay
      BY <3>1, SamePairs DEF PairsMove, TInv
    <3>3. losses' \in 0 .. MaxLosses
      BY <3>1 DEF TInv, TypeOK
    <3>4. Idle \in Flight(Pairs')
      BY <1>1, <2>1, <3>2 DEF Idle, Replies
    <3>5. QED
      BY <1>1, <2>1, <3>1, <3>2, <3>3, <3>4
  <2>4. CASE LoseRefresh
    <3>1. UNCHANGED jar /\ refreshInProgress' = [r EXCEPT !.reply = "failed", !.cookie = {}]
      BY <2>4 DEF LoseRefresh
    <3>2. UNCHANGED pairs \/ Forgets(r.sent)
      BY <2>4 DEF LoseRefresh, Forgets
    <3>3. PairsStay
      BY <1>1, <3>2, ForgetsPair, SamePairs DEF PairsMove, TInv
    <3>4. losses' \in 0 .. MaxLosses
      BY <2>4, LossAssumption DEF LoseRefresh, TInv, TypeOK
    <3>5. QED
      BY <1>1, <2>1, <3>1, <3>3, <3>4 DEF Replies
  <2>5. QED
    BY <2>2, <2>3, <2>4 DEF RefreshStep
<1>3. RefreshTells /\ UNCHANGED <<page, fixed>> /\ Pairs \subseteq Pairs'
  BY <1>2, RefreshStepTells, PairsGrow DEF TInv
<1>4. \A q \in Tasks : task'[q].sent \in Pairs' /\ task'[q].cookie \subseteq Pairs'
  BY <1>3 DEF RefreshTells, TInv, TypeOK
<1>5. pairs' \in Seq(Pair) /\ task' \in [Tasks -> Task]
  BY <1>2, <1>3 DEF PairsStay, RefreshTells
<1>6. /\ isAuthenticated' \in BOOLEAN /\ currentUser' \in Users \cup {NoUser}
      /\ {headless', hooks'} \subseteq BOOLEAN /\ location' \in {"page", "login", "leaving"}
      /\ workload' \in Workloads
  BY <1>3 DEF page, fixed, TInv, TypeOK
<1>7. QED
  BY <1>2, <1>4, <1>5, <1>6 DEF TypeOK

LEMMA RefreshTInv == ASSUME TInv, RefreshStep PROVE TInv'
<1>1. TypeOK' /\ PairsStay /\ RefreshTells
  BY RefreshTyped, RefreshStepTells
<1>2. ASSUME NEW q \in Tasks PROVE LocalOK(q)'
  <2>1. LocalOK(q) /\ task[q] \in Task
    BY DEF TInv, LocalsOK, TypeOK
  <2>2. \/ task'[q] = task[q]
        \/ /\ task[q].phase = "refresh" /\ task'[q].phase = "refresh" /\ task'[q].op = task[q].op
           /\ task'[q].sent = task[q].sent /\ task'[q].cookie = task[q].cookie
           /\ task'[q].user = task[q].user /\ task'[q].ok = task[q].ok
           /\ task'[q].result = task[q].result /\ task'[q].after = task[q].after
    BY <1>1 DEF RefreshTells
  <2>3. \A p \in task[q].cookie : p # NoPair => pairs'[p].origin = pairs[p].origin
    <3> SUFFICES ASSUME NEW p \in task[q].cookie, p # NoPair PROVE pairs'[p].origin = pairs[p].origin
      OBVIOUS
    <3>1. p \in 1 .. Len(pairs)
      BY PairTyped DEF TInv, TypeOK
    <3>2. QED
      BY <1>1, <3>1 DEF PairsStay
  <2>4. \A c \in task[q].after : task'[c].phase = "done"
    BY <1>1, <2>1 DEF LocalOK, RefreshTells, Task
  <2>5. CASE task'[q] = task[q]
    BY <2>1, <2>3, <2>4, <2>5 DEF LocalOK
  <2>6. CASE task'[q] # task[q]
    BY <2>1, <2>2, <2>3, <2>4, <2>6 DEF LocalOK
  <2>7. QED
    BY <2>5, <2>6
<1>3. QED
  BY <1>1, <1>2 DEF TInv, LocalsOK

-----------------------------------------------------------------------------
(* The page never presents a pair that it has itself renewed *)

LEMMA MovesRenewals == ASSUME TInv, RInv, NEW t \in Tasks, Moves(t) PROVE RInv'
<1>1. /\ jar \in Pairs /\ refreshInProgress.sent \in Pairs /\ refreshInProgress.cookie \subseteq Pairs
      /\ \A q \in Tasks : task[q].cookie \subseteq Pairs
      /\ refreshInProgress.active \in BOOLEAN
  BY DEF TInv, TypeOK
<1>2. \A p \in Pairs : p # NoPair => (pairs'[p].renewal = "rotated" => pairs[p].renewal = "rotated")
  BY PairTyped DEF Moves, PairsMove, TInv
<1>3. \A p \in Len(pairs) + 1 .. Len(pairs') :
        pairs'[p].renewal = "live" /\ p \notin Pairs
  BY DEF Moves, PairsMove, TInv, TypeOK, Pairs
<1>4. \A q \in Tasks \ {t} : task'[q] = task[q]
  BY DEF Moves, CallMoves
<1>5. \A p \in task'[t].cookie :
        p \in task[t].cookie \/ p = NoPair \/ p \in Len(pairs) + 1 .. Len(pairs')
  BY DEF Moves, CookiesMove
<1>6. jar' = jar \/ (jar' \in task[t].cookie /\ task'[t].cookie = {})
  BY DEF Moves, CookiesMove
<1>7. \/ UNCHANGED refreshInProgress
      \/ /\ ~refreshInProgress.active /\ jar' = jar
         /\ refreshInProgress' = [Idle EXCEPT !.sent = jar, !.active = TRUE]
  BY DEF Moves, CookiesMove
<1>8. refreshInProgress'.active /\ ~refreshInProgress.active =>
        /\ refreshInProgress'.sent = jar /\ refreshInProgress'.cookie = {} /\ jar' = jar
        /\ refreshInProgress'.reply = "none"
  BY <1>7 DEF Idle
<1>9. ~refreshInProgress.active => jar = NoPair \/ pairs[jar].renewal # "rotated"
  BY DEF RInv, JarOK
<1>10. RefreshOK'
  BY <1>7 DEF RInv, RefreshOK, Idle
<1>11. PresentsCurrentPair'
  <2>1. CASE UNCHANGED refreshInProgress
    BY <1>1, <1>2, <2>1 DEF RInv, PresentsCurrentPair
  <2>2. CASE ~UNCHANGED refreshInProgress
    BY <1>1, <1>2, <1>7, <1>9, <2>2 DEF PresentsCurrentPair, Idle
  <2>3. QED
    BY <2>1, <2>2
<1>12. \A q \in Tasks : \A p \in InFlight(q)' :
        \/ p \in InFlight(q)
        \/ q = t /\ p \in Len(pairs) + 1 .. Len(pairs') /\ p \notin Pairs
  BY <1>3, <1>4, <1>5 DEF InFlight
<1>13. \A q \in Tasks : \A p \in task'[q].cookie :
        p \in task[q].cookie \/ p = NoPair \/ (q = t /\ p \notin Pairs)
  BY <1>3, <1>4, <1>5
<1>14. /\ refreshInProgress'.cookie \subseteq refreshInProgress.cookie
       /\ refreshInProgress'.sent \in {refreshInProgress.sent, jar}
  BY <1>7 DEF Idle
<1>15. FlightsOK'
  <2>1. ASSUME NEW q \in Tasks, NEW p \in InFlight(q)'
        PROVE  /\ p # jar' /\ p # refreshInProgress'.sent /\ p \notin refreshInProgress'.cookie
               /\ pairs'[p].renewal # "rotated"
               /\ \A c \in Tasks \ {q} : p \notin task'[c].cookie
    <3>1. p # NoPair /\ p \in task'[q].cookie
      BY DEF InFlight
    <3>2. CASE p \in InFlight(q)
      <4>1. /\ p # jar /\ p # refreshInProgress.sent /\ p \notin refreshInProgress.cookie
            /\ pairs[p].renewal # "rotated" /\ p \in Pairs
            /\ \A c \in Tasks \ {q} : p \notin task[c].cookie
        BY <1>1, <3>2 DEF RInv, FlightsOK, InFlight
      <4>2. p # jar'
        BY <1>6, <3>1, <4>1
      <4>3. \A c \in Tasks \ {q} : p \notin task'[c].cookie
        BY <1>13, <3>1, <4>1
      <4>4. QED
        BY <1>2, <1>14, <3>1, <4>1, <4>2, <4>3
    <3>3. CASE q = t /\ p \in Len(pairs) + 1 .. Len(pairs') /\ p \notin Pairs
      <4>1. jar' \in Pairs
        BY <1>1, <1>6
      <4>2. \A c \in Tasks \ {q} : p \notin task'[c].cookie
        BY <1>1, <1>4, <3>3
      <4>3. QED
        BY <1>1, <1>3, <1>14, <3>3, <4>1, <4>2
    <3>4. QED
      BY <1>12, <3>2, <3>3
  <2>2. \A p \in refreshInProgress'.cookie : p # NoPair => pairs'[p].renewal # "rotated"
    BY <1>1, <1>2, <1>14 DEF RInv, FlightsOK
  <2>3. QED
    BY <2>1, <2>2 DEF FlightsOK
<1>16. JarOK'
  <2> SUFFICES ASSUME jar' # NoPair, pairs'[jar'].renewal = "rotated"
               PROVE  /\ refreshInProgress'.active /\ refreshInProgress'.reply = "ok"
                      /\ refreshInProgress'.sent = jar' /\ refreshInProgress'.cookie # {}
    BY DEF JarOK
  <2>1. jar' \in Pairs /\ pairs[jar'].renewal = "rotated"
    BY <1>1, <1>2, <1>6
  <2>2. jar' = jar
    BY <1>6, <2>1 DEF RInv, FlightsOK, InFlight
  <2>3. QED
    BY <1>7, <2>1, <2>2 DEF RInv, JarOK
<1>17. QED
  BY <1>10, <1>11, <1>15, <1>16 DEF RInv

LEMMA RefreshRenewals == ASSUME TInv, RInv, RefreshStep PROVE RInv'
<1> DEFINE r == refreshInProgress
<1>1. /\ jar \in Pairs /\ r.sent \in Pairs /\ r.cookie \subseteq Pairs /\ r.active \in BOOLEAN
      /\ \A q \in Tasks : task[q].cookie \subseteq Pairs
      /\ r \in [sent : Pairs, reply : Replies, cookie : SUBSET Pairs, active : BOOLEAN]
  BY DEF TInv, TypeOK
<1>2. \A q \in Tasks : task'[q].cookie = task[q].cookie
  BY RefreshStepTells DEF RefreshTells
<1>3. \A q \in Tasks : \A p \in InFlight(q) :
        /\ p \in Pairs /\ p # NoPair /\ p # jar /\ p # r.sent /\ p \notin r.cookie
        /\ pairs[p].renewal # "rotated"
        /\ \A c \in Tasks \ {q} : p \notin task[c].cookie
  BY <1>1 DEF RInv, FlightsOK, InFlight
<1>4. \A q \in Tasks : InFlight(q)' = InFlight(q)
  BY <1>2 DEF InFlight
<1>5. CASE ServeRefresh
  <2>1. UNCHANGED jar /\ r.active /\ r.reply = "none"
    BY <1>5 DEF ServeRefresh
  <2>2. jar # NoPair => pairs[jar].renewal # "rotated"
    BY <2>1 DEF RInv, JarOK
  <2>3. CASE /\ r.sent # NoPair /\ pairs[r.sent].renewal = "live" /\ Rotates(r.sent)
             /\ refreshInProgress' = [r EXCEPT !.reply = "ok", !.cookie = {NewPair}]
    <3>1. /\ NewPair \notin Pairs /\ pairs'[NewPair] = pairs[r.sent]
          /\ \A i \in 1 .. Len(pairs) : i # r.sent => pairs'[i] = pairs[i]
      BY <1>1, <2>3, RotatesPair DEF TInv
    <3>2. \A p \in Pairs : p # NoPair /\ p # r.sent => pairs'[p] = pairs[p]
      BY <3>1, PairTyped DEF TInv
    <3>3. /\ r'.active /\ r'.reply = "ok" /\ r'.sent = r.sent /\ r'.cookie = {NewPair}
      BY <1>1, <2>1, <2>3
    <3>4. RefreshOK' /\ PresentsCurrentPair'
      BY <3>3 DEF RefreshOK, PresentsCurrentPair
    <3>5. FlightsOK'
      BY <1>1, <1>2, <1>3, <1>4, <2>1, <2>3, <3>1, <3>2, <3>3 DEF FlightsOK
    <3>6. JarOK'
      BY <1>1, <2>1, <2>2, <3>2, <3>3 DEF JarOK
    <3>7. QED
      BY <3>4, <3>5, <3>6 DEF RInv
  <2>4. CASE /\ EndSessionOf(r.sent)
             /\ \E refusal \in {"refused", "bare", "revoked"} :
                  refreshInProgress' = [r EXCEPT !.reply = refusal]
    <3>1. \A p \in 1 .. Len(pairs) : pairs'[p].renewal = "rotated" => pairs[p].renewal = "rotated"
      <4>1. r.sent \in Pairs
        BY <1>1
      <4>2. QED
        BY <2>4, <4>1, SessionEnds DEF TInv, PairsMove
    <3>2. \A p \in Pairs : p # NoPair => (pairs'[p].renewal = "rotated" => pairs[p].renewal = "rotated")
      BY <3>1, PairTyped DEF TInv
    <3>3. r'.active /\ r'.reply # "none" /\ r'.sent = r.sent /\ r'.cookie = r.cookie
      BY <1>1, <2>1, <2>4
    <3>4. RefreshOK' /\ PresentsCurrentPair'
      BY <3>3 DEF RefreshOK, PresentsCurrentPair
    <3>5. FlightsOK'
      BY <1>1, <1>2, <1>3, <1>4, <2>1, <3>2, <3>3 DEF FlightsOK, RInv
    <3>6. JarOK'
      BY <1>1, <2>1, <2>2, <3>2 DEF JarOK
    <3>7. QED
      BY <3>4, <3>5, <3>6 DEF RInv
  <2>5. QED
    BY <1>5, <2>3, <2>4 DEF ServeRefresh, Rotates
<1>6. CASE RefreshSettles
  <2>1. /\ UNCHANGED pairs /\ refreshInProgress' = Idle
        /\ IF r.cookie = {} THEN jar' = jar ELSE jar' \in r.cookie
    BY <1>6 DEF RefreshSettles, server, Stores
  <2>2. ~Idle.active /\ Idle.cookie = {} /\ Idle.sent = NoPair
    BY DEF Idle
  <2>3. RefreshOK' /\ PresentsCurrentPair'
    BY <2>1, <2>2 DEF RefreshOK, PresentsCurrentPair
  <2>4. FlightsOK'
    BY <1>1, <1>2, <1>3, <1>4, <2>1, <2>2 DEF FlightsOK
  <2>5. jar' # NoPair => pairs'[jar'].renewal # "rotated"
    BY <1>1, <2>1 DEF RInv, JarOK, FlightsOK
  <2>6. QED
    BY <2>3, <2>4, <2>5 DEF RInv, JarOK
<1>7. CASE LoseRefresh
  <2>1. UNCHANGED jar /\ refreshInProgress' = [r EXCEPT !.reply = "failed", !.cookie = {}] /\ r.active
    BY <1>7 DEF LoseRefresh
  <2>2. IF r.reply = "ok" THEN Forgets(r.sent) ELSE UNCHANGED pairs
    BY <1>7 DEF LoseRefresh, Forgets
  <2>3. \A p \in 1 .. Len(pairs) :
          pairs'[p].renewal = "rotated" =>
            pairs[p].renewal = "rotated" /\ (r.reply = "ok" => p # r.sent)
    BY <1>1, <2>2, ForgetsPair DEF TInv
  <2>4. \A p \in Pairs : p # NoPair /\ pairs'[p].renewal = "rotated" =>
          pairs[p].renewal = "rotated" /\ (r.reply = "ok" => p # r.sent)
    BY <2>3, PairTyped DEF TInv
  <2>5. r'.active /\ r'.reply = "failed" /\ r'.sent = r.sent /\ r'.cookie = {}
    BY <1>1, <2>1
  <2>6. RefreshOK' /\ PresentsCurrentPair'
    BY <2>5 DEF RefreshOK, PresentsCurrentPair
  <2>7. FlightsOK'
    BY <1>1, <1>2, <1>3, <1>4, <2>1, <2>4, <2>5 DEF FlightsOK
  <2>8. jar' # NoPair => pairs'[jar'].renewal # "rotated"
    BY <1>1, <2>1, <2>4 DEF RInv, JarOK
  <2>9. QED
    BY <2>6, <2>7, <2>8 DEF RInv, JarOK
<1>8. QED
  BY <1>5, <1>6, <1>7 DEF RefreshStep

-----------------------------------------------------------------------------
(* What the page believes *)

\* The flag and the user differ only while a body is read, or because something signed the page
\* out while one was.  The user a guard finds when it resumes is its own or an overlapping call's.
BInv ==
    /\ FlagAndUserAgree
    /\ \A c \in Tasks : task[c].phase = "body" /\ ~isAuthenticated =>
         \E q \in Tasks : Overlap(c, q) /\ ClearsPage(q)
    /\ \A t \in Tasks : task[t].phase = "guard" /\ task[t].ok /\ currentUser # NoUser =>
         \/ currentUser = task[t].user
         \/ \E c \in Tasks : Overlap(c, t) /\ task[c].user = currentUser
    /\ GuardsAskTheServer

Started(t) == task[t].phase # "idle"

LEMMA BegunStay == ASSUME TInv, NEW t \in Tasks, Moves(t), NEW c \in Tasks, Started(c)
                   PROVE  /\ task'[c].after = task[c].after /\ task'[c].op = task[c].op
                          /\ task[c].user # NoUser => task'[c].user = task[c].user
                          /\ task'[c].phase # "idle"
<1>1. CASE c = t
  BY <1>1 DEF Started, Moves, CallMoves, TInv, LocalsOK, LocalOK
<1>2. CASE c # t
  BY <1>2 DEF Started, Moves, CallMoves
<1>3. QED
  BY <1>1, <1>2

LEMMA UsersStarted == ASSUME TInv, NEW c \in Tasks, task[c].user # NoUser \/ ClearsPage(c)
                      PROVE  Started(c)
BY DEF TInv, LocalsOK, LocalOK, Started, ClearsPage, NewTask

LEMMA OverlapStays == ASSUME TInv, NEW t \in Tasks, Moves(t), NEW c \in Tasks, NEW q \in Tasks,
                             Started(c), Started(q), Overlap(c, q)
                      PROVE  Overlap(c, q)'
BY BegunStay DEF Overlap

LEMMA ClearsStays == ASSUME TInv, NEW t \in Tasks, Moves(t), NEW q \in Tasks, ClearsPage(q)
                     PROVE  ClearsPage(q)'
<1>1. CASE q = t
  <2>1. Started(q) /\ LocalOK(q) /\ task[q].phase # "done"
    BY <1>1, UsersStarted DEF TInv, LocalsOK, Moves, CallMoves
  <2>2. task[q].op = "init" \/ (task[q].phase = "guard" /\ task[q].user = NoUser)
    BY <2>1 DEF ClearsPage, LocalOK
  <2>3. QED
    BY <1>1, <2>1, <2>2, BegunStay DEF ClearsPage, Moves, CallMoves
<1>2. CASE q # t
  BY <1>2 DEF ClearsPage, Moves, CallMoves
<1>3. QED
  BY <1>1, <1>2

\* Two calls that are both under way overlap.
LEMMA Overlaps == ASSUME TInv, NEW t \in Tasks, Moves(t), NEW c \in Tasks, c # t, Started(c),
                         task[c].phase # "done"
                  PROVE  Overlap(c, t)' /\ Overlap(t, c)'
<1>1. task[t].phase # "done" /\ t \notin task[c].after /\ task'[c].after = task[c].after
  BY DEF Moves, CallMoves, TInv, LocalsOK, LocalOK
<1>2. c \notin task'[t].after
  BY DEF Moves, CallMoves, TInv, LocalsOK, LocalOK, Done
<1>3. QED
  BY <1>1, <1>2 DEF Overlap

LEMMA MovesBelief == ASSUME TInv, BInv, NEW t \in Tasks, Moves(t) PROVE BInv'
<1>1. /\ \A q \in Tasks \ {t} : task'[q] = task[q]
      /\ task[t].phase # "done" /\ LocalOK(t) /\ LocalOK(t)'
  BY DEF Moves, CallMoves, TInv, LocalsOK
<1>2. \/ /\ UNCHANGED <<isAuthenticated, currentUser>>
         /\ task[t].phase = "body" <=> task'[t].phase = "body"
      \/ SignsOut /\ ClearsPage(t)' /\ task'[t].phase # "body"
      \/ isAuthenticated' = TRUE /\ UNCHANGED currentUser /\ task'[t].phase = "body"
      \/ /\ task[t].phase = "body" /\ task'[t].phase \in {"guard", "done"}
         /\ UNCHANGED isAuthenticated /\ currentUser' = task'[t].user /\ currentUser' # NoUser
  BY DEF Moves, PageMoves
<1>3. isAuthenticated' /\ currentUser' = NoUser => \E c \in Tasks : task'[c].phase = "body"
  BY <1>1, <1>2 DEF BInv, FlagAndUserAgree, SignsOut
<1>4. ASSUME NEW c \in Tasks, NEW q \in Tasks, Overlap(c, q), ClearsPage(q), Started(c)
      PROVE  Overlap(c, q)' /\ ClearsPage(q)'
  BY <1>4, UsersStarted, OverlapStays, ClearsStays
<1>5. ~isAuthenticated' /\ currentUser' # NoUser =>
        \E c, q \in Tasks : Overlap(c, q)' /\ task'[c].user = currentUser' /\ ClearsPage(q)'
  <2> SUFFICES ASSUME ~isAuthenticated', currentUser' # NoUser
               PROVE  \E c, q \in Tasks : Overlap(c, q)' /\ task'[c].user = currentUser' /\ ClearsPage(q)'
    OBVIOUS
  <2>1. CASE UNCHANGED <<isAuthenticated, currentUser>>
    <3>1. PICK c \in Tasks, q \in Tasks : Overlap(c, q) /\ task[c].user = currentUser /\ ClearsPage(q)
      BY <2>1 DEF BInv, FlagAndUserAgree
    <3>2. Started(c)
      BY <2>1, <3>1, UsersStarted
    <3>3. task'[c].user = task[c].user
      BY <2>1, <3>1, <3>2, BegunStay
    <3>4. QED
      BY <1>4, <2>1, <3>1, <3>2, <3>3
  <2>2. CASE task[t].phase = "body" /\ UNCHANGED isAuthenticated /\ currentUser' = task'[t].user
    <3>1. PICK q \in Tasks : Overlap(t, q) /\ ClearsPage(q)
      BY <2>2 DEF BInv
    <3>2. QED
      BY <1>4, <2>2, <3>1 DEF Started
  <2>3. QED
    BY <1>2, <2>1, <2>2 DEF SignsOut
<1>6. ASSUME NEW c \in Tasks, task'[c].phase = "body", ~isAuthenticated'
      PROVE  \E q \in Tasks : Overlap(c, q)' /\ ClearsPage(q)'
  <2>1. CASE task[c].phase = "body" /\ UNCHANGED isAuthenticated
    <3>1. PICK q \in Tasks : Overlap(c, q) /\ ClearsPage(q)
      BY <1>6, <2>1 DEF BInv
    <3>2. QED
      BY <1>4, <2>1, <3>1 DEF Started
  <2>2. CASE SignsOut /\ ClearsPage(t)' /\ task'[t].phase # "body"
    <3>1. c # t /\ task[c].phase = "body"
      BY <1>1, <1>6, <2>2
    <3>2. QED
      BY <2>2, <3>1, Overlaps DEF Started
  <2>3. QED
    BY <1>1, <1>2, <1>6, <2>1, <2>2
<1>7. ASSUME NEW g \in Tasks, task'[g].phase = "guard", task'[g].ok, currentUser' # NoUser
      PROVE  \/ currentUser' = task'[g].user
             \/ \E c \in Tasks : Overlap(c, g)' /\ task'[c].user = currentUser'
  <2>1. CASE g = t
    BY <1>7, <2>1 DEF Moves, PageMoves
  <2>2. CASE g # t /\ currentUser' = currentUser
    <3>1. task'[g] = task[g] /\ Started(g)
      BY <1>1, <1>7, <2>2 DEF Started
    <3>2. ASSUME NEW c \in Tasks, Overlap(c, g), task[c].user = currentUser
          PROVE  Overlap(c, g)' /\ task'[c].user = currentUser'
      BY <1>7, <2>2, <3>1, <3>2, UsersStarted, OverlapStays, BegunStay
    <3>3. QED
      BY <1>7, <2>2, <3>1, <3>2 DEF BInv
  <2>3. CASE g # t /\ currentUser' = task'[t].user
    <3>1. task[g].phase = "guard"
      BY <1>1, <1>7, <2>3
    <3>2. QED
      BY <2>3, <3>1, Overlaps DEF Started
  <2>4. QED
    BY <1>2, <1>7, <2>1, <2>2, <2>3 DEF SignsOut
<1>8. GuardsAskTheServer'
  <2> SUFFICES ASSUME NEW g \in Tasks, task'[g].result = "passed"
               PROVE  /\ task'[g].user # NoUser
                      /\ task'[g].op = "guardRole" =>
                           \/ task'[g].user \in Admins
                           \/ \E c \in Tasks : Overlap(c, g)' /\ task'[c].user \in Admins
    BY DEF GuardsAskTheServer
  <2>1. ASSUME NEW c \in Tasks, Overlap(c, g), Started(g), task[c].user # NoUser
        PROVE  Overlap(c, g)' /\ task'[c].user = task[c].user
    BY <2>1, UsersStarted, OverlapStays, BegunStay
  <2>2. \A u \in Admins : u # NoUser
    BY UserAssumption
  <2>3. CASE g = t
    <3>1. /\ task[t].phase = "guard" /\ task[t].ok /\ task[t].user # NoUser
          /\ task[t].op = "guardRole" => currentUser \in Admins
          /\ task'[t].user = task[t].user /\ task'[t].op = task[t].op
      BY <1>1, <2>3 DEF Moves, PageMoves, CallMoves, LocalOK
    <3>2. task[t].op = "guardRole" =>
            currentUser = task[t].user \/ \E c \in Tasks : Overlap(c, t) /\ task[c].user = currentUser
      BY <2>2, <3>1 DEF BInv
    <3>3. QED
      BY <2>1, <2>2, <2>3, <3>1, <3>2 DEF Started
  <2>4. CASE g # t
    <3>1. task'[g] = task[g] /\ Started(g)
      BY <1>1, <2>4 DEF Started, TInv, LocalsOK, LocalOK
    <3>2. /\ task[g].user # NoUser
          /\ task[g].op = "guardRole" =>
               task[g].user \in Admins \/ \E c \in Tasks : Overlap(c, g) /\ task[c].user \in Admins
      BY <3>1 DEF BInv, GuardsAskTheServer
    <3>3. QED
      BY <2>1, <2>2, <3>1, <3>2
  <2>5. QED
    BY <2>3, <2>4
<1>9. QED
  BY <1>3, <1>5, <1>6, <1>7, <1>8 DEF BInv, FlagAndUserAgree

LEMMA RefreshBelief == ASSUME TInv, BInv, RefreshStep PROVE BInv'
<1>1. RefreshTells /\ UNCHANGED <<isAuthenticated, currentUser>>
  BY RefreshStepTells DEF page
<1>2. \A q \in Tasks :
        /\ task'[q].op = task[q].op /\ task'[q].user = task[q].user /\ task'[q].ok = task[q].ok
        /\ task'[q].result = task[q].result /\ task'[q].after = task[q].after
        /\ task'[q].phase = task[q].phase
  BY <1>1 DEF RefreshTells
<1>3. \A c, q \in Tasks : (Overlap(c, q)' <=> Overlap(c, q)) /\ (ClearsPage(q)' <=> ClearsPage(q))
  BY <1>2 DEF Overlap, ClearsPage
<1>4. GuardsAskTheServer'
  BY <1>2, <1>3 DEF BInv, GuardsAskTheServer
<1>5. /\ isAuthenticated' /\ currentUser' = NoUser => \E c \in Tasks : task'[c].phase = "body"
      /\ ~isAuthenticated' /\ currentUser' # NoUser =>
           \E c, q \in Tasks : Overlap(c, q)' /\ task'[c].user = currentUser' /\ ClearsPage(q)'
  BY <1>1, <1>2, <1>3 DEF BInv, FlagAndUserAgree
<1>6. \A c \in Tasks : task'[c].phase = "body" /\ ~isAuthenticated' =>
        \E q \in Tasks : Overlap(c, q)' /\ ClearsPage(q)'
  BY <1>1, <1>2, <1>3 DEF BInv
<1>7. \A t \in Tasks : task'[t].phase = "guard" /\ task'[t].ok /\ currentUser' # NoUser =>
        \/ currentUser' = task'[t].user
        \/ \E c \in Tasks : Overlap(c, t)' /\ task'[c].user = currentUser'
  BY <1>1, <1>2, <1>3 DEF BInv
<1>8. QED
  BY <1>4, <1>5, <1>6, <1>7 DEF BInv, FlagAndUserAgree

-----------------------------------------------------------------------------
(* A logout stays *)

\* The session of pair p is not one that logout l was there to end.
Fresh(l, p) == p # NoPair => pairs[p].origin \notin task[l].after \cup {Initial}

SureLogout(l) == task[l].op = "logout" /\ task[l].result = "ok" /\ ~task[l].mixed

\* After an answered logout with no refresh under way nothing of the sessions before it is left:
\* in the cookies, in a refresh, or in what a later call sent.
SInv == \A l \in Tasks : SureLogout(l) =>
    /\ Fresh(l, jar) /\ Fresh(l, refreshInProgress.sent)
    /\ \A p \in refreshInProgress.cookie : Fresh(l, p)
    /\ \A c \in Tasks : l \in task[c].after => Fresh(l, task[c].sent)

LEMMA FreshStays == ASSUME TypeOK, PairsStay, NEW l \in Tasks, task'[l].after = task[l].after,
                           NEW p \in Pairs, Fresh(l, p)
                    PROVE  Fresh(l, p)'
<1>1. p # NoPair => pairs'[p].origin = pairs[p].origin
  BY PairTyped DEF PairsStay
<1>2. QED
  BY <1>1 DEF Fresh

LEMMA NoPairFresh == ASSUME NEW l PROVE Fresh(l, NoPair) /\ Fresh(l, NoPair)'
BY DEF Fresh

LEMMA MovesLogout == ASSUME TInv, RefreshOK, SInv, NEW t \in Tasks, Moves(t) PROVE SInv'
<1>1. /\ \A q \in Tasks \ {t} : task'[q] = task[q]
      /\ task[t].phase # "done" /\ PairsStay
      /\ jar' = jar \/ (jar' \in task[t].cookie /\ task'[t].cookie = {})
      /\ jar \in Pairs /\ refreshInProgress.sent \in Pairs /\ refreshInProgress.cookie \subseteq Pairs
      /\ \A q \in Tasks : task[q].sent \in Pairs /\ task[q].cookie \subseteq Pairs
  BY DEF Moves, CallMoves, PairsMove, CookiesMove, TInv, TypeOK
<1>2. \/ UNCHANGED refreshInProgress
      \/ refreshInProgress' = [Idle EXCEPT !.sent = jar, !.active = TRUE]
  BY DEF Moves, CookiesMove
<1>3. \A q \in Tasks : t \notin task'[q].after
  BY <1>1 DEF Moves, CallMoves, TInv, LocalsOK, LocalOK, Done
<1>4. ASSUME NEW l \in Tasks, SureLogout(l)'
      PROVE  /\ Fresh(l, jar)' /\ Fresh(l, refreshInProgress.sent)'
             /\ \A p \in refreshInProgress'.cookie : Fresh(l, p)'
             /\ \A c \in Tasks : l \in task'[c].after => Fresh(l, task[c].sent)'
  <2>1. CASE l = t
    <3>1. jar' = NoPair /\ refreshInProgress' = Idle
      BY <1>4, <2>1 DEF SureLogout, Moves, CookiesMove, RefreshOK
    <3>2. Idle.sent = NoPair /\ Idle.cookie = {}
      BY DEF Idle
    <3>3. QED
      BY <1>3, <2>1, <3>1, <3>2 DEF Fresh
  <2>2. CASE l # t
    <3>1. task'[l] = task[l] /\ SureLogout(l) /\ LocalOK(l) /\ LocalOK(t)
      BY <1>1, <1>4, <2>2 DEF SureLogout, TInv, LocalsOK
    <3>2. t \notin task[l].after
      BY <1>1, <3>1 DEF LocalOK
    <3>3. \A p \in Pairs : Fresh(l, p) => Fresh(l, p)'
      BY <1>1, <3>1, FreshStays DEF TInv
    <3>4. Fresh(l, jar)'
      <4>1. CASE jar' = jar
        BY <1>1, <3>1, <3>3, <4>1 DEF SInv, Fresh
      <4>2. CASE jar' \in task[t].cookie /\ jar' # NoPair
        <5>1. jar' \in Pairs /\ pairs[jar'].origin = t
          BY <1>1, <3>1, <4>2 DEF LocalOK
        <5>2. pairs'[jar'].origin = t
          BY <4>2, <5>1, <1>1, PairTyped DEF PairsStay, TInv
        <5>3. QED
          BY <3>1, <3>2, <5>2, OriginAssumption DEF Fresh
      <4>3. CASE jar' = NoPair
        BY <4>3 DEF Fresh
      <4>4. QED
        BY <1>1, <4>1, <4>2, <4>3
    <3>5. Fresh(l, jar) /\ Fresh(l, refreshInProgress.sent)
      BY <3>1 DEF SInv
    <3>6. /\ Fresh(l, refreshInProgress.sent)'
          /\ \A p \in refreshInProgress'.cookie : Fresh(l, p)'
      <4>1. CASE UNCHANGED refreshInProgress
        BY <1>1, <3>1, <3>3, <4>1 DEF SInv, Fresh
      <4>2. CASE refreshInProgress' = [Idle EXCEPT !.sent = jar, !.active = TRUE]
        <5>1. refreshInProgress'.sent = jar /\ refreshInProgress'.cookie = {}
          BY <4>2 DEF Idle
        <5>2. QED
          BY <1>1, <3>1, <3>3, <3>5, <5>1 DEF Fresh
      <4>3. QED
        BY <1>2, <4>1, <4>2
    <3>7. ASSUME NEW c \in Tasks, l \in task'[c].after PROVE Fresh(l, task[c].sent)'
      <4>1. CASE c # t
        <5>1. task'[c] = task[c] /\ Fresh(l, task[c].sent)
          BY <1>1, <3>1, <3>7, <4>1 DEF SInv
        <5>2. QED
          BY <1>1, <3>1, <3>3, <5>1 DEF Fresh
      <4>2. CASE c = t
        <5>1. task'[t].sent \in {task[t].sent, jar', NoPair}
          BY DEF Moves, CallMoves
        <5>2. CASE task'[t].sent = jar'
          BY <3>4, <4>2, <5>2 DEF Fresh
        <5>3. CASE task'[t].sent = NoPair
          BY <4>2, <5>3 DEF Fresh
        <5>4. CASE task'[t].sent = task[t].sent /\ task[t].phase = "idle"
          BY <3>1, <4>2, <5>4 DEF Fresh, LocalOK, NewTask
        <5>5. CASE task'[t].sent = task[t].sent /\ task[t].phase # "idle"
          <6>1. l \in task[t].after
            BY <3>7, <4>2, <5>5 DEF Moves, CallMoves
          <6>2. Fresh(l, task[t].sent)
            BY <3>1, <6>1 DEF SInv
          <6>3. QED
            BY <1>1, <3>1, <3>3, <4>2, <5>5, <6>2 DEF Fresh
        <5>6. QED
          BY <5>1, <5>2, <5>3, <5>4, <5>5
      <4>3. QED
        BY <4>1, <4>2
    <3>8. QED
      BY <3>4, <3>6, <3>7
  <2>3. QED
    BY <2>1, <2>2
<1>5. QED
  BY <1>4 DEF SInv

LEMMA RefreshLogout == ASSUME TInv, SInv, RefreshStep PROVE SInv'
<1>1. RefreshTells /\ PairsStay /\ (jar' = jar \/ jar' \in refreshInProgress.cookie)
  BY RefreshStepTells, RefreshTyped
<1>2. \A q \in Tasks :
        /\ task'[q].op = task[q].op /\ task'[q].result = task[q].result
        /\ task'[q].mixed = task[q].mixed /\ task'[q].after = task[q].after
        /\ task'[q].sent = task[q].sent
  BY <1>1 DEF RefreshTells
<1>3. /\ jar \in Pairs /\ refreshInProgress.sent \in Pairs /\ refreshInProgress.cookie \subseteq Pairs
      /\ refreshInProgress \in [sent : Pairs, reply : Replies, cookie : SUBSET Pairs, active : BOOLEAN]
      /\ \A q \in Tasks : task[q].sent \in Pairs
  BY DEF TInv, TypeOK
<1>4. SUFFICES ASSUME NEW l \in Tasks, SureLogout(l)'
               PROVE  /\ Fresh(l, jar)' /\ Fresh(l, refreshInProgress.sent)'
                      /\ \A p \in refreshInProgress'.cookie : Fresh(l, p)'
                      /\ \A c \in Tasks : l \in task'[c].after => Fresh(l, task[c].sent)'
  BY DEF SInv
<1>5. /\ SureLogout(l) /\ task'[l].after = task[l].after
      /\ \A p \in Pairs : Fresh(l, p) => Fresh(l, p)'
  BY <1>1, <1>2, <1>4, FreshStays DEF SureLogout, TInv
<1>6. /\ Fresh(l, jar) /\ Fresh(l, refreshInProgress.sent)
      /\ \A p \in refreshInProgress.cookie : Fresh(l, p)
      /\ \A c \in Tasks : l \in task[c].after => Fresh(l, task[c].sent)
  BY <1>5 DEF SInv
<1>7. Fresh(l, jar)'
  BY <1>1, <1>3, <1>5, <1>6 DEF Fresh
<1>8. \A c \in Tasks : l \in task'[c].after => Fresh(l, task[c].sent)'
  BY <1>2, <1>3, <1>5, <1>6 DEF Fresh
<1>9. /\ Fresh(l, refreshInProgress.sent)'
      /\ \A p \in refreshInProgress'.cookie : Fresh(l, p)'
  <2>1. CASE /\ refreshInProgress.sent # NoPair /\ Rotates(refreshInProgress.sent)
             /\ refreshInProgress' = [refreshInProgress EXCEPT !.reply = "ok", !.cookie = {NewPair}]
    <3>1. pairs'[NewPair] = pairs[refreshInProgress.sent]
      BY <1>3, <2>1, RotatesPair DEF TInv
    <3>2. refreshInProgress'.sent = refreshInProgress.sent /\ refreshInProgress'.cookie = {NewPair}
      BY <1>3, <2>1
    <3>3. pairs'[NewPair].origin \notin task'[l].after \cup {Initial}
      BY <1>5, <1>6, <2>1, <3>1 DEF Fresh
    <3>4. QED
      BY <1>3, <1>5, <1>6, <3>2, <3>3 DEF Fresh
  <2>2. CASE /\ refreshInProgress'.sent \in {refreshInProgress.sent, NoPair}
             /\ refreshInProgress'.cookie \subseteq refreshInProgress.cookie
    BY <1>3, <1>5, <1>6, <2>2 DEF Fresh
  <2>3. ServeRefresh => \/ /\ refreshInProgress.sent # NoPair /\ Rotates(refreshInProgress.sent)
                           /\ refreshInProgress' = [refreshInProgress EXCEPT !.reply = "ok",
                                                                             !.cookie = {NewPair}]
                        \/ /\ refreshInProgress'.sent = refreshInProgress.sent
                           /\ refreshInProgress'.cookie = refreshInProgress.cookie
    BY <1>3 DEF ServeRefresh, Rotates
  <2>4. RefreshSettles => refreshInProgress'.sent = NoPair /\ refreshInProgress'.cookie = {}
    BY DEF RefreshSettles, Idle
  <2>5. LoseRefresh => refreshInProgress'.sent = refreshInProgress.sent /\ refreshInProgress'.cookie = {}
    BY <1>3 DEF LoseRefresh
  <2>6. QED
    BY <2>1, <2>2, <2>3, <2>4, <2>5 DEF RefreshStep
<1>10. QED
  BY <1>7, <1>8, <1>9

\* After an answered logout, whom the page takes to be signed in it has from a check that was not
\* over when the logout began.
AnsweredLogout(l) == task[l].op = "logout" /\ task[l].result = "ok"

PageFromChecks ==
    \A l \in Tasks : AnsweredLogout(l) =>
        /\ isAuthenticated => \E c \in Tasks \ task[l].after : Accepted(c)
        /\ currentUser # NoUser => \E c \in Tasks \ task[l].after : task[c].user = currentUser

\* A call that moves is over in the eyes of no logout; one that is over keeps what it knows.
LEMMA MovesPage == ASSUME TInv, PageFromChecks, NEW t \in Tasks, Moves(t) PROVE PageFromChecks'
<1>1. /\ \A q \in Tasks \ {t} : task'[q] = task[q]
      /\ task[t].phase # "done" /\ LocalOK(t) /\ LocalOK(t)'
  BY DEF Moves, CallMoves, TInv, LocalsOK
<1>2. \/ /\ UNCHANGED <<isAuthenticated, currentUser>>
         /\ task[t].phase = "body" <=> task'[t].phase = "body"
      \/ SignsOut
      \/ isAuthenticated' = TRUE /\ UNCHANGED currentUser /\ task'[t].phase = "body"
      \/ UNCHANGED isAuthenticated /\ currentUser' = task'[t].user /\ currentUser' # NoUser
  BY DEF Moves, PageMoves
<1>3. task[t].user # NoUser => task'[t].user = task[t].user
  BY <1>1 DEF LocalOK, Moves, CallMoves
<1>4. SUFFICES ASSUME NEW l \in Tasks, AnsweredLogout(l)'
               PROVE  /\ isAuthenticated' => \E c \in Tasks \ task'[l].after : Accepted(c)'
                      /\ currentUser' # NoUser =>
                           \E c \in Tasks \ task'[l].after : task'[c].user = currentUser'
  BY DEF PageFromChecks
<1>5. CASE l = t
  <2>1. SignsOut
    BY <1>4, <1>5 DEF AnsweredLogout, Moves, PageMoves
  <2>2. QED
    BY <2>1 DEF SignsOut
<1>6. CASE l # t
  <2>1. task'[l] = task[l] /\ AnsweredLogout(l) /\ t \notin task[l].after
    BY <1>1, <1>4, <1>6 DEF AnsweredLogout, TInv, LocalsOK, LocalOK
  <2>2. /\ isAuthenticated => \E c \in Tasks \ task[l].after : Accepted(c)
        /\ currentUser # NoUser => \E c \in Tasks \ task[l].after : task[c].user = currentUser
    BY <2>1 DEF PageFromChecks
  <2>3. CASE UNCHANGED <<isAuthenticated, currentUser>>
             /\ (task[t].phase = "body" <=> task'[t].phase = "body")
    BY <1>1, <1>3, <2>1, <2>2, <2>3 DEF Accepted
  <2>4. CASE SignsOut
    BY <2>4 DEF SignsOut
  <2>5. CASE isAuthenticated' = TRUE /\ UNCHANGED currentUser /\ task'[t].phase = "body"
    BY <1>1, <1>3, <2>1, <2>2, <2>5 DEF Accepted
  <2>6. CASE UNCHANGED isAuthenticated /\ currentUser' = task'[t].user /\ currentUser' # NoUser
    <3>1. Accepted(t)' /\ t \in Tasks \ task'[l].after
      BY <2>1, <2>6 DEF Accepted
    <3>2. QED
      BY <2>6, <3>1
  <2>7. QED
    BY <1>2, <2>3, <2>4, <2>5, <2>6
<1>7. QED
  BY <1>5, <1>6

LEMMA RefreshPage == ASSUME TInv, PageFromChecks, RefreshStep PROVE PageFromChecks'
<1>1. RefreshTells /\ UNCHANGED <<isAuthenticated, currentUser>>
  BY RefreshStepTells DEF page
<1>2. \A q \in Tasks :
        /\ task'[q].op = task[q].op /\ task'[q].user = task[q].user
        /\ task'[q].result = task[q].result /\ task'[q].after = task[q].after
        /\ task'[q].phase = task[q].phase
  BY <1>1 DEF RefreshTells
<1>3. \A q \in Tasks : (AnsweredLogout(q)' <=> AnsweredLogout(q)) /\ (Accepted(q)' <=> Accepted(q))
  BY <1>2 DEF AnsweredLogout, Accepted
<1>4. QED
  BY <1>1, <1>2, <1>3 DEF PageFromChecks

-----------------------------------------------------------------------------
(* Waiting for the refresh *)

LEMMA MovesWait == ASSUME TInv, NobodyWaitsInVain, NEW t \in Tasks, Moves(t)
                   PROVE  NobodyWaitsInVain'
<1>1. refreshInProgress.active => refreshInProgress'.active
  BY DEF Moves, CookiesMove
<1>2. ASSUME NEW q \in Tasks, task'[q].phase = "refresh", task'[q].reply = "none"
      PROVE  refreshInProgress'.active
  <2>1. CASE q = t
    BY <1>2, <2>1 DEF Moves, CookiesMove
  <2>2. CASE q # t
    BY <1>1, <1>2, <2>2 DEF Moves, CallMoves, NobodyWaitsInVain
  <2>3. QED
    BY <2>1, <2>2
<1>3. QED
  BY <1>2 DEF NobodyWaitsInVain

\* A refresh that settles tells all that wait: what it tells them is an answer.
LEMMA RefreshWait == ASSUME TInv, NobodyWaitsInVain, RefreshStep PROVE NobodyWaitsInVain'
<1> DEFINE r == refreshInProgress
<1>1. r \in [sent : Pairs, reply : Replies, cookie : SUBSET Pairs, active : BOOLEAN]
      /\ task \in [Tasks -> Task]
  BY DEF TInv, TypeOK
<1>2. CASE ServeRefresh \/ LoseRefresh
  <2>1. UNCHANGED task /\ r.active
    BY <1>2 DEF ServeRefresh, LoseRefresh
  <2>2. CASE ServeRefresh
    <3>1. \/ refreshInProgress' = [r EXCEPT !.reply = "ok", !.cookie = {NewPair}]
          \/ \E refusal \in {"refused", "bare", "revoked"} :
               refreshInProgress' = [r EXCEPT !.reply = refusal]
      BY <2>2 DEF ServeRefresh
    <3>2. r'.active
      BY <1>1, <2>1, <3>1
    <3>3. QED
      BY <2>1, <3>2 DEF NobodyWaitsInVain
  <2>3. CASE LoseRefresh
    <3>1. refreshInProgress' = [r EXCEPT !.reply = "failed", !.cookie = {}]
      BY <2>3 DEF LoseRefresh
    <3>2. r'.active
      BY <1>1, <2>1, <3>1
    <3>3. QED
      BY <2>1, <3>2 DEF NobodyWaitsInVain
  <2>4. QED
    BY <1>2, <2>2, <2>3
<1>3. CASE RefreshSettles
  <2>1. /\ task' = [q \in Tasks |-> IF task[q].phase = "refresh" /\ task[q].reply = "none"
                                      THEN [task[q] EXCEPT !.reply = r.reply]
                                      ELSE task[q]]
        /\ r.reply # "none"
    BY <1>3 DEF RefreshSettles
  <2>2. ASSUME NEW q \in Tasks
        PROVE  ~(task'[q].phase = "refresh" /\ task'[q].reply = "none")
    <3>1. CASE task[q].phase = "refresh" /\ task[q].reply = "none"
      <4>1. task'[q] = [task[q] EXCEPT !.reply = r.reply] /\ task[q] \in Task
        BY <1>1, <2>1, <3>1
      <4>2. task'[q].reply = r.reply
        BY <4>1 DEF Task
      <4>3. QED
        BY <2>1, <4>2
    <3>2. CASE ~(task[q].phase = "refresh" /\ task[q].reply = "none")
      <4>1. task'[q] = task[q]
        BY <2>1, <3>2
      <4>2. QED
        BY <3>2, <4>1
    <3>3. QED
      BY <3>1, <3>2
  <2>3. QED
    BY <2>2 DEF NobodyWaitsInVain
<1>4. QED
  BY <1>2, <1>3 DEF RefreshStep

-----------------------------------------------------------------------------
(* The invariant, from the opening of the page on *)

IInv == TInv /\ RInv /\ BInv /\ SInv /\ PageFromChecks /\ NobodyWaitsInVain

LEMMA InitIInv == Init => IInv
<1> SUFFICES ASSUME Init PROVE IInv
  OBVIOUS
<1>1. task = [t \in Tasks |-> NewTask] /\ refreshInProgress = Idle
  BY DEF Init
<1>2. /\ NewTask \in Task /\ NewTask.phase = "idle" /\ NewTask.sent = NoPair /\ NewTask.cookie = {}
      /\ NewTask.reply = "none" /\ NewTask.user = NoUser /\ NewTask.result = "none"
      /\ NewTask.op = "none" /\ NewTask.after = {}
  <2>1. "init" \in Operations
    BY DEF Operations
  <2>2. NewTask \in Task
    BY <2>1, NewTaskTyped
  <2>3. QED
    BY <2>2 DEF NewTask
<1>3. /\ Idle.sent = NoPair /\ Idle.cookie = {} /\ ~Idle.active /\ Idle.reply = "none"
  BY DEF Idle
<1>4. jar \in Pairs /\ pairs \in Seq(Pair) /\ (jar # NoPair => pairs[jar].renewal = "live")
  <2>1. CASE jar = NoPair /\ pairs = <<>>
    BY <2>1 DEF Pairs, NoPair
  <2>2. CASE jar = 1 /\ \E u \in workload.users :
               pairs = <<[owner |-> u, renewal |-> "live", origin |-> Initial]>>
    <3>1. PICK u \in workload.users :
            pairs = <<[owner |-> u, renewal |-> "live", origin |-> Initial]>>
      BY <2>2
    <3>2. u \in Users
      BY <3>1, WorkloadAssumption DEF Init, Workload
    <3> DEFINE first == [owner |-> u, renewal |-> "live", origin |-> Initial]
    <3>3. first \in Pair /\ first.renewal = "live"
      BY <3>2 DEF Pair
    <3> HIDE DEF first
    <3>4. pairs = <<first>>
      BY <3>1 DEF first
    <3>5. QED
      BY <2>2, <3>3, <3>4 DEF Pairs, NoPair
  <2>3. QED
    BY <2>1, <2>2 DEF Init
<1>5. NoPair \in Pairs
  BY <1>4 DEF Pairs, NoPair
<1>6. TypeOK
  <2>1. Idle \in [sent : Pairs, reply : Replies, cookie : SUBSET Pairs, active : BOOLEAN]
    BY <1>5 DEF Idle, Replies
  <2>2. /\ {headless, hooks} \subseteq BOOLEAN /\ location \in {"page", "login", "leaving"}
        /\ losses \in 0 .. MaxLosses /\ workload \in Workloads
    <3>1. workload \in Workloads /\ location \in {"page", "login"}
      BY WorkloadAssumption DEF Init, Workload
    <3>2. headless \in BOOLEAN /\ hooks \in BOOLEAN
      BY DEF Init
    <3>3. losses \in 0 .. MaxLosses
      BY LossAssumption DEF Init
    <3>4. QED
      BY <3>1, <3>2, <3>3
  <2>3. QED
    BY <1>1, <1>2, <1>4, <1>5, <2>1, <2>2 DEF TypeOK, Init
<1>7. LocalsOK
  BY <1>1, <1>2 DEF LocalsOK, LocalOK
<1>8. RInv
  BY <1>1, <1>2, <1>3, <1>4 DEF RInv, RefreshOK, FlightsOK, InFlight, JarOK, PresentsCurrentPair
<1>9. BInv
  BY <1>1, <1>2 DEF BInv, FlagAndUserAgree, GuardsAskTheServer, Init
<1>10. SInv
  BY <1>1, <1>2 DEF SInv, SureLogout
<1>11. NobodyWaitsInVain /\ PageFromChecks
  BY <1>1, <1>2 DEF NobodyWaitsInVain, PageFromChecks, AnsweredLogout
<1>12. QED
  BY <1>6, <1>7, <1>8, <1>9, <1>10, <1>11 DEF IInv, TInv

LEMMA NextIInv == IInv /\ [Next]_vars => IInv'
<1> SUFFICES ASSUME IInv, [Next]_vars PROVE IInv'
  OBVIOUS
<1>1. ASSUME NEW t \in Tasks, Moves(t) PROVE IInv'
  <2>1. TInv'
    BY <1>1, MovesTInv DEF IInv
  <2>2. RInv'
    BY <1>1, MovesRenewals DEF IInv
  <2>3. BInv'
    BY <1>1, MovesBelief DEF IInv
  <2>4. SInv'
    BY <1>1, MovesLogout DEF IInv, RInv
  <2>5. NobodyWaitsInVain'
    BY <1>1, MovesWait DEF IInv
  <2>6. PageFromChecks'
    BY <1>1, MovesPage DEF IInv
  <2>7. QED
    BY <2>1, <2>2, <2>3, <2>4, <2>5, <2>6 DEF IInv
<1>2. ASSUME NEW t \in Tasks, Serve(t) \/ Lose(t) PROVE IInv'
  BY <1>1, <1>2, ServeMoves, LoseMoves DEF IInv
<1>3. ASSUME NEW t \in Tasks, Step(t) \/ Start(t), UNCHANGED <<server, fixed>> PROVE IInv'
  BY <1>1, <1>3, StepMoves, StartMoves DEF IInv, RInv
<1>4. CASE RefreshStep
  BY <1>4, RefreshTInv, RefreshRenewals, RefreshBelief, RefreshLogout, RefreshPage,
           RefreshWait DEF IInv
<1>5. CASE UNCHANGED vars
  <2>1. UNCHANGED <<isAuthenticated, currentUser, refreshInProgress, headless, hooks, location, jar,
                    pairs, task, losses, workload>>
    BY <1>5 DEF vars, page, server, fixed
  <2>2. TInv'
    BY <2>1 DEF IInv, TInv, TypeOK, Pairs, LocalsOK, LocalOK
  <2>3. RInv'
    BY <2>1 DEF IInv, RInv, RefreshOK, FlightsOK, InFlight, JarOK, PresentsCurrentPair
  <2>4. BInv'
    BY <2>1 DEF IInv, BInv, FlagAndUserAgree, GuardsAskTheServer, Overlap, ClearsPage
  <2>5. SInv'
    BY <2>1 DEF IInv, SInv, SureLogout, Fresh
  <2>6. NobodyWaitsInVain'
    BY <2>1 DEF IInv, NobodyWaitsInVain
  <2>7. PageFromChecks'
    BY <2>1 DEF IInv, PageFromChecks, AnsweredLogout, Accepted
  <2>8. QED
    BY <2>2, <2>3, <2>4, <2>5, <2>6, <2>7 DEF IInv
<1>6. QED
  BY <1>2, <1>3, <1>4, <1>5 DEF Next, Progress, RefreshStep

-----------------------------------------------------------------------------
(* Theorems *)

\* What the page believes, what the cookies hold and what is under way fit together between any
\* two steps of any two calls.
THEOREM Invariance == Spec => []IInv
<1>1. QED
  BY InitIInv, NextIInv, PTL DEF Spec

\* The page, the cookies, the shared refresh and every call keep their types.
THEOREM TypeCorrect == Spec => []TypeOK
<1>1. IInv => TypeOK
  BY DEF IInv, TInv
<1>2. QED
  BY <1>1, Invariance, PTL

\* Calls share one refresh, and the browser stores the pair it brought before the next one starts:
\* a refresh token that the page has renewed is not presented again.
THEOREM RenewsOnce == Spec => []PresentsCurrentPair
<1>1. IInv => PresentsCurrentPair
  BY DEF IInv, RInv
<1>2. QED
  BY <1>1, Invariance, PTL

\* Whoever joined the shared refresh, and whenever, waits for one that is under way: the part of
\* EveryCallEnds that needs no fairness.
THEOREM WaitersAreTold == Spec => []NobodyWaitsInVain
<1>1. IInv => NobodyWaitsInVain
  BY DEF IInv
<1>2. QED
  BY <1>1, Invariance, PTL

\* A guard lets a call through on its own check, and on the role of a user found since.
THEOREM GuardsAsk == Spec => []GuardsAskTheServer
<1>1. IInv => GuardsAskTheServer
  BY DEF IInv, BInv
<1>2. QED
  BY <1>1, Invariance, PTL

\* isAuthenticated and currentUser disagree only while _checkSessionInternal awaits a body, or
\* after a sign-out that came during that await.
THEOREM BeliefAgrees == Spec => []FlagAndUserAgree
<1>1. IInv => FlagAndUserAgree
  BY DEF IInv, BInv
<1>2. QED
  BY <1>1, Invariance, PTL

\* After an answered logout that no refresh overlapped, only a new sign-in gives a session; and the
\* page takes somebody to be signed in only on the word of a check that outlived the logout's start.
THEOREM LogoutStays == Spec => []LogoutSticks
<1>1. IInv => LogoutSticks
  <2> SUFFICES ASSUME IInv PROVE LogoutSticks
    OBVIOUS
  <2>1. ASSUME NEW c \in Tasks, NEW l \in task[c].after, task[c].user # NoUser,
               task[l].op = "logout", task[l].result = "ok", ~task[l].mixed
        PROVE  pairs[task[c].sent].origin \notin task[l].after \cup {Initial}
    <3>1. l \in Tasks /\ task[c].sent # NoPair
      BY <2>1 DEF IInv, TInv, TypeOK, Task, LocalsOK, LocalOK
    <3>2. QED
      BY <2>1, <3>1 DEF IInv, SInv, SureLogout, Fresh
  <2>2. PageFromChecks
    BY DEF IInv
  <2>3. QED
    BY <2>1, <2>2 DEF LogoutSticks, PageFromChecks, AnsweredLogout
<1>2. QED
  BY <1>1, Invariance, PTL
=============================================================================
