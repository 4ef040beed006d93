----------------------------- MODULE AuthClient -----------------------------
(***************************************************************************)
(* src/assets/auth.js in one page: the calls a page makes of AuthService   *)
(* and AwesomeNodeAuth, the fetch interceptor and the refresh they share,  *)
(* with the browser's cookie jar and a server (both external).  A call is  *)
(* a task; between two of its awaits any other task runs.                  *)
(***************************************************************************)
EXTENDS Naturals, Sequences, FiniteSets

CONSTANTS
    Tasks,      \* calls of the page, each made once
    Users,
    Admins,     \* the users with the role that guardRole asks for
    NoUser,
    Workloads,  \* bound: what one behaviour is made of, see Workload
    MaxLosses   \* bound on requests and answers the network loses

ASSUME TaskAssumption == IsFiniteSet(Tasks)
ASSUME UserAssumption == Admins \subseteq Users /\ NoUser \notin Users
ASSUME LossAssumption == MaxLosses \in Nat

Operations == {"init", "request", "login", "verify", "logout", "delete", "check",
               "guardPage", "guardRole", "refresh"}

\* What each task may do, who may sign in, and where the page may open.
Workload == [ops : [Tasks -> SUBSET Operations], users : SUBSET Users,
             locations : SUBSET {"page", "login"}]

ASSUME WorkloadAssumption == Workloads \subseteq Workload

VARIABLES
    isAuthenticated, currentUser,   \* the page's idea of who is signed in
    refreshInProgress,              \* the shared refresh, or Idle
    headless,                       \* what the server's configuration says
    hooks,                          \* onLogout, onSessionExpired, onRefreshFail are installed
    location,                       \* a page, the login page, or on the way to it
    jar,                            \* the token pair in the cookies
    pairs,                          \* the server's token pairs, in the order of issue
    task,
    losses,
    workload

server == <<pairs, losses>>
page == <<isAuthenticated, currentUser, location, hooks>>
fixed == <<headless, workload>>
vars == <<page, refreshInProgress, jar, server, task, fixed>>

NoPair == 0
Initial == "initial"    \* the origin of the session the page was opened with

ASSUME OriginAssumption == Initial \notin Tasks

Pairs == 0 .. Len(pairs)

\* Where a task may stand: waiting for its request, the shared refresh, the retried request,
\* the /logout of a failed refresh, /me, the body of /me, or to resume after its check.
Phases == {"idle", "request", "refresh", "retry", "ending", "me", "body", "guard", "done"}

Replies == {"none", "ok", "challenge", "refused", "bare", "unauthorized", "revoked", "failed"}

\* cookie: the pair an answer stores in the cookies (NoPair clears them), if it stores any.
Idle == [sent |-> NoPair, reply |-> "none", cookie |-> {}, active |-> FALSE]

\* user: whom the task's own /me named.  result: what its caller is told.
\* after, mixed: history: the tasks done before it began; a refresh was under way when it
\* changed the cookies.
NewTask == [op |-> "none", phase |-> "idle", sent |-> NoPair, reply |-> "none",
            cookie |-> {}, user |-> NoUser, ok |-> FALSE, result |-> "none",
            after |-> {}, mixed |-> FALSE]

Results == {"none", "ok", "challenge", "refused", "unauthorized", "failed", "passed", "turned"}

Task == [op : Operations \cup {"none"}, phase : Phases, sent : Nat, reply : Replies,
         cookie : SUBSET Nat, user : Users \cup {NoUser}, ok : BOOLEAN,
         result : Results, after : SUBSET Tasks, mixed : BOOLEAN]

\* renewal: can the pair be renewed, was it, was the answer of that lost, or has its session
\* ended.  origin: the sign-in the session goes back to.
Pair == [owner : Users, renewal : {"live", "rotated", "lost", "ended"},
         origin : Tasks \cup {Initial}]

(***************************************************************************)
(* The page, the cookies and the server hold what the code puts there.     *)
(***************************************************************************)
TypeOK == /\ isAuthenticated \in BOOLEAN
          /\ currentUser \in Users \cup {NoUser}
          /\ refreshInProgress \in [sent : Pairs, reply : Replies, cookie : SUBSET Pairs,
                                    active : BOOLEAN]
          /\ {headless, hooks} \subseteq BOOLEAN
          /\ location \in {"page", "login", "leaving"}
          /\ jar \in Pairs
          /\ pairs \in Seq(Pair)
          /\ task \in [Tasks -> Task]
          /\ \A t \in Tasks : task[t].sent \in Pairs /\ task[t].cookie \subseteq Pairs
          /\ losses \in 0 .. MaxLosses
          /\ workload \in Workloads

Done == {t \in Tasks : task[t].phase = "done"}

\* A request goes out with the cookies of that moment.
SendingWith(cookies, rec, phase) == [rec EXCEPT !.phase = phase, !.sent = cookies,
                                                !.reply = "none", !.cookie = {}]
Sending(rec, phase) == SendingWith(jar, rec, phase)
\* What is left of a task: its result, and the pair its /me was accepted with.
Ended(rec, result) == [rec EXCEPT !.phase = "done", !.result = result, !.reply = "none",
                                  !.cookie = {}, !.ok = FALSE,
                                  !.sent = IF rec.user = NoUser THEN NoPair ELSE @]

\* The browser stores an answer's cookies before the page sees the answer.
Stores(answer) == IF answer.cookie = {} THEN UNCHANGED jar ELSE jar' \in answer.cookie

Mixes(rec) == [rec EXCEPT !.mixed = refreshInProgress.active]

-----------------------------------------------------------------------------
(* The server and the network *)

NewPair == Len(pairs) + 1
Issue(user, origin) == Append(pairs, [owner |-> user, renewal |-> "live", origin |-> origin])

EndSessionOf(p) == IF p = NoPair THEN UNCHANGED pairs
                                 ELSE pairs' = [pairs EXCEPT ![p].renewal = "ended"]

Reply(t, reply, cookie) == task' = [task EXCEPT ![t].reply = reply, ![t].cookie = cookie]

\* An access token counts until it expires, which may be at any time, or its session ends.
Accepts(t) == task[t].sent # NoPair /\ pairs[task[t].sent].renewal # "ended"

\* The statuses 401 and 403 are "unauthorized", or "revoked" with the code SESSION_REVOKED,
\* which a session may come to be at any time.
Denies(t) == \/ Reply(t, "unauthorized", {}) /\ UNCHANGED pairs
             \/ /\ task[t].sent # NoPair
                /\ Reply(t, "revoked", {})
                /\ EndSessionOf(task[t].sent)

ServeRequest(t) == \/ Accepts(t) /\ Reply(t, "ok", {}) /\ UNCHANGED pairs
                   \/ Denies(t)

SignsIn(t) == \E u \in workload.users : pairs' = Issue(u, t) /\ Reply(t, "ok", {NewPair})

\* A verification needs no session, and may refuse with or without a 401.
ServeVerify(t) == \/ SignsIn(t)
                  \/ Reply(t, "refused", {}) /\ UNCHANGED pairs
                  \/ Denies(t)

ServeLogin(t) == \/ SignsIn(t)
                 \/ /\ \E reply \in {"challenge", "unauthorized"} : Reply(t, reply, {})
                    /\ UNCHANGED pairs

ServeLogout(t) == \/ Reply(t, "ok", {NoPair}) /\ EndSessionOf(task[t].sent)
                  \/ Reply(t, "refused", {}) /\ UNCHANGED pairs

ServeDelete(t) == \/ /\ Accepts(t)
                     /\ Reply(t, "ok", {NoPair})
                     /\ EndSessionOf(task[t].sent)
                  \/ Denies(t)

ServeMe(t) == /\ \/ Accepts(t) /\ Reply(t, "ok", {})
                 \/ Reply(t, "unauthorized", {})
              /\ UNCHANGED pairs

Asks(t, ops) == task[t].phase \in {"request", "retry"} /\ task[t].op \in ops

Serve(t) == /\ task[t].reply = "none"
            /\ \/ Asks(t, {"init", "request"}) /\ ServeRequest(t)
               \/ Asks(t, {"verify"}) /\ ServeVerify(t)
               \/ Asks(t, {"login"}) /\ ServeLogin(t)
               \/ Asks(t, {"logout"}) /\ ServeLogout(t)
               \/ Asks(t, {"delete"}) /\ ServeDelete(t)
               \/ task[t].phase = "ending" /\ ServeLogout(t)
               \/ task[t].phase = "me" /\ ServeMe(t)
            /\ UNCHANGED <<page, refreshInProgress, jar, losses, fixed>>

\* A refresh rotates the pair.  A refusal carries success: false, or no such field, or the
\* code SESSION_REVOKED.
ServeRefresh ==
    /\ refreshInProgress.active /\ refreshInProgress.reply = "none"
    /\ LET p == refreshInProgress.sent
       IN  \/ /\ p # NoPair /\ pairs[p].renewal = "live"
              /\ pairs' = Append([pairs EXCEPT ![p].renewal = "rotated"], pairs[p])
              /\ refreshInProgress' = [refreshInProgress EXCEPT !.reply = "ok",
                                                                !.cookie = {NewPair}]
           \/ /\ EndSessionOf(p)
              /\ \E refusal \in {"refused", "bare", "revoked"} :
                   refreshInProgress' = [refreshInProgress EXCEPT !.reply = refusal]
    /\ UNCHANGED <<page, jar, losses, task, fixed>>

\* The network loses a request, or the answer to one, at any time before the page has it.
Lose(t) == /\ losses < MaxLosses
           /\ task[t].phase \in {"request", "retry", "ending", "me", "body"}
           /\ task[t].reply # "failed"
           /\ losses' = losses + 1
           /\ Reply(t, "failed", {})
           /\ UNCHANGED <<page, refreshInProgress, jar, pairs, fixed>>

LoseRefresh ==
    /\ losses < MaxLosses
    /\ refreshInProgress.active /\ refreshInProgress.reply # "failed"
    /\ losses' = losses + 1
    /\ refreshInProgress' = [refreshInProgress EXCEPT !.reply = "failed", !.cookie = {}]
    /\ pairs' = IF refreshInProgress.reply = "ok"
                  THEN [pairs EXCEPT ![refreshInProgress.sent].renewal = "lost"]
                  ELSE pairs
    /\ UNCHANGED <<page, jar, task, fixed>>

-----------------------------------------------------------------------------
(* The page: how a task begins *)

Begin(t, rec) ==
    /\ task[t].phase = "idle"
    /\ location # "leaving"
    /\ rec.op \in workload.ops[t]
    /\ task' = [task EXCEPT ![t] = [rec EXCEPT !.after = Done]]

\* An operation that starts with a request through the intercepted fetch.
Asking(op) == Sending([NewTask EXCEPT !.op = op], "request")

StartRequest(t) == Begin(t, Asking("request")) /\ UNCHANGED <<page, refreshInProgress, jar>>
StartVerify(t) == Begin(t, Asking("verify")) /\ UNCHANGED <<page, refreshInProgress, jar>>
StartLogin(t) == Begin(t, Asking("login")) /\ UNCHANGED <<page, refreshInProgress, jar>>
StartDelete(t) == Begin(t, Asking("delete")) /\ UNCHANGED <<page, refreshInProgress, jar>>

\* Fault: the page does not wait for the server.
StartLogout_Unawaited(t) ==
    /\ Begin(t, Ended(Asking("logout"), "ok"))
    /\ isAuthenticated' = FALSE
    /\ currentUser' = NoUser
    /\ UNCHANGED <<location, hooks, refreshInProgress, jar>>

StartLogout(t) == Begin(t, Asking("logout")) /\ UNCHANGED <<page, refreshInProgress, jar>>

StartCheck(t) == /\ \E op \in {"check", "guardPage", "guardRole"} :
                      Begin(t, Sending([NewTask EXCEPT !.op = op], "me"))
                 /\ UNCHANGED <<page, refreshInProgress, jar>>

\* The no-op hooks of a headless server are installed when the configuration is known.
ApplyHeadless == hooks' = (hooks \/ headless)

\* AuthService.init checks the session at once when the configuration is in the page.
StartInit(t) ==
    /\ \/ Begin(t, Asking("init")) /\ UNCHANGED hooks
       \/ Begin(t, Sending([NewTask EXCEPT !.op = "init"], "me")) /\ ApplyHeadless
    /\ UNCHANGED <<isAuthenticated, currentUser, location, refreshInProgress, jar>>

-----------------------------------------------------------------------------
(* The shared refresh *)

\* Fault: every caller sends a refresh of its own, the last one is remembered.
JoinRefresh_Alone == refreshInProgress' = [Idle EXCEPT !.sent = jar, !.active = TRUE]

\* Callers share the refresh that is under way, if there is one.
JoinRefresh == refreshInProgress' = IF refreshInProgress.active
                                      THEN refreshInProgress
                                      ELSE [Idle EXCEPT !.sent = jar, !.active = TRUE]

\* refresh() of the public interface.
StartRefresh(t) == /\ Begin(t, [NewTask EXCEPT !.op = "refresh", !.phase = "refresh"])
                   /\ JoinRefresh
                   /\ UNCHANGED <<page, jar>>

\* Fault: the refresh is sent through the intercepted fetch, which answers its 401 with a
\* refresh: it waits for itself.
RefreshSettles_Intercepted ==
    /\ refreshInProgress.active /\ refreshInProgress.reply \in {"ok", "bare", "failed"}
    /\ Stores(refreshInProgress)
    /\ refreshInProgress' = Idle
    /\ task' = [t \in Tasks |-> IF task[t].phase = "refresh" /\ task[t].reply = "none"
                                  THEN [task[t] EXCEPT !.reply = refreshInProgress.reply]
                                  ELSE task[t]]
    /\ UNCHANGED <<page, server, fixed>>

\* The promise settles: the next caller starts another refresh, all that wait resume later.
RefreshSettles ==
    /\ refreshInProgress.active /\ refreshInProgress.reply # "none"
    /\ Stores(refreshInProgress)
    /\ refreshInProgress' = Idle
    /\ task' = [t \in Tasks |-> IF task[t].phase = "refresh" /\ task[t].reply = "none"
                                  THEN [task[t] EXCEPT !.reply = refreshInProgress.reply]
                                  ELSE task[t]]
    /\ UNCHANGED <<page, server, fixed>>

\* An answer counts as a success unless it says success: false or SESSION_REVOKED.
CountsAsRefreshed(reply) == reply \in {"ok", "bare"}

\* Fault: the caller is told what the server said, and not whether the refresh succeeded.
RefreshReturns_Raw(t) ==
    /\ task[t].op = "refresh" /\ task[t].phase = "refresh" /\ task[t].reply # "none"
    /\ task' = [task EXCEPT ![t] = Ended(@, @.reply)]
    /\ UNCHANGED <<page, refreshInProgress, jar>>

RefreshReturns(t) ==
    /\ task[t].op = "refresh" /\ task[t].phase = "refresh" /\ task[t].reply # "none"
    /\ task' = [task EXCEPT ![t] = Ended(@, IF CountsAsRefreshed(task[t].reply)
                                              THEN "ok" ELSE "failed")]
    /\ UNCHANGED <<page, refreshInProgress, jar>>

-----------------------------------------------------------------------------
(* The fetch interceptor *)

AuthEndpoints == {"login", "logout"}

\* A 401 or 403 of an endpoint other than login, logout, refresh and me.
Intercepted(t) == /\ task[t].phase = "request"
                  /\ task[t].op \notin AuthEndpoints
                  /\ task[t].reply \in {"unauthorized", "revoked"}

SignsOut == isAuthenticated' = FALSE /\ currentUser' = NoUser

\* Without hooks a page other than the login page is left for it.
LeavesUnlessLogin == location' = IF hooks \/ location = "login" THEN location ELSE "leaving"

\* The caller gets the 401.  AuthService.init goes on to check the session.
GivesUp(t) == task' = [task EXCEPT ![t] = IF @.op = "init" THEN SendingWith(jar', @, "me")
                                                           ELSE Ended(@, "unauthorized")]

RenewFirst(t) == /\ Intercepted(t) /\ task[t].reply = "unauthorized"
                 /\ task' = [task EXCEPT ![t].phase = "refresh", ![t].reply = "none"]
                 /\ JoinRefresh
                 /\ UNCHANGED <<page, jar>>

Retry(t) == /\ task[t].op # "refresh" /\ task[t].phase = "refresh"
            /\ CountsAsRefreshed(task[t].reply)
            /\ task' = [task EXCEPT ![t] = Sending(@, "retry")]
            /\ UNCHANGED <<page, refreshInProgress, jar>>

\* Nothing to renew, or the renewal failed.
CannotRenew(t) == \/ Intercepted(t) /\ task[t].reply = "revoked"
                  \/ /\ task[t].op # "refresh" /\ task[t].phase = "refresh"
                     /\ task[t].reply \in {"refused", "revoked", "failed"}

\* With onRefreshFail installed the page signs out at once, without telling the server.
ExpireWithHook(t) == /\ CannotRenew(t) /\ hooks
                     /\ SignsOut
                     /\ UNCHANGED <<location, hooks, refreshInProgress, jar>>
                     /\ GivesUp(t)

EndSession(t) == /\ CannotRenew(t) /\ ~hooks
                 /\ task' = [task EXCEPT ![t] = Sending(@, "ending")]
                 /\ UNCHANGED <<page, refreshInProgress, jar>>

\* The page signs out whatever /logout answered.
ExpireSession(t) == /\ task[t].phase = "ending" /\ task[t].reply # "none"
                    /\ Stores(task[t])
                    /\ SignsOut
                    /\ LeavesUnlessLogin
                    /\ GivesUp(t)
                    /\ UNCHANGED <<hooks, refreshInProgress>>

-----------------------------------------------------------------------------
(* What an operation does with the response that fetch returned *)

Answered(t) == /\ task[t].phase \in {"request", "retry"}
               /\ task[t].reply # "none"
               /\ ~Intercepted(t)

\* A lost request or answer is an exception, which AuthService.init catches.
RequestFails(t) == /\ Answered(t) /\ task[t].reply = "failed" /\ task[t].op # "init"
                   /\ task' = [task EXCEPT ![t] = Ended(@, "failed")]
                   /\ UNCHANGED <<page, refreshInProgress, jar>>

RequestReturns(t) == /\ Answered(t) /\ task[t].op = "request" /\ task[t].reply # "failed"
                     /\ task' = [task EXCEPT ![t] = Ended(@, IF @.reply = "ok" THEN "ok"
                                                             ELSE "unauthorized")]
                     /\ UNCHANGED <<page, refreshInProgress, jar>>

\* The configuration, if it came, says whether the hooks are wanted.
ConfigReturns(t) ==
    /\ Answered(t) /\ task[t].op = "init"
    /\ IF task[t].reply = "ok" THEN ApplyHeadless ELSE UNCHANGED hooks
    /\ task' = [task EXCEPT ![t] = Sending(@, "me")]
    /\ UNCHANGED <<isAuthenticated, currentUser, location, refreshInProgress, jar>>

\* A success is followed by a session check; a challenge asks for a second factor.
SignInReturns(t) ==
    /\ Answered(t) /\ task[t].op \in {"login", "verify"} /\ task[t].reply # "failed"
    /\ Stores(task[t])
    /\ task' = [task EXCEPT ![t] =
                  IF @.reply = "ok" THEN SendingWith(jar', @, "me")
                  ELSE Ended(@, IF @.reply = "challenge" THEN "challenge" ELSE "refused")]
    /\ UNCHANGED <<page, refreshInProgress>>

\* The answer of /logout is not looked at.
LogoutReturns(t) ==
    /\ Answered(t) /\ task[t].op = "logout" /\ task[t].reply # "failed"
    /\ Stores(task[t])
    /\ SignsOut
    /\ location' = IF hooks THEN location ELSE "leaving"
    /\ task' = [task EXCEPT ![t] = Mixes(Ended(@, @.reply))]
    /\ UNCHANGED <<hooks, refreshInProgress>>

\* Fault: the page forgets the flag and keeps the user.
DeleteReturns_KeepsUser(t) ==
    /\ Answered(t) /\ task[t].op = "delete" /\ task[t].reply = "ok"
    /\ Stores(task[t])
    /\ isAuthenticated' = FALSE
    /\ location' = IF hooks THEN location ELSE "leaving"
    /\ task' = [task EXCEPT ![t] = Ended(@, "ok")]
    /\ UNCHANGED <<currentUser, hooks, refreshInProgress>>

DeleteReturns(t) ==
    /\ Answered(t) /\ task[t].op = "delete" /\ task[t].reply = "ok"
    /\ Stores(task[t])
    /\ SignsOut
    /\ location' = IF hooks THEN location ELSE "leaving"
    /\ task' = [task EXCEPT ![t] = Ended(@, "ok")]
    /\ UNCHANGED <<hooks, refreshInProgress>>

DeleteRefused(t) ==
    /\ Answered(t) /\ task[t].op = "delete" /\ task[t].reply \in {"unauthorized", "revoked"}
    /\ task' = [task EXCEPT ![t] = Ended(@, "refused")]
    /\ UNCHANGED <<page, refreshInProgress, jar>>

-----------------------------------------------------------------------------
(* _checkSessionInternal, and what follows it *)

Guards == {"guardPage", "guardRole"}

\* The check returns isAuthenticated as it is by then; a guard goes on in a turn of its own.
CheckReturns(t, user) ==
    task' = [task EXCEPT ![t] =
               LET checked == [@ EXCEPT !.user = user, !.ok = isAuthenticated']
               IN  IF @.op \in Guards THEN [checked EXCEPT !.phase = "guard"]
                   ELSE Ended(checked, IF @.op \in {"login", "verify"} \/ isAuthenticated'
                                         THEN "ok" ELSE "refused")]

\* Fault: an answer other than ok leaves the page as it was.
MeRefused_KeepsState(t) ==
    /\ task[t].phase = "me" /\ task[t].reply \in {"unauthorized", "failed"}
    /\ UNCHANGED <<isAuthenticated, currentUser>>
    /\ CheckReturns(t, NoUser)
    /\ UNCHANGED <<location, hooks, refreshInProgress, jar>>

MeRefused(t) == /\ task[t].phase = "me" /\ task[t].reply \in {"unauthorized", "failed"}
                /\ SignsOut
                /\ CheckReturns(t, NoUser)
                /\ UNCHANGED <<location, hooks, refreshInProgress, jar>>

\* The flag is set now, the user when the body was read.
MeAccepted(t) == /\ task[t].phase = "me" /\ task[t].reply = "ok"
                 /\ isAuthenticated' = TRUE
                 /\ task' = [task EXCEPT ![t].phase = "body"]
                 /\ UNCHANGED <<currentUser, location, hooks, refreshInProgress, jar>>

BodyRead(t) == /\ task[t].phase = "body" /\ task[t].reply = "ok"
               /\ currentUser' = pairs[task[t].sent].owner
               /\ UNCHANGED isAuthenticated
               /\ CheckReturns(t, pairs[task[t].sent].owner)
               /\ UNCHANGED <<location, hooks, refreshInProgress, jar>>

BodyLost(t) == /\ task[t].phase = "body" /\ task[t].reply = "failed"
               /\ SignsOut
               /\ CheckReturns(t, NoUser)
               /\ UNCHANGED <<location, hooks, refreshInProgress, jar>>

GuardPage(t) ==
    /\ task[t].op = "guardPage" /\ task[t].phase = "guard"
    /\ location' = IF task[t].ok \/ location = "login" THEN location ELSE "leaving"
    /\ task' = [task EXCEPT ![t] = Ended(@, IF @.ok THEN "passed" ELSE "turned")]
    /\ UNCHANGED <<isAuthenticated, currentUser, hooks, refreshInProgress, jar>>

\* The role is that of whoever is the current user when the guard resumes.
GuardRole(t) ==
    /\ task[t].op = "guardRole" /\ task[t].phase = "guard"
    /\ LET passes == task[t].ok /\ currentUser \in Admins
       IN  /\ location' = IF passes THEN location ELSE "leaving"
           /\ task' = [task EXCEPT ![t] = Ended(@, IF passes THEN "passed" ELSE "turned")]
    /\ UNCHANGED <<isAuthenticated, currentUser, hooks, refreshInProgress, jar>>

-----------------------------------------------------------------------------
\* A page opens with a session of some user or without one.  It has called
\* AwesomeNodeAuth.init with headless set, or not.
Init == /\ workload \in Workloads
        /\ isAuthenticated = FALSE
        /\ currentUser = NoUser
        /\ refreshInProgress = Idle
        /\ headless \in BOOLEAN
        /\ hooks \in IF \E t \in Tasks : "init" \in workload.ops[t] THEN {FALSE, headless} ELSE {headless}
        /\ location \in workload.locations
        /\ \/ jar = NoPair /\ pairs = <<>>
           \/ /\ jar = 1
              /\ \E u \in workload.users : pairs = <<[owner |-> u, renewal |-> "live", origin |-> Initial]>>
        /\ task = [t \in Tasks |-> NewTask]
        /\ losses = 0

Start(t) == \/ StartInit(t)
            \/ StartRequest(t)
            \/ StartVerify(t)
            \/ StartLogin(t)
            \/ StartLogout(t)
            \/ StartDelete(t)
            \/ StartCheck(t)
            \/ StartRefresh(t)

Step(t) == \/ RefreshReturns(t)
           \/ RenewFirst(t)
           \/ Retry(t)
           \/ ExpireWithHook(t)
           \/ EndSession(t)
           \/ ExpireSession(t)
           \/ RequestFails(t)
           \/ RequestReturns(t)
           \/ ConfigReturns(t)
           \/ SignInReturns(t)
           \/ LogoutReturns(t)
           \/ DeleteReturns(t)
           \/ DeleteRefused(t)
           \/ MeRefused(t)
           \/ MeAccepted(t)
           \/ BodyRead(t)
           \/ BodyLost(t)
           \/ GuardPage(t)
           \/ GuardRole(t)

\* What the server answers and what the browser then runs.
Progress == \/ \E t \in Tasks : Serve(t) \/ (Step(t) /\ UNCHANGED <<server, fixed>>)
            \/ ServeRefresh
            \/ RefreshSettles

Next == \/ Progress
        \/ \E t \in Tasks : Lose(t) \/ (Start(t) /\ UNCHANGED <<server, fixed>>)
        \/ LoseRefresh

Spec == Init /\ [][Next]_vars

\* A request that is out is answered (by the server, or after a bounded number of losses), and
\* the browser runs what it can resume: as long as one of these is possible, one happens.
FairSpec == Spec /\ WF_vars(Progress)

-----------------------------------------------------------------------------
(* Safety *)

\* Its /me was accepted.
Accepted(c) == task[c].phase = "body" \/ task[c].user # NoUser

Overlap(t, q) == t # q /\ t \notin task[q].after /\ q \notin task[t].after

(***************************************************************************)
(* The page never presents a refresh token that it has itself renewed: a   *)
(* server that treats such a token as stolen would end the session.  Only  *)
(* a renewal whose answer the network lost leaves the old token behind.    *)
(***************************************************************************)
PresentsCurrentPair ==
    refreshInProgress.active /\ refreshInProgress.reply = "none"
    /\ refreshInProgress.sent # NoPair
        => pairs[refreshInProgress.sent].renewal # "rotated"

(***************************************************************************)
(* After an answered logout, a session check finds no session, unless      *)
(* someone signed in who had not before the logout began, or a refresh     *)
(* was under way when the logout was answered and brought cookies back.    *)
(* The page itself takes somebody to be signed in on the word of a check   *)
(* that was not over when the logout began, and of no other.               *)
(***************************************************************************)
LogoutSticks ==
    /\ \A c \in Tasks : \A l \in task[c].after :
          /\ task[c].user # NoUser
          /\ task[l].op = "logout" /\ task[l].result = "ok" /\ ~task[l].mixed
          => pairs[task[c].sent].origin \notin task[l].after \cup {Initial}
    /\ \A l \in Tasks :
          task[l].op = "logout" /\ task[l].result = "ok" =>
             /\ isAuthenticated => \E c \in Tasks \ task[l].after : Accepted(c)
             /\ currentUser # NoUser =>
                  \E c \in Tasks \ task[l].after : task[c].user = currentUser

(***************************************************************************)
(* A guard lets nobody through on what the page believed before: its own   *)
(* /me was accepted, and the role it saw is that user's, or that of a      *)
(* user another check found while the guard ran.                           *)
(***************************************************************************)
GuardsAskTheServer ==
    \A t \in Tasks :
        task[t].result = "passed" =>
            /\ task[t].user # NoUser
            /\ task[t].op = "guardRole" =>
                 \/ task[t].user \in Admins
                 \/ \E c \in Tasks : Overlap(c, t) /\ task[c].user \in Admins

ClearsPage(t) == \/ task[t].phase = "done" /\ task[t].op \in {"logout", "delete"}
                 \/ task[t].phase \in {"guard", "done"} /\ task[t].user = NoUser
                 \/ task[t].result = "unauthorized"
                 \/ task[t].op = "init"

(***************************************************************************)
(* isAuthenticated and currentUser are written on two sides of an await.   *)
(* They disagree only while a check reads a body, or because something     *)
(* signed the page out in the middle of the check that wrote the user.     *)
(***************************************************************************)
FlagAndUserAgree ==
    /\ isAuthenticated /\ currentUser = NoUser =>
          \E c \in Tasks : task[c].phase = "body"
    /\ ~isAuthenticated /\ currentUser # NoUser =>
          \E c, q \in Tasks : Overlap(c, q) /\ task[c].user = currentUser /\ ClearsPage(q)

\* no-op hooks of a headless configuration are installed
HeadlessApplied == headless /\ hooks

(***************************************************************************)
(* The comments of auth.js say that in headless mode it never redirects.   *)
(***************************************************************************)
HeadlessNeverRedirects == [][HeadlessApplied => location' = location]_vars

-----------------------------------------------------------------------------
(* Liveness *)

(***************************************************************************)
(* Every call that was made ends, in particular those that wait for a      *)
(* refresh that another one started.                                       *)
(***************************************************************************)
EveryCallEnds == <>[](\A t \in Tasks : task[t].phase \in {"idle", "done"})
=============================================================================
