-------------------------- MODULE AccountFieldsProofs --------------------------
(***************************************************************************)
(* What Accounts guarantees of the fields of a record and of its links,    *)
(* for any requests, values, lifetimes, workloads and any bound on the     *)
(* clock.                                                                  *)
(***************************************************************************)
EXTENDS AccountsProofs

Fields == {"password", "email", "name"}

\* A call that is about to write a list of links back.
Writing(r) == request[r].phase = "update_oauth_links"

\* Once s replaced a field, it holds what s or a call not over before s wrote.
FieldsFollow == \A s \in Requests : \A f \in Fields :
    Replaced(s, request[s].user, f) /\ Exists(request[s].user)
        => MayFollow(request[s].user, f, users[request[s].user][f], s, Requests)

\* A password is the first one or was written by a call.
PasswordsFrom == \A u \in Ids : Exists(u) =>
    \/ users[u].password = FirstPassword(u)
    \/ \E q \in Requests : Replaced(q, u, "password") /\ request[q].value = users[u].password

Knew(r) ==
    LET u == request[r].user
        p == request[r].current
        others == Requests \ {r}
    IN  /\ \/ p = FirstPassword(u)
           \/ \E q \in others : Replaced(q, u, "password") /\ request[q].value = p
        /\ \A s \in request[r].after :
              Replaced(s, u, "password") => MayFollow(u, "password", p, s, others)

ChangesKnew == \A r \in Requests :
    request[r].op = "change_password" /\ (request[r].phase = "set_password_hash" \/ request[r].wrote)
        => Knew(r)

Moved(u) == \E c \in Requests : Replaced(c, u, "email") /\ request[c].value = users[u].email
FirstEmail(u) == IF u = Resident THEN HomeEmail ELSE request[u].value

EmailsFrom == \A u \in Ids : Exists(u) => users[u].email = FirstEmail(u) \/ Moved(u)

\* An account with the address that a signup looked up was moved there, or signed up at the
\* same time or later.
SignupsLooked == \A v \in Requests :
    request[v].op = "signup" /\ (request[v].phase = "create_user" \/ Exists(v)) =>
        \A u \in Ids \ {v} : Exists(u) /\ users[u].email = request[v].value =>
            Moved(u) \/ (u \in Requests /\ u \notin request[v].after)

\* Links: what explains that a link is gone, or back.
Later(c) == {q \in Requests \ {c} : Relinked(q, request[c].user) /\ q \notin request[c].after}
Overlapping(c) == {q \in Later(c) : c \notin request[q].after}

UnlinksFor(q, c) == /\ request[q].op = "unlink_account"
                    /\ request[q].value = request[request[c].token].value
LossExplained(c) == Overlapping(c) # {} \/ \E q \in Later(c) : UnlinksFor(q, c)
ReturnExplained(c, l) == Overlapping(c) # {} \/ \E q \in Later(c) : request[q].token = l.by

Completed(c) == request[c].op = "complete_account_link" /\ request[c].wrote
Unlinked(c) == request[c].op = "unlink_account" /\ request[c].wrote

HomeUnlinked == \E q \in Requests : /\ Relinked(q, Resident)
                                    /\ request[q].op = "unlink_account"
                                    /\ request[q].value = HomeProvider

LinksFollow ==
    /\ \A c \in Requests : Completed(c) /\ Exists(request[c].user)
          /\ LinkFrom(request[c].token) \notin users[request[c].user].links => LossExplained(c)
    /\ \A c \in Requests : Unlinked(c) /\ Exists(request[c].user) =>
          \A l \in OfProvider(users[request[c].user].links, request[c].value) : ReturnExplained(c, l)
    /\ Exists(Resident) /\ HomeLink \notin users[Resident].links => HomeUnlinked

\* The list l that q is about to write back.
ListFits(q, l) ==
    /\ request[q].op = "complete_account_link" => LinkFrom(request[q].token) \in l
    /\ request[q].op = "unlink_account" => OfProvider(l, request[q].value) = {}
    /\ \A c \in request[q].after : request[c].user = request[q].user =>
          /\ Completed(c) /\ LinkFrom(request[c].token) \notin l
                => LossExplained(c) \/ UnlinksFor(q, c)
          /\ Unlinked(c) => \A k \in OfProvider(l, request[c].value) :
                ReturnExplained(c, k) \/ request[q].token = k.by
    /\ request[q].user = Resident /\ HomeLink \notin l
          => HomeUnlinked \/ (request[q].op = "unlink_account" /\ request[q].value = HomeProvider)

ListsFollow == \A q \in Requests : Writing(q) => ListFits(q, request[q].links)

\* A call that is past its write of the links has made it, or found no record.
RelinksDone == \A r \in Requests : Relinks(r) =>
    /\ Effective(r) => request[r].wrote
    /\ request[r].phase = "reread_user" => request[r].wrote \/ ~Exists(request[r].user)

FInv == /\ FieldsFollow /\ PasswordsFrom /\ ChangesKnew /\ EmailsFrom /\ SignupsLooked
        /\ LinksFollow /\ ListsFollow /\ RelinksDone

LEMMA InitFInv == Init => FInv
<1> SUFFICES ASSUME Init PROVE FInv
  OBVIOUS
<1>1. /\ \A r \in Requests : /\ ~request[r].wrote /\ ~Relinked(r, Resident)
                             /\ request[r].op = "none" /\ request[r].phase = "idle"
      /\ \A u \in Ids : Exists(u) => u = Resident
      /\ users[Resident] = HomeUser
  BY DEF Init, IdleRequest, Relinked, Exists, Ids
<1>2. FieldsFollow /\ ChangesKnew /\ ListsFollow /\ SignupsLooked /\ RelinksDone
  BY <1>1 DEF FieldsFollow, ChangesKnew, ListsFollow, SignupsLooked, RelinksDone, Replaced, Writing, Relinks
<1>3. PasswordsFrom /\ EmailsFrom
  BY <1>1 DEF PasswordsFrom, EmailsFrom, FirstPassword, FirstEmail, HomeUser
<1>4. LinksFollow
  BY <1>1 DEF LinksFollow, Completed, Unlinked, HomeUser
<1>5. QED
  BY <1>2, <1>3, <1>4 DEF FInv

-----------------------------------------------------------------------------
(* How one step moves the records *)

\* r writes to the record of u.
Rewrites(r, u) ==
    /\ Exists(u) /\ u = request[r].user /\ request'[r].wrote
    /\ \A f \in Fields : \/ FieldOf(r) = f /\ users'[u][f] = request[r].value
                         \/ FieldOf(r) # f /\ users'[u][f] = users[u][f]
    /\ \/ Writing(r) /\ Relinks(r) /\ users'[u].links = request[r].links
       \/ ~Relinks(r) /\ users'[u].links = users[u].links

RecordStep(r) == \A u \in Ids : Exists(u)' =>
    \/ Exists(u) /\ users'[u] = users[u]
    \/ Rewrites(r, u)
    \/ u = r /\ At(r, "signup", "create_user") /\ users'[u] = NewUser(r)

FMoves(r) ==
    /\ SameCall(r) /\ Awaiting(r) /\ RecordStep(r)
    /\ request[r].wrote \/ Past(r) => SameLocals(r)
    /\ request[r].wrote => request'[r].wrote
    /\ request[r].op = "signup" => request'[r].value = request[r].value
    /\ request[r].op \in Acts => request'[r].user = request[r].user
    /\ request'[r].wrote /\ ~request[r].wrote =>
          \/ request[r].op \in {"signup", "delete_account"}
          \/ Rewrites(r, request[r].user) /\ SameLocals(r)
    /\ At(r, "change_password", "set_password_hash")
          \/ (request[r].op = "change_password" => request'[r].wrote = request[r].wrote)
    /\ request[r].op = "change_password" /\ request'[r].phase = "set_password_hash" => Knew(r)
    /\ request[r].op = "signup" /\ request'[r].phase = "create_user" =>
          users' = users /\ \A u \in Ids : ~HasEmail(u, request[r].value)
    /\ Writing(r)' => /\ ~request'[r].wrote /\ users' = users
                      /\ request'[r].user = request[r].user /\ request'[r].value = request[r].value
                      /\ ListFits(r, request'[r].links)
    /\ Relinks(r) => /\ Effective(r)' => Effective(r) \/ request'[r].wrote
                     /\ request'[r].phase = "reread_user"
                          => request'[r].wrote \/ ~Exists(request[r].user)'

\* What the history of writes keeps: it only grows.
LEMMA HistoryGrows ==
    ASSUME IInv, IInv', NEW r \in Requests, FMoves(r)
    PROVE  /\ \A q \in Requests :
                /\ request'[q].op = request[q].op /\ request'[q].current = request[q].current
                /\ request'[q].token = request[q].token /\ request'[q].after = request[q].after
                /\ request[q].wrote \/ Past(q) =>
                      request'[q].user = request[q].user /\ request'[q].value = request[q].value
                /\ request[q].wrote => request'[q].wrote
                /\ request'[q].wrote /\ q # r => request[q].wrote
           /\ \A q \in Requests : \A p \in request[q].after :
                p \in Requests /\ p # r /\ request'[p] = request[p] /\ Past(p)
           /\ \A q \in Requests : request[q].wrote /\ request[q].op \in Acts \cup Takes =>
                request[q].user \in Ids /\ Settled(request[q].user)
           /\ \A q \in Requests : request'[q].wrote /\ request[q].op \in Acts \cup Takes =>
                request'[q].user \in Ids
           /\ \A u \in Ids : Exists(u) => Settled(u)
           /\ \A u \in Ids : Settled(u) => u = Resident \/ (u \in Requests /\ u # Resident /\ Past(u))
<1>1. /\ request \in [Requests -> Request] /\ request' \in [Requests -> Request]
      /\ SameCall(r) /\ Others(r)
  BY DEF IInv, TypeOK, FMoves, SameCall
<1>2. \A q \in Requests :
        /\ request'[q].op = request[q].op /\ request'[q].current = request[q].current
        /\ request'[q].token = request[q].token /\ request'[q].after = request[q].after
        /\ request[q].wrote \/ Past(q) =>
              request'[q].user = request[q].user /\ request'[q].value = request[q].value
        /\ request[q].wrote => request'[q].wrote
        /\ request'[q].wrote /\ q # r => request[q].wrote
  BY <1>1 DEF FMoves, SameLocals, SameCall, Others
<1>3. \A q \in Requests : \A p \in request[q].after :
        p \in Requests /\ p # r /\ request'[p] = request[p] /\ Past(p)
  BY <1>1 DEF IInv, CallsOK, Others, FMoves, Awaiting, Answered, Past, Request
<1>4. \A q \in Requests : request[q].wrote /\ request[q].op \in Acts \cup Takes =>
        request[q].user \in Ids /\ Settled(request[q].user)
  <2> SUFFICES ASSUME NEW q \in Requests, request[q].wrote, request[q].op \in Acts \cup Takes
               PROVE  request[q].user \in Ids /\ Settled(request[q].user)
    OBVIOUS
  <2>1. request[q].user # None
    BY DEF IInv, CallsOK, TakenOK, Took
  <2>2. QED
    BY <1>1, <2>1 DEF IInv, CallsOK, Request
<1>5. \A q \in Requests : request'[q].wrote /\ request[q].op \in Acts \cup Takes =>
        request'[q].user \in Ids
  <2> SUFFICES ASSUME NEW q \in Requests, request'[q].wrote, request'[q].op \in Acts \cup Takes
               PROVE  request'[q].user \in Ids
    BY <1>2
  <2>1. request'[q].user # None
    BY DEF IInv, CallsOK, TakenOK, Took
  <2>2. QED
    BY <1>1, <2>1 DEF Request
<1>6. /\ \A u \in Ids : Exists(u) => Settled(u)
      /\ \A u \in Ids : Settled(u) => u = Resident \/ (u \in Requests /\ u # Resident /\ Past(u))
  BY AccountAssumption DEF IInv, StoresOK, Settled
<1>7. QED
  BY <1>2, <1>3, <1>4, <1>5, <1>6

\* The fields of a record that was there before keep their values, or r replaces them.
LEMMA FieldsMove ==
    ASSUME IInv, IInv', NEW r \in Requests, FMoves(r)
    PROVE  /\ \A q \in Requests : FieldOf(q)' = FieldOf(q)
           /\ \A q \in Requests : FieldOf(q) \in Fields => request[q].op \in Acts \cup Takes
           /\ \A q \in Requests, u \in Ids, f \in Fields : Replaced(q, u, f) =>
                Replaced(q, u, f)' /\ request'[q].value = request[q].value
           /\ \A u \in Ids, f \in Fields : Exists(u)' /\ Settled(u) =>
                /\ Exists(u)
                /\ \/ users'[u][f] = users[u][f]
                   \/ /\ users'[u][f] = request[r].value /\ request'[r].value = request[r].value
                      /\ Replaced(r, u, f)'
           /\ \A u \in Ids : Exists(u)' /\ ~Settled(u) => u = r /\ users'[u] = NewUser(r)
<1>1. \A q \in Requests : FieldOf(q)' = FieldOf(q)
  BY HistoryGrows DEF FieldOf
<1>2. \A q \in Requests : FieldOf(q) \in Fields => request[q].op \in Acts \cup Takes
  BY DEF FieldOf, Fields, Acts, Takes
<1>3. \A q \in Requests, u \in Ids, f \in Fields : Replaced(q, u, f) => Replaced(q, u, f)'
  BY <1>1, HistoryGrows DEF Replaced
<1>5. \A u \in Ids, f \in Fields : Exists(u)' /\ Settled(u) =>
        /\ Exists(u)
        /\ \/ users'[u][f] = users[u][f]
           \/ /\ users'[u][f] = request[r].value /\ request'[r].value = request[r].value
              /\ Replaced(r, u, f)'
  <2> SUFFICES ASSUME NEW u \in Ids, NEW f \in Fields, Exists(u)', Settled(u)
               PROVE  /\ Exists(u)
                      /\ \/ users'[u][f] = users[u][f]
                         \/ /\ users'[u][f] = request[r].value /\ request'[r].value = request[r].value
                            /\ Replaced(r, u, f)'
    OBVIOUS
  <2>1. u # r \/ ~At(r, "signup", "create_user")
    <3>1. Settled(u) => u = Resident \/ Past(u)
      BY HistoryGrows
    <3>2. QED
      BY <3>1, AccountAssumption DEF At, Past
  <2>2. CASE Exists(u) /\ users'[u] = users[u]
    BY <2>2
  <2>3. CASE Rewrites(r, u)
    <3>1. FieldOf(r) = f => request[r].op \notin {"signup", "delete_account"}
      BY <1>2 DEF Acts, Takes, FieldOf, Fields
    <3>2. FieldOf(r) = f => SameLocals(r)
      BY <2>3, <3>1 DEF FMoves, Rewrites
    <3>3. QED
      BY <1>1, <2>3, <3>2 DEF Rewrites, Replaced, SameLocals
  <2>4. QED
    BY <2>1, <2>2, <2>3 DEF FMoves, RecordStep
<1>6. \A u \in Ids : Exists(u)' /\ ~Settled(u) => u = r /\ users'[u] = NewUser(r)
  BY HistoryGrows DEF FMoves, RecordStep, Rewrites
<1>7. \A q \in Requests, u \in Ids, f \in Fields : Replaced(q, u, f) => request'[q].value = request[q].value
  BY HistoryGrows DEF Replaced
<1>8. QED
  BY <1>1, <1>2, <1>3, <1>5, <1>6, <1>7

LEMMA FieldKeeps ==
    ASSUME IInv, IInv', FInv, NEW r \in Requests, FMoves(r)
    PROVE  FieldsFollow' /\ PasswordsFrom' /\ ChangesKnew'
<1>1. \A q \in Requests : FieldOf(q)' = FieldOf(q)
  BY FieldsMove
<1>2. \A q \in Requests : FieldOf(q) \in Fields => request[q].op \in Acts \cup Takes
  BY FieldsMove
<1>3. \A q \in Requests, u \in Ids, f \in Fields : Replaced(q, u, f) => Replaced(q, u, f)'
  BY FieldsMove
<1>4. ASSUME NEW s \in Requests, NEW u \in Ids, NEW f \in Fields, NEW v,
             request[s].wrote, MayFollow(u, f, v, s, Requests)
      PROVE  MayFollow(u, f, v, s, Requests)'
  <2>1. request'[s].value = request[s].value /\ request'[s].after = request[s].after
    BY <1>4, HistoryGrows
  <2>2. \A q \in Requests : Replaced(q, u, f) =>
          Replaced(q, u, f)' /\ request'[q].value = request[q].value
    BY <1>3, HistoryGrows DEF Replaced
  <2>3. QED
    BY <1>4, <2>1, <2>2 DEF MayFollow
<1>5. \A u \in Ids, f \in Fields : Exists(u)' /\ Settled(u) =>
        /\ Exists(u)
        /\ \/ users'[u][f] = users[u][f]
           \/ /\ users'[u][f] = request[r].value /\ request'[r].value = request[r].value
              /\ Replaced(r, u, f)'
  BY FieldsMove
<1>6. FieldsFollow'
  <2> SUFFICES ASSUME NEW s \in Requests, NEW f \in Fields, NEW u \in Ids, u = request'[s].user,
                      Replaced(s, u, f)', Exists(u)'
               PROVE  MayFollow(u, f, users[u][f], s, Requests)'
    BY <1>1, <1>2, HistoryGrows DEF FieldsFollow, Replaced
  <2>1. CASE request[s].wrote
    <3>1. /\ Settled(u) /\ Replaced(s, u, f) /\ u = request[s].user
      BY <1>1, <1>2, <2>1, HistoryGrows DEF Replaced
    <3>2. Exists(u) /\ MayFollow(u, f, users[u][f], s, Requests)
      BY <1>5, <3>1 DEF FInv, FieldsFollow
    <3>3. CASE users'[u][f] = users[u][f]
      <4>1. PICK v : v = users[u][f] /\ v = users'[u][f]
        BY <3>3
      <4>2. MayFollow(u, f, v, s, Requests)'
        BY <1>4, <2>1, <3>2, <4>1
      <4>3. QED
        BY <4>1, <4>2 DEF MayFollow
    <3>4. CASE /\ users'[u][f] = request[r].value /\ request'[r].value = request[r].value
               /\ Replaced(r, u, f)'
      <4>1. r \notin request'[s].after
        BY HistoryGrows
      <4>2. QED
        BY <3>4, <4>1 DEF MayFollow
    <3>5. QED
      BY <1>5, <3>1, <3>3, <3>4
  <2>2. CASE ~request[s].wrote
    <3>1. s = r /\ request'[r].wrote
      BY <2>2, HistoryGrows DEF Replaced
    <3>2. FieldOf(r) = f
      BY <1>1, <3>1 DEF Replaced
    <3>3. request[r].op \notin {"signup", "delete_account"}
      BY <3>2 DEF Fields, FieldOf
    <3>4. Rewrites(r, u) /\ request'[r].value = request[r].value
      BY <2>2, <3>1, <3>3 DEF FMoves, SameLocals
    <3>5. users'[u][f] = request'[s].value
      BY <3>1, <3>2, <3>4 DEF Rewrites
    <3>6. QED
      BY <3>5 DEF MayFollow
  <2>3. QED
    BY <2>1, <2>2
<1>7. PasswordsFrom'
  <2> SUFFICES ASSUME NEW u \in Ids, Exists(u)'
               PROVE  \/ users'[u].password = FirstPassword(u)'
                      \/ \E q \in Requests : Replaced(q, u, "password")' /\ request'[q].value = users'[u].password
    BY DEF PasswordsFrom
  <2>1. FirstPassword(u)' = FirstPassword(u)
    BY HistoryGrows DEF FirstPassword, Ids
  <2>2. CASE Settled(u)
    <3>1. Exists(u)
      BY <1>5, <2>2 DEF Fields
    <3>2. CASE users'[u].password = users[u].password
      <4>1. CASE users[u].password = FirstPassword(u)
        BY <2>1, <3>2, <4>1
      <4>2. CASE \E q \in Requests : Replaced(q, u, "password") /\ request[q].value = users[u].password
        <5>1. PICK q \in Requests : Replaced(q, u, "password") /\ request[q].value = users[u].password
          BY <4>2
        <5>2. Replaced(q, u, "password")' /\ request'[q].value = request[q].value
          BY <1>3, <5>1, HistoryGrows DEF Replaced, Fields
        <5>3. QED
          BY <3>2, <5>1, <5>2
      <4>3. QED
        BY <3>1, <4>1, <4>2 DEF FInv, PasswordsFrom
    <3>3. CASE /\ users'[u].password = request[r].value /\ request'[r].value = request[r].value
               /\ Replaced(r, u, "password")'
      BY <3>3
    <3>4. QED
      BY <1>5, <2>2, <3>2, <3>3 DEF Fields
  <2>3. CASE ~Settled(u)
    <3>2. u = r /\ users'[u] = NewUser(r)
      BY <2>3, FieldsMove
    <3>3. FirstPassword(u) = request[r].current
      BY <3>2, AccountAssumption DEF FirstPassword
    <3>4. QED
      BY <2>1, <3>2, <3>3 DEF NewUser
  <2>4. QED
    BY <2>2, <2>3
<1>8. ChangesKnew'
  <2> SUFFICES ASSUME NEW q \in Requests, request'[q].op = "change_password",
                      request'[q].phase = "set_password_hash" \/ request'[q].wrote
               PROVE  Knew(q)'
    BY DEF ChangesKnew
  <2>1. request[q].op = "change_password" /\ request'[q].user = request[q].user
        /\ request[q].user \in Ids
    <3>1. request[q].op = "change_password" /\ request[q].user # None
      BY HistoryGrows DEF IInv, CallsOK, Acts
    <3>2. request'[q].user = request[q].user
      BY <3>1 DEF FMoves, Acts, SameCall, Others
    <3>3. QED
      BY <3>1, <3>2 DEF IInv, TypeOK, Request
  <2>2. Knew(q)
    <3>1. CASE q = r
      BY <2>1, <3>1 DEF FMoves, At, FInv, ChangesKnew
    <3>2. CASE q # r
      BY <2>1, <3>2 DEF FMoves, SameCall, Others, FInv, ChangesKnew
    <3>3. QED
      BY <3>1, <3>2
  <2> DEFINE others == Requests \ {q}
  <2>3. PICK u \in Ids : u = request[q].user
    BY <2>1
  <2>4. PICK p \in Values : p = request[q].current
    BY DEF IInv, TypeOK, Request, Values
  <2>5. request'[q].current = p /\ request'[q].after = request[q].after
    BY <2>4, HistoryGrows
  <2>6. FirstPassword(u)' = FirstPassword(u)
    BY HistoryGrows DEF FirstPassword, Ids
  <2>7. \/ p = FirstPassword(u)'
        \/ \E w \in others : Replaced(w, u, "password")' /\ request'[w].value = p
    <3>1. CASE p = FirstPassword(u)
      BY <2>6, <3>1
    <3>2. CASE \E w \in others : Replaced(w, u, "password") /\ request[w].value = p
      <4>1. PICK w \in others : Replaced(w, u, "password") /\ request[w].value = p
        BY <3>2
      <4>2. Replaced(w, u, "password")' /\ request'[w].value = p
        BY <1>3, <4>1, HistoryGrows DEF Replaced, Fields
      <4>3. QED
        BY <4>2
    <3>3. QED
      BY <2>2, <2>3, <2>4, <3>1, <3>2 DEF Knew
  <2>8. ASSUME NEW s \in request[q].after, Replaced(s, u, "password")'
        PROVE  MayFollow(u, "password", p, s, others)'
    <3>1. s \in Requests /\ request'[s] = request[s] /\ s # r
      BY HistoryGrows
    <3>2. Replaced(s, u, "password")
      BY <1>1, <2>8, <3>1 DEF Replaced
    <3>3. MayFollow(u, "password", p, s, others)
      BY <2>2, <2>3, <2>4, <3>2 DEF Knew
    <3>4. CASE request[s].value = p
      BY <3>1, <3>4 DEF MayFollow
    <3>5. CASE \E w \in others : Replaced(w, u, "password") /\ request[w].value = p /\ w \notin request[s].after
      <4>1. PICK w \in others : Replaced(w, u, "password") /\ request[w].value = p /\ w \notin request[s].after
        BY <3>5
      <4>2. Replaced(w, u, "password")' /\ request'[w].value = p
        BY <1>3, <4>1, HistoryGrows DEF Replaced, Fields
      <4>3. QED
        BY <3>1, <4>1, <4>2 DEF MayFollow
    <3>6. QED
      BY <3>3, <3>4, <3>5 DEF MayFollow
  <2>9. QED
    <3>1. request'[q].user = u /\ request'[q].current = p
      BY <2>1, <2>3, <2>5
    <3>2. \A s \in request'[q].after : Replaced(s, u, "password")' => MayFollow(u, "password", p, s, others)'
      BY <2>5, <2>8
    <3>3. QED
      BY <2>7, <3>1, <3>2 DEF Knew, Replaced, MayFollow, FirstPassword
<1>9. QED
  BY <1>6, <1>7, <1>8
LEMMA EmailKeeps ==
    ASSUME IInv, IInv', FInv, NEW r \in Requests, FMoves(r)
    PROVE  EmailsFrom' /\ SignupsLooked'
<1>1. \A u \in Ids : Moved(u) /\ users'[u].email = users[u].email => Moved(u)'
  <2> SUFFICES ASSUME NEW u \in Ids, Moved(u), users'[u].email = users[u].email
               PROVE  Moved(u)'
    OBVIOUS
  <2>1. PICK c \in Requests : Replaced(c, u, "email") /\ request[c].value = users[u].email
    BY DEF Moved
  <2>2. Replaced(c, u, "email")' /\ request'[c].value = request[c].value
    BY <2>1, FieldsMove DEF Fields
  <2>3. QED
    BY <2>1, <2>2 DEF Moved
<1>2. \A u \in Ids : Exists(u)' /\ Settled(u) =>
        Exists(u) /\ (users'[u].email = users[u].email \/ Moved(u)')
  <2> SUFFICES ASSUME NEW u \in Ids, Exists(u)', Settled(u)
               PROVE  Exists(u) /\ (users'[u].email = users[u].email \/ Moved(u)')
    OBVIOUS
  <2>1. /\ Exists(u)
        /\ \/ users'[u]["email"] = users[u]["email"]
           \/ /\ users'[u]["email"] = request[r].value /\ request'[r].value = request[r].value
              /\ Replaced(r, u, "email")'
    BY FieldsMove DEF Fields
  <2>2. QED
    BY <2>1 DEF Moved
<1>3. \A q \in Requests : request[q].op = "signup" => request'[q].value = request[q].value
  BY DEF FMoves, SameCall, Others
<1>4. EmailsFrom'
  <2> SUFFICES ASSUME NEW u \in Ids, Exists(u)'
               PROVE  users'[u].email = FirstEmail(u)' \/ Moved(u)'
    BY DEF EmailsFrom
  <2>1. CASE Settled(u)
    <3>1. FirstEmail(u)' = FirstEmail(u)
      BY <2>1, HistoryGrows DEF FirstEmail
    <3>2. QED
      BY <1>1, <1>2, <2>1, <3>1 DEF FInv, EmailsFrom
  <2>2. CASE ~Settled(u)
    <3>1. u = r /\ users'[u] = NewUser(r)
      BY <2>2, FieldsMove
    <3>2. At(r, "signup", "create_user")
      BY <2>2, <3>1, HistoryGrows DEF FMoves, RecordStep, Rewrites
    <3>3. FirstEmail(u)' = request[r].value
      BY <1>3, <3>1, <3>2, AccountAssumption DEF FirstEmail, At
    <3>4. QED
      BY <3>1, <3>3 DEF NewUser
  <2>3. QED
    BY <2>1, <2>2
<1>5. SignupsLooked'
  <2> SUFFICES ASSUME NEW v \in Requests, request'[v].op = "signup",
                      request'[v].phase = "create_user" \/ Exists(v)',
                      NEW u \in Ids \ {v}, Exists(u)', users'[u].email = request'[v].value
               PROVE  Moved(u)' \/ (u \in Requests /\ u \notin request'[v].after)
    BY DEF SignupsLooked
  <2>1. request[v].op = "signup" /\ request'[v].value = request[v].value
    BY <1>3, HistoryGrows
  <2>2. CASE ~Settled(u)
    BY <2>2, FieldsMove, HistoryGrows
  <2>3. CASE Settled(u) /\ users'[u].email = users[u].email
    <3>1. Exists(u) /\ users[u].email = request[v].value
      BY <1>2, <2>1, <2>3
    <3>2. CASE request[v].phase = "create_user" \/ Exists(v)
      <4>1. Moved(u) \/ (u \in Requests /\ u \notin request[v].after)
        BY <2>1, <3>1, <3>2 DEF FInv, SignupsLooked
      <4>2. QED
        BY <1>1, <2>3, <4>1, HistoryGrows
    <3>3. CASE request[v].phase # "create_user" /\ ~Exists(v)
      <4>1. ~Exists(v)'
        <5> SUFFICES ASSUME Exists(v)' PROVE FALSE
          OBVIOUS
        <5>1. v = r /\ At(r, "signup", "create_user")
          BY <3>3 DEF FMoves, RecordStep, Rewrites, Ids
        <5>2. QED
          BY <3>3, <5>1 DEF At
      <4>2. v = r /\ request'[r].phase = "create_user"
        BY <3>3, <4>1 DEF FMoves, SameCall, Others
      <4>3. ~HasEmail(u, request[v].value)
        BY <2>1, <4>2 DEF FMoves
      <4>4. QED
        BY <3>1, <4>3 DEF HasEmail
    <3>4. QED
      BY <3>2, <3>3
  <2>4. QED
    BY <1>2, <2>2, <2>3
<1>6. QED
  BY <1>4, <1>5

-----------------------------------------------------------------------------
(* The lists of links *)

\* What explains a link that is gone, or back, explains it after the step.
LEMMA ExplanationsGrow ==
    ASSUME IInv, IInv', NEW r \in Requests, FMoves(r)
    PROVE  /\ \A q \in Requests : \A u \in Ids : Relinked(q, u) => Relinked(q, u)'
           /\ \A c \in Requests : request[c].op \in Takes =>
                request[c].token \in Requests /\ LinkFrom(request[c].token)' = LinkFrom(request[c].token)
           /\ \A c \in Requests : Relinks(c) /\ request[c].wrote =>
                /\ request[c].user \in Ids /\ request'[c].user = request[c].user
                /\ request'[c].value = request[c].value
                /\ Later(c) \subseteq Later(c)' /\ Overlapping(c) \subseteq Overlapping(c)'
           /\ \A c \in Requests : Completed(c) /\ LossExplained(c) => LossExplained(c)'
           /\ \A c \in Requests : Unlinked(c) =>
                \A l \in Link : ReturnExplained(c, l) => ReturnExplained(c, l)'
           /\ HomeUnlinked => HomeUnlinked'
<1>1. \A q \in Requests : (Relinks(q)' <=> Relinks(q)) /\ (Relinks(q) => request[q].op \in Acts \cup Takes)
  BY HistoryGrows DEF Relinks, Acts, Takes
<1>2. \A q \in Requests : \A u \in Ids : Relinked(q, u) =>
        Relinked(q, u)' /\ request'[q].value = request[q].value
  BY <1>1, HistoryGrows DEF Relinked
<1>3. \A c \in Requests : request[c].op \in Takes =>
        /\ request[c].token \in Requests /\ request'[c].token = request[c].token
        /\ request'[request[c].token].value = request[request[c].token].value
        /\ LinkFrom(request[c].token)' = LinkFrom(request[c].token)
  <2> SUFFICES ASSUME NEW c \in Requests, request[c].op \in Takes
               PROVE  /\ request[c].token \in Requests /\ request'[c].token = request[c].token
                      /\ request'[request[c].token].value = request[request[c].token].value
                      /\ LinkFrom(request[c].token)' = LinkFrom(request[c].token)
    OBVIOUS
  <2>1. PICK t \in Requests : t = request[c].token /\ Past(t)
    BY DEF IInv, CallsOK
  <2>2. request'[c].token = t /\ request'[t].value = request[t].value
    BY <2>1, HistoryGrows
  <2>3. QED
    BY <2>1, <2>2 DEF LinkFrom
<1>4. ASSUME NEW c \in Requests, Relinks(c), request[c].wrote
      PROVE  /\ request[c].user \in Ids /\ request'[c].user = request[c].user
             /\ request'[c].value = request[c].value
             /\ Later(c) \subseteq Later(c)' /\ Overlapping(c) \subseteq Overlapping(c)'
             /\ \A q \in Later(c) : q \in Requests /\ request'[q].value = request[q].value
  <2>1. PICK u \in Ids : u = request[c].user
    BY <1>1, <1>4, HistoryGrows
  <2>2. request'[c].user = u /\ request'[c].value = request[c].value /\ request'[c].after = request[c].after
    BY <1>4, <2>1, HistoryGrows
  <2>3. \A q \in Later(c) : q \in Later(c)' /\ q \in Requests /\ request'[q].value = request[q].value
    <3>1. \A q \in Later(c) : q \in Requests \ {c} /\ Relinked(q, u) /\ q \notin request[c].after
      BY <2>1 DEF Later
    <3>2. Later(c)' = {q \in Requests \ {c} : Relinked(q, u)' /\ q \notin request'[c].after}
      BY <2>2 DEF Later, Relinked
    <3>3. QED
      BY <1>2, <2>2, <3>1, <3>2
  <2>4. \A q \in Overlapping(c) : q \in Overlapping(c)'
    BY <2>3, HistoryGrows DEF Overlapping
  <2>5. QED
    BY <2>1, <2>2, <2>3, <2>4
<1>5. ASSUME NEW c \in Requests, Completed(c), LossExplained(c) PROVE LossExplained(c)'
  <2>1. Relinks(c) /\ request[c].wrote /\ request[c].op \in Takes
    BY <1>5 DEF Completed, Relinks, Takes
  <2>2. \A q \in Later(c) : UnlinksFor(q, c) => UnlinksFor(q, c)'
    <3>1. request'[c].token = request[c].token
          /\ request'[request[c].token].value = request[request[c].token].value
      BY <1>3, <2>1
    <3>2. QED
      BY <1>4, <2>1, <3>1, HistoryGrows DEF UnlinksFor
  <2>3. QED
    BY <1>4, <1>5, <2>1, <2>2 DEF LossExplained
<1>6. ASSUME NEW c \in Requests, Unlinked(c), NEW l \in Link, ReturnExplained(c, l)
      PROVE  ReturnExplained(c, l)'
  <2>1. Relinks(c) /\ request[c].wrote
    BY <1>6 DEF Unlinked, Relinks
  <2>2. \A q \in Later(c) : q \in Requests /\ request'[q].token = request[q].token
    BY HistoryGrows DEF Later
  <2>3. QED
    BY <1>4, <1>6, <2>1, <2>2 DEF ReturnExplained
<1>7. HomeUnlinked => HomeUnlinked'
  BY <1>2, HistoryGrows DEF HomeUnlinked, Ids
<1>8. QED
  BY <1>2, <1>3, <1>4, <1>5, <1>6, <1>7

LEMMA ListFitsStays ==
    ASSUME IInv, IInv', NEW r \in Requests, FMoves(r), NEW q \in Requests, NEW l \in SUBSET Link,
           Relinks(q), request[q].user \in Ids,
           request'[q].user = request[q].user, request'[q].value = request[q].value, ListFits(q, l)
    PROVE  ListFits(q, l)'
<1>1. /\ request'[q].op = request[q].op /\ request'[q].token = request[q].token
      /\ request'[q].after = request[q].after
  BY HistoryGrows
<1>2. request'[q].op = "complete_account_link" => LinkFrom(request[q].token)' \in l
  BY <1>1, ExplanationsGrow DEF ListFits, Takes
<1>3. request'[q].op = "unlink_account" => OfProvider(l, request'[q].value) = {}
  BY <1>1 DEF ListFits
<1>4. ASSUME NEW c \in request'[q].after, request'[c].user = request'[q].user
      PROVE  /\ Completed(c)' /\ LinkFrom(request[c].token)' \notin l
                  => LossExplained(c)' \/ UnlinksFor(q, c)'
             /\ Unlinked(c)' => \A k \in OfProvider(l, request'[c].value) :
                  ReturnExplained(c, k)' \/ request'[q].token = k.by
  <2>1. c \in request[q].after /\ c \in Requests /\ request'[c] = request[c]
    BY <1>1, <1>4, HistoryGrows
  <2>2. ASSUME Completed(c)', LinkFrom(request[c].token)' \notin l
        PROVE  LossExplained(c)' \/ UnlinksFor(q, c)'
    <3>1. Completed(c) /\ request[c].op \in Takes
      BY <2>1, <2>2 DEF Completed, Takes
    <3>2. PICK t \in Requests : /\ t = request[c].token /\ t = request'[c].token
                                /\ LinkFrom(request[c].token)' = LinkFrom(t)
      BY <2>1, <3>1, ExplanationsGrow
    <3>3. LossExplained(c) \/ UnlinksFor(q, c)
      BY <1>4, <2>1, <2>2, <3>1, <3>2 DEF ListFits
    <3>4. request'[t].value = request[t].value
      BY <3>2 DEF LinkFrom
    <3>5. UnlinksFor(q, c) => UnlinksFor(q, c)'
      BY <1>1, <3>2, <3>4 DEF UnlinksFor
    <3>6. QED
      BY <2>1, <3>1, <3>3, <3>5, ExplanationsGrow
  <2>3. ASSUME Unlinked(c)', NEW k \in OfProvider(l, request'[c].value)
        PROVE  ReturnExplained(c, k)' \/ request'[q].token = k.by
    <3>1. Unlinked(c) /\ k \in OfProvider(l, request[c].value) /\ k \in Link
      BY <2>1, <2>3 DEF Unlinked, OfProvider
    <3>2. ReturnExplained(c, k) \/ request[q].token = k.by
      BY <1>4, <2>1, <3>1 DEF ListFits
    <3>3. QED
      BY <1>1, <3>1, <3>2, ExplanationsGrow, <2>1
  <2>4. QED
    BY <2>2, <2>3
<1>5. request'[q].user = Resident /\ HomeLink \notin l
        => HomeUnlinked' \/ (request'[q].op = "unlink_account" /\ request'[q].value = HomeProvider)
  BY <1>1, ExplanationsGrow DEF ListFits
<1>7. QED
  BY <1>2, <1>3, <1>4, <1>5 DEF ListFits

LEMMA ListsKeep == ASSUME IInv, IInv', FInv, NEW r \in Requests, FMoves(r) PROVE ListsFollow'
<1> SUFFICES ASSUME NEW q \in Requests, Writing(q)'
             PROVE  ListFits(q, request[q].links)'
  BY DEF ListsFollow
<1>1. PICK l \in SUBSET Link : l = request'[q].links
  BY DEF IInv, TypeOK, Request
<1>2. /\ Relinks(q) /\ request'[q].user = request[q].user /\ request'[q].value = request[q].value
      /\ ListFits(q, l)
  <2>1. Relinks(q)
    BY HistoryGrows DEF IInv, PhasesOK, PhaseFits, Writing, Relinks
  <2>2. CASE q = r
    BY <1>1, <2>1, <2>2 DEF FMoves
  <2>3. CASE q # r
    BY <1>1, <2>1, <2>3 DEF FMoves, SameCall, Others, Writing, FInv, ListsFollow
  <2>4. QED
    BY <2>2, <2>3, <2>1
<1>3. request[q].user \in Ids
  <2>1. request'[q].user # None
    <3>1. /\ request'[q].op \in Acts => request'[q].user # None
          /\ Took(q)' => request'[q].user # None
      BY DEF IInv, CallsOK, TakenOK
    <3>2. request'[q].op \in {"complete_account_link", "unlink_account"}
      BY <1>2, HistoryGrows DEF Relinks
    <3>3. QED
      BY <3>1, <3>2 DEF Took, Acts, Takes, Writing
  <2>2. QED
    BY <1>2, <2>1 DEF IInv, TypeOK, Request
<1>4. ListFits(q, l)'
  BY <1>2, <1>3, ListFitsStays
<1>5. QED
  BY <1>1, <1>4 DEF ListFits

\* r writes a list back that its call may write.
LEMMA ListWritten ==
    ASSUME IInv, IInv', FInv, NEW r \in Requests, FMoves(r), NEW u \in Ids, Rewrites(r, u),
           users'[u].links # users[u].links
    PROVE  /\ ListFits(r, users'[u].links) /\ Relinks(r) /\ Relinked(r, u)' /\ ~request[r].wrote
           /\ request[r].user = u
           /\ request'[r].value = request[r].value /\ request'[r].user = u
<1>1. /\ Writing(r) /\ Relinks(r) /\ users'[u].links = request[r].links /\ request'[r].wrote
      /\ request[r].user = u
  BY DEF Rewrites
<1>2. ~request[r].wrote
  BY <1>1 DEF IInv, PhasesOK, PhaseFits, Past, Writing
<1>3. SameLocals(r)
  BY <1>1, <1>2 DEF FMoves, Relinks
<1>4. Relinks(r)'
  BY <1>1, <1>3 DEF SameLocals, SameCall, Relinks
<1>5. QED
  BY <1>1, <1>2, <1>3, <1>4 DEF FInv, ListsFollow, SameLocals, Relinked

\* The list of a record that was there before stays, or r writes it.
LEMMA ListMoves ==
    ASSUME IInv, IInv', NEW r \in Requests, FMoves(r), NEW u \in Ids, Exists(u)', Settled(u)
    PROVE  Exists(u) /\ (users'[u].links = users[u].links \/ Rewrites(r, u))
<1>1. u # r \/ ~At(r, "signup", "create_user")
  BY HistoryGrows, AccountAssumption DEF At, Past
<1>2. QED
  BY <1>1 DEF FMoves, RecordStep, Rewrites

\* r is later than any call that wrote before.
LEMMA WriterIsLater ==
    ASSUME IInv, IInv', FInv, NEW r \in Requests, FMoves(r), NEW u \in Ids, Rewrites(r, u),
           users'[u].links # users[u].links,
           NEW c \in Requests, Relinks(c), request[c].wrote, request[c].user = u
    PROVE  /\ c # r /\ r \in Later(c)'
           /\ c \notin request[r].after => r \in Overlapping(c)'
<1>1. Relinked(r, u)' /\ c # r
  BY ListWritten
<1>2. request'[c].user = u
  BY HistoryGrows
<1>3. r \notin request'[c].after
  BY HistoryGrows
<1>4. r \in Later(c)'
  BY <1>1, <1>2, <1>3 DEF Later, Relinked
<1>5. QED
  BY <1>1, <1>4, HistoryGrows DEF Overlapping

LEMMA LossFollows ==
    ASSUME IInv, IInv', FInv, NEW r \in Requests, FMoves(r), NEW c \in Requests, Completed(c)',
           Exists(request[c].user)', LinkFrom(request[c].token)' \notin users'[request'[c].user].links
    PROVE  LossExplained(c)'
<1>1. Relinks(c) /\ request[c].op = "complete_account_link" /\ request[c].op \in Takes
  BY HistoryGrows DEF Completed, Relinks, Takes
<1>2. PICK u \in Ids : u = request'[c].user
  BY <1>1, HistoryGrows DEF Completed
<1>3. Exists(u)' /\ LinkFrom(request[c].token) \notin users'[u].links
  BY <1>1, <1>2, ExplanationsGrow DEF Exists
<1>4. CASE request[c].wrote
  <2>1. Completed(c) /\ request[c].user = u /\ Settled(u)
    BY <1>1, <1>2, <1>4, HistoryGrows DEF Completed
  <2>2. Exists(u)
    BY <1>3, <2>1, ListMoves
  <2>3. CASE users'[u].links = users[u].links
    BY <1>3, <2>1, <2>2, <2>3, ExplanationsGrow DEF FInv, LinksFollow
  <2>4. CASE Rewrites(r, u) /\ users'[u].links # users[u].links
    <3>1. r \in Later(c)' /\ (c \notin request[r].after => r \in Overlapping(c)')
      BY <1>1, <1>4, <2>1, <2>4, WriterIsLater
    <3>2. ListFits(r, users'[u].links) /\ request[r].user = u /\ request'[r].value = request[r].value
      BY <2>4, ListWritten
    <3>3. CASE c \notin request[r].after
      BY <3>1, <3>3 DEF LossExplained
    <3>4. CASE c \in request[r].after
      <4>1. LossExplained(c) \/ UnlinksFor(r, c)
        BY <1>3, <2>1, <3>2, <3>4 DEF ListFits
      <4>2. PICK t \in Requests : t = request[c].token /\ LinkFrom(request[c].token)' = LinkFrom(t)
        BY <1>1, ExplanationsGrow
      <4>3. request'[c].token = t
        BY <4>2, HistoryGrows
      <4>4. request'[t].value = request[t].value
        BY <4>2, <4>3 DEF LinkFrom
      <4>5. UnlinksFor(r, c) => UnlinksFor(r, c)'
        BY <3>2, <4>2, <4>3, <4>4, HistoryGrows DEF UnlinksFor
      <4>6. QED
        BY <2>1, <3>1, <4>1, <4>5, ExplanationsGrow DEF LossExplained
    <3>5. QED
      BY <3>3, <3>4
  <2>5. QED
    BY <1>3, <2>1, <2>3, <2>4, ListMoves
<1>5. CASE ~request[c].wrote
  <2>1. c = r /\ request'[r].wrote /\ ~request[r].wrote
    BY <1>5, HistoryGrows DEF Completed
  <2>2. Rewrites(r, u) /\ request[r].user = u
    BY <1>1, <1>2, <2>1 DEF FMoves, SameLocals
  <2>3. Writing(r) /\ users'[u].links = request[r].links
    BY <1>1, <2>1, <2>2 DEF Rewrites
  <2>4. LinkFrom(request[r].token) \in users'[u].links
    BY <1>1, <2>1, <2>3 DEF FInv, ListsFollow, ListFits
  <2>5. QED
    BY <1>3, <2>1, <2>4
<1>6. QED
  BY <1>4, <1>5

LEMMA ReturnFollows ==
    ASSUME IInv, IInv', FInv, NEW r \in Requests, FMoves(r), NEW c \in Requests, Unlinked(c)',
           Exists(request[c].user)', NEW l \in OfProvider(users'[request'[c].user].links, request'[c].value)
    PROVE  ReturnExplained(c, l)'
<1>1. Relinks(c) /\ request[c].op = "unlink_account" /\ request[c].op \in Acts
  BY HistoryGrows DEF Unlinked, Relinks, Acts
<1>2. PICK u \in Ids : u = request'[c].user
  BY <1>1, HistoryGrows DEF Unlinked
<1>3. /\ Exists(u)' /\ l \in OfProvider(users'[u].links, request'[c].value)
      /\ l \in Link
  <2>1. Exists(u)'
    BY <1>2 DEF Exists
  <2>2. users'[u].links \subseteq Link
    BY <2>1 DEF IInv, TypeOK, Exists, User
  <2>3. QED
    BY <1>2, <2>1, <2>2 DEF OfProvider
<1>4. CASE request[c].wrote
  <2>1. /\ Unlinked(c) /\ request[c].user = u /\ Settled(u)
        /\ request'[c].value = request[c].value
    BY <1>1, <1>2, <1>4, HistoryGrows DEF Unlinked
  <2>2. Exists(u)
    BY <1>3, <2>1, ListMoves
  <2>3. CASE users'[u].links = users[u].links
    <3>1. ReturnExplained(c, l)
      BY <1>3, <2>1, <2>2, <2>3 DEF FInv, LinksFollow
    <3>2. QED
      BY <1>3, <2>1, <3>1, ExplanationsGrow
  <2>4. CASE Rewrites(r, u) /\ users'[u].links # users[u].links
    <3>1. r \in Later(c)' /\ (c \notin request[r].after => r \in Overlapping(c)')
      BY <1>1, <1>4, <2>1, <2>4, WriterIsLater
    <3>2. ListFits(r, users'[u].links) /\ request[r].user = u
      BY <2>4, ListWritten
    <3>3. CASE c \notin request[r].after
      BY <3>1, <3>3 DEF ReturnExplained
    <3>4. CASE c \in request[r].after
      <4>1. ReturnExplained(c, l) \/ request[r].token = l.by
        BY <1>3, <2>1, <3>2, <3>4 DEF ListFits
      <4>2. request'[r].token = request[r].token
        BY HistoryGrows
      <4>3. QED
        BY <1>3, <2>1, <3>1, <4>1, <4>2, ExplanationsGrow DEF ReturnExplained
    <3>5. QED
      BY <3>3, <3>4
  <2>5. QED
    BY <1>3, <2>1, <2>3, <2>4, ListMoves
<1>5. CASE ~request[c].wrote
  <2>1. c = r /\ request'[r].wrote /\ ~request[r].wrote
    BY <1>5, HistoryGrows DEF Unlinked
  <2>2. Rewrites(r, u) /\ request[r].user = u /\ request'[r].value = request[r].value
    BY <1>1, <1>2, <2>1 DEF FMoves, SameLocals
  <2>3. Writing(r) /\ users'[u].links = request[r].links
    BY <1>1, <2>1, <2>2 DEF Rewrites
  <2>4. OfProvider(users'[u].links, request'[r].value) = {}
    BY <1>1, <2>1, <2>2, <2>3 DEF FInv, ListsFollow, ListFits
  <2>5. QED
    BY <1>3, <2>1, <2>4
<1>6. QED
  BY <1>4, <1>5

LEMMA LinkKeeps == ASSUME IInv, IInv', FInv, NEW r \in Requests, FMoves(r) PROVE LinksFollow'
<1>1. ASSUME Exists(Resident)', HomeLink \notin users'[Resident].links PROVE HomeUnlinked'
  <2>1. Resident \in Ids /\ Settled(Resident)
    BY DEF Ids, Settled
  <2>2. CASE users'[Resident].links = users[Resident].links
    BY <1>1, <2>1, <2>2, ListMoves, ExplanationsGrow DEF FInv, LinksFollow
  <2>3. CASE Rewrites(r, Resident) /\ users'[Resident].links # users[Resident].links
    <3>1. /\ ListFits(r, users'[Resident].links) /\ request[r].user = Resident /\ Relinked(r, Resident)'
          /\ request'[r].value = request[r].value
      BY <2>1, <2>3, ListWritten
    <3>2. HomeUnlinked \/ (request[r].op = "unlink_account" /\ request[r].value = HomeProvider)
      BY <1>1, <3>1 DEF ListFits
    <3>3. QED
      BY <3>1, <3>2, ExplanationsGrow, HistoryGrows DEF HomeUnlinked
  <2>4. QED
    BY <1>1, <2>1, <2>2, <2>3, ListMoves
<1>2. QED
  BY <1>1, LossFollows, ReturnFollows DEF LinksFollow

LEMMA DoneKeeps == ASSUME IInv, IInv', FInv, NEW r \in Requests, FMoves(r) PROVE RelinksDone'
<1> SUFFICES ASSUME NEW q \in Requests, Relinks(q)'
             PROVE  /\ Effective(q)' => request'[q].wrote
                    /\ request'[q].phase = "reread_user" =>
                         request'[q].wrote \/ ~Exists(request[q].user)'
  BY DEF RelinksDone
<1>1. Relinks(q) /\ (request[q].wrote => request'[q].wrote)
  BY HistoryGrows DEF Relinks
<1>2. CASE q = r
  BY <1>1, <1>2 DEF FMoves, FInv, RelinksDone
<1>3. CASE q # r
  <2>1. request'[q] = request[q]
    BY <1>3 DEF FMoves, SameCall, Others
  <2>2. Effective(q)' => Effective(q)
    BY <2>1 DEF Effective, Answered
  <2>3. ASSUME request[q].phase = "reread_user", ~request[q].wrote PROVE ~Exists(request[q].user)'
    <3>1. request[q].user # None /\ request[q].user \in Ids \cup {None} /\ ~Exists(request[q].user)
      BY <1>1, <2>3, HandlingFacts DEF Handling, Relinks, Took, Takes, Acts, FInv, RelinksDone
    <3>2. PICK u \in Ids : u = request[q].user /\ u = request'[q].user
      BY <2>1, <3>1
    <3>3. Settled(u)
      BY <3>1, <3>2 DEF IInv, CallsOK
    <3>4. ~Exists(u)'
      BY <3>1, <3>2, <3>3, ListMoves
    <3>5. QED
      BY <3>2, <3>4 DEF Exists
  <2>4. QED
    BY <1>1, <2>1, <2>2, <2>3 DEF FInv, RelinksDone
<1>4. QED
  BY <1>2, <1>3

LEMMA FMovesKeep == ASSUME IInv, IInv', FInv, NEW r \in Requests, FMoves(r) PROVE FInv'
BY FieldKeeps, EmailKeeps, LinkKeeps, ListsKeep, DoneKeeps DEF FInv

-----------------------------------------------------------------------------
(* Every step of a call under way moves the records so *)

\* A step that leaves the records alone.
LEMMA QuietMoves ==
    ASSUME IInv, NEW r \in Requests, SameCall(r), Awaiting(r), UNCHANGED users,
           request'[r].wrote = request[r].wrote,
           request[r].wrote \/ Past(r) => SameLocals(r),
           request[r].op = "signup" => request'[r].value = request[r].value,
           request[r].op \in Acts => request'[r].user = request[r].user,
           request[r].op = "change_password" /\ request'[r].phase = "set_password_hash" => Knew(r),
           request[r].op = "signup" /\ request'[r].phase = "create_user" =>
               \A u \in Ids : ~HasEmail(u, request[r].value),
           Writing(r)' => /\ ~request'[r].wrote /\ request'[r].user = request[r].user
                          /\ request'[r].value = request[r].value /\ ListFits(r, request'[r].links),
           request'[r].phase # "reread_user",
           Relinks(r) /\ Effective(r)' => Effective(r) \/ request'[r].wrote
    PROVE  FMoves(r)
<1>1. RecordStep(r)
  BY DEF RecordStep, Exists
<1>2. QED
  BY <1>1 DEF FMoves

LEMMA AnswerIsQuiet ==
    ASSUME IInv, NEW r \in Requests, NEW result \in Results, Awaiting(r), Answer(r, result),
           UNCHANGED users, result = "Ok" => Effective(r)
    PROVE  FMoves(r)
<1>1. /\ SameLocals(r) /\ SameCall(r) /\ request'[r].wrote = request[r].wrote
      /\ request'[r].phase = "done" /\ request'[r].result = result
  BY AnswerMoves DEF IInv, SameLocals
<1>2. ~Writing(r)' /\ (Effective(r)' => Effective(r))
  BY <1>1 DEF Writing, Effective, Answered
<1>3. QED
  BY <1>1, <1>2, QuietMoves DEF SameLocals

LEMMA AwaitIsQuiet ==
    ASSUME IInv, NEW r \in Requests, NEW call \in StoreCalls, Awaiting(r), Await(r, call),
           UNCHANGED users, call \notin {"update_oauth_links", "reread_user"},
           Relinks(r) => Effective(r) \/ request[r].wrote,
           call = "set_password_hash" => Knew(r),
           call = "create_user" => \A u \in Ids : ~HasEmail(u, request[r].value)
    PROVE  FMoves(r)
<1>1. /\ SameLocals(r) /\ SameCall(r) /\ request'[r].wrote = request[r].wrote
      /\ request'[r].phase = call
  BY AwaitMoves DEF IInv, SameLocals
<1>2. ~Writing(r)'
  BY <1>1 DEF Writing
<1>3. QED
  BY <1>1, <1>2, QuietMoves DEF SameLocals

\* The password that change_password found in the record.
LEMMA PasswordKnown == ASSUME IInv, FInv, NEW r \in Requests, ChangeVerified(r) PROVE Knew(r)
<1>1. /\ request[r].phase = "get_user_by_id" /\ Exists(request[r].user)
      /\ users[request[r].user].password = request[r].current
      /\ request[r].op = "change_password"
  BY DEF ChangeVerified, At
<1>2. ~request[r].wrote /\ request[r].user \in Ids
  BY <1>1, HandlingFacts DEF Handling, PhaseFits, Past, Request, Acts
<1>3. PICK u \in Ids : u = request[r].user
  BY <1>2
<1>4. PICK p \in Values : p = request[r].current
  BY DEF IInv, TypeOK, Request, Values
<1>5. Exists(u) /\ users[u].password = p
  BY <1>1, <1>3, <1>4
<1>6. \A q \in Requests : Replaced(q, u, "password") => q \in Requests \ {r}
  BY <1>2 DEF Replaced
<1>7. \/ p = FirstPassword(u)
      \/ \E q \in Requests \ {r} : Replaced(q, u, "password") /\ request[q].value = p
  BY <1>5, <1>6 DEF FInv, PasswordsFrom
<1>8. ASSUME NEW s \in request[r].after, Replaced(s, u, "password")
      PROVE  MayFollow(u, "password", p, s, Requests \ {r})
  <2>1. s \in Requests /\ request[s].user = u
    BY <1>8 DEF IInv, TypeOK, Request, Replaced
  <2>2. MayFollow(u, "password", users[u]["password"], s, Requests)
    BY <1>5, <1>8, <2>1 DEF FInv, FieldsFollow, Fields
  <2>3. QED
    BY <1>5, <1>6, <2>2 DEF MayFollow
<1>9. QED
  BY <1>3, <1>4, <1>7, <1>8 DEF Knew

LEMMA AnswersQuiet ==
    ASSUME IInv, NEW r \in Requests,
           \/ SignupTaken(r) \/ ChangeUnknown(r) \/ ChangeRejected(r) \/ ResetUnknown(r)
           \/ ResetTokenUnknown(r) \/ MailTokenUnknown(r) \/ PendingUnknown(r)
           \/ RelinkUserGone(r) \/ NothingToUnlink(r) \/ Publish(r) \/ Fail(r)
    PROVE  FMoves(r)
<1>1. CASE SignupTaken(r) \/ ChangeUnknown(r) \/ ChangeRejected(r) \/ ResetUnknown(r)
  BY <1>1, AnswerIsQuiet
  DEF SignupTaken, ChangeUnknown, ChangeRejected, ResetUnknown, At, Awaiting, Results, NothingStored
<1>2. CASE ResetTokenUnknown(r) \/ MailTokenUnknown(r) \/ PendingUnknown(r)
  BY <1>2, AnswerIsQuiet
  DEF ResetTokenUnknown, MailTokenUnknown, PendingUnknown, At, Awaiting, Results, NothingStored
<1>3. CASE RelinkUserGone(r) \/ NothingToUnlink(r)
  BY <1>3, AnswerIsQuiet DEF RelinkUserGone, NothingToUnlink, At, Awaiting, Results, NothingStored
<1>4. CASE Publish(r)
  BY <1>4, AnswerIsQuiet DEF Publish, HandsOutEvent, Awaiting, Results, Effective
<1>5. CASE Fail(r)
  BY <1>5, AnswerIsQuiet DEF Fail, Fails, Results
<1>6. QED
  BY <1>1, <1>2, <1>3, <1>4, <1>5

LEMMA AwaitsQuiet ==
    ASSUME IInv, FInv, NEW r \in Requests,
           \/ SignupFree(r) \/ ChangeVerified(r) \/ RereadUser(r) \/ PersistEvent(r)
           \/ CreateReset(r) \/ CreateVerification(r) \/ CreatePendingLink(r)
    PROVE  FMoves(r)
<1>1. CASE SignupFree(r)
  BY <1>1, AwaitIsQuiet DEF SignupFree, At, Awaiting, StoreCalls, NothingStored, Relinks
<1>2. CASE ChangeVerified(r)
  BY <1>2, AwaitIsQuiet, PasswordKnown
  DEF ChangeVerified, At, Awaiting, StoreCalls, NothingStored, Relinks
<1>3. CASE RereadUser(r) \/ PersistEvent(r)
  BY <1>3, AwaitIsQuiet
  DEF RereadUser, PersistEvent, PersistsEvent, Awaiting, StoreCalls, NothingStored, FInv, RelinksDone,
    Effective
<1>4. CASE CreateReset(r) \/ CreateVerification(r) \/ CreatePendingLink(r)
  BY <1>4, AwaitIsQuiet
  DEF CreateReset, CreateVerification, CreatePendingLink, AsksForMail, At, Awaiting, StoreCalls, Relinks
<1>5. QED
  BY <1>1, <1>2, <1>3, <1>4

LEMMA TakesQuiet ==
    ASSUME IInv, NEW r \in Requests,
           DrawReset(r) \/ ConsumeReset(r) \/ ConsumeMailToken(r) \/ ConsumePending(r)
    PROVE  FMoves(r)
<1>1. /\ request[r].phase \in {"get_user_by_email", "consume_token"} /\ UNCHANGED users
      /\ request[r].op \in Takes \cup Draws
  BY DEF DrawReset, ConsumeReset, ConsumeMailToken, ConsumePending, At, Takes, Draws, NothingStored, Redeems
<1>2. /\ Awaiting(r) /\ ~Past(r) /\ ~request[r].wrote
      /\ request[r].op \notin Acts \cup {"signup", "change_password"}
  BY <1>1, HandlingFacts DEF Handling, PhaseFits, Awaiting, Past, Takes, Draws, Acts
<1>3. CASE \E result \in Results \ {"Ok"} : Answer(r, result)
  BY <1>1, <1>2, <1>3, AnswerIsQuiet
<1>4. CASE /\ SameCall(r) /\ request'[r].wrote = request[r].wrote
           /\ request'[r].phase \notin {"update_oauth_links", "reread_user", "persist_event", "publish", "done"}
  BY <1>1, <1>2, <1>4, QuietMoves DEF Writing, Effective, Answered
<1>5. request \in [Requests -> Request]
  BY DEF IInv, TypeOK
<1>6. CASE DrawReset(r)
  <2>1. PICK u \in Ids : request' = [request EXCEPT ![r].phase = "create_token", ![r].user = u,
                                                    ![r].expires = now + TokenTtl]
    BY <1>6 DEF DrawReset
  <2>2. SameCall(r) /\ request'[r].wrote = request[r].wrote /\ request'[r].phase = "create_token"
    BY <1>5, <2>1 DEF SameCall, Others, Request
  <2>3. QED
    BY <1>4, <2>2
<1>7. CASE ConsumeReset(r) \/ ConsumePending(r)
  <2>1. \/ Answer(r, "InvalidToken")
        \/ \E call \in {"set_password_hash", "get_user_by_id"} :
             request' = [request EXCEPT ![r].phase = call, ![r].user = request[request[r].token].user]
    BY <1>7 DEF ConsumeReset, JudgeReset, ConsumePending
  <2>2. ASSUME NEW call \in {"set_password_hash", "get_user_by_id"},
               request' = [request EXCEPT ![r].phase = call, ![r].user = request[request[r].token].user]
        PROVE  SameCall(r) /\ request'[r].wrote = request[r].wrote /\ request'[r].phase = call
    BY <1>5, <2>2 DEF SameCall, Others, Request
  <2>3. QED
    BY <1>3, <1>4, <2>1, <2>2 DEF Results
<1>8. CASE ConsumeMailToken(r)
  <2> DEFINE t == request[r].token
  <2>1. \/ Answer(r, "InvalidToken") \/ Answer(r, "Validation")
        \/ request' = [request EXCEPT ![r].phase = "set_email_verified", ![r].user = request[t].user]
        \/ request' = [request EXCEPT ![r].phase = "update_email", ![r].user = request[t].user,
                                      ![r].value = request[t].value]
    BY <1>8 DEF ConsumeMailToken, JudgeMailToken
  <2>2. CASE request' = [request EXCEPT ![r].phase = "set_email_verified", ![r].user = request[t].user]
    <3>1. SameCall(r) /\ request'[r].wrote = request[r].wrote /\ request'[r].phase = "set_email_verified"
      BY <1>5, <2>2 DEF SameCall, Others, Request
    <3>2. QED
      BY <1>4, <3>1
  <2>3. CASE request' = [request EXCEPT ![r].phase = "update_email", ![r].user = request[t].user,
                                        ![r].value = request[t].value]
    <3>1. SameCall(r) /\ request'[r].wrote = request[r].wrote /\ request'[r].phase = "update_email"
      BY <1>5, <2>3 DEF SameCall, Others, Request
    <3>2. QED
      BY <1>4, <3>1
  <2>4. QED
    BY <1>3, <2>1, <2>2, <2>3 DEF Results
<1>9. QED
  BY <1>6, <1>7, <1>8

\* The lists that complete_account_link and unlink_account are about to write back.
LEMMA ListMade ==
    ASSUME IInv, FInv, NEW r \in Requests, NEW u \in Ids, request[r].user = u, Exists(u),
           NEW l \in SUBSET Link,
           \/ /\ request[r].op = "complete_account_link"
              /\ l = users[u].links \cup {LinkFrom(request[r].token)}
           \/ /\ request[r].op = "unlink_account"
              /\ l = users[u].links \ OfProvider(users[u].links, request[r].value)
    PROVE  ListFits(r, l)
<1>1. \A k \in users[u].links \ l : request[r].op = "unlink_account" /\ k.provider = request[r].value
  BY DEF OfProvider
<1>2. \A k \in l : k \in users[u].links \/ k.by = request[r].token
  BY DEF LinkFrom
<1>3. /\ request[r].op = "complete_account_link" => LinkFrom(request[r].token) \in l
      /\ request[r].op = "unlink_account" => OfProvider(l, request[r].value) = {}
  BY DEF OfProvider
<1>4. ASSUME NEW c \in request[r].after, request[c].user = u
      PROVE  /\ Completed(c) /\ LinkFrom(request[c].token) \notin l
                  => LossExplained(c) \/ UnlinksFor(r, c)
             /\ Unlinked(c) => \A k \in OfProvider(l, request[c].value) :
                  ReturnExplained(c, k) \/ request[r].token = k.by
  <2>1. c \in Requests
    BY DEF IInv, TypeOK, Request
  <2>2. ASSUME Completed(c), LinkFrom(request[c].token) \notin l
        PROVE  LossExplained(c) \/ UnlinksFor(r, c)
    <3>1. CASE LinkFrom(request[c].token) \notin users[u].links
      BY <1>4, <2>1, <2>2, <3>1 DEF FInv, LinksFollow
    <3>2. CASE LinkFrom(request[c].token) \in users[u].links
      BY <1>1, <2>2, <3>2 DEF LinkFrom, UnlinksFor
    <3>3. QED
      BY <3>1, <3>2
  <2>3. ASSUME Unlinked(c), NEW k \in OfProvider(l, request[c].value)
        PROVE  ReturnExplained(c, k) \/ request[r].token = k.by
    <3>1. k \in OfProvider(users[u].links, request[c].value) \/ k.by = request[r].token
      BY <1>2 DEF OfProvider
    <3>2. QED
      BY <1>4, <2>1, <2>3, <3>1 DEF FInv, LinksFollow
  <2>4. QED
    BY <2>2, <2>3
<1>5. u = Resident /\ HomeLink \notin l
        => HomeUnlinked \/ (request[r].op = "unlink_account" /\ request[r].value = HomeProvider)
  BY <1>1 DEF FInv, LinksFollow, HomeLink
<1>6. QED
  BY <1>3, <1>4, <1>5 DEF ListFits

LEMMA ListsQuiet == ASSUME IInv, FInv, NEW r \in Requests, AddLink(r) \/ DropLinks(r) PROVE FMoves(r)
<1>1. /\ request[r].phase = "get_user_by_id" /\ Exists(request[r].user) /\ UNCHANGED users
      /\ request[r].op \in {"complete_account_link", "unlink_account"}
  BY DEF AddLink, DropLinks, At, NothingStored
<1>2. /\ Awaiting(r) /\ ~Past(r) /\ ~request[r].wrote /\ request[r].user \in Ids
      /\ request \in [Requests -> Request]
  BY <1>1, HandlingFacts
  DEF Handling, PhaseFits, Awaiting, Past, Request, Took, Takes, Acts
<1>3. PICK u \in Ids : u = request[r].user
  BY <1>2
<1>4. PICK l : /\ request' = [request EXCEPT ![r].phase = "update_oauth_links", ![r].links = l]
               /\ \/ /\ request[r].op = "complete_account_link"
                     /\ l = users[u].links \cup {LinkFrom(request[r].token)}
                  \/ /\ request[r].op = "unlink_account"
                     /\ l = users[u].links \ OfProvider(users[u].links, request[r].value)
  BY <1>3 DEF AddLink, DropLinks, At
<1>5. l \in SUBSET Link
  <2>1. users[u].links \subseteq Link
    BY <1>1, <1>3 DEF IInv, TypeOK, Exists, User
  <2>2. request[r].op = "complete_account_link" => LinkFrom(request[r].token) \in Link
    <3> SUFFICES ASSUME request[r].op = "complete_account_link"
                 PROVE  LinkFrom(request[r].token) \in Link
      OBVIOUS
    <3>1. PICK t \in Requests : t = request[r].token /\ request[t].op = "initiate_account_link"
      BY DEF IInv, CallsOK, Takes, Fits
    <3>2. request[t].value \in Providers
      BY <3>1 DEF IInv, ValuesOK, ValueFits
    <3>3. QED
      BY <3>1, <3>2 DEF LinkFrom, Link
  <2>3. QED
    BY <1>4, <2>1, <2>2
<1>6. ListFits(r, l)
  BY <1>1, <1>3, <1>4, <1>5, ListMade
<1>7. /\ SameCall(r) /\ request'[r].wrote = request[r].wrote /\ request'[r].links = l
      /\ request'[r].user = request[r].user /\ request'[r].value = request[r].value
      /\ request'[r].phase = "update_oauth_links"
  BY <1>2, <1>4 DEF SameCall, Others, Request
<1>8. ListFits(r, request'[r].links) /\ ~Effective(r)'
  BY <1>6, <1>7 DEF Effective, Answered
<1>9. QED
  BY <1>1, <1>2, <1>7, <1>8, QuietMoves

LEMMA FieldReads ==
    ASSUME NEW rec \in User, NEW v, NEW f \in Fields \cup {"verified", "links"}
    PROVE  /\ \A g \in Fields : [rec EXCEPT ![f] = v][g] = IF g = f THEN v ELSE rec[g]
           /\ [rec EXCEPT ![f] = v].links = IF f = "links" THEN v ELSE rec.links
BY DEF User, Fields

LEMMA WriteRewrites ==
    ASSUME IInv, NEW r \in Requests, NEW call \in {"persist_event", "reread_user"},
           NEW v, NEW f \in Fields \cup {"verified", "links"}, WriteField(r, f, v, call),
           request[r].phase \in {"update_profile", "set_password_hash", "set_email_verified",
                                 "update_email", "update_oauth_links"},
           request[r].op \in (Acts \cup Takes) \ {"delete_account"},
           request[r].op = "change_password" => request[r].phase = "set_password_hash",
           f \in Fields => FieldOf(r) = f /\ v = request[r].value /\ ~Relinks(r),
           f = "verified" => FieldOf(r) \notin Fields /\ ~Relinks(r),
           f = "links" => FieldOf(r) \notin Fields /\ Writing(r) /\ Relinks(r) /\ v = request[r].links,
           f = "links" => call = "reread_user"
    PROVE  FMoves(r)
<1>1. /\ request[r].user \in Ids \cup {None} /\ request \in [Requests -> Request]
      /\ users \in [Ids -> User \cup {None}] /\ Awaiting(r) /\ ~Past(r) /\ ~request[r].wrote
  BY HandlingFacts DEF Handling, PhaseFits, Awaiting, Past
<1>2. PICK w \in Ids \cup {None} : w = request[r].user
  BY <1>1
<1>3. /\ users' = [users EXCEPT ![w] = IF @ = None THEN None ELSE [@ EXCEPT ![f] = v]]
      /\ request' = [request EXCEPT ![r].phase = call, ![r].wrote = Exists(request[r].user)]
  BY <1>2 DEF WriteField
<1>4. /\ SameLocals(r) /\ SameCall(r) /\ request'[r].phase = call
      /\ request'[r].wrote = Exists(request[r].user)
  BY <1>1, <1>3 DEF SameLocals, SameCall, Others, Request
<1>5. ASSUME NEW u \in Ids, u = request[r].user, Exists(u) PROVE Rewrites(r, u)
  <2>1. request'[r].wrote
    BY <1>4, <1>5
  <2>2. users'[u] = [users[u] EXCEPT ![f] = v] /\ users[u] \in User
    BY <1>1, <1>2, <1>3, <1>5 DEF Exists
  <2>3. /\ \A g \in Fields : users'[u][g] = IF g = f THEN v ELSE users[u][g]
        /\ users'[u].links = IF f = "links" THEN v ELSE users[u].links
    <3>1. PICK rec \in User : rec = users[u]
      BY <2>2
    <3>2. users'[u] = [rec EXCEPT ![f] = v]
      BY <2>2, <3>1
    <3>3. /\ \A g \in Fields : [rec EXCEPT ![f] = v][g] = IF g = f THEN v ELSE rec[g]
          /\ [rec EXCEPT ![f] = v].links = IF f = "links" THEN v ELSE rec.links
      BY FieldReads
    <3>4. QED
      BY <3>1, <3>2, <3>3
  <2>4. \A g \in Fields : \/ FieldOf(r) = g /\ users'[u][g] = request[r].value
                          \/ FieldOf(r) # g /\ users'[u][g] = users[u][g]
    BY <2>3 DEF Fields
  <2>5. \/ Writing(r) /\ Relinks(r) /\ users'[u].links = request[r].links
        \/ ~Relinks(r) /\ users'[u].links = users[u].links
    BY <2>3 DEF Fields
  <2>6. QED
    BY <1>5, <2>1, <2>4, <2>5 DEF Rewrites
<1>6. RecordStep(r)
  <2> SUFFICES ASSUME NEW u \in Ids, Exists(u)' PROVE (Exists(u) /\ users'[u] = users[u]) \/ Rewrites(r, u)
    BY DEF RecordStep
  <2>1. CASE u # w
    BY <1>1, <1>3, <2>1 DEF Exists
  <2>2. CASE u = w
    <3>1. Exists(u)
      BY <1>1, <1>3, <2>2 DEF Exists
    <3>2. QED
      BY <1>2, <1>5, <2>2, <3>1
  <2>3. QED
    BY <2>1, <2>2
<1>7. w \in Ids
  BY <1>1, <1>2, HandlingFacts DEF Handling, Took
<1>8. request'[r].wrote => Rewrites(r, request[r].user)
  BY <1>2, <1>4, <1>5, <1>7
<1>9. ~Writing(r)' /\ request'[r].phase \notin {"set_password_hash", "create_user"}
  BY <1>4 DEF Writing
<1>10. Relinks(r) => ~Effective(r)' /\ (request'[r].wrote \/ ~Exists(request[r].user)')
  <2>1. Relinks(r) => ~Effective(r)'
    BY <1>4 DEF Effective, Answered, Fields
  <2>2. request'[r].wrote = Exists(w) /\ request'[r].user = w
    BY <1>2, <1>4 DEF SameLocals
  <2>3. ~Exists(w) => ~Exists(w)'
    BY <1>1, <1>3, <1>7 DEF Exists
  <2>4. QED
    BY <2>1, <2>2, <2>3 DEF Exists
<1>11. QED
  BY <1>1, <1>4, <1>6, <1>8, <1>9, <1>10 DEF FMoves, SameLocals, At, Acts, Takes

LEMMA WritesRewrite ==
    ASSUME IInv, NEW r \in Requests,
           UpdateProfile(r) \/ SetPassword(r) \/ SetVerified(r) \/ UpdateEmail(r) \/ StoreLinks(r)
    PROVE  FMoves(r)
<1>1. PhaseFits(r)
  BY HandlingFacts DEF Handling
<1>2. PICK v : v = request[r].value
  OBVIOUS
<1>3. CASE UpdateProfile(r)
  <2>1. WriteField(r, "name", v, "persist_event") /\ At(r, "update_profile", "update_profile")
    BY <1>2, <1>3 DEF UpdateProfile
  <2>2. QED
    BY <1>2, <2>1, WriteRewrites DEF At, Fields, FieldOf, Relinks, Acts, Takes
<1>4. CASE SetPassword(r)
  <2>1. /\ WriteField(r, "password", v, "persist_event") /\ request[r].phase = "set_password_hash"
        /\ request[r].op \in {"change_password", "complete_password_reset"}
    BY <1>1, <1>2, <1>4 DEF SetPassword, PhaseFits
  <2>2. QED
    BY <1>2, <2>1, WriteRewrites DEF Fields, FieldOf, Relinks, Acts, Takes
<1>5. CASE SetVerified(r)
  <2>1. WriteField(r, "verified", TRUE, "persist_event") /\ At(r, "verify_email", "set_email_verified")
    BY <1>5 DEF SetVerified
  <2>2. QED
    BY <2>1, WriteRewrites DEF At, Fields, FieldOf, Relinks, Acts, Takes
<1>6. CASE UpdateEmail(r)
  <2>1. WriteField(r, "email", v, "persist_event") /\ At(r, "confirm_email_change", "update_email")
    BY <1>2, <1>6 DEF UpdateEmail
  <2>2. QED
    BY <1>2, <2>1, WriteRewrites DEF At, Fields, FieldOf, Relinks, Acts, Takes
<1>7. CASE StoreLinks(r)
  <2>1. PICK l : l = request[r].links
    OBVIOUS
  <2>2. /\ WriteField(r, "links", l, "reread_user") /\ Writing(r) /\ Relinks(r)
    BY <1>1, <1>7, <2>1 DEF StoreLinks, Writing, PhaseFits
  <2>3. QED
    BY <2>1, <2>2, WriteRewrites DEF Fields, FieldOf, Relinks, Acts, Takes, Writing
<1>8. QED
  BY <1>3, <1>4, <1>5, <1>6, <1>7

LEMMA RecordsMove == ASSUME IInv, NEW r \in Requests, CreateUser(r) \/ DeleteUser(r) PROVE FMoves(r)
<1>1. /\ request \in [Requests -> Request] /\ users \in [Ids -> User \cup {None}]
      /\ Awaiting(r) /\ ~Past(r) /\ ~request[r].wrote
  BY HandlingFacts DEF Handling, PhaseFits, Awaiting, Past, CreateUser, DeleteUser, At
<1>2. CASE CreateUser(r)
  <2>1. /\ At(r, "signup", "create_user") /\ users' = [users EXCEPT ![r] = NewUser(r)]
        /\ request' = [request EXCEPT ![r].phase = "persist_event", ![r].user = r, ![r].wrote = TRUE]
    BY <1>2 DEF CreateUser
  <2>2. /\ SameCall(r) /\ request'[r].phase = "persist_event" /\ request'[r].wrote
        /\ request'[r].value = request[r].value
    BY <1>1, <2>1 DEF SameCall, Others, Request
  <2>3. RecordStep(r)
    BY <1>1, <2>1 DEF RecordStep, Exists
  <2>4. QED
    BY <1>1, <2>1, <2>2, <2>3 DEF FMoves, At, Acts, Writing, Relinks
<1>3. CASE DeleteUser(r)
  <2>1. /\ At(r, "delete_account", "delete_user") /\ users' = [users EXCEPT ![request[r].user] = None]
        /\ request' = [request EXCEPT ![r].phase = "persist_event", ![r].wrote = Exists(request[r].user)]
    BY <1>3 DEF DeleteUser
  <2>2. /\ SameCall(r) /\ SameLocals(r) /\ request'[r].phase = "persist_event"
    BY <1>1, <2>1 DEF SameCall, SameLocals, Others, Request
  <2>3. RecordStep(r)
    BY <1>1, <2>1 DEF RecordStep, Exists
  <2>4. QED
    BY <1>1, <2>1, <2>2, <2>3 DEF FMoves, At, Acts, Writing, Relinks, SameLocals
<1>4. QED
  BY <1>2, <1>3

LEMMA StepMoves == ASSUME IInv, FInv, NEW r \in Requests, Step(r) \/ Fail(r) PROVE FMoves(r)
BY AnswersQuiet, AwaitsQuiet, TakesQuiet, ListsQuiet, WritesRewrite, RecordsMove
DEF Step, PasswordStep, AddressStep, LinkStep

-----------------------------------------------------------------------------
(* A call begins *)

\* A call that has begun and written nothing.
Begun(r) == /\ Idle(r) /\ Others(r) /\ UNCHANGED users
            /\ ~request'[r].wrote
            /\ request'[r].phase \in {"get_user_by_email", "get_user_by_id", "create_token", "consume_token",
                                  "update_profile", "delete_user"}

LEMMA StartBegins == ASSUME IInv, NEW r \in Requests, Start(r) PROVE Begun(r)
<1> DEFINE Harmless(call) == /\ call \in Request /\ ~call.wrote
                             /\ call.phase \in {"get_user_by_email", "get_user_by_id", "create_token",
                                               "consume_token", "update_profile", "delete_user"}
<1>1. ASSUME NEW call, Begin(r, call), Harmless(call) PROVE Begun(r)
  <2>1. /\ request \in [Requests -> Request] /\ Idle(r) /\ UNCHANGED users
        /\ request' = [request EXCEPT ![r] = [call EXCEPT !.began = now, !.after = AnsweredOk]]
    BY <1>1 DEF Begin, IInv, TypeOK
  <2>2. request'[r] = [call EXCEPT !.began = now, !.after = AnsweredOk] /\ Others(r)
    BY <2>1 DEF Others
  <2>3. request'[r].wrote = call.wrote /\ request'[r].phase = call.phase
    BY <1>1, <2>2 DEF Request
  <2>4. QED
    BY <1>1, <2>1, <2>2, <2>3 DEF Begun
<1>2. \A u \in KnownUsers : u \in Ids
  BY DEF KnownUsers, Ids
<1>3. \A ops : Drawn(ops) \subseteq Requests
  BY DEF Drawn
<1>4. now + TokenTtl \in Nat
  BY AccountAssumption DEF IInv, TypeOK
<1>5. CASE StartSignup(r)
  <2>1. PICK e \in Emails, p \in Passwords :
             Begin(r, [IdleRequest EXCEPT !.op = "signup", !.phase = "get_user_by_email",
                                          !.value = e, !.current = p])
    BY <1>5 DEF StartSignup
  <2> DEFINE call == [IdleRequest EXCEPT !.op = "signup", !.phase = "get_user_by_email",
                                         !.value = e, !.current = p]
  <2>2. Harmless(call)
    BY DEF IdleRequest, Request, Ops, StoreCalls
  <2> HIDE DEF call, Harmless
  <2>3. QED
    BY <1>1, <2>1, <2>2 DEF call
<1>6. CASE StartProfile(r)
  <2>1. PICK u \in KnownUsers, n \in Names :
             Begin(r, [IdleRequest EXCEPT !.op = "update_profile", !.phase = "update_profile",
                                          !.user = u, !.value = n])
    BY <1>6 DEF StartProfile
  <2> DEFINE call == [IdleRequest EXCEPT !.op = "update_profile", !.phase = "update_profile",
                                         !.user = u, !.value = n]
  <2>2. Harmless(call)
    BY <1>2 DEF IdleRequest, Request, Ops, StoreCalls
  <2> HIDE DEF call, Harmless
  <2>3. QED
    BY <1>1, <2>1, <2>2 DEF call
<1>7. CASE StartDelete(r)
  <2>1. PICK u \in KnownUsers :
             Begin(r, [IdleRequest EXCEPT !.op = "delete_account", !.phase = "delete_user",
                                          !.user = u])
    BY <1>7 DEF StartDelete
  <2> DEFINE call == [IdleRequest EXCEPT !.op = "delete_account", !.phase = "delete_user",
                                         !.user = u]
  <2>2. Harmless(call)
    BY <1>2 DEF IdleRequest, Request, Ops, StoreCalls
  <2> HIDE DEF call, Harmless
  <2>3. QED
    BY <1>1, <2>1, <2>2 DEF call
<1>8. CASE StartChangePassword(r)
  <2>1. PICK u \in KnownUsers, p \in Passwords, new \in Passwords :
             Begin(r, [IdleRequest EXCEPT !.op = "change_password", !.phase = "get_user_by_id",
                                          !.user = u, !.current = p, !.value = new])
    BY <1>8 DEF StartChangePassword
  <2> DEFINE call == [IdleRequest EXCEPT !.op = "change_password", !.phase = "get_user_by_id",
                                         !.user = u, !.current = p, !.value = new]
  <2>2. Harmless(call)
    BY <1>2 DEF IdleRequest, Request, Ops, StoreCalls
  <2> HIDE DEF call, Harmless
  <2>3. QED
    BY <1>1, <2>1, <2>2 DEF call
<1>9. CASE StartRequestReset(r)
  <2>1. PICK e \in Emails :
             Begin(r, [IdleRequest EXCEPT !.op = "request_password_reset", !.phase = "get_user_by_email",
                                          !.value = e])
    BY <1>9 DEF StartRequestReset
  <2> DEFINE call == [IdleRequest EXCEPT !.op = "request_password_reset", !.phase = "get_user_by_email",
                                         !.value = e]
  <2>2. Harmless(call)
    BY DEF IdleRequest, Request, Ops, StoreCalls
  <2> HIDE DEF call, Harmless
  <2>3. QED
    BY <1>1, <2>1, <2>2 DEF call
<1>10. CASE StartCompleteReset(r)
  <2>1. PICK t \in Drawn({"request_password_reset"}), new \in Passwords :
             Begin(r, [IdleRequest EXCEPT !.op = "complete_password_reset", !.phase = "consume_token",
                                          !.token = t, !.value = new])
    BY <1>10 DEF StartCompleteReset
  <2> DEFINE call == [IdleRequest EXCEPT !.op = "complete_password_reset", !.phase = "consume_token",
                                         !.token = t, !.value = new]
  <2>2. Harmless(call)
    BY <1>3 DEF IdleRequest, Request, Ops, StoreCalls
  <2> HIDE DEF call, Harmless
  <2>3. QED
    BY <1>1, <2>1, <2>2 DEF call
<1>11. CASE StartRequestVerification(r)
  <2>1. PICK u \in KnownUsers :
             Begin(r, [IdleRequest EXCEPT !.op = "request_email_verification", !.phase = "create_token",
                                          !.user = u, !.expires = now + TokenTtl])
    BY <1>11 DEF StartRequestVerification
  <2> DEFINE call == [IdleRequest EXCEPT !.op = "request_email_verification", !.phase = "create_token",
                                         !.user = u, !.expires = now + TokenTtl]
  <2>2. Harmless(call)
    BY <1>2, <1>4 DEF IdleRequest, Request, Ops, StoreCalls
  <2> HIDE DEF call, Harmless
  <2>3. QED
    BY <1>1, <2>1, <2>2 DEF call
<1>12. CASE StartRequestChange(r)
  <2>1. PICK u \in KnownUsers, e \in Emails :
             Begin(r, [IdleRequest EXCEPT !.op = "request_email_change", !.phase = "create_token",
                                          !.user = u, !.value = e, !.expires = now + TokenTtl])
    BY <1>12 DEF StartRequestChange
  <2> DEFINE call == [IdleRequest EXCEPT !.op = "request_email_change", !.phase = "create_token",
                                         !.user = u, !.value = e, !.expires = now + TokenTtl]
  <2>2. Harmless(call)
    BY <1>2, <1>4 DEF IdleRequest, Request, Ops, StoreCalls
  <2> HIDE DEF call, Harmless
  <2>3. QED
    BY <1>1, <2>1, <2>2 DEF call
<1>13. CASE StartVerify(r)
  <2>1. PICK op \in {"verify_email", "confirm_email_change"},
             t \in Drawn({"request_email_verification", "request_email_change"}) :
             Begin(r, [IdleRequest EXCEPT !.op = op, !.phase = "consume_token", !.token = t])
    BY <1>13 DEF StartVerify
  <2> DEFINE call == [IdleRequest EXCEPT !.op = op, !.phase = "consume_token", !.token = t]
  <2>2. Harmless(call)
    BY <1>3 DEF IdleRequest, Request, Ops, StoreCalls
  <2> HIDE DEF call, Harmless
  <2>3. QED
    BY <1>1, <2>1, <2>2 DEF call
<1>14. CASE StartInitiate(r)
  <2>1. PICK u \in KnownUsers, p \in Providers :
             Begin(r, [IdleRequest EXCEPT !.op = "initiate_account_link", !.phase = "create_token",
                                          !.user = u, !.value = p])
    BY <1>14 DEF StartInitiate
  <2> DEFINE call == [IdleRequest EXCEPT !.op = "initiate_account_link", !.phase = "create_token",
                                         !.user = u, !.value = p]
  <2>2. Harmless(call)
    BY <1>2 DEF IdleRequest, Request, Ops, StoreCalls
  <2> HIDE DEF call, Harmless
  <2>3. QED
    BY <1>1, <2>1, <2>2 DEF call
<1>15. CASE StartComplete(r)
  <2>1. PICK t \in Drawn({"initiate_account_link"}) :
             Begin(r, [IdleRequest EXCEPT !.op = "complete_account_link", !.phase = "consume_token",
                                          !.token = t])
    BY <1>15 DEF StartComplete
  <2> DEFINE call == [IdleRequest EXCEPT !.op = "complete_account_link", !.phase = "consume_token",
                                         !.token = t]
  <2>2. Harmless(call)
    BY <1>3 DEF IdleRequest, Request, Ops, StoreCalls
  <2> HIDE DEF call, Harmless
  <2>3. QED
    BY <1>1, <2>1, <2>2 DEF call
<1>16. CASE StartUnlink(r)
  <2>1. PICK u \in KnownUsers, p \in Providers :
             Begin(r, [IdleRequest EXCEPT !.op = "unlink_account", !.phase = "get_user_by_id",
                                          !.user = u, !.value = p])
    BY <1>16 DEF StartUnlink
  <2> DEFINE call == [IdleRequest EXCEPT !.op = "unlink_account", !.phase = "get_user_by_id",
                                         !.user = u, !.value = p]
  <2>2. Harmless(call)
    BY <1>2 DEF IdleRequest, Request, Ops, StoreCalls
  <2> HIDE DEF call, Harmless
  <2>3. QED
    BY <1>1, <2>1, <2>2 DEF call
<1>17. QED
  BY <1>5, <1>6, <1>7, <1>8, <1>9, <1>10, <1>11, <1>12, <1>13, <1>14, <1>15, <1>16
  DEF Start, StartPassword, StartAddress, StartLink

\* A call that begins is in nobody's history.
LEMMA HistoryStays ==
    ASSUME IInv, NEW r \in Requests, Begun(r)
    PROVE  /\ \A q \in Requests : q # r => request'[q] = request[q]
           /\ ~request[r].wrote /\ ~request'[r].wrote
           /\ \A q \in Requests : \A p \in request[q].after : p \in Requests /\ p # r
           /\ \A q \in Requests : request[q].op \in Takes =>
                request[q].token \in Requests /\ request[q].token # r
           /\ \A u \in Ids : Exists(u) => u # r
           /\ \A q \in Requests : request[q].user # r
           /\ \A u \in Ids : u # r /\ u # Resident => u \in Requests
           /\ r # Resident
<1>1. ~Past(r) /\ request[r].phase = "idle" /\ request[r].op = "none"
  BY DEF Begun, Idle, Past, IInv, PhasesOK, PhaseFits
<1>2. ~request[r].wrote
  BY <1>1 DEF IInv, PhasesOK, PhaseFits, Past
<1>3. ~Settled(r) /\ r # None /\ r # Resident
  BY <1>1, AccountAssumption DEF Settled
<1>4. \A q \in Requests : \A p \in request[q].after : p \in Requests /\ p # r
  BY <1>1 DEF IInv, CallsOK, TypeOK, Request, Answered
<1>5. \A q \in Requests : request[q].op \in Takes => request[q].token \in Requests /\ Past(request[q].token)
  BY DEF IInv, CallsOK
<1>6. \A u \in Ids : Exists(u) => u # r
  BY <1>3 DEF IInv, StoresOK
<1>7. \A q \in Requests : request[q].user # None => Settled(request[q].user)
  BY DEF IInv, CallsOK
<1>8. QED
  BY <1>1, <1>2, <1>3, <1>4, <1>5, <1>6, <1>7 DEF Begun, Others, Ids

LEMMA BeginFields == ASSUME IInv, FInv, NEW r \in Requests, Begun(r)
                     PROVE  FieldsFollow' /\ PasswordsFrom' /\ ChangesKnew' /\ EmailsFrom' /\ SignupsLooked'
<1>1. \A q \in Requests : \A u, f : Replaced(q, u, f)' <=> Replaced(q, u, f)
  BY HistoryStays DEF Replaced, FieldOf
<1>2. \A u : users'[u] = users[u] /\ (Exists(u)' <=> Exists(u))
  BY DEF Begun, Exists
<1>3. ASSUME NEW s \in Requests, s # r, NEW u, NEW f, NEW v, NEW others \in SUBSET Requests,
             MayFollow(u, f, v, s, others)
      PROVE  MayFollow(u, f, v, s, others)'
  BY <1>1, <1>3, HistoryStays DEF MayFollow, Replaced
<1>4. \A u \in Ids : u # r => FirstPassword(u)' = FirstPassword(u) /\ FirstEmail(u)' = FirstEmail(u)
  BY HistoryStays DEF FirstPassword, FirstEmail
<1>5. FieldsFollow'
  <2> SUFFICES ASSUME NEW s \in Requests, NEW f \in Fields, NEW u, u = request'[s].user,
                      Replaced(s, u, f)', Exists(u)'
               PROVE  MayFollow(u, f, users[u][f], s, Requests)'
    BY DEF FieldsFollow
  <2>1. s # r /\ u = request[s].user
    BY HistoryStays DEF Replaced
  <2>2. PICK v : v = users[u][f]
    OBVIOUS
  <2>3. MayFollow(u, f, v, s, Requests)
    BY <1>1, <1>2, <2>1, <2>2 DEF FInv, FieldsFollow
  <2>4. MayFollow(u, f, v, s, Requests)'
    BY <1>3, <2>1, <2>3
  <2>5. v = users'[u][f]
    BY <1>2, <2>2
  <2>6. QED
    BY <2>4, <2>5 DEF MayFollow
<1>6. PasswordsFrom'
  <2> SUFFICES ASSUME NEW u \in Ids, Exists(u)'
               PROVE  \/ users'[u].password = FirstPassword(u)'
                      \/ \E q \in Requests : Replaced(q, u, "password")' /\ request'[q].value = users'[u].password
    BY DEF PasswordsFrom
  <2>1. u # r /\ Exists(u)
    BY <1>2, HistoryStays
  <2>2. \A q \in Requests : Replaced(q, u, "password") => request'[q].value = request[q].value
    BY HistoryStays DEF Replaced
  <2>3. QED
    BY <1>1, <1>2, <1>4, <2>1, <2>2 DEF FInv, PasswordsFrom
<1>7. ChangesKnew'
  <2> SUFFICES ASSUME NEW q \in Requests, request'[q].op = "change_password",
                      request'[q].phase = "set_password_hash" \/ request'[q].wrote
               PROVE  Knew(q)'
    BY DEF ChangesKnew
  <2>1. q # r /\ request'[q] = request[q] /\ request[q].user \in Ids /\ request[q].user # r
    <3>1. q # r /\ request'[q] = request[q] /\ request[q].user # r
      BY HistoryStays DEF Begun
    <3>2. request[q].user # None
      BY <3>1 DEF IInv, CallsOK, Acts
    <3>3. QED
      BY <3>1, <3>2 DEF IInv, TypeOK, Request
  <2>2. Knew(q)
    BY <2>1 DEF FInv, ChangesKnew
  <2>3. PICK u \in Ids : u = request[q].user
    BY <2>1
  <2>4. PICK p \in Values : p = request[q].current
    BY DEF IInv, TypeOK, Request, Values
  <2> DEFINE others == Requests \ {q}
  <2>5. \/ p = FirstPassword(u)'
        \/ \E w \in others : Replaced(w, u, "password")' /\ request'[w].value = p
    <3>1. \A w \in Requests : Replaced(w, u, "password") => request'[w].value = request[w].value
      BY HistoryStays DEF Replaced
    <3>2. QED
      BY <1>1, <1>4, <2>1, <2>2, <2>3, <2>4, <3>1 DEF Knew
  <2>6. ASSUME NEW s \in request'[q].after, Replaced(s, u, "password")'
        PROVE  MayFollow(u, "password", p, s, others)'
    <3>1. s \in Requests /\ s # r
      BY <2>1, <2>6, HistoryStays
    <3>2. MayFollow(u, "password", p, s, others)
      BY <1>1, <2>1, <2>2, <2>3, <2>4, <2>6, <3>1 DEF Knew
    <3>3. QED
      BY <1>3, <3>1, <3>2
  <2>7. request'[q].user = u /\ request'[q].current = p
    BY <2>1, <2>3, <2>4
  <2>8. QED
    BY <2>5, <2>6, <2>7 DEF Knew, Replaced, MayFollow, FirstPassword
<1>8. \A u \in Ids : Moved(u) => Moved(u)'
  <2>1. \A q \in Requests : \A u : Replaced(q, u, "email") => request'[q].value = request[q].value
    BY HistoryStays DEF Replaced
  <2>2. QED
    BY <1>1, <1>2, <2>1 DEF Moved
<1>9. EmailsFrom'
  BY <1>2, <1>4, <1>8, HistoryStays DEF FInv, EmailsFrom
<1>10. SignupsLooked'
  <2> SUFFICES ASSUME NEW v \in Requests, request'[v].op = "signup",
                      request'[v].phase = "create_user" \/ Exists(v)',
                      NEW u \in Ids \ {v}, Exists(u)', users'[u].email = request'[v].value
               PROVE  Moved(u)' \/ (u \in Requests /\ u \notin request'[v].after)
    BY DEF SignupsLooked
  <2>1. v # r /\ request'[v] = request[v]
    <3>1. v \in Ids
      BY DEF Ids
    <3>2. QED
      BY <1>2, <3>1, HistoryStays DEF Begun
  <2>2. Moved(u) \/ (u \in Requests /\ u \notin request[v].after)
    BY <1>2, <2>1 DEF FInv, SignupsLooked
  <2>3. QED
    BY <1>8, <2>1, <2>2
<1>11. QED
  BY <1>5, <1>6, <1>7, <1>9, <1>10

LEMMA BeginLinks == ASSUME IInv, FInv, NEW r \in Requests, Begun(r)
                    PROVE  LinksFollow' /\ ListsFollow' /\ RelinksDone'
<1>1. \A q \in Requests : \A u : Relinked(q, u)' <=> Relinked(q, u)
  BY HistoryStays DEF Relinked, Relinks
<1>2. \A u : users'[u] = users[u] /\ (Exists(u)' <=> Exists(u))
  BY DEF Begun, Exists
<1>3. \A c \in Requests \ {r} : request'[c] = request[c]
  BY HistoryStays
<1>4. \A c \in Requests \ {r} : Later(c)' = Later(c) /\ Overlapping(c)' = Overlapping(c)
  <2> SUFFICES ASSUME NEW c \in Requests \ {r}
               PROVE  Later(c)' = Later(c) /\ Overlapping(c)' = Overlapping(c)
    OBVIOUS
  <2>1. Later(c)' = Later(c)
    BY <1>1, <1>3 DEF Later, Relinked
  <2>2. \A q \in Later(c) : q \in Requests \ {r}
    BY HistoryStays DEF Later, Relinked
  <2>3. QED
    BY <1>3, <2>1, <2>2 DEF Overlapping
<1>5. \A q \in Requests : (request[q].wrote \/ request'[q].wrote) => q # r
  BY HistoryStays
<1>6. \A c \in Requests : Completed(c)' => Completed(c) /\ c # r
  BY <1>3, <1>5 DEF Completed
<1>7. \A c \in Requests : Unlinked(c)' => Unlinked(c) /\ c # r
  BY <1>3, <1>5 DEF Unlinked
<1>8. \A c \in Requests \ {r} : request[c].op \in Takes =>
        /\ request'[request[c].token].value = request[request[c].token].value
        /\ LinkFrom(request[c].token)' = LinkFrom(request[c].token)
  BY <1>3, HistoryStays DEF LinkFrom
<1>9. \A c \in Requests \ {r}, q \in Requests \ {r} :
        request[c].op \in Takes => (UnlinksFor(q, c)' <=> UnlinksFor(q, c))
  BY <1>3, <1>8 DEF UnlinksFor
<1>10. \A c \in Requests : \A q \in Later(c) : q \in Requests \ {r}
  BY <1>5 DEF Later, Relinked
<1>11. \A c \in Requests \ {r} : Completed(c) /\ LossExplained(c) => LossExplained(c)'
  BY <1>4, <1>9, <1>10 DEF LossExplained, Completed, Takes
<1>12. \A c \in Requests \ {r}, l \in Link : ReturnExplained(c, l) => ReturnExplained(c, l)'
  BY <1>3, <1>4, <1>10 DEF ReturnExplained
<1>13. HomeUnlinked => HomeUnlinked'
  BY <1>1, <1>3, <1>5 DEF HomeUnlinked, Relinked
<1>14. LinksFollow'
  <2>1. ASSUME NEW c \in Requests, Completed(c)', Exists(request[c].user)',
               LinkFrom(request[c].token)' \notin users'[request'[c].user].links
        PROVE  LossExplained(c)'
    <3>1. Completed(c) /\ c # r /\ request'[c] = request[c] /\ request[c].op \in Takes
      BY <1>3, <1>6, <2>1 DEF Completed, Takes
    <3>2. Exists(request[c].user) /\ LinkFrom(request[c].token) \notin users[request[c].user].links
      BY <1>2, <1>8, <2>1, <3>1 DEF Exists
    <3>3. QED
      BY <1>11, <3>1, <3>2 DEF FInv, LinksFollow
  <2>2. ASSUME NEW c \in Requests, Unlinked(c)', Exists(request[c].user)',
               NEW l \in OfProvider(users'[request'[c].user].links, request'[c].value)
        PROVE  ReturnExplained(c, l)'
    <3>1. Unlinked(c) /\ c # r /\ request'[c] = request[c]
      BY <1>3, <1>7, <2>2
    <3>2. Exists(request[c].user) /\ l \in OfProvider(users[request[c].user].links, request[c].value)
      BY <1>2, <2>2, <3>1 DEF Exists
    <3>3. request[c].user # None
      BY <3>1 DEF Unlinked, IInv, CallsOK, Acts
    <3>4. users[request[c].user] \in User
      BY <3>2, <3>3 DEF IInv, TypeOK, Request, Exists
    <3>5. l \in Link
      BY <3>2, <3>4 DEF OfProvider, User
    <3>6. QED
      BY <1>12, <3>1, <3>2, <3>5 DEF FInv, LinksFollow
  <2>3. Exists(Resident)' /\ HomeLink \notin users'[Resident].links => HomeUnlinked'
    BY <1>2, <1>13 DEF FInv, LinksFollow
  <2>4. QED
    BY <2>1, <2>2, <2>3 DEF LinksFollow
<1>15. ListsFollow'
  <2> SUFFICES ASSUME NEW q \in Requests, Writing(q)'
               PROVE  ListFits(q, request[q].links)'
    BY DEF ListsFollow
  <2>1. q # r /\ request'[q] = request[q] /\ Writing(q)
    BY <1>3 DEF Begun, Writing
  <2>2. PICK l \in SUBSET Link : l = request[q].links /\ l = request'[q].links
    BY <2>1 DEF IInv, TypeOK, Request
  <2>3. ListFits(q, l)
    BY <2>1, <2>2 DEF FInv, ListsFollow
  <2>4. request'[q].op = "complete_account_link" => LinkFrom(request[q].token)' \in l
    BY <1>8, <2>1, <2>3 DEF ListFits, Takes
  <2>5. ASSUME NEW c \in request'[q].after, request'[c].user = request'[q].user
        PROVE  /\ Completed(c)' /\ LinkFrom(request[c].token)' \notin l
                    => LossExplained(c)' \/ UnlinksFor(q, c)'
               /\ Unlinked(c)' => \A k \in OfProvider(l, request'[c].value) :
                    ReturnExplained(c, k)' \/ request'[q].token = k.by
    <3>1. c \in request[q].after /\ c \in Requests \ {r} /\ request'[c] = request[c]
      BY <1>3, <2>1, <2>5, HistoryStays
    <3>2. ASSUME Completed(c)', LinkFrom(request[c].token)' \notin l
          PROVE  LossExplained(c)' \/ UnlinksFor(q, c)'
      <4>1. Completed(c) /\ request[c].op \in Takes /\ LinkFrom(request[c].token) \notin l
        BY <1>6, <1>8, <3>1, <3>2 DEF Completed, Takes
      <4>2. LossExplained(c) \/ UnlinksFor(q, c)
        BY <2>1, <2>3, <2>5, <3>1, <4>1 DEF ListFits
      <4>3. QED
        BY <1>9, <1>11, <2>1, <3>1, <4>1, <4>2
    <3>3. ASSUME Unlinked(c)', NEW k \in OfProvider(l, request'[c].value)
          PROVE  ReturnExplained(c, k)' \/ request'[q].token = k.by
      <4>1. Unlinked(c) /\ k \in OfProvider(l, request[c].value) /\ k \in Link
        BY <1>7, <3>1, <3>3 DEF OfProvider
      <4>2. ReturnExplained(c, k) \/ request[q].token = k.by
        BY <2>1, <2>3, <2>5, <3>1, <4>1 DEF ListFits
      <4>3. QED
        BY <1>12, <2>1, <3>1, <4>1, <4>2
    <3>4. QED
      BY <3>2, <3>3
  <2>6. /\ request'[q].op = "unlink_account" => OfProvider(l, request'[q].value) = {}
        /\ request'[q].user = Resident /\ HomeLink \notin l
             => HomeUnlinked' \/ (request'[q].op = "unlink_account" /\ request'[q].value = HomeProvider)
    BY <1>13, <2>1, <2>3 DEF ListFits
  <2>7. ListFits(q, l)'
    BY <2>4, <2>5, <2>6 DEF ListFits
  <2>8. QED
    BY <2>2, <2>7 DEF ListFits
<1>16. RelinksDone'
  BY <1>2, <1>3 DEF FInv, RelinksDone, Begun, Effective, Answered, Exists, Relinks
<1>17. QED
  BY <1>14, <1>15, <1>16

LEMMA NextFInv == ASSUME IInv, IInv', FInv, [Next]_vars PROVE FInv'
<1>1. CASE Tick \/ UNCHANGED vars
  <2>1. UNCHANGED <<users, request>>
    BY <1>1 DEF Tick, vars
  <2>2. FieldsFollow' /\ PasswordsFrom' /\ ChangesKnew' /\ EmailsFrom' /\ SignupsLooked'
    BY <2>1 DEF FInv, FieldsFollow, PasswordsFrom, ChangesKnew, EmailsFrom, SignupsLooked, Exists,
      Replaced, FieldOf, MayFollow, FirstPassword, Knew, Moved, FirstEmail
  <2>3. LinksFollow'
    BY <2>1 DEF FInv, LinksFollow, Exists, Completed, Unlinked, LossExplained, ReturnExplained, Later,
      Overlapping, UnlinksFor, Relinked, Relinks, LinkFrom, HomeUnlinked
  <2>4. ListsFollow' /\ RelinksDone'
    BY <2>1 DEF FInv, ListsFollow, RelinksDone, Effective, Answered, Exists, Writing, ListFits, Completed, Unlinked, LossExplained,
      ReturnExplained, Later, Overlapping, UnlinksFor, Relinked, Relinks, LinkFrom, HomeUnlinked
  <2>5. QED
    BY <2>2, <2>3, <2>4 DEF FInv
<1>2. ASSUME NEW r \in Requests, Start(r) PROVE FInv'
  BY <1>2, StartBegins, BeginFields, BeginLinks DEF FInv
<1>3. ASSUME NEW r \in Requests, Step(r) \/ Fail(r) PROVE FInv'
  BY <1>3, StepMoves, FMovesKeep
<1>4. QED
  BY <1>1, <1>2, <1>3 DEF Next

-----------------------------------------------------------------------------
(* Theorems *)

\* What the histories say of the records holds at every instant: each handler's later write finds
\* the record, the list or the answer that its own reads and the overlapping calls explain.
THEOREM FieldInvariance == Spec => [](IInv /\ FInv)
<1>1. IInv /\ FInv /\ [Next]_vars => (IInv /\ FInv)'
  BY NextIInv, NextFInv
<1>2. QED
  BY InitIInv, InitFInv, <1>1, PTL DEF Spec

\* set_password_hash, update_email and update_profile each replace one field: an answered change
\* stays until a call that was not over when it began replaces the same field.
THEOREM WritesStick == Spec => []AnsweredWriteSticks
<1>1. FInv => AnsweredWriteSticks
  BY DEF FInv, FieldsFollow, AnsweredWriteSticks, Fields
<1>2. QED
  BY <1>1, FieldInvariance, PTL

\* change_password checks the password one store call before it writes: the one it was given had
\* not been replaced before it began.
THEOREM ChangesKnewPassword == Spec => []ChangeKnewPassword
<1>1. FInv => ChangeKnewPassword
  BY DEF FInv, ChangesKnew, ChangeKnewPassword, Knew
<1>2. QED
  BY <1>1, FieldInvariance, PTL

\* signup looks the address up before it creates the account: two accounts have one address only
\* when their signups overlapped or an email change moved one.
THEOREM AddressesExplained == Spec => []DuplicatesExplained
<1>1. ASSUME IInv, FInv PROVE DuplicatesExplained
  <2> SUFFICES ASSUME NEW u \in Ids, NEW v \in Ids, u # v, Exists(u), Exists(v),
                      users[u].email = users[v].email
               PROVE  \/ Moved(u) \/ Moved(v)
                      \/ /\ {u, v} \subseteq Requests
                         /\ u \notin request[v].after /\ v \notin request[u].after
    BY DEF DuplicatesExplained, Moved
  <2>1. \A w \in Ids : Exists(w) => w = Resident \/ (w \in Requests /\ w # Resident /\ request[w].op = "signup")
    BY <1>1, AccountAssumption DEF IInv, StoresOK, Settled
  <2>2. ASSUME NEW w \in Ids, NEW x \in Ids, w # x, Exists(w), Exists(x), w # Resident,
               users[w].email = users[x].email, ~Moved(w), ~Moved(x)
        PROVE  x \in Requests /\ x \notin request[w].after
    <3>1. users[w].email = request[w].value
      BY <2>2, <1>1 DEF FInv, EmailsFrom, FirstEmail
    <3>2. QED
      BY <1>1, <2>1, <2>2, <3>1 DEF FInv, SignupsLooked
  <2>3. CASE ~Moved(u) /\ ~Moved(v)
    <3>1. u # Resident => v \in Requests /\ v \notin request[u].after
      BY <2>2, <2>3
    <3>2. v # Resident => u \in Requests /\ u \notin request[v].after
      BY <2>2, <2>3
    <3>3. QED
      BY <3>1, <3>2, AccountAssumption
  <2>4. QED
    BY <2>3
<1>2. QED
  BY <1>1, FieldInvariance, PTL

\* The lists of links are written back one store call after they were read: a link is lost, or
\* comes back, only through a later call for it or an overlapping one.
THEOREM LinksExplained == Spec => []LinkLossNeedsOverlap
<1>1. ASSUME IInv, FInv PROVE LinkLossNeedsOverlap
  <2>1. \A c \in Requests : Answered(c, "Ok") =>
          /\ request[c].op = "complete_account_link" => Completed(c)
          /\ request[c].op = "unlink_account" => Unlinked(c)
    BY <1>1 DEF FInv, RelinksDone, Relinks, Effective, Completed, Unlinked
  <2>2. LinksFollow
    BY <1>1 DEF FInv
  <2>3. QED
    BY <2>1, <2>2
    DEF LinksFollow, LinkLossNeedsOverlap, LossExplained, ReturnExplained, Later, Overlapping, UnlinksFor,
        HomeUnlinked
<1>2. QED
  BY <1>1, FieldInvariance, PTL
=============================================================================
