# Awesome Rust Auth: models, checks and proofs

This directory holds TLA+ models of the authentication services in `src/` and of the two
browser scripts in `src/assets/` that use them, the TLC configurations that check them on
small instances, and TLAPS proofs of the results that matter most. `PROJECT.json`
lists the components, runs, seeded faults, source lines of each definition,
hazards, theorems and the places where documentation and code disagree.

## The system

Awesome Rust Auth is a library. An application gives each service an `Arc` to
every store it needs (traits in `src/traits.rs`) and calls the services from its
HTTP handlers. A service is immutable: all state lives in the stores, and every
access is an `.await`. Handlers run concurrently on an async executor, and three
facts follow that shape every model here.

* Between two store calls of one handler any other handler may run. There is no
  transaction that spans two calls, and the store traits promise none.
* Every store call may answer an error, which `?` returns to the caller while
  the effects of the calls before it stay.
* The client may hang up. The executor then drops the future, and the handler
  stops at the await it had reached.

| Component | State | Operations | Hard behaviour | What makes it correct |
|---|---|---|---|---|
| Sessions (`service.rs`) | session records, JWTs with the client | login, rotate, logout, list, require_permissions | rotation and logout overlap; failure between revoke and create; two clock readings | an ended session renews nothing; a chain keeps its user; no unexplained sessions; logout takes effect |
| Signup (`service.rs`) | user records | signup | check then create | one account per address |
| Account linking (`service.rs`) | pending links, `oauth_accounts` of a user | initiate, complete, unlink | read, change, write back | a link that was answered is there, unless unlinked |
| Accounts (`account.rs`) | password hashes, reset and verification tokens, addresses | change and reset password, verify and change email, profile, delete | consume before check; tokens that outlive what they vouch for | the last answered password is the one that works; one use per token |
| Magic links (`magic_link.rs`) | links, sessions | request, verify | consume before check; deletion in between | single use, lifetime, right user |
| One-time codes (`otp.rs`) | one code record per user | request, verify | overwritten records, guesses that overlap | one guess per code, newest code only |
| Event bus (`event_bus.rs`) | broadcast channel | publish, subscribe | slow or absent receivers | events in order, losses only by overflow |
| TOTP, API keys, CSRF | secrets, key hashes, none | enable, verify; issue, authenticate, revoke; generate, validate | windows and truncation at boundaries | the accepted window is the documented one |
| Mail, webhooks, OIDC, config, adapters, OpenAPI, UI assets | none | pure functions and tables | none | |
| Browser client (`assets/auth.js`) | `refreshInProgress`, `isAuthenticated`, `currentUser`, hooks, the location | fetch interceptor, refresh, session check, init, login, 2FA and one-time verification, logout, deletion, guards | 401s that share a refresh; answers that arrive after a logout; a flag and a user written on two sides of an await | no renewed token is presented; a logout lasts; a guard asks the server; every call ends |
| Admin console (`assets/admin.js`) | `_state`, the main element, the server's lists and settings | tabs, pages, filters, panels, selection, edits, settings, files, templates | answers that arrive after the view or the query changed; read, change, write back; a key that is told once | controls and rows agree with `_state`; nothing deleted is painted back; nothing answered is lost |

Services interact only through shared stores: a session that `login` creates is
read by `rotate_refresh_token`; a user that `delete_account` removes is looked up
by `login`, by both passwordless services and by every operation on the records; every service ends its state changes
with an event in the telemetry store and on the event bus. The two scripts run in a
browser: they share no state with the services but what HTTP carries, and each has its own
copy of the server in its model.

A script runs on one thread. Between two of its awaits the browser runs any other call,
click or render that is ready, so an answer finds a page that is not the one which asked
for it.

## Modules

| Module | Models |
|---|---|
| `Handlers` | what async handlers have in common: the store call they wait for, their answers, store errors and dropped futures, and the two halves of `emit_event` |
| `AuthSessions` | `AuthService`'s session operations, `require_permissions`, and `AccountService::delete_account` |
| `SessionLifecycle` | the abstract promise: granted once, revoked once, renewed only after revocation |
| `MCAuthSessions` | `AuthSessions` with symmetry, for TLC |
| `AuthSessionsProofs` | its inductive invariant, and theorems about sessions and the refinement |
| `SessionPromisesProofs` | a second invariant, and theorems about events, deletion, failures and the clock |
| `OneTimeLogin` | `MagicLinkService` and `OtpService`, with account deletion |
| `MCOneTimeLogin` | `OneTimeLogin` with symmetry, for TLC |
| `OneTimeLoginProofs` | its inductive invariant, and theorems about links and codes |
| `UserRecords` | the user records, and the handlers that need nothing else: signup, profile, deletion |
| `Passwords` | password change and reset, on `UserRecords` |
| `Addresses` | email verification and change, on `UserRecords` |
| `AccountLinks` | OAuth links: initiate, complete, unlink, on `UserRecords` |
| `Accounts` | the four composed on one store, with their properties |
| `MCAccounts` | `Accounts` with symmetry, for TLC |
| `AccountsProofs` | its inductive invariant, and theorems about the tokens |
| `AccountFieldsProofs` | a second invariant, and theorems about fields, addresses and links |
| `AuthClient` | `auth.js` in one page: the calls, the fetch interceptor, the shared refresh, with cookies, server and network |
| `MCAuthClient` | `AuthClient` with its workloads, for TLC |
| `AuthClientProofs` | its inductive invariant, and theorems about the refresh, the guards, the logout and the page's two variables |
| `ConsoleViews` | `admin.js`: `_state`, the main element, renders, tabs, pages, filters, panels, the selection and the calls of the lists |
| `ConsoleSettings` | API keys and their banner, the webhook drawer, the switches of the Control tab, on `ConsoleViews` |
| `ConsoleFiles` | uploaded files and the logo URL, on `ConsoleViews` |
| `ConsoleTemplates` | mail and UI templates, the page's copies of them and the editor, on `ConsoleViews` |
| `AdminConsole` | the four composed on one main element, with their properties |
| `MCAdminConsole` | `AdminConsole` with its workloads, for TLC |
| `AdminConsoleProofs` | its inductive invariants, and theorems about types, controls and API keys |
| `ConsoleDataProofs` | invariants about the settings, the templates, the rows and the selection, and the theorems about them |

### How state and actions correspond to the code

`request[r]` is the local state of one handler: its `op`, its `phase` (the store
call it is about to make), the local variables that a later store call uses, and its
result. One action is one store call together with everything the handler does
until its next await, so the action named for a call carries that call's guard, its
effect on the store and the code after it. `StartX` is the entry of the handler up to
its first await. `Fail` is the error path of any store call, or a dropped future; an
error that arrives after the store applied the write is the step followed by
`Fail`. Input that fails validation is answered before the first await and changes
nothing, so it is left out.

A handler draws fresh UUIDs and random tokens. A request makes at most one session,
link or code record, so these are named after the request that makes them. A
one-time code is different: it is one of `Codes`, and two records may hold the same
one. Hashes are compared by the value they were made from. A refresh token carries
the session's `refresh_token_id` in `sid`, while an access token carries the session's
id, which names no refresh token: that one is `NoSession` in `Presentable`.

An account is named after the signup that creates it, one account (`Resident`) exists from
the start, and callers name only accounts whose signup was answered. Tokens can be
presented once they were answered to their user. `UserStore` promises nothing about a
write to a record that is gone: in `WriteField` it succeeds and changes nothing, as an
SQL update does that finds no row, and `Fail` covers a store that answers an error.
`update_profile` answers the updated user, so it needs one. The list of OAuth links is
the set of its entries: the code never looks at their order.

`after`, `began` and `wrote` are history variables. They record real-time order, the calls
answered before a request began and the clock at its beginning, which is what a
promise to a caller is about, and whether the request changed a record (`began` is in the
one-time logins and the user records, `wrote` in the user records). No guard reads them.

In the two scripts `task[t]` is the local state of one call, click handler or render, and
its `phase` is the await it stands at. The action of an await carries the code from there
to the next one. `Serve...` and `Fail...` are the server's, and `Lose...` the network's:
they are external, and modelled as the code uses them. A browser stores the cookies of an
answer when it arrives, so the action that goes on with an answer stores them first. A
token pair of `AuthClient` is one entry of `pairs`: it can be renewed (`live`), was
(`rotated`), was with the answer lost (`lost`), or belongs to a session that is over
(`ended`). An access token is good until it expires, which may be at any time, so the server
may refuse any request with 401. In the console `screen` is the main element as far as a
handler can tell it apart: the view, its rows, the query they answer (`sent`), and what
each control displays. A filter finds the items of `Matching`; a page has `PageSize` of
them. Every `render...` function is an action that ends the task which asked for its list,
and paints over whatever is there.

`after` of a task, `mixed`, `removed`, `base`, `over`, `quiet`, `asked`, `seen` and `latest` are
history variables of the scripts: which calls were over when one began, what a handler
was told it deleted, which contents a save was based on and replaced, the keys that were
on a banner, and the render that began last.

Definitions named `X_Fault` stand above the `X` they are a faulty form of. They are
not used by the specification; each property of a passing run is shown to fail when
one of them takes the place of `X`.

## Runs

| Run | Instance | Result |
|---|---|---|
| `sessions` | 1 user, 4 requests of all five kinds | holds, about 240,000 states |
| `sessions_lineage` | 2 users, 3 requests (login, rotate, logout), 2 clock readings a second, clock 0..2, lifetime 0, leeway 0 | holds, about 480,000 states |
| `sessions_live` | 1 user, 3 requests, fairness | holds |
| `one_successor` | 1 user, 3 requests | violated |
| `deleted_user` | 1 user, 3 requests | violated |
| `one_time_login` | 2 users, 2 codes, 3 requests, clock 0..1, lifetime 0 | holds, about 730,000 states |
| `one_time_live` | 1 user, 1 code, 3 requests, fairness | holds |
| `accounts` | 2 addresses, 2 passwords, 2 providers, 3 requests in 4 workloads, clock 0..1, lifetime 0 | holds, about 830,000 states |
| `verify_email` | the same | violated |
| `auth_client` | 2 users, 3 calls in 6 workloads, 1 loss, fairness | holds, about 480,000 states |
| `headless` | the same | violated |
| `console` | 3 tasks in 11 workloads, pages of 1 row, 2 items a list, 2 webhook actions, 1 template with 1 typed content | holds, about 920,000 states |

**sessions** shows what an answer guarantees. After a logout or rotation was answered
`Ok`, no rotation that begins later creates a session from the same token
(`AnsweredEndIsFinal`). After a deletion, no later login creates one
(`DeletionStopsLogin`). A session nobody holds a token of comes only from a request
still running or failed after `create_session` (`OrphansComeFromFailures`). Events
are persisted before they are handed out, are true, and are complete for answered calls
(`AuditSound`). Four requests let a login be followed by three overlapping requests on
its session, the largest number that any of the properties relates.

**sessions_lineage** lets the clock pass the expiry. `LineageOK`: what a rotation
replaced is revoked, and the user stays the same. `TokenOutlastsSession`: a refresh token
decodes for as long as its session record lasts. This is not a matter of course.
`Session.expires_at` keeps the fraction of a second; `exp` is made from a second reading of the
clock, after `create_session`, and `unix_timestamp` drops its fraction, so `exp` may be the
earlier of the two. What saves the client is that `decode_claims` compares whole seconds
too. `Second` is the number of clock readings in a second: two let both expiries fall in one
second, or in two, at any order of the readings, and a lifetime of 0 puts the expiry within
the clock's three values. (A lifetime of 1 and a clock 0..4, checked once, has 9.4 million
states and takes five minutes.) The other runs keep `Second = 1`: nothing they ask depends on it.
`ImplementsLifecycle`: every behaviour is one of `SessionLifecycle` under the mapping
at the end of `AuthSessions`.

**sessions_live** states that every request ends, and that a logout which found its
session revokes it unless the request itself fails, whatever overlaps it.

**one_time_login** covers links and codes. A record logs in once (`SingleUse`), the right
user (`SessionMatchesRequest`), never from a call that began past the expiry
(`ExpiredNeverLogsIn`). A newer answered code request shuts out a code answered before it
began (`NewerCodeReplacesOlder`), a wrong guess spends the code (`OneGuessPerCode`),
deletion shuts out later verifications (`DeletionStopsOneTimeLogin`). Where a link or code that
is gone went can be told: to a verification, with what became of it, or under the code of
another request that was stored over it (`SpentRecordExplained`). A lifetime of
0 puts the boundary `now > expires_at` between the clock's two values, so that records
are both good at their last instant and refused after it.

**one_time_live** is the converse: the right code does get in (`RightCodeGetsIn`), unless
the call fails, the record expires, or another call takes the record first.

**accounts** asks what concurrent handlers may do to a record that each of them reads or
writes in several store calls. A replaced password, address or name stays until an
overlapping or later call replaces the same field (`AnsweredWriteSticks`).
`change_password` succeeds only with a password that was in force while it ran, although
it writes one store call after it checked (`ChangeKnewPassword`). A token changes a
record once, whichever handlers it is shown to (`TokenActsOnce`), and not for a call that
began after its lifetime (`ExpiredTokensDoNothing`); where it went has one of six
explanations (`SpentTokenExplained`). Two properties bound the damage of an
interleaving the code does allow: accounts share an address only if their signups
overlapped or an email change brought one there (`DuplicatesExplained`), and a link is
lost, or comes back, only through a call on the same user that overlapped
(`LinkLossNeedsOverlap`). The clients of one behaviour call the operations of one workload:
those that write the same fields or use the same store. Operations of different
workloads touch a record only through fields the other does not read, except
deletion, which is in two of them.

**auth_client** asks what calls of one page do to each other. The page never presents a
refresh token it has itself renewed, although several 401s and calls of `refresh()` may ask
for a renewal at once or right after each other (`PresentsCurrentPair`): a server that
takes reuse for theft would end the session. A loss of the answer is the one
exception, and nothing the page could know. An answered logout lasts: a later session
check is accepted only for a session that someone signed in to meanwhile, or when a refresh
was under way at the logout and brought cookies back (`LogoutSticks`). The page itself is a
different matter: the answer of a check that was sent before the logout, and arrives after it,
signs the page in again. `LogoutSticks` says that this is all that can: after an answered
logout the page takes somebody to be signed in only on the word of a check that was not over
when the logout began. Both guards rest on a
`/me` of their own. `guardRole` looks at `currentUser` when it resumes, which an overlapping
check may have replaced, and at nothing older (`GuardsAskTheServer`). `isAuthenticated`
is written before the body of `/me` is read and `currentUser` after it; they disagree only
while a body is being read, or because something signed the page out between the two writes
(`FlagAndUserAgree`). Every call ends, those too that wait for a refresh another one
started (`EveryCallEnds`).

**console** asks what an answer does to a page that has moved on. Whichever render painted
last, the pager, the filter, the boxes, the count, the open row and the marked tab are those of
`_state` (`ControlsMatchState`): a tab can be marked wrongly only when the render of another
overlapped the change. The rows do not follow so well: an early render that is answered late
paints old rows. What holds is that the render which began last paints rows that answer the
query of now and contain nothing a handler was told is deleted, and the panel of uploaded
files likewise (`LatestRenderIsCurrent`). `deleteSelected` sends its calls at once, each may
fail, or be carried out and its answer lost, and the others go on. The selection may then
keep users who are gone, and the next batch counts them again. `SelectedGoneExplained` says
when: a deletion of the row alone, a batch that is still out or was told to have failed, or
calls on the list that overlapped the batch and put its users back on the screen.
`toggleWebhookAction` reads the list of enabled actions, changes it and writes it back: an
answered click stays, unless two clicks overlapped, and of those that overlap at least one has
its effect. require2FA and the users' policy are written in two calls. They agree after an answered
change that none overlapped, and they differ only because of a call that failed, overlapped or
set the policy alone, and not beyond the next change that was answered in full
(`SettingsFollowAnswers`). The raw form of an API key is in one answer only; it reaches a
banner or still waits for one, whatever tabs and failed renders come between, and only an
overlapping creation replaces it (`KeySeenOrReplaced`). A save of a template replaces what its
editor was filled from, so nobody's work is lost unseen, with the exceptions the property
names (`SaveReplacesWhatItLoaded`).

### Where code and documentation disagree

* `one_successor`: `README.detailed.md:399` says the old session is revoked atomically
  before the new one is created. The check of `revoked_at` and the revocation are two
  store calls, so two overlapping rotations of one token leave two live sessions.
  `AnsweredEndIsFinal` is what does hold: it takes overlap.
* `headless`: `auth.js:362-364` says that headless mode installs no-op hooks so that the script
  never redirects. `guardPage` and `guardRole` set
  `location.href` without a look at the hooks, so a guard redirects a headless page too.
* `deleted_user`: `README.detailed.md:114` lists token refresh among the uses of
  `get_user_by_id`. `rotate_refresh_token` never calls it, so sessions of a deleted user
  go on rotating.

* `verify_email`: `models.rs:121` keeps tokens for a verification and for an email change
  apart by `new_email`. `confirm_email_change` refuses a token of the other kind;
  `verify_email` does not look, so the token sent to a new address marks the account
  verified, and is spent without changing the address.

### Bounds, symmetry and deadlock

`Requests` bounds the number of calls, each slot is used once. `MaxTime` bounds the clock.
Requests, users and codes are interchangeable, so the safety runs use symmetry; the runs
that check liveness do not. `sessions_lineage` keeps symmetry with one temporal
formula, the refinement: it is a safety formula and names no particular request. A server rests once every slot is
used, so deadlock is not an error, and every configuration says so. Three requests on the
records let one operation that draws a token be followed by two overlapping ones that
present it, or one answered change by two that overlap each other; none of the properties
relates more. In the scripts a workload says which operations each task may be, so that the
ones that touch the same state meet: all pairs that share a field of `_state`, the shared
refresh or the cookies are in one. Three calls let two share a refresh while a third starts
the next, or an answered logout be followed by a check while another call is still on its
way; `LogoutSticks` and `KeySeenOrReplaced` relate three. (`SelectedGoneExplained` relates two calls and a row that is
selected again.) Two items, one of which a filter
finds, and pages of one row give a list with a second page, a filter that shortens it to
one, and a deletion that empties the last. A second loss adds no new
kind of behaviour to a call, which ends at its first. Tasks of the scripts play different
parts in a workload, so there is no symmetry. A lifetime of 0 and a clock of two values put a token at
its last good instant and past it; the sessions, whose clock is finer than a second, take three.

### Fairness

`FairSpec` asks weak fairness of `Step(r)` of each request: when a store call of a request
can be answered, the executor eventually polls the future and the handler moves to its
next await. That is what an async executor does with a woken task. Nothing is assumed of
`Start`, `Fail` or the clock. (`AuthClient` has its own: weak fairness of `Progress` as a
whole, that is, as long as the server has a request to answer or the browser a
continuation to run, one of these happens. A request that the network loses rejects its
promise, as `fetch` does, and losses are bounded; a new call needs a task. The
admin console is checked for safety alone, without fairness.) `Step(r)` stays enabled while a request waits, so weak
fairness is enough, and `Fail` may always come first: the liveness properties say so.

## Proofs

`AuthSessionsProofs` proves, for every set of users and requests, every lifetime and
leeway, and every set of operations clients call:

* `TypeCorrect`: `Spec => []TypeOK`
* `Lineage`: `Spec => []LineageOK`
* `AnsweredEnd`: `Spec => []AnsweredEndIsFinal`
* `Implements`: `Spec => ImplementsLifecycle`

and `SessionPromisesProofs`, which extends it:

* `EventsAreTrue`: `Spec => []AuditSound`
* `DeletionStops`: `Spec => []DeletionStopsLogin`
* `NoOrphans`: `Spec => []OrphansComeFromFailures`
* `TokensOutlast`: `Spec => []TokenOutlastsSession`

Together they are every safety property that the two passing safety runs check.

They rest on `CallsAssumption`, `SessionAssumption`, `UserAssumption` and
`TimeAssumption`: absent values are none of the present ones, times are naturals, and a second
has at least one reading of the clock. The clock does not run backwards (`Tick`); a host whose
wall clock is set back is outside the model.

None of these properties is inductive. The invariant `IInv` adds to `TypeOK` what the
handlers' local state says of the stores. `OwnSession`: a request has created its session
exactly when it is past `create_session`, and the session is of its user. `NamedSession`:
a request that waits for `revoke_session`, or is past it, names a stored session, and past
it a revoked one. `LateRotation`: a rotation that began after an answered end of
its session waits only for `get_session` or has been answered; it is what carries
`AnsweredEndIsFinal` through the two store calls that a rotation is made of. The
lemmas follow the handlers: one for each way a step moves a request (begin, await,
answer, await a creation, revoke, create), each saying that `IInv` is kept, and
`NextIInv` splits `Next` into its actions and cites them. For the refinement, a step is
quiet (the mapped variables do not change), a revocation (a `Revoke` or a stutter when
the session was revoked before), or a creation (`Grant` after a login, `Renew` after a
rotation).

`PInv` is inductive relative to `IInv`. `Events`: a handler whose change is made, and
whose event is about to be persisted or handed out, tells the truth already; this is what
an answer relies on. `LateLogin` is to a deletion what `LateRotation` is to a logout: it
uses `Events` to know that the record is gone. `Outcomes`: a handler that created its
session ends with `Ok` or fails. `Clock`: a session is built no later than its token is
minted, so its expiry lies in no later second than `exp`; the lemma `TimestampsOrdered` says that
truncation keeps the order of two readings, all that `TokensOutlast` needs of it. The lemmas
`AnswerMoves` to `StepMoves` say what any step leaves alone, so that each part of `PInv` looks
only at the steps that touch it.

`OneTimeLoginProofs` proves, for every set of users, codes and requests, every lifetime and
every bound on the clock:

* `TypeCorrect`: `Spec => []TypeOK`
* `OneLoginPerRecord`: `Spec => []SingleUse`
* `RightUser`: `Spec => []SessionMatchesRequest`
* `ExpiryHolds`: `Spec => []ExpiredNeverLogsIn`
* `NewestCode`: `Spec => []NewerCodeReplacesOlder`
* `OneGuess`: `Spec => []OneGuessPerCode`
* `DeletionStops`: `Spec => []DeletionStopsOneTimeLogin`
* `SpentRecordsExplained`: `Spec => []SpentRecordExplained`

from `OneTimeAssumption` (absent values are none of the present ones, times are naturals). A
store that gives a record away forgets it, so the invariant has to say where it went. `TakenOK`:
what a verification took is in no store, fits its own arguments, and was in time.
`OneTaker`: no two calls took the same record. With these the properties follow from the
sessions, each of which belongs to a call that took its record. `NewestStays` and `LateCode`
carry the order of two answered code requests from `store_otp` to a later verification;
`Deletions` does so for a deletion, and `SpentLinks` and `SpentCodes` are the two halves of the last property
with the handlers under way included: a code that is stored over is explained in that step by the request
that stores, which cannot have been answered before the older one began. The lemmas follow what a step does to the stores: nothing, one record more, one
taken out.

`AccountsProofs` proves, for every set of requests and values, every lifetime, and all sets of
operations that clients may call:

* `TypeCorrect`: `Spec => []TypeOK`
* `TokensActOnce`: `Spec => []TokenActsOnce`
* `ExpiryHolds`: `Spec => []ExpiredTokensDoNothing`
* `SpentTokensExplained`: `Spec => []SpentTokenExplained`

and `AccountFieldsProofs`, which extends it:

* `WritesStick`: `Spec => []AnsweredWriteSticks`
* `ChangesKnewPassword`: `Spec => []ChangeKnewPassword`
* `AddressesExplained`: `Spec => []DuplicatesExplained`
* `LinksExplained`: `Spec => []LinkLossNeedsOverlap`

They rest on `AccountAssumption` and `RecordAssumption` (the absent value is no value, and no
record). Four modules write the same records, so neither proof goes action by action. In
`AccountsProofs`, `Moves(r)` says all that any step of any handler may do to its own call, the
records and the tokens; one lemma per kind of step shows that it is such a move, and one lemma
(`MovesKeep`) that a move keeps the invariant: which operation makes which store call
(`PhasesOK`), what kind of value it carries (`ValuesOK`), what it knows of its token and its
user (`CallsOK`), what a stored token says of the call that drew it (`StoresOK`), and where the
tokens that are gone went (`TakenOK`, `OneTaker`, `SpentTokens`).

`FInv` is inductive relative to that invariant. `FieldsFollow`, `PasswordsFrom` and `EmailsFrom`
tie each field to the history of writes. `ChangesKnew` and `SignupsLooked` are about a handler
between its read and its write: what `change_password` compared with was in force while it ran,
and an account with the address that `signup` looked up came later. `ListsFollow` is the same for
the lists of links: the list that `complete_account_link` or `unlink_account` is about to write
back contains and lacks what the calls before it, or overlapping it, explain. Without it
`LinksFollow`, the property itself, is not preserved by the write. Again every step is an
`FMoves(r)` (`StepMoves`), and such moves keep `FInv` (`FMovesKeep`), because the history of writes
only grows and what explains a loss goes on to explain it.

`AuthClientProofs` proves, for all calls, users and workloads, and every number of losses:

* `TypeCorrect`: `Spec => []TypeOK`
* `RenewsOnce`: `Spec => []PresentsCurrentPair`
* `GuardsAsk`: `Spec => []GuardsAskTheServer`
* `BeliefAgrees`: `Spec => []FlagAndUserAgree`
* `LogoutStays`: `Spec => []LogoutSticks`
* `WaitersAreTold`: `Spec => []NobodyWaitsInVain`, a call that waits for the shared refresh waits
  for one that is under way

from the assumptions on `Users`, `Workloads` and `MaxLosses`, and `OriginAssumption` (the sign-in
before the page was opened is no call of the page). `RInv` says where pairs can be: one that an
answer will still bring is nowhere else and was not renewed (`FlightsOK`), and the cookies hold a
renewed one only while the answer of that renewal is on its way (`JarOK`). `BInv` adds to the
properties a check that reads a body while the flag is down (something signed the page out
since) and a guard that is about to resume (the user it will look at is its own or an
overlapping call's). `SInv` follows a sure logout: from then on nothing in the cookies, in the
refresh or in what a later call has sent goes back to a session from before it.
`PageFromChecks` is the part about the page: a logout clears both variables in the step that
answers it, and the only steps that set them again belong to a check, which is not among the calls
that were over when the logout began.
`NobodyWaitsInVain` is inductive by itself: who begins to wait has joined a refresh or started
one, and a refresh that settles tells all. It is the part of `EveryCallEnds` that needs no
fairness. A step of a
call is again one kind of move, `Moves(t)`; the three steps of the shared refresh are treated
apart, since they touch no call but to tell it how the refresh ended.

`AdminConsoleProofs` proves, for all tasks, items, actions, templates and versions, every page
size and workload:

* `TypeCorrect`: `Spec => []TypeOK`
* `ControlsCorrect`: `Spec => []ControlsMatchState`
* `KeysCorrect`: `Spec => []KeySeenOrReplaced`

and `ConsoleDataProofs`, which extends it:

* `SettingsCorrect`: `Spec => []SettingsFollowAnswers`
* `SavesCorrect`: `Spec => []SaveReplacesWhatItLoaded`
* `RowsCurrent`: `Spec => []LatestRenderIsCurrent`
* `SelectionCorrect`: `Spec => []SelectedGoneExplained`

from `ItemAssumption` (tasks, existing items, versions and templates are positive numbers, so
that none is the absent value; the items are finite, and apart from the actions),
`PageAssumption` and `WorkloadAssumption`. `TInv` adds to the types what
kind of thing each await works on (`Sort`), that a task remembers only tasks that are over, and
that rows, editor and panels fit the view on screen (`ScreenOK`). All steps of the handlers are
again moves of one task (`Moves`): one lemma per group of handlers shows it, and says what the
group may do to the page (`PageSteps`). `ShownInv` is the property of the controls; `MarkedInv`
says why the marked tab is or is not that of the view, through a task of that view which began
before the tab changed; `KeysInv` follows a raw key from its answer to `newRaw` and the banner.
`SettingsInv` follows a click from its read to its write: the list that `toggleWebhookAction` is
about to write is the list of the server but for its own action, unless another click overlapped,
and a policy on its way to its second call was set by its first. `EffectInv` is for clicks that
overlap: the one that wrote last has its effect, and a later write that undoes it has its own.
`PartedInv` names the call that set require2FA and the policy apart; a later change answered in
full ends its part in it, and if they differ still, that change was itself overlapped. `TemplatesInv` follows a
content from the server to a list (`ListInv`), to the page's copy (`CopyInv`), to the editor
(`EditorInv`) and to the save that rests on it (`SaveInv`): at each place it is what the server
has, unless a save of the same item may have been done that no render has followed (`Dirty`).

`LatestInv` is about deletions, and has to say for every item where it may still be once it is
gone. `BornInv`: an item is named after the task that creates it, and before that it is in no list
of the server, on no screen, in no selection and in no task, so that nothing comes back under a
name that was deleted. `GoneInv`: what a deletion removed is not stored from the moment the server
has carried it out; for `deleteSelected`, which deletes one row after another, that is what is no
longer left to delete. `RowsInv`: a task whose render of a view began last asked with the query of
now, and the list it was answered holds nothing a handler was told is deleted; what it painted
holds nothing either. It is kept because whoever is told of a deletion renders its view anew in
the same step, and is the latest from then on. `FilesInv` says the same of the panel of files,
which a deletion closes, and so without the latest render: its rows count only if they came from
the call that opened it. The lemmas ask of a step only which rows it brings to the screen and
from where (`Brings`), what it does to the latest render (`PageStep`), and which items the
server's answer adds to a task and takes from a list (`Answered`).

`SelectionInv` follows a user who is gone to the selection. `StaleInv` asks for an explanation
wherever he may still be listed: in the selection, on the rows of the screen that a click selects,
and in a list that a render of the users' view was answered. `BatchInv` says that what a batch has
yet to delete is part of what it set out to delete. When a batch is answered, the selection is
emptied and its own render is put in place of the rows, so what remains of its users can be only in a
list that an overlapping call was answered.

With these, every safety property, action property and refinement that a passing run checks is
proved for every value of the constants. Model-checked only: the four liveness properties
(`EveryRequestEnds`, `LogoutTakesEffect`, `RightCodeGetsIn`, `EveryCallEnds`), which are out of the
prover's reach with their fairness and ENABLED. The four properties that documentation states and
the code violates have counterexamples, found by TLC.

## Plan

The modules came in the order in which they build on each other: the sessions, the one-time
logins, the user records, the two scripts, each followed by its proofs. What is left: larger
instances of the console, two templates above all.

## Not modelled

Cryptography (argon2, HMAC, SHA-256, JWT signatures) is taken to do what it says: a token
that decodes was issued, a hash matches the value it was made from. Webhooks, OIDC
documents, route tables, configuration, mail templates, the HTTP adapters and the static
pages keep no state and await nothing; a unit test reaches all they do.

The event bus is one call of tokio's broadcast channel: ordering, lag and the error of a bus
without receivers are the channel's. What the services do with that error, and that an
event is stored before it is handed out, is in `Handlers` and `AuthSessions`. API keys,
CSRF tokens and TOTP compute on their arguments between at most two store calls, and
their content is cryptography and the arithmetic of one comparison.

Of `auth.js`: one page load and its own cookies (a second tab shares them, and would bring a
second script); the two-factor setup, account linking and password calls, which are
requests like any other to the interceptor (`request`); `doLogin`, `doLogout` and automatic
login, which only call what is modelled; overrides of methods, the CSRF header and the
page's own callbacks (`onRefreshSuccess`, `onLogout` with a body).

Of `admin.js`: one administrator and one page, so nobody else writes to the server; the login
form; user metadata, the grace period and the verification mode, saved by one call each like
`saveUiSettings`; previews and colour inputs, which show what was typed; the content of a
webhook and of a role; dependencies between webhook actions, which the server decides. All
features are taken to be on. Bodies and translations of a template are one content. The
background image is handled as the logo is.
