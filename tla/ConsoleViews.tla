---------------------------- MODULE ConsoleViews ----------------------------
(***************************************************************************)
(* The admin console, src/assets/admin.js: _state, what stands in the main *)
(* element, and the handlers of the list views.  A handler or a render is  *)
(* a task; its awaits are calls of api(), and other tasks, and clicks on   *)
(* what is on the screen, come between them.  The server (external) keeps  *)
(* what the console writes, and nobody else writes it.                     *)
(***************************************************************************)
EXTENDS Integers, FiniteSets

CONSTANTS
    Tasks,      \* handlers and renders, each run once; what a task creates is named after it
    Existing,   \* the items every list starts with
    Matching,   \* the items a filter finds
    PageSize,
    Actions,    \* webhook actions of the Control tab
    Templates, Versions,    \* mail templates or UI pages, and contents typed into them
    Workloads   \* bound: what one behaviour is made of, see Workload

ASSUME ItemAssumption == /\ Tasks \cup Existing \cup Versions \cup Templates \subseteq Nat \ {0}
                         /\ IsFiniteSet(Tasks) /\ IsFiniteSet(Existing)
                         /\ Tasks \cap Existing = {} /\ Actions \cap (Tasks \cup Existing) = {}
ASSUME PageAssumption == PageSize \in Nat \ {0}

VARIABLES
    tab, query, openId, selected, newRaw, templates,    \* _state
    screen,                         \* the main element
    task,
    latest,                         \* history: the task that last began to render each view
    seen,                           \* history: the API keys a banner has shown
    stored, settings, content,      \* the server's lists, settings and templates
    workload

nav == <<tab, query, openId, selected>>
rest == <<newRaw, seen, templates>>
page == <<nav, rest, screen, latest>>
server == <<stored, settings, content>>
vars == <<page, task, server, workload>>

Lists == {"users", "sessions", "roles", "tenants", "apiKeys", "webhooks"}
Tabs == Lists \cup {"control", "templates"}
Paged == {"users", "sessions", "apiKeys", "webhooks"}
\* Roles and tenants are fetched whole, and filtered when they are shown.
FilteredHere == {"roles", "tenants"}
Filtered == {"users", "sessions", "apiKeys"} \cup FilteredHere
WithPanel == {"users", "tenants"}
Types == {"mail", "ui"}

None == 0
Closed == -1
Items == Tasks \cup Existing
Query == [page : Nat, filter : BOOLEAN]
NoQuery == [page |-> 0, filter |-> FALSE]
Contents == [Templates -> Versions \cup {None}]
Default == [i \in Templates |-> None]

Operations == {"show", "page", "filter", "open", "selectAll", "clear", "deleteSelected",
               "delete", "create", "change", "member", "saveWebhook", "dismiss", "toggleAction",
               "updateSetting", "bulk2FA", "setType", "save", "reset", "files", "upload",
               "deleteFile", "saveUi"}
Clicks == {"select", "drawer", "edit"}

\* What each task may do, the tabs it may show, and the clicks that need no task.
Workload == [ops : [Tasks -> SUBSET Operations], tabs : SUBSET Tabs, clicks : SUBSET Clicks]
ASSUME WorkloadAssumption == Workloads \subseteq Workload

\* Where a task may stand: at the read or the call of its handler, the second call of
\* updateSetting, the list of a render, the details of its rows, a panel or the uploaded files.
Phases == {"idle", "read", "call", "policy", "list", "details", "panel",
           "files", "done"}

\* value, kind, text: what the handler writes.  ids: the rows of a list, or what is left to delete or
\* to write.  asked: the kind of templates to list.  more: Next is offered.  by: whose rendering a panel belongs to.
\* after, removed, base, over, quiet: history: the tasks over when this one began; what it
\* deletes; the content that a save was based on and replaced, and how its editor was mounted.
NewTask == [op |-> "none", phase |-> "idle", view |-> "none", item |-> None, value |-> FALSE,
            text |-> None, ids |-> {}, query |-> NoQuery, total |-> 0, more |-> FALSE,
            kind |-> "mail", asked |-> "mail", list |-> Default, by |-> None, reply |-> "none", result |-> "none",
            after |-> {}, removed |-> {}, base |-> None, over |-> None, quiet |-> FALSE]

\* The panel of uploaded files.  by: the task that filled it.  asked: history: the one that is to.
NoFiles == [open |-> FALSE, rows |-> {}, by |-> None, asked |-> None]

NoEditor == [item |-> None, base |-> None, text |-> None, quiet |-> FALSE]

\* by: the task that filled the element.  sent: the query its rows answer.  label, checked, all,
\* count, open: what the pager and the filter, the check boxes, the one above them, the
\* selection bar and the rows display.
Blank == [state |-> "blank", view |-> "none", by |-> None, sent |-> NoQuery, label |-> NoQuery,
          rows |-> {}, more |-> FALSE, checked |-> {}, all |-> FALSE, count |-> 0, open |-> None,
          panel |-> "none", banner |-> None, drawer |-> Closed, required |-> FALSE,
          editor |-> NoEditor, files |-> NoFiles, logo |-> None]

Task == [op : Operations \cup {"none"}, phase : Phases, view : Tabs \cup {"none"},
         item : Items \cup Actions \cup Templates \cup {None}, value : BOOLEAN,
         text : Items \cup Versions \cup {None}, ids : SUBSET (Items \cup Actions),
         query : Query, total : Nat, more : BOOLEAN, kind : Types, asked : Types, list : Contents,
         by : Tasks \cup {None}, reply : {"none", "ok", "failed"},
         result : {"none", "ok", "partial", "failed"}, after : SUBSET Tasks, removed : SUBSET Items,
         base : Versions \cup {None}, over : Versions \cup {None}, quiet : BOOLEAN]

Editor == [item : Templates \cup {None}, base : Versions \cup {None},
           text : Versions \cup {None}, quiet : BOOLEAN]
Files == [open : BOOLEAN, rows : SUBSET Items, by : Tasks \cup {None}, asked : Tasks \cup {None}]

Screen == [state : {"blank", "loading", "shown", "error"}, view : Tabs \cup {"none"},
           by : Tasks \cup {None}, sent : Query, label : Query,
           rows : SUBSET (Items \cup Actions), more : BOOLEAN, checked : SUBSET (Items \cup Actions),
           all : BOOLEAN, count : Nat, open : Items \cup {None},
           panel : {"none", "loading", "shown"}, banner : Tasks \cup {None},
           drawer : Items \cup {None, Closed}, required : BOOLEAN, editor : Editor,
           files : Files, logo : Items \cup {None}]

(***************************************************************************)
(* The console's state and the server's hold what the code puts there: no  *)
(* page before the first, no answer or row that nobody asked for, and no   *)
(* template where a file or a list is expected.                            *)
(***************************************************************************)
TypeOK ==
    /\ tab \in Tabs
    /\ query \in [Tabs -> Query]
    /\ openId \in [WithPanel -> Items \cup {None}] /\ selected \subseteq Items
    /\ newRaw \in Tasks \cup {None} /\ seen \subseteq Tasks
    /\ templates \in [type : Types, selectedId : Templates \cup {None},
                      cache : [Types -> Contents]]
    /\ screen \in Screen
    /\ latest \in [Tabs -> Tasks \cup {None}]
    /\ task \in [Tasks -> Task]
    /\ stored \in [Lists \cup {"files"} -> SUBSET Items]
    /\ settings \in [enabled : SUBSET Actions, require2FA : BOOLEAN, policy : BOOLEAN,
                      logo : Items \cup {None}]
    /\ content \in [Types -> Contents]
    /\ workload \in Workloads

-----------------------------------------------------------------------------
(* Tasks, calls of api() and the main element *)

Over == {t \in Tasks : task[t].phase = "done"}

Allowed(t, op) == task[t].phase = "idle" /\ op \in workload.ops[t]

New(op, view) == [NewTask EXCEPT !.op = op, !.view = view, !.phase = "call", !.after = Over]

\* Buttons and inputs are those of the view on the screen, whatever the tab.
OnScreen(view) == screen.state = "shown" /\ screen.view = view

\* What is left of a task that is over: what it did, and when.
Ended(rec) == [rec EXCEPT !.phase = "done", !.reply = "none", !.ids = {}, !.query = NoQuery,
                          !.total = 0, !.more = FALSE, !.asked = "mail", !.list = Default,
                          !.by = None, !.text = None]
Ends(t) == task' = [task EXCEPT ![t] = Ended(@)]
Awaits(t, phase) == task[t].phase = phase /\ task[t].reply = "none"
Got(t, phase, reply) == task[t].phase = phase /\ task[t].reply = reply

\* A render clears the main element and asks for the list with the query of that moment.
Renders(t, rec, view) ==
    /\ screen' = [Blank EXCEPT !.state = "loading", !.view = view, !.by = t]
    /\ latest' = [latest EXCEPT ![view] = t]
    /\ task' = [task EXCEPT ![t] = [rec EXCEPT !.phase = "list", !.view = view, !.ids = {},
                                               !.reply = "none", !.query = query'[view],
                                               !.asked = templates'.type]]

\* A handler that renders at once.
Opens(t, op, view) == Allowed(t, op) /\ Renders(t, New(op, view), view)

-----------------------------------------------------------------------------
(* Navigation *)

\* Fault: another tab takes the banner with a new API key away.
ShowTab_DropsBanner(t) == \E view \in workload.tabs :
    /\ tab' = view
    /\ newRaw' = None
    /\ UNCHANGED <<query, openId, selected, seen, templates>>
    /\ Opens(t, "show", view)

\* buildNav and showTab: the tabs are always there.
ShowTab(t) == \E view \in workload.tabs :
    /\ tab' = view
    /\ UNCHANGED <<query, openId, selected, rest>>
    /\ Opens(t, "show", view)

\* Fault: Prev is never disabled.
TurnPage_Unguarded(t) == \E view \in Paged, step \in {-1, 1} :
    /\ OnScreen(view)
    /\ step = 1 => screen.more
    /\ query' = [query EXCEPT ![view].page = @ + step]
    /\ UNCHANGED <<tab, openId, selected, rest>>
    /\ Opens(t, "page", view)

TurnPage(t) == \E view \in Paged, step \in {-1, 1} :
    /\ OnScreen(view)
    /\ IF step = 1 THEN screen.more ELSE screen.label.page > 0
    /\ query' = [query EXCEPT ![view].page = @ + step]
    /\ UNCHANGED <<tab, openId, selected, rest>>
    /\ Opens(t, "page", view)

\* Fault: the rows are those found before.
TypeFilter_NoRender(t) == \E view \in Filtered :
    /\ OnScreen(view) /\ Allowed(t, "filter")
    /\ query' = [query EXCEPT ![view] = [page |-> 0, filter |-> ~@.filter]]
    /\ selected' = IF view = "users" THEN {} ELSE selected
    /\ screen' = [screen EXCEPT !.label = query'[view], !.count = Cardinality(selected'),
                                !.checked = @ \cap selected']
    /\ task' = [task EXCEPT ![t] = [New("filter", view) EXCEPT !.phase = "done"]]
    /\ UNCHANGED <<tab, openId, latest, rest>>

\* Typing into a filter goes back to the first page; in the users view it clears the selection.
TypeFilter(t) == \E view \in Filtered :
    /\ OnScreen(view)
    /\ query' = [query EXCEPT ![view] = [page |-> 0, filter |-> ~@.filter]]
    /\ selected' = IF view = "users" THEN {} ELSE selected
    /\ UNCHANGED <<tab, openId, rest>>
    /\ Opens(t, "filter", view)

TogglePanel(t) == \E view \in WithPanel : \E i \in screen.rows :
    /\ OnScreen(view)
    /\ openId' = [openId EXCEPT ![view] = IF @ = i THEN None ELSE i]
    /\ UNCHANGED <<tab, query, selected, rest>>
    /\ Opens(t, "open", view)

-----------------------------------------------------------------------------
(* The selection *)

\* A check box: the bar is updated in place, the box above the others is not.
ToggleSelectUser == \E i \in screen.rows :
    /\ "select" \in workload.clicks /\ OnScreen("users")
    /\ selected' = IF i \in selected THEN selected \ {i} ELSE selected \cup {i}
    /\ screen' = [screen EXCEPT !.count = Cardinality(selected'),
                                !.checked = IF i \in @ THEN @ \ {i} ELSE @ \cup {i}]
    /\ UNCHANGED <<tab, query, openId, rest, task, latest>>

ToggleSelectAll(t) ==
    /\ OnScreen("users")
    /\ selected' = IF screen.all THEN selected \ screen.rows ELSE selected \cup screen.rows
    /\ UNCHANGED <<tab, query, openId, rest>>
    /\ Opens(t, "selectAll", "users")

ClearSelection(t) ==
    /\ OnScreen("users") /\ selected # {}
    /\ selected' = {}
    /\ UNCHANGED <<tab, query, openId, rest>>
    /\ Opens(t, "clear", "users")

\* One call per selected user, all at once.
DeleteSelected(t) ==
    /\ OnScreen("users") /\ selected # {} /\ Allowed(t, "deleteSelected")
    /\ task' = [task EXCEPT ![t] = [New("deleteSelected", "users") EXCEPT
                                      !.ids = selected, !.removed = selected]]
    /\ UNCHANGED page

\* The calls are answered in any order, also after one of them failed.  A user whose call
\* failed may be gone all the same.
ServeDeleteSelected(t) ==
    /\ task[t].op = "deleteSelected"
    /\ task[t].phase = "call" \/ task[t].result = "failed"
    /\ \E i \in task[t].ids, reply \in {task[t].reply, "failed"} :
         /\ reply = task[t].reply \/ task[t].phase = "call"
         /\ task' = [task EXCEPT ![t] = [@ EXCEPT !.ids = task[t].ids \ {i}, !.reply = reply]]
         /\ \/ stored' = [stored EXCEPT !["users"] = @ \ {i}]
            \/ UNCHANGED stored /\ (task[t].phase = "call" => reply = "failed")
    /\ UNCHANGED <<settings, content>>

\* Fault: the selection is left as it is.
SelectedDeleted_KeepsSelection(t) ==
    /\ task[t].op = "deleteSelected" /\ Awaits(t, "call") /\ task[t].ids = {}
    /\ UNCHANGED <<nav, rest>>
    /\ Renders(t, [task[t] EXCEPT !.result = "ok"], "users")

SelectedDeleted(t) ==
    /\ task[t].op = "deleteSelected" /\ Awaits(t, "call") /\ task[t].ids = {}
    /\ selected' = {}
    /\ UNCHANGED <<tab, query, openId, rest>>
    /\ Renders(t, [task[t] EXCEPT !.result = "ok"], "users")

-----------------------------------------------------------------------------
(* Handlers that make one call and then render their view, whatever the tab is by then *)

Calls(t, op, view, i) ==
    /\ OnScreen(view) /\ Allowed(t, op)
    /\ task' = [task EXCEPT ![t] = [New(op, view) EXCEPT
                                      !.item = i, !.removed = IF op = "delete" THEN {i} ELSE {}]]
    /\ UNCHANGED page

DeleteUser(t) == \E i \in screen.rows : Calls(t, "delete", "users", i)
RevokeSession(t) == \E i \in screen.rows : Calls(t, "delete", "sessions", i)
CreateRole(t) == Calls(t, "create", "roles", t)
DeleteRole(t) == \E i \in screen.rows : Calls(t, "delete", "roles", i)
CreateTenant(t) == Calls(t, "create", "tenants", t)
DeleteTenant(t) == \E i \in screen.rows : Calls(t, "delete", "tenants", i)
RevokeApiKey(t) == \E i \in screen.rows : Calls(t, "change", "apiKeys", i)
DeleteApiKey(t) == \E i \in screen.rows : Calls(t, "delete", "apiKeys", i)
ToggleWebhook(t) == \E i \in screen.rows : Calls(t, "change", "webhooks", i)
DeleteWebhook(t) == \E i \in screen.rows : Calls(t, "delete", "webhooks", i)

\* The buttons of an open panel: roles of a user; tenants of a user, members of a tenant.
ChangeUserRole(t) == screen.panel = "shown" /\ Calls(t, "change", "users", screen.open)
ChangeUserTenant(t) == screen.panel = "shown" /\ Calls(t, "member", "users", screen.open)
ChangeTenantUser(t) == screen.panel = "shown" /\ Calls(t, "member", "tenants", screen.open)

\* The server does what it is asked, or not; in both cases the console may be told it failed.
Applies(t) == LET v == IF task[t].op \in {"upload", "deleteFile"} THEN "files" ELSE task[t].view
                  i == task[t].item
              IN  stored' = [stored EXCEPT ![v] = IF task[t].op \in {"delete", "deleteFile"} THEN @ \ {i}
                                                  ELSE IF i = t THEN @ \cup {t} ELSE @]

ServeCall(t) ==
    /\ task[t].op \in {"delete", "create", "change", "member", "saveWebhook", "upload", "deleteFile"}
    /\ Awaits(t, "call")
    /\ \/ Applies(t) /\ \E reply \in {"ok", "failed"} : task' = [task EXCEPT ![t].reply = reply]
       \/ UNCHANGED stored /\ task' = [task EXCEPT ![t].reply = "failed"]
    /\ UNCHANGED <<settings, content>>

Changed(t) ==
    /\ task[t].op \in {"delete", "change", "create"} /\ Got(t, "call", "ok")
    /\ ~(task[t].op = "create" /\ task[t].view = "apiKeys")
    /\ UNCHANGED <<nav, rest>>
    /\ Renders(t, [task[t] EXCEPT !.result = "ok"], task[t].view)

\* The error is flashed and nothing else.
NotChanged(t) ==
    /\ task[t].op # "updateSetting"
    /\ Got(t, "read", "failed") \/ Got(t, "call", "failed")
    /\ task' = [task EXCEPT ![t] = [@ EXCEPT !.phase = "done", !.reply = "none", !.result = "failed"]]
    /\ UNCHANGED page

\* Only the panel is loaded again, if its element is still there.
MemberChanged(t) ==
    /\ task[t].op = "member" /\ Got(t, "call", "ok")
    /\ LET there == OnScreen(task[t].view) /\ screen.panel # "none" /\ screen.open = task[t].item
       IN  task' = [task EXCEPT ![t] = [@ EXCEPT !.phase = IF there THEN "panel" ELSE "done",
                                                 !.reply = "none", !.by = screen.by,
                                                 !.result = "ok"]]
    /\ UNCHANGED page

-----------------------------------------------------------------------------
(* Lists: the server's answer, and what each view makes of it *)

Found(view, q) == {i \in stored[view] : q.filter => i \in Matching}
PageOf(found, p) ==
    {i \in found : Cardinality({j \in found : j < i}) \div PageSize = p}

ServeList(t) ==
    /\ Awaits(t, "list") /\ task[t].view \in Lists
    /\ LET v == task[t].view
           found == Found(v, IF v \in FilteredHere THEN NoQuery ELSE task[t].query)
           ids == IF v \in Paged THEN PageOf(found, task[t].query.page) ELSE found
       IN  task' = [task EXCEPT ![t] = [@ EXCEPT !.reply = "ok", !.ids = ids,
                                                 !.total = Cardinality(found)]]
    /\ UNCHANGED server

FailList(t) == /\ Awaits(t, "list")
               /\ task' = [task EXCEPT ![t].reply = "failed"]
               /\ UNCHANGED server

\* Whatever the await of a render throws ends up in the main element.
ListFailed(t) == /\ Got(t, "list", "failed")
                 /\ screen' = [Blank EXCEPT !.state = "error", !.view = task[t].view, !.by = t]
                 /\ Ends(t)
                 /\ UNCHANGED <<nav, rest, latest>>

HasMore(t) == (query[task[t].view].page + 1) * PageSize < task[t].total

\* The rows were asked for with the query of then; the pager and the filter show that of now.
Table(t) == LET v == task[t].view
            IN  [Blank EXCEPT !.state = "shown", !.view = v, !.by = t, !.rows = task[t].ids,
                              !.sent = task[t].query, !.label = query[v],
                              !.more = IF task[t].phase = "details" THEN task[t].more ELSE HasMore(t)]

Paints(t, what) == screen' = what /\ Ends(t) /\ UNCHANGED <<nav, latest, templates>>

\* A panel is opened empty and then loaded.
PaintsWithPanel(t, what) ==
    /\ LET open == openId[what.view]
           has == open # None /\ open \in what.rows
       IN  /\ screen' = [what EXCEPT !.open = open, !.panel = IF has THEN "loading" ELSE "none"]
           /\ task' = [task EXCEPT ![t] = [@ EXCEPT !.phase = IF has THEN "panel" ELSE "done",
                                                    !.reply = "none", !.by = t]]
    /\ UNCHANGED <<nav, rest, latest>>

\* The roles and the linked accounts of each row are fetched before the table is shown;
\* a failure of those is passed over.
AskDetails(t) ==
    /\ Got(t, "list", "ok") /\ task[t].view = "users" /\ task[t].ids # {}
    /\ task' = [task EXCEPT ![t].phase = "details", ![t].more = HasMore(t)]
    /\ UNCHANGED page

UsersReady(t) == \/ task[t].phase = "details"
                 \/ Got(t, "list", "ok") /\ task[t].view = "users" /\ task[t].ids = {}

\* Fault: the boxes are drawn without a look at the selection.
ShowUsers_ForgetsSelection(t) ==
    /\ UsersReady(t)
    /\ PaintsWithPanel(t, [Table(t) EXCEPT !.count = Cardinality(selected)])

ShowUsers(t) ==
    /\ UsersReady(t)
    /\ PaintsWithPanel(t, [Table(t) EXCEPT
                             !.checked = task[t].ids \cap selected,
                             !.all = task[t].ids # {} /\ task[t].ids \subseteq selected,
                             !.count = Cardinality(selected)])

\* A panel that was replaced meanwhile is filled out of sight.
PanelLoaded(t) == /\ task[t].phase = "panel"
                  /\ screen' = IF screen.by = task[t].by /\ screen.panel # "none"
                                 THEN [screen EXCEPT !.panel = "shown"] ELSE screen
                  /\ Ends(t)
                  /\ UNCHANGED <<nav, rest, latest>>

ShowSessions(t) == /\ Got(t, "list", "ok") /\ task[t].view = "sessions"
                   /\ Paints(t, Table(t))
                   /\ UNCHANGED <<newRaw, seen>>

FilteredTable(t) ==
    LET q == query[task[t].view]
    IN  [Table(t) EXCEPT !.sent = q, !.rows = {i \in @ : q.filter => i \in Matching}]

ShowRoles(t) == /\ Got(t, "list", "ok") /\ task[t].view = "roles"
                /\ Paints(t, FilteredTable(t))
                /\ UNCHANGED <<newRaw, seen>>

ShowTenants(t) == /\ Got(t, "list", "ok") /\ task[t].view = "tenants"
                  /\ PaintsWithPanel(t, FilteredTable(t))

\* The banner shows the last key that was created, until it is dismissed.
ShowApiKeys(t) == /\ Got(t, "list", "ok") /\ task[t].view = "apiKeys"
                  /\ Paints(t, [Table(t) EXCEPT !.banner = newRaw])
                  /\ seen' = seen \cup ({newRaw} \ {None})
                  /\ UNCHANGED newRaw

\* The drawer is part of the view: it comes back closed.
ShowWebhooks(t) == /\ Got(t, "list", "ok") /\ task[t].view = "webhooks"
                   /\ Paints(t, Table(t))
                   /\ UNCHANGED <<newRaw, seen>>
=============================================================================
