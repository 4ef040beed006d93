------------------------- MODULE AdminConsoleProofs -------------------------
(***************************************************************************)
(* What the admin console guarantees for any tasks, items, page size and   *)
(* workloads: its types, its controls and the keys it shows.               *)
(***************************************************************************)
EXTENDS AdminConsole, FiniteSetTheorems, TLAPS

\* What a task holds, by what it is and where it stands.
Sort(r) ==
    /\ r.phase = "idle" <=> r.op = "none"
    /\ r.phase # "idle" => r.view \in Tabs
    /\ r.op \in {"delete", "create", "change", "member"} => r.view \in Lists
    /\ r.op \in {"deleteSelected", "bulk2FA"} => r.view = "users"
    /\ r.op = "saveWebhook" => r.view = "webhooks"
    /\ r.op \in {"toggleAction", "updateSetting", "files", "upload", "deleteFile", "saveUi"}
         => r.view = "control"
    /\ r.op \in {"save", "reset"} => r.view = "templates" /\ r.item \in Templates
    /\ r.op \in {"save", "reset"} /\ r.phase = "call" => r.text \in Versions \cup {None}
    /\ r.op = "toggleAction" => r.item \in Actions
    /\ r.op = "saveUi" => r.phase \in {"call", "done"}
    /\ r.op = "saveUi" /\ r.phase = "call" => r.text \in Items \cup {None}
    /\ r.phase = "read" => r.op = "toggleAction"
    /\ r.phase = "policy" => r.op = "updateSetting"
    /\ r.phase = "details" => r.view = "users"
    /\ r.phase = "files" => r.op \in {"files", "deleteFile"}
    /\ r.phase = "list" /\ r.view = "control" /\ r.reply = "ok" => r.text \in Items \cup {None}
    /\ IF r.op = "toggleAction" \/ (r.phase = "list" /\ r.view = "control")
         THEN r.ids \subseteq Actions ELSE r.ids \subseteq Items

\* The tasks that a task remembers are over.
SortOK(t) == /\ Sort(task[t])
             /\ task[t].phase = "idle" => task[t] = NewTask
             /\ \A q \in task[t].after : task[q].phase = "done"
SortsOK == \A t \in Tasks : SortOK(t)

\* Rows are of the kind of the view, which is shown with its query; an editor and a panel of
\* files belong to their tabs.
ScreenOK ==
    /\ IF screen.view = "control" THEN screen.rows \subseteq Actions ELSE screen.rows \subseteq Items
    /\ screen.state = "shown" => screen.view \in Tabs /\ screen.label = query[screen.view]
    /\ screen.editor.item # None => OnScreen("templates")
    /\ screen.files.open => OnScreen("control")
    /\ query["control"] = NoQuery /\ query["templates"] = NoQuery

TInv == TypeOK /\ SortsOK /\ ScreenOK

-----------------------------------------------------------------------------
(* How a step of one task moves it *)

\* What a task is about stays once it began; over, it stays over.
Carries(t) ==
    /\ task'[t].phase # "idle"
    /\ task[t].phase = "done" => /\ task'[t].phase = "done" /\ task'[t].result = task[t].result
                                 /\ task'[t].reply = task[t].reply
                                 /\ task[t].op = "deleteSelected"
    /\ task[t].phase = "idle" => task'[t].after = Over
    /\ task[t].phase # "idle" =>
         /\ task'[t].op = task[t].op /\ task'[t].view = task[t].view
         /\ task'[t].after = task[t].after /\ task'[t].item = task[t].item
         /\ task'[t].value = task[t].value /\ task'[t].kind = task[t].kind
         /\ task'[t].removed = task[t].removed /\ task'[t].base = task[t].base
         /\ task'[t].quiet = task[t].quiet

Moves(t) == /\ task' \in [Tasks -> Task]
            /\ \A q \in Tasks \ {t} : task'[q] = task[q]
            /\ Carries(t)
            /\ Sort(task'[t])

\* The page after a step.
PageOK == /\ tab \in Tabs
          /\ query \in [Tabs -> Query]
          /\ openId \in [WithPanel -> Items \cup {None}] /\ selected \subseteq Items
          /\ newRaw \in Tasks \cup {None} /\ seen \subseteq Tasks
          /\ templates \in [type : Types, selectedId : Templates \cup {None},
                            cache : [Types -> Contents]]
          /\ screen \in Screen
          /\ latest \in [Tabs -> Tasks \cup {None}]
          /\ ScreenOK

-----------------------------------------------------------------------------
(* The records a step makes *)

TaskFields == {"op", "phase", "view", "item", "value", "text", "ids", "query", "total", "more",
               "kind", "asked", "list", "by", "reply", "result", "after", "removed", "base",
               "over", "quiet"}

TaskFieldsOK(r) ==
    /\ r.op \in Operations \cup {"none"} /\ r.phase \in Phases /\ r.view \in Tabs \cup {"none"}
    /\ r.item \in Items \cup Actions \cup Templates \cup {None} /\ r.value \in BOOLEAN
    /\ r.text \in Items \cup Versions \cup {None} /\ r.ids \in SUBSET (Items \cup Actions)
    /\ r.query \in Query /\ r.total \in Nat /\ r.more \in BOOLEAN
    /\ r.kind \in Types /\ r.asked \in Types /\ r.list \in Contents
    /\ r.by \in Tasks \cup {None} /\ r.reply \in {"none", "ok", "failed"}
    /\ r.result \in {"none", "ok", "partial", "failed"}
    /\ r.after \in SUBSET Tasks /\ r.removed \in SUBSET Items
    /\ r.base \in Versions \cup {None} /\ r.over \in Versions \cup {None} /\ r.quiet \in BOOLEAN

LEMMA TaskParts == ASSUME NEW rec \in Task PROVE DOMAIN rec = TaskFields /\ TaskFieldsOK(rec)
BY DEF Task, TaskFieldsOK, TaskFields

LEMMA TaskMade == ASSUME NEW r, r = [x \in TaskFields |-> r[x]], TaskFieldsOK(r) PROVE r \in Task
BY DEF Task, TaskFieldsOK, TaskFields

ScreenFields == {"state", "view", "by", "sent", "label", "rows", "more", "checked", "all", "count",
                 "open", "panel", "banner", "drawer", "required", "editor", "files", "logo"}

ScreenFieldsOK(s) ==
    /\ s.state \in {"blank", "loading", "shown", "error"} /\ s.view \in Tabs \cup {"none"}
    /\ s.by \in Tasks \cup {None} /\ s.sent \in Query /\ s.label \in Query
    /\ s.rows \in SUBSET (Items \cup Actions) /\ s.more \in BOOLEAN
    /\ s.checked \in SUBSET (Items \cup Actions) /\ s.all \in BOOLEAN /\ s.count \in Nat
    /\ s.open \in Items \cup {None} /\ s.panel \in {"none", "loading", "shown"}
    /\ s.banner \in Tasks \cup {None} /\ s.drawer \in Items \cup {None, Closed}
    /\ s.required \in BOOLEAN /\ s.editor \in Editor /\ s.files \in Files
    /\ s.logo \in Items \cup {None}

LEMMA ScreenParts ==
    ASSUME NEW s \in Screen PROVE DOMAIN s = ScreenFields /\ ScreenFieldsOK(s)
BY DEF Screen, ScreenFieldsOK, ScreenFields

LEMMA ScreenMade ==
    ASSUME NEW s, s = [x \in ScreenFields |-> s[x]], ScreenFieldsOK(s) PROVE s \in Screen
BY DEF Screen, ScreenFieldsOK, ScreenFields

LEMMA SmallFacts == /\ NoQuery \in Query /\ Default \in Contents
                    /\ NoEditor \in Editor /\ NoFiles \in Files
                    /\ NoEditor.item = None /\ ~NoFiles.open
<1>1. NoQuery \in Query /\ Default \in Contents
  BY DEF NoQuery, Query, Default, Contents
<1>2. NoEditor \in Editor /\ NoFiles \in Files
  BY DEF NoEditor, Editor, NoFiles, Files
<1>3. QED
  BY <1>1, <1>2 DEF NoEditor, NoFiles

LEMMA BlankFacts ==
    /\ Blank \in Screen /\ DOMAIN Blank = ScreenFields /\ ScreenFieldsOK(Blank)
    /\ Blank.rows = {} /\ Blank.editor = NoEditor /\ Blank.files = NoFiles
    /\ Blank.banner = None /\ Blank.label = NoQuery /\ Blank.panel = "none"
<1> HIDE DEF NoQuery, NoEditor, NoFiles
<1>1. DOMAIN Blank = ScreenFields
  BY DEF Blank, ScreenFields
<1>2. ScreenFieldsOK(Blank)
  BY SmallFacts DEF Blank, ScreenFieldsOK, Closed, None
<1>3. Blank = [x \in ScreenFields |-> Blank[x]]
  BY <1>1 DEF Blank
<1>4. Blank \in Screen
  BY <1>2, <1>3, ScreenMade
<1>5. QED
  BY <1>1, <1>2, <1>4 DEF Blank

LEMMA NewTaskFacts ==
    /\ NewTask \in Task /\ DOMAIN NewTask = TaskFields /\ TaskFieldsOK(NewTask)
    /\ NewTask.ids = {} /\ NewTask.reply = "none" /\ NewTask.result = "none"
    /\ NewTask.removed = {} /\ NewTask.text = None /\ NewTask.item = None
    /\ NewTask.op = "none" /\ NewTask.phase = "idle" /\ NewTask.after = {}
<1> HIDE DEF NoQuery, Default
<1>1. DOMAIN NewTask = TaskFields
  BY DEF NewTask, TaskFields
<1>2. TaskFieldsOK(NewTask)
  BY SmallFacts DEF NewTask, TaskFieldsOK, Phases, Types, None
<1>3. NewTask = [x \in TaskFields |-> NewTask[x]]
  BY <1>1 DEF NewTask
<1>4. NewTask \in Task
  BY <1>2, <1>3, TaskMade
<1>5. QED
  BY <1>1, <1>2, <1>4 DEF NewTask

LEMMA NewFacts ==
    ASSUME NEW op \in Operations, NEW view \in Tabs
    PROVE  /\ New(op, view) \in Task
           /\ New(op, view).op = op /\ New(op, view).view = view /\ New(op, view).phase = "call"
           /\ New(op, view).after = Over /\ New(op, view).ids = {} /\ New(op, view).reply = "none"
           /\ New(op, view).result = "none" /\ New(op, view).removed = {}
           /\ New(op, view).text = None /\ New(op, view).item = None
<1>1. Over \in SUBSET Tasks
  BY DEF Over
<1> HIDE DEF NewTask
<1>2. New(op, view) = [x \in TaskFields |-> New(op, view)[x]]
  BY NewTaskFacts DEF New
<1>3. TaskFieldsOK(New(op, view))
  BY <1>1, NewTaskFacts DEF New, TaskFieldsOK, TaskFields, Phases
<1>4. New(op, view) \in Task
  BY <1>2, <1>3, TaskMade
<1>5. QED
  BY <1>4, NewTaskFacts DEF New, TaskFields

LEMMA EndedFacts ==
    ASSUME NEW rec \in Task
    PROVE  /\ Ended(rec) \in Task /\ Ended(rec).phase = "done" /\ Ended(rec).reply = "none"
           /\ Ended(rec).ids = {} /\ Ended(rec).op = rec.op /\ Ended(rec).view = rec.view
           /\ Ended(rec).after = rec.after /\ Ended(rec).item = rec.item
           /\ Ended(rec).value = rec.value /\ Ended(rec).kind = rec.kind
           /\ Ended(rec).removed = rec.removed /\ Ended(rec).base = rec.base
           /\ Ended(rec).quiet = rec.quiet /\ Ended(rec).result = rec.result
           /\ Ended(rec).over = rec.over
<1> HIDE DEF NoQuery, Default
<1>1. DOMAIN rec = TaskFields /\ TaskFieldsOK(rec)
  BY TaskParts
<1>2. Ended(rec) = [x \in TaskFields |-> Ended(rec)[x]]
  BY <1>1 DEF Ended
<1>3. TaskFieldsOK(Ended(rec))
  BY <1>1, SmallFacts DEF Ended, TaskFieldsOK, TaskFields, Phases, Types, None
<1>4. Ended(rec) \in Task
  BY <1>2, <1>3, TaskMade
<1>5. QED
  BY <1>1, <1>4 DEF Ended, TaskFields

-----------------------------------------------------------------------------
(* The forms a step takes *)

\* What stays of a task that goes on.
Continues(rec, r) == /\ r.op = rec.op /\ r.view = rec.view /\ r.after = rec.after
                     /\ r.item = rec.item /\ r.value = rec.value /\ r.kind = rec.kind
                     /\ r.removed = rec.removed /\ r.base = rec.base /\ r.quiet = rec.quiet

LEMMA TaskOf == ASSUME TInv, NEW t \in Tasks PROVE task[t] \in Task /\ SortOK(t)
BY DEF TInv, TypeOK, SortsOK

LEMMA TaskTyped == ASSUME TInv PROVE task \in [Tasks -> Task]
BY DEF TInv, TypeOK

LEMMA Becomes ==
    ASSUME TInv, NEW t \in Tasks, NEW r, task' = [task EXCEPT ![t] = r]
    PROVE  task'[t] = r /\ \A q \in Tasks \ {t} : task'[q] = task[q]
BY DEF TInv, TypeOK

\* A task that begins.
LEMMA BeginMoves ==
    ASSUME TInv, NEW t \in Tasks, NEW r \in Task, task' = [task EXCEPT ![t] = r],
           task[t].phase = "idle", r.after = Over, r.phase # "idle", Sort(r)
    PROVE  Moves(t)
BY Becomes, TaskTyped DEF Moves, Carries

\* A task that goes on.
LEMMA GoOnMoves ==
    ASSUME TInv, NEW t \in Tasks, NEW r \in Task, task' = [task EXCEPT ![t] = r],
           task[t].phase \notin {"idle", "done"}, Continues(task[t], r), r.phase # "idle", Sort(r)
    PROVE  Moves(t)
BY Becomes, TaskTyped DEF Moves, Carries, Continues

\* The record of a task that renders.
LEMMA RendersFacts ==
    ASSUME NEW t \in Tasks, NEW rec \in Task, NEW view \in Tabs, Renders(t, rec, view), TInv,
           query' \in [Tabs -> Query], templates'.type \in Types
    PROVE  /\ task'[t] \in Task /\ task' = [task EXCEPT ![t] = task'[t]]
           /\ task'[t].phase = "list" /\ task'[t].view = view /\ task'[t].ids = {}
           /\ task'[t].reply = "none" /\ task'[t].query = query'[view]
           /\ task'[t].asked = templates'.type
           /\ task'[t].op = rec.op /\ task'[t].after = rec.after /\ task'[t].item = rec.item
           /\ task'[t].value = rec.value /\ task'[t].kind = rec.kind
           /\ task'[t].removed = rec.removed /\ task'[t].base = rec.base
           /\ task'[t].quiet = rec.quiet /\ task'[t].result = rec.result
           /\ task'[t].over = rec.over
<1> DEFINE r == [rec EXCEPT !.phase = "list", !.view = view, !.ids = {}, !.reply = "none",
                            !.query = query'[view], !.asked = templates'.type]
<1>1. DOMAIN rec = TaskFields /\ TaskFieldsOK(rec)
  BY TaskParts
<1>2. r = [x \in TaskFields |-> r[x]]
  BY <1>1
<1>3. TaskFieldsOK(r)
  BY <1>1 DEF TaskFieldsOK, TaskFields, Phases
<1>4. r \in Task
  BY <1>2, <1>3, TaskMade
<1>5. task' = [task EXCEPT ![t] = r] /\ task'[t] = r
  BY Becomes DEF Renders
<1>6. /\ r.phase = "list" /\ r.view = view /\ r.ids = {} /\ r.reply = "none"
      /\ r.query = query'[view] /\ r.asked = templates'.type
      /\ r.op = rec.op /\ r.after = rec.after /\ r.item = rec.item /\ r.value = rec.value
      /\ r.kind = rec.kind /\ r.removed = rec.removed /\ r.base = rec.base
      /\ r.quiet = rec.quiet /\ r.result = rec.result /\ r.over = rec.over
  BY <1>1 DEF TaskFields
<1> HIDE DEF r
<1>7. QED
  BY <1>4, <1>5, <1>6

\* The screen of a task that renders.
LEMMA RendersScreen ==
    ASSUME NEW t \in Tasks, NEW rec, NEW view \in Tabs, Renders(t, rec, view), TInv,
           query'["control"] = NoQuery, query'["templates"] = NoQuery
    PROVE  /\ screen' \in Screen /\ ScreenOK' /\ latest' \in [Tabs -> Tasks \cup {None}]
           /\ screen'.state = "loading" /\ screen'.view = view /\ screen'.by = t
           /\ screen'.editor = NoEditor /\ screen'.files = NoFiles /\ latest'[view] = t
           /\ screen'.rows = {} /\ \A v \in Tabs \ {view} : latest'[v] = latest[v]
<1> HIDE DEF Blank, NoQuery
<1>1. screen' = [Blank EXCEPT !.state = "loading", !.view = view, !.by = t]
  BY DEF Renders
<1>2. screen' = [x \in ScreenFields |-> screen'[x]]
  BY <1>1, BlankFacts
<1>3. /\ screen'.state = "loading" /\ screen'.view = view /\ screen'.by = t
      /\ screen'.editor = NoEditor /\ screen'.files = NoFiles /\ screen'.rows = {}
  BY <1>1, BlankFacts DEF ScreenFields
<1>4. ScreenFieldsOK(screen')
  BY <1>1, BlankFacts DEF ScreenFieldsOK, ScreenFields
<1>5. screen' \in Screen
  BY <1>2, <1>4, ScreenMade
<1>6. latest' = [latest EXCEPT ![view] = t] /\ latest \in [Tabs -> Tasks \cup {None}]
  BY DEF Renders, TInv, TypeOK
<1>7. ScreenOK'
  BY <1>3, SmallFacts DEF ScreenOK
<1>8. QED
  BY <1>3, <1>5, <1>6, <1>7

\* The page stays what it is.
LEMMA SamePage == ASSUME TInv, UNCHANGED page PROVE PageOK'
BY DEF TInv, TypeOK, PageOK, page, nav, rest, ScreenOK, OnScreen

LEMMA PageNow == ASSUME TInv PROVE PageOK
BY DEF TInv, TypeOK, PageOK

\* A handler that renders at once begins.
LEMMA OpensMoves ==
    ASSUME TInv, NEW t \in Tasks, NEW view \in Tabs,
           NEW op \in {"show", "page", "filter", "open", "selectAll", "clear", "dismiss", "setType"},
           Opens(t, op, view),
           query' \in [Tabs -> Query], templates'.type \in Types
    PROVE  Moves(t)
<1>1. op \in Operations
  BY DEF Operations
<1>2. task[t].phase = "idle" /\ Renders(t, New(op, view), view)
  BY DEF Opens, Allowed
<1>3. /\ task'[t] \in Task /\ task' = [task EXCEPT ![t] = task'[t]] /\ task'[t].op = op
      /\ task'[t].view = view /\ task'[t].phase = "list" /\ task'[t].ids = {}
      /\ task'[t].after = Over /\ task'[t].reply = "none"
  BY <1>1, <1>2, NewFacts, RendersFacts
<1>4. Sort(task'[t])
  BY <1>3 DEF Sort
<1>5. QED
  BY <1>2, <1>3, <1>4, BeginMoves

\* A handler renders its view when its call is answered.
LEMMA RendersMoves ==
    ASSUME TInv, NEW t \in Tasks, NEW x \in {"ok", "failed"},
           task[t].phase \notin {"idle", "done"}, task[t].op # "saveUi",
           Renders(t, [task[t] EXCEPT !.result = x], task[t].view),
           query' \in [Tabs -> Query], templates'.type \in Types
    PROVE  /\ Moves(t) /\ task'[t].phase = "list" /\ task'[t].ids = {} /\ task'[t].reply = "none"
           /\ task'[t].query = query'[task[t].view] /\ task'[t].asked = templates'.type
           /\ task'[t].result = x /\ task'[t].over = task[t].over
<1> DEFINE rec == [task[t] EXCEPT !.result = x]
<1>1. task[t] \in Task /\ SortOK(t) /\ task[t].view \in Tabs
  BY TaskOf DEF SortOK, Sort
<1>2. rec \in Task /\ Continues(task[t], rec) /\ rec.result = x /\ rec.over = task[t].over
  BY <1>1 DEF Task, Continues
<1> HIDE DEF rec
<1>3. Renders(t, rec, task[t].view)
  BY DEF rec
<1>4. /\ task'[t] \in Task /\ task' = [task EXCEPT ![t] = task'[t]]
      /\ task'[t].phase = "list" /\ task'[t].ids = {} /\ task'[t].reply = "none"
      /\ task'[t].query = query'[task[t].view] /\ task'[t].asked = templates'.type
      /\ task'[t].result = x /\ task'[t].over = task[t].over
      /\ Continues(task[t], task'[t])
  BY <1>1, <1>2, <1>3, RendersFacts DEF Continues
<1>5. Sort(task'[t])
  BY <1>1, <1>4 DEF Sort, SortOK, Continues
<1>6. QED
  BY <1>4, <1>5, GoOnMoves

\* A task ends.
LEMMA EndMoves ==
    ASSUME TInv, NEW t \in Tasks, task[t].phase \notin {"idle", "done"},
           NEW x \in {"ok", "partial", "failed", task[t].result},
           task' = [task EXCEPT ![t] = [Ended(@) EXCEPT !.result = x]]
    PROVE  Moves(t) /\ task'[t].phase = "done" /\ task'[t].result = x
           /\ task'[t].ids = {} /\ task'[t].reply = "none" /\ task'[t].over = task[t].over
<1> DEFINE rec == Ended(task[t])
           r == [rec EXCEPT !.result = x]
<1>1. task[t] \in Task /\ SortOK(t) /\ Sort(task[t])
  BY TaskOf DEF SortOK
<1>2. rec \in Task /\ Continues(task[t], rec) /\ rec.phase = "done" /\ rec.ids = {}
      /\ rec.over = task[t].over /\ rec.reply = "none"
  BY <1>1, EndedFacts DEF Continues
<1> HIDE DEF rec
<1>3. x \in {"none", "ok", "partial", "failed"}
  BY <1>1 DEF Task
<1>4. r \in Task /\ Continues(task[t], r) /\ r.phase = "done" /\ r.ids = {} /\ r.result = x
      /\ r.over = task[t].over /\ r.reply = "none"
  BY <1>2, <1>3 DEF Task, Continues
<1>5. task' = [task EXCEPT ![t] = r] /\ task'[t] = r
  BY Becomes, TaskTyped DEF rec
<1> HIDE DEF r
<1>6. Sort(r)
  BY <1>1, <1>4 DEF Sort, Continues
<1>7. QED
  BY <1>4, <1>5, <1>6, GoOnMoves

LEMMA EndsMoves ==
    ASSUME TInv, NEW t \in Tasks, task[t].phase \notin {"idle", "done"}, Ends(t)
    PROVE  Moves(t) /\ task'[t].phase = "done" /\ task'[t].result = task[t].result
           /\ task'[t].ids = {} /\ task'[t].reply = "none" /\ task'[t].over = task[t].over
<1>1. task[t] \in Task
  BY TaskOf
<1>2. task'[t] = Ended(task[t]) /\ task' = [task EXCEPT ![t] = Ended(task[t])]
  BY Becomes, TaskTyped DEF Ends
<1>3. Continues(task[t], Ended(task[t])) /\ Ended(task[t]) \in Task
  BY <1>1, EndedFacts DEF Continues
<1>4. Sort(Ended(task[t]))
  BY <1>1, <1>3, TaskOf, EndedFacts DEF Sort, SortOK, Continues
<1>5. QED
  BY <1>1, <1>2, <1>3, <1>4, EndedFacts, GoOnMoves

-----------------------------------------------------------------------------
(* Handlers that begin *)

\* A handler that makes a call.
LEMMA CallsMoves ==
    ASSUME TInv, NEW t \in Tasks, NEW op \in Operations, NEW view \in Tabs,
           NEW i \in Items \cup {None}, Calls(t, op, view, i),
           \/ op \in {"create", "change", "member"} /\ view \in Lists
           \/ op = "delete" /\ view \in Lists /\ i \in Items
           \/ op = "saveWebhook" /\ view = "webhooks"
           \/ op = "upload" /\ view = "control"
    PROVE  /\ Moves(t) /\ PageOK' /\ task'[t].phase = "call" /\ task'[t].reply = "none"
           /\ task'[t].op = op /\ task'[t].view = view /\ task'[t].item = i
           /\ task'[t].removed = (IF op = "delete" THEN {i} ELSE {})
           /\ task'[t].ids = {} /\ task'[t].result = "none"
<1> DEFINE n == New(op, view)
           r == [n EXCEPT !.item = i, !.removed = IF op = "delete" THEN {i} ELSE {}]
<1>1. /\ n \in Task /\ n.op = op /\ n.view = view /\ n.phase = "call" /\ n.after = Over
      /\ n.ids = {} /\ n.reply = "none" /\ n.text = None /\ n.result = "none"
  BY NewFacts
<1>2. task' = [task EXCEPT ![t] = r] /\ task[t].phase = "idle" /\ UNCHANGED page
  BY DEF Calls, Allowed
<1> HIDE DEF n
<1>3. DOMAIN n = TaskFields /\ TaskFieldsOK(n)
  BY <1>1, TaskParts
<1>4. r = [x \in TaskFields |-> r[x]]
  BY <1>3
<1>5. TaskFieldsOK(r)
  BY <1>3 DEF TaskFieldsOK, TaskFields
<1>6. r \in Task
  BY <1>4, <1>5, TaskMade
<1>7. /\ r.op = op /\ r.view = view /\ r.phase = "call" /\ r.after = Over /\ r.ids = {}
      /\ r.reply = "none" /\ r.text = None /\ r.item = i /\ r.result = "none"
      /\ r.removed = (IF op = "delete" THEN {i} ELSE {})
  BY <1>1, <1>3 DEF TaskFields
<1> HIDE DEF r
<1>8. Sort(r)
  BY <1>7 DEF Sort
<1>9. task'[t] = r
  BY <1>2, Becomes
<1>10. QED
  BY <1>2, <1>6, <1>7, <1>8, <1>9, BeginMoves, SamePage

\* A handler of a view with a record of its own begins.
LEMMA StartMoves ==
    ASSUME TInv, NEW t \in Tasks, NEW op \in Operations, NEW view \in Tabs, NEW r \in Task,
           Allowed(t, op), task' = [task EXCEPT ![t] = r], r.op = op, r.view = view,
           r.after = Over, r.phase \in {"call", "read"}, r.reply = "none", r.ids \subseteq Items,
           \/ op = "deleteSelected" /\ view = "users" /\ r.phase = "call"
           \/ op = "toggleAction" /\ view = "control" /\ r.item \in Actions /\ r.ids = {}
           \/ op = "updateSetting" /\ view = "control" /\ r.phase = "call"
           \/ op = "bulk2FA" /\ view = "users" /\ r.phase = "call"
           \/ op = "deleteFile" /\ view = "control" /\ r.phase = "call"
           \/ op = "saveUi" /\ view = "control" /\ r.phase = "call" /\ r.text \in Items \cup {None}
           \/ /\ op \in {"save", "reset"} /\ view = "templates" /\ r.phase = "call"
              /\ r.item \in Templates /\ r.text \in Versions \cup {None}
    PROVE  Moves(t) /\ task'[t] = r
<1>1. task[t].phase = "idle"
  BY DEF Allowed
<1>2. Sort(r)
  BY DEF Sort
<1>3. QED
  BY <1>1, <1>2, BeginMoves, Becomes

LEMMA DeleteSelectedMoves ==
    ASSUME TInv, NEW t \in Tasks, DeleteSelected(t)
    PROVE  /\ Moves(t) /\ PageOK' /\ task'[t].op = "deleteSelected" /\ task'[t].view = "users"
           /\ task'[t].phase = "call" /\ task'[t].reply = "none" /\ task'[t].result = "none"
           /\ task'[t].ids = selected /\ task'[t].removed = selected
<1> DEFINE n == New("deleteSelected", "users")
           r == [n EXCEPT !.ids = selected, !.removed = selected]
<1>1. "deleteSelected" \in Operations /\ "users" \in Tabs
  BY DEF Operations, Tabs, Lists
<1>2. /\ n \in Task /\ n.op = "deleteSelected" /\ n.view = "users" /\ n.phase = "call"
      /\ n.after = Over /\ n.reply = "none" /\ n.result = "none"
  BY <1>1, NewFacts
<1>3. task' = [task EXCEPT ![t] = r] /\ Allowed(t, "deleteSelected") /\ UNCHANGED page
  BY DEF DeleteSelected
<1> HIDE DEF n
<1>4. DOMAIN n = TaskFields /\ TaskFieldsOK(n) /\ selected \subseteq Items
  BY <1>2, TaskParts DEF TInv, TypeOK
<1>5. r = [x \in TaskFields |-> r[x]]
  BY <1>4
<1>6. TaskFieldsOK(r)
  BY <1>4 DEF TaskFieldsOK, TaskFields
<1>7. /\ r \in Task /\ r.op = "deleteSelected" /\ r.view = "users" /\ r.phase = "call"
      /\ r.after = Over /\ r.reply = "none" /\ r.ids = selected /\ r.removed = selected
      /\ r.result = "none"
  BY <1>2, <1>4, <1>5, <1>6, TaskMade DEF TaskFields
<1> HIDE DEF r
<1>8. Moves(t) /\ task'[t] = r
  BY <1>1, <1>3, <1>4, <1>7, StartMoves
<1>9. QED
  BY <1>3, <1>7, <1>8, SamePage

\* What stays when an element of the screen changes in place.
ScreenStays == /\ screen'.state = screen.state /\ screen'.view = screen.view
               /\ screen'.by = screen.by /\ screen'.sent = screen.sent
               /\ screen'.label = screen.label /\ screen'.rows = screen.rows
               /\ screen'.open = screen.open /\ screen'.banner = screen.banner
\* The selection is displayed as before.
ScreenKept == /\ ScreenStays
              /\ screen.view = "users" => /\ screen'.checked = screen.checked
                                          /\ screen'.count = screen.count

LEMMA InPlace ==
    ASSUME TInv, screen' \in Screen, ScreenStays, UNCHANGED <<tab, query, openId, rest, latest>>,
           selected' \subseteq Items,
           screen'.editor.item # None => screen.editor.item # None,
           screen'.files.open => screen.files.open \/ OnScreen("control")
    PROVE  PageOK'
BY DEF TInv, TypeOK, PageOK, rest, ScreenOK, OnScreen, ScreenStays

LEMMA ToggleActionMoves ==
    ASSUME TInv, NEW t \in Tasks, ToggleWebhookAction(t)
    PROVE  /\ Moves(t) /\ PageOK' /\ ScreenKept /\ task'[t].op = "toggleAction"
           /\ screen'.editor = screen.editor /\ screen'.files = screen.files
           /\ task'[t].phase = "read" /\ task'[t].reply = "none" /\ task'[t].result = "none"
           /\ UNCHANGED <<nav, rest, latest>> /\ OnScreen("control")
<1>1. PICK a \in screen.rows :
        /\ OnScreen("control") /\ Allowed(t, "toggleAction")
        /\ screen' = [screen EXCEPT !.checked = Switch(@, a, a \notin screen.checked)]
        /\ task' = [task EXCEPT ![t] = [New("toggleAction", "control") EXCEPT
                                          !.phase = "read", !.item = a,
                                          !.value = (a \notin screen.checked)]]
        /\ UNCHANGED <<nav, rest, latest>>
  BY DEF ToggleWebhookAction
<1> DEFINE n == New("toggleAction", "control")
           r == [n EXCEPT !.phase = "read", !.item = a, !.value = (a \notin screen.checked)]
<1>2. "toggleAction" \in Operations /\ "control" \in Tabs
  BY DEF Operations, Tabs
<1>3. /\ n \in Task /\ n.op = "toggleAction" /\ n.view = "control" /\ n.after = Over
      /\ n.reply = "none" /\ n.result = "none" /\ n.ids = {}
  BY <1>2, NewFacts
<1> HIDE DEF n
<1>4. DOMAIN n = TaskFields /\ TaskFieldsOK(n) /\ a \in Actions
  BY <1>1, <1>3, TaskParts DEF TInv, ScreenOK, OnScreen
<1>5. r = [x \in TaskFields |-> r[x]]
  BY <1>4
<1>6. TaskFieldsOK(r)
  BY <1>4 DEF TaskFieldsOK, TaskFields, Phases
<1>7. /\ r \in Task /\ r.op = "toggleAction" /\ r.view = "control" /\ r.phase = "read"
      /\ r.after = Over /\ r.reply = "none" /\ r.ids = {} /\ r.result = "none" /\ r.item = a
  BY <1>3, <1>4, <1>5, <1>6, TaskMade DEF TaskFields
<1>8. task' = [task EXCEPT ![t] = r] /\ Allowed(t, "toggleAction")
  BY <1>1 DEF n
<1> HIDE DEF r
<1>9. Moves(t) /\ task'[t] = r
  <2>1. r.ids \subseteq Items /\ r.item \in Actions
    BY <1>4, <1>7
  <2>2. QED
    BY <1>2, <1>7, <1>8, <2>1, StartMoves
<1>10. screen \in Screen /\ Switch(screen.checked, a, a \notin screen.checked) \subseteq Items \cup Actions
  BY <1>4 DEF TInv, TypeOK, Screen, Switch
<1>11. /\ screen' \in Screen /\ ScreenKept
       /\ screen'.editor = screen.editor /\ screen'.files = screen.files
  BY <1>1, <1>10 DEF Screen, ScreenKept, ScreenStays, OnScreen
<1>12. PageOK'
  BY <1>1, <1>11, InPlace DEF ScreenKept, nav, TInv, TypeOK
<1>13. QED
  BY <1>1, <1>7, <1>9, <1>11, <1>12

LEMMA UpdateSettingMoves ==
    ASSUME TInv, NEW t \in Tasks, UpdateSetting(t)
    PROVE  /\ Moves(t) /\ PageOK' /\ ScreenKept /\ task'[t].op = "updateSetting"
           /\ screen'.editor = screen.editor /\ screen'.files = screen.files
           /\ task'[t].phase = "call" /\ task'[t].reply = "none" /\ task'[t].result = "none"
           /\ UNCHANGED <<nav, rest, latest>> /\ OnScreen("control")
<1>1. /\ OnScreen("control") /\ Allowed(t, "updateSetting")
      /\ screen' = [screen EXCEPT !.required = ~@]
      /\ task' = [task EXCEPT ![t] = [New("updateSetting", "control") EXCEPT
                                        !.value = ~screen.required]]
      /\ UNCHANGED <<nav, rest, latest>>
  BY DEF UpdateSetting
<1> DEFINE n == New("updateSetting", "control")
           b == ~screen.required
           r == [n EXCEPT !.value = b]
<1>0. b \in BOOLEAN
  OBVIOUS
<1>2. "updateSetting" \in Operations /\ "control" \in Tabs
  BY DEF Operations, Tabs
<1>3. /\ n \in Task /\ n.op = "updateSetting" /\ n.view = "control" /\ n.after = Over
      /\ n.reply = "none" /\ n.result = "none" /\ n.ids = {} /\ n.phase = "call"
  BY <1>2, NewFacts
<1> HIDE DEF n, b
<1>4. /\ r \in Task /\ r.op = "updateSetting" /\ r.view = "control" /\ r.phase = "call"
      /\ r.after = Over /\ r.reply = "none" /\ r.ids = {} /\ r.result = "none"
  BY <1>0, <1>3 DEF Task
<1>5. task' = [task EXCEPT ![t] = r] /\ Allowed(t, "updateSetting")
  BY <1>1 DEF n, b
<1> HIDE DEF r
<1>6. Moves(t) /\ task'[t] = r
  BY <1>2, <1>4, <1>5, StartMoves
<1>7. screen \in Screen
  BY DEF TInv, TypeOK
<1>8. /\ screen' \in Screen /\ ScreenKept
      /\ screen'.editor = screen.editor /\ screen'.files = screen.files
  BY <1>1, <1>7, ZenonT(30) DEF Screen, ScreenKept, ScreenStays, OnScreen
<1>9. PageOK'
  BY <1>1, <1>8, InPlace DEF ScreenKept, nav, TInv, TypeOK
<1>10. QED
  BY <1>1, <1>4, <1>6, <1>8, <1>9

LEMMA SetBulk2FAMoves ==
    ASSUME TInv, NEW t \in Tasks, SetBulk2FA(t)
    PROVE  /\ Moves(t) /\ PageOK' /\ UNCHANGED page /\ task'[t].op = "bulk2FA"
           /\ task'[t].view = "users" /\ OnScreen("users") /\ task'[t].ids = {}
           /\ task'[t].phase = "call" /\ task'[t].reply = "none" /\ task'[t].result = "none"
<1>1. PICK required \in BOOLEAN :
        /\ OnScreen("users") /\ Allowed(t, "bulk2FA")
        /\ task' = [task EXCEPT ![t] = [New("bulk2FA", "users") EXCEPT !.value = required]]
        /\ UNCHANGED page
  BY DEF SetBulk2FA
<1> DEFINE n == New("bulk2FA", "users")
           r == [n EXCEPT !.value = required]
<1>2. "bulk2FA" \in Operations /\ "users" \in Tabs
  BY DEF Operations, Tabs, Lists
<1>3. /\ n \in Task /\ n.op = "bulk2FA" /\ n.view = "users" /\ n.after = Over
      /\ n.reply = "none" /\ n.result = "none" /\ n.ids = {} /\ n.phase = "call"
  BY <1>2, NewFacts
<1> HIDE DEF n
<1>4. /\ r \in Task /\ r.op = "bulk2FA" /\ r.view = "users" /\ r.phase = "call"
      /\ r.after = Over /\ r.reply = "none" /\ r.ids = {} /\ r.result = "none"
  BY <1>3 DEF Task
<1>5. task' = [task EXCEPT ![t] = r] /\ Allowed(t, "bulk2FA")
  BY <1>1 DEF n
<1> HIDE DEF r
<1>6. Moves(t) /\ task'[t] = r
  BY <1>2, <1>4, <1>5, StartMoves
<1>7. QED
  BY <1>1, <1>4, <1>6, SamePage

LEMMA DeleteUploadMoves ==
    ASSUME TInv, NEW t \in Tasks, DeleteUpload(t)
    PROVE  /\ Moves(t) /\ PageOK' /\ UNCHANGED page /\ task'[t].op = "deleteFile"
           /\ task'[t].view = "control" /\ OnScreen("control") /\ screen.files.open
           /\ task'[t].item \in screen.files.rows /\ task'[t].removed = {task'[t].item}
           /\ task'[t].phase = "call" /\ task'[t].reply = "none" /\ task'[t].result = "none"
           /\ task'[t].ids = {}
<1>1. PICK i \in screen.files.rows :
        /\ screen.files.open /\ OnScreen("control") /\ Allowed(t, "deleteFile")
        /\ task' = [task EXCEPT ![t] = [New("deleteFile", "control") EXCEPT
                                          !.item = i, !.removed = {i}]]
        /\ UNCHANGED page
  BY DEF DeleteUpload
<1> DEFINE n == New("deleteFile", "control")
           r == [n EXCEPT !.item = i, !.removed = {i}]
<1>2. "deleteFile" \in Operations /\ "control" \in Tabs
  BY DEF Operations, Tabs
<1>3. /\ n \in Task /\ n.op = "deleteFile" /\ n.view = "control" /\ n.after = Over
      /\ n.reply = "none" /\ n.result = "none" /\ n.ids = {} /\ n.phase = "call"
  BY <1>2, NewFacts
<1> HIDE DEF n
<1>4. DOMAIN n = TaskFields /\ TaskFieldsOK(n) /\ i \in Items
  BY <1>1, <1>3, TaskParts DEF TInv, TypeOK, Screen, Files
<1>5. r = [x \in TaskFields |-> r[x]]
  BY <1>4
<1>6. TaskFieldsOK(r)
  BY <1>4 DEF TaskFieldsOK, TaskFields
<1>7. /\ r \in Task /\ r.op = "deleteFile" /\ r.view = "control" /\ r.phase = "call"
      /\ r.after = Over /\ r.reply = "none" /\ r.ids = {} /\ r.result = "none"
      /\ r.item = i /\ r.removed = {i}
  BY <1>3, <1>4, <1>5, <1>6, TaskMade DEF TaskFields
<1>8. task' = [task EXCEPT ![t] = r] /\ Allowed(t, "deleteFile")
  BY <1>1 DEF n
<1> HIDE DEF r
<1>9. Moves(t) /\ task'[t] = r
  BY <1>2, <1>7, <1>8, StartMoves, ZenonT(30)
<1>10. QED
  BY <1>1, <1>7, <1>9, SamePage

LEMMA SaveUiMoves ==
    ASSUME TInv, NEW t \in Tasks, SaveUiSettings(t)
    PROVE  /\ Moves(t) /\ PageOK' /\ UNCHANGED page /\ task'[t].op = "saveUi"
           /\ task'[t].view = "control" /\ OnScreen("control") /\ task'[t].ids = {}
           /\ task'[t].phase = "call" /\ task'[t].reply = "none" /\ task'[t].result = "none"
<1>1. /\ OnScreen("control") /\ Allowed(t, "saveUi") /\ UNCHANGED page
      /\ task' = [task EXCEPT ![t] = [New("saveUi", "control") EXCEPT !.text = screen.logo]]
  BY DEF SaveUiSettings
<1> DEFINE n == New("saveUi", "control")
           r == [n EXCEPT !.text = screen.logo]
<1>2. "saveUi" \in Operations /\ "control" \in Tabs
  BY DEF Operations, Tabs
<1>3. /\ n \in Task /\ n.op = "saveUi" /\ n.view = "control" /\ n.after = Over
      /\ n.reply = "none" /\ n.result = "none" /\ n.ids = {} /\ n.phase = "call"
  BY <1>2, NewFacts
<1> HIDE DEF n
<1>4. screen.logo \in Items \cup {None}
  BY DEF TInv, TypeOK, Screen
<1>5. /\ r \in Task /\ r.op = "saveUi" /\ r.view = "control" /\ r.phase = "call"
      /\ r.after = Over /\ r.reply = "none" /\ r.ids = {} /\ r.result = "none"
      /\ r.text \in Items \cup {None}
  BY <1>3, <1>4 DEF Task
<1>6. task' = [task EXCEPT ![t] = r] /\ Allowed(t, "saveUi")
  BY <1>1 DEF n
<1> HIDE DEF r
<1>7. Moves(t) /\ task'[t] = r
  BY <1>2, <1>5, <1>6, StartMoves
<1>8. QED
  BY <1>1, <1>5, <1>7, SamePage

LEMMA PostsMoves ==
    ASSUME TInv, NEW t \in Tasks, NEW op \in {"save", "reset"},
           NEW text \in Versions \cup {None}, Posts(t, op, text)
    PROVE  /\ Moves(t) /\ PageOK' /\ UNCHANGED page /\ task'[t].op = op
           /\ task'[t].view = "templates" /\ OnScreen("templates") /\ task'[t].ids = {}
           /\ task'[t].phase = "call" /\ task'[t].reply = "none" /\ task'[t].result = "none"
           /\ task'[t].kind = templates.type /\ task'[t].item = screen.editor.item
           /\ task'[t].base = screen.editor.base /\ task'[t].quiet = screen.editor.quiet
<1> DEFINE n == New(op, "templates")
           r == [n EXCEPT !.kind = templates.type, !.item = screen.editor.item, !.text = text,
                          !.base = screen.editor.base, !.quiet = screen.editor.quiet]
<1>1. op \in Operations /\ "templates" \in Tabs
  BY DEF Operations, Tabs
<1>2. /\ n \in Task /\ n.op = op /\ n.view = "templates" /\ n.after = Over
      /\ n.reply = "none" /\ n.result = "none" /\ n.ids = {} /\ n.phase = "call"
  BY <1>1, NewFacts
<1>3. /\ task' = [task EXCEPT ![t] = r] /\ Allowed(t, op) /\ UNCHANGED page
      /\ screen.editor.item # None
  BY DEF Posts
<1> HIDE DEF n
<1>4. /\ DOMAIN n = TaskFields /\ TaskFieldsOK(n) /\ templates.type \in Types
      /\ screen.editor.item \in Templates /\ screen.editor.base \in Versions \cup {None}
      /\ screen.editor.quiet \in BOOLEAN
  BY <1>2, <1>3, TaskParts DEF TInv, TypeOK, Screen, Editor
<1>5. r = [x \in TaskFields |-> r[x]]
  BY <1>4
<1>6. TaskFieldsOK(r)
  BY <1>4 DEF TaskFieldsOK, TaskFields
<1>7. r \in Task
  BY <1>5, <1>6, TaskMade
<1>8. /\ r.op = op /\ r.view = "templates" /\ r.phase = "call" /\ r.after = Over
      /\ r.reply = "none" /\ r.ids = {} /\ r.result = "none" /\ r.item = screen.editor.item
      /\ r.text = text /\ r.kind = templates.type /\ r.base = screen.editor.base
      /\ r.quiet = screen.editor.quiet
  BY <1>2, <1>4 DEF TaskFields
<1> HIDE DEF r
<1>9. Moves(t) /\ task'[t] = r
  BY <1>1, <1>3, <1>4, <1>7, <1>8, StartMoves, ZenonT(30)
<1>10. OnScreen("templates")
  BY <1>3 DEF TInv, ScreenOK
<1>11. QED
  BY <1>3, <1>8, <1>9, <1>10, SamePage

\* The panel of uploaded files is opened, and asked for, or closed.
LEMMA TogglesFilesFacts ==
    ASSUME TInv, NEW t \in Tasks, NEW rec \in Task, NEW shown \in Screen, TogglesFiles(t, rec, shown)
    PROVE  /\ task'[t] \in Task /\ task' = [task EXCEPT ![t] = task'[t]]
           /\ Continues(rec, task'[t]) /\ task'[t].reply = "none" /\ task'[t].result = rec.result
           /\ task'[t].over = rec.over
           /\ IF shown.files.open
                THEN /\ task'[t].phase = "done" /\ task'[t].ids = {}
                     /\ screen' = [shown EXCEPT !.files = [@ EXCEPT !.open = FALSE]]
                ELSE /\ task'[t].phase = "files" /\ task'[t].by = screen.by
                     /\ task'[t].ids = rec.ids
                     /\ screen' = [shown EXCEPT !.files = [open |-> TRUE, rows |-> {},
                                                           by |-> None, asked |-> t]]
<1>1. CASE shown.files.open
  <2>1. task' = [task EXCEPT ![t] = Ended(rec)] /\ task'[t] = Ended(rec)
    BY <1>1, Becomes DEF TogglesFiles
  <2>2. screen' = [shown EXCEPT !.files = [@ EXCEPT !.open = FALSE]]
    BY <1>1 DEF TogglesFiles
  <2>3. /\ Ended(rec) \in Task /\ Continues(rec, Ended(rec)) /\ Ended(rec).reply = "none"
        /\ Ended(rec).result = rec.result /\ Ended(rec).over = rec.over
        /\ Ended(rec).phase = "done" /\ Ended(rec).ids = {}
    BY EndedFacts DEF Continues
  <2>4. QED
    BY <1>1, <2>1, <2>2, <2>3
<1>2. CASE ~shown.files.open
  <2> DEFINE r == [rec EXCEPT !.phase = "files", !.by = screen.by, !.reply = "none"]
  <2>1. /\ DOMAIN rec = TaskFields /\ TaskFieldsOK(rec) /\ screen.by \in Tasks \cup {None}
    BY TaskParts DEF TInv, TypeOK, Screen
  <2>2. r = [x \in TaskFields |-> r[x]]
    BY <2>1
  <2>3. TaskFieldsOK(r)
    BY <2>1 DEF TaskFieldsOK, TaskFields, Phases
  <2>4. r \in Task
    BY <2>2, <2>3, TaskMade
  <2>5. /\ Continues(rec, r) /\ r.reply = "none" /\ r.result = rec.result /\ r.phase = "files"
        /\ r.by = screen.by /\ r.ids = rec.ids /\ r.over = rec.over
    BY <2>1 DEF TaskFields, Continues
  <2>6. task' = [task EXCEPT ![t] = r] /\ task'[t] = r
    BY <1>2, Becomes DEF TogglesFiles
  <2>7. screen' = [shown EXCEPT !.files = [open |-> TRUE, rows |-> {}, by |-> None, asked |-> t]]
    BY <1>2 DEF TogglesFiles
  <2> HIDE DEF r
  <2>8. QED
    BY <1>2, <2>4, <2>5, <2>6, <2>7
<1>3. QED
  BY <1>1, <1>2

LEMMA ListUploadsMoves ==
    ASSUME TInv, NEW t \in Tasks, ListUploads(t)
    PROVE  /\ Moves(t) /\ PageOK' /\ ScreenKept /\ screen'.editor = screen.editor
           /\ task'[t].op = "files" /\ task'[t].view = "control" /\ task'[t].reply = "none"
           /\ task'[t].removed = {} /\ task'[t].ids = {} /\ task'[t].result = "none"
           /\ OnScreen("control") /\ UNCHANGED <<nav, rest, latest>>
           /\ IF screen.files.open
                THEN /\ task'[t].phase = "done"
                     /\ screen' = [screen EXCEPT !.files = [@ EXCEPT !.open = FALSE]]
                ELSE /\ task'[t].phase = "files" /\ task'[t].by = screen.by
                     /\ screen' = [screen EXCEPT !.files = [open |-> TRUE, rows |-> {},
                                                            by |-> None, asked |-> t]]
<1> DEFINE n == New("files", "control")
<1>1. "files" \in Operations /\ "control" \in Tabs
  BY DEF Operations, Tabs
<1>2. /\ n \in Task /\ n.op = "files" /\ n.view = "control" /\ n.after = Over
      /\ n.reply = "none" /\ n.result = "none" /\ n.ids = {} /\ n.phase = "call" /\ n.removed = {}
  BY <1>1, NewFacts
<1>3. /\ OnScreen("control") /\ Allowed(t, "files") /\ TogglesFiles(t, n, screen)
      /\ UNCHANGED <<nav, rest, latest>>
  BY DEF ListUploads
<1> HIDE DEF n
<1>4. screen \in Screen
  BY DEF TInv, TypeOK
<1>5. /\ task'[t] \in Task /\ task' = [task EXCEPT ![t] = task'[t]]
      /\ Continues(n, task'[t]) /\ task'[t].reply = "none" /\ task'[t].result = n.result
      /\ IF screen.files.open
           THEN /\ task'[t].phase = "done" /\ task'[t].ids = {}
                /\ screen' = [screen EXCEPT !.files = [@ EXCEPT !.open = FALSE]]
           ELSE /\ task'[t].phase = "files" /\ task'[t].by = screen.by
                /\ task'[t].ids = n.ids
                /\ screen' = [screen EXCEPT !.files = [open |-> TRUE, rows |-> {},
                                                       by |-> None, asked |-> t]]
  BY <1>2, <1>3, <1>4, TogglesFilesFacts
<1>6. /\ task'[t].op = "files" /\ task'[t].view = "control" /\ task'[t].after = Over
      /\ task'[t].removed = {} /\ task'[t].ids = {} /\ task'[t].phase \in {"done", "files"}
      /\ task'[t].reply = "none" /\ task'[t].result = "none"
  BY <1>2, <1>5 DEF Continues
<1>7. Sort(task'[t])
  BY <1>1, <1>6 DEF Sort
<1>8. Moves(t)
  BY <1>3, <1>5, <1>6, <1>7, BeginMoves DEF Allowed
<1>9. /\ [open |-> TRUE, rows |-> {}, by |-> None, asked |-> t] \in Files
      /\ [screen.files EXCEPT !.open = FALSE] \in Files
  BY <1>4 DEF Files, Screen
<1>10. screen' \in Screen /\ ScreenKept /\ screen'.editor = screen.editor
  <2>1. PICK f \in Files : screen' = [screen EXCEPT !.files = f]
    BY <1>5, <1>9
  <2>2. QED
    BY <1>4, <2>1 DEF Screen, ScreenKept, ScreenStays
<1>11. PageOK'
  BY <1>3, <1>10, InPlace DEF ScreenKept, nav, TInv, TypeOK
<1>12. QED
  BY <1>3, <1>5, <1>6, <1>8, <1>10, <1>11

-----------------------------------------------------------------------------
(* Handlers that go on *)

LEMMA PhaseFacts ==
    ASSUME TInv, NEW t \in Tasks, NEW p \in Phases,
           task' = [task EXCEPT ![t].phase = p, ![t].reply = "none"]
    PROVE  /\ task'[t] \in Task /\ task' = [task EXCEPT ![t] = task'[t]]
           /\ Continues(task[t], task'[t]) /\ task'[t].phase = p /\ task'[t].reply = "none"
           /\ task'[t].ids = task[t].ids /\ task'[t].result = task[t].result
           /\ task'[t].text = task[t].text /\ task'[t].over = task[t].over
           /\ task'[t].query = task[t].query /\ task'[t].list = task[t].list
<1> DEFINE r == [task[t] EXCEPT !.phase = p, !.reply = "none"]
<1>1. DOMAIN task[t] = TaskFields /\ TaskFieldsOK(task[t])
  BY TaskOf, TaskParts
<1>2. r = [x \in TaskFields |-> r[x]]
  BY <1>1
<1>3. TaskFieldsOK(r)
  BY <1>1 DEF TaskFieldsOK, TaskFields
<1>4. r \in Task
  BY <1>2, <1>3, TaskMade
<1>5. /\ Continues(task[t], r) /\ r.phase = p /\ r.reply = "none" /\ r.ids = task[t].ids
      /\ r.result = task[t].result /\ r.text = task[t].text /\ r.over = task[t].over
      /\ r.query = task[t].query /\ r.list = task[t].list
  BY <1>1 DEF TaskFields, Continues
<1>6. task' = [task EXCEPT ![t] = r] /\ task'[t] = r
  BY Becomes, TaskTyped
<1> HIDE DEF r
<1>7. QED
  BY <1>4, <1>5, <1>6

LEMMA NotChangedMoves ==
    ASSUME TInv, NEW t \in Tasks, NotChanged(t)
    PROVE  /\ Moves(t) /\ PageOK' /\ UNCHANGED page /\ task'[t].phase = "done"
           /\ task'[t].reply = "none" /\ task'[t].result = "failed" /\ task'[t].ids = task[t].ids
           /\ task'[t].over = task[t].over
<1> DEFINE r == [task[t] EXCEPT !.phase = "done", !.reply = "none", !.result = "failed"]
<1>1. DOMAIN task[t] = TaskFields /\ TaskFieldsOK(task[t]) /\ Sort(task[t])
  BY TaskOf, TaskParts DEF SortOK
<1>2. r = [x \in TaskFields |-> r[x]]
  BY <1>1
<1>3. TaskFieldsOK(r)
  BY <1>1 DEF TaskFieldsOK, TaskFields, Phases
<1>4. r \in Task
  BY <1>2, <1>3, TaskMade
<1>5. /\ Continues(task[t], r) /\ r.phase = "done" /\ r.reply = "none" /\ r.ids = task[t].ids
      /\ r.result = "failed" /\ r.over = task[t].over
  BY <1>1 DEF TaskFields, Continues
<1>6. /\ task' = [task EXCEPT ![t] = r] /\ task'[t] = r
      /\ task[t].phase \in {"read", "call"} /\ UNCHANGED page
  BY Becomes, TaskTyped DEF NotChanged, Got
<1> HIDE DEF r
<1>7. Sort(r)
  BY <1>1, <1>5, <1>6 DEF Sort, Continues
<1>8. QED
  BY <1>4, <1>5, <1>6, <1>7, GoOnMoves, SamePage

LEMMA MemberChangedMoves ==
    ASSUME TInv, NEW t \in Tasks, MemberChanged(t)
    PROVE  /\ Moves(t) /\ PageOK' /\ UNCHANGED page /\ task'[t].phase \in {"panel", "done"}
           /\ task'[t].reply = "none" /\ task'[t].result = "ok" /\ task'[t].ids = task[t].ids
<1>1. PICK p \in {"panel", "done"} :
        /\ task[t].op = "member" /\ task[t].phase = "call" /\ UNCHANGED page
        /\ task' = [task EXCEPT ![t] = [@ EXCEPT !.phase = p, !.reply = "none",
                                                 !.by = screen.by, !.result = "ok"]]
  BY DEF MemberChanged, Got
<1> DEFINE r == [task[t] EXCEPT !.phase = p, !.reply = "none", !.by = screen.by, !.result = "ok"]
<1>2. DOMAIN task[t] = TaskFields /\ TaskFieldsOK(task[t]) /\ Sort(task[t])
  BY TaskOf, TaskParts DEF SortOK
<1>3. r = [x \in TaskFields |-> r[x]]
  BY <1>2
<1>4. screen.by \in Tasks \cup {None}
  BY DEF TInv, TypeOK, Screen
<1>5. TaskFieldsOK(r)
  BY <1>2, <1>4 DEF TaskFieldsOK, TaskFields, Phases
<1>6. r \in Task
  BY <1>3, <1>5, TaskMade
<1>7. /\ Continues(task[t], r) /\ r.phase = p /\ r.reply = "none" /\ r.ids = task[t].ids
      /\ r.result = "ok"
  BY <1>2 DEF TaskFields, Continues
<1>8. task' = [task EXCEPT ![t] = r] /\ task'[t] = r
  BY <1>1, Becomes, TaskTyped
<1> HIDE DEF r
<1>9. Sort(r)
  BY <1>1, <1>2, <1>7 DEF Sort, Continues
<1>10. QED
  BY <1>1, <1>6, <1>7, <1>8, <1>9, GoOnMoves, SamePage

LEMMA WriteActionsMoves ==
    ASSUME TInv, NEW t \in Tasks, WriteActions(t)
    PROVE  /\ Moves(t) /\ PageOK' /\ UNCHANGED page /\ task'[t].phase = "call"
           /\ task'[t].reply = "none" /\ task'[t].result = task[t].result
           /\ task'[t].ids = Switch(task[t].ids, task[t].item, task[t].value)
<1>1. /\ task[t].op = "toggleAction" /\ task[t].phase = "read" /\ UNCHANGED page
      /\ task' = [task EXCEPT ![t] = [@ EXCEPT !.phase = "call", !.reply = "none",
                                    !.ids = Switch(task[t].ids, task[t].item, task[t].value)]]
  BY DEF WriteActions, Got
<1> DEFINE r == [task[t] EXCEPT !.phase = "call", !.reply = "none",
                                !.ids = Switch(task[t].ids, task[t].item, task[t].value)]
<1>2. DOMAIN task[t] = TaskFields /\ TaskFieldsOK(task[t]) /\ Sort(task[t])
  BY TaskOf, TaskParts DEF SortOK
<1>3. r = [x \in TaskFields |-> r[x]]
  BY <1>2
<1>4. Switch(task[t].ids, task[t].item, task[t].value) \subseteq Actions
  BY <1>1, <1>2 DEF Switch, Sort
<1>5. TaskFieldsOK(r)
  BY <1>2, <1>4 DEF TaskFieldsOK, TaskFields, Phases
<1>6. r \in Task
  BY <1>3, <1>5, TaskMade
<1>7. /\ Continues(task[t], r) /\ r.phase = "call" /\ r.reply = "none"
      /\ r.ids = Switch(task[t].ids, task[t].item, task[t].value) /\ r.result = task[t].result
  BY <1>2 DEF TaskFields, Continues
<1>8. task' = [task EXCEPT ![t] = r] /\ task'[t] = r
  BY <1>1, Becomes, TaskTyped
<1> HIDE DEF r
<1>9. Sort(r)
  BY <1>1, <1>2, <1>4, <1>7 DEF Sort, Continues
<1>10. QED
  BY <1>1, <1>6, <1>7, <1>8, <1>9, GoOnMoves, SamePage

LEMMA SettingUpdatedMoves ==
    ASSUME TInv, NEW t \in Tasks, SettingUpdated(t)
    PROVE  /\ Moves(t) /\ PageOK' /\ UNCHANGED page /\ task'[t].phase = "policy"
           /\ task'[t].reply = "none" /\ task'[t].result = task[t].result
           /\ task'[t].ids = task[t].ids
<1>1. /\ task[t].op = "updateSetting" /\ task[t].phase = "call" /\ UNCHANGED page
      /\ task' = [task EXCEPT ![t].phase = "policy", ![t].reply = "none"]
  BY DEF SettingUpdated, Got
<1>2. /\ task'[t] \in Task /\ task' = [task EXCEPT ![t] = task'[t]]
      /\ Continues(task[t], task'[t]) /\ task'[t].phase = "policy" /\ task'[t].reply = "none"
      /\ task'[t].ids = task[t].ids /\ task'[t].result = task[t].result
  BY <1>1, PhaseFacts DEF Phases
<1>3. Sort(task'[t])
  BY <1>1, <1>2, TaskOf DEF Sort, SortOK, Continues
<1>4. QED
  BY <1>1, <1>2, <1>3, GoOnMoves, SamePage

\* What a render leaves for its list.
Rendered(t) == /\ task'[t].phase = "list" /\ task'[t].ids = {} /\ task'[t].reply = "none"
               /\ task'[t].query = query'[task'[t].view] /\ task'[t].asked = templates'.type
               /\ screen'.state = "loading" /\ screen'.view = task'[t].view /\ screen'.by = t
               /\ screen'.editor = NoEditor /\ screen'.files = NoFiles /\ screen'.rows = {}
               /\ latest'[task'[t].view] = t
               /\ \A v \in Tabs \ {task'[t].view} : latest'[v] = latest[v]

\* A render that goes on after a call leaves the page typed.
LEMMA ResumedMoves ==
    ASSUME TInv, NEW t \in Tasks, NEW x \in {"ok", "failed"}, NEW view,
           task[t].phase \notin {"idle", "done"}, task[t].op # "saveUi", view = task[t].view,
           Renders(t, [task[t] EXCEPT !.result = x], view),
           UNCHANGED <<tab, query, openId, seen, templates>>,
           selected' \subseteq Items, newRaw' \in Tasks \cup {None}
    PROVE  /\ Moves(t) /\ PageOK' /\ Rendered(t)
           /\ task'[t].result = x /\ task'[t].over = task[t].over
<1>1. /\ query' \in [Tabs -> Query] /\ templates'.type \in Types /\ task[t].view \in Tabs
      /\ query'["control"] = NoQuery /\ query'["templates"] = NoQuery
  BY TaskOf DEF TInv, TypeOK, ScreenOK, SortOK, Sort
<1>2. /\ Moves(t) /\ task'[t].phase = "list" /\ task'[t].ids = {} /\ task'[t].reply = "none"
      /\ task'[t].query = query'[task[t].view] /\ task'[t].asked = templates'.type
      /\ task'[t].result = x /\ task'[t].over = task[t].over
  BY <1>1, RendersMoves
<1>3. task'[t].view = task[t].view
  BY <1>2 DEF Moves, Carries
<1>4. [task[t] EXCEPT !.result = x] \in Task
  BY TaskOf DEF Task
<1>5. /\ screen' \in Screen /\ ScreenOK' /\ latest' \in [Tabs -> Tasks \cup {None}]
      /\ screen'.state = "loading" /\ screen'.view = view /\ screen'.by = t
      /\ screen'.editor = NoEditor /\ screen'.files = NoFiles /\ latest'[view] = t
      /\ screen'.rows = {} /\ \A v \in Tabs \ {view} : latest'[v] = latest[v]
  BY <1>1, <1>4, RendersScreen
<1>6. PageOK'
  BY <1>5 DEF PageOK, TInv, TypeOK
<1>7. QED
  BY <1>2, <1>3, <1>5, <1>6 DEF Rendered

\* The handlers whose answered call renders their view.
HandlerResumes(t) == \/ SelectedDeleted(t) \/ Changed(t) \/ Saved(t) \/ ActionToggled(t)
                     \/ SettingRefused(t) \/ Bulk2FASet(t)

LEMMA HandlersResume ==
    ASSUME TInv, NEW t \in Tasks, HandlerResumes(t)
    PROVE  /\ Moves(t) /\ PageOK' /\ Rendered(t) /\ task'[t].over = task[t].over
           /\ task[t].phase = "call" /\ UNCHANGED <<tab, query, openId, newRaw, seen, templates>>
           /\ task[t].op \in {"deleteSelected", "save", "reset", "toggleAction", "bulk2FA",
                              "updateSetting", "delete", "change", "create"}
           /\ task[t].op # "deleteSelected" => UNCHANGED selected
           /\ task'[t].result = (IF task[t].op = "updateSetting" THEN "failed" ELSE "ok")
           /\ ~(task[t].op = "create" /\ task[t].view = "apiKeys")
           /\ task[t].op = "deleteSelected" => task[t].reply = "none" /\ task[t].ids = {}
           /\ task[t].op \notin {"updateSetting", "deleteSelected"} => task[t].reply = "ok"
<1>1. Sort(task[t]) /\ selected \subseteq Items /\ newRaw \in Tasks \cup {None}
  BY TaskOf DEF SortOK, TInv, TypeOK
<1>2. CASE SelectedDeleted(t)
  <2>1. /\ task[t].op = "deleteSelected" /\ task[t].phase = "call" /\ task[t].reply = "none"
        /\ task[t].ids = {} /\ Renders(t, [task[t] EXCEPT !.result = "ok"], "users")
        /\ UNCHANGED <<tab, query, openId, newRaw, seen, templates>> /\ selected' = {}
    BY <1>2 DEF SelectedDeleted, Awaits, rest
  <2>2. "users" = task[t].view
    BY <1>1, <2>1 DEF Sort
  <2>3. QED
    BY <1>1, <2>1, <2>2, ResumedMoves
<1>3. CASE ~SelectedDeleted(t)
  <2>1. PICK x \in {"ok", "failed"}, view \in Tabs :
          /\ Renders(t, [task[t] EXCEPT !.result = x], view) /\ UNCHANGED <<nav, rest>>
          /\ task[t].phase = "call" /\ view = task[t].view
          /\ x = (IF task[t].op = "updateSetting" THEN "failed" ELSE "ok")
          /\ task[t].op \in {"save", "reset", "toggleAction", "bulk2FA",
                             "updateSetting", "delete", "change", "create"}
          /\ ~(task[t].op = "create" /\ task[t].view = "apiKeys")
          /\ task[t].op # "updateSetting" => task[t].reply = "ok"
    <3>1. CASE Changed(t)
      BY <1>1, <3>1 DEF Changed, Got, Sort
    <3>2. CASE Saved(t)
      BY <1>1, <3>2 DEF Saved, Got, Sort
    <3>3. CASE ActionToggled(t)
      BY <1>1, <3>3 DEF ActionToggled, Got, Sort
    <3>4. CASE SettingRefused(t)
      BY <1>1, <3>4 DEF SettingRefused, Got, Sort
    <3>5. CASE Bulk2FASet(t)
      BY <1>1, <3>5 DEF Bulk2FASet, Got, Sort
    <3>6. QED
      BY <1>3, <3>1, <3>2, <3>3, <3>4, <3>5 DEF HandlerResumes
  <2>2. QED
    BY <1>1, <2>1, ResumedMoves DEF nav, rest
<1>4. QED
  BY <1>2, <1>3

LEMMA ApiKeyMoves ==
    ASSUME TInv, NEW t \in Tasks, ApiKeyCreated(t)
    PROVE  /\ Moves(t) /\ PageOK' /\ Rendered(t) /\ task'[t].result = "ok"
           /\ task[t].op = "create" /\ task[t].view = "apiKeys"
           /\ task[t].phase = "call" /\ task[t].reply = "ok"
           /\ newRaw' = t /\ UNCHANGED <<nav, seen, templates>>
<1>1. /\ task[t].op = "create" /\ task[t].view = "apiKeys" /\ task[t].phase = "call"
      /\ task[t].reply = "ok" /\ newRaw' = t /\ UNCHANGED <<nav, seen, templates>>
      /\ Renders(t, [task[t] EXCEPT !.result = "ok"], "apiKeys")
  BY DEF ApiKeyCreated, Got
<1>2. selected' \subseteq Items /\ newRaw' \in Tasks \cup {None}
  BY <1>1 DEF nav, TInv, TypeOK
<1>3. QED
  BY <1>1, <1>2, ResumedMoves DEF nav

\* The drawer that is gone makes a done save a failed one.
LEMMA WebhookSavedMoves ==
    ASSUME TInv, NEW t \in Tasks, WebhookSaved(t)
    PROVE  /\ Moves(t) /\ PageOK' /\ UNCHANGED <<nav, rest>> /\ task[t].op = "saveWebhook"
           /\ task[t].phase = "call" /\ task[t].reply = "ok"
           /\ \/ Rendered(t)
              \/ UNCHANGED page /\ task'[t].phase = "done" /\ task'[t].ids = {}
           /\ task'[t].reply = "none"
<1>1. task[t].op = "saveWebhook" /\ task[t].phase = "call" /\ task[t].reply = "ok"
  BY DEF WebhookSaved, Got
<1>2. CASE OnScreen("webhooks")
  <2>1. /\ UNCHANGED <<nav, rest>> /\ Renders(t, [task[t] EXCEPT !.result = "ok"], "webhooks")
    BY <1>2 DEF WebhookSaved
  <2>2. /\ "webhooks" = task[t].view /\ selected' \subseteq Items
        /\ newRaw' \in Tasks \cup {None}
    BY <1>1, <2>1, TaskOf DEF SortOK, Sort, nav, rest, TInv, TypeOK
  <2>3. QED
    BY <1>1, <2>1, <2>2, ResumedMoves DEF nav, rest, Rendered
<1>3. CASE ~OnScreen("webhooks")
  <2>1. /\ task' = [task EXCEPT ![t] = [Ended(@) EXCEPT !.result = "failed"]] /\ UNCHANGED page
    BY <1>3 DEF WebhookSaved
  <2>2. QED
    BY <1>1, <2>1, EndMoves, SamePage DEF page
<1>4. QED
  BY <1>2, <1>3

LEMMA PolicyUpdatedMoves ==
    ASSUME TInv, NEW t \in Tasks, PolicyUpdated(t)
    PROVE  /\ Moves(t) /\ PageOK' /\ UNCHANGED page /\ task[t].phase = "policy"
           /\ task'[t].phase = "done" /\ task'[t].ids = {} /\ task'[t].reply = "none"
           /\ task'[t].result = (IF task[t].reply = "ok" THEN "ok" ELSE "partial")
<1>1. PICK x \in {"ok", "partial"} :
        /\ task[t].phase = "policy" /\ UNCHANGED page
        /\ task' = [task EXCEPT ![t] = [Ended(@) EXCEPT !.result = x]]
        /\ x = (IF task[t].reply = "ok" THEN "ok" ELSE "partial")
  BY DEF PolicyUpdated
<1>2. x \in {"ok", "partial", "failed", task[t].result} /\ task[t].phase \notin {"idle", "done"}
  BY <1>1
<1>3. QED
  BY <1>1, <1>2, EndMoves, SamePage, ZenonT(30)

LEMMA UiSettingsSavedMoves ==
    ASSUME TInv, NEW t \in Tasks, UiSettingsSaved(t)
    PROVE  /\ Moves(t) /\ PageOK' /\ UNCHANGED page /\ task[t].op = "saveUi"
           /\ task'[t].phase = "done" /\ task'[t].ids = {} /\ task'[t].reply = "none"
<1>1. /\ task[t].op = "saveUi" /\ task[t].phase = "call" /\ UNCHANGED page
      /\ task' = [task EXCEPT ![t] = [Ended(@) EXCEPT !.result = "ok"]]
  BY DEF UiSettingsSaved, Got
<1>2. QED
  BY <1>1, EndMoves, SamePage

LEMMA UploadedMoves ==
    ASSUME TInv, NEW t \in Tasks, Uploaded(t)
    PROVE  /\ Moves(t) /\ PageOK' /\ ScreenKept /\ screen'.editor = screen.editor
           /\ screen'.files = screen.files /\ UNCHANGED <<nav, rest, latest>>
           /\ task[t].op = "upload" /\ task[t].phase = "call" /\ task[t].reply = "ok"
           /\ task'[t].phase = "done" /\ task'[t].ids = {} /\ task'[t].reply = "none"
<1>1. /\ task[t].op = "upload" /\ task[t].phase = "call" /\ task[t].reply = "ok"
      /\ screen' = IF OnScreen("control") THEN [screen EXCEPT !.logo = t] ELSE screen
      /\ task' = [task EXCEPT ![t] = [Ended(@) EXCEPT !.result = "ok"]]
      /\ UNCHANGED <<nav, rest, latest>>
  BY DEF Uploaded, Got
<1>2. Moves(t) /\ task'[t].phase = "done" /\ task'[t].ids = {} /\ task'[t].reply = "none"
  BY <1>1, EndMoves
<1>3. screen \in Screen /\ t \in Items
  BY DEF TInv, TypeOK, Items
<1>4. /\ screen' \in Screen /\ ScreenKept
      /\ screen'.editor = screen.editor /\ screen'.files = screen.files
  BY <1>1, <1>3 DEF Screen, ScreenKept, ScreenStays
<1>5. PageOK'
  BY <1>1, <1>4, InPlace DEF ScreenKept, nav, TInv, TypeOK
<1>6. QED
  BY <1>1, <1>2, <1>4, <1>5

\* An answered deletion hides the panel of files, or opens and asks for it.
LEMMA UploadDeletedMoves ==
    ASSUME TInv, NEW t \in Tasks, UploadDeleted(t)
    PROVE  /\ Moves(t) /\ PageOK' /\ ScreenKept /\ screen'.editor = screen.editor
           /\ task[t].op = "deleteFile" /\ task[t].phase = "call" /\ task[t].reply = "ok"
           /\ task'[t].reply = "none" /\ task'[t].result = "ok" /\ UNCHANGED <<nav, rest, latest>>
           /\ IF ~OnScreen("control")
                THEN task'[t].phase = "done" /\ task'[t].ids = {} /\ screen' = screen
                ELSE IF screen.files.open
                  THEN /\ task'[t].phase = "done" /\ task'[t].ids = {}
                       /\ screen'.files = [screen.files EXCEPT !.open = FALSE]
                  ELSE /\ task'[t].phase = "files" /\ task'[t].by = screen.by
                       /\ task'[t].ids = task[t].ids
                       /\ screen'.files = [open |-> TRUE, rows |-> {}, by |-> None, asked |-> t]
<1> DEFINE rec == [task[t] EXCEPT !.result = "ok"]
           logo == IF screen.logo = rec.item THEN None ELSE screen.logo
           shown == [screen EXCEPT !.logo = logo]
<1>1. /\ task[t].op = "deleteFile" /\ task[t].phase = "call" /\ task[t].reply = "ok"
      /\ IF OnScreen("control") THEN TogglesFiles(t, rec, shown)
         ELSE screen' = screen /\ task' = [task EXCEPT ![t] = Ended(rec)]
      /\ UNCHANGED <<nav, rest, latest>>
  BY DEF UploadDeleted, Got
<1>2. /\ task[t] \in Task /\ Sort(task[t]) /\ screen \in Screen
  BY TaskOf DEF SortOK, TInv, TypeOK
<1>3. /\ rec \in Task /\ Continues(task[t], rec) /\ rec.result = "ok" /\ rec.ids = task[t].ids
  BY <1>2 DEF Task, Continues
<1>4. shown \in Screen /\ shown.files = screen.files /\ shown.editor = screen.editor
  BY <1>2 DEF Screen
<1>5. ASSUME NEW f \in Files, screen' = [shown EXCEPT !.files = f]
      PROVE  /\ screen' \in Screen /\ screen'.files = f /\ screen'.editor = screen.editor
             /\ ScreenKept
  <2>1. DOMAIN screen = ScreenFields /\ ScreenFieldsOK(screen)
    BY <1>2, ScreenParts
  <2>2. screen' = [x \in ScreenFields |-> screen'[x]]
    BY <1>5, <2>1
  <2>3. logo \in Items \cup {None}
    BY <2>1 DEF ScreenFieldsOK
  <2> HIDE DEF logo
  <2>4. ScreenFieldsOK(screen')
    BY <1>5, <2>1, <2>3 DEF ScreenFieldsOK, ScreenFields
  <2>5. /\ screen'.files = f /\ screen'.editor = screen.editor /\ ScreenKept
    BY <1>5, <2>1 DEF ScreenFields, ScreenKept, ScreenStays
  <2>6. QED
    BY <2>2, <2>4, <2>5, ScreenMade
<1> HIDE DEF rec, shown
<1>6. CASE ~OnScreen("control")
  <2>1. screen' = screen /\ task' = [task EXCEPT ![t] = Ended(rec)] /\ task'[t] = Ended(rec)
    BY <1>1, <1>6, Becomes
  <2>2. /\ Ended(rec) \in Task /\ Continues(task[t], Ended(rec)) /\ Ended(rec).phase = "done"
        /\ Ended(rec).ids = {} /\ Ended(rec).reply = "none" /\ Ended(rec).result = "ok"
    BY <1>3, EndedFacts DEF Continues
  <2>3. Sort(Ended(rec))
    BY <1>1, <1>2, <2>2 DEF Sort, Continues
  <2>4. Moves(t)
    BY <1>1, <2>1, <2>2, <2>3, GoOnMoves
  <2>5. ScreenKept /\ PageOK'
    BY <1>1, <2>1, SamePage DEF ScreenKept, ScreenStays, page
  <2>6. QED
    BY <1>1, <1>6, <2>1, <2>2, <2>4, <2>5
<1>7. CASE OnScreen("control")
  <2>1. /\ task'[t] \in Task /\ task' = [task EXCEPT ![t] = task'[t]]
        /\ Continues(rec, task'[t]) /\ task'[t].reply = "none" /\ task'[t].result = rec.result
        /\ IF screen.files.open
             THEN /\ task'[t].phase = "done" /\ task'[t].ids = {}
                  /\ screen' = [shown EXCEPT !.files = [@ EXCEPT !.open = FALSE]]
             ELSE /\ task'[t].phase = "files" /\ task'[t].by = screen.by
                  /\ task'[t].ids = rec.ids
                  /\ screen' = [shown EXCEPT !.files = [open |-> TRUE, rows |-> {},
                                                        by |-> None, asked |-> t]]
    BY <1>1, <1>3, <1>4, <1>7, TogglesFilesFacts
  <2>2. Continues(task[t], task'[t])
    BY <1>3, <2>1 DEF Continues
  <2>3. Sort(task'[t])
    BY <1>1, <1>2, <1>3, <2>1, <2>2 DEF Sort, Continues
  <2>4. Moves(t)
    BY <1>1, <2>1, <2>2, <2>3, GoOnMoves
  <2> DEFINE f == IF screen.files.open THEN [screen.files EXCEPT !.open = FALSE]
                  ELSE [open |-> TRUE, rows |-> {}, by |-> None, asked |-> t]
  <2>5. f \in Files
    BY <1>2 DEF Files, Screen
  <2>6. screen' = [shown EXCEPT !.files = f]
    BY <1>4, <2>1
  <2>7. screen' \in Screen /\ screen'.files = f /\ screen'.editor = screen.editor /\ ScreenKept
    BY <1>5, <2>5, <2>6
  <2>8. PageOK'
    BY <1>1, <1>7, <2>7, InPlace DEF ScreenKept, nav, TInv, TypeOK
  <2>9. QED
    BY <1>1, <1>3, <1>7, <2>1, <2>4, <2>7, <2>8
<1>8. QED
  BY <1>6, <1>7

\* The answer goes to the panel that asked, if it is there.
LEMMA FilesListedMoves ==
    ASSUME TInv, NEW t \in Tasks, FilesListed(t)
    PROVE  /\ Moves(t) /\ PageOK' /\ ScreenKept /\ screen'.editor = screen.editor
           /\ task[t].phase = "files" /\ task'[t].phase = "done" /\ task'[t].ids = {}
           /\ task'[t].reply = "none" /\ task'[t].result = task[t].result
           /\ UNCHANGED <<nav, rest, latest>>
           /\ screen'.files = IF OnScreen("control") /\ screen.by = task[t].by
                                THEN [screen.files EXCEPT !.rows = task[t].ids, !.by = t]
                                ELSE screen.files
<1> DEFINE there == OnScreen("control") /\ screen.by = task[t].by
           f == IF there THEN [screen.files EXCEPT !.rows = task[t].ids, !.by = t]
                         ELSE screen.files
<1>1. /\ task[t].phase = "files" /\ Ends(t) /\ UNCHANGED <<nav, rest, latest>>
      /\ screen' = IF there THEN [screen EXCEPT !.files.rows = task[t].ids, !.files.by = t]
                            ELSE screen
  BY DEF FilesListed
<1>2. screen \in Screen /\ screen.files \in Files /\ Sort(task[t])
  BY TaskOf DEF SortOK, TInv, TypeOK, Screen
<1>3. task[t].ids \subseteq Items
  <2>1. task[t].op # "toggleAction"
    BY <1>1, <1>2 DEF Sort
  <2>2. QED
    BY <1>1, <1>2, <2>1 DEF Sort
<1>4. f \in Files
  BY <1>2, <1>3 DEF Files
<1>5. screen' = [screen EXCEPT !.files = f]
  BY <1>1, <1>2 DEF Screen, Files
<1>6. f.open = screen.files.open
  BY <1>2 DEF Files
<1> HIDE DEF f
<1>7. screen' \in Screen /\ ScreenKept /\ screen'.editor = screen.editor /\ screen'.files = f
  BY <1>2, <1>4, <1>5 DEF Screen, ScreenKept, ScreenStays
<1>8. PageOK'
  BY <1>1, <1>6, <1>7, InPlace DEF ScreenKept, nav, TInv, TypeOK
<1>9. QED
  BY <1>1, <1>7, <1>8, EndsMoves DEF f

-----------------------------------------------------------------------------
(* Renders that go on *)

LEMMA NewScreen ==
    ASSUME TInv, screen' \in Screen, screen'.view \in Tabs,
           IF screen'.view = "control" THEN screen'.rows \subseteq Actions
                                       ELSE screen'.rows \subseteq Items,
           screen'.state = "shown" => screen'.label = query[screen'.view],
           screen'.editor.item # None => screen'.state = "shown" /\ screen'.view = "templates",
           ~screen'.files.open, UNCHANGED <<nav, latest>>,
           newRaw' \in Tasks \cup {None}, seen' \subseteq Tasks,
           templates' \in [type : Types, selectedId : Templates \cup {None},
                           cache : [Types -> Contents]]
    PROVE  PageOK'
BY DEF TInv, TypeOK, PageOK, nav, ScreenOK, OnScreen

\* The table of a list, as it is painted.
LEMMA TableFacts ==
    ASSUME TInv, NEW t \in Tasks, task[t].view \in Lists, task[t].phase \in {"list", "details"}
    PROVE  /\ Table(t) \in Screen /\ Table(t).state = "shown" /\ Table(t).view = task[t].view
           /\ Table(t).by = t /\ Table(t).rows = task[t].ids /\ Table(t).sent = task[t].query
           /\ Table(t).label = query[task[t].view] /\ Table(t).editor = NoEditor
           /\ Table(t).files = NoFiles /\ Table(t).banner = None
           /\ task[t].ids \subseteq Items
<1> HIDE DEF Blank
<1> DEFINE v == task[t].view
           more == IF task[t].phase = "details" THEN task[t].more ELSE HasMore(t)
<1>1. TaskFieldsOK(task[t]) /\ Sort(task[t]) /\ v \in Tabs /\ query[v] \in Query
  BY TaskOf, TaskParts DEF SortOK, TInv, TypeOK, Tabs
<1>2. more \in BOOLEAN
  <2>1. HasMore(t) \in BOOLEAN
    BY <1>1, PageAssumption DEF HasMore, TaskFieldsOK, Query
  <2>2. QED
    BY <1>1, <2>1 DEF TaskFieldsOK
<1>3. Table(t) = [Blank EXCEPT !.state = "shown", !.view = v, !.by = t, !.rows = task[t].ids,
                               !.sent = task[t].query, !.label = query[v], !.more = more]
  BY DEF Table
<1> HIDE DEF more
<1>4. Table(t) = [x \in ScreenFields |-> Table(t)[x]]
  BY <1>3, BlankFacts
<1>5. ScreenFieldsOK(Table(t))
  BY <1>1, <1>2, <1>3, BlankFacts DEF ScreenFieldsOK, ScreenFields, TaskFieldsOK
<1>6. Table(t) \in Screen
  BY <1>4, <1>5, ScreenMade
<1>7. /\ Table(t).state = "shown" /\ Table(t).view = task[t].view
      /\ Table(t).by = t /\ Table(t).rows = task[t].ids /\ Table(t).sent = task[t].query
      /\ Table(t).label = query[task[t].view] /\ Table(t).editor = NoEditor
      /\ Table(t).files = NoFiles /\ Table(t).banner = None
  BY <1>3, BlankFacts DEF ScreenFields
<1>8. task[t].ids \subseteq Items
  BY <1>1 DEF Sort, Lists
<1>9. QED
  BY <1>6, <1>7, <1>8

\* What a painted list shows.
Painted(t) == /\ screen'.state = "shown" /\ screen'.view = task[t].view /\ screen'.by = t
              /\ screen'.label = query[task[t].view]
              /\ screen'.rows \subseteq task[t].ids
              /\ screen'.sent \in {task[t].query, query[task[t].view]}
              /\ screen'.sent = query[task[t].view] \/ task[t].view \notin FilteredHere
              /\ screen'.editor = NoEditor /\ screen'.files = NoFiles

LEMMA PaintedPage ==
    ASSUME TInv, NEW t \in Tasks, task[t].view \in Lists, task[t].ids \subseteq Items,
           Painted(t), screen' \in Screen, UNCHANGED <<nav, latest, templates>>,
           newRaw' \in Tasks \cup {None}, seen' \subseteq Tasks
    PROVE  PageOK'
<1>1. task[t].view \in Tabs /\ task[t].view # "control"
  BY DEF Tabs, Lists
<1>2. templates' \in [type : Types, selectedId : Templates \cup {None}, cache : [Types -> Contents]]
  BY DEF TInv, TypeOK
<1>3. screen'.rows \subseteq Items /\ screen'.view \in Tabs /\ screen'.view # "control"
  BY <1>1 DEF Painted
<1>4. screen'.editor.item = None /\ ~screen'.files.open /\ screen'.label = query[screen'.view]
  BY SmallFacts DEF Painted
<1>5. QED
  BY <1>2, <1>3, <1>4, NewScreen

\* A list that is painted at once.
LEMMA PaintsMoves ==
    ASSUME TInv, NEW t \in Tasks, ShowSessions(t) \/ ShowWebhooks(t) \/ ShowApiKeys(t) \/ ShowRoles(t)
    PROVE  /\ Moves(t) /\ PageOK' /\ Painted(t) /\ task'[t].phase = "done" /\ task'[t].ids = {}
           /\ task'[t].reply = "none" /\ task'[t].result = task[t].result
           /\ task[t].phase = "list" /\ task[t].reply = "ok"
           /\ task[t].view \in {"sessions", "webhooks", "apiKeys", "roles"}
           /\ UNCHANGED <<nav, latest, templates, newRaw>>
           /\ IF task[t].view = "apiKeys"
                THEN screen'.banner = newRaw /\ seen' = seen \cup ({newRaw} \ {None})
                ELSE seen' = seen
<1>1. /\ task[t].phase = "list" /\ task[t].reply = "ok" /\ Ends(t)
      /\ UNCHANGED <<nav, latest, templates, newRaw>>
      /\ \/ task[t].view \in {"sessions", "webhooks"} /\ screen' = Table(t) /\ seen' = seen
         \/ /\ task[t].view = "apiKeys" /\ screen' = [Table(t) EXCEPT !.banner = newRaw]
            /\ seen' = seen \cup ({newRaw} \ {None})
         \/ task[t].view = "roles" /\ screen' = FilteredTable(t) /\ seen' = seen
  BY DEF ShowSessions, ShowWebhooks, ShowApiKeys, ShowRoles, Paints, Got
<1>2. task[t].view \in Lists
  BY <1>1 DEF Lists
<1>3. /\ Moves(t) /\ task'[t].phase = "done" /\ task'[t].ids = {} /\ task'[t].reply = "none"
      /\ task'[t].result = task[t].result
  BY <1>1, EndsMoves
<1>4. /\ newRaw' \in Tasks \cup {None} /\ seen' \subseteq Tasks /\ query[task[t].view] \in Query
  BY <1>1, <1>2 DEF TInv, TypeOK, Tabs
<1>5. screen' \in Screen /\ Painted(t) /\ (task[t].view = "apiKeys" => screen'.banner = newRaw)
  <2>1. CASE task[t].view \in {"sessions", "webhooks"} /\ screen' = Table(t)
    BY <1>1, <1>2, <2>1, TableFacts DEF Painted, FilteredHere
  <2>2. CASE task[t].view = "apiKeys" /\ screen' = [Table(t) EXCEPT !.banner = newRaw]
    BY <1>1, <1>2, <1>4, <2>2, TableFacts DEF Painted, FilteredHere, Screen
  <2>3. CASE task[t].view = "roles" /\ screen' = FilteredTable(t)
    <3> DEFINE q == query[task[t].view]
               rows == {i \in task[t].ids : q.filter => i \in Matching}
    <3>1. screen' = [Table(t) EXCEPT !.sent = q, !.rows = rows]
      BY <1>1, <1>2, <2>3, TableFacts DEF FilteredTable, Screen
    <3>2. rows \subseteq task[t].ids
      OBVIOUS
    <3> HIDE DEF rows
    <3>3. DOMAIN Table(t) = ScreenFields /\ ScreenFieldsOK(Table(t))
      BY <1>1, <1>2, TableFacts, ScreenParts
    <3>4. screen' = [x \in ScreenFields |-> screen'[x]]
      BY <3>1, <3>3
    <3>5. task[t].ids \subseteq Items
      BY <1>1, <1>2, TableFacts
    <3>6. ScreenFieldsOK(screen')
      BY <1>4, <3>1, <3>2, <3>3, <3>5 DEF ScreenFieldsOK, ScreenFields
    <3>7. Painted(t)
      BY <1>1, <1>2, <2>3, <3>1, <3>2, <3>3, TableFacts DEF Painted, ScreenFields
    <3>8. QED
      BY <2>3, <3>4, <3>6, <3>7, ScreenMade
  <2>4. QED
    BY <1>1, <2>1, <2>2, <2>3
<1>6. PageOK'
  BY <1>1, <1>2, <1>4, <1>5, PaintedPage, TableFacts
<1>7. QED
  BY <1>1, <1>3, <1>5, <1>6

LEMMA CountTyped == ASSUME NEW S \in SUBSET Items PROVE Cardinality(S) \in Nat /\ IsFiniteSet(S)
<1>1. IsFiniteSet(Items)
  BY ItemAssumption, FS_Union DEF Items
<1>2. QED
  BY <1>1, FS_Subset, FS_CardinalityType

\* A list with a panel is painted, and the panel's rows are asked for.
LEMMA WithPanelFacts ==
    ASSUME TInv, NEW t \in Tasks, NEW what \in Screen, what.view \in WithPanel,
           task[t].view \in WithPanel, task[t].phase \in {"list", "details"},
           task[t].op \notin {"saveUi", "toggleAction"}, PaintsWithPanel(t, what)
    PROVE  /\ Moves(t) /\ screen' \in Screen /\ task'[t].phase \in {"panel", "done"}
           /\ task'[t].ids = task[t].ids /\ task'[t].reply = "none"
           /\ task'[t].result = task[t].result
           /\ screen'.open = openId[what.view] /\ screen'.state = what.state
           /\ screen'.view = what.view /\ screen'.by = what.by /\ screen'.sent = what.sent
           /\ screen'.label = what.label /\ screen'.rows = what.rows
           /\ screen'.checked = what.checked /\ screen'.count = what.count
           /\ screen'.editor = what.editor /\ screen'.files = what.files
           /\ screen'.banner = what.banner
           /\ UNCHANGED <<nav, rest, latest>>
<1> DEFINE open == openId[what.view]
<1>1. PICK p \in {"panel", "done"}, panel \in {"none", "loading"} :
        /\ screen' = [what EXCEPT !.open = open, !.panel = panel]
        /\ task' = [task EXCEPT ![t] = [@ EXCEPT !.phase = p, !.reply = "none", !.by = t]]
  BY DEF PaintsWithPanel
<1>2. UNCHANGED <<nav, rest, latest>>
  BY DEF PaintsWithPanel
<1> DEFINE r == [task[t] EXCEPT !.phase = p, !.reply = "none", !.by = t]
<1>3. DOMAIN task[t] = TaskFields /\ TaskFieldsOK(task[t]) /\ Sort(task[t])
  BY TaskOf, TaskParts DEF SortOK
<1>4. r = [x \in TaskFields |-> r[x]]
  BY <1>3
<1>5. TaskFieldsOK(r)
  BY <1>3 DEF TaskFieldsOK, TaskFields, Phases
<1>6. /\ Continues(task[t], r) /\ r.phase = p /\ r.reply = "none" /\ r.ids = task[t].ids
      /\ r.result = task[t].result
  BY <1>3 DEF TaskFields, Continues
<1>7. r \in Task
  BY <1>4, <1>5, TaskMade
<1>8. task' = [task EXCEPT ![t] = r] /\ task'[t] = r
  BY <1>1, Becomes, TaskTyped
<1> HIDE DEF r
<1>9. Sort(r)
  BY <1>3, <1>6 DEF Sort, Continues, WithPanel
<1>10. open \in Items \cup {None}
  BY DEF TInv, TypeOK
<1> HIDE DEF open
<1>11. DOMAIN what = ScreenFields /\ ScreenFieldsOK(what)
  BY ScreenParts
<1>12. screen' = [x \in ScreenFields |-> screen'[x]]
  BY <1>1, <1>11
<1>13. ScreenFieldsOK(screen')
  BY <1>1, <1>10, <1>11 DEF ScreenFieldsOK, ScreenFields
<1>14. /\ screen'.open = open /\ screen'.state = what.state
       /\ screen'.view = what.view /\ screen'.by = what.by /\ screen'.sent = what.sent
       /\ screen'.label = what.label /\ screen'.rows = what.rows
       /\ screen'.checked = what.checked /\ screen'.count = what.count
       /\ screen'.editor = what.editor /\ screen'.files = what.files
       /\ screen'.banner = what.banner
  BY <1>1, <1>11 DEF ScreenFields
<1>15. screen' \in Screen
  BY <1>12, <1>13, ScreenMade
<1>16. Moves(t)
  BY <1>6, <1>7, <1>8, <1>9, GoOnMoves
<1>17. QED
  BY <1>2, <1>6, <1>8, <1>14, <1>15, <1>16 DEF open


LEMMA ShowUsersMoves ==
    ASSUME TInv, NEW t \in Tasks, ShowUsers(t)
    PROVE  /\ Moves(t) /\ PageOK' /\ Painted(t) /\ task'[t].phase \in {"panel", "done"}
           /\ task'[t].reply = "none" /\ task'[t].result = task[t].result
           /\ task'[t].ids = task[t].ids
           /\ task[t].view = "users" /\ UNCHANGED <<nav, rest, latest>>
           /\ \/ task[t].phase = "details"
              \/ task[t].phase = "list" /\ task[t].reply = "ok"
           /\ screen'.checked = task[t].ids \cap selected /\ screen'.rows = task[t].ids
           /\ screen'.count = Cardinality(selected) /\ screen'.open = openId["users"]
           /\ screen'.sent = task[t].query
<1> DEFINE checked == task[t].ids \cap selected
           all == task[t].ids # {} /\ task[t].ids \subseteq selected
           what == [Table(t) EXCEPT !.checked = checked, !.all = all, !.count = Cardinality(selected)]
<1>1. /\ task[t].view = "users" /\ PaintsWithPanel(t, what)
      /\ \/ task[t].phase = "details"
         \/ task[t].phase = "list" /\ task[t].reply = "ok"
  BY TaskOf DEF ShowUsers, UsersReady, Got, SortOK, Sort
<1>2. /\ task[t].view \in Lists /\ task[t].view \in WithPanel /\ task[t].view \notin FilteredHere
      /\ Cardinality(selected) \in Nat /\ selected \subseteq Items
  BY <1>1, CountTyped DEF Lists, WithPanel, FilteredHere, TInv, TypeOK
<1>3. DOMAIN Table(t) = ScreenFields /\ ScreenFieldsOK(Table(t)) /\ task[t].ids \subseteq Items
  BY <1>1, <1>2, TableFacts, ScreenParts
<1>4. checked \subseteq Items /\ all \in BOOLEAN
  BY <1>3
<1>5. task[t].op \notin {"saveUi", "toggleAction"}
  BY <1>1, TaskOf DEF SortOK, Sort
<1> HIDE DEF checked, all
<1>6. what = [x \in ScreenFields |-> what[x]]
  BY <1>3
<1>7. ScreenFieldsOK(what)
  BY <1>2, <1>3, <1>4 DEF ScreenFieldsOK, ScreenFields
<1>8. what \in Screen
  BY <1>6, <1>7, ScreenMade
<1>9. /\ what.view = "users" /\ what.rows = task[t].ids /\ what.checked = checked
      /\ what.count = Cardinality(selected) /\ what.state = "shown" /\ what.by = t
      /\ what.sent = task[t].query /\ what.label = query[task[t].view]
      /\ what.editor = NoEditor /\ what.files = NoFiles
  BY <1>1, <1>2, <1>3, TableFacts DEF ScreenFields
<1> HIDE DEF what
<1>10. what.view \in WithPanel
  BY <1>1, <1>2, <1>9
<1>11. /\ Moves(t) /\ screen' \in Screen /\ task'[t].phase \in {"panel", "done"}
       /\ task'[t].ids = task[t].ids /\ task'[t].reply = "none"
       /\ task'[t].result = task[t].result
       /\ screen'.open = openId["users"] /\ screen'.state = "shown"
       /\ screen'.view = "users" /\ screen'.by = t /\ screen'.sent = task[t].query
       /\ screen'.label = query[task[t].view] /\ screen'.rows = task[t].ids
       /\ screen'.checked = checked /\ screen'.count = Cardinality(selected)
       /\ screen'.editor = NoEditor /\ screen'.files = NoFiles
       /\ UNCHANGED <<nav, rest, latest>>
  BY <1>1, <1>2, <1>5, <1>8, <1>9, <1>10, WithPanelFacts
<1>12. Painted(t)
  BY <1>1, <1>2, <1>11 DEF Painted
<1>13. PageOK'
  <2>1. newRaw' \in Tasks \cup {None} /\ seen' \subseteq Tasks /\ UNCHANGED <<nav, latest, templates>>
    BY <1>11 DEF rest, TInv, TypeOK
  <2>2. QED
    BY <1>2, <1>3, <1>11, <1>12, <2>1, PaintedPage
<1>14. QED
  BY <1>1, <1>11, <1>12, <1>13 DEF checked

LEMMA ShowTenantsMoves ==
    ASSUME TInv, NEW t \in Tasks, ShowTenants(t)
    PROVE  /\ Moves(t) /\ PageOK' /\ Painted(t) /\ task'[t].phase \in {"panel", "done"}
           /\ task'[t].reply = "none" /\ task'[t].result = task[t].result
           /\ task'[t].ids = task[t].ids
           /\ task[t].view = "tenants" /\ UNCHANGED <<nav, rest, latest>>
           /\ task[t].phase = "list" /\ task[t].reply = "ok" /\ screen'.open = openId["tenants"]
<1> DEFINE q == query[task[t].view]
           rows == {i \in task[t].ids : q.filter => i \in Matching}
           what == [Table(t) EXCEPT !.sent = q, !.rows = rows]
<1>1. /\ task[t].view = "tenants" /\ PaintsWithPanel(t, FilteredTable(t))
      /\ task[t].phase = "list" /\ task[t].reply = "ok"
  BY DEF ShowTenants, Got
<1>2. /\ task[t].view \in Lists /\ task[t].view \in WithPanel /\ q \in Query
  BY <1>1 DEF Lists, WithPanel, TInv, TypeOK, Tabs
<1>3. DOMAIN Table(t) = ScreenFields /\ ScreenFieldsOK(Table(t)) /\ task[t].ids \subseteq Items
  BY <1>1, <1>2, TableFacts, ScreenParts
<1>4. rows \subseteq task[t].ids /\ rows \subseteq Items
  BY <1>3
<1>5. task[t].op \notin {"saveUi", "toggleAction"}
  BY <1>1, TaskOf DEF SortOK, Sort
<1>6. FilteredTable(t) = what
  BY <1>1, <1>2, TableFacts DEF FilteredTable, Screen
<1> HIDE DEF rows
<1>7. what = [x \in ScreenFields |-> what[x]]
  BY <1>3
<1>8. ScreenFieldsOK(what)
  BY <1>2, <1>3, <1>4 DEF ScreenFieldsOK, ScreenFields
<1>9. what \in Screen
  BY <1>7, <1>8, ScreenMade
<1>10. /\ what.view = "tenants" /\ what.rows = rows /\ what.state = "shown" /\ what.by = t
       /\ what.sent = q /\ what.label = q /\ what.editor = NoEditor /\ what.files = NoFiles
  BY <1>1, <1>2, <1>3, TableFacts DEF ScreenFields
<1>11. PaintsWithPanel(t, what)
  BY <1>1, <1>6
<1> HIDE DEF what, q
<1>12. what.view \in WithPanel
  BY <1>1, <1>2, <1>10
<1>13. /\ Moves(t) /\ screen' \in Screen /\ task'[t].phase \in {"panel", "done"}
       /\ task'[t].ids = task[t].ids /\ task'[t].reply = "none"
       /\ task'[t].result = task[t].result
       /\ screen'.open = openId["tenants"] /\ screen'.state = "shown"
       /\ screen'.view = "tenants" /\ screen'.by = t /\ screen'.sent = q
       /\ screen'.label = q /\ screen'.rows = rows
       /\ screen'.editor = NoEditor /\ screen'.files = NoFiles
       /\ UNCHANGED <<nav, rest, latest>>
  BY <1>1, <1>2, <1>5, <1>9, <1>10, <1>11, <1>12, WithPanelFacts
<1>14. Painted(t)
  BY <1>1, <1>4, <1>13 DEF Painted, q
<1>15. PageOK'
  <2>1. newRaw' \in Tasks \cup {None} /\ seen' \subseteq Tasks /\ UNCHANGED <<nav, latest, templates>>
    BY <1>13 DEF rest, TInv, TypeOK
  <2>2. QED
    BY <1>2, <1>3, <1>13, <1>14, <2>1, PaintedPage
<1>16. QED
  BY <1>1, <1>13, <1>14, <1>15

LEMMA ListFailedMoves ==
    ASSUME TInv, NEW t \in Tasks, ListFailed(t)
    PROVE  /\ Moves(t) /\ PageOK' /\ task'[t].phase = "done" /\ task'[t].ids = {}
           /\ task'[t].reply = "none" /\ task'[t].result = task[t].result
           /\ task[t].phase = "list" /\ UNCHANGED <<nav, rest, latest>>
           /\ screen'.state = "error" /\ screen'.view = task[t].view /\ screen'.by = t
           /\ screen'.editor = NoEditor /\ screen'.files = NoFiles /\ screen'.rows = {}
<1> HIDE DEF Blank
<1>1. /\ task[t].phase = "list" /\ Ends(t) /\ UNCHANGED <<nav, rest, latest>>
      /\ screen' = [Blank EXCEPT !.state = "error", !.view = task[t].view, !.by = t]
  BY DEF ListFailed, Got
<1>2. task[t].view \in Tabs
  BY <1>1, TaskOf DEF SortOK, Sort
<1>3. /\ Moves(t) /\ task'[t].phase = "done" /\ task'[t].ids = {} /\ task'[t].reply = "none"
      /\ task'[t].result = task[t].result
  BY <1>1, EndsMoves
<1>4. screen' = [x \in ScreenFields |-> screen'[x]]
  BY <1>1, BlankFacts
<1>5. ScreenFieldsOK(screen')
  BY <1>1, <1>2, BlankFacts DEF ScreenFieldsOK, ScreenFields
<1>6. /\ screen'.state = "error" /\ screen'.view = task[t].view /\ screen'.by = t
      /\ screen'.editor = NoEditor /\ screen'.files = NoFiles /\ screen'.rows = {}
  BY <1>1, BlankFacts DEF ScreenFields
<1>7. screen' \in Screen
  BY <1>4, <1>5, ScreenMade
<1>8. PageOK'
  <2>1. /\ newRaw' \in Tasks \cup {None} /\ seen' \subseteq Tasks /\ UNCHANGED <<nav, latest>>
        /\ templates' \in [type : Types, selectedId : Templates \cup {None},
                           cache : [Types -> Contents]]
    BY <1>1 DEF rest, TInv, TypeOK
  <2>2. QED
    BY <1>2, <1>6, <1>7, <2>1, SmallFacts, NewScreen
<1>9. QED
  BY <1>1, <1>3, <1>6, <1>8

LEMMA AskDetailsMoves ==
    ASSUME TInv, NEW t \in Tasks, AskDetails(t)
    PROVE  /\ Moves(t) /\ PageOK' /\ UNCHANGED page /\ task'[t].phase = "details"
           /\ task'[t].ids = task[t].ids /\ task'[t].query = task[t].query
           /\ task'[t].result = task[t].result
           /\ task[t].phase = "list" /\ task[t].reply = "ok" /\ task[t].view = "users"
<1> DEFINE more == HasMore(t)
           r == [task[t] EXCEPT !.phase = "details", !.more = more]
<1>1. /\ task[t].phase = "list" /\ task[t].reply = "ok" /\ task[t].view = "users"
      /\ UNCHANGED page /\ task' = [task EXCEPT ![t].phase = "details", ![t].more = more]
  BY DEF AskDetails, Got
<1>2. DOMAIN task[t] = TaskFields /\ TaskFieldsOK(task[t]) /\ Sort(task[t])
  BY TaskOf, TaskParts DEF SortOK
<1>3. more \in BOOLEAN
  <2>1. query[task[t].view] \in Query
    BY <1>1 DEF TInv, TypeOK, Tabs, Lists
  <2>2. QED
    BY <1>2, <2>1, PageAssumption DEF HasMore, TaskFieldsOK, Query
<1> HIDE DEF more
<1>4. r = [x \in TaskFields |-> r[x]]
  BY <1>2
<1>5. TaskFieldsOK(r)
  BY <1>2, <1>3 DEF TaskFieldsOK, TaskFields, Phases
<1>6. r \in Task
  BY <1>4, <1>5, TaskMade
<1>7. /\ Continues(task[t], r) /\ r.phase = "details" /\ r.ids = task[t].ids
      /\ r.query = task[t].query /\ r.result = task[t].result
  BY <1>2 DEF TaskFields, Continues
<1>8. task' = [task EXCEPT ![t] = r] /\ task'[t] = r
  BY <1>1, Becomes, TaskTyped
<1> HIDE DEF r
<1>9. Sort(r)
  BY <1>1, <1>2, <1>7 DEF Sort, Continues
<1>10. QED
  BY <1>1, <1>6, <1>7, <1>8, <1>9, GoOnMoves, SamePage

LEMMA PanelLoadedMoves ==
    ASSUME TInv, NEW t \in Tasks, PanelLoaded(t)
    PROVE  /\ Moves(t) /\ PageOK' /\ ScreenKept /\ screen'.editor = screen.editor
           /\ screen'.files = screen.files /\ UNCHANGED <<nav, rest, latest>>
           /\ task[t].phase = "panel" /\ task'[t].phase = "done" /\ task'[t].ids = {}
           /\ task'[t].reply = "none" /\ task'[t].result = task[t].result
<1>1. /\ task[t].phase = "panel" /\ Ends(t) /\ UNCHANGED <<nav, rest, latest>>
      /\ screen' \in {screen, [screen EXCEPT !.panel = "shown"]}
  BY DEF PanelLoaded
<1>2. screen \in Screen
  BY DEF TInv, TypeOK
<1>3. /\ screen' \in Screen /\ ScreenKept
      /\ screen'.editor = screen.editor /\ screen'.files = screen.files
  BY <1>1, <1>2 DEF Screen, ScreenKept, ScreenStays
<1>4. PageOK'
  BY <1>1, <1>3, InPlace DEF ScreenKept, nav, TInv, TypeOK
<1>5. QED
  BY <1>1, <1>3, <1>4, EndsMoves

LEMMA ShowControlMoves ==
    ASSUME TInv, NEW t \in Tasks, ShowControl(t)
    PROVE  /\ Moves(t) /\ PageOK' /\ task'[t].phase = "done" /\ task'[t].ids = {}
           /\ task'[t].reply = "none" /\ task'[t].result = task[t].result
           /\ task[t].phase = "list" /\ task[t].view = "control"
           /\ screen'.state = "shown" /\ screen'.view = "control" /\ screen'.by = t
           /\ screen'.editor = NoEditor /\ screen'.files = NoFiles
           /\ UNCHANGED <<nav, rest, latest>>
<1> HIDE DEF Blank
<1>1. PICK rows \in {Actions, {}} :
        /\ task[t].phase = "list" /\ task[t].reply = "ok" /\ task[t].view = "control" /\ Ends(t)
        /\ screen' = [Blank EXCEPT !.state = "shown", !.view = "control", !.by = t, !.rows = rows,
                                   !.checked = rows \cap task[t].ids, !.required = task[t].more,
                                   !.logo = task[t].text]
        /\ UNCHANGED <<nav, rest, latest>>
  BY DEF ShowControl, Got, Paints, rest
<1>2. TaskFieldsOK(task[t]) /\ Sort(task[t])
  BY TaskOf, TaskParts DEF SortOK
<1>3. task[t].text \in Items \cup {None} /\ task[t].more \in BOOLEAN /\ "control" \in Tabs
  BY <1>1, <1>2 DEF Sort, TaskFieldsOK, Tabs
<1>4. /\ Moves(t) /\ task'[t].phase = "done" /\ task'[t].ids = {} /\ task'[t].reply = "none"
      /\ task'[t].result = task[t].result
  BY <1>1, EndsMoves
<1>5. screen' = [x \in ScreenFields |-> screen'[x]]
  BY <1>1, BlankFacts
<1>6. rows \subseteq Actions
  OBVIOUS
<1>7. ScreenFieldsOK(screen')
  BY <1>1, <1>3, <1>6, BlankFacts DEF ScreenFieldsOK, ScreenFields
<1>8. /\ screen'.state = "shown" /\ screen'.view = "control" /\ screen'.by = t
      /\ screen'.editor = NoEditor /\ screen'.files = NoFiles /\ screen'.rows = rows
      /\ screen'.label = NoQuery
  BY <1>1, BlankFacts DEF ScreenFields
<1>9. screen' \in Screen
  BY <1>5, <1>7, ScreenMade
<1>10. PageOK'
  <2>1. /\ newRaw' \in Tasks \cup {None} /\ seen' \subseteq Tasks /\ UNCHANGED <<nav, latest>>
        /\ templates' \in [type : Types, selectedId : Templates \cup {None},
                           cache : [Types -> Contents]]
        /\ query["control"] = NoQuery
    BY <1>1 DEF rest, TInv, TypeOK, ScreenOK
  <2>2. QED
    BY <1>3, <1>6, <1>8, <1>9, <2>1, SmallFacts, NewScreen
<1>11. QED
  BY <1>1, <1>4, <1>8, <1>10

\* The editor of an item.
LEMMA MountedFacts ==
    ASSUME TInv, NEW i \in Templates, NEW painter,
           NEW copies \in [type : Types, selectedId : Templates \cup {None}, cache : [Types -> Contents]]
    PROVE  /\ Mounted(i, copies, painter) \in Editor
           /\ Mounted(i, copies, painter).item = i
           /\ Mounted(i, copies, painter).base = copies.cache[copies.type][i]
           /\ Mounted(i, copies, painter).quiet = (painter = latest["templates"])
<1>1. copies.cache[copies.type][i] \in Versions \cup {None}
  BY DEF Contents
<1>2. QED
  BY <1>1 DEF Mounted, Editor

LEMMA ShowTemplatesMoves ==
    ASSUME TInv, NEW t \in Tasks, ShowTemplates(t)
    PROVE  /\ Moves(t) /\ PageOK' /\ task'[t].phase = "done" /\ task'[t].ids = {}
           /\ task'[t].reply = "none" /\ task'[t].result = task[t].result
           /\ task[t].phase = "list" /\ task[t].view = "templates" /\ task[t].reply = "ok"
           /\ templates' = [templates EXCEPT !.cache[task[t].asked] = task[t].list]
           /\ screen'.state = "shown" /\ screen'.view = "templates" /\ screen'.by = t
           /\ screen'.files = NoFiles
           /\ screen'.editor = (IF templates.selectedId = None THEN NoEditor
                                ELSE Mounted(templates.selectedId, templates', t))
           /\ UNCHANGED <<nav, newRaw, seen, latest>>
<1> HIDE DEF Blank
<1> DEFINE editor == IF templates.selectedId = None THEN NoEditor
                     ELSE Mounted(templates.selectedId, templates', t)
<1>1. /\ task[t].phase = "list" /\ task[t].reply = "ok" /\ task[t].view = "templates" /\ Ends(t)
      /\ templates' = [templates EXCEPT !.cache[task[t].asked] = task[t].list]
      /\ screen' = [Blank EXCEPT !.state = "shown", !.view = "templates", !.by = t,
                                 !.editor = editor]
      /\ UNCHANGED <<nav, newRaw, seen, latest>>
  BY DEF ShowTemplates, Got
<1>2. TaskFieldsOK(task[t]) /\ "templates" \in Tabs
  BY TaskOf, TaskParts DEF Tabs
<1>3. templates' \in [type : Types, selectedId : Templates \cup {None}, cache : [Types -> Contents]]
  BY <1>1, <1>2 DEF TInv, TypeOK, TaskFieldsOK
<1>4. /\ Moves(t) /\ task'[t].phase = "done" /\ task'[t].ids = {} /\ task'[t].reply = "none"
      /\ task'[t].result = task[t].result
  BY <1>1, EndsMoves
<1>5. editor \in Editor
  <2>1. CASE templates.selectedId = None
    BY <2>1, SmallFacts
  <2>2. CASE templates.selectedId # None
    <3>1. templates.selectedId \in Templates
      BY <2>2 DEF TInv, TypeOK
    <3>2. QED
      BY <1>3, <2>2, <3>1, MountedFacts
  <2>3. QED
    BY <2>1, <2>2
<1> HIDE DEF editor
<1>6. screen' = [x \in ScreenFields |-> screen'[x]]
  BY <1>1, BlankFacts
<1>7. ScreenFieldsOK(screen')
  BY <1>1, <1>2, <1>5, BlankFacts DEF ScreenFieldsOK, ScreenFields
<1>8. /\ screen'.state = "shown" /\ screen'.view = "templates" /\ screen'.by = t
      /\ screen'.editor = editor /\ screen'.files = NoFiles /\ screen'.rows = {}
      /\ screen'.label = NoQuery
  BY <1>1, BlankFacts DEF ScreenFields
<1>9. screen' \in Screen
  BY <1>6, <1>7, ScreenMade
<1>10. PageOK'
  <2>1. /\ newRaw' \in Tasks \cup {None} /\ seen' \subseteq Tasks /\ UNCHANGED <<nav, latest>>
        /\ query["templates"] = NoQuery
    BY <1>1 DEF TInv, TypeOK, ScreenOK
  <2>2. QED
    BY <1>2, <1>3, <1>8, <1>9, <2>1, SmallFacts, NewScreen
<1>11. QED
  BY <1>1, <1>4, <1>8, <1>10 DEF editor

-----------------------------------------------------------------------------
(* Clicks that render at once, and clicks that need no task *)

\* Begun with nothing done and nothing to delete.
Fresh(t, op, view) == /\ task[t].phase = "idle" /\ task'[t].op = op /\ task'[t].view = view
                      /\ task'[t].result = "none" /\ task'[t].removed = {}

LEMMA OpeningMoves ==
    ASSUME TInv, NEW t \in Tasks, NEW view \in Tabs,
           NEW op \in {"show", "page", "filter", "open", "selectAll", "clear", "dismiss", "setType"},
           Opens(t, op, view), tab' \in Tabs, query' \in [Tabs -> Query],
           openId' \in [WithPanel -> Items \cup {None}], selected' \subseteq Items,
           newRaw' \in Tasks \cup {None}, seen' \subseteq Tasks,
           templates' \in [type : Types, selectedId : Templates \cup {None},
                           cache : [Types -> Contents]],
           query'["control"] = NoQuery, query'["templates"] = NoQuery
    PROVE  Moves(t) /\ PageOK' /\ Rendered(t) /\ Fresh(t, op, view)
<1>1. Renders(t, New(op, view), view) /\ op \in Operations /\ task[t].phase = "idle"
  BY DEF Opens, Allowed, Operations
<1>2. /\ New(op, view) \in Task /\ New(op, view).op = op /\ New(op, view).result = "none"
      /\ New(op, view).removed = {} /\ templates'.type \in Types
  BY <1>1, NewFacts
<1>3. /\ task'[t].phase = "list" /\ task'[t].view = view /\ task'[t].ids = {}
      /\ task'[t].reply = "none" /\ task'[t].query = query'[view]
      /\ task'[t].asked = templates'.type /\ task'[t].op = op
      /\ task'[t].removed = {} /\ task'[t].result = "none"
  BY <1>1, <1>2, RendersFacts
<1>4. /\ screen' \in Screen /\ ScreenOK' /\ latest' \in [Tabs -> Tasks \cup {None}]
      /\ screen'.state = "loading" /\ screen'.view = view /\ screen'.by = t
      /\ screen'.editor = NoEditor /\ screen'.files = NoFiles /\ latest'[view] = t
      /\ screen'.rows = {} /\ \A v \in Tabs \ {view} : latest'[v] = latest[v]
  BY <1>1, <1>2, RendersScreen
<1>5. Moves(t)
  BY <1>2, OpensMoves
<1>6. PageOK'
  BY <1>4 DEF PageOK
<1>7. QED
  BY <1>1, <1>3, <1>4, <1>5, <1>6 DEF Rendered, Fresh

\* The tab, the queries, the rows and the selection that a click on them changes.
LEMMA NavigationMoves ==
    ASSUME TInv, NEW t \in Tasks,
           \/ ShowTab(t) \/ TurnPage(t) \/ TypeFilter(t) \/ TogglePanel(t)
           \/ ToggleSelectAll(t) \/ ClearSelection(t)
    PROVE  /\ Moves(t) /\ PageOK' /\ UNCHANGED rest
           /\ \E view \in Tabs, op \in {"show", "page", "filter", "open", "selectAll", "clear"} :
                /\ Rendered(t) /\ Fresh(t, op, view)
                /\ IF op = "show" THEN tab' = view ELSE tab' = tab /\ OnScreen(view)
                /\ \A v \in Tabs \ {view} : query'[v] = query[v]
<1>1. PICK view \in Tabs, op \in {"show", "page", "filter", "open", "selectAll", "clear"} :
        /\ Opens(t, op, view) /\ UNCHANGED rest
        /\ IF op = "show" THEN tab' = view ELSE tab' = tab /\ OnScreen(view)
        /\ query' \in [Tabs -> Query] /\ \A v \in Tabs \ {view} : query'[v] = query[v]
        /\ view \in {"control", "templates"} => query' = query
        /\ openId' \in [WithPanel -> Items \cup {None}] /\ selected' \subseteq Items
  <2>0. /\ tab \in Tabs /\ query \in [Tabs -> Query] /\ screen \in Screen
        /\ openId \in [WithPanel -> Items \cup {None}] /\ selected \subseteq Items
        /\ workload \in Workloads
    BY DEF TInv, TypeOK
  <2>1. CASE ShowTab(t)
    <3>1. PICK view \in workload.tabs :
            /\ tab' = view /\ UNCHANGED <<query, openId, selected, rest>> /\ Opens(t, "show", view)
      BY <2>1 DEF ShowTab
    <3>2. view \in Tabs
      BY <2>0, <3>1, WorkloadAssumption DEF Workload
    <3>3. QED
      BY <2>0, <3>1, <3>2
  <2>2. CASE TurnPage(t)
    <3>1. PICK view \in Paged, step \in {-1, 1} :
            /\ OnScreen(view) /\ IF step = 1 THEN screen.more ELSE screen.label.page > 0
            /\ query' = [query EXCEPT ![view].page = @ + step]
            /\ UNCHANGED <<tab, openId, selected, rest>> /\ Opens(t, "page", view)
      BY <2>2 DEF TurnPage
    <3>2. view \in Tabs /\ view \notin {"control", "templates"}
      BY DEF Paged, Tabs, Lists
    <3>3. query[view] \in Query /\ screen.label = query[view]
      BY <2>0, <3>1, <3>2 DEF TInv, ScreenOK, OnScreen
    <3>4. query[view].page + step \in Nat
      BY <3>1, <3>3 DEF Query
    <3>5. [query[view] EXCEPT !.page = @ + step] \in Query
      BY <3>3, <3>4 DEF Query
    <3>6. query' \in [Tabs -> Query] /\ \A v \in Tabs \ {view} : query'[v] = query[v]
      BY <2>0, <3>1, <3>2, <3>5
    <3>7. QED
      BY <2>0, <3>1, <3>2, <3>6
  <2>3. CASE TypeFilter(t)
    <3>1. PICK view \in Filtered :
            /\ OnScreen(view)
            /\ query' = [query EXCEPT ![view] = [page |-> 0, filter |-> ~@.filter]]
            /\ selected' = IF view = "users" THEN {} ELSE selected
            /\ UNCHANGED <<tab, openId, rest>> /\ Opens(t, "filter", view)
      BY <2>3 DEF TypeFilter
    <3>2. view \in Tabs /\ view \notin {"control", "templates"}
      BY DEF Filtered, FilteredHere, Tabs, Lists
    <3>3. [page |-> 0, filter |-> ~query[view].filter] \in Query
      BY DEF Query
    <3>4. query' \in [Tabs -> Query] /\ \A v \in Tabs \ {view} : query'[v] = query[v]
      BY <2>0, <3>1, <3>2, <3>3
    <3>5. QED
      BY <2>0, <3>1, <3>2, <3>4
  <2>4. CASE TogglePanel(t)
    <3>1. PICK view \in WithPanel, i \in screen.rows :
            /\ OnScreen(view)
            /\ openId' = [openId EXCEPT ![view] = IF @ = i THEN None ELSE i]
            /\ UNCHANGED <<tab, query, selected, rest>> /\ Opens(t, "open", view)
      BY <2>4 DEF TogglePanel
    <3>2. view \in Tabs /\ view \notin {"control", "templates"}
      BY DEF WithPanel, Tabs, Lists
    <3>3. i \in Items
      BY <3>1, <3>2 DEF TInv, ScreenOK, OnScreen
    <3>4. QED
      BY <2>0, <3>1, <3>2, <3>3
  <2>5. CASE ToggleSelectAll(t)
    <3>1. /\ OnScreen("users") /\ UNCHANGED <<tab, query, openId, rest>>
          /\ Opens(t, "selectAll", "users")
          /\ selected' \in {selected \ screen.rows, selected \cup screen.rows}
      BY <2>5 DEF ToggleSelectAll
    <3>2. screen.rows \subseteq Items /\ "users" \in Tabs
      BY <3>1 DEF TInv, ScreenOK, OnScreen, Tabs, Lists
    <3>3. QED
      BY <2>0, <3>1, <3>2
  <2>6. CASE ClearSelection(t)
    <3>1. /\ OnScreen("users") /\ UNCHANGED <<tab, query, openId, rest>> /\ selected' = {}
          /\ Opens(t, "clear", "users") /\ "users" \in Tabs
      BY <2>6 DEF ClearSelection, Tabs, Lists
    <3>2. QED
      BY <2>0, <3>1
  <2>7. QED
    BY <2>1, <2>2, <2>3, <2>4, <2>5, <2>6
<1>2. /\ tab' \in Tabs /\ newRaw' \in Tasks \cup {None} /\ seen' \subseteq Tasks
      /\ templates' \in [type : Types, selectedId : Templates \cup {None}, cache : [Types -> Contents]]
  BY <1>1 DEF TInv, TypeOK, rest
<1>3. query'["control"] = NoQuery /\ query'["templates"] = NoQuery
  BY <1>1 DEF TInv, ScreenOK, Tabs
<1>4. QED
  BY <1>1, <1>2, <1>3, OpeningMoves

LEMMA DismissMoves ==
    ASSUME TInv, NEW t \in Tasks, DismissBanner(t)
    PROVE  /\ Moves(t) /\ PageOK' /\ Rendered(t) /\ Fresh(t, "dismiss", "apiKeys")
           /\ OnScreen("apiKeys") /\ screen.banner # None /\ newRaw' = None
           /\ UNCHANGED <<nav, seen, templates>>
<1>1. /\ OnScreen("apiKeys") /\ screen.banner # None /\ newRaw' = None
      /\ UNCHANGED <<nav, seen, templates>> /\ Opens(t, "dismiss", "apiKeys")
  BY DEF DismissBanner
<1>2. /\ tab' \in Tabs /\ query' \in [Tabs -> Query] /\ "apiKeys" \in Tabs
      /\ openId' \in [WithPanel -> Items \cup {None}] /\ selected' \subseteq Items
      /\ newRaw' \in Tasks \cup {None} /\ seen' \subseteq Tasks
      /\ templates' \in [type : Types, selectedId : Templates \cup {None}, cache : [Types -> Contents]]
      /\ query'["control"] = NoQuery /\ query'["templates"] = NoQuery
  BY <1>1 DEF TInv, TypeOK, ScreenOK, nav, Tabs, Lists
<1>3. QED
  BY <1>1, <1>2, OpeningMoves

LEMMA SetTypeMoves ==
    ASSUME TInv, NEW t \in Tasks, SetTemplateType(t)
    PROVE  /\ Moves(t) /\ PageOK' /\ Rendered(t) /\ Fresh(t, "setType", "templates")
           /\ OnScreen("templates") /\ UNCHANGED <<nav, newRaw, seen>>
           /\ templates'.cache = templates.cache
<1>1. PICK kind \in Types :
        /\ OnScreen("templates") /\ UNCHANGED <<nav, newRaw, seen>>
        /\ templates' = [templates EXCEPT !.type = kind, !.selectedId = None]
        /\ Opens(t, "setType", "templates")
  BY DEF SetTemplateType
<1>2. /\ tab' \in Tabs /\ query' \in [Tabs -> Query] /\ "templates" \in Tabs
      /\ openId' \in [WithPanel -> Items \cup {None}] /\ selected' \subseteq Items
      /\ newRaw' \in Tasks \cup {None} /\ seen' \subseteq Tasks
      /\ templates' \in [type : Types, selectedId : Templates \cup {None}, cache : [Types -> Contents]]
      /\ templates'.cache = templates.cache
      /\ query'["control"] = NoQuery /\ query'["templates"] = NoQuery
  BY <1>1 DEF TInv, TypeOK, ScreenOK, nav, Tabs
<1>3. QED
  BY <1>1, <1>2, OpeningMoves

\* A check box of the users view.
LEMMA SelectPage ==
    ASSUME TInv, ToggleSelectUser
    PROVE  /\ PageOK' /\ ScreenStays /\ OnScreen("users") /\ UNCHANGED <<tab, query, openId, rest, task, latest>>
           /\ screen'.editor = screen.editor /\ screen'.files = screen.files
           /\ screen'.count = Cardinality(selected')
           /\ \E i \in screen.rows :
                /\ selected' = IF i \in selected THEN selected \ {i} ELSE selected \cup {i}
                /\ screen'.checked = IF i \in screen.checked THEN screen.checked \ {i}
                                                             ELSE screen.checked \cup {i}
<1>1. PICK i \in screen.rows :
        /\ OnScreen("users") /\ UNCHANGED <<tab, query, openId, rest, task, latest>>
        /\ selected' = IF i \in selected THEN selected \ {i} ELSE selected \cup {i}
        /\ screen' = [screen EXCEPT !.count = Cardinality(selected'),
                                    !.checked = IF i \in @ THEN @ \ {i} ELSE @ \cup {i}]
  BY DEF ToggleSelectUser
<1>2. /\ screen \in Screen /\ screen.rows \subseteq Items /\ selected' \subseteq Items
  BY <1>1 DEF TInv, TypeOK, ScreenOK, OnScreen
<1> DEFINE checked == IF i \in screen.checked THEN screen.checked \ {i} ELSE screen.checked \cup {i}
           count == Cardinality(selected')
<1>3. DOMAIN screen = ScreenFields /\ ScreenFieldsOK(screen) /\ count \in Nat
  BY <1>2, ScreenParts, CountTyped
<1>4. checked \subseteq Items \cup Actions
  BY <1>2, <1>3 DEF ScreenFieldsOK
<1>5. screen' = [screen EXCEPT !.count = count, !.checked = checked]
  BY <1>1, <1>3 DEF ScreenFields
<1> HIDE DEF checked, count
<1>6. screen' = [x \in ScreenFields |-> screen'[x]]
  BY <1>3, <1>5
<1>7. ScreenFieldsOK(screen')
  BY <1>3, <1>4, <1>5 DEF ScreenFieldsOK, ScreenFields
<1>8. /\ ScreenStays /\ screen'.editor = screen.editor /\ screen'.files = screen.files
      /\ screen'.count = count /\ screen'.checked = checked
  BY <1>3, <1>5 DEF ScreenFields, ScreenStays
<1>9. screen' \in Screen
  BY <1>6, <1>7, ScreenMade
<1>10. PageOK'
  BY <1>1, <1>2, <1>8, <1>9, InPlace
<1>11. QED
  BY <1>1, <1>8, <1>10 DEF checked, count

\* Clicks on the drawer and the editor.
LEMMA OtherClicks ==
    ASSUME TInv, OpenWebhookDrawer \/ CloseWebhookDrawer \/ EditTemplate \/ TypeText
    PROVE  /\ PageOK' /\ ScreenKept /\ screen'.files = screen.files
           /\ UNCHANGED <<nav, newRaw, seen, latest, task>>
           /\ \/ /\ screen'.editor.item = screen.editor.item
                 /\ screen'.editor.base = screen.editor.base
                 /\ screen'.editor.quiet = screen.editor.quiet /\ UNCHANGED templates
              \/ /\ OnScreen("templates") /\ templates'.type = templates.type
                 /\ templates'.cache = templates.cache
                 /\ \E i \in Templates : screen'.editor = Mounted(i, templates, screen.by)
<1>1. screen \in Screen /\ screen.editor \in Editor
  BY DEF TInv, TypeOK, Screen
<1>2. CASE OpenWebhookDrawer \/ CloseWebhookDrawer
  <2>1. PICK d \in Items \cup {None, Closed} :
          screen' = [screen EXCEPT !.drawer = d] /\ UNCHANGED <<nav, rest, latest, task>>
    BY <1>2 DEF OpenWebhookDrawer, CloseWebhookDrawer, TInv, ScreenOK, OnScreen
  <2>2. /\ screen' \in Screen /\ ScreenKept
        /\ screen'.editor = screen.editor /\ screen'.files = screen.files
    BY <1>1, <2>1 DEF Screen, ScreenKept, ScreenStays
  <2>3. PageOK'
    BY <2>1, <2>2, InPlace DEF ScreenKept, nav, TInv, TypeOK
  <2>4. QED
    BY <2>1, <2>2, <2>3 DEF rest
<1>3. CASE EditTemplate
  <2>1. PICK i \in Templates :
          /\ OnScreen("templates") /\ templates' = [templates EXCEPT !.selectedId = i]
          /\ screen' = [screen EXCEPT !.editor = Mounted(i, templates, screen.by)]
          /\ UNCHANGED <<nav, newRaw, seen, latest, task>>
    BY <1>3 DEF EditTemplate
  <2>2. templates \in [type : Types, selectedId : Templates \cup {None}, cache : [Types -> Contents]]
    BY DEF TInv, TypeOK
  <2>3. Mounted(i, templates, screen.by) \in Editor
    BY <2>2, MountedFacts
  <2>4. /\ screen' \in Screen /\ ScreenKept /\ screen'.files = screen.files
        /\ screen'.editor = Mounted(i, templates, screen.by)
    BY <1>1, <2>1, <2>3 DEF Screen, ScreenKept, ScreenStays
  <2>5. /\ templates'.type = templates.type /\ templates'.cache = templates.cache
        /\ templates' \in [type : Types, selectedId : Templates \cup {None}, cache : [Types -> Contents]]
    BY <2>1, <2>2
  <2>6. PageOK'
    BY <2>1, <2>4, <2>5
       DEF ScreenKept, ScreenStays, nav, TInv, TypeOK, PageOK, ScreenOK, OnScreen
  <2>7. QED
    BY <2>1, <2>4, <2>5, <2>6
<1>4. CASE TypeText
  <2>1. PICK text \in Versions \cup {None} :
          /\ screen' = [screen EXCEPT !.editor.text = text] /\ UNCHANGED <<nav, rest, latest, task>>
    BY <1>4 DEF TypeText
  <2> DEFINE e == [screen.editor EXCEPT !.text = text]
  <2>2. /\ e \in Editor /\ e.item = screen.editor.item /\ e.base = screen.editor.base
        /\ e.quiet = screen.editor.quiet
    BY <1>1 DEF Editor
  <2>3. screen' = [screen EXCEPT !.editor = e]
    BY <2>1
  <2> HIDE DEF e
  <2>4. screen' \in Screen /\ ScreenKept /\ screen'.editor = e /\ screen'.files = screen.files
    BY <1>1, <2>2, <2>3 DEF Screen, ScreenKept, ScreenStays
  <2>5. PageOK'
    BY <2>1, <2>2, <2>4, InPlace DEF ScreenKept, nav, TInv, TypeOK
  <2>6. QED
    BY <2>1, <2>2, <2>4, <2>5 DEF rest
<1>5. QED
  BY <1>2, <1>3, <1>4

-----------------------------------------------------------------------------
(* Steps of the server *)

ServerOK == /\ stored \in [Lists \cup {"files"} -> SUBSET Items]
            /\ settings \in [enabled : SUBSET Actions, require2FA : BOOLEAN, policy : BOOLEAN,
                             logo : Items \cup {None}]
            /\ content \in [Types -> Contents]

LEMMA SameServer == ASSUME TInv, UNCHANGED server PROVE ServerOK'
BY DEF TInv, TypeOK, ServerOK, server

\* An answer leaves the task where it was.
Waits(t) == /\ task'[t].phase = task[t].phase /\ task'[t].result = task[t].result
            /\ task'[t].query = task[t].query /\ task'[t].asked = task[t].asked

\* A call is answered, and nothing else is told.
LEMMA ReplyFacts ==
    ASSUME TInv, NEW t \in Tasks, NEW reply \in {"ok", "failed"}, NEW r, r = [task[t] EXCEPT !.reply = reply]
    PROVE  /\ r \in Task /\ r.reply = reply /\ Continues(task[t], r) /\ r.phase = task[t].phase
           /\ r.result = task[t].result /\ r.query = task[t].query /\ r.asked = task[t].asked
           /\ r.ids = task[t].ids /\ r.over = task[t].over /\ r.text = task[t].text
           /\ r.list = task[t].list
<1>1. task[t] \in Task
  BY TaskOf
<1>2. QED
  BY <1>1 DEF Task, Continues

LEMMA ReplyMoves ==
    ASSUME TInv, NEW t \in Tasks, NEW reply \in {"ok", "failed"},
           task' = [task EXCEPT ![t].reply = reply], task[t].phase \notin {"idle", "done"},
           ~(reply = "ok" /\ task[t].phase = "list" /\ task[t].view = "control")
    PROVE  /\ Moves(t) /\ Waits(t) /\ task'[t].reply = reply
           /\ task'[t].ids = task[t].ids /\ task'[t].over = task[t].over
           /\ task'[t].list = task[t].list
<1> DEFINE r == [task[t] EXCEPT !.reply = reply]
<1>1. /\ r \in Task /\ r.reply = reply /\ Continues(task[t], r) /\ r.phase = task[t].phase
      /\ r.result = task[t].result /\ r.query = task[t].query /\ r.asked = task[t].asked
      /\ r.ids = task[t].ids /\ r.over = task[t].over /\ r.text = task[t].text
      /\ r.list = task[t].list
  BY ReplyFacts
<1>2. task' = [task EXCEPT ![t] = r] /\ task'[t] = r
  BY Becomes, TaskTyped
<1> HIDE DEF r
<1>3. Sort(r)
  BY <1>1, TaskOf DEF Sort, SortOK, Continues
<1>4. QED
  BY <1>1, <1>2, <1>3, GoOnMoves DEF Waits

\* One of the deletions of a selection is answered.
LEMMA ServeDeleteSelectedMoves ==
    ASSUME TInv, NEW t \in Tasks, ServeDeleteSelected(t)
    PROVE  /\ Moves(t) /\ ServerOK' /\ Waits(t) /\ UNCHANGED <<settings, content>>
           /\ task[t].op = "deleteSelected" /\ task[t].phase # "idle"
           /\ \E i \in task[t].ids :
                /\ task'[t].ids = task[t].ids \ {i}
                /\ stored' = [stored EXCEPT !["users"] = @ \ {i}] \/ UNCHANGED stored
                /\ \/ /\ task'[t].reply = task[t].reply
                      /\ task[t].phase = "call" => stored' = [stored EXCEPT !["users"] = @ \ {i}]
                   \/ task[t].phase = "call" /\ task'[t].reply = "failed"
           /\ task[t].phase = "call" \/ task[t].result = "failed"
<1>0. /\ task[t].op = "deleteSelected" /\ UNCHANGED <<settings, content>>
      /\ task[t].phase = "call" \/ task[t].result = "failed"
  BY DEF ServeDeleteSelected
<1>1. PICK i \in task[t].ids, reply \in {task[t].reply, "failed"} :
        /\ reply = task[t].reply \/ task[t].phase = "call"
        /\ task' = [task EXCEPT ![t] = [@ EXCEPT !.ids = task[t].ids \ {i}, !.reply = reply]]
        /\ \/ stored' = [stored EXCEPT !["users"] = @ \ {i}]
           \/ UNCHANGED stored /\ (task[t].phase = "call" => reply = "failed")
  BY DEF ServeDeleteSelected
<1>2. DOMAIN task[t] = TaskFields /\ TaskFieldsOK(task[t]) /\ Sort(task[t])
  BY TaskOf, TaskParts DEF SortOK
<1> DEFINE r == [task[t] EXCEPT !.ids = task[t].ids \ {i}, !.reply = reply]
<1>3. r = [x \in TaskFields |-> r[x]]
  BY <1>2
<1>4. TaskFieldsOK(r)
  BY <1>2 DEF TaskFieldsOK, TaskFields
<1>5. r \in Task
  BY <1>3, <1>4, TaskMade
<1>6. /\ Continues(task[t], r) /\ r.phase = task[t].phase /\ r.result = task[t].result
      /\ r.query = task[t].query /\ r.asked = task[t].asked
      /\ r.ids = task[t].ids \ {i} /\ r.reply = reply
  BY <1>2 DEF TaskFields, Continues
<1>7. task' = [task EXCEPT ![t] = r] /\ task'[t] = r
  BY <1>0, <1>1, Becomes, TaskTyped
<1> HIDE DEF r
<1>8. task[t].phase # "idle" /\ (task[t].phase = "done" => reply = task[t].reply)
  BY <1>0, <1>1, <1>2 DEF Sort
<1>9. Sort(r)
  <2>1. (r.ids \subseteq Items /\ task[t].phase # "list") \/ r.view # "control"
    BY <1>0, <1>1, <1>2, <1>6 DEF Sort, Continues
  <2>2. reply = task[t].reply \/ task[t].phase = "call"
    BY <1>0, <1>1
  <2>3. QED
    BY <1>0, <1>1, <1>2, <1>6, <2>1, <2>2 DEF Sort, Continues
<1>10. Moves(t)
  BY <1>0, <1>1, <1>5, <1>6, <1>7, <1>8, <1>9, Becomes, TaskTyped DEF Moves, Carries, Continues
<1>11. ServerOK'
  BY <1>0, <1>1 DEF ServerOK, TInv, TypeOK
<1>12. QED
  BY <1>0, <1>1, <1>6, <1>7, <1>8, <1>10, <1>11 DEF Waits

\* A call of one item is done or not, and answered.
LEMMA ServeCallMoves ==
    ASSUME TInv, NEW t \in Tasks, ServeCall(t)
    PROVE  /\ Moves(t) /\ ServerOK' /\ Waits(t) /\ UNCHANGED <<settings, content>>
           /\ task[t].op \in {"delete", "create", "change", "member", "saveWebhook", "upload",
                              "deleteFile"}
           /\ task[t].phase = "call" /\ task[t].reply = "none" /\ task'[t].ids = task[t].ids
           /\ \/ Applies(t) /\ task'[t].reply \in {"ok", "failed"}
              \/ UNCHANGED stored /\ task'[t].reply = "failed"
<1>1. PICK reply \in {"ok", "failed"} :
        /\ task[t].op \in {"delete", "create", "change", "member", "saveWebhook", "upload",
                           "deleteFile"}
        /\ task[t].phase = "call" /\ task[t].reply = "none" /\ UNCHANGED <<settings, content>>
        /\ task' = [task EXCEPT ![t].reply = reply]
        /\ Applies(t) \/ (UNCHANGED stored /\ reply = "failed")
  BY DEF ServeCall, Awaits
<1>2. /\ Moves(t) /\ Waits(t) /\ task'[t].reply = reply /\ task'[t].ids = task[t].ids
  BY <1>1, ReplyMoves
<1>3. t \in Items /\ stored \in [Lists \cup {"files"} -> SUBSET Items]
  BY DEF Items, TInv, TypeOK
<1>4. stored' \in [Lists \cup {"files"} -> SUBSET Items]
  <2>1. CASE Applies(t)
    <3>1. PICK v, S :
            /\ stored' = [stored EXCEPT ![v] = S]
            /\ S \in {stored[v] \ {task[t].item}, stored[v] \cup {t}, stored[v]}
      BY <2>1 DEF Applies
    <3>2. CASE v \in Lists \cup {"files"}
      <4>1. S \subseteq Items
        BY <1>3, <3>1, <3>2
      <4>2. QED
        BY <1>3, <3>1, <4>1
    <3>3. CASE v \notin Lists \cup {"files"}
      BY <1>3, <3>1, <3>3
    <3>4. QED
      BY <3>2, <3>3
  <2>2. QED
    BY <1>1, <1>3, <2>1
<1>5. ServerOK'
  BY <1>1, <1>4 DEF ServerOK, TInv, TypeOK
<1>6. QED
  BY <1>1, <1>2, <1>5


\* What an answer brings fits the task.
LEMMA AnswerMoves ==
    ASSUME TInv, NEW t \in Tasks, NEW r, task' = [task EXCEPT ![t] = r],
           task[t].phase \notin {"idle", "done"}, r = [x \in TaskFields |-> r[x]],
           TaskFieldsOK(r), Sort(r), Continues(task[t], r), r.phase = task[t].phase,
           r.result = task[t].result, r.query = task[t].query, r.asked = task[t].asked
    PROVE  Moves(t) /\ Waits(t) /\ task'[t] = r
<1>1. r \in Task
  BY TaskMade
<1>2. task'[t] = r
  BY Becomes
<1>3. QED
  BY <1>1, <1>2, GoOnMoves DEF Waits

LEMMA StoredFinite ==
    ASSUME TInv, NEW v \in Lists \cup {"files"}
    PROVE  stored[v] \subseteq Items /\ IsFiniteSet(stored[v])
<1>1. IsFiniteSet(Items)
  BY ItemAssumption, FS_Union DEF Items
<1>2. stored[v] \subseteq Items
  BY DEF TInv, TypeOK
<1>3. QED
  BY <1>1, <1>2, FS_Subset

LEMMA ServeListMoves ==
    ASSUME TInv, NEW t \in Tasks, ServeList(t)
    PROVE  /\ Moves(t) /\ ServerOK' /\ Waits(t) /\ UNCHANGED server
           /\ task[t].phase = "list" /\ task[t].view \in Lists /\ task'[t].reply = "ok"
           /\ task'[t].ids \subseteq stored[task[t].view]
           /\ task'[t].over = task[t].over
<1>1. task[t].phase = "list" /\ task[t].view \in Lists /\ UNCHANGED server
  BY DEF ServeList, Awaits
<1>2. DOMAIN task[t] = TaskFields /\ TaskFieldsOK(task[t]) /\ Sort(task[t])
  BY TaskOf, TaskParts DEF SortOK
<1> DEFINE v == task[t].view
           found == Found(v, IF v \in FilteredHere THEN NoQuery ELSE task[t].query)
           ids == IF v \in Paged THEN PageOf(found, task[t].query.page) ELSE found
           r == [task[t] EXCEPT !.reply = "ok", !.ids = ids, !.total = Cardinality(found)]
<1>3. ids \subseteq found /\ found \subseteq stored[v]
  BY DEF Found, PageOf
<1>4. stored[v] \subseteq Items /\ IsFiniteSet(stored[v])
  BY <1>1, StoredFinite
<1>5. Cardinality(found) \in Nat
  BY <1>3, <1>4, FS_Subset, FS_CardinalityType
<1>6. task' = [task EXCEPT ![t] = r]
  BY DEF ServeList, TInv, TypeOK
<1> HIDE DEF found, ids
<1>7. r = [x \in TaskFields |-> r[x]]
  BY <1>2
<1>8. TaskFieldsOK(r)
  BY <1>2, <1>3, <1>4, <1>5 DEF TaskFieldsOK, TaskFields
<1>9. /\ Continues(task[t], r) /\ r.phase = task[t].phase /\ r.result = task[t].result
      /\ r.query = task[t].query /\ r.asked = task[t].asked /\ r.ids = ids /\ r.reply = "ok"
      /\ r.over = task[t].over
  BY <1>2 DEF TaskFields, Continues
<1> HIDE DEF r
<1>10. Sort(r)
  BY <1>1, <1>2, <1>3, <1>4, <1>9 DEF Sort, Continues, Lists
<1>11. Moves(t) /\ Waits(t) /\ task'[t] = r
  BY <1>1, <1>6, <1>7, <1>8, <1>9, <1>10, AnswerMoves
<1>12. QED
  BY <1>1, <1>3, <1>9, <1>11, SameServer

LEMMA FailListMoves ==
    ASSUME TInv, NEW t \in Tasks, FailList(t) \/ FailRead(t)
    PROVE  /\ Moves(t) /\ ServerOK' /\ Waits(t) /\ UNCHANGED server
           /\ task[t].phase \in {"list", "read"} /\ task'[t].reply = "failed"
           /\ task'[t].over = task[t].over
<1>1. /\ task[t].phase \in {"list", "read"} /\ UNCHANGED server
      /\ task' = [task EXCEPT ![t].reply = "failed"]
  BY DEF FailList, FailRead, Awaits
<1>2. Moves(t) /\ Waits(t) /\ task'[t].reply = "failed" /\ task'[t].over = task[t].over
  BY <1>1, ReplyMoves
<1>3. QED
  BY <1>1, <1>2, SameServer

LEMMA ServeSettingsMoves ==
    ASSUME TInv, NEW t \in Tasks, ServeSettings(t)
    PROVE  /\ Moves(t) /\ ServerOK' /\ Waits(t) /\ UNCHANGED server
           /\ task[t].reply = "none" /\ task'[t].reply = "ok"
           /\ task[t].phase = "read" \/ (task[t].phase = "list" /\ task[t].view = "control")
           /\ task'[t].ids = settings.enabled /\ task'[t].over = task[t].over
<1> DEFINE r == [task[t] EXCEPT !.reply = "ok", !.ids = settings.enabled,
                                !.more = settings.require2FA, !.text = settings.logo]
<1>1. /\ UNCHANGED server /\ task' = [task EXCEPT ![t] = r] /\ task[t].reply = "none"
      /\ task[t].phase = "read" \/ (task[t].phase = "list" /\ task[t].view = "control")
  BY DEF ServeSettings, TInv, TypeOK
<1>2. DOMAIN task[t] = TaskFields /\ TaskFieldsOK(task[t]) /\ Sort(task[t])
  BY TaskOf, TaskParts DEF SortOK
<1>3. settings.enabled \subseteq Actions /\ settings.require2FA \in BOOLEAN
      /\ settings.logo \in Items \cup {None}
  BY DEF TInv, TypeOK
<1>4. r = [x \in TaskFields |-> r[x]]
  BY <1>2
<1>5. TaskFieldsOK(r)
  BY <1>2, <1>3 DEF TaskFieldsOK, TaskFields
<1>6. /\ Continues(task[t], r) /\ r.phase = task[t].phase /\ r.result = task[t].result
      /\ r.query = task[t].query /\ r.asked = task[t].asked /\ r.ids = settings.enabled
      /\ r.reply = "ok" /\ r.over = task[t].over /\ r.text = settings.logo
  BY <1>2 DEF TaskFields, Continues
<1> HIDE DEF r
<1>7. Sort(r)
  BY <1>1, <1>2, <1>3, <1>6 DEF Sort, Continues
<1>8. Moves(t) /\ Waits(t) /\ task'[t] = r
  BY <1>1, <1>4, <1>5, <1>6, <1>7, AnswerMoves
<1>9. QED
  BY <1>1, <1>6, <1>8, SameServer

LEMMA ServeWriteMoves ==
    ASSUME TInv, NEW t \in Tasks, ServeWrite(t)
    PROVE  /\ Moves(t) /\ ServerOK' /\ Waits(t) /\ UNCHANGED <<stored, content>>
           /\ task[t].op \in {"toggleAction", "updateSetting", "bulk2FA", "saveUi"}
           /\ task[t].phase \in {"call", "policy"} /\ task[t].reply = "none"
           /\ Writes(t) \/ (UNCHANGED settings /\ task'[t].reply = "failed")
           /\ task'[t].over = task[t].over /\ task'[t].ids = task[t].ids
<1>1. PICK reply \in {"ok", "failed"} :
        /\ task[t].op \in {"toggleAction", "updateSetting", "bulk2FA", "saveUi"}
        /\ task[t].phase \in {"call", "policy"} /\ task[t].reply = "none"
        /\ UNCHANGED <<stored, content>>
        /\ task' = [task EXCEPT ![t].reply = reply]
        /\ Writes(t) \/ (UNCHANGED settings /\ reply = "failed")
  BY DEF ServeWrite
<1>2. /\ Moves(t) /\ Waits(t) /\ task'[t].reply = reply /\ task'[t].over = task[t].over
      /\ task'[t].ids = task[t].ids
  BY <1>1, ReplyMoves
<1>3. TaskFieldsOK(task[t]) /\ Sort(task[t])
  BY TaskOf, TaskParts DEF SortOK
<1> DEFINE Settings == [enabled : SUBSET Actions, require2FA : BOOLEAN, policy : BOOLEAN,
                        logo : Items \cup {None}]
<1>4. settings \in Settings
  BY DEF TInv, TypeOK
<1>5. task[t].value \in BOOLEAN /\ (task[t].op = "toggleAction" => task[t].ids \subseteq Actions)
  BY <1>3 DEF TaskFieldsOK, Sort
<1>6. task[t].op = "saveUi" => task[t].text \in Items \cup {None}
  BY <1>1, <1>3 DEF Sort
<1>7. settings' \in Settings
  <2>1. CASE Writes(t)
    <3>1. CASE task[t].op = "toggleAction"
      BY <2>1, <3>1, <1>4, <1>5 DEF Writes
    <3>2. CASE task[t].op # "toggleAction" /\ (task[t].op = "bulk2FA" \/ task[t].phase = "policy")
      <4>1. settings' = [settings EXCEPT !.policy = task[t].value]
        BY <2>1, <3>2, <1>1, <1>3 DEF Writes, Sort
      <4>2. QED
        BY <4>1, <1>4, <1>5
    <3>3. CASE task[t].op = "saveUi" /\ task[t].phase # "policy"
      <4>1. settings' = [settings EXCEPT !.logo = task[t].text]
        BY <2>1, <3>3 DEF Writes
      <4>2. QED
        BY <3>3, <4>1, <1>4, <1>6
    <3>4. CASE task[t].op \notin {"toggleAction", "bulk2FA", "saveUi"} /\ task[t].phase # "policy"
      <4>1. settings' = [settings EXCEPT !.require2FA = task[t].value]
        BY <2>1, <3>4 DEF Writes
      <4>2. QED
        BY <4>1, <1>4, <1>5
    <3>5. QED
      BY <3>1, <3>2, <3>3, <3>4
  <2>2. QED
    BY <1>1, <1>4, <2>1
<1> HIDE DEF Settings
<1>8. ServerOK'
  BY <1>1, <1>7 DEF ServerOK, TInv, TypeOK, Settings
<1>9. QED
  BY <1>1, <1>2, <1>8

LEMMA ServeFilesMoves ==
    ASSUME TInv, NEW t \in Tasks, ServeFiles(t)
    PROVE  /\ Moves(t) /\ ServerOK' /\ Waits(t) /\ UNCHANGED server
           /\ task[t].phase = "files" /\ task[t].reply = "none"
           /\ \/ task'[t].reply = "ok" /\ task'[t].ids = stored["files"]
              \/ task'[t].reply = "failed" /\ task'[t].ids = task[t].ids
           /\ task'[t].over = task[t].over
<1> DEFINE r == [task[t] EXCEPT !.reply = "ok", !.ids = stored["files"]]
<1>1. task[t].phase = "files" /\ task[t].reply = "none" /\ UNCHANGED server
  BY DEF ServeFiles, Awaits
<1>2. DOMAIN task[t] = TaskFields /\ TaskFieldsOK(task[t]) /\ Sort(task[t])
  BY TaskOf, TaskParts DEF SortOK
<1>3. stored["files"] \subseteq Items
  BY StoredFinite
<1>4. CASE task' = [task EXCEPT ![t].reply = "failed"]
  <2>1. Moves(t) /\ Waits(t) /\ task'[t].reply = "failed" /\ task'[t].ids = task[t].ids
        /\ task'[t].over = task[t].over
    BY <1>1, <1>4, ReplyMoves
  <2>2. QED
    BY <1>1, <2>1, SameServer
<1>5. CASE task' = [task EXCEPT ![t] = r]
  <2>1. r = [x \in TaskFields |-> r[x]]
    BY <1>2
  <2>2. TaskFieldsOK(r)
    BY <1>2, <1>3 DEF TaskFieldsOK, TaskFields
  <2>3. /\ Continues(task[t], r) /\ r.phase = task[t].phase /\ r.result = task[t].result
        /\ r.query = task[t].query /\ r.asked = task[t].asked /\ r.ids = stored["files"]
        /\ r.reply = "ok" /\ r.over = task[t].over
    BY <1>2 DEF TaskFields, Continues
  <2> HIDE DEF r
  <2>4. Sort(r)
    BY <1>1, <1>2, <1>3, <2>3 DEF Sort, Continues
  <2>5. Moves(t) /\ Waits(t) /\ task'[t] = r
    BY <1>1, <1>5, <2>1, <2>2, <2>3, <2>4, AnswerMoves
  <2>6. QED
    BY <1>1, <2>3, <2>5, SameServer
<1>6. task' = [task EXCEPT ![t] = r] \/ task' = [task EXCEPT ![t].reply = "failed"]
  BY DEF ServeFiles, TInv, TypeOK
<1>7. QED
  BY <1>4, <1>5, <1>6

LEMMA ServeTemplatesMoves ==
    ASSUME TInv, NEW t \in Tasks, ServeTemplates(t)
    PROVE  /\ Moves(t) /\ ServerOK' /\ Waits(t) /\ UNCHANGED server
           /\ task[t].phase = "list" /\ task[t].view = "templates" /\ task'[t].reply = "ok"
           /\ task'[t].list = content[task[t].asked] /\ task'[t].over = task[t].over
           /\ task'[t].ids = task[t].ids
<1> DEFINE r == [task[t] EXCEPT !.reply = "ok", !.list = content[task[t].asked]]
<1>1. task[t].phase = "list" /\ task[t].view = "templates" /\ UNCHANGED server
  BY DEF ServeTemplates, Awaits
<1>2. DOMAIN task[t] = TaskFields /\ TaskFieldsOK(task[t]) /\ Sort(task[t])
  BY TaskOf, TaskParts DEF SortOK
<1>3. content[task[t].asked] \in Contents
  BY <1>2 DEF TaskFieldsOK, TInv, TypeOK
<1>4. task' = [task EXCEPT ![t] = r]
  BY DEF ServeTemplates, TInv, TypeOK
<1>5. r = [x \in TaskFields |-> r[x]]
  BY <1>2
<1>6. TaskFieldsOK(r)
  BY <1>2, <1>3 DEF TaskFieldsOK, TaskFields
<1>7. /\ Continues(task[t], r) /\ r.phase = task[t].phase /\ r.result = task[t].result
      /\ r.query = task[t].query /\ r.asked = task[t].asked /\ r.ids = task[t].ids
      /\ r.reply = "ok" /\ r.over = task[t].over /\ r.list = content[task[t].asked]
  BY <1>2 DEF TaskFields, Continues
<1> HIDE DEF r
<1>8. Sort(r)
  BY <1>1, <1>2, <1>7 DEF Sort, Continues
<1>9. Moves(t) /\ Waits(t) /\ task'[t] = r
  BY <1>1, <1>4, <1>5, <1>6, <1>7, <1>8, AnswerMoves
<1>10. QED
  BY <1>1, <1>7, <1>9, SameServer

LEMMA ServeSaveMoves ==
    ASSUME TInv, NEW t \in Tasks, ServeSave(t)
    PROVE  /\ Moves(t) /\ ServerOK' /\ Waits(t) /\ UNCHANGED <<stored, settings>>
           /\ task[t].op \in {"save", "reset"} /\ task[t].phase = "call" /\ task[t].reply = "none"
           /\ \/ /\ content' = [content EXCEPT ![task[t].kind][task[t].item] = task[t].text]
                 /\ task'[t].reply \in {"ok", "failed"}
                 /\ task'[t].over = content[task[t].kind][task[t].item]
              \/ UNCHANGED content /\ task'[t].reply = "failed" /\ task'[t].over = task[t].over
           /\ task'[t].ids = task[t].ids
<1>1. /\ task[t].op \in {"save", "reset"} /\ task[t].phase = "call" /\ task[t].reply = "none"
      /\ UNCHANGED <<stored, settings>>
  BY DEF ServeSave, Awaits
<1>2. DOMAIN task[t] = TaskFields /\ TaskFieldsOK(task[t]) /\ Sort(task[t])
  BY TaskOf, TaskParts DEF SortOK
<1>3. /\ task[t].kind \in Types /\ task[t].item \in Templates
      /\ task[t].text \in Versions \cup {None}
  BY <1>1, <1>2 DEF TaskFieldsOK, Sort
<1>4. content \in [Types -> Contents] /\ content[task[t].kind] \in Contents
  BY <1>3 DEF TInv, TypeOK
<1>5. content[task[t].kind][task[t].item] \in Versions \cup {None}
  BY <1>3, <1>4 DEF Contents
<1>6. CASE UNCHANGED content /\ task' = [task EXCEPT ![t].reply = "failed"]
  <2>1. Moves(t) /\ Waits(t) /\ task'[t].reply = "failed" /\ task'[t].over = task[t].over
        /\ task'[t].ids = task[t].ids
    BY <1>1, <1>6, ReplyMoves
  <2>2. ServerOK'
    BY <1>1, <1>6, SameServer DEF server
  <2>3. QED
    BY <1>1, <1>6, <2>1, <2>2
<1>7. ASSUME NEW reply \in {"ok", "failed"},
             content' = [content EXCEPT ![task[t].kind][task[t].item] = task[t].text],
             task' = [task EXCEPT ![t] =
                        [[task[t] EXCEPT !.over = content[task[t].kind][task[t].item]]
                           EXCEPT !.reply = reply]]
      PROVE  /\ Moves(t) /\ ServerOK' /\ Waits(t) /\ task'[t].reply = reply
             /\ task'[t].over = content[task[t].kind][task[t].item]
             /\ task'[t].ids = task[t].ids
  <2> DEFINE r == [[task[t] EXCEPT !.over = content[task[t].kind][task[t].item]]
                     EXCEPT !.reply = reply]
  <2>1. r = [x \in TaskFields |-> r[x]]
    BY <1>2
  <2>2. TaskFieldsOK(r)
    BY <1>2, <1>5 DEF TaskFieldsOK, TaskFields
  <2>3. /\ Continues(task[t], r) /\ r.phase = task[t].phase /\ r.result = task[t].result
        /\ r.query = task[t].query /\ r.asked = task[t].asked /\ r.ids = task[t].ids
        /\ r.reply = reply /\ r.over = content[task[t].kind][task[t].item]
        /\ r.text = task[t].text
    BY <1>2 DEF TaskFields, Continues
  <2>4. task' = [task EXCEPT ![t] = r]
    BY <1>7
  <2> HIDE DEF r
  <2>5. Sort(r)
    BY <1>1, <1>2, <2>3 DEF Sort, Continues
  <2>6. Moves(t) /\ Waits(t) /\ task'[t] = r
    BY <1>1, <2>1, <2>2, <2>3, <2>4, <2>5, AnswerMoves
  <2>7. content' \in [Types -> Contents]
    <3> DEFINE C == [content[task[t].kind] EXCEPT ![task[t].item] = task[t].text]
    <3>1. C \in Contents
      BY <1>3, <1>4 DEF Contents
    <3>2. content' = [content EXCEPT ![task[t].kind] = C]
      BY <1>4, <1>7
    <3> HIDE DEF C
    <3>3. QED
      BY <1>4, <3>1, <3>2
  <2>8. ServerOK'
    BY <1>1, <2>7 DEF ServerOK, TInv, TypeOK
  <2>9. QED
    BY <2>3, <2>6, <2>8
<1>8. \/ UNCHANGED content /\ task' = [task EXCEPT ![t].reply = "failed"]
      \/ \E reply \in {"ok", "failed"} :
            /\ content' = [content EXCEPT ![task[t].kind][task[t].item] = task[t].text]
            /\ task' = [task EXCEPT ![t] =
                          [[task[t] EXCEPT !.over = content[task[t].kind][task[t].item]]
                             EXCEPT !.reply = reply]]
  BY DEF ServeSave
<1>9. QED
  BY <1>1, <1>6, <1>7, <1>8

LEMMA ServeMoves ==
    ASSUME TInv, NEW t \in Tasks, Serve(t)
    PROVE  /\ Moves(t) /\ ServerOK' /\ Waits(t) /\ task[t].phase # "idle"
<1>1. CASE ServeDeleteSelected(t)
  BY <1>1, ServeDeleteSelectedMoves
<1>2. CASE ServeCall(t)
  BY <1>2, ServeCallMoves
<1>3. CASE ServeList(t)
  BY <1>3, ServeListMoves
<1>4. CASE FailList(t) \/ FailRead(t)
  BY <1>4, FailListMoves
<1>5. CASE ServeSettings(t)
  BY <1>5, ServeSettingsMoves
<1>6. CASE ServeWrite(t)
  BY <1>6, ServeWriteMoves
<1>7. CASE ServeFiles(t)
  BY <1>7, ServeFilesMoves
<1>8. CASE ServeTemplates(t)
  BY <1>8, ServeTemplatesMoves
<1>9. CASE ServeSave(t)
  BY <1>9, ServeSaveMoves
<1>10. QED
  BY <1>1, <1>2, <1>3, <1>4, <1>5, <1>6, <1>7, <1>8, <1>9 DEF Serve

-----------------------------------------------------------------------------
(* What a step of the page does to the tab, the screen, the keys and the result *)

\* Where a handler stands before it has its answer.
Asking == {"read", "call", "policy"}

\* A view is painted with the state of now.
Shows(t) ==
    /\ task[t].phase \in {"list", "details"}
    /\ screen'.state = "shown" /\ screen'.view = task[t].view
    /\ task[t].view = "users" => /\ screen'.checked = selected \cap screen'.rows
                                 /\ screen'.count = Cardinality(selected)
    /\ task[t].view \in WithPanel => screen'.open = openId[task[t].view]
    /\ task[t].view = "apiKeys" => screen'.banner = newRaw /\ newRaw \in seen' \cup {None}
    /\ UNCHANGED <<nav, newRaw>>

ScreenShape(t) == \/ screen'.state # "shown"
                  \/ ScreenKept /\ UNCHANGED <<nav, newRaw>> /\ seen \subseteq seen'
                  \/ Shows(t)

\* A tab is chosen, or a button of the view on the screen is pressed.
TabShape(t) ==
    IF task[t].phase = "idle"
      THEN IF task'[t].op = "show" THEN tab' = task'[t].view
                                   ELSE tab' = tab /\ OnScreen(task'[t].view)
      ELSE tab' = tab

KeyShape(t) ==
    \/ /\ newRaw' = newRaw /\ seen \subseteq seen'
       /\ KeyCreated(t)' => task[t].result = "ok" /\ task[t].phase # "idle"
    \/ newRaw' = None /\ seen' = seen /\ OnScreen("apiKeys") /\ task'[t].result = "none"
    \/ newRaw' = t /\ seen' = seen /\ task[t].phase = "call" /\ KeyCreated(t)'

ResultShape(t) ==
    IF task[t].phase = "idle" THEN task'[t].result = "none"
      ELSE IF task'[t].phase \in Asking
        THEN task[t].phase \in Asking /\ task'[t].result = task[t].result
        ELSE task'[t].result = task[t].result \/ task[t].phase \in Asking

Shape(t) == ScreenShape(t) /\ TabShape(t) /\ KeyShape(t) /\ ResultShape(t)

\* A handler that begins with a call, from the view on the screen, which stays.
LEMMA BegunShape ==
    ASSUME TInv, NEW t \in Tasks, task[t].phase = "idle", task'[t].result = "none",
           task'[t].op # "show", OnScreen(task'[t].view), ScreenKept,
           UNCHANGED <<nav, rest>>
    PROVE  Shape(t)
BY DEF Shape, ScreenShape, TabShape, KeyShape, ResultShape, nav, rest, KeyCreated

\* The screen stays when nothing of the page changes.
LEMMA PageKept == ASSUME UNCHANGED page PROVE ScreenKept /\ UNCHANGED <<nav, rest, latest>>
BY DEF page, ScreenKept, ScreenStays

CallStarts(t) ==
    \/ DeleteUser(t) \/ RevokeSession(t) \/ CreateRole(t) \/ DeleteRole(t)
    \/ CreateTenant(t) \/ DeleteTenant(t) \/ CreateApiKey(t) \/ RevokeApiKey(t)
    \/ DeleteApiKey(t) \/ ToggleWebhook(t) \/ DeleteWebhook(t) \/ SaveWebhook(t)
    \/ ChangeUserRole(t) \/ ChangeUserTenant(t) \/ ChangeTenantUser(t) \/ UploadAsset(t)

LEMMA CallStartsFacts ==
    ASSUME TInv, NEW t \in Tasks, CallStarts(t)
    PROVE  \E op \in Operations, view \in Tabs, i \in Items \cup {None} :
             /\ Calls(t, op, view, i)
             /\ \/ op \in {"create", "change", "member"} /\ view \in Lists
                \/ op = "delete" /\ view \in Lists /\ i \in screen.rows
                \/ op = "saveWebhook" /\ view = "webhooks"
                \/ op = "upload" /\ view = "control"
             /\ op \in {"create", "upload"} => i = t
<1>1. screen \in Screen /\ t \in Items
  BY DEF TInv, TypeOK, Items
<1>2. screen.open \in Items \cup {None} /\ screen.drawer \in Items \cup {None, Closed}
  BY <1>1 DEF Screen
<1>3. /\ {"create", "change", "member", "delete", "saveWebhook", "upload"} \subseteq Operations
      /\ Lists \subseteq Tabs /\ "control" \in Tabs
      /\ {"users", "sessions", "roles", "tenants", "apiKeys", "webhooks"} = Lists
  BY DEF Operations, Tabs, Lists
<1>4. ASSUME NEW view \in Lists, NEW i \in screen.rows,
             Calls(t, "delete", view, i) \/ Calls(t, "change", view, i)
      PROVE  i \in Items
  <2>1. OnScreen(view) /\ view # "control"
    BY <1>4 DEF Calls, Lists
  <2>2. QED
    BY <1>4, <2>1 DEF TInv, ScreenOK, OnScreen
<1>5. CASE DeleteUser(t) \/ RevokeSession(t) \/ DeleteRole(t) \/ DeleteTenant(t)
             \/ DeleteApiKey(t) \/ DeleteWebhook(t)
  <2>1. PICK view \in Lists, i \in screen.rows : Calls(t, "delete", view, i)
    BY <1>3, <1>5 DEF DeleteUser, RevokeSession, DeleteRole, DeleteTenant, DeleteApiKey, DeleteWebhook
  <2>2. QED
    BY <1>3, <1>4, <2>1
<1>6. CASE RevokeApiKey(t) \/ ToggleWebhook(t)
  <2>1. PICK view \in Lists, i \in screen.rows : Calls(t, "change", view, i)
    BY <1>3, <1>6 DEF RevokeApiKey, ToggleWebhook
  <2>2. QED
    BY <1>3, <1>4, <2>1
<1>7. CASE CreateRole(t) \/ CreateTenant(t) \/ CreateApiKey(t)
  <2>1. PICK view \in Lists : Calls(t, "create", view, t)
    BY <1>3, <1>7 DEF CreateRole, CreateTenant, CreateApiKey
  <2>2. QED
    BY <1>1, <1>3, <2>1
<1>8. CASE ChangeUserRole(t) \/ ChangeUserTenant(t) \/ ChangeTenantUser(t)
  <2>1. PICK view \in Lists, op \in {"change", "member"} : Calls(t, op, view, screen.open)
    BY <1>3, <1>8 DEF ChangeUserRole, ChangeUserTenant, ChangeTenantUser
  <2>2. QED
    BY <1>2, <1>3, <2>1
<1>9. CASE SaveWebhook(t)
  <2>1. PICK i \in Items \cup {None} : Calls(t, "saveWebhook", "webhooks", i)
    BY <1>1, <1>2, <1>9 DEF SaveWebhook
  <2>2. QED
    BY <1>3, <2>1
<1>10. CASE UploadAsset(t)
  <2>1. Calls(t, "upload", "control", t)
    BY <1>10 DEF UploadAsset
  <2>2. QED
    BY <1>1, <1>3, <2>1
<1>11. QED
  BY <1>5, <1>6, <1>7, <1>8, <1>9, <1>10 DEF CallStarts

LEMMA CallStartsMoves ==
    ASSUME TInv, NEW t \in Tasks, CallStarts(t)
    PROVE  /\ Moves(t) /\ PageOK' /\ Shape(t) /\ UNCHANGED page /\ task[t].phase = "idle"
           /\ OnScreen(task'[t].view) /\ task'[t].phase = "call" /\ task'[t].reply = "none"
           /\ task'[t].result = "none" /\ task'[t].ids = {}
           /\ task'[t].op \in {"create", "change", "member", "delete", "saveWebhook", "upload"}
           /\ task'[t].op # "delete" => task'[t].removed = {}
           /\ task'[t].op = "delete" => /\ task'[t].removed = {task'[t].item}
                                        /\ task'[t].item \in screen.rows /\ task'[t].view \in Lists
           /\ task'[t].op \in {"create", "upload"} => task'[t].item = t
<1>1. PICK op \in Operations, view \in Tabs, i \in Items \cup {None} :
        /\ Calls(t, op, view, i)
        /\ \/ op \in {"create", "change", "member"} /\ view \in Lists
           \/ op = "delete" /\ view \in Lists /\ i \in screen.rows
           \/ op = "saveWebhook" /\ view = "webhooks"
           \/ op = "upload" /\ view = "control"
        /\ op \in {"create", "upload"} => i = t
  BY CallStartsFacts
<1>2. OnScreen(view) /\ task[t].phase = "idle" /\ UNCHANGED page
  BY <1>1 DEF Calls, Allowed
<1>3. op = "delete" => i \in Items
  BY <1>1, <1>2 DEF TInv, ScreenOK, OnScreen, Lists
<1>4. /\ Moves(t) /\ PageOK' /\ task'[t].phase = "call" /\ task'[t].reply = "none"
      /\ task'[t].op = op /\ task'[t].view = view /\ task'[t].item = i
      /\ task'[t].removed = (IF op = "delete" THEN {i} ELSE {})
      /\ task'[t].ids = {} /\ task'[t].result = "none"
  BY <1>1, <1>3, CallsMoves
<1>5. ScreenKept /\ UNCHANGED <<nav, rest, latest>>
  BY <1>2, PageKept
<1>6. Shape(t)
  BY <1>1, <1>2, <1>4, <1>5, BegunShape
<1>7. QED
  BY <1>1, <1>2, <1>4, <1>6

\* The other handlers that begin without a render.
OtherStarts(t) ==
    \/ DeleteSelected(t) \/ ToggleWebhookAction(t) \/ UpdateSetting(t) \/ SetBulk2FA(t)
    \/ ListUploads(t) \/ DeleteUpload(t) \/ SaveUiSettings(t) \/ SaveTemplate(t)
    \/ ResetMailTemplate(t)

LEMMA TextTyped == ASSUME TInv PROVE screen.editor.text \in Versions \cup {None}
BY DEF TInv, TypeOK, Screen, Editor

LEMMA OtherStartsMoves ==
    ASSUME TInv, NEW t \in Tasks, OtherStarts(t)
    PROVE  /\ Moves(t) /\ PageOK' /\ Shape(t) /\ task[t].phase = "idle"
           /\ task'[t].result = "none" /\ UNCHANGED <<nav, rest, latest>> /\ ScreenKept
           /\ screen'.editor = screen.editor /\ OnScreen(task'[t].view)
<1> DEFINE Goal == /\ Moves(t) /\ PageOK' /\ task'[t].op # "show" /\ task[t].phase = "idle"
                   /\ task'[t].result = "none" /\ UNCHANGED <<nav, rest, latest>> /\ ScreenKept
                   /\ screen'.editor = screen.editor /\ OnScreen(task'[t].view)
<1>1. ASSUME DeleteSelected(t) PROVE Goal
  <2>1. OnScreen("users") /\ task[t].phase = "idle" /\ UNCHANGED page
    BY <1>1 DEF DeleteSelected, Allowed
  <2>2. Moves(t) /\ PageOK' /\ task'[t].op = "deleteSelected" /\ task'[t].view = "users"
        /\ task'[t].result = "none"
    BY <1>1, DeleteSelectedMoves
  <2>3. ScreenKept /\ UNCHANGED <<nav, rest, latest>> /\ screen' = screen
    BY <2>1, PageKept DEF page
  <2>4. QED
    BY <2>1, <2>2, <2>3
<1>2. ASSUME ToggleWebhookAction(t) PROVE Goal
  <2>1. /\ Moves(t) /\ PageOK' /\ ScreenKept /\ task'[t].op = "toggleAction"
        /\ task'[t].result = "none" /\ UNCHANGED <<nav, rest, latest>> /\ OnScreen("control")
        /\ screen'.editor = screen.editor
    BY <1>2, ToggleActionMoves
  <2>2. task[t].phase = "idle"
    BY <1>2 DEF ToggleWebhookAction, Allowed
  <2>3. task'[t].view = "control"
    BY <2>1 DEF Moves, Sort
  <2>4. QED
    BY <2>1, <2>2, <2>3
<1>3. ASSUME UpdateSetting(t) PROVE Goal
  <2>1. /\ Moves(t) /\ PageOK' /\ ScreenKept /\ task'[t].op = "updateSetting"
        /\ task'[t].result = "none" /\ UNCHANGED <<nav, rest, latest>> /\ OnScreen("control")
        /\ screen'.editor = screen.editor
    BY <1>3, UpdateSettingMoves
  <2>2. task[t].phase = "idle"
    BY <1>3 DEF UpdateSetting, Allowed
  <2>3. task'[t].view = "control"
    BY <2>1 DEF Moves, Sort
  <2>4. QED
    BY <2>1, <2>2, <2>3
<1>4. ASSUME SetBulk2FA(t) PROVE Goal
  <2>1. /\ Moves(t) /\ PageOK' /\ UNCHANGED page /\ task'[t].op = "bulk2FA"
        /\ task'[t].view = "users" /\ OnScreen("users") /\ task'[t].result = "none"
    BY <1>4, SetBulk2FAMoves
  <2>2. task[t].phase = "idle"
    BY <1>4 DEF SetBulk2FA, Allowed
  <2>3. ScreenKept /\ UNCHANGED <<nav, rest, latest>> /\ screen' = screen
    BY <2>1, PageKept DEF page
  <2>4. QED
    BY <2>1, <2>2, <2>3
<1>5. ASSUME ListUploads(t) PROVE Goal
  <2>1. /\ Moves(t) /\ PageOK' /\ ScreenKept /\ screen'.editor = screen.editor
        /\ task'[t].op = "files" /\ task'[t].view = "control" /\ task'[t].result = "none"
        /\ OnScreen("control") /\ UNCHANGED <<nav, rest, latest>>
    BY <1>5, ListUploadsMoves
  <2>2. task[t].phase = "idle"
    BY <1>5 DEF ListUploads, Allowed
  <2>3. QED
    BY <2>1, <2>2
<1>6. ASSUME DeleteUpload(t) PROVE Goal
  <2>1. /\ Moves(t) /\ PageOK' /\ UNCHANGED page /\ task'[t].op = "deleteFile"
        /\ task'[t].view = "control" /\ OnScreen("control") /\ task'[t].result = "none"
    BY <1>6, DeleteUploadMoves
  <2>2. task[t].phase = "idle"
    BY <1>6 DEF DeleteUpload, Allowed
  <2>3. ScreenKept /\ UNCHANGED <<nav, rest, latest>> /\ screen' = screen
    BY <2>1, PageKept DEF page
  <2>4. QED
    BY <2>1, <2>2, <2>3
<1>7. ASSUME SaveUiSettings(t) PROVE Goal
  <2>1. /\ Moves(t) /\ PageOK' /\ UNCHANGED page /\ task'[t].op = "saveUi"
        /\ task'[t].view = "control" /\ OnScreen("control") /\ task'[t].result = "none"
    BY <1>7, SaveUiMoves
  <2>2. task[t].phase = "idle"
    BY <1>7 DEF SaveUiSettings, Allowed
  <2>3. ScreenKept /\ UNCHANGED <<nav, rest, latest>> /\ screen' = screen
    BY <2>1, PageKept DEF page
  <2>4. QED
    BY <2>1, <2>2, <2>3
<1>8. ASSUME SaveTemplate(t) \/ ResetMailTemplate(t) PROVE Goal
  <2>1. PICK op \in {"save", "reset"}, text \in Versions \cup {None} : Posts(t, op, text)
    BY <1>8, TextTyped DEF SaveTemplate, ResetMailTemplate
  <2>2. /\ Moves(t) /\ PageOK' /\ UNCHANGED page /\ task'[t].op = op
        /\ task'[t].view = "templates" /\ OnScreen("templates") /\ task'[t].result = "none"
    BY <2>1, PostsMoves
  <2>3. task[t].phase = "idle"
    BY <2>1 DEF Posts, Allowed
  <2>4. ScreenKept /\ UNCHANGED <<nav, rest, latest>> /\ screen' = screen
    BY <2>2, PageKept DEF page
  <2>5. QED
    BY <2>2, <2>3, <2>4
<1>9. Goal
  BY <1>1, <1>2, <1>3, <1>4, <1>5, <1>6, <1>7, <1>8 DEF OtherStarts
<1> HIDE DEF Goal
<1>10. Shape(t)
  BY <1>9, BegunShape DEF Goal
<1>11. QED
  BY <1>9, <1>10 DEF Goal

\* Handlers that render at once.
Openings(t) ==
    \/ ShowTab(t) \/ TurnPage(t) \/ TypeFilter(t) \/ TogglePanel(t)
    \/ ToggleSelectAll(t) \/ ClearSelection(t) \/ DismissBanner(t) \/ SetTemplateType(t)

LEMMA OpeningsMoves ==
    ASSUME TInv, NEW t \in Tasks, Openings(t)
    PROVE  /\ Moves(t) /\ PageOK' /\ Shape(t) /\ Rendered(t) /\ task[t].phase = "idle"
           /\ task'[t].result = "none" /\ task'[t].removed = {}
           /\ \A v \in Tabs \ {task'[t].view} : query'[v] = query[v]
           /\ templates'.cache = templates.cache
           /\ task'[t].op \in {"show", "page", "filter", "open", "selectAll", "clear", "dismiss",
                               "setType"}
<1>1. CASE \/ ShowTab(t) \/ TurnPage(t) \/ TypeFilter(t) \/ TogglePanel(t)
           \/ ToggleSelectAll(t) \/ ClearSelection(t)
  <2>1. PICK view \in Tabs, op \in {"show", "page", "filter", "open", "selectAll", "clear"} :
          /\ Moves(t) /\ PageOK' /\ UNCHANGED rest /\ Rendered(t) /\ Fresh(t, op, view)
          /\ IF op = "show" THEN tab' = view ELSE tab' = tab /\ OnScreen(view)
          /\ \A v \in Tabs \ {view} : query'[v] = query[v]
    BY <1>1, NavigationMoves
  <2>2. Shape(t)
    BY <2>1 DEF Shape, ScreenShape, TabShape, KeyShape, ResultShape, Rendered, Fresh, rest, KeyCreated
  <2>3. QED
    BY <2>1, <2>2 DEF Fresh, rest
<1>2. CASE DismissBanner(t)
  <2>1. /\ Moves(t) /\ PageOK' /\ Rendered(t) /\ Fresh(t, "dismiss", "apiKeys")
        /\ OnScreen("apiKeys") /\ newRaw' = None /\ UNCHANGED <<nav, seen, templates>>
    BY <1>2, DismissMoves
  <2>2. Shape(t)
    BY <2>1 DEF Shape, ScreenShape, TabShape, KeyShape, ResultShape, Rendered, Fresh, nav
  <2>3. QED
    BY <2>1, <2>2 DEF Fresh, nav
<1>3. CASE SetTemplateType(t)
  <2>1. /\ Moves(t) /\ PageOK' /\ Rendered(t) /\ Fresh(t, "setType", "templates")
        /\ OnScreen("templates") /\ UNCHANGED <<nav, newRaw, seen>>
        /\ templates'.cache = templates.cache
    BY <1>3, SetTypeMoves
  <2>2. Shape(t)
    BY <2>1 DEF Shape, ScreenShape, TabShape, KeyShape, ResultShape, Rendered, Fresh, nav, KeyCreated
  <2>3. QED
    BY <2>1, <2>2 DEF Fresh, nav
<1>4. QED
  BY <1>1, <1>2, <1>3 DEF Openings

\* A handler that goes on without touching the controls.
LEMMA KeptShape ==
    ASSUME TInv, NEW t \in Tasks, task[t].phase \notin {"idle", "done"}, Moves(t), ScreenKept,
           UNCHANGED <<nav, rest>>,
           \/ task'[t].result = task[t].result /\ (task'[t].phase \in Asking => task[t].phase \in Asking)
           \/ task[t].phase \in Asking /\ task'[t].phase \notin Asking
              /\ (task[t].op # "create" \/ task'[t].result # "ok")
    PROVE  Shape(t)
<1>1. task'[t].op = task[t].op
  BY DEF Moves, Carries
<1>2. KeyShape(t)
  BY <1>1 DEF KeyShape, rest, KeyCreated
<1>3. ScreenShape(t) /\ TabShape(t)
  BY DEF ScreenShape, TabShape, nav, rest
<1>4. ResultShape(t)
  BY DEF ResultShape
<1>5. QED
  BY <1>2, <1>3, <1>4 DEF Shape

\* The steps of handlers that leave the controls as they are.
Quiet(t) == \/ NotChanged(t) \/ MemberChanged(t) \/ WriteActions(t) \/ SettingUpdated(t)
            \/ PolicyUpdated(t) \/ UiSettingsSaved(t) \/ AskDetails(t)

LEMMA QuietMoves ==
    ASSUME TInv, NEW t \in Tasks, Quiet(t)
    PROVE  /\ Moves(t) /\ PageOK' /\ Shape(t) /\ UNCHANGED page
           /\ task[t].phase \notin {"idle", "done"}
           /\ task'[t].phase \in {"done", "panel", "call", "policy", "details"}
<1> DEFINE Goal == /\ Moves(t) /\ PageOK' /\ UNCHANGED page
                   /\ task'[t].phase \in {"done", "panel", "call", "policy", "details"}
                   /\ task[t].phase \notin {"idle", "done"}
                   /\ \/ /\ task'[t].result = task[t].result
                         /\ task'[t].phase \in Asking => task[t].phase \in Asking
                      \/ /\ task[t].phase \in Asking /\ task'[t].phase \notin Asking
                         /\ task[t].op # "create" \/ task'[t].result # "ok"
<1>1. ASSUME NotChanged(t) PROVE Goal
  <2>1. task[t].phase \in {"read", "call"}
    BY <1>1 DEF NotChanged, Got
  <2>2. QED
    BY <1>1, <2>1, NotChangedMoves DEF Asking
<1>2. ASSUME MemberChanged(t) PROVE Goal
  <2>1. task[t].phase = "call" /\ task[t].op = "member"
    BY <1>2 DEF MemberChanged, Got
  <2>2. QED
    BY <1>2, <2>1, MemberChangedMoves DEF Asking
<1>3. ASSUME WriteActions(t) PROVE Goal
  <2>1. task[t].phase = "read"
    BY <1>3 DEF WriteActions, Got
  <2>2. QED
    BY <1>3, <2>1, WriteActionsMoves DEF Asking
<1>4. ASSUME SettingUpdated(t) PROVE Goal
  <2>1. task[t].phase = "call"
    BY <1>4 DEF SettingUpdated, Got
  <2>2. QED
    BY <1>4, <2>1, SettingUpdatedMoves DEF Asking
<1>5. ASSUME PolicyUpdated(t) PROVE Goal
  <2>1. task[t].phase = "policy" /\ task[t].op = "updateSetting"
    BY <1>5, TaskOf DEF PolicyUpdated, SortOK, Sort
  <2>2. QED
    BY <1>5, <2>1, PolicyUpdatedMoves DEF Asking
<1>6. ASSUME UiSettingsSaved(t) PROVE Goal
  <2>1. task[t].phase = "call" /\ task[t].op = "saveUi"
    BY <1>6 DEF UiSettingsSaved, Got
  <2>2. QED
    BY <1>6, <2>1, UiSettingsSavedMoves DEF Asking
<1>7. ASSUME AskDetails(t) PROVE Goal
  BY <1>7, AskDetailsMoves DEF Asking
<1>8. Goal
  BY <1>1, <1>2, <1>3, <1>4, <1>5, <1>6, <1>7 DEF Quiet
<1> HIDE DEF Goal
<1>9. Shape(t)
  BY <1>8, PageKept, KeptShape DEF Goal
<1>10. QED
  BY <1>8, <1>9 DEF Goal

\* Answers about uploaded files, and panels.
InPanels(t) == Uploaded(t) \/ UploadDeleted(t) \/ FilesListed(t) \/ PanelLoaded(t)

LEMMA InPanelsMoves ==
    ASSUME TInv, NEW t \in Tasks, InPanels(t)
    PROVE  /\ Moves(t) /\ PageOK' /\ Shape(t) /\ ScreenKept /\ UNCHANGED <<nav, rest, latest>>
           /\ screen'.editor = screen.editor /\ task[t].phase \notin {"idle", "done"}
           /\ task'[t].phase \in {"done", "files"} /\ task'[t].reply = "none"
<1> DEFINE Goal == /\ Moves(t) /\ PageOK' /\ ScreenKept /\ UNCHANGED <<nav, rest, latest>>
                   /\ screen'.editor = screen.editor /\ task[t].phase \notin {"idle", "done"}
                   /\ task'[t].phase \in {"done", "files"} /\ task'[t].reply = "none"
                   /\ \/ task'[t].result = task[t].result
                      \/ task[t].phase \in Asking /\ task[t].op # "create"
<1>1. ASSUME Uploaded(t) PROVE Goal
  BY <1>1, UploadedMoves DEF Asking
<1>2. ASSUME UploadDeleted(t) PROVE Goal
  BY <1>2, UploadDeletedMoves DEF Asking
<1>3. ASSUME FilesListed(t) PROVE Goal
  BY <1>3, FilesListedMoves DEF Asking
<1>4. ASSUME PanelLoaded(t) PROVE Goal
  BY <1>4, PanelLoadedMoves DEF Asking
<1>5. Goal
  BY <1>1, <1>2, <1>3, <1>4 DEF InPanels
<1> HIDE DEF Goal
<1>6. task'[t].phase \notin Asking
  BY <1>5 DEF Goal, Asking
<1>7. Shape(t)
  BY <1>5, <1>6, KeptShape DEF Goal
<1>8. QED
  BY <1>5, <1>7 DEF Goal

\* Handlers that render their view once they have their answer.
Rerenders(t) == HandlerResumes(t) \/ ApiKeyCreated(t) \/ WebhookSaved(t)

LEMMA RerendersMoves ==
    ASSUME TInv, NEW t \in Tasks, Rerenders(t)
    PROVE  /\ Moves(t) /\ PageOK' /\ Shape(t) /\ task[t].phase = "call" /\ task'[t].reply = "none"
           /\ UNCHANGED <<tab, query, openId, templates>>
           /\ \/ Rendered(t)
              \/ UNCHANGED page /\ task'[t].phase = "done" /\ task'[t].ids = {}
<1>1. CASE HandlerResumes(t)
  <2>1. /\ Moves(t) /\ PageOK' /\ Rendered(t) /\ task[t].phase = "call"
        /\ UNCHANGED <<tab, query, openId, newRaw, seen, templates>>
        /\ ~(task[t].op = "create" /\ task[t].view = "apiKeys")
    BY <1>1, HandlersResume
  <2>2. task'[t].op = task[t].op /\ task'[t].view = task[t].view
    BY <2>1 DEF Moves, Carries
  <2>3. Shape(t)
    BY <2>1, <2>2 DEF Shape, ScreenShape, TabShape, KeyShape, ResultShape, Rendered, KeyCreated, Asking
  <2>4. QED
    BY <2>1, <2>3 DEF Rendered
<1>2. CASE ApiKeyCreated(t)
  <2>1. /\ Moves(t) /\ PageOK' /\ Rendered(t) /\ task'[t].result = "ok"
        /\ task[t].op = "create" /\ task[t].view = "apiKeys" /\ task[t].phase = "call"
        /\ newRaw' = t /\ UNCHANGED <<nav, seen, templates>>
    BY <1>2, ApiKeyMoves
  <2>2. task'[t].op = task[t].op /\ task'[t].view = task[t].view
    BY <2>1 DEF Moves, Carries
  <2>3. Shape(t)
    BY <2>1, <2>2 DEF Shape, ScreenShape, TabShape, KeyShape, ResultShape, Rendered, KeyCreated, Asking, nav
  <2>4. QED
    BY <2>1, <2>3 DEF Rendered, nav
<1>3. CASE WebhookSaved(t)
  <2>1. /\ Moves(t) /\ PageOK' /\ UNCHANGED <<nav, rest>> /\ task[t].op = "saveWebhook"
        /\ task[t].phase = "call" /\ task'[t].reply = "none"
        /\ \/ Rendered(t)
           \/ UNCHANGED page /\ task'[t].phase = "done" /\ task'[t].ids = {}
    BY <1>3, WebhookSavedMoves
  <2>2. task'[t].op = task[t].op /\ task'[t].phase \in {"list", "done"}
    BY <2>1 DEF Moves, Carries, Rendered
  <2>3. Shape(t)
    BY <2>1, <2>2, PageKept
       DEF Shape, ScreenShape, TabShape, KeyShape, ResultShape, Rendered, KeyCreated, Asking, nav, rest
  <2>4. QED
    BY <2>1, <2>3 DEF nav, rest
<1>4. QED
  BY <1>1, <1>2, <1>3 DEF Rerenders

\* Renders that have their list.
Shown(t) == \/ ShowUsers(t) \/ ShowSessions(t) \/ ShowRoles(t) \/ ShowTenants(t)
            \/ ShowApiKeys(t) \/ ShowWebhooks(t) \/ ShowControl(t) \/ ShowTemplates(t)

LEMMA ShownShape ==
    ASSUME TInv, NEW t \in Tasks, Shows(t), Moves(t), seen \subseteq seen',
           task'[t].phase \in {"panel", "done"}, task'[t].result = task[t].result
    PROVE  Shape(t)
<1>1. task[t].phase \in {"list", "details"} /\ UNCHANGED <<nav, newRaw>>
  BY DEF Shows
<1>2. KeyShape(t)
  <2>1. KeyCreated(t)' => task[t].result = "ok"
    BY DEF KeyCreated
  <2>2. QED
    BY <1>1, <2>1 DEF KeyShape
<1>3. QED
  BY <1>1, <1>2 DEF Shape, ScreenShape, TabShape, ResultShape, nav, Asking

LEMMA ShownMoves ==
    ASSUME TInv, NEW t \in Tasks, Shown(t)
    PROVE  /\ Moves(t) /\ PageOK' /\ Shape(t) /\ Shows(t) /\ task'[t].phase \in {"panel", "done"}
           /\ task'[t].result = task[t].result /\ UNCHANGED latest
           /\ task'[t].reply = "none"
<1> DEFINE Goal == /\ Moves(t) /\ PageOK' /\ Shows(t) /\ seen \subseteq seen'
                   /\ task'[t].phase \in {"panel", "done"} /\ UNCHANGED latest
                   /\ task'[t].result = task[t].result /\ task'[t].reply = "none"
<1>1. ASSUME ShowUsers(t) PROVE Goal
  <2>1. /\ Moves(t) /\ PageOK' /\ Painted(t) /\ task'[t].phase \in {"panel", "done"}
        /\ task'[t].result = task[t].result /\ task'[t].reply = "none"
        /\ task[t].view = "users" /\ UNCHANGED <<nav, rest, latest>>
        /\ task[t].phase \in {"list", "details"}
        /\ screen'.checked = task[t].ids \cap selected /\ screen'.rows = task[t].ids
        /\ screen'.count = Cardinality(selected) /\ screen'.open = openId["users"]
    BY <1>1, ShowUsersMoves
  <2>2. QED
    BY <2>1 DEF Shows, Painted, rest
<1>2. ASSUME ShowTenants(t) PROVE Goal
  <2>1. /\ Moves(t) /\ PageOK' /\ Painted(t) /\ task'[t].phase \in {"panel", "done"}
        /\ task'[t].result = task[t].result /\ task'[t].reply = "none"
        /\ task[t].view = "tenants" /\ UNCHANGED <<nav, rest, latest>>
        /\ task[t].phase = "list" /\ screen'.open = openId["tenants"]
    BY <1>2, ShowTenantsMoves
  <2>2. QED
    BY <2>1 DEF Shows, Painted, rest
<1>3. ASSUME ShowSessions(t) \/ ShowWebhooks(t) \/ ShowApiKeys(t) \/ ShowRoles(t) PROVE Goal
  <2>1. /\ Moves(t) /\ PageOK' /\ Painted(t) /\ task'[t].phase = "done"
        /\ task'[t].result = task[t].result /\ task'[t].reply = "none"
        /\ task[t].phase = "list"
        /\ task[t].view \in {"sessions", "webhooks", "apiKeys", "roles"}
        /\ UNCHANGED <<nav, latest, templates, newRaw>>
        /\ IF task[t].view = "apiKeys"
             THEN screen'.banner = newRaw /\ seen' = seen \cup ({newRaw} \ {None})
             ELSE seen' = seen
    BY <1>3, PaintsMoves
  <2>2. QED
    BY <2>1 DEF Shows, Painted, WithPanel
<1>4. ASSUME ShowControl(t) PROVE Goal
  BY <1>4, ShowControlMoves DEF Shows, WithPanel, rest
<1>5. ASSUME ShowTemplates(t) PROVE Goal
  BY <1>5, ShowTemplatesMoves DEF Shows, WithPanel
<1>6. Goal
  BY <1>1, <1>2, <1>3, <1>4, <1>5 DEF Shown
<1> HIDE DEF Goal
<1>7. Shape(t)
  BY <1>6, ShownShape DEF Goal
<1>8. QED
  BY <1>6, <1>7 DEF Goal

LEMMA ListFailedShape == ASSUME TInv, NEW t \in Tasks, ListFailed(t) PROVE Shape(t)
<1>1. /\ Moves(t) /\ task'[t].phase = "done" /\ task'[t].result = task[t].result
      /\ task[t].phase = "list" /\ UNCHANGED <<nav, rest, latest>> /\ screen'.state = "error"
  BY ListFailedMoves
<1>2. QED
  BY <1>1 DEF Shape, ScreenShape, TabShape, KeyShape, ResultShape, KeyCreated, Asking, nav, rest

-----------------------------------------------------------------------------
(* Types *)

LEMMA PageSteps ==
    ASSUME TInv, NEW t \in Tasks, Start(t) \/ Resume(t)
    PROVE  Moves(t) /\ PageOK' /\ Shape(t)
<1>1. \/ Openings(t) \/ CallStarts(t) \/ OtherStarts(t)
      \/ Rerenders(t) \/ Quiet(t) \/ InPanels(t) \/ Shown(t) \/ ListFailed(t)
  BY DEF Start, Resume, Openings, CallStarts, OtherStarts, Rerenders, HandlerResumes, Quiet,
         InPanels, Shown
<1>2. CASE Openings(t)
  BY <1>2, OpeningsMoves
<1>3. CASE CallStarts(t)
  BY <1>3, CallStartsMoves
<1>4. CASE OtherStarts(t)
  BY <1>4, OtherStartsMoves
<1>5. CASE Rerenders(t)
  BY <1>5, RerendersMoves
<1>6. CASE Quiet(t)
  BY <1>6, QuietMoves
<1>7. CASE InPanels(t)
  BY <1>7, InPanelsMoves
<1>8. CASE Shown(t)
  BY <1>8, ShownMoves
<1>9. CASE ListFailed(t)
  BY <1>9, ListFailedMoves, ListFailedShape
<1>10. QED
  BY <1>1, <1>2, <1>3, <1>4, <1>5, <1>6, <1>7, <1>8, <1>9

\* Tasks stay what they are, and those that are over stay over.
LEMMA MovesSorts == ASSUME TInv, NEW t \in Tasks, Moves(t) PROVE SortsOK'
<1> SUFFICES ASSUME NEW q \in Tasks PROVE SortOK(q)'
  BY DEF SortsOK
<1>1. SortOK(q) /\ task[q] \in Task /\ DOMAIN task[q] = TaskFields /\ TaskFieldsOK(task[q])
  BY TaskOf, TaskParts
<1>2. task[q].after \subseteq Tasks
  BY <1>1 DEF TaskFieldsOK
<1>3. ASSUME NEW p \in Tasks, task[p].phase = "done" PROVE task'[p].phase = "done"
  BY <1>3 DEF Moves, Carries
<1>4. CASE q # t
  <2>1. task'[q] = task[q]
    BY <1>4 DEF Moves
  <2>2. QED
    BY <1>1, <1>2, <1>3, <2>1 DEF SortOK
<1>5. CASE q = t
  <2>1. Sort(task'[q]) /\ task'[q].phase # "idle"
    BY <1>5 DEF Moves, Carries
  <2>2. task'[q].after = Over \/ task'[q].after = task[q].after
    BY <1>5 DEF Moves, Carries
  <2>3. \A p \in task'[q].after : task'[p].phase = "done"
    BY <1>1, <1>2, <1>3, <2>2 DEF SortOK, Over
  <2>4. QED
    BY <2>1, <2>3 DEF SortOK
<1>6. QED
  BY <1>4, <1>5

\* A step of a task, of the page or of the server.
TaskStep(t) == \/ (Start(t) \/ Resume(t)) /\ UNCHANGED <<server, workload>>
               \/ Serve(t) /\ UNCHANGED <<page, workload>>

LEMMA TInvStep == TInv /\ [Next]_vars => TInv'
<1> SUFFICES ASSUME TInv, [Next]_vars PROVE TInv'
  OBVIOUS
<1>1. ASSUME PageOK', ServerOK', SortsOK', UNCHANGED workload, task' \in [Tasks -> Task]
      PROVE  TInv'
  BY <1>1 DEF TInv, TypeOK, PageOK, ServerOK
<1>2. ASSUME NEW t \in Tasks, (Start(t) \/ Resume(t)) /\ UNCHANGED <<server, workload>>
      PROVE  TInv'
  BY <1>1, <1>2, PageSteps, MovesSorts, SameServer DEF Moves
<1>3. ASSUME NEW t \in Tasks, Serve(t) /\ UNCHANGED <<page, workload>>
      PROVE  TInv'
  BY <1>1, <1>3, ServeMoves, MovesSorts, SamePage DEF Moves
<1>4. ASSUME Click, UNCHANGED <<server, workload>> PROVE TInv'
  <2>1. UNCHANGED task /\ PageOK'
    BY <1>4, SelectPage, OtherClicks DEF Click
  <2>2. SortsOK' /\ task' \in [Tasks -> Task]
    BY <2>1 DEF SortsOK, SortOK, TInv, TypeOK
  <2>3. QED
    BY <1>1, <1>4, <2>1, <2>2, SameServer
<1>5. CASE UNCHANGED vars
  <2>1. UNCHANGED <<page, task, server, workload>>
    BY <1>5 DEF vars
  <2>2. SortsOK' /\ task' \in [Tasks -> Task]
    BY <2>1 DEF SortsOK, SortOK, TInv, TypeOK
  <2>3. QED
    BY <1>1, <2>1, <2>2, SameServer, SamePage
<1>6. QED
  BY <1>2, <1>3, <1>4, <1>5 DEF Next

LEMMA FirstScreenFacts ==
    ASSUME Init
    PROVE  /\ FirstScreen(tab) \in Screen /\ FirstScreen(tab).editor = NoEditor
           /\ FirstScreen(tab).files = NoFiles /\ FirstScreen(tab).view = tab
           /\ FirstScreen(tab).label = NoQuery /\ FirstScreen(tab).state = "shown"
           /\ FirstScreen(tab).open = None /\ FirstScreen(tab).banner = None
           /\ FirstScreen(tab).count = 0 /\ tab \in Tabs
           /\ tab # "control" => FirstScreen(tab).checked = {}
           /\ IF tab = "control" THEN FirstScreen(tab).rows \subseteq Actions
                                 ELSE FirstScreen(tab).rows \subseteq Existing
<1> HIDE DEF Blank
<1>1. tab \in Tabs
  BY WorkloadAssumption DEF Init, Workload
<1>2. Lists \subseteq Tabs /\ Paged \subseteq Lists /\ "control" \notin Lists
  BY DEF Tabs, Lists, Paged
<1> DEFINE found == IF tab \in Lists THEN stored[tab] ELSE {}
           rows == CASE tab \in Paged -> PageOf(found, 0)
                     [] tab = "control" -> Actions
                     [] OTHER -> found
           more == tab \in Paged /\ PageSize < Cardinality(found)
           checked == IF tab = "control" THEN settings.enabled ELSE {}
<1>3. found \subseteq Existing
  BY DEF Init
<1>4. PageOf(found, 0) \subseteq found
  BY DEF PageOf
<1>5. IF tab = "control" THEN rows \subseteq Actions ELSE rows \subseteq Existing
  BY <1>2, <1>3, <1>4
<1>6. checked \subseteq Actions
  BY DEF Init
<1> HIDE DEF found, rows, checked
<1>7. FirstScreen(tab) = [Blank EXCEPT !.state = "shown", !.view = tab, !.rows = rows,
                                       !.more = more, !.checked = checked]
  BY DEF FirstScreen, found, rows, checked
<1> HIDE DEF more
<1>8. more \in BOOLEAN
  BY DEF more
<1>9. FirstScreen(tab) = [x \in ScreenFields |-> FirstScreen(tab)[x]]
  BY <1>7, BlankFacts
<1>10. /\ FirstScreen(tab).editor = NoEditor
       /\ FirstScreen(tab).files = NoFiles /\ FirstScreen(tab).view = tab
       /\ FirstScreen(tab).label = NoQuery /\ FirstScreen(tab).state = "shown"
       /\ FirstScreen(tab).open = Blank.open /\ FirstScreen(tab).banner = None
       /\ FirstScreen(tab).count = Blank.count
       /\ FirstScreen(tab).rows = rows /\ FirstScreen(tab).checked = checked
  BY <1>7, BlankFacts DEF ScreenFields
<1>11. Blank.open = None /\ Blank.count = 0
  BY DEF Blank
<1>12. rows \subseteq Items \cup Actions /\ checked \subseteq Items \cup Actions
  BY <1>5, <1>6 DEF Items
<1>13. ScreenFieldsOK(FirstScreen(tab))
  BY <1>1, <1>7, <1>8, <1>12, BlankFacts DEF ScreenFieldsOK, ScreenFields
<1>14. FirstScreen(tab) \in Screen
  BY <1>9, <1>13, ScreenMade
<1>15. QED
  BY <1>1, <1>5, <1>10, <1>11, <1>14 DEF checked

LEMMA FirstPage ==
    ASSUME Init
    PROVE  /\ screen \in Screen /\ screen.editor = NoEditor /\ screen.view = tab
           /\ screen.label = NoQuery /\ screen.state = "shown" /\ screen.open = None
           /\ screen.banner = None /\ screen.count = 0
           /\ tab # "control" => screen.checked = {}
           /\ IF tab = "control" THEN screen.rows \subseteq Actions
                                 ELSE screen.rows \subseteq Existing
           /\ screen.files = NoFiles
              \/ (tab = "control" /\ screen.files = [NoFiles EXCEPT !.open = TRUE,
                                                                   !.rows = stored["files"]])
<1> HIDE DEF NoFiles, NoEditor
<1> DEFINE F == FirstScreen(tab)
<1>1. /\ F \in Screen /\ F.editor = NoEditor /\ F.files = NoFiles /\ F.view = tab
      /\ F.label = NoQuery /\ F.state = "shown" /\ F.open = None /\ F.banner = None /\ F.count = 0
      /\ tab # "control" => F.checked = {}
      /\ IF tab = "control" THEN F.rows \subseteq Actions ELSE F.rows \subseteq Existing
  BY FirstScreenFacts
<1>2. FirstFiles = NoFiles
      \/ (tab = "control" /\ FirstFiles = [NoFiles EXCEPT !.open = TRUE, !.rows = stored["files"]])
  BY DEF FirstFiles
<1>3. stored["files"] \subseteq Items
  BY DEF Init, Items
<1>4. FirstFiles \in Files
  BY <1>2, <1>3, SmallFacts DEF Files
<1>5. screen = F \/ screen = [F EXCEPT !.files = FirstFiles]
  BY DEF Init
<1> HIDE DEF F
<1>6. DOMAIN F = ScreenFields
  BY <1>1, ScreenParts
<1>7. screen \in Screen
  BY <1>1, <1>4, <1>5 DEF Screen
<1>8. QED
  BY <1>1, <1>2, <1>5, <1>6, <1>7 DEF ScreenFields

LEMMA TInvInit == Init => TInv
<1> SUFFICES ASSUME Init PROVE TInv
  OBVIOUS
<1> HIDE DEF NoQuery, NoEditor, NoFiles, NewTask
<1>1. tab \in Tabs
  BY FirstScreenFacts
<1>2. query \in [Tabs -> Query] /\ query["control"] = NoQuery /\ query["templates"] = NoQuery
  BY SmallFacts DEF Init, Tabs
<1>3. task \in [Tasks -> Task]
  BY NewTaskFacts DEF Init
<1>4. \A k \in Types : content[k] \in Contents
  BY SmallFacts DEF Init
<1>5. content \in [Types -> Contents]
  BY SmallFacts DEF Init
<1>6. templates \in [type : Types, selectedId : Templates \cup {None}, cache : [Types -> Contents]]
  <2>1. [mail |-> content["mail"], ui |-> Default] \in [Types -> Contents]
    BY <1>4, SmallFacts DEF Types
  <2>2. QED
    BY <2>1 DEF Init, Types
<1>7. settings \in [enabled : SUBSET Actions, require2FA : BOOLEAN, policy : BOOLEAN,
                    logo : Items \cup {None}]
  <2>1. settings.enabled \subseteq Actions
    BY DEF Init
  <2>2. QED
    BY <2>1 DEF Init
<1>8. /\ openId \in [WithPanel -> Items \cup {None}] /\ selected \subseteq Items
      /\ newRaw \in Tasks \cup {None} /\ seen \subseteq Tasks
      /\ latest \in [Tabs -> Tasks \cup {None}]
      /\ stored \in [Lists \cup {"files"} -> SUBSET Items]
      /\ workload \in Workloads
  BY DEF Init, Items
<1>9. TypeOK
  BY <1>1, <1>2, <1>3, <1>5, <1>6, <1>7, <1>8, FirstPage DEF TypeOK
<1>10. SortsOK
  <2> SUFFICES ASSUME NEW t \in Tasks PROVE SortOK(t)
    BY DEF SortsOK
  <2>1. task[t] = NewTask
    BY DEF Init
  <2>2. Sort(NewTask)
    <3>1. NewTask.view = "none"
      BY DEF NewTask
    <3>2. QED
      BY <3>1, NewTaskFacts DEF Sort
  <2>3. QED
    BY <2>1, <2>2, NewTaskFacts DEF SortOK
<1>11. ScreenOK
  <2>1. screen.files.open => tab = "control"
    BY FirstPage, SmallFacts
  <2>2. query[screen.view] = NoQuery
    BY <1>1, FirstPage DEF Init
  <2>3. QED
    BY <1>1, <1>2, <2>1, <2>2, FirstPage, SmallFacts DEF ScreenOK, OnScreen, Items
<1>12. QED
  BY <1>9, <1>10, <1>11 DEF TInv

LEMMA TInvAlways == Spec => []TInv
BY TInvInit, TInvStep, PTL DEF Spec

\* Every answer lands in a state that can hold it: admin.js keeps no types, and the tasks, the
\* page and the lists of the server stay what its code takes them for.
THEOREM TypeCorrect == Spec => []TypeOK
<1>1. TInv => TypeOK
  BY DEF TInv
<1>2. QED
  BY <1>1, TInvAlways, PTL

-----------------------------------------------------------------------------
(* The controls and the keys *)

LEMMA StepShape ==
    ASSUME TInv, NEW t \in Tasks, TaskStep(t)
    PROVE  Moves(t) /\ Shape(t)
<1>1. CASE Start(t) \/ Resume(t)
  BY <1>1, PageSteps
<1>2. CASE Serve(t) /\ UNCHANGED page
  <2>1. Moves(t) /\ Waits(t) /\ task[t].phase # "idle"
    BY <1>2, ServeMoves
  <2>2. ScreenKept /\ UNCHANGED <<nav, rest, latest>>
    BY <1>2, PageKept
  <2>3. Shape(t)
    BY <2>1, <2>2
       DEF Shape, ScreenShape, TabShape, KeyShape, ResultShape, Waits, KeyCreated, nav, rest
  <2>4. QED
    BY <2>1, <2>3
<1>3. QED
  BY <1>1, <1>2 DEF TaskStep

\* What is known of a task that began stays so.
LEMMA Steady ==
    ASSUME TInv, NEW t \in Tasks, Moves(t), NEW q \in Tasks, Begun(q)
    PROVE  /\ Begun(q)' /\ task'[q].op = task[q].op /\ task'[q].view = task[q].view
           /\ task'[q].after = task[q].after
<1>1. task[q].phase # "idle"
  BY TaskOf DEF Begun, SortOK, Sort
<1>2. task'[q].op = task[q].op /\ task'[q].view = task[q].view /\ task'[q].after = task[q].after
  BY <1>1 DEF Moves, Carries
<1>3. QED
  BY <1>2 DEF Begun

LEMMA OverlapStays ==
    ASSUME TInv, NEW t \in Tasks, Moves(t), NEW s \in Tasks, NEW q \in Tasks, Overlap(s, q)
    PROVE  Overlap(s, q)'
BY Steady DEF Overlap, Begun

\* A task that begins overlaps every one that is not over.
LEMMA BeginnerOverlaps ==
    ASSUME TInv, NEW t \in Tasks, Moves(t), task[t].phase = "idle", NEW q \in Tasks,
           task[q].phase \notin {"idle", "done"}
    PROVE  Overlap(t, q)'
<1>1. q # t /\ Begun(q)
  BY TaskOf DEF Begun, SortOK, Sort
<1>2. Begun(q)' /\ task'[q].after = task[q].after
  BY <1>1, Steady
<1>3. task'[t].after = Over /\ Begun(t)'
  BY DEF Moves, Carries, Sort, Begun
<1>4. q \notin Over
  BY DEF Over
<1>5. t \notin task[q].after
  BY TaskOf DEF SortOK
<1>6. QED
  BY <1>1, <1>2, <1>3, <1>4, <1>5 DEF Overlap, Begun

\* A view is that of the marked tab, or a choice of tabs overlapped a task of this view.
Marked(view) == view = tab \/ \E s, q \in Tasks : /\ task[s].op = "show" /\ Overlap(s, q)
                                                  /\ task[q].view = view

ShownInv ==
    screen.state = "shown" =>
        /\ screen.view = "users" => /\ screen.checked = selected \cap screen.rows
                                    /\ screen.count = Cardinality(selected)
        /\ screen.view \in WithPanel => screen.open = openId[screen.view]
        /\ screen.view = "apiKeys" => screen.banner = newRaw /\ newRaw \in seen \cup {None}

MarkedInv ==
    /\ screen.state = "shown" => Marked(screen.view)
    /\ \A q \in Tasks : task[q].phase \notin {"idle", "done"} => Marked(task[q].view)

LEMMA ShownTask == ASSUME TInv, NEW t \in Tasks, Shape(t), ShownInv PROVE ShownInv'
<1>1. CASE screen'.state # "shown"
  BY <1>1 DEF ShownInv
<1>2. CASE ScreenKept /\ UNCHANGED <<nav, newRaw>> /\ seen \subseteq seen'
  BY <1>2 DEF ShownInv, ScreenKept, ScreenStays, nav
<1>3. CASE Shows(t)
  <2>1. /\ screen'.state = "shown" /\ screen'.view = task[t].view
        /\ task[t].view = "users" => /\ screen'.checked = selected \cap screen'.rows
                                     /\ screen'.count = Cardinality(selected)
        /\ task[t].view \in WithPanel => screen'.open = openId[task[t].view]
        /\ task[t].view = "apiKeys" => screen'.banner = newRaw /\ newRaw \in seen' \cup {None}
        /\ selected' = selected /\ openId' = openId /\ newRaw' = newRaw
    BY <1>3 DEF Shows, nav
  <2>2. QED
    BY <2>1 DEF ShownInv
<1>4. QED
  BY <1>1, <1>2, <1>3 DEF Shape, ScreenShape

LEMMA ShownClick == ASSUME TInv, Click, ShownInv PROVE ShownInv'
<1>1. CASE ToggleSelectUser
  <2>1. /\ ScreenStays /\ OnScreen("users") /\ screen'.count = Cardinality(selected')
    BY <1>1, SelectPage
  <2>2. PICK i \in screen.rows :
          /\ selected' = IF i \in selected THEN selected \ {i} ELSE selected \cup {i}
          /\ screen'.checked = IF i \in screen.checked THEN screen.checked \ {i}
                                                       ELSE screen.checked \cup {i}
    BY <1>1, SelectPage
  <2>3. screen.checked = selected \cap screen.rows
    BY <2>1 DEF ShownInv, OnScreen
  <2>4. screen'.checked = selected' \cap screen.rows
    BY <2>2, <2>3
  <2>5. screen.open = openId["users"] /\ openId' = openId
    BY <1>1, <2>1, SelectPage DEF ShownInv, OnScreen, WithPanel
  <2>6. QED
    BY <2>1, <2>4, <2>5 DEF ShownInv, ScreenStays, OnScreen
<1>2. CASE OpenWebhookDrawer \/ CloseWebhookDrawer \/ EditTemplate \/ TypeText
  BY <1>2, OtherClicks DEF ShownInv, ScreenKept, ScreenStays, nav
<1>3. QED
  BY <1>1, <1>2 DEF Click

\* The same after a step.
MarkedNext(view) == view = tab' \/ \E s, q \in Tasks : /\ task'[s].op = "show" /\ Overlap(s, q)'
                                                       /\ task'[q].view = view

LEMMA MarkedStays ==
    ASSUME TInv, NEW t \in Tasks, Moves(t), NEW view, Marked(view), tab' = tab
    PROVE  MarkedNext(view)
<1>1. CASE view = tab
  BY <1>1 DEF Marked, MarkedNext
<1>2. ASSUME NEW s \in Tasks, NEW q \in Tasks, task[s].op = "show", Overlap(s, q),
             task[q].view = view
      PROVE  MarkedNext(view)
  <2>1. Begun(s) /\ Begun(q)
    BY <1>2 DEF Overlap
  <2>2. task'[s].op = "show" /\ task'[q].view = view /\ Overlap(s, q)'
    BY <1>2, <2>1, Steady, OverlapStays
  <2>3. QED
    BY <2>2 DEF MarkedNext
<1>3. QED
  BY <1>1, <1>2 DEF Marked

LEMMA MarkedTask ==
    ASSUME TInv, NEW t \in Tasks, Moves(t), Shape(t), MarkedInv PROVE MarkedInv'
<1>1. CASE task[t].phase = "idle" /\ task'[t].op = "show"
  <2>1. tab' = task'[t].view
    BY <1>1 DEF Shape, TabShape
  <2>2. ASSUME NEW q \in Tasks, task'[q].phase \notin {"idle", "done"} PROVE MarkedNext(task'[q].view)
    <3>1. CASE q = t
      BY <2>1, <3>1 DEF MarkedNext
    <3>2. CASE q # t
      <4>1. task'[q] = task[q]
        BY <3>2 DEF Moves
      <4>2. Overlap(t, q)'
        BY <1>1, <2>2, <4>1, BeginnerOverlaps
      <4>3. QED
        BY <1>1, <4>1, <4>2 DEF MarkedNext
    <3>3. QED
      BY <3>1, <3>2
  <2>3. screen'.state = "shown" => MarkedNext(screen'.view)
    <3>1. CASE screen'.state # "shown"
      BY <3>1
    <3>2. CASE ScreenKept /\ UNCHANGED <<nav, newRaw>>
      <4>1. tab' = tab /\ screen'.state = screen.state /\ screen'.view = screen.view
        BY <3>2 DEF ScreenKept, ScreenStays, nav
      <4>2. QED
        BY <4>1, MarkedStays DEF MarkedInv
    <3>3. CASE Shows(t)
      BY <1>1, <3>3 DEF Shows
    <3>4. QED
      BY <3>1, <3>2, <3>3 DEF Shape, ScreenShape
  <2>4. QED
    BY <2>2, <2>3 DEF MarkedInv, Marked, MarkedNext
<1>2. CASE ~(task[t].phase = "idle" /\ task'[t].op = "show")
  <2>1. tab' = tab
    BY <1>2 DEF Shape, TabShape
  <2>2. ASSUME NEW q \in Tasks, task'[q].phase \notin {"idle", "done"} PROVE MarkedNext(task'[q].view)
    <3>1. CASE q = t /\ task[t].phase = "idle"
      <4>1. OnScreen(task'[t].view)
        BY <1>2, <3>1 DEF Shape, TabShape
      <4>2. Marked(task'[t].view)
        BY <4>1 DEF MarkedInv, OnScreen
      <4>3. QED
        BY <2>1, <3>1, <4>2, MarkedStays
    <3>2. CASE ~(q = t /\ task[t].phase = "idle")
      <4>1. task[q].phase \notin {"idle", "done"} /\ task'[q].view = task[q].view
        BY <2>2, <3>2 DEF Moves, Carries
      <4>2. QED
        BY <2>1, <4>1, MarkedStays DEF MarkedInv
    <3>3. QED
      BY <3>1, <3>2
  <2>3. screen'.state = "shown" => MarkedNext(screen'.view)
    <3>1. CASE screen'.state # "shown"
      BY <3>1
    <3>2. CASE ScreenKept
      <4>1. screen'.state = screen.state /\ screen'.view = screen.view
        BY <3>2 DEF ScreenKept, ScreenStays
      <4>2. QED
        BY <2>1, <4>1, MarkedStays DEF MarkedInv
    <3>3. CASE Shows(t)
      <4>1. task[t].phase \in {"list", "details"} /\ screen'.view = task[t].view
        BY <3>3 DEF Shows
      <4>2. QED
        BY <2>1, <4>1, MarkedStays DEF MarkedInv
    <3>4. QED
      BY <3>1, <3>2, <3>3 DEF Shape, ScreenShape
  <2>4. QED
    BY <2>2, <2>3 DEF MarkedInv, Marked, MarkedNext
<1>3. QED
  BY <1>1, <1>2

LEMMA MarkedClick == ASSUME TInv, Click, MarkedInv PROVE MarkedInv'
<1>1. ScreenStays /\ tab' = tab /\ task' = task
  BY SelectPage, OtherClicks DEF Click, ScreenKept, nav
<1>2. QED
  BY <1>1 DEF MarkedInv, Marked, ScreenStays, Overlap, Begun

\* The key of a creation that is over is known, or another creation was under way with it.
Known(t) == t \in seen \/ \E q \in Tasks : KeyCreated(q) /\ Overlap(q, t)

KeysInv ==
    /\ \A t \in Tasks : task[t].phase \in Asking => task[t].result = "none"
    /\ \A q \in Tasks : task[q].op = "create" /\ task[q].view = "apiKeys" =>
         \A t \in task[q].after : KeyCreated(t) => Known(t)
    /\ \A t \in Tasks : KeyCreated(t) => newRaw = t \/ Known(t)

LEMMA CreatedStays ==
    ASSUME TInv, KeysInv, NEW t \in Tasks, Moves(t), Shape(t), NEW q \in Tasks, KeyCreated(q)
    PROVE  KeyCreated(q)'
<1>1. task[q].result = "ok" /\ Begun(q) /\ task[q].phase \notin Asking
  BY DEF KeyCreated, KeysInv, Begun
<1>2. task[q].phase # "idle"
  BY <1>1, TaskOf DEF Begun, SortOK, Sort
<1>3. task'[q].result = "ok"
  <2>1. CASE q = t
    BY <1>1, <1>2, <2>1 DEF Shape, ResultShape
  <2>2. CASE q # t
    BY <1>1, <2>2 DEF Moves
  <2>3. QED
    BY <2>1, <2>2
<1>4. QED
  BY <1>1, <1>3, Steady DEF KeyCreated

LEMMA KnownStays ==
    ASSUME TInv, KeysInv, NEW t \in Tasks, Moves(t), Shape(t), NEW q \in Tasks, Known(q)
    PROVE  Known(q)'
<1>1. seen \subseteq seen'
  BY DEF Shape, KeyShape
<1>2. CASE q \in seen
  BY <1>1, <1>2 DEF Known
<1>3. ASSUME NEW p \in Tasks, KeyCreated(p), Overlap(p, q) PROVE Known(q)'
  <2>1. KeyCreated(p)' /\ Overlap(p, q)'
    BY <1>3, CreatedStays, OverlapStays
  <2>2. QED
    BY <2>1 DEF Known
<1>4. QED
  BY <1>2, <1>3 DEF Known

LEMMA KeysTask ==
    ASSUME TInv, KeysInv, ShownInv, NEW t \in Tasks, Moves(t), Shape(t) PROVE KeysInv'
<1>1. ASSUME NEW q \in Tasks, task'[q].phase \in Asking PROVE task'[q].result = "none"
  <2>1. CASE q = t
    BY <1>1, <2>1 DEF Shape, ResultShape, KeysInv
  <2>2. CASE q # t
    BY <1>1, <2>2 DEF Moves, KeysInv
  <2>3. QED
    BY <2>1, <2>2
\* A created key is on a banner, or it still waits for one.
<1>2. OnScreen("apiKeys") => \A q \in Tasks : KeyCreated(q) => Known(q)
  <2> SUFFICES ASSUME OnScreen("apiKeys"), NEW q \in Tasks, KeyCreated(q) PROVE Known(q)
    OBVIOUS
  <2>1. newRaw = q \/ Known(q)
    BY DEF KeysInv
  <2>2. newRaw \in seen \cup {None}
    BY DEF ShownInv, OnScreen
  <2>3. q # None
    BY ItemAssumption DEF None
  <2>4. QED
    BY <2>1, <2>2, <2>3 DEF Known
<1>3. ASSUME NEW q \in Tasks, KeyCreated(q)', ~KeyCreated(q)
      PROVE  q = t /\ newRaw' = t
  <2>1. q = t
    BY <1>3 DEF Moves, KeyCreated
  <2>2. task[t].phase # "idle" => task'[t].op = task[t].op /\ task'[t].view = task[t].view
    BY DEF Moves, Carries
  <2>3. ~(task[t].result = "ok" /\ task[t].phase # "idle")
    BY <1>3, <2>1, <2>2 DEF KeyCreated
  <2>4. KeyCreated(t)' => task'[t].result # "none"
    BY DEF KeyCreated
  <2>5. QED
    BY <1>3, <2>1, <2>3, <2>4 DEF Shape, KeyShape
<1>4. ASSUME NEW q \in Tasks, task'[q].op = "create", task'[q].view = "apiKeys",
             NEW p \in task'[q].after, KeyCreated(p)'
      PROVE  Known(p)'
  <2>1. SortsOK' /\ task'[q] \in Task
    BY MovesSorts DEF Moves
  <2>2. p \in Tasks /\ task'[p].phase = "done"
    BY <2>1 DEF SortsOK, SortOK, Task
  <2>3. CASE q = t /\ task[t].phase = "idle"
    <3>1. OnScreen("apiKeys") /\ p \in Over
      BY <1>4, <2>3 DEF Shape, TabShape, Moves, Carries
    <3>2. p # t /\ task'[p] = task[p]
      BY <2>2, <2>3, <3>1 DEF Moves, Over
    <3>3. KeyCreated(p)
      BY <1>4, <3>2 DEF KeyCreated
    <3>4. QED
      BY <1>2, <2>2, <3>1, <3>3, KnownStays
  <2>4. CASE ~(q = t /\ task[t].phase = "idle")
    <3>1. /\ task[q].op = "create" /\ task[q].view = "apiKeys" /\ p \in task[q].after
      BY <1>4, <2>4 DEF Moves, Carries
    <3>2. task[p].phase = "done"
      BY <3>1, TaskOf DEF SortOK
    <3>3. KeyCreated(p)
      <4>1. CASE p = t
        BY <1>4, <3>2, <4>1 DEF Moves, Carries, KeyCreated
      <4>2. CASE p # t
        BY <1>4, <2>2, <4>2 DEF Moves, KeyCreated
      <4>3. QED
        BY <4>1, <4>2
    <3>4. QED
      BY <2>2, <3>1, <3>3, KnownStays DEF KeysInv
  <2>5. QED
    BY <2>3, <2>4
<1>5. ASSUME NEW q \in Tasks, KeyCreated(q)' PROVE newRaw' = q \/ Known(q)'
  <2>1. CASE ~KeyCreated(q)
    BY <1>3, <1>5, <2>1
  <2>2. CASE KeyCreated(q) /\ Known(q)
    BY <2>2, KnownStays
  <2>3. CASE KeyCreated(q) /\ newRaw = q
    <3>1. CASE newRaw' = newRaw
      BY <2>3, <3>1
    <3>2. CASE OnScreen("apiKeys")
      BY <1>2, <2>3, <3>2, KnownStays
    <3>3. CASE newRaw' = t /\ task[t].phase = "call" /\ KeyCreated(t)'
      <4>1. CASE q = t
        BY <3>3, <4>1
      <4>2. CASE q # t
        <5>1. task[t].op = "create" /\ task[t].view = "apiKeys" /\ Begun(t) /\ Begun(q)
          BY <2>3, <3>3 DEF Moves, Carries, KeyCreated, Begun
        <5>2. CASE q \in task[t].after
          BY <2>3, <5>1, <5>2, KnownStays DEF KeysInv
        <5>3. CASE q \notin task[t].after
          <6>1. t \notin task[q].after
            BY <3>3, TaskOf DEF SortOK
          <6>2. Overlap(t, q)
            BY <4>2, <5>1, <5>3, <6>1 DEF Overlap
          <6>3. Overlap(t, q)'
            BY <6>2, OverlapStays
          <6>4. QED
            BY <3>3, <6>3 DEF Known
        <5>4. QED
          BY <5>2, <5>3
      <4>3. QED
        BY <4>1, <4>2
    <3>4. QED
      BY <3>1, <3>2, <3>3 DEF Shape, KeyShape
  <2>4. QED
    BY <2>1, <2>2, <2>3 DEF KeysInv
<1>6. QED
  BY <1>1, <1>4, <1>5 DEF KeysInv

LEMMA KeysClick == ASSUME TInv, Click, KeysInv PROVE KeysInv'
<1>1. UNCHANGED <<task, newRaw, seen>>
  BY SelectPage, OtherClicks DEF Click, rest
<1>2. QED
  BY <1>1 DEF KeysInv, Known, KeyCreated, Overlap, Begun

ControlsInv == ShownInv /\ MarkedInv /\ KeysInv

LEMMA ControlsInit == Init => ControlsInv
<1> SUFFICES ASSUME Init PROVE ControlsInv
  OBVIOUS
<1> HIDE DEF NewTask
<1>1. \A t \in Tasks : task[t] = NewTask
  BY DEF Init
<1>2. ShownInv
  <2>1. Cardinality({}) = 0
    BY FS_EmptySet
  <2>2. openId = [v \in WithPanel |-> None] /\ selected = {} /\ newRaw = None
    BY DEF Init
  <2>3. QED
    BY <2>1, <2>2, FirstPage DEF ShownInv
<1>3. MarkedInv
  BY <1>1, FirstPage, NewTaskFacts DEF MarkedInv, Marked
<1>4. KeysInv
  BY <1>1, NewTaskFacts DEF KeysInv, KeyCreated, Asking
<1>5. QED
  BY <1>2, <1>3, <1>4 DEF ControlsInv

LEMMA ControlsStep == TInv /\ ControlsInv /\ [Next]_vars => ControlsInv'
<1> SUFFICES ASSUME TInv, ControlsInv, [Next]_vars PROVE ControlsInv'
  OBVIOUS
<1>1. ASSUME NEW t \in Tasks, TaskStep(t) PROVE ControlsInv'
  BY <1>1, StepShape, ShownTask, MarkedTask, KeysTask DEF ControlsInv
<1>2. ASSUME Click PROVE ControlsInv'
  BY <1>2, ShownClick, MarkedClick, KeysClick DEF ControlsInv
<1>3. CASE UNCHANGED vars
  <2>1. UNCHANGED <<tab, query, openId, selected, newRaw, seen, screen, task>>
    BY <1>3 DEF vars, page, nav, rest
  <2>2. ShownInv' /\ MarkedInv' /\ KeysInv'
    BY <2>1 DEF ControlsInv, ShownInv, MarkedInv, Marked, KeysInv, Known, KeyCreated, Overlap, Begun
  <2>3. QED
    BY <2>2 DEF ControlsInv
<1>4. QED
  BY <1>1, <1>2, <1>3 DEF Next, TaskStep

\* Whoever paints last, the controls of the view are those of _state, and the marked tab is the
\* view's unless a choice of tabs overlapped a task of it.
THEOREM ControlsCorrect == Spec => []ControlsMatchState
<1>1. TInv /\ ControlsInv => ControlsMatchState
  BY DEF TInv, ScreenOK, ControlsInv, ShownInv, MarkedInv, Marked, ControlsMatchState
<1>2. QED
  BY <1>1, ControlsInit, ControlsStep, TInvAlways, PTL DEF Spec

\* The raw form of a new API key is on a banner, or waits for one, or another creation that
\* overlapped took its place: no tab, failed render or dismissal loses it.
THEOREM KeysCorrect == Spec => []KeySeenOrReplaced
<1>1. ControlsInv => KeySeenOrReplaced
  BY DEF ControlsInv, KeysInv, Known, KeySeenOrReplaced
<1>2. QED
  BY <1>1, ControlsInit, ControlsStep, TInvAlways, PTL DEF Spec
=============================================================================
