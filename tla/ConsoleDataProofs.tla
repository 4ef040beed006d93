-------------------------- MODULE ConsoleDataProofs --------------------------
(***************************************************************************)
(* What the admin console's handlers do to the server's lists, settings    *)
(* and templates, and what its views make of the answers: the settings a   *)
(* click leaves, the content a save replaces, the rows a view shows, the   *)
(* users who are selected.                                                 *)
(***************************************************************************)
EXTENDS AdminConsoleProofs

-----------------------------------------------------------------------------
(* How a handler of a setting goes from call to call *)

CallsInOrder(t) ==
    /\ task'[t].phase \in Asking => task'[t].reply = "none"
    /\ task'[t].phase = "read" => task[t].phase = "idle"
    /\ task'[t].op = "toggleAction" /\ task'[t].phase = "call" =>
         /\ task[t].phase = "read" /\ task[t].reply = "ok"
         /\ task'[t].ids = Switch(task[t].ids, task[t].item, task[t].value)
    /\ task'[t].phase = "policy" => task[t].phase = "call" /\ task[t].reply = "ok"
    /\ task[t].phase # "idle" /\ task'[t].result = "ok" /\ task[t].result # "ok" =>
         /\ task[t].op = "updateSetting" => task[t].phase = "policy"
         /\ task[t].op # "updateSetting" => task[t].phase = "call"
         /\ task[t].op # "deleteSelected" => task[t].reply = "ok"
         /\ task[t].op = "deleteSelected" => task[t].reply = "none" /\ task[t].ids = {}

LEMMA OtherStartsInOrder ==
    ASSUME TInv, NEW t \in Tasks, OtherStarts(t)
    PROVE  CallsInOrder(t)
<1> DEFINE Goal == /\ task'[t].reply = "none" /\ task'[t].phase # "policy"
                   /\ task'[t].op = "toggleAction" => task'[t].phase = "read"
<1>1. ASSUME DeleteSelected(t) PROVE Goal
  BY <1>1, DeleteSelectedMoves
<1>2. ASSUME ToggleWebhookAction(t) PROVE Goal
  BY <1>2, ToggleActionMoves
<1>3. ASSUME UpdateSetting(t) PROVE Goal
  BY <1>3, UpdateSettingMoves
<1>4. ASSUME SetBulk2FA(t) PROVE Goal
  BY <1>4, SetBulk2FAMoves
<1>5. ASSUME ListUploads(t) PROVE Goal
  BY <1>5, ListUploadsMoves
<1>6. ASSUME DeleteUpload(t) PROVE Goal
  BY <1>6, DeleteUploadMoves
<1>7. ASSUME SaveUiSettings(t) PROVE Goal
  BY <1>7, SaveUiMoves
<1>8. ASSUME SaveTemplate(t) \/ ResetMailTemplate(t) PROVE Goal
  <2>1. PICK op \in {"save", "reset"}, text \in Versions \cup {None} : Posts(t, op, text)
    BY <1>8, TextTyped DEF SaveTemplate, ResetMailTemplate
  <2>2. QED
    BY <2>1, PostsMoves
<1>9. Goal
  BY <1>1, <1>2, <1>3, <1>4, <1>5, <1>6, <1>7, <1>8 DEF OtherStarts
<1>10. task[t].phase = "idle"
  BY OtherStartsMoves
<1>11. QED
  BY <1>9, <1>10 DEF CallsInOrder

LEMMA RerendersInOrder ==
    ASSUME TInv, NEW t \in Tasks, Rerenders(t)
    PROVE  CallsInOrder(t)
<1>1. task'[t].phase \in {"list", "done"}
  BY RerendersMoves DEF Rendered
<1>2. CASE HandlerResumes(t)
  BY <1>1, <1>2, HandlersResume DEF CallsInOrder, Asking
<1>3. CASE ApiKeyCreated(t)
  BY <1>1, <1>3, ApiKeyMoves DEF CallsInOrder, Asking
<1>4. CASE WebhookSaved(t)
  BY <1>1, <1>4, WebhookSavedMoves DEF CallsInOrder, Asking
<1>5. QED
  BY <1>2, <1>3, <1>4 DEF Rerenders

LEMMA QuietInOrder ==
    ASSUME TInv, NEW t \in Tasks, Quiet(t)
    PROVE  CallsInOrder(t)
<1>1. CASE NotChanged(t)
  BY <1>1, NotChangedMoves DEF CallsInOrder, Asking
<1>2. CASE MemberChanged(t)
  <2>1. task[t].phase = "call" /\ task[t].op = "member" /\ task[t].reply = "ok"
    BY <1>2 DEF MemberChanged, Got
  <2>2. QED
    BY <1>2, <2>1, MemberChangedMoves DEF CallsInOrder, Asking
<1>3. CASE WriteActions(t)
  <2>1. task[t].phase = "read" /\ task[t].reply = "ok"
    BY <1>3 DEF WriteActions, Got
  <2>2. QED
    BY <1>3, <2>1, WriteActionsMoves DEF CallsInOrder, Asking
<1>4. CASE SettingUpdated(t)
  <2>1. task[t].phase = "call" /\ task[t].op = "updateSetting" /\ task[t].reply = "ok"
    BY <1>4 DEF SettingUpdated, Got
  <2>2. task'[t].op = "updateSetting"
    BY <1>4, <2>1, SettingUpdatedMoves DEF Moves, Carries
  <2>3. QED
    BY <1>4, <2>1, <2>2, SettingUpdatedMoves DEF CallsInOrder, Asking
<1>5. CASE PolicyUpdated(t)
  <2>1. task[t].phase = "policy" /\ task[t].op = "updateSetting"
    BY <1>5, TaskOf DEF PolicyUpdated, SortOK, Sort
  <2>2. QED
    BY <1>5, <2>1, PolicyUpdatedMoves DEF CallsInOrder, Asking
<1>6. CASE UiSettingsSaved(t)
  <2>1. task[t].phase = "call" /\ task[t].op = "saveUi" /\ task[t].reply = "ok"
    BY <1>6 DEF UiSettingsSaved, Got
  <2>2. QED
    BY <1>6, <2>1, UiSettingsSavedMoves DEF CallsInOrder, Asking
<1>7. CASE AskDetails(t)
  BY <1>7, AskDetailsMoves DEF CallsInOrder, Asking
<1>8. QED
  BY <1>1, <1>2, <1>3, <1>4, <1>5, <1>6, <1>7 DEF Quiet

LEMMA InPanelsInOrder ==
    ASSUME TInv, NEW t \in Tasks, InPanels(t)
    PROVE  CallsInOrder(t)
<1>1. CASE Uploaded(t)
  BY <1>1, UploadedMoves DEF CallsInOrder, Asking
<1>2. CASE UploadDeleted(t)
  BY <1>2, UploadDeletedMoves DEF CallsInOrder, Asking
<1>3. CASE FilesListed(t)
  <2>1. /\ task[t].phase = "files" /\ task'[t].phase = "done" /\ task'[t].reply = "none"
        /\ task'[t].result = task[t].result
    BY <1>3, FilesListedMoves
  <2>2. QED
    BY <2>1 DEF CallsInOrder, Asking
<1>4. CASE PanelLoaded(t)
  BY <1>4, PanelLoadedMoves DEF CallsInOrder, Asking
<1>5. QED
  BY <1>1, <1>2, <1>3, <1>4 DEF InPanels

LEMMA StepGroups ==
    ASSUME NEW t, Start(t) \/ Resume(t)
    PROVE  \/ Openings(t) \/ CallStarts(t) \/ OtherStarts(t)
           \/ Rerenders(t) \/ Quiet(t) \/ InPanels(t) \/ Shown(t) \/ ListFailed(t)
BY DEF Start, Resume, Openings, CallStarts, OtherStarts, Rerenders, HandlerResumes, Quiet,
       InPanels, Shown

LEMMA PageInOrder ==
    ASSUME TInv, NEW t \in Tasks, Start(t) \/ Resume(t)
    PROVE  CallsInOrder(t)
<1>1. CASE Openings(t)
  BY <1>1, OpeningsMoves DEF CallsInOrder, Rendered, Asking
<1>2. CASE CallStarts(t)
  BY <1>2, CallStartsMoves DEF CallsInOrder
<1>3. CASE Shown(t)
  BY <1>3, ShownMoves DEF CallsInOrder, Asking
<1>4. CASE ListFailed(t)
  BY <1>4, ListFailedMoves DEF CallsInOrder, Asking
<1>5. QED
  BY <1>1, <1>2, <1>3, <1>4, StepGroups, OtherStartsInOrder, RerendersInOrder, QuietInOrder,
     InPanelsInOrder

-----------------------------------------------------------------------------
(* Settings *)

\* What the server does with the calls of the Control tab.
SettingsServed(q) ==
    /\ task[q].op = "toggleAction" /\ task[q].phase = "read" /\ task'[q].reply = "ok" =>
         task'[q].ids = settings.enabled
    /\ task[q].op = "toggleAction" /\ task[q].phase = "call" =>
         /\ task'[q].ids = task[q].ids
         /\ task'[q].reply = "ok" => settings'.enabled = task[q].ids
    /\ task[q].op = "updateSetting" /\ task'[q].reply = "ok" =>
         /\ task[q].phase = "call" => settings'.require2FA = task[q].value
         /\ task[q].phase = "policy" => settings'.policy = task[q].value
    /\ settings'.enabled # settings.enabled =>
         task[q].op = "toggleAction" /\ task[q].phase = "call" /\ settings'.enabled = task[q].ids
    /\ settings'.require2FA # settings.require2FA =>
         task[q].op = "updateSetting" /\ task[q].phase = "call"
    /\ settings'.policy # settings.policy => SetsPolicy(q) /\ task[q].phase \in {"call", "policy"}

LEMMA SettingsServe ==
    ASSUME TInv, NEW q \in Tasks, Serve(q)
    PROVE  SettingsServed(q)
<1>1. task[q].phase = "read" => task[q].op = "toggleAction"
  BY TaskOf DEF SortOK, Sort
<1>2. task[q].phase = "policy" => task[q].op = "updateSetting"
  BY TaskOf DEF SortOK, Sort
<1>3. CASE ServeDeleteSelected(q)
  BY <1>3, ServeDeleteSelectedMoves DEF SettingsServed
<1>4. CASE ServeCall(q)
  BY <1>4, ServeCallMoves DEF SettingsServed
<1>5. CASE ServeList(q)
  BY <1>5, ServeListMoves DEF SettingsServed, server
<1>6. CASE FailList(q) \/ FailRead(q)
  BY <1>6, FailListMoves DEF SettingsServed, server
<1>7. CASE ServeSettings(q)
  BY <1>7, ServeSettingsMoves DEF SettingsServed, server
<1>8. CASE ServeFiles(q)
  BY <1>8, ServeFilesMoves DEF SettingsServed, server
<1>9. CASE ServeTemplates(q)
  BY <1>9, ServeTemplatesMoves DEF SettingsServed, server
<1>10. CASE ServeSave(q)
  BY <1>10, ServeSaveMoves DEF SettingsServed
<1>11. CASE ServeWrite(q)
  <2>1. /\ task[q].op \in {"toggleAction", "updateSetting", "bulk2FA", "saveUi"}
        /\ task[q].phase \in {"call", "policy"} /\ task'[q].ids = task[q].ids
        /\ Writes(q) \/ (UNCHANGED settings /\ task'[q].reply = "failed")
    BY <1>11, ServeWriteMoves
  <2>2. CASE UNCHANGED settings /\ task'[q].reply = "failed"
    BY <2>1, <2>2 DEF SettingsServed
  <2>3. CASE Writes(q)
    <3>1. DOMAIN settings = {"enabled", "require2FA", "policy", "logo"}
      BY DEF TInv, TypeOK
    <3>2. CASE task[q].op = "toggleAction"
      <4>1. settings' = [settings EXCEPT !.enabled = task[q].ids] /\ task[q].phase = "call"
        BY <1>2, <2>1, <2>3, <3>2 DEF Writes
      <4>2. QED
        BY <2>1, <3>1, <3>2, <4>1 DEF SettingsServed
    <3>3. CASE task[q].op = "bulk2FA" \/ task[q].phase = "policy"
      <4>1. settings' = [settings EXCEPT !.policy = task[q].value] /\ SetsPolicy(q)
            /\ (task[q].op = "updateSetting" => task[q].phase = "policy")
        BY <1>2, <2>3, <3>3 DEF Writes, SetsPolicy
      <4>2. QED
        BY <1>2, <2>1, <3>1, <3>3, <4>1 DEF SettingsServed
    <3>4. CASE task[q].op = "saveUi"
      <4>1. settings' = [settings EXCEPT !.logo = task[q].text] /\ task[q].phase = "call"
        BY <1>2, <2>1, <2>3, <3>4 DEF Writes
      <4>2. QED
        BY <2>1, <3>1, <3>4, <4>1 DEF SettingsServed
    <3>5. CASE task[q].op = "updateSetting" /\ task[q].phase = "call"
      <4>1. settings' = [settings EXCEPT !.require2FA = task[q].value]
        BY <2>3, <3>5 DEF Writes
      <4>2. QED
        BY <2>1, <3>1, <3>5, <4>1 DEF SettingsServed
    <3>6. QED
      BY <2>1, <3>2, <3>3, <3>4, <3>5
  <2>4. QED
    BY <2>1, <2>2, <2>3
<1>12. QED
  BY <1>3, <1>4, <1>5, <1>6, <1>7, <1>8, <1>9, <1>10, <1>11 DEF Serve

Agrees(t, set) == task[t].value <=> task[t].item \in set

ToggledSince(t) == \E q \in Tasks : /\ Toggles(q)
                                    /\ Overlap(q, t) \/ (Later(q, t) /\ task[q].item = task[t].item)

\* A click that has read the list of actions and is about to write it.
HasRead(q) == (task[q].phase = "read" /\ task[q].reply = "ok") \/ task[q].phase = "call"

ToggleInv(t) ==
    Toggles(t) =>
        /\ task[t].phase = "call" => Agrees(t, task[t].ids)
        /\ task[t].phase = "call" /\ task[t].reply = "ok" =>
             ToggledSince(t) \/ Agrees(t, settings.enabled)
        /\ task[t].result = "ok" =>
             \/ ToggledSince(t)
             \/ /\ Agrees(t, settings.enabled)
                /\ \A q \in Tasks : Toggles(q) /\ Later(q, t) /\ HasRead(q) => Agrees(t, task[q].ids)

SetSince(t) == \E q \in Tasks : SetsPolicy(q) /\ (Overlap(q, t) \/ Later(q, t))

PolicyInv(t) ==
    task[t].op = "updateSetting" =>
        \/ SetSince(t)
        \/ /\ (task[t].phase = "call" /\ task[t].reply = "ok") \/ task[t].phase = "policy"
                \/ task[t].result = "ok" => settings.require2FA = task[t].value
           /\ (task[t].phase = "policy" /\ task[t].reply = "ok") \/ task[t].result = "ok" =>
                settings.policy = task[t].value

SettingsInv == \A t \in Tasks : ToggleInv(t) /\ PolicyInv(t)

\* Of two tasks that began, one that is not over is no earlier than the other.
LEMMA LiveMeet ==
    ASSUME TInv, NEW q \in Tasks, NEW t \in Tasks, q # t, Begun(t),
           task[q].phase \notin {"idle", "done"}
    PROVE  Overlap(q, t) \/ Later(q, t)
<1>1. Begun(q) /\ q \notin task[t].after
  BY TaskOf DEF SortOK, Sort, Begun
<1>2. QED
  BY <1>1 DEF Overlap, Later

LEMMA ItemStays ==
    ASSUME TInv, NEW t \in Tasks, Moves(t), NEW q \in Tasks, Begun(q)
    PROVE  task'[q].item = task[q].item /\ task'[q].value = task[q].value
           /\ task'[q].kind = task[q].kind /\ task'[q].base = task[q].base
           /\ task'[q].quiet = task[q].quiet /\ task'[q].removed = task[q].removed
<1>1. task[q].phase # "idle"
  BY TaskOf DEF Begun, SortOK, Sort
<1>2. QED
  BY <1>1 DEF Moves, Carries

LEMMA LaterStays ==
    ASSUME TInv, NEW t \in Tasks, Moves(t), NEW q \in Tasks, NEW p \in Tasks, Later(q, p)
    PROVE  Later(q, p)'
BY Steady DEF Later

LEMMA SinceStays ==
    ASSUME TInv, NEW t \in Tasks, Moves(t), NEW p \in Tasks, Begun(p)
    PROVE  (ToggledSince(p) => ToggledSince(p)') /\ (SetSince(p) => SetSince(p)')
<1>1. ASSUME NEW q \in Tasks, Toggles(q),
             Overlap(q, p) \/ (Later(q, p) /\ task[q].item = task[p].item)
      PROVE  ToggledSince(p)'
  <2>1. Begun(q)
    BY <1>1 DEF Toggles, Begun
  <2>2. Toggles(q)' /\ (Overlap(q, p)' \/ (Later(q, p)' /\ task'[q].item = task'[p].item))
    BY <1>1, <2>1, Steady, ItemStays, OverlapStays, LaterStays DEF Toggles
  <2>3. QED
    BY <2>2 DEF ToggledSince
<1>2. ASSUME NEW q \in Tasks, SetsPolicy(q), Overlap(q, p) \/ Later(q, p)
      PROVE  SetSince(p)'
  <2>1. Begun(q)
    BY <1>2 DEF SetsPolicy, Begun
  <2>2. SetsPolicy(q)' /\ (Overlap(q, p)' \/ Later(q, p)')
    BY <1>2, <2>1, Steady, OverlapStays, LaterStays DEF SetsPolicy
  <2>3. QED
    BY <2>2 DEF SetSince
<1>3. QED
  BY <1>1, <1>2 DEF ToggledSince, SetSince

\* A step of a task, as the settings see it.
SettingsStep(m) == \/ UNCHANGED settings /\ CallsInOrder(m)
                   \/ Waits(m) /\ SettingsServed(m) /\ task[m].phase # "idle"

LEMMA SettingsSteps ==
    ASSUME TInv, NEW m \in Tasks, TaskStep(m) PROVE SettingsStep(m)
<1>1. CASE (Start(m) \/ Resume(m)) /\ UNCHANGED server
  BY <1>1, PageInOrder DEF SettingsStep, server
<1>2. CASE Serve(m)
  BY <1>2, ServeMoves, SettingsServe DEF SettingsStep
<1>3. QED
  BY <1>1, <1>2 DEF TaskStep

AgreesNext(t, set) == task'[t].value <=> task'[t].item \in set

\* A list that a click has just made, or that it writes, agrees with it.
LEMMA OwnListAgrees ==
    ASSUME TInv, SettingsInv, NEW t \in Tasks, Moves(t), SettingsStep(t), Toggles(t)',
           task'[t].phase = "call"
    PROVE  AgreesNext(t, task'[t].ids)
<1>1. CASE CallsInOrder(t)
  <2>1. /\ task[t].phase = "read"
        /\ task'[t].ids = Switch(task[t].ids, task[t].item, task[t].value)
    BY <1>1 DEF CallsInOrder, Toggles
  <2>2. task'[t].item = task[t].item /\ task'[t].value = task[t].value
    BY <2>1 DEF Moves, Carries
  <2>3. QED
    BY <2>1, <2>2 DEF Agrees, AgreesNext, Switch
<1>2. CASE Waits(t) /\ SettingsServed(t) /\ task[t].phase # "idle"
  <2>1. task[t].phase = "call"
    BY <1>2 DEF Waits
  <2>2. /\ task'[t].op = task[t].op /\ task'[t].item = task[t].item
        /\ task'[t].value = task[t].value
    BY <1>2 DEF Moves, Carries
  <2>3. task'[t].ids = task[t].ids /\ Agrees(t, task[t].ids)
    BY <1>2, <2>1, <2>2 DEF SettingsServed, SettingsInv, ToggleInv, Toggles
  <2>4. QED
    BY <2>2, <2>3 DEF Agrees, AgreesNext
<1>3. QED
  BY <1>1, <1>2 DEF SettingsStep

LEMMA ToggleStep ==
    ASSUME TInv, KeysInv, KeysInv', SettingsInv, NEW m \in Tasks, Moves(m), Shape(m),
           SettingsStep(m), NEW t \in Tasks
    PROVE  ToggleInv(t)'
<1> SUFFICES ASSUME Toggles(t)' PROVE ToggleInv(t)'
  BY DEF ToggleInv
<1>1. CASE t = m /\ task[m].phase = "idle"
  <2>1. task'[t].phase # "call" /\ task'[t].result = "none"
    BY <1>1 DEF SettingsStep, CallsInOrder, Toggles, Shape, ResultShape
  <2>2. QED
    BY <2>1 DEF ToggleInv
<1>2. CASE ~(t = m /\ task[m].phase = "idle")
  <2>1. Toggles(t) /\ Begun(t)
    BY <1>2 DEF Moves, Carries, Toggles, Begun
  <2>2. /\ ToggleInv(t) /\ task'[t].item = task[t].item /\ task'[t].value = task[t].value
        /\ \A S : AgreesNext(t, S) <=> Agrees(t, S)
    BY <2>1, ItemStays DEF SettingsInv, Agrees, AgreesNext
  <2>3. ToggledSince(t) => ToggledSince(t)'
    BY <2>1, SinceStays
  \* Another click that writes the list now either overlaps this one or is later.
  <2>4. settings'.enabled # settings.enabled =>
          /\ Toggles(m) /\ task[m].phase = "call" /\ settings'.enabled = task[m].ids
          /\ t # m => Overlap(m, t) \/ Later(m, t)
    <3>1. settings'.enabled # settings.enabled =>
            Toggles(m) /\ task[m].phase = "call" /\ settings'.enabled = task[m].ids
      BY DEF SettingsStep, SettingsServed, Toggles
    <3>2. QED
      BY <2>1, <3>1, LiveMeet
  <2>5. task'[t].phase = "call" => AgreesNext(t, task'[t].ids)
    <3>1. CASE t = m
      BY <3>1, OwnListAgrees
    <3>2. CASE t # m
      BY <2>1, <3>2, <2>2 DEF Moves, ToggleInv, Agrees, AgreesNext
    <3>3. QED
      BY <3>1, <3>2
  <2>6. ASSUME task'[t].phase = "call", task'[t].reply = "ok", ~ToggledSince(t)
        PROVE  AgreesNext(t, settings'.enabled)
    <3>1. CASE t = m
      <4>1. Waits(m) /\ SettingsServed(m)
        BY <2>6, <3>1 DEF SettingsStep, CallsInOrder, Asking
      <4>2. task[t].phase = "call" /\ settings'.enabled = task[t].ids
        BY <2>1, <2>6, <3>1, <4>1 DEF Waits, SettingsServed, Toggles
      <4>3. Agrees(t, task[t].ids)
        BY <2>1, <2>2, <4>2 DEF ToggleInv
      <4>4. QED
        BY <2>2, <4>2, <4>3 DEF Agrees, AgreesNext
    <3>2. CASE t # m
      <4>1. task'[t] = task[t]
        BY <3>2 DEF Moves
      <4>2. Agrees(t, settings.enabled)
        BY <2>1, <2>2, <2>6, <4>1 DEF ToggleInv
      <4>3. settings'.enabled = settings.enabled
        <5>1. ~Later(m, t)
          BY <2>6, <4>1, TaskOf DEF Later, SortOK
        <5>2. Toggles(m) /\ Overlap(m, t) => ToggledSince(t)
          BY DEF ToggledSince
        <5>3. QED
          BY <2>4, <2>6, <3>2, <5>1, <5>2
      <4>4. QED
        BY <4>1, <4>2, <4>3 DEF Agrees, AgreesNext
    <3>3. QED
      BY <3>1, <3>2
  <2>7. ASSUME task'[t].result = "ok", ~ToggledSince(t)
        PROVE  Agrees(t, settings.enabled) /\ AgreesNext(t, settings'.enabled)
    <3>1. CASE t = m /\ task[t].result # "ok"
      <4>1. UNCHANGED settings /\ task[t].phase = "call" /\ task[t].reply = "ok"
        BY <1>2, <2>1, <2>7, <3>1 DEF SettingsStep, CallsInOrder, Waits, Toggles
      <4>2. Agrees(t, settings.enabled)
        BY <2>1, <2>2, <2>7, <4>1 DEF ToggleInv
      <4>3. QED
        BY <2>2, <4>1, <4>2 DEF Agrees, AgreesNext
    <3>2. CASE t # m \/ task[t].result = "ok"
      <4>1. task[t].result = "ok"
        BY <2>7, <3>2 DEF Moves
      <4>2. /\ Agrees(t, settings.enabled) /\ task[t].phase # "call"
            /\ \A q \in Tasks : Toggles(q) /\ Later(q, t) /\ HasRead(q) => Agrees(t, task[q].ids)
        BY <2>1, <2>2, <2>7, <4>1 DEF ToggleInv, KeysInv, Asking
      <4>3. CASE settings'.enabled = settings.enabled
        BY <2>2, <4>2, <4>3 DEF Agrees, AgreesNext
      <4>4. CASE settings'.enabled # settings.enabled
        <5>1. t # m /\ Toggles(m) /\ HasRead(m) /\ settings'.enabled = task[m].ids
          BY <2>4, <4>2, <4>4 DEF HasRead
        <5>2. ~Overlap(m, t)
          BY <2>7, <5>1 DEF ToggledSince
        <5>3. Agrees(t, task[m].ids)
          BY <2>4, <4>2, <4>4, <5>1, <5>2
        <5>4. QED
          BY <2>2, <4>2, <5>1, <5>3 DEF Agrees, AgreesNext
      <4>5. QED
        BY <4>3, <4>4
    <3>3. QED
      BY <3>1, <3>2
  <2>8. ASSUME task'[t].result = "ok", ~ToggledSince(t), ~ToggledSince(t)',
               NEW q \in Tasks, Toggles(q)', Later(q, t)', HasRead(q)'
        PROVE  AgreesNext(t, task'[q].ids)
    <3>1. q # t
      BY <2>8 DEF KeysInv, HasRead, Asking
    <3>2. CASE q # m
      <4>1. task'[q] = task[q]
        BY <3>2 DEF Moves
      <4>2. Toggles(q) /\ Later(q, t) /\ HasRead(q) /\ task[t].phase = "done"
        BY <2>8, <4>1, TaskOf DEF Toggles, Later, Begun, HasRead, SortOK
      <4>3. task[t].result = "ok"
        BY <2>8, <4>2 DEF Moves, Carries
      <4>4. Agrees(t, task[q].ids)
        BY <2>1, <2>2, <2>8, <4>2, <4>3 DEF ToggleInv
      <4>5. QED
        BY <2>2, <4>1, <4>4 DEF Agrees, AgreesNext
    <3>3. CASE q = m
      <4>1. task'[t] = task[t]
        BY <3>1, <3>3 DEF Moves
      <4>2. CASE UNCHANGED settings /\ CallsInOrder(m)
        <5>1. /\ task[m].phase = "read" /\ task[m].reply = "ok"
              /\ task'[m].ids = Switch(task[m].ids, task[m].item, task[m].value)
          BY <2>8, <3>3, <4>2 DEF CallsInOrder, HasRead, Asking, Toggles
        <5>2. Toggles(m) /\ Later(m, t) /\ HasRead(m) /\ task'[m].item = task[m].item
          BY <2>8, <3>3, <5>1 DEF Moves, Carries, Toggles, Later, Begun, HasRead
        <5>3. Agrees(t, task[m].ids)
          BY <2>1, <2>2, <2>8, <4>1, <5>2 DEF ToggleInv
        <5>4. task[m].item # task[t].item
          BY <2>8, <5>2 DEF ToggledSince
        <5>5. QED
          BY <2>2, <3>3, <5>1, <5>3, <5>4 DEF Agrees, AgreesNext, Switch
      <4>3. CASE Waits(m) /\ SettingsServed(m) /\ task[m].phase # "idle"
        <5>1. Toggles(m) /\ Later(m, t) /\ task'[m].phase = task[m].phase
          BY <2>8, <3>3, <4>3 DEF Moves, Carries, Waits, Toggles, Later, Begun
        <5>2. CASE task[m].phase = "call"
          <6>1. Agrees(t, task[m].ids) /\ task'[m].ids = task[m].ids
            BY <2>1, <2>2, <2>8, <4>1, <4>3, <5>1, <5>2
               DEF ToggleInv, HasRead, SettingsServed, Toggles
          <6>2. QED
            BY <2>2, <3>3, <6>1 DEF Agrees, AgreesNext
        <5>3. CASE task[m].phase = "read"
          <6>1. task'[m].ids = settings.enabled
            BY <2>8, <3>3, <4>3, <5>1, <5>3 DEF SettingsServed, HasRead, Toggles
          <6>2. QED
            BY <2>2, <2>7, <2>8, <3>3, <6>1 DEF Agrees, AgreesNext
        <5>4. QED
          BY <2>8, <3>3, <5>1, <5>2, <5>3 DEF HasRead
      <4>4. QED
        BY <4>2, <4>3 DEF SettingsStep
    <3>4. QED
      BY <3>2, <3>3
  <2>9. QED
    BY <2>3, <2>5, <2>6, <2>7, <2>8 DEF ToggleInv, Agrees, AgreesNext
<1>3. QED
  BY <1>1, <1>2

LEMMA PolicyStep ==
    ASSUME TInv, KeysInv, SettingsInv, NEW m \in Tasks, Moves(m), Shape(m), SettingsStep(m),
           NEW t \in Tasks
    PROVE  PolicyInv(t)'
<1> SUFFICES ASSUME task'[t].op = "updateSetting" PROVE PolicyInv(t)'
  BY DEF PolicyInv
<1>1. CASE t = m /\ task[m].phase = "idle"
  <2>1. CallsInOrder(t)
    BY <1>1 DEF SettingsStep
  <2>2. /\ task'[t].result = "none" /\ task'[t].phase # "policy"
        /\ task'[t].phase = "call" => task'[t].reply = "none"
    BY <1>1, <2>1 DEF CallsInOrder, Shape, ResultShape, Asking
  <2>3. QED
    BY <2>2 DEF PolicyInv
<1>2. CASE ~(t = m /\ task[m].phase = "idle")
  <2>1. task[t].op = "updateSetting" /\ Begun(t)
    BY <1>2 DEF Moves, Carries, Begun
  <2>2. PolicyInv(t) /\ task'[t].value = task[t].value
    BY <2>1, ItemStays DEF SettingsInv
  <2>3. CASE SetSince(t)
    BY <2>1, <2>3, SinceStays DEF PolicyInv
  <2>4. CASE ~SetSince(t)
    <3>1. /\ (task[t].phase = "call" /\ task[t].reply = "ok") \/ task[t].phase = "policy"
               \/ task[t].result = "ok" => settings.require2FA = task[t].value
          /\ (task[t].phase = "policy" /\ task[t].reply = "ok") \/ task[t].result = "ok" =>
               settings.policy = task[t].value
      BY <2>1, <2>2, <2>4 DEF PolicyInv
    <3>2. CASE t # m
      <4>1. task'[t] = task[t]
        BY <3>2 DEF Moves
      <4>2. settings'.require2FA = settings.require2FA /\ settings'.policy = settings.policy
        <5>1. ~(SetsPolicy(m) /\ task[m].phase \in {"call", "policy"})
          BY <2>1, <2>4, <3>2, LiveMeet DEF SetSince
        <5>2. QED
          BY <5>1 DEF SettingsStep, SettingsServed, SetsPolicy
      <4>3. QED
        BY <2>1, <3>1, <4>1, <4>2 DEF PolicyInv
    <3>3. CASE t = m
      <4>1. CASE UNCHANGED settings /\ CallsInOrder(m)
        <5>1. ASSUME task'[t].phase = "call", task'[t].reply = "ok" PROVE FALSE
          BY <3>3, <4>1, <5>1 DEF CallsInOrder, Asking
        <5>2. ASSUME task'[t].phase = "policy"
              PROVE  task'[t].reply = "none" /\ settings.require2FA = task[t].value
          BY <3>1, <3>3, <4>1, <5>2 DEF CallsInOrder, Asking
        <5>3. ASSUME task'[t].result = "ok"
              PROVE  settings.require2FA = task[t].value /\ settings.policy = task[t].value
          <6>1. CASE task[t].result = "ok"
            BY <3>1, <6>1
          <6>2. CASE task[t].result # "ok"
            BY <1>2, <2>1, <3>1, <3>3, <4>1, <5>3, <6>2 DEF CallsInOrder
          <6>3. QED
            BY <6>1, <6>2
        <5>4. QED
          BY <2>2, <4>1, <5>1, <5>2, <5>3 DEF PolicyInv
      <4>2. CASE Waits(m) /\ SettingsServed(m)
        <5>1. task'[t].phase = task[t].phase /\ task'[t].result = task[t].result
          BY <3>3, <4>2 DEF Waits
        <5>2. task[t].result = "ok" => task[t].phase \notin {"call", "policy"}
          BY DEF KeysInv, Asking
        <5>3. settings'.require2FA # settings.require2FA => task[t].phase = "call"
          BY <3>3, <4>2 DEF SettingsServed
        <5>4. settings'.policy # settings.policy => task[t].phase \in {"call", "policy"}
          BY <3>3, <4>2 DEF SettingsServed
        <5>5. CASE task[t].phase = "call"
          <6>1. task'[t].reply = "ok" => settings'.require2FA = task[t].value
            BY <2>1, <3>3, <4>2, <5>5 DEF SettingsServed
          <6>2. QED
            BY <2>2, <5>1, <5>2, <5>5, <6>1 DEF PolicyInv
        <5>6. CASE task[t].phase = "policy"
          <6>1. task'[t].reply = "ok" => settings'.policy = task[t].value
            BY <2>1, <3>3, <4>2, <5>6 DEF SettingsServed
          <6>2. settings'.require2FA = task[t].value
            BY <3>1, <5>3, <5>6
          <6>3. QED
            BY <2>2, <5>1, <5>2, <5>6, <6>1, <6>2 DEF PolicyInv
        <5>7. CASE task[t].phase \notin {"call", "policy"}
          BY <2>2, <3>1, <5>1, <5>3, <5>4, <5>7 DEF PolicyInv
        <5>8. QED
          BY <5>5, <5>6, <5>7
      <4>3. QED
        BY <4>1, <4>2 DEF SettingsStep
    <3>4. QED
      BY <3>2, <3>3
  <2>5. QED
    BY <2>3, <2>4
<1>3. QED
  BY <1>1, <1>2

\* A click that has written its list, if any was, has one in effect.
EffectInv ==
    (\E t \in Tasks : Toggles(t) /\ (Got(t, "call", "ok") \/ task[t].result = "ok")) =>
        \E t \in Tasks : InEffect(t)

PartedInv == settings.policy # settings.require2FA => \E t \in Tasks : Parts(t) /\ ~Mended(t)

LEMMA EffectStep ==
    ASSUME TInv, SettingsInv, EffectInv, NEW m \in Tasks, Moves(m), Shape(m), SettingsStep(m)
    PROVE  EffectInv'
<1>1. ASSUME Toggles(m), task[m].phase = "call", Waits(m), settings'.enabled = task[m].ids
      PROVE  InEffect(m)'
  <2>1. Agrees(m, task[m].ids) /\ task[m].value \in BOOLEAN
    BY <1>1, TaskOf DEF SettingsInv, ToggleInv, Task
  <2>2. /\ task'[m].op = task[m].op /\ task'[m].phase = "call" /\ task'[m].item = task[m].item
        /\ task'[m].value = task[m].value
    BY <1>1 DEF Moves, Carries, Waits
  <2>3. task[m].value = (task[m].item \in task[m].ids)
    BY <2>1 DEF Agrees
  <2>4. QED
    BY <1>1, <2>2, <2>3 DEF InEffect, Toggles
<1>2. ASSUME NEW t \in Tasks, InEffect(t), settings'.enabled = settings.enabled
      PROVE  InEffect(t)'
  <2>1. Begun(t)
    BY <1>2 DEF InEffect, Toggles, Begun
  <2>2. task'[t].op = task[t].op /\ task'[t].item = task[t].item /\ task'[t].value = task[t].value
    BY <2>1, Steady, ItemStays
  <2>3. task'[t].phase # "read"
    <3>1. task[t].phase \notin {"idle", "read"}
      BY <1>2, <2>1, TaskOf DEF InEffect, Begun, SortOK, Sort
    <3>2. CASE t = m
      BY <3>1, <3>2 DEF SettingsStep, CallsInOrder, Waits
    <3>3. CASE t # m
      BY <3>1, <3>3 DEF Moves
    <3>4. QED
      BY <3>2, <3>3
  <2>4. QED
    BY <1>2, <2>2, <2>3 DEF InEffect, Toggles
<1>3. CASE settings'.enabled # settings.enabled
  BY <1>1, <1>3 DEF SettingsStep, SettingsServed, Toggles, EffectInv
<1>4. CASE settings'.enabled = settings.enabled
  <2> SUFFICES ASSUME NEW t \in Tasks, Toggles(t)', Got(t, "call", "ok")' \/ task'[t].result = "ok"
               PROVE  \E q \in Tasks : InEffect(q)'
    BY DEF EffectInv
  <2>1. CASE Toggles(t) /\ (Got(t, "call", "ok") \/ task[t].result = "ok")
    BY <1>2, <1>4, <2>1 DEF EffectInv
  <2>2. CASE ~(Toggles(t) /\ (Got(t, "call", "ok") \/ task[t].result = "ok"))
    <3>1. t = m
      BY <2>2 DEF Moves, Toggles, Got
    <3>2. task[m].phase # "idle"
      BY <3>1 DEF SettingsStep, CallsInOrder, Toggles, Got, Asking, Shape, ResultShape
    <3>3. Toggles(m)
      BY <3>1, <3>2 DEF Moves, Carries, Toggles
    <3>4. ~(UNCHANGED settings /\ CallsInOrder(m))
      BY <2>2, <3>1, <3>2, <3>3 DEF CallsInOrder, Got, Asking, Toggles
    <3>5. /\ Waits(m) /\ SettingsServed(m)
          /\ task[m].phase = "call" /\ task'[m].reply = "ok"
      BY <2>2, <3>1, <3>3, <3>4 DEF SettingsStep, Waits, Got
    <3>6. settings'.enabled = task[m].ids
      BY <3>3, <3>5 DEF SettingsServed, Toggles
    <3>7. QED
      BY <1>1, <3>3, <3>5, <3>6
  <2>3. QED
    BY <2>1, <2>2
<1>5. QED
  BY <1>3, <1>4

\* What sets the two apart goes on doing so, unless it is answered in full.
LEMMA PartsStay ==
    ASSUME TInv, NEW m \in Tasks, Moves(m), Shape(m), NEW t \in Tasks, Parts(t), ~Mended(t),
           task'[m].result = "ok" => task[m].result = "ok" \/ task[m].op # "updateSetting"
    PROVE  Parts(t)' /\ ~Mended(t)'
<1>1. Begun(t) /\ task'[t].op = task[t].op
  BY Steady DEF Parts, SetsPolicy, Begun
<1>2. task'[t].result = "ok" => task[t].result = "ok" \/ task[t].op = "bulk2FA"
  BY DEF Moves, Parts, SetsPolicy
<1>3. ASSUME NEW q \in Tasks, SetsPolicy(q), Overlap(q, t) PROVE SetsPolicy(q)' /\ Overlap(q, t)'
  BY <1>3, Steady, OverlapStays DEF Overlap, SetsPolicy
<1>4. Parts(t)'
  BY <1>1, <1>2, <1>3 DEF Parts, SetsPolicy
<1>5. ASSUME NEW q \in Tasks, task'[q].op = "updateSetting", task'[q].result = "ok", Later(q, t)'
      PROVE  FALSE
  <2>1. CASE q = m /\ task[m].phase = "idle"
    BY <1>5, <2>1 DEF Shape, ResultShape
  <2>2. CASE ~(q = m /\ task[m].phase = "idle")
    <3>1. task[q].op = "updateSetting" /\ task[q].result = "ok" /\ Later(q, t)
      BY <1>5, <2>2 DEF Moves, Carries, Later, Begun
    <3>2. QED
      BY <3>1 DEF Mended
  <2>3. QED
    BY <2>1, <2>2
<1>6. QED
  BY <1>4, <1>5 DEF Mended

LEMMA PartedStep ==
    ASSUME TInv, KeysInv, SettingsInv, PartedInv, NEW m \in Tasks, Moves(m), Shape(m),
           SettingsStep(m)
    PROVE  PartedInv'
<1> SUFFICES ASSUME settings'.policy # settings'.require2FA
             PROVE  \E t \in Tasks : Parts(t)' /\ ~Mended(t)'
  BY DEF PartedInv
\* Nothing is later than a task that is not over.
<1>1. ASSUME task[m].phase \in Asking, Parts(m)' PROVE \E t \in Tasks : Parts(t)' /\ ~Mended(t)'
  <2>1. ASSUME NEW q \in Tasks, Later(q, m)' PROVE FALSE
    <3>1. CASE q = m
      BY <1>1, <2>1, <3>1, TaskOf DEF Later, Moves, Carries, Asking, SortOK
    <3>2. CASE q # m
      BY <1>1, <2>1, <3>2, TaskOf DEF Later, Moves, Asking, SortOK
    <3>3. QED
      BY <3>1, <3>2
  <2>2. QED
    BY <1>1, <2>1 DEF Mended
<1>2. CASE settings.policy = settings.require2FA
  <2>1. /\ Waits(m) /\ SetsPolicy(m) /\ task[m].phase \in {"call", "policy"}
    BY <1>2 DEF SettingsStep, SettingsServed, SetsPolicy
  <2>2. task[m].result = "none"
    BY <2>1 DEF KeysInv, Asking
  <2>3. task'[m].op = task[m].op /\ task'[m].result = "none"
    BY <2>1, <2>2 DEF Moves, Carries, Waits
  <2>4. QED
    BY <1>1, <2>1, <2>3 DEF Parts, SetsPolicy, Asking
<1>3. CASE settings.policy # settings.require2FA
  <2>1. PICK t \in Tasks : Parts(t) /\ ~Mended(t)
    BY <1>3 DEF PartedInv
  <2>2. CASE task'[m].result = "ok" => task[m].result = "ok" \/ task[m].op # "updateSetting"
    BY <2>1, <2>2, PartsStay
  <2>3. CASE task'[m].result = "ok" /\ task[m].result # "ok" /\ task[m].op = "updateSetting"
    <3>1. task[m].phase # "idle" /\ Begun(m)
      BY <2>3, TaskOf DEF SortOK, Sort, Begun
    <3>2. UNCHANGED settings /\ Got(m, "policy", "ok")
      BY <2>3, <3>1 DEF SettingsStep, CallsInOrder, Waits, Got
    <3>3. SetSince(m)
      BY <1>3, <2>3, <3>2 DEF SettingsInv, PolicyInv, Got
    <3>4. PICK q \in Tasks : SetsPolicy(q) /\ (Overlap(q, m) \/ Later(q, m))
      BY <3>3 DEF SetSince
    <3>5. ~Later(q, m)
      BY <3>2, TaskOf DEF Later, SortOK, Got
    <3>6. SetsPolicy(q)' /\ Overlap(q, m)' /\ task'[m].op = "updateSetting"
      BY <2>3, <3>1, <3>4, <3>5, Steady, OverlapStays DEF SetsPolicy, Overlap
    <3>7. Parts(m)'
      BY <3>6 DEF Parts, SetsPolicy
    <3>8. QED
      BY <1>1, <3>2, <3>7 DEF Got, Asking
  <2>4. QED
    BY <2>2, <2>3
<1>4. QED
  BY <1>2, <1>3

AnswersInv == SettingsInv /\ EffectInv /\ PartedInv

LEMMA SettingsInit == Init => AnswersInv
<1> SUFFICES ASSUME Init PROVE AnswersInv
  OBVIOUS
<1> HIDE DEF NewTask
<1>1. \A t \in Tasks : task[t].op = "none"
  BY NewTaskFacts DEF Init
<1>2. SettingsInv /\ EffectInv
  BY <1>1 DEF SettingsInv, ToggleInv, PolicyInv, EffectInv, Toggles
<1>3. settings.policy = FALSE /\ settings.require2FA = FALSE
  BY DEF Init
<1>4. QED
  BY <1>2, <1>3 DEF AnswersInv, PartedInv

\* Clicks that start no handler leave the tasks and the server alone.
LEMMA ClickKeeps == ASSUME TInv, Click PROVE task' = task
BY SelectPage, OtherClicks DEF Click

LEMMA SettingsKept ==
    ASSUME AnswersInv, UNCHANGED <<task, settings>> PROVE AnswersInv'
<1>1. ASSUME NEW t \in Tasks PROVE ToggleInv(t)' /\ PolicyInv(t)'
  BY DEF AnswersInv, SettingsInv, ToggleInv, PolicyInv, Toggles, ToggledSince, SetSince, SetsPolicy,
         Agrees, HasRead, Later, Overlap, Begun
<1>2. EffectInv' /\ PartedInv'
  BY DEF AnswersInv, EffectInv, Toggles, Got, InEffect, PartedInv, Parts, Mended, SetsPolicy,
         Later, Overlap, Begun
<1>3. QED
  BY <1>1, <1>2 DEF AnswersInv, SettingsInv

LEMMA SettingsNext ==
    TInv /\ ControlsInv /\ ControlsInv' /\ AnswersInv /\ [Next]_vars => AnswersInv'
<1> SUFFICES ASSUME TInv, ControlsInv, ControlsInv', AnswersInv, [Next]_vars PROVE AnswersInv'
  OBVIOUS
<1>1. ASSUME NEW m \in Tasks, TaskStep(m) PROVE AnswersInv'
  <2>1. KeysInv /\ KeysInv'
    BY DEF ControlsInv
  <2>2. Moves(m) /\ Shape(m) /\ SettingsStep(m)
    BY <1>1, StepShape, SettingsSteps
  <2>3. SettingsInv'
    BY <2>1, <2>2, ToggleStep, PolicyStep DEF AnswersInv, SettingsInv
  <2>4. EffectInv' /\ PartedInv'
    BY <2>1, <2>2, EffectStep, PartedStep DEF AnswersInv
  <2>5. QED
    BY <2>3, <2>4 DEF AnswersInv
<1>2. ASSUME Click, UNCHANGED server PROVE AnswersInv'
  BY <1>2, ClickKeeps, SettingsKept DEF server
<1>3. CASE UNCHANGED vars
  BY <1>3, SettingsKept DEF vars, server
<1>4. QED
  BY <1>1, <1>2, <1>3 DEF Next, TaskStep

LEMMA ControlsAlways == Spec => []ControlsInv
BY ControlsInit, ControlsStep, TInvAlways, PTL DEF Spec

\* A webhook action and the policy of two factors stay as an answered click put them, unless
\* clicks overlapped, a later click changed the same, or the second call of the policy failed.
\* Of clicks that overlap one is in effect, and where the policy differs from the setting, a
\* failed call, an overlap or a change of the policy alone stands behind it, not mended since.
THEOREM SettingsCorrect == Spec => []SettingsFollowAnswers
<1>1. ASSUME TInv, AnswersInv, NEW t \in Tasks, task[t].result = "ok" PROVE SettingFollows(t)
  <2>1. Toggles(t) => Agrees(t, settings.enabled) \/ ToggledSince(t)
    BY <1>1 DEF AnswersInv, SettingsInv, ToggleInv
  <2>2. task[t].value \in BOOLEAN
    BY <1>1, TaskOf DEF Task
  <2>3. Agrees(t, settings.enabled) => task[t].value = (task[t].item \in settings.enabled)
    BY <2>2 DEF Agrees
  <2>4. task[t].op = "updateSetting" =>
          \/ settings.require2FA = task[t].value /\ settings.policy = task[t].value
          \/ SetSince(t)
    BY <1>1 DEF AnswersInv, SettingsInv, PolicyInv
  <2>5. QED
    BY <2>1, <2>3, <2>4 DEF SettingFollows, ToggledSince, SetSince
<1>2. TInv /\ AnswersInv => SettingsFollowAnswers
  BY <1>1 DEF AnswersInv, EffectInv, PartedInv, SettingsFollowAnswers
<1>3. QED
  BY <1>2, SettingsInit, SettingsNext, TInvAlways, ControlsAlways, PTL DEF Spec

-----------------------------------------------------------------------------
(* Templates *)

\* A step that leaves the templates, their editor and the renders of their tab alone.
Apart(t) ==
    /\ latest'["templates"] = latest["templates"] /\ templates' = templates
    /\ ~(task'[t].phase = "list" /\ task'[t].view = "templates")
    /\ \/ ScreenKept /\ screen'.editor = screen.editor
       \/ /\ screen'.state # "shown" \/ screen'.view # "templates"
          /\ screen'.editor = NoEditor

RendersTemplates(t) ==
    Rendered(t) /\ task'[t].view = "templates" /\ templates'.cache = templates.cache

LEMMA PageApart == ASSUME UNCHANGED page, NEW t,
                          ~(task'[t].phase = "list" /\ task'[t].view = "templates")
                   PROVE  Apart(t)
BY PageKept DEF Apart, page, rest

\* Every other step that renders, renders another view.
LEMMA RenderedApart ==
    ASSUME TInv, NEW t \in Tasks, Moves(t), Rendered(t), UNCHANGED templates
    PROVE  RendersTemplates(t) \/ Apart(t)
<1>1. "templates" \in Tabs
  BY DEF Tabs
<1>2. QED
  BY <1>1 DEF Rendered, RendersTemplates, Apart

LEMMA TemplatesPage ==
    ASSUME TInv, NEW t \in Tasks, Start(t) \/ Resume(t)
    PROVE  RendersTemplates(t) \/ ShowTemplates(t) \/ Apart(t)
<1>1. CASE Openings(t)
  <2>1. Moves(t) /\ Rendered(t)
    BY <1>1, OpeningsMoves
  <2>2. CASE \/ ShowTab(t) \/ TurnPage(t) \/ TypeFilter(t) \/ TogglePanel(t)
             \/ ToggleSelectAll(t) \/ ClearSelection(t)
    BY <2>1, <2>2, NavigationMoves, RenderedApart DEF rest
  <2>3. CASE DismissBanner(t)
    BY <2>1, <2>3, DismissMoves, RenderedApart
  <2>4. CASE SetTemplateType(t)
    BY <2>4, SetTypeMoves DEF RendersTemplates, Fresh
  <2>5. QED
    BY <1>1, <2>2, <2>3, <2>4 DEF Openings
<1>2. CASE CallStarts(t)
  BY <1>2, CallStartsMoves, PageApart
<1>3. CASE OtherStarts(t)
  <2>1. /\ UNCHANGED <<nav, rest, latest>> /\ ScreenKept /\ screen'.editor = screen.editor
        /\ Moves(t)
    BY <1>3, OtherStartsMoves
  <2>2. task'[t].phase # "list"
    <3>1. CASE SaveTemplate(t) \/ ResetMailTemplate(t)
      <4>1. PICK op \in {"save", "reset"}, text \in Versions \cup {None} : Posts(t, op, text)
        BY <3>1, TextTyped DEF SaveTemplate, ResetMailTemplate
      <4>2. QED
        BY <4>1, PostsMoves
    <3>2. QED
      BY <1>3, <3>1, DeleteSelectedMoves, ToggleActionMoves, UpdateSettingMoves, SetBulk2FAMoves,
         ListUploadsMoves, DeleteUploadMoves, SaveUiMoves DEF OtherStarts
  <2>3. QED
    BY <2>1, <2>2 DEF Apart, rest
<1>4. CASE Rerenders(t)
  <2>1. /\ Moves(t) /\ UNCHANGED templates
        /\ Rendered(t) \/ (UNCHANGED page /\ task'[t].phase = "done")
    BY <1>4, RerendersMoves
  <2>2. QED
    BY <2>1, RenderedApart, PageApart
<1>5. CASE Quiet(t)
  BY <1>5, QuietMoves, PageApart
<1>6. CASE InPanels(t)
  BY <1>6, InPanelsMoves DEF Apart, rest
<1>7. CASE Shown(t)
  <2>1. CASE ShowUsers(t)
    BY <2>1, ShowUsersMoves DEF Apart, Painted, rest
  <2>2. CASE ShowTenants(t)
    BY <2>2, ShowTenantsMoves DEF Apart, Painted, rest
  <2>3. CASE ShowSessions(t) \/ ShowWebhooks(t) \/ ShowApiKeys(t) \/ ShowRoles(t)
    BY <2>3, PaintsMoves DEF Apart, Painted
  <2>4. CASE ShowControl(t)
    BY <2>4, ShowControlMoves DEF Apart, rest
  <2>5. QED
    BY <1>7, <2>1, <2>2, <2>3, <2>4 DEF Shown
<1>8. CASE ListFailed(t)
  BY <1>8, ListFailedMoves DEF Apart, rest
<1>9. QED
  BY <1>1, <1>2, <1>3, <1>4, <1>5, <1>6, <1>7, <1>8, StepGroups

Saving(t) == task[t].op \in {"save", "reset"}

\* A save begins with what the editor holds.
LEMMA SaveBegins ==
    ASSUME TInv, NEW t \in Tasks, Start(t) \/ Resume(t), task[t].phase = "idle", Saving(t)'
    PROVE  /\ UNCHANGED page /\ OnScreen("templates") /\ screen.editor.item # None
           /\ task'[t].phase = "call" /\ task'[t].reply = "none" /\ task'[t].result = "none"
           /\ task'[t].kind = templates.type /\ task'[t].item = screen.editor.item
           /\ task'[t].base = screen.editor.base /\ task'[t].quiet = screen.editor.quiet
<1>1. task'[t].op \in {"save", "reset"}
  BY DEF Saving
<1>2. ~Openings(t) /\ ~CallStarts(t)
  BY <1>1, OpeningsMoves, CallStartsMoves
<1>3. ~Rerenders(t) /\ ~Quiet(t) /\ ~InPanels(t) /\ ~Shown(t) /\ ~ListFailed(t)
  BY RerendersMoves, QuietMoves, InPanelsMoves, ShownMoves, ListFailedMoves DEF Shows
<1>4. OtherStarts(t)
  BY <1>2, <1>3, StepGroups
<1>5. SaveTemplate(t) \/ ResetMailTemplate(t)
  BY <1>1, <1>4, DeleteSelectedMoves, ToggleActionMoves, UpdateSettingMoves, SetBulk2FAMoves,
     ListUploadsMoves, DeleteUploadMoves, SaveUiMoves DEF OtherStarts
<1>6. PICK op \in {"save", "reset"}, text \in Versions \cup {None} : Posts(t, op, text)
  BY <1>5, TextTyped DEF SaveTemplate, ResetMailTemplate
<1>7. QED
  BY <1>6, PostsMoves DEF Posts

\* A save that was answered renders the tab, or is reported as failed.
LEMMA SaveGoesOn ==
    ASSUME TInv, NEW t \in Tasks, Start(t) \/ Resume(t), task[t].phase # "idle", Saving(t)
    PROVE  /\ task'[t].over = task[t].over /\ task'[t].phase \in {"list", "done"}
           /\ task[t].phase = "call" =>
                \/ /\ task[t].reply = "ok" /\ task'[t].result = "ok"
                   /\ Rendered(t) /\ task'[t].view = "templates"
                \/ task'[t].result = "failed"
<1>1. task[t].view = "templates" /\ task[t].phase \notin {"policy", "files"}
  BY TaskOf DEF Saving, SortOK, Sort
<1>2. ~Openings(t) /\ ~CallStarts(t) /\ ~OtherStarts(t)
  BY OpeningsMoves, CallStartsMoves, OtherStartsMoves
<1>3. CASE Rerenders(t)
  <2>1. HandlerResumes(t)
    BY <1>3, ApiKeyMoves, WebhookSavedMoves DEF Rerenders, Saving
  <2>2. /\ Moves(t) /\ Rendered(t) /\ task'[t].over = task[t].over /\ task[t].phase = "call"
        /\ task'[t].result = "ok" /\ task[t].reply = "ok"
    BY <2>1, HandlersResume DEF Saving
  <2>3. task'[t].view = "templates" /\ task'[t].phase = "list"
    BY <1>1, <2>2 DEF Moves, Carries, Rendered
  <2>4. QED
    BY <2>2, <2>3
<1>4. CASE Quiet(t)
  <2>1. NotChanged(t)
    BY <1>1, <1>4, AskDetailsMoves
       DEF Quiet, MemberChanged, WriteActions, SettingUpdated, PolicyUpdated, UiSettingsSaved, Saving
  <2>2. QED
    BY <2>1, NotChangedMoves
<1>5. CASE InPanels(t)
  <2>1. PanelLoaded(t)
    BY <1>1, <1>5, UploadedMoves, UploadDeletedMoves, FilesListedMoves DEF InPanels, Saving
  <2>2. task[t].phase = "panel" /\ Ends(t)
    BY <2>1 DEF PanelLoaded
  <2>3. QED
    BY <2>2, EndsMoves
<1>6. CASE Shown(t)
  <2>1. ShowTemplates(t)
    BY <1>1, <1>6, ShowUsersMoves, ShowTenantsMoves, PaintsMoves, ShowControlMoves DEF Shown
  <2>2. task[t].phase = "list" /\ Ends(t)
    BY <2>1 DEF ShowTemplates, Got
  <2>3. QED
    BY <2>2, EndsMoves
<1>7. CASE ListFailed(t)
  <2>1. task[t].phase = "list" /\ Ends(t)
    BY <1>7 DEF ListFailed, Got
  <2>2. QED
    BY <2>1, EndsMoves
<1>8. QED
  BY <1>2, <1>3, <1>4, <1>5, <1>6, <1>7, StepGroups

\* What the server does with the calls about templates.
TemplatesServed(q) ==
    /\ task[q].phase = "list" /\ task[q].view = "templates" /\ task'[q].reply = "ok" =>
         task'[q].list = content[task[q].asked] /\ UNCHANGED content
    /\ content' # content =>
         /\ Saving(q) /\ task[q].phase = "call"
         /\ content' = [content EXCEPT ![task[q].kind][task[q].item] = task[q].text]
    /\ Saving(q) /\ task[q].phase = "call" =>
         /\ task[q].reply = "none" /\ task'[q].reply # "none"
         /\ task'[q].reply = "ok" => task'[q].over = content[task[q].kind][task[q].item]
    /\ Saving(q) /\ task[q].phase # "call" => task'[q].over = task[q].over

LEMMA TemplatesServe == ASSUME TInv, NEW q \in Tasks, Serve(q) PROVE TemplatesServed(q)
<1>1. "templates" \notin Lists /\ (Saving(q) => task[q].view = "templates")
  BY TaskOf DEF Lists, Saving, SortOK, Sort
<1>2. CASE ServeDeleteSelected(q)
  <2>1. task[q].view = "users"
    BY <1>2, ServeDeleteSelectedMoves, TaskOf DEF SortOK, Sort
  <2>2. QED
    BY <1>2, <2>1, ServeDeleteSelectedMoves DEF TemplatesServed, Saving
<1>3. CASE ServeCall(q)
  BY <1>3, ServeCallMoves DEF TemplatesServed, Saving
<1>4. CASE ServeList(q)
  BY <1>1, <1>4, ServeListMoves DEF TemplatesServed, server
<1>5. CASE FailList(q) \/ FailRead(q)
  BY <1>5, FailListMoves DEF TemplatesServed, server
<1>6. CASE ServeSettings(q)
  <2>1. ~Saving(q)
    BY <1>1, <1>6, ServeSettingsMoves, TaskOf DEF SortOK, Sort, Saving
  <2>2. QED
    BY <1>6, <2>1, ServeSettingsMoves DEF TemplatesServed, server
<1>7. CASE ServeFiles(q)
  BY <1>7, ServeFilesMoves DEF TemplatesServed, server
<1>8. CASE ServeTemplates(q)
  BY <1>8, ServeTemplatesMoves DEF TemplatesServed, server
<1>9. CASE ServeSave(q)
  BY <1>9, ServeSaveMoves DEF TemplatesServed, Saving
<1>10. CASE ServeWrite(q)
  BY <1>10, ServeWriteMoves DEF TemplatesServed, Saving
<1>11. QED
  BY <1>2, <1>3, <1>4, <1>5, <1>6, <1>7, <1>8, <1>9, <1>10 DEF Serve

\* A save or reset of an item that may have been done, and that no render has followed.
Dirty(k, i) == \E q \in Tasks : /\ Saving(q) /\ task[q].kind = k /\ task[q].item = i
                                /\ task[q].phase = "call" \/ task[q].result = "failed"

\* What may have come between a save and the list its editor was filled from.
Excused(t) == \E q \in Tasks : /\ Saving(q) /\ task[q].kind = task[t].kind
                               /\ task[q].item = task[t].item
                               /\ Overlap(q, t) \/ task[q].result = "failed"

\* The latest render has asked for the kind that is shown, and its answer is what the server has.
ListInv(t) ==
    task[t].phase = "list" /\ task[t].view = "templates" /\ latest["templates"] = t =>
        /\ task[t].asked = templates.type
        /\ task[t].reply = "ok" =>
             \A k \in Types, i \in Templates :
                 k = task[t].asked => task[t].list[i] = content[k][i] \/ Dirty(k, i)

CopyInv ==
    OnScreen("templates") /\ screen.by = latest["templates"] =>
        \A k \in Types, i \in Templates :
            k = templates.type => templates.cache[k][i] = content[k][i] \/ Dirty(k, i)

EditorInv ==
    screen.editor.item # None /\ screen.editor.quiet =>
        /\ screen.by = latest["templates"]
        /\ \A k \in Types, i \in Templates :
               k = templates.type /\ i = screen.editor.item =>
                   screen.editor.base = content[k][i] \/ Dirty(k, i)

SaveInv(t) ==
    Saving(t) /\ task[t].quiet =>
        \/ Excused(t)
        \/ /\ task[t].phase = "call" /\ task[t].reply = "none" =>
                task[t].base = content[task[t].kind][task[t].item]
           /\ (task[t].phase = "call" /\ task[t].reply = "ok") \/ task[t].result = "ok" =>
                task[t].over = task[t].base

TemplatesInv == CopyInv /\ EditorInv /\ \A t \in Tasks : ListInv(t) /\ SaveInv(t)

LEMMA SavingFacts ==
    ASSUME TInv, NEW t \in Tasks, Saving(t)
    PROVE  /\ task[t].item \in Templates /\ task[t].kind \in Types /\ Begun(t)
           /\ task[t].phase # "idle"
<1>1. task[t] \in Task /\ SortOK(t)
  BY TaskOf
<1>2. QED
  BY <1>1 DEF Task, SortOK, Sort, Saving, Begun

\* A failure that was reported is not taken back.
LEMMA FailedStays ==
    ASSUME TInv, KeysInv, NEW m \in Tasks, Moves(m), Shape(m), NEW q \in Tasks,
           task[q].result = "failed"
    PROVE  task'[q].result = "failed"
<1>1. task[q].phase \notin Asking
  BY DEF KeysInv
<1>2. task[q].phase # "idle"
  <2> HIDE DEF NewTask
  <2>1. NewTask.result = "none"
    BY NewTaskFacts
  <2>2. QED
    BY <2>1, TaskOf DEF SortOK
<1>3. QED
  BY <1>1, <1>2 DEF Moves, Shape, ResultShape

LEMMA SavingStays ==
    ASSUME TInv, NEW m \in Tasks, Moves(m), NEW q \in Tasks, Saving(q)
    PROVE  Saving(q)' /\ task'[q].kind = task[q].kind /\ task'[q].item = task[q].item
BY SavingFacts, Steady, ItemStays DEF Saving

LEMMA ExcusedStays ==
    ASSUME TInv, KeysInv, NEW m \in Tasks, Moves(m), Shape(m), NEW t \in Tasks, Saving(t), Excused(t)
    PROVE  Excused(t)'
<1>1. PICK q \in Tasks : /\ Saving(q) /\ task[q].kind = task[t].kind
                         /\ task[q].item = task[t].item
                         /\ Overlap(q, t) \/ task[q].result = "failed"
  BY DEF Excused
<1>2. Saving(q)' /\ task'[q].kind = task'[t].kind /\ task'[q].item = task'[t].item
  BY <1>1, SavingStays
<1>3. Overlap(q, t)' \/ task'[q].result = "failed"
  BY <1>1, OverlapStays, FailedStays
<1>4. QED
  BY <1>2, <1>3 DEF Excused

\* What is the server's, or may be replaced, stays so until a save is answered, which renders.
LEMMA CleanPage ==
    ASSUME TInv, KeysInv, NEW m \in Tasks, Start(m) \/ Resume(m), UNCHANGED server,
           Moves(m), Shape(m), ~(task'[m].phase = "list" /\ task'[m].view = "templates"),
           NEW k \in Types, NEW i \in Templates, NEW v, v = content[k][i] \/ Dirty(k, i)
    PROVE  v = content'[k][i] \/ Dirty(k, i)'
<1>1. content' = content
  BY DEF server
<1>2. ASSUME NEW q \in Tasks, Saving(q), task[q].kind = k, task[q].item = i,
             task[q].phase = "call" \/ task[q].result = "failed"
      PROVE  Dirty(k, i)'
  <2>1. Saving(q)' /\ task'[q].kind = k /\ task'[q].item = i
    BY <1>2, SavingStays
  <2>2. task'[q].phase = "call" \/ task'[q].result = "failed"
    <3>1. CASE task[q].result = "failed"
      BY <3>1, FailedStays
    <3>2. CASE q # m
      BY <1>2, <3>2 DEF Moves
    <3>3. CASE q = m /\ task[q].phase = "call"
      BY <1>2, <3>3, SaveGoesOn DEF Rendered
    <3>4. QED
      BY <1>2, <3>1, <3>2, <3>3
  <2>3. QED
    BY <2>1, <2>2 DEF Dirty
<1>3. QED
  BY <1>1, <1>2 DEF Dirty

LEMMA ContentStays ==
    ASSUME TInv, NEW m \in Tasks, TemplatesServed(m), NEW k \in Types, NEW i \in Templates,
           content'[k][i] # content[k][i]
    PROVE  Saving(m) /\ task[m].phase = "call" /\ task[m].kind = k /\ task[m].item = i
<1>1. /\ Saving(m) /\ task[m].phase = "call"
      /\ content' = [content EXCEPT ![task[m].kind][task[m].item] = task[m].text]
  BY DEF TemplatesServed
<1>2. content \in [Types -> Contents] /\ content[k] \in Contents
  BY DEF TInv, TypeOK
<1>3. content[k] = [x \in Templates |-> content[k][x]]
  BY <1>2 DEF Contents
<1>4. QED
  BY <1>1, <1>2, <1>3

LEMMA CleanServed ==
    ASSUME TInv, KeysInv, NEW m \in Tasks, Moves(m), Waits(m), task[m].phase # "idle",
           TemplatesServed(m),
           NEW k \in Types, NEW i \in Templates, NEW v, v = content[k][i] \/ Dirty(k, i)
    PROVE  v = content'[k][i] \/ Dirty(k, i)'
<1>1. ASSUME NEW q \in Tasks, Saving(q), task[q].kind = k, task[q].item = i,
             task[q].phase = "call" \/ task[q].result = "failed"
      PROVE  Dirty(k, i)'
  <2>1. Saving(q)' /\ task'[q].kind = k /\ task'[q].item = i
    BY <1>1, SavingStays
  <2>2. task'[q].phase = "call" \/ task'[q].result = "failed"
    BY <1>1 DEF Moves, Waits
  <2>3. QED
    BY <2>1, <2>2 DEF Dirty
<1>2. CASE content'[k][i] # content[k][i]
  BY <1>1, <1>2, ContentStays
<1>3. CASE content'[k][i] = content[k][i]
  BY <1>1, <1>3 DEF Dirty
<1>4. QED
  BY <1>2, <1>3

\* A step of a handler in the page: it leaves the server's copy alone.
LEMMA ListPage ==
    ASSUME TInv, KeysInv, TemplatesInv, NEW m \in Tasks, Start(m) \/ Resume(m), UNCHANGED server,
           Moves(m), Shape(m), NEW t \in Tasks
    PROVE  ListInv(t)'
<1> SUFFICES ASSUME task'[t].phase = "list", task'[t].view = "templates", latest'["templates"] = t
             PROVE  /\ task'[t].asked = templates'.type
                    /\ task'[t].reply = "ok" =>
                         \A k \in Types, i \in Templates :
                             k = task'[t].asked => task'[t].list[i] = content'[k][i] \/ Dirty(k, i)'
  BY DEF ListInv
<1>1. CASE RendersTemplates(m)
  BY <1>1 DEF RendersTemplates, Rendered
<1>2. ASSUME ShowTemplates(m) \/ Apart(m)
      PROVE  /\ t # m /\ latest'["templates"] = latest["templates"]
             /\ templates'.type = templates.type
             /\ ~(task'[m].phase = "list" /\ task'[m].view = "templates")
  <2>1. CASE ShowTemplates(m)
    <3>1. task'[m].phase = "done" /\ latest' = latest
          /\ templates' = [templates EXCEPT !.cache[task[m].asked] = task[m].list]
      BY <2>1, ShowTemplatesMoves
    <3>2. templates'.type = templates.type
      BY <3>1 DEF TInv, TypeOK
    <3>3. QED
      BY <3>1, <3>2
  <2>2. CASE Apart(m)
    BY <2>2 DEF Apart
  <2>3. QED
    BY <1>2, <2>1, <2>2
<1>3. CASE ShowTemplates(m) \/ Apart(m)
  <2>1. task'[t] = task[t] /\ ListInv(t)
    BY <1>2, <1>3 DEF Moves, TemplatesInv
  <2>2. task[t].asked = templates.type
    BY <1>2, <1>3, <2>1 DEF ListInv
  <2>3. ASSUME task[t].reply = "ok", NEW k \in Types, NEW i \in Templates, k = task[t].asked
        PROVE  task[t].list[i] = content'[k][i] \/ Dirty(k, i)'
    <3>1. task[t].list[i] = content[k][i] \/ Dirty(k, i)
      BY <1>2, <1>3, <2>1, <2>3 DEF ListInv
    <3>2. QED
      BY <1>2, <1>3, <3>1, CleanPage
  <2>4. QED
    BY <1>2, <1>3, <2>1, <2>2, <2>3
<1>4. QED
  BY <1>1, <1>3, TemplatesPage

LEMMA CopyPage ==
    ASSUME TInv, KeysInv, TemplatesInv, NEW m \in Tasks, Start(m) \/ Resume(m), UNCHANGED server,
           Moves(m), Shape(m)
    PROVE  CopyInv'
<1> SUFFICES ASSUME screen'.state = "shown", screen'.view = "templates",
                    screen'.by = latest'["templates"],
                    NEW k \in Types, NEW i \in Templates, k = templates'.type
             PROVE  templates'.cache[k][i] = content'[k][i] \/ Dirty(k, i)'
  BY DEF CopyInv, OnScreen
<1>1. CASE RendersTemplates(m)
  BY <1>1 DEF RendersTemplates, Rendered
<1>2. CASE ShowTemplates(m)
  <2>1. /\ task[m].phase = "list" /\ task[m].view = "templates" /\ task[m].reply = "ok"
        /\ task'[m].phase = "done" /\ latest' = latest /\ screen'.by = m
        /\ templates' = [templates EXCEPT !.cache[task[m].asked] = task[m].list]
    BY <1>2, ShowTemplatesMoves
  <2>2. templates \in [type : Types, selectedId : Templates \cup {None}, cache : [Types -> Contents]]
    BY DEF TInv, TypeOK
  <2>3. latest["templates"] = m /\ ListInv(m)
    BY <2>1 DEF TemplatesInv
  <2>4. k = templates.type /\ k = task[m].asked
    BY <2>1, <2>2, <2>3 DEF ListInv
  <2>5. templates'.cache[k] = task[m].list
    BY <2>1, <2>2, <2>4
  <2>6. task[m].list[i] = content[k][i] \/ Dirty(k, i)
    BY <2>1, <2>3, <2>4 DEF ListInv
  <2>7. QED
    BY <2>1, <2>5, <2>6, CleanPage
<1>3. CASE Apart(m)
  <2>1. /\ ScreenKept /\ templates' = templates /\ latest'["templates"] = latest["templates"]
        /\ ~(task'[m].phase = "list" /\ task'[m].view = "templates")
    BY <1>3 DEF Apart
  <2>2. templates.cache[k][i] = content[k][i] \/ Dirty(k, i)
    BY <2>1 DEF TemplatesInv, CopyInv, OnScreen, ScreenKept, ScreenStays
  <2>3. QED
    BY <2>1, <2>2, CleanPage
<1>4. QED
  BY <1>1, <1>2, <1>3, TemplatesPage

LEMMA EditorPage ==
    ASSUME TInv, KeysInv, TemplatesInv, CopyInv', NEW m \in Tasks, Start(m) \/ Resume(m),
           UNCHANGED server, Moves(m), Shape(m), PageOK'
    PROVE  EditorInv'
<1> SUFFICES ASSUME screen'.editor.item # None, screen'.editor.quiet
             PROVE  /\ screen'.by = latest'["templates"]
                    /\ \A k \in Types, i \in Templates :
                         k = templates'.type /\ i = screen'.editor.item =>
                             screen'.editor.base = content'[k][i] \/ Dirty(k, i)'
  BY DEF EditorInv
<1>1. CASE RendersTemplates(m)
  BY <1>1, SmallFacts DEF RendersTemplates, Rendered
<1>2. CASE ShowTemplates(m)
  <2>1. /\ screen'.state = "shown" /\ screen'.view = "templates" /\ screen'.by = m
        /\ latest' = latest
        /\ screen'.editor = (IF templates.selectedId = None THEN NoEditor
                             ELSE Mounted(templates.selectedId, templates', m))
    BY <1>2, ShowTemplatesMoves
  <2>2. /\ templates.selectedId \in Templates
        /\ screen'.editor = Mounted(templates.selectedId, templates', m)
    <3>1. templates.selectedId # None
      BY <2>1, SmallFacts
    <3>2. QED
      BY <2>1, <3>1 DEF TInv, TypeOK
  <2>3. templates' \in [type : Types, selectedId : Templates \cup {None}, cache : [Types -> Contents]]
    BY DEF PageOK
  <2>4. /\ screen'.editor.item = templates.selectedId
        /\ screen'.editor.base = templates'.cache[templates'.type][templates.selectedId]
        /\ screen'.editor.quiet = (m = latest["templates"])
    <3> DEFINE copies == templates'
               i == templates.selectedId
    <3>1. i \in Templates /\ screen'.editor = Mounted(i, copies, m)
      BY <2>2
    <3>2. copies \in [type : Types, selectedId : Templates \cup {None}, cache : [Types -> Contents]]
      BY <2>3
    <3> HIDE DEF copies, i
    <3>3. /\ Mounted(i, copies, m).item = i
          /\ Mounted(i, copies, m).base = copies.cache[copies.type][i]
          /\ Mounted(i, copies, m).quiet = (m = latest["templates"])
      BY <3>1, <3>2, MountedFacts
    <3>4. QED
      BY <3>1, <3>3 DEF copies, i
  <2>5. screen'.by = latest'["templates"]
    BY <2>1, <2>4
  <2>6. QED
    BY <2>1, <2>4, <2>5 DEF CopyInv, OnScreen
<1>3. CASE Apart(m)
  <2>1. screen'.editor # NoEditor
    BY SmallFacts
  <2>2. /\ ScreenKept /\ templates' = templates /\ latest'["templates"] = latest["templates"]
        /\ ~(task'[m].phase = "list" /\ task'[m].view = "templates")
        /\ screen'.editor = screen.editor
    BY <1>3, <2>1 DEF Apart
  <2>3. screen'.by = screen.by
    BY <2>2 DEF ScreenKept, ScreenStays
  <2>4. EditorInv
    BY DEF TemplatesInv
  <2>5. ASSUME NEW k \in Types, NEW i \in Templates, k = templates.type, i = screen.editor.item
        PROVE  screen.editor.base = content'[k][i] \/ Dirty(k, i)'
    <3>1. screen.editor.base = content[k][i] \/ Dirty(k, i)
      BY <2>2, <2>4, <2>5 DEF EditorInv
    <3>2. QED
      BY <2>2, <3>1, CleanPage
  <2>6. QED
    BY <2>2, <2>3, <2>4, <2>5 DEF EditorInv
<1>4. QED
  BY <1>1, <1>2, <1>3, TemplatesPage

\* A save that begins rests on what its editor was filled from, or on something that excuses it.
LEMMA SavePage ==
    ASSUME TInv, KeysInv, TemplatesInv, NEW m \in Tasks, Start(m) \/ Resume(m), UNCHANGED server,
           Moves(m), Shape(m), NEW t \in Tasks
    PROVE  SaveInv(t)'
<1> SUFFICES ASSUME Saving(t)', task'[t].quiet PROVE SaveInv(t)'
  BY DEF SaveInv
<1>0. content' = content
  BY DEF server
<1>1. CASE t = m /\ task[m].phase = "idle"
  <2>1. /\ OnScreen("templates") /\ screen.editor.item # None
        /\ task'[t].phase = "call" /\ task'[t].reply = "none" /\ task'[t].result = "none"
        /\ task'[t].kind = templates.type /\ task'[t].item = screen.editor.item
        /\ task'[t].base = screen.editor.base /\ task'[t].quiet = screen.editor.quiet
    BY <1>1, SaveBegins
  <2>2. templates.type \in Types /\ screen.editor.item \in Templates
    BY <2>1 DEF TInv, TypeOK, Screen, Editor
  <2>3. \/ screen.editor.base = content[templates.type][screen.editor.item]
        \/ Dirty(templates.type, screen.editor.item)
    BY <2>1, <2>2 DEF TemplatesInv, EditorInv
  <2>4. ASSUME Dirty(templates.type, screen.editor.item) PROVE Excused(t)'
    <3>1. PICK q \in Tasks : /\ Saving(q) /\ task[q].kind = templates.type
                             /\ task[q].item = screen.editor.item
                             /\ task[q].phase = "call" \/ task[q].result = "failed"
      BY <2>4 DEF Dirty
    <3>2. Saving(q)' /\ task'[q].kind = task'[t].kind /\ task'[q].item = task'[t].item
      BY <2>1, <3>1, SavingStays
    <3>3. CASE task[q].result = "failed"
      BY <3>2, <3>3, FailedStays DEF Excused
    <3>4. CASE task[q].phase = "call"
      <4>1. Overlap(t, q)'
        BY <1>1, <3>4, BeginnerOverlaps
      <4>2. QED
        BY <3>2, <4>1 DEF Excused, Overlap
    <3>5. QED
      BY <3>1, <3>3, <3>4
  <2>5. QED
    BY <1>0, <2>1, <2>3, <2>4 DEF SaveInv
<1>2. CASE ~(t = m /\ task[m].phase = "idle")
  <2>1. Saving(t) /\ task[t].phase # "idle"
    BY <1>2, TaskOf DEF Moves, Carries, Saving, SortOK, Sort
  <2>2. /\ task'[t].kind = task[t].kind /\ task'[t].item = task[t].item
        /\ task'[t].base = task[t].base /\ task[t].quiet
    BY <2>1, SavingFacts, ItemStays
  <2>3. CASE Excused(t)
    BY <2>1, <2>3, ExcusedStays DEF SaveInv
  <2>4. CASE ~Excused(t) /\ t # m
    <3>1. task'[t] = task[t]
      BY <2>4 DEF Moves
    <3>2. QED
      BY <1>0, <2>1, <2>2, <2>4, <3>1 DEF TemplatesInv, SaveInv
  <2>5. CASE ~Excused(t) /\ t = m
    <3>1. task'[t].over = task[t].over /\ task'[t].phase # "call"
          /\ (task[t].phase = "call" /\ task'[t].result = "ok" => task[t].reply = "ok")
      BY <2>1, <2>5, SaveGoesOn
    <3>2. task'[t].result = "ok" => (task[t].phase = "call" /\ task[t].reply = "ok")
                                    \/ task[t].result = "ok"
      BY <2>1, <2>5, <3>1, PageInOrder DEF CallsInOrder, Saving
    <3>3. QED
      BY <1>0, <2>1, <2>2, <2>5, <3>1, <3>2 DEF TemplatesInv, SaveInv
  <2>6. QED
    BY <2>3, <2>4, <2>5
<1>3. QED
  BY <1>1, <1>2

\* A step of the server.
LEMMA ListServed ==
    ASSUME TInv, KeysInv, TemplatesInv, NEW m \in Tasks, Moves(m), Waits(m), task[m].phase # "idle",
           TemplatesServed(m), UNCHANGED page, NEW t \in Tasks
    PROVE  ListInv(t)'
<1> SUFFICES ASSUME task'[t].phase = "list", task'[t].view = "templates", latest["templates"] = t
             PROVE  /\ task'[t].asked = templates.type
                    /\ task'[t].reply = "ok" =>
                         \A k \in Types, i \in Templates :
                             k = task'[t].asked => task'[t].list[i] = content'[k][i] \/ Dirty(k, i)'
  BY DEF ListInv, page, rest
<1>1. /\ task[t].phase = "list" /\ task[t].view = "templates" /\ task'[t].asked = task[t].asked
      /\ ListInv(t)
  BY DEF Moves, Carries, Waits, TemplatesInv
<1>2. task[t].asked = templates.type
  BY <1>1 DEF ListInv
<1>3. CASE t = m
  BY <1>1, <1>2, <1>3 DEF TemplatesServed
<1>4. CASE t # m
  <2>1. task'[t] = task[t]
    BY <1>4 DEF Moves
  <2>2. ASSUME task[t].reply = "ok", NEW k \in Types, NEW i \in Templates, k = task[t].asked
        PROVE  task[t].list[i] = content'[k][i] \/ Dirty(k, i)'
    <3>1. task[t].list[i] = content[k][i] \/ Dirty(k, i)
      BY <1>1, <2>2 DEF ListInv
    <3>2. QED
      BY <3>1, CleanServed
  <2>3. QED
    BY <1>2, <2>1, <2>2
<1>5. QED
  BY <1>3, <1>4

LEMMA PageServed ==
    ASSUME TInv, KeysInv, TemplatesInv, NEW m \in Tasks, Moves(m), Waits(m), task[m].phase # "idle",
           TemplatesServed(m), UNCHANGED page
    PROVE  CopyInv' /\ EditorInv'
<1>1. screen' = screen /\ latest' = latest /\ templates' = templates
  BY DEF page, rest
<1>2. ASSUME OnScreen("templates"), screen.by = latest["templates"],
             NEW k \in Types, NEW i \in Templates, k = templates.type
      PROVE  templates.cache[k][i] = content'[k][i] \/ Dirty(k, i)'
  <2>1. templates.cache[k][i] = content[k][i] \/ Dirty(k, i)
    BY <1>2 DEF TemplatesInv, CopyInv
  <2>2. QED
    BY <2>1, CleanServed
<1>3. ASSUME screen.editor.item # None, screen.editor.quiet,
             NEW k \in Types, NEW i \in Templates, k = templates.type, i = screen.editor.item
      PROVE  screen.editor.base = content'[k][i] \/ Dirty(k, i)'
  <2>1. screen.editor.base = content[k][i] \/ Dirty(k, i)
    BY <1>3 DEF TemplatesInv, EditorInv
  <2>2. QED
    BY <2>1, CleanServed
<1>4. CopyInv'
  BY <1>1, <1>2 DEF CopyInv, OnScreen
<1>5. EditorInv'
  BY <1>1, <1>3 DEF EditorInv, TemplatesInv
<1>6. QED
  BY <1>4, <1>5

\* The server replaces under a save what another call put there only if they overlap.
LEMMA SaveServed ==
    ASSUME TInv, KeysInv, TemplatesInv, NEW m \in Tasks, Moves(m), Shape(m), Waits(m),
           task[m].phase # "idle", TemplatesServed(m), NEW t \in Tasks
    PROVE  SaveInv(t)'
<1> SUFFICES ASSUME Saving(t)', task'[t].quiet PROVE SaveInv(t)'
  BY DEF SaveInv
<1>1. Saving(t) /\ task[t].phase # "idle"
  BY TaskOf DEF Moves, Carries, Saving, SortOK, Sort
<1>2. /\ task'[t].kind = task[t].kind /\ task'[t].item = task[t].item
      /\ task'[t].base = task[t].base /\ task[t].quiet
      /\ task[t].kind \in Types /\ task[t].item \in Templates
  BY <1>1, SavingFacts, ItemStays
<1>3. CASE Excused(t)
  BY <1>1, <1>3, ExcusedStays DEF SaveInv
<1>4. CASE ~Excused(t)
  <2>1. /\ task[t].phase = "call" /\ task[t].reply = "none" =>
             task[t].base = content[task[t].kind][task[t].item]
        /\ (task[t].phase = "call" /\ task[t].reply = "ok") \/ task[t].result = "ok" =>
             task[t].over = task[t].base
    BY <1>1, <1>2, <1>4 DEF TemplatesInv, SaveInv
  <2>2. CASE t = m
    <3>1. task'[t].phase = task[t].phase /\ task'[t].result = task[t].result
      BY <2>2 DEF Waits
    <3>2. CASE task[t].phase = "call"
      <4>1. /\ task[t].reply = "none" /\ task'[t].reply # "none"
            /\ task'[t].reply = "ok" => task'[t].over = content[task[t].kind][task[t].item]
        BY <1>1, <2>2, <3>2 DEF TemplatesServed
      <4>2. task[t].result = "none"
        BY <3>2 DEF KeysInv, Asking
      <4>3. QED
        BY <1>2, <2>1, <3>1, <3>2, <4>1, <4>2 DEF SaveInv
    <3>3. CASE task[t].phase # "call"
      <4>1. task'[t].over = task[t].over
        BY <1>1, <2>2, <3>3 DEF TemplatesServed
      <4>2. QED
        BY <1>2, <2>1, <3>1, <3>3, <4>1 DEF SaveInv
    <3>4. QED
      BY <3>2, <3>3
  <2>3. CASE t # m
    <3>1. task'[t] = task[t]
      BY <2>3 DEF Moves
    <3>2. task[t].phase = "call" =>
            content'[task[t].kind][task[t].item] = content[task[t].kind][task[t].item]
      <4> SUFFICES ASSUME task[t].phase = "call",
                          content'[task[t].kind][task[t].item] # content[task[t].kind][task[t].item]
                   PROVE  FALSE
        OBVIOUS
      <4>1. /\ Saving(m) /\ task[m].phase = "call" /\ task[m].kind = task[t].kind
            /\ task[m].item = task[t].item
        BY <1>2, ContentStays
      <4>2. Begun(t) /\ ~Later(m, t)
        BY <1>1, SavingFacts, TaskOf DEF Later, SortOK
      <4>3. Overlap(m, t)
        BY <2>3, <4>1, <4>2, LiveMeet
      <4>4. QED
        BY <1>4, <4>1, <4>3 DEF Excused
    <3>3. QED
      BY <1>2, <2>1, <3>1, <3>2 DEF SaveInv
  <2>4. QED
    BY <2>2, <2>3
<1>5. QED
  BY <1>3, <1>4

LEMMA TemplatesTask ==
    ASSUME TInv, KeysInv, TemplatesInv, NEW m \in Tasks, TaskStep(m) PROVE TemplatesInv'
<1>1. Moves(m) /\ Shape(m)
  BY StepShape
<1>2. CASE (Start(m) \/ Resume(m)) /\ UNCHANGED server
  <2>1. PageOK'
    BY <1>2, PageSteps
  <2>2. CopyInv'
    BY <1>1, <1>2, CopyPage
  <2>3. EditorInv'
    BY <1>1, <1>2, <2>1, <2>2, EditorPage
  <2>4. ASSUME NEW t \in Tasks PROVE ListInv(t)' /\ SaveInv(t)'
    BY <1>1, <1>2, ListPage, SavePage
  <2>5. QED
    BY <2>2, <2>3, <2>4 DEF TemplatesInv
<1>3. CASE Serve(m) /\ UNCHANGED page
  <2>1. Waits(m) /\ TemplatesServed(m) /\ task[m].phase # "idle"
    BY <1>3, ServeMoves, TemplatesServe
  <2>2. CopyInv' /\ EditorInv'
    BY <1>1, <1>3, <2>1, PageServed
  <2>3. ASSUME NEW t \in Tasks PROVE ListInv(t)' /\ SaveInv(t)'
    BY <1>1, <1>3, <2>1, ListServed, SaveServed
  <2>4. QED
    BY <2>2, <2>3 DEF TemplatesInv
<1>4. QED
  BY <1>2, <1>3 DEF TaskStep

LEMMA TemplatesKept ==
    ASSUME TemplatesInv, UNCHANGED <<task, content, latest>>, templates'.type = templates.type,
           templates'.cache = templates.cache, ScreenStays,
           EditorInv'
    PROVE  TemplatesInv'
<1>1. ASSUME NEW k, NEW i PROVE Dirty(k, i)' <=> Dirty(k, i)
  BY DEF Dirty, Saving
<1>2. CopyInv'
  BY <1>1 DEF TemplatesInv, CopyInv, OnScreen, ScreenStays
<1>3. ASSUME NEW t \in Tasks PROVE ListInv(t)'
  BY <1>1, <1>3 DEF TemplatesInv, ListInv
<1>4. ASSUME NEW t \in Tasks PROVE SaveInv(t)'
  BY <1>4 DEF TemplatesInv, SaveInv, Excused, Saving, Overlap, Begun
<1>5. EditorInv'
  OBVIOUS
<1>6. QED
  BY <1>2, <1>3, <1>4, <1>5 DEF TemplatesInv

LEMMA TemplatesClick ==
    ASSUME TInv, TemplatesInv, Click, UNCHANGED server PROVE TemplatesInv'
<1>1. task' = task /\ content' = content
  BY ClickKeeps DEF server
<1>2. ASSUME NEW k, NEW i PROVE Dirty(k, i)' <=> Dirty(k, i)
  BY <1>1 DEF Dirty, Saving
<1>3. CASE ToggleSelectUser
  <2>1. ScreenStays /\ UNCHANGED <<templates, latest>> /\ screen'.editor = screen.editor
    BY <1>3, SelectPage DEF rest
  <2>2. EditorInv'
    BY <1>1, <1>2, <2>1 DEF TemplatesInv, EditorInv, ScreenStays
  <2>3. QED
    BY <1>1, <2>1, <2>2, TemplatesKept
<1>4. CASE OpenWebhookDrawer \/ CloseWebhookDrawer \/ EditTemplate \/ TypeText
  <2>1. ScreenStays /\ latest' = latest
    BY <1>4, OtherClicks DEF ScreenKept
  <2>2. CASE /\ screen'.editor.item = screen.editor.item /\ screen'.editor.base = screen.editor.base
             /\ screen'.editor.quiet = screen.editor.quiet /\ UNCHANGED templates
    <3>1. EditorInv'
      BY <1>1, <1>2, <2>1, <2>2 DEF TemplatesInv, EditorInv, ScreenStays
    <3>2. QED
      BY <1>1, <2>1, <2>2, <3>1, TemplatesKept
  <2>3. CASE /\ OnScreen("templates") /\ templates'.type = templates.type
             /\ templates'.cache = templates.cache
             /\ \E i \in Templates : screen'.editor = Mounted(i, templates, screen.by)
    <3>1. PICK i \in Templates : screen'.editor = Mounted(i, templates, screen.by)
      BY <2>3
    <3>2. templates \in [type : Types, selectedId : Templates \cup {None}, cache : [Types -> Contents]]
      BY DEF TInv, TypeOK
    <3>3. /\ screen'.editor.item = i
          /\ screen'.editor.base = templates.cache[templates.type][i]
          /\ screen'.editor.quiet = (screen.by = latest["templates"])
      BY <3>1, <3>2, MountedFacts
    <3>4. screen'.editor.quiet =>
            \A k \in Types, j \in Templates :
                k = templates.type => templates.cache[k][j] = content[k][j] \/ Dirty(k, j)
      BY <2>3, <3>3 DEF TemplatesInv, CopyInv
    <3>5. ASSUME screen'.editor.quiet
          PROVE  /\ screen'.by = latest'["templates"]
                 /\ \A k \in Types, j \in Templates :
                      k = templates'.type /\ j = screen'.editor.item =>
                          screen'.editor.base = content'[k][j] \/ Dirty(k, j)'
      <4>1. screen.by = latest["templates"]
        BY <3>3, <3>5
      <4>2. screen'.by = latest'["templates"]
        BY <2>1, <4>1 DEF ScreenStays
      <4>3. ASSUME NEW k \in Types, k = templates.type
            PROVE  screen'.editor.base = content'[k][i] \/ Dirty(k, i)'
        BY <1>1, <1>2, <3>3, <3>4, <3>5, <4>3
      <4>4. QED
        BY <2>3, <3>3, <4>2, <4>3
    <3>6. EditorInv'
      BY <3>5 DEF EditorInv
    <3>7. QED
      BY <1>1, <2>1, <2>3, <3>6, TemplatesKept
  <2>4. QED
    BY <1>4, <2>2, <2>3, OtherClicks
<1>5. QED
  BY <1>3, <1>4 DEF Click

LEMMA TemplatesInit == Init => TemplatesInv
<1> SUFFICES ASSUME Init PROVE TemplatesInv
  OBVIOUS
<1>1. \A t \in Tasks : task[t].op = "none" /\ task[t].phase = "idle"
  <2> HIDE DEF NewTask
  <2>1. QED
    BY NewTaskFacts DEF Init
<1>2. ASSUME NEW t \in Tasks PROVE ListInv(t) /\ SaveInv(t)
  BY <1>1 DEF ListInv, SaveInv, Saving
<1>3. CopyInv
  <2>1. templates.type = "mail" /\ templates.cache["mail"] = content["mail"]
    BY DEF Init
  <2>2. QED
    BY <2>1 DEF CopyInv
<1>4. EditorInv
  BY FirstPage, SmallFacts DEF EditorInv
<1>5. QED
  BY <1>2, <1>3, <1>4 DEF TemplatesInv

LEMMA TemplatesNext ==
    TInv /\ ControlsInv /\ TemplatesInv /\ [Next]_vars => TemplatesInv'
<1> SUFFICES ASSUME TInv, ControlsInv, TemplatesInv, [Next]_vars PROVE TemplatesInv'
  OBVIOUS
<1>1. ASSUME NEW m \in Tasks, TaskStep(m) PROVE TemplatesInv'
  BY <1>1, TemplatesTask DEF ControlsInv
<1>2. CASE Click /\ UNCHANGED server
  BY <1>2, TemplatesClick
<1>3. CASE UNCHANGED vars
  <2>1. UNCHANGED <<task, content, latest, templates, screen>>
    BY <1>3 DEF vars, page, server, rest
  <2>2. ASSUME NEW k, NEW i PROVE Dirty(k, i)' <=> Dirty(k, i)
    BY <2>1 DEF Dirty, Saving
  <2>3. EditorInv'
    BY <2>1, <2>2 DEF TemplatesInv, EditorInv
  <2>4. QED
    BY <2>1, <2>3, TemplatesKept DEF ScreenStays
<1>4. QED
  BY <1>1, <1>2, <1>3 DEF Next, TaskStep

\* A save of a template replaces what its editor was filled from, if the editor shows the latest
\* answer, and no save of the same item overlapped or was done and reported as failed.
THEOREM SavesCorrect == Spec => []SaveReplacesWhatItLoaded
<1>1. TemplatesInv => SaveReplacesWhatItLoaded
  BY DEF TemplatesInv, SaveInv, SaveReplacesWhatItLoaded, Excused, Saving
<1>2. QED
  BY <1>1, TemplatesInit, TemplatesNext, TInvAlways, ControlsAlways, PTL DEF Spec

-----------------------------------------------------------------------------
(* Rows: what a step of the page brings to the screen, the selection and its task *)

Deletes == {"delete", "deleteFile", "deleteSelected"}

\* Every item comes from the screen, the selection or an answer, and no handler calls twice for one.
Brings(m) ==
    /\ screen'.rows \subseteq screen.rows \cup task[m].ids \cup Actions
    /\ screen'.files.rows \subseteq screen.files.rows \cup task[m].ids
    /\ selected' \subseteq selected \cup screen.rows
    /\ task'[m].ids \subseteq task[m].ids \cup selected \cup Actions
    /\ task[m].phase # "idle" /\ task'[m].phase = "call" => task[m].op = "toggleAction"
    /\ task[m].phase = "idle" =>
         /\ task'[m].removed \subseteq selected \cup screen.rows \cup screen.files.rows
         /\ task'[m].op \notin Deletes => task'[m].removed = {}
         /\ task'[m].op \in {"delete", "deleteFile"} =>
              task'[m].removed = {task'[m].item} /\ task'[m].ids = {}
         /\ task'[m].op = "deleteSelected" =>
              task'[m].removed = task'[m].ids /\ task'[m].phase = "call"

LEMMA OpeningsBring == ASSUME TInv, NEW m \in Tasks, Openings(m) PROVE Brings(m)
<1>1. selected' \subseteq selected \cup screen.rows
  BY DEF Openings, ShowTab, TurnPage, TypeFilter, TogglePanel, ToggleSelectAll, ClearSelection,
         DismissBanner, SetTemplateType, nav
<1>2. /\ Rendered(m) /\ task[m].phase = "idle" /\ task'[m].removed = {}
      /\ task'[m].op \notin Deletes
  BY OpeningsMoves DEF Deletes
<1>3. QED
  BY <1>1, <1>2 DEF Brings, Rendered, NoFiles, Deletes

LEMMA CallStartsBring == ASSUME TInv, NEW m \in Tasks, CallStarts(m) PROVE Brings(m)
<1>1. UNCHANGED <<screen, selected>>
  BY CallStartsMoves DEF page, nav
<1>2. task'[m].op \notin {"deleteFile", "deleteSelected"}
  BY CallStartsMoves
<1>3. QED
  BY <1>1, <1>2, CallStartsMoves DEF Brings, Deletes

\* A handler that starts with nothing to delete.
LEMMA NothingRemoved ==
    ASSUME TInv, NEW m \in Tasks,
           ToggleWebhookAction(m) \/ UpdateSetting(m) \/ SetBulk2FA(m) \/ SaveUiSettings(m)
           \/ SaveTemplate(m) \/ ResetMailTemplate(m)
    PROVE  task'[m].removed = {} /\ task'[m].ids = {}
<1> DEFINE Nothing == task'[m].removed = {} /\ task'[m].ids = {}
<1>1. ASSUME NEW op \in Operations, NEW view \in Tabs
      PROVE  /\ DOMAIN New(op, view) = TaskFields
             /\ New(op, view).removed = {} /\ New(op, view).ids = {}
  BY NewFacts, TaskParts
<1>2. /\ {"toggleAction", "updateSetting", "bulk2FA", "saveUi", "save", "reset"} \subseteq Operations
      /\ {"control", "users", "templates"} \subseteq Tabs
  BY DEF Operations, Tabs, Lists
<1>3. ASSUME ToggleWebhookAction(m) PROVE Nothing
  <2> DEFINE n == New("toggleAction", "control")
  <2>1. PICK a, on : task' = [task EXCEPT ![m] = [n EXCEPT !.phase = "read", !.item = a, !.value = on]]
    BY <1>3 DEF ToggleWebhookAction
  <2>2. DOMAIN n = TaskFields /\ n.removed = {} /\ n.ids = {}
    BY <1>1, <1>2
  <2> HIDE DEF n
  <2>3. task'[m] = [n EXCEPT !.phase = "read", !.item = a, !.value = on]
    BY <2>1, Becomes
  <2>4. QED
    BY <2>2, <2>3 DEF TaskFields
<1>4. ASSUME UpdateSetting(m) PROVE Nothing
  <2> DEFINE n == New("updateSetting", "control")
  <2>1. PICK on : task' = [task EXCEPT ![m] = [n EXCEPT !.value = on]]
    BY <1>4 DEF UpdateSetting
  <2>2. DOMAIN n = TaskFields /\ n.removed = {} /\ n.ids = {}
    BY <1>1, <1>2
  <2> HIDE DEF n
  <2>3. task'[m] = [n EXCEPT !.value = on]
    BY <2>1, Becomes
  <2>4. QED
    BY <2>2, <2>3 DEF TaskFields
<1>5. ASSUME SetBulk2FA(m) PROVE Nothing
  <2> DEFINE n == New("bulk2FA", "users")
  <2>1. PICK required : task' = [task EXCEPT ![m] = [n EXCEPT !.value = required]]
    BY <1>5 DEF SetBulk2FA
  <2>2. DOMAIN n = TaskFields /\ n.removed = {} /\ n.ids = {}
    BY <1>1, <1>2
  <2> HIDE DEF n
  <2>3. task'[m] = [n EXCEPT !.value = required]
    BY <2>1, Becomes
  <2>4. QED
    BY <2>2, <2>3 DEF TaskFields
<1>6. ASSUME SaveUiSettings(m) PROVE Nothing
  <2> DEFINE n == New("saveUi", "control")
  <2>1. task' = [task EXCEPT ![m] = [n EXCEPT !.text = screen.logo]]
    BY <1>6 DEF SaveUiSettings
  <2>2. DOMAIN n = TaskFields /\ n.removed = {} /\ n.ids = {}
    BY <1>1, <1>2
  <2> HIDE DEF n
  <2>3. task'[m] = [n EXCEPT !.text = screen.logo]
    BY <2>1, Becomes
  <2>4. QED
    BY <2>2, <2>3 DEF TaskFields
<1>7. ASSUME NEW op \in {"save", "reset"}, NEW text, Posts(m, op, text) PROVE Nothing
  <2> DEFINE n == New(op, "templates")
  <2>1. task' = [task EXCEPT ![m] = [n EXCEPT !.kind = templates.type, !.item = screen.editor.item,
                                              !.text = text, !.base = screen.editor.base,
                                              !.quiet = screen.editor.quiet]]
    BY <1>7 DEF Posts
  <2>2. DOMAIN n = TaskFields /\ n.removed = {} /\ n.ids = {}
    BY <1>1, <1>2
  <2> HIDE DEF n
  <2>3. task'[m] = [n EXCEPT !.kind = templates.type, !.item = screen.editor.item, 
                            !.text = text, !.base = screen.editor.base, !.quiet = screen.editor.quiet]
    BY <2>1, Becomes
  <2>4. QED
    BY <2>2, <2>3 DEF TaskFields
<1>8. QED
  BY <1>3, <1>4, <1>5, <1>6, <1>7 DEF SaveTemplate, ResetMailTemplate

LEMMA OtherStartsBring == ASSUME TInv, NEW m \in Tasks, OtherStarts(m) PROVE Brings(m)
<1>1. /\ screen'.rows = screen.rows /\ selected' = selected /\ task[m].phase = "idle"
  BY OtherStartsMoves DEF ScreenKept, ScreenStays, nav
<1>2. ASSUME DeleteSelected(m) PROVE Brings(m)
  <2>1. screen' = screen
    BY <1>2 DEF DeleteSelected, page
  <2>2. QED
    BY <1>1, <1>2, <2>1, DeleteSelectedMoves DEF Brings, Deletes
<1>3. ASSUME ToggleWebhookAction(m) PROVE Brings(m)
  BY <1>1, <1>3, ToggleActionMoves, NothingRemoved DEF Brings, Deletes
<1>4. ASSUME UpdateSetting(m) PROVE Brings(m)
  BY <1>1, <1>4, UpdateSettingMoves, NothingRemoved DEF Brings, Deletes
<1>5. ASSUME SetBulk2FA(m) \/ SaveUiSettings(m) PROVE Brings(m)
  <2>1. screen' = screen /\ task'[m].op \notin Deletes
    BY <1>5, SetBulk2FAMoves, SaveUiMoves DEF page, Deletes
  <2>2. QED
    BY <1>1, <1>5, <2>1, NothingRemoved DEF Brings, Deletes
<1>6. ASSUME SaveTemplate(m) \/ ResetMailTemplate(m) PROVE Brings(m)
  <2>1. PICK op \in {"save", "reset"}, text \in Versions \cup {None} : Posts(m, op, text)
    BY <1>6, TextTyped DEF SaveTemplate, ResetMailTemplate
  <2>2. screen' = screen /\ task'[m].op \notin Deletes
    BY <2>1, PostsMoves DEF page, Deletes
  <2>3. QED
    BY <1>1, <1>6, <2>2, NothingRemoved DEF Brings, Deletes
<1>7. ASSUME ListUploads(m) PROVE Brings(m)
  <2>1. DOMAIN screen = ScreenFields /\ screen.files \in Files
    BY ScreenParts DEF TInv, TypeOK, ScreenFieldsOK
  <2>2. screen'.files.rows \subseteq screen.files.rows
    BY <1>7, <2>1, ListUploadsMoves DEF ScreenFields, Files
  <2>3. QED
    BY <1>1, <1>7, <2>2, ListUploadsMoves DEF Brings, Deletes
<1>8. ASSUME DeleteUpload(m) PROVE Brings(m)
  <2>1. screen' = screen
    BY <1>8, DeleteUploadMoves DEF page
  <2>2. QED
    BY <1>1, <1>8, <2>1, DeleteUploadMoves DEF Brings, Deletes
<1>9. QED
  BY <1>2, <1>3, <1>4, <1>5, <1>6, <1>7, <1>8 DEF OtherStarts

LEMMA RerendersBring == ASSUME TInv, NEW m \in Tasks, Rerenders(m) PROVE Brings(m)
<1>1. task[m].phase = "call"
      /\ (Rendered(m) \/ (UNCHANGED page /\ task'[m].phase = "done" /\ task'[m].ids = {}))
  BY RerendersMoves
<1>2. selected' \subseteq selected
  <2>1. CASE HandlerResumes(m)
    <3>1. CASE SelectedDeleted(m)
      BY <3>1 DEF SelectedDeleted
    <3>2. CASE ~SelectedDeleted(m)
      BY <2>1, <3>2 DEF HandlerResumes, Changed, Saved, ActionToggled, SettingRefused, Bulk2FASet, nav
    <3>3. QED
      BY <3>1, <3>2
  <2>2. CASE ApiKeyCreated(m) \/ WebhookSaved(m)
    BY <2>2, ApiKeyMoves, WebhookSavedMoves DEF nav
  <2>3. QED
    BY <2>1, <2>2 DEF Rerenders
<1>3. CASE Rendered(m)
  BY <1>1, <1>2, <1>3 DEF Brings, Rendered, NoFiles
<1>4. CASE UNCHANGED page /\ task'[m].phase = "done" /\ task'[m].ids = {}
  BY <1>1, <1>4 DEF Brings, page, nav
<1>5. QED
  BY <1>1, <1>3, <1>4

LEMMA QuietBrings == ASSUME TInv, NEW m \in Tasks, Quiet(m) PROVE Brings(m)
<1>1. UNCHANGED <<screen, selected>> /\ task[m].phase # "idle"
  BY QuietMoves DEF page, nav
<1>2. ASSUME NotChanged(m) \/ MemberChanged(m) \/ SettingUpdated(m) \/ PolicyUpdated(m)
             \/ UiSettingsSaved(m) \/ AskDetails(m)
      PROVE  task'[m].ids \subseteq task[m].ids /\ task'[m].phase # "call"
  BY <1>2, NotChangedMoves, MemberChangedMoves, SettingUpdatedMoves, PolicyUpdatedMoves,
     UiSettingsSavedMoves, AskDetailsMoves
<1>3. ASSUME WriteActions(m)
      PROVE  /\ task'[m].ids \subseteq task[m].ids \cup Actions
             /\ task[m].op = "toggleAction"
  <2>1. task[m].op = "toggleAction"
    BY <1>3 DEF WriteActions
  <2>2. task[m].item \in Actions
    BY <2>1, TaskOf DEF SortOK, Sort
  <2>3. QED
    BY <1>3, <2>1, <2>2, WriteActionsMoves DEF Switch
<1>4. QED
  BY <1>1, <1>2, <1>3 DEF Quiet, Brings

LEMMA InPanelsBring == ASSUME TInv, NEW m \in Tasks, InPanels(m) PROVE Brings(m)
<1>1. /\ screen'.rows = screen.rows /\ selected' = selected
      /\ task[m].phase # "idle" /\ task'[m].phase # "call"
  BY InPanelsMoves DEF ScreenKept, ScreenStays, nav
<1>2. screen.files \in Files
  BY ScreenParts DEF TInv, TypeOK, ScreenFieldsOK
<1>3. CASE Uploaded(m) \/ PanelLoaded(m)
  BY <1>1, <1>3, UploadedMoves, PanelLoadedMoves DEF Brings
<1>4. CASE UploadDeleted(m)
  <2>1. screen'.files \in {screen.files, [screen.files EXCEPT !.open = FALSE],
                           [open |-> TRUE, rows |-> {}, by |-> None, asked |-> m]}
        /\ task'[m].ids \subseteq task[m].ids
    BY <1>4, UploadDeletedMoves
  <2>2. screen'.files.rows \subseteq screen.files.rows
    BY <1>2, <2>1 DEF Files
  <2>3. QED
    BY <1>1, <2>1, <2>2 DEF Brings
<1>5. CASE FilesListed(m)
  <2>1. screen'.files.rows \subseteq screen.files.rows \cup task[m].ids /\ task'[m].ids = {}
    BY <1>2, <1>5, FilesListedMoves DEF Files
  <2>2. QED
    BY <1>1, <2>1 DEF Brings
<1>6. QED
  BY <1>3, <1>4, <1>5 DEF InPanels

LEMMA ShownBrings == ASSUME TInv, NEW m \in Tasks, Shown(m) PROVE Brings(m)
<1>1. /\ selected' = selected /\ task[m].phase # "idle" /\ task'[m].phase # "call"
  BY ShownMoves DEF Shows, nav
<1>2. ASSUME ShowUsers(m) \/ ShowTenants(m) \/ ShowSessions(m) \/ ShowWebhooks(m)
             \/ ShowApiKeys(m) \/ ShowRoles(m)
      PROVE  Painted(m) /\ task'[m].ids \subseteq task[m].ids
  BY <1>2, ShowUsersMoves, ShowTenantsMoves, PaintsMoves
<1>3. ASSUME ShowControl(m)
      PROVE  screen'.rows \subseteq Actions /\ screen'.files = NoFiles /\ task'[m].ids = {}
  BY <1>3, ShowControlMoves DEF PageOK, ScreenOK
<1>4. ASSUME ShowTemplates(m)
      PROVE  screen'.rows = {} /\ screen'.files = NoFiles /\ task'[m].ids = {}
  <2>1. screen'.rows = {}
    BY <1>4, BlankFacts DEF ShowTemplates, ScreenFields
  <2>2. QED
    BY <1>4, <2>1, ShowTemplatesMoves
<1>5. QED
  BY <1>1, <1>2, <1>3, <1>4 DEF Shown, Brings, Painted, NoFiles

LEMMA StepBrings ==
    ASSUME TInv, NEW m \in Tasks, Start(m) \/ Resume(m)
    PROVE  Brings(m)
<1>1. CASE ListFailed(m)
  <2>1. /\ selected' = selected /\ task[m].phase = "list" /\ task'[m].phase = "done"
        /\ task'[m].ids = {} /\ screen'.rows = {} /\ screen'.files = NoFiles
    BY <1>1, ListFailedMoves DEF nav
  <2>2. QED
    BY <2>1 DEF Brings, NoFiles
<1>2. QED
  BY <1>1, StepGroups, OpeningsBring, CallStartsBring, OtherStartsBring, RerendersBring,
     QuietBrings, InPanelsBring, ShownBrings

\* A step that begins no render paints a list, changes the screen in place, or leaves it.
Repaints(m) ==
    /\ UNCHANGED <<query, latest>>
    /\ \/ screen'.state # "shown"
       \/ ScreenStays
       \/ /\ screen'.view = task[m].view /\ screen'.by = m
          /\ task[m].view \in Lists =>
               /\ task[m].phase = "details" \/ Got(m, "list", "ok")
               /\ screen'.rows \subseteq task[m].ids
               /\ screen'.sent \in {task[m].query, query[task[m].view]}
    /\ task'[m].phase # "list"
    /\ task'[m].phase = "details" =>
         Got(m, "list", "ok") /\ task'[m].ids = task[m].ids /\ task'[m].query = task[m].query
    /\ task[m].phase # "idle" /\ task'[m].result = "ok" /\ task[m].result # "ok" =>
         task[m].op \notin {"delete", "deleteSelected"}

Relists(m) == Rendered(m) /\ \A v \in Tabs \ {task'[m].view} : query'[v] = query[v]

\* The panel of files stays or is closed; it is opened empty; or it is filled by an answer.
FilesStep(m) ==
    \/ /\ screen'.files = screen.files \/ ~screen'.files.open
       /\ task'[m].phase # "files"
       /\ task[m].op = "deleteFile" /\ task'[m].result = "ok" /\ task[m].result # "ok" =>
            ~screen'.files.open
    \/ /\ screen'.files = [open |-> TRUE, rows |-> {}, by |-> None, asked |-> m]
       /\ task'[m].phase = "files" /\ task'[m].reply = "none"
       /\ task'[m].ids = {} \/ (task[m].op = "deleteFile" /\ task[m].phase = "call"
                                /\ task'[m].ids = task[m].ids)
    \/ /\ task[m].phase = "files" /\ task[m].reply # "none" /\ task'[m].phase = "done"
       /\ task'[m].result = task[m].result
       /\ screen'.files.open = screen.files.open /\ screen'.files.asked = screen.files.asked
       /\ screen'.files.rows = task[m].ids /\ screen'.files.by = m

PageStep(m) == (Relists(m) \/ Repaints(m)) /\ FilesStep(m)

LEMMA RelistsFiles ==
    ASSUME TInv, NEW m \in Tasks, Relists(m) PROVE PageStep(m)
BY DEF PageStep, Relists, Rendered, FilesStep, NoFiles

LEMMA OtherStartsStep == ASSUME TInv, NEW m \in Tasks, OtherStarts(m) PROVE PageStep(m)
<1>1. /\ UNCHANGED <<query, latest>> /\ ScreenStays /\ task[m].phase = "idle"
      /\ task'[m].result = "none"
  BY OtherStartsMoves DEF ScreenKept, nav
<1>2. task[m].op = "none"
  BY <1>1, TaskOf DEF SortOK, Sort
<1>3. ASSUME screen'.files = screen.files, task'[m].phase \in {"call", "read"} PROVE PageStep(m)
  BY <1>1, <1>2, <1>3 DEF PageStep, Repaints, FilesStep
<1>4. CASE DeleteSelected(m)
  BY <1>3, <1>4, DeleteSelectedMoves DEF DeleteSelected, page
<1>5. CASE ToggleWebhookAction(m) \/ UpdateSetting(m)
  BY <1>3, <1>5, ToggleActionMoves, UpdateSettingMoves
<1>6. CASE SetBulk2FA(m) \/ SaveUiSettings(m) \/ DeleteUpload(m)
  BY <1>3, <1>6, SetBulk2FAMoves, SaveUiMoves, DeleteUploadMoves DEF page
<1>7. CASE SaveTemplate(m) \/ ResetMailTemplate(m)
  <2>1. PICK op \in {"save", "reset"}, text \in Versions \cup {None} : Posts(m, op, text)
    BY <1>7, TextTyped DEF SaveTemplate, ResetMailTemplate
  <2>2. QED
    BY <1>3, <2>1, PostsMoves DEF page
<1>8. CASE ListUploads(m)
  <2>1. DOMAIN screen = ScreenFields /\ screen.files \in Files
    BY ScreenParts DEF TInv, TypeOK, ScreenFieldsOK
  <2>2. CASE screen.files.open
    <3>1. ~screen'.files.open /\ task'[m].phase = "done"
      BY <1>8, <2>1, <2>2, ListUploadsMoves DEF ScreenFields, Files
    <3>2. QED
      BY <1>1, <1>2, <3>1 DEF PageStep, Repaints, FilesStep
  <2>3. CASE ~screen.files.open
    <3>1. /\ screen'.files = [open |-> TRUE, rows |-> {}, by |-> None, asked |-> m]
          /\ task'[m].phase = "files" /\ task'[m].reply = "none" /\ task'[m].ids = {}
      BY <1>8, <2>1, <2>3, ListUploadsMoves DEF ScreenFields
    <3>2. QED
      BY <1>1, <1>2, <3>1 DEF PageStep, Repaints, FilesStep
  <2>4. QED
    BY <2>2, <2>3
<1>9. QED
  BY <1>4, <1>5, <1>6, <1>7, <1>8 DEF OtherStarts

LEMMA RerendersStep == ASSUME TInv, NEW m \in Tasks, Rerenders(m) PROVE PageStep(m)
<1>1. task[m].phase = "call" /\ query' = query
  BY RerendersMoves
<1>2. CASE Rendered(m)
  BY <1>1, <1>2, RelistsFiles DEF Relists
<1>3. CASE ~Rendered(m)
  <2>1. WebhookSaved(m)
    BY <1>3, HandlersResume, ApiKeyMoves DEF Rerenders
  <2>2. task[m].op = "saveWebhook" /\ UNCHANGED page /\ task'[m].phase = "done"
    BY <1>3, <2>1, WebhookSavedMoves
  <2>3. screen' = screen /\ latest' = latest
    BY <2>2 DEF page
  <2>4. QED
    BY <1>1, <2>2, <2>3 DEF PageStep, Repaints, FilesStep, ScreenStays
<1>4. QED
  BY <1>2, <1>3

LEMMA QuietStep == ASSUME TInv, NEW m \in Tasks, Quiet(m) PROVE PageStep(m)
<1>1. UNCHANGED <<query, latest, screen>> /\ task'[m].phase \notin {"list", "files"}
  BY QuietMoves DEF page, nav
<1>2. ASSUME NotChanged(m) \/ MemberChanged(m) \/ WriteActions(m) \/ SettingUpdated(m)
             \/ PolicyUpdated(m) \/ UiSettingsSaved(m)
      PROVE  /\ task'[m].phase # "details"
             /\ task'[m].result = "ok" /\ task[m].result # "ok" =>
                  task[m].op \notin {"delete", "deleteSelected", "deleteFile"}
  <2>1. CASE NotChanged(m)
    BY <2>1, NotChangedMoves
  <2>2. CASE MemberChanged(m)
    BY <2>2, MemberChangedMoves DEF MemberChanged
  <2>3. CASE WriteActions(m) \/ SettingUpdated(m)
    BY <2>3, WriteActionsMoves, SettingUpdatedMoves
  <2>4. CASE PolicyUpdated(m)
    BY <2>4, PolicyUpdatedMoves, TaskOf DEF SortOK, Sort
  <2>5. CASE UiSettingsSaved(m)
    BY <2>5, UiSettingsSavedMoves
  <2>6. QED
    BY <1>2, <2>1, <2>2, <2>3, <2>4, <2>5
<1>3. ASSUME AskDetails(m)
      PROVE  /\ Got(m, "list", "ok") /\ task'[m].ids = task[m].ids
             /\ task'[m].query = task[m].query /\ task'[m].result = task[m].result
  BY <1>3, AskDetailsMoves DEF Got
<1>4. QED
  BY <1>1, <1>2, <1>3 DEF Quiet, PageStep, Repaints, FilesStep, ScreenStays

LEMMA InPanelsStep == ASSUME TInv, NEW m \in Tasks, InPanels(m) PROVE PageStep(m)
<1>1. UNCHANGED <<query, latest>> /\ ScreenStays /\ task'[m].phase \in {"done", "files"}
  BY InPanelsMoves DEF ScreenKept, nav
<1>2. DOMAIN screen = ScreenFields /\ screen.files \in Files
  BY ScreenParts DEF TInv, TypeOK, ScreenFieldsOK
<1>3. CASE Uploaded(m)
  BY <1>1, <1>3, UploadedMoves DEF PageStep, Repaints, FilesStep
<1>4. CASE PanelLoaded(m)
  BY <1>1, <1>4, PanelLoadedMoves DEF PageStep, Repaints, FilesStep
<1>5. CASE FilesListed(m)
  <2>1. /\ task[m].phase = "files" /\ task[m].reply # "none" /\ task'[m].phase = "done"
        /\ task'[m].result = task[m].result
    BY <1>5, FilesListedMoves DEF FilesListed
  <2>2. CASE OnScreen("control") /\ screen.by = task[m].by
    <3>1. screen'.files = [screen.files EXCEPT !.rows = task[m].ids, !.by = m]
      BY <1>5, <2>2, FilesListedMoves
    <3>2. /\ screen'.files.open = screen.files.open /\ screen'.files.asked = screen.files.asked
          /\ screen'.files.rows = task[m].ids /\ screen'.files.by = m
      BY <1>2, <3>1 DEF Files
    <3>3. QED
      BY <1>1, <2>1, <3>2 DEF PageStep, Repaints, FilesStep
  <2>3. CASE ~(OnScreen("control") /\ screen.by = task[m].by)
    <3>1. screen'.files = screen.files
      BY <1>5, <2>3, FilesListedMoves
    <3>2. QED
      BY <1>1, <2>1, <3>1 DEF PageStep, Repaints, FilesStep
  <2>4. QED
    BY <2>2, <2>3
<1>6. CASE UploadDeleted(m)
  <2>1. task[m].op = "deleteFile" /\ task[m].phase = "call"
    BY <1>6, UploadDeletedMoves
  <2>2. Repaints(m)
    BY <1>1, <2>1 DEF Repaints
  <2>3. CASE ~OnScreen("control")
    <3>1. ~screen.files.open
      BY <2>3 DEF TInv, ScreenOK
    <3>2. task'[m].phase = "done" /\ screen' = screen
      BY <1>6, <2>3, UploadDeletedMoves
    <3>3. QED
      BY <2>2, <3>1, <3>2 DEF PageStep, FilesStep
  <2>4. CASE OnScreen("control") /\ screen.files.open
    <3>1. task'[m].phase = "done" /\ screen'.files = [screen.files EXCEPT !.open = FALSE]
      BY <1>6, <2>4, UploadDeletedMoves
    <3>2. ~screen'.files.open
      BY <1>2, <3>1 DEF Files
    <3>3. QED
      BY <2>2, <3>1, <3>2 DEF PageStep, FilesStep
  <2>5. CASE OnScreen("control") /\ ~screen.files.open
    <3>1. /\ screen'.files = [open |-> TRUE, rows |-> {}, by |-> None, asked |-> m]
          /\ task'[m].phase = "files" /\ task'[m].reply = "none" /\ task'[m].ids = task[m].ids
      BY <1>6, <2>5, UploadDeletedMoves
    <3>2. QED
      BY <2>1, <2>2, <3>1 DEF PageStep, FilesStep
  <2>6. QED
    BY <2>3, <2>4, <2>5
<1>7. QED
  BY <1>3, <1>4, <1>5, <1>6 DEF InPanels

LEMMA ShownStep == ASSUME TInv, NEW m \in Tasks, Shown(m) PROVE PageStep(m)
<1>1. /\ UNCHANGED <<query, latest>> /\ task'[m].phase \in {"panel", "done"}
      /\ task'[m].result = task[m].result
  BY ShownMoves DEF Shows, nav
<1>2. ASSUME ShowUsers(m) \/ ShowTenants(m) \/ ShowSessions(m) \/ ShowWebhooks(m)
             \/ ShowApiKeys(m) \/ ShowRoles(m)
      PROVE  Painted(m) /\ (task[m].phase = "details" \/ Got(m, "list", "ok"))
  BY <1>2, ShowUsersMoves, ShowTenantsMoves, PaintsMoves DEF Got
<1>3. ASSUME ShowControl(m) \/ ShowTemplates(m)
      PROVE  /\ screen'.view = task[m].view /\ screen'.by = m /\ screen'.files = NoFiles
             /\ task[m].view \notin Lists
  BY <1>3, ShowControlMoves, ShowTemplatesMoves DEF Lists
<1>4. QED
  BY <1>1, <1>2, <1>3 DEF Shown, PageStep, Repaints, FilesStep, Painted, NoFiles

LEMMA TaskPageStep ==
    ASSUME TInv, NEW m \in Tasks, Start(m) \/ Resume(m)
    PROVE  PageStep(m)
<1>1. CASE Openings(m)
  BY <1>1, OpeningsMoves, RelistsFiles DEF Relists
<1>2. CASE CallStarts(m)
  <2>1. UNCHANGED <<screen, query, latest>> /\ task[m].op = "none"
    BY <1>2, CallStartsMoves, TaskOf DEF page, nav, SortOK, Sort
  <2>2. QED
    BY <1>2, <2>1, CallStartsMoves DEF PageStep, Repaints, FilesStep, ScreenStays
<1>3. CASE ListFailed(m)
  <2>1. /\ UNCHANGED <<query, latest>> /\ task'[m].phase = "done" /\ screen'.state = "error"
        /\ task'[m].result = task[m].result /\ screen'.files = NoFiles
    BY <1>3, ListFailedMoves DEF nav
  <2>2. QED
    BY <2>1 DEF PageStep, Repaints, FilesStep, NoFiles
<1>4. QED
  BY <1>1, <1>2, <1>3, StepGroups, OtherStartsStep, RerendersStep, QuietStep, InPanelsStep,
     ShownStep

-----------------------------------------------------------------------------
(* Rows: what the server answers *)

\* A name that nothing has yet: its task has not begun, or its creation is not answered.
Unborn == {t \in Tasks : \/ task[t].phase = "idle"
                         \/ task[t].phase = "call" /\ task[t].reply = "none" /\ task[t].item = t}

\* Where the items stand that a handler of a view deletes.
ListOf(view) == IF view = "control" THEN "files" ELSE view

Answered(q) ==
    /\ task'[q].reply = "none" => task[q].reply = "none" /\ task[q].op = "deleteSelected"
    /\ \A x \in task'[q].ids : \/ x \in task[q].ids \cup Actions
                               \/ \E v \in Lists \cup {"files"} : x \in stored[v]
    /\ \A v \in Lists \cup {"files"} : \A x \in stored'[v] :
         x \in stored[v] \/ (x = q /\ q \in Unborn /\ task'[q].reply # "none")
    /\ task[q].op = "deleteSelected" /\ task[q].phase = "call" =>
         \E i \in task[q].ids : /\ task'[q].ids = task[q].ids \ {i}
                                /\ task'[q].reply = "none" => i \notin stored'["users"]
    /\ task[q].op \in {"delete", "deleteFile"} /\ task[q].phase = "call" =>
         /\ task'[q].ids = task[q].ids
         /\ task'[q].reply = "ok" => task[q].item \notin stored'[ListOf(task[q].view)]
    /\ task[q].view \in Lists /\ task[q].phase \in {"list", "details"} =>
         \/ task'[q].ids \subseteq task[q].ids
            /\ (task'[q].reply = "ok" => task[q].reply = "ok")
         \/ task[q].phase = "list" /\ task'[q].ids \subseteq stored'[task[q].view]
    /\ task[q].phase = "files" =>
         IF task'[q].reply = "ok" THEN task'[q].ids \subseteq stored'["files"]
         ELSE task[q].reply = "none" /\ task'[q].ids = task[q].ids

LEMMA SelectedAnswered ==
    ASSUME TInv, NEW q \in Tasks, ServeDeleteSelected(q) PROVE Answered(q)
<1>1. PICK i \in task[q].ids :
        /\ task'[q].ids = task[q].ids \ {i}
        /\ stored' = [stored EXCEPT !["users"] = @ \ {i}] \/ UNCHANGED stored
        /\ \/ /\ task'[q].reply = task[q].reply
              /\ task[q].phase = "call" => stored' = [stored EXCEPT !["users"] = @ \ {i}]
           \/ task[q].phase = "call" /\ task'[q].reply = "failed"
  BY ServeDeleteSelectedMoves
<1>2. task[q].op = "deleteSelected" /\ task[q].phase # "files"
  BY ServeDeleteSelectedMoves, TaskOf DEF SortOK, Sort
<1>3. /\ \A v \in Lists \cup {"files"} : stored'[v] \subseteq stored[v]
      /\ stored' = [stored EXCEPT !["users"] = @ \ {i}] => i \notin stored'["users"]
  BY <1>1 DEF TInv, TypeOK, Lists
<1>4. QED
  BY <1>1, <1>2, <1>3 DEF Answered

LEMMA CallAnswered ==
    ASSUME TInv, NEW q \in Tasks, ServeCall(q) PROVE Answered(q)
<1>1. /\ task[q].op \in {"delete", "create", "change", "member", "saveWebhook", "upload",
                         "deleteFile"}
      /\ task[q].phase = "call" /\ task[q].reply = "none" /\ task'[q].ids = task[q].ids
      /\ \/ Applies(q) /\ task'[q].reply \in {"ok", "failed"}
         \/ UNCHANGED stored /\ task'[q].reply = "failed"
  BY ServeCallMoves
<1>2. \A v \in Lists \cup {"files"} : \A x \in stored'[v] :
        x \in stored[v] \/ (x = q /\ q \in Unborn /\ task'[q].reply # "none")
  <2>1. CASE UNCHANGED stored
    BY <2>1
  <2>2. CASE Applies(q)
    <3> DEFINE w == IF task[q].op \in {"upload", "deleteFile"} THEN "files" ELSE task[q].view
    <3>1. PICK new : /\ stored' = [stored EXCEPT ![w] = new]
                     /\ \A x \in new : x \in stored[w] \/ (x = q /\ task[q].item = q)
      BY <2>2 DEF Applies
    <3>2. \A v \in Lists \cup {"files"} : stored'[v] = (IF v = w THEN new ELSE stored[v])
      BY <3>1 DEF TInv, TypeOK
    <3>3. QED
      BY <1>1, <2>2, <3>1, <3>2 DEF Unborn
  <2>3. QED
    BY <1>1, <2>1, <2>2
<1>3. task[q].op \in {"delete", "deleteFile"} /\ task'[q].reply = "ok" =>
        task[q].item \notin stored'[ListOf(task[q].view)]
  <2> SUFFICES ASSUME task[q].op \in {"delete", "deleteFile"}, task'[q].reply = "ok"
               PROVE  task[q].item \notin stored'[ListOf(task[q].view)]
    OBVIOUS
  <2>1. /\ task[q].op = "delete" => task[q].view \in Lists
        /\ task[q].op = "deleteFile" => task[q].view = "control"
    BY TaskOf DEF SortOK, Sort
  <2>2. ListOf(task[q].view) = (IF task[q].op = "deleteFile" THEN "files" ELSE task[q].view)
        /\ ListOf(task[q].view) \in Lists \cup {"files"}
    BY <2>1 DEF ListOf, Lists
  <2>3. stored' = [stored EXCEPT ![ListOf(task[q].view)] = @ \ {task[q].item}]
    BY <1>1, <2>2 DEF Applies
  <2>4. QED
    BY <2>2, <2>3 DEF TInv, TypeOK
<1>4. QED
  BY <1>1, <1>2, <1>3 DEF Answered

\* An answer that is not a list of files or rows leaves what is to be shown.
LEMMA OthersAnswered ==
    ASSUME TInv, NEW q \in Tasks, UNCHANGED stored, task'[q].reply # "none",
           task'[q].ids \subseteq task[q].ids \cup Actions,
           \/ task[q].phase \in {"read", "policy"}
           \/ task[q].phase = "call" /\ task[q].op \notin Deletes
           \/ task[q].phase = "list" /\ task[q].view \notin Lists
           \/ task[q].phase = "list" /\ task'[q].reply = "failed" /\ task'[q].ids = task[q].ids
    PROVE  Answered(q)
<1>1. task[q].phase \in {"read", "policy"} => task[q].op \notin Deletes
  BY TaskOf DEF SortOK, Sort, Deletes
<1>2. QED
  BY <1>1 DEF Answered, Deletes

LEMMA StepAnswered ==
    ASSUME TInv, NEW q \in Tasks, Serve(q) PROVE Answered(q)
<1>1. CASE ServeList(q)
  <2>1. stored' = stored /\ task[q].phase = "list" /\ task[q].view \in Lists
        /\ task'[q].reply = "ok" /\ task'[q].ids \subseteq stored[task[q].view]
    BY <1>1, ServeListMoves DEF server
  <2>2. QED
    BY <2>1 DEF Answered
<1>2. CASE FailList(q) \/ FailRead(q)
  <2>1. stored' = stored /\ task[q].phase \in {"list", "read"} /\ task'[q].reply = "failed"
    BY <1>2, FailListMoves DEF server
  <2>2. task'[q].ids = task[q].ids
    BY <1>2, ReplyMoves DEF FailList, FailRead, Awaits
  <2>3. QED
    BY <2>1, <2>2, OthersAnswered
<1>3. CASE ServeSettings(q)
  <2>1. /\ stored' = stored /\ task'[q].reply = "ok" /\ task'[q].ids = settings.enabled
        /\ task[q].phase = "read" \/ (task[q].phase = "list" /\ task[q].view = "control")
    BY <1>3, ServeSettingsMoves DEF server
  <2>2. settings.enabled \subseteq Actions /\ "control" \notin Lists
    BY DEF TInv, TypeOK, Lists
  <2>3. QED
    BY <2>1, <2>2, OthersAnswered
<1>4. CASE ServeWrite(q)
  <2>1. task'[q].reply # "none"
    BY <1>4, Becomes, ReplyMoves DEF ServeWrite
  <2>2. QED
    BY <1>4, <2>1, ServeWriteMoves, OthersAnswered DEF Deletes
<1>5. CASE ServeFiles(q)
  <2>1. /\ stored' = stored /\ task[q].phase = "files" /\ task[q].reply = "none"
        /\ \/ task'[q].reply = "ok" /\ task'[q].ids = stored["files"]
           \/ task'[q].reply = "failed" /\ task'[q].ids = task[q].ids
    BY <1>5, ServeFilesMoves DEF server
  <2>2. task[q].op \in {"files", "deleteFile"}
    BY <2>1, TaskOf DEF SortOK, Sort
  <2>3. QED
    BY <2>1, <2>2 DEF Answered
<1>6. CASE ServeTemplates(q)
  BY <1>6, ServeTemplatesMoves, OthersAnswered DEF server, Lists
<1>7. CASE ServeSave(q)
  <2>1. task'[q].reply # "none"
    BY <1>7, ServeSaveMoves
  <2>2. QED
    BY <1>7, <2>1, ServeSaveMoves, OthersAnswered DEF Deletes
<1>8. QED
  BY <1>1, <1>2, <1>3, <1>4, <1>5, <1>6, <1>7, SelectedAnswered, CallAnswered DEF Serve

-----------------------------------------------------------------------------
(* Rows: nothing is listed, selected or deleted before it is created *)

BornInv ==
    /\ \A v \in Lists \cup {"files"} : stored[v] \cap Unborn = {}
    /\ (screen.rows \cup screen.files.rows \cup selected) \cap Unborn = {}
    /\ \A t \in Tasks : (task[t].ids \cup task[t].removed) \cap Unborn = {}

LEMMA ActionsApart == Actions \cap Tasks = {} /\ None \notin Tasks
BY ItemAssumption DEF None

LEMMA UnbornShrinks ==
    ASSUME TInv, NEW m \in Tasks, Moves(m),
           Brings(m) \/ (Waits(m) /\ Answered(m))
    PROVE  Unborn' \subseteq Unborn
<1>1. ASSUME NEW q \in Tasks, q # m, q \in Unborn' PROVE q \in Unborn
  BY <1>1 DEF Unborn, Moves
<1>2. ASSUME m \in Unborn', task[m].phase # "idle" PROVE m \in Unborn
  <2>1. task'[m].phase = "call" /\ task'[m].reply = "none" /\ task'[m].item = m
    BY <1>2 DEF Unborn, Moves, Carries
  <2>2. task[m].item = m
    BY <1>2, <2>1 DEF Moves, Carries
  <2>3. task[m].op # "toggleAction"
    BY <2>2, TaskOf, ActionsApart DEF SortOK, Sort
  <2>4. QED
    BY <1>2, <2>1, <2>2, <2>3 DEF Brings, Waits, Answered, Unborn
<1>3. m \in Unborn' => m \in Unborn
  BY <1>2 DEF Unborn
<1>4. QED
  BY <1>1, <1>3 DEF Unborn

LEMMA BornPage ==
    ASSUME TInv, NEW m \in Tasks, Moves(m), Brings(m), UNCHANGED stored, BornInv
    PROVE  BornInv'
<1>1. Unborn' \subseteq Unborn /\ Actions \cap Unborn = {}
  BY UnbornShrinks, ActionsApart DEF Unborn
<1>2. (screen'.rows \cup screen'.files.rows \cup selected') \cap Unborn' = {}
  BY <1>1 DEF Brings, BornInv
<1>3. ASSUME NEW q \in Tasks
      PROVE  (task'[q].ids \cup task'[q].removed) \cap Unborn' = {}
  <2>1. CASE q # m
    BY <1>1, <2>1 DEF Moves, BornInv
  <2>2. CASE q = m
    <3>1. task'[m].removed \subseteq task[m].removed \cup selected \cup screen.rows
                                     \cup screen.files.rows
      BY DEF Moves, Carries, Brings
    <3>2. task'[m].ids \subseteq task[m].ids \cup selected \cup Actions
      BY DEF Brings
    <3>3. QED
      BY <1>1, <2>2, <3>1, <3>2 DEF BornInv
  <2>3. QED
    BY <2>1, <2>2
<1>4. QED
  BY <1>1, <1>2, <1>3 DEF BornInv

LEMMA BornServe ==
    ASSUME TInv, NEW m \in Tasks, Moves(m), Waits(m), Answered(m), task[m].phase # "idle",
           UNCHANGED <<screen, selected>>, BornInv
    PROVE  BornInv'
<1>1. Unborn' \subseteq Unborn /\ Actions \cap Unborn = {}
  BY UnbornShrinks, ActionsApart DEF Unborn
<1>2. ASSUME NEW v \in Lists \cup {"files"}, NEW x \in stored'[v] PROVE x \notin Unborn'
  BY <1>1 DEF Answered, BornInv, Unborn, Moves, Carries
<1>3. ASSUME NEW q \in Tasks
      PROVE  (task'[q].ids \cup task'[q].removed) \cap Unborn' = {}
  <2>1. CASE q # m
    BY <1>1, <2>1 DEF Moves, BornInv
  <2>2. CASE q = m
    BY <1>1, <2>2 DEF Moves, Carries, Answered, BornInv
  <2>3. QED
    BY <2>1, <2>2
<1>4. QED
  BY <1>1, <1>2, <1>3 DEF BornInv

-----------------------------------------------------------------------------
(* Rows: what an answered deletion has deleted *)

Deleting(t) ==
    /\ task[t].op \notin Deletes => task[t].removed = {}
    /\ task[t].op \in {"delete", "deleteFile"} => task[t].removed = {task[t].item}
    /\ task[t].op = "deleteSelected" /\ Awaits(t, "call") =>
         (task[t].removed \ task[t].ids) \cap stored["users"] = {}
    /\ task[t].op \in {"delete", "deleteFile"} /\ Got(t, "call", "ok") =>
         task[t].removed \cap stored[ListOf(task[t].view)] = {}
    /\ task[t].result = "ok" => task[t].removed \cap stored[ListOf(task[t].view)] = {}

GoneInv == \A t \in Tasks : Deleting(t)

LEMMA DeletesFrom ==
    ASSUME TInv, NEW t \in Tasks, task[t].op \in Deletes
    PROVE  /\ ListOf(task[t].view) \in Lists \cup {"files"}
           /\ task[t].op = "deleteSelected" => ListOf(task[t].view) = "users"
           /\ task[t].op # "deleteFile" => task[t].view \in Lists
           /\ task[t].op = "deleteFile" => task[t].view = "control"
BY TaskOf DEF SortOK, Sort, Deletes, ListOf, Lists

LEMMA GonePage ==
    ASSUME TInv, NEW m \in Tasks, Moves(m), Shape(m), Brings(m), CallsInOrder(m),
           UNCHANGED stored, GoneInv
    PROVE  GoneInv'
<1>1. ASSUME NEW q \in Tasks, q # m PROVE Deleting(q)'
  BY <1>1 DEF Moves, GoneInv, Deleting, Awaits, Got
<1>2. CASE task[m].phase = "idle"
  <2>1. task'[m].result = "none" /\ (task'[m].phase = "call" => task'[m].reply = "none")
    BY <1>2 DEF Shape, ResultShape, CallsInOrder, Asking
  <2>2. Deleting(m)'
    BY <1>2, <2>1 DEF Deleting, Brings, Awaits, Got, Deletes
  <2>3. QED
    BY <1>1, <2>2 DEF GoneInv
<1>3. CASE task[m].phase # "idle"
  <2>1. /\ task'[m].op = task[m].op /\ task'[m].view = task[m].view
        /\ task'[m].item = task[m].item /\ task'[m].removed = task[m].removed
    BY <1>3 DEF Moves, Carries
  <2>2. /\ task'[m].phase = "call" => task[m].op \notin Deletes
        /\ Deleting(m)
    BY <1>3 DEF Brings, Deletes, GoneInv
  <2>3. task'[m].result = "ok" => task[m].removed \cap stored[ListOf(task[m].view)] = {}
    <3>1. CASE task[m].result = "ok" \/ task[m].op \notin Deletes
      BY <2>2, <3>1 DEF Deleting
    <3>2. CASE task'[m].result = "ok" /\ task[m].result # "ok" /\ task[m].op \in Deletes
      <4>1. /\ task[m].phase = "call"
            /\ task[m].op # "deleteSelected" => task[m].reply = "ok"
            /\ task[m].op = "deleteSelected" => task[m].reply = "none" /\ task[m].ids = {}
        BY <1>3, <3>2 DEF CallsInOrder, Deletes
      <4>2. QED
        BY <2>2, <3>2, <4>1, DeletesFrom DEF Deleting, Awaits, Got, Deletes
    <3>3. QED
      BY <3>1, <3>2
  <2>4. Deleting(m)'
    BY <2>1, <2>2, <2>3 DEF Deleting, Awaits, Got, Deletes
  <2>5. QED
    BY <1>1, <2>4 DEF GoneInv
<1>4. QED
  BY <1>2, <1>3

LEMMA GoneServe ==
    ASSUME TInv, NEW m \in Tasks, Moves(m), Waits(m), Answered(m), task[m].phase # "idle",
           BornInv, GoneInv
    PROVE  GoneInv'
<1>1. ASSUME NEW t \in Tasks, NEW S \in SUBSET task[t].removed, NEW v \in Lists \cup {"files"},
             S \cap stored[v] = {}
      PROVE  S \cap stored'[v] = {}
  BY <1>1 DEF Answered, BornInv
<1>2. ASSUME NEW t \in Tasks, task[t].op \in Deletes, task[t].result = "ok"
      PROVE  task[t].removed \cap stored'[ListOf(task[t].view)] = {}
  BY <1>1, <1>2, DeletesFrom DEF GoneInv, Deleting
<1>3. ASSUME NEW q \in Tasks, q # m PROVE Deleting(q)'
  <2>1. task'[q] = task[q] /\ Deleting(q)
    BY <1>3 DEF Moves, GoneInv
  <2>2. CASE task[q].op \notin Deletes
    BY <2>1, <2>2 DEF Deleting, Deletes
  <2>3. CASE task[q].op \in Deletes
    <3>1. ListOf(task[q].view) \in Lists \cup {"files"} /\ "users" \in Lists
      BY <2>3, DeletesFrom DEF Lists
    <3>2. task[q].op = "deleteSelected" /\ Awaits(q, "call") =>
            (task[q].removed \ task[q].ids) \cap stored'["users"] = {}
      BY <1>1, <2>1, <3>1 DEF Deleting
    <3>3. task[q].op \in {"delete", "deleteFile"} /\ Got(q, "call", "ok") =>
            task[q].removed \cap stored'[ListOf(task[q].view)] = {}
      BY <1>1, <2>1, <3>1 DEF Deleting
    <3>4. QED
      BY <1>2, <2>1, <2>3, <3>2, <3>3 DEF Deleting, Awaits, Got
  <2>4. QED
    BY <2>2, <2>3
<1>4. Deleting(m)'
  <2>1. /\ task'[m].op = task[m].op /\ task'[m].view = task[m].view
        /\ task'[m].item = task[m].item /\ task'[m].removed = task[m].removed
        /\ task'[m].phase = task[m].phase /\ task'[m].result = task[m].result
        /\ Deleting(m)
    BY DEF Moves, Carries, Waits, GoneInv
  <2>2. CASE task[m].op \notin Deletes
    BY <2>1, <2>2 DEF Deleting, Deletes
  <2>3. CASE task[m].op = "deleteSelected"
    <3>1. ASSUME task'[m].phase = "call", task'[m].reply = "none"
          PROVE  (task'[m].removed \ task'[m].ids) \cap stored'["users"] = {}
      <4>1. PICK i \in task[m].ids : /\ task'[m].ids = task[m].ids \ {i}
                                     /\ i \notin stored'["users"]
        BY <2>1, <2>3, <3>1 DEF Answered
      <4>2. task[m].reply = "none"
        BY <3>1 DEF Answered
      <4>3. (task[m].removed \ task[m].ids) \cap stored'["users"] = {}
        BY <1>1, <2>1, <2>3, <3>1, <4>2 DEF Deleting, Awaits, Lists
      <4>4. QED
        BY <2>1, <4>1, <4>3
    <3>2. QED
      BY <1>2, <2>1, <2>3, <3>1 DEF Deleting, Awaits, Deletes
  <2>4. CASE task[m].op \in {"delete", "deleteFile"}
    <3>1. task'[m].phase = "call" /\ task'[m].reply = "ok" =>
            task[m].item \notin stored'[ListOf(task[m].view)]
      BY <2>1, <2>4 DEF Answered
    <3>2. QED
      BY <1>2, <2>1, <2>4, <3>1 DEF Deleting, Got, Deletes
  <2>5. QED
    BY <2>2, <2>3, <2>4 DEF Deletes
<1>5. QED
  BY <1>3, <1>4 DEF GoneInv

-----------------------------------------------------------------------------
(* Rows: the latest render *)

RemovedBy(t, view) == task[t].view = view /\ task[t].result = "ok"

LEMMA RemovedIs ==
    ASSUME NEW view, NEW x
    PROVE  /\ x \in Removed(view) <=> \E t \in Tasks : RemovedBy(t, view) /\ x \in task[t].removed
           /\ x \in Removed(view)'
                <=> \E t \in Tasks : RemovedBy(t, view)' /\ x \in task'[t].removed
BY DEF Removed, RemovedBy

\* Told by this step that what it deletes is deleted.
NowRemoved(m, view) == /\ task'[m].view = view /\ task'[m].result = "ok"
                       /\ task[m].result # "ok" /\ task[m].phase # "idle"
                       /\ task[m].op \in Deletes

LEMMA RemovedGrows ==
    ASSUME TInv, GoneInv, NEW m \in Tasks, Moves(m), Shape(m) \/ Waits(m), NEW view,
           ~NowRemoved(m, view)
    PROVE  Removed(view)' \subseteq Removed(view)
<1> SUFFICES ASSUME NEW x, NEW t \in Tasks, RemovedBy(t, view)', x \in task'[t].removed
             PROVE  RemovedBy(t, view) /\ x \in task[t].removed
  BY RemovedIs
<1>1. CASE t # m
  BY <1>1 DEF Moves, RemovedBy
<1>2. CASE t = m
  <2>1. task[m].phase = "idle" => task'[m].result # "ok"
    <3>1. task[m].phase = "idle" => task[m].result = "none"
      BY TaskOf, NewTaskFacts DEF SortOK
    <3>2. QED
      BY <3>1 DEF Shape, ResultShape, Waits
  <2>2. task[m].phase # "idle" /\ task'[m].view = view /\ task'[m].result = "ok"
    BY <1>2, <2>1 DEF RemovedBy
  <2>3. /\ task'[m].view = task[m].view /\ task'[m].op = task[m].op
        /\ task'[m].removed = task[m].removed
    BY <2>2 DEF Moves, Carries
  <2>4. task[m].op \in Deletes
    BY <1>2, <2>3 DEF GoneInv, Deleting
  <2>5. QED
    BY <1>2, <2>2, <2>3, <2>4 DEF NowRemoved, RemovedBy
<1>3. QED
  BY <1>1, <1>2

\* A render that began last asks with the query of now, and its rows are not deleted.
Current(t, view) ==
    task[t].view = view /\ latest[view] = t =>
        /\ task[t].phase \in {"list", "details"} => task[t].query = query[view]
        /\ task[t].phase = "details" \/ Got(t, "list", "ok") =>
             task[t].ids \cap Removed(view) = {}

Painting(view) ==
    OnScreen(view) /\ screen.by = latest[view] =>
        screen.sent = query[view] /\ screen.rows \cap Removed(view) = {}

RowsInv == \A view \in Lists : Painting(view) /\ \A t \in Tasks : Current(t, view)

LEMMA RowsRelisted ==
    ASSUME TInv, GoneInv, RowsInv, NEW m \in Tasks, Moves(m), Shape(m), Relists(m)
    PROVE  RowsInv'
<1> SUFFICES ASSUME NEW view \in Lists
             PROVE  Painting(view)' /\ \A t \in Tasks : Current(t, view)'
  BY DEF RowsInv
<1>1. Painting(view)'
  BY DEF Relists, Rendered, Painting, OnScreen
<1>2. ASSUME NEW t \in Tasks, task'[t].view = view, latest'[view] = t
      PROVE  /\ task'[t].phase \in {"list", "details"} => task'[t].query = query'[view]
             /\ task'[t].phase = "details" \/ Got(t, "list", "ok")' =>
                  task'[t].ids \cap Removed(view)' = {}
  <2>1. CASE task'[m].view = view
    BY <1>2, <2>1 DEF Relists, Rendered, Got
  <2>2. CASE task'[m].view # view
    <3>1. view \in Tabs \ {task'[m].view}
      BY <2>2 DEF Tabs
    <3>2. latest'[view] = latest[view] /\ query'[view] = query[view]
      BY <3>1 DEF Relists, Rendered
    <3>3. task'[t] = task[t]
      BY <1>2, <2>2 DEF Moves
    <3>4. Removed(view)' \subseteq Removed(view)
      BY <2>2, RemovedGrows DEF NowRemoved
    <3>5. Current(t, view)
      BY DEF RowsInv
    <3>6. QED
      BY <1>2, <3>2, <3>3, <3>4, <3>5 DEF Current, Got
  <2>3. QED
    BY <2>1, <2>2
<1>3. QED
  BY <1>1, <1>2 DEF Current

LEMMA RowsRepainted ==
    ASSUME TInv, GoneInv, RowsInv, NEW m \in Tasks, Moves(m), Shape(m), Repaints(m)
    PROVE  RowsInv'
<1> SUFFICES ASSUME NEW view \in Lists
             PROVE  Painting(view)' /\ \A t \in Tasks : Current(t, view)'
  BY DEF RowsInv
<1>1. Removed(view)' \subseteq Removed(view)
  <2>1. ~NowRemoved(m, view)
    <3>1. ASSUME NowRemoved(m, view) PROVE FALSE
      <4>1. task[m].op = "deleteFile" /\ task[m].view = view
        BY <3>1 DEF NowRemoved, Repaints, Deletes, Moves, Carries
      <4>2. QED
        BY <4>1, DeletesFrom DEF Deletes, Lists
    <3>2. QED
      BY <3>1
  <2>2. QED
    BY <2>1, RemovedGrows
<1>2. query' = query /\ latest' = latest
  BY DEF Repaints
<1>3. Painting(view) /\ \A t \in Tasks : Current(t, view)
  BY DEF RowsInv
<1>4. ASSUME NEW t \in Tasks PROVE Current(t, view)'
  <2>1. CASE t # m
    BY <1>1, <1>2, <1>3, <2>1 DEF Moves, Current, Got
  <2>2. CASE t = m
    <3>1. CASE task'[m].phase = "details"
      <4>1. Got(m, "list", "ok") /\ task'[m].ids = task[m].ids /\ task'[m].query = task[m].query
        BY <3>1 DEF Repaints
      <4>2. task'[m].view = task[m].view
        BY <4>1 DEF Got, Moves, Carries
      <4>3. QED
        BY <1>1, <1>2, <1>3, <2>2, <4>1, <4>2 DEF Current, Got
    <3>2. CASE task'[m].phase # "details"
      BY <2>2, <3>2 DEF Repaints, Current, Got
    <3>3. QED
      BY <3>1, <3>2
  <2>3. QED
    BY <2>1, <2>2
<1>5. Painting(view)'
  <2> SUFFICES ASSUME screen'.state = "shown", screen'.view = view, screen'.by = latest[view]
               PROVE  screen'.sent = query[view] /\ screen'.rows \cap Removed(view) = {}
    BY <1>1, <1>2 DEF Painting, OnScreen
  <2>1. CASE ScreenStays
    BY <1>3, <2>1 DEF ScreenStays, Painting, OnScreen
  <2>2. CASE ~ScreenStays
    <3>1. /\ task[m].view = view /\ latest[view] = m
          /\ task[m].phase = "details" \/ Got(m, "list", "ok")
          /\ screen'.rows \subseteq task[m].ids
          /\ screen'.sent \in {task[m].query, query[view]}
      BY <2>2 DEF Repaints
    <3>2. QED
      BY <1>3, <3>1 DEF Current, Got
  <2>3. QED
    BY <2>1, <2>2
<1>6. QED
  BY <1>4, <1>5

LEMMA RowsServed ==
    ASSUME TInv, GoneInv, GoneInv', RowsInv, NEW m \in Tasks, Moves(m), Waits(m), Answered(m),
           task[m].phase # "idle", UNCHANGED <<screen, query, latest>>
    PROVE  RowsInv'
<1> SUFFICES ASSUME NEW view \in Lists
             PROVE  Painting(view)' /\ \A t \in Tasks : Current(t, view)'
  BY DEF RowsInv
<1>1. Removed(view)' \subseteq Removed(view)
  BY RemovedGrows DEF NowRemoved, Waits
<1>2. stored'[view] \cap Removed(view)' = {}
  <2>1. ListOf(view) = view
    BY DEF ListOf, Lists
  <2>2. ASSUME NEW x \in Removed(view)' PROVE x \notin stored'[view]
    BY <2>1, <2>2, RemovedIs DEF GoneInv, Deleting, RemovedBy
  <2>3. QED
    BY <2>2
<1>3. Painting(view) /\ \A t \in Tasks : Current(t, view)
  BY DEF RowsInv
<1>4. Painting(view)'
  BY <1>1, <1>3 DEF Painting, OnScreen
<1>5. ASSUME NEW t \in Tasks PROVE Current(t, view)'
  <2>1. CASE t # m
    BY <1>1, <1>3, <2>1 DEF Moves, Current, Got
  <2>2. CASE t = m
    <3>1. /\ task'[m].view = task[m].view /\ task'[m].phase = task[m].phase
          /\ task'[m].query = task[m].query
      BY DEF Moves, Carries, Waits
    <3>2. ASSUME task[m].view = view, task[m].phase \in {"list", "details"}
          PROVE  \/ task'[m].ids \subseteq task[m].ids
                    /\ (task'[m].reply = "ok" => task[m].reply = "ok")
                 \/ task'[m].ids \subseteq stored'[view]
      BY <3>2 DEF Answered
    <3>3. QED
      BY <1>1, <1>2, <1>3, <2>2, <3>1, <3>2 DEF Current, Got
  <2>3. QED
    BY <2>1, <2>2
<1>6. QED
  BY <1>4, <1>5

-----------------------------------------------------------------------------
(* Rows: the panel of uploaded files *)

\* The answer to the call that opened the panel lists no deleted file, and nothing is listed without.
FilesInv ==
    /\ \A t \in Tasks :
         /\ task[t].phase = "files" /\ task[t].reply # "ok" => task[t].ids = {}
         /\ task[t].op = "deleteFile" /\ task[t].phase = "call" => task[t].ids = {}
         /\ screen.files.open /\ screen.files.asked = t /\ Got(t, "files", "ok") =>
              task[t].ids \cap Removed("control") = {}
    /\ screen.files.open /\ screen.files.by = screen.files.asked =>
         screen.files.rows \cap Removed("control") = {}

LEMMA FilesPage ==
    ASSUME TInv, GoneInv, FilesInv, NEW m \in Tasks, Moves(m), Shape(m), Brings(m), FilesStep(m)
    PROVE  FilesInv'
<1>1. ASSUME NEW t \in Tasks
      PROVE  /\ task'[t].phase = "files" /\ task'[t].reply # "ok" => task'[t].ids = {}
             /\ task'[t].op = "deleteFile" /\ task'[t].phase = "call" => task'[t].ids = {}
  <2>1. CASE t # m
    BY <2>1 DEF Moves, FilesInv
  <2>2. task'[m].phase = "files" /\ task'[m].reply # "ok" => task'[m].ids = {}
    BY DEF FilesStep, FilesInv
  <2>3. task'[m].op = "deleteFile" /\ task'[m].phase = "call" => task'[m].ids = {}
    BY DEF Brings, Moves, Carries
  <2>4. QED
    BY <2>1, <2>2, <2>3
<1>2. ASSUME screen'.files.open
      PROVE  /\ \A t \in Tasks : screen'.files.asked = t /\ Got(t, "files", "ok")' =>
                                   task'[t].ids \cap Removed("control")' = {}
             /\ screen'.files.by = screen'.files.asked =>
                  screen'.files.rows \cap Removed("control")' = {}
  <2>1. CASE screen'.files = screen.files /\ task'[m].phase # "files"
             /\ ~(task[m].op = "deleteFile" /\ task'[m].result = "ok" /\ task[m].result # "ok")
    <3>1. ~NowRemoved(m, "control")
      <4>1. ASSUME NowRemoved(m, "control") PROVE FALSE
        <5>1. task[m].op \in Deletes /\ task[m].op # "deleteFile" /\ task[m].view = "control"
          BY <2>1, <4>1 DEF NowRemoved, Moves, Carries
        <5>2. QED
          BY <5>1, DeletesFrom DEF Lists
      <4>2. QED
        BY <4>1
    <3>2. Removed("control")' \subseteq Removed("control")
      BY <3>1, RemovedGrows
    <3>3. QED
      BY <1>2, <2>1, <3>2 DEF FilesInv, Moves, Got
  <2>2. CASE /\ screen'.files = [open |-> TRUE, rows |-> {}, by |-> None, asked |-> m]
             /\ task'[m].reply = "none"
    BY <2>2, ActionsApart DEF Got
  <2>3. CASE /\ task[m].phase = "files" /\ task'[m].phase = "done"
             /\ task'[m].result = task[m].result
             /\ screen'.files.open = screen.files.open
             /\ screen'.files.asked = screen.files.asked
             /\ screen'.files.rows = task[m].ids /\ screen'.files.by = m
    <3>1. Removed("control")' \subseteq Removed("control")
      BY <2>3, RemovedGrows DEF NowRemoved
    <3>2. task[m].reply # "ok" => task[m].ids = {}
      BY <2>3 DEF FilesInv
    <3>3. QED
      BY <1>2, <2>3, <3>1, <3>2 DEF FilesInv, Moves, Got
  <2>4. QED
    BY <1>2, <2>1, <2>2, <2>3 DEF FilesStep
<1>3. QED
  BY <1>1, <1>2 DEF FilesInv

LEMMA FilesServed ==
    ASSUME TInv, GoneInv, GoneInv', FilesInv, NEW m \in Tasks, Moves(m), Waits(m), Answered(m),
           task[m].phase # "idle", UNCHANGED screen
    PROVE  FilesInv'
<1>1. Removed("control")' \subseteq Removed("control")
  BY RemovedGrows DEF NowRemoved, Waits
<1>2. stored'["files"] \cap Removed("control")' = {}
  <2>1. ListOf("control") = "files"
    BY DEF ListOf
  <2>2. ASSUME NEW x \in Removed("control")' PROVE x \notin stored'["files"]
    BY <2>1, <2>2, RemovedIs DEF GoneInv, Deleting, RemovedBy
  <2>3. QED
    BY <2>2
<1>3. /\ task'[m].phase = task[m].phase /\ task'[m].op = task[m].op
  BY DEF Waits, Moves, Carries
<1>4. /\ task[m].phase = "files" => IF task'[m].reply = "ok" THEN task'[m].ids \subseteq stored'["files"]
                                    ELSE task[m].reply = "none" /\ task'[m].ids = task[m].ids
      /\ task[m].op = "deleteFile" /\ task[m].phase = "call" => task'[m].ids = task[m].ids
  BY DEF Answered
<1>5. ASSUME NEW t \in Tasks
      PROVE  /\ task'[t].phase = "files" /\ task'[t].reply # "ok" => task'[t].ids = {}
             /\ task'[t].op = "deleteFile" /\ task'[t].phase = "call" => task'[t].ids = {}
             /\ screen.files.open /\ screen.files.asked = t /\ Got(t, "files", "ok")' =>
                  task'[t].ids \cap Removed("control")' = {}
  <2>1. CASE t # m
    BY <1>1, <2>1 DEF Moves, FilesInv, Got
  <2>2. CASE t = m
    BY <1>2, <1>3, <1>4, <2>2 DEF FilesInv, Got
  <2>3. QED
    BY <2>1, <2>2
<1>6. QED
  BY <1>1, <1>5 DEF FilesInv

-----------------------------------------------------------------------------
(* Rows: the inductive invariant *)

LatestInv == BornInv /\ GoneInv /\ RowsInv /\ FilesInv

LEMMA LatestTask ==
    ASSUME TInv, LatestInv, NEW m \in Tasks, TaskStep(m) PROVE LatestInv'
<1>1. CASE (Start(m) \/ Resume(m)) /\ UNCHANGED <<server, workload>>
  <2>1. Moves(m) /\ Shape(m) /\ Brings(m) /\ CallsInOrder(m) /\ PageStep(m) /\ UNCHANGED stored
    BY <1>1, PageSteps, StepBrings, PageInOrder, TaskPageStep DEF server
  <2>2. BornInv' /\ GoneInv'
    BY <2>1, BornPage, GonePage DEF LatestInv
  <2>3. RowsInv' /\ FilesInv'
    BY <2>1, RowsRelisted, RowsRepainted, FilesPage DEF LatestInv, PageStep
  <2>4. QED
    BY <2>2, <2>3 DEF LatestInv
<1>2. CASE Serve(m) /\ UNCHANGED <<page, workload>>
  <2>1. /\ Moves(m) /\ Waits(m) /\ Answered(m) /\ task[m].phase # "idle"
        /\ UNCHANGED <<screen, selected, query, latest>>
    BY <1>2, ServeMoves, StepAnswered DEF page, nav
  <2>2. BornInv' /\ GoneInv'
    BY <2>1, BornServe, GoneServe DEF LatestInv
  <2>3. RowsInv' /\ FilesInv'
    BY <2>1, <2>2, RowsServed, FilesServed DEF LatestInv
  <2>4. QED
    BY <2>2, <2>3 DEF LatestInv
<1>3. QED
  BY <1>1, <1>2 DEF TaskStep

\* Clicks without a task leave the rows, the files and the queries.
LEMMA LatestClick ==
    ASSUME TInv, LatestInv, Click, UNCHANGED server PROVE LatestInv'
<1>1. /\ task' = task /\ stored' = stored /\ query' = query /\ latest' = latest
      /\ ScreenStays /\ screen'.files = screen.files /\ selected' \subseteq selected \cup screen.rows
  <2>1. CASE ToggleSelectUser
    BY <2>1, SelectPage DEF rest, server
  <2>2. CASE ~ToggleSelectUser
    BY <2>2, OtherClicks DEF Click, ScreenKept, nav, server
  <2>3. QED
    BY <2>1, <2>2
<1>2. BornInv' /\ GoneInv'
  BY <1>1 DEF LatestInv, BornInv, Unborn, GoneInv, Deleting, Awaits, Got, ScreenStays
<1>3. \A view : Removed(view)' = Removed(view)
  BY <1>1 DEF Removed
<1>4. RowsInv'
  BY <1>1, <1>3 DEF LatestInv, RowsInv, Current, Painting, OnScreen, Got, ScreenStays
<1>5. FilesInv'
  BY <1>1, <1>3 DEF LatestInv, FilesInv, Got
<1>6. QED
  BY <1>2, <1>4, <1>5 DEF LatestInv

LEMMA LatestInit == Init => LatestInv
<1> SUFFICES ASSUME Init PROVE LatestInv
  OBVIOUS
<1>1. /\ task = [t \in Tasks |-> NewTask] /\ selected = {}
      /\ stored = [v \in Lists \cup {"files"} |-> Existing]
      /\ query = [v \in Tabs |-> NoQuery] /\ latest = [v \in Tabs |-> None]
  BY DEF Init
<1>2. /\ \A t \in Tasks : /\ task[t].op = "none" /\ task[t].phase = "idle"
                          /\ task[t].result = "none" /\ task[t].ids = {} /\ task[t].removed = {}
      /\ Unborn = Tasks
  BY <1>1, NewTaskFacts DEF Unborn
<1>3. screen.rows \subseteq Actions \cup Existing /\ screen.files.rows \subseteq Existing
      /\ screen.sent = NoQuery
  <2>1. screen.rows \subseteq Actions \cup Existing
    BY FirstPage
  <2>2. screen.files.rows \subseteq Existing
    <3>1. NoFiles.rows = {}
      BY DEF NoFiles
    <3>2. CASE screen.files = NoFiles
      BY <3>1, <3>2
    <3>3. CASE screen.files = [NoFiles EXCEPT !.open = TRUE, !.rows = stored["files"]]
      <4>1. stored["files"] = Existing
        BY <1>1
      <4>2. screen.files.rows = stored["files"]
        BY <3>3 DEF NoFiles
      <4>3. QED
        BY <4>1, <4>2
    <3>4. QED
      BY <3>2, <3>3, FirstPage
  <2>3. screen.sent = NoQuery
    BY DEF Init, FirstScreen, Blank
  <2>4. QED
    BY <2>1, <2>2, <2>3
<1>4. BornInv
  BY <1>1, <1>2, <1>3, ItemAssumption DEF BornInv
<1>5. GoneInv
  BY <1>2 DEF GoneInv, Deleting, Awaits, Got, Deletes
<1>6. \A view : Removed(view) = {}
  BY <1>2 DEF Removed
<1>7. RowsInv
  BY <1>1, <1>2, <1>3, <1>6 DEF RowsInv, Painting, Current, Got, Tabs
<1>8. FilesInv
  BY <1>2, <1>6 DEF FilesInv, Got
<1>9. QED
  BY <1>4, <1>5, <1>7, <1>8 DEF LatestInv

LEMMA LatestNext == TInv /\ LatestInv /\ [Next]_vars => LatestInv'
<1> SUFFICES ASSUME TInv, LatestInv, [Next]_vars PROVE LatestInv'
  OBVIOUS
<1>1. CASE \E m \in Tasks : TaskStep(m)
  BY <1>1, LatestTask
<1>2. CASE Click /\ UNCHANGED <<server, workload>>
  BY <1>2, LatestClick
<1>3. CASE UNCHANGED vars
  <2>1. UNCHANGED <<task, stored, screen, selected, query, latest>>
    BY <1>3 DEF vars, page, nav, server
  <2>2. \A view : Removed(view)' = Removed(view)
    BY <2>1 DEF Removed
  <2>3. QED
    BY <2>1, <2>2 DEF LatestInv, BornInv, Unborn, GoneInv, Deleting, Awaits, Got, RowsInv,
                      Current, Painting, OnScreen, FilesInv
<1>4. QED
  BY <1>1, <1>2, <1>3 DEF Next, TaskStep

\* Rows painted by the render that began last answer the query of now, and no row and no listed
\* file is one that its handler was told is deleted, whatever is answered in what order: a
\* deletion that is answered renders its list anew, and closes the panel of files.
THEOREM RowsCurrent == Spec => []LatestRenderIsCurrent
<1>1. LatestInv => LatestRenderIsCurrent
  BY DEF LatestInv, RowsInv, Painting, OnScreen, FilesInv, LatestRenderIsCurrent
<1>2. QED
  BY <1>1, LatestInit, LatestNext, TInvAlways, PTL DEF Spec

-----------------------------------------------------------------------------
(* The selection and the users who are gone *)

Gone == {i \in Items : i \notin stored["users"]}

\* A deletion explains why somebody who is gone is still listed or selected.
Excuses(t, i) == /\ i \in task[t].removed /\ task[t].view = "users"
                 /\ \/ task[t].op = "delete" \/ task[t].result # "ok"
                    \/ \E q \in Tasks : task[q].view = "users" /\ Overlap(q, t)
Explained(i) == \E t \in Tasks : Excuses(t, i)

\* What is left to delete is part of what was selected.
BatchInv == \A t \in Tasks : task[t].op = "deleteSelected" /\ task[t].result # "ok" =>
                                task[t].phase \in {"call", "done"} /\ task[t].ids \subseteq task[t].removed

ListsUsers(t) == task[t].view = "users" /\ (task[t].phase = "details" \/ Got(t, "list", "ok"))

StaleInv ==
    /\ \A i \in selected \cap Gone : Explained(i)
    /\ OnScreen("users") => \A i \in screen.rows \cap Gone : Explained(i)
    /\ \A t \in Tasks : ListsUsers(t) => \A i \in task[t].ids \cap Gone : Explained(i)

\* A step of the page takes what it selects from the rows of the users' view, and a batch
\* that is answered clears the selection.
Selects(m) ==
    /\ selected' \subseteq selected \/ (OnScreen("users") /\ selected' \subseteq selected \cup screen.rows)
    /\ task[m].op = "deleteSelected" /\ task[m].result # "ok" /\ task'[m].result = "ok" =>
         task[m].phase = "call" /\ selected' = {} /\ Rendered(m)
    /\ task[m].op = "deleteSelected" /\ task'[m].result # "ok" =>
         \/ task[m].phase = "call" /\ task'[m].phase = "done" /\ task'[m].ids = task[m].ids
         \/ task[m].phase \notin {"idle", "call", "done"}

LEMMA RerendersSelect == ASSUME TInv, NEW m \in Tasks, Rerenders(m) PROVE Selects(m)
<1>1. CASE SelectedDeleted(m)
  <2>1. HandlerResumes(m) /\ selected' = {} /\ task[m].op = "deleteSelected"
    BY <1>1 DEF HandlerResumes, SelectedDeleted
  <2>2. task[m].phase = "call" /\ Rendered(m) /\ task'[m].result = "ok"
    BY <2>1, HandlersResume
  <2>3. QED
    BY <2>1, <2>2 DEF Selects
<1>2. CASE ~SelectedDeleted(m)
  <2>1. CASE HandlerResumes(m)
    <3>1. selected' = selected /\ task[m].op # "deleteSelected"
      BY <1>2, <2>1 DEF HandlerResumes, Changed, Saved, ActionToggled, SettingRefused, Bulk2FASet, nav
    <3>2. QED
      BY <3>1 DEF Selects
  <2>2. CASE ApiKeyCreated(m) \/ WebhookSaved(m)
    <3>1. selected' = selected
      BY <2>2, ApiKeyMoves, WebhookSavedMoves DEF nav
    <3>2. task[m].op # "deleteSelected"
      BY <2>2 DEF ApiKeyCreated, WebhookSaved
    <3>3. QED
      BY <3>1, <3>2 DEF Selects
  <2>3. QED
    BY <1>2, <2>1, <2>2 DEF Rerenders
<1>3. QED
  BY <1>1, <1>2

LEMMA QuietSelects == ASSUME TInv, NEW m \in Tasks, Quiet(m) PROVE Selects(m)
<1>1. selected' = selected
  BY QuietMoves DEF page, nav
<1>2. CASE NotChanged(m)
  <2>1. task[m].phase \in {"read", "call"} /\ (task[m].phase = "read" => task[m].op = "toggleAction")
    BY <1>2, TaskOf DEF NotChanged, Got, SortOK, Sort
  <2>2. task'[m].phase = "done" /\ task'[m].result = "failed" /\ task'[m].ids = task[m].ids
    BY <1>2, NotChangedMoves
  <2>3. QED
    BY <1>1, <2>1, <2>2 DEF Selects
<1>3. CASE AskDetails(m)
  <2>1. task[m].phase = "list" /\ task'[m].result = task[m].result
    BY <1>3, AskDetailsMoves DEF AskDetails, Got
  <2>2. QED
    BY <1>1, <2>1 DEF Selects
<1>4. CASE MemberChanged(m) \/ WriteActions(m) \/ SettingUpdated(m) \/ PolicyUpdated(m)
             \/ UiSettingsSaved(m)
  <2>1. task[m].phase = "policy" => task[m].op = "updateSetting"
    BY TaskOf DEF SortOK, Sort
  <2>2. task[m].op # "deleteSelected"
    BY <1>4, <2>1 DEF MemberChanged, WriteActions, SettingUpdated, PolicyUpdated, UiSettingsSaved, Got
  <2>3. QED
    BY <1>1, <2>2 DEF Selects
<1>5. QED
  BY <1>2, <1>3, <1>4 DEF Quiet

LEMMA StepSelects ==
    ASSUME TInv, NEW m \in Tasks, Start(m) \/ Resume(m) PROVE Selects(m)
<1>1. ASSUME selected' = selected, task[m].op # "deleteSelected" PROVE Selects(m)
  BY <1>1 DEF Selects
<1>2. task[m].phase = "idle" => task[m].op = "none"
  BY TaskOf DEF SortOK, Sort
<1>3. CASE Openings(m)
  <2>1. selected' \subseteq selected \/ (OnScreen("users") /\ selected' \subseteq selected \cup screen.rows)
    <3>1. CASE ToggleSelectAll(m)
      BY <3>1 DEF ToggleSelectAll
    <3>2. CASE TypeFilter(m)
      BY <3>2 DEF TypeFilter
    <3>3. CASE ClearSelection(m)
      BY <3>3 DEF ClearSelection
    <3>4. CASE ShowTab(m) \/ TurnPage(m) \/ TogglePanel(m)
      BY <3>4 DEF ShowTab, TurnPage, TogglePanel
    <3>5. CASE DismissBanner(m) \/ SetTemplateType(m)
      BY <3>5, DismissMoves, SetTypeMoves DEF nav
    <3>6. QED
      BY <1>3, <3>1, <3>2, <3>3, <3>4, <3>5 DEF Openings
  <2>2. task[m].op = "none"
    BY <1>2, <1>3, OpeningsMoves
  <2>3. QED
    BY <2>1, <2>2 DEF Selects
<1>4. CASE CallStarts(m)
  BY <1>1, <1>2, <1>4, CallStartsMoves DEF page, nav
<1>5. CASE OtherStarts(m)
  BY <1>1, <1>2, <1>5, OtherStartsMoves DEF nav
<1>6. CASE InPanels(m)
  <2>1. selected' = selected
    BY <1>6, InPanelsMoves DEF nav
  <2>2. CASE Uploaded(m) \/ UploadDeleted(m)
    <3>1. task[m].op \in {"upload", "deleteFile"}
      BY <2>2 DEF Uploaded, UploadDeleted
    <3>2. QED
      BY <1>1, <2>1, <3>1
  <2>3. CASE FilesListed(m)
    <3>1. task[m].phase = "files" /\ task'[m].result = task[m].result
      BY <2>3, FilesListedMoves
    <3>2. QED
      BY <2>1, <3>1 DEF Selects
  <2>4. CASE PanelLoaded(m)
    <3>1. task[m].phase = "panel" /\ task'[m].result = task[m].result
      BY <2>4, PanelLoadedMoves
    <3>2. QED
      BY <2>1, <3>1 DEF Selects
  <2>5. QED
    BY <1>6, <2>2, <2>3, <2>4 DEF InPanels
<1>7. CASE Shown(m)
  BY <1>7, ShownMoves DEF Shows, nav, Selects
<1>8. CASE ListFailed(m)
  BY <1>8, ListFailedMoves DEF nav, Selects
<1>9. QED
  BY <1>3, <1>4, <1>5, <1>6, <1>7, <1>8, StepGroups, RerendersSelect, QuietSelects

\* Who leaves the server's list was deleted alone, or by a batch that was not answered yet or failed.
LEMMA WhoLeaves ==
    ASSUME TInv, NEW m \in Tasks, Serve(m), NEW x, x \in stored["users"], x \notin stored'["users"]
    PROVE  \/ task[m].op = "delete" /\ task[m].view = "users" /\ task[m].item = x
           \/ /\ task[m].op = "deleteSelected" /\ x \in task[m].ids
              /\ task[m].phase = "call" \/ task[m].result = "failed"
<1>1. CASE ServeDeleteSelected(m)
  <2>1. PICK i \in task[m].ids :
          stored' = [stored EXCEPT !["users"] = @ \ {i}] \/ UNCHANGED stored
    BY <1>1, ServeDeleteSelectedMoves
  <2>2. x = i
    BY <2>1 DEF TInv, TypeOK, Lists
  <2>3. QED
    BY <1>1, <2>1, <2>2, ServeDeleteSelectedMoves
<1>2. CASE ServeCall(m)
  <2>1. Applies(m) /\ task[m].op \in {"delete", "create", "change", "member", "saveWebhook",
                                      "upload", "deleteFile"}
    BY <1>2, ServeCallMoves
  <2>2. task[m].op \notin {"upload", "deleteFile"}
    <3>1. ASSUME task[m].op \in {"upload", "deleteFile"} PROVE stored'["users"] = stored["users"]
      BY <2>1, <3>1 DEF Applies, TInv, TypeOK, Lists
    <3>2. QED
      BY <3>1
  <2>3. stored' = [stored EXCEPT ![task[m].view] = IF task[m].op = "delete" THEN @ \ {task[m].item}
                                                   ELSE IF task[m].item = m THEN @ \cup {m} ELSE @]
    BY <2>1, <2>2 DEF Applies
  <2>4. task[m].view = "users" /\ task[m].op = "delete" /\ x = task[m].item
    BY <2>3 DEF TInv, TypeOK, Lists
  <2>5. QED
    BY <2>4
<1>3. CASE ServeList(m)
  BY <1>3, ServeListMoves DEF server
<1>4. CASE FailList(m) \/ FailRead(m)
  BY <1>4, FailListMoves DEF server
<1>5. CASE ServeSettings(m)
  BY <1>5, ServeSettingsMoves DEF server
<1>6. CASE ServeWrite(m)
  BY <1>6, ServeWriteMoves
<1>7. CASE ServeFiles(m)
  BY <1>7, ServeFilesMoves DEF server
<1>8. CASE ServeTemplates(m)
  BY <1>8, ServeTemplatesMoves DEF server
<1>9. CASE ServeSave(m)
  BY <1>9, ServeSaveMoves
<1>10. QED
  BY <1>1, <1>2, <1>3, <1>4, <1>5, <1>6, <1>7, <1>8, <1>9 DEF Serve

\* An explanation stays, unless it was a batch that is now answered.
LEMMA ExcusesStay ==
    ASSUME TInv, GoneInv, NEW m \in Tasks, Moves(m), NEW t \in Tasks, NEW i, Excuses(t, i),
           ~(t = m /\ task[m].op = "deleteSelected" /\ task[m].result # "ok" /\ task'[m].result = "ok")
    PROVE  Excuses(t, i)'
<1>1. task[t].op \in {"delete", "deleteSelected"} /\ Begun(t)
  <2>1. task[t].op \in Deletes
    BY DEF Excuses, GoneInv, Deleting
  <2>2. task[t].op # "deleteFile"
    BY <2>1, DeletesFrom DEF Excuses
  <2>3. QED
    BY <2>1, <2>2 DEF Deletes, Begun
<1>2. /\ task'[t].op = task[t].op /\ task'[t].view = task[t].view
      /\ task'[t].removed = task[t].removed
  BY <1>1, Steady, ItemStays
<1>3. task[t].result # "ok" => task'[t].op = "delete" \/ task'[t].result # "ok"
  BY <1>1, <1>2 DEF Moves
<1>4. ASSUME NEW q \in Tasks, task[q].view = "users", Overlap(q, t)
      PROVE  task'[q].view = "users" /\ Overlap(q, t)'
  BY <1>4, Steady, OverlapStays DEF Overlap
<1>5. QED
  BY <1>2, <1>3, <1>4 DEF Excuses

LEMMA BatchPage ==
    ASSUME TInv, KeysInv, BatchInv, NEW m \in Tasks, Moves(m), Shape(m), Brings(m), Selects(m)
    PROVE  BatchInv'
<1> SUFFICES ASSUME NEW t \in Tasks, task'[t].op = "deleteSelected", task'[t].result # "ok"
             PROVE  task'[t].phase \in {"call", "done"} /\ task'[t].ids \subseteq task'[t].removed
  BY DEF BatchInv
<1>1. CASE t # m
  BY <1>1 DEF Moves, BatchInv
<1>2. CASE t = m /\ task[m].phase = "idle"
  BY <1>2 DEF Brings
<1>3. CASE t = m /\ task[m].phase # "idle"
  <2>1. task[m].op = "deleteSelected" /\ task'[m].removed = task[m].removed
    BY <1>3 DEF Moves, Carries
  <2>2. CASE task[m].result = "ok"
    BY <1>3, <2>2 DEF Shape, ResultShape, KeysInv
  <2>3. CASE task[m].result # "ok"
    BY <1>3, <2>1, <2>3 DEF Selects, BatchInv
  <2>4. QED
    BY <2>2, <2>3
<1>4. QED
  BY <1>1, <1>2, <1>3

LEMMA BatchServe ==
    ASSUME TInv, BatchInv, NEW m \in Tasks, Serve(m), Moves(m), Waits(m), Answered(m),
           task[m].phase # "idle"
    PROVE  BatchInv'
<1> SUFFICES ASSUME NEW t \in Tasks, task'[t].op = "deleteSelected", task'[t].result # "ok"
             PROVE  task'[t].phase \in {"call", "done"} /\ task'[t].ids \subseteq task'[t].removed
  BY DEF BatchInv
<1>1. CASE t # m
  BY <1>1 DEF Moves, BatchInv
<1>2. CASE t = m
  <2>1. /\ task[m].op = "deleteSelected" /\ task[m].result # "ok"
        /\ task'[m].phase = task[m].phase /\ task'[m].removed = task[m].removed
    BY <1>2 DEF Moves, Carries, Waits
  <2>2. task[m].phase \in {"call", "done"} /\ task[m].ids \subseteq task[m].removed
    BY <2>1 DEF BatchInv
  <2>3. task'[m].ids \subseteq task[m].ids
    <3>1. CASE task[m].phase = "call"
      BY <2>1, <3>1 DEF Answered
    <3>2. CASE ServeDeleteSelected(m)
      BY <3>2, ServeDeleteSelectedMoves
    <3>3. CASE task[m].phase = "done" /\ ~ServeDeleteSelected(m)
      <4>1. ~ServeCall(m) /\ ~ServeList(m) /\ ~FailList(m)
        BY <3>3 DEF ServeCall, ServeList, FailList, Awaits
      <4>2. ~ServeSettings(m) /\ ~FailRead(m) /\ ~ServeFiles(m)
        BY <3>3 DEF ServeSettings, FailRead, ServeFiles, Awaits
      <4>3. ~ServeWrite(m) /\ ~ServeTemplates(m) /\ ~ServeSave(m)
        BY <3>3, ServeWriteMoves, ServeTemplatesMoves, ServeSaveMoves
      <4>4. QED
        BY <3>3, <4>1, <4>2, <4>3 DEF Serve
    <3>4. QED
      BY <2>2, <3>1, <3>2, <3>3
  <2>4. QED
    BY <1>2, <2>1, <2>2, <2>3
<1>3. QED
  BY <1>1, <1>2

\* A batch that is answered now overlaps the renders of users that have their list.
LEMMA StalePage ==
    ASSUME TInv, GoneInv, StaleInv, NEW m \in Tasks, Moves(m), Selects(m), Relists(m) \/ Repaints(m),
           UNCHANGED stored
    PROVE  StaleInv'
<1> DEFINE Settles == /\ task[m].op = "deleteSelected" /\ task[m].result # "ok"
                      /\ task'[m].result = "ok"
<1>1. Gone' = Gone
  BY DEF Gone
<1>2. CASE Settles
  <2>1. task[m].phase = "call" /\ selected' = {} /\ Rendered(m) /\ task[m].view = "users"
    BY <1>2, TaskOf DEF Selects, SortOK, Sort
  <2>2. ~OnScreen("users")'
    BY <2>1 DEF Rendered, OnScreen
  <2>3. ASSUME NEW t \in Tasks, ListsUsers(t)', NEW i \in task'[t].ids \cap Gone'
        PROVE  Explained(i)'
    <3>1. t # m
      BY <2>1, <2>3 DEF Rendered, ListsUsers, Got
    <3>2. task'[t] = task[t]
      BY <3>1 DEF Moves
    <3>3. ListsUsers(t) /\ i \in task[t].ids \cap Gone
      BY <1>1, <2>3, <3>2 DEF ListsUsers, Got
    <3>4. PICK q \in Tasks : Excuses(q, i)
      BY <3>3 DEF StaleInv, Explained
    <3>5. CASE q # m
      BY <3>4, <3>5, ExcusesStay DEF Explained
    <3>6. CASE q = m
      <4>1. Begun(m)
        BY <2>1, TaskOf DEF Begun, SortOK, Sort
      <4>2. task[t].phase \notin {"idle", "done"}
        BY <3>3 DEF ListsUsers, Got
      <4>3. Overlap(t, m)
        <5>1. ~Later(t, m)
          BY <2>1, TaskOf DEF Later, SortOK
        <5>2. QED
          BY <3>1, <4>1, <4>2, <5>1, LiveMeet
      <4>4. Overlap(t, m)' /\ task'[t].view = "users"
        BY <3>2, <3>3, <4>3, OverlapStays DEF ListsUsers
      <4>5. i \in task'[m].removed /\ task'[m].view = "users"
        BY <2>1, <3>4, <3>6 DEF Excuses, Moves, Carries
      <4>6. QED
        BY <4>4, <4>5 DEF Excuses, Explained
    <3>7. QED
      BY <3>5, <3>6
  <2>4. QED
    BY <2>1, <2>2, <2>3 DEF StaleInv
<1>3. CASE ~Settles
  <2>1. ASSUME NEW i, Explained(i) PROVE Explained(i)'
    BY <1>3, <2>1, ExcusesStay DEF Explained
  <2>2. ASSUME NEW i \in selected' \cap Gone' PROVE Explained(i)'
    BY <1>1, <2>1, <2>2 DEF Selects, StaleInv
  <2>3. ASSUME OnScreen("users")', NEW i \in screen'.rows \cap Gone' PROVE Explained(i)'
    <3>1. Repaints(m)
      BY <2>3 DEF Relists, Rendered, OnScreen
    <3>2. CASE ScreenStays
      BY <1>1, <2>1, <2>3, <3>2 DEF ScreenStays, OnScreen, StaleInv
    <3>3. CASE ~ScreenStays
      <4>1. task[m].view = "users" /\ "users" \in Lists
        BY <2>3, <3>1, <3>3 DEF Repaints, OnScreen, Lists
      <4>2. ListsUsers(m) /\ screen'.rows \subseteq task[m].ids
        BY <2>3, <3>1, <3>3, <4>1 DEF Repaints, OnScreen, ListsUsers
      <4>3. QED
        BY <1>1, <2>1, <2>3, <4>2 DEF StaleInv
    <3>4. QED
      BY <3>2, <3>3
  <2>4. ASSUME NEW t \in Tasks, ListsUsers(t)', NEW i \in task'[t].ids \cap Gone'
        PROVE  Explained(i)'
    <3>1. ListsUsers(t) /\ task'[t].ids = task[t].ids
      <4>1. CASE t # m
        BY <2>4, <4>1 DEF Moves, ListsUsers, Got
      <4>2. CASE t = m
        <5>1. task'[m].phase = "details" /\ Got(m, "list", "ok") /\ task'[m].ids = task[m].ids
          BY <2>4, <4>2 DEF ListsUsers, Got, Relists, Rendered, Repaints
        <5>2. task'[m].view = task[m].view
          BY <5>1 DEF Moves, Carries, Got
        <5>3. QED
          BY <2>4, <4>2, <5>1, <5>2 DEF ListsUsers
      <4>3. QED
        BY <4>1, <4>2
    <3>2. QED
      BY <1>1, <2>1, <2>4, <3>1 DEF StaleInv
  <2>5. QED
    BY <2>2, <2>3, <2>4 DEF StaleInv
<1>4. QED
  BY <1>2, <1>3

LEMMA StaleServe ==
    ASSUME TInv, KeysInv, GoneInv, BatchInv, StaleInv, NEW m \in Tasks, Serve(m), Moves(m), Waits(m),
           Answered(m), task[m].phase # "idle", UNCHANGED <<screen, selected>>
    PROVE  StaleInv'
<1>1. ASSUME NEW i, Explained(i) PROVE Explained(i)'
  <2>1. task'[m].result = task[m].result
    BY DEF Waits
  <2>2. QED
    BY <1>1, <2>1, ExcusesStay DEF Explained
<1>2. ASSUME NEW i \in Gone', i \notin Gone PROVE Explained(i)'
  <2>1. i \in stored["users"] /\ i \notin stored'["users"]
    BY <1>2 DEF Gone
  <2>2. Excuses(m, i)
    <3>1. CASE task[m].op = "delete" /\ task[m].view = "users" /\ task[m].item = i
      BY <3>1 DEF GoneInv, Deleting, Excuses
    <3>2. CASE /\ task[m].op = "deleteSelected" /\ i \in task[m].ids
               /\ task[m].phase = "call" \/ task[m].result = "failed"
      <4>1. task[m].result # "ok"
        BY <3>2 DEF KeysInv, Asking
      <4>2. i \in task[m].removed
        BY <3>2, <4>1 DEF BatchInv
      <4>3. task[m].view = "users"
        BY <3>2, TaskOf DEF SortOK, Sort
      <4>4. QED
        BY <4>1, <4>2, <4>3 DEF Excuses
    <3>3. QED
      BY <2>1, <3>1, <3>2, WhoLeaves
  <2>3. QED
    BY <1>1, <2>2 DEF Explained
<1>3. ASSUME NEW i, i \in Gone => Explained(i), i \in Gone' PROVE Explained(i)'
  BY <1>1, <1>2, <1>3
<1>4. ASSUME NEW t \in Tasks, ListsUsers(t)', NEW i \in task'[t].ids \cap Gone' PROVE Explained(i)'
  <2>1. CASE t # m
    BY <1>3, <1>4, <2>1 DEF Moves, ListsUsers, Got, StaleInv
  <2>2. CASE t = m
    <3>1. task[m].view = "users" /\ task'[m].phase = task[m].phase
          /\ task[m].phase \in {"list", "details"}
      BY <1>4, <2>2 DEF Moves, Carries, Waits, ListsUsers, Got
    <3>2. i \notin stored'["users"] /\ "users" \in Lists
      BY <1>4 DEF Gone, Lists
    <3>3. task'[m].ids \subseteq task[m].ids /\ (task'[m].reply = "ok" => task[m].reply = "ok")
      BY <1>4, <2>2, <3>1, <3>2 DEF Answered
    <3>4. ListsUsers(m) /\ i \in task[m].ids
      BY <1>4, <2>2, <3>1, <3>3 DEF ListsUsers, Got
    <3>5. QED
      BY <1>3, <1>4, <3>4 DEF StaleInv
  <2>3. QED
    BY <2>1, <2>2
<1>5. QED
  BY <1>3, <1>4 DEF StaleInv, OnScreen

SelectionInv == BatchInv /\ StaleInv

LEMMA SelectionInit == Init => SelectionInv
<1> SUFFICES ASSUME Init PROVE SelectionInv
  OBVIOUS
<1> HIDE DEF NewTask
<1>1. /\ \A t \in Tasks : task[t].op = "none" /\ task[t].phase = "idle"
      /\ selected = {} /\ stored = [v \in Lists \cup {"files"} |-> Existing]
  BY NewTaskFacts DEF Init
<1>2. screen.rows \cap Gone = {}
  <2>1. screen.rows \subseteq Actions \cup Existing /\ stored["users"] = Existing
    BY <1>1, FirstPage DEF Lists
  <2>2. Actions \cap Items = {}
    BY ItemAssumption DEF Items
  <2>3. QED
    BY <2>1, <2>2 DEF Gone
<1>3. QED
  BY <1>1, <1>2 DEF SelectionInv, BatchInv, StaleInv, ListsUsers, Got

LEMMA SelectionKept ==
    ASSUME SelectionInv, UNCHANGED <<task, stored>>, UNCHANGED <<screen, selected>>
    PROVE  SelectionInv'
BY DEF SelectionInv, BatchInv, StaleInv, ListsUsers, Got, Gone, OnScreen, Explained, Excuses,
       Overlap, Begun

LEMMA SelectionClick ==
    ASSUME TInv, SelectionInv, Click, UNCHANGED server PROVE SelectionInv'
<1>1. UNCHANGED <<task, stored>> /\ ScreenStays
      /\ (selected' \subseteq selected \/ (OnScreen("users") /\ selected' \subseteq selected \cup screen.rows))
  <2>1. CASE ToggleSelectUser
    BY <2>1, SelectPage DEF server
  <2>2. CASE ~ToggleSelectUser
    BY <2>2, OtherClicks DEF Click, ScreenKept, nav, server
  <2>3. QED
    BY <2>1, <2>2
<1>2. BatchInv' /\ Gone' = Gone /\ \A i : Explained(i)' <=> Explained(i)
  BY <1>1 DEF SelectionInv, BatchInv, Gone, Explained, Excuses, Overlap, Begun
<1>3. \A t \in Tasks : ListsUsers(t)' => ListsUsers(t)
  BY <1>1 DEF ListsUsers, Got
<1>4. QED
  BY <1>1, <1>2, <1>3 DEF SelectionInv, StaleInv, ScreenStays, OnScreen

LEMMA SelectionNext ==
    TInv /\ KeysInv /\ GoneInv /\ SelectionInv /\ [Next]_vars => SelectionInv'
<1> SUFFICES ASSUME TInv, KeysInv, GoneInv, SelectionInv, [Next]_vars PROVE SelectionInv'
  OBVIOUS
<1>1. ASSUME NEW m \in Tasks, (Start(m) \/ Resume(m)) /\ UNCHANGED <<server, workload>>
      PROVE  SelectionInv'
  <2>1. /\ Moves(m) /\ Shape(m) /\ Brings(m) /\ Selects(m) /\ UNCHANGED stored
        /\ Relists(m) \/ Repaints(m)
    BY <1>1, PageSteps, StepBrings, StepSelects, TaskPageStep DEF server, PageStep
  <2>2. QED
    BY <2>1, BatchPage, StalePage DEF SelectionInv
<1>2. ASSUME NEW m \in Tasks, Serve(m) /\ UNCHANGED <<page, workload>>
      PROVE  SelectionInv'
  <2>1. /\ Moves(m) /\ Waits(m) /\ Answered(m) /\ task[m].phase # "idle"
        /\ UNCHANGED <<screen, selected>>
    BY <1>2, ServeMoves, StepAnswered DEF page, nav
  <2>2. QED
    BY <1>2, <2>1, BatchServe, StaleServe DEF SelectionInv
<1>3. CASE Click /\ UNCHANGED <<server, workload>>
  BY <1>3, SelectionClick
<1>4. CASE UNCHANGED vars
  BY <1>4, SelectionKept DEF vars, page, nav, server
<1>5. QED
  BY <1>1, <1>2, <1>3, <1>4 DEF Next

LEMMA LatestAlways == Spec => []LatestInv
BY LatestInit, LatestNext, TInvAlways, PTL DEF Spec

\* Whoever is gone and still selected is there because of a deletion of his row alone, of a batch
\* that was not answered or failed, or of a render of users that went on beside the batch.
THEOREM SelectionCorrect == Spec => []SelectedGoneExplained
<1>1. TInv /\ SelectionInv => SelectedGoneExplained
  <2> SUFFICES ASSUME TInv, SelectionInv, NEW i \in selected \ stored["users"] PROVE Explained(i)
    BY DEF SelectedGoneExplained, Explained, Excuses
  <2>1. i \in Gone
    BY DEF TInv, TypeOK, Gone
  <2>2. QED
    BY <2>1 DEF SelectionInv, StaleInv
<1>2. TInv /\ ControlsInv /\ LatestInv /\ SelectionInv /\ [Next]_vars => SelectionInv'
  BY SelectionNext DEF ControlsInv, LatestInv
<1>3. QED
  BY <1>1, <1>2, SelectionInit, TInvAlways, ControlsAlways, LatestAlways, PTL DEF Spec

=============================================================================
