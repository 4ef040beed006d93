---------------------------- MODULE AdminConsole ----------------------------
(***************************************************************************)
(* The views of the admin console on one main element, with what must hold *)
(* between what it shows, what it remembers and what the server was told.  *)
(***************************************************************************)
EXTENDS ConsoleSettings, ConsoleFiles, ConsoleTemplates

\* A view as it was shown, with everything loaded, some time after the console was opened.
FirstScreen(view) ==
    LET found == IF view \in Lists THEN stored[view] ELSE {}
    IN  [Blank EXCEPT !.state = "shown", !.view = view,
                      !.rows = CASE view \in Paged -> PageOf(found, 0)
                                 [] view = "control" -> Actions
                                 [] OTHER -> found,
                      !.more = view \in Paged /\ PageSize < Cardinality(found),
                      !.checked = IF view = "control" THEN settings.enabled ELSE {}]

\* The panel of uploaded files may be open too.
FirstFiles == IF tab = "control" /\ \E t \in Tasks : "files" \in workload.ops[t]
                THEN [NoFiles EXCEPT !.open = TRUE, !.rows = stored["files"]] ELSE NoFiles

Init == /\ workload \in Workloads
        /\ tab \in workload.tabs
        /\ query = [v \in Tabs |-> NoQuery]
        /\ openId = [v \in WithPanel |-> None]
        /\ selected = {}
        /\ newRaw = None /\ seen = {}
        /\ stored = [v \in Lists \cup {"files"} |-> Existing]
        /\ settings \in [enabled : IF \E t \in Tasks : "toggleAction" \in workload.ops[t]
                                     THEN SUBSET Actions ELSE {{}},
                         require2FA : {FALSE}, policy : {FALSE}, logo : {None}]
        /\ content \in IF tab = "templates" THEN [Types -> Contents]
                                            ELSE {[k \in Types |-> Default]}
        /\ templates = [type |-> "mail", selectedId |-> None,
                        cache |-> [mail |-> content["mail"], ui |-> Default]]
        /\ screen \in {FirstScreen(tab), [FirstScreen(tab) EXCEPT !.files = FirstFiles]}
        /\ latest = [v \in Tabs |-> None]
        /\ task = [t \in Tasks |-> NewTask]

\* A click that starts a handler.
Start(t) ==
    \/ ShowTab(t) \/ TurnPage(t) \/ TypeFilter(t) \/ TogglePanel(t)
    \/ ToggleSelectAll(t) \/ ClearSelection(t) \/ DeleteSelected(t)
    \/ DeleteUser(t) \/ RevokeSession(t) \/ CreateRole(t) \/ DeleteRole(t)
    \/ CreateTenant(t) \/ DeleteTenant(t) \/ CreateApiKey(t) \/ RevokeApiKey(t)
    \/ DeleteApiKey(t) \/ ToggleWebhook(t) \/ DeleteWebhook(t) \/ SaveWebhook(t)
    \/ ChangeUserRole(t) \/ ChangeUserTenant(t) \/ ChangeTenantUser(t) \/ DismissBanner(t)
    \/ ToggleWebhookAction(t) \/ UpdateSetting(t) \/ SetBulk2FA(t)
    \/ ListUploads(t) \/ UploadAsset(t) \/ DeleteUpload(t) \/ SaveUiSettings(t)
    \/ SetTemplateType(t) \/ SaveTemplate(t) \/ ResetMailTemplate(t)

\* A handler or a render goes on with an answer.
Resume(t) ==
    \/ SelectedDeleted(t) \/ Changed(t) \/ NotChanged(t) \/ MemberChanged(t)
    \/ ApiKeyCreated(t) \/ WebhookSaved(t) \/ Saved(t)
    \/ WriteActions(t) \/ ActionToggled(t)
    \/ SettingUpdated(t) \/ PolicyUpdated(t) \/ SettingRefused(t) \/ Bulk2FASet(t)
    \/ FilesListed(t) \/ Uploaded(t) \/ UploadDeleted(t) \/ UiSettingsSaved(t)
    \/ ListFailed(t) \/ AskDetails(t) \/ PanelLoaded(t)
    \/ ShowUsers(t) \/ ShowSessions(t) \/ ShowRoles(t) \/ ShowTenants(t)
    \/ ShowApiKeys(t) \/ ShowWebhooks(t) \/ ShowControl(t) \/ ShowTemplates(t)

Click == ToggleSelectUser \/ OpenWebhookDrawer \/ CloseWebhookDrawer \/ EditTemplate \/ TypeText

Serve(t) == \/ ServeDeleteSelected(t) \/ ServeCall(t) \/ ServeList(t) \/ FailList(t)
            \/ ServeSettings(t) \/ FailRead(t) \/ ServeWrite(t)
            \/ ServeFiles(t) \/ ServeTemplates(t) \/ ServeSave(t)

Next == \/ \E t \in Tasks : \/ (Start(t) \/ Resume(t)) /\ UNCHANGED <<server, workload>>
                            \/ Serve(t) /\ UNCHANGED <<page, workload>>
        \/ Click /\ UNCHANGED <<server, workload>>

Spec == Init /\ [][Next]_vars

-----------------------------------------------------------------------------
(* Safety *)

Begun(t) == task[t].op # "none"
Overlap(t, q) ==
    /\ t # q /\ Begun(t) /\ Begun(q)
    /\ t \notin task[q].after /\ q \notin task[t].after

(***************************************************************************)
(* Answers arrive in any order, and a render reads the state again when it *)
(* paints: whoever painted last, the pager, the filter, the boxes, the     *)
(* selection bar, the open row and the banner are those of _state, and the *)
(* marked tab is the view's unless a task of this view overlapped a change *)
(* of tabs.                                                                *)
(***************************************************************************)
ControlsMatchState ==
    screen.state = "shown" =>
        /\ screen.label = query[screen.view]
        /\ screen.view = "users" => /\ screen.checked = selected \cap screen.rows
                                    /\ screen.count = Cardinality(selected)
        /\ screen.view \in WithPanel => screen.open = openId[screen.view]
        /\ screen.view = "apiKeys" => screen.banner = newRaw
        /\ screen.view = tab \/ \E s, q \in Tasks : /\ task[s].op = "show" /\ Overlap(s, q)
                                                   /\ task[q].view = screen.view

Removed(view) == UNION {task[t].removed : t \in {t \in Tasks : task[t].view = view
                                                              /\ task[t].result = "ok"}}

(***************************************************************************)
(* Rows painted by the render of a list that began last answer the query   *)
(* of now, and none of them is an item that a handler was told is deleted. *)
(* (Rows that an earlier render paints over them may do neither.)  The     *)
(* panel of uploaded files shows no deleted file either, when it is filled *)
(* by the call that opened it: a deletion closes it.                       *)
(***************************************************************************)
LatestRenderIsCurrent ==
    /\ screen.state = "shown" /\ screen.view \in Lists /\ screen.by = latest[screen.view] =>
          /\ screen.sent = query[screen.view]
          /\ screen.rows \cap Removed(screen.view) = {}
    /\ OnScreen("control") /\ screen.files.open /\ screen.files.by = screen.files.asked =>
          screen.files.rows \cap Removed("control") = {}

(***************************************************************************)
(* A user who is gone does not stay in the selection, where the next batch *)
(* would count and delete him again, once a batch that deletes him was     *)
(* answered: it is a deletion of his row alone, a batch that goes on or    *)
(* was told to have failed, or an older list painted over, that keeps him. *)
(***************************************************************************)
SelectedGoneExplained ==
    \A i \in selected \ stored["users"] :
        \E t \in Tasks :
            /\ i \in task[t].removed /\ task[t].view = "users"
            /\ \/ task[t].op = "delete" \/ task[t].result # "ok"
               \/ \E q \in Tasks : task[q].view = "users" /\ Overlap(q, t)

Toggles(t) == task[t].op = "toggleAction"
SetsPolicy(t) == task[t].op \in {"updateSetting", "bulk2FA"}
Later(q, t) == Begun(q) /\ t \in task[q].after

SettingFollows(t) ==
    /\ Toggles(t) =>
         \/ task[t].value = (task[t].item \in settings.enabled)
         \/ \E q \in Tasks : /\ Toggles(q)
                             /\ Overlap(q, t) \/ (Later(q, t) /\ task[q].item = task[t].item)
    /\ task[t].op = "updateSetting" =>
         \/ settings.require2FA = task[t].value /\ settings.policy = task[t].value
         \/ \E q \in Tasks : SetsPolicy(q) /\ (Overlap(q, t) \/ Later(q, t))

\* A click that wrote, or is about to write, and that the list agrees with.
InEffect(t) == /\ Toggles(t) /\ task[t].phase # "read"
               /\ task[t].value = (task[t].item \in settings.enabled)

\* What may set require2FA and the policy apart, and what brings them together again.
Parts(t) ==
    /\ SetsPolicy(t)
    /\ \/ task[t].op = "bulk2FA" \/ task[t].result # "ok"
       \/ \E q \in Tasks : SetsPolicy(q) /\ Overlap(q, t)
Mended(t) ==
    \E q \in Tasks : task[q].op = "updateSetting" /\ task[q].result = "ok" /\ Later(q, t)

(***************************************************************************)
(* A webhook action stays as an answered click put it, through later       *)
(* clicks on others, unless two clicks overlapped: each writes the whole   *)
(* list it read.  Of the clicks that overlap, not all are lost.  After an  *)
(* answered change of require2FA the users' policy is the same, unless its *)
(* call failed or another change overlapped.  When the two differ, a call  *)
(* failed, or a change overlapped or set the policy alone, and no change   *)
(* was answered in full since.                                             *)
(***************************************************************************)
SettingsFollowAnswers ==
    /\ \A t \in Tasks : task[t].result = "ok" => SettingFollows(t)
    /\ (\E t \in Tasks : Toggles(t) /\ task[t].result = "ok") => \E t \in Tasks : InEffect(t)
    /\ settings.policy # settings.require2FA => \E t \in Tasks : Parts(t) /\ ~Mended(t)

KeyCreated(t) == task[t].op = "create" /\ task[t].view = "apiKeys" /\ task[t].result = "ok"

(***************************************************************************)
(* The raw form of an API key is in one answer only.  Once it arrived, the *)
(* key is shown on a banner or still waits for one, whatever tabs and      *)
(* failed renders come in between, unless a creation that overlapped       *)
(* replaced it.                                                            *)
(***************************************************************************)
KeySeenOrReplaced ==
    \A t \in Tasks : KeyCreated(t) => \/ t \in seen \/ newRaw = t
                                     \/ \E q \in Tasks : KeyCreated(q) /\ Overlap(q, t)

(***************************************************************************)
(* A save of a template replaces the content its editor was filled from,   *)
(* so nobody's work is overwritten unseen, if the editor was mounted on    *)
(* what the last render showed, and no save of the same item overlapped or *)
(* was done and reported as failed.                                        *)
(***************************************************************************)
SaveReplacesWhatItLoaded ==
    \A t \in Tasks :
        task[t].op = "save" /\ task[t].quiet /\ task[t].result = "ok" =>
            \/ task[t].over = task[t].base
            \/ \E q \in Tasks : /\ task[q].op \in {"save", "reset"}
                                /\ task[q].kind = task[t].kind /\ task[q].item = task[t].item
                                /\ Overlap(q, t) \/ task[q].result = "failed"
=============================================================================
