--------------------------- MODULE ConsoleSettings ---------------------------
(***************************************************************************)
(* The views of src/assets/admin.js that write more than a row: new API    *)
(* keys and their banner, the webhook drawer, and the Control tab.         *)
(***************************************************************************)
EXTENDS ConsoleViews

(* API keys *)

CreateApiKey(t) == Calls(t, "create", "apiKeys", t)

\* The answer is the only place where the key is ever found.
ApiKeyCreated(t) ==
    /\ task[t].op = "create" /\ task[t].view = "apiKeys" /\ Got(t, "call", "ok")
    /\ newRaw' = t
    /\ UNCHANGED <<nav, seen, templates>>
    /\ Renders(t, [task[t] EXCEPT !.result = "ok"], "apiKeys")

DismissBanner(t) ==
    /\ OnScreen("apiKeys") /\ screen.banner # None
    /\ newRaw' = None
    /\ UNCHANGED <<nav, seen, templates>>
    /\ Opens(t, "dismiss", "apiKeys")

-----------------------------------------------------------------------------
(* The webhook drawer *)

OpenWebhookDrawer == \E i \in screen.rows \cup {None} :
    /\ "drawer" \in workload.clicks /\ OnScreen("webhooks")
    /\ screen' = [screen EXCEPT !.drawer = i]
    /\ UNCHANGED <<nav, rest, latest, task>>

CloseWebhookDrawer ==
    /\ OnScreen("webhooks") /\ screen.drawer # Closed
    /\ screen' = [screen EXCEPT !.drawer = Closed]
    /\ UNCHANGED <<nav, rest, latest, task>>

\* A drawer that was opened for a row changes it, otherwise a webhook is registered.
SaveWebhook(t) ==
    /\ screen.drawer # Closed
    /\ Calls(t, "saveWebhook", "webhooks", IF screen.drawer = None THEN t ELSE screen.drawer)

\* The drawer is to be closed; when it is gone, that throws, and a save that was done is
\* reported as an error.
WebhookSaved(t) ==
    /\ task[t].op = "saveWebhook" /\ Got(t, "call", "ok")
    /\ IF OnScreen("webhooks")
         THEN UNCHANGED <<nav, rest>> /\ Renders(t, [task[t] EXCEPT !.result = "ok"], "webhooks")
         ELSE /\ task' = [task EXCEPT ![t] = [Ended(@) EXCEPT !.result = "failed"]]
              /\ UNCHANGED page

-----------------------------------------------------------------------------
(* The Control tab *)

\* The registered actions; the switches of those enabled are on.
ServeSettings(t) ==
    /\ task[t].reply = "none"
    /\ \/ task[t].phase = "list" /\ task[t].view = "control"
       \/ task[t].phase = "read"
    /\ task' = [task EXCEPT ![t] = [@ EXCEPT !.reply = "ok", !.ids = settings.enabled,
                                             !.more = settings.require2FA, !.text = settings.logo]]
    /\ UNCHANGED server

\* The list of registered actions is asked for at the same time; without it none are shown.
ShowControl(t) == \E rows \in {Actions, {}} :
    /\ Got(t, "list", "ok") /\ task[t].view = "control"
    /\ Paints(t, [Blank EXCEPT !.state = "shown", !.view = "control", !.by = t, !.rows = rows,
                               !.checked = rows \cap task[t].ids, !.required = task[t].more,
                               !.logo = task[t].text])
    /\ UNCHANGED <<newRaw, seen>>

Switch(set, a, on) == IF on THEN set \cup {a} ELSE set \ {a}

\* Fault: the list to write is made from the switches on the screen, not from a fresh answer.
ToggleWebhookAction_FromScreen(t) == \E a \in screen.rows :
    /\ OnScreen("control") /\ Allowed(t, "toggleAction")
    /\ LET on == a \notin screen.checked
       IN  /\ screen' = [screen EXCEPT !.checked = Switch(@, a, on)]
           /\ task' = [task EXCEPT ![t] = [New("toggleAction", "control") EXCEPT
                                             !.item = a, !.value = on,
                                             !.ids = Switch(screen.checked, a, on)]]
    /\ UNCHANGED <<nav, rest, latest>>

\* A click on the switch of an action: the enabled actions are read, changed and written back.
ToggleWebhookAction(t) == \E a \in screen.rows :
    /\ OnScreen("control") /\ Allowed(t, "toggleAction")
    /\ LET on == a \notin screen.checked
       IN  /\ screen' = [screen EXCEPT !.checked = Switch(@, a, on)]
           /\ task' = [task EXCEPT ![t] = [New("toggleAction", "control") EXCEPT
                                             !.phase = "read", !.item = a, !.value = on]]
    /\ UNCHANGED <<nav, rest, latest>>

WriteActions(t) ==
    /\ task[t].op = "toggleAction" /\ Got(t, "read", "ok")
    /\ task' = [task EXCEPT ![t] = [@ EXCEPT !.phase = "call", !.reply = "none",
                                  !.ids = Switch(task[t].ids, task[t].item, task[t].value)]]
    /\ UNCHANGED page

ActionToggled(t) ==
    /\ task[t].op = "toggleAction" /\ Got(t, "call", "ok")
    /\ UNCHANGED <<nav, rest>>
    /\ Renders(t, [task[t] EXCEPT !.result = "ok"], "control")

\* The switch of require2FA.
UpdateSetting(t) ==
    /\ OnScreen("control") /\ Allowed(t, "updateSetting")
    /\ screen' = [screen EXCEPT !.required = ~@]
    /\ task' = [task EXCEPT ![t] = [New("updateSetting", "control") EXCEPT
                                      !.value = ~screen.required]]
    /\ UNCHANGED <<nav, rest, latest>>

\* The users' policy follows in a second call.
SettingUpdated(t) ==
    /\ task[t].op = "updateSetting" /\ Got(t, "call", "ok")
    /\ task' = [task EXCEPT ![t].phase = "policy", ![t].reply = "none"]
    /\ UNCHANGED page

\* Its failure is passed over.
PolicyUpdated(t) ==
    /\ task[t].phase = "policy" /\ task[t].reply # "none"
    /\ task' = [task EXCEPT ![t] = [Ended(@) EXCEPT
                                      !.result = IF task[t].reply = "ok" THEN "ok" ELSE "partial"]]
    /\ UNCHANGED page

SettingRefused(t) ==
    /\ task[t].op = "updateSetting" /\ Got(t, "call", "failed")
    /\ UNCHANGED <<nav, rest>>
    /\ Renders(t, [task[t] EXCEPT !.result = "failed"], "control")

\* The buttons of the users view that set the policy of all users.
SetBulk2FA(t) == \E required \in BOOLEAN :
    /\ OnScreen("users") /\ Allowed(t, "bulk2FA")
    /\ task' = [task EXCEPT ![t] = [New("bulk2FA", "users") EXCEPT !.value = required]]
    /\ UNCHANGED page

Bulk2FASet(t) ==
    /\ task[t].op = "bulk2FA" /\ Got(t, "call", "ok")
    /\ UNCHANGED <<nav, rest>>
    /\ Renders(t, [task[t] EXCEPT !.result = "ok"], "users")

Writes(t) ==
    settings' = CASE task[t].op = "toggleAction" -> [settings EXCEPT !.enabled = task[t].ids]
                  [] task[t].op = "bulk2FA" \/ task[t].phase = "policy"
                       -> [settings EXCEPT !.policy = task[t].value]
                  [] task[t].op = "saveUi" -> [settings EXCEPT !.logo = task[t].text]
                  [] OTHER -> [settings EXCEPT !.require2FA = task[t].value]

ServeWrite(t) ==
    /\ task[t].op \in {"toggleAction", "updateSetting", "bulk2FA", "saveUi"}
    /\ task[t].phase \in {"call", "policy"} /\ task[t].reply = "none"
    /\ \/ Writes(t) /\ \E reply \in {"ok", "failed"} : task' = [task EXCEPT ![t].reply = reply]
       \/ UNCHANGED settings /\ task' = [task EXCEPT ![t].reply = "failed"]
    /\ UNCHANGED <<stored, content>>

FailRead(t) == /\ Awaits(t, "read")
               /\ task' = [task EXCEPT ![t].reply = "failed"]
               /\ UNCHANGED server
=============================================================================
