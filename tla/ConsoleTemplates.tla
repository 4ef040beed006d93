-------------------------- MODULE ConsoleTemplates --------------------------
(***************************************************************************)
(* The Email & UI tab of src/assets/admin.js: the two kinds of templates,  *)
(* the copies of them that the page keeps, and the editor, which is filled *)
(* from such a copy.  What the editor holds (bodies and translations) is   *)
(* one content.                                                            *)
(***************************************************************************)
EXTENDS ConsoleViews

\* Fault: the other kind is shown from the copy, without asking the server.
SetTemplateType_FromCache(t) == \E kind \in Types :
    /\ OnScreen("templates") /\ Allowed(t, "setType")
    /\ templates' = [templates EXCEPT !.type = kind, !.selectedId = None]
    /\ screen' = [screen EXCEPT !.editor = NoEditor]
    /\ task' = [task EXCEPT ![t] = [New("setType", "templates") EXCEPT !.phase = "done"]]
    /\ UNCHANGED <<nav, newRaw, seen, latest>>

\* The buttons of both kinds are always there; nothing is selected any more.
SetTemplateType(t) == \E kind \in Types :
    /\ OnScreen("templates")
    /\ templates' = [templates EXCEPT !.type = kind, !.selectedId = None]
    /\ UNCHANGED <<nav, newRaw, seen>>
    /\ Opens(t, "setType", "templates")

ServeTemplates(t) ==
    /\ Awaits(t, "list") /\ task[t].view = "templates"
    /\ task' = [task EXCEPT ![t].reply = "ok", ![t].list = content[task[t].asked]]
    /\ UNCHANGED server

\* editMailTemplate and editUiTranslation: the editor of an item, filled from the page's copy.
Mounted(i, copies, painter) ==
    LET text == copies.cache[copies.type][i]
    IN  [item |-> i, base |-> text, text |-> text, quiet |-> painter = latest["templates"]]

\* The answer replaces the copy of the kind that was asked for; the kind that is shown is that
\* of now, with its selected item, if any.
ShowTemplates(t) ==
    /\ Got(t, "list", "ok") /\ task[t].view = "templates"
    /\ templates' = [templates EXCEPT !.cache[task[t].asked] = task[t].list]
    /\ screen' = [Blank EXCEPT !.state = "shown", !.view = "templates", !.by = t,
                               !.editor = IF templates.selectedId = None THEN NoEditor
                                          ELSE Mounted(templates.selectedId, templates', t)]
    /\ Ends(t)
    /\ UNCHANGED <<nav, newRaw, seen, latest>>

EditTemplate == \E i \in Templates :
    /\ "edit" \in workload.clicks /\ OnScreen("templates")
    /\ templates' = [templates EXCEPT !.selectedId = i]
    /\ screen' = [screen EXCEPT !.editor = Mounted(i, templates, screen.by)]
    /\ UNCHANGED <<nav, newRaw, seen, latest, task>>

TypeText == \E text \in Versions \cup {None} :
    /\ screen.editor.item # None
    /\ screen' = [screen EXCEPT !.editor.text = text]
    /\ UNCHANGED <<nav, rest, latest, task>>

Posts(t, op, text) ==
    /\ screen.editor.item # None /\ Allowed(t, op)
    /\ task' = [task EXCEPT ![t] = [New(op, "templates") EXCEPT
                                      !.kind = templates.type, !.item = screen.editor.item,
                                      !.text = text, !.base = screen.editor.base,
                                      !.quiet = screen.editor.quiet]]
    /\ UNCHANGED page

SaveTemplate(t) == Posts(t, "save", screen.editor.text)
\* Only a mail template can be reset.
ResetMailTemplate(t) == templates.type = "mail" /\ Posts(t, "reset", None)

ServeSave(t) ==
    /\ task[t].op \in {"save", "reset"} /\ Awaits(t, "call")
    /\ LET rec == task[t]
           served == [rec EXCEPT !.over = content[rec.kind][rec.item]]
       IN  \/ /\ content' = [content EXCEPT ![rec.kind][rec.item] = rec.text]
              /\ \E reply \in {"ok", "failed"} :
                   task' = [task EXCEPT ![t] = [served EXCEPT !.reply = reply]]
           \/ /\ UNCHANGED content
              /\ task' = [task EXCEPT ![t].reply = "failed"]
    /\ UNCHANGED <<stored, settings>>

\* The tab is rendered anew, the editor with it: what was typed since is gone.
Saved(t) ==
    /\ task[t].op \in {"save", "reset"} /\ Got(t, "call", "ok")
    /\ UNCHANGED <<nav, rest>>
    /\ Renders(t, [task[t] EXCEPT !.result = "ok"], "templates")
=============================================================================
