----------------------------- MODULE ConsoleFiles -----------------------------
(***************************************************************************)
(* Uploaded files in the Control tab of src/assets/admin.js: the panel     *)
(* that lists them, and the URL of the logo, which an upload fills in, a   *)
(* deletion clears, and saveUiSettings stores.  (The background image is   *)
(* treated in the same way.)                                               *)
(***************************************************************************)
EXTENDS ConsoleViews

\* listUploads: the panel is shown if it was hidden, and hidden if it was shown.  A panel that
\* is shown asks for the files.
TogglesFiles(t, rec, shown) ==
    LET opens == ~shown.files.open
    IN  /\ screen' = [shown EXCEPT !.files =
                        IF opens THEN [open |-> TRUE, rows |-> {}, by |-> None, asked |-> t]
                                 ELSE [@ EXCEPT !.open = FALSE]]
        /\ task' = [task EXCEPT ![t] = IF opens THEN [rec EXCEPT !.phase = "files", !.by = screen.by,
                                                                 !.reply = "none"]
                                                ELSE Ended(rec)]

ListUploads(t) == /\ OnScreen("control") /\ Allowed(t, "files")
                  /\ TogglesFiles(t, New("files", "control"), screen)
                  /\ UNCHANGED <<nav, rest, latest>>

\* The answer, or the error, goes to the panel that asked, shown or not.
FilesListed(t) ==
    /\ task[t].phase = "files" /\ task[t].reply # "none"
    /\ screen' = IF OnScreen("control") /\ screen.by = task[t].by
                   THEN [screen EXCEPT !.files.rows = task[t].ids, !.files.by = t] ELSE screen
    /\ Ends(t)
    /\ UNCHANGED <<nav, rest, latest>>

UploadAsset(t) == Calls(t, "upload", "control", t)

\* The input is the one on the screen by then, if there is one.
Uploaded(t) ==
    /\ task[t].op = "upload" /\ Got(t, "call", "ok")
    /\ screen' = IF OnScreen("control") THEN [screen EXCEPT !.logo = t] ELSE screen
    /\ task' = [task EXCEPT ![t] = [Ended(@) EXCEPT !.result = "ok"]]
    /\ UNCHANGED <<nav, rest, latest>>

DeleteUpload(t) == \E i \in screen.files.rows :
    /\ screen.files.open /\ OnScreen("control") /\ Allowed(t, "deleteFile")
    /\ task' = [task EXCEPT ![t] = [New("deleteFile", "control") EXCEPT !.item = i, !.removed = {i}]]
    /\ UNCHANGED page

\* The files are to be listed again: that hides the panel if it is shown.
UploadDeleted(t) ==
    /\ task[t].op = "deleteFile" /\ Got(t, "call", "ok")
    /\ LET rec == [task[t] EXCEPT !.result = "ok"]
       IN  IF OnScreen("control")
             THEN TogglesFiles(t, rec, [screen EXCEPT !.logo = IF @ = rec.item THEN None ELSE @])
             ELSE screen' = screen /\ task' = [task EXCEPT ![t] = Ended(rec)]
    /\ UNCHANGED <<nav, rest, latest>>

ServeFiles(t) ==
    /\ Awaits(t, "files")
    /\ \/ task' = [task EXCEPT ![t].reply = "ok", ![t].ids = stored["files"]]
       \/ task' = [task EXCEPT ![t].reply = "failed"]
    /\ UNCHANGED server

SaveUiSettings(t) ==
    /\ OnScreen("control") /\ Allowed(t, "saveUi")
    /\ task' = [task EXCEPT ![t] = [New("saveUi", "control") EXCEPT !.text = screen.logo]]
    /\ UNCHANGED page

UiSettingsSaved(t) ==
    /\ task[t].op = "saveUi" /\ Got(t, "call", "ok")
    /\ task' = [task EXCEPT ![t] = [Ended(@) EXCEPT !.result = "ok"]]
    /\ UNCHANGED page
===============================================================================
