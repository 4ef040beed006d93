--------------------------- MODULE MCAdminConsole ---------------------------
(* AdminConsole for TLC: operations that meet each other, in workloads. *)
EXTENDS AdminConsole

Three(a, b, c) == [t \in Tasks |-> CASE t = 11 -> a [] t = 12 -> b [] t = 13 -> c]
Group(a, b, c, tabs, clicks) == [ops |-> Three(a, b, c), tabs |-> tabs, clicks |-> clicks]

MCWorkloads == {
    \* paging, filters and deletions of lists, and a tab chosen meanwhile
    Group({"page", "filter"}, {"delete"}, {"show", "page"}, {"users", "sessions"}, {}),
    \* the selection
    Group({"deleteSelected"}, {"selectAll", "clear", "filter"}, {"delete", "page"}, {"users"}, {"select"}),
    \* panels
    Group({"open"}, {"member", "change", "open"}, {"delete", "filter"}, {"users"}, {}),
    Group({"open"}, {"member", "create"}, {"delete", "filter"}, {"tenants"}, {}),
    \* roles, webhooks
    Group({"create"}, {"delete", "show"}, {"filter"}, {"roles"}, {}),
    Group({"saveWebhook"}, {"show", "change"}, {"delete", "saveWebhook"}, {"webhooks", "roles"}, {"drawer"}),
    \* API keys
    Group({"create"}, {"create", "show", "delete"}, {"dismiss", "change", "show"}, {"apiKeys", "roles"}, {}),
    \* settings
    Group({"toggleAction"}, {"show"}, {"toggleAction"}, {"control"}, {}),
    Group({"updateSetting"}, {"updateSetting", "bulk2FA"}, {"show", "updateSetting"}, {"control", "users"}, {}),
    \* uploaded files
    Group({"files"}, {"deleteFile", "upload"}, {"files", "deleteFile", "saveUi", "show"}, {"control"}, {}),
    \* templates
    Group({"save", "reset"}, {"setType"}, {"save"}, {"templates"}, {"edit"})}
=============================================================================
