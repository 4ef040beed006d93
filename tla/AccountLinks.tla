---------------------------- MODULE AccountLinks ----------------------------
(***************************************************************************)
(* OAuth account linking (src/service.rs).  complete_account_link and      *)
(* unlink_account read the user, change the list of links and write the    *)
(* whole list back, in three store calls.  The list is modelled as the set *)
(* of its entries: its order is never looked at, and entries differ by the *)
(* request that initiated them.                                            *)
(***************************************************************************)
EXTENDS UserRecords

StartInitiate(r) == \E u \in KnownUsers, p \in Providers :
    Begin(r, [IdleRequest EXCEPT !.op = "initiate_account_link", !.phase = "create_token",
                                 !.user = u, !.value = p])

CreatePendingLink(r) ==
    /\ At(r, "initiate_account_link", "create_token")
    /\ pending' = pending \cup {r}
    /\ Await(r, "persist_event")
    /\ UNCHANGED <<now, workload, users, resets, verifications, telemetry, published>>

StartComplete(r) == \E t \in Drawn({"initiate_account_link"}) :
    Begin(r, [IdleRequest EXCEPT !.op = "complete_account_link", !.phase = "consume_token",
                                 !.token = t])

PendingUnknown(r) == /\ At(r, "complete_account_link", "consume_token")
                     /\ request[r].token \notin pending
                     /\ Answer(r, "InvalidToken")
                     /\ NothingStored

ConsumePending(r) ==
    /\ At(r, "complete_account_link", "consume_token")
    /\ request[r].token \in pending
    /\ pending' = pending \ {request[r].token}
    /\ request' = [request EXCEPT ![r].phase = "get_user_by_id",
                                  ![r].user = request[request[r].token].user]
    /\ UNCHANGED <<now, workload, users, resets, verifications, telemetry, published>>

StartUnlink(r) == \E u \in KnownUsers, p \in Providers :
    Begin(r, [IdleRequest EXCEPT !.op = "unlink_account", !.phase = "get_user_by_id",
                                 !.user = u, !.value = p])

Relinks(r) == request[r].op \in {"complete_account_link", "unlink_account"}

LinkFrom(t) == [provider |-> request[t].value, by |-> t]
OfProvider(links, p) == {l \in links : l.provider = p}

RelinkUserGone(r) == /\ Relinks(r) /\ request[r].phase \in {"get_user_by_id", "reread_user"}
                     /\ ~Exists(request[r].user)
                     /\ Answer(r, "NotFound")
                     /\ NothingStored

\* Fault: the new link is written in place of the list.
AddLink_Alone(r) == /\ At(r, "complete_account_link", "get_user_by_id")
                    /\ Exists(request[r].user)
                    /\ request' = [request EXCEPT ![r].phase = "update_oauth_links",
                                                  ![r].links = {LinkFrom(request[r].token)}]
                    /\ NothingStored

AddLink(r) ==
    /\ At(r, "complete_account_link", "get_user_by_id")
    /\ Exists(request[r].user)
    /\ request' = [request EXCEPT
                     ![r].phase = "update_oauth_links",
                     ![r].links = users[request[r].user].links \cup {LinkFrom(request[r].token)}]
    /\ NothingStored

NothingToUnlink(r) == /\ At(r, "unlink_account", "get_user_by_id")
                      /\ Exists(request[r].user)
                      /\ OfProvider(users[request[r].user].links, request[r].value) = {}
                      /\ Answer(r, "NotFound")
                      /\ NothingStored

DropLinks(r) ==
    LET links == users[request[r].user].links
        dropped == OfProvider(links, request[r].value)
    IN  /\ At(r, "unlink_account", "get_user_by_id")
        /\ Exists(request[r].user)
        /\ dropped # {}
        /\ request' = [request EXCEPT ![r].phase = "update_oauth_links",
                                      ![r].links = links \ dropped]
        /\ NothingStored

StoreLinks(r) == /\ request[r].phase = "update_oauth_links"
                 /\ WriteField(r, "links", request[r].links, "reread_user")

RereadUser(r) == /\ request[r].phase = "reread_user"
                 /\ Exists(request[r].user)
                 /\ Await(r, "persist_event")
                 /\ NothingStored

-----------------------------------------------------------------------------
StartLink(r) == StartInitiate(r) \/ StartComplete(r) \/ StartUnlink(r)

LinkStep(r) == \/ CreatePendingLink(r) \/ PendingUnknown(r) \/ ConsumePending(r)
               \/ RelinkUserGone(r) \/ AddLink(r) \/ NothingToUnlink(r) \/ DropLinks(r)
               \/ StoreLinks(r) \/ RereadUser(r)
=============================================================================
