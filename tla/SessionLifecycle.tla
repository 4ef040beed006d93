-------------------------- MODULE SessionLifecycle --------------------------
(***************************************************************************)
(* What stateful sessions promise, whoever asks and however the requests   *)
(* interleave: a session is granted once, is revoked at most once and      *)
(* never comes back, and a session that renews another one exists only     *)
(* after the one it renews was revoked.  AuthSessions implements it.       *)
(***************************************************************************)
CONSTANTS Sessions,     \* the ids sessions can have
          NoSession     \* none of them: the parent of a session granted by a login

VARIABLES live,         \* sessions whose refresh token still works
          revoked,      \* sessions revoked by a logout or a renewal
          parent        \* the session that each session renewed

vars == <<live, revoked, parent>>

Known == live \cup revoked

TypeOK == /\ live \subseteq Sessions
          /\ revoked \subseteq Sessions
          /\ parent \in [Sessions -> Sessions \cup {NoSession}]

Init == /\ live = {}
        /\ revoked = {}
        /\ parent = [s \in Sessions |-> NoSession]

Grant(s) == /\ s \notin Known
            /\ live' = live \cup {s}
            /\ UNCHANGED <<revoked, parent>>

Renew(p, s) == /\ s \notin Known
               /\ p \in revoked
               /\ live' = live \cup {s}
               /\ parent' = [parent EXCEPT ![s] = p]
               /\ UNCHANGED revoked

Revoke(s) == /\ s \in live
             /\ live' = live \ {s}
             /\ revoked' = revoked \cup {s}
             /\ UNCHANGED parent

Next == \E s \in Sessions : \/ Grant(s)
                            \/ Revoke(s)
                            \/ \E p \in Sessions : Renew(p, s)

Spec == Init /\ [][Next]_vars
=============================================================================
