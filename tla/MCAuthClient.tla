---------------------------- MODULE MCAuthClient ----------------------------
(* AuthClient for TLC: operations that meet each other, in workloads. *)
EXTENDS AuthClient

CONSTANTS t1, t2, t3, u1, u2

Three(a, b, c) == [t \in Tasks |-> CASE t = t1 -> a [] t = t2 -> b [] t = t3 -> c]

MCWorkloads == {
    [ops |-> Three({"request"}, {"request"}, {"refresh"}), users |-> {u1}, locations |-> {"page"}],
    [ops |-> Three({"request"}, {"logout"}, {"check"}), users |-> {u1}, locations |-> {"page"}],
    [ops |-> Three({"login"}, {"guardRole"}, {"check"}), users |-> {u1, u2}, locations |-> {"page"}],
    [ops |-> Three({"init"}, {"verify"}, {}), users |-> {u1}, locations |-> {"page"}],
    [ops |-> Three({"login"}, {"logout"}, {"check"}), users |-> {u1}, locations |-> {"page"}],
    [ops |-> Three({"delete"}, {"guardPage"}, {"check"}), users |-> {u1}, locations |-> {"login"}]}
=============================================================================
