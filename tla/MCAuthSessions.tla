--------------------------- MODULE MCAuthSessions ---------------------------
(* Instances of AuthSessions for TLC. *)
EXTENDS AuthSessions, TLC

\* A request is named by its slot only, and so is a user.
Symmetry == Permutations(Requests) \cup Permutations(Users)
=============================================================================
