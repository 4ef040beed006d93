--------------------------- MODULE MCOneTimeLogin ---------------------------
(* Instances of OneTimeLogin for TLC. *)
EXTENDS OneTimeLogin, TLC

Symmetry == Permutations(Requests) \cup Permutations(Codes) \cup Permutations(Users)
=============================================================================
