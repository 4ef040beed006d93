----------------------------- MODULE MCAccounts -----------------------------
(* Instances of Accounts for TLC. *)
EXTENDS Accounts, TLC

\* A request is named by its slot only.
Symmetry == Permutations(Requests)
=============================================================================
