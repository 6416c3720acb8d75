--------------------------- MODULE MCUserAccounts ---------------------------
(* Small instances of UserAccounts for TLC. *)
EXTENDS UserAccounts, TLC

\* Requests only serve as identities.
Symmetry == Permutations(Request)
=============================================================================
