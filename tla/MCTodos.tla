------------------------------ MODULE MCTodos -------------------------------
(* Small instances of Todos for TLC. *)
EXTENDS Todos, TLC

\* Users, todos and requests only serve as identities.
Symmetry == Permutations(User) \cup Permutations(Todo) \cup Permutations(Request)
=============================================================================
