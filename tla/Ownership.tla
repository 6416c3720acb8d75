----------------------------- MODULE Ownership ------------------------------
(***************************************************************************)
(* Whose todos are whose, as a client may think of it: each change happens *)
(* at once, a todo is only ever given to a user who exists, and a user     *)
(* goes together with exactly the todos they own at that moment.  There    *)
(* are no transactions, locks or statements here; module Todos is what     *)
(* the code and Postgres do.                                               *)
(***************************************************************************)
CONSTANTS
  User,   \* user ids
  Todo    \* todo ids

VARIABLES
  users,  \* each user's role, or "gone"
  todos   \* each todo's owner, or "unused", or "gone"

Role == {"user", "admin"}
Exists(u) == users[u] \in Role

Init ==
  /\ users \in [User -> Role]
  /\ todos \in [Todo -> User \cup {"unused"}]

SetRole(u) ==
  /\ Exists(u)
  /\ \E role \in Role : users' = [users EXCEPT ![u] = role]
  /\ UNCHANGED todos

Create(t, u) ==
  /\ todos[t] = "unused" /\ Exists(u)
  /\ todos' = [todos EXCEPT ![t] = u]
  /\ UNCHANGED users

Reassign(t, u) ==
  /\ todos[t] \in User /\ Exists(u)
  /\ todos' = [todos EXCEPT ![t] = u]
  /\ UNCHANGED users

Delete(t) ==
  /\ todos[t] \in User
  /\ todos' = [todos EXCEPT ![t] = "gone"]
  /\ UNCHANGED users

\* DELETE /users/{user_id}?hard=true, purge and all.
DeleteUser(u) ==
  /\ Exists(u)
  /\ users' = [users EXCEPT ![u] = "gone"]
  /\ todos' = [t \in Todo |-> IF todos[t] = u THEN "gone" ELSE todos[t]]

Next ==
  \/ \E t \in Todo : Delete(t) \/ \E u \in User : Create(t, u) \/ Reassign(t, u)
  \/ \E u \in User : SetRole(u) \/ DeleteUser(u)

Spec == Init /\ [][Next]_<<users, todos>>
=============================================================================
