------------------------------- MODULE Todos --------------------------------
(***************************************************************************)
(* The todos of the users: creation, reading, update and deletion within   *)
(* the actor's scope, reassignment by admins, and the hard deletion of a   *)
(* user with all of their todos, over the foreign key todos.owner_id.      *)
(*                                                                         *)
(* Each request is one READ COMMITTED transaction.  A statement sees what  *)
(* is committed when it starts; a row it changes stays locked until the    *)
(* transaction ends; an UPDATE or DELETE that waited for a row looks again *)
(* whether the row still matches.  Writing an owner key-share locks that   *)
(* user's row, which deleting the user excludes.                           *)
(***************************************************************************)
EXTENDS FiniteSets

CONSTANTS
  User,      \* user ids
  Todo,      \* todo ids
  Request,   \* HTTP requests with a valid token
  Kind,      \* the routes under study, among AllKinds
  None       \* no user, no todo, no request

\* "update" stands for PUT and PATCH, "hardDelete" for DELETE /users?hard=true.
AllKinds == {"create", "update", "delete", "hardDelete"}

ASSUME ConstantsOK ==
  /\ Kind \subseteq AllKinds
  /\ None \notin User \cup Todo \cup Request
  /\ {"unused", "gone"} \cap (User \cup {None}) = {}

VARIABLES
  users,   \* committed: each user's role, or "gone"
  todos,   \* committed: each todo's owner, or "unused", or "gone"
  lock,    \* who holds each todo's row lock
  excl,    \* who is deleting each user's row
  share,   \* who holds a key-share lock on each user's row
  pc,      \* where each request stands
  op       \* what each request asks for and carries along

vars == <<users, todos, lock, excl, share, pc, op>>
-----------------------------------------------------------------------------
Role == {"user", "admin"}
Step == {"idle", "auth", "read", "write", "insert", "owner", "scan", "purge",
         "user", "references", "commit", "done"}

(***************************************************************************)
(* "wanted" is the body's owner_id and "subject" the user to hard-delete.  *)
(* "role" is read at authentication, "owner" the owner_id to write,        *)
(* "scan" the rows a purge has yet to visit, "purged" those it deleted.    *)
(***************************************************************************)
Ops == [kind: AllKinds \cup {"none"}, actor: User \cup {None},
        role: Role \cup {"none"}, todo: Todo \cup {None},
        wanted: User \cup {None}, subject: User \cup {None},
        owner: User \cup {None}, scan: SUBSET Todo, purged: SUBSET Todo]
NoOp == [kind |-> "none", actor |-> None, role |-> "none", todo |-> None,
         wanted |-> None, subject |-> None, owner |-> None,
         scan |-> {}, purged |-> {}]

TypeOK ==
  /\ users \in [User -> Role \cup {"gone"}]
  /\ todos \in [Todo -> User \cup {"unused", "gone"}]
  /\ lock \in [Todo -> Request \cup {None}]
  /\ excl \in [User -> Request \cup {None}]
  /\ share \in [User -> SUBSET Request]
  /\ pc \in [Request -> Step]
  /\ op \in [Request -> Ops]

Init ==
  /\ users \in [User -> Role]
  /\ todos \in [Todo -> User \cup {"unused"}]
  /\ lock = [t \in Todo |-> None]
  /\ excl = [u \in User |-> None]
  /\ share = [u \in User |-> {}]
  /\ pc = [r \in Request |-> "idle"]
  /\ op = [r \in Request |-> NoOp]
-----------------------------------------------------------------------------
InFlight(r) == pc[r] \notin {"idle", "done"}
GoTo(r, step) == pc' = [pc EXCEPT ![r] = step]

\* The transaction is over: its locks are free and nothing of it is kept.
Over(r) ==
  /\ GoTo(r, "done")
  /\ op' = [op EXCEPT ![r] = NoOp]
  /\ lock' = [t \in Todo |-> IF lock[t] = r THEN None ELSE lock[t]]
  /\ excl' = [u \in User |-> IF excl[u] = r THEN None ELSE excl[u]]
  /\ share' = [u \in User |-> share[u] \ {r}]

\* Mutant of Rollback: the session goes back with its transaction open.
RollbackForgotten(r) ==
  /\ GoTo(r, "done")
  /\ UNCHANGED <<users, todos, lock, excl, share, op>>

Rollback(r) == Over(r) /\ UNCHANGED <<users, todos>>

\* What an admin may do to a user's role meanwhile; the row is not deleted.
SetRole(u) ==
  /\ users[u] # "gone" /\ excl[u] = None
  /\ \E role \in Role : users' = [users EXCEPT ![u] = role]
  /\ UNCHANGED <<todos, lock, excl, share, pc, op>>

Send(r) ==
  /\ pc[r] = "idle"
  /\ \E k \in Kind, a \in User :
       op' = [op EXCEPT ![r] = [@ EXCEPT !.kind = k, !.actor = a]]
  /\ GoTo(r, "auth")
  /\ UNCHANGED <<users, todos, lock, excl, share>>

FirstStep(kind) ==
  CASE kind = "create" -> "insert"
    [] kind = "hardDelete" -> "scan"
    [] OTHER -> "read"

\* get_current_user, and require_admin for the deletion of a user.
Entitled(r) ==
  /\ users[op[r].actor] \in Role
  /\ op[r].kind = "hardDelete" => users[op[r].actor] = "admin"

Authenticate(r) ==
  /\ pc[r] = "auth"
  /\ \/ /\ Entitled(r)
        /\ op' = [op EXCEPT ![r] = [@ EXCEPT !.role = users[op[r].actor]]]
        /\ GoTo(r, FirstStep(op[r].kind))
        /\ UNCHANGED <<users, todos, lock, excl, share>>
     \/ /\ ~Entitled(r)
        /\ Rollback(r)
-----------------------------------------------------------------------------
\* Mutant of InScope: the statement carries no owner predicate.
InScopeOfAnyone(r, owner) == owner \in User

\* The WHERE clause with list_owner_filter: an admin's has no owner.
InScope(r, owner) ==
  /\ owner \in User
  /\ op[r].role = "admin" \/ owner = op[r].actor

OwnerChangeForbidden(r, existing, wanted) ==
  op[r].role # "admin" /\ wanted # None /\ wanted # existing

ResolveUpdateOwner(existing, wanted) ==
  IF wanted # None THEN wanted ELSE existing

\* get_todo_for_actor, and what update_todo_for_actor does with the result.
Read(r) ==
  /\ pc[r] = "read"
  /\ \E t \in Todo, wanted \in User \cup {None} :
       \/ /\ InScope(r, todos[t])
          /\ ~OwnerChangeForbidden(r, todos[t], wanted)
          /\ op' = [op EXCEPT ![r] = [@ EXCEPT
                      !.todo = t, !.wanted = wanted,
                      !.owner = ResolveUpdateOwner(todos[t], wanted)]]
          /\ GoTo(r, "write")
          /\ UNCHANGED <<users, todos, lock, excl, share>>
       \/ /\ ~InScope(r, todos[t]) \/ OwnerChangeForbidden(r, todos[t], wanted)
          /\ Rollback(r)

\* Mutant of Write: the row is merged in, whether or not it still exists.
WriteUpserts(r) ==
  /\ pc[r] = "write"
  /\ lock[op[r].todo] = None
  /\ lock' = [lock EXCEPT ![op[r].todo] = r]
  /\ GoTo(r, "owner")
  /\ UNCHANGED <<users, todos, excl, share, op>>

\* UPDATE or DELETE ... WHERE id and, for a user, owner_id.  A new owner is
\* checked against the foreign key.
Write(r) ==
  /\ pc[r] = "write"
  /\ LET t == op[r].todo IN
     \/ /\ InScope(r, todos[t])
        /\ lock[t] = None
        /\ lock' = [lock EXCEPT ![t] = r]
        /\ GoTo(r, IF op[r].kind = "update" /\ op[r].owner # todos[t]
                   THEN "owner" ELSE "commit")
        /\ UNCHANGED <<users, todos, excl, share, op>>
     \/ /\ ~InScope(r, todos[t])
        /\ Rollback(r)

ResolveCreateOwner(r, wanted) ==
  IF op[r].role = "admin" /\ wanted # None THEN wanted ELSE op[r].actor

NewIds == {t \in Todo : todos[t] = "unused" /\ lock[t] = None}

\* INSERT with a new id; other transactions do not see the row yet.  Todo is
\* the bound on ids: a request that finds them used up is given up.
Insert(r) ==
  /\ pc[r] = "insert"
  /\ \/ /\ \E t \in NewIds, wanted \in User \cup {None} :
             /\ lock' = [lock EXCEPT ![t] = r]
             /\ op' = [op EXCEPT ![r] = [@ EXCEPT
                         !.todo = t, !.wanted = wanted,
                         !.owner = ResolveCreateOwner(r, wanted)]]
        /\ GoTo(r, "owner")
        /\ UNCHANGED <<users, todos, excl, share>>
     \/ /\ NewIds = {}
        /\ Rollback(r)

\* Mutant of CheckOwner: the column has no foreign key.
CheckNoOwner(r) ==
  /\ pc[r] = "owner"
  /\ GoTo(r, "commit")
  /\ UNCHANGED <<users, todos, lock, excl, share, op>>

\* The foreign key: waits for a deletion of the owner, fails without one.
CheckOwner(r) ==
  /\ pc[r] = "owner"
  /\ LET u == op[r].owner IN
     /\ excl[u] = None
     /\ \/ /\ users[u] # "gone"
           /\ share' = [share EXCEPT ![u] = @ \cup {r}]
           /\ GoTo(r, "commit")
           /\ UNCHANGED <<users, todos, lock, excl, op>>
        \/ /\ users[u] = "gone"
           /\ Rollback(r)
-----------------------------------------------------------------------------
\* hard_delete_user finds the user and starts DELETE FROM todos WHERE owner_id.
Scan(r) ==
  /\ pc[r] = "scan"
  /\ \E u \in User :
       \/ /\ users[u] # "gone"
          /\ op' = [op EXCEPT ![r] = [@ EXCEPT
                      !.subject = u, !.scan = {t \in Todo : todos[t] = u}]]
          /\ GoTo(r, "purge")
          /\ UNCHANGED <<users, todos, lock, excl, share>>
       \/ /\ users[u] = "gone"
          /\ Rollback(r)

\* Mutant of Purge: a row it had to wait for is deleted without a second look.
PurgeUnseen(r) ==
  /\ pc[r] = "purge"
  /\ \/ \E t \in op[r].scan :
          /\ lock[t] = None
          /\ op' = [op EXCEPT ![r].scan = @ \ {t}, ![r].purged = @ \cup {t}]
          /\ lock' = [lock EXCEPT ![t] = r]
          /\ UNCHANGED pc
     \/ /\ op[r].scan = {}
        /\ GoTo(r, "user")
        /\ UNCHANGED <<op, lock>>
  /\ UNCHANGED <<users, todos, excl, share>>

\* The rows it found, one by one, each looked at again once its lock is free.
Purge(r) ==
  /\ pc[r] = "purge"
  /\ \/ \E t \in op[r].scan :
          /\ lock[t] = None
          /\ op' = [op EXCEPT
                      ![r].scan = @ \ {t},
                      ![r].purged = IF todos[t] = op[r].subject
                                    THEN @ \cup {t} ELSE @]
          /\ lock' = IF todos[t] = op[r].subject
                     THEN [lock EXCEPT ![t] = r] ELSE lock
          /\ UNCHANGED pc
     \/ /\ op[r].scan = {}
        /\ GoTo(r, "user")
        /\ UNCHANGED <<op, lock>>
  /\ UNCHANGED <<users, todos, excl, share>>

\* DELETE FROM users: waits for key-share locks, 404 without a row.
DeleteUser(r) ==
  /\ pc[r] = "user"
  /\ LET u == op[r].subject IN
     /\ excl[u] = None /\ share[u] = {}
     /\ \/ /\ users[u] # "gone"
           /\ excl' = [excl EXCEPT ![u] = r]
           /\ GoTo(r, "references")
           /\ UNCHANGED <<users, todos, lock, share, op>>
        \/ /\ users[u] = "gone"
           /\ Rollback(r)

Left(r) == {t \in Todo \ op[r].purged : todos[t] = op[r].subject}
Deletes(q) == op[q].kind \in {"delete", "hardDelete"}

\* The foreign key from the other side: a todo committed to the user since
\* the purge makes the deletion fail.
CheckReferences(r) ==
  /\ pc[r] = "references"
  /\ \A t \in Left(r) : lock[t] # None => ~Deletes(lock[t])
  /\ \/ /\ Left(r) = {}
        /\ GoTo(r, "commit")
        /\ UNCHANGED <<users, todos, lock, excl, share, op>>
     \/ /\ Left(r) # {}
        /\ Rollback(r)

\* What the transaction leaves of a todo.
Written(r, t) ==
  CASE t \in op[r].purged -> "gone"
    [] t = op[r].todo -> IF op[r].kind = "delete" THEN "gone" ELSE op[r].owner
    [] OTHER -> todos[t]

Commit(r) ==
  /\ pc[r] = "commit"
  /\ todos' = [t \in Todo |-> Written(r, t)]
  /\ users' = [u \in User |-> IF u = op[r].subject THEN "gone" ELSE users[u]]
  /\ Over(r)

\* An exception, a lost connection or a dead worker: nothing was written.
Fails(r) == InFlight(r) /\ Rollback(r)

\* The transactions that the next statement of r waits for.
Blockers(r) ==
  (CASE pc[r] = "write" -> {lock[op[r].todo]}
     [] pc[r] = "owner" -> {excl[op[r].owner]}
     [] pc[r] = "purge" /\ \A t \in op[r].scan : lock[t] # None ->
          {lock[t] : t \in op[r].scan}
     [] pc[r] = "user" -> {excl[op[r].subject]} \cup share[op[r].subject]
     [] pc[r] = "references" ->
          {q \in {lock[t] : t \in Left(r)} \ {None} : Deletes(q)}
     [] OTHER -> {}) \ {None}

\* Postgres aborts one of the transactions that wait for each other.
DeadlockVictim(r) ==
  /\ \E S \in SUBSET Request :
       r \in S /\ \A q \in S : Blockers(q) \cap S # {}
  /\ Rollback(r)

Serve(r) ==
  \/ Authenticate(r) \/ Read(r) \/ Write(r) \/ Insert(r) \/ CheckOwner(r)
  \/ Scan(r) \/ Purge(r) \/ DeleteUser(r) \/ CheckReferences(r) \/ Commit(r)
  \/ DeadlockVictim(r)

Next ==
  \/ \E r \in Request : Send(r) \/ Serve(r) \/ Fails(r)
  \/ \E u \in User : SetRole(u)

Spec == Init /\ [][Next]_vars

\* The event loop resumes every request it has accepted, and Postgres grants
\* a lock that stays free and breaks deadlocks.  Clients owe nothing.
FairSpec == Spec /\ \A r \in Request : WF_vars(Serve(r))
-----------------------------------------------------------------------------

(* What holds however requests interleave. *)

\* Every todo has an owner who exists: a create or reassignment that races
\* the hard deletion of its owner makes one of the two fail (delete purges,
\* the foreign key sees to the rest).
OwnersExist == \A t \in Todo : todos[t] \in User => users[todos[t]] # "gone"

\* A user's request changes only todos the user owns at the moment of the
\* commit, not merely when it read them, and gives them to nobody else
\* (list_owner_filter on reads and writes, is_update_owner_change_forbidden).
UsersStayInScope ==
  [][\A t \in Todo, r \in Request :
       todos'[t] # todos[t] /\ pc[r] = "commit" /\ pc'[r] = "done"
       /\ op[r].role = "user"
         => /\ todos[t] \in {op[r].actor, "unused"}
            /\ todos'[t] \in {op[r].actor, "gone"}]_vars

\* A deleted todo stays deleted: an update that read it before finds no row.
DeletedTodosStayDeleted ==
  [][\A t \in Todo : todos[t] = "gone" => todos'[t] = "gone"]_vars

\* However statements, locks and failures interleave, users and todos change
\* as if each request took effect at once when it commits, or not at all: a
\* hard deletion takes exactly the todos its user owns by then, one that was
\* reassigned while the deletion waited for its row stays.
O == INSTANCE Ownership
ImplementsOwnership == O!Spec

\* Every request is answered: locks are given back on failure too, and
\* requests that wait for each other, such as two hard deletions of one user
\* that meet its todos in different orders, are told apart by Postgres.
RequestsEnd == \A r \in Request : InFlight(r) ~> pc[r] = "done"
=============================================================================
