---------------------------- MODULE UserAccounts ----------------------------
(***************************************************************************)
(* User accounts: login and access tokens, authentication of a request,    *)
(* signup, self-service and administrative updates, deactivation and hard  *)
(* deletion, over the users table in Postgres and the identity cache in    *)
(* Valkey.                                                                 *)
(*                                                                         *)
(* A request holds one READ COMMITTED transaction: each SELECT sees what   *)
(* is committed at that moment, an UPDATE or DELETE waits for the row's    *)
(* lock and keeps it until commit or rollback.  Every step below is what   *)
(* happens between two awaits, so requests interleave freely.              *)
(***************************************************************************)
EXTENDS Integers, FiniteSets

CONSTANTS
  User,       \* user ids
  Admin,      \* the admins present at the start
  Request,    \* authenticated HTTP requests
  Kind,       \* the routes under study, among AllKinds
  None,       \* no user, no request
  Serial,     \* a client sends no request while another one is in flight
  MaxTokens   \* bound: how many access tokens are outstanding at once

AdminKinds == {"replace", "patch", "deactivate", "hardDelete"}
DeleteKinds == {"deactivate", "hardDelete"}
AllKinds == AdminKinds \cup {"read", "self"}

ASSUME ConstantsOK ==
  /\ Admin \subseteq User
  /\ Kind \subseteq AllKinds
  /\ None \notin User \cup Request
  /\ "initial" \notin Request
  /\ Serial \in BOOLEAN
  /\ MaxTokens \in Nat

VARIABLES
  users,    \* the committed rows
  lock,     \* who holds each row's lock
  cache,    \* role cached for each user id
  tokens,   \* access tokens that decode: signed and not expired
  pc,       \* where each request stands
  op        \* what each request asks for and carries along

vars == <<users, lock, cache, tokens, pc, op>>
-----------------------------------------------------------------------------
Role == {"user", "admin"}

\* A password hash is named by the request that computed it: the salt makes
\* every hash new, also for an unchanged password.
Hash == Request \cup {"initial"}

(***************************************************************************)
(* A row.  Role "none" says that the id was never used, "gone" that its    *)
(* row was deleted; Postgres has no row in both cases.                     *)
(***************************************************************************)
Rows == [role: Role \cup {"none", "gone"}, active: BOOLEAN, pw: Hash, tv: Nat]
FreshRow(role) == [role |-> role, active |-> TRUE, pw |-> "initial", tv |-> 0]
NoRow(role) == [role |-> role, active |-> FALSE, pw |-> "initial", tv |-> 0]
Exists(row) == row.role \in Role
ActiveAdmin(u) == users[u].role = "admin" /\ users[u].active

\* An access token; "pw" is history, the hash its login was verified against.
Tokens == [sub: User \cup {None}, tv: Nat, pw: Hash]
NoToken == [sub |-> None, tv |-> 0, pw |-> "initial"]

Step == {"idle", "auth", "cache", "guard", "count", "load", "write",
         "invalidate", "commit", "done"}

\* "role" is the actor's as read by get_current_user, "new" the row to write.
Ops == [kind: AllKinds \cup {"none"}, token: Tokens,
        target: User \cup {None}, role: Role \cup {"none"}, new: Rows]
NoOp == [kind |-> "none", token |-> NoToken, target |-> None,
         role |-> "none", new |-> NoRow("none")]

TypeOK ==
  /\ users \in [User -> Rows]
  /\ lock \in [User -> Request \cup {None}]
  /\ cache \in [User -> Role \cup {"none"}]
  /\ tokens \subseteq Tokens
  /\ pc \in [Request -> Step]
  /\ op \in [Request -> Ops]

Init ==
  /\ users = [u \in User |->
                IF u \in Admin THEN FreshRow("admin") ELSE NoRow("none")]
  /\ lock = [u \in User |-> None]
  /\ cache = [u \in User |-> "none"]
  /\ tokens = {}
  /\ pc = [r \in Request |-> "idle"]
  /\ op = [r \in Request |-> NoOp]
-----------------------------------------------------------------------------
InFlight(r) == pc[r] \notin {"idle", "done"}
GoTo(r, step) == pc' = [pc EXCEPT ![r] = step]

\* The request is answered and nothing of it is kept.
Over(r) ==
  /\ GoTo(r, "done")
  /\ op' = [op EXCEPT ![r] = NoOp]

Target(r) == op[r].target

\* POST /users always creates an active user with role "user".
Signup(u) ==
  /\ users[u].role = "none"
  /\ users' = [users EXCEPT ![u] = FreshRow("user")]
  /\ UNCHANGED <<lock, cache, tokens, pc, op>>

\* POST /auth/login with the account's present password: one SELECT.
Login(u) ==
  /\ Exists(users[u]) /\ users[u].active
  /\ Cardinality(tokens) < MaxTokens
  /\ tokens' = tokens \cup
       {[sub |-> u, tv |-> users[u].tv, pw |-> users[u].pw]}
  /\ UNCHANGED <<users, lock, cache, pc, op>>

\* The token's exp or the cached entry's ttl passes.
ExpireToken(t) ==
  /\ tokens' = tokens \ {t}
  /\ UNCHANGED <<users, lock, cache, pc, op>>

ExpireCache(u) ==
  /\ cache' = [cache EXCEPT ![u] = "none"]
  /\ UNCHANGED <<users, lock, tokens, pc, op>>

\* /users/me acts on the token's subject, /users/{user_id} on any id.
Send(r) ==
  /\ pc[r] = "idle"
  /\ Serial => \A q \in Request : ~InFlight(q)
  /\ \E t \in tokens, k \in Kind, u \in User :
       /\ k \notin AdminKinds => u = t.sub
       /\ op' = [op EXCEPT ![r] = [@ EXCEPT !.kind = k, !.token = t,
                                            !.target = u]]
  /\ GoTo(r, "auth")
  /\ UNCHANGED <<users, lock, cache, tokens>>
-----------------------------------------------------------------------------
\* Mutant of Rollback: the session goes back with its transaction open.
RollbackForgotten(r) ==
  /\ Over(r)
  /\ UNCHANGED <<users, lock>>

\* get_db on an exception, and Postgres when the connection is gone.
Rollback(r) ==
  /\ Over(r)
  /\ lock' = [u \in User |-> IF lock[u] = r THEN None ELSE lock[u]]
  /\ UNCHANGED users

\* What the token still entitles to (get_current_user).
Accepted(t) ==
  /\ Exists(users[t.sub])
  /\ users[t.sub].active
  /\ users[t.sub].tv = t.tv

Authenticate(r) ==
  /\ pc[r] = "auth"
  /\ LET t == op[r].token IN
     \/ /\ Accepted(t)
        /\ op' = [op EXCEPT ![r] = [@ EXCEPT !.role = users[t.sub].role]]
        /\ GoTo(r, "cache")
        /\ UNCHANGED <<users, lock>>
     \/ /\ ~Accepted(t)
        /\ Rollback(r)
  /\ UNCHANGED <<cache, tokens>>

\* The routes that go on to write; the /users/{user_id} ones require_admin.
MayWrite(r) ==
  \/ op[r].kind = "self"
  \/ op[r].kind \in AdminKinds /\ op[r].role = "admin"

\* set_active_user, then the route's first steps.
CacheActor(r) ==
  /\ pc[r] = "cache"
  /\ cache' = [cache EXCEPT ![op[r].token.sub] = op[r].role]
  /\ \/ /\ MayWrite(r)
        /\ GoTo(r, IF op[r].kind \in DeleteKinds THEN "guard" ELSE "load")
        /\ UNCHANGED op
     \/ /\ ~MayWrite(r)
        /\ Over(r)
  /\ UNCHANGED <<users, lock, tokens>>

\* guard_last_admin, its first SELECT.
GuardLastAdmin(r) ==
  /\ pc[r] = "guard"
  /\ GoTo(r, IF ActiveAdmin(Target(r)) THEN "count" ELSE "load")
  /\ UNCHANGED <<users, lock, cache, tokens, op>>

\* Mutant of TooFew: off by one.
TooFewOrNone(n) == n < 1

TooFew(n) == n <= 1

\* guard_last_admin, count_active_admins: 409 for the last one.
CountActiveAdmins(r) ==
  /\ pc[r] = "count"
  /\ IF TooFew(Cardinality({u \in User : ActiveAdmin(u)}))
     THEN Rollback(r)
     ELSE GoTo(r, "load") /\ UNCHANGED <<users, lock, op>>
  /\ UNCHANGED <<cache, tokens>>
-----------------------------------------------------------------------------
\* Mutant of SelfMerge: the body's role is taken too.
SelfMergeTakesRole(r, existing) ==
  {[existing EXCEPT !.role = role] : role \in Role}

\* PUT and PATCH /users/me: profile fields, and a new password for a client
\* that knows the current one (LoadRefused if it does not).
SelfMerge(r, existing) == {existing, [existing EXCEPT !.pw = r]}

\* PUT /users/{user_id}: role and is_active always, the password maybe.
ReplaceMerge(r, existing) ==
  [role: Role, active: BOOLEAN, pw: {existing.pw, r}, tv: {existing.tv}]

\* PATCH /users/{user_id}: what the body leaves out stays; a password is
\* always refused, since the body has no current_password.
PatchMerge(existing) ==
  [role: Role, active: BOOLEAN, pw: {existing.pw}, tv: {existing.tv}]

\* Mutant of Bumped: every update counts as a password change.
BumpedAlways(existing, merged) == [merged EXCEPT !.tv = existing.tv + 1]

\* Mutant of Bumped: the version is left alone.
BumpedNever(existing, merged) == merged

\* update_user: a new hash takes the next token_version.
Bumped(existing, merged) ==
  IF merged.pw # existing.pw
  THEN [merged EXCEPT !.tv = existing.tv + 1] ELSE merged

\* The full rows that request r may write, given the row it has read.
NewRows(r, existing) ==
  CASE op[r].kind = "self" ->
         {Bumped(existing, m) : m \in SelfMerge(r, existing)}
    [] op[r].kind = "replace" ->
         {Bumped(existing, m) : m \in ReplaceMerge(r, existing)}
    [] op[r].kind = "patch" ->
         {Bumped(existing, m) : m \in PatchMerge(existing)}
    [] op[r].kind = "deactivate" -> {[existing EXCEPT !.active = FALSE]}
    [] op[r].kind = "hardDelete" -> {NoRow("gone")}
    [] OTHER -> {}

\* get_user_by_id or get_by_id, then the merge, without an await.
Load(r) ==
  /\ pc[r] = "load"
  /\ Exists(users[Target(r)])
  /\ \E row \in NewRows(r, users[Target(r)]) :
       op' = [op EXCEPT ![r] = [@ EXCEPT !.new = row]]
  /\ GoTo(r, "write")
  /\ UNCHANGED <<users, lock, cache, tokens>>

\* 404, or 403 for a password without the right current password.
LoadRefused(r) ==
  /\ pc[r] = "load"
  /\ ~Exists(users[Target(r)]) \/ op[r].kind \in {"self", "patch"}
  /\ Rollback(r)
  /\ UNCHANGED <<cache, tokens>>

\* Mutant of Write: the row is merged in, whether or not it still exists.
WriteUpserts(r) ==
  /\ pc[r] = "write"
  /\ lock[Target(r)] = None
  /\ lock' = [lock EXCEPT ![Target(r)] = r]
  /\ GoTo(r, "invalidate")
  /\ UNCHANGED <<users, cache, tokens, op>>

\* UPDATE of every column, or DELETE: waits for the row's lock, then acts on
\* the row as it is now; without one, 404.
Write(r) ==
  /\ pc[r] = "write"
  /\ lock[Target(r)] = None
  /\ \/ /\ Exists(users[Target(r)])
        /\ lock' = [lock EXCEPT ![Target(r)] = r]
        /\ GoTo(r, "invalidate")
        /\ UNCHANGED <<users, op>>
     \/ /\ ~Exists(users[Target(r)])
        /\ Rollback(r)
  /\ UNCHANGED <<cache, tokens>>

\* Mutant of InvalidateUser: the actor's entry goes instead of the target's.
InvalidateActor(r) ==
  /\ pc[r] = "invalidate"
  /\ cache' = [cache EXCEPT ![op[r].token.sub] = "none"]
  /\ GoTo(r, "commit")
  /\ UNCHANGED <<users, lock, tokens, op>>

InvalidateUser(r) ==
  /\ pc[r] = "invalidate"
  /\ cache' = [cache EXCEPT ![Target(r)] = "none"]
  /\ GoTo(r, "commit")
  /\ UNCHANGED <<users, lock, tokens, op>>

Commit(r) ==
  /\ pc[r] = "commit"
  /\ users' = [users EXCEPT ![Target(r)] = op[r].new]
  /\ lock' = [lock EXCEPT ![Target(r)] = None]
  /\ Over(r)
  /\ UNCHANGED <<cache, tokens>>

\* Valkey or Postgres raises, a constraint is violated, or the worker dies:
\* nothing was written.
Fails(r) ==
  /\ InFlight(r)
  /\ Rollback(r)
  /\ UNCHANGED <<cache, tokens>>

Serve(r) ==
  \/ Authenticate(r) \/ CacheActor(r) \/ GuardLastAdmin(r)
  \/ CountActiveAdmins(r) \/ Load(r) \/ LoadRefused(r) \/ Write(r)
  \/ InvalidateUser(r) \/ Commit(r)

Next ==
  \/ \E u \in User : Signup(u) \/ Login(u) \/ ExpireCache(u)
  \/ \E t \in tokens : ExpireToken(t)
  \/ \E r \in Request : Send(r) \/ Serve(r) \/ Fails(r)

Spec == Init /\ [][Next]_vars

\* The event loop resumes every request it has accepted, and Postgres grants
\* a free row lock.  Clients owe nothing.
FairSpec == Spec /\ \A r \in Request : WF_vars(Serve(r))
-----------------------------------------------------------------------------

(* What holds however requests interleave. *)

\* A deleted account never comes back: an update that read it before the
\* deletion finds no row and answers 404 (persist_user_update).
NoResurrection ==
  [][\A u \in User : users[u].role = "gone" => users'[u].role = "gone"]_vars

\* Whoever logged in with the password the account still has is not locked
\* out by profile, role or activity changes, lost updates included: hash and
\* token_version are always written as the pair they were read or made as.
PasswordKeepsTokens ==
  \A t \in tokens :
    users[t.sub].pw = t.pw /\ Exists(users[t.sub]) => users[t.sub].tv = t.tv

\* A row lock belongs to a request that will give it back.
LocksAreHeld ==
  \A u \in User : lock[u] # None =>
    pc[lock[u]] \in {"invalidate", "commit"} /\ Target(lock[u]) = u

\* Every request is answered: failures release the row locks others wait for.
RequestsEnd == \A r \in Request : InFlight(r) ~> pc[r] = "done"

(* What needs requests that follow one another. *)

\* Some account can administer the others (guard_last_admin, L5).
AdminRemains == \E u \in User : ActiveAdmin(u)

\* Deleting or deactivating an account never takes the last active admin
\* away, whatever else happened before (guard_last_admin).
DeletionLeavesAdmin ==
  [][AdminRemains
     /\ (\E r \in Request : op[r].kind \in DeleteKinds
                            /\ pc[r] = "commit" /\ pc'[r] = "done")
       => AdminRemains']_vars

\* A token that is still accepted was obtained with the present password
\* (update_user, H1).
OldTokensRejected ==
  \A t \in tokens : Accepted(t) => t.pw = users[t.sub].pw

\* An existing account's role and activity change only by an administrator's
\* request, never by the account's own profile update.
OnlyAdminsGrant ==
  [][\A u \in User :
       Exists(users[u])
       /\ <<users'[u].role, users'[u].active>> # <<users[u].role, users[u].active>>
         => \E r \in Request : pc[r] = "commit" /\ pc'[r] = "done"
              /\ Target(r) = u /\ op[r].kind \in AdminKinds]_vars

\* Between requests the cache holds nothing the users table would deny
\* (get_current_user fills it, update_user and the deletions invalidate it).
CacheFresh ==
  (\A r \in Request : ~InFlight(r)) =>
    \A u \in User : cache[u] # "none" =>
      users[u].active /\ users[u].role = cache[u]
=============================================================================
