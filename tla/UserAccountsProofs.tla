------------------------- MODULE UserAccountsProofs -------------------------
(***************************************************************************)
(* Proofs about module UserAccounts, for any users, admins, requests and   *)
(* number of tokens.  TypeCorrect, HeldLocks, DeletedStaysDeleted and      *)
(* PasswordKeepsItsTokens hold however requests interleave.                *)
(* The other theorems assume requests that follow one another; runs show   *)
(* that what they state fails when requests overlap.                       *)
(***************************************************************************)
EXTENDS UserAccounts, FiniteSetTheorems, TLAPS

(* Tokens and requests in flight name real users and enabled routes. *)
Aimed ==
  /\ \A t \in tokens : t.sub \in User
  /\ \A r \in Request : InFlight(r) =>
       op[r].token.sub \in User /\ op[r].target \in User /\ op[r].kind \in Kind

TypeInv == TypeOK /\ Aimed

LEMMA RowTypes ==
  /\ \A role \in Role : FreshRow(role) \in Rows
  /\ \A role \in {"none", "gone"} : NoRow(role) \in Rows
BY DEF FreshRow, NoRow, Rows, Hash, Role

LEMMA NoOpType == NoOp \in Ops
BY RowTypes DEF NoOp, NoToken, Ops, Tokens, Hash

LEMMA RowFields ==
  ASSUME NEW row \in Rows
  PROVE  /\ row.role \in Role \cup {"none", "gone"}
         /\ row.active \in BOOLEAN
         /\ row.pw \in Hash
         /\ row.tv \in Nat
BY DEF Rows

LEMMA OpFields ==
  ASSUME NEW o \in Ops
  PROVE  /\ o.kind \in AllKinds \cup {"none"}
         /\ o.token \in Tokens
         /\ o.target \in User \cup {None}
         /\ o.role \in Role \cup {"none"}
         /\ o.new \in Rows
BY DEF Ops

LEMMA TokenFields ==
  ASSUME NEW t \in Tokens
  PROVE  t.sub \in User \cup {None} /\ t.tv \in Nat /\ t.pw \in Hash
BY DEF Tokens

\* What a request may write, given the row it has read: the row with another
\* role or activity, the same with a new hash and the next version, or none.
LEMMA WrittenRows ==
  ASSUME NEW r \in Request, NEW existing \in Rows, op \in [Request -> Ops],
         NEW row \in NewRows(r, existing)
  PROVE  /\ row \in Rows
         /\ \/ row = NoRow("gone") /\ op[r].kind = "hardDelete"
            \/ row.pw = existing.pw /\ row.tv = existing.tv
            \/ row.pw = r /\ row.tv = existing.tv + 1
         /\ existing.role # "none" => row.role # "none"
         /\ op[r].kind # "read"
         /\ op[r].kind = "self" =>
              row.role = existing.role /\ row.active = existing.active
         /\ op[r].kind = "deactivate" => row.role = existing.role
<1>1. r \in Hash
  BY DEF Hash
<1>2. /\ existing.role \in Role \cup {"none", "gone"}
      /\ existing.active \in BOOLEAN
      /\ existing.pw \in Hash
      /\ existing.tv \in Nat
  BY RowFields
<1>3. ASSUME NEW m \in Rows, m.tv = existing.tv, m.pw \in {existing.pw, r}
      PROVE  /\ Bumped(existing, m) \in Rows
             /\ \/ /\ Bumped(existing, m).pw = existing.pw
                   /\ Bumped(existing, m).tv = existing.tv
                \/ /\ Bumped(existing, m).pw = r
                   /\ Bumped(existing, m).tv = existing.tv + 1
             /\ Bumped(existing, m).role = m.role
             /\ Bumped(existing, m).active = m.active
  BY <1>2, <1>3 DEF Bumped, Rows
<1>4. CASE op[r].kind = "self"
  <2>1. PICK m \in SelfMerge(r, existing) : row = Bumped(existing, m)
    BY <1>4 DEF NewRows
  <2>2. m \in {existing, [existing EXCEPT !.pw = r]}
    BY <2>1 DEF SelfMerge
  <2>3. /\ m \in Rows /\ m.tv = existing.tv /\ m.pw \in {existing.pw, r}
        /\ m.role = existing.role /\ m.active = existing.active
    BY <2>2, <1>1, <1>2 DEF Rows
  <2> QED BY <1>3, <1>4, <2>1, <2>3
<1>5. CASE op[r].kind = "replace"
  <2>1. PICK m \in ReplaceMerge(r, existing) : row = Bumped(existing, m)
    BY <1>5 DEF NewRows
  <2>2. /\ m \in Rows /\ m.tv = existing.tv /\ m.pw \in {existing.pw, r}
        /\ m.role # "none"
    BY <2>1, <1>1, <1>2 DEF ReplaceMerge, Rows, Role
  <2> QED BY <1>3, <1>5, <2>1, <2>2
<1>6. CASE op[r].kind = "patch"
  <2>1. PICK m \in PatchMerge(existing) : row = Bumped(existing, m)
    BY <1>6 DEF NewRows
  <2>2. /\ m \in Rows /\ m.tv = existing.tv /\ m.pw \in {existing.pw, r}
        /\ m.role # "none"
    BY <2>1, <1>2 DEF PatchMerge, Rows, Role
  <2> QED BY <1>3, <1>6, <2>1, <2>2
<1>7. CASE op[r].kind = "deactivate"
  <2>1. row = [existing EXCEPT !.active = FALSE]
    BY <1>7 DEF NewRows
  <2> QED BY <1>2, <1>7, <2>1 DEF Rows
<1>8. CASE op[r].kind = "hardDelete"
  <2>1. row = NoRow("gone")
    BY <1>8 DEF NewRows
  <2> QED BY <1>8, <2>1, RowTypes DEF NoRow
<1>9. op[r].kind \in {"self", "replace", "patch", "deactivate", "hardDelete"}
  BY DEF NewRows
<1> QED BY <1>4, <1>5, <1>6, <1>7, <1>8, <1>9
-----------------------------------------------------------------------------
(* The shapes a step of a request can have. *)
Early == {"auth", "cache", "guard", "count", "load"}
Released(r) == [u \in User |-> IF lock[u] = r THEN None ELSE lock[u]]

\* It ends and writes nothing.
Ends(r) ==
  /\ InFlight(r)
  /\ Over(r)
  /\ \/ lock' = Released(r)
     \/ lock' = lock /\ pc[r] = "cache"
  /\ UNCHANGED <<users, tokens>>

\* It goes on towards its read of the target.
Advances(r) ==
  /\ pc[r] \in Early
  /\ pc[r] = "auth" => Accepted(op[r].token)
  /\ \E s \in Early : GoTo(r, s)
  /\ \E role \in Role \cup {"none"} : op' = [op EXCEPT ![r].role = role]
  /\ UNCHANGED <<users, lock, tokens>>

\* It takes the lock of a row that exists.
Locks(r) ==
  /\ pc[r] = "write"
  /\ lock[Target(r)] = None
  /\ Exists(users[Target(r)])
  /\ lock' = [lock EXCEPT ![Target(r)] = r]
  /\ GoTo(r, "invalidate")
  /\ UNCHANGED <<users, tokens, op>>

LEMMA Shapes ==
  ASSUME TypeInv, NEW r \in Request, Serve(r) \/ Fails(r)
  PROVE  /\ cache' \in [User -> Role \cup {"none"}]
         /\ \/ Ends(r) \/ Advances(r) \/ Load(r) \/ Locks(r)
            \/ InvalidateUser(r) \/ Commit(r)
<1>1. op[r] \in Ops /\ op[r].role \in Role \cup {"none"}
  BY OpFields DEF TypeInv, TypeOK
<1>2. op = [op EXCEPT ![r].role = op[r].role]
  BY <1>1 DEF TypeInv, TypeOK, Ops
<1>3. InFlight(r) =>
        op[r].token.sub \in User /\ Target(r) \in User /\ op[r].kind \in Kind
  BY DEF TypeInv, Aimed, Target
<1>4. cache \in [User -> Role \cup {"none"}]
  BY DEF TypeInv, TypeOK
<1>5. CASE Authenticate(r)
  <2>1. InFlight(r) /\ cache' = cache
    BY <1>5 DEF Authenticate, InFlight
  <2>2. CASE Accepted(op[r].token)
    <3>1. users[op[r].token.sub].role \in Role
      BY <2>2 DEF Accepted, Exists
    <3>2. GoTo(r, "cache") /\ pc[r] = "auth" /\ UNCHANGED <<users, lock, tokens>>
      BY <1>5, <2>2 DEF Authenticate, Rollback
    <3>3. op' = [op EXCEPT ![r].role = users[op[r].token.sub].role]
      BY <1>5, <2>2 DEF Authenticate
    <3> QED BY <1>4, <2>1, <2>2, <3>1, <3>2, <3>3 DEF Advances, Early
  <2>3. CASE ~Accepted(op[r].token)
    BY <1>4, <1>5, <2>1, <2>3 DEF Authenticate, Rollback, Ends, Released
  <2> QED BY <2>2, <2>3
<1>6. CASE CacheActor(r)
  <2>1. InFlight(r) /\ pc[r] = "cache"
    BY <1>6 DEF CacheActor, InFlight
  <2>2. cache' \in [User -> Role \cup {"none"}]
    BY <1>1, <1>3, <1>4, <1>6, <2>1 DEF CacheActor
  <2>3. CASE MayWrite(r)
    <3>1. /\ GoTo(r, IF op[r].kind \in DeleteKinds THEN "guard" ELSE "load")
          /\ op' = op /\ UNCHANGED <<users, lock, tokens>>
      BY <1>6, <2>3 DEF CacheActor
    <3>2. \E s \in Early : GoTo(r, s)
      BY <3>1 DEF Early
    <3> QED BY <1>1, <1>2, <2>1, <2>2, <3>1, <3>2 DEF Advances, Early
  <2>4. CASE ~MayWrite(r)
    BY <1>6, <2>1, <2>2, <2>4 DEF CacheActor, Ends
  <2> QED BY <2>3, <2>4
<1>7. CASE GuardLastAdmin(r)
  <2>1. \E s \in Early : GoTo(r, s)
    BY <1>7 DEF GuardLastAdmin, Early
  <2>2. pc[r] = "guard" /\ op' = op /\ UNCHANGED <<users, lock, tokens, cache>>
    BY <1>7 DEF GuardLastAdmin
  <2> QED BY <1>1, <1>2, <1>4, <2>1, <2>2 DEF Advances, Early
<1>8. CASE CountActiveAdmins(r)
  <2>1. pc[r] = "count" /\ UNCHANGED <<tokens, cache>>
    BY <1>8 DEF CountActiveAdmins
  <2>2. CASE TooFew(Cardinality({u \in User : ActiveAdmin(u)}))
    BY <1>4, <1>8, <2>1, <2>2
       DEF CountActiveAdmins, Rollback, Ends, Released, InFlight
  <2>3. CASE ~TooFew(Cardinality({u \in User : ActiveAdmin(u)}))
    <3>1. GoTo(r, "load") /\ UNCHANGED <<users, lock, op>>
      BY <1>8, <2>3 DEF CountActiveAdmins
    <3> QED BY <1>1, <1>2, <1>4, <2>1, <3>1 DEF Advances, Early
  <2> QED BY <2>2, <2>3
<1>9. CASE Load(r)
  BY <1>4, <1>9 DEF Load
<1>10. CASE LoadRefused(r)
  BY <1>4, <1>10 DEF LoadRefused, Rollback, Ends, Released, InFlight
<1>11. CASE Write(r)
  BY <1>4, <1>11 DEF Write, Rollback, Ends, Released, InFlight, Locks
<1>12. CASE InvalidateUser(r)
  BY <1>3, <1>4, <1>12 DEF InvalidateUser, InFlight
<1>13. CASE Commit(r)
  BY <1>4, <1>13 DEF Commit
<1>14. CASE Fails(r)
  BY <1>4, <1>14 DEF Fails, Rollback, Ends, Released
<1> QED BY <1>5, <1>6, <1>7, <1>8, <1>9, <1>10, <1>11, <1>12, <1>13, <1>14
        DEF Serve
-----------------------------------------------------------------------------
LEMMA TypeInvariant == Spec => []TypeInv
<1>1. Init => TypeInv
  BY RowTypes, NoOpType, ConstantsOK
     DEF Init, TypeInv, TypeOK, Aimed, InFlight, Step, Role
<1>2. TypeInv /\ [Next]_vars => TypeInv'
  <2> SUFFICES ASSUME TypeInv, [Next]_vars PROVE TypeOK' /\ Aimed'
    BY DEF TypeInv
  <2> USE DEF TypeInv
  <2>1. ASSUME NEW r \in Request, Serve(r) \/ Fails(r)
        PROVE  TypeOK' /\ Aimed'
    <3>1. cache' \in [User -> Role \cup {"none"}]
      BY <2>1, Shapes
    <3>2. CASE Ends(r)
      <4>1. lock' \in [User -> Request \cup {None}]
        BY <3>2 DEF Ends, Released, TypeOK
      <4>2. TypeOK'
        BY <3>1, <3>2, <4>1, NoOpType DEF Ends, Over, GoTo, TypeOK, Step
      <4>3. Aimed'
        BY <3>2 DEF Ends, Over, GoTo, TypeOK, Aimed, InFlight
      <4> QED BY <4>2, <4>3
    <3>3. CASE Advances(r)
      <4>1. PICK role \in Role \cup {"none"} : op' = [op EXCEPT ![r].role = role]
        BY <3>3 DEF Advances
      <4>2. op' \in [Request -> Ops]
        BY <4>1 DEF TypeOK, Ops
      <4>3. pc' \in [Request -> Step]
        BY <3>3 DEF Advances, Early, GoTo, TypeOK, Step
      <4>4. TypeOK'
        BY <3>1, <3>3, <4>2, <4>3 DEF Advances, TypeOK
      <4>5. \A q \in Request : /\ op'[q].token = op[q].token
                               /\ op'[q].target = op[q].target
                               /\ op'[q].kind = op[q].kind
        BY <4>1 DEF TypeOK, Ops
      <4>6. \A q \in Request : InFlight(q)' => InFlight(q)
        BY <3>3 DEF Advances, Early, GoTo, TypeOK, InFlight
      <4>7. Aimed'
        BY <3>3, <4>5, <4>6 DEF Advances, Aimed
      <4> QED BY <4>4, <4>7
    <3>4. CASE Load(r)
      <4>1. PICK row \in NewRows(r, users[Target(r)]) :
              op' = [op EXCEPT ![r] = [@ EXCEPT !.new = row]]
        BY <3>4 DEF Load
      <4>2. users[Target(r)] \in Rows /\ InFlight(r)
        BY <3>4 DEF Load, InFlight, Aimed, Target, TypeOK
      <4>3. row \in Rows
        BY <4>2, WrittenRows DEF TypeOK
      <4>4. op' \in [Request -> Ops]
        BY <4>1, <4>3 DEF TypeOK, Ops
      <4>5. TypeOK'
        BY <3>1, <3>4, <4>4 DEF Load, GoTo, TypeOK, Step
      <4>6. \A q \in Request : /\ op'[q].token = op[q].token
                               /\ op'[q].target = op[q].target
                               /\ op'[q].kind = op[q].kind
        BY <4>1 DEF TypeOK, Ops
      <4>7. Aimed'
        BY <3>4, <4>2, <4>6 DEF Load, GoTo, TypeOK, Aimed, InFlight
      <4> QED BY <4>5, <4>7
    <3>5. CASE Locks(r)
      BY <3>1, <3>5 DEF Locks, GoTo, TypeOK, Step, Aimed, InFlight
    <3>6. CASE InvalidateUser(r)
      BY <3>1, <3>6 DEF InvalidateUser, GoTo, TypeOK, Step, Aimed, InFlight
    <3>7. CASE Commit(r)
      <4>1. op[r].new \in Rows /\ Target(r) \in User
        BY <3>7, OpFields DEF Commit, TypeOK, Aimed, InFlight, Target
      <4>2. TypeOK'
        BY <3>1, <3>7, <4>1, NoOpType DEF Commit, Over, GoTo, TypeOK, Step
      <4>3. Aimed'
        BY <3>7 DEF Commit, Over, GoTo, TypeOK, Aimed, InFlight
      <4> QED BY <4>2, <4>3
    <3> QED BY <2>1, <3>2, <3>3, <3>4, <3>5, <3>6, <3>7, Shapes
  <2>2. ASSUME NEW r \in Request, Send(r)
        PROVE  TypeOK' /\ Aimed'
    <3>1. PICK t \in tokens, k \in Kind, u \in User :
            op' = [op EXCEPT ![r] = [@ EXCEPT !.kind = k, !.token = t,
                                              !.target = u]]
      BY <2>2 DEF Send
    <3>2. t \in Tokens /\ t.sub \in User /\ k \in AllKinds
      BY ConstantsOK DEF TypeOK, Aimed
    <3>3. op' \in [Request -> Ops]
      BY <3>1, <3>2 DEF TypeOK, Ops
    <3>4. TypeOK'
      BY <2>2, <3>3 DEF Send, GoTo, TypeOK, Step
    <3>5. op'[r].token = t /\ op'[r].target = u /\ op'[r].kind = k
      BY <3>1 DEF TypeOK, Ops
    <3>6. \A q \in Request \ {r} : op'[q] = op[q]
      BY <3>1 DEF TypeOK
    <3>7. Aimed'
      BY <2>2, <3>2, <3>5, <3>6 DEF Send, GoTo, TypeOK, Aimed, InFlight
    <3> QED BY <3>4, <3>7
  <2>3. ASSUME NEW u \in User, Signup(u)
        PROVE  TypeOK' /\ Aimed'
    BY <2>3, RowTypes DEF Signup, TypeOK, Aimed, InFlight, Role
  <2>4. ASSUME NEW u \in User, Login(u)
        PROVE  TypeOK' /\ Aimed'
    <3>1. [sub |-> u, tv |-> users[u].tv, pw |-> users[u].pw] \in Tokens
      BY RowFields DEF TypeOK, Tokens
    <3> QED BY <2>4, <3>1 DEF Login, TypeOK, Aimed, InFlight
  <2>5. ASSUME NEW u \in User, ExpireCache(u)
        PROVE  TypeOK' /\ Aimed'
    BY <2>5 DEF ExpireCache, TypeOK, Aimed, InFlight
  <2>6. ASSUME NEW t \in tokens, ExpireToken(t)
        PROVE  TypeOK' /\ Aimed'
    BY <2>6 DEF ExpireToken, TypeOK, Aimed, InFlight
  <2>7. CASE UNCHANGED vars
    BY <2>7 DEF vars, TypeOK, Aimed, InFlight
  <2> QED BY <2>1, <2>2, <2>3, <2>4, <2>5, <2>6, <2>7 DEF Next
<1> QED BY <1>1, <1>2, PTL DEF Spec

(* Every variable keeps its type, whatever requests do (TypeOK). *)
THEOREM TypeCorrect == Spec => []TypeOK
<1>1. TypeInv => TypeOK
  BY DEF TypeInv
<1> QED BY <1>1, TypeInvariant, PTL
-----------------------------------------------------------------------------
(* Row locks: a request that has written holds its target's lock, and the  *)
(* row it found under that lock is still there.                            *)
Writing == {"write", "invalidate", "commit"}

Holding ==
  \A r \in Request : pc[r] \in {"invalidate", "commit"} =>
    lock[Target(r)] = r /\ Exists(users[Target(r)])

LockInv == LocksAreHeld /\ Holding

LEMMA LockInvariant == Spec => []LockInv
<1>1. Init => LockInv
  BY ConstantsOK DEF Init, LockInv, LocksAreHeld, Holding
<1>2. TypeInv /\ TypeInv' /\ LockInv /\ [Next]_vars => LockInv'
  <2> SUFFICES ASSUME TypeInv, TypeInv', LocksAreHeld, Holding, [Next]_vars
               PROVE  LocksAreHeld' /\ Holding'
    BY DEF LockInv
  <2>1. TypeOK /\ TypeOK' /\ Aimed
    BY DEF TypeInv
  <2>2. None \notin Request
    BY ConstantsOK
  <2>3. ASSUME NEW r \in Request, Serve(r) \/ Fails(r)
        PROVE  LocksAreHeld' /\ Holding'
    <3>1. CASE Ends(r)
      <4>1. pc' = [pc EXCEPT ![r] = "done"] /\ op' = [op EXCEPT ![r] = NoOp]
            /\ users' = users
        BY <3>1 DEF Ends, Over, GoTo
      <4>2. \A u \in User : lock'[u] # None => lock'[u] = lock[u] /\ lock[u] # r
        BY <2>1, <3>1 DEF Ends, Released, LocksAreHeld, TypeOK
      <4>3. \A q \in Request \ {r} : \A u \in User : lock[u] = q => lock'[u] = q
        BY <2>1, <3>1 DEF Ends, Released, TypeOK
      <4>4. LocksAreHeld'
        BY <2>1, <4>1, <4>2 DEF LocksAreHeld, Target, TypeOK
      <4>5. Holding'
        BY <2>1, <4>1, <4>3 DEF Holding, Target, TypeOK, Aimed, InFlight
      <4> QED BY <4>4, <4>5
    <3>2. CASE Advances(r)
      <4>1. pc'[r] \in Early /\ \A q \in Request \ {r} : pc'[q] = pc[q]
        BY <2>1, <3>2 DEF Advances, GoTo, TypeOK
      <4>2. pc[r] \in Early /\ users' = users /\ lock' = lock
        BY <3>2 DEF Advances
      <4>3. \A q \in Request \ {r} : op'[q] = op[q]
        BY <2>1, <3>2 DEF Advances, TypeOK
      <4> QED BY <2>1, <4>1, <4>2, <4>3
              DEF LocksAreHeld, Holding, Target, Early, TypeOK
    <3>3. CASE Load(r)
      BY <2>1, <3>3 DEF Load, GoTo, LocksAreHeld, Holding, Target, TypeOK
    <3>4. CASE Locks(r)
      BY <2>1, <2>2, <3>4 DEF Locks, GoTo, LocksAreHeld, Holding, Target, TypeOK,
         Aimed, InFlight
    <3>5. CASE InvalidateUser(r)
      BY <2>1, <3>5 DEF InvalidateUser, GoTo, LocksAreHeld, Holding, Target, TypeOK
    <3>6. CASE Commit(r)
      <4>1. /\ pc' = [pc EXCEPT ![r] = "done"] /\ op' = [op EXCEPT ![r] = NoOp]
            /\ lock' = [lock EXCEPT ![Target(r)] = None]
            /\ users' = [users EXCEPT ![Target(r)] = op[r].new]
            /\ pc[r] = "commit"
        BY <3>6 DEF Commit, Over, GoTo
      <4>2. lock[Target(r)] = r /\ Target(r) \in User
        BY <2>1, <4>1 DEF Holding, Aimed, InFlight, Target
      <4>3. \A u \in User : lock'[u] # None => lock'[u] = lock[u] /\ lock[u] # r
        BY <2>1, <4>1, <4>2 DEF LocksAreHeld, TypeOK
      <4>4. LocksAreHeld'
        BY <2>1, <4>1, <4>3 DEF LocksAreHeld, Target, TypeOK
      <4>5. Holding'
        BY <2>1, <4>1, <4>2 DEF Holding, Target, TypeOK, Aimed, InFlight
      <4> QED BY <4>4, <4>5
    <3> QED BY <2>3, <3>1, <3>2, <3>3, <3>4, <3>5, <3>6, Shapes
  <2>4. ASSUME NEW r \in Request, Send(r)
        PROVE  LocksAreHeld' /\ Holding'
    BY <2>1, <2>4 DEF Send, GoTo, LocksAreHeld, Holding, Target, TypeOK
  <2>5. ASSUME NEW u \in User, Signup(u)
        PROVE  LocksAreHeld' /\ Holding'
    BY <2>1, <2>5 DEF Signup, LocksAreHeld, Holding, Target, TypeOK, Exists,
       FreshRow, Role
  <2>6. ASSUME UNCHANGED <<users, lock, pc, op>>
        PROVE  LocksAreHeld' /\ Holding'
    BY <2>6 DEF LocksAreHeld, Holding, Target
  <2> QED BY <2>3, <2>4, <2>5, <2>6 DEF Next, Login, ExpireCache, ExpireToken, vars
<1> QED BY <1>1, <1>2, TypeInvariant, PTL DEF Spec

(* A row lock belongs to a request that has written and will commit or roll  *)
(* back (LocksAreHeld).                                                      *)
THEOREM HeldLocks == Spec => []LocksAreHeld
<1>1. LockInv => LocksAreHeld
  BY DEF LockInv
<1> QED BY <1>1, LockInvariant, PTL

(* A deleted account never comes back, whatever requests had read it before  *)
(* (NoResurrection: persist_user_update finds no row).                       *)
THEOREM DeletedStaysDeleted == Spec => NoResurrection
<1>1. TypeInv /\ LockInv /\ [Next]_vars
        => \A u \in User : users[u].role = "gone" => users'[u].role = "gone"
  <2> SUFFICES ASSUME TypeInv, LockInv, [Next]_vars, NEW u \in User,
                      users[u].role = "gone"
               PROVE  users'[u].role = "gone"
    OBVIOUS
  <2>1. ASSUME NEW r \in Request, Serve(r) \/ Fails(r)
        PROVE  users'[u].role = "gone"
    <3>1. CASE Commit(r)
      <4>1. Exists(users[Target(r)])
        BY <3>1 DEF Commit, LockInv, Holding
      <4>2. Target(r) # u
        BY <4>1 DEF Exists, Role
      <4> QED BY <3>1, <4>2 DEF Commit, TypeInv, TypeOK
    <3>2. CASE users' = users
      BY <3>2
    <3> QED BY <2>1, <3>1, <3>2, Shapes
            DEF Ends, Advances, Load, Locks, InvalidateUser
  <2>2. ASSUME NEW v \in User, Signup(v)
        PROVE  users'[u].role = "gone"
    BY <2>2 DEF Signup, TypeInv, TypeOK
  <2>3. ASSUME users' = users
        PROVE  users'[u].role = "gone"
    BY <2>3
  <2> QED BY <2>1, <2>2, <2>3
          DEF Next, Send, Login, ExpireCache, ExpireToken, vars
<1>2. TypeInv /\ LockInv /\ [Next]_vars
        => [\A u \in User : users[u].role = "gone" => users'[u].role = "gone"]_vars
  BY <1>1
<1> QED BY <1>2, TypeInvariant, LockInvariant, PTL DEF Spec, NoResurrection
-----------------------------------------------------------------------------
(* Versions: one function ver gives every hash in use the version it was   *)
(* stored with, and a request that has not merged yet has made no hash.    *)
Agree(ver) ==
  /\ ver["initial"] = 0
  /\ \A u \in User : users[u].tv = ver[users[u].pw]
  /\ \A t \in tokens : t.tv = ver[t.pw]
  /\ \A r \in Request : pc[r] \in Writing => op[r].new.tv = ver[op[r].new.pw]

Unused(h) ==
  /\ \A u \in User : users[u].pw # h
  /\ \A t \in tokens : t.pw # h
  /\ \A r \in Request : pc[r] \in Writing => op[r].new.pw # h

VersionInv ==
  /\ \E ver \in [Hash -> Nat] : Agree(ver)
  /\ \A r \in Request : pc[r] \in Early \cup {"idle"} => Unused(r)

\* A step that shows no hash but those in use keeps the invariant.
LEMMA SameHashes ==
  ASSUME TypeInv, VersionInv,
         \A u \in User :
           \/ users'[u].pw = "initial" /\ users'[u].tv = 0
           \/ \E v \in User : users'[u].pw = users[v].pw /\ users'[u].tv = users[v].tv
           \/ \E r \in Request : /\ pc[r] \in Writing
                                 /\ users'[u].pw = op[r].new.pw
                                 /\ users'[u].tv = op[r].new.tv,
         \A t \in tokens' :
           \/ t \in tokens
           \/ \E v \in User : t.pw = users[v].pw /\ t.tv = users[v].tv,
         \A r \in Request : pc'[r] \in Writing =>
           pc[r] \in Writing /\ op'[r].new = op[r].new,
         \A r \in Request :
           pc'[r] \in Early \cup {"idle"} => pc[r] \in Early \cup {"idle"}
  PROVE  VersionInv'
<1>1. PICK ver \in [Hash -> Nat] : Agree(ver)
  BY DEF VersionInv
<1>2. Agree(ver)'
  BY <1>1 DEF Agree
<1>3. ASSUME NEW r \in Request, Unused(r)
      PROVE  Unused(r)'
  BY <1>3, ConstantsOK DEF Unused
<1> QED BY <1>1, <1>2, <1>3 DEF VersionInv

LEMMA VersionInvariant == Spec => []VersionInv
<1>1. Init => VersionInv
  <2> SUFFICES ASSUME Init PROVE VersionInv
    OBVIOUS
  <2> DEFINE zero == [h \in Hash |-> 0]
  <2>1. zero \in [Hash -> Nat] /\ "initial" \in Hash
    BY DEF Hash
  <2>2. \A u \in User : users[u].pw = "initial" /\ users[u].tv = 0
    BY DEF Init, FreshRow, NoRow
  <2>3. Agree(zero)
    BY <2>1, <2>2 DEF Init, Agree, Writing
  <2>4. \A r \in Request : Unused(r)
    BY <2>2, ConstantsOK DEF Init, Unused, Writing
  <2> QED BY <2>1, <2>3, <2>4 DEF VersionInv
<1>2. TypeInv /\ VersionInv /\ [Next]_vars => VersionInv'
  <2> SUFFICES ASSUME TypeInv, VersionInv, [Next]_vars PROVE VersionInv'
    OBVIOUS
  <2>1. TypeOK /\ Aimed
    BY DEF TypeInv
  <2>2. ASSUME NEW r \in Request, Serve(r) \/ Fails(r)
        PROVE  VersionInv'
    <3>1. CASE Ends(r)
      BY <2>1, <3>1, SameHashes
         DEF Ends, Over, GoTo, TypeOK, InFlight, Early, Writing
    <3>2. CASE Advances(r)
      <4>1. pc'[r] \in Early /\ \A q \in Request \ {r} : pc'[q] = pc[q]
        BY <2>1, <3>2 DEF Advances, GoTo, TypeOK
      <4>2. \A q \in Request \ {r} : op'[q] = op[q]
        BY <2>1, <3>2 DEF Advances, TypeOK
      <4> QED BY <3>2, <4>1, <4>2, SameHashes DEF Advances, Early, Writing
    <3>3. CASE Load(r)
      <4> DEFINE existing == users[Target(r)]
      <4>1. PICK row \in NewRows(r, existing) :
              op' = [op EXCEPT ![r] = [@ EXCEPT !.new = row]]
        BY <3>3 DEF Load
      <4>2. existing \in Rows /\ Target(r) \in User
        BY <2>1, <3>3 DEF Load, InFlight, Aimed, Target, TypeOK
      <4>3. /\ row \in Rows
            /\ \/ row = NoRow("gone")
               \/ row.pw = existing.pw /\ row.tv = existing.tv
               \/ row.pw = r /\ row.tv = existing.tv + 1
        BY <2>1, <4>2, WrittenRows DEF TypeOK
      <4>4. /\ op'[r].new = row
            /\ \A q \in Request \ {r} : op'[q] = op[q]
        BY <2>1, <4>1 DEF TypeOK, Ops
      <4>5. /\ pc'[r] = "write" /\ pc[r] = "load"
            /\ \A q \in Request \ {r} : pc'[q] = pc[q]
            /\ users' = users /\ tokens' = tokens
        BY <2>1, <3>3 DEF Load, GoTo, TypeOK
      <4>6. Unused(r)
        BY <4>5 DEF VersionInv, Early
      <4>7. PICK ver \in [Hash -> Nat] : Agree(ver)
        BY DEF VersionInv
      <4>8. existing.tv \in Nat /\ existing.pw \in Hash /\ row.tv \in Nat /\ r \in Hash
        BY <4>2, <4>3, RowFields DEF Hash
      <4>9. PICK new \in [Hash -> Nat] :
              /\ new[r] = existing.tv + 1
              /\ \A h \in Hash \ {r} : new[h] = ver[h]
        <5> DEFINE v == [ver EXCEPT ![r] = existing.tv + 1]
        <5>1. v \in [Hash -> Nat] /\ v[r] = existing.tv + 1
              /\ \A h \in Hash \ {r} : v[h] = ver[h]
          BY <4>8
        <5> QED BY <5>1
      <4>10. \A u \in User : users[u].pw \in Hash \ {r}
        BY <2>1, <4>6, RowFields DEF TypeOK, Unused
      <4>11. \A t \in tokens : t.pw \in Hash \ {r}
        BY <2>1, <4>6, TokenFields DEF TypeOK, Unused
      <4>12. \A q \in Request : pc[q] \in Writing => op[q].new.pw \in Hash \ {r}
        BY <2>1, <4>6, RowFields, OpFields DEF TypeOK, Unused
      <4>13. row.tv = new[row.pw]
        <5>1. CASE row = NoRow("gone")
          BY <4>7, <4>9, <5>1, ConstantsOK DEF NoRow, Agree, Hash
        <5>2. CASE row.pw = existing.pw /\ row.tv = existing.tv
          BY <4>2, <4>7, <4>9, <4>10, <5>2 DEF Agree
        <5>3. CASE row.pw = r /\ row.tv = existing.tv + 1
          BY <4>9, <5>3
        <5> QED BY <4>3, <5>1, <5>2, <5>3
      <4>14. Agree(new)'
        <5>1. new["initial"] = 0
          BY <4>7, <4>9, ConstantsOK DEF Agree, Hash
        <5>2. \A u \in User : users'[u].tv = new[users'[u].pw]
          BY <4>5, <4>7, <4>9, <4>10 DEF Agree
        <5>3. \A t \in tokens' : t.tv = new[t.pw]
          BY <4>5, <4>7, <4>9, <4>11 DEF Agree
        <5>4. \A q \in Request : pc'[q] \in Writing => op'[q].new.tv = new[op'[q].new.pw]
          BY <4>4, <4>5, <4>7, <4>9, <4>12, <4>13 DEF Agree
        <5> QED BY <5>1, <5>2, <5>3, <5>4 DEF Agree
      <4>15. ASSUME NEW q \in Request, pc'[q] \in Early \cup {"idle"}
            PROVE  Unused(q)'
        <5>1. q # r /\ Unused(q)
          BY <4>5, <4>15 DEF VersionInv, Early
        <5>2. row.pw # q
          BY <4>2, <4>3, <5>1, ConstantsOK DEF Unused, NoRow
        <5> QED BY <4>4, <4>5, <5>1, <5>2 DEF Unused
      <4> QED BY <4>9, <4>14, <4>15 DEF VersionInv
    <3>4. CASE Locks(r)
      BY <2>1, <3>4, SameHashes DEF Locks, GoTo, TypeOK, Early, Writing
    <3>5. CASE InvalidateUser(r)
      BY <2>1, <3>5, SameHashes DEF InvalidateUser, GoTo, TypeOK, Early, Writing
    <3>6. CASE Commit(r)
      <4>1. Target(r) \in User
        BY <2>1, <3>6 DEF Commit, Aimed, InFlight, Target
      <4> QED BY <2>1, <3>6, <4>1, SameHashes
              DEF Commit, Over, GoTo, TypeOK, Early, Writing
    <3> QED BY <2>2, <3>1, <3>2, <3>3, <3>4, <3>5, <3>6, Shapes
  <2>3. ASSUME NEW r \in Request, Send(r)
        PROVE  VersionInv'
    BY <2>1, <2>3, SameHashes DEF Send, GoTo, TypeOK, Early, Writing
  <2>4. ASSUME NEW u \in User, Signup(u)
        PROVE  VersionInv'
    BY <2>1, <2>4, SameHashes DEF Signup, FreshRow, TypeOK
  <2>5. ASSUME NEW u \in User, Login(u)
        PROVE  VersionInv'
    BY <2>1, <2>5, SameHashes DEF Login, TypeOK
  <2>6. ASSUME tokens' \subseteq tokens, UNCHANGED <<users, pc, op>>
        PROVE  VersionInv'
    BY <2>6, SameHashes
  <2> QED BY <2>2, <2>3, <2>4, <2>5, <2>6 DEF Next, ExpireCache, ExpireToken, vars
<1> QED BY <1>1, <1>2, TypeInvariant, PTL DEF Spec

(* However updates interleave and overwrite each other, a token obtained     *)
(* with the password an account still has carries the account's version      *)
(* (PasswordKeepsTokens: update_user against get_current_user).              *)
THEOREM PasswordKeepsItsTokens == Spec => []PasswordKeepsTokens
<1>1. TypeInv /\ VersionInv => PasswordKeepsTokens
  BY DEF TypeInv, Aimed, VersionInv, Agree, PasswordKeepsTokens
<1> QED BY <1>1, TypeInvariant, VersionInvariant, PTL
-----------------------------------------------------------------------------
(* Requests that follow one another.                                       *)
Alone == \A r, q \in Request : InFlight(r) /\ InFlight(q) => r = q

LEMMA AloneInvariant ==
  ASSUME Serial
  PROVE  Spec => []Alone
<1>1. Init => Alone
  BY DEF Init, Alone, InFlight
<1>2. TypeInv /\ Alone /\ [Next]_vars => Alone'
  <2> SUFFICES ASSUME TypeInv, Alone, [Next]_vars PROVE Alone'
    OBVIOUS
  <2>1. TypeOK
    BY DEF TypeInv
  <2>2. ASSUME NEW r \in Request, Serve(r) \/ Fails(r)
        PROVE  Alone'
    <3>1. InFlight(r) /\ \A q \in Request \ {r} : pc'[q] = pc[q]
      BY <2>1, <2>2, Shapes
         DEF Ends, Advances, Load, Locks, InvalidateUser, Commit, Over, GoTo,
             InFlight, Early, TypeOK
    <3> QED BY <3>1 DEF Alone, InFlight
  <2>3. ASSUME NEW r \in Request, Send(r)
        PROVE  Alone'
    BY <2>1, <2>3 DEF Send, GoTo, Alone, InFlight, TypeOK
  <2>4. CASE pc' = pc
    BY <2>4 DEF Alone, InFlight
  <2> QED BY <2>2, <2>3, <2>4
          DEF Next, Signup, Login, ExpireCache, ExpireToken, vars
<1> QED BY <1>1, <1>2, TypeInvariant, PTL DEF Spec

(* A version is never ahead of its account, the present version comes with   *)
(* the present hash, and what a request is about to write moves neither back. *)
TokenInv ==
  \A t \in tokens :
    /\ users[t.sub].role # "none"
    /\ Exists(users[t.sub]) =>
         /\ t.tv <= users[t.sub].tv
         /\ t.tv = users[t.sub].tv => t.pw = users[t.sub].pw

Successor(row, new) ==
  /\ new.role # "none"
  /\ \/ new = NoRow("gone")
     \/ new.pw = row.pw /\ new.tv = row.tv
     \/ new.tv = row.tv + 1

WriteInv ==
  \A r \in Request : pc[r] \in Writing =>
    /\ Exists(users[Target(r)])
    /\ Successor(users[Target(r)], op[r].new)

LEMMA SerialInvariant ==
  ASSUME Serial
  PROVE  Spec => [](TokenInv /\ WriteInv)
<1>1. Init => TokenInv /\ WriteInv
  BY DEF Init, TokenInv, WriteInv, Writing
<1>2. TypeInv /\ Alone /\ TokenInv /\ WriteInv /\ [Next]_vars
        => TokenInv' /\ WriteInv'
  <2> SUFFICES ASSUME TypeInv, Alone, TokenInv, WriteInv, [Next]_vars
               PROVE  TokenInv' /\ WriteInv'
    OBVIOUS
  <2>1. TypeOK /\ Aimed
    BY DEF TypeInv
  <2>2. ASSUME NEW r \in Request, Serve(r) \/ Fails(r)
        PROVE  TokenInv' /\ WriteInv'
    <3>1. CASE Ends(r)
      <4>1. \A q \in Request : pc'[q] \in Writing => pc[q] \in Writing /\ op'[q] = op[q]
        BY <2>1, <3>1 DEF Ends, Over, GoTo, TypeOK, Writing
      <4> QED BY <3>1, <4>1 DEF Ends, TokenInv, WriteInv, Target
    <3>2. CASE Advances(r)
      <4>1. \A q \in Request : pc'[q] \in Writing => pc[q] \in Writing /\ op'[q] = op[q]
        BY <2>1, <3>2 DEF Advances, GoTo, TypeOK, Writing, Early
      <4> QED BY <3>2, <4>1 DEF Advances, TokenInv, WriteInv, Target
    <3>3. CASE Load(r)
      <4>1. PICK row \in NewRows(r, users[Target(r)]) :
              op' = [op EXCEPT ![r] = [@ EXCEPT !.new = row]]
        BY <3>3 DEF Load
      <4>2. users[Target(r)] \in Rows
        BY <2>1, <3>3 DEF Load, InFlight, Aimed, Target, TypeOK
      <4>3. Successor(users[Target(r)], row)
        BY <2>1, <3>3, <4>2, WrittenRows DEF Load, Exists, Role, NoRow, TypeOK, Successor
      <4>4. op'[r].new = row /\ op'[r].target = op[r].target
        BY <2>1, <4>1 DEF TypeOK, Ops
      <4>5. \A q \in Request \ {r} : pc'[q] = pc[q] /\ op'[q] = op[q]
        BY <2>1, <3>3, <4>1 DEF Load, GoTo, TypeOK
      <4>6. Exists(users[Target(r)]) /\ users' = users /\ tokens' = tokens
        BY <3>3 DEF Load
      <4> QED BY <4>3, <4>4, <4>5, <4>6 DEF TokenInv, WriteInv, Target
    <3>4. CASE Locks(r)
      BY <2>1, <3>4 DEF Locks, GoTo, TypeOK, TokenInv, WriteInv, Target, Writing
    <3>5. CASE InvalidateUser(r)
      BY <2>1, <3>5
         DEF InvalidateUser, GoTo, TypeOK, TokenInv, WriteInv, Target, Writing
    <3>6. CASE Commit(r)
      <4> DEFINE u == Target(r)  row == users[u]  new == op[r].new
      <4>1. /\ u \in User /\ row \in Rows /\ new \in Rows
            /\ Exists(row) /\ Successor(row, new)
        BY <2>1, <3>6, OpFields
           DEF Commit, InFlight, Aimed, Target, TypeOK, WriteInv, Writing
      <4>2. users' = [users EXCEPT ![u] = new] /\ tokens' = tokens
        BY <3>6 DEF Commit
      <4>3. \A q \in Request : pc'[q] \notin Writing
        BY <2>1, <3>6
           DEF Commit, Over, GoTo, TypeOK, Alone, InFlight, Writing
      <4>4. ASSUME NEW t \in tokens
            PROVE  /\ users'[t.sub].role # "none"
                   /\ Exists(users'[t.sub]) =>
                        /\ t.tv <= users'[t.sub].tv
                        /\ t.tv = users'[t.sub].tv => t.pw = users'[t.sub].pw
        <5>1. CASE t.sub # u
          BY <2>1, <4>2, <5>1 DEF TokenInv, TypeOK, Aimed
        <5>2. CASE t.sub = u
          <6>1. users'[t.sub] = new
            BY <2>1, <4>1, <4>2, <5>2 DEF TypeOK
          <6>2. t.tv <= row.tv /\ (t.tv = row.tv => t.pw = row.pw)
            BY <4>1, <5>2 DEF TokenInv
          <6>3. t.tv \in Nat /\ row.tv \in Nat /\ new.tv \in Nat
            BY <2>1, <4>1, RowFields, TokenFields DEF TypeOK
          <6>4. new.role # "none"
            BY <4>1 DEF Successor
          <6>5. CASE new = NoRow("gone")
            BY <6>1, <6>4, <6>5 DEF Exists, NoRow, Role
          <6>6. CASE new.pw = row.pw /\ new.tv = row.tv
            BY <6>1, <6>2, <6>4, <6>6
          <6>7. CASE new.tv = row.tv + 1
            BY <6>1, <6>2, <6>3, <6>4, <6>7
          <6> QED BY <4>1, <6>5, <6>6, <6>7 DEF Successor
        <5> QED BY <5>1, <5>2
      <4> QED BY <4>2, <4>3, <4>4 DEF TokenInv, WriteInv
    <3> QED BY <2>2, <3>1, <3>2, <3>3, <3>4, <3>5, <3>6, Shapes
  <2>3. ASSUME NEW r \in Request, Send(r)
        PROVE  TokenInv' /\ WriteInv'
    BY <2>1, <2>3 DEF Send, GoTo, TypeOK, TokenInv, WriteInv, Target, Writing
  <2>4. ASSUME NEW u \in User, Signup(u)
        PROVE  TokenInv' /\ WriteInv'
    BY <2>1, <2>4
       DEF Signup, TypeOK, Aimed, InFlight, TokenInv, WriteInv, Target, Writing,
           Exists, Role
  <2>5. ASSUME NEW u \in User, Login(u)
        PROVE  TokenInv' /\ WriteInv'
    <3>1. users[u].tv \in Nat /\ users[u].role # "none"
      BY <2>1, <2>5, RowFields DEF Login, Exists, Role, TypeOK
    <3> QED BY <2>5, <3>1 DEF Login, TokenInv, WriteInv, Target
  <2>6. ASSUME tokens' \subseteq tokens, UNCHANGED <<users, pc, op>>
        PROVE  TokenInv' /\ WriteInv'
    BY <2>6 DEF TokenInv, WriteInv, Target
  <2> QED BY <2>2, <2>3, <2>4, <2>5, <2>6 DEF Next, ExpireCache, ExpireToken, vars
<1> QED BY <1>1, <1>2, TypeInvariant, AloneInvariant, PTL DEF Spec
(* When requests follow one another, every token that is still accepted was *)
(* obtained with the present password (OldTokensRejected: update_user's    *)
(* token_version against get_current_user).                                *)
THEOREM OldTokensAreRejected ==
  ASSUME Serial
  PROVE  Spec => []OldTokensRejected
<1>1. TypeInv /\ TokenInv => OldTokensRejected
  BY DEF TypeInv, Aimed, TokenInv, Accepted, OldTokensRejected
<1> QED BY <1>1, TypeInvariant, SerialInvariant, PTL
-----------------------------------------------------------------------------
(* The last admin.  A deletion that has passed its guard is of an account  *)
(* that is no active admin, or not the only one.                           *)
Spare(u) == ActiveAdmin(u) => \E v \in User \ {u} : ActiveAdmin(v)

GuardInv ==
  \A r \in Request :
    /\ pc[r] \in {"load"} \cup Writing /\ op[r].kind \in DeleteKinds
         => Spare(Target(r))
    /\ pc[r] \in Writing => op[r].kind # "read"
    /\ pc[r] \in Writing /\ op[r].kind = "self"
         => /\ op[r].new.role = users[Target(r)].role
            /\ op[r].new.active = users[Target(r)].active

LEMMA AdmittedDeletion ==
  ASSUME IsFiniteSet(User), NEW r \in Request, Target(r) \in User,
         op[r].kind \in DeleteKinds, pc[r] \in Step, pc' \in [Request -> Step],
         GuardLastAdmin(r) \/ CountActiveAdmins(r),
         pc'[r] = "load"
  PROVE  Spare(Target(r))
<1>1. CASE GuardLastAdmin(r)
  <2>1. pc'[r] = IF ActiveAdmin(Target(r)) THEN "count" ELSE "load"
    BY <1>1 DEF GuardLastAdmin, GoTo
  <2> QED BY <2>1 DEF Spare
<1>2. CASE CountActiveAdmins(r)
  <2> DEFINE S == {u \in User : ActiveAdmin(u)}
  <2>1. ~TooFew(Cardinality(S))
    BY <1>2 DEF CountActiveAdmins, Rollback, Over, GoTo
  <2>2. IsFiniteSet(S)
    BY FS_Subset
  <2>3. SUFFICES ASSUME ActiveAdmin(Target(r)),
                        ~ \E v \in User \ {Target(r)} : ActiveAdmin(v)
                 PROVE  FALSE
    BY DEF Spare
  <2>4. S = {Target(r)}
    BY <2>3
  <2>5. Cardinality(S) = 1
    BY <2>4, FS_Singleton
  <2> QED BY <2>1, <2>5 DEF TooFew
<1> QED BY <1>1, <1>2

LEMMA GuardInvariant ==
  ASSUME Serial, IsFiniteSet(User)
  PROVE  Spec => []GuardInv
<1>1. Init => GuardInv
  BY DEF Init, GuardInv, Writing
<1>2. TypeInv /\ Alone /\ WriteInv /\ GuardInv /\ [Next]_vars => GuardInv'
  <2> SUFFICES ASSUME TypeInv, Alone, WriteInv, GuardInv, [Next]_vars
               PROVE  GuardInv'
    OBVIOUS
  <2>1. TypeOK /\ Aimed
    BY DEF TypeInv
  <2>2. ASSUME NEW r \in Request, Serve(r) \/ Fails(r)
        PROVE  GuardInv'
    <3>1. CASE Ends(r)
      <4>1. \A q \in Request : pc'[q] \in {"load"} \cup Writing =>
              pc[q] \in {"load"} \cup Writing /\ pc'[q] = pc[q] /\ op'[q] = op[q]
        BY <2>1, <3>1 DEF Ends, Over, GoTo, TypeOK, Writing
      <4>2. users' = users
        BY <3>1 DEF Ends
      <4> QED BY <4>1, <4>2
              DEF GuardInv, ActiveAdmin, Spare, Target
    <3>2. CASE Advances(r)
      <4>1. /\ users' = users /\ pc[r] \in Early /\ pc'[r] \in Early
            /\ op'[r].kind = op[r].kind /\ op'[r].target = op[r].target
            /\ \A q \in Request \ {r} : pc'[q] = pc[q] /\ op'[q] = op[q]
        BY <2>1, <3>2 DEF Advances, GoTo, TypeOK, Ops
      <4>2. ASSUME pc'[r] = "load", op[r].kind \in DeleteKinds
            PROVE  Spare(Target(r))
        <5>1. Target(r) \in User /\ pc[r] \in Step
          BY <2>1, <4>1 DEF Early, Aimed, InFlight, Target, TypeOK
        <5>2. pc' \in [Request -> Step]
          BY <2>1, <3>2 DEF Advances, GoTo, TypeOK, Step, Early
        <5>3. ~Authenticate(r) /\ ~CacheActor(r) /\ ~Load(r) /\ ~LoadRefused(r)
              /\ ~Write(r) /\ ~InvalidateUser(r) /\ ~Commit(r) /\ ~Fails(r)
          BY <2>1, <4>1, <4>2
             DEF Authenticate, CacheActor, Load, LoadRefused, Write, Rollback,
                 Over, GoTo, InvalidateUser, Commit, Fails, Early, TypeOK
        <5> QED BY <2>2, <4>2, <5>1, <5>2, <5>3, AdmittedDeletion DEF Serve
      <4> QED BY <4>1, <4>2
              DEF GuardInv, ActiveAdmin, Spare, Target, Early, Writing
    <3>3. CASE Load(r)
      <4>1. PICK row \in NewRows(r, users[Target(r)]) :
              op' = [op EXCEPT ![r] = [@ EXCEPT !.new = row]]
        BY <3>3 DEF Load
      <4>2. users[Target(r)] \in Rows
        BY <2>1, <3>3 DEF Load, InFlight, Aimed, Target, TypeOK
      <4>3. /\ op[r].kind # "read"
            /\ op[r].kind = "self" => /\ row.role = users[Target(r)].role
                                      /\ row.active = users[Target(r)].active
        BY <2>1, <4>2, WrittenRows DEF TypeOK
      <4>4. /\ op'[r].new = row /\ op'[r].target = op[r].target
            /\ op'[r].kind = op[r].kind
        BY <2>1, <4>1 DEF TypeOK, Ops
      <4>5. \A q \in Request \ {r} : pc'[q] = pc[q] /\ op'[q] = op[q]
        BY <2>1, <3>3, <4>1 DEF Load, GoTo, TypeOK
      <4>6. pc[r] = "load" /\ users' = users
        BY <3>3 DEF Load
      <4> QED BY <4>3, <4>4, <4>5, <4>6
              DEF GuardInv, ActiveAdmin, Spare, Target
    <3>4. CASE Locks(r)
      BY <2>1, <3>4
         DEF Locks, GoTo, TypeOK, GuardInv, ActiveAdmin, Spare,
             Target, Writing
    <3>5. CASE InvalidateUser(r)
      BY <2>1, <3>5
         DEF InvalidateUser, GoTo, TypeOK, GuardInv, ActiveAdmin,
             Spare, Target, Writing
    <3>6. CASE Commit(r)
      BY <2>1, <3>6
         DEF Commit, Over, GoTo, TypeOK, Alone, InFlight, GuardInv, Writing
    <3> QED BY <2>2, <3>1, <3>2, <3>3, <3>4, <3>5, <3>6, Shapes
  <2>3. ASSUME NEW r \in Request, Send(r)
        PROVE  GuardInv'
    BY <2>1, <2>3
       DEF Send, GoTo, TypeOK, GuardInv, ActiveAdmin, Spare,
           Target, Writing
  <2>4. ASSUME NEW u \in User, Signup(u)
        PROVE  GuardInv'
    <3>1. /\ \A v \in User \ {u} : users'[v] = users[v]
          /\ users'[u] = FreshRow("user") /\ users[u].role = "none"
          /\ pc' = pc /\ op' = op
      BY <2>1, <2>4 DEF Signup, TypeOK
    <3>2. \A v \in User : ActiveAdmin(v)' <=> ActiveAdmin(v)
      BY <3>1 DEF ActiveAdmin, FreshRow
    <3>3. \A r \in Request : pc[r] \in Writing => Target(r) # u
      BY <3>1 DEF WriteInv, Exists, Role
    <3> QED
      BY <2>1, <3>1, <3>2, <3>3
         DEF GuardInv, Spare, Target, TypeOK, Aimed, InFlight, Writing
  <2>5. ASSUME UNCHANGED <<users, pc, op>>
        PROVE  GuardInv'
    BY <2>5 DEF GuardInv, ActiveAdmin, Spare, Target
  <2> QED BY <2>2, <2>3, <2>4, <2>5
          DEF Next, Login, ExpireCache, ExpireToken, vars
<1> QED BY <1>1, <1>2, TypeInvariant, AloneInvariant, SerialInvariant, PTL
       DEF Spec

\* Only a commit or a signup changes the table.
LEMMA NewContents ==
  ASSUME TypeInv, Next
  PROVE  \/ users' = users
         \/ \E r \in Request : Commit(r)
         \/ \E u \in User : Signup(u)
<1>1. ASSUME NEW r \in Request, Serve(r) \/ Fails(r)
      PROVE  users' = users \/ Commit(r)
  BY <1>1, Shapes DEF Ends, Advances, Load, Locks, InvalidateUser
<1> QED BY <1>1 DEF Next, Send, Login, ExpireCache, ExpireToken

(* When requests follow one another, a deletion or deactivation that commits *)
(* leaves an active admin (DeletionLeavesAdmin: guard_last_admin), whatever  *)
(* PUT and PATCH did before.                                                 *)
THEOREM DeletionsSpareAnAdmin ==
  ASSUME Serial, IsFiniteSet(User)
  PROVE  Spec => DeletionLeavesAdmin
<1> DEFINE Deleted == \E r \in Request : op[r].kind \in DeleteKinds
                                        /\ pc[r] = "commit" /\ pc'[r] = "done"
           Kept == AdminRemains /\ Deleted => AdminRemains'
<1>1. TypeInv /\ WriteInv /\ GuardInv /\ [Next]_vars => [Kept]_vars
  <2> SUFFICES ASSUME TypeInv, WriteInv, GuardInv, Next, AdminRemains, Deleted
               PROVE  AdminRemains'
    BY DEF Kept
  <2>1. TypeOK /\ Aimed
    BY DEF TypeInv
  <2>2. PICK r \in Request : /\ op[r].kind \in DeleteKinds
                             /\ pc[r] = "commit" /\ pc'[r] = "done"
    BY DEF Deleted
  <2>3. CASE \E u \in User : Signup(u)
    BY <2>2, <2>3 DEF Signup
  <2>4. CASE users' = users
    BY <2>4 DEF AdminRemains, ActiveAdmin
  <2>5. CASE \E q \in Request : Commit(q)
    <3>0. Commit(r)
      BY <2>1, <2>2, <2>5 DEF Commit, Over, GoTo, TypeOK
    <3>1. Target(r) \in User /\ pc[r] \in Writing
      BY <2>1, <2>2 DEF InFlight, Aimed, Target, Writing
    <3>2. \A v \in User \ {Target(r)} : users'[v] = users[v]
      BY <2>1, <3>0, <3>1 DEF Commit, TypeOK
    <3>3. \E v \in User \ {Target(r)} : ActiveAdmin(v)
      BY <2>2, <3>1 DEF GuardInv, Spare, AdminRemains
    <3> QED BY <3>2, <3>3 DEF AdminRemains, ActiveAdmin
  <2> QED BY <2>3, <2>4, <2>5, NewContents
<1> QED BY <1>1, TypeInvariant, SerialInvariant, GuardInvariant, PTL
        DEF Spec, DeletionLeavesAdmin

\* An administrator's PUT or PATCH for an active admin commits.
AdminUpdated ==
  \E r \in Request : /\ pc[r] = "commit" /\ pc'[r] = "done"
                    /\ op[r].kind \in {"replace", "patch"}
                    /\ ActiveAdmin(Target(r))

(* When requests follow one another, the last active admin is lost in one    *)
(* way only: a PUT or PATCH of an administrator for that account commits     *)
(* (update_user never calls guard_last_admin, whatever it writes).  No        *)
(* deletion, deactivation, signup or profile update takes it away.           *)
THEOREM LastAdminFallsToUpdate ==
  ASSUME Serial, IsFiniteSet(User)
  PROVE  Spec => [][AdminRemains => AdminRemains' \/ AdminUpdated]_vars
<1>1. TypeInv /\ WriteInv /\ GuardInv /\ [Next]_vars
        => [AdminRemains => AdminRemains' \/ AdminUpdated]_vars
  <2> SUFFICES ASSUME TypeInv, WriteInv, GuardInv, Next, AdminRemains, ~AdminRemains'
               PROVE  AdminUpdated
    OBVIOUS
  <2>1. TypeOK /\ Aimed
    BY DEF TypeInv
  <2>2. users' # users
    BY DEF AdminRemains, ActiveAdmin
  <2>3. ~ \E u \in User : Signup(u)
    BY <2>1 DEF Signup, TypeOK, AdminRemains, ActiveAdmin
  <2>4. PICK r \in Request : Commit(r)
    BY <2>2, <2>3, NewContents
  <2>5. /\ pc[r] = "commit" /\ pc'[r] = "done" /\ Target(r) \in User
        /\ op[r].kind \in Kind /\ pc[r] \in Writing
    BY <2>1, <2>4 DEF Commit, Over, GoTo, TypeOK, InFlight, Aimed, Target, Writing
  <2>6. /\ \A v \in User \ {Target(r)} : users'[v] = users[v]
        /\ users'[Target(r)] = op[r].new
    BY <2>1, <2>4, <2>5 DEF Commit, TypeOK
  <2>7. ActiveAdmin(Target(r)) /\ \A v \in User \ {Target(r)} : ~ActiveAdmin(v)
    BY <2>6 DEF AdminRemains, ActiveAdmin
  <2>8. op[r].kind \notin DeleteKinds
    BY <2>5, <2>7 DEF GuardInv, Spare
  <2>9. op[r].kind # "self"
    <3>1. SUFFICES ASSUME op[r].kind = "self"
                   PROVE  FALSE
      OBVIOUS
    <3>2. /\ users'[Target(r)].role = users[Target(r)].role
          /\ users'[Target(r)].active = users[Target(r)].active
      BY <2>5, <2>6, <3>1 DEF GuardInv
    <3> QED BY <2>5, <2>7, <3>2 DEF AdminRemains, ActiveAdmin
  <2>10. op[r].kind \in {"replace", "patch"}
    BY <2>5, <2>8, <2>9, ConstantsOK DEF GuardInv, AllKinds, AdminKinds, DeleteKinds
  <2> QED BY <2>5, <2>7, <2>10 DEF AdminUpdated
<1> QED BY <1>1, TypeInvariant, SerialInvariant, GuardInvariant, PTL DEF Spec

(* When requests follow one another, nothing but an administrator's request  *)
(* changes the role or the activity of an account that exists; a profile     *)
(* update writes back the ones it has read (OnlyAdminsGrant).                *)
THEOREM AdminsGrant ==
  ASSUME Serial, IsFiniteSet(User)
  PROVE  Spec => OnlyAdminsGrant
<1> DEFINE Justified ==
      \A u \in User :
        Exists(users[u])
        /\ <<users'[u].role, users'[u].active>> # <<users[u].role, users[u].active>>
          => \E r \in Request : pc[r] = "commit" /\ pc'[r] = "done"
               /\ Target(r) = u /\ op[r].kind \in AdminKinds
<1>1. TypeInv /\ GuardInv /\ [Next]_vars => [Justified]_vars
  <2>a. SUFFICES ASSUME TypeInv, GuardInv, Next PROVE Justified
    OBVIOUS
  <2> SUFFICES ASSUME NEW u \in User, Exists(users[u]),
                      <<users'[u].role, users'[u].active>>
                        # <<users[u].role, users[u].active>>
               PROVE  \E r \in Request : pc[r] = "commit" /\ pc'[r] = "done"
                        /\ Target(r) = u /\ op[r].kind \in AdminKinds
    OBVIOUS
  <2>1. TypeOK /\ Aimed
    BY <2>a DEF TypeInv
  <2>2. users' # users
    OBVIOUS
  <2>3. ~ \E v \in User : Signup(v)
    BY <2>1 DEF Signup, Exists, Role, TypeOK
  <2>4. PICK r \in Request : Commit(r)
    BY <2>a, <2>2, <2>3, NewContents
  <2>5. /\ pc[r] = "commit" /\ pc'[r] = "done" /\ Target(r) \in User
        /\ op[r].kind \in Kind /\ pc[r] \in Writing
    BY <2>1, <2>4 DEF Commit, Over, GoTo, TypeOK, InFlight, Aimed, Target, Writing
  <2>6. users' = [users EXCEPT ![Target(r)] = op[r].new]
    BY <2>4 DEF Commit
  <2>7. Target(r) = u /\ users'[u] = op[r].new
    BY <2>1, <2>5, <2>6 DEF TypeOK
  <2>8. op[r].kind # "read" /\ op[r].kind # "self"
    BY <2>a, <2>5, <2>7 DEF GuardInv
  <2>9. op[r].kind \in AdminKinds
    BY <2>5, <2>8, ConstantsOK DEF AllKinds
  <2> QED BY <2>5, <2>7, <2>9
<1> QED BY <1>1, TypeInvariant, GuardInvariant, PTL DEF Spec, OnlyAdminsGrant
-----------------------------------------------------------------------------
(* The identity cache.  With requests that follow one another an entry     *)
(* agrees with its row in every state, not only between requests: the role *)
(* read by get_current_user is still the row's when set_active_user stores *)
(* it, and the row a commit changes has no entry any more.                 *)
EntriesAgree ==
  \A u \in User : cache[u] # "none" => users[u].active /\ users[u].role = cache[u]

ReadRole ==
  \A r \in Request : pc[r] = "cache" =>
    /\ op[r].role # "none"
    /\ users[op[r].token.sub].active
    /\ users[op[r].token.sub].role = op[r].role

Invalidated == \A r \in Request : pc[r] = "commit" => cache[Target(r)] = "none"

CacheInv == EntriesAgree /\ ReadRole /\ Invalidated

LEMMA CacheInvariant ==
  ASSUME Serial
  PROVE  Spec => []CacheInv
<1>1. Init => CacheInv
  BY DEF Init, CacheInv, EntriesAgree, ReadRole, Invalidated
<1>2. TypeInv /\ Alone /\ CacheInv /\ [Next]_vars => CacheInv'
  <2> SUFFICES ASSUME TypeOK, Aimed, Alone, CacheInv, [Next]_vars
               PROVE  CacheInv'
    BY DEF TypeInv
  <2> USE DEF CacheInv, EntriesAgree, ReadRole, Invalidated
  <2>1. ASSUME NEW r \in Request, Authenticate(r)
        PROVE  CacheInv'
    <3>1. cache' = cache /\ users' = users
      BY <2>1 DEF Authenticate, Rollback
    <3>2. \A q \in Request \ {r} : pc'[q] = pc[q] /\ op'[q] = op[q]
      BY <2>1 DEF Authenticate, Rollback, Over, GoTo, TypeOK
    <3>3. CASE Accepted(op[r].token)
      <4> DEFINE t == op[r].token
      <4>1. op' = [op EXCEPT ![r] = [@ EXCEPT !.role = users[t.sub].role]]
        BY <2>1, <3>3 DEF Authenticate
      <4>2. op'[r].role = users[t.sub].role /\ op'[r].token = t
        BY <4>1 DEF TypeOK, Ops
      <4>3. users[t.sub].active /\ users[t.sub].role # "none"
        BY <3>3 DEF Accepted, Exists, Role
      <4>4. pc'[r] = "cache"
        BY <2>1, <3>3 DEF Authenticate, GoTo, TypeOK
      <4> QED BY <3>1, <3>2, <4>2, <4>3, <4>4 DEF Target
    <3>4. CASE ~Accepted(op[r].token)
      <4>1. pc'[r] = "done"
        BY <2>1, <3>4 DEF Authenticate, Rollback, Over, GoTo, TypeOK
      <4> QED BY <3>1, <3>2, <4>1 DEF Target
    <3> QED BY <3>3, <3>4
  <2>2. ASSUME NEW r \in Request, CacheActor(r)
        PROVE  CacheInv'
    <3> DEFINE a == op[r].token.sub
    <3>1. /\ a \in User /\ users' = users
          /\ cache' = [cache EXCEPT ![a] = op[r].role]
      BY <2>2 DEF CacheActor, InFlight, Aimed
    <3>2. users[a].active /\ users[a].role = op[r].role
      BY <2>2 DEF CacheActor
    <3>3. EntriesAgree'
      BY <3>1, <3>2 DEF TypeOK
    <3>4. \A q \in Request : pc'[q] \notin {"cache", "commit"}
      BY <2>2 DEF CacheActor, Over, GoTo, TypeOK, Alone, InFlight
    <3> QED BY <3>3, <3>4
  <2>3. ASSUME NEW r \in Request, InvalidateUser(r)
        PROVE  CacheInv'
    <3>1. /\ Target(r) \in User /\ users' = users /\ op' = op
          /\ cache' = [cache EXCEPT ![Target(r)] = "none"]
          /\ pc' = [pc EXCEPT ![r] = "commit"] /\ pc[r] = "invalidate"
      BY <2>3 DEF InvalidateUser, InFlight, Aimed, Target, GoTo
    <3>2. EntriesAgree'
      BY <3>1 DEF TypeOK
    <3>3. \A q \in Request \ {r} : pc'[q] \notin {"cache", "commit"}
      BY <3>1 DEF TypeOK, Alone, InFlight
    <3> QED BY <3>1, <3>2, <3>3 DEF TypeOK, Target
  <2>4. ASSUME NEW r \in Request, Commit(r)
        PROVE  CacheInv'
    <3>1. /\ Target(r) \in User /\ cache' = cache /\ cache[Target(r)] = "none"
          /\ users' = [users EXCEPT ![Target(r)] = op[r].new]
      BY <2>4 DEF Commit, InFlight, Aimed, Target
    <3>2. EntriesAgree'
      BY <3>1 DEF TypeOK
    <3>3. \A q \in Request : pc'[q] \notin {"cache", "commit"}
      BY <2>4 DEF Commit, Over, GoTo, TypeOK, Alone, InFlight
    <3> QED BY <3>2, <3>3
  <2>5. ASSUME NEW r \in Request,
               \/ GuardLastAdmin(r) \/ CountActiveAdmins(r) \/ Load(r)
               \/ LoadRefused(r) \/ Write(r) \/ Fails(r)
        PROVE  CacheInv'
    <3>1. cache' = cache /\ users' = users /\ pc'[r] \notin {"cache", "commit"}
      BY <2>5 DEF GuardLastAdmin, CountActiveAdmins, Load, LoadRefused, Write,
                  Fails, Rollback, Over, GoTo, TypeOK
    <3>2. \A q \in Request \ {r} : pc'[q] = pc[q] /\ op'[q] = op[q]
      BY <2>5 DEF GuardLastAdmin, CountActiveAdmins, Load, LoadRefused, Write,
                  Fails, Rollback, Over, GoTo, TypeOK
    <3> QED BY <3>1, <3>2 DEF Target
  <2>6. ASSUME NEW r \in Request, Send(r)
        PROVE  CacheInv'
    <3>1. cache' = cache /\ users' = users /\ pc'[r] = "auth"
      BY <2>6 DEF Send, GoTo, TypeOK
    <3>2. \A q \in Request \ {r} : pc'[q] = pc[q] /\ op'[q] = op[q]
      BY <2>6 DEF Send, GoTo, TypeOK
    <3> QED BY <3>1, <3>2 DEF Target
  <2>7. ASSUME NEW u \in User, Signup(u)
        PROVE  CacheInv'
    <3>1. /\ users' = [users EXCEPT ![u] = FreshRow("user")]
          /\ users[u].role = "none" /\ UNCHANGED <<cache, pc, op>>
      BY <2>7 DEF Signup
    <3>2. cache[u] = "none"
      BY <3>1
    <3>3. \A r \in Request : pc[r] = "cache" => op[r].token.sub \in User
      BY DEF Aimed, InFlight
    <3>4. \A v \in User : users'[v] # users[v] => v = u
      BY <3>1 DEF TypeOK
    <3>5. ASSUME NEW r \in Request, pc[r] = "cache"
          PROVE  users'[op[r].token.sub] = users[op[r].token.sub]
      BY <3>1, <3>3, <3>4, <3>5
    <3> QED BY <3>1, <3>2, <3>4, <3>5 DEF Target
  <2>8. ASSUME NEW u \in User, ExpireCache(u)
        PROVE  CacheInv'
    BY <2>8 DEF ExpireCache, TypeOK, Target
  <2>9. ASSUME UNCHANGED <<users, cache, pc, op>>
        PROVE  CacheInv'
    BY <2>9 DEF Target
  <2> QED BY <2>1, <2>2, <2>3, <2>4, <2>5, <2>6, <2>7, <2>8, <2>9
          DEF Next, Serve, Login, ExpireToken, vars
<1> QED BY <1>1, <1>2, TypeInvariant, AloneInvariant, PTL DEF Spec

(* When requests follow one another the identity cache says nothing that the *)
(* users table would deny (CacheFresh: set_active_user, invalidate_user).    *)
THEOREM CacheIsFresh ==
  ASSUME Serial
  PROVE  Spec => []CacheFresh
<1>1. CacheInv => CacheFresh
  BY DEF CacheInv, EntriesAgree, CacheFresh
<1> QED BY <1>1, CacheInvariant, PTL
=============================================================================
