----------------------------- MODULE TodosProofs ------------------------------
(***************************************************************************)
(* Proofs about module Todos, for any users, todos and requests, however   *)
(* the requests interleave: no todo without its owner, no write by a user  *)
(* outside the user's todos, no deleted todo comes back, and the whole is  *)
(* an implementation of Ownership, where each request is one step.         *)
(*                                                                         *)
(* The invariant says what each transaction may rely on: the todo it       *)
(* writes is locked and as it saw it, a new owner is key-share locked, and *)
(* a user about to be deleted is locked and owns only what was purged.     *)
(***************************************************************************)
EXTENDS Todos, TLAPS

\* The fields of a request that its step may count on.
Fields(r) ==
  /\ pc[r] \in {"idle", "done"} => op[r] = NoOp
  /\ pc[r] \in {"read", "write"} => op[r].kind \in {"update", "delete"}
  /\ pc[r] = "insert" => op[r].kind = "create"
  /\ pc[r] = "owner" => op[r].kind \in {"create", "update"}
  /\ pc[r] \in {"scan", "purge", "user", "references"} => op[r].kind = "hardDelete"
  /\ InFlight(r) => op[r].kind \in AllKinds /\ op[r].actor \in User
  /\ InFlight(r) /\ pc[r] # "auth" => op[r].role \in Role
  /\ pc[r] \in {"auth", "read", "insert", "scan"} =>
       /\ op[r].todo = None /\ op[r].owner = None /\ op[r].subject = None
       /\ op[r].purged = {}
  /\ op[r].kind = "hardDelete" =>
       /\ op[r].todo = None /\ op[r].owner = None
       /\ pc[r] # "auth" => op[r].role = "admin"
       /\ pc[r] \notin {"auth", "scan"} => op[r].subject \in User
  /\ op[r].kind # "hardDelete" => op[r].subject = None /\ op[r].purged = {}
  /\ pc[r] \in {"write", "owner", "commit"} /\ op[r].kind # "hardDelete" =>
       /\ op[r].todo \in Todo /\ op[r].owner \in User
       /\ op[r].role = "user" => op[r].owner = op[r].actor

\* The todo it writes is locked, and is what its statement saw.
Target(r) ==
  pc[r] \in {"owner", "commit"} /\ op[r].kind # "hardDelete" =>
    /\ lock[op[r].todo] = r
    /\ IF op[r].kind = "create" THEN todos[op[r].todo] = "unused"
                                ELSE InScope(r, todos[op[r].todo])

\* The owner it writes cannot be deleted before it commits.
NewOwner(r) ==
  pc[r] = "commit" /\ op[r].kind \in {"create", "update"} =>
    \/ r \in share[op[r].owner]
    \/ op[r].kind = "update" /\ op[r].owner = todos[op[r].todo]

\* What a purge deleted is locked, and its user owns nothing else.
Purged(r) ==
  /\ \A t \in op[r].purged : lock[t] = r /\ todos[t] = op[r].subject
  /\ op[r].kind = "hardDelete" /\ pc[r] \in {"references", "commit"}
       => excl[op[r].subject] = r
  /\ op[r].kind = "hardDelete" /\ pc[r] = "commit" => Left(r) = {}

Ready(r) == Fields(r) /\ Target(r) /\ NewOwner(r) /\ Purged(r)

\* A key-share lock on a user keeps its deletion out.
Shared == \A u \in User : share[u] # {} => excl[u] = None /\ users[u] # "gone"

Inv == TypeOK /\ Shared /\ \A r \in Request : Ready(r)

LEMMA OpTypes ==
  ASSUME NEW o \in Ops
  PROVE  /\ \A k \in AllKinds, a \in User :
              [o EXCEPT !.kind = k, !.actor = a] \in Ops
         /\ \A role \in Role : [o EXCEPT !.role = role] \in Ops
         /\ \A t \in Todo, w \in User \cup {None}, u \in User :
              [o EXCEPT !.todo = t, !.wanted = w, !.owner = u] \in Ops
         /\ \A u \in User, S \in SUBSET Todo :
              [o EXCEPT !.subject = u, !.scan = S] \in Ops
         /\ \A S, T \in SUBSET Todo :
              [o EXCEPT !.scan = S, !.purged = T] \in Ops
BY DEF Ops, Role

LEMMA NoOpType == NoOp \in Ops
BY DEF NoOp, Ops

\* A request is ready as long as nobody touches what it holds.
LEMMA StaysReady ==
  ASSUME TypeOK, NEW q \in Request, Ready(q),
         pc'[q] = pc[q], op'[q] = op[q], todos' = todos,
         \A t \in Todo : lock[t] = q => lock'[t] = q,
         \A u \in User : excl[u] = q => excl'[u] = q,
         \A u \in User : q \in share[u] => q \in share'[u]
  PROVE  Ready(q)'
<1>1. Fields(q)'
  BY DEF Ready, Fields, InFlight
<1>2. Target(q)'
  BY DEF Ready, Fields, Target, InScope
<1>3. NewOwner(q)'
  BY DEF Ready, Fields, NewOwner
<1>4. op[q].purged \subseteq Todo
  BY DEF TypeOK, Ops
<1>5. Purged(q)'
  BY <1>4 DEF Ready, Fields, Purged, Left
<1> QED BY <1>1, <1>2, <1>3, <1>5 DEF Ready

\* Whatever ends without a commit gives its locks back.
LEMMA RollbackKeepsInv ==
  ASSUME Inv, NEW r \in Request, Rollback(r)
  PROVE  Inv'
<1>1. /\ pc' = [pc EXCEPT ![r] = "done"] /\ op' = [op EXCEPT ![r] = NoOp]
      /\ lock' = [t \in Todo |-> IF lock[t] = r THEN None ELSE lock[t]]
      /\ excl' = [u \in User |-> IF excl[u] = r THEN None ELSE excl[u]]
      /\ share' = [u \in User |-> share[u] \ {r}]
      /\ users' = users /\ todos' = todos
  BY DEF Rollback, Over, GoTo
<1>2. TypeOK'
  BY <1>1, NoOpType DEF Inv, TypeOK, Step
<1>3. Shared'
  BY <1>1 DEF Inv, TypeOK, Shared
<1>4. pc'[r] = "done" /\ op'[r] = NoOp
  BY <1>1 DEF Inv, TypeOK
<1>5. Ready(r)'
  BY <1>4 DEF Ready, Fields, Target, NewOwner, Purged, NoOp, InFlight
<1>6. ASSUME NEW q \in Request \ {r}
      PROVE  Ready(q)'
  BY <1>1, <1>6, StaysReady DEF Inv, TypeOK
<1> QED BY <1>2, <1>3, <1>5, <1>6 DEF Inv

LEMMA InitInv == Init => Inv
BY NoOpType
   DEF Init, Inv, TypeOK, Step, Role, Shared, Ready, Fields, Target, NewOwner,
       Purged, NoOp, InFlight

\* One lemma for each group of steps that do not end the transaction.
LEMMA SendKeepsInv ==
  ASSUME Inv, NEW r \in Request, Send(r)
  PROVE  Inv'
<1>1. PICK k \in Kind, a \in User :
        op' = [op EXCEPT ![r] = [@ EXCEPT !.kind = k, !.actor = a]]
  BY DEF Send
<1>2. /\ pc[r] = "idle" /\ pc' = [pc EXCEPT ![r] = "auth"] /\ op[r] = NoOp
      /\ UNCHANGED <<users, todos, lock, excl, share>>
  BY DEF Send, GoTo, Inv, Ready, Fields
<1>3. k \in AllKinds
  BY ConstantsOK
<1>4. op'[r] = [NoOp EXCEPT !.kind = k, !.actor = a] /\ pc'[r] = "auth"
  BY <1>1, <1>2 DEF Inv, TypeOK
<1>5. TypeOK'
  BY <1>1, <1>2, <1>3, OpTypes DEF Inv, TypeOK, Step
<1>6. Ready(r)'
  BY <1>3, <1>4 DEF Ready, Fields, Target, NewOwner, Purged, NoOp, InFlight, AllKinds
<1>7. ASSUME NEW q \in Request \ {r}
      PROVE  Ready(q)'
  BY <1>1, <1>2, <1>7, StaysReady DEF Inv, TypeOK
<1> QED BY <1>2, <1>5, <1>6, <1>7 DEF Inv, Shared

LEMMA AuthenticateKeepsInv ==
  ASSUME Inv, NEW r \in Request, Authenticate(r)
  PROVE  Inv'
<1>1. CASE Rollback(r)
  BY <1>1, RollbackKeepsInv
<1>2. CASE /\ Entitled(r)
           /\ op' = [op EXCEPT ![r] = [@ EXCEPT !.role = users[op[r].actor]]]
           /\ GoTo(r, FirstStep(op[r].kind))
           /\ UNCHANGED <<users, todos, lock, excl, share>>
  <2> DEFINE role == users[op[r].actor]
  <2>1. role \in Role /\ (op[r].kind = "hardDelete" => role = "admin")
    BY <1>2 DEF Entitled
  <2>2. /\ op'[r] = [op[r] EXCEPT !.role = role] /\ op[r] \in Ops
        /\ pc'[r] = FirstStep(op[r].kind) /\ pc[r] = "auth"
        /\ Fields(r)
    BY <1>2 DEF Inv, TypeOK, GoTo, Authenticate, Ready
  <2> HIDE DEF role
  <2>3. /\ op'[r].kind = op[r].kind /\ op'[r].role = role
        /\ op'[r].actor = op[r].actor /\ op'[r].todo = op[r].todo
        /\ op'[r].owner = op[r].owner /\ op'[r].subject = op[r].subject
        /\ op'[r].purged = op[r].purged
    BY <2>2 DEF Ops
  <2>4. op[r].kind \in AllKinds /\ op[r].purged = {}
    BY <2>2 DEF Fields, InFlight
  <2>5. pc'[r] = CASE op[r].kind = "create" -> "insert"
                   [] op[r].kind = "hardDelete" -> "scan"
                   [] OTHER -> "read"
    BY <2>2 DEF FirstStep
  <2>6. TypeOK'
    <3>1. pc'[r] \in Step
      BY <2>4, <2>5 DEF AllKinds, Step
    <3> QED BY <1>2, <2>1, <2>2, <3>1, OpTypes DEF Inv, TypeOK, GoTo, role
  <2>7. Ready(r)'
    <3>1. Fields(r)'
      BY <2>1, <2>2, <2>3, <2>4, <2>5 DEF Fields, InFlight, AllKinds
    <3>2. pc'[r] \in {"insert", "scan", "read"}
      BY <2>4, <2>5 DEF AllKinds
    <3> QED BY <2>3, <2>4, <3>1, <3>2 DEF Ready, Target, NewOwner, Purged
  <2>8. ASSUME NEW q \in Request \ {r}
        PROVE  Ready(q)'
    BY <1>2, <2>8, StaysReady DEF Inv, TypeOK, GoTo
  <2> QED BY <1>2, <2>6, <2>7, <2>8 DEF Inv, Shared
<1> QED BY <1>1, <1>2 DEF Authenticate

LEMMA ReadKeepsInv ==
  ASSUME Inv, NEW r \in Request, Read(r)
  PROVE  Inv'
<1>1. CASE Rollback(r)
  BY <1>1, RollbackKeepsInv
<1>2. ASSUME NEW t \in Todo, NEW wanted \in User \cup {None},
             InScope(r, todos[t]), ~OwnerChangeForbidden(r, todos[t], wanted),
             op' = [op EXCEPT ![r] = [@ EXCEPT
                      !.todo = t, !.wanted = wanted,
                      !.owner = ResolveUpdateOwner(todos[t], wanted)]],
             GoTo(r, "write"), UNCHANGED <<users, todos, lock, excl, share>>
      PROVE  Inv'
  <2> DEFINE owner == ResolveUpdateOwner(todos[t], wanted)
  <2>1. owner \in User
    BY <1>2 DEF InScope, ResolveUpdateOwner
  <2>2. op[r].role = "user" => owner = op[r].actor
    BY <1>2 DEF InScope, ResolveUpdateOwner, OwnerChangeForbidden
  <2>3. /\ op'[r] = [op[r] EXCEPT !.todo = t, !.wanted = wanted, !.owner = owner]
        /\ op[r] \in Ops /\ pc'[r] = "write" /\ pc[r] = "read" /\ Fields(r)
    BY <1>2 DEF Inv, TypeOK, GoTo, Read, Ready
  <2> HIDE DEF owner
  <2>4. /\ op'[r].kind = op[r].kind /\ op'[r].role = op[r].role
        /\ op'[r].actor = op[r].actor /\ op'[r].todo = t
        /\ op'[r].owner = owner /\ op'[r].subject = op[r].subject
        /\ op'[r].purged = op[r].purged
    BY <2>3 DEF Ops
  <2>5. TypeOK'
    BY <1>2, <2>1, <2>3, OpTypes DEF Inv, TypeOK, GoTo, Step, owner
  <2>6. Ready(r)'
    BY <2>1, <2>2, <2>3, <2>4
       DEF Ready, Fields, Target, NewOwner, Purged, InFlight
  <2>7. ASSUME NEW q \in Request \ {r}
        PROVE  Ready(q)'
    BY <1>2, <2>7, StaysReady DEF Inv, TypeOK, GoTo
  <2> QED BY <1>2, <2>5, <2>6, <2>7 DEF Inv, Shared
<1> QED BY <1>1, <1>2 DEF Read

LEMMA WriteKeepsInv ==
  ASSUME Inv, NEW r \in Request, Write(r)
  PROVE  Inv'
<1>1. CASE Rollback(r)
  BY <1>1, RollbackKeepsInv
<1>2. CASE ~Rollback(r)
  <2> DEFINE t == op[r].todo
             new == op[r].kind = "update" /\ op[r].owner # todos[t]
  <2>1. /\ InScope(r, todos[t]) /\ lock[t] = None /\ pc[r] = "write"
        /\ lock' = [lock EXCEPT ![t] = r]
        /\ pc' = [pc EXCEPT ![r] = IF new THEN "owner" ELSE "commit"]
        /\ UNCHANGED <<users, todos, excl, share, op>>
    BY <1>2 DEF Write, GoTo
  <2>2. Fields(r) /\ t \in Todo /\ op[r].kind \in {"update", "delete"}
    BY <2>1 DEF Inv, Ready, Fields
  <2>3. TypeOK'
    BY <2>1, <2>2 DEF Inv, TypeOK, Step
  <2>4. /\ pc'[r] \in {"owner", "commit"} /\ (pc'[r] = "owner" <=> new)
        /\ lock'[t] = r
    BY <2>1, <2>2 DEF Inv, TypeOK
  <2>5. Ready(r)'
    <3>1. Fields(r)'
      BY <2>1, <2>2, <2>4 DEF Fields, InFlight
    <3>2. Target(r)' /\ NewOwner(r)'
      BY <2>1, <2>2, <2>4 DEF Target, NewOwner, InScope
    <3>3. Purged(r)'
      BY <2>1, <2>2 DEF Purged, Fields
    <3> QED BY <3>1, <3>2, <3>3 DEF Ready
  <2>6. ASSUME NEW q \in Request \ {r}
        PROVE  Ready(q)'
    <3>1. lock[t] # q
      BY <2>1, ConstantsOK
    <3> QED BY <2>1, <2>6, <3>1, StaysReady DEF Inv, TypeOK
  <2> QED BY <2>1, <2>3, <2>5, <2>6 DEF Inv, Shared
<1> QED BY <1>1, <1>2

LEMMA InsertKeepsInv ==
  ASSUME Inv, NEW r \in Request, Insert(r)
  PROVE  Inv'
<1>1. CASE Rollback(r)
  BY <1>1, RollbackKeepsInv
<1>2. ASSUME NEW t \in NewIds, NEW wanted \in User \cup {None},
             lock' = [lock EXCEPT ![t] = r],
             op' = [op EXCEPT ![r] = [@ EXCEPT
                      !.todo = t, !.wanted = wanted,
                      !.owner = ResolveCreateOwner(r, wanted)]],
             GoTo(r, "owner"), UNCHANGED <<users, todos, excl, share>>
      PROVE  Inv'
  <2> DEFINE owner == ResolveCreateOwner(r, wanted)
  <2>1. t \in Todo /\ todos[t] = "unused" /\ lock[t] = None
    BY DEF NewIds
  <2>2. /\ op'[r] = [op[r] EXCEPT !.todo = t, !.wanted = wanted, !.owner = owner]
        /\ op[r] \in Ops /\ pc'[r] = "owner" /\ pc[r] = "insert" /\ Fields(r)
    BY <1>2 DEF Inv, TypeOK, GoTo, Insert, Ready
  <2>3. owner \in User /\ (op[r].role = "user" => owner = op[r].actor)
    BY <2>2 DEF ResolveCreateOwner, Fields, InFlight
  <2> HIDE DEF owner
  <2>4. /\ op'[r].kind = op[r].kind /\ op'[r].role = op[r].role
        /\ op'[r].actor = op[r].actor /\ op'[r].todo = t
        /\ op'[r].owner = owner /\ op'[r].subject = op[r].subject
        /\ op'[r].purged = op[r].purged
    BY <2>2 DEF Ops
  <2>5. TypeOK'
    BY <1>2, <2>1, <2>2, <2>3, OpTypes DEF Inv, TypeOK, GoTo, Step, owner
  <2>6. lock'[t] = r
    BY <1>2, <2>1 DEF Inv, TypeOK
  <2>7. Ready(r)'
    BY <1>2, <2>1, <2>2, <2>3, <2>4, <2>6
       DEF Ready, Fields, Target, NewOwner, Purged, InFlight
  <2>8. ASSUME NEW q \in Request \ {r}
        PROVE  Ready(q)'
    <3>1. lock[t] # q
      BY <2>1, ConstantsOK
    <3> QED BY <1>2, <2>8, <3>1, StaysReady DEF Inv, TypeOK, GoTo
  <2> QED BY <1>2, <2>5, <2>7, <2>8 DEF Inv, Shared
<1> QED BY <1>1, <1>2 DEF Insert

LEMMA CheckOwnerKeepsInv ==
  ASSUME Inv, NEW r \in Request, CheckOwner(r)
  PROVE  Inv'
<1>1. CASE Rollback(r)
  BY <1>1, RollbackKeepsInv
<1>2. CASE ~Rollback(r)
  <2> DEFINE u == op[r].owner
  <2>1. /\ pc[r] = "owner" /\ excl[u] = None /\ users[u] # "gone"
        /\ share' = [share EXCEPT ![u] = @ \cup {r}]
        /\ pc' = [pc EXCEPT ![r] = "commit"]
        /\ UNCHANGED <<users, todos, lock, excl, op>>
    BY <1>2 DEF CheckOwner, GoTo
  <2>2. Fields(r) /\ u \in User /\ op[r].kind \in {"create", "update"}
    BY <2>1 DEF Inv, Ready, Fields
  <2>3. TypeOK' /\ Shared'
    BY <2>1, <2>2 DEF Inv, TypeOK, Step, Shared
  <2>4. pc'[r] = "commit" /\ r \in share'[u]
    BY <2>1, <2>2 DEF Inv, TypeOK
  <2>5. Ready(r)'
    <3>1. Fields(r)' /\ Purged(r)'
      BY <2>1, <2>2, <2>4 DEF Fields, Purged, InFlight
    <3>2. Target(r)' /\ NewOwner(r)'
      BY <2>1, <2>2, <2>4 DEF Inv, Ready, Target, NewOwner, InScope
    <3> QED BY <3>1, <3>2 DEF Ready
  <2>6. ASSUME NEW q \in Request \ {r}
        PROVE  Ready(q)'
    BY <2>1, <2>6, StaysReady DEF Inv, TypeOK
  <2> QED BY <2>3, <2>5, <2>6 DEF Inv
<1> QED BY <1>1, <1>2

LEMMA ScanKeepsInv ==
  ASSUME Inv, NEW r \in Request, Scan(r)
  PROVE  Inv'
<1>1. CASE Rollback(r)
  BY <1>1, RollbackKeepsInv
<1>2. ASSUME NEW u \in User,
             op' = [op EXCEPT ![r] = [@ EXCEPT
                      !.subject = u, !.scan = {t \in Todo : todos[t] = u}]],
             GoTo(r, "purge"), UNCHANGED <<users, todos, lock, excl, share>>
      PROVE  Inv'
  <2> DEFINE S == {t \in Todo : todos[t] = u}
  <2>1. /\ op'[r] = [op[r] EXCEPT !.subject = u, !.scan = S]
        /\ op[r] \in Ops /\ pc'[r] = "purge" /\ pc[r] = "scan" /\ Fields(r)
    BY <1>2 DEF Inv, TypeOK, GoTo, Scan, Ready
  <2>2. TypeOK'
    BY <1>2, <2>1, OpTypes DEF Inv, TypeOK, GoTo, Step
  <2> HIDE DEF S
  <2>3. /\ op'[r].kind = op[r].kind /\ op'[r].role = op[r].role
        /\ op'[r].actor = op[r].actor /\ op'[r].todo = op[r].todo
        /\ op'[r].owner = op[r].owner /\ op'[r].subject = u
        /\ op'[r].purged = op[r].purged
    BY <2>1 DEF Ops
  <2>4. Ready(r)'
    BY <2>1, <2>3 DEF Ready, Fields, Target, NewOwner, Purged, InFlight
  <2>5. ASSUME NEW q \in Request \ {r}
        PROVE  Ready(q)'
    BY <1>2, <2>5, StaysReady DEF Inv, TypeOK, GoTo
  <2> QED BY <1>2, <2>2, <2>4, <2>5 DEF Inv, Shared
<1> QED BY <1>1, <1>2 DEF Scan

LEMMA PurgeKeepsInv ==
  ASSUME Inv, NEW r \in Request, Purge(r)
  PROVE  Inv'
<1>1. /\ pc[r] = "purge" /\ op[r].kind = "hardDelete" /\ Fields(r)
      /\ op[r] \in Ops /\ UNCHANGED <<users, todos, excl, share>>
  BY DEF Purge, Inv, Ready, Fields, TypeOK
<1>2. ASSUME NEW t \in op[r].scan, lock[t] = None, todos[t] = op[r].subject,
             op' = [op EXCEPT ![r].scan = @ \ {t}, ![r].purged = @ \cup {t}],
             lock' = [lock EXCEPT ![t] = r], pc' = pc
      PROVE  Inv'
  <2> DEFINE S == op[r].scan \ {t}
             T == op[r].purged \cup {t}
  <2>1. t \in Todo /\ S \in SUBSET Todo /\ T \in SUBSET Todo
    BY <1>1 DEF Ops
  <2>2. op'[r] = [op[r] EXCEPT !.scan = S, !.purged = T]
    BY <1>2 DEF Inv, TypeOK
  <2>3. /\ op'[r].kind = op[r].kind /\ op'[r].role = op[r].role
        /\ op'[r].actor = op[r].actor /\ op'[r].todo = op[r].todo
        /\ op'[r].owner = op[r].owner /\ op'[r].subject = op[r].subject
        /\ op'[r].purged = T
    BY <1>1, <2>2 DEF Ops
  <2>4. op' = [op EXCEPT ![r] = [op[r] EXCEPT !.scan = S, !.purged = T]]
    BY <1>2
  <2>5. [op[r] EXCEPT !.scan = S, !.purged = T] \in Ops
    <3> HIDE DEF S, T
    <3> QED BY <1>1, <2>1, OpTypes
  <2>6. TypeOK'
    BY <1>1, <1>2, <2>1, <2>4, <2>5 DEF Inv, TypeOK
  <2>7. lock'[t] = r /\ \A s \in Todo \ {t} : lock'[s] = lock[s]
    BY <1>2, <2>1 DEF Inv, TypeOK
  <2>8. Ready(r)'
    <3>1. Fields(r)' /\ Target(r)' /\ NewOwner(r)'
      BY <1>1, <1>2, <2>3 DEF Fields, Target, NewOwner, InFlight
    <3>2. \A s \in T : lock'[s] = r /\ todos'[s] = op'[r].subject
      BY <1>1, <1>2, <2>1, <2>3, <2>7 DEF Inv, Ready, Purged
    <3>3. Purged(r)'
      BY <1>1, <1>2, <2>3, <3>2 DEF Purged
    <3> QED BY <3>1, <3>3 DEF Ready
  <2>9. ASSUME NEW q \in Request \ {r}
        PROVE  Ready(q)'
    <3>1. lock[t] # q
      BY <1>2, ConstantsOK
    <3> QED BY <1>1, <1>2, <2>7, <2>9, <3>1, StaysReady DEF Inv, TypeOK
  <2> QED BY <1>1, <2>6, <2>8, <2>9 DEF Inv, Shared
<1>3. ASSUME NEW t \in op[r].scan,
             op' = [op EXCEPT ![r].scan = @ \ {t}, ![r].purged = @],
             lock' = lock, pc' = pc
      PROVE  Inv'
  <2> DEFINE S == op[r].scan \ {t}
             T == op[r].purged
  <2>1. S \in SUBSET Todo /\ T \in SUBSET Todo
    BY <1>1 DEF Ops
  <2>2. /\ op' = [op EXCEPT ![r] = [op[r] EXCEPT !.scan = S, !.purged = T]]
        /\ op'[r] = [op[r] EXCEPT !.scan = S, !.purged = T]
    BY <1>3 DEF Inv, TypeOK
  <2>3. [op[r] EXCEPT !.scan = S, !.purged = T] \in Ops
    <3> HIDE DEF S, T
    <3> QED BY <1>1, <2>1, OpTypes
  <2>4. /\ op'[r].kind = op[r].kind /\ op'[r].role = op[r].role
        /\ op'[r].actor = op[r].actor /\ op'[r].todo = op[r].todo
        /\ op'[r].owner = op[r].owner /\ op'[r].subject = op[r].subject
        /\ op'[r].purged = op[r].purged
    BY <1>1, <2>2 DEF Ops
  <2>5. TypeOK'
    BY <1>1, <1>3, <2>2, <2>3 DEF Inv, TypeOK
  <2>6. Ready(r)'
    <3>1. Fields(r)' /\ Target(r)' /\ NewOwner(r)'
      BY <1>1, <1>3, <2>4 DEF Fields, Target, NewOwner, InFlight
    <3>2. Purged(r)'
      BY <1>1, <1>3, <2>4 DEF Inv, Ready, Purged
    <3> QED BY <3>1, <3>2 DEF Ready
  <2>7. ASSUME NEW q \in Request \ {r}
        PROVE  Ready(q)'
    BY <1>1, <1>3, <2>2, <2>7, StaysReady DEF Inv, TypeOK
  <2> QED BY <1>1, <2>5, <2>6, <2>7 DEF Inv, Shared
<1>4. CASE GoTo(r, "user") /\ UNCHANGED <<op, lock>>
  <2>1. pc'[r] = "user"
    BY <1>4 DEF GoTo, Inv, TypeOK
  <2>2. TypeOK'
    BY <1>1, <1>4 DEF GoTo, Inv, TypeOK, Step
  <2>3. Ready(r)'
    BY <1>1, <1>4, <2>1
       DEF Inv, Ready, Fields, Target, NewOwner, Purged, InFlight
  <2>4. ASSUME NEW q \in Request \ {r}
        PROVE  Ready(q)'
    BY <1>1, <1>4, <2>4, StaysReady DEF Inv, TypeOK, GoTo
  <2> QED BY <1>1, <2>2, <2>3, <2>4 DEF Inv, Shared
<1>5. ASSUME NEW t \in op[r].scan, lock[t] = None,
             op' = [op EXCEPT
                      ![r].scan = @ \ {t},
                      ![r].purged = IF todos[t] = op[r].subject
                                    THEN @ \cup {t} ELSE @],
             lock' = IF todos[t] = op[r].subject
                     THEN [lock EXCEPT ![t] = r] ELSE lock,
             pc' = pc
      PROVE  Inv'
  <2>1. CASE todos[t] = op[r].subject
    BY <1>2, <1>5, <2>1
  <2>2. CASE todos[t] # op[r].subject
    BY <1>3, <1>5, <2>2
  <2> QED BY <2>1, <2>2
<1> QED BY <1>4, <1>5 DEF Purge

LEMMA DeleteUserKeepsInv ==
  ASSUME Inv, NEW r \in Request, DeleteUser(r)
  PROVE  Inv'
<1>1. CASE Rollback(r)
  BY <1>1, RollbackKeepsInv
<1>2. CASE ~Rollback(r)
  <2> DEFINE u == op[r].subject
  <2>1. /\ pc[r] = "user" /\ excl[u] = None /\ share[u] = {}
        /\ excl' = [excl EXCEPT ![u] = r]
        /\ pc' = [pc EXCEPT ![r] = "references"]
        /\ UNCHANGED <<users, todos, lock, share, op>>
    BY <1>2 DEF DeleteUser, GoTo
  <2>2. Fields(r) /\ u \in User /\ op[r].kind = "hardDelete"
    BY <2>1 DEF Inv, Ready, Fields
  <2>3. TypeOK' /\ Shared'
    BY <2>1, <2>2 DEF Inv, TypeOK, Step, Shared
  <2>4. pc'[r] = "references" /\ excl'[u] = r
    BY <2>1, <2>2 DEF Inv, TypeOK
  <2>5. Ready(r)'
    BY <2>1, <2>2, <2>4
       DEF Inv, Ready, Fields, Target, NewOwner, Purged, InFlight
  <2>6. ASSUME NEW q \in Request \ {r}
        PROVE  Ready(q)'
    <3>1. excl[u] # q
      BY <2>1, ConstantsOK
    <3> QED BY <2>1, <2>6, <3>1, StaysReady DEF Inv, TypeOK
  <2> QED BY <2>3, <2>5, <2>6 DEF Inv
<1> QED BY <1>1, <1>2

LEMMA CheckReferencesKeepsInv ==
  ASSUME Inv, NEW r \in Request, CheckReferences(r)
  PROVE  Inv'
<1>1. CASE Rollback(r)
  BY <1>1, RollbackKeepsInv
<1>2. CASE ~Rollback(r)
  <2>1. /\ pc[r] = "references" /\ Left(r) = {}
        /\ pc' = [pc EXCEPT ![r] = "commit"]
        /\ UNCHANGED <<users, todos, lock, excl, share, op>>
    BY <1>2 DEF CheckReferences, GoTo
  <2>2. op[r].kind = "hardDelete"
    BY <2>1 DEF Inv, Ready, Fields
  <2>3. TypeOK' /\ Shared' /\ pc'[r] = "commit"
    BY <2>1 DEF Inv, TypeOK, Step, Shared
  <2>4. Ready(r)'
    BY <2>1, <2>2, <2>3
       DEF Inv, Ready, Fields, Target, NewOwner, Purged, InFlight, Left
  <2>5. ASSUME NEW q \in Request \ {r}
        PROVE  Ready(q)'
    BY <2>1, <2>5, StaysReady DEF Inv, TypeOK
  <2> QED BY <2>3, <2>4, <2>5 DEF Inv
<1> QED BY <1>1, <1>2

LEMMA SetRoleKeepsInv ==
  ASSUME Inv, NEW u \in User, SetRole(u)
  PROVE  Inv'
<1>1. PICK role \in Role : users' = [users EXCEPT ![u] = role]
  BY DEF SetRole
<1>2. UNCHANGED <<todos, lock, excl, share, pc, op>>
  BY DEF SetRole
<1>3. TypeOK' /\ Shared'
  BY <1>1, <1>2 DEF Inv, TypeOK, Shared, Role
<1>4. ASSUME NEW q \in Request
      PROVE  Ready(q)'
  BY <1>2, StaysReady DEF Inv, TypeOK
<1> QED BY <1>3, <1>4 DEF Inv
-----------------------------------------------------------------------------
(* What a commit changes. *)

\* A todo changes only under the lock of the request that commits: a new one
\* or one in its scope takes its owner or goes, a purged one goes.
LEMMA CommitWrites ==
  ASSUME Inv, NEW r \in Request, Commit(r), NEW t \in Todo, todos'[t] # todos[t]
  PROVE  /\ lock[t] = r
         /\ \/ /\ t \in op[r].purged /\ op[r].kind = "hardDelete"
               /\ todos[t] = op[r].subject /\ todos'[t] = "gone"
            \/ /\ t = op[r].todo /\ op[r].kind = "create"
               /\ todos[t] = "unused" /\ todos'[t] = op[r].owner
            \/ /\ t = op[r].todo /\ op[r].kind = "delete"
               /\ InScope(r, todos[t]) /\ todos'[t] = "gone"
            \/ /\ t = op[r].todo /\ op[r].kind = "update"
               /\ InScope(r, todos[t]) /\ todos'[t] = op[r].owner
<1>1. /\ todos'[t] = Written(r, t) /\ pc[r] = "commit"
      /\ Fields(r) /\ Target(r) /\ Purged(r)
  BY DEF Commit, Inv, Ready
<1>2. op[r].kind \in AllKinds
  BY <1>1 DEF Fields, InFlight
<1>3. CASE t \in op[r].purged
  <2>1. op[r].kind = "hardDelete"
    BY <1>1, <1>3 DEF Fields
  <2>2. lock[t] = r /\ todos[t] = op[r].subject
    BY <1>1, <1>3 DEF Purged
  <2>3. t # op[r].todo
    BY <1>1, <2>1, ConstantsOK DEF Fields
  <2>4. todos'[t] = "gone"
    BY <1>1, <1>3, <2>3 DEF Written
  <2> QED BY <1>3, <2>1, <2>2, <2>4
<1>4. CASE t \notin op[r].purged
  <2>1. t = op[r].todo
    BY <1>1, <1>4 DEF Written
  <2>2. op[r].kind # "hardDelete"
    BY <1>1, <2>1, ConstantsOK DEF Fields
  <2>3. todos'[t] = IF op[r].kind = "delete" THEN "gone" ELSE op[r].owner
    BY <1>1, <1>4, <2>1 DEF Written
  <2> QED BY <1>1, <1>2, <2>1, <2>2, <2>3 DEF Target, AllKinds
<1> QED BY <1>3, <1>4

\* The owner of a todo that is new or changes hands is key-share locked.
LEMMA CommitGives ==
  ASSUME Inv, NEW r \in Request, Commit(r), NEW t \in Todo,
         todos'[t] # todos[t], todos'[t] \in User
  PROVE  r \in share[todos'[t]] /\ todos'[t] = op[r].owner
<1>1. /\ todos'[t] = op[r].owner /\ t = op[r].todo
      /\ op[r].kind \in {"create", "update"}
  BY CommitWrites, ConstantsOK
<1>2. pc[r] = "commit" /\ NewOwner(r)
  BY DEF Commit, Inv, Ready
<1> QED BY <1>1, <1>2 DEF NewOwner

LEMMA CommitKeepsInv ==
  ASSUME Inv, NEW r \in Request, Commit(r)
  PROVE  Inv'
<1>1. /\ pc' = [pc EXCEPT ![r] = "done"] /\ op' = [op EXCEPT ![r] = NoOp]
      /\ lock' = [t \in Todo |-> IF lock[t] = r THEN None ELSE lock[t]]
      /\ excl' = [u \in User |-> IF excl[u] = r THEN None ELSE excl[u]]
      /\ share' = [u \in User |-> share[u] \ {r}]
      /\ pc[r] = "commit" /\ Ready(r)
  BY DEF Commit, Over, GoTo, Inv
<1>2. TypeOK'
  <2>1. \A t \in Todo : todos'[t] \in User \cup {"unused", "gone"}
    <3> SUFFICES ASSUME NEW t \in Todo
                 PROVE  todos'[t] \in User \cup {"unused", "gone"}
      OBVIOUS
    <3>1. CASE todos'[t] = todos[t]
      BY <3>1 DEF Inv, TypeOK
    <3>2. CASE todos'[t] # todos[t]
      BY <1>1, <3>2, CommitWrites DEF Ready, Fields
    <3> QED BY <3>1, <3>2
  <2>2. todos' = [t \in Todo |-> Written(r, t)]
    BY DEF Commit
  <2>3. todos' \in [Todo -> User \cup {"unused", "gone"}]
    BY <2>1, <2>2
  <2>4. users' \in [User -> Role \cup {"gone"}]
    BY DEF Commit, Inv, TypeOK
  <2> QED BY <1>1, <2>3, <2>4, NoOpType DEF Inv, TypeOK, Step
<1>3. \A u \in User : users'[u] = users[u] \/ u = op[r].subject
  BY DEF Commit
<1>4. \A u \in User : u = op[r].subject => excl[u] = r
  BY <1>1, ConstantsOK DEF Ready, Fields, Purged
<1>5. Shared'
  <2> SUFFICES ASSUME NEW u \in User, share'[u] # {}
               PROVE  excl'[u] = None /\ users'[u] # "gone"
    BY DEF Shared
  <2>1. excl[u] = None /\ users[u] # "gone"
    BY <1>1 DEF Inv, Shared, TypeOK
  <2> QED BY <1>1, <1>3, <1>4, <2>1, ConstantsOK
<1>6. Ready(r)'
  <2>1. pc'[r] = "done" /\ op'[r] = NoOp
    BY <1>1 DEF Inv, TypeOK
  <2> QED BY <2>1 DEF Ready, Fields, Target, NewOwner, Purged, NoOp, InFlight
<1>7. ASSUME NEW q \in Request \ {r}
      PROVE  Ready(q)'
  <2>1. pc'[q] = pc[q] /\ op'[q] = op[q] /\ Ready(q) /\ op[q] \in Ops
    BY <1>1 DEF Inv, TypeOK
  <2>2. \A t \in Todo : lock[t] = q => lock'[t] = q /\ todos'[t] = todos[t]
    BY <1>1, CommitWrites
  <2>3. \A u \in User : (excl[u] = q => excl'[u] = q)
                        /\ (q \in share[u] => q \in share'[u])
    BY <1>1
  <2>4. Fields(q)'
    BY <2>1 DEF Ready, Fields, InFlight
  <2>5. Target(q)' /\ NewOwner(q)'
    BY <2>1, <2>2, <2>3 DEF Ready, Fields, Target, NewOwner, InScope, AllKinds
  <2>6. Purged(q)'
    <3>1. op[q].purged \subseteq Todo
      BY <2>1 DEF Ops
    <3>2. \A t \in op'[q].purged : lock'[t] = q /\ todos'[t] = op'[q].subject
      BY <2>1, <2>2, <3>1 DEF Ready, Purged
    <3>3. op'[q].kind = "hardDelete" /\ pc'[q] \in {"references", "commit"}
            => excl'[op'[q].subject] = q
      BY <2>1, <2>3 DEF Ready, Fields, Purged
    <3>4. ASSUME op'[q].kind = "hardDelete", pc'[q] = "commit"
          PROVE  Left(q)' = {}
      <4>1. /\ op[q].subject \in User /\ excl[op[q].subject] = q
            /\ Left(q) = {}
        BY <2>1, <3>4 DEF Ready, Fields, Purged
      <4>2. share[op[q].subject] = {}
        BY <4>1, ConstantsOK DEF Inv, Shared
      <4>3. ASSUME NEW t \in Todo, todos'[t] = op[q].subject
            PROVE  todos[t] = op[q].subject
        BY <4>1, <4>2, <4>3, CommitGives
      <4> QED BY <2>1, <4>1, <4>3 DEF Left
    <3> QED BY <3>2, <3>3, <3>4 DEF Purged
  <2> QED BY <2>4, <2>5, <2>6 DEF Ready
<1> QED BY <1>2, <1>5, <1>6, <1>7 DEF Inv
-----------------------------------------------------------------------------
LEMMA Invariance == Spec => []Inv
<1>1. Inv /\ [Next]_vars => Inv'
  <2> SUFFICES ASSUME Inv, [Next]_vars PROVE Inv'
    OBVIOUS
  <2>1. ASSUME NEW r \in Request, Serve(r)
        PROVE  Inv'
    BY <2>1, AuthenticateKeepsInv, ReadKeepsInv, WriteKeepsInv, InsertKeepsInv,
       CheckOwnerKeepsInv, ScanKeepsInv, PurgeKeepsInv, DeleteUserKeepsInv,
       CheckReferencesKeepsInv, CommitKeepsInv, RollbackKeepsInv
       DEF Serve, DeadlockVictim
  <2>2. ASSUME NEW r \in Request, Send(r) \/ Fails(r)
        PROVE  Inv'
    BY <2>2, SendKeepsInv, RollbackKeepsInv DEF Fails
  <2>3. CASE UNCHANGED vars
    <3>1. TypeOK' /\ Shared'
      BY <2>3 DEF vars, Inv, TypeOK, Shared
    <3>2. ASSUME NEW q \in Request
          PROVE  Ready(q)'
      BY <2>3, StaysReady DEF vars, Inv
    <3> QED BY <3>1, <3>2 DEF Inv
  <2> QED BY <2>1, <2>2, <2>3, SetRoleKeepsInv DEF Next
<1> QED BY <1>1, InitInv, PTL DEF Spec

(* Every variable of the todo transactions keeps its type (TypeOK), whatever *)
(* interleaves, fails or is a deadlock's victim.                             *)
THEOREM TypeCorrect == Spec => []TypeOK
<1>1. Inv => TypeOK
  BY DEF Inv
<1> QED BY <1>1, Invariance, PTL

\* Only a commit changes a todo.
LEMMA OnlyCommits ==
  ASSUME Next
  PROVE  todos' = todos \/ \E r \in Request : Commit(r)
BY DEF Next, Send, Serve, Fails, SetRole, Authenticate, Read, Write, Insert,
       CheckOwner, Scan, Purge, DeleteUser, CheckReferences, DeadlockVictim,
       Rollback

(* No todo is without its owner (OwnersExist): the purge, the row locks and  *)
(* the foreign key make one of a hard deletion and a new todo of that user   *)
(* fail.  Assumes that the table is consistent to begin with, as Init does.  *)
THEOREM OwnersAlwaysExist == Spec => []OwnersExist
<1>1. Init => OwnersExist
  BY DEF Init, OwnersExist, Role
<1>2. Inv /\ OwnersExist /\ [Next]_vars => OwnersExist'
  <2> SUFFICES ASSUME Inv, OwnersExist, [Next]_vars, NEW t \in Todo, todos'[t] \in User
               PROVE  users'[todos'[t]] # "gone"
    BY DEF OwnersExist
  <2>1. ASSUME NEW r \in Request, Commit(r)
        PROVE  users'[todos'[t]] # "gone"
    <3>1. /\ users' = [u \in User |-> IF u = op[r].subject THEN "gone" ELSE users[u]]
          /\ pc[r] = "commit" /\ Ready(r) /\ Shared
      BY <2>1 DEF Commit, Inv
    <3>2. CASE todos'[t] # todos[t]
      <4>1. r \in share[todos'[t]] /\ todos'[t] = op[r].owner
        BY <2>1, <3>2, CommitGives
      <4>2. users[todos'[t]] # "gone"
        BY <3>1, <4>1 DEF Shared
      <4>3. todos'[t] # op[r].subject
        BY <3>1, <4>1, ConstantsOK DEF Ready, Fields
      <4> QED BY <3>1, <4>2, <4>3
    <3>3. CASE todos'[t] = todos[t]
      <4>1. users[todos[t]] # "gone"
        BY <3>3 DEF OwnersExist
      <4>2. todos[t] # op[r].subject
        <5>1. SUFFICES ASSUME todos[t] = op[r].subject PROVE FALSE
          OBVIOUS
        <5>2. op[r].kind = "hardDelete" /\ Left(r) = {}
          BY <3>1, <3>3, <5>1, ConstantsOK DEF Ready, Fields, Purged
        <5>3. t \in op[r].purged
          BY <5>1, <5>2 DEF Left
        <5>4. t # op[r].todo
          BY <3>1, <5>2, ConstantsOK DEF Ready, Fields
        <5>5. todos'[t] = "gone"
          BY <2>1, <5>3, <5>4 DEF Commit, Written
        <5> QED BY <5>5, ConstantsOK
      <4> QED BY <3>1, <3>3, <4>1, <4>2
    <3> QED BY <3>2, <3>3
  <2>2. ASSUME NEW u \in User, SetRole(u)
        PROVE  users'[todos'[t]] # "gone"
    BY <2>2 DEF SetRole, Inv, TypeOK, OwnersExist, Role
  <2>3. CASE users' = users /\ todos' = todos
    BY <2>3 DEF OwnersExist
  <2> QED
    BY <2>1, <2>2, <2>3
       DEF Next, Send, Serve, Fails, Authenticate, Read, Write, Insert,
           CheckOwner, Scan, Purge, DeleteUser, CheckReferences,
           DeadlockVictim, Rollback, vars
<1> QED BY <1>1, <1>2, Invariance, PTL DEF Spec

(* A request made as a user changes only a todo the user owns when it        *)
(* commits, and gives it to nobody else (UsersStayInScope).                  *)
THEOREM UsersStayInTheirScope == Spec => UsersStayInScope
<1> DEFINE Within(t, r) ==
             todos'[t] # todos[t] /\ pc[r] = "commit" /\ pc'[r] = "done"
             /\ op[r].role = "user"
               => /\ todos[t] \in {op[r].actor, "unused"}
                  /\ todos'[t] \in {op[r].actor, "gone"}
           Act == \A t \in Todo, r \in Request : Within(t, r)
<1>1. Inv /\ [Next]_vars => [Act]_vars
  <2> SUFFICES ASSUME Inv, Next, NEW t \in Todo, NEW r \in Request,
                      todos'[t] # todos[t], pc[r] = "commit", pc'[r] = "done",
                      op[r].role = "user"
               PROVE  /\ todos[t] \in {op[r].actor, "unused"}
                      /\ todos'[t] \in {op[r].actor, "gone"}
    OBVIOUS
  <2>1. PICK q \in Request : Commit(q)
    BY OnlyCommits
  <2>2. q = r
    BY <2>1 DEF Commit, Over, GoTo, Inv, TypeOK
  <2>3. Fields(r)
    BY DEF Inv, Ready
  <2>4. op[r].kind # "hardDelete"
    BY <2>3 DEF Fields
  <2>5. op[r].owner = op[r].actor
    BY <2>3, <2>4 DEF Fields
  <2> QED BY <2>1, <2>2, <2>4, <2>5, CommitWrites DEF InScope
<1> QED BY <1>1, Invariance, PTL DEF Spec, UsersStayInScope

(* A deleted todo never comes back (DeletedTodosStayDeleted): an update that *)
(* read it before the deletion finds no row.                                 *)
THEOREM DeletedTodosStay == Spec => DeletedTodosStayDeleted
<1> DEFINE Act == \A t \in Todo : todos[t] = "gone" => todos'[t] = "gone"
<1>1. Inv /\ [Next]_vars => [Act]_vars
  <2> SUFFICES ASSUME Inv, Next, NEW t \in Todo, todos[t] = "gone", todos'[t] # todos[t]
               PROVE  FALSE
    OBVIOUS
  <2>1. PICK r \in Request : Commit(r)
    BY OnlyCommits
  <2> QED BY <2>1, CommitWrites, ConstantsOK DEF InScope, Inv, Ready, Fields
<1> QED BY <1>1, Invariance, PTL DEF Spec, DeletedTodosStayDeleted
-----------------------------------------------------------------------------
(* The transactions are atomic: each step is one of Ownership, or none. *)

LEMMA SetRoleMaps ==
  ASSUME TypeOK, NEW u \in User, SetRole(u)
  PROVE  O!SetRole(u)
BY DEF SetRole, TypeOK, O!SetRole, O!Exists, Role, O!Role

\* What a hard deletion found and locked is all that its user owns.
LEMMA PurgedIsOwned ==
  ASSUME Inv, NEW r \in Request, Commit(r), op[r].kind = "hardDelete"
  PROVE  /\ op[r].subject \in User
         /\ users' = [users EXCEPT ![op[r].subject] = "gone"]
         /\ todos' = [t \in Todo |->
                        IF todos[t] = op[r].subject THEN "gone" ELSE todos[t]]
<1>1. /\ pc[r] = "commit" /\ Fields(r) /\ Purged(r)
      /\ todos' = [t \in Todo |-> Written(r, t)]
      /\ users' = [u \in User |-> IF u = op[r].subject THEN "gone" ELSE users[u]]
  BY DEF Commit, Inv, Ready
<1>2. op[r].subject \in User /\ op[r].todo = None
  BY <1>1 DEF Fields
<1>3. \A t \in Todo : t \in op[r].purged <=> todos[t] = op[r].subject
  BY <1>1 DEF Purged, Left
<1>4. ASSUME NEW t \in Todo
      PROVE  Written(r, t) = IF todos[t] = op[r].subject THEN "gone" ELSE todos[t]
  BY <1>2, <1>3, ConstantsOK DEF Written
<1>5. users' = [users EXCEPT ![op[r].subject] = "gone"]
  BY <1>1 DEF Inv, TypeOK
<1> QED BY <1>1, <1>2, <1>4, <1>5

\* Any other request writes one todo, and no user.
LEMMA OneTodoIsWritten ==
  ASSUME Inv, NEW r \in Request, Commit(r), op[r].kind # "hardDelete"
  PROVE  /\ op[r].todo \in Todo
         /\ users' = users
         /\ todos' = [todos EXCEPT ![op[r].todo] = todos'[op[r].todo]]
<1>1. /\ pc[r] = "commit" /\ Fields(r)
      /\ todos' = [t \in Todo |-> Written(r, t)]
      /\ users' = [u \in User |-> IF u = op[r].subject THEN "gone" ELSE users[u]]
  BY DEF Commit, Inv, Ready
<1>2. op[r].todo \in Todo /\ op[r].subject \notin User /\ op[r].purged = {}
  BY <1>1, ConstantsOK DEF Fields
<1>3. users' = users
  BY <1>1, <1>2 DEF Inv, TypeOK
<1>4. \A t \in Todo : t # op[r].todo => Written(r, t) = todos[t]
  BY <1>2 DEF Written
<1> QED BY <1>1, <1>2, <1>3, <1>4 DEF Inv, TypeOK

LEMMA CommitMaps ==
  ASSUME Inv, OwnersExist, NEW r \in Request, Commit(r)
  PROVE  O!Next \/ UNCHANGED <<users, todos>>
<1>1. Shared /\ TypeOK
  BY DEF Inv
<1>2. CASE op[r].kind = "hardDelete"
  <2> DEFINE u == op[r].subject
  <2>1. /\ u \in User
        /\ users' = [users EXCEPT ![u] = "gone"]
        /\ todos' = [t \in Todo |-> IF todos[t] = u THEN "gone" ELSE todos[t]]
    BY <1>2, PurgedIsOwned
  <2> HIDE DEF u
  <2>2. CASE users[u] = "gone"
    <3>1. users' = users
      BY <1>1, <2>1, <2>2 DEF TypeOK
    <3>2. \A t \in Todo : todos[t] # u
      BY <2>1, <2>2 DEF OwnersExist
    <3>3. todos' = todos
      BY <1>1, <2>1, <3>2 DEF TypeOK
    <3> QED BY <3>1, <3>3
  <2>3. CASE users[u] # "gone"
    <3>1. O!DeleteUser(u)
      BY <1>1, <2>1, <2>3 DEF O!DeleteUser, O!Exists, O!Role, TypeOK, Role
    <3> QED BY <2>1, <3>1 DEF O!Next
  <2> QED BY <2>2, <2>3
<1>3. CASE op[r].kind # "hardDelete"
  <2> DEFINE t == op[r].todo
             u == op[r].owner
  <2>1. /\ t \in Todo /\ users' = users
        /\ todos' = [todos EXCEPT ![t] = todos'[t]]
    BY <1>3, OneTodoIsWritten
  <2>2. CASE todos'[t] = todos[t]
    BY <1>1, <2>1, <2>2 DEF TypeOK
  <2>3. CASE todos'[t] # todos[t]
    <3>1. \/ todos[t] = "unused" /\ todos'[t] = u
          \/ InScope(r, todos[t]) /\ todos'[t] = "gone"
          \/ InScope(r, todos[t]) /\ todos'[t] = u
      BY <1>3, <2>1, <2>3, CommitWrites
    <3>2. CASE InScope(r, todos[t]) /\ todos'[t] = "gone"
      <4>1. O!Delete(t)
        BY <2>1, <3>2 DEF O!Delete, InScope
      <4> QED BY <2>1, <4>1 DEF O!Next
    <3>3. CASE todos'[t] = u
      <4>1. pc[r] = "commit" /\ Fields(r)
        BY DEF Commit, Inv, Ready
      <4>2. u \in User
        BY <1>3, <4>1 DEF Fields
      <4>3. r \in share[u]
        BY <2>1, <2>3, <3>3, <4>2, CommitGives
      <4>4. O!Exists(u)
        BY <1>1, <4>2, <4>3 DEF Shared, TypeOK, Role, O!Exists, O!Role
      <4>5. CASE todos[t] = "unused"
        <5>1. O!Create(t, u)
          BY <2>1, <3>3, <4>4, <4>5 DEF O!Create
        <5> QED BY <2>1, <4>2, <5>1 DEF O!Next
      <4>6. CASE InScope(r, todos[t])
        <5>1. O!Reassign(t, u)
          BY <2>1, <3>3, <4>4, <4>6 DEF O!Reassign, InScope
        <5> QED BY <2>1, <4>2, <5>1 DEF O!Next
      <4> QED BY <3>1, <4>5, <4>6, <3>3, <4>2, ConstantsOK
    <3> QED BY <3>1, <3>2, <3>3
  <2> QED BY <2>2, <2>3
<1> QED BY <1>2, <1>3

(* Every behaviour of the transactions is one of Ownership                   *)
(* (ImplementsOwnership): each request takes effect at once when it commits, *)
(* gives todos only to users who exist, and a hard deletion takes exactly    *)
(* what its user owns by then.                                               *)
THEOREM Atomic == Spec => ImplementsOwnership
<1>1. Init => O!Init
  BY DEF Init, O!Init, Role, O!Role
<1>2. Inv /\ OwnersExist /\ [Next]_vars => [O!Next]_<<users, todos>>
  <2> SUFFICES ASSUME Inv, OwnersExist, Next
               PROVE  O!Next \/ UNCHANGED <<users, todos>>
    BY DEF vars
  <2>1. CASE \E r \in Request : Commit(r)
    BY <2>1, CommitMaps
  <2>2. CASE \E u \in User : SetRole(u)
    BY <2>2, SetRoleMaps DEF O!Next, Inv
  <2> QED
    BY <2>1, <2>2
       DEF Next, Send, Serve, Fails, Authenticate, Read, Write, Insert,
           CheckOwner, Scan, Purge, DeleteUser, CheckReferences,
           DeadlockVictim, Rollback
<1> QED BY <1>1, <1>2, Invariance, OwnersAlwaysExist, PTL
       DEF Spec, ImplementsOwnership, O!Spec

(* Ownership alone keeps owners (OwnersExist) and deleted todos deleted      *)
(* (DeletedTodosStayDeleted): with Atomic, both are owed to what a request   *)
(* does as a whole, and nothing else about its statements matters for them.  *)
THEOREM OwnershipSuffices ==
  O!Spec => []OwnersExist /\ DeletedTodosStayDeleted
<1> DEFINE IInv == /\ users \in [User -> Role \cup {"gone"}]
                   /\ todos \in [Todo -> User \cup {"unused", "gone"}]
                   /\ OwnersExist
           Act == \A t \in Todo : todos[t] = "gone" => todos'[t] = "gone"
<1>1. O!Init => IInv
  BY DEF O!Init, OwnersExist, O!Role, Role
<1>2. IInv /\ [O!Next]_<<users, todos>> => IInv' /\ [Act]_<<users, todos>>
  <2> SUFFICES ASSUME IInv, [O!Next]_<<users, todos>> PROVE IInv' /\ Act
    OBVIOUS
  <2> USE ConstantsOK DEF OwnersExist, O!Exists, O!Role, Role
  <2>1. ASSUME NEW t \in Todo, O!Delete(t)
        PROVE  IInv' /\ Act
    BY <2>1 DEF O!Delete
  <2>2. ASSUME NEW t \in Todo, NEW u \in User, O!Create(t, u) \/ O!Reassign(t, u)
        PROVE  IInv' /\ Act
    BY <2>2 DEF O!Create, O!Reassign
  <2>3. ASSUME NEW u \in User, O!SetRole(u)
        PROVE  IInv' /\ Act
    BY <2>3 DEF O!SetRole
  <2>4. ASSUME NEW u \in User, O!DeleteUser(u)
        PROVE  IInv' /\ Act
    BY <2>4 DEF O!DeleteUser
  <2>5. CASE UNCHANGED <<users, todos>>
    BY <2>5
  <2> QED BY <2>1, <2>2, <2>3, <2>4, <2>5 DEF O!Next
<1>3. IInv => OwnersExist
  OBVIOUS
<1>4. [Act]_<<users, todos>> => [Act]_vars
  <2>1. UNCHANGED <<users, todos>> => Act
    OBVIOUS
  <2> QED BY <2>1
<1> QED BY <1>1, <1>2, <1>3, <1>4, PTL DEF O!Spec, DeletedTodosStayDeleted
=============================================================================
