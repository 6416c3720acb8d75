---------------------------- MODULE ListingProofs -----------------------------
(***************************************************************************)
(* Proofs about module Listing, for any finite set of ids, any users and   *)
(* any page sizes: no listing returns a todo twice, a complete one has     *)
(* returned all that stayed in scope, and every page moves the cursor on.  *)
(***************************************************************************)
EXTENDS Listing, FiniteSetTheorems, WellFoundedInduction, TLAPS

(* What ORDER BY id LIMIT n returns. *)

\* A set of ids that is not empty has a smallest one.
LEMMA Smallest ==
  ASSUME NEW S \in SUBSET Nat, S # {}
  PROVE  \E i \in S : \A j \in S : i <= j
<1> DEFINE R == OpToRel(<, Nat)
<1>1. IsWellFoundedOn(R, Nat)
  BY NatLessThanWellFounded
<1>2. \A i, j \in Nat : i < j => <<i, j>> \in R
  BY DEF OpToRel
<1> HIDE DEF R
<1>3. PICK i \in S : \A j \in S : ~(<<j, i>> \in R)
  BY <1>1, WFMin
<1>4. ASSUME NEW j \in S PROVE i <= j
  <2>1. i \in Nat /\ j \in Nat
    OBVIOUS
  <2>2. ~(j < i)
    BY <1>2, <1>3, <2>1
  <2> QED BY <2>1, <2>2
<1> QED BY <1>4

Below(S, i) == {j \in S : j < i}

LEMMA BelowFinite ==
  ASSUME NEW S, IsFiniteSet(S), NEW i
  PROVE  /\ IsFiniteSet(Below(S, i))
         /\ Cardinality(Below(S, i)) \in Nat
         /\ Cardinality(Below(S, i)) <= Cardinality(S)
         /\ Cardinality(S) \in Nat
<1>1. Below(S, i) \in SUBSET S
  BY DEF Below
<1> QED BY <1>1, FS_Subset, FS_CardinalityType

\* ... and, if it is finite, a largest one.
LEMMA Largest ==
  ASSUME NEW S \in SUBSET Nat, S # {}, IsFiniteSet(S)
  PROVE  Last(S) \in S /\ \A j \in S : j <= Last(S)
<1> DEFINE Above(i) == Cardinality(S) - Cardinality(Below(S, i))
           Counts == {Above(i) : i \in S}
<1>0. \A i \in S : i \in Nat
  OBVIOUS
<1>1. \A i \in S : Above(i) \in Nat
  BY BelowFinite
<1>2. Counts \in SUBSET Nat /\ Counts # {}
  BY <1>1
<1>3. PICK c \in Counts : \A d \in Counts : c <= d
  <2> HIDE DEF Counts
  <2> QED BY <1>2, Smallest
<1>4. PICK i \in S : \A j \in S : Above(i) <= Above(j)
  BY <1>3
<1>5. ASSUME NEW j \in S, i < j
      PROVE  FALSE
  <2>1. i \notin Below(S, i) /\ Below(S, i) \cup {i} \in SUBSET Below(S, j)
    <3>1. ASSUME NEW k \in S, k < i \/ k = i
          PROVE  k < j
      BY <1>0, <1>5, <3>1
    <3>2. ~(i < i)
      BY <1>0
    <3> QED BY <1>5, <3>1, <3>2 DEF Below
  <2>2. Cardinality(Below(S, i) \cup {i}) = Cardinality(Below(S, i)) + 1
    BY <2>1, BelowFinite, FS_AddElement
  <2>3. Cardinality(Below(S, i) \cup {i}) <= Cardinality(Below(S, j))
    BY <2>1, BelowFinite, FS_Subset
  <2> QED BY <1>4, <2>2, <2>3, BelowFinite
<1>6. \A j \in S : j <= i
  BY <1>5
<1> QED BY <1>6 DEF Last

\* A page skips nothing: with a todo it has all the earlier ones.
LEMMA LowestIsPrefix ==
  ASSUME NEW S \in SUBSET Nat, IsFiniteSet(S), NEW n \in Nat
  PROVE  /\ Lowest(S, n) \subseteq S
         /\ \A i \in Lowest(S, n), j \in S : j < i => j \in Lowest(S, n)
<1>0. \A i \in S : i \in Nat
  OBVIOUS
<1>1. ASSUME NEW i \in Lowest(S, n), NEW j \in S, j < i
      PROVE  j \in Lowest(S, n)
  <2>1. Below(S, j) \in SUBSET Below(S, i) /\ i \in S
    <3>1. i \in S
      BY DEF Lowest
    <3>2. ASSUME NEW k \in S, k < j
          PROVE  k < i
      BY <1>0, <1>1, <3>1, <3>2
    <3> QED BY <3>1, <3>2 DEF Below
  <2>2. Cardinality(Below(S, j)) <= Cardinality(Below(S, i))
    BY <2>1, BelowFinite, FS_Subset
  <2>3. Cardinality(Below(S, i)) < n
    BY DEF Lowest, Below
  <2>4. Cardinality(Below(S, j)) < n
    BY <2>2, <2>3, BelowFinite
  <2> QED BY <2>4 DEF Lowest, Below
<1> QED BY <1>1 DEF Lowest

\* LIMIT n + 1 that returns no more than n rows has returned all of them.
LEMMA ShortLowestIsAll ==
  ASSUME NEW S \in SUBSET Nat, IsFiniteSet(S), NEW n \in Nat,
         Cardinality(Lowest(S, n + 1)) <= n
  PROVE  Lowest(Lowest(S, n + 1), n) = S
<1> DEFINE L == Lowest(S, n + 1)
<1>1. L \in SUBSET S /\ IsFiniteSet(L) /\ Cardinality(L) \in Nat
  BY FS_Subset, FS_CardinalityType DEF Lowest
<1>2. S \subseteq L
  <2>1. SUFFICES ASSUME S \ L # {} PROVE FALSE
    BY DEF Lowest
  <2>2. PICK i \in S \ L : \A j \in S \ L : i <= j
    <3>1. S \ L \in SUBSET Nat
      OBVIOUS
    <3> HIDE DEF L
    <3> QED BY <2>1, <3>1, Smallest
  <2>3. Below(S, i) \in SUBSET L
    <3>1. ASSUME NEW j \in S \ L PROVE ~(j < i)
      <4>1. i \in Nat /\ j \in Nat
        OBVIOUS
      <4> QED BY <2>2, <4>1
    <3> HIDE DEF L
    <3> QED BY <3>1 DEF Below
  <2>4. Cardinality(Below(S, i)) <= Cardinality(L)
    <3> HIDE DEF L
    <3> QED BY <1>1, <2>3, FS_Subset
  <2>5. ~(Cardinality(Below(S, i)) < n + 1)
    BY <2>2 DEF Lowest, Below
  <2> QED BY <1>1, <2>4, <2>5, BelowFinite
<1>3. ASSUME NEW i \in L
      PROVE  Cardinality(Below(L, i)) < n
  <2> HIDE DEF L
  <2>1. Below(L, i) \in SUBSET (L \ {i})
    BY <1>1 DEF Below
  <2>2. Cardinality(L \ {i}) = Cardinality(L) - 1 /\ IsFiniteSet(L \ {i})
    BY <1>1, <1>3, FS_RemoveElement
  <2>3. Cardinality(Below(L, i)) <= Cardinality(L \ {i})
    BY <2>1, <2>2, FS_Subset
  <2>4. Cardinality(L) <= n
    BY DEF L
  <2> QED BY <1>1, <2>2, <2>3, <2>4, BelowFinite
<1>4. Lowest(L, n) = L
  BY <1>3 DEF Lowest, Below
<1> QED BY <1>1, <1>2, <1>4
\* Ids are positive.
LEMMA IdsArePositive == Id \in SUBSET Nat /\ \A i \in Id : i \in Nat /\ i > 0
<1>1. \A i \in Id : i \in Nat \ {0}
  BY ConstantsOK
<1> QED BY <1>1

(* What a page means to the listing: it takes a prefix of the rows after     *)
(* the cursor, all of them if it is the last one.                            *)
LEMMA PageMoves ==
  ASSUME IsFiniteSet(Id), TypeOK, NEW limit \in Limit
  PROVE  LET rows == Rows(cursor, limit)
             page == Lowest(rows, limit)
         IN /\ page \subseteq After(cursor)
            /\ Cardinality(rows) > limit =>
                 /\ Last(page) \in page /\ Last(page) \in Id
                 /\ Last(page) > cursor
                 /\ \A j \in page : j <= Last(page)
                 /\ \A j \in After(cursor) : j <= Last(page) => j \in page
            /\ ~(Cardinality(rows) > limit) => page = After(cursor)
<1> DEFINE S == After(cursor)
           rows == Rows(cursor, limit)
           page == Lowest(rows, limit)
<1>1. S \subseteq Id /\ Id \in SUBSET Nat /\ limit \in Nat /\ limit > 0
  <2>1. limit \in Nat \ {0}
    BY ConstantsOK
  <2>2. limit \in Nat /\ limit > 0
    BY <2>1
  <2>3. S \subseteq Id
    BY DEF After, InScope
  <2> QED BY <2>2, <2>3, IdsArePositive
<1>2. IsFiniteSet(S)
  BY <1>1, FS_Subset
<1>3. rows = Lowest(S, limit + 1)
  BY DEF Rows
<1> HIDE DEF S, rows
<1>4. /\ rows \subseteq S
      /\ \A i \in rows, j \in S : j < i => j \in rows
  BY <1>1, <1>2, <1>3, LowestIsPrefix
<1>5. IsFiniteSet(rows) /\ rows \subseteq Nat /\ Cardinality(rows) \in Nat
  BY <1>1, <1>2, <1>4, FS_Subset, FS_CardinalityType
<1>6. /\ page \subseteq rows
      /\ \A i \in page, j \in rows : j < i => j \in page
  BY <1>1, <1>5, LowestIsPrefix
<1>7. IsFiniteSet(page) /\ page \subseteq Nat
  BY <1>5, <1>6, FS_Subset
<1>8. ASSUME Cardinality(rows) > limit
      PROVE  /\ Last(page) \in page /\ Last(page) \in Id
             /\ Last(page) > cursor
             /\ \A j \in page : j <= Last(page)
             /\ \A j \in S : j <= Last(page) => j \in page
  <2>1. rows # {}
    BY <1>1, <1>8, FS_EmptySet
  <2>2. PICK i \in rows : \A j \in rows : i <= j
    BY <1>5, <2>1, Smallest
  <2>3. {j \in rows : j < i} = {}
    <3>1. \A j \in rows : j \in Nat
      BY <1>5
    <3>2. \A j \in rows : ~(j < i)
      BY <2>2, <3>1
    <3> QED BY <3>2
  <2>4. i \in page
    BY <1>1, <2>3, FS_EmptySet DEF Lowest
  <2> HIDE DEF page
  <2>5. Last(page) \in page /\ \A j \in page : j <= Last(page)
    BY <1>7, <2>4, Largest
  <2>6. Last(page) \in S
    BY <1>4, <1>6, <2>5
  <2>7. Last(page) > cursor
    BY <2>6 DEF S, After
  <2>8. ASSUME NEW j \in S, j <= Last(page)
        PROVE  j \in page
    <3>1. j \in Nat /\ Last(page) \in Nat
      BY <1>1, <2>6
    <3>2. CASE j = Last(page)
      BY <2>5, <3>2
    <3>3. CASE j < Last(page)
      BY <1>4, <1>6, <2>5, <3>3
    <3> QED BY <2>8, <3>1, <3>2, <3>3
  <2> QED BY <1>1, <2>5, <2>6, <2>7, <2>8
<1>9. ASSUME ~(Cardinality(rows) > limit)
      PROVE  page = S
  <2>1. Cardinality(Lowest(S, limit + 1)) <= limit
    BY <1>1, <1>3, <1>5, <1>9
  <2> QED BY <1>1, <1>2, <1>3, <2>1, ShortLowestIsAll
<1> QED BY <1>4, <1>6, <1>8, <1>9 DEF S, rows
-----------------------------------------------------------------------------
(* The invariant: a listing in progress has returned, once each, only todos *)
(* up to its cursor, and among them all that have stayed in scope.         *)
Bound(i) == pc = "ended" \/ i <= cursor

InvL ==
  /\ pc = "idle" => stable = {}
  /\ stable \subseteq InScope(owner, role)
  /\ pc = "page" => stable \subseteq InScope(owner, as)
  /\ \A i \in Id : times[i] = 0 \/ (times[i] = 1 /\ Bound(i))
  /\ \A i \in stable : Bound(i) => times[i] = 1

LEMMA TypeInvariant == ASSUME IsFiniteSet(Id) PROVE Spec => []TypeOK
<1>1. Init => TypeOK
  BY DEF Init, TypeOK, Owners, Role
<1>2. TypeOK /\ [Next]_vars => TypeOK'
  <2> SUFFICES ASSUME TypeOK, [Next]_vars PROVE TypeOK'
    OBVIOUS
  <2>1. ASSUME NEW i \in Id, NEW u \in User \cup {"gone"}, Change(i, u)
        PROVE  TypeOK'
    BY <2>1 DEF Change, TypeOK, Owners
  <2>2. ASSUME NEW r \in Role, ChangeRole(r)
        PROVE  TypeOK'
    BY <2>2 DEF ChangeRole, TypeOK
  <2>3. CASE Start
    BY <2>3 DEF Start, TypeOK, InScope
  <2>4. CASE Authenticate \/ Retry
    BY <2>4 DEF Authenticate, Retry, TypeOK
  <2>5. ASSUME NEW limit \in Limit, Page(limit)
        PROVE  TypeOK'
    <3>1. cursor' \in Id \cup {0} /\ pc' \in {"auth", "ended"}
      BY <2>5, PageMoves DEF Page, NextLastId, TypeOK
    <3>2. times' \in [Id -> Nat]
      BY <2>5 DEF Page, TypeOK
    <3> QED BY <2>5, <3>1, <3>2 DEF Page, TypeOK
  <2> QED BY <2>1, <2>2, <2>3, <2>4, <2>5 DEF Next, TypeOK, vars
<1> QED BY <1>1, <1>2, PTL DEF Spec

(* Every variable of a listing keeps its type (TypeOK), for any finite set   *)
(* of ids.                                                                   *)
THEOREM TypeCorrect == ASSUME IsFiniteSet(Id) PROVE Spec => []TypeOK
BY TypeInvariant

LEMMA ListingInvariant ==
  ASSUME IsFiniteSet(Id)
  PROVE  Spec => []InvL
<1>1. Init => InvL
  BY DEF Init, InvL
<1>2. TypeOK /\ InvL /\ [Next]_vars => InvL'
  <2> SUFFICES ASSUME TypeOK, InvL, [Next]_vars PROVE InvL'
    OBVIOUS
  <2>1. ASSUME NEW i \in Id, NEW u \in User \cup {"gone"}, Change(i, u)
        PROVE  InvL'
    BY <2>1 DEF Change, InvL, Bound
  <2>2. ASSUME NEW r \in Role, ChangeRole(r)
        PROVE  InvL'
    BY <2>2 DEF ChangeRole, InvL, Bound, InScope
  <2>3. CASE Start
    <3>1. \A i \in Id : ~(i <= 0)
      BY IdsArePositive
    <3> QED BY <2>3, <3>1 DEF Start, InvL, Bound, InScope, TypeOK
  <2>4. CASE Authenticate \/ Retry
    BY <2>4 DEF Authenticate, Retry, InvL, Bound, InScope
  <2>5. ASSUME NEW limit \in Limit, Page(limit)
        PROVE  InvL'
    <3> DEFINE page == Lowest(Rows(cursor, limit), limit)
    <3>1. /\ times' = [i \in Id |-> IF i \in page THEN times[i] + 1 ELSE times[i]]
          /\ pc = "page" /\ pc' \in {"auth", "ended"}
          /\ UNCHANGED <<owner, role, as, stable>>
      BY <2>5 DEF Page
    <3>2. /\ page \subseteq After(cursor)
          /\ pc' = "auth" => /\ cursor' \in page /\ cursor' > cursor
                             /\ \A j \in page : j <= cursor'
                             /\ \A j \in After(cursor) : j <= cursor' => j \in page
          /\ pc' = "ended" => page = After(cursor)
      BY <2>5, PageMoves DEF Page, NextLastId
    <3> HIDE DEF page
    <3>3. cursor \in Nat /\ cursor' \in Nat /\ \A i \in Id : i \in Nat
      <4>1. cursor \in Id \cup {0} /\ (cursor' \in Id \/ cursor' = cursor)
        BY <2>5, <3>2 DEF TypeOK, After, InScope, Page, page
      <4>2. \A i \in Id : i \in Nat
        BY IdsArePositive
      <4> QED BY <4>1, <4>2
    <3>4. \A i \in page : i > cursor /\ i \in Id /\ times[i] = 0
      <4>1. \A i \in page : i > cursor /\ i \in Id
        BY <3>2 DEF After, InScope
      <4>2. \A i \in page : ~(i <= cursor)
        BY <3>3, <4>1
      <4> QED BY <3>1, <4>1, <4>2 DEF InvL, Bound
    <3>5. ASSUME NEW i \in Id
          PROVE  times'[i] = 0 \/ (times'[i] = 1 /\ Bound(i)')
      <4>1. CASE i \in page
        BY <3>1, <3>2, <3>4, <4>1 DEF Bound
      <4>2. CASE i \notin page
        BY <3>1, <3>2, <3>3, <4>2 DEF Bound, InvL
      <4> QED BY <4>1, <4>2
    <3>6. ASSUME NEW i \in stable, Bound(i)'
          PROVE  times'[i] = 1
      <4>1. i \in Id /\ i \in InScope(owner, as)
        BY <3>1 DEF InvL, TypeOK
      <4>2. CASE i <= cursor
        BY <3>1, <3>3, <3>4, <4>1, <4>2 DEF InvL, Bound
      <4>3. CASE i > cursor
        <5>1. i \in page
          BY <3>1, <3>2, <3>6, <4>1, <4>3 DEF After, Bound
        <5> QED BY <3>1, <3>4, <5>1
      <4> QED BY <3>3, <4>1, <4>2, <4>3
    <3> QED BY <3>1, <3>5, <3>6 DEF InvL
  <2>6. CASE UNCHANGED vars
    BY <2>6 DEF vars, InvL, Bound, InScope
  <2> QED BY <2>1, <2>2, <2>3, <2>4, <2>5, <2>6 DEF Next
<1> QED BY <1>1, <1>2, TypeInvariant, PTL DEF Spec

(* Whatever is created, deleted or reassigned while a client follows the     *)
(* pages, none of them repeats a todo (NoneTwice: id > last_id).             *)
THEOREM NoPageRepeats ==
  ASSUME IsFiniteSet(Id)
  PROVE  Spec => []NoneTwice
<1>1. InvL => NoneTwice
  BY DEF InvL, NoneTwice
<1> QED BY <1>1, ListingInvariant, PTL

(* A listing that has come to its end has returned every todo that was in    *)
(* scope throughout (AllListed: list_page and its next_last_id).             *)
THEOREM CompleteListing ==
  ASSUME IsFiniteSet(Id)
  PROVE  Spec => []AllListed
<1>1. InvL => AllListed
  BY DEF InvL, AllListed, Bound
<1> QED BY <1>1, ListingInvariant, PTL

(* Each page that has a successor moves the cursor forward (CursorAdvances:  *)
(* next_last_id is the last id of a page that is not empty).                 *)
THEOREM CursorAlwaysAdvances ==
  ASSUME IsFiniteSet(Id)
  PROVE  Spec => CursorAdvances
<1> DEFINE Moves == pc = "page" /\ pc' = "auth" /\ times' # times
                      => cursor' > cursor
<1>1. TypeOK /\ [Next]_vars => [Moves]_vars
  <2> SUFFICES ASSUME TypeOK, Next, pc = "page", pc' = "auth", times' # times
               PROVE  cursor' > cursor
    OBVIOUS
  <2>1. PICK limit \in Limit : Page(limit)
    BY DEF Next, Change, ChangeRole, Start, Authenticate, Retry
  <2> QED BY <2>1, PageMoves DEF Page, NextLastId
<1> QED BY <1>1, TypeInvariant, PTL DEF Spec, CursorAdvances
=============================================================================
