------------------------------ MODULE Listing -------------------------------
(***************************************************************************)
(* GET /todos page by page: a client follows next_last_id from the first   *)
(* page to the last while todos are created, deleted and reassigned and    *)
(* the client's own role changes.  Each page is a request of its own: it   *)
(* authenticates, which reads the role, and then cuts the page with one    *)
(* SELECT ... WHERE id > last_id ORDER BY id LIMIT limit + 1.              *)
(***************************************************************************)
EXTENDS Integers, FiniteSets

CONSTANTS
  Id,       \* todo ids, in their order; UUIDs of version 7
  User,     \* user ids
  Actor,    \* the user whose client lists
  Limit     \* the page sizes asked for, within pagination_max_limit

ASSUME ConstantsOK ==
  /\ Id \subseteq Nat \ {0}
  /\ Actor \in User
  /\ {"unused", "gone"} \cap User = {}
  /\ Limit \subseteq Nat \ {0}

VARIABLES
  owner,    \* the table: each todo's owner, or "unused", or "gone"
  role,     \* the actor's role in the users table
  pc,       \* where the client stands: between listings, or in a request
  as,       \* the role that the request in flight has read
  cursor,   \* the last_id to send, 0 for the first page
  times,    \* history: how often this listing returned each todo
  stable    \* history: what has been in scope since this listing began

vars == <<owner, role, pc, as, cursor, times, stable>>
-----------------------------------------------------------------------------
Role == {"user", "admin"}
Owners == User \cup {"unused", "gone"}

TypeOK ==
  /\ owner \in [Id -> Owners]
  /\ role \in Role
  /\ pc \in {"idle", "auth", "page", "ended"}
  /\ as \in Role
  /\ cursor \in Id \cup {0}
  /\ times \in [Id -> Nat]
  /\ stable \subseteq Id

\* The WHERE clause with list_owner_filter, on the table own.
InScope(own, r) == {i \in Id : own[i] \in User /\ (r = "admin" \/ own[i] = Actor)}

Init ==
  /\ owner \in [Id -> User \cup {"unused"}]
  /\ role \in Role
  /\ pc = "idle"
  /\ as = "user"
  /\ cursor = 0
  /\ times = [i \in Id |-> 0]
  /\ stable = {}
-----------------------------------------------------------------------------
\* What others do to the table meanwhile; ids are never used again, and a
\* transaction may commit an older id after a newer one.
Change(i, u) ==
  /\ \/ owner[i] = "unused" /\ u \in User
     \/ owner[i] \in User /\ u \in User \cup {"gone"}
  /\ owner' = [owner EXCEPT ![i] = u]
  /\ stable' = stable \cap InScope(owner', role)
                      \cap (IF pc = "page" THEN InScope(owner', as) ELSE Id)
  /\ UNCHANGED <<role, pc, as, cursor, times>>

ChangeRole(r) ==
  /\ role' = r
  /\ stable' = stable \cap InScope(owner, r)
  /\ UNCHANGED <<owner, pc, as, cursor, times>>

\* The client begins a listing, without last_id.
Start ==
  /\ pc \in {"idle", "ended"}
  /\ pc' = "auth"
  /\ cursor' = 0
  /\ times' = [i \in Id |-> 0]
  /\ stable' = InScope(owner, role)
  /\ UNCHANGED <<owner, role, as>>

\* get_current_user.
Authenticate ==
  /\ pc = "auth"
  /\ as' = role
  /\ pc' = "page"
  /\ UNCHANGED <<owner, role, cursor, times, stable>>

\* ORDER BY id LIMIT n, and the slice rows[:n].
Lowest(S, n) == {i \in S : Cardinality({j \in S : j < i}) < n}

\* Mutant of After: the page starts with the last todo of the one before.
AfterOrAt(last) == {i \in InScope(owner, as) : i >= last}

\* WHERE id > last_id.
After(last) == {i \in InScope(owner, as) : i > last}

\* Mutant of Rows: no row beyond the page is asked for.
RowsOfPage(last, limit) == Lowest(After(last), limit)

Rows(last, limit) == Lowest(After(last), limit + 1)

Last(S) == CHOOSE i \in S : \A j \in S : j <= i

\* Mutant of NextLastId: the last row fetched instead of the last returned.
NextLastIdOfRows(rows, page) == Last(rows)

\* page_rows[-1].id.
NextLastId(rows, page) == Last(page)

\* list_page.  When it has more, the client goes on with next_last_id;
\* otherwise next_last_id is null and the listing is complete.
Page(limit) ==
  /\ pc = "page"
  /\ LET rows == Rows(cursor, limit)
         page == Lowest(rows, limit)
     IN /\ times' = [i \in Id |-> IF i \in page THEN times[i] + 1 ELSE times[i]]
        /\ IF Cardinality(rows) > limit
           THEN pc' = "auth" /\ cursor' = NextLastId(rows, page)
           ELSE pc' = "ended" /\ UNCHANGED cursor
  /\ UNCHANGED <<owner, role, as, stable>>

\* The answer is lost or the request fails: the client asks for the page again.
Retry ==
  /\ pc = "page"
  /\ pc' = "auth"
  /\ UNCHANGED <<owner, role, as, cursor, times, stable>>

Next ==
  \/ \E i \in Id, u \in User \cup {"gone"} : Change(i, u)
  \/ \E r \in Role : ChangeRole(r)
  \/ Start \/ Authenticate \/ Retry
  \/ \E limit \in Limit : Page(limit)

Spec == Init /\ [][Next]_vars
-----------------------------------------------------------------------------
\* No listing returns a todo twice, whatever is created, deleted or
\* reassigned between two pages (id > last_id over ORDER BY id).
NoneTwice == \A i \in Id : times[i] <= 1

\* A listing that is complete has returned every todo that was in scope from
\* its first page to its last: a deletion before the cursor shifts no todo
\* out of a page, as it would with an offset.
AllListed == pc = "ended" => \A i \in stable : times[i] >= 1

\* A client that goes on gets further: each page that has a successor moves
\* last_id forward, so a listing ends unless new todos keep coming.
CursorAdvances == [][pc = "page" /\ pc' = "auth" /\ times' # times
                       => cursor' > cursor]_vars
=============================================================================
