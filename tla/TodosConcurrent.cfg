\* Two requests of any kind that interleave.
SPECIFICATION FairSpec
CONSTANTS
  User = {u1, u2}
  Todo = {t1, t2}
  Request = {q1, q2}
  None = None
  Kind = {"create", "update", "delete", "hardDelete"}
INVARIANTS
  OwnersExist
PROPERTIES
  UsersStayInScope
  DeletedTodosStayDeleted
  ImplementsOwnership
  RequestsEnd
\* Clients may stop at any time.
CHECK_DEADLOCK FALSE
