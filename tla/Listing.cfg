\* Four ids, two users, pages of one or two todos.
SPECIFICATION Spec
CONSTANTS
  Id <- Ids
  User = {u1, u2}
  Actor = u1
  Limit = {1, 2}
INVARIANTS
  NoneTwice
  AllListed
\* The client may stop at any time.
CHECK_DEADLOCK FALSE
