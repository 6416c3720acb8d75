\* Two requests of any kind that interleave.
SPECIFICATION FairSpec
CONSTANTS
  User = {a1, u1}
  Admin = {a1}
  Request = {q1, q2}
  None = None
  Kind = {"read", "self", "replace", "patch", "deactivate", "hardDelete"}
  Serial = FALSE
  MaxTokens = 2
INVARIANTS
  LocksAreHeld
  PasswordKeepsTokens
PROPERTIES
  NoResurrection
  RequestsEnd
\* Clients may stop at any time.
CHECK_DEADLOCK FALSE
