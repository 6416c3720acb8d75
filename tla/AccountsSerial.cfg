\* Three requests, one after the other.
SPECIFICATION Spec
CONSTANTS
  User = {a1, u1}
  Admin = {a1}
  Request = {q1, q2, q3}
  None = None
  Kind = {"read", "self", "replace", "patch", "deactivate", "hardDelete"}
  Serial = TRUE
  MaxTokens = 2
SYMMETRY Symmetry
INVARIANTS
  OldTokensRejected
  CacheFresh
PROPERTIES
  OnlyAdminsGrant
  DeletionLeavesAdmin
\* Clients may stop at any time.
CHECK_DEADLOCK FALSE
