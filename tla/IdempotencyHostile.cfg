\* Every call may raise and a handler may outlive its record; no symmetry.
CONSTANTS
  Request = {r1, r2}
  Key = {k1}
  Fingerprint = {f1, f2}
  None = None
  FaultyCalls = {"get", "acquire", "complete", "release", "commit"}
  OutlivesTtl = TRUE
SPECIFICATION FairSpec
CHECK_DEADLOCK FALSE
INVARIANTS ReplayFaithful
PROPERTIES KeySettles
