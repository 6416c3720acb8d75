\* The commit before or after the response; handlers end before ttl_seconds; every call but complete and commit may raise.
CONSTANTS
  Request = {r1, r2, r3}
  Key = {k1, k2}
  Fingerprint = {f1, f2}
  None = None
  FaultyCalls = {"get", "acquire", "release"}
  OutlivesTtl = FALSE
SPECIFICATION Spec
SYMMETRY Symmetry
CHECK_DEADLOCK FALSE
INVARIANTS SingleExecutor AtMostOnce SuccessIsDurable OrphanedOnlyByFault
PROPERTIES ImplementsPromise
