SPECIFICATION Spec
CONSTANTS
  MaxDefects = 2
  MaxFaults = 2
  MaxRuns = 2
INVARIANTS ReportIsWhole PassMissesOnly 
CHECK_DEADLOCK FALSE
