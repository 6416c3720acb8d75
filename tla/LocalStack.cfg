SPECIFICATION FairSpec
CONSTANTS
  Proc = {t1, t2}
  Script = {"start", "up", "down", "remove", "wipe", "migrate", "seed", "pathA", "pathAClean", "pathB", "pathBClean"}
  Fault = {"interrupt", "timeout"}
  SeedAllowed = TRUE
  MaxRuns = 2
PROPERTIES AppHasItsTables RowsSurvive ScriptsEnd
CHECK_DEADLOCK FALSE
