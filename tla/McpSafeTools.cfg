SPECIFICATION McpSpec
CONSTANTS
  h1 = h1
  h2 = h2
  tool = tool
  Host <- MCHost
  Proc <- MCProc
  Tool = tool
  NoHost = NoHost
  Script = {"up", "down", "remove", "migrate", "seed", "wipe"}
  Fault = {}
  SeedAllowed = TRUE
  AllowDestructive = FALSE
  MaxRuns = 2
PROPERTIES SafeToolsKeepRows
CHECK_DEADLOCK FALSE
