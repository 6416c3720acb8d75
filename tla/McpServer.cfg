SPECIFICATION McpSpec
CONSTANTS
  h1 = h1
  h2 = h2
  tool = tool
  Host <- MCHost
  Proc <- MCProc
  Tool = tool
  NoHost = NoHost
  Script = {"up", "down", "remove", "migrate", "seed", "wipe"}
  Fault = {"timeout"}
  SeedAllowed = TRUE
  AllowDestructive = FALSE
  MaxRuns = 3
INVARIANTS McpTypeOK OneHost
PROPERTIES ToolsKeepRows
CHECK_DEADLOCK FALSE
