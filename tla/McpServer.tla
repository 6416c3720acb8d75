------------------------------ MODULE McpServer ------------------------------
(***************************************************************************)
(* The lifecycle tools of the MCP server over the local stack: a host      *)
(* server that runs in the background and is tracked, and the scripts that *)
(* a tool runs to their end.  The tools are coroutines that never await,   *)
(* so a tool keeps the event loop until its script is over.                *)
(***************************************************************************)
EXTENDS LocalStack

CONSTANTS
  Host,             \* the background processes, one for each Popen
  Tool,             \* the process of the script that a tool runs
  NoHost,           \* _host_process is None
  AllowDestructive  \* mcp.allow_destructive, cached for the server's life

ASSUME McpConstantsOK ==
  /\ Proc = Host \cup {Tool}
  /\ Tool \notin Host /\ NoHost \notin Proc
  /\ AllowDestructive \in BOOLEAN

VARIABLES
  tracked,  \* _host_process
  waiting   \* stop_host_background is in its wait of fifteen seconds

mcp == <<tracked, waiting>>
mcpVars == <<vars, mcp>>

McpTypeOK ==
  /\ TypeOK
  /\ tracked \in Host \cup {NoHost}
  /\ waiting \in BOOLEAN
  /\ waiting => tracked # NoHost

McpInit == Init /\ tracked = NoHost /\ waiting = FALSE
-----------------------------------------------------------------------------
ToolScript == {"up", "down", "remove", "migrate", "seed", "wipe"}
Destructive == {"remove", "seed", "wipe"}

EventLoopFree == Over(Tool) /\ ~waiting

\* _host_process is not None and poll() is None.
HostRuns == tracked # NoHost /\ ~Over(tracked)

\* stack_start_host.
StartHost(h) ==
  /\ EventLoopFree
  /\ ~HostRuns
  /\ Run(h, "start")
  /\ tracked' = h
  /\ UNCHANGED waiting

\* stack_stop_host: SIGTERM to the process group, then the wait begins.
StopHost ==
  /\ EventLoopFree
  /\ HostRuns
  /\ \/ Killed(tracked) \/ InterruptedCondition(tracked)
     \/ At(tracked, "stop") /\ UNCHANGED vars
  /\ waiting' = TRUE
  /\ UNCHANGED tracked

\* ... or there is nothing to stop.
NothingToStop ==
  /\ EventLoopFree
  /\ tracked # NoHost /\ Over(tracked)
  /\ tracked' = NoHost
  /\ UNCHANGED <<vars, waiting>>

\* Mutant of StopReturns: the wait is over and the tool still waits.
StopReturnsHalf ==
  /\ waiting /\ Over(tracked)
  /\ tracked' = NoHost
  /\ UNCHANGED <<vars, waiting>>

StopReturns ==
  /\ waiting /\ Over(tracked)
  /\ tracked' = NoHost
  /\ waiting' = FALSE
  /\ UNCHANGED vars

\* Mutant of StopTimesOut: the process is forgotten although it runs.
StopForgets ==
  /\ waiting /\ ~Over(tracked)
  /\ tracked' = NoHost
  /\ waiting' = FALSE
  /\ UNCHANGED vars

\* wait raises TimeoutExpired: the trap, or a script that goes on, takes longer.
StopTimesOut ==
  /\ waiting /\ ~Over(tracked)
  /\ waiting' = FALSE
  /\ UNCHANGED <<vars, tracked>>

\* Mutant of Allowed: the tools do not ask for allow_destructive.
AllowedAlways(script) == TRUE

Allowed(script) == script \in Destructive => AllowDestructive

\* stack_compose_up and _down, db_migrate, db_seed, db_wipe.
RunTool(script) ==
  /\ EventLoopFree
  /\ Allowed(script)
  /\ Run(Tool, script)
  /\ UNCHANGED mcp

\* subprocess.run kills bash when the timeout has passed.
ToolTimesOut ==
  /\ "timeout" \in Fault
  /\ Killed(Tool)
  /\ UNCHANGED mcp

McpNext ==
  \/ \E h \in Host : StartHost(h)
  \/ StopHost \/ NothingToStop \/ StopReturns \/ StopTimesOut
  \/ \E script \in ToolScript \cap Script : RunTool(script)
  \/ ToolTimesOut
  \/ /\ Environment \/ \E p \in Proc : Step(p)
     /\ UNCHANGED mcp

McpSpec == McpInit /\ [][McpNext]_mcpVars
-----------------------------------------------------------------------------
\* Only one host process runs at a time, and it is the tracked one, also when
\* it ends by itself, outlives the wait or is started again
\* (start_host_background, stop_host_background).
OneHost == \A h \in Host : ~Over(h) => tracked = h

\* With destructive tools off and one tool after the other, no tool loses rows
\* unless the profile's password changed (_destructive_allowed).
ToolsKeepRows ==
  [][RowsLost /\ calm /\ ~AllowDestructive => stale["postgres"]]_mcpVars

\* The tools that docs/mcp.md lists as safe never lose rows.
SafeToolsKeepRows ==
  [][RowsLost /\ ~AllowDestructive => stale["postgres"]]_mcpVars
=============================================================================
