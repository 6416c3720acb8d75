--------------------------- MODULE McpServerProofs ---------------------------
(***************************************************************************)
(* Proofs about modules LocalStack and McpServer, for any number of        *)
(* processes, scripts and runs, and any faults.                            *)
(*                                                                         *)
(* First, only the tracked host process runs: everything but the two tools *)
(* that start a script can only continue or end one that is under way, so  *)
(* a process that is over stays over.  Then, of what a script has still to *)
(* do: which steps follow one another, and that no step is unknown.  From  *)
(* both follows what a stack undisturbed keeps: its rows and its tables.   *)
(***************************************************************************)
EXTENDS McpServer, TLAPS

\* Each process has its own steps to take.
Formed == todo = [p \in Proc |-> todo[p]]

\* No process other than p changes, and p's script was under way.
Continues(p) ==
  /\ todo[p] # <<>>
  /\ Formed'
  /\ \A q \in Proc : q # p => todo'[q] = todo[q]

\* A process whose script is over does not take it up again.
StaysOver == Formed' /\ \A q \in Proc : Over(q) => Over(q)'

Inv == Formed /\ tracked \in Host \cup {NoHost} /\ OneHost

\* The ways in which a step changes what its process has still to do.
LEMMA Moves ==
  ASSUME Formed, NEW p \in Proc, todo[p] # <<>>
  PROVE  /\ \A steps : Then(p, steps) => Continues(p)
         /\ \A steps : Proceed(p, steps) => Continues(p)
         /\ Ends(p) => Continues(p)
         /\ Fails(p) => Continues(p)
         /\ TimesOut(p) => Continues(p)
<1>1. ASSUME NEW steps, Then(p, steps)
      PROVE  Continues(p)
  BY <1>1 DEF Then, Continues, Formed
<1>2. ASSUME NEW steps, Proceed(p, steps)
      PROVE  Continues(p)
  BY <1>1, <1>2 DEF Proceed
<1>3. ASSUME Ends(p)
      PROVE  Continues(p)
  BY <1>3 DEF Ends, Continues, Formed
<1> QED
  BY <1>1, <1>2, <1>3 DEF Fails, TimesOut

\* A step belongs to a script that is under way and serves nothing.
LEMMA UnderWay ==
  ASSUME NEW p \in Proc, Step(p)
  PROVE  todo[p] # <<>> /\ ~Serving(p)
BY DEF Step, SetTrap, Check, Probe, Start, Wait, WaitTimesOut, Dismantle,
       DropVolume, StopService, Launch, Infra, Healthy, Unhealthy, AppUp,
       HealthOk, HealthTimesOut, RunInApp, Migrate, AssertSeedAllowed,
       Truncate, Reload, StopAll, RemoveAll, WipeAll, At, Serving

\* A signal finds a script under way, too.
LEMMA SignalUnderWay ==
  ASSUME NEW p \in Proc, Killed(p) \/ InterruptedCondition(p)
  PROVE  todo[p] # <<>>
BY DEF Killed, InterruptedCondition, Over, At

LEMMA StepContinues ==
  ASSUME Formed, NEW p \in Proc, Step(p)
  PROVE  Continues(p)
<1>1. todo[p] # <<>>
  BY UnderWay
<1>2. SetTrap(p) \/ Check(p) \/ Probe(p) \/ Start(p) \/ Wait(p) \/ WaitTimesOut(p)
      => Continues(p)
  BY <1>1, Moves DEF SetTrap, Check, Probe, Start, Wait, WaitTimesOut
<1>3. Dismantle(p) \/ DropVolume(p) \/ StopService(p) \/ Launch(p)
      => Continues(p)
  BY <1>1, Moves DEF Dismantle, DropVolume, StopService, Launch
<1>4. Infra(p) \/ Healthy(p) \/ Unhealthy(p) \/ AppUp(p) \/ HealthOk(p)
        \/ HealthTimesOut(p)
      => Continues(p)
  BY <1>1, Moves DEF Infra, Healthy, Unhealthy, AppUp, HealthOk, HealthTimesOut
<1>5. RunInApp(p) \/ Migrate(p) \/ AssertSeedAllowed(p) \/ Truncate(p)
        \/ Reload(p) \/ StopAll(p) \/ RemoveAll(p) \/ WipeAll(p)
      => Continues(p)
  BY <1>1, Moves DEF RunInApp, Migrate, AssertSeedAllowed, Truncate, Reload,
                     StopAll, RemoveAll, WipeAll
<1> QED
  BY <1>2, <1>3, <1>4, <1>5 DEF Step

LEMMA SignalContinues ==
  ASSUME Formed, NEW p \in Proc, Killed(p) \/ InterruptedCondition(p)
  PROVE  Continues(p)
BY SignalUnderWay, Moves DEF Killed, InterruptedCondition

LEMMA ContinuesStaysOver ==
  ASSUME NEW p \in Proc, Continues(p)
  PROVE  StaysOver
BY DEF Continues, StaysOver, Over

LEMMA EnvironmentStaysOver ==
  ASSUME Formed, Environment
  PROVE  StaysOver
<1>1. ASSUME NEW p \in Proc, Interrupt(p)
      PROVE  StaysOver
  BY <1>1, SignalContinues, ContinuesStaysOver DEF Interrupt
<1>2. ASSUME NEW s \in Service, BecomesReady(s) \/ ChangePassword(s)
      PROVE  StaysOver
  BY <1>2 DEF BecomesReady, ChangePassword, StaysOver, Formed, Over
<1>3. ASSUME AppServes \/ ClientWrites
      PROVE  StaysOver
  BY <1>3 DEF AppServes, ClientWrites, StaysOver, Formed, Over
<1> QED
  BY <1>1, <1>2, <1>3 DEF Environment

LEMMA UnchangedStaysOver ==
  ASSUME Formed, UNCHANGED vars
  PROVE  StaysOver
BY DEF vars, StaysOver, Formed, Over

\* What leaves tracked alone and starts no host keeps the invariant.
LEMMA KeptByTheRest ==
  ASSUME Inv, StaysOver, tracked' = tracked
  PROVE  Inv'
BY McpConstantsOK DEF Inv, OneHost, StaysOver, Over

\* Only one host process runs at a time, and it is the tracked one, for any
\* number of processes and whatever fails (start_host_background,
\* stop_host_background).
THEOREM OnlyTheTrackedHost == McpSpec => []OneHost
<1>1. McpInit => Inv
  BY McpConstantsOK DEF McpInit, Init, Inv, Formed, OneHost, Over
<1>2. Inv /\ [McpNext]_mcpVars => Inv'
  <2> SUFFICES ASSUME Inv, [McpNext]_mcpVars
               PROVE  Inv'
    OBVIOUS
  <2> USE McpConstantsOK
  <2>f. Formed
    BY DEF Inv
  <2>1. ASSUME NEW h \in Host, StartHost(h)
        PROVE  Inv'
    <3>1. \A g \in Host : Over(g)
      BY <2>1 DEF StartHost, HostRuns, Inv, OneHost
    <3> QED
      BY <2>1, <3>1 DEF StartHost, Run, Inv, Formed, OneHost, Over
  <2>2. CASE StopHost
    <3>1. tracked \in Proc
      BY <2>2 DEF StopHost, HostRuns, Inv, OneHost
    <3> QED
      BY <2>2, <3>1, <2>f, SignalContinues, ContinuesStaysOver, UnchangedStaysOver,
         KeptByTheRest DEF StopHost
  <2>3. CASE NothingToStop \/ StopReturns
    BY <2>3 DEF NothingToStop, StopReturns, Inv, OneHost, Formed, Over, vars
  <2>4. CASE StopTimesOut
    BY <2>4, <2>f, UnchangedStaysOver, KeptByTheRest DEF StopTimesOut, vars
  <2>5. ASSUME NEW script, RunTool(script)
        PROVE  Inv'
    <3>1. Formed' /\ \A h \in Host : todo'[h] = todo[h]
      BY <2>5 DEF RunTool, Run, Inv, Formed
    <3> QED
      BY <2>5, <3>1 DEF RunTool, mcp, Inv, OneHost, Over
  <2>6. CASE ToolTimesOut
    BY <2>6, <2>f, SignalContinues, ContinuesStaysOver, KeptByTheRest
       DEF ToolTimesOut, mcp
  <2>7. ASSUME Environment, UNCHANGED mcp
        PROVE  Inv'
    BY <2>7, <2>f, EnvironmentStaysOver, KeptByTheRest DEF mcp
  <2>8. ASSUME NEW p \in Proc, Step(p), UNCHANGED mcp
        PROVE  Inv'
    BY <2>8, <2>f, StepContinues, ContinuesStaysOver, KeptByTheRest DEF mcp
  <2>9. CASE UNCHANGED mcpVars
    BY <2>9, <2>f, UnchangedStaysOver, KeptByTheRest DEF mcpVars, mcp
  <2> QED
    BY <2>1, <2>2, <2>3, <2>4, <2>5, <2>6, <2>7, <2>8, <2>9 DEF McpNext
<1> QED
  BY <1>1, <1>2, PTL DEF McpSpec, Inv
-----------------------------------------------------------------------------
(***************************************************************************)
(* Of which steps the scripts consist.  A tool that is allowed without     *)
(* allow_destructive runs scripts of gentle steps only, and a gentle step  *)
(* gives way to gentle steps only.                                         *)
(***************************************************************************)
\* The steps that touch no rows, but for a reset.
Gentle == {step \in Steps : step.do \notin {"wipeAll", "truncate"}}

\* What a step may give way to, beside nothing.
Expansions(T) ==
  /\ \A s \in Service : /\ StartService(s) \in Seq(T) /\ NotRunning(s) \in Seq(T)
                        /\ ResetService(s) \in Seq(T)
                        /\ <<Do("probe", s)>> \in Seq(T)
                        /\ <<Do("wait", s)>> \in Seq(T)
  /\ StopServices \in Seq(T) /\ ComposeInfra \in Seq(T)
  /\ <<Do("serve", "stack")>> \in Seq(T)

\* Which scripts and expansions consist of such steps.
LEMMA GentleScripts ==
  ASSUME NEW T, Gentle \subseteq T
  PROVE  /\ Expansions(T)
         /\ EnsureReady \in Seq(T)
         /\ \A script \in {"start", "up", "down", "remove", "migrate"} :
              Program[script] \in Seq(T)
<1>1. ASSUME NEW s \in Service
      PROVE  /\ Do("probe", s) \in T /\ Do("wait", s) \in T
             /\ Do("start", s) \in T /\ Do("dismantle", s) \in T
             /\ Do("drop", s) \in T /\ Do("check", s) \in T
             /\ Do("stop", s) \in T
  BY DEF Do, Steps, Gentle
<1>2. \A step \in {"trap", "launch", "serve", "infra", "healthy", "app", "health",
                   "run", "migrate", "stopAll", "removeAll"} : Do(step, "stack") \in T
  BY DEF Do, Steps, Gentle
<1> HIDE DEF Steps, Do
<1>3. \A s \in Service : /\ StartService(s) \in Seq(T) /\ NotRunning(s) \in Seq(T)
                         /\ ResetService(s) \in Seq(T)
                         /\ <<Do("probe", s)>> \in Seq(T)
                         /\ <<Do("wait", s)>> \in Seq(T)
  BY <1>1 DEF StartService, NotRunning, ResetService
<1>4. /\ EnsureReady \in Seq(T) /\ StopServices \in Seq(T)
      /\ ComposeInfra \in Seq(T) /\ <<Do("serve", "stack")>> \in Seq(T)
  BY <1>1, <1>2 DEF EnsureReady, StopServices, ComposeInfra, Service
<1>5. /\ StartSh \in Seq(T) /\ UpSh \in Seq(T) /\ MigrateSh \in Seq(T)
      /\ DownSh \in Seq(T) /\ RemoveSh \in Seq(T)
  BY <1>2, <1>4 DEF StartSh, UpSh, MigrateSh, DownSh, RemoveSh
<1>6. /\ Program["start"] = StartSh /\ Program["up"] = UpSh
      /\ Program["down"] = DownSh /\ Program["remove"] = RemoveSh
      /\ Program["migrate"] = MigrateSh
  BY DEF Program
<1> QED BY <1>3, <1>4, <1>5, <1>6 DEF Expansions

LEMMA ExpansionTypes == Expansions(Steps) /\ EnsureReady \in Seq(Steps)
BY GentleScripts DEF Gentle

-----------------------------------------------------------------------------
(***************************************************************************)
(* Which steps follow one another.  A service that is started is waited    *)
(* for at once, the services of compose until they are healthy; but for    *)
(* the first step of what is left, the credentials are tested after such a *)
(* wait only, and a volume is dropped only after what uses it is gone.     *)
(***************************************************************************)
Chain(q) ==
  \A i \in 1..Len(q) :
    /\ q[i].do = "start" =>
         i < Len(q) /\ q[i + 1].do = "wait" /\ q[i + 1].of = q[i].of
    /\ q[i].do = "infra" => i < Len(q) /\ q[i + 1].do = "healthy"
    /\ i > 1 =>
         /\ q[i].do = "probe" => q[i - 1].do = "wait" /\ q[i - 1].of = q[i].of
         /\ q[i].do = "drop" => q[i - 1].do = "dismantle" /\ q[i - 1].of = q[i].of
         /\ q[i].do # "dismantle"

\* What may come after any step but a wait.
Fresh(q) == q = <<>> \/ Head(q).do \notin {"probe", "drop", "dismantle"}

\* The rest of a chain is one, and its first step is where the chain had it.
LEMMA ChainTail ==
  ASSUME NEW q \in Seq(Steps), q # <<>>, Chain(q)
  PROVE  /\ Tail(q) \in Seq(Steps) /\ Chain(Tail(q))
         /\ Head(q).do \notin {"wait", "dismantle"} => Fresh(Tail(q))
         /\ Head(q).do = "start" => /\ Tail(q) # <<>> /\ Head(Tail(q)).do = "wait"
                                    /\ Head(Tail(q)).of = Head(q).of
         /\ Head(q).do = "infra" => Tail(q) # <<>> /\ Head(Tail(q)).do = "healthy"
         /\ Tail(q) # <<>> =>
              /\ Head(Tail(q)).do = "probe" =>
                   Head(q).do = "wait" /\ Head(q).of = Head(Tail(q)).of
              /\ Head(Tail(q)).do = "drop" =>
                   Head(q).do = "dismantle" /\ Head(q).of = Head(Tail(q)).of
              /\ Head(Tail(q)).do # "dismantle"
<1>1. /\ Len(q) \in Nat /\ Len(q) > 0 /\ Head(q) = q[1]
      /\ Tail(q) \in Seq(Steps) /\ Len(Tail(q)) = Len(q) - 1
      /\ \A i \in 1..Len(Tail(q)) : Tail(q)[i] = q[i + 1]
  OBVIOUS
<1>2. Chain(Tail(q))
  BY <1>1 DEF Chain
<1>3. Tail(q) # <<>> => Len(q) > 1 /\ Head(Tail(q)) = q[2]
  BY <1>1
<1>4. Len(q) > 1 => Tail(q) # <<>>
  <2>1. \A t : Len(t) # 0 => t # <<>>
    OBVIOUS
  <2>2. Len(q) > 1 => Len(Tail(q)) # 0
    BY <1>1
  <2> QED BY <2>1, <2>2, Zenon
<1>5. /\ q[1].do = "start" =>
           Len(q) > 1 /\ q[2].do = "wait" /\ q[2].of = q[1].of
      /\ q[1].do = "infra" => Len(q) > 1 /\ q[2].do = "healthy"
  <2>1. 1 \in 1..Len(q) /\ 1 + 1 = 2
    BY <1>1
  <2> QED BY <1>1, <2>1 DEF Chain
<1>6. Len(q) > 1 =>
        /\ q[2].do = "probe" => q[1].do = "wait" /\ q[2].of = q[1].of
        /\ q[2].do = "drop" => q[1].do = "dismantle" /\ q[2].of = q[1].of
        /\ q[2].do # "dismantle"
  <2>1. Len(q) > 1 => 2 \in 1..Len(q) /\ 2 - 1 = 1
    BY <1>1
  <2> QED BY <1>1, <2>1 DEF Chain
<1> QED BY <1>1, <1>2, <1>3, <1>4, <1>5, <1>6 DEF Fresh

LEMMA ChainJoin ==
  ASSUME NEW u \in Seq(Steps), NEW v \in Seq(Steps), Chain(u), Chain(v),
         Fresh(v)
  PROVE  u \o v \in Seq(Steps) /\ Chain(u \o v)
<1> DEFINE w == u \o v
<1>1. /\ Len(u) \in Nat /\ Len(v) \in Nat
      /\ w \in Seq(Steps) /\ Len(w) = Len(u) + Len(v)
      /\ \A i \in 1..Len(w) : w[i] = IF i <= Len(u) THEN u[i] ELSE v[i - Len(u)]
      /\ v # <<>> => Len(v) > 0 /\ Head(v) = v[1]
      /\ v = <<>> => Len(v) = 0
  OBVIOUS
<1> HIDE DEF w
<1>2. ASSUME NEW i \in 1..Len(w)
      PROVE  /\ w[i].do = "start" =>
                  i < Len(w) /\ w[i + 1].do = "wait" /\ w[i + 1].of = w[i].of
             /\ w[i].do = "infra" => i < Len(w) /\ w[i + 1].do = "healthy"
             /\ i > 1 =>
                  /\ w[i].do = "probe" => w[i - 1].do = "wait" /\ w[i - 1].of = w[i].of
                  /\ w[i].do = "drop" =>
                       w[i - 1].do = "dismantle" /\ w[i - 1].of = w[i].of
                  /\ w[i].do # "dismantle"
  <2>1. CASE i <= Len(u)
    <3>1. i \in 1..Len(u) /\ w[i] = u[i] /\ Len(u) <= Len(w)
      BY <1>1, <2>1
    <3>2. i < Len(u) => i + 1 \in 1..Len(w) /\ i + 1 <= Len(u)
      BY <1>1, <2>1
    <3>3. i < Len(u) => i < Len(w) /\ w[i + 1] = u[i + 1]
      BY <1>1, <3>2
    <3>4. i > 1 => i - 1 \in 1..Len(w) /\ i - 1 <= Len(u)
      BY <1>1, <2>1
    <3>5. i > 1 => w[i - 1] = u[i - 1]
      BY <1>1, <3>4
    <3> QED BY <3>1, <3>3, <3>5 DEF Chain
  <2>2. CASE i > Len(u)
    <3> DEFINE j == i - Len(u)
    <3>1. j \in 1..Len(v) /\ w[i] = v[j]
          /\ (j < Len(v) => i < Len(w) /\ w[i + 1] = v[j + 1])
          /\ (j > 1 => w[i - 1] = v[j - 1])
      BY <1>1, <2>2
    <3>2. j = 1 => w[i].do \notin {"probe", "drop", "dismantle"}
      BY <1>1, <3>1 DEF Fresh
    <3> HIDE DEF j
    <3> QED BY <1>1, <3>1, <3>2 DEF Chain
  <2> QED BY <1>1, <2>1, <2>2
<1> QED BY <1>1, <1>2 DEF Chain, w

\* A whole script, or what may replace a step that is no wait.
Sound(q) == q \in Seq(Steps) /\ Chain(q) /\ Fresh(q)

LEMMA SoundJoin ==
  ASSUME NEW u, NEW v, Sound(u), Sound(v)
  PROVE  Sound(u \o v)
<1>1. u \o v \in Seq(Steps) /\ Chain(u \o v)
  BY ChainJoin DEF Sound
<1>2. Fresh(u \o v)
  <2>1. CASE u = <<>>
    <3>1. u \o v = v
      BY <2>1 DEF Sound
    <3> QED BY <3>1 DEF Sound
  <2>2. CASE u # <<>>
    <3>1. Head(u \o v) = Head(u)
      BY <2>2 DEF Sound
    <3> QED BY <2>2, <3>1 DEF Sound, Fresh
  <2> QED BY <2>1, <2>2
<1> QED BY <1>1, <1>2 DEF Sound

LEMMA ChainedExpansions ==
  /\ \A s \in Service : /\ Chain(NotRunning(s)) /\ Head(NotRunning(s)) = Do("start", s)
                        /\ Chain(ResetService(s))
                        /\ Head(ResetService(s)) = Do("dismantle", s)
                        /\ Chain(<<Do("probe", s)>>)
  /\ Sound(StopServices) /\ Sound(ComposeInfra) /\ Sound(<<Do("serve", "stack")>>)
<1>1. ASSUME NEW s \in Service
      PROVE  /\ Chain(NotRunning(s)) /\ Head(NotRunning(s)) = Do("start", s)
             /\ Chain(ResetService(s)) /\ Head(ResetService(s)) = Do("dismantle", s)
             /\ Chain(<<Do("probe", s)>>)
  <2> DEFINE n == NotRunning(s)
             r == ResetService(s)
  <2>1. /\ Len(n) = 3 /\ Head(n) = Do("start", s)
        /\ n[1] = Do("start", s) /\ n[2] = Do("wait", s) /\ n[3] = Do("probe", s)
    BY DEF NotRunning, StartService
  <2>2. /\ Len(r) = 4 /\ Head(r) = Do("dismantle", s)
        /\ r[1] = Do("dismantle", s) /\ r[2] = Do("drop", s)
        /\ r[3] = Do("start", s) /\ r[4] = Do("wait", s)
    BY DEF ResetService, StartService
  <2>3. Chain(<<Do("probe", s)>>)
    BY DEF Chain, Do
  <2> HIDE DEF n, r
  <2>4. Chain(n)
    BY <2>1 DEF Chain, Do
  <2>5. Chain(r)
    BY <2>2 DEF Chain, Do
  <2> QED BY <2>1, <2>2, <2>3, <2>4, <2>5 DEF n, r
<1>2. /\ Chain(StopServices) /\ Chain(ComposeInfra) /\ Chain(<<Do("serve", "stack")>>)
      /\ Fresh(StopServices) /\ Fresh(ComposeInfra) /\ Fresh(<<Do("serve", "stack")>>)
  BY DEF StopServices, ComposeInfra, Chain, Fresh, Do
<1> QED BY <1>1, <1>2, ExpansionTypes DEF Expansions, Sound

\* So is every script, the composed ones included.
LEMMA SoundScripts ==
  \A script \in AllScripts : Sound(Program[script])
<1>1. /\ Sound(EnsureReady) /\ Sound(ComposeInfra)
      /\ Sound(DownSh) /\ Sound(RemoveSh) /\ Sound(WipeSh)
  BY ExpansionTypes, ChainedExpansions
     DEF EnsureReady, DownSh, RemoveSh, WipeSh, Service, Sound, Chain, Fresh, Do, Steps
<1>2. \A step \in {"trap", "launch"} : Sound(<<Do(step, "stack")>>)
  BY DEF Sound, Chain, Fresh, Do, Steps
<1>3. /\ Sound(<<Do("app", "stack"), Do("health", "stack")>>)
      /\ Sound(<<Do("run", "stack"), Do("migrate", "stack")>>)
      /\ Sound(<<Do("run", "stack"), Do("assertSeed", "stack")>>)
      /\ Sound(<<Do("run", "stack"), Do("migrate", "stack"),
                 Do("truncate", "stack"), Do("reload", "stack")>>)
  BY DEF Sound, Chain, Fresh, Do, Steps
<1>4. Sound(StartSh) /\ Sound(UpSh)
  BY <1>1, <1>2, <1>3, SoundJoin DEF StartSh, UpSh
<1>5. Sound(MigrateSh) /\ Sound(SeedSh)
  BY <1>1, <1>3, SoundJoin DEF MigrateSh, SeedSh
<1>6. /\ Sound(DownSh \o StartSh) /\ Sound(WipeSh \o SeedSh \o StartSh)
      /\ Sound(WipeSh \o UpSh \o SeedSh)
  BY <1>1, <1>4, <1>5, SoundJoin
<1>7. /\ Program["start"] = StartSh /\ Program["up"] = UpSh
      /\ Program["down"] = DownSh /\ Program["remove"] = RemoveSh
      /\ Program["wipe"] = WipeSh /\ Program["migrate"] = MigrateSh
      /\ Program["seed"] = SeedSh /\ Program["pathA"] = DownSh \o StartSh
      /\ Program["pathAClean"] = WipeSh \o SeedSh \o StartSh
      /\ Program["pathB"] = UpSh /\ Program["pathBClean"] = WipeSh \o UpSh \o SeedSh
  BY DEF Program
<1> QED BY <1>1, <1>4, <1>5, <1>6, <1>7 DEF AllScripts

-----------------------------------------------------------------------------
(***************************************************************************)
(* Types.  The steps of scripts in terminals and those that the tools run  *)
(* are the same, so what they keep is proved of both specifications once.  *)
(***************************************************************************)
\* Whatever scripts, users, services and tools do to the stack.
StackStep ==
  \/ \E p \in Proc : \/ Step(p) \/ \E script \in AllScripts : Run(p, script)
                     \/ Killed(p) \/ InterruptedCondition(p)
  \/ \E s \in Service : BecomesReady(s) \/ ChangePassword(s)
  \/ AppServes \/ ClientWrites

LEMMA StackSteps ==
  /\ Next => StackStep
  /\ McpNext /\ tracked \in Host \cup {NoHost} => StackStep \/ UNCHANGED vars
<1>1. Environment => StackStep
  BY DEF Environment, Interrupt, StackStep
<1>2. Next => StackStep
  BY <1>1, ConstantsOK DEF Next, StackStep
<1>3. ASSUME McpNext, tracked \in Host \cup {NoHost}
      PROVE  StackStep \/ UNCHANGED vars
  <2>1. ASSUME NEW h \in Host, StartHost(h) PROVE StackStep
    BY <2>1, McpConstantsOK DEF StartHost, StackStep, AllScripts
  <2>2. ASSUME StopHost PROVE StackStep \/ UNCHANGED vars
    <3>1. tracked \in Proc
      BY <1>3, <2>2, McpConstantsOK DEF StopHost, HostRuns
    <3> QED BY <2>2, <3>1 DEF StopHost, StackStep
  <2>3. ASSUME NothingToStop \/ StopReturns \/ StopTimesOut PROVE UNCHANGED vars
    BY <2>3 DEF NothingToStop, StopReturns, StopTimesOut
  <2>4. ASSUME NEW script \in ToolScript, RunTool(script) PROVE StackStep
    BY <2>4, McpConstantsOK DEF RunTool, ToolScript, StackStep, AllScripts
  <2>5. ASSUME ToolTimesOut PROVE StackStep
    BY <2>5, McpConstantsOK DEF ToolTimesOut, StackStep
  <2>6. ASSUME Environment \/ \E p \in Proc : Step(p) PROVE StackStep
    BY <1>1, <2>6 DEF StackStep
  <2> QED BY <1>3, <2>1, <2>2, <2>3, <2>4, <2>5, <2>6 DEF McpNext
<1> QED BY <1>2, <1>3

\* T: all steps, or the gentle ones.
LEMMA MoveTypes ==
  ASSUME NEW T, Expansions(T), todo \in [Proc -> Seq(T)],
         NEW p \in Proc, todo[p] # <<>>
  PROVE  /\ \A steps \in Seq(T) : Then(p, steps) => todo' \in [Proc -> Seq(T)]
         /\ Then(p, <<>>) => todo' \in [Proc -> Seq(T)]
         /\ Ends(p) => todo' \in [Proc -> Seq(T)]
<1>1. todo[p] \in Seq(T) /\ Tail(todo[p]) \in Seq(T) /\ <<>> \in Seq(T)
  OBVIOUS
<1>2. ASSUME NEW steps \in Seq(T), Then(p, steps) PROVE todo' \in [Proc -> Seq(T)]
  <2>1. steps \o Tail(todo[p]) \in Seq(T)
    BY <1>1
  <2> QED BY <1>2, <2>1 DEF Then
<1>3. ASSUME Ends(p) PROVE todo' \in [Proc -> Seq(T)]
  BY <1>1, <1>3 DEF Ends, Expansions
<1> QED BY <1>1, <1>2, <1>3

LEMMA StepTypes ==
  ASSUME NEW T, T \subseteq Steps, Expansions(T), todo \in [Proc -> Seq(T)],
         NEW p \in Proc, Step(p) \/ Killed(p) \/ InterruptedCondition(p)
  PROVE  todo' \in [Proc -> Seq(T)]
<1>1. todo[p] # <<>> /\ todo[p] \in Seq(T)
  BY UnderWay, SignalUnderWay
<1> DEFINE s == Head(todo[p]).of
<1>2. Head(todo[p]) \in Steps
  BY <1>1
<1>3. At(p, "check") \/ At(p, "probe") \/ At(p, "wait") => s \in Service
  BY <1>2 DEF At, Steps
<1>4. /\ \A steps \in Seq(T) : Then(p, steps) \/ Proceed(p, steps) => todo' \in [Proc -> Seq(T)]
      /\ Then(p, <<>>) \/ Proceed(p, <<>>) => todo' \in [Proc -> Seq(T)]
      /\ Ends(p) \/ Fails(p) \/ TimesOut(p) => todo' \in [Proc -> Seq(T)]
  BY <1>1, MoveTypes DEF Proceed, Fails, TimesOut
<1> HIDE DEF s
<1>5. CASE Check(p) \/ Probe(p) \/ InterruptedCondition(p)
  <2>1. \A u, v \in Seq(T) : u \o v \in Seq(T)
    OBVIOUS
  <2>2. s \in Service =>
          /\ StopServices \o NotRunning(s) \in Seq(T)
          /\ StopServices \o ResetService(s) \in Seq(T)
          /\ StopServices \o <<Do("wait", s)>> \in Seq(T)
          /\ <<>> \in Seq(T)
    BY <2>1 DEF Expansions
  <2>3. CASE Check(p)
    BY <1>3, <1>4, <2>3 DEF Check, Expansions, s
  <2>4. CASE Probe(p)
    BY <1>3, <1>4, <2>4 DEF Probe, Expansions, s
  <2>5. CASE InterruptedCondition(p)
    BY <1>3, <1>4, <2>2, <2>5 DEF InterruptedCondition, s
  <2> QED BY <1>5, <2>3, <2>4, <2>5
<1>6. CASE \/ SetTrap(p) \/ Start(p) \/ Wait(p) \/ WaitTimesOut(p)
           \/ Dismantle(p) \/ DropVolume(p) \/ StopService(p) \/ Launch(p) \/ Killed(p)
  BY <1>4, <1>6 DEF SetTrap, Start, Wait, WaitTimesOut, Dismantle, DropVolume,
                    StopService, Launch, Killed, Expansions
<1>7. CASE \/ Infra(p) \/ Healthy(p) \/ Unhealthy(p) \/ AppUp(p) \/ HealthOk(p)
           \/ HealthTimesOut(p) \/ RunInApp(p) \/ Migrate(p)
  BY <1>4, <1>7 DEF Infra, Healthy, Unhealthy, AppUp, HealthOk, HealthTimesOut,
                    RunInApp, Migrate, Expansions
<1>8. CASE \/ AssertSeedAllowed(p) \/ Truncate(p) \/ Reload(p)
           \/ StopAll(p) \/ RemoveAll(p) \/ WipeAll(p)
  BY <1>4, <1>8 DEF AssertSeedAllowed, Truncate, Reload, StopAll, RemoveAll, WipeAll
<1> QED BY <1>5, <1>6, <1>7, <1>8 DEF Step

LEMMA StackTypes ==
  ASSUME TypeOK, StackStep
  PROVE  TypeOK'
<1> USE ConstantsOK
<1>1. ASSUME NEW p \in Proc, NEW script \in AllScripts, Run(p, script)
      PROVE  TypeOK'
  <2>1. Program[script] \in Seq(Steps)
    BY SoundScripts DEF Sound
  <2>2. todo' \in [Proc -> Seq(Steps)] /\ calm' \in BOOLEAN /\ runs' \in 0..MaxRuns
    <3>1. calm' \in BOOLEAN
      BY <1>1 DEF Run, TypeOK, Quiet
    <3> QED BY <1>1, <2>1, <3>1 DEF Run, TypeOK
  <2> QED BY <1>1, <2>2 DEF Run, TypeOK
<1>2. ASSUME NEW p \in Proc, Step(p) \/ Killed(p) \/ InterruptedCondition(p)
      PROVE  TypeOK'
  <2>1. todo' \in [Proc -> Seq(Steps)]
    BY <1>2, StepTypes, ExpansionTypes DEF TypeOK
  <2>2. todo[p] # <<>> /\ todo[p] \in Seq(Steps)
    BY <1>2, UnderWay, SignalUnderWay DEF TypeOK
  <2>3. Head(todo[p]) \in Steps
    BY <2>2
  <2> DEFINE s == Head(todo[p]).of
             Others == /\ trap' \in [Proc -> {"none", "set", "used"}]
                       /\ calm' \in BOOLEAN /\ runs' \in 0..MaxRuns
             Stack == /\ svc' \in [Service -> {"absent", "stopped", "starting", "ready"}]
                      /\ data' \in [Service -> {"none", "empty", "schema", "rows"}]
                      /\ \A r \in Service : svc'[r] # "absent" => data'[r] # "none"
                      /\ stale' \in [Service -> BOOLEAN]
                      /\ app' \in {"absent", "stopped", "starting", "serving"}
                      /\ migrates' \in BOOLEAN
  <2> SUFFICES Others /\ Stack
    BY <2>1 DEF TypeOK
  <2>4. At(p, "start") \/ At(p, "dismantle") \/ At(p, "drop") \/ At(p, "stop")
        => s \in Service
    BY <2>3 DEF At, Steps
  <2>5. /\ \A steps : Proceed(p, steps) => Others
        /\ Fails(p) \/ TimesOut(p) => Others
    BY DEF Proceed, Fails, TimesOut, Ends, TypeOK
  <2>6. Killed(p) \/ InterruptedCondition(p) => Others
    BY DEF Killed, InterruptedCondition, Ends, TypeOK
  <2> HIDE DEF s, Others
  <2>7. UNCHANGED stack => Stack
    BY DEF stack, TypeOK
  <2>8. ASSUME NEW S, ComposeUp(S), app' = app, migrates' = migrates PROVE Stack
    <3>1. /\ svc' \in [Service -> {"absent", "stopped", "starting", "ready"}]
          /\ data' \in [Service -> {"none", "empty", "schema", "rows"}]
          /\ \A r \in Service : svc'[r] # "absent" => data'[r] # "none"
      BY <2>8 DEF ComposeUp, TypeOK
    <3>2. stale' \in [Service -> BOOLEAN]
      BY <2>8 DEF ComposeUp, TypeOK
    <3> QED BY <2>8, <3>1, <3>2 DEF TypeOK
  <2>9. CASE SetTrap(p)
    BY <2>7, <2>9 DEF SetTrap, Others, TypeOK, stack
  <2>10. CASE Check(p) \/ Probe(p) \/ Wait(p) \/ Healthy(p) \/ HealthOk(p) \/ RunInApp(p)
    BY <2>5, <2>7, <2>10 DEF Check, Probe, Wait, Healthy, HealthOk, RunInApp
  <2>11. CASE WaitTimesOut(p) \/ Unhealthy(p) \/ HealthTimesOut(p)
    BY <2>5, <2>7, <2>11 DEF WaitTimesOut, Unhealthy, HealthTimesOut
  <2>12. CASE Start(p) \/ Infra(p)
    BY <2>5, <2>8, <2>12 DEF Start, Infra
  <2>13. CASE Dismantle(p) \/ DropVolume(p) \/ StopService(p)
    <3>1. CASE Dismantle(p)
      BY <2>4, <2>5, <3>1 DEF Dismantle, s, TypeOK
    <3>2. CASE DropVolume(p)
      BY <2>4, <2>5, <3>2 DEF DropVolume, s, TypeOK
    <3>3. CASE StopService(p)
      BY <2>4, <2>5, <3>3 DEF StopService, s, TypeOK, Running
    <3> QED BY <2>13, <3>1, <3>2, <3>3
  <2>14. CASE Launch(p) \/ AssertSeedAllowed(p)
    BY <2>5, <2>7, <2>14 DEF Launch, AssertSeedAllowed
  <2>15. CASE AppUp(p)
    BY <2>5, <2>15 DEF AppUp, TypeOK
  <2>16. CASE Migrate(p) \/ Truncate(p) \/ Reload(p)
    <3>1. Others
      BY <2>5, <2>16 DEF Migrate, Truncate, Reload
    <3>2. Stack
      BY <2>16 DEF Migrate, Truncate, Reload, Migrated, TypeOK, Service
    <3> QED BY <3>1, <3>2
  <2>17. CASE StopAll(p) \/ RemoveAll(p)
    <3>1. Others
      BY <2>5, <2>17 DEF StopAll, RemoveAll
    <3>2. Stack
      BY <2>17 DEF StopAll, RemoveAll, Stopped, TypeOK
    <3> QED BY <3>1, <3>2
  <2>18. CASE WipeAll(p)
    BY <2>5, <2>18 DEF WipeAll, TypeOK
  <2>19. CASE Killed(p) \/ InterruptedCondition(p)
    BY <2>6, <2>7, <2>19 DEF Killed, InterruptedCondition
  <2> QED BY <1>2, <2>9, <2>10, <2>11, <2>12, <2>13, <2>14, <2>15, <2>16, <2>17, <2>18,
             <2>19 DEF Step
<1>3. ASSUME NEW s \in Service, BecomesReady(s) \/ ChangePassword(s)
      PROVE  TypeOK'
  BY <1>3 DEF BecomesReady, ChangePassword, TypeOK
<1>4. ASSUME AppServes \/ ClientWrites
      PROVE  TypeOK'
  BY <1>4 DEF AppServes, ClientWrites, Migrated, TypeOK, Service
<1> QED BY <1>1, <1>2, <1>3, <1>4 DEF StackStep

\* The profile is not edited under the scripts, but for its passwords.
LEMMA MigratesStays == StackStep => migrates' = migrates
BY DEF StackStep, Step, Run, SetTrap, Check, Probe, Start, Wait, WaitTimesOut,
       Dismantle, DropVolume, StopService, Launch, Infra, Healthy, Unhealthy,
       AppUp, HealthOk, HealthTimesOut, RunInApp, Migrate, AssertSeedAllowed,
       Truncate, Reload, StopAll, RemoveAll, WipeAll, Killed,
       InterruptedCondition, BecomesReady, ChangePassword, AppServes,
       ClientWrites, stack

LEMMA UnchangedTypes == TypeOK /\ UNCHANGED vars => TypeOK'
BY DEF TypeOK, vars

-----------------------------------------------------------------------------
(***************************************************************************)
(* What holds while calm, that is, as long as every script ran alone, to   *)
(* its end and in time.  PostgreSQL is then starting only while somebody   *)
(* waits for it, so that a connection that fails means a stale password,   *)
(* and its volume is dropped for that reason only, after the app container *)
(* that served over it has gone.                                           *)
(***************************************************************************)
DB == "postgres"
Busy(p) == ~Over(p) /\ ~Serving(p)
AtService(p, step, s) == At(p, step) /\ Head(todo[p]).of = s

\* What the next step of p may rely on.
HeadOK(p) ==
  /\ AtService(p, "probe", DB) => svc[DB] = "ready"
  /\ AtService(p, "dismantle", DB) \/ AtService(p, "drop", DB) => stale[DB]
  /\ AtService(p, "drop", DB) => app = "absent"

Awaits(p) == AtService(p, "wait", DB) \/ At(p, "healthy")

Alone == \A p, q \in Proc : Busy(p) /\ Busy(q) => p = q
Tables == migrates /\ app = "serving" => HasTables

CalmOK ==
  /\ Alone
  /\ \A p \in Proc : Chain(todo[p]) /\ HeadOK(p)
  /\ svc[DB] = "starting" => \E p \in Proc : Awaits(p)
  /\ Tables

CalmInv == calm => CalmOK

\* PostgreSQL is starting for the script that waits for it, and for no other.
LEMMA Waiting ==
  ASSUME CalmOK, NEW p \in Proc, Busy(p), ~Awaits(p)
  PROVE  svc[DB] # "starting"
<1>1. \A q \in Proc : Awaits(q) => Busy(q)
  BY DEF Awaits, AtService, At, Busy, Over, Serving
<1> QED BY <1>1 DEF CalmOK, Alone

\* A step of the only script under way leaves the others as they are.
LEMMA Sole ==
  ASSUME CalmOK, NEW p \in Proc, \A q \in Proc \ {p} : ~Busy(q) /\ todo'[q] = todo[q],
         Chain(todo'[p]), HeadOK(p)', svc'[DB] = "starting" => Awaits(p)', Tables'
  PROVE  CalmOK'
<1>1. ASSUME NEW q \in Proc \ {p} PROVE ~Busy(q)' /\ Chain(todo[q])' /\ HeadOK(q)'
  <2>1. ~Busy(q) /\ todo'[q] = todo[q] /\ Chain(todo[q])
    BY DEF CalmOK
  <2>2. ~Busy(q)'
    BY <2>1 DEF Busy, Over, Serving, At
  <2>3. HeadOK(q)'
    BY <2>2 DEF HeadOK, AtService, At, Busy, Over, Serving
  <2>4. Chain(todo[q])'
    BY <2>1
  <2> QED BY <2>2, <2>3, <2>4
<1> QED BY <1>1 DEF CalmOK, Alone

LEMMA Becomes ==
  ASSUME TypeOK, NEW p \in Proc, todo[p] # <<>>, NEW steps, Then(p, steps)
  PROVE  todo'[p] = steps \o Tail(todo[p]) /\ \A q \in Proc \ {p} : todo'[q] = todo[q]
BY DEF Then, TypeOK

LEMMA OthersRest ==
  ASSUME CalmOK, NEW p \in Proc, Busy(p)
  PROVE  \A q \in Proc \ {p} : ~Busy(q)
BY DEF CalmOK, Alone

\* A script goes on to its next step.
LEMMA GoesOn ==
  ASSUME TypeOK, CalmOK, NEW p \in Proc, Busy(p), Then(p, <<>>),
         svc'[DB] = "starting" => Awaits(p)', Tables',
         AtService(p, "wait", DB) => svc'[DB] = "ready",
         AtService(p, "dismantle", DB) => stale'[DB] /\ app' = "absent"
  PROVE  CalmOK'
<1>1. todo[p] # <<>> /\ todo[p] \in Seq(Steps) /\ Chain(todo[p])
  BY DEF Busy, Over, CalmOK, TypeOK
<1>2. /\ todo'[p] = Tail(todo[p])
      /\ \A q \in Proc \ {p} : todo'[q] = todo[q]
  <2>1. <<>> \o Tail(todo[p]) = Tail(todo[p])
    BY <1>1
  <2> QED BY <1>1, <2>1, Becomes
<1>3. /\ Chain(Tail(todo[p]))
      /\ Tail(todo[p]) # <<>> =>
           /\ Head(Tail(todo[p])).do = "probe" =>
                Head(todo[p]).do = "wait" /\ Head(todo[p]).of = Head(Tail(todo[p])).of
           /\ Head(Tail(todo[p])).do = "drop" =>
                Head(todo[p]).do = "dismantle" /\ Head(todo[p]).of = Head(Tail(todo[p])).of
           /\ Head(Tail(todo[p])).do # "dismantle"
  BY <1>1, ChainTail
<1>4. HeadOK(p)'
  BY <1>1, <1>2, <1>3 DEF HeadOK, AtService, At
<1> QED BY <1>2, <1>3, <1>4, OthersRest, Sole

\* A script puts other steps before its next one.
LEMMA GoesBy ==
  ASSUME TypeOK, CalmOK, NEW p \in Proc, Busy(p),
         NEW steps \in Seq(Steps), steps # <<>>, Chain(steps), Then(p, steps),
         ~At(p, "wait"), ~At(p, "dismantle"),
         svc'[DB] # "starting", Tables',
         Head(steps).do = "probe" /\ Head(steps).of = DB => svc'[DB] = "ready",
         Head(steps).do = "dismantle" /\ Head(steps).of = DB => stale'[DB],
         Head(steps).do # "drop"
  PROVE  CalmOK'
<1>1. todo[p] # <<>> /\ todo[p] \in Seq(Steps) /\ Chain(todo[p])
  BY DEF Busy, Over, CalmOK, TypeOK
<1>2. /\ todo'[p] = steps \o Tail(todo[p])
      /\ \A q \in Proc \ {p} : todo'[q] = todo[q]
  BY <1>1, Becomes
<1>3. Chain(todo'[p])
  <2>1. Tail(todo[p]) \in Seq(Steps) /\ Chain(Tail(todo[p])) /\ Fresh(Tail(todo[p]))
    BY <1>1, ChainTail DEF At
  <2> QED BY <1>2, <2>1, ChainJoin
<1>4. Head(todo'[p]) = Head(steps)
  BY <1>1, <1>2
<1>5. HeadOK(p)'
  BY <1>4 DEF HeadOK, AtService, At
<1> QED BY <1>2, <1>3, <1>5, OthersRest, Sole

\* A script ends, and may stop the services before it does.
LEMMA EndsCalmly ==
  ASSUME TypeOK, CalmOK, NEW p \in Proc, \A q \in Proc \ {p} : ~Busy(q),
         Ends(p), svc'[DB] # "starting", Tables'
  PROVE  CalmOK'
<1>1. /\ todo'[p] \in {<<>>, StopServices}
      /\ \A q \in Proc \ {p} : todo'[q] = todo[q]
  BY DEF Ends, TypeOK
<1>2. Chain(<<>>) /\ Fresh(<<>>)
  BY DEF Chain, Fresh
<1>3. Chain(todo'[p]) /\ Fresh(todo'[p])
  BY <1>1, <1>2, ChainedExpansions DEF Sound
<1>4. HeadOK(p)'
  BY <1>3 DEF HeadOK, AtService, At, Fresh
<1> QED BY <1>1, <1>3, <1>4, Sole

\* Step by step, as long as it stays calm.
LEMMA StepIsCalm ==
  ASSUME TypeOK, CalmOK, NEW p \in Proc, Step(p), calm'
  PROVE  CalmOK'
<1>1. Busy(p) /\ todo[p] # <<>> /\ todo[p] \in Seq(Steps) /\ Chain(todo[p])
  BY UnderWay DEF Busy, Over, CalmOK, TypeOK
<1>2. \A q \in Proc \ {p} : ~Busy(q)
  BY <1>1, OthersRest
<1>3. ~Awaits(p) => svc[DB] # "starting"
  BY <1>1, Waiting
<1>4. Tables /\ HeadOK(p) /\ DB \in Service /\ migrates' = migrates
  BY MigratesStays DEF CalmOK, DB, Service, StackStep
<1> DEFINE s == Head(todo[p]).of
<1>5. Head(todo[p]) \in Steps
  BY <1>1
<1>6. /\ At(p, "check") \/ At(p, "probe") \/ At(p, "wait") \/ At(p, "start")
           \/ At(p, "dismantle") \/ At(p, "drop") \/ At(p, "stop") => s \in Service
  BY <1>5 DEF At, Steps
<1>7. At(p, "start") \/ At(p, "infra") =>
        /\ Tail(todo[p]) # <<>>
        /\ At(p, "start") => Head(Tail(todo[p])).do = "wait" /\ Head(Tail(todo[p])).of = s
        /\ At(p, "infra") => Head(Tail(todo[p])).do = "healthy"
  BY <1>1, ChainTail DEF At
<1> HIDE DEF s
<1>8. CASE /\ Then(p, <<>>) /\ ~At(p, "wait") /\ ~At(p, "dismantle")
           /\ svc'[DB] # "starting" /\ Tables'
  BY <1>1, <1>8, GoesOn DEF AtService
<1>9. CASE Ends(p) /\ svc'[DB] # "starting" /\ Tables'
  BY <1>2, <1>9, EndsCalmly
<1>10. CASE UNCHANGED stack /\ ~Awaits(p)
            /\ \/ Then(p, <<>>) /\ ~At(p, "wait") /\ ~At(p, "dismantle")
               \/ Ends(p)
  BY <1>3, <1>4, <1>8, <1>9, <1>10 DEF stack, Tables, HasTables
<1>11. CASE SetTrap(p) \/ HealthOk(p) \/ AssertSeedAllowed(p)
  BY <1>10, <1>11 DEF SetTrap, HealthOk, AssertSeedAllowed, Proceed, Fails, stack,
                      Awaits, AtService, At
<1>12. CASE Check(p)
  <2>1. /\ UNCHANGED stack /\ At(p, "check") /\ s \in Service
        /\ Then(p, IF Running(s) THEN <<Do("probe", s)>> ELSE NotRunning(s))
    BY <1>6, <1>12 DEF Check, Proceed, At, s
  <2>2. svc'[DB] = svc[DB] /\ svc[DB] # "starting" /\ Tables'
    BY <1>3, <1>4, <2>1 DEF stack, Tables, HasTables, Awaits, AtService, At
  <2>3. ~At(p, "wait") /\ ~At(p, "dismantle")
    BY <2>1 DEF At
  <2>4. CASE Running(s)
    <3>1. /\ <<Do("probe", s)>> \in Seq(Steps) /\ <<Do("probe", s)>> # <<>>
          /\ Chain(<<Do("probe", s)>>) /\ Head(<<Do("probe", s)>>) = Do("probe", s)
      BY <2>1, ExpansionTypes, ChainedExpansions DEF Expansions
    <3>2. s = DB => svc'[DB] = "ready"
      BY <2>2, <2>4 DEF Running
    <3> DEFINE steps == <<Do("probe", s)>>
    <3>3. /\ Head(steps).do = "probe" /\ Head(steps).of = s
          /\ Then(p, steps)
      BY <2>1, <2>4, <3>1 DEF Do
    <3>4. steps \in Seq(Steps) /\ steps # <<>> /\ Chain(steps)
      BY <3>1
    <3> HIDE DEF steps
    <3> QED BY <1>1, <2>2, <2>3, <3>2, <3>3, <3>4, GoesBy
  <2>5. CASE ~Running(s)
    <3>1. NotRunning(s) \in Seq(Steps) /\ NotRunning(s) # <<>>
      BY <2>1, ExpansionTypes DEF Expansions, NotRunning, StartService
    <3>2. Chain(NotRunning(s)) /\ Head(NotRunning(s)) = Do("start", s)
      BY <2>1, ChainedExpansions
    <3>3. Head(NotRunning(s)).do = "start" /\ Then(p, NotRunning(s))
      BY <2>1, <2>5, <3>2 DEF Do
    <3> QED BY <1>1, <2>2, <2>3, <3>1, <3>2, <3>3, GoesBy
  <2> QED BY <2>4, <2>5
<1>13. CASE Probe(p)
  <2>1. /\ UNCHANGED stack /\ At(p, "probe") /\ s \in Service
        /\ Then(p, IF Accepts(s) THEN <<>> ELSE ResetService(s))
    BY <1>6, <1>13 DEF Probe, Proceed, At, s
  <2>2. svc'[DB] = svc[DB] /\ stale'[DB] = stale[DB] /\ svc[DB] # "starting" /\ Tables'
    BY <1>3, <1>4, <2>1 DEF stack, Tables, HasTables, Awaits, AtService, At
  <2>3. ~At(p, "wait") /\ ~At(p, "dismantle")
    BY <2>1 DEF At
  <2>4. CASE Accepts(s)
    BY <1>8, <2>1, <2>2, <2>3, <2>4
  <2>5. CASE ~Accepts(s)
    <3>1. ResetService(s) \in Seq(Steps) /\ ResetService(s) # <<>>
      BY <2>1, ExpansionTypes DEF Expansions, ResetService, StartService
    <3>2. Chain(ResetService(s)) /\ Head(ResetService(s)) = Do("dismantle", s)
      BY <2>1, ChainedExpansions
    <3>3. s = DB => stale[DB]
      BY <1>4, <2>1, <2>5 DEF HeadOK, AtService, Accepts, s
    <3>4. s = DB => stale'[DB]
      BY <2>2, <3>3
    <3> QED BY <1>1, <2>1, <2>2, <2>3, <2>5, <3>1, <3>2, <3>4, GoesBy DEF Do
  <2> QED BY <2>4, <2>5
<1>14. CASE Start(p)
  <2>1. /\ At(p, "start") /\ Then(p, <<>>) /\ ComposeUp({s}) /\ app' = app
        /\ s \in Service /\ svc[DB] # "starting"
    BY <1>3, <1>6, <1>14 DEF Start, Proceed, s, Awaits, AtService, At
  <2>2. ~At(p, "wait") /\ ~At(p, "dismantle")
    BY <2>1 DEF At
  <2>3. todo'[p] = Tail(todo[p])
    <3>1. <<>> \o Tail(todo[p]) = Tail(todo[p])
      BY <1>1
    <3> QED BY <1>1, <2>1, <3>1, Becomes
  <2>4. svc'[DB] = "starting" => s = DB
    BY <1>4, <2>1 DEF ComposeUp
  <2>5. s = DB => Awaits(p)'
    BY <1>7, <2>1, <2>3 DEF Awaits, AtService, At
  <2>6. Tables'
    BY <1>4, <2>1 DEF Tables, HasTables, ComposeUp, DB
  <2> QED BY <1>1, <2>1, <2>2, <2>4, <2>5, <2>6, GoesOn DEF AtService
<1>15. CASE Wait(p)
  <2>1. /\ At(p, "wait") /\ Then(p, <<>>) /\ UNCHANGED stack /\ svc[s] = "ready"
    BY <1>15 DEF Wait, Proceed, s
  <2>2. ~At(p, "healthy") /\ ~At(p, "dismantle")
    BY <2>1 DEF At
  <2>3. svc[DB] # "starting"
    BY <1>3, <2>1, <2>2 DEF Awaits, AtService, s
  <2>4. AtService(p, "wait", DB) => svc'[DB] = "ready"
    BY <2>1 DEF AtService, s, stack
  <2>5. svc'[DB] # "starting" /\ Tables'
    BY <1>4, <2>1, <2>3 DEF stack, Tables, HasTables
  <2> QED BY <1>1, <2>1, <2>2, <2>4, <2>5, GoesOn DEF AtService
<1>16. CASE WaitTimesOut(p) \/ Unhealthy(p) \/ HealthTimesOut(p)
  BY <1>16 DEF WaitTimesOut, Unhealthy, HealthTimesOut, TimesOut
<1>17. CASE Dismantle(p)
  <2>1. /\ At(p, "dismantle") /\ Then(p, <<>>) /\ svc' = [svc EXCEPT ![s] = "absent"]
        /\ app' = "absent" /\ stale' = stale /\ data' = data
    BY <1>17 DEF Dismantle, Proceed, s
  <2>2. ~At(p, "wait") /\ ~Awaits(p)
    BY <2>1 DEF Awaits, AtService, At
  <2>3. svc'[DB] # "starting" /\ Tables'
    BY <1>3, <1>4, <2>1, <2>2 DEF TypeOK, Tables, HasTables
  <2>4. AtService(p, "dismantle", DB) => stale'[DB] /\ app' = "absent"
    BY <1>4, <2>1 DEF HeadOK
  <2> QED BY <1>1, <2>1, <2>2, <2>3, <2>4, GoesOn DEF AtService
<1>18. CASE DropVolume(p)
  <2>1. /\ At(p, "drop") /\ Then(p, <<>>) /\ svc' = [svc EXCEPT ![s] = "absent"]
        /\ app' = app /\ data' = [data EXCEPT ![s] = "none"] /\ s \in Service
    BY <1>6, <1>18 DEF DropVolume, Proceed, s
  <2>2. ~At(p, "wait") /\ ~At(p, "dismantle") /\ ~Awaits(p)
    BY <2>1 DEF Awaits, AtService, At
  <2>3. svc'[DB] # "starting"
    BY <1>3, <1>4, <2>1, <2>2 DEF TypeOK
  <2>4. Tables'
    <3>1. CASE s = DB
      <4>1. app = "absent"
        BY <1>4, <2>1, <3>1 DEF HeadOK, AtService, s
      <4> QED BY <2>1, <4>1 DEF Tables, HasTables
    <3>2. CASE s # DB
      BY <1>4, <2>1, <3>2 DEF Tables, HasTables, TypeOK, DB
    <3> QED BY <3>1, <3>2
  <2> QED BY <1>8, <2>1, <2>2, <2>3, <2>4
<1>19. CASE StopService(p)
  <2>1. /\ At(p, "stop") /\ Then(p, <<>>) /\ UNCHANGED <<data, app>>
        /\ svc' = [svc EXCEPT ![s] = IF Running(s) THEN "stopped" ELSE @]
    BY <1>19 DEF StopService, Proceed, s
  <2>2. ~At(p, "wait") /\ ~At(p, "dismantle") /\ ~Awaits(p)
    BY <2>1 DEF Awaits, AtService, At
  <2>3. svc'[DB] # "starting" /\ Tables'
    BY <1>3, <1>4, <2>1, <2>2 DEF TypeOK, Tables, HasTables, Running
  <2> QED BY <1>8, <2>1, <2>2, <2>3
<1>20. CASE Launch(p) \/ RunInApp(p)
  <2>1. UNCHANGED stack /\ ~At(p, "wait") /\ ~At(p, "dismantle") /\ ~Awaits(p)
    BY <1>20 DEF Launch, RunInApp, Awaits, AtService, At
  <2>2. \/ Then(p, <<>>) \/ Ends(p)
        \/ Then(p, <<Do("serve", "stack")>>) \/ Then(p, ComposeInfra)
    BY <1>20 DEF Launch, RunInApp, Proceed, Fails
  <2>3. CASE Then(p, <<>>) \/ Ends(p)
    BY <1>10, <2>1, <2>3
  <2>4. svc'[DB] # "starting" /\ Tables'
    BY <1>3, <1>4, <2>1 DEF stack, Tables, HasTables
  <2>5. ASSUME NEW steps \in Seq(Steps), steps # <<>>, Sound(steps), Then(p, steps)
        PROVE  CalmOK'
    BY <1>1, <2>1, <2>4, <2>5, GoesBy DEF Sound, Fresh
  <2>6. <<Do("serve", "stack")>> # <<>> /\ ComposeInfra # <<>>
    BY DEF ComposeInfra
  <2>7. Sound(<<Do("serve", "stack")>>) /\ Sound(ComposeInfra)
    BY ChainedExpansions
  <2> QED BY <2>2, <2>3, <2>5, <2>6, <2>7 DEF Sound
<1>21. CASE Infra(p)
  <2>1. /\ At(p, "infra") /\ Then(p, <<>>) /\ ComposeUp(Service) /\ app' = app
    BY <1>21 DEF Infra, Proceed
  <2>2. ~At(p, "wait") /\ ~At(p, "dismantle")
    BY <2>1 DEF At
  <2>3. todo'[p] = Tail(todo[p])
    <3>1. <<>> \o Tail(todo[p]) = Tail(todo[p])
      BY <1>1
    <3> QED BY <1>1, <2>1, <3>1, Becomes
  <2>4. Awaits(p)'
    BY <1>7, <2>1, <2>3 DEF Awaits, At
  <2>5. Tables'
    BY <1>4, <2>1 DEF Tables, HasTables, ComposeUp, DB
  <2> QED BY <1>1, <2>1, <2>2, <2>4, <2>5, GoesOn DEF AtService
<1>22. CASE Healthy(p)
  <2>1. /\ At(p, "healthy") /\ Then(p, <<>>) /\ UNCHANGED stack /\ svc[DB] = "ready"
    BY <1>4, <1>22 DEF Healthy, Proceed
  <2>2. ~At(p, "wait") /\ ~At(p, "dismantle")
    BY <2>1 DEF At
  <2> QED BY <1>4, <1>8, <2>1, <2>2 DEF stack, Tables, HasTables
<1>23. CASE AppUp(p) \/ Migrate(p) \/ Truncate(p) \/ Reload(p)
  <2>1. /\ ~At(p, "wait") /\ ~At(p, "dismantle") /\ ~Awaits(p) /\ svc' = svc
        /\ Then(p, <<>>) \/ Ends(p)
    BY <1>23 DEF AppUp, Migrate, Truncate, Reload, Proceed, Fails, Awaits, AtService, At
  <2>2. Tables'
    BY <1>4, <1>23 DEF AppUp, Migrate, Truncate, Reload, Migrated, Tables, HasTables,
                       TypeOK, DB, Service
  <2> QED BY <1>3, <1>8, <1>9, <2>1, <2>2
<1>24. CASE StopAll(p) \/ RemoveAll(p) \/ WipeAll(p)
  <2>1. /\ ~At(p, "wait") /\ ~At(p, "dismantle") /\ Then(p, <<>>)
    BY <1>24 DEF StopAll, RemoveAll, WipeAll, Proceed, At
  <2>2. svc'[DB] # "starting" /\ Tables'
    BY <1>4, <1>24 DEF StopAll, RemoveAll, WipeAll, Stopped, Tables, HasTables
  <2> QED BY <1>8, <2>1, <2>2
<1> QED BY <1>11, <1>12, <1>13, <1>14, <1>15, <1>16, <1>17, <1>18, <1>19, <1>20, <1>21,
           <1>22, <1>23, <1>24 DEF Step

\* What is no longer calm does not become so again.
LEMMA CalmOnlyFalls == StackStep /\ calm' => calm
BY DEF StackStep, Step, Run, SetTrap, Check, Probe, Start, Wait, WaitTimesOut,
       Dismantle, DropVolume, StopService, Launch, Infra, Healthy, Unhealthy,
       AppUp, HealthOk, HealthTimesOut, RunInApp, Migrate, AssertSeedAllowed,
       Truncate, Reload, StopAll, RemoveAll, WipeAll, Proceed, Fails, TimesOut,
       Killed, InterruptedCondition, BecomesReady, ChangePassword, AppServes,
       ClientWrites

LEMMA CalmStep ==
  ASSUME TypeOK, CalmInv, StackStep
  PROVE  CalmInv'
<1> SUFFICES ASSUME calm' PROVE CalmOK'
  BY DEF CalmInv
<1>1. ASSUME NEW p \in Proc, NEW script \in AllScripts, Run(p, script)
      PROVE  CalmOK'
  <2>1. CalmOK /\ Quiet
    BY <1>1 DEF Run, CalmInv
  <2>2. \A q \in Proc : ~Busy(q) /\ ~Awaits(q)
    BY <2>1 DEF Quiet, Busy, Awaits, AtService, At, Over, Serving
  <2>3. /\ todo'[p] = Program[script]
        /\ \A q \in Proc \ {p} : todo'[q] = todo[q]
        /\ UNCHANGED <<svc, data, app, migrates>>
    BY <1>1 DEF Run, TypeOK
  <2>4. Chain(todo'[p]) /\ Fresh(todo'[p])
    BY <2>3, SoundScripts DEF Sound
  <2>5. HeadOK(p)'
    BY <2>4 DEF HeadOK, AtService, At, Fresh
  <2>6. svc'[DB] # "starting" /\ Tables'
    BY <2>1, <2>2, <2>3 DEF CalmOK, Tables, HasTables
  <2> QED BY <2>1, <2>2, <2>3, <2>4, <2>5, <2>6, Sole
<1>2. ASSUME NEW p \in Proc, Step(p)
      PROVE  CalmOK'
  <2>1. calm
    BY <1>2, CalmOnlyFalls DEF StackStep
  <2> QED BY <1>2, <2>1, StepIsCalm DEF CalmInv
<1>3. ASSUME NEW p \in Proc, Killed(p)
      PROVE  CalmOK'
  <2>1. CalmOK /\ Quiet /\ Serving(p) /\ Ends(p) /\ UNCHANGED stack
    BY <1>3 DEF Killed, CalmInv
  <2>2. \A q \in Proc : ~Busy(q) /\ ~Awaits(q)
    BY <2>1 DEF Quiet, Busy, Awaits, AtService, At, Over, Serving
  <2>3. svc'[DB] # "starting" /\ Tables'
    BY <2>1, <2>2 DEF CalmOK, Tables, HasTables, stack
  <2> QED BY <2>1, <2>2, <2>3, EndsCalmly
<1>4. ASSUME NEW p \in Proc, InterruptedCondition(p)
      PROVE  CalmOK'
  BY <1>4 DEF InterruptedCondition
<1>5. ASSUME UNCHANGED <<todo, calm>>, stale[DB] => stale'[DB],
             svc'[DB] = svc[DB] \/ svc'[DB] = "ready",
             app' = app \/ (app = "starting" /\ app' = "serving"), Tables => Tables'
      PROVE  CalmOK'
  <2>1. CalmOK
    BY <1>5 DEF CalmInv
  <2>2. \A p \in Proc : HeadOK(p) => HeadOK(p)'
    BY <1>5 DEF HeadOK, AtService, At
  <2>3. svc'[DB] = "starting" => \E p \in Proc : Awaits(p)'
    BY <1>5, <2>1 DEF CalmOK, Awaits, AtService, At
  <2>4. Alone' /\ \A p \in Proc : Chain(todo[p])'
    BY <1>5, <2>1 DEF CalmOK, Alone, Busy, Over, Serving, At
  <2> QED BY <1>5, <2>1, <2>2, <2>3, <2>4 DEF CalmOK
<1>6. ASSUME NEW s \in Service, BecomesReady(s) \/ ChangePassword(s)
      PROVE  CalmOK'
  BY <1>5, <1>6 DEF BecomesReady, ChangePassword, TypeOK, Tables, HasTables, DB, Service
<1>7. ASSUME AppServes \/ ClientWrites
      PROVE  CalmOK'
  <2>1. CASE AppServes
    <3>1. migrates => svc[DB] # "absent" /\ data[DB] # "none"
      BY <2>1 DEF AppServes, Accepts, TypeOK, DB, Service
    <3>2. Tables'
      BY <2>1, <3>1 DEF AppServes, Migrated, Tables, HasTables, TypeOK, DB, Service
    <3> QED BY <1>5, <2>1, <3>2 DEF AppServes
  <2>2. CASE ClientWrites
    BY <1>5, <2>2 DEF ClientWrites, Tables, HasTables, TypeOK, DB, Service
  <2> QED BY <1>7, <2>1, <2>2
<1> QED BY <1>1, <1>2, <1>3, <1>4, <1>6, <1>7 DEF StackStep

LEMMA CalmUnchanged == CalmInv /\ UNCHANGED vars => CalmInv'
BY DEF CalmInv, CalmOK, Alone, Busy, Over, Serving, At, HeadOK, AtService, Awaits,
       Tables, HasTables, vars

\* What loses rows while calm.
LEMMA StepKeepsRows ==
  ASSUME TypeOK, CalmInv, StackStep, RowsLost, calm
  PROVE  \/ stale[DB]
         \/ \E p \in Proc : At(p, "wipeAll") \/ At(p, "truncate")
<1>1. data[DB] = "rows" /\ data'[DB] # "rows"
  BY DEF RowsLost, DB
<1>2. ASSUME NEW p \in Proc, Step(p)
      PROVE  DropVolume(p) \/ At(p, "wipeAll") \/ At(p, "truncate")
  <2>1. data' # data
    BY <1>1
  <2>2. \/ Start(p) \/ DropVolume(p) \/ Infra(p) \/ Migrate(p) \/ Truncate(p)
        \/ Reload(p) \/ WipeAll(p)
    BY <1>2, <2>1 DEF Step, SetTrap, Check, Probe, Wait, WaitTimesOut, Dismantle,
         StopService, Launch, Healthy, Unhealthy, AppUp,
         HealthOk, HealthTimesOut, RunInApp, AssertSeedAllowed,
         StopAll, RemoveAll, stack
  <2>3. ~Start(p) /\ ~Infra(p)
    BY <1>1 DEF Start, Infra, ComposeUp, DB, Service
  <2>4. ~Migrate(p) /\ ~Reload(p)
    BY <1>1 DEF Migrate, Reload, Migrated, DB, TypeOK, Service
  <2> QED BY <2>2, <2>3, <2>4 DEF Truncate, WipeAll
<1>3. ASSUME NEW p \in Proc, DropVolume(p)
      PROVE  stale[DB]
  <2>1. At(p, "drop") /\ data' = [data EXCEPT ![Head(todo[p]).of] = "none"]
    BY <1>3 DEF DropVolume
  <2>2. AtService(p, "drop", DB)
    BY <1>1, <2>1 DEF AtService, TypeOK
  <2> QED BY <2>2 DEF CalmInv, CalmOK, HeadOK
<1>4. ASSUME ~\E p \in Proc : Step(p)
      PROVE  FALSE
  <2>1. data' # data
    BY <1>1
  <2>2. AppServes \/ ClientWrites
    BY <1>4, <2>1 DEF StackStep, Run, Killed, InterruptedCondition, BecomesReady,
                      ChangePassword, stack
  <2> QED BY <1>1, <2>2 DEF AppServes, ClientWrites, Migrated, DB, TypeOK, Service
<1> QED BY <1>2, <1>3, <1>4

-----------------------------------------------------------------------------
LEMMA StackInit == Init => TypeOK /\ CalmInv
<1> SUFFICES ASSUME Init PROVE TypeOK /\ CalmInv
  OBVIOUS
<1>1. TypeOK
  BY ConstantsOK DEF Init, TypeOK, Service
<1>2. CalmOK
  <2>1. \A p \in Proc : todo[p] = <<>>
    BY DEF Init
  <2>2. Chain(<<>>)
    BY DEF Chain
  <2>3. svc[DB] # "starting" /\ app # "serving"
    BY DEF Init, DB, Service
  <2> QED BY <2>1, <2>2, <2>3 DEF CalmOK, Alone, Busy, Over, HeadOK, AtService, At,
                                      Tables, HasTables
<1> QED BY <1>1, <1>2 DEF CalmInv

StackInv == TypeOK /\ CalmInv

LEMMA StackInvariant == Spec => []StackInv
<1>1. Init => StackInv
  BY StackInit DEF StackInv
<1>2. StackInv /\ [Next]_vars => StackInv'
  BY StackSteps, StackTypes, UnchangedTypes, CalmStep, CalmUnchanged DEF StackInv
<1> QED BY <1>1, <1>2, PTL DEF Spec

\* As long as scripts run one after the other, to their end and in time, only
\* wipe.sh and seed.sh lose rows, or a password that was changed
\* (docs/getting-started.md, "Clean vs reuse"; postgres_reset_container).
THEOREM RowsAreKept == Spec => RowsSurvive
<1> DEFINE Kept == RowsLost /\ calm =>
                     \/ stale["postgres"]
                     \/ \E p \in Proc : At(p, "wipeAll") \/ At(p, "truncate")
<1>1. StackInv /\ [Next]_vars => [Kept]_vars
  <2>1. ASSUME StackInv, Next PROVE Kept
    BY <2>1, StackSteps, StepKeepsRows DEF StackInv, DB
  <2> QED BY <2>1
<1>2. [][Kept]_vars => RowsSurvive
  BY DEF RowsSurvive
<1> QED BY <1>1, <1>2, StackInvariant, PTL DEF Spec

\* Nothing takes the tables from under an app container that serves on.
LEMMA StepKeepsTables ==
  ASSUME TypeOK, CalmInv, StackStep, calm, HasTables,
         app = "serving", app' = "serving"
  PROVE  HasTables'
<1> SUFFICES ASSUME data' # data PROVE HasTables'
  BY DEF HasTables
<1>1. ASSUME NEW p \in Proc, Step(p)
      PROVE  HasTables'
  <2>1. \/ Start(p) \/ DropVolume(p) \/ Infra(p) \/ Migrate(p) \/ Truncate(p)
        \/ Reload(p) \/ WipeAll(p)
    BY <1>1 DEF Step, SetTrap, Check, Probe, Wait, WaitTimesOut, Dismantle,
         StopService, Launch, Healthy, Unhealthy, AppUp,
         HealthOk, HealthTimesOut, RunInApp, AssertSeedAllowed,
         StopAll, RemoveAll, stack
  <2>2. Start(p) \/ Infra(p) => HasTables'
    BY DEF Start, Infra, ComposeUp, HasTables, Service
  <2>3. Migrate(p) \/ Truncate(p) \/ Reload(p) => HasTables'
    BY DEF Migrate, Truncate, Reload, Migrated, HasTables, TypeOK, Service
  <2>4. ASSUME DropVolume(p) PROVE HasTables'
    <3>1. At(p, "drop") /\ data' = [data EXCEPT ![Head(todo[p]).of] = "none"]
      BY <2>4 DEF DropVolume
    <3>2. ~AtService(p, "drop", DB)
      BY DEF CalmInv, CalmOK, HeadOK
    <3> QED BY <3>1, <3>2 DEF AtService, HasTables, DB, TypeOK
  <2>5. ~WipeAll(p)
    BY DEF WipeAll
  <2> QED BY <2>1, <2>2, <2>3, <2>4, <2>5
<1>2. ASSUME ~\E p \in Proc : Step(p)
      PROVE  HasTables'
  <2>1. AppServes \/ ClientWrites
    BY <1>2 DEF StackStep, Run, Killed, InterruptedCondition, BecomesReady,
                ChangePassword, stack
  <2> QED BY <2>1 DEF AppServes, ClientWrites, HasTables, TypeOK, Service
<1> QED BY <1>1, <1>2

\* While calm, an app container serves without tables only if it leaves the
\* migration out and found none, for any terminals, scripts and number of runs
\* (entrypoint.sh, postgres_reset_container).
THEOREM AppKeepsItsTables == Spec => AppHasItsTables
<1> DEFINE Kept == calm' /\ app' = "serving" /\ ~HasTables' =>
                     ~migrates /\ (app = "serving" => ~HasTables)
<1>1. StackInv /\ [Next]_vars => [Kept]_vars
  <2>1. ASSUME StackInv, Next PROVE Kept
    <3> SUFFICES ASSUME calm', app' = "serving", ~HasTables'
                 PROVE  ~migrates /\ (app = "serving" => ~HasTables)
      OBVIOUS
    <3>1. StackStep
      BY <2>1, StackSteps
    <3>2. TypeOK' /\ Tables'
      BY <2>1, <3>1, StackTypes, CalmStep DEF StackInv, CalmInv, CalmOK
    <3>3. ~migrates
      BY <2>1, <3>1, <3>2, MigratesStays DEF Tables, StackInv, TypeOK
    <3>4. calm
      BY <3>1, CalmOnlyFalls
    <3>5. app = "serving" => ~HasTables
      BY <2>1, <3>1, <3>4, StepKeepsTables DEF StackInv
    <3> QED BY <3>3, <3>5
  <2> QED BY <2>1
<1>2. [][Kept]_vars => AppHasItsTables
  BY DEF AppHasItsTables
<1> QED BY <1>1, <1>2, StackInvariant, PTL DEF Spec

\* Without allow_destructive no process has a step to take that touches rows.
Spared == AllowDestructive \/ todo \in [Proc -> Seq(Gentle)]

McpInv == StackInv /\ McpTypeOK /\ Spared

LEMMA McpInvariant == McpSpec => []McpInv
<1>1. McpInit => McpInv
  <2> SUFFICES ASSUME McpInit PROVE McpInv
    OBVIOUS
  <2>1. StackInv /\ McpTypeOK
    BY StackInit DEF McpInit, StackInv, McpTypeOK
  <2>2. Spared
    BY DEF McpInit, Init, Spared
  <2> QED BY <2>1, <2>2 DEF McpInv
<1>2. McpInv /\ [McpNext]_mcpVars => McpInv'
  <2> SUFFICES ASSUME McpInv, [McpNext]_mcpVars PROVE McpInv'
    OBVIOUS
  <2> USE McpConstantsOK DEF McpInv
  <2>1. StackInv'
    <3>1. StackStep \/ UNCHANGED vars
      BY StackSteps DEF McpTypeOK, mcpVars
    <3> QED BY <3>1, StackTypes, UnchangedTypes, CalmStep, CalmUnchanged DEF StackInv
  <2>2. McpTypeOK'
    <3>1. CASE UNCHANGED mcp
      BY <2>1, <3>1 DEF mcp, StackInv, McpTypeOK
    <3>2. ASSUME NEW h \in Host, StartHost(h) PROVE McpTypeOK'
      BY <2>1, <3>2 DEF StartHost, StackInv, McpTypeOK
    <3>3. CASE StopHost
      BY <2>1, <3>3 DEF StopHost, HostRuns, StackInv, McpTypeOK
    <3>4. CASE NothingToStop
      BY <2>1, <3>4 DEF NothingToStop, EventLoopFree, StackInv, McpTypeOK
    <3>5. CASE StopReturns \/ StopTimesOut
      BY <2>1, <3>5 DEF StopReturns, StopTimesOut, StackInv, McpTypeOK
    <3> QED BY <3>1, <3>2, <3>3, <3>4, <3>5 DEF McpNext, RunTool, ToolTimesOut, mcpVars
  <2>3. Spared'
    <3> SUFFICES ASSUME ~AllowDestructive PROVE todo' \in [Proc -> Seq(Gentle)]
      BY DEF Spared
    <3>1. todo \in [Proc -> Seq(Gentle)]
      BY DEF Spared
    <3>2. /\ Gentle \subseteq Steps /\ Expansions(Gentle)
          /\ \A script \in {"start", "up", "down", "remove", "migrate"} :
               Program[script] \in Seq(Gentle)
      BY GentleScripts DEF Gentle
    <3>3. ASSUME NEW p \in Proc, Step(p) \/ Killed(p) \/ InterruptedCondition(p)
          PROVE  todo' \in [Proc -> Seq(Gentle)]
      BY <3>1, <3>2, <3>3, StepTypes
    <3>4. ASSUME NEW p \in Proc,
                 NEW script \in {"start", "up", "down", "remove", "migrate"},
                 Run(p, script)
          PROVE  todo' \in [Proc -> Seq(Gentle)]
      BY <3>1, <3>2, <3>4 DEF Run
    <3>5. ASSUME todo' = todo PROVE todo' \in [Proc -> Seq(Gentle)]
      BY <3>1, <3>5
    <3>6. CASE UNCHANGED mcpVars \/ NothingToStop \/ StopReturns \/ StopTimesOut
      BY <3>5, <3>6 DEF mcpVars, vars, NothingToStop, StopReturns, StopTimesOut
    <3>7. ASSUME NEW h \in Host, StartHost(h) PROVE todo' \in [Proc -> Seq(Gentle)]
      BY <3>4, <3>7 DEF StartHost
    <3>8. ASSUME NEW script \in ToolScript, RunTool(script)
          PROVE  todo' \in [Proc -> Seq(Gentle)]
      BY <3>4, <3>8 DEF RunTool, Allowed, ToolScript, Destructive
    <3>9. CASE StopHost \/ ToolTimesOut
      BY <3>3, <3>5, <3>9 DEF StopHost, ToolTimesOut, HostRuns, McpTypeOK, vars
    <3>10. CASE Environment
      BY <3>3, <3>5, <3>10 DEF Environment, Interrupt, BecomesReady, ChangePassword,
                              AppServes, ClientWrites
    <3> QED BY <3>3, <3>6, <3>7, <3>8, <3>9, <3>10 DEF McpNext
  <2> QED BY <2>1, <2>2, <2>3
<1> QED BY <1>1, <1>2, PTL DEF McpSpec

\* Every variable of the tools and of the stack keeps its type.
THEOREM McpTypeCorrect == McpSpec => []McpTypeOK
BY McpInvariant, PTL DEF McpInv

\* With destructive tools off and one tool after the other, no tool loses rows
\* unless the profile's password changed (_destructive_allowed).
THEOREM ToolsSpareRows == McpSpec => ToolsKeepRows
<1> DEFINE Kept == RowsLost /\ calm /\ ~AllowDestructive => stale["postgres"]
<1>1. McpInv /\ [McpNext]_mcpVars => [Kept]_mcpVars
  <2>1. ASSUME McpInv, McpNext PROVE Kept
    <3> SUFFICES ASSUME RowsLost, calm, ~AllowDestructive PROVE stale["postgres"]
      OBVIOUS
    <3>1. StackStep
      BY <2>1, StackSteps DEF McpInv, McpTypeOK, RowsLost, vars
    <3>2. \A p \in Proc : ~At(p, "wipeAll") /\ ~At(p, "truncate")
      <4>1. \A p \in Proc : todo[p] # <<>> => Head(todo[p]) \in Gentle
        BY <2>1 DEF McpInv, Spared
      <4> QED BY <4>1 DEF At, Gentle
    <3> QED BY <2>1, <3>1, <3>2, StepKeepsRows DEF McpInv, StackInv, DB
  <2> QED BY <2>1
<1>2. [][Kept]_mcpVars => ToolsKeepRows
  BY DEF ToolsKeepRows
<1> QED BY <1>1, <1>2, McpInvariant, PTL DEF McpSpec
=============================================================================
