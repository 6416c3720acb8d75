----------------------------- MODULE LocalStack -----------------------------
(***************************************************************************)
(* The local stack: PostgreSQL and Valkey in containers with a volume each, *)
(* the app container (Path B) or a server on the host (Path A), and the    *)
(* scripts that start, stop, migrate, seed and wipe them.                  *)
(*                                                                         *)
(* A script is the sequence of the steps it has still to take; a step is   *)
(* one podman command or one test of the state, so scripts of several      *)
(* terminals interleave between commands.  Bash runs with set -e: a step   *)
(* that fails ends the script, through the EXIT trap if one is set.        *)
(***************************************************************************)
EXTENDS Naturals, Sequences

CONSTANTS
  Proc,         \* terminals, or other places scripts are run from
  Script,       \* the scripts under study, among AllScripts
  Fault,        \* what may go wrong, among AllFaults
  SeedAllowed,  \* what assert_seed_allowed makes of the profile
  MaxRuns       \* bound: how many scripts are run in all

AllScripts == {"start", "up", "down", "remove", "wipe", "migrate", "seed",
               "pathA", "pathAClean", "pathB", "pathBClean"}
AllFaults == {"interrupt", "timeout"}

ASSUME ConstantsOK ==
  /\ Script \subseteq AllScripts
  /\ Fault \subseteq AllFaults
  /\ SeedAllowed \in BOOLEAN
  /\ MaxRuns \in Nat

VARIABLES
  svc,      \* the containers of the two services
  data,     \* what their volumes hold
  stale,    \* the service was set up with a password the profile no longer has
  app,      \* the app container
  migrates, \* DEPLOY_RUN_MIGRATIONS, from the profile's deploy.run_migrations
  todo,     \* the steps each script has still to take
  trap,     \* the trap on EXIT, INT, TERM and HUP
  calm,     \* history: no script was interrupted, timed out or overlapped
  runs      \* how many scripts were run

stack == <<svc, data, stale, app, migrates>>
vars == <<svc, data, stale, app, migrates, todo, trap, calm, runs>>
-----------------------------------------------------------------------------
Service == {"valkey", "postgres"}

Do(what, of) == [do |-> what, of |-> of]

EnsureReady == <<Do("check", "valkey"), Do("check", "postgres")>>
StopServices == <<Do("stop", "postgres"), Do("stop", "valkey")>>
ComposeInfra == <<Do("infra", "stack"), Do("healthy", "stack")>>
StartService(s) == <<Do("start", s), Do("wait", s)>>
ResetService(s) == <<Do("dismantle", s), Do("drop", s)>> \o StartService(s)

StartSh == <<Do("trap", "stack")>> \o EnsureReady \o <<Do("launch", "stack")>>
UpSh == EnsureReady \o ComposeInfra
          \o <<Do("app", "stack"), Do("health", "stack")>>
MigrateSh == EnsureReady \o <<Do("run", "stack"), Do("migrate", "stack")>>
SeedSh == EnsureReady
            \o <<Do("run", "stack"), Do("assertSeed", "stack")>>
            \o <<Do("run", "stack"), Do("migrate", "stack"),
                 Do("truncate", "stack"), Do("reload", "stack")>>
DownSh == <<Do("stopAll", "stack")>>
RemoveSh == <<Do("removeAll", "stack")>>
WipeSh == <<Do("wipeAll", "stack")>>

Program ==
  [start |-> StartSh, up |-> UpSh, down |-> DownSh, remove |-> RemoveSh,
   wipe |-> WipeSh, migrate |-> MigrateSh, seed |-> SeedSh,
   pathA |-> DownSh \o StartSh, pathAClean |-> WipeSh \o SeedSh \o StartSh,
   pathB |-> UpSh, pathBClean |-> WipeSh \o UpSh \o SeedSh]

Steps ==
  [do: {"check", "probe", "start", "wait", "dismantle", "drop", "stop"},
   of: Service]
  \cup
  [do: {"trap", "launch", "serve", "infra", "healthy", "app", "health", "run",
        "migrate", "assertSeed", "truncate", "reload", "stopAll", "removeAll",
        "wipeAll"},
   of: {"stack"}]

\* A container is created with its volume, and holds it.
TypeOK ==
  /\ svc \in [Service -> {"absent", "stopped", "starting", "ready"}]
  /\ data \in [Service -> {"none", "empty", "schema", "rows"}]
  /\ \A s \in Service : svc[s] # "absent" => data[s] # "none"
  /\ stale \in [Service -> BOOLEAN]
  /\ app \in {"absent", "stopped", "starting", "serving"}
  /\ migrates \in BOOLEAN
  /\ todo \in [Proc -> Seq(Steps)]
  /\ trap \in [Proc -> {"none", "set", "used"}]
  /\ calm \in BOOLEAN
  /\ runs \in 0..MaxRuns

\* A fresh clone, or a stack that was stopped with rows in its database.
Init ==
  /\ \/ /\ svc = [s \in Service |-> "absent"]
        /\ data = [s \in Service |-> "none"]
        /\ app = "absent"
     \/ /\ svc = [s \in Service |-> "stopped"]
        /\ data = [valkey |-> "empty", postgres |-> "rows"]
        /\ app = "stopped"
  /\ stale = [s \in Service |-> FALSE]
  /\ migrates \in BOOLEAN
  /\ todo = [p \in Proc |-> <<>>]
  /\ trap = [p \in Proc |-> "none"]
  /\ calm = TRUE
  /\ runs = 0
-----------------------------------------------------------------------------
At(p, step) == todo[p] # <<>> /\ Head(todo[p]).do = step
Serving(p) == At(p, "serve")
Over(p) == todo[p] = <<>>
Quiet == \A p \in Proc : Over(p) \/ Serving(p)

Running(s) == svc[s] \in {"starting", "ready"}
Accepts(s) == svc[s] = "ready" /\ ~stale[s]
AppRunning == app \in {"starting", "serving"}
PortFree == ~AppRunning /\ \A p \in Proc : ~Serving(p)

\* The head of p's steps gives way to these.
Then(p, steps) == todo' = [todo EXCEPT ![p] = steps \o Tail(@)]

Proceed(p, steps) == Then(p, steps) /\ UNCHANGED <<trap, calm, runs>>

\* set -e, or the end of the server: the script ends, through its trap.
Ends(p) ==
  /\ todo' = [todo EXCEPT ![p] = IF trap[p] = "none" THEN <<>>
                                     ELSE StopServices]
  /\ trap' = [trap EXCEPT ![p] = "none"]
  /\ UNCHANGED runs

Fails(p) == Ends(p) /\ UNCHANGED calm
TimesOut(p) == Ends(p) /\ calm' = FALSE
-----------------------------------------------------------------------------
Run(p, script) ==
  /\ Over(p) /\ runs < MaxRuns
  /\ todo' = [todo EXCEPT ![p] = Program[script]]
  /\ runs' = runs + 1
  /\ calm' = (calm /\ Quiet)
  /\ UNCHANGED <<svc, data, stale, app, trap, migrates>>

SetTrap(p) ==
  /\ At(p, "trap")
  /\ Then(p, <<>>)
  /\ trap' = [trap EXCEPT ![p] = "set"]
  /\ UNCHANGED <<svc, data, stale, app, calm, runs, migrates>>

\* Mutant of NotRunning: connects to a container that is still starting.
NotWaitedFor(s) == <<Do("start", s), Do("probe", s)>>

\* What prepare_for_start does about a container that is not running.
NotRunning(s) == StartService(s) \o <<Do("probe", s)>>

\* podman container inspect: any container that runs counts, ready or not.
Check(p) ==
  /\ At(p, "check")
  /\ LET s == Head(todo[p]).of IN
       Proceed(p, IF Running(s) THEN <<Do("probe", s)>> ELSE NotRunning(s))
  /\ UNCHANGED stack

\* A connection with the profile's password; without it the service is reset.
Probe(p) ==
  /\ At(p, "probe")
  /\ LET s == Head(todo[p]).of IN
       Proceed(p, IF Accepts(s) THEN <<>> ELSE ResetService(s))
  /\ UNCHANGED stack

\* compose up -d for the services S: creates what is missing, starts what is
\* stopped.  Valkey's password is in its container's command, so a new one
\* makes compose recreate the container; PostgreSQL's is in the volume.
ComposeUp(S) ==
  /\ svc' = [s \in Service |->
               IF s \in S /\ (~Running(s) \/ (s = "valkey" /\ stale[s]))
               THEN "starting" ELSE svc[s]]
  /\ data' = [s \in Service |->
                IF s \in S /\ data[s] = "none" THEN "empty" ELSE data[s]]
  /\ stale' = [s \in Service |->
                 stale[s] /\ ~(s \in S /\ (s = "valkey" \/ data[s] = "none"))]

Start(p) ==
  /\ At(p, "start")
  /\ ComposeUp({Head(todo[p]).of})
  /\ Proceed(p, <<>>)
  /\ UNCHANGED <<app, migrates>>

\* wait_for_ready polls once a second, thirty times.
Wait(p) ==
  /\ At(p, "wait")
  /\ svc[Head(todo[p]).of] = "ready"
  /\ Proceed(p, <<>>)
  /\ UNCHANGED stack

\* Mutant of GivesUp: the retries are never counted down.
NeverGivesUp(hopeful) == "timeout" \in Fault /\ hopeful

\* The retries are used up, because the service is slow or will never come.
GivesUp(hopeful) == "timeout" \in Fault \/ ~hopeful

WaitTimesOut(p) ==
  /\ At(p, "wait")
  /\ svc[Head(todo[p]).of] # "ready"
  /\ GivesUp(svc[Head(todo[p]).of] = "starting")
  /\ TimesOut(p)
  /\ UNCHANGED stack

\* Mutant of Dismantle: the app container is left running.
DismantleServiceOnly(p) ==
  /\ At(p, "dismantle")
  /\ svc' = [svc EXCEPT ![Head(todo[p]).of] = "absent"]
  /\ Proceed(p, <<>>)
  /\ UNCHANGED <<data, stale, app, migrates>>

\* compose stop, podman stop todos-app, podman rm -f of both containers.
Dismantle(p) ==
  /\ At(p, "dismantle")
  /\ svc' = [svc EXCEPT ![Head(todo[p]).of] = "absent"]
  /\ app' = "absent"
  /\ Proceed(p, <<>>)
  /\ UNCHANGED <<data, stale, migrates>>

\* podman volume rm -f removes a container that uses the volume, too.
DropVolume(p) ==
  /\ At(p, "drop")
  /\ svc' = [svc EXCEPT ![Head(todo[p]).of] = "absent"]
  /\ data' = [data EXCEPT ![Head(todo[p]).of] = "none"]
  /\ stale' = [stale EXCEPT ![Head(todo[p]).of] = FALSE]
  /\ Proceed(p, <<>>)
  /\ UNCHANGED <<app, migrates>>

StopService(p) ==
  /\ At(p, "stop")
  /\ svc' = [svc EXCEPT ![Head(todo[p]).of] =
               IF Running(Head(todo[p]).of) THEN "stopped" ELSE @]
  /\ Proceed(p, <<>>)
  /\ UNCHANGED <<data, stale, app, migrates>>
-----------------------------------------------------------------------------
\* fastapi dev or run: binds the port or fails; it opens no connection yet.
Launch(p) ==
  /\ At(p, "launch")
  /\ IF PortFree THEN Proceed(p, <<Do("serve", "stack")>>) ELSE Fails(p)
  /\ UNCHANGED stack

\* compose up or run with the full set of files: first the two services ...
Infra(p) ==
  /\ At(p, "infra")
  /\ ComposeUp(Service)
  /\ Proceed(p, <<>>)
  /\ UNCHANGED <<app, migrates>>

\* ... until both are healthy (depends_on: service_healthy) ...
Healthy(p) ==
  /\ At(p, "healthy")
  /\ \A s \in Service : svc[s] = "ready"
  /\ Proceed(p, <<>>)
  /\ UNCHANGED stack

Unhealthy(p) ==
  /\ At(p, "healthy")
  /\ \E s \in Service : svc[s] # "ready"
  /\ GivesUp(\A s \in Service : Running(s))
  /\ TimesOut(p)
  /\ UNCHANGED stack

\* ... then the app container, recreated when the build changed its image.
AppUp(p) ==
  /\ At(p, "app")
  /\ \/ app = "serving" /\ UNCHANGED app /\ Proceed(p, <<>>)
     \/ (AppRunning \/ PortFree) /\ app' = "starting" /\ Proceed(p, <<>>)
     \/ ~AppRunning /\ ~PortFree /\ app' = "stopped" /\ Fails(p)
  /\ UNCHANGED <<svc, data, stale, migrates>>

\* curl /health, forty-five times: whatever server holds the port answers.
HealthOk(p) ==
  /\ At(p, "health")
  /\ app = "serving" \/ \E q \in Proc : Serving(q)
  /\ Proceed(p, <<>>)
  /\ UNCHANGED stack

HealthTimesOut(p) ==
  /\ At(p, "health")
  /\ app # "serving" /\ \A q \in Proc : ~Serving(q)
  /\ GivesUp(/\ app = "starting"
             /\ migrates => Accepts("postgres") \/ svc["postgres"] = "starting")
  /\ TimesOut(p)
  /\ UNCHANGED stack

\* compose exec in a running app container, else compose run --rm, which
\* brings the services up that it depends on.
RunInApp(p) ==
  /\ At(p, "run")
  /\ Proceed(p, IF AppRunning THEN <<>> ELSE ComposeInfra)
  /\ UNCHANGED stack

Migrated == IF data["postgres"] = "empty" THEN "schema" ELSE data["postgres"]

\* A command inside the app container: it fails without its database.
Migrate(p) ==
  /\ At(p, "migrate")
  /\ IF Accepts("postgres")
     THEN data' = [data EXCEPT !["postgres"] = Migrated] /\ Proceed(p, <<>>)
     ELSE UNCHANGED data /\ Fails(p)
  /\ UNCHANGED <<svc, stale, app, migrates>>

AssertSeedAllowed(p) ==
  /\ At(p, "assertSeed")
  /\ IF SeedAllowed THEN Proceed(p, <<>>) ELSE Fails(p)
  /\ UNCHANGED stack

Truncate(p) ==
  /\ At(p, "truncate")
  /\ IF Accepts("postgres") /\ data["postgres"] \in {"schema", "rows"}
     THEN data' = [data EXCEPT !["postgres"] = "schema"] /\ Proceed(p, <<>>)
     ELSE UNCHANGED data /\ Fails(p)
  /\ UNCHANGED <<svc, stale, app, migrates>>

\* The INSERTs fail on rows that came in since with one of their names.
Reload(p) ==
  /\ At(p, "reload")
  /\ \/ /\ Accepts("postgres") /\ data["postgres"] \in {"schema", "rows"}
        /\ data' = [data EXCEPT !["postgres"] = "rows"]
        /\ Proceed(p, <<>>)
     \/ /\ ~Accepts("postgres") \/ data["postgres"] # "schema"
        /\ Fails(p)
        /\ UNCHANGED data
  /\ UNCHANGED <<svc, stale, app, migrates>>

Stopped(status) == IF status = "absent" THEN "absent" ELSE "stopped"

StopAll(p) ==
  /\ At(p, "stopAll")
  /\ svc' = [s \in Service |-> Stopped(svc[s])]
  /\ app' = Stopped(app)
  /\ Proceed(p, <<>>)
  /\ UNCHANGED <<data, stale, migrates>>

\* compose down: containers and network go, named volumes stay.
RemoveAll(p) ==
  /\ At(p, "removeAll")
  /\ svc' = [s \in Service |-> "absent"]
  /\ app' = "absent"
  /\ stale' = [stale EXCEPT !["valkey"] = FALSE]
  /\ Proceed(p, <<>>)
  /\ UNCHANGED <<data, migrates>>

\* compose down -v.
WipeAll(p) ==
  /\ At(p, "wipeAll")
  /\ svc' = [s \in Service |-> "absent"]
  /\ data' = [s \in Service |-> "none"]
  /\ stale' = [s \in Service |-> FALSE]
  /\ app' = "absent"
  /\ Proceed(p, <<>>)
  /\ UNCHANGED migrates
-----------------------------------------------------------------------------
\* A signal ends the script, between commands or with the command that runs.
\* In the trap's own "|| true" it changes nothing.
Killed(p) ==
  /\ ~Over(p) /\ ~At(p, "stop")
  /\ Ends(p)
  /\ calm' = (calm /\ Serving(p) /\ Quiet)
  /\ UNCHANGED stack

\* A signal while a trap is set and the command that runs is a condition: the
\* handler stops the services and returns, the condition counts as false, and
\* the script goes on from there.  Bound: a script goes on after one signal.
InterruptedCondition(p) ==
  /\ trap[p] = "set"
  /\ LET s == Head(todo[p]).of IN
       \/ At(p, "check") /\ Then(p, StopServices \o NotRunning(s))
       \/ At(p, "probe") /\ Then(p, StopServices \o ResetService(s))
       \/ At(p, "wait") /\ Then(p, StopServices \o <<Do("wait", s)>>)
  /\ trap' = [trap EXCEPT ![p] = "used"]
  /\ calm' = FALSE
  /\ UNCHANGED <<stack, runs>>

\* Ctrl-C or SIGTERM; a server also ends by itself.
Interrupt(p) ==
  \/ Serving(p) /\ Killed(p)
  \/ "interrupt" \in Fault /\ (Killed(p) \/ InterruptedCondition(p))

\* The service accepts connections.
BecomesReady(s) ==
  /\ svc[s] = "starting"
  /\ svc' = [svc EXCEPT ![s] = "ready"]
  /\ UNCHANGED <<data, stale, app, todo, trap, calm, runs, migrates>>

\* The entrypoint migrates if the profile says so, validates the settings and
\* becomes the server, which needs no database to come up; the container is
\* restarted until it gets that far (restart: unless-stopped).
AppServes ==
  /\ app = "starting"
  /\ migrates => Accepts("postgres")
  /\ app' = "serving"
  /\ data' = [data EXCEPT !["postgres"] = IF migrates THEN Migrated ELSE @]
  /\ UNCHANGED <<svc, stale, todo, trap, calm, runs, migrates>>

\* A client of either server writes to the database.
ClientWrites ==
  /\ app = "serving" \/ \E p \in Proc : Serving(p)
  /\ svc["postgres"] = "ready" /\ data["postgres"] = "schema"
  /\ data' = [data EXCEPT !["postgres"] = "rows"]
  /\ UNCHANGED <<svc, stale, app, todo, trap, calm, runs, migrates>>

\* Somebody edits a password in the profile; scripts that run have read it.
ChangePassword(s) ==
  /\ Quiet
  /\ svc[s] # "absent" \/ (s = "postgres" /\ data[s] # "none")
  /\ ~stale[s]
  /\ stale' = [stale EXCEPT ![s] = TRUE]
  /\ UNCHANGED <<svc, data, app, todo, trap, calm, runs, migrates>>

Step(p) ==
  \/ SetTrap(p) \/ Check(p) \/ Probe(p) \/ Start(p) \/ Wait(p) \/ WaitTimesOut(p)
  \/ Dismantle(p) \/ DropVolume(p) \/ StopService(p) \/ Launch(p)
  \/ Infra(p) \/ Healthy(p) \/ Unhealthy(p)
  \/ AppUp(p) \/ HealthOk(p) \/ HealthTimesOut(p)
  \/ RunInApp(p) \/ Migrate(p) \/ AssertSeedAllowed(p) \/ Truncate(p) \/ Reload(p)
  \/ StopAll(p) \/ RemoveAll(p) \/ WipeAll(p)

Environment ==
  \/ \E p \in Proc : Interrupt(p)
  \/ \E s \in Service : BecomesReady(s) \/ ChangePassword(s)
  \/ AppServes \/ ClientWrites

Next ==
  \/ \E p \in Proc : Step(p) \/ \E script \in Script : Run(p, script)
  \/ Environment

\* Bash goes on with its script and the services come up; nobody has to stop
\* a server, and nobody has to run anything.
Fairness ==
  /\ \A p \in Proc : WF_vars(Step(p))
  /\ \A s \in Service : WF_vars(BecomesReady(s))
  /\ WF_vars(AppServes)

Spec == Init /\ [][Next]_vars
FairSpec == Spec /\ Fairness
-----------------------------------------------------------------------------
RowsLost == data["postgres"] = "rows" /\ data'["postgres"] # "rows"

\* Reuse keeps the data (docs/getting-started.md, "Clean vs reuse"): as long
\* as scripts run one after the other, to their end and in time, rows are lost
\* to wipe.sh and seed.sh only, or because the profile's password changed.
RowsSurvive ==
  [][RowsLost /\ calm =>
       \/ stale["postgres"]
       \/ \E p \in Proc : At(p, "wipeAll") \/ At(p, "truncate")]_vars

HasTables == data["postgres"] \in {"schema", "rows"}

\* As long as scripts run one after the other, to their end and in time, the
\* app container never serves over a database without tables, but for one
\* that leaves the migration out and finds none when it comes up; tables never
\* go from under a serving one (entrypoint.sh; postgres_reset_container).
AppHasItsTables ==
  [][calm' /\ app' = "serving" /\ ~HasTables' =>
       ~migrates /\ (app = "serving" => ~HasTables)]_vars

\* A script ends, or serves, also when another one stops its services.
ScriptsEnd == \A p \in Proc : ~Over(p) ~> Over(p) \/ Serving(p)
=============================================================================
