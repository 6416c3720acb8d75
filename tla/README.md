# Verification of todos-fastapi

TLA+ models of the todos API in this repository, TLC runs on small instances,
and TLAPS proofs for every value of the constants. Paths below are relative to
the repository root; `PROJECT.json` maps every definition to its lines.

Run a configuration with `tlc -workers 2 -config X.cfg M` and check the proofs
of a module with `tlapm M.tla`.

## 1. Inventory

### Components

| Component | State it keeps | Operations | Where |
|---|---|---|---|
| Idempotency middleware | one JSON record per scope key in Valkey, with a TTL | get, SET NX EX (claim), SET EX (complete), DEL (release), around the handler | `src/todos_app/idempotency` |
| User accounts | table `users` | signup, PUT/PATCH `/users/me`, PUT/PATCH `/users/{id}`, deactivate, hard delete | `src/todos_app/users` |
| Authentication | signed tokens at the clients, `users.token_version` | login, `get_current_user`, `require_admin` | `src/todos_app/auth` |
| Identity cache | `auth:user:<id>` in Valkey, with a TTL | set on every authenticated request, delete on user mutations | `src/todos_app/auth/adapters/cache` |
| Todos | table `todos`, foreign key to `users` | create, get, list pages, PUT/PATCH, delete, purge with the owner | `src/todos_app/todos` |
| Database session | one transaction per request | commit after the handler, rollback on an exception | `shared/adapters/persistence/database.py` |
| Application runtime | none of its own | order of middlewares, exception handlers | `runtime/app.py`, `runtime/exceptions.py` |
| Profile configuration | merged settings cached per process, the `.env` file | load, merge, override, validate, export, clear | `shared/config` |
| Migrations and seeding | schema revision, table contents | upgrade, downgrade, truncate and reload | `alembic`, `seeding/runner.py` |
| MCP server | session token, one tracked host process | login, clear, the tools that call the API, start, stop, run a script | `mcp/todos-backend` |
| Local stack scripts | containers, named volumes, host process | start, up, down, wipe, seed, migrate, bring-up | `scripts` |
| Deployment | the production container | guards, migrations at start-up | `container/deploy.sh`, `entrypoint.sh` |
| Quality gate, stack verification | the checkout, a report, counters | run eight steps whatever fails, rewrite with `--fix`, judge each by exit status or summary | `scripts/quality`, `scripts/verify` |
| Rate limits, schema export | counters inside slowapi; none | declare limits; write documents | `shared/rate_limiting.py`, `schema_export` |

### How they interact

A request runs through the idempotency middleware (outermost), the body-size
limit, slowapi and the router. Its dependencies open one `AsyncSession`
(`get_db`), authenticate the caller (SELECT of the user, SET of the cache entry)
and run the use case in that session. Every await on Postgres or Valkey lets
other requests of the same worker run; other workers run in parallel anyway, so
a step of the models is what happens between two awaits. Postgres is
READ COMMITTED: a SELECT sees what is committed at that moment, an UPDATE or
DELETE waits for the row's lock and looks at the row again once it has it.
Valkey executes one command at a time. The exception handlers turn database
errors into answers; Valkey errors have no handler and leave the middleware as
exceptions.

The MCP server is an HTTP client of the API and a parent of the scripts; the
scripts share containers, volumes and the `.env` file with each other. Its tools
are coroutines of one event loop: the lifecycle tools never await, the others
await the backend's answer and overlap there. The quality gate runs the tools, the
tests and, with `--full`, the stack scripts, and reads what they print.

### What is hard

* interleavings of two or three requests at every await: two first attempts
  with one key, two deletions of admins, two password changes, an update beside
  a deletion or a reassignment, a creation beside the deletion of its owner;
* state read in one statement and written back, whole, in a later one
  (`users/adapters/database/repository.py:61`, `todos/adapters/database/repository.py:58`);
* Valkey written before Postgres commits, or although the commit then fails;
* a call that raises with or without having taken effect; a worker that dies
  or is cancelled (`CancelledError` is no `Exception`) between any two steps;
* expiry of records, cache entries and tokens at any moment;
* row locks that requests wait for, and deadlocks that Postgres breaks;
* tool calls that overlap at their one await, a backend that goes on after the
  client has given up, and a session that changes while a call is in flight;
* a gate whose steps are judged by a summary that can hide the exit status;
* scripts that stop or recreate what another one is using, or rewrite the one
  `.env` that each of them exports to, sources and hands to compose;
* a check in one process (`seed.sh` asserts, then seeds) and its use in the next.

`PROJECT.json`, "hazards", lists each with its line and the properties that
watch it.

### What makes each component correct

* **Idempotency**: one execution per key at a time, one effect per key until it
  expires, replays only of the same request's own answer, a replayed success
  that exists, and no key in progress for ever.
* **Accounts and tokens**: an active admin remains, a password change rejects
  the tokens obtained with the old one and no other change does, only
  administrators change role and activity, a deleted account stays deleted.
* **Identity cache**: it holds nothing the table would deny.
* **Todos**: every todo has an owner who exists, a user changes only their own
  todos, an owner changes only on request, a deleted todo stays deleted, and
  paging lists each stable todo once.
* **All requests**: each is answered and gives its locks back.
* **Local stack**: rows are lost only to the scripts that say so, the app container
  never loses the tables it serves from, and every script ends, whatever the others
  do.
* **MCP tools**: one host process, the tracked one; without `allow_destructive`
  no tool loses rows.
* **MCP session**: what a tool reports is so, a call acts for the user whose token
  it resolved, and the session follows the logins in the order they were made.
* **Quality gate**: a gate that passed vouches for all it claims to check, and one
  that passed passes again.
* **Configuration, seeding**: a profile overrides the base and nothing else, no
  other environment is seeded, no process serves with settings it should have
  dropped.

## 2. Modules

| Module | Role |
|---|---|
| `KeyedExecution` | abstract: what the `Idempotency-Key` header promises |
| `Idempotency` | the middleware, Valkey records and the handler's transaction; implements `KeyedExecution` |
| `MCIdempotency`, `IdempotencyProofs` | instances for TLC; proofs |
| `UserAccounts` | accounts, tokens, authentication and the identity cache |
| `MCUserAccounts`, `UserAccountsProofs` | instances for TLC; proofs |
| `Ownership` | abstract: whose todos are whose, each request in one step |
| `Todos` | todos, their owners, and the deletion of an owner; implements `Ownership` |
| `MCTodos`, `TodosProofs` | instances for TLC; proofs |
| `Listing` | the pages of `GET /todos` that a client follows |
| `MCListing`, `ListingProofs` | an instance for TLC; proofs |
| `LocalStack` | containers, volumes, servers, and the scripts that several terminals run |
| `McpServer` | the lifecycle tools and the tracked host process; extends `LocalStack` |
| `MCLocalStack`, `MCMcpServer`, `McpServerProofs` | instances for TLC; proofs |
| `Deployment` | profiles, `.env`, the app image and container, and the guards of `deploy.sh` and `seed.sh` |
| `MCDeployment`, `DeploymentProofs` | an instance for TLC; proofs |
| `McpSession` | the session token and the tools that call the API, with the backend as an agent sees it |
| `MCMcpSession`, `McpSessionProofs` | an instance for TLC; its six properties proved |
| `QualityGate` | the steps of `checks.sh`, the scenarios of `verify_stack.sh`, and the gate run again |
| `MCQualityGate`, `QualityGateProofs` | an instance for TLC; proofs |

### `Idempotency`

`pc[r]` is where `idempotency_middleware` stands for attempt `r`: `get`,
`acquire` and `reget` are the three awaits of `begin_idempotency`, `execute` is
`call_next`, `commit` is `session.commit()` in `get_db`, `complete` and
`release` are the calls of the `try` block and its `except`. `store` is Valkey,
`tx` the handler's transaction. `effects[k]` is history: the attempts committed
under `k` since its record was last absent. A fingerprint stands for the hash of
method, path, query and body, a scope key for the token's subject (or `anon`)
and the header; a change of subject is a change of key. A handler is abstracted
to its outcome: it wrote, it was rejected, or it raised something no handler of
`runtime/exceptions.py` maps.

Constants select the environment: `FaultyCalls` names the calls that may raise
after they took effect or before, `OutlivesTtl` whether a handler may still run when
its record expires. `late` says whether FastAPI closes `yield` dependencies, and so
commits, after the response: 0.118 and later do, which is what an installation gets
today, and `pyproject.toml` asks for 0.110 or later with no lock file. It is chosen at
the start and stays, so every run explores both orders.

`KeyedExecution` has no store and no responses: a key is free, claimed or
settled, and takes one effect between two moments at which it is forgotten.
The refinement mapping reads the slot off the record (`SlotOf`).

### `UserAccounts`

`users`, `cache` and `tokens` are the table, the Valkey entries and the tokens
that still decode. `lock` holds the row locks of UPDATE and DELETE until commit
or rollback. `pc[r]` walks through `auth` (SELECT in `get_current_user`), `cache`
(`set_active_user`), `guard` and `count` (the two SELECTs of `guard_last_admin`),
`load` (the SELECT of the use case and the merge, which has no await), `write`,
`invalidate` and `commit`. `op[r]` carries the request, the role read at
authentication and the row to write. A password hash is named by the request
that made it, since the salt makes every hash new; a token remembers, as history,
the hash its login was verified against. Names, e-mail addresses and profile
fields are left out; a violated uniqueness constraint is one of the reasons for
`Fails`. The id of a deleted account is not used again, as UUIDs are not.

### `Todos`

`todos` gives each todo its owner. Beside row locks (`lock`), writing an owner
key-share locks the owner's row (`share`) and deleting a user locks it
exclusively (`excl`), as Postgres does for the foreign key `todos.owner_id`.
`pc[r]` walks through authentication, `read` (`get_todo_for_actor` and the merge),
`write` (UPDATE or DELETE, whose WHERE clause is looked at again once the lock is
free), `owner` (foreign-key check), or, for a hard deletion, `scan` and `purge`
(DELETE FROM todos, row by row in any order), `user` (DELETE FROM users) and
`references` (the foreign key from the other side). `DeadlockVictim` is Postgres
aborting one of the transactions that wait for each other. `guard_last_admin`
and the identity cache, which decide whether a deletion starts but not what it
does to todos, are in `UserAccounts`. Titles and the other columns are left out.

`Ownership` is the same two tables with no transactions, locks or statements: it has
one step to create a todo for a user who exists, to reassign it, to delete it, and
to delete a user with exactly the todos the user owns at that moment. A step of
`Todos` that commits is one of these, any other is a stutter.

### `Listing`

One client follows `next_last_id` from page to page. Each page is a request of
its own with two SELECTs: `Authenticate` reads the role, `Page` cuts the page out
of the table as it is by then. Between any two steps todos are created, deleted
and reassigned (`Change`, whose transactions are those of `Todos`) and the
client's role changes; ids are in the order of UUID version 7 but may be
committed out of that order. `Retry` is a page whose answer is lost. `times` and
`stable` are history: how often this listing returned each todo, and which todos
have been in scope all along.

### `LocalStack`

`svc`, `data` and `stale` describe the two services: the container, what its
volume holds, and whether it was set up with a password that is no longer the
profile's. PostgreSQL keeps its password in the volume, Valkey in the
container's command, so `compose up` cures the one and not the other. `app` is
the compose app container; a server on the host is a script at its step `serve`.

`todo[p]` is what terminal `p`'s script has still to do, a sequence of steps each
of which is one podman command or one test of the state; `Program` gives the
scripts. A test that fails puts further steps in front (`Check`, `Probe`,
`RunInApp`), and a command that fails ends the script (`set -e`), through the
EXIT trap that `start.sh` sets. `Healthy` and `AppUp` are the two halves of one
`compose up` with `depends_on: service_healthy`. `migrates` is the profile's
`deploy.run_migrations`, which the entrypoint reads as `DEPLOY_RUN_MIGRATIONS`
(`entrypoint.sh:10`): with it the app container waits for PostgreSQL and migrates
before it serves, without it it serves whatever the volume holds. `migrate.sh` and
`seed.sh` do not depend on it (`container_ops.sh:37` turns it off and calls Alembic
itself). Passwords are compared where the
scripts compare them, by connecting: `Accepts` cannot tell a container that is
still starting from one with other credentials.

`Killed` is a signal between commands, or one that ends the command that runs.
`InterruptedCondition` is the case `set -e` does not catch: the handler of the trap
returns, the condition of an `if` counts as false, and `start.sh` goes on from
there, into a reset if the condition was the test of the credentials.

`calm` is history: no script was started while another one was under way, none was
interrupted and none ran into a time-out. Failures of podman itself, the shared
`.env` file, `--prod`, and the temporary server of PostgreSQL's first start are left
out.

### `McpServer`

The tools are coroutines that never await, so a tool runs alone in the event loop
until its script is over: `EventLoopFree` guards every tool. `Host` are the
processes that `start_host_background` may have started, `Tool` is the process of
`run_script`. `stack_stop_host` is two steps, since the host's script goes on during
`wait(timeout=15)`; if that raises, `_host_process` still names the process.
`ToolTimesOut` is `subprocess.run` killing bash.

### `Deployment`

`files` are the profile files, `dotenv` is `.env`, `image` the profiles that the
last build baked in, `app` the one app container of every mode, with the `.env`
and the files it was created from and, while it serves, the settings it loaded.
`sh[s]` is the script of shell `s`: `truncate` and `export` are the two halves of
`env_apply_profile` (the redirection empties the file before Python starts),
`source` takes whatever `.env` holds by then, `check` is what the script makes
sure of. `deploy` and `up` go on with `build` and `compose`, `down` with `stop`,
`seed` with its two processes inside the container: `assert` in the first, `load`
(settings, and the assertion again) and `reset` in the second. `AppServes` and
`AppDies` are the container's entrypoint and its restart policy. `LoadSettings`
is `get_env_settings`: the base, overlaid (`DeepMerge`), in compose mode with the
container's URLs (`Resolved`), and validated (`Valid`).

Settings are cut down to what a script or validator decides on; staging is
treated like production and Valkey's URL like PostgreSQL's, since the code tests
both in the same place. A shell script that a guard ends, ends (`set -e`).
Migrations, health waits and signals are in `LocalStack`. `calm` is history: no
script started while another one was under way, and nothing was edited during
one; `app.calm` and `app.edits` keep what was so when an `up` or `deploy` last
reached the container, and `app.born` the edits when it was created. The two differ
when compose finds nothing to replace: a container that mounts the profile files
then goes on with what its process read, also if the files were edited and edited
back in between. `ServesTheProfile` leaves out this case and no other.

### `McpSession`

`session` is the token of `session.py`, `known` the tokens an agent may pass
explicitly, `op[c]` a call with its arguments and the token it resolved when it
was made. `step[c]` is where the backend is with the request (`sent`, `served`,
`written`, `committed`, `over`), `reply[c]` what it answered, and `status[c]` what
the tool returned: `GiveUp` is the client's time-out or a lost connection, after
which the request goes on. `Serve` authenticates, authorises, reads and merges in one
step, and `Write` takes the row locks; the finer interleavings of these are those
of `UserAccounts` and `Todos`. `Body` drops the arguments that are left out, as the
tools do, and `Merged` merges the body into the row as the use cases do. `late` is
that of `Idempotency`. `Restart` loses
the session and abandons the tools in flight.

`turn`, `start` and `calm` are history: the session tools in the order they were
called, what the session was before the first, and that none was called while a
login waited. `undone` is history too: a commit has put an older `token_version`
back. `todos_list` is left out, since it keeps no state; its pages are in
`Listing`.

### `QualityGate`

`tree` is the checkout, as the set of the defects it has: one or a few per step,
by what tells steps apart (a lint violation that Ruff fixes or does not, a failing
test, a fixture that errs, a coverage that is too low). `Exit` and `Count` are the two ways in which
an outcome reaches `gate_record_step`: the exit status, and the errors that
`gate_emit.py` finds in the output, which replaces it. Pytest's last line names
warnings and skips before errors, and `gate_emit.py:139` looks for errors right after
the passed tests only: `SuiteRuns` lets each run of a suite have such a line or not
(`noisy` is history), and counts no error of a fixture (`Errored`) if it has. A failed
test comes before the passed ones, so that the other branch counts it and every error
with it. A fault is a crash of the
tool, of `gate_emit.py` or of the formatter, a volume that could not be reset, a
foreign server on the port, a missing `.venv`. `RuffFixed` and `ShellFixed` are
what the fixing scripts leave: an autofix may break a test, or remove the
import by which a fixture was known. `verify_stack` runs
its two scenarios inside `if !`, where `set -e` is off, so that a scenario passes
when its smoke test does. `Again` is the next run on what this one left, which is
how a developer's `check_fix` is followed by CI. `faulty` and `previous` are
history. What else is passed to `checks.sh` goes on to the MCP tests
(`checks.sh:29` and `:192`) and can narrow them down; the model knows `--full`,
`--fix` and neither.

## 3. Runs

| Run | Question | Instance |
|---|---|---|
| `idempotency_safe` | does the middleware keep its promises, with the commit before or after the response? | 3 attempts, 2 keys, 2 fingerprints; `get`, `acquire`, `release` may fail |
| `idempotency_hostile` | are replays right, and does every key settle, whatever fails and however long handlers take? | 2 attempts, 1 key, 2 fingerprints; every call fails, commit before or after the response, handlers outlive records, fairness |
| `accounts_concurrent` | what holds however requests overlap, and is every request answered? | 1 admin, 1 other id, 2 requests of every kind, 2 tokens, fairness |
| `accounts_serial` | what holds when requests follow one another? | the same with 3 requests |
| `todos_concurrent` | ownership, scope and deletion under interleaving; is each request as if it took one step, and answered, deadlocks included? | 2 users, 2 todos, 2 requests of every kind, any initial owners and roles, fairness |
| `stack` | what holds of any two scripts, and does each end? | 2 terminals, all scripts, 2 runs in all, `run_migrations` on or off, signals and time-outs, fairness |
| `mcp` | what do the lifecycle tools guarantee without `allow_destructive`? | 2 host processes, 3 scripts in all, time-outs |
| `deployment` | whose settings does the server have, and which tables can be truncated? | 2 shells, 2 profiles of 4 contents, 2 scripts in all, 2 edits |
| `mcp_session` | is what a tool reports true, and for whom does it act? | any 2 calls of 15 tools, 2 users (one admin), 1 todo, lost answers, restarts |
| `quality_gate` | what does a gate that passed vouch for, and does it pass again? | up to 2 of 18 defects, 2 faults per run, 2 runs, warnings or skips in either suite, `--full`, `--fix` or neither, CI or not |
| `listing` | does a client that follows the pages see each todo, and once? | 4 ids, 2 users, pages of 1 and 2, any initial owners and role |

Why the bounds are enough for these questions: each hazard is a race between
two requests over one row or key; a third attempt lets a retry meet what the
race of the first two left. Two keys or two users show that nothing leaks
between them. `MaxTokens = 2` keeps a token from before and one from after a
change. Tokens and cache entries may expire at any moment, so one more of them
adds no situation. Requests, keys and fingerprints (in `Todos` also users and
todos) are compared for equality only, hence the symmetry sets, which the
runs with a liveness property leave out. Two runs of scripts (`stack`) are every pair, one after the other or interleaved
command by command; what an earlier pair could have left is either an initial
state (nothing yet, or a stopped stack with rows) or reached by one of the two.
One signal per script is taken to leave it running. In `mcp` a host that is started,
stopped or dies, and is started again beside another tool, takes three.
In `deployment` two scripts overlap or follow one another, and the edits come before,
between or after any of their steps; it takes two for a profile to change and change
back. Three scripts and two edits still pass, in six minutes; the proofs are for any
number.
In `listing` four ids are two full pages of
two, or four of one, so that the last page is sometimes full and sometimes not.

In `mcp_session` two calls are every pair of tools, overlapping or one after the
other; the calls are alike except for what they ask, hence the symmetry. An
initial state may already hold a session; a superseded token takes one call to make
and one to use. In `quality_gate` a defect is
judged by its own step, and two of them are what one hides of another (a suite
that does not start, an autofix beside a format error); the second run is the first
that can meet what a fix left. The proofs cover every number of both.

The type invariants of `Idempotency`, `UserAccounts`, `Todos`, `Listing`,
`Deployment` and `QualityGate`, and `CursorAdvances` and `CiRewritesNothing`, are proved for every
value of the constants and not run as well. `McpTypeOK` contains the type
invariant of `LocalStack`.

`CHECK_DEADLOCK FALSE` everywhere: clients may stop sending requests, and nobody
has to run a script. That no request and no script is stuck is `KeySettles`,
`RequestsEnd` and `ScriptsEnd`.

### What the code does otherwise than its text says

| Run | Counterexample |
|---|---|
| `mcp_safe_tools` | `stack_start_host` returns at once; the next tool finds PostgreSQL running but not yet accepting connections, takes that for other credentials and removes its volume |

More differences that reading the code shows, or a run with other constants than
those of section 3, without a run of their own:

* `complete` raises after the handler committed; the `except` clause releases the
  key, and the retry creates a second todo, where `docs/api.md:47` promises the
  cached 201 (`AtMostOnce` with `complete` among `FaultyCalls`).
* Two admins delete or deactivate each other's account at once: `guard_last_admin`
  counts two for both, and none is left, although it is to raise "when
  deleting/deactivating the last active admin"
  (`users/application/_support.py:16`; `DeletionLeavesAdmin` with `Serial = FALSE`).
* "5 passed, 1 warning, 2 errors" counts no error (`gate_emit.py:139`), so a suite
  whose fixtures err passes the gate (`Hidden` in `Missed`), where
  `docs/development.md:58` says "exit 1 on errors". For the MCP tests this is the
  ordinary case, since `test_live_health` skips while no API answers; start one, and
  the same checkout fails, which `GreenStaysGreen` excepts.
* Coverage below 90 %, a test database that cannot be prepared, a pytest that
  crashes and an OpenAPI export that fails pass the gate, because their summary
  counts no failed test (`checks.sh:226`, `Missed`), where `README.md:36` and
  `docs/development.md:58` speak of a >90 % "line coverage gate" and of "exit 1 on errors". Nor
  is the exit status of `ruff check` read in check mode.
* A migration, reset or seeding that fails inside a scenario of `verify_stack.sh`
  does not end it: `if !` turns `set -e` off (`verify_stack.sh:102`).

* Another request under a key in flight is answered 409, where the table in
  `docs/api.md` says 422 (`ResolveExisting`).
* With a commit after the response (`late`), a client may be told 201, and be told so
  again under its key, although the commit then failed, where
  `docs/architecture.md:157` says that "`get_db` commits on success" and
  `docs/api.md:47` that a retry returns the cached 201 "instead of creating a second
  todo": there is no first one. `SuccessIsDurable` says what is left of the promise:
  the key stays without effect as long as that answer is on record.
* With `run_migrations = false`, `up.sh` on a fresh, wiped or reset volume serves
  without tables until `migrate.sh` or `seed.sh` is run; `/health` answers all the
  same. `up.sh:21` and `docs/deployment.md:42` say that migrations run only if it is
  true, so this is no contradiction; `AppHasItsTables` says that it is the only way.
* PUT with `is_active: false`, or another role, takes the last admin away:
  `update_user` has no guard (`AdminRemains` with `Kind = {"replace"}`). The theorem
  `LastAdminFallsToUpdate` says that nothing else does, when requests follow one
  another.
* Two password changes that overlap write the same `token_version`, and a token
  obtained between the two commits survives (`OldTokensRejected` with
  `Serial = FALSE`).
* An account update that read the row before a password change and commits after
  it writes the old `token_version` back with every other column
  (`users/adapters/database/repository.py:69`), and the tokens that
  `update_user.py:20` says are invalid work again. `SupersededTokenRefused` excludes
  it (`undone`); using such a token takes a third call, so the theorem needs the
  premise and the run of two calls does not.
* A request that authenticates between the invalidation and the commit of an
  update puts the old role back into the cache: `CacheFresh` holds in
  `accounts_serial` only. That entry has no reader in the application
  (`get_active_user` is never called), so the stale role decides nothing today.
* An update that names no owner writes back the owner it read, also after an
  administrator has reassigned the todo meanwhile, where the schema says "Omit to
  keep the current owner" (`Read` and `Write` of `Todos`;
  `todos/adapters/api/schemas.py:102`).
* `deploy.sh` guards the variables it sourced, while compose reads `.env` again:
  beside a script of another profile the container may get settings that were
  never checked. `DeployIsGuarded` therefore speaks of undisturbed scripts.
* The guard looks for `127.0.0.1` only; `localhost` passes it, although
  `docs/deployment.md` speaks of loopback URLs.
* `stack_compose_down` with `remove=true` keeps the volumes (`RemoveAll`), which
  `down.sh` says and `docs/mcp.md` denies.

## 4. Fairness

`WF` of the steps an accepted request can take by itself: the event loop resumes
every task whose await is over, Postgres grants a lock that stays free and
breaks deadlocks, Valkey expires what it was told to expire. Nothing is assumed
of clients, crashes or failures. `Fails` and `Crash` carry no fairness.

In `LocalStack`, `WF` of a terminal's steps (bash goes on with its script, and a
wait that never succeeds runs out of tries: `GivesUp`), of a service that starts
coming up, and of the app container, which podman restarts until its entrypoint gets
through. A server need not end, nobody has to run anything, and no signal is
assumed. `McpServer`, `McpSession` and `QualityGate` are checked for safety only.

## 5. Proofs

All proofs hold for any sets of requests, keys, fingerprints, users and tokens,
under the named `ConstantsOK` assumptions, which TLC evaluates on every run. Every
property of a passing run that is not liveness is the statement of a theorem.

**`IdempotencyProofs`.** `TypeInv` adds to `TypeOK` that the store steps belong to
attempts with a key. `ReplayIsFaithful` holds with no assumption about failures:
its inductive invariant `ReplayInv` says of every completed record and of every
response that its producer has the same key and fingerprint, has finished and
keeps that status; without the record part the replay step could not be closed.
`OneExecutor`, `OneEffect` and `Implements` assume `Reliable`: `complete` does not
raise, the commit raises nothing unmapped after taking effect, and no handler
outlives its record. Their invariant `ClaimInv` ties a running attempt to the
record it wrote (`OwnerInv`), the transaction to the step (`TxInv`) and the effects
to the record's author (`EffectInv`). Section 3 says what happens when `complete`
does raise. `Implements` is the step simulation:
every action is a step of `KeyedExecution` or a stutter.
`EarlySuccessesAreCommitted` assumes nothing about failures: where the commit precedes
the response, a stored success is of a committed effect (`CommittedStep`), and
`NewlyStored` says how a record can come to be: by the claim, or by the completion of
the attempt that executed. `SuccessesAreDurable` is about both orders and assumes
`Reliable`, for what it says of a late commit: that no other attempt's effect stands
behind a success on record follows from `ClaimInv`.
`OrphansHaveACause` assumes `Reliable`; its `ClaimantInv` follows the author of a
record in progress from the claim to the end of its request, and leaves over a crash,
a claim whose answer was lost, and a release that failed.

**`UserAccountsProofs`.** `HeldLocks` needs `Holding` (a request past its write
holds its row). `DeletedStaysDeleted` follows from the lock invariant: a request
that holds a row's lock found the row to exist, and nobody else can delete it
meanwhile. `PasswordKeepsItsTokens` uses `VersionInv`: there is one assignment of
versions to hashes per account that the row, every pending row and every token
agree with. `OldTokensAreRejected` assumes `Serial`, requests that follow one
another; `TokenInv` says that versions of tokens never exceed the row's and that
equal versions have equal hashes. `DeletionsSpareAnAdmin` assumes `Serial` and a
finite set of users; `GuardInv` keeps, for a deletion that passed the guard, a
second active admin. `AdminsGrant` assumes the same: while a request is under way
the row it loaded is the row that is there, so what it writes back of role and activity
is what it found, unless an administrator asked for it. `CacheIsFresh`
needs `CacheFresh` during the request too (`CacheInv`): the role that authentication
read is still the row's when `set_active_user` stores it, and the row that a commit
changes has no entry any more.
`LastAdminFallsToUpdate` reads off the same invariant that the last active admin is
lost in one way only, the commit of an administrator's PUT or PATCH for that account:
a deletion has spared another admin, and a profile update writes role and activity
back as they were. Section 3 lists the two deletions for which `Serial` is needed.

**`TodosProofs`.** Its theorems hold however requests interleave. `Inv` says
what each transaction may rely on: its fields (`Fields`), that the todo it is
about to write is locked and still as its statement saw it (`Target`), that a new
owner is key-share locked (`NewOwner`), and that a user about to be deleted is
locked and owns nothing but what was purged (`Purged`). `CommitWrites` and
`CommitGives` read off it what a commit can change. `OwnersAlwaysExist` needs
all of it: a todo that keeps its owner is safe because the purge would have had
to lock it, one that gets a new owner because of the key-share lock. `Atomic`
(`Spec => ImplementsOwnership`) says that the transactions are as good as single steps:
what a hard deletion purged is exactly what its user owns when it commits
(`PurgedIsOwned`), any other commit writes one todo and no user (`OneTodoIsWritten`),
and the owner it gives a todo to still exists (`CommitGives`). `OwnershipSuffices`
is about `Ownership` alone: its steps keep `OwnersExist` and `DeletedTodosStayDeleted`.

**`ListingProofs`.** For any finite set of ids. `LowestIsPrefix`, `ShortLowestIsAll`
and `Largest` say what ORDER BY id LIMIT n returns; `PageMoves` draws from them
that a page is a prefix of the rows after the cursor, and all of them when it is
the last. `InvL` is the invariant: what was returned was returned once and lies
at or before the cursor, and of what stayed in scope everything up to the cursor
has been returned. `NoPageRepeats`, `CompleteListing` and `CursorAlwaysAdvances`
follow.

**`McpServerProofs`.** For any number of host processes, terminals and scripts.
`OnlyTheTrackedHost` is `McpSpec => []OneHost`: no host script is under way but
the tracked one's. The invariant adds that `todo` has one entry for each process (`Formed`)
and that `_host_process` names a host process or nothing. `StaysOver` says of every
step but the two tools' that it continues or ends a script under way and starts
none, whatever the script; the two tools are left, which start one only if the
tracked one is over.

The rest is about what a script has still to do, for `LocalStack` and `McpServer`
together, whose steps are both a `StackStep`. `Chain` says which steps follow one
another (a password test comes right after PostgreSQL was found up and waited for, a
drop after the app container was stopped for it), and is kept by every way in which a
sequence grows (`ChainJoin`, `ChainedExpansions`) or shrinks. `CalmInv` then says that,
as long as every script runs alone, to its end and in time, PostgreSQL is starting only
while somebody waits for it, so that a connection that fails means a stale password;
that a volume is dropped for that reason only; and that no app that migrates serves
without tables. `RowsAreKept` and `AppKeepsItsTables` are read off it
(`StepKeepsRows`, `StepKeepsTables`; the second also shows that an app that does not
migrate keeps the tables it has), `ToolsSpareRows` adds that without `allow_destructive` no tool starts another kind of
script (`Spared`), and `McpTypeCorrect` that every sequence consists of known steps
(`Expansions`).

**`DeploymentProofs`.** For any shells, profiles, contents of profiles, scripts and
edits. `SeedsAreLocal` holds however scripts overlap: at `reset` the settings are those
the same process has just asked about (`SeedInv`), and what the guard lets through is
local because the validators tie the environments to their hosts (`GuardIsLocal`). For
the other two, `CalmInv` says that in a calm state one script at most is under way and
`.env` is what it exported itself, and `AppInv` what the container holds: the settings
of its image, or of the files as they were when it was created. An earlier
`ServesTheProfile` without the exception for kept containers could not be proved, and
was false: it takes two edits to see, of which the run then had one.

**`QualityGateProofs`.** For any number of defects, faults and runs. `ToolsJudge`
brings the eight step actions to one form, `Judges`: n errors are recorded, none
only if what the tool objects to is gone or in `Missed`, and none at all if
nothing but silent defects was there and no error of a fixture showed. `IInv` is proved of that form. `Booked` ties
`at`, the report, `errors` and the exit status together; `Vouched` says, of the steps
so far, that no error means nothing left but `Missed`, and survives the fixes because
what they add (a broken test or fixture) is judged by a later step; `StillGreen`
carries a green run over to the next, up to an error of a fixture that its summary
showed (`Shown`, which stays, since a step runs once: `NoisyRan`, `OrderDistinct`). `ReportAlwaysWhole`, `PassAlwaysVouches`,
`GreenAlwaysStaysGreen` and `CiNeverRewrites` follow.

**`McpSessionProofs`.** For any users, todos, and number of overlapping calls. The
invariant speaks of one call at a time (`CallInv`): how far its request is decides what
may have been answered (`Flow`); a request in flight is one its tool can make
(`Request`); the row to write has its type, its owner and the fields that were named
(`Pending`); a superseded token gets no further than authentication (`Superseded`).
A step of one call leaves to the others what `OthersKeep` needs: `late`, and versions
that do not fall. So `OneCall` reduces every action to its own call.
`AnswersAlwaysTrue`, `SupersededAlwaysRefused` and `TypeCorrect` read it off;
`CommitsOnly` adds that nothing else commits, for `CreatorIsAlwaysCaller` and
`PatchIsAlwaysPartial`. `LatestLoginWins` has an invariant of its own, `Turns`: in
calm only the last session tool can still be waiting, and the session is what the
last settled one made it.

**Only model-checked:** liveness (`KeySettles`, `RequestsEnd`, `ScriptsEnd`), which
is out of the prover's reach. `SafeToolsKeepRows` is what
`mcp_safe_tools` refutes.

## 6. Not modelled

Wording and layout of answers, logging, OpenAPI documents, hashing and signing
themselves, slowapi's counters, the inside of the quality tools. `PROJECT.json`
gives the reason for each component.

## 7. Plan

1. `Idempotency` with `KeyedExecution`, `UserAccounts`, `Todos`: done.
2. `Listing`: done.
3. `LocalStack` and `McpServer`: done; their safety properties proved.
4. `Deployment`: done; its properties proved. Left of the settings: numeric validation, dotted overrides
   and the quoting of `.env`, as pure operators against a reference.
5. `McpSession` and `QualityGate`: done; their properties proved.
6. Schema and seeding: revisions up and down, several replicas at start-up, seeding as
   transactions that fail between two of them.
7. `RequestPipeline`: `Idempotency` and the account checks composed, for what the
   scope key takes from an unverified token and what a replay skips.
8. `Ownership`: done; `Todos` is proved to implement it. To add: an abstract
   account that `UserAccounts` implements for serial requests; `Listing` over
   `Ownership` instead of its own `Change`.

The runs are kept at a dozen, one per question. Two that only showed a known
counterexample have made room for the new modules; section 3 keeps what they
showed.
