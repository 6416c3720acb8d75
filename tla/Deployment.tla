----------------------------- MODULE Deployment -----------------------------
(***************************************************************************)
(* Settings on their way into a process: profile files, the .env file that *)
(* every script exports and sources, the image that bakes the files in, the *)
(* app container, and the two processes of seed.sh that run inside it.     *)
(*                                                                         *)
(* Several shells with different profiles work in one checkout.  A process *)
(* reads its profile once (lru_cache); what is edited later changes nothing *)
(* in it.  Of the settings only those stay that a script or a validator    *)
(* decides on; staging is treated like production and Valkey's URL like    *)
(* PostgreSQL's, the code testing both in the same place.                  *)
(***************************************************************************)
EXTENDS Naturals, TLC

CONSTANTS
  Shell,     \* shells that run scripts
  Profile,   \* names that ENV_PROFILE may have
  Overlay,   \* contents that a profile file may have
  Script,    \* the scripts under study, among AllScripts
  MaxRuns,   \* bound: how many scripts are run in all
  MaxEdits   \* bound: how often a profile is edited

AllScripts == {"deploy", "up", "seed", "down"}

ASSUME ConstantsOK ==
  /\ Script \subseteq AllScripts
  /\ MaxRuns \in Nat /\ MaxEdits \in Nat

VARIABLES
  files,      \* config/profiles
  dotenv,     \* .env: the profile it was exported from and its settings
  image,      \* the profiles in the app image
  app,        \* the app container
  sh,         \* what each shell's script is about to do, and has sourced
  truncated,  \* history: the settings under which tables were truncated
  calm,       \* history: no script overlapped another one or an edit
  runs,       \* how many scripts were run
  edits       \* how often a profile was edited

vars == <<files, dotenv, image, app, sh, truncated, calm, runs, edits>>
-----------------------------------------------------------------------------
\* The settings.  "" is missing; "127.0.0.1" and "localhost" are this host,
\* "postgres" is the compose service, "changeme" a placeholder.
Section == {"jwt", "postgres"}

Base ==
  [app_env |-> "local", jwt |-> [secret_key |-> ""],
   postgres |-> [url |-> "", compose_url |-> ""]]

\* Tables are merged key by key, other values replaced.
DeepMerge(base, overlay) ==
  [key \in DOMAIN base \cup DOMAIN overlay |->
     IF key \notin DOMAIN overlay THEN base[key]
     ELSE IF key \in DOMAIN base \cap Section THEN overlay[key] @@ base[key]
     ELSE overlay[key]]

None == [app_env |-> "none"]

AppEnv == {"local", "staging", "production"}

\* EnvSettings and its validators.
Valid(data) ==
  /\ data.app_env \in AppEnv
  /\ data.jwt.secret_key # ""
  /\ data.postgres.url # ""
  /\ data.app_env # "local" => data.postgres.url \notin {"127.0.0.1", "changeme"}

Resolved(data, compose) ==
  IF compose THEN [data EXCEPT !.postgres.url = data.postgres.compose_url] ELSE data

\* get_env_settings, and with compose = FALSE get_profile_settings.
LoadSettings(overlay, compose) ==
  LET data == Resolved(DeepMerge(Base, overlay), compose)
  IN  IF Valid(data) THEN data ELSE None

LocalHosts == {"127.0.0.1", "localhost"}

SeedAllowed(settings) ==
  /\ settings.app_env \notin {"production", "staging"}
  /\ \/ settings.postgres.url \in LocalHosts
     \/ settings.app_env = "local" /\ settings.postgres.url = "postgres"

\* container_assert_prod_deploy_allowed, on the variables that were sourced.
DeployAllowed(settings) ==
  /\ settings.app_env \in {"staging", "production"}
  /\ settings.postgres.url # "127.0.0.1"
-----------------------------------------------------------------------------
Settings == {LoadSettings(o, c) : o \in Overlay, c \in BOOLEAN}
NoProfile == "none"
EnvFiles == {[profile |-> NoProfile, settings |-> None]}
              \cup [profile : Profile, settings : Settings]
Empty == [profile |-> NoProfile, settings |-> None]

NoApp == [status |-> "absent"]

\* A container, its env_file and mode, the files it sees, and, once it serves,
\* its settings; calm and edits say what was so when compose up last ran, born
\* how many edits there had been when it created the container.
Containers ==
  [status : {"stopped", "starting", "serving"}, env : EnvFiles,
   compose : BOOLEAN, image : [Profile -> Overlay], settings : Settings \cup {None},
   calm : BOOLEAN, edits : 0..MaxEdits, born : 0..MaxEdits]

\* What a shell's script is about to do, its profile, what it has sourced, and
\* the settings that the second process of seed.sh has loaded.
Tasks ==
  [at : {"idle", "truncate", "export", "source", "check", "build", "compose",
         "assert", "load", "reset", "stop"},
   script : Script \cup {"none"}, profile : Profile \cup {NoProfile},
   env : EnvFiles, settings : Settings \cup {None}]

Idle == [at |-> "idle", script |-> "none", profile |-> NoProfile, env |-> Empty,
         settings |-> None]

TypeOK ==
  /\ files \in [Profile -> Overlay] /\ image \in [Profile -> Overlay]
  /\ dotenv \in EnvFiles
  /\ app \in Containers \cup {NoApp}
  /\ app.status # "absent" => (app.status = "serving" <=> app.settings # None)
  /\ sh \in [Shell -> Tasks]
  /\ \A s \in Shell : sh[s].at = "reset" => sh[s].settings # None
  /\ truncated \subseteq Settings
  /\ calm \in BOOLEAN
  /\ runs \in 0..MaxRuns /\ edits \in 0..MaxEdits

Init ==
  /\ files \in [Profile -> Overlay]
  /\ image = files
  /\ dotenv = Empty
  /\ app = NoApp
  /\ sh = [s \in Shell |-> Idle]
  /\ truncated = {}
  /\ calm = TRUE
  /\ runs = 0 /\ edits = 0
-----------------------------------------------------------------------------
At(s, step) == sh[s].at = step
Quiet == \A s \in Shell : At(s, "idle")
LocalMode(s) == sh[s].script \in {"up", "seed"}

Goto(s, step) == sh' = [sh EXCEPT ![s].at = step]
Ends(s) == sh' = [sh EXCEPT ![s] = Idle]

Run(s, script, profile) ==
  /\ At(s, "idle") /\ runs < MaxRuns
  /\ sh' = [sh EXCEPT ![s] = [Idle EXCEPT !.at = "truncate", !.script = script,
                                          !.profile = profile]]
  /\ runs' = runs + 1
  /\ calm' = Quiet
  /\ UNCHANGED <<files, dotenv, image, app, truncated, edits>>

\* env_apply_profile: the shell empties .env before python starts ...
Truncate(s) ==
  /\ At(s, "truncate")
  /\ dotenv' = Empty
  /\ Goto(s, "export")
  /\ UNCHANGED <<files, image, app, truncated, calm, runs, edits>>

\* ... which writes it in one go when it ends, and fails without settings ...
Export(s) ==
  /\ At(s, "export")
  /\ LET settings == LoadSettings(files[sh[s].profile], FALSE) IN
       IF settings = None THEN Ends(s) /\ UNCHANGED dotenv
       ELSE /\ dotenv' = [profile |-> sh[s].profile, settings |-> settings]
            /\ Goto(s, "source")
  /\ UNCHANGED <<files, image, app, truncated, calm, runs, edits>>

\* ... and the script sources whatever .env holds by then.
Source(s) ==
  /\ At(s, "source")
  /\ sh' = [sh EXCEPT ![s].env = dotenv, ![s].at = "check"]
  /\ UNCHANGED <<files, dotenv, image, app, truncated, calm, runs, edits>>

\* Mutant of Admitted: deploy.sh does not assert that it may deploy.
AdmittedAlways(s) ==
  /\ sh[s].env.settings # None
  /\ LocalMode(s) => sh[s].env.settings.postgres.compose_url # ""

\* What each script makes sure of; a variable that is not set ends it, too.
Admitted(s) ==
  /\ sh[s].env.settings # None
  /\ LocalMode(s) => sh[s].env.settings.postgres.compose_url # ""
  /\ sh[s].script = "deploy" => DeployAllowed(sh[s].env.settings)

Check(s) ==
  /\ At(s, "check")
  /\ IF ~Admitted(s) THEN Ends(s)
     ELSE Goto(s, CASE sh[s].script \in {"deploy", "up"} -> "build"
                    [] sh[s].script = "seed" -> "assert"
                    [] sh[s].script = "down" -> "stop")
  /\ UNCHANGED <<files, dotenv, image, app, truncated, calm, runs, edits>>
-----------------------------------------------------------------------------
\* compose up --build copies config into the image ...
Build(s) ==
  /\ At(s, "build")
  /\ image' = files
  /\ Goto(s, "compose")
  /\ UNCHANGED <<files, dotenv, app, truncated, calm, runs, edits>>

\* Mutant of Wanted: compose start, as for a stopped container.
WantedAsItWas(s) ==
  IF app = NoApp
  THEN [env |-> dotenv, compose |-> LocalMode(s), image |-> image]
  ELSE [env |-> app.env, compose |-> app.compose, image |-> app.image]

\* ... reads .env again, as the container's env_file ...
Wanted(s) == [env |-> dotenv, compose |-> LocalMode(s), image |-> image]

\* ... and replaces the container unless it has just that; the app container
\* of every mode has one name.
Compose(s) ==
  /\ At(s, "compose")
  /\ LET new == Wanted(s)
         same == /\ app.status \in {"starting", "serving"}
                 /\ new = [env |-> app.env, compose |-> app.compose, image |-> app.image]
     IN app' = [status |-> IF same THEN app.status ELSE "starting",
                settings |-> IF same THEN app.settings ELSE None,
                born |-> IF same THEN app.born ELSE edits,
                env |-> new.env, compose |-> new.compose, image |-> new.image,
                calm |-> calm, edits |-> edits]
  /\ Ends(s)
  /\ UNCHANGED <<files, dotenv, image, truncated, calm, runs, edits>>

\* The settings a process of a container reads: ENV_PROFILE from its
\* environment, the files mounted in compose mode and baked in otherwise.
ReadBy(env, compose, baked) ==
  IF env.profile = NoProfile THEN None
  ELSE LoadSettings(IF compose THEN files[env.profile] ELSE baked[env.profile], compose)

\* The entrypoint migrates and validates, and the server loads its settings;
\* each of them fails without, and the container is restarted.
AppServes ==
  /\ app.status = "starting"
  /\ LET settings == ReadBy(app.env, app.compose, app.image) IN
       /\ settings # None
       /\ app' = [app EXCEPT !.status = "serving", !.settings = settings]
  /\ UNCHANGED <<files, dotenv, image, sh, truncated, calm, runs, edits>>

\* restart: unless-stopped.
AppDies ==
  /\ app.status = "serving"
  /\ app' = [app EXCEPT !.status = "starting", !.settings = None]
  /\ UNCHANGED <<files, dotenv, image, sh, truncated, calm, runs, edits>>

Stop(s) ==
  /\ At(s, "stop")
  /\ app' = IF app = NoApp THEN app
            ELSE [app EXCEPT !.status = "stopped", !.settings = None]
  /\ Ends(s)
  /\ UNCHANGED <<files, dotenv, image, truncated, calm, runs, edits>>
-----------------------------------------------------------------------------
\* container_ops_run_app: exec in a container that runs, else compose run,
\* which takes .env as it is by then.
RunInApp ==
  IF app.status \in {"starting", "serving"} THEN ReadBy(app.env, app.compose, app.image)
  ELSE ReadBy(dotenv, TRUE, image)

\* The first process of seed.sh asks, and is gone.
AssertSeed(s) ==
  /\ At(s, "assert")
  /\ LET settings == RunInApp IN
       IF settings # None /\ SeedAllowed(settings) THEN Goto(s, "load") ELSE Ends(s)
  /\ UNCHANGED <<files, dotenv, image, app, truncated, calm, runs, edits>>

\* Mutant of Load: the second process trusts the first one's answer.
LoadTrusting(s) ==
  /\ At(s, "load")
  /\ LET settings == RunInApp IN
       IF settings # None
       THEN sh' = [sh EXCEPT ![s].at = "reset", ![s].settings = settings]
       ELSE Ends(s)
  /\ UNCHANGED <<files, dotenv, image, app, truncated, calm, runs, edits>>

\* The second loads its own settings, asks again, and keeps them.
Load(s) ==
  /\ At(s, "load")
  /\ LET settings == RunInApp IN
       IF settings # None /\ SeedAllowed(settings)
       THEN sh' = [sh EXCEPT ![s].at = "reset", ![s].settings = settings]
       ELSE Ends(s)
  /\ UNCHANGED <<files, dotenv, image, app, truncated, calm, runs, edits>>

\* Its migration and truncation use the URL it has loaded.
Reset(s) ==
  /\ At(s, "reset")
  /\ truncated' = truncated \cup {sh[s].settings}
  /\ Ends(s)
  /\ UNCHANGED <<files, dotenv, image, app, calm, runs, edits>>

\* Somebody edits a profile.
Edit(profile, overlay) ==
  /\ edits < MaxEdits
  /\ overlay # files[profile]
  /\ files' = [files EXCEPT ![profile] = overlay]
  /\ edits' = edits + 1
  /\ calm' = (calm /\ Quiet)
  /\ UNCHANGED <<dotenv, image, app, sh, truncated, runs>>

Next ==
  \/ \E s \in Shell :
       \/ \E script \in Script, profile \in Profile : Run(s, script, profile)
       \/ Truncate(s) \/ Export(s) \/ Source(s) \/ Check(s)
       \/ Build(s) \/ Compose(s) \/ Stop(s)
       \/ AssertSeed(s) \/ Load(s) \/ Reset(s)
  \/ AppServes \/ AppDies
  \/ \E profile \in Profile, overlay \in Overlay : Edit(profile, overlay)

Spec == Init /\ [][Next]_vars
-----------------------------------------------------------------------------
\* No tables are truncated but those of a local environment, however .env, the
\* profiles and the container change between and during the two processes of
\* seed.sh (assert_seed_allowed: "Refuse seeding outside local development").
SeededIsLocal ==
  \A settings \in truncated :
    settings.app_env = "local" /\ settings.postgres.url \in LocalHosts \cup {"postgres"}

\* A server that deploy.sh brought up undisturbed is not that of a local
\* environment, nor on the loopback address, whatever is edited afterwards
\* (container_assert_prod_deploy_allowed against env_file and image).
DeployIsGuarded ==
  app.status = "serving" /\ app.calm /\ ~app.compose => DeployAllowed(app.settings)

\* Once up.sh or deploy.sh has run undisturbed, the server has the settings of
\* its profile as it is, edits before it included (container_start_or_up:
\* "Always up (not start) so env_file / environment changes apply").  One case is
\* left: a container of up.sh mounts the files, and one that outlived edits whose
\* result is what it was created from may hold what it read in between.
ServesTheProfile ==
  app.status = "serving" /\ app.calm /\ app.edits = edits =>
    \/ app.settings = LoadSettings(files[app.env.profile], app.compose)
    \/ app.compose /\ app.born < edits
=============================================================================
