-------------------------- MODULE DeploymentProofs --------------------------
(***************************************************************************)
(* Proofs about module Deployment, for any shells, profiles, contents of   *)
(* profile files and any number of scripts and edits.                      *)
(***************************************************************************)
EXTENDS Deployment, TLAPS

(* What a script that has started carries. *)
Started ==
  \A s \in Shell : sh[s].at # "idle" =>
    sh[s].profile \in Profile /\ sh[s].script \in Script

TypeInv == TypeOK /\ Started

Steps == {"idle", "truncate", "export", "source", "check", "build", "compose",
          "assert", "load", "reset", "stop"}

LEMMA TaskFields ==
  ASSUME NEW t \in Tasks
  PROVE  /\ t.at \in Steps
         /\ t.script \in Script \cup {"none"}
         /\ t.profile \in Profile \cup {NoProfile}
         /\ t.env \in EnvFiles
         /\ t.settings \in Settings \cup {None}
BY DEF Tasks, Steps

LEMMA IdleType == Idle \in Tasks /\ Empty \in EnvFiles
BY DEF Idle, Tasks, Empty, EnvFiles

LEMMA ContainerFields ==
  ASSUME TypeOK, app.status # "absent"
  PROVE  /\ app \in Containers
         /\ app.status \in {"stopped", "starting", "serving"}
         /\ app.env \in EnvFiles /\ app.compose \in BOOLEAN
         /\ app.image \in [Profile -> Overlay]
         /\ app.settings \in Settings \cup {None}
         /\ app.calm \in BOOLEAN
         /\ app.edits \in 0..MaxEdits /\ app.born \in 0..MaxEdits
<1>1. app \in Containers
  BY DEF TypeOK, NoApp
<1> QED BY <1>1 DEF Containers

\* What a process loads is one of the settings, and has passed the validators.
LEMMA Loaded ==
  ASSUME NEW o \in Overlay, NEW c \in BOOLEAN
  PROVE  /\ LoadSettings(o, c) \in Settings
         /\ LoadSettings(o, c) # None => Valid(LoadSettings(o, c))
BY DEF Settings, LoadSettings

LEMMA ReadSettings ==
  ASSUME TypeOK, NEW env \in EnvFiles, NEW compose \in BOOLEAN,
         NEW baked \in [Profile -> Overlay], ReadBy(env, compose, baked) # None
  PROVE  /\ env.profile \in Profile
         /\ ReadBy(env, compose, baked) =
              LoadSettings(IF compose THEN files[env.profile]
                                      ELSE baked[env.profile], compose)
         /\ ReadBy(env, compose, baked) \in Settings
         /\ Valid(ReadBy(env, compose, baked))
<1>1. env.profile # NoProfile
  BY DEF ReadBy
<1>2. env.profile \in Profile
  BY <1>1 DEF EnvFiles
<1>3. (IF compose THEN files[env.profile] ELSE baked[env.profile]) \in Overlay
  BY <1>2 DEF TypeOK
<1> QED BY <1>1, <1>2, <1>3, Loaded DEF ReadBy

LEMMA RunInAppSettings ==
  ASSUME TypeOK, RunInApp # None
  PROVE  RunInApp \in Settings /\ Valid(RunInApp)
<1>1. CASE app.status \in {"starting", "serving"}
  BY <1>1, ContainerFields, ReadSettings DEF RunInApp
<1>2. CASE app.status \notin {"starting", "serving"}
  BY <1>2, ReadSettings DEF RunInApp, TypeOK
<1> QED BY <1>1, <1>2

\* A script goes on to a step, or ends.
LEMMA Goes ==
  ASSUME TypeOK, NEW s \in Shell, NEW step \in Steps, Goto(s, step)
  PROVE  /\ sh' \in [Shell -> Tasks]
         /\ \A t \in Shell \ {s} : sh'[t] = sh[t]
         /\ sh'[s].at = step /\ sh'[s].script = sh[s].script
         /\ sh'[s].profile = sh[s].profile /\ sh'[s].env = sh[s].env
         /\ sh'[s].settings = sh[s].settings
<1>1. sh[s] \in Tasks /\ sh' = [sh EXCEPT ![s] = [sh[s] EXCEPT !.at = step]]
  BY DEF TypeOK, Goto
<1>2. [sh[s] EXCEPT !.at = step] \in Tasks
  BY <1>1 DEF Tasks, Steps
<1> QED BY <1>1, <1>2 DEF TypeOK, Tasks

LEMMA Finishes ==
  ASSUME TypeOK, NEW s \in Shell, Ends(s)
  PROVE  /\ sh' \in [Shell -> Tasks]
         /\ \A t \in Shell \ {s} : sh'[t] = sh[t]
         /\ sh'[s] = Idle /\ sh'[s].at = "idle"
BY IdleType DEF TypeOK, Ends, Idle

\* Where check leads a script that is admitted.
LEMMA Checks ==
  ASSUME Started, NEW s \in Shell, Check(s), Admitted(s)
  PROVE  \E step \in {"build", "assert", "stop"} :
           /\ Goto(s, step)
           /\ step = "build" => sh[s].script \in {"deploy", "up"}
<1>1. sh[s].script \in {"deploy", "up", "seed", "down"}
  BY ConstantsOK DEF Check, At, Started, AllScripts
<1> QED BY <1>1 DEF Check
-----------------------------------------------------------------------------
LEMMA TypeInvariant == Spec => []TypeInv
<1>1. Init => TypeInv
  BY IdleType, ConstantsOK DEF Init, TypeInv, TypeOK, Started, Idle, NoApp
<1>2. TypeInv /\ [Next]_vars => TypeInv'
  <2> SUFFICES ASSUME TypeOK, Started, [Next]_vars PROVE TypeOK' /\ Started'
    BY DEF TypeInv
  <2>1. ASSUME NEW s \in Shell, NEW script \in Script, NEW profile \in Profile,
               Run(s, script, profile)
        PROVE  TypeOK' /\ Started'
    <3> DEFINE task == [Idle EXCEPT !.at = "truncate", !.script = script,
                                    !.profile = profile]
    <3>1. /\ task \in Tasks /\ task.at = "truncate"
          /\ task.script = script /\ task.profile = profile
      BY IdleType DEF Idle, Tasks
    <3>2. sh' = [sh EXCEPT ![s] = task]
      BY <2>1 DEF Run
    <3> HIDE DEF task
    <3>3. sh' \in [Shell -> Tasks] /\ sh'[s] = task
          /\ \A t \in Shell \ {s} : sh'[t] = sh[t]
      BY <3>1, <3>2 DEF TypeOK
    <3>4. calm' \in BOOLEAN
      BY <2>1 DEF Run, Quiet
    <3>5. runs' \in 0..MaxRuns
      BY <2>1, ConstantsOK DEF Run, TypeOK
    <3> QED BY <2>1, <3>1, <3>3, <3>4, <3>5 DEF Run, TypeOK, Started
  <2>2. ASSUME NEW s \in Shell, Truncate(s) \/ Export(s)
        PROVE  TypeOK' /\ Started'
    <3>1. CASE Truncate(s)
      <4>1. Goto(s, "export") /\ dotenv' = Empty /\ sh[s].at # "idle"
        BY <3>1 DEF Truncate, At
      <4>2. Goto(s, "export") /\ "export" \in Steps
        BY <4>1 DEF Steps
      <4> QED BY <3>1, <4>1, <4>2, Goes, IdleType DEF Truncate, TypeOK, Started
    <3>2. CASE Export(s)
      <4> DEFINE settings == LoadSettings(files[sh[s].profile], FALSE)
      <4>1. sh[s].profile \in Profile /\ sh[s].at # "idle"
        BY <3>2 DEF Export, At, Started
      <4>2. settings \in Settings
        BY <4>1, Loaded DEF TypeOK
      <4>3. CASE settings = None
        <5>1. Ends(s) /\ dotenv' = dotenv
          BY <3>2, <4>3 DEF Export
        <5> QED BY <3>2, <5>1, Finishes DEF Export, TypeOK, Started
      <4>4. CASE settings # None
        <5>1. /\ Goto(s, "source") /\ "source" \in Steps
              /\ dotenv' = [profile |-> sh[s].profile, settings |-> settings]
          BY <3>2, <4>4 DEF Export, Steps
        <5>2. dotenv' \in EnvFiles
          BY <4>1, <4>2, <5>1 DEF EnvFiles
        <5> QED BY <3>2, <4>1, <5>1, <5>2, Goes DEF Export, TypeOK, Started
      <4> QED BY <4>3, <4>4
    <3> QED BY <2>2, <3>1, <3>2
  <2>3. ASSUME NEW s \in Shell, Source(s)
        PROVE  TypeOK' /\ Started'
    <3> DEFINE task == [sh[s] EXCEPT !.env = dotenv, !.at = "check"]
    <3>1. sh[s] \in Tasks /\ dotenv \in EnvFiles /\ sh[s].at = "source"
      BY <2>3 DEF Source, At, TypeOK
    <3>2. /\ task \in Tasks /\ task.at = "check"
          /\ task.script = sh[s].script /\ task.profile = sh[s].profile
      BY <3>1 DEF Tasks
    <3>3. sh' = [sh EXCEPT ![s] = task]
      BY <2>3, <3>1 DEF Source, TypeOK, Tasks
    <3> HIDE DEF task
    <3>4. sh' \in [Shell -> Tasks] /\ sh'[s] = task
          /\ \A t \in Shell \ {s} : sh'[t] = sh[t]
      BY <3>2, <3>3 DEF TypeOK
    <3> QED BY <2>3, <3>1, <3>2, <3>4 DEF Source, TypeOK, Started
  <2>4. ASSUME NEW s \in Shell, Check(s) \/ AssertSeed(s)
        PROVE  TypeOK' /\ Started'
    <3>1. \/ Ends(s)
          \/ \E step \in {"build", "assert", "stop", "load"} : Goto(s, step)
      <4>1. CASE Check(s)
        <5>1. CASE ~Admitted(s)
          BY <4>1, <5>1 DEF Check
        <5>2. CASE Admitted(s)
          BY <4>1, <5>2, Checks
        <5> QED BY <5>1, <5>2
      <4>2. CASE AssertSeed(s)
        BY <4>2 DEF AssertSeed
      <4> QED BY <2>4, <4>1, <4>2
    <3>2. /\ sh[s].at \notin {"idle", "reset"}
          /\ UNCHANGED <<files, dotenv, image, app, truncated, calm, runs, edits>>
      BY <2>4 DEF Check, AssertSeed, At
    <3>3. CASE Ends(s)
      BY <3>2, <3>3, Finishes DEF TypeOK, Started
    <3>4. ASSUME NEW step \in {"build", "assert", "stop", "load"}, Goto(s, step)
          PROVE  TypeOK' /\ Started'
      <4>1. step \in Steps
        BY DEF Steps
      <4> QED BY <3>2, <3>4, <4>1, Goes DEF TypeOK, Started
    <3> QED BY <3>1, <3>3, <3>4
  <2>5. ASSUME NEW s \in Shell, Build(s)
        PROVE  TypeOK' /\ Started'
    <3>1. Goto(s, "compose") /\ "compose" \in Steps /\ sh[s].at # "idle"
      BY <2>5 DEF Build, At, Steps
    <3> QED BY <2>5, <3>1, Goes DEF Build, TypeOK, Started
  <2>6. ASSUME NEW s \in Shell, Compose(s)
        PROVE  TypeOK' /\ Started'
    <3> DEFINE same == /\ app.status \in {"starting", "serving"}
                       /\ Wanted(s) = [env |-> app.env, compose |-> app.compose,
                                       image |-> app.image]
    <3>1. app' = [status |-> IF same THEN app.status ELSE "starting",
                  settings |-> IF same THEN app.settings ELSE None,
                  born |-> IF same THEN app.born ELSE edits,
                  env |-> dotenv, compose |-> LocalMode(s), image |-> image,
                  calm |-> calm, edits |-> edits]
      BY <2>6 DEF Compose, Wanted
    <3>2. /\ (IF same THEN app.status ELSE "starting") \in {"starting", "serving"}
          /\ (IF same THEN app.settings ELSE None) \in Settings \cup {None}
          /\ (IF same THEN app.born ELSE edits) \in 0..MaxEdits
          /\ LocalMode(s) \in BOOLEAN
      BY ContainerFields DEF TypeOK, LocalMode
    <3>3. app'.status = "serving" <=> app'.settings # None
      BY <3>1 DEF TypeOK
    <3> HIDE DEF same
    <3>4. app' \in Containers
      BY <3>1, <3>2 DEF Containers, TypeOK
    <3>5. Ends(s) /\ UNCHANGED <<files, dotenv, image, truncated, calm, runs, edits>>
      BY <2>6 DEF Compose
    <3> QED BY <3>3, <3>4, <3>5, Finishes DEF TypeOK, Started
  <2>7. ASSUME NEW s \in Shell, Stop(s)
        PROVE  TypeOK' /\ Started'
    <3>1. CASE app = NoApp
      BY <2>7, <3>1, Finishes DEF Stop, TypeOK, Started
    <3>2. CASE app # NoApp
      <4>1. app \in Containers
        BY <3>2 DEF TypeOK
      <4>2. app' = [app EXCEPT !.status = "stopped", !.settings = None]
        BY <2>7, <3>2 DEF Stop
      <4>3. app' \in Containers /\ app'.status = "stopped" /\ app'.settings = None
        BY <4>1, <4>2 DEF Containers
      <4> QED BY <2>7, <4>3, Finishes DEF Stop, TypeOK, Started
    <3> QED BY <3>1, <3>2
  <2>8. ASSUME NEW s \in Shell, Load(s)
        PROVE  TypeOK' /\ Started'
    <3>1. CASE Ends(s)
      BY <2>8, <3>1, Finishes DEF Load, TypeOK, Started
    <3>2. CASE ~Ends(s)
      <4> DEFINE task == [sh[s] EXCEPT !.at = "reset", !.settings = RunInApp]
      <4>1. sh' = [sh EXCEPT ![s].at = "reset", ![s].settings = RunInApp]
            /\ RunInApp # None
        BY <2>8, <3>2 DEF Load
      <4>2. sh[s] \in Tasks /\ RunInApp \in Settings /\ sh[s].at # "idle"
        BY <2>8, <4>1, RunInAppSettings DEF TypeOK, Load, At
      <4>3. /\ task \in Tasks /\ task.at = "reset" /\ task.settings # None
            /\ task.script = sh[s].script /\ task.profile = sh[s].profile
        BY <4>1, <4>2 DEF Tasks
      <4>4. sh' = [sh EXCEPT ![s] = task]
        BY <4>1, <4>2 DEF TypeOK, Tasks
      <4> HIDE DEF task
      <4>5. sh' \in [Shell -> Tasks] /\ sh'[s] = task
            /\ \A t \in Shell \ {s} : sh'[t] = sh[t]
        BY <4>3, <4>4 DEF TypeOK
      <4> QED BY <2>8, <4>2, <4>3, <4>5 DEF Load, TypeOK, Started
    <3> QED BY <3>1, <3>2
  <2>9. ASSUME NEW s \in Shell, Reset(s)
        PROVE  TypeOK' /\ Started'
    <3>1. sh[s].settings \in Settings
      BY <2>9, TaskFields DEF Reset, At, TypeOK
    <3> QED BY <2>9, <3>1, Finishes DEF Reset, TypeOK, Started
  <2>10. CASE AppServes
    <3> DEFINE settings == ReadBy(app.env, app.compose, app.image)
    <3>1. app \in Containers /\ settings # None
          /\ app' = [app EXCEPT !.status = "serving", !.settings = settings]
      BY <2>10, ContainerFields DEF AppServes
    <3>2. settings \in Settings
      BY <2>10, <3>1, ContainerFields, ReadSettings DEF AppServes
    <3> HIDE DEF settings
    <3>3. app' \in Containers /\ app'.status = "serving" /\ app'.settings = settings
      BY <3>1, <3>2 DEF Containers
    <3> QED BY <2>10, <3>1, <3>3 DEF AppServes, TypeOK, Started
  <2>11. CASE AppDies
    <3>1. app \in Containers
      BY <2>11, ContainerFields DEF AppDies
    <3>2. app' \in Containers /\ app'.status = "starting" /\ app'.settings = None
      BY <2>11, <3>1 DEF AppDies, Containers
    <3> QED BY <2>11, <3>2 DEF AppDies, TypeOK, Started
  <2>12. ASSUME NEW profile \in Profile, NEW overlay \in Overlay,
                Edit(profile, overlay)
         PROVE  TypeOK' /\ Started'
    <3>1. edits' \in 0..MaxEdits
      BY <2>12, ConstantsOK DEF Edit, TypeOK
    <3>2. calm' \in BOOLEAN
      BY <2>12 DEF Edit, TypeOK, Quiet
    <3> QED BY <2>12, <3>1, <3>2 DEF Edit, TypeOK, Started
  <2>13. CASE UNCHANGED vars
    BY <2>13 DEF vars, TypeOK, Started
  <2> QED BY <2>1, <2>2, <2>3, <2>4, <2>5, <2>6, <2>7, <2>8, <2>9, <2>10, <2>11,
             <2>12, <2>13 DEF Next
<1> QED BY <1>1, <1>2, PTL DEF Spec

\* Files, containers and scripts keep their types, and a container serves just
\* when it has settings, whatever scripts and edits overlap (TypeOK).
THEOREM TypeCorrect == Spec => []TypeOK
BY TypeInvariant, PTL DEF TypeInv
-----------------------------------------------------------------------------
(***************************************************************************)
(* SeededIsLocal.  The second process of seed.sh keeps the settings it has *)
(* asked about, so they are local whatever is written beside it.           *)
(***************************************************************************)
LocalDatabase(settings) ==
  settings.app_env = "local" /\ settings.postgres.url \in LocalHosts \cup {"postgres"}

SeedInv ==
  /\ \A s \in Shell : sh[s].at = "reset" => LocalDatabase(sh[s].settings)
  /\ SeededIsLocal

\* What the guard lets through is local, given that the settings are valid.
LEMMA GuardIsLocal ==
  ASSUME NEW settings, Valid(settings), SeedAllowed(settings)
  PROVE  LocalDatabase(settings)
BY DEF Valid, AppEnv, SeedAllowed, LocalDatabase

\* No tables are truncated but those of a local environment, however .env, the
\* profiles and the container change beside seed.sh (assert_seed_allowed).
THEOREM SeedsAreLocal == Spec => []SeededIsLocal
<1>1. Init => SeedInv
  BY DEF Init, SeedInv, SeededIsLocal, Idle
<1>2. TypeInv /\ SeedInv /\ [Next]_vars => SeedInv'
  <2> SUFFICES ASSUME TypeOK, Started, SeedInv, [Next]_vars PROVE SeedInv'
    BY DEF TypeInv
  <2> USE DEF SeedInv, SeededIsLocal, LocalDatabase
  <2>1. ASSUME NEW s \in Shell, truncated' = truncated, sh'[s].at # "reset",
               \A t \in Shell \ {s} : sh'[t] = sh[t]
        PROVE  SeedInv'
    BY <2>1
  <2>2. ASSUME NEW s \in Shell, truncated' = truncated,
               Ends(s) \/ \E step \in Steps \ {"reset"} : Goto(s, step)
        PROVE  SeedInv'
    BY <2>1, <2>2, Goes, Finishes
  <2>3. ASSUME NEW s \in Shell, NEW script \in Script, NEW profile \in Profile,
               Run(s, script, profile)
        PROVE  SeedInv'
    BY <2>1, <2>3 DEF Run, TypeOK, Idle
  <2>4. ASSUME NEW s \in Shell,
               \/ Truncate(s) \/ Export(s) \/ Check(s) \/ Build(s)
               \/ Compose(s) \/ Stop(s) \/ AssertSeed(s)
        PROVE  SeedInv'
    <3>1. truncated' = truncated
      BY <2>4 DEF Truncate, Export, Check, Build, Compose, Stop, AssertSeed
    <3>2. Ends(s) \/ \E step \in Steps \ {"reset"} : Goto(s, step)
      <4>1. CASE Truncate(s) \/ Export(s) \/ Build(s) \/ Compose(s) \/ Stop(s)
                 \/ AssertSeed(s)
        BY <4>1 DEF Truncate, Export, Build, Compose, Stop, AssertSeed, Steps
      <4>2. CASE Check(s) /\ ~Admitted(s)
        BY <4>2 DEF Check
      <4>3. CASE Check(s) /\ Admitted(s)
        BY <4>3, Checks DEF Steps
      <4> QED BY <2>4, <4>1, <4>2, <4>3
    <3> QED BY <2>2, <3>1, <3>2
  <2>5. ASSUME NEW s \in Shell, Source(s)
        PROVE  SeedInv'
    <3>1. sh'[s].at = "check" /\ \A t \in Shell \ {s} : sh'[t] = sh[t]
      BY <2>5 DEF Source, TypeOK, Tasks
    <3> QED BY <2>1, <2>5, <3>1 DEF Source
  <2>6. ASSUME NEW s \in Shell, Load(s)
        PROVE  SeedInv'
    <3>1. CASE Ends(s)
      BY <2>2, <2>6, <3>1 DEF Load
    <3>2. CASE ~Ends(s)
      <4>1. /\ RunInApp # None /\ SeedAllowed(RunInApp)
            /\ sh' = [sh EXCEPT ![s].at = "reset", ![s].settings = RunInApp]
        BY <2>6, <3>2 DEF Load
      <4>2. LocalDatabase(RunInApp)
        BY <4>1, RunInAppSettings, GuardIsLocal
      <4>3. sh'[s].settings = RunInApp /\ \A t \in Shell \ {s} : sh'[t] = sh[t]
        BY <4>1 DEF TypeOK, Tasks
      <4> QED BY <2>6, <4>2, <4>3 DEF Load
    <3> QED BY <3>1, <3>2
  <2>7. ASSUME NEW s \in Shell, Reset(s)
        PROVE  SeedInv'
    <3>1. LocalDatabase(sh[s].settings) /\ truncated' = truncated \cup {sh[s].settings}
      BY <2>7 DEF Reset, At
    <3>2. sh'[s].at # "reset" /\ \A t \in Shell \ {s} : sh'[t] = sh[t]
      BY <2>7, Finishes DEF Reset
    <3> QED BY <3>1, <3>2
  <2>8. ASSUME UNCHANGED <<sh, truncated>>
        PROVE  SeedInv'
    BY <2>8
  <2> QED BY <2>3, <2>4, <2>5, <2>6, <2>7, <2>8 DEF Next, AppServes, AppDies, Edit, vars
<1>3. SeedInv => SeededIsLocal
  BY DEF SeedInv
<1> QED BY <1>1, <1>2, <1>3, TypeInvariant, PTL DEF Spec
-----------------------------------------------------------------------------
(***************************************************************************)
(* What a script finds when nothing disturbs it.  While calm, one script   *)
(* at most is under way and no file has changed since it started, so .env  *)
(* is what it exported itself.                                             *)
(***************************************************************************)
Alone ==
  calm => \A s, t \in Shell : sh[s].at # "idle" /\ sh[t].at # "idle" => s = t

Exported(s) ==
  [profile |-> sh[s].profile, settings |-> LoadSettings(files[sh[s].profile], FALSE)]

ScriptOK(s) ==
  /\ sh[s].at \in {"source", "check", "build", "compose"} => dotenv = Exported(s)
  /\ sh[s].at \in {"check", "build", "compose"} => sh[s].env = dotenv
  /\ sh[s].at \in {"build", "compose"} =>
       Admitted(s) /\ sh[s].script \in {"deploy", "up"}
  /\ sh[s].at = "compose" => image = files

ScriptInv == calm => \A s \in Shell : ScriptOK(s)

CalmInv == Alone /\ ScriptInv

LEMMA CalmInvariant == Spec => []CalmInv
<1>1. Init => CalmInv
  BY DEF Init, CalmInv, Alone, ScriptInv, ScriptOK, Idle
<1>2. TypeInv /\ CalmInv /\ [Next]_vars => CalmInv'
  <2> SUFFICES ASSUME TypeOK, Started, Alone, ScriptInv, [Next]_vars PROVE CalmInv'
    BY DEF TypeInv, CalmInv
  <2>1. ASSUME NEW s \in Shell, sh[s].at # "idle", calm' = calm,
               \A t \in Shell \ {s} : sh'[t] = sh[t],
               calm => ScriptOK(s)'
        PROVE  CalmInv'
    <3>1. Alone'
      BY <2>1 DEF Alone
    <3>2. ASSUME calm, NEW t \in Shell \ {s} PROVE ScriptOK(t)'
      <4>1. sh'[t].at = "idle"
        BY <2>1, <3>2 DEF Alone
      <4> QED BY <4>1 DEF ScriptOK
    <3> QED BY <2>1, <3>1, <3>2 DEF CalmInv, ScriptInv
  <2>2. ASSUME NEW s \in Shell, sh[s].at # "idle", calm' = calm, Ends(s)
        PROVE  CalmInv'
    <3>1. sh'[s].at = "idle" /\ \A t \in Shell \ {s} : sh'[t] = sh[t]
      BY <2>2, Finishes
    <3> QED BY <2>1, <2>2, <3>1 DEF ScriptOK
  <2>3. ASSUME NEW s \in Shell, NEW script \in Script, NEW profile \in Profile,
               Run(s, script, profile)
        PROVE  CalmInv'
    <3>1. sh'[s].at = "truncate" /\ \A t \in Shell \ {s} : sh'[t] = sh[t]
      BY <2>3 DEF Run, TypeOK, Idle
    <3>2. calm' => \A t \in Shell : sh[t].at = "idle"
      BY <2>3 DEF Run, Quiet, At
    <3> QED BY <3>1, <3>2 DEF CalmInv, Alone, ScriptInv, ScriptOK
  <2>4. ASSUME NEW s \in Shell, Truncate(s)
        PROVE  CalmInv'
    <3>1. Goto(s, "export") /\ "export" \in Steps /\ sh[s].at # "idle" /\ calm' = calm
      BY <2>4 DEF Truncate, At, Steps
    <3>2. sh'[s].at = "export" /\ \A t \in Shell \ {s} : sh'[t] = sh[t]
      BY <3>1, Goes
    <3> QED BY <2>1, <3>1, <3>2 DEF ScriptOK
  <2>5. ASSUME NEW s \in Shell, Export(s)
        PROVE  CalmInv'
    <3>1. sh[s].at # "idle" /\ calm' = calm /\ files' = files
      BY <2>5 DEF Export, At
    <3>2. CASE Ends(s)
      BY <2>2, <3>1, <3>2
    <3>3. CASE ~Ends(s)
      <4>1. /\ dotenv' = Exported(s)
            /\ Goto(s, "source") /\ "source" \in Steps
        BY <2>5, <3>3 DEF Export, Exported, Steps
      <4>2. /\ sh'[s].at = "source" /\ sh'[s].profile = sh[s].profile
            /\ \A t \in Shell \ {s} : sh'[t] = sh[t]
        BY <4>1, Goes
      <4>3. ScriptOK(s)'
        BY <3>1, <4>1, <4>2 DEF ScriptOK, Exported
      <4> QED BY <2>1, <3>1, <4>2, <4>3
    <3> QED BY <3>2, <3>3
  <2>6. ASSUME NEW s \in Shell, Source(s)
        PROVE  CalmInv'
    <3>1. /\ sh[s].at = "source" /\ calm' = calm /\ dotenv' = dotenv /\ files' = files
          /\ sh' = [sh EXCEPT ![s].env = dotenv, ![s].at = "check"]
      BY <2>6 DEF Source, At
    <3>2. /\ sh'[s].at = "check" /\ sh'[s].env = dotenv
          /\ sh'[s].profile = sh[s].profile
          /\ \A t \in Shell \ {s} : sh'[t] = sh[t]
      BY <3>1 DEF TypeOK, Tasks
    <3>3. calm => ScriptOK(s)'
      BY <3>1, <3>2 DEF ScriptInv, ScriptOK, Exported
    <3> QED BY <2>1, <3>1, <3>2, <3>3
  <2>7. ASSUME NEW s \in Shell, Check(s)
        PROVE  CalmInv'
    <3>1. /\ sh[s].at = "check"
          /\ UNCHANGED <<files, dotenv, image, app, truncated, calm, runs, edits>>
      BY <2>7 DEF Check, At
    <3>2. CASE ~Admitted(s)
      <4>1. Ends(s)
        BY <2>7, <3>2 DEF Check
      <4> QED BY <2>2, <3>1, <4>1
    <3>3. CASE Admitted(s)
      <4>2. PICK step \in {"build", "assert", "stop"} :
              /\ Goto(s, step)
              /\ step = "build" => sh[s].script \in {"deploy", "up"}
        BY <2>7, <3>3, Checks
      <4>3. step \in Steps
        BY DEF Steps
      <4>4. /\ sh'[s].at = step /\ sh'[s].profile = sh[s].profile
            /\ sh'[s].env = sh[s].env /\ sh'[s].script = sh[s].script
            /\ \A t \in Shell \ {s} : sh'[t] = sh[t]
        BY <4>2, <4>3, Goes
      <4>5. Admitted(s)'
        BY <3>3, <4>4 DEF Admitted, LocalMode
      <4>6. calm => ScriptOK(s)'
        BY <3>1, <4>2, <4>4, <4>5 DEF ScriptInv, ScriptOK, Exported
      <4> QED BY <2>1, <3>1, <4>4, <4>6
    <3> QED BY <3>2, <3>3
  <2>8. ASSUME NEW s \in Shell, Build(s)
        PROVE  CalmInv'
    <3>1. /\ sh[s].at = "build" /\ image' = files
          /\ UNCHANGED <<files, dotenv, calm>>
          /\ Goto(s, "compose") /\ "compose" \in Steps
      BY <2>8 DEF Build, At, Steps
    <3>2. /\ sh'[s].at = "compose" /\ sh'[s].profile = sh[s].profile
          /\ sh'[s].env = sh[s].env /\ sh'[s].script = sh[s].script
          /\ \A t \in Shell \ {s} : sh'[t] = sh[t]
      BY <3>1, Goes
    <3>3. Admitted(s) => Admitted(s)'
      BY <3>2 DEF Admitted, LocalMode
    <3>4. calm => ScriptOK(s)'
      BY <3>1, <3>2, <3>3 DEF ScriptInv, ScriptOK, Exported
    <3> QED BY <2>1, <3>1, <3>2, <3>4
  <2>9. ASSUME NEW s \in Shell, Compose(s) \/ Stop(s) \/ Reset(s)
        PROVE  CalmInv'
    BY <2>2, <2>9 DEF Compose, Stop, Reset, At
  <2>10. ASSUME NEW s \in Shell, AssertSeed(s) \/ Load(s)
         PROVE  CalmInv'
    <3>1. sh[s].at # "idle" /\ calm' = calm
      BY <2>10 DEF AssertSeed, Load, At
    <3>2. CASE Ends(s)
      BY <2>2, <3>1, <3>2
    <3>3. CASE ~Ends(s)
      <4>1. sh'[s].at \in {"load", "reset"} /\ \A t \in Shell \ {s} : sh'[t] = sh[t]
        BY <2>10, <3>3 DEF AssertSeed, Load, Goto, TypeOK, Tasks
      <4> QED BY <2>1, <3>1, <4>1 DEF ScriptOK
    <3> QED BY <3>2, <3>3
  <2>11. ASSUME NEW profile \in Profile, NEW overlay \in Overlay,
                Edit(profile, overlay)
         PROVE  CalmInv'
    <3>1. sh' = sh /\ (calm' => Quiet)
      BY <2>11 DEF Edit
    <3> QED BY <3>1 DEF Quiet, At, CalmInv, Alone, ScriptInv, ScriptOK
  <2>12. ASSUME UNCHANGED <<files, dotenv, image, sh, calm>>
         PROVE  CalmInv'
    BY <2>12 DEF CalmInv, Alone, ScriptInv, ScriptOK, Exported, Admitted, LocalMode
  <2> QED BY <2>3, <2>4, <2>5, <2>6, <2>7, <2>8, <2>9, <2>10, <2>11, <2>12
          DEF Next, AppServes, AppDies, vars
<1> QED BY <1>1, <1>2, TypeInvariant, PTL DEF Spec
-----------------------------------------------------------------------------
(***************************************************************************)
(* What the app container holds.  A server without mounted files has the   *)
(* settings of its image, one with them those of the files as they were    *)
(* when it was created unless they were edited since; and what an          *)
(* undisturbed script gave it are its profile's settings and image.        *)
(***************************************************************************)
AppOK ==
  /\ app.edits <= edits /\ app.born <= edits
  /\ app.status = "serving" /\ ~app.compose =>
       app.settings = LoadSettings(app.image[app.env.profile], FALSE)
  /\ app.status = "serving" /\ app.compose /\ app.born = edits =>
       app.settings = LoadSettings(files[app.env.profile], TRUE)
  /\ app.calm /\ app.edits = edits => app.image = files
  /\ app.calm => app.env.settings = LoadSettings(app.image[app.env.profile], FALSE)
  /\ app.calm /\ ~app.compose => DeployAllowed(app.env.settings)

AppInv == app.status # "absent" => AppOK

LEMMA AppInvImplies ==
  ASSUME TypeOK, AppInv
  PROVE  DeployIsGuarded /\ ServesTheProfile
<1>1. ASSUME app.status = "serving", app.calm, ~app.compose
      PROVE  DeployAllowed(app.settings)
  BY <1>1 DEF AppInv, AppOK
<1>2. ASSUME app.status = "serving", app.calm, app.edits = edits
      PROVE  \/ app.settings = LoadSettings(files[app.env.profile], app.compose)
             \/ app.compose /\ app.born < edits
  <2>1. app.born \in Nat /\ edits \in Nat /\ app.born <= edits
    BY <1>2, ContainerFields, ConstantsOK DEF TypeOK, AppInv, AppOK
  <2>2. CASE ~app.compose
    <3>1. app.compose = FALSE
      BY <1>2, <2>2, ContainerFields
    <3> QED BY <1>2, <3>1 DEF AppInv, AppOK
  <2>3. CASE app.compose /\ app.born = edits
    <3>1. app.compose = TRUE
      BY <1>2, <2>3, ContainerFields
    <3> QED BY <1>2, <2>3, <3>1 DEF AppInv, AppOK
  <2> QED BY <2>1, <2>2, <2>3
<1> QED BY <1>1, <1>2 DEF DeployIsGuarded, ServesTheProfile

\* compose up: the container's new content comes from .env and the image.
LEMMA ComposeStep ==
  ASSUME TypeOK, AppInv, CalmInv, NEW s \in Shell, Compose(s)
  PROVE  AppInv'
<1> DEFINE same == /\ app.status \in {"starting", "serving"}
                   /\ Wanted(s) = [env |-> app.env, compose |-> app.compose,
                                   image |-> app.image]
<1>1. app' = [status |-> IF same THEN app.status ELSE "starting",
              settings |-> IF same THEN app.settings ELSE None,
              born |-> IF same THEN app.born ELSE edits,
              env |-> dotenv, compose |-> LocalMode(s), image |-> image,
              calm |-> calm, edits |-> edits]
  BY DEF Compose, Wanted
<1>2. same => /\ app.env = dotenv /\ app.compose = LocalMode(s)
              /\ app.image = image /\ AppOK
  BY DEF Wanted, AppInv
<1> HIDE DEF same
<1>3. /\ app'.env = dotenv /\ app'.compose = LocalMode(s) /\ app'.image = image
      /\ app'.calm = calm /\ app'.edits = edits
  BY <1>1
<1>4. UNCHANGED <<files, edits>> /\ edits \in Nat /\ sh[s].at = "compose"
  BY ConstantsOK DEF Compose, At, TypeOK
<1>5. calm => /\ dotenv = Exported(s) /\ sh[s].env = dotenv /\ image = files
              /\ Admitted(s) /\ sh[s].script \in {"deploy", "up"}
  BY <1>4 DEF CalmInv, ScriptInv, ScriptOK
<1>6. /\ app'.edits <= edits'
      /\ app'.calm /\ app'.edits = edits' => app'.image = files'
  BY <1>3, <1>4, <1>5
<1>7. calm => app'.env.settings = LoadSettings(app'.image[app'.env.profile], FALSE)
  <2> DEFINE loaded == LoadSettings(files[sh[s].profile], FALSE)
  <2>1. calm => dotenv = [profile |-> sh[s].profile, settings |-> loaded]
    BY <1>5 DEF Exported
  <2> HIDE DEF loaded
  <2>2. calm => dotenv.profile = sh[s].profile /\ dotenv.settings = loaded
    BY <2>1
  <2>3. calm => /\ app'.env.settings = loaded
                /\ app'.image[app'.env.profile] = files[sh[s].profile]
    BY <1>3, <1>5, <2>2
  <2> QED BY <2>3 DEF loaded
<1>8. calm /\ ~app'.compose => DeployAllowed(app'.env.settings)
  <2>1. calm /\ sh[s].script # "up" => DeployAllowed(dotenv.settings)
    BY <1>5 DEF Admitted
  <2>2. ~app'.compose => sh[s].script # "up"
    BY <1>3 DEF LocalMode
  <2> QED BY <1>3, <2>1, <2>2
<1>9. /\ app'.born <= edits'
      /\ app'.status = "serving" /\ ~app'.compose =>
           app'.settings = LoadSettings(app'.image[app'.env.profile], FALSE)
      /\ app'.status = "serving" /\ app'.compose /\ app'.born = edits' =>
           app'.settings = LoadSettings(files'[app'.env.profile], TRUE)
  <2>1. CASE same
    <3>1. /\ app'.status = app.status /\ app'.settings = app.settings
          /\ app'.born = app.born
      BY <1>1, <2>1
    <3> QED BY <1>2, <1>3, <1>4, <2>1, <3>1 DEF AppOK
  <2>2. CASE ~same
    <3>1. app'.status = "starting" /\ app'.born = edits
      BY <1>1, <2>2
    <3> QED BY <1>4, <3>1
  <2> QED BY <2>1, <2>2
<1> QED BY <1>3, <1>6, <1>7, <1>8, <1>9 DEF AppInv, AppOK

LEMMA AppInvariant == Spec => []AppInv
<1>1. Init => AppInv
  BY DEF Init, AppInv, NoApp
<1>2. TypeInv /\ CalmInv /\ AppInv /\ [Next]_vars => AppInv'
  <2> SUFFICES ASSUME TypeOK, CalmInv, AppInv, [Next]_vars PROVE AppInv'
    BY DEF TypeInv
  <2>1. ASSUME UNCHANGED <<files, app, edits>>
        PROVE  AppInv'
    BY <2>1 DEF AppInv, AppOK
  <2>2. ASSUME NEW s \in Shell, Stop(s)
        PROVE  AppInv'
    <3>1. CASE app = NoApp
      BY <2>1, <2>2, <3>1 DEF Stop
    <3>2. CASE app # NoApp
      <4>1. app \in Containers /\ app.status # "absent"
        BY <3>2 DEF TypeOK, Containers
      <4>2. /\ app'.status = "stopped" /\ UNCHANGED <<files, edits>>
            /\ app'.env = app.env /\ app'.compose = app.compose
            /\ app'.image = app.image /\ app'.calm = app.calm
            /\ app'.edits = app.edits /\ app'.born = app.born
        BY <2>2, <3>2, <4>1 DEF Stop, Containers
      <4> QED BY <4>1, <4>2 DEF AppInv, AppOK
    <3> QED BY <3>1, <3>2
  <2>3. CASE AppServes
    <3> DEFINE settings == ReadBy(app.env, app.compose, app.image)
    <3>1. /\ app \in Containers /\ app.status # "absent" /\ settings # None
          /\ app' = [app EXCEPT !.status = "serving", !.settings = settings]
          /\ UNCHANGED <<files, edits>>
      BY <2>3, ContainerFields DEF AppServes
    <3>2. settings = LoadSettings(IF app.compose THEN files[app.env.profile]
                                  ELSE app.image[app.env.profile], app.compose)
      BY <3>1, ContainerFields, ReadSettings
    <3> HIDE DEF settings
    <3>3. /\ app'.status = "serving" /\ app'.settings = settings
          /\ app'.env = app.env /\ app'.compose = app.compose
          /\ app'.image = app.image /\ app'.calm = app.calm
          /\ app'.edits = app.edits /\ app'.born = app.born
      BY <3>1 DEF Containers
    <3>4. CASE app.compose
      <4>1. app.compose = TRUE
        BY <3>1, <3>4, ContainerFields
      <4> QED BY <3>1, <3>2, <3>3, <4>1 DEF AppInv, AppOK
    <3>5. CASE ~app.compose
      <4>1. app.compose = FALSE
        BY <3>1, <3>5, ContainerFields
      <4> QED BY <3>1, <3>2, <3>3, <4>1 DEF AppInv, AppOK
    <3> QED BY <3>4, <3>5
  <2>4. CASE AppDies
    <3>1. app \in Containers /\ app.status # "absent"
      BY <2>4, ContainerFields DEF AppDies
    <3>2. /\ app'.status = "starting" /\ UNCHANGED <<files, edits>>
          /\ app'.env = app.env /\ app'.compose = app.compose
          /\ app'.image = app.image /\ app'.calm = app.calm
          /\ app'.edits = app.edits /\ app'.born = app.born
      BY <2>4, <3>1 DEF AppDies, Containers
    <3> QED BY <3>1, <3>2 DEF AppInv, AppOK
  <2>5. ASSUME NEW profile \in Profile, NEW overlay \in Overlay,
               Edit(profile, overlay)
        PROVE  AppInv'
    <3>1. edits' = edits + 1 /\ app' = app /\ edits \in Nat
      BY <2>5, ConstantsOK DEF Edit, TypeOK
    <3>2. app.status # "absent" => app.edits \in Nat /\ app.born \in Nat
      BY ContainerFields
    <3>3. app.status # "absent" /\ AppOK => app.edits < edits' /\ app.born < edits'
      BY <3>1, <3>2 DEF AppOK
    <3>4. app.status # "absent" /\ AppOK =>
            /\ app.edits <= edits' /\ app.edits # edits'
            /\ app.born <= edits' /\ app.born # edits'
      BY <3>1, <3>2, <3>3
    <3> QED BY <3>1, <3>4 DEF AppInv, AppOK
  <2> QED BY <2>1, <2>2, <2>3, <2>4, <2>5, ComposeStep
          DEF Next, Run, Truncate, Export, Source, Check, Build, AssertSeed,
              Load, Reset, vars
<1> QED BY <1>1, <1>2, TypeInvariant, CalmInvariant, PTL DEF Spec

\* A server that an undisturbed deploy.sh brought up is not that of a local
\* environment, whatever is edited and run afterwards
\* (container_assert_prod_deploy_allowed against env_file and image).
THEOREM DeploymentsAreGuarded == Spec => []DeployIsGuarded
BY TypeInvariant, AppInvariant, AppInvImplies, PTL DEF TypeInv

\* An undisturbed up.sh or deploy.sh leaves a server with the settings of its
\* profile; only one with mounted files that outlived edits may differ
\* (container_start_or_up).
THEOREM ServersHaveTheirProfile == Spec => []ServesTheProfile
BY TypeInvariant, AppInvariant, AppInvImplies, PTL DEF TypeInv
=============================================================================
