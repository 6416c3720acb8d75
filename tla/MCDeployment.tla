---------------------------- MODULE MCDeployment ----------------------------
(* Two shells, two profiles, and files as the templates give or as people  *)
(* leave them.                                                             *)
EXTENDS Deployment

Strong == [secret_key |-> "strong"]

MCOverlay ==
  { \* example.toml, filled in
    [jwt |-> Strong, postgres |-> [url |-> "127.0.0.1", compose_url |-> "postgres"]],
    \* production.example.toml, filled in
    [app_env |-> "production", jwt |-> Strong, postgres |-> [url |-> "managed"]],
    \* the same with the local database left in
    [app_env |-> "production", jwt |-> Strong,
     postgres |-> [url |-> "127.0.0.1", compose_url |-> "postgres"]],
    \* a local profile on a managed database
    [jwt |-> Strong, postgres |-> [url |-> "managed", compose_url |-> "managed"]] }

\* Shells and profile names are only told apart.
Symmetry == Permutations(Shell) \cup Permutations(Profile)
=============================================================================
