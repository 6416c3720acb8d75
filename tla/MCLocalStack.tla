---------------------------- MODULE MCLocalStack ----------------------------
(* Two terminals; a fresh clone or a stopped stack with rows. *)
EXTENDS LocalStack
=============================================================================
