---------------------------- MODULE MCQualityGate ----------------------------
(* Two defects, two faults per run, and a second run on what the first left. *)
EXTENDS QualityGate
=============================================================================
