--------------------------- MODULE MCIdempotency ----------------------------
(* Idempotency on a few attempts, keys and fingerprints. *)
EXTENDS Idempotency, TLC

\* Attempts are interchangeable, and so are keys and fingerprints.
Symmetry == Permutations(Request) \cup Permutations(Key)
              \cup Permutations(Fingerprint)
=============================================================================
