--------------------------- MODULE KeyedExecution ---------------------------
(***************************************************************************)
(* What the Idempotency-Key header promises, with no store, no program     *)
(* counters and no responses: a key is free, claimed by one attempt, or    *)
(* settled by the attempt that claimed it, and between two moments at      *)
(* which the key is forgotten at most one attempt takes effect under it.   *)
(* docs/api.md ("Idempotency", client rules and table) is the text this    *)
(* module writes down; module Idempotency is what the code does.           *)
(***************************************************************************)
CONSTANTS
  Key,      \* scope keys
  Request   \* HTTP attempts, each retry one of its own

VARIABLES
  slot,     \* slot[k]: who holds the key, and whether its answer is final
  effects   \* effects[k]: attempts that took effect since k was last free

vars == <<slot, effects>>

Phase == {"claimed", "settled"}
Free == [phase |-> "free"]
Held(p, r) == [phase |-> p, by |-> r]

TypeOK ==
  /\ slot \in [Key -> {Free} \cup [phase: Phase, by: Request]]
  /\ effects \in [Key -> SUBSET Request]

Init ==
  /\ slot = [k \in Key |-> Free]
  /\ effects = [k \in Key |-> {}]

\* One attempt takes a free key.
Claim(k, r) ==
  /\ slot[k] = Free
  /\ slot' = [slot EXCEPT ![k] = Held("claimed", r)]
  /\ UNCHANGED effects

\* The holder takes effect, once, whether or not its answer is final already.
Apply(k, r) ==
  /\ \E p \in Phase : slot[k] = Held(p, r)
  /\ effects[k] = {}
  /\ effects' = [effects EXCEPT ![k] = {r}]
  /\ UNCHANGED slot

\* The holder's answer becomes the answer of the key.
Settle(k, r) ==
  /\ slot[k] = Held("claimed", r)
  /\ slot' = [slot EXCEPT ![k] = Held("settled", r)]
  /\ UNCHANGED effects

\* A holder that had no effect gives the key back.
Abandon(k, r) ==
  /\ slot[k] = Held("claimed", r)
  /\ effects[k] = {}
  /\ slot' = [slot EXCEPT ![k] = Free]
  /\ UNCHANGED effects

\* The replay window ends.
Forget(k) ==
  /\ slot[k] # Free
  /\ slot' = [slot EXCEPT ![k] = Free]
  /\ effects' = [effects EXCEPT ![k] = {}]

Next ==
  \E k \in Key :
    \/ Forget(k)
    \/ \E r \in Request :
         Claim(k, r) \/ Apply(k, r) \/ Settle(k, r) \/ Abandon(k, r)

Spec == Init /\ [][Next]_vars
=============================================================================
