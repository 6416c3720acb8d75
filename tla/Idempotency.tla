---------------------------- MODULE Idempotency -----------------------------
(***************************************************************************)
(* The idempotency middleware of the API and everything it touches: the    *)
(* Valkey records behind a scope key, the handler the middleware wraps,    *)
(* the handler's database transaction and the answer the client receives.  *)
(*                                                                         *)
(* One Request is one HTTP attempt; a client that retries sends another    *)
(* attempt with the same key and fingerprint.  Attempts run concurrently   *)
(* and interleave at every call that awaits Valkey or Postgres.            *)
(***************************************************************************)
EXTENDS FiniteSets

CONSTANTS
  Request,     \* HTTP attempts
  Key,         \* scope keys, "idempotency:<user or anon>:<header>"
  Fingerprint, \* hashes of method, path, query and body
  None,        \* no key, no fingerprint, no attempt
  FaultyCalls, \* calls that may raise after they took effect, or before
  OutlivesTtl  \* a handler may run longer than ttl_seconds

Call == {"get", "acquire", "complete", "release", "commit"}

ASSUME ConstantsOK ==
  /\ None \notin Key \cup Fingerprint \cup Request
  /\ FaultyCalls \subseteq Call
  /\ OutlivesTtl \in BOOLEAN

VARIABLES
  pc,       \* where the middleware stands in each attempt
  call,     \* scope key and fingerprint of each attempt
  store,    \* the Valkey records
  tx,       \* the database transaction of each attempt's handler
  result,   \* how each attempt's own handler answered
  answer,   \* what each client received
  effects,  \* history: attempts committed under a key since it was last free
  late      \* the FastAPI installed (pyproject pins no version) ends get_db,
            \* and so commits, after the response has been sent

vars == <<pc, call, store, tx, result, answer, effects, late>>
-----------------------------------------------------------------------------
Step == {"idle", "get", "acquire", "reget", "execute", "commit",
         "complete", "release", "done", "crashed"}
Status == {"ok", "error", "none"}

NoCall == [key |-> None, fp |-> None]
Calls == [key: Key \cup {None}, fp: Fingerprint \cup {None}]

(***************************************************************************)
(* A record.  "by" stands for the stored body of a completed record, which *)
(* is the body the handler of attempt "by" produced; in an in_progress     *)
(* record it is history (the stored JSON has no owner) and no guard of the *)
(* middleware reads it.  "ex" says whether the SET carried an expiry.      *)
(***************************************************************************)
NoRecord == [state |-> "none", fp |-> None, status |-> "none",
             by |-> None, ex |-> FALSE]
Records == [state: {"none", "in_progress", "completed"},
            fp: Fingerprint \cup {None}, status: Status,
            by: Request \cup {None}, ex: BOOLEAN]

AnswerKind == {"none", "response", "invalid", "mismatch", "conflict", "failed"}
Answer(kind, status, by) == [kind |-> kind, status |-> status, by |-> by]
Plain(kind) == Answer(kind, "none", None)
Answers == [kind: AnswerKind, status: Status, by: Request \cup {None}]

TypeOK ==
  /\ pc \in [Request -> Step]
  /\ call \in [Request -> Calls]
  /\ store \in [Key -> Records]
  /\ tx \in [Request -> {"none", "open", "committed", "aborted"}]
  /\ result \in [Request -> Status]
  /\ answer \in [Request -> Answers]
  /\ effects \in [Key -> SUBSET Request]
  /\ late \in BOOLEAN

Init ==
  /\ pc = [r \in Request |-> "idle"]
  /\ call = [r \in Request |-> NoCall]
  /\ store = [k \in Key |-> NoRecord]
  /\ tx = [r \in Request |-> "none"]
  /\ result = [r \in Request |-> "none"]
  /\ answer = [r \in Request |-> Plain("none")]
  /\ effects = [k \in Key |-> {}]
  /\ late \in BOOLEAN
-----------------------------------------------------------------------------
GoTo(r, step) == pc' = [pc EXCEPT ![r] = step]

\* The client receives a; the middleware is finished with r.
Reply(r, a) ==
  /\ GoTo(r, "done")
  /\ answer' = [answer EXCEPT ![r] = a]

Keyed(r) == call[r].key \in Key

\* An attempt that reaches a mutating route: POST, PUT, PATCH or DELETE
\* outside /health and /auth/login.  Other routes bypass the middleware.
Arrive(r) ==
  /\ pc[r] = "idle"
  /\ \E k \in Key, f \in Fingerprint :
       call' = [call EXCEPT ![r] = [key |-> k, fp |-> f]]
  /\ GoTo(r, "get")
  /\ UNCHANGED <<store, tx, result, answer, effects, late>>

\* No header: straight to the handler.
ArriveWithoutKey(r) ==
  /\ pc[r] = "idle"
  /\ \E f \in Fingerprint :
       call' = [call EXCEPT ![r] = [key |-> None, fp |-> f]]
  /\ GoTo(r, "execute")
  /\ UNCHANGED <<store, tx, result, answer, effects, late>>

\* Header present but blank or longer than max_key_length: 422.
ArriveWithInvalidKey(r) ==
  /\ pc[r] = "idle"
  /\ Reply(r, Plain("invalid"))
  /\ UNCHANGED <<call, store, tx, result, effects, late>>

\* The answer to an attempt that found record rec under its key.
Resolution(r, rec) ==
  IF rec.state = "in_progress" THEN Plain("conflict")
  ELSE IF rec.fp # call[r].fp THEN Plain("mismatch")
  ELSE Answer("response", rec.status, rec.by)

ResolveExisting(r) ==
  /\ store[call[r].key].state # "none"
  /\ Reply(r, Resolution(r, store[call[r].key]))

\* First store.get.
Get(r) ==
  /\ pc[r] = "get"
  /\ \/ ResolveExisting(r)
     \/ /\ store[call[r].key].state = "none"
        /\ GoTo(r, "acquire")
        /\ UNCHANGED answer
  /\ UNCHANGED <<call, store, tx, result, effects, late>>

\* Mutant of Claimed: the claim is written without an expiry.
ClaimedForEver(r) == [state |-> "in_progress", fp |-> call[r].fp,
                      status |-> "none", by |-> r, ex |-> FALSE]

\* The record try_acquire writes: SET NX EX.
Claimed(r) == [state |-> "in_progress", fp |-> call[r].fp, status |-> "none",
               by |-> r, ex |-> TRUE]

\* Mutant of TryAcquire: SET without NX.
TryAcquireOverwrites(r) ==
  /\ pc[r] = "acquire"
  /\ store' = [store EXCEPT ![call[r].key] = Claimed(r)]
  /\ GoTo(r, "execute")
  /\ UNCHANGED <<call, tx, result, answer, effects, late>>

TryAcquire(r) ==
  /\ pc[r] = "acquire"
  /\ LET k == call[r].key IN
     \/ /\ store[k].state = "none"
        /\ store' = [store EXCEPT ![k] = Claimed(r)]
        /\ GoTo(r, "execute")
     \/ /\ store[k].state # "none"
        /\ GoTo(r, "reget")
        /\ UNCHANGED store
  /\ UNCHANGED <<call, tx, result, answer, effects, late>>

\* Second store.get, after losing the race for the key; if the winner has
\* released in between, the loser is told to retry all the same.
GetAgain(r) ==
  /\ pc[r] = "reget"
  /\ \/ ResolveExisting(r)
     \/ /\ store[call[r].key].state = "none"
        /\ Reply(r, Plain("conflict"))
  /\ UNCHANGED <<call, store, tx, result, effects, late>>
-----------------------------------------------------------------------------
\* Where the middleware goes once it has read the handler's response.
Responded(r, status) ==
  IF Keyed(r)
  THEN /\ GoTo(r, "complete")
       /\ UNCHANGED answer
  ELSE Reply(r, Answer("response", status, r))

\* The exception leaves call_next: release the key and re-raise.
Raised(r) ==
  IF Keyed(r)
  THEN /\ GoTo(r, "release")
       /\ UNCHANGED answer
  ELSE Reply(r, Plain("failed"))

\* call_next, the handler wrote: its transaction is still open.
HandlerSucceeds(r) ==
  /\ pc[r] = "execute"
  /\ tx' = [tx EXCEPT ![r] = "open"]
  /\ result' = [result EXCEPT ![r] = "ok"]
  /\ IF late
     THEN Responded(r, "ok")
     ELSE GoTo(r, "commit") /\ UNCHANGED answer
  /\ UNCHANGED <<call, store, effects, late>>

\* call_next, a 4xx or 5xx response: a middleware's own, or an exception
\* that an exception handler answers after get_db rolled back.
HandlerRejects(r) ==
  /\ pc[r] = "execute"
  /\ tx' = [tx EXCEPT ![r] = "aborted"]
  /\ result' = [result EXCEPT ![r] = "error"]
  /\ Responded(r, "error")
  /\ UNCHANGED <<call, store, effects, late>>

\* Mutant of HandlerRaises: get_db does not roll back.
HandlerRaisesWithoutRollback(r) ==
  /\ pc[r] = "execute"
  /\ tx' = [tx EXCEPT ![r] = "open"]
  /\ Raised(r)
  /\ UNCHANGED <<call, store, result, effects, late>>

\* call_next, an exception nobody handles, such as a lost Valkey connection.
HandlerRaises(r) ==
  /\ pc[r] = "execute"
  /\ tx' = [tx EXCEPT ![r] = "aborted"]
  /\ Raised(r)
  /\ UNCHANGED <<call, store, result, effects, late>>

Committed(r) ==
  /\ tx' = [tx EXCEPT ![r] = "committed"]
  /\ effects' = IF Keyed(r)
                THEN [effects EXCEPT ![call[r].key] = @ \cup {r}]
                ELSE effects

\* Mutant of Commit: something raises between the commit and the response.
CommitThenRaises(r) ==
  /\ pc[r] = "commit"
  /\ Committed(r)
  /\ Raised(r)
  /\ UNCHANGED <<call, store, result, late>>

\* session.commit() inside get_db, while the middleware still waits.
Commit(r) ==
  /\ pc[r] = "commit"
  /\ Committed(r)
  /\ Responded(r, "ok")
  /\ UNCHANGED <<call, store, result, late>>

\* Mutant of CommitFails: get_db swallows the error after rolling back.
CommitFailsSilently(r) ==
  /\ pc[r] = "commit"
  /\ tx' = [tx EXCEPT ![r] = "aborted"]
  /\ Responded(r, "ok")
  /\ UNCHANGED <<call, store, result, effects, late>>

\* The commit raises and an exception handler answers 500; a connection
\* lost during COMMIT leaves open whether it was applied.
CommitFails(r) ==
  /\ pc[r] = "commit"
  /\ \/ Committed(r)
     \/ tx' = [tx EXCEPT ![r] = "aborted"] /\ UNCHANGED effects
  /\ result' = [result EXCEPT ![r] = "error"]
  /\ Responded(r, "error")
  /\ UNCHANGED <<call, store, late>>

\* The commit raises something no exception handler maps.
CommitRaises(r) ==
  /\ pc[r] = "commit"
  /\ \/ "commit" \in FaultyCalls /\ Committed(r)
     \/ tx' = [tx EXCEPT ![r] = "aborted"] /\ UNCHANGED effects
  /\ result' = [result EXCEPT ![r] = "error"]
  /\ Raised(r)
  /\ UNCHANGED <<call, store, late>>

\* The commit runs once the response is out, beside the middleware; its
\* failure reaches no client.
LateCommit(r) ==
  /\ late
  /\ tx[r] = "open"
  /\ \/ Committed(r)
     \/ tx' = [tx EXCEPT ![r] = "aborted"] /\ UNCHANGED effects
  /\ UNCHANGED <<pc, call, store, result, answer, late>>
-----------------------------------------------------------------------------
\* Mutant of Completed: every stored response is a success.
CompletedAlwaysOk(r) == [state |-> "completed", fp |-> call[r].fp,
                         status |-> "ok", by |-> r, ex |-> TRUE]

\* The record complete writes: an unconditional SET EX.
Completed(r) == [state |-> "completed", fp |-> call[r].fp,
                 status |-> result[r], by |-> r, ex |-> TRUE]

\* Mutant of Complete: release runs in a finally clause.
CompleteThenRelease(r) ==
  /\ pc[r] = "complete"
  /\ store' = [store EXCEPT ![call[r].key] = NoRecord]
  /\ Reply(r, Answer("response", result[r], r))
  /\ UNCHANGED <<call, tx, result, effects, late>>

\* Mutant of Complete: only successes are stored.
CompleteSuccessOnly(r) ==
  /\ pc[r] = "complete"
  /\ store' = IF result[r] = "ok"
              THEN [store EXCEPT ![call[r].key] = Completed(r)] ELSE store
  /\ Reply(r, Answer("response", result[r], r))
  /\ UNCHANGED <<call, tx, result, effects, late>>

Complete(r) ==
  /\ pc[r] = "complete"
  /\ store' = [store EXCEPT ![call[r].key] = Completed(r)]
  /\ Reply(r, Answer("response", result[r], r))
  /\ UNCHANGED <<call, tx, result, effects, late>>

\* An unconditional DEL, then the exception goes on to the client.
Release(r) ==
  /\ pc[r] = "release"
  /\ store' = [store EXCEPT ![call[r].key] = NoRecord]
  /\ Reply(r, Plain("failed"))
  /\ UNCHANGED <<call, tx, result, effects, late>>

\* A store call raises, with or without having reached Valkey.  Outside the
\* try block (get, acquire) and inside release it reaches the client;
\* raised by complete it leads to release.
GetFails(r) ==
  /\ "get" \in FaultyCalls
  /\ pc[r] \in {"get", "reget"}
  /\ Reply(r, Plain("failed"))
  /\ UNCHANGED <<call, store, tx, result, effects, late>>

AcquireFails(r) ==
  /\ "acquire" \in FaultyCalls
  /\ pc[r] = "acquire"
  /\ \/ UNCHANGED store
     \/ /\ store[call[r].key].state = "none"
        /\ store' = [store EXCEPT ![call[r].key] = Claimed(r)]
  /\ Reply(r, Plain("failed"))
  /\ UNCHANGED <<call, tx, result, effects, late>>

CompleteFails(r) ==
  /\ "complete" \in FaultyCalls
  /\ pc[r] = "complete"
  /\ \/ UNCHANGED store
     \/ store' = [store EXCEPT ![call[r].key] = Completed(r)]
  /\ Raised(r)
  /\ UNCHANGED <<call, tx, result, effects, late>>

ReleaseFails(r) ==
  /\ "release" \in FaultyCalls
  /\ pc[r] = "release"
  /\ \/ UNCHANGED store
     \/ store' = [store EXCEPT ![call[r].key] = NoRecord]
  /\ Reply(r, Plain("failed"))
  /\ UNCHANGED <<call, tx, result, effects, late>>
-----------------------------------------------------------------------------
\* The worker dies, or shutdown cancels the task: CancelledError is not an
\* Exception, so nothing is released.  Postgres aborts an open transaction.
Crash(r) ==
  /\ pc[r] \notin {"idle", "crashed"}
  /\ pc[r] = "done" => tx[r] = "open"
  /\ GoTo(r, "crashed")
  /\ tx' = [tx EXCEPT ![r] = IF @ = "open" THEN "aborted" ELSE @]
  /\ UNCHANGED <<call, store, result, answer, effects, late>>

\* The attempt has passed the middleware's claim and is not finished.
Running(r) ==
  \/ pc[r] \in {"execute", "commit", "complete", "release"}
  \/ tx[r] = "open"

Executing(k) == {r \in Request : call[r].key = k /\ Running(r)}

\* ttl_seconds have passed since the record was written.
Expire(k) ==
  /\ store[k].ex
  /\ OutlivesTtl \/ Executing(k) = {}
  /\ store' = [store EXCEPT ![k] = NoRecord]
  /\ effects' = [effects EXCEPT ![k] = {}]
  /\ UNCHANGED <<pc, call, tx, result, answer, late>>

Begin(r) == Get(r) \/ TryAcquire(r) \/ GetAgain(r)

Handle(r) ==
  \/ HandlerSucceeds(r) \/ HandlerRejects(r) \/ HandlerRaises(r)
  \/ Commit(r) \/ CommitFails(r) \/ CommitRaises(r) \/ LateCommit(r)

Finish(r) == Complete(r) \/ Release(r)

StoreFails(r) ==
  GetFails(r) \/ AcquireFails(r) \/ CompleteFails(r) \/ ReleaseFails(r)

Next ==
  \/ \E r \in Request :
       \/ Arrive(r) \/ ArriveWithoutKey(r) \/ ArriveWithInvalidKey(r)
       \/ Begin(r) \/ Handle(r) \/ Finish(r) \/ StoreFails(r)
       \/ Crash(r)
  \/ \E k \in Key : Expire(k)

\* The event loop resumes every attempt it has accepted and Valkey expires
\* what it was told to expire; clients owe nothing.
Fairness ==
  /\ \A r \in Request : WF_vars(Begin(r) \/ Handle(r) \/ Finish(r))
  /\ \A k \in Key : WF_vars(Expire(k))

Spec == Init /\ [][Next]_vars
FairSpec == Spec /\ Fairness
-----------------------------------------------------------------------------

(* What the middleware promises its clients. *)

\* Two attempts with one key never run the handler at the same time, however
\* their get, SET NX and second get interleave (begin_idempotency).
SingleExecutor ==
  \A r1, r2 \in Request :
    Keyed(r1) /\ call[r1].key = call[r2].key /\ Running(r1) /\ Running(r2)
      => r1 = r2

\* Until a key's record expires, at most one of the attempts sent with it
\* commits: a retry never creates a second todo (docs/api.md, client rules).
AtMostOnce ==
  \A k \in Key : \A r1, r2 \in effects[k] : r1 = r2

\* A response, replayed or not, is one the handler produced for the same key,
\* method, path, query and body (_resolve_existing, _replay_response).
ReplayFaithful ==
  \A r \in Request : answer[r].kind = "response" =>
    /\ answer[r].by \in Request
    /\ call[answer[r].by] = call[r]
    /\ answer[r].status = result[answer[r].by]

\* A success a client is told of, in its own response or in a replay, is in
\* the database, whatever fails in between.  A commit that runs after the
\* response can still lose it; then the key stays without any effect as long
\* as that response is on record: no other attempt's commit stands behind it
\* (get_db's commit against complete_idempotency).
SuccessIsDurable ==
  \A r \in Request : answer[r].kind = "response" /\ answer[r].status = "ok" =>
    LET by == answer[r].by
        k == call[r].key
    IN \/ tx[by] = "committed"
       \/ late /\ (Keyed(r) /\ store[k].by = by => effects[k] = {})

\* A key is left in_progress by an attempt that is over only when the worker
\* died or a store call failed: every other path completes or releases it.
OrphanedOnlyByFault ==
  \A k \in Key : store[k].state = "in_progress" /\ ~Running(store[k].by) =>
    \/ pc[store[k].by] = "crashed"
    \/ /\ answer[store[k].by].kind = "failed"
       /\ \/ "acquire" \in FaultyCalls /\ tx[store[k].by] = "none"
          \/ "release" \in FaultyCalls /\ tx[store[k].by] = "aborted"

\* No key stays in_progress for ever: its attempt ends, or the expiry set
\* with the claim frees it after a crash (try_acquire's ex).
KeySettles ==
  \A k \in Key :
    store[k].state = "in_progress" ~> store[k].state # "in_progress"

(* The records implement the promise of KeyedExecution. *)
SlotOf(rec) ==
  IF rec.state = "none" THEN [phase |-> "free"]
  ELSE [phase |-> IF rec.state = "completed" THEN "settled" ELSE "claimed",
        by |-> rec.by]

Promise == INSTANCE KeyedExecution WITH slot <- [k \in Key |-> SlotOf(store[k])]

\* Every step of the middleware is a step of that promise: the unconditional
\* SET of complete and DEL of release only ever touch the caller's own claim.
ImplementsPromise == Promise!Spec
=============================================================================
