------------------------- MODULE IdempotencyProofs --------------------------
(***************************************************************************)
(* Proofs about module Idempotency, for any number of attempts, keys and   *)
(* fingerprints, and for a commit before or after the response.            *)
(* TypeCorrect, ReplayIsFaithful and EarlySuccessesAreCommitted hold       *)
(* whatever fails; the others assume Reliable, the conditions under which  *)
(* the store's unconditional SET and DEL can only meet the caller's own    *)
(* claim.                                                                  *)
(***************************************************************************)
EXTENDS Idempotency, TLAPS

(* Steps that only attempts with a key take. *)
KeyedSteps ==
  \A r \in Request :
    pc[r] \in {"get", "acquire", "reget", "complete", "release"} =>
      call[r].key \in Key

TypeInv == TypeOK /\ KeyedSteps

LEMMA AnswerType ==
  ASSUME NEW kind \in AnswerKind, NEW status \in Status,
         NEW by \in Request \cup {None}
  PROVE  Answer(kind, status, by) \in Answers
BY DEF Answer, Answers

LEMMA PlainType ==
  ASSUME NEW kind \in AnswerKind
  PROVE  Plain(kind) \in Answers
BY AnswerType DEF Plain, Status

LEMMA RecordFields ==
  ASSUME NEW rec \in Records
  PROVE  /\ rec.state \in {"none", "in_progress", "completed"}
         /\ rec.fp \in Fingerprint \cup {None}
         /\ rec.status \in Status
         /\ rec.by \in Request \cup {None}
         /\ rec.ex \in BOOLEAN
BY DEF Records

\* The records the middleware writes.
LEMMA WrittenRecords ==
  ASSUME TypeOK, NEW r \in Request
  PROVE  /\ NoRecord \in Records
         /\ Claimed(r) \in Records
         /\ Completed(r) \in Records
<1>1. call[r].fp \in Fingerprint \cup {None}
  BY DEF TypeOK, Calls
<1>2. result[r] \in Status /\ "none" \in Status
  BY DEF TypeOK, Status
<1> QED BY <1>1, <1>2 DEF NoRecord, Claimed, Completed, Records

LEMMA ResolutionType ==
  ASSUME NEW r \in Request, NEW rec \in Records
  PROVE  Resolution(r, rec) \in Answers
BY AnswerType, PlainType, RecordFields DEF Resolution, AnswerKind

\* What a step does to pc and answer when it is a Reply or a GoTo.
LEMMA ReplyType ==
  ASSUME TypeOK, NEW r \in Request, NEW a \in Answers, Reply(r, a)
  PROVE  pc' \in [Request -> Step] /\ answer' \in [Request -> Answers]
BY DEF Reply, GoTo, TypeOK, Step

LEMMA GoToType ==
  ASSUME TypeOK, NEW r \in Request, NEW step \in Step, GoTo(r, step)
  PROVE  pc' \in [Request -> Step]
BY DEF GoTo, TypeOK

LEMMA RespondedType ==
  ASSUME TypeOK, NEW r \in Request, NEW status \in Status,
         Responded(r, status) \/ Raised(r)
  PROVE  pc' \in [Request -> Step] /\ answer' \in [Request -> Answers]
<1>1. CASE Keyed(r)
  BY <1>1 DEF Responded, Raised, TypeOK, GoTo, Step
<1>2. CASE ~Keyed(r)
  <2>1. PICK a \in Answers : Reply(r, a)
    BY <1>2, AnswerType, PlainType DEF Responded, Raised, AnswerKind
  <2> QED BY <2>1, ReplyType
<1> QED BY <1>1, <1>2

LEMMA CommittedType ==
  ASSUME TypeOK, NEW r \in Request, Committed(r)
  PROVE  /\ tx' \in [Request -> {"none", "open", "committed", "aborted"}]
         /\ effects' \in [Key -> SUBSET Request]
BY DEF Committed, Keyed, TypeOK

LEMMA TypeInvariant == Spec => []TypeInv
<1>1. Init => TypeInv
  <2>1. NoRecord \in Records /\ Plain("none") \in Answers
    BY PlainType DEF NoRecord, Records, Status, AnswerKind
  <2>2. NoCall \in Calls
    BY DEF NoCall, Calls
  <2> QED BY <2>1, <2>2 DEF Init, TypeInv, TypeOK, KeyedSteps, Step, Status
<1>2. TypeInv /\ [Next]_vars => TypeInv'
  <2> SUFFICES ASSUME TypeOK, KeyedSteps, [Next]_vars PROVE TypeOK' /\ KeyedSteps'
    BY DEF TypeInv
  <2>1. ASSUME NEW r \in Request,
               Arrive(r) \/ ArriveWithoutKey(r) \/ ArriveWithInvalidKey(r)
        PROVE  TypeOK' /\ KeyedSteps'
    <3>1. CASE Arrive(r)
      <4>1. PICK k \in Key, f \in Fingerprint :
              call' = [call EXCEPT ![r] = [key |-> k, fp |-> f]]
        BY <3>1 DEF Arrive
      <4>2. [key |-> k, fp |-> f] \in Calls
        BY DEF Calls
      <4>3. pc' \in [Request -> Step]
        BY <3>1, GoToType DEF Arrive, Step
      <4>4. TypeOK'
        BY <3>1, <4>1, <4>2, <4>3 DEF Arrive, TypeOK
      <4>5. KeyedSteps'
        BY <3>1, <4>1 DEF Arrive, GoTo, TypeOK, KeyedSteps
      <4> QED BY <4>4, <4>5
    <3>2. CASE ArriveWithoutKey(r)
      <4>1. PICK f \in Fingerprint :
              call' = [call EXCEPT ![r] = [key |-> None, fp |-> f]]
        BY <3>2 DEF ArriveWithoutKey
      <4>2. [key |-> None, fp |-> f] \in Calls
        BY DEF Calls
      <4>3. pc' \in [Request -> Step]
        BY <3>2, GoToType DEF ArriveWithoutKey, Step
      <4>4. TypeOK'
        BY <3>2, <4>1, <4>2, <4>3 DEF ArriveWithoutKey, TypeOK
      <4>5. KeyedSteps'
        BY <3>2, <4>1 DEF ArriveWithoutKey, GoTo, TypeOK, KeyedSteps
      <4> QED BY <4>4, <4>5
    <3>3. CASE ArriveWithInvalidKey(r)
      <4>1. Plain("invalid") \in Answers
        BY PlainType DEF AnswerKind
      <4>2. TypeOK'
        BY <3>3, <4>1, ReplyType DEF ArriveWithInvalidKey, TypeOK
      <4>3. KeyedSteps'
        BY <3>3 DEF ArriveWithInvalidKey, Reply, GoTo, TypeOK, KeyedSteps
      <4> QED BY <4>2, <4>3
    <3> QED BY <2>1, <3>1, <3>2, <3>3
  <2>2. ASSUME NEW r \in Request, Begin(r)
        PROVE  TypeOK' /\ KeyedSteps'
    <3>1. call[r].key \in Key /\ store[call[r].key] \in Records
      BY <2>2 DEF Begin, Get, TryAcquire, GetAgain, KeyedSteps, TypeOK
    <3>2. ResolveExisting(r) => pc' \in [Request -> Step] /\ answer' \in [Request -> Answers]
      BY <3>1, ResolutionType, ReplyType DEF ResolveExisting
    <3>3. CASE Get(r)
      <4>1. TypeOK'
        BY <3>2, <3>3, GoToType DEF Get, TypeOK, Step
      <4>2. KeyedSteps'
        BY <3>1, <3>3 DEF Get, ResolveExisting, Reply, GoTo, TypeOK, KeyedSteps
      <4> QED BY <4>1, <4>2
    <3>4. CASE TryAcquire(r)
      <4>1. TypeOK'
        BY <3>4, WrittenRecords, GoToType DEF TryAcquire, TypeOK, Step
      <4>2. KeyedSteps'
        BY <3>1, <3>4 DEF TryAcquire, GoTo, TypeOK, KeyedSteps
      <4> QED BY <4>1, <4>2
    <3>5. CASE GetAgain(r)
      <4>1. Plain("conflict") \in Answers
        BY PlainType DEF AnswerKind
      <4>2. TypeOK'
        BY <3>2, <3>5, <4>1, ReplyType DEF GetAgain, TypeOK
      <4>3. KeyedSteps'
        BY <3>5 DEF GetAgain, ResolveExisting, Reply, GoTo, TypeOK, KeyedSteps
      <4> QED BY <4>2, <4>3
    <3> QED BY <2>2, <3>3, <3>4, <3>5 DEF Begin
  <2>3. ASSUME NEW r \in Request, Handle(r)
        PROVE  TypeOK' /\ KeyedSteps'
    <3>1. KeyedSteps'
      BY <2>3 DEF Handle, HandlerSucceeds, HandlerRejects, HandlerRaises,
                  Commit, CommitFails, CommitRaises, LateCommit, Responded,
                  Raised, Reply, GoTo, Keyed, TypeOK, KeyedSteps
    <3>2. "ok" \in Status /\ "error" \in Status
      BY DEF Status
    <3>3. CASE HandlerSucceeds(r)
      BY <3>1, <3>2, <3>3, RespondedType, GoToType DEF HandlerSucceeds, TypeOK, Step
    <3>4. CASE HandlerRejects(r)
      BY <3>1, <3>2, <3>4, RespondedType DEF HandlerRejects, TypeOK
    <3>5. CASE HandlerRaises(r)
      BY <3>1, <3>2, <3>5, RespondedType DEF HandlerRaises, TypeOK
    <3>6. CASE Commit(r)
      BY <3>1, <3>2, <3>6, RespondedType, CommittedType DEF Commit, TypeOK
    <3>7. CASE CommitFails(r)
      BY <3>1, <3>2, <3>7, RespondedType, CommittedType DEF CommitFails, TypeOK
    <3>8. CASE CommitRaises(r)
      BY <3>1, <3>2, <3>8, RespondedType, CommittedType DEF CommitRaises, TypeOK
    <3>9. CASE LateCommit(r)
      BY <3>1, <3>9, CommittedType DEF LateCommit, TypeOK
    <3> QED BY <2>3, <3>3, <3>4, <3>5, <3>6, <3>7, <3>8, <3>9 DEF Handle
  <2>4. ASSUME NEW r \in Request, Finish(r) \/ StoreFails(r)
        PROVE  TypeOK' /\ KeyedSteps'
    <3>1. KeyedSteps'
      BY <2>4 DEF Finish, Complete, Release, StoreFails, GetFails,
                  AcquireFails, CompleteFails, ReleaseFails, Raised, Reply,
                  GoTo, Keyed, TypeOK, KeyedSteps
    <3>2. Plain("failed") \in Answers
      BY PlainType DEF AnswerKind
    <3>3. CASE Complete(r)
      <4>1. Answer("response", result[r], r) \in Answers
        BY AnswerType DEF AnswerKind, TypeOK
      <4> QED BY <3>1, <3>3, <4>1, ReplyType, WrittenRecords DEF Complete, TypeOK
    <3>4. CASE Release(r) \/ ReleaseFails(r)
      BY <3>1, <3>2, <3>4, ReplyType, WrittenRecords DEF Release, ReleaseFails, TypeOK
    <3>5. CASE GetFails(r) \/ AcquireFails(r)
      BY <3>1, <3>2, <3>5, ReplyType, WrittenRecords DEF GetFails, AcquireFails, TypeOK
    <3>6. CASE CompleteFails(r)
      BY <3>1, <3>6, RespondedType, WrittenRecords DEF CompleteFails, TypeOK, Status
    <3> QED BY <2>4, <3>3, <3>4, <3>5, <3>6 DEF Finish, StoreFails
  <2>5. ASSUME NEW r \in Request, Crash(r)
        PROVE  TypeOK' /\ KeyedSteps'
    <3>1. pc' \in [Request -> Step]
      BY <2>5, GoToType DEF Crash, Step
    <3> QED BY <2>5, <3>1 DEF Crash, GoTo, TypeOK, KeyedSteps
  <2>6. ASSUME NEW k \in Key, Expire(k)
        PROVE  TypeOK' /\ KeyedSteps'
    <3>1. NoRecord \in Records
      BY DEF NoRecord, Records, Status
    <3> QED BY <2>6, <3>1 DEF Expire, TypeOK, KeyedSteps
  <2>7. CASE UNCHANGED vars
    BY <2>7 DEF vars, TypeOK, KeyedSteps
  <2> QED BY <2>1, <2>2, <2>3, <2>4, <2>5, <2>6, <2>7 DEF Next
<1> QED BY <1>1, <1>2, PTL DEF Spec

\* Every variable keeps its type, whatever fails (TypeOK).
THEOREM TypeCorrect == Spec => []TypeOK
BY TypeInvariant, PTL DEF TypeInv
-----------------------------------------------------------------------------
(***************************************************************************)
(* ReplayFaithful.  The strengthening follows a response from the handler  *)
(* that produced it into the record and from the record to every client it *)
(* is replayed to; an attempt whose response is stored never runs again.   *)
(***************************************************************************)
Past(e) == pc[e] \in {"release", "done", "crashed"}

\* Attempt e produced a response with this status for request c.
Produced(e, c, status) ==
  e \in Request /\ Past(e) /\ call[e] = c /\ result[e] = status

StoredInv ==
  \A k \in Key : store[k].state = "completed" =>
    Produced(store[k].by, [key |-> k, fp |-> store[k].fp], store[k].status)

AnsweredInv ==
  \A r \in Request : answer[r].kind = "response" =>
    pc[r] # "idle" /\ Produced(answer[r].by, call[r], answer[r].status)

CommitInv == \A r \in Request : pc[r] = "commit" => result[r] = "ok"

ReplayInv == StoredInv /\ AnsweredInv /\ CommitInv

LEMMA ReplayInvImplies == ReplayInv => ReplayFaithful
BY DEF ReplayInv, AnsweredInv, Produced, ReplayFaithful

\* No step undoes a production.
LEMMA ProductionsStay ==
  ASSUME TypeInv, [Next]_vars, NEW e, NEW c, NEW status,
         Produced(e, c, status)
  PROVE  Produced(e, c, status)'
<1>1. e \in Request /\ Past(e) /\ call[e] = c /\ result[e] = status
  BY DEF Produced
<1>2. Past(e)' /\ call'[e] = call[e] /\ result'[e] = result[e]
  <2> USE <1>1 DEF TypeInv, TypeOK, Past, GoTo, Reply
  <2>1. ASSUME NEW r \in Request,
               Arrive(r) \/ ArriveWithoutKey(r) \/ ArriveWithInvalidKey(r)
        PROVE  Past(e)' /\ call'[e] = call[e] /\ result'[e] = result[e]
    BY <2>1 DEF Arrive, ArriveWithoutKey, ArriveWithInvalidKey
  <2>2. ASSUME NEW r \in Request, Begin(r)
        PROVE  Past(e)' /\ call'[e] = call[e] /\ result'[e] = result[e]
    BY <2>2 DEF Begin, Get, TryAcquire, GetAgain, ResolveExisting
  <2>3. ASSUME NEW r \in Request, Handle(r)
        PROVE  Past(e)' /\ call'[e] = call[e] /\ result'[e] = result[e]
    BY <2>3 DEF Handle, HandlerSucceeds, HandlerRejects, HandlerRaises,
                Commit, CommitFails, CommitRaises, LateCommit, Responded, Raised
  <2>4. ASSUME NEW r \in Request, Finish(r) \/ StoreFails(r)
        PROVE  Past(e)' /\ call'[e] = call[e] /\ result'[e] = result[e]
    BY <2>4 DEF Finish, Complete, Release, StoreFails, GetFails, AcquireFails,
                CompleteFails, ReleaseFails, Raised
  <2>5. ASSUME NEW r \in Request, Crash(r)
        PROVE  Past(e)' /\ call'[e] = call[e] /\ result'[e] = result[e]
    BY <2>5 DEF Crash
  <2>6. ASSUME NEW k \in Key, Expire(k)
        PROVE  Past(e)' /\ call'[e] = call[e] /\ result'[e] = result[e]
    BY <2>6 DEF Expire
  <2>7. CASE UNCHANGED vars
    BY <2>7 DEF vars
  <2> QED BY <2>1, <2>2, <2>3, <2>4, <2>5, <2>6, <2>7 DEF Next
<1> QED BY <1>1, <1>2 DEF Produced

\* Complete is the only call that writes a completed record.
LEMMA NewlyStored ==
  ASSUME TypeInv, [Next]_vars, NEW k \in Key, store'[k] # store[k],
         store'[k].state = "completed"
  PROVE  \E r \in Request :
           /\ pc[r] = "complete" /\ call[r].key = k
           /\ Complete(r) \/ CompleteFails(r)
<1> USE DEF TypeInv, TypeOK, NoRecord
<1>1. ASSUME NEW r \in Request,
             Arrive(r) \/ ArriveWithoutKey(r) \/ ArriveWithInvalidKey(r)
             \/ Handle(r) \/ Crash(r)
      PROVE  FALSE
  BY <1>1 DEF Arrive, ArriveWithoutKey, ArriveWithInvalidKey, Handle,
              HandlerSucceeds, HandlerRejects, HandlerRaises, Commit,
              CommitFails, CommitRaises, LateCommit, Crash
<1>2. ASSUME NEW r \in Request, Begin(r)
      PROVE  FALSE
  BY <1>2 DEF Begin, Get, TryAcquire, GetAgain, Claimed
<1>3. ASSUME NEW r \in Request, Finish(r) \/ StoreFails(r)
      PROVE  /\ pc[r] = "complete" /\ call[r].key = k
             /\ Complete(r) \/ CompleteFails(r)
  BY <1>3 DEF Finish, Complete, Release, StoreFails, GetFails,
              AcquireFails, CompleteFails, ReleaseFails, Claimed
<1>4. ASSUME NEW k2 \in Key, Expire(k2)
      PROVE  FALSE
  BY <1>4 DEF Expire
<1>5. ~UNCHANGED vars
  BY DEF vars
<1> QED BY <1>1, <1>2, <1>3, <1>4, <1>5 DEF Next

LEMMA StoredStep == TypeInv /\ StoredInv /\ [Next]_vars => StoredInv'
<1> SUFFICES ASSUME TypeInv, StoredInv, [Next]_vars, NEW k \in Key,
                    store'[k].state = "completed"
             PROVE  Produced(store[k].by, [key |-> k, fp |-> store[k].fp],
                             store[k].status)'
  BY DEF StoredInv
<1>1. CASE store'[k] = store[k]
  BY <1>1, ProductionsStay DEF StoredInv
<1>2. CASE store'[k] # store[k]
  <2>1. PICK r \in Request : /\ pc[r] = "complete" /\ call[r].key = k
                             /\ Complete(r) \/ CompleteFails(r)
    BY <1>2, NewlyStored
  <2>2. store'[k] = Completed(r)
    BY <1>2, <2>1 DEF Complete, CompleteFails, TypeInv, TypeOK
  <2>3. call'[r] = call[r] /\ result'[r] = result[r] /\ Past(r)'
    BY <2>1 DEF Complete, CompleteFails, Raised, Reply, GoTo, Past, TypeInv, TypeOK
  <2>4. call[r] = [key |-> k, fp |-> call[r].fp]
    BY <2>1 DEF TypeInv, TypeOK, Calls
  <2> QED BY <2>2, <2>3, <2>4 DEF Completed, Produced
<1> QED BY <1>1, <1>2

\* A client that gets a response gets its own or the stored one.
LEMMA AnswerOrigin ==
  ASSUME TypeInv, ReplayInv, [Next]_vars, NEW r \in Request,
         answer'[r] # answer[r], answer'[r].kind = "response"
  PROVE  /\ pc'[r] # "idle" /\ call'[r] = call[r]
         /\ Produced(answer[r].by, call[r], answer[r].status)'
<1> USE DEF TypeInv, TypeOK, GoTo, Reply
<1>1. ASSUME NEW q \in Request,
             Arrive(q) \/ ArriveWithoutKey(q) \/ ArriveWithInvalidKey(q)
             \/ Crash(q) \/ StoreFails(q)
      PROVE  FALSE
  BY <1>1 DEF Arrive, ArriveWithoutKey, ArriveWithInvalidKey, Crash,
              StoreFails, GetFails, AcquireFails, CompleteFails, ReleaseFails,
              Raised, Plain, Answer
<1>2. ASSUME NEW q \in Request, Begin(q)
      PROVE  /\ pc'[r] # "idle" /\ call'[r] = call[r]
             /\ Produced(answer[r].by, call[r], answer[r].status)'
  <2>1. q = r /\ ResolveExisting(r) /\ call' = call /\ store' = store
        /\ pc[r] \in {"get", "reget"}
    BY <1>2 DEF Begin, Get, TryAcquire, GetAgain, ResolveExisting, Plain, Answer
  <2> DEFINE k == call[r].key
  <2>2. k \in Key /\ call[r] = [key |-> k, fp |-> call[r].fp]
    BY <2>1 DEF KeyedSteps, Calls
  <2>3. answer'[r] = Resolution(r, store[k]) /\ pc'[r] = "done"
    BY <2>1 DEF ResolveExisting
  <2>4. /\ store[k].state = "completed" /\ store[k].fp = call[r].fp
        /\ answer'[r].by = store[k].by /\ answer'[r].status = store[k].status
    BY <2>1, <2>2, <2>3, RecordFields DEF Resolution, ResolveExisting, Plain, Answer
  <2>5. Produced(store[k].by, call[r], store[k].status)
    BY <2>2, <2>4 DEF ReplayInv, StoredInv
  <2>6. ASSUME NEW e, NEW c, NEW status, Produced(e, c, status)
        PROVE  Produced(e, c, status)'
    BY <2>6, ProductionsStay
  <2> QED BY <2>1, <2>3, <2>4, <2>5, <2>6
<1>3. ASSUME NEW q \in Request, Handle(q)
      PROVE  /\ pc'[r] # "idle" /\ call'[r] = call[r]
             /\ Produced(answer[r].by, call[r], answer[r].status)'
  <2>1. q = r /\ pc'[r] = "done" /\ call' = call
        /\ answer'[r].by = r /\ answer'[r].status = result'[r]
    BY <1>3 DEF Handle, HandlerSucceeds, HandlerRejects, HandlerRaises, Commit,
                CommitFails, CommitRaises, LateCommit, Responded, Raised,
                Plain, Answer, ReplayInv, CommitInv
  <2> QED BY <2>1 DEF Produced, Past
<1>4. ASSUME NEW q \in Request, Finish(q)
      PROVE  /\ pc'[r] # "idle" /\ call'[r] = call[r]
             /\ Produced(answer[r].by, call[r], answer[r].status)'
  <2>1. q = r /\ pc'[r] = "done" /\ call' = call /\ result' = result
        /\ answer'[r].by = r /\ answer'[r].status = result[r]
    BY <1>4 DEF Finish, Complete, Release, Plain, Answer
  <2> QED BY <2>1 DEF Produced, Past
<1>5. ASSUME NEW k \in Key, Expire(k)
      PROVE  FALSE
  BY <1>5 DEF Expire
<1>6. ~UNCHANGED vars
  BY DEF vars
<1> QED BY <1>1, <1>2, <1>3, <1>4, <1>5, <1>6 DEF Next

\* A client whose answer stands keeps its call.
LEMMA AnswerStays ==
  ASSUME TypeInv, AnsweredInv, [Next]_vars, NEW r \in Request,
         answer'[r] = answer[r], answer[r].kind = "response"
  PROVE  /\ pc'[r] # "idle" /\ call'[r] = call[r]
         /\ Produced(answer[r].by, call[r], answer[r].status)'
<1>1. pc[r] # "idle" /\ Produced(answer[r].by, call[r], answer[r].status)
  BY DEF AnsweredInv
<1>2. pc'[r] # "idle" /\ call'[r] = call[r]
  <2> USE <1>1 DEF TypeInv, TypeOK, GoTo, Reply
  <2>1. ASSUME NEW q \in Request,
               Arrive(q) \/ ArriveWithoutKey(q) \/ ArriveWithInvalidKey(q)
        PROVE  pc'[r] # "idle" /\ call'[r] = call[r]
    BY <2>1 DEF Arrive, ArriveWithoutKey, ArriveWithInvalidKey
  <2>2. ASSUME NEW q \in Request, Begin(q) \/ Crash(q)
        PROVE  pc'[r] # "idle" /\ call'[r] = call[r]
    BY <2>2 DEF Begin, Get, TryAcquire, GetAgain, ResolveExisting, Crash
  <2>3. ASSUME NEW q \in Request, Handle(q)
        PROVE  pc'[r] # "idle" /\ call'[r] = call[r]
    BY <2>3 DEF Handle, HandlerSucceeds, HandlerRejects, HandlerRaises,
                Commit, CommitFails, CommitRaises, LateCommit, Responded, Raised
  <2>4. ASSUME NEW q \in Request, Finish(q) \/ StoreFails(q)
        PROVE  pc'[r] # "idle" /\ call'[r] = call[r]
    BY <2>4 DEF Finish, Complete, Release, StoreFails, GetFails, AcquireFails,
                CompleteFails, ReleaseFails, Raised
  <2>5. ASSUME NEW k \in Key, Expire(k)
        PROVE  pc'[r] # "idle" /\ call'[r] = call[r]
    BY <2>5 DEF Expire
  <2>6. CASE UNCHANGED vars
    BY <2>6 DEF vars
  <2> QED BY <2>1, <2>2, <2>3, <2>4, <2>5, <2>6 DEF Next
<1>3. Produced(answer[r].by, call[r], answer[r].status)'
  BY <1>1, <1>2, ProductionsStay
<1> QED BY <1>2, <1>3

LEMMA CommitStep == TypeInv /\ CommitInv /\ [Next]_vars => CommitInv'
<1> SUFFICES ASSUME TypeOK, CommitInv, [Next]_vars PROVE CommitInv'
  BY DEF TypeInv
<1> USE DEF CommitInv, TypeOK, GoTo, Reply
<1>1. ASSUME NEW r \in Request,
             Arrive(r) \/ ArriveWithoutKey(r) \/ ArriveWithInvalidKey(r)
             \/ Begin(r) \/ Crash(r)
      PROVE  CommitInv'
  BY <1>1 DEF Arrive, ArriveWithoutKey, ArriveWithInvalidKey, Begin, Get,
              TryAcquire, GetAgain, ResolveExisting, Crash
<1>2. ASSUME NEW r \in Request, Handle(r)
      PROVE  CommitInv'
  BY <1>2 DEF Handle, HandlerSucceeds, HandlerRejects, HandlerRaises, Commit,
              CommitFails, CommitRaises, LateCommit, Responded, Raised
<1>3. ASSUME NEW r \in Request, Finish(r) \/ StoreFails(r)
      PROVE  CommitInv'
  BY <1>3 DEF Finish, Complete, Release, StoreFails, GetFails, AcquireFails,
              CompleteFails, ReleaseFails, Raised
<1>4. ASSUME NEW k \in Key, Expire(k)
      PROVE  CommitInv'
  BY <1>4 DEF Expire
<1>5. CASE UNCHANGED vars
  BY <1>5 DEF vars
<1> QED BY <1>1, <1>2, <1>3, <1>4, <1>5 DEF Next

LEMMA ReplayInvariant == Spec => []ReplayInv
<1>1. Init => ReplayInv
  BY DEF Init, ReplayInv, StoredInv, AnsweredInv, CommitInv, NoRecord, Plain, Answer
<1>2. TypeInv /\ ReplayInv /\ [Next]_vars => ReplayInv'
  <2> SUFFICES ASSUME TypeInv, ReplayInv, [Next]_vars PROVE ReplayInv'
    OBVIOUS
  <2>1. StoredInv' /\ CommitInv'
    BY StoredStep, CommitStep DEF ReplayInv
  <2>2. ASSUME NEW r \in Request, answer'[r].kind = "response"
        PROVE  pc'[r] # "idle" /\ Produced(answer[r].by, call[r], answer[r].status)'
    BY <2>2, AnswerOrigin, AnswerStays DEF ReplayInv
  <2> QED BY <2>1, <2>2 DEF ReplayInv, AnsweredInv
<1> QED BY <1>1, <1>2, TypeInvariant, PTL DEF Spec

\* A replay is the response of an attempt with the same key and the same
\* request, whatever calls fail and however long handlers run.
THEOREM ReplayIsFaithful == Spec => []ReplayFaithful
BY ReplayInvariant, ReplayInvImplies, PTL
-----------------------------------------------------------------------------
(***************************************************************************)
(* SingleExecutor, AtMostOnce and the refinement.  An attempt that runs    *)
(* under a key is the one its record names, so the unconditional SET and   *)
(* DEL of complete and release hit its own claim; every commit under a     *)
(* key is by the attempt its record names, so there is one at most.        *)
(***************************************************************************)
Reliable == ~OutlivesTtl /\ "complete" \notin FaultyCalls
            /\ "commit" \notin FaultyCalls

TxInv ==
  \A r \in Request :
    /\ pc[r] \in {"idle", "get", "acquire", "reget", "execute"} => tx[r] = "none"
    /\ pc[r] = "commit" => tx[r] = "open" /\ ~late
    /\ pc[r] = "release" => tx[r] = "aborted"
    /\ pc[r] = "crashed" => tx[r] # "open"

OwnerInv ==
  \A r \in Request : Keyed(r) /\ Running(r) =>
    /\ store[call[r].key].state # "none"
    /\ store[call[r].key].by = r
    /\ pc[r] # "done" => store[call[r].key].state = "in_progress"

EffectInv ==
  \A k \in Key : \A r \in effects[k] :
    store[k].state # "none" /\ store[k].by = r /\ tx[r] = "committed"

ClaimInv == TxInv /\ OwnerInv /\ EffectInv

LEMMA ClaimInvImplies == ClaimInv => SingleExecutor /\ AtMostOnce
BY DEF ClaimInv, OwnerInv, EffectInv, SingleExecutor, AtMostOnce, Keyed

LEMMA TxStep ==
  ASSUME Reliable
  PROVE  TypeInv /\ TxInv /\ [Next]_vars => TxInv'
<1> SUFFICES ASSUME TypeOK, TxInv, [Next]_vars PROVE TxInv'
  BY DEF TypeInv
<1> USE DEF TxInv, TypeOK, GoTo, Reply
<1>1. ASSUME NEW r \in Request,
             Arrive(r) \/ ArriveWithoutKey(r) \/ ArriveWithInvalidKey(r)
             \/ Begin(r) \/ Crash(r)
      PROVE  TxInv'
  BY <1>1 DEF Arrive, ArriveWithoutKey, ArriveWithInvalidKey, Begin, Get,
              TryAcquire, GetAgain, ResolveExisting, Crash
<1>2. ASSUME NEW r \in Request, Handle(r)
      PROVE  TxInv'
  BY <1>2 DEF Handle, HandlerSucceeds, HandlerRejects, HandlerRaises, Commit,
              CommitFails, CommitRaises, LateCommit, Responded, Raised,
              Committed, Reliable
<1>3. ASSUME NEW r \in Request, Finish(r) \/ StoreFails(r)
      PROVE  TxInv'
  BY <1>3 DEF Finish, Complete, Release, StoreFails, GetFails, AcquireFails,
              CompleteFails, ReleaseFails, Reliable
<1>4. ASSUME NEW k \in Key, Expire(k)
      PROVE  TxInv'
  BY <1>4 DEF Expire
<1>5. CASE UNCHANGED vars
  BY <1>5 DEF vars
<1> QED BY <1>1, <1>2, <1>3, <1>4, <1>5 DEF Next

\* The attempt that runs under a key, and so is named by its record, is the
\* only one whose store call or commit can change that record's key.
LEMMA OwnerStep ==
  ASSUME Reliable
  PROVE  TypeInv /\ TxInv /\ OwnerInv /\ [Next]_vars => OwnerInv'
<1> SUFFICES ASSUME TypeInv, TxInv, OwnerInv, [Next]_vars PROVE OwnerInv'
  OBVIOUS
<1> USE DEF OwnerInv, TypeInv, TypeOK, GoTo, Reply, Keyed, Running
<1>1. ASSUME NEW r \in Request,
             Arrive(r) \/ ArriveWithoutKey(r) \/ ArriveWithInvalidKey(r)
      PROVE  OwnerInv'
  BY <1>1, ConstantsOK DEF Arrive, ArriveWithoutKey, ArriveWithInvalidKey, TxInv
<1>2. ASSUME NEW r \in Request, Begin(r)
      PROVE  OwnerInv'
  <2>1. CASE Get(r) \/ GetAgain(r)
    BY <2>1 DEF Get, GetAgain, ResolveExisting, TxInv
  <2>2. CASE TryAcquire(r)
    BY <2>2 DEF TryAcquire, Claimed, TxInv, KeyedSteps
  <2> QED BY <1>2, <2>1, <2>2 DEF Begin
<1>3. ASSUME NEW r \in Request, Handle(r)
      PROVE  OwnerInv'
  BY <1>3 DEF Handle, HandlerSucceeds, HandlerRejects, HandlerRaises, Commit,
              CommitFails, CommitRaises, LateCommit, Responded, Raised,
              Committed, TxInv
<1>4. ASSUME NEW r \in Request, Finish(r) \/ StoreFails(r)
      PROVE  OwnerInv'
  <2>1. CASE Complete(r)
    BY <2>1 DEF Complete, Completed, KeyedSteps
  <2>2. CASE Release(r) \/ ReleaseFails(r)
    BY <2>2 DEF Release, ReleaseFails, KeyedSteps, TxInv
  <2>3. CASE GetFails(r) \/ AcquireFails(r)
    BY <2>3 DEF GetFails, AcquireFails, Claimed, TxInv, KeyedSteps
  <2>4. ~CompleteFails(r)
    BY DEF CompleteFails, Reliable
  <2> QED BY <1>4, <2>1, <2>2, <2>3, <2>4 DEF Finish, StoreFails
<1>5. ASSUME NEW r \in Request, Crash(r)
      PROVE  OwnerInv'
  BY <1>5 DEF Crash
<1>6. ASSUME NEW k \in Key, Expire(k)
      PROVE  OwnerInv'
  BY <1>6 DEF Expire, Executing, Reliable
<1>7. CASE UNCHANGED vars
  BY <1>7 DEF vars
<1> QED BY <1>1, <1>2, <1>3, <1>4, <1>5, <1>6, <1>7 DEF Next

\* Every commit under a key is its record's attempt's own.
LEMMA EffectStep ==
  ASSUME Reliable
  PROVE  TypeInv /\ ClaimInv /\ [Next]_vars => EffectInv'
<1> SUFFICES ASSUME TypeInv, TxInv, OwnerInv, EffectInv, [Next]_vars
             PROVE  EffectInv'
  BY DEF ClaimInv
<1> USE DEF EffectInv, TypeInv, TypeOK, GoTo, Reply, Keyed
<1>1. ASSUME NEW r \in Request,
             Arrive(r) \/ ArriveWithoutKey(r) \/ ArriveWithInvalidKey(r)
      PROVE  EffectInv'
  BY <1>1 DEF Arrive, ArriveWithoutKey, ArriveWithInvalidKey
<1>2. ASSUME NEW r \in Request, Begin(r)
      PROVE  EffectInv'
  BY <1>2 DEF Begin, Get, TryAcquire, GetAgain, ResolveExisting, Claimed
<1>3. ASSUME NEW r \in Request, Handle(r)
      PROVE  EffectInv'
  <2>1. CASE Commit(r) \/ CommitFails(r) \/ CommitRaises(r) \/ LateCommit(r)
    BY <1>3, <2>1 DEF Commit, CommitFails, CommitRaises, LateCommit, Responded,
         Raised, Committed, Running, TxInv, OwnerInv
  <2>2. CASE HandlerSucceeds(r) \/ HandlerRejects(r) \/ HandlerRaises(r)
    BY <2>2 DEF HandlerSucceeds, HandlerRejects, HandlerRaises, Responded,
         Raised, TxInv
  <2> QED BY <1>3, <2>1, <2>2 DEF Handle
<1>4. ASSUME NEW r \in Request, Finish(r) \/ StoreFails(r)
      PROVE  EffectInv'
  <2>1. CASE Complete(r)
    BY <2>1 DEF Complete, Completed, OwnerInv, Running, KeyedSteps
  <2>2. CASE Release(r) \/ ReleaseFails(r)
    BY <2>2 DEF Release, ReleaseFails, OwnerInv, Running, KeyedSteps, TxInv
  <2>3. CASE GetFails(r) \/ AcquireFails(r)
    BY <2>3 DEF GetFails, AcquireFails, Claimed, KeyedSteps
  <2>4. ~CompleteFails(r)
    BY DEF CompleteFails, Reliable
  <2> QED BY <1>4, <2>1, <2>2, <2>3, <2>4 DEF Finish, StoreFails
<1>5. ASSUME NEW r \in Request, Crash(r)
      PROVE  EffectInv'
  BY <1>5 DEF Crash
<1>6. ASSUME NEW k \in Key, Expire(k)
      PROVE  EffectInv'
  BY <1>6 DEF Expire
<1>7. CASE UNCHANGED vars
  BY <1>7 DEF vars
<1> QED BY <1>1, <1>2, <1>3, <1>4, <1>5, <1>6, <1>7 DEF Next

LEMMA ClaimInvariant ==
  ASSUME Reliable
  PROVE  Spec => []ClaimInv
<1>1. Init => ClaimInv
  BY DEF Init, ClaimInv, TxInv, OwnerInv, EffectInv, Running
<1>2. TypeInv /\ ClaimInv /\ [Next]_vars => ClaimInv'
  BY TxStep, OwnerStep, EffectStep DEF ClaimInv
<1> QED BY <1>1, <1>2, TypeInvariant, PTL DEF Spec

\* One attempt at a time runs under a key, as long as a record outlives the
\* handler it stands for and complete and the commit do not raise.
THEOREM OneExecutor ==
  ASSUME Reliable
  PROVE  Spec => []SingleExecutor
BY ClaimInvariant, ClaimInvImplies, PTL

\* Under the same conditions at most one attempt commits under a key until
\* its record expires, whether get_db commits before or after the response.
THEOREM OneEffect ==
  ASSUME Reliable
  PROVE  Spec => []AtMostOnce
BY ClaimInvariant, ClaimInvImplies, PTL
-----------------------------------------------------------------------------
(***************************************************************************)
(* SuccessIsDurable.  When get_db commits before the response, a handler   *)
(* reaches complete with a success only through Commit, and a commit is    *)
(* never undone: the record, the replay and the answer all name an attempt *)
(* whose transaction is committed.  No assumption on what fails is needed. *)
(* When it commits after the response, a success that is lost is the only  *)
(* one its key can have had, since every effect is its record's attempt's. *)
(***************************************************************************)
Early == {"idle", "get", "acquire", "reget", "execute", "commit"}

CommittedInv ==
  \A r \in Request :
    /\ pc[r] \in Early => tx[r] # "committed"
    /\ pc[r] = "complete" /\ result[r] = "ok" => tx[r] = "committed"

StoredDurable ==
  \A k \in Key : store[k].state = "completed" /\ store[k].status = "ok" =>
    tx[store[k].by] = "committed"

\* Every success a client was told of is committed.
AnsweredDurable ==
  \A r \in Request : answer[r].kind = "response" /\ answer[r].status = "ok" =>
    tx[answer[r].by] = "committed"

DurableInv == CommittedInv /\ StoredDurable /\ AnsweredDurable

\* The installed version does not change under a running server.
LEMMA OrderStays == [Next]_vars => late' = late
BY DEF Next, vars, Arrive, ArriveWithoutKey, ArriveWithInvalidKey, Begin, Get,
       TryAcquire, GetAgain, Handle, HandlerSucceeds, HandlerRejects,
       HandlerRaises, Commit, CommitFails, CommitRaises, LateCommit, Finish,
       Complete, Release, StoreFails, GetFails, AcquireFails, CompleteFails,
       ReleaseFails, Crash, Expire

LEMMA CommittedStep ==
  ASSUME ~late
  PROVE  TypeInv /\ CommitInv /\ CommittedInv /\ [Next]_vars => CommittedInv'
<1> SUFFICES ASSUME TypeOK, CommitInv, CommittedInv, [Next]_vars
             PROVE  CommittedInv'
  BY DEF TypeInv
<1> USE DEF CommittedInv, Early, TypeOK, GoTo, Reply
<1>1. ASSUME NEW r \in Request,
             Arrive(r) \/ ArriveWithoutKey(r) \/ ArriveWithInvalidKey(r)
             \/ Begin(r) \/ Crash(r)
      PROVE  CommittedInv'
  BY <1>1 DEF Arrive, ArriveWithoutKey, ArriveWithInvalidKey, Begin, Get,
              TryAcquire, GetAgain, ResolveExisting, Crash
<1>2. ASSUME NEW r \in Request, Handle(r)
      PROVE  CommittedInv'
  <2>1. CASE HandlerSucceeds(r) \/ HandlerRejects(r) \/ HandlerRaises(r)
    BY <2>1 DEF HandlerSucceeds, HandlerRejects, HandlerRaises, Responded, Raised
  <2>2. CASE Commit(r) \/ CommitFails(r) \/ CommitRaises(r)
    BY <2>2 DEF Commit, CommitFails, CommitRaises, Responded, Raised, Committed
  <2>3. ~LateCommit(r)
    BY DEF LateCommit
  <2> QED BY <1>2, <2>1, <2>2, <2>3 DEF Handle
<1>3. ASSUME NEW r \in Request, Finish(r) \/ StoreFails(r)
      PROVE  CommittedInv'
  BY <1>3 DEF Finish, Complete, Release, StoreFails, GetFails, AcquireFails,
              CompleteFails, ReleaseFails, Raised
<1>4. ASSUME NEW k \in Key, Expire(k)
      PROVE  CommittedInv'
  BY <1>4 DEF Expire
<1>5. CASE UNCHANGED vars
  BY <1>5 DEF vars
<1> QED BY <1>1, <1>2, <1>3, <1>4, <1>5 DEF Next

\* No step takes a commit back.
LEMMA CommitsStay ==
  ASSUME ~late, TypeInv, CommittedInv, [Next]_vars,
         NEW e \in Request, tx[e] = "committed"
  PROVE  tx'[e] = "committed"
<1> USE DEF CommittedInv, Early, TypeInv, TypeOK
<1>1. ASSUME NEW r \in Request,
             Arrive(r) \/ ArriveWithoutKey(r) \/ ArriveWithInvalidKey(r)
             \/ Begin(r) \/ Finish(r) \/ StoreFails(r) \/ Crash(r)
      PROVE  tx'[e] = "committed"
  BY <1>1 DEF Arrive, ArriveWithoutKey, ArriveWithInvalidKey, Begin, Get,
              TryAcquire, GetAgain, Finish, Complete, Release, StoreFails,
              GetFails, AcquireFails, CompleteFails, ReleaseFails, Crash
<1>2. ASSUME NEW r \in Request, Handle(r)
      PROVE  tx'[e] = "committed"
  BY <1>2 DEF Handle, HandlerSucceeds, HandlerRejects, HandlerRaises, Commit,
              CommitFails, CommitRaises, LateCommit, Committed
<1>3. ASSUME NEW k \in Key, Expire(k)
      PROVE  tx'[e] = "committed"
  BY <1>3 DEF Expire
<1>4. CASE UNCHANGED vars
  BY <1>4 DEF vars
<1> QED BY <1>1, <1>2, <1>3, <1>4 DEF Next

\* What complete stores is the response of a handler that has committed.
LEMMA StoredDurableStep ==
  ASSUME ~late
  PROVE  TypeInv /\ ReplayInv /\ DurableInv /\ [Next]_vars => StoredDurable'
<1> SUFFICES ASSUME TypeInv, ReplayInv, DurableInv, [Next]_vars, NEW k \in Key,
                    store'[k].state = "completed", store'[k].status = "ok"
             PROVE  tx'[store'[k].by] = "committed"
  BY DEF StoredDurable
<1>1. CASE store'[k] = store[k]
  <2>1. store[k].by \in Request /\ tx[store[k].by] = "committed"
    BY <1>1 DEF ReplayInv, StoredInv, Produced, DurableInv, StoredDurable
  <2> QED BY <1>1, <2>1, CommitsStay DEF DurableInv
<1>2. CASE store'[k] # store[k]
  <2>1. PICK r \in Request : /\ pc[r] = "complete" /\ call[r].key = k
                             /\ Complete(r) \/ CompleteFails(r)
    BY <1>2, NewlyStored
  <2>2. store'[k] = Completed(r) /\ tx' = tx
    BY <1>2, <2>1 DEF Complete, CompleteFails, TypeInv, TypeOK
  <2>3. result[r] = "ok" /\ store'[k].by = r
    BY <2>2 DEF Completed
  <2> QED BY <2>1, <2>2, <2>3 DEF DurableInv, CommittedInv
<1> QED BY <1>1, <1>2

\* A success is its own handler's, or replayed from a stored one.
LEMMA AnswerDurableStep ==
  ASSUME ~late
  PROVE  TypeInv /\ ReplayInv /\ DurableInv /\ [Next]_vars => AnsweredDurable'
<1> SUFFICES ASSUME TypeInv, ReplayInv, DurableInv, [Next]_vars, NEW r \in Request,
                    answer'[r].kind = "response", answer'[r].status = "ok"
             PROVE  tx'[answer'[r].by] = "committed"
  BY DEF AnsweredDurable
<1>1. CASE answer'[r] = answer[r]
  <2>1. answer[r].by \in Request /\ tx[answer[r].by] = "committed"
    BY <1>1 DEF ReplayInv, AnsweredInv, Produced, DurableInv, AnsweredDurable
  <2> QED BY <1>1, <2>1, CommitsStay DEF DurableInv
<1>2. CASE answer'[r] # answer[r]
  <2> USE <1>2 DEF TypeInv, TypeOK, GoTo, Reply
  <2>1. ASSUME NEW q \in Request,
               Arrive(q) \/ ArriveWithoutKey(q) \/ ArriveWithInvalidKey(q)
               \/ Crash(q) \/ StoreFails(q)
        PROVE  FALSE
    BY <2>1 DEF Arrive, ArriveWithoutKey, ArriveWithInvalidKey, Crash,
                StoreFails, GetFails, AcquireFails, CompleteFails, ReleaseFails,
                Raised, Plain, Answer
  <2>2. ASSUME NEW q \in Request, Begin(q)
        PROVE  tx'[answer'[r].by] = "committed"
    <3>1. q = r /\ ResolveExisting(r) /\ tx' = tx /\ pc[r] \in {"get", "reget"}
      BY <2>2 DEF Begin, Get, TryAcquire, GetAgain, ResolveExisting, Plain, Answer
    <3> DEFINE k == call[r].key
    <3>2. k \in Key /\ store[k] \in Records
      BY <3>1 DEF KeyedSteps
    <3>3. /\ store[k].state = "completed" /\ store[k].status = "ok"
          /\ answer'[r].by = store[k].by
      BY <3>1, <3>2, RecordFields DEF Resolution, ResolveExisting, Plain, Answer
    <3> QED BY <3>1, <3>2, <3>3 DEF DurableInv, StoredDurable
  <2>3. ASSUME NEW q \in Request, Handle(q)
        PROVE  tx'[answer'[r].by] = "committed"
    BY <2>3 DEF Handle, HandlerSucceeds, HandlerRejects, HandlerRaises, Commit,
                CommitFails, CommitRaises, LateCommit, Responded, Raised,
                Committed, Plain, Answer
  <2>4. ASSUME NEW q \in Request, Finish(q)
        PROVE  tx'[answer'[r].by] = "committed"
    BY <2>4 DEF Finish, Complete, Release, Plain, Answer, DurableInv, CommittedInv
  <2>5. ASSUME NEW k \in Key, Expire(k)
        PROVE  FALSE
    BY <2>5 DEF Expire
  <2>6. ~UNCHANGED vars
    BY DEF vars
  <2> QED BY <2>1, <2>2, <2>3, <2>4, <2>5, <2>6 DEF Next
<1> QED BY <1>1, <1>2

\* When the commit precedes the response, nobody is told of a success that the
\* database does not hold, whatever raises, crashes or outlives its record.
THEOREM EarlySuccessesAreCommitted == Spec => [](~late => AnsweredDurable)
<1>1. Init => DurableInv
  BY DEF Init, DurableInv, CommittedInv, StoredDurable, AnsweredDurable,
         NoRecord, Plain, Answer
<1>2. TypeInv /\ ReplayInv /\ (~late => DurableInv) /\ [Next]_vars
        => (~late => DurableInv)'
  <2> SUFFICES ASSUME TypeInv, ReplayInv, DurableInv, ~late, [Next]_vars
               PROVE  DurableInv'
    BY OrderStays
  <2> QED BY CommittedStep, StoredDurableStep, AnswerDurableStep DEF DurableInv, ReplayInv
<1>3. (~late => DurableInv) => (~late => AnsweredDurable)
  BY DEF DurableInv
<1> QED BY <1>1, <1>2, <1>3, TypeInvariant, ReplayInvariant, PTL DEF Spec

\* With the calls of Reliable, a success told to a client is committed, or its
\* commit comes after the response and no other attempt's effect is under the
\* key while the response is on record: a retry cannot mix two attempts.
THEOREM SuccessesAreDurable ==
  ASSUME Reliable
  PROVE  Spec => []SuccessIsDurable
<1>1. TypeInv /\ ReplayInv /\ ClaimInv /\ (~late => AnsweredDurable)
        => SuccessIsDurable
  <2> SUFFICES ASSUME TypeInv, ReplayInv, ClaimInv, ~late => AnsweredDurable,
                      NEW r \in Request,
                      answer[r].kind = "response", answer[r].status = "ok",
                      tx[answer[r].by] # "committed"
               PROVE  late /\ (Keyed(r) /\ store[call[r].key].by = answer[r].by
                                 => effects[call[r].key] = {})
    BY DEF SuccessIsDurable
  <2>1. late
    BY DEF AnsweredDurable, TypeInv, TypeOK
  <2>2. ASSUME Keyed(r), store[call[r].key].by = answer[r].by
        PROVE  effects[call[r].key] = {}
    BY <2>2 DEF ClaimInv, EffectInv, Keyed, TypeInv, TypeOK
  <2> QED BY <2>1, <2>2
<1> QED BY <1>1, TypeInvariant, ReplayInvariant, ClaimInvariant,
           EarlySuccessesAreCommitted, PTL
-----------------------------------------------------------------------------
(***************************************************************************)
(* OrphanedOnlyByFault.  The attempt an in_progress record names is inside *)
(* the handler or about to settle the record, or it ended in one of the    *)
(* ways that leave a record behind: it crashed, its SET NX took effect and *)
(* raised, or its DEL raised after the rollback.                           *)
(***************************************************************************)
Abandoned(r) ==
  \/ pc[r] = "crashed"
  \/ /\ pc[r] = "done"
     /\ answer[r].kind = "failed"
     /\ \/ "acquire" \in FaultyCalls /\ tx[r] = "none"
        \/ "release" \in FaultyCalls /\ tx[r] = "aborted"

ClaimantInv ==
  \A k \in Key : store[k].state = "in_progress" =>
    /\ store[k].by \in Request
    /\ call[store[k].by].key = k
    /\ \/ pc[store[k].by] \in {"execute", "commit", "complete", "release"}
       \/ Abandoned(store[k].by)

LEMMA ClaimantInvImplies == ClaimantInv => OrphanedOnlyByFault
BY DEF ClaimantInv, Abandoned, Running, OrphanedOnlyByFault

LEMMA ClaimantStep ==
  ASSUME Reliable
  PROVE  TypeInv /\ TxInv /\ ClaimantInv /\ [Next]_vars => ClaimantInv'
<1> SUFFICES ASSUME TypeInv, TxInv, ClaimantInv, [Next]_vars PROVE ClaimantInv'
  OBVIOUS
<1> USE DEF ClaimantInv, Abandoned, TypeInv, TypeOK, GoTo, Reply, Keyed
<1>1. ASSUME NEW r \in Request,
             Arrive(r) \/ ArriveWithoutKey(r) \/ ArriveWithInvalidKey(r)
      PROVE  ClaimantInv'
  BY <1>1 DEF Arrive, ArriveWithoutKey, ArriveWithInvalidKey
<1>2. ASSUME NEW r \in Request, Begin(r)
      PROVE  ClaimantInv'
  <2>1. CASE Get(r) \/ GetAgain(r)
    BY <2>1 DEF Get, GetAgain, ResolveExisting
  <2>2. CASE TryAcquire(r)
    BY <2>2 DEF TryAcquire, Claimed
  <2> QED BY <1>2, <2>1, <2>2 DEF Begin
<1>3. ASSUME NEW r \in Request, Handle(r)
      PROVE  ClaimantInv'
  <2>1. CASE HandlerSucceeds(r) \/ HandlerRejects(r) \/ HandlerRaises(r)
    BY <2>1 DEF HandlerSucceeds, HandlerRejects, HandlerRaises, Responded, Raised
  <2>2. CASE Commit(r) \/ CommitFails(r) \/ CommitRaises(r)
    BY <2>2 DEF Commit, CommitFails, CommitRaises, Responded, Raised, Committed
  <2>3. CASE LateCommit(r)
    BY <2>3 DEF LateCommit, Committed
  <2> QED BY <1>3, <2>1, <2>2, <2>3 DEF Handle
<1>4. ASSUME NEW r \in Request, Finish(r) \/ StoreFails(r)
      PROVE  ClaimantInv'
  <2>1. CASE Complete(r)
    BY <2>1 DEF Complete, Completed
  <2>2. CASE Release(r) \/ ReleaseFails(r)
    BY <2>2 DEF Release, ReleaseFails, NoRecord, TxInv, Plain, Answer
  <2>3. CASE GetFails(r)
    BY <2>3 DEF GetFails
  <2>4. CASE AcquireFails(r)
    BY <2>4 DEF AcquireFails, Claimed, TxInv, Plain, Answer
  <2>5. ~CompleteFails(r)
    BY DEF CompleteFails, Reliable
  <2> QED BY <1>4, <2>1, <2>2, <2>3, <2>4, <2>5 DEF Finish, StoreFails
<1>5. ASSUME NEW r \in Request, Crash(r)
      PROVE  ClaimantInv'
  BY <1>5 DEF Crash
<1>6. ASSUME NEW k \in Key, Expire(k)
      PROVE  ClaimantInv'
  BY <1>6 DEF Expire, NoRecord
<1>7. CASE UNCHANGED vars
  BY <1>7 DEF vars
<1> QED BY <1>1, <1>2, <1>3, <1>4, <1>5, <1>6, <1>7 DEF Next

\* With the calls of Reliable, a key stays in_progress behind an attempt that
\* is over only when the worker died in it or its acquire or release raised.
THEOREM OrphansHaveACause ==
  ASSUME Reliable
  PROVE  Spec => []OrphanedOnlyByFault
<1>1. Init => ClaimantInv
  BY DEF Init, ClaimantInv, NoRecord
<1>2. TypeInv /\ ClaimInv /\ ClaimantInv /\ [Next]_vars => ClaimantInv'
  BY ClaimantStep DEF ClaimInv
<1> QED BY <1>1, <1>2, TypeInvariant, ClaimInvariant, ClaimantInvImplies, PTL DEF Spec
-----------------------------------------------------------------------------
(* The refinement: which step of the promise each step of the code takes. *)
slot == [k \in Key |-> SlotOf(store[k])]

LEMMA PromiseStep ==
  ASSUME Reliable, TypeInv, ClaimInv, [Next]_vars
  PROVE  [Promise!Next]_(Promise!vars)
<1> DEFINE Stutter == slot' = slot /\ effects' = effects
<1> SUFFICES Stutter \/ Promise!Next
  BY DEF Promise!vars, slot
<1> HIDE DEF Stutter
<1>a. ASSUME store' = store, effects' = effects PROVE Stutter
  BY <1>a DEF Stutter, slot
<1> USE DEF Keyed
<1>1. ASSUME NEW r \in Request,
             Arrive(r) \/ ArriveWithoutKey(r) \/ ArriveWithInvalidKey(r) \/ Crash(r)
      PROVE  Stutter
  BY <1>1, <1>a DEF Arrive, ArriveWithoutKey, ArriveWithInvalidKey, Crash
<1>2. ASSUME NEW r \in Request, NEW k \in Key, store[k].state = "none",
             store' = [store EXCEPT ![k] = Claimed(r)], effects' = effects
      PROVE  Promise!Claim(k, r)
  BY <1>2 DEF Promise!Claim, Promise!Free, Promise!Held, SlotOf, Claimed,
              TypeInv, TypeOK
<1>3. ASSUME NEW r \in Request, Begin(r)
      PROVE  Stutter \/ \E k \in Key : Promise!Claim(k, r)
  BY <1>3, <1>2, <1>a DEF Begin, Get, TryAcquire, GetAgain, TypeInv, KeyedSteps
<1>4. ASSUME NEW r \in Request, Running(r), Keyed(r), tx[r] # "committed",
             effects' = [effects EXCEPT ![call[r].key] = @ \cup {r}], store' = store
      PROVE  Promise!Apply(call[r].key, r)
  <2> DEFINE k == call[r].key
  <2>1. store[k].state \in {"in_progress", "completed"} /\ store[k].by = r
    BY <1>4, RecordFields DEF ClaimInv, OwnerInv, TypeInv, TypeOK
  <2>2. effects[k] = {}
    BY <1>4, <2>1 DEF ClaimInv, EffectInv, TypeInv, TypeOK
  <2> QED BY <1>4, <2>1, <2>2 DEF Promise!Apply, Promise!Phase, Promise!Held,
             SlotOf, TypeInv, TypeOK
<1>5. ASSUME NEW r \in Request, Handle(r)
      PROVE  Stutter \/ \E k \in Key : Promise!Apply(k, r)
  <2>1. CASE HandlerSucceeds(r) \/ HandlerRejects(r) \/ HandlerRaises(r)
    BY <2>1, <1>a DEF HandlerSucceeds, HandlerRejects, HandlerRaises
  <2>2. CASE Commit(r) \/ CommitFails(r) \/ CommitRaises(r) \/ LateCommit(r)
    <3>1. store' = store /\ Running(r) /\ tx[r] # "committed"
      BY <2>2 DEF Commit, CommitFails, CommitRaises, LateCommit, Running,
                  ClaimInv, TxInv
    <3>2. \/ effects' = effects
          \/ Keyed(r) /\ effects' = [effects EXCEPT ![call[r].key] = @ \cup {r}]
      BY <2>2 DEF Commit, CommitFails, CommitRaises, LateCommit, Committed
    <3>3. CASE effects' = effects
      BY <3>1, <3>3, <1>a
    <3>4. CASE Keyed(r) /\ effects' = [effects EXCEPT ![call[r].key] = @ \cup {r}]
      <4>1. call[r].key \in Key /\ Promise!Apply(call[r].key, r)
        BY <3>1, <3>4, <1>4
      <4> QED BY <4>1
    <3> QED BY <3>2, <3>3, <3>4
  <2> QED BY <1>5, <2>1, <2>2 DEF Handle
<1>6. ASSUME NEW r \in Request, Complete(r)
      PROVE  \E k \in Key : Promise!Settle(k, r)
  <2>1. /\ Keyed(r) /\ store[call[r].key].by = r
        /\ store[call[r].key].state = "in_progress"
    BY <1>6 DEF Complete, ClaimInv, OwnerInv, Running, TypeInv, KeyedSteps
  <2>2. Promise!Settle(call[r].key, r)
    BY <1>6, <2>1 DEF Complete, Completed, Promise!Settle, Promise!Held, SlotOf,
                      TypeInv, TypeOK
  <2> QED BY <2>1, <2>2
<1>7. ASSUME NEW r \in Request, pc[r] = "release", effects' = effects,
             store' = [store EXCEPT ![call[r].key] = NoRecord]
      PROVE  \E k \in Key : Promise!Abandon(k, r)
  <2> DEFINE k == call[r].key
  <2>1. /\ k \in Key /\ store[k].by = r /\ store[k].state = "in_progress"
    BY <1>7 DEF ClaimInv, OwnerInv, Running, TypeInv, KeyedSteps
  <2>2. effects[k] = {}
    BY <1>7, <2>1 DEF ClaimInv, TxInv, EffectInv, TypeInv, TypeOK
  <2>3. Promise!Abandon(k, r)
    BY <1>7, <2>1, <2>2 DEF Promise!Abandon, Promise!Held, Promise!Free, SlotOf,
                            NoRecord, TypeInv, TypeOK
  <2> QED BY <2>1, <2>3
<1>8. ASSUME NEW r \in Request, StoreFails(r)
      PROVE  \/ Stutter
             \/ \E k \in Key : Promise!Claim(k, r) \/ Promise!Abandon(k, r)
  BY <1>8, <1>2, <1>7, <1>a DEF StoreFails, GetFails, AcquireFails, CompleteFails,
     ReleaseFails, TypeInv, KeyedSteps, Reliable
<1>9. ASSUME NEW k \in Key, Expire(k)
      PROVE  Stutter \/ Promise!Forget(k)
  BY <1>9 DEF Expire, Promise!Forget, Promise!Free, SlotOf, NoRecord, TypeInv,
              TypeOK, Stutter, slot, ClaimInv, EffectInv
<1>10. CASE UNCHANGED vars
  BY <1>10, <1>a DEF vars
<1> QED BY <1>1, <1>3, <1>5, <1>6, <1>7, <1>8, <1>9, <1>10
           DEF Next, Finish, Release, Promise!Next

\* The middleware keeps the promise of KeyedExecution: each of its steps is a
\* claim, a single effect, a settlement, an effect-free abandonment or an
\* expiry of one key, or changes nothing the promise speaks of.
THEOREM Implements ==
  ASSUME Reliable
  PROVE  Spec => ImplementsPromise
<1>1. Init => Promise!Init
  BY DEF Init, Promise!Init, Promise!Free, SlotOf, NoRecord
<1>2. TypeInv /\ ClaimInv /\ [Next]_vars => [Promise!Next]_(Promise!vars)
  BY PromiseStep
<1> QED BY <1>1, <1>2, TypeInvariant, ClaimInvariant, PTL
           DEF Spec, ImplementsPromise, Promise!Spec
=============================================================================
