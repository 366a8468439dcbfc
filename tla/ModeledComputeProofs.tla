------------------------ MODULE ModeledComputeProofs ------------------------
(***************************************************************************)
(* Proofs about the modeled executor, for any set of threads, any requests *)
(* and any limits.                                                         *)
(***************************************************************************)
EXTENDS ModeledComputeProperties, ResidentPoolProofs, SumLemmas

Call == [id : Nat, bytes : Nat, out : Nat, handle : Nat]

\* A difference that saturates is a number, and no larger.
LEMMA MonusProperties ==
  ASSUME NEW a \in Nat, NEW b \in Nat
  PROVE  Monus(a, b) \in Nat /\ Monus(a, b) <= a
BY DEF Monus

\* What a request asks is counted in numbers, and its result has a size of the pool.
LEMMA RequestType ==
  ASSUME NEW r \in Requests
  PROVE  r.bytes \in Nat /\ r.out \in Nat /\ r.out \in Sizes
BY ModeledAssumption, PoolAssumption

\* A thread that is in no call has one all the same.
LEMMA NoCallType == NoCall \in Call
BY DEF NoCall, Call

-----------------------------------------------------------------------------
(* Type correctness.                                                       *)

QueueType ==
  /\ accepted \in Nat /\ queued \in Nat /\ queuedBytes \in Nat /\ batchFlushes \in Nat
  /\ outstanding \subseteq Submission

ReadType ==
  /\ internal \in Nat /\ readbacks \in Nat /\ failures \in Nat /\ userReadbacks \in Nat
  /\ once \in [Handles -> {"empty", "running", "ready", "failed"}]

ThreadType ==
  /\ fault \in Faults
  /\ pc \in [Threads -> Steps]
  /\ call \in [Threads -> Call]
  /\ section \in [Threads -> {"none", "fixed"}]

\* The type invariant, by the part of the state it speaks of.
LEMMA TypeSplit == TypeOK <=> PoolTypeOK /\ QueueType /\ ReadType /\ ThreadType
BY DEF TypeOK, QueueType, ReadType, ThreadType, Call

\* What the limits see of the queue is counted in numbers.
LEMMA SeenType ==
  ASSUME QueueType, NEW r \in Requests
  PROVE  DepthSeen(r) \in Nat /\ BytesSeen(r) \in Nat
BY DEF QueueType, DepthSeen, BytesSeen

\* A release leaves no counter below zero.
LEMMA ReleaseType ==
  ASSUME QueueType, ThreadType, NEW t \in Threads, Release(t)
  PROVE  QueueType'
<1>1. call[t] \in Call
  BY DEF ThreadType
<1>2. call[t].bytes \in Nat
  BY <1>1 DEF Call
<1>3. queued' \in Nat /\ queuedBytes' \in Nat
  BY <1>2, MonusProperties DEF Release, QueueType
<1>4. QED
  BY <1>3 DEF Release, QueueType

\* A thread that moves on is at a step.
LEMMA GotoType ==
  ASSUME ThreadType, NEW t \in Threads, NEW from, NEW to \in Steps, Goto(t, from, to)
  PROVE  pc' \in [Threads -> Steps]
BY DEF ThreadType, Goto

\* A reservation, drained or not, accepted or not, keeps the types.
LEMMA ReserveType ==
  ASSUME TypeOK, NEW t \in Threads, NEW r \in Requests, Reserve(t, r)
  PROVE  TypeOK'
<1>1. PoolTypeOK /\ QueueType /\ ReadType /\ ThreadType
  BY TypeSplit
<1>2. r.bytes \in Nat /\ r.out \in Nat /\ DepthSeen(r) \in Nat /\ BytesSeen(r) \in Nat
  BY <1>1, RequestType, SeenType
<1>3. PoolTypeOK' /\ ReadType'
  BY <1>1 DEF Reserve, poolVars, readVars, PoolTypeOK, ReadType
<1>4. [id |-> accepted + 1, bytes |-> r.bytes] \in Submission
  BY <1>1, <1>2 DEF Submission, QueueType
<1>5. outstanding' \subseteq Submission
  BY <1>1, <1>4 DEF Reserve, QueueType
<1>6. QueueType'
  BY <1>1, <1>2, <1>5 DEF Reserve, QueueType
<1>7. [id |-> accepted + 1, bytes |-> r.bytes, out |-> r.out, handle |-> 0] \in Call
  BY <1>1, <1>2 DEF Call, QueueType
<1>8. pc' \in [Threads -> Steps]
  BY <1>1, GotoType DEF Reserve, Steps
<1>9. ThreadType'
  BY <1>1, <1>7, <1>8 DEF Reserve, ThreadType
<1>10. QED
  BY <1>3, <1>6, <1>9, TypeSplit, PTL

\* The actions that leave the pool alone, beside Reserve.
LEMMA CallType ==
  ASSUME TypeOK, NEW t \in Threads,
         \/ \E r \in Requests : RefuseAfterDrain(t, r)
         \/ \E h \in Handles : Materialize(t, h)
         \/ Flush(t) \/ BeginFixed(t) \/ EndFixed(t)
         \/ LoseDevice(t) \/ BeginCompute(t) \/ FailCompute(t) \/ BeginCells(t)
         \/ \E outcome \in {"error", "unsupported", "complete"} : EndCompute(t, outcome)
         \/ \E outcome \in {"error", "cells"} : EndCells(t, outcome)
         \/ RefuseOversized(t) \/ FindMissing(t) \/ CacheCells(t) \/ CacheFailure(t)
  PROVE  TypeOK'
<1>1. PoolTypeOK /\ QueueType /\ ReadType /\ ThreadType
  BY TypeSplit
<1>2. PoolTypeOK'
  BY <1>1 DEF PoolTypeOK, poolVars, RefuseAfterDrain, Materialize, Flush, BeginFixed, EndFixed,
     LoseDevice, BeginCompute, FailCompute, BeginCells, EndCompute, EndCells, RefuseOversized,
     FindMissing, CacheCells, CacheFailure
<1>3. QueueType'
  <2>1. CASE LoseDevice(t) \/ FailCompute(t)
    BY <1>1, <2>1, ReleaseType DEF LoseDevice, FailCompute
  <2>2. CASE Flush(t) \/ \E r \in Requests : RefuseAfterDrain(t, r)
    BY <1>1, <2>2 DEF Flush, RefuseAfterDrain, Drain, QueueType
  <2>3. CASE UNCHANGED queueVars
    BY <1>1, <2>3 DEF queueVars, QueueType
  <2>4. QED
    BY <2>1, <2>2, <2>3 DEF Materialize, BeginFixed, EndFixed, BeginCompute, BeginCells,
       EndCompute, EndCells, RefuseOversized, FindMissing, CacheCells, CacheFailure
<1>4. ReadType'
  <2>1. CASE UNCHANGED readVars
    BY <1>1, <2>1 DEF readVars, ReadType
  <2>2. ASSUME NEW h \in Handles, Materialize(t, h)
        PROVE  ReadType'
    BY <1>1, <2>2 DEF Materialize, CountRead, ReadType
  <2>3. CASE CacheCells(t) \/ CacheFailure(t)
    BY <1>1, <2>3 DEF CacheCells, CacheFailure, ReadType
  <2>4. CASE UNCHANGED <<readbacks, failures, once, userReadbacks>>
             /\ (internal' = internal + 1 \/ internal' = Monus(internal, 1))
    BY <1>1, <2>4, MonusProperties DEF ReadType
  <2>5. QED
    BY <2>1, <2>2, <2>3, <2>4 DEF RefuseAfterDrain, Flush, BeginFixed, EndFixed, LoseDevice,
       BeginCompute, FailCompute, BeginCells, EndCompute, EndCells, RefuseOversized, FindMissing
<1>5. pc' \in [Threads -> Steps]
  <2>1. CASE UNCHANGED pc
    BY <1>1, <2>1 DEF ThreadType
  <2>2. CASE \E to \in Steps : pc' = [pc EXCEPT ![t] = to]
    BY <1>1, <2>2 DEF ThreadType
  <2>3. QED
    BY <2>1, <2>2 DEF RefuseAfterDrain, Materialize, Flush, BeginFixed, EndFixed,
     LoseDevice, BeginCompute, FailCompute, BeginCells, EndCompute, EndCells, RefuseOversized,
     FindMissing, CacheCells, CacheFailure, Goto, Steps, threadVars
<1>6. call' \in [Threads -> Call]
  <2>1. CASE UNCHANGED call
    BY <1>1, <2>1 DEF ThreadType
  <2>2. CASE \E c \in Call : call' = [call EXCEPT ![t] = c]
    BY <1>1, <2>2 DEF ThreadType
  <2>3. ASSUME NEW h \in Handles, Materialize(t, h)
        PROVE  call' \in [Threads -> Call]
    <3>1. h \in Nat /\ [NoCall EXCEPT !.handle = h] \in Call
      BY DEF NoCall, Call, Handles
    <3>2. QED
      BY <2>2, <2>3, <3>1 DEF Materialize
  <2>4. CASE \/ \E outcome \in {"error", "unsupported", "complete"} : EndCompute(t, outcome)
             \/ \E outcome \in {"error", "cells"} : EndCells(t, outcome)
    <3>1. call[t] \in Call
      BY <1>1 DEF ThreadType
    <3>2. QED
      BY <2>2, <2>4, <3>1, NoCallType DEF EndCompute, EndCells
  <2>5. QED
    BY <2>1, <2>2, <2>3, <2>4, NoCallType DEF RefuseAfterDrain, Flush, BeginFixed, EndFixed,
     LoseDevice, BeginCompute, FailCompute, BeginCells, RefuseOversized,
     FindMissing, CacheCells, CacheFailure, threadVars
<1>7. section' \in [Threads -> {"none", "fixed"}]
  BY <1>1 DEF ThreadType, RefuseAfterDrain, Materialize, Flush, BeginFixed, EndFixed,
     LoseDevice, BeginCompute, FailCompute, BeginCells, EndCompute, EndCells, RefuseOversized,
     FindMissing, CacheCells, CacheFailure, threadVars
<1>a. fault' \in Faults
  BY <1>1 DEF ThreadType, RefuseAfterDrain, Materialize, Flush, BeginFixed, EndFixed,
     LoseDevice, BeginCompute, FailCompute, BeginCells, EndCompute, EndCells, RefuseOversized,
     FindMissing, CacheCells, CacheFailure
<1>8. ThreadType'
  BY <1>5, <1>6, <1>7, <1>a DEF ThreadType
<1>9. QED
  BY <1>2, <1>3, <1>4, <1>8, TypeSplit, PTL

-----------------------------------------------------------------------------
(* The executor runs the pool: every step is a step of ResidentPool.       *)

PoolAction(t) == BeginAllocate(t) \/ EvictOne(t) \/ FinishAllocate(t)

OtherAction(t) ==
  \/ \E r \in Requests : RefuseAfterDrain(t, r)
  \/ \E h \in Handles : Materialize(t, h)
  \/ Flush(t) \/ BeginFixed(t) \/ EndFixed(t)
  \/ LoseDevice(t) \/ BeginCompute(t) \/ FailCompute(t) \/ BeginCells(t)
  \/ \E outcome \in {"error", "unsupported", "complete"} : EndCompute(t, outcome)
  \/ \E outcome \in {"error", "cells"} : EndCells(t, outcome)
  \/ RefuseOversized(t) \/ FindMissing(t) \/ CacheCells(t) \/ CacheFailure(t)

\* A step reserves, touches the pool, or does neither.
LEMMA NextCases ==
  ASSUME [Next]_vars
  PROVE  \/ \E t \in Threads, r \in Requests : Reserve(t, r)
         \/ \E t \in Threads : OtherAction(t)
         \/ \E t \in Threads : PoolAction(t)
         \/ UNCHANGED vars
BY DEF Next, Start, Continue, OtherAction, PoolAction

\* The result size a call in flight will ask the pool for.
AsksForResult ==
  \A t \in Threads :
    pc[t] \in {"reserved", "computing", "computed", "reading", "read"} => call[t].out \in Sizes

\* What is not a step of the pool leaves the pool alone.
LEMMA OtherKeepsPool ==
  ASSUME NEW t \in Threads, OtherAction(t)
  PROVE  UNCHANGED poolVars
BY DEF OtherAction, RefuseAfterDrain, Materialize, Flush, BeginFixed, EndFixed,
     LoseDevice, BeginCompute, FailCompute, BeginCells, EndCompute, EndCells, RefuseOversized,
     FindMissing, CacheCells, CacheFailure

\* A step of the pool leaves the queue, the readbacks and the faults alone.
LEMMA PoolKeepsOthers ==
  ASSUME NEW t \in Threads, PoolAction(t)
  PROVE  UNCHANGED <<fault, queueVars, readVars, section>>
BY DEF PoolAction, BeginAllocate, EvictOne, FinishAllocate, threadVars

\* Every step of the executor is one of the pool, or leaves it alone.
LEMMA PoolRefinementStep ==
  TypeOK /\ AsksForResult /\ [Next]_vars => [PoolNext]_poolVars
<1> SUFFICES ASSUME TypeOK, AsksForResult, [Next]_vars
             PROVE  [PoolNext]_poolVars
  OBVIOUS
<1>1. ASSUME NEW t \in Threads, NEW r \in Requests, Reserve(t, r)
      PROVE  [PoolNext]_poolVars
  BY <1>1 DEF Reserve
<1>2. ASSUME NEW t \in Threads, OtherAction(t)
      PROVE  [PoolNext]_poolVars
  BY <1>2, OtherKeepsPool
<1>3. ASSUME NEW t \in Threads, PoolAction(t)
      PROVE  [PoolNext]_poolVars
  <2>1. CASE BeginAllocate(t)
    <3>1. call[t].out \in Sizes
      BY <2>1 DEF BeginAllocate, Goto, AsksForResult
    <3>2. QED
      BY <2>1, <3>1 DEF BeginAllocate, PoolNext
  <2>2. CASE EvictOne(t) \/ FinishAllocate(t)
    BY <2>2 DEF EvictOne, FinishAllocate, PoolNext
  <2>3. QED
    BY <1>3, <2>1, <2>2 DEF PoolAction
<1>4. CASE UNCHANGED vars
  BY <1>4 DEF vars
<1>5. QED
  BY <1>1, <1>2, <1>3, <1>4, NextCases

\* A step of the pool keeps the types of the executor.
LEMMA PoolActionType ==
  ASSUME TypeOK, AsksForResult, NEW t \in Threads, PoolAction(t)
  PROVE  TypeOK'
<1>1. PoolTypeOK /\ QueueType /\ ReadType /\ ThreadType
  BY TypeSplit
<1>2. [PoolNext]_poolVars
  <2>1. CASE BeginAllocate(t)
    <3>1. call[t].out \in Sizes
      BY <2>1 DEF BeginAllocate, Goto, AsksForResult
    <3>2. QED
      BY <2>1, <3>1 DEF BeginAllocate, PoolNext
  <2>2. CASE EvictOne(t) \/ FinishAllocate(t)
    BY <2>2 DEF EvictOne, FinishAllocate, PoolNext
  <2>3. QED
    BY <2>1, <2>2 DEF PoolAction
<1>3. PoolTypeOK'
  BY <1>1, <1>2, PoolTypeStep
<1>4. QueueType' /\ ReadType'
  BY <1>1, PoolKeepsOthers DEF queueVars, readVars, QueueType, ReadType
<1>5. pc' \in [Threads -> Steps]
  BY <1>1 DEF PoolAction, BeginAllocate, EvictOne, FinishAllocate, threadVars, Goto,
     ThreadType, Steps
<1>6. call' \in [Threads -> Call]
  BY <1>1, NoCallType DEF PoolAction, BeginAllocate, EvictOne, FinishAllocate, threadVars,
     ThreadType
<1>7. ThreadType'
  BY <1>1, <1>5, <1>6, PoolKeepsOthers DEF ThreadType
<1>8. QED
  BY <1>3, <1>4, <1>7, TypeSplit, PTL

\* No step breaks the types.
LEMMA TypeStep == TypeOK /\ AsksForResult /\ [Next]_vars => TypeOK'
<1> SUFFICES ASSUME TypeOK, AsksForResult, [Next]_vars
             PROVE  TypeOK'
  OBVIOUS
<1>1. ASSUME NEW t \in Threads, OtherAction(t)
      PROVE  TypeOK'
  BY <1>1, CallType DEF OtherAction
<1>2. CASE UNCHANGED vars
  BY <1>2 DEF vars, poolVars, queueVars, readVars, threadVars, TypeOK, PoolTypeOK
<1>3. QED
  BY <1>1, <1>2, NextCases, ReserveType, PoolActionType

\* A call goes on asking for a result of a size of the pool until it has it.
LEMMA AsksForResultStep ==
  TypeOK /\ AsksForResult /\ [Next]_vars => AsksForResult'
<1> SUFFICES ASSUME TypeOK, AsksForResult, [Next]_vars, NEW u \in Threads,
                    pc'[u] \in {"reserved", "computing", "computed", "reading", "read"}
             PROVE  call'[u].out \in Sizes
  BY DEF AsksForResult
<1>1. ThreadType
  BY TypeSplit
<1>2. CASE pc'[u] = pc[u] /\ call'[u] = call[u]
  BY <1>2 DEF AsksForResult
<1>3. ASSUME NEW t \in Threads, NEW r \in Requests, Reserve(t, r)
      PROVE  call'[u].out \in Sizes
  <2>1. CASE u = t
    BY <1>1, <1>3, <2>1, RequestType DEF Reserve, ThreadType
  <2>2. CASE u # t
    BY <1>1, <1>2, <1>3, <2>2 DEF Reserve, Goto, ThreadType
  <2>3. QED
    BY <2>1, <2>2
<1>4. ASSUME NEW t \in Threads, OtherAction(t) \/ PoolAction(t)
      PROVE  call'[u].out \in Sizes
  <2>1. CASE u # t
    <3>1. pc'[u] = pc[u] /\ call'[u] = call[u]
      BY <1>1, <1>4, <2>1 DEF ThreadType, Goto, threadVars, OtherAction, RefuseAfterDrain,
         Materialize, Flush, BeginFixed, EndFixed, LoseDevice, BeginCompute, FailCompute,
         BeginCells, EndCompute, EndCells, RefuseOversized, FindMissing, CacheCells,
         CacheFailure, PoolAction, BeginAllocate, EvictOne, FinishAllocate
    <3>2. QED
      BY <1>2, <3>1
  <2>2. CASE u = t
    <3>1. CASE UNCHANGED <<pc, call>>
      BY <1>2, <3>1
    <3>2. CASE BeginCompute(t) \/ BeginCells(t)
      BY <1>1, <2>2, <3>2 DEF BeginCompute, BeginCells, Goto, ThreadType, AsksForResult
    <3>3. CASE \E outcome \in {"error", "unsupported", "complete"} : EndCompute(t, outcome)
      BY <1>1, <2>2, <3>3 DEF EndCompute, ThreadType, AsksForResult
    <3>4. CASE \E outcome \in {"error", "cells"} : EndCells(t, outcome)
      BY <1>1, <2>2, <3>4 DEF EndCells, ThreadType, AsksForResult
    <3>5. CASE pc'[t] \in {"idle", "checking", "missing", "evicting"}
      BY <2>2, <3>5
    <3>6. QED
      BY <1>1, <1>4, <3>1, <3>2, <3>3, <3>4, <3>5 DEF ThreadType, Goto, threadVars,
         OtherAction, RefuseAfterDrain, Materialize, Flush, BeginFixed, EndFixed, LoseDevice,
         FailCompute, RefuseOversized, FindMissing, CacheCells,
         CacheFailure, PoolAction, BeginAllocate, EvictOne, FinishAllocate
  <2>3. QED
    BY <2>1, <2>2
<1>5. CASE UNCHANGED vars
  BY <1>2, <1>5 DEF vars, threadVars
<1>6. QED
  BY <1>3, <1>4, <1>5, NextCases

\* The types hold at first.
LEMMA InitType == Init => TypeOK /\ AsksForResult
<1> SUFFICES ASSUME Init
             PROVE  TypeOK /\ AsksForResult
  OBVIOUS
<1>1. PoolTypeOK
  BY DEF Init, PoolInit, PoolTypeOK
<1>2. QueueType /\ ReadType
  BY DEF Init, QueueType, ReadType
<1>3. ThreadType
  BY NoCallType DEF Init, ThreadType, Steps
<1>4. AsksForResult
  BY DEF Init, AsksForResult
<1>5. QED
  BY <1>1, <1>2, <1>3, <1>4, TypeSplit

\* The types hold at all times, and calls ask for results of sizes of the pool.
LEMMA TypeAndRequests == Spec => [](TypeOK /\ AsksForResult)
BY InitType, TypeStep, AsksForResultStep, PTL DEF Spec

\* Every counter and every thread of the executor keeps its type.
THEOREM TypeCorrect == Spec => []TypeOK
BY TypeAndRequests, PTL

\* The executor implements ResidentPool: no thread evicts or stores outside an
\* insertion that holds the counters lock (allocate_resident, model.rs).
THEOREM ExecutorRunsPool == Spec => RunsPool
<1>1. Init => PoolInit
  BY DEF Init
<1>2. QED
  BY <1>1, TypeAndRequests, PoolRefinementStep, PTL DEF Spec, RunsPool, PoolSpec

\* So the executor's resident bytes stay within max_resident_bytes.
THEOREM ExecutorPoolBounded == Spec => []PoolBounded
BY ExecutorRunsPool, PoolNeverOverflows, PTL DEF RunsPool

\* And, whatever the threads interleave, it evicts the oldest results first.
THEOREM ExecutorEvictsOldestFirst == Spec => []OldestFirst
BY ExecutorRunsPool, PoolEvictsOldestFirst, PTL DEF RunsPool

-----------------------------------------------------------------------------
(* The queue.                                                              *)

\* Releasing never fills the queue, whatever a flush left of it.
LEMMA ReleaseBounded ==
  ASSUME TypeOK, QueueBounded, NEW t \in Threads, Release(t)
  PROVE  QueueBounded'
<1>1. queued \in Nat /\ queuedBytes \in Nat /\ call[t] \in Call
  BY TypeSplit DEF QueueType, ThreadType
<1>2. call[t].bytes \in Nat
  BY <1>1 DEF Call
<1>3. queued' \in Nat /\ queued' <= queued /\ queuedBytes' \in Nat /\ queuedBytes' <= queuedBytes
  BY <1>1, <1>2, MonusProperties DEF Release
<1>4. QED
  BY <1>1, <1>3, ModeledAssumption DEF QueueBounded

\* What a reservation sees after an auto-flush is what it adds to.
LEMMA ReserveBounded ==
  ASSUME TypeOK, NEW t \in Threads, NEW r \in Requests, Reserve(t, r)
  PROVE  QueueBounded'
<1>1. DepthSeen(r) \in Nat /\ BytesSeen(r) \in Nat /\ r.bytes \in Nat
  BY TypeSplit, SeenType, RequestType
<1>2. DepthSeen(r) < MaxQueueDepth /\ BytesSeen(r) + r.bytes <= MaxQueueBytes
  BY DEF Reserve, Admits
<1>3. queued' = DepthSeen(r) + 1 /\ queuedBytes' = BytesSeen(r) + r.bytes
  BY DEF Reserve
<1>4. QED
  BY <1>1, <1>2, <1>3, ModeledAssumption DEF QueueBounded

\* Release and flush keep the queue within its limits, the rest does not touch it.
LEMMA OtherBounded ==
  ASSUME TypeOK, QueueBounded, NEW t \in Threads, OtherAction(t)
  PROVE  QueueBounded'
<1>1. CASE LoseDevice(t) \/ FailCompute(t)
  BY <1>1, ReleaseBounded DEF LoseDevice, FailCompute
<1>2. CASE Flush(t) \/ \E r \in Requests : RefuseAfterDrain(t, r)
  <2>1. queued' = 0 /\ queuedBytes' = 0
    BY <1>2 DEF Flush, RefuseAfterDrain, Drain
  <2>2. QED
    BY <2>1, ModeledAssumption DEF QueueBounded
<1>3. CASE UNCHANGED <<queued, queuedBytes>>
  BY <1>3 DEF QueueBounded
<1>4. QED
  BY <1>1, <1>2, <1>3 DEF OtherAction, queueVars, Materialize, BeginFixed, EndFixed,
     BeginCompute, BeginCells, EndCompute, EndCells, RefuseOversized, FindMissing, CacheCells,
     CacheFailure

\* Depth and bytes stay within the profile for any number of threads: every
\* reservation looks and counts under one lock.
THEOREM ExecutorQueueBounded == Spec => []QueueBounded
<1>1. Init => QueueBounded
  BY ModeledAssumption DEF Init, QueueBounded
<1>2. ASSUME TypeOK, QueueBounded, [Next]_vars
      PROVE  QueueBounded'
  <2>1. ASSUME NEW t \in Threads, PoolAction(t)
        PROVE  QueueBounded'
    <3>1. UNCHANGED queueVars
      BY <2>1, PoolKeepsOthers
    <3>2. QED
      BY <1>2, <3>1 DEF queueVars, QueueBounded
  <2>2. CASE UNCHANGED vars
    BY <1>2, <2>2 DEF vars, queueVars, QueueBounded
  <2>3. QED
    BY <1>2, <2>1, <2>2, NextCases, ReserveBounded, OtherBounded
<1>3. QED
  BY <1>1, <1>2, TypeCorrect, PTL DEF Spec

-----------------------------------------------------------------------------
(* The queue and the submissions that await evidence.                      *)

\* Submission numbers grow, so a reservation is a submission of its own; a device that is
\* lost leaves only the reservations that have not come to it yet.
QueueInv ==
  /\ IsFiniteSet(outstanding)
  /\ \A s \in outstanding : s.id <= accepted
  /\ FlushNeverInvents
  /\ fault = "device_lost" =>
       \A s \in outstanding : \E t \in Threads : pc[t] = "reserved" /\ s = Own(t)

\* The bytes of each submission.
BytesBy(S) == [s \in S |-> s.bytes]

\* Bytes are counted per submission.
LEMMA BytesCount ==
  ASSUME NEW S \in SUBSET Submission, IsFiniteSet(S), NEW s \in Submission
  PROVE  /\ BytesOf(S) \in Nat
         /\ s \notin S => BytesOf(S \cup {s}) = BytesOf(S) + s.bytes
         /\ s \in S => BytesOf(S) = s.bytes + BytesOf(S \ {s})
         /\ BytesOf({}) = 0
<1>1. \A T : BytesOf(T) = Total(BytesBy(T), T)
  BY DEF BytesOf, Total, BytesBy
<1>2. \A T \in SUBSET Submission : \A x \in T : BytesBy(T)[x] = x.bytes /\ BytesBy(T)[x] \in Nat
  BY DEF Submission, BytesBy
<1>3. BytesOf(S) \in Nat
  BY <1>1, <1>2, SumIsNat
<1>4. ASSUME s \notin S
      PROVE  BytesOf(S \cup {s}) = BytesOf(S) + s.bytes
  <2> DEFINE g == BytesBy(S \cup {s})
             h == BytesBy(S)
  <2>1. g[s] = s.bytes /\ g[s] \in Nat /\ \A x \in S : g[x] \in Nat /\ g[x] = h[x]
    BY DEF Submission, BytesBy
  <2>2. BytesOf(S \cup {s}) = Total(g, S \cup {s}) /\ BytesOf(S) = Total(h, S)
    BY <1>1
  <2> HIDE DEF g, h
  <2>3. Total(g, S \cup {s}) = Total(g, S) + g[s]
    BY <1>4, <2>1, SumAdds
  <2>4. Total(g, S) = Total(h, S)
    BY <2>1, SumAgrees
  <2>5. QED
    BY <2>1, <2>2, <2>3, <2>4
<1>5. ASSUME s \in S
      PROVE  BytesOf(S) = s.bytes + BytesOf(S \ {s})
  <2> DEFINE g == BytesBy(S)
             h == BytesBy(S \ {s})
  <2>1. g[s] = s.bytes /\ (\A x \in S : g[x] \in Nat) /\ \A x \in S \ {s} : g[x] = h[x]
    BY <1>5 DEF Submission, BytesBy
  <2>2. BytesOf(S) = Total(g, S) /\ BytesOf(S \ {s}) = Total(h, S \ {s})
    BY <1>1
  <2>3. IsFiniteSet(S \ {s})
    BY FS_RemoveElement
  <2> HIDE DEF g, h
  <2>4. Total(g, S) = g[s] + Total(g, S \ {s})
    BY <1>5, <2>1, SumTakes
  <2>5. Total(g, S \ {s}) = Total(h, S \ {s})
    BY <2>1, <2>3, SumAgrees
  <2>6. QED
    BY <2>1, <2>2, <2>4, <2>5
<1>6. BytesOf({}) = 0
  BY <1>1, FS_EmptySet, SumSteps
<1>7. QED
  BY <1>3, <1>4, <1>5, <1>6

\* What a reservation adds to: nothing once auto-flush has drained the queue.
Seen(r) == IF Drains(r) THEN {} ELSE outstanding

\* A reservation is one more submission, of its request's bytes.
LEMMA ReserveAdds ==
  ASSUME TypeOK, QueueInv, NEW t \in Threads, NEW r \in Requests, Reserve(t, r)
  PROVE  /\ IsFiniteSet(Seen(r)) /\ IsFiniteSet(outstanding') /\ accepted' = accepted + 1
         /\ outstanding' = Seen(r) \cup {Own(t)'} /\ Own(t)'.id = accepted'
         /\ Cardinality(Seen(r)) \in Nat /\ Cardinality(outstanding') = Cardinality(Seen(r)) + 1
         /\ BytesOf(Seen(r)) \in Nat /\ BytesOf(outstanding') = BytesOf(Seen(r)) + r.bytes
         /\ r.bytes \in Nat
<1> DEFINE mine == [id |-> accepted + 1, bytes |-> r.bytes]
           S == Seen(r)
<1>1. QueueType /\ ThreadType /\ r.bytes \in Nat
  BY TypeSplit, RequestType
<1>2. /\ mine \in Submission /\ mine.id = accepted + 1 /\ mine.bytes = r.bytes /\ accepted \in Nat
  BY <1>1 DEF Submission, QueueType
<1>3. Own(t)' = mine
  BY <1>1 DEF Reserve, ThreadType, Own
<1>4. outstanding' = S \cup {mine} /\ accepted' = accepted + 1
  BY DEF Reserve, Seen
<1> HIDE DEF mine
<1>5. S \in SUBSET Submission /\ IsFiniteSet(S) /\ \A s \in S : s.id <= accepted
  BY <1>1, FS_EmptySet DEF QueueInv, QueueType, Seen
<1> HIDE DEF S
<1>6. mine \notin S
  BY <1>2, <1>5
<1>7. /\ IsFiniteSet(S \cup {mine}) /\ Cardinality(S) \in Nat
      /\ Cardinality(S \cup {mine}) = Cardinality(S) + 1
  BY <1>5, <1>6, FS_AddElement, FS_CardinalityType
<1>8. BytesOf(S) \in Nat /\ BytesOf(S \cup {mine}) = BytesOf(S) + r.bytes
  BY <1>2, <1>5, <1>6, BytesCount
<1>9. QED
  BY <1>1, <1>2, <1>3, <1>4, <1>5, <1>7, <1>8 DEF S

\* A release takes its own submission, if a flush has not.
LEMMA ReleaseTakes ==
  ASSUME TypeOK, QueueInv, NEW t \in Threads, Release(t)
  PROVE  /\ IsFiniteSet(outstanding') /\ outstanding' = outstanding \ {Own(t)}
         /\ Cardinality(outstanding) \in Nat /\ Cardinality(outstanding') \in Nat
         /\ BytesOf(outstanding) \in Nat /\ BytesOf(outstanding') \in Nat
         /\ call[t].bytes \in Nat
         /\ Own(t) \in outstanding =>
              /\ Cardinality(outstanding) = Cardinality(outstanding') + 1
              /\ BytesOf(outstanding) = BytesOf(outstanding') + call[t].bytes
         /\ Own(t) \notin outstanding => outstanding' = outstanding
<1> DEFINE own == Own(t)
           S == outstanding
<1>1. QueueType /\ ThreadType
  BY TypeSplit
<1>2. call[t].bytes \in Nat /\ own \in Submission /\ own.bytes = call[t].bytes
  <2>1. call[t] \in Call
    BY <1>1 DEF ThreadType
  <2>2. QED
    BY <2>1 DEF Call, Own, Submission
<1>3. S \in SUBSET Submission /\ IsFiniteSet(S) /\ outstanding' = S \ {own}
  BY <1>1 DEF QueueInv, QueueType, Release
<1> HIDE DEF own, S
<1>4. /\ IsFiniteSet(S \ {own}) /\ Cardinality(S) \in Nat /\ Cardinality(S \ {own}) \in Nat
      /\ own \in S => Cardinality(S) = Cardinality(S \ {own}) + 1
  <2>1. /\ IsFiniteSet(S \ {own})
        /\ Cardinality(S \ {own}) = IF own \in S THEN Cardinality(S) - 1 ELSE Cardinality(S)
    BY <1>3, FS_RemoveElement
  <2>2. Cardinality(S) \in Nat /\ Cardinality(S \ {own}) \in Nat
    BY <1>3, <2>1, FS_CardinalityType
  <2>3. QED
    BY <2>1, <2>2
<1>5. /\ BytesOf(S) \in Nat /\ BytesOf(S \ {own}) \in Nat
      /\ own \in S => BytesOf(S) = own.bytes + BytesOf(S \ {own})
  <2>1. S \ {own} \in SUBSET Submission
    BY <1>3
  <2>2. QED
    BY <1>2, <1>3, <1>4, <2>1, BytesCount
<1>6. own \notin S => S \ {own} = S
  OBVIOUS
<1>7. QED
  BY <1>2, <1>3, <1>4, <1>5, <1>6 DEF own, S

\* The steps that only drain the queue, and those that leave it alone.
Drained(t) == Flush(t) \/ \E r \in Requests : RefuseAfterDrain(t, r)

Undisturbed(t) ==
  \/ \E h \in Handles : Materialize(t, h)
  \/ BeginFixed(t) \/ EndFixed(t) \/ BeginCompute(t) \/ BeginCells(t)
  \/ \E outcome \in {"error", "unsupported", "complete"} : EndCompute(t, outcome)
  \/ \E outcome \in {"error", "cells"} : EndCells(t, outcome)
  \/ RefuseOversized(t) \/ FindMissing(t) \/ CacheCells(t) \/ CacheFailure(t)
  \/ PoolAction(t)

Released(t) == LoseDevice(t) \/ FailCompute(t)

\* What a step does to the queue.
LEMMA QueueCases ==
  ASSUME [Next]_vars
  PROVE  \/ \E t \in Threads, r \in Requests : Reserve(t, r)
         \/ \E t \in Threads : Drained(t) \/ Undisturbed(t) \/ Released(t)
         \/ UNCHANGED vars
BY NextCases DEF OtherAction, Drained, Undisturbed, Released

\* The queue, and where the other threads are, when a thread does something else.
LEMMA UndisturbedQueue ==
  ASSUME TypeOK, NEW t \in Threads, Undisturbed(t)
  PROVE  /\ UNCHANGED <<queued, queuedBytes, accepted, outstanding, fault>>
         /\ \A u \in Threads \ {t} : pc'[u] = pc[u] /\ call'[u] = call[u]
         /\ pc[t] = "reserved" => fault # "device_lost"
<1>1. ThreadType
  BY TypeSplit
<1> USE <1>1 DEF Undisturbed, queueVars, threadVars, ThreadType, Goto
<1>2. CASE (\E h \in Handles : Materialize(t, h)) \/ BeginFixed(t) \/ EndFixed(t)
  BY <1>2 DEF Materialize, BeginFixed, EndFixed
<1>3. CASE BeginCompute(t) \/ BeginCells(t) \/ RefuseOversized(t)
  BY <1>3 DEF BeginCompute, BeginCells, RefuseOversized
<1>4. CASE FindMissing(t) \/ CacheCells(t) \/ CacheFailure(t)
  BY <1>4 DEF FindMissing, CacheCells, CacheFailure
<1>5. CASE \E outcome \in {"error", "unsupported", "complete"} : EndCompute(t, outcome)
  BY <1>5 DEF EndCompute
<1>6. CASE \E outcome \in {"error", "cells"} : EndCells(t, outcome)
  BY <1>6 DEF EndCells
<1>7. CASE PoolAction(t)
  BY <1>7 DEF PoolAction, BeginAllocate, EvictOne, FinishAllocate
<1>8. QED
  BY <1>2, <1>3, <1>4, <1>5, <1>6, <1>7

\* A reservation keeps the queue below what awaits evidence.
LEMMA ReserveAccounts ==
  ASSUME TypeOK, QueueInv, NEW t \in Threads, NEW r \in Requests, Reserve(t, r)
  PROVE  QueueInv'
<1>1. QueueType /\ ThreadType
  BY TypeSplit
<1>2. /\ queued' = DepthSeen(r) + 1 /\ queuedBytes' = BytesSeen(r) + r.bytes
      /\ pc[t] = "idle" /\ pc' = [pc EXCEPT ![t] = "reserved"] /\ UNCHANGED fault
      /\ \A u \in Threads \ {t} : call'[u] = call[u]
  BY <1>1 DEF Reserve, Goto, ThreadType
<1>3. /\ DepthSeen(r) \in Nat /\ DepthSeen(r) <= Cardinality(Seen(r))
      /\ BytesSeen(r) \in Nat /\ BytesSeen(r) <= BytesOf(Seen(r))
  BY <1>1, SeenType, ReserveAdds DEF QueueInv, FlushNeverInvents, DepthSeen, BytesSeen, Seen
<1>4. FlushNeverInvents'
  BY <1>2, <1>3, ReserveAdds DEF FlushNeverInvents
<1>5. IsFiniteSet(outstanding') /\ \A s \in outstanding' : s.id <= accepted'
  <2>1. Seen(r) \subseteq outstanding /\ outstanding \subseteq Submission /\ accepted \in Nat
    BY <1>1 DEF Seen, QueueType
  <2>2. QED
    BY <2>1, ReserveAdds DEF QueueInv, Submission
<1>6. ASSUME fault' = "device_lost", NEW s \in outstanding'
      PROVE  \E u \in Threads : pc'[u] = "reserved" /\ s = Own(u)'
  <2>1. CASE s = Own(t)'
    BY <1>1, <1>2, <2>1 DEF ThreadType
  <2>2. CASE s \in outstanding
    <3>1. PICK u \in Threads : pc[u] = "reserved" /\ s = Own(u)
      BY <1>2, <1>6, <2>2 DEF QueueInv
    <3>2. pc'[u] = "reserved" /\ call'[u] = call[u]
      BY <1>1, <1>2, <3>1 DEF ThreadType
    <3>3. QED
      BY <3>1, <3>2 DEF Own
  <2>3. QED
    BY <1>6, <2>1, <2>2, ReserveAdds DEF Seen
<1>7. QED
  BY <1>4, <1>5, <1>6 DEF QueueInv

\* So does a release, whose submission a flush may have taken before it.
LEMMA ReleaseAccounts ==
  ASSUME TypeOK, QueueInv, NEW t \in Threads, Released(t)
  PROVE  QueueInv'
<1>1. /\ Release(t) /\ call' = [call EXCEPT ![t] = NoCall] /\ pc' = [pc EXCEPT ![t] = "idle"]
      /\ UNCHANGED <<fault, accepted>>
  BY DEF Released, LoseDevice, FailCompute, Release, Goto
<1>2. QueueType /\ ThreadType
  BY TypeSplit
<1>3. /\ queued \in Nat /\ queuedBytes \in Nat
      /\ queued <= Cardinality(outstanding) /\ queuedBytes <= BytesOf(outstanding)
      /\ queued' = Monus(queued, 1) /\ queuedBytes' = Monus(queuedBytes, call[t].bytes)
  BY <1>1, <1>2 DEF QueueInv, FlushNeverInvents, QueueType, Release
<1>4. FlushNeverInvents'
  BY <1>1, <1>3, ReleaseTakes DEF FlushNeverInvents, Monus
<1>5. IsFiniteSet(outstanding') /\ \A s \in outstanding' : s.id <= accepted'
  BY <1>1, ReleaseTakes DEF QueueInv
<1>6. ASSUME fault' = "device_lost", NEW s \in outstanding'
      PROVE  \E u \in Threads : pc'[u] = "reserved" /\ s = Own(u)'
  <2>1. s \in outstanding /\ s # Own(t)
    BY <1>1, <1>6, ReleaseTakes
  <2>2. PICK u \in Threads : pc[u] = "reserved" /\ s = Own(u)
    BY <1>1, <1>6, <2>1 DEF QueueInv
  <2>3. pc'[u] = "reserved" /\ call'[u] = call[u]
    BY <1>1, <1>2, <2>1, <2>2 DEF ThreadType
  <2>4. QED
    BY <2>2, <2>3 DEF Own
<1>7. QED
  BY <1>4, <1>5, <1>6 DEF QueueInv

\* An empty queue invents nothing.
LEMMA DrainAccounts ==
  ASSUME TypeOK, QueueInv, NEW t \in Threads, Drained(t)
  PROVE  QueueInv' /\ queued' = 0 /\ queuedBytes' = 0 /\ outstanding' = {}
<1>1. queued' = 0 /\ queuedBytes' = 0 /\ outstanding' = {}
  BY DEF Drained, Flush, RefuseAfterDrain, Drain
<1>2. Total(BytesBy({}), {}) = 0 /\ Cardinality({}) = 0 /\ IsFiniteSet({})
  BY FS_EmptySet, SumSteps
<1>3. FlushNeverInvents'
  BY <1>1, <1>2 DEF FlushNeverInvents, BytesOf, Total, BytesBy
<1>4. QED
  BY <1>1, <1>2, <1>3 DEF QueueInv

\* The queue's invariant is inductive.
LEMMA QueueKept == TypeOK /\ QueueInv /\ [Next]_vars => QueueInv'
<1> SUFFICES ASSUME TypeOK, QueueInv, [Next]_vars
             PROVE  QueueInv'
  OBVIOUS
<1>1. ASSUME NEW t \in Threads, Undisturbed(t)
      PROVE  QueueInv'
  <2>1. /\ UNCHANGED <<queued, queuedBytes, accepted, outstanding, fault>>
        /\ \A u \in Threads \ {t} : pc'[u] = pc[u] /\ call'[u] = call[u]
        /\ pc[t] = "reserved" => fault # "device_lost"
    BY <1>1, UndisturbedQueue
  <2>2. ASSUME fault' = "device_lost", NEW s \in outstanding'
        PROVE  \E u \in Threads : pc'[u] = "reserved" /\ s = Own(u)'
    <3>1. PICK u \in Threads : pc[u] = "reserved" /\ s = Own(u)
      BY <2>1, <2>2 DEF QueueInv
    <3>2. pc'[u] = "reserved" /\ call'[u] = call[u]
      BY <2>1, <2>2, <3>1
    <3>3. QED
      BY <3>1, <3>2 DEF Own
  <2>3. FlushNeverInvents' /\ IsFiniteSet(outstanding') /\ \A s \in outstanding' : s.id <= accepted'
    BY <2>1 DEF QueueInv, FlushNeverInvents, BytesOf
  <2>4. QED
    BY <2>2, <2>3 DEF QueueInv
<1>2. CASE UNCHANGED vars
  BY <1>2 DEF vars, queueVars, threadVars, QueueInv, FlushNeverInvents, BytesOf, Own
<1>3. QED
  BY <1>1, <1>2, QueueCases, ReserveAccounts, ReleaseAccounts, DrainAccounts

\* A new executor has no submission.
LEMMA QueueStarts == Init => QueueInv
<1> SUFFICES ASSUME Init
             PROVE  QueueInv
  OBVIOUS
<1>1. outstanding = {} /\ queued = 0 /\ queuedBytes = 0
  BY DEF Init
<1>2. Total(BytesBy({}), {}) = 0 /\ Cardinality({}) = 0 /\ IsFiniteSet({})
  BY FS_EmptySet, SumSteps
<1>3. QED
  BY <1>1, <1>2 DEF QueueInv, FlushNeverInvents, BytesOf, Total, BytesBy

\* It holds throughout.
LEMMA QueueInvariance == Spec => [](TypeOK /\ QueueInv)
BY QueueStarts, QueueKept, TypeCorrect, PTL DEF Spec

\* However threads reserve, flush and release, flush evidence never counts a submission, or
\* bytes, that were not reserved since the last flush and not released.
THEOREM FlushInventsNothing == Spec => []FlushNeverInvents
<1>1. QueueInv => FlushNeverInvents
  BY DEF QueueInv
<1>2. QED
  BY <1>1, QueueInvariance, PTL

\* Device loss leaves nothing queued behind the calls it failed, whatever flushes came in
\* between them.
THEOREM DeviceLossEmptiesQueue == Spec => []LostDeviceLeavesQueueEmpty
<1>1. ASSUME TypeOK, QueueInv
      PROVE  LostDeviceLeavesQueueEmpty
  <2>1. Total(BytesBy({}), {}) = 0 /\ Cardinality({}) = 0
    BY FS_EmptySet, SumSteps
  <2>2. queued \in Nat /\ queuedBytes \in Nat
    BY <1>1 DEF TypeOK
  <2>3. SUFFICES ASSUME fault = "device_lost", \A t \in Threads : pc[t] = "idle"
                 PROVE  queued = 0 /\ queuedBytes = 0
    BY DEF LostDeviceLeavesQueueEmpty
  <2>4. outstanding = {}
    BY <1>1, <2>3 DEF QueueInv
  <2>5. QED
    BY <1>1, <2>1, <2>2, <2>4 DEF QueueInv, FlushNeverInvents, BytesOf, Total, BytesBy
<1>2. QED
  BY <1>1, QueueInvariance, PTL

-----------------------------------------------------------------------------
(* One thread: nobody comes between the steps of its calls.                *)

Reserving == {"reserved", "computing", "failing"}

\* The submission of the call in progress is still in the queue.
ExactInv(t) == QueueExact /\ (pc[t] \in Reserving => Own(t) \in outstanding)

\* What a step between reservation and release does to its call.
LEMMA UndisturbedCall ==
  ASSUME TypeOK, NEW t \in Threads, Undisturbed(t), pc'[t] \in Reserving
  PROVE  pc[t] \in Reserving /\ Own(t)' = Own(t)
<1>1. ThreadType
  BY TypeSplit
<1> USE <1>1 DEF Undisturbed, queueVars, threadVars, ThreadType, Goto, Reserving, Own
<1>2. CASE (\E h \in Handles : Materialize(t, h)) \/ BeginFixed(t) \/ EndFixed(t)
  BY <1>2 DEF Materialize, BeginFixed, EndFixed
<1>3. CASE BeginCompute(t) \/ BeginCells(t) \/ RefuseOversized(t)
  BY <1>3 DEF BeginCompute, BeginCells, RefuseOversized
<1>4. CASE FindMissing(t) \/ CacheCells(t) \/ CacheFailure(t)
  BY <1>4 DEF FindMissing, CacheCells, CacheFailure
<1>5. CASE \E outcome \in {"error", "unsupported", "complete"} : EndCompute(t, outcome)
  BY <1>5 DEF EndCompute
<1>6. CASE \E outcome \in {"error", "cells"} : EndCells(t, outcome)
  BY <1>6 DEF EndCells
<1>7. CASE PoolAction(t)
  BY <1>7 DEF PoolAction, BeginAllocate, EvictOne, FinishAllocate
<1>8. QED
  BY <1>2, <1>3, <1>4, <1>5, <1>6, <1>7

\* With one thread each release gives back what its own reservation took.
LEMMA ExactKept ==
  ASSUME NEW t, Threads = {t}
  PROVE  TypeOK /\ QueueInv /\ ExactInv(t) /\ [Next]_vars => ExactInv(t)'
<1> SUFFICES ASSUME TypeOK, QueueInv, ExactInv(t), [Next]_vars
             PROVE  ExactInv(t)'
  OBVIOUS
<1>1. QueueType /\ ThreadType /\ t \in Threads
  BY TypeSplit
<1>2. queued = Cardinality(outstanding) /\ queuedBytes = BytesOf(outstanding)
  BY DEF ExactInv, QueueExact
<1>3. Total(BytesBy({}), {}) = 0 /\ Cardinality({}) = 0
  BY FS_EmptySet, SumSteps
<1>4. ASSUME NEW r \in Requests, Reserve(t, r)
      PROVE  ExactInv(t)'
  <2>1. queued' = DepthSeen(r) + 1 /\ queuedBytes' = BytesSeen(r) + r.bytes
    BY <1>4 DEF Reserve
  <2>2. DepthSeen(r) = Cardinality(Seen(r)) /\ BytesSeen(r) = BytesOf(Seen(r))
    BY <1>2, <1>3 DEF DepthSeen, BytesSeen, Seen, BytesOf, Total, BytesBy
  <2>3. QueueExact'
    BY <1>4, <2>1, <2>2, ReserveAdds DEF QueueExact
  <2>4. Own(t)' \in outstanding'
    BY <1>4, ReserveAdds
  <2>5. QED
    BY <2>3, <2>4 DEF ExactInv
<1>5. ASSUME Released(t)
      PROVE  ExactInv(t)'
  <2>1. Release(t) /\ pc[t] \in {"reserved", "failing"} /\ pc' = [pc EXCEPT ![t] = "idle"]
    BY <1>5 DEF Released, LoseDevice, FailCompute, Goto
  <2>2. Own(t) \in outstanding
    BY <2>1 DEF ExactInv, Reserving
  <2>3. queued' = Monus(queued, 1) /\ queuedBytes' = Monus(queuedBytes, call[t].bytes)
    BY <2>1 DEF Release
  <2>4. QueueExact'
    BY <1>2, <2>1, <2>2, <2>3, ReleaseTakes DEF QueueExact, Monus
  <2>5. pc'[t] = "idle"
    BY <1>1, <2>1 DEF ThreadType
  <2>6. QED
    BY <2>4, <2>5 DEF ExactInv, Reserving
<1>6. ASSUME Drained(t)
      PROVE  ExactInv(t)'
  <2>1. queued' = 0 /\ queuedBytes' = 0 /\ outstanding' = {}
    BY <1>1, <1>6, DrainAccounts
  <2>2. pc'[t] = "idle"
    BY <1>6 DEF Drained, Flush, RefuseAfterDrain, threadVars
  <2>3. QED
    BY <1>3, <2>1, <2>2 DEF ExactInv, QueueExact, Reserving, BytesOf, Total, BytesBy
<1>7. ASSUME Undisturbed(t)
      PROVE  ExactInv(t)'
  <2>1. UNCHANGED <<queued, queuedBytes, outstanding>>
    BY <1>1, <1>7, UndisturbedQueue
  <2>2. QueueExact'
    BY <1>2, <2>1 DEF QueueExact, BytesOf
  <2>3. pc'[t] \in Reserving => Own(t)' \in outstanding'
    BY <1>1, <1>7, <2>1, UndisturbedCall DEF ExactInv
  <2>4. QED
    BY <2>2, <2>3 DEF ExactInv
<1>8. CASE UNCHANGED vars
  BY <1>8 DEF vars, queueVars, threadVars, ExactInv, QueueExact, BytesOf, Own
<1>9. QED
  BY <1>4, <1>5, <1>6, <1>7, <1>8, QueueCases

\* It starts so.
LEMMA ExactStarts ==
  ASSUME NEW t, Threads = {t}
  PROVE  Init => ExactInv(t)
<1>1. Total(BytesBy({}), {}) = 0 /\ Cardinality({}) = 0
  BY FS_EmptySet, SumSteps
<1>2. QED
  BY <1>1 DEF Init, ExactInv, QueueExact, Reserving, BytesOf, Total, BytesBy

\* With one thread the queue counts exactly the submissions that await evidence, and their
\* bytes, whatever fails in between.
THEOREM SequentialQueueExact ==
  ASSUME NEW t, Threads = {t}
  PROVE  Spec => []QueueExact
<1>1. Init => ExactInv(t)
  BY ExactStarts
<1>2. TypeOK /\ QueueInv /\ ExactInv(t) /\ [Next]_vars => ExactInv(t)'
  BY ExactKept
<1>3. ExactInv(t) => QueueExact
  BY DEF ExactInv
<1>4. QED
  BY <1>1, <1>2, <1>3, QueueInvariance, PTL DEF Spec

\* So, with auto-flush, a request that fits an empty queue is never refused: where nothing
\* is drained for it the queue is empty or has room.
THEOREM SequentialAutoFlushAdmits ==
  ASSUME NEW t, Threads = {t}, AutoFlush = "on"
  PROVE  Spec => []AutoFlushAdmits
<1>1. ASSUME TypeOK, QueueExact, QueueInv
      PROVE  AutoFlushAdmits
  <2> SUFFICES ASSUME NEW r \in Requests, Admits(0, 0, r), ~Drains(r)
               PROVE  Admits(queued, queuedBytes, r)
    BY DEF AutoFlushAdmits, DepthSeen, BytesSeen
  <2>1. r.bytes \in Nat /\ queued \in Nat /\ queuedBytes \in Nat
    BY <1>1, RequestType DEF TypeOK
  <2>2. CASE queued = 0
    <3>1. outstanding = {}
      BY <1>1, <2>2, FS_EmptySet DEF QueueExact, QueueInv
    <3>2. Total(BytesBy({}), {}) = 0
      BY FS_EmptySet, SumSteps
    <3>3. queuedBytes = 0
      BY <1>1, <3>1, <3>2 DEF QueueExact, BytesOf, Total, BytesBy
    <3>4. QED
      BY <2>2, <3>3
  <2>3. CASE queued > 0
    BY <2>1, <2>3, ModeledAssumption DEF Drains, Admits
  <2>4. QED
    BY <2>1, <2>2, <2>3
<1>2. Spec => []QueueExact
  BY SequentialQueueExact
<1>3. QED
  BY <1>1, <1>2, QueueInvariance, PTL

-----------------------------------------------------------------------------

\* The sections one thread is in.
SectionsOf(t) ==
  (IF section[t] = "fixed" THEN 1 ELSE 0) + (IF pc[t] \in {"computing", "reading"} THEN 1 ELSE 0)

ReadExactInv(t) == internal = SectionsOf(t) /\ ReadbacksExact

\* With one thread an internal section is its own.
LEMMA ReadExactKept ==
  ASSUME NEW t, Threads = {t}
  PROVE  TypeOK /\ ReadExactInv(t) /\ [Next]_vars => ReadExactInv(t)'
<1> SUFFICES ASSUME TypeOK, ReadExactInv(t), [Next]_vars
             PROVE  ReadExactInv(t)'
  OBVIOUS
<1>1. ReadType /\ ThreadType /\ t \in Threads
  BY TypeSplit
<1> USE <1>1 DEF ReadExactInv, SectionsOf, ReadbacksExact, ThreadType, Goto
<1>2. CASE \E r \in Requests : Reserve(t, r) \/ RefuseAfterDrain(t, r)
  BY <1>2 DEF Reserve, RefuseAfterDrain, readVars, threadVars
<1>3. CASE Flush(t) \/ LoseDevice(t) \/ FailCompute(t) \/ RefuseOversized(t)
  BY <1>3 DEF Flush, LoseDevice, FailCompute, RefuseOversized, readVars, threadVars
<1>4. CASE BeginFixed(t) \/ BeginCompute(t) \/ BeginCells(t)
  BY <1>4 DEF BeginFixed, BeginCompute, BeginCells
<1>5. CASE EndFixed(t)
  BY <1>5 DEF EndFixed, Monus
<1>6. CASE \E outcome \in {"error", "unsupported", "complete"} : EndCompute(t, outcome)
  BY <1>6 DEF EndCompute, Monus
<1>7. CASE \E outcome \in {"error", "cells"} : EndCells(t, outcome)
  BY <1>7 DEF EndCells, Monus
<1>8. CASE \E h \in Handles : Materialize(t, h)
  BY <1>8 DEF Materialize, CountRead
<1>9. CASE FindMissing(t) \/ CacheCells(t) \/ CacheFailure(t)
  BY <1>9 DEF FindMissing, CacheCells, CacheFailure, readVars
<1>10. CASE PoolAction(t)
  BY <1>10 DEF PoolAction, BeginAllocate, EvictOne, FinishAllocate, readVars, threadVars
<1>11. CASE UNCHANGED vars
  BY <1>11 DEF vars, readVars, threadVars
<1>12. QED
  BY <1>2, <1>3, <1>4, <1>5, <1>6, <1>7, <1>8, <1>9, <1>10, <1>11, NextCases DEF OtherAction

\* With one thread readbacks counts the first reads of user code and no other.
THEOREM SequentialReadbacksExact ==
  ASSUME NEW t, Threads = {t}
  PROVE  Spec => []ReadbacksExact
<1>1. Init => ReadExactInv(t)
  BY DEF Init, ReadExactInv, SectionsOf, ReadbacksExact
<1>2. TypeOK /\ ReadExactInv(t) /\ [Next]_vars => ReadExactInv(t)'
  BY ReadExactKept
<1>3. ReadExactInv(t) => ReadbacksExact
  BY DEF ReadExactInv
<1>4. QED
  BY <1>1, <1>2, <1>3, TypeCorrect, PTL DEF Spec

-----------------------------------------------------------------------------
(***************************************************************************)
(* Proofs about reading back from the modeled executor, for any number of   *)
(* threads: the pool may evict between the read of a storage, the look at   *)
(* its allocation and the answer its OnceLock keeps.                        *)
(***************************************************************************)

Checking == {"checking", "missing"}

Opened == {h \in Handles : once[h] # "empty"}

Failed == {h \in Handles : once[h] = "failed"}

(* A OnceLock that is running is run by one thread, on a handle given out.  *)
Readers ==
  /\ \A t \in Threads : pc[t] \in Checking =>
       /\ call[t].handle \in Handles /\ call[t].handle <= allocations
       /\ once[call[t].handle] = "running"
  /\ \A t, u \in Threads :
       pc[t] \in Checking /\ pc[u] \in Checking /\ t # u => call[t].handle # call[u].handle

Gone(h) == h <= allocations /\ ~IsActive(h)

(* What a thread finds missing, and what has failed, does not come back.    *)
GoneForGood ==
  fault # "readback" =>
    /\ \A t \in Threads : pc[t] = "missing" => Gone(call[t].handle)
    /\ \A h \in Failed : Gone(h)

ReadInv == Readers /\ GoneForGood /\ ReadOnce

-----------------------------------------------------------------------------
(* The pool.                                                               *)

\* The loop retires and rotates, and an insertion brings a new handle: nothing that is
\* gone becomes active.
LEMMA GoneStays ==
  ASSUME PoolTypeOK, [PoolNext]_poolVars, NEW h \in Nat, Gone(h)
  PROVE  Gone(h)'
<1>1. CASE UNCHANGED <<entries, allocations>>
  BY <1>1 DEF Gone, IsActive
<1>2. CASE Evict
  <2>1. /\ entries \in Seq(Entry) /\ entries # << >> /\ allocations' = allocations
        /\ entries' = Append(Tail(entries), [Head(entries) EXCEPT !.state = "evicted"])
    BY <1>2 DEF Evict, RetireFront, PoolTypeOK
  <2>2. /\ entries' \in Seq(Entry) /\ Len(entries') = Len(entries) /\ Len(entries) \in Nat \ {0}
        /\ \A i \in 1 .. Len(entries) - 1 : entries'[i] = entries[i + 1]
        /\ entries'[Len(entries)].state = "evicted"
    BY <2>1, RotateProperties
  <2>3. ASSUME NEW i \in DOMAIN entries', entries'[i].state = "active", entries'[i].id = h
        PROVE  FALSE
    <3>1. i \in 1 .. Len(entries) /\ i # Len(entries)
      BY <2>2, <2>3
    <3>2. i + 1 \in DOMAIN entries /\ entries[i + 1] = entries'[i]
      BY <2>1, <2>2, <3>1
    <3>3. QED
      BY <2>3, <3>2 DEF Gone, IsActive
  <2>4. QED
    BY <2>1, <2>3 DEF Gone, IsActive
<1>3. CASE FinishInsert
  <2> DEFINE new == [id |-> allocations + 1, bytes |-> need, state |-> "active"]
  <2>1. entries' = Append(entries, new) /\ allocations' = allocations + 1
        /\ entries \in Seq(Entry) /\ allocations \in Nat
    BY <1>3 DEF FinishInsert, PoolTypeOK
  <2>2. ASSUME NEW i \in DOMAIN entries', entries'[i].state = "active", entries'[i].id = h
        PROVE  FALSE
    <3>1. CASE i = Len(entries) + 1
      <4>1. entries'[i].id = allocations + 1
        BY <2>1, <3>1
      <4>2. QED
        BY <2>1, <2>2, <4>1 DEF Gone
    <3>2. CASE i # Len(entries) + 1
      <4>1. i \in DOMAIN entries /\ entries'[i] = entries[i]
        BY <2>1, <3>2
      <4>2. QED
        BY <2>2, <4>1 DEF Gone, IsActive
    <3>3. QED
      BY <3>1, <3>2
  <2>3. QED
    BY <2>1, <2>2 DEF Gone, IsActive
<1>4. QED
  BY <1>1, <1>2, <1>3 DEF PoolNext, BeginInsert, poolVars

\* The handles given out only grow.
LEMMA AllocationsGrow ==
  ASSUME PoolTypeOK, [PoolNext]_poolVars
  PROVE  allocations \in Nat /\ allocations' \in Nat /\ allocations <= allocations'
BY DEF PoolTypeOK, PoolNext, BeginInsert, Evict, FinishInsert, poolVars

-----------------------------------------------------------------------------
(* The steps.                                                              *)

\* A step that reads nothing back.
Elsewhere ==
  /\ UNCHANGED <<fault, once, readbacks, failures>>
  /\ \A u \in Threads : pc'[u] \in Checking => pc'[u] = pc[u] /\ call'[u] = call[u]

\* A step of no reader, and of the pool if of anything, keeps what readers rely on.
LEMMA ElsewhereKeeps ==
  ASSUME TypeOK, ReadInv, [PoolNext]_poolVars, Elsewhere
  PROVE  ReadInv'
<1>1. PoolTypeOK /\ allocations \in Nat /\ allocations' \in Nat /\ allocations <= allocations'
  BY AllocationsGrow DEF TypeOK
<1>2. \A h \in Handles : h \in Nat
  BY PoolAssumption DEF Handles
<1>3. Readers'
  BY <1>1, <1>2 DEF ReadInv, Readers, Elsewhere
<1>4. GoneForGood'
  <2>1. \A k \in Nat : Gone(k) => Gone(k)'
    BY <1>1, GoneStays
  <2>2. ASSUME fault # "readback", NEW t \in Threads, pc'[t] = "missing"
        PROVE  Gone(call[t].handle)'
    <3>1. pc[t] = "missing" /\ call'[t] = call[t]
      BY <2>2 DEF Elsewhere, Checking
    <3>2. Gone(call[t].handle) /\ call[t].handle \in Nat
      BY <1>2, <2>2, <3>1 DEF ReadInv, GoneForGood, Readers, Checking
    <3>3. QED
      BY <2>1, <3>1, <3>2 DEF Gone, IsActive
  <2>3. ASSUME fault # "readback", NEW h \in Failed
        PROVE  Gone(h)'
    BY <1>2, <2>1, <2>3 DEF ReadInv, GoneForGood, Failed
  <2>4. fault' = fault /\ Failed' = Failed
    BY DEF Elsewhere, Failed
  <2>5. QED
    BY <2>2, <2>3, <2>4 DEF GoneForGood
<1>5. ReadOnce'
  BY DEF ReadInv, ReadOnce, Elsewhere
<1>6. QED
  BY <1>3, <1>4, <1>5 DEF ReadInv

\* Every step but those of a reader leaves the storages alone.
LEMMA OtherSteps ==
  ASSUME TypeOK, NEW t \in Threads,
         \/ \E r \in Requests : Reserve(t, r) \/ RefuseAfterDrain(t, r)
         \/ Flush(t) \/ BeginFixed(t) \/ EndFixed(t)
         \/ LoseDevice(t) \/ BeginCompute(t) \/ FailCompute(t) \/ BeginCells(t)
         \/ \E outcome \in {"error", "unsupported", "complete"} : EndCompute(t, outcome)
         \/ \E outcome \in {"error", "cells"} : EndCells(t, outcome)
         \/ RefuseOversized(t) \/ PoolAction(t)
  PROVE  Elsewhere
<1> USE DEF Checking, Elsewhere, Goto
<1>1. pc \in [Threads -> Steps] /\ DOMAIN call = Threads
  BY DEF TypeOK
<1>2. CASE \E r \in Requests : Reserve(t, r) \/ RefuseAfterDrain(t, r)
  BY <1>1, <1>2 DEF Reserve, RefuseAfterDrain, readVars, threadVars
<1>3. CASE Flush(t) \/ BeginFixed(t) \/ EndFixed(t)
  BY <1>3 DEF Flush, BeginFixed, EndFixed, readVars, threadVars
<1>4. CASE LoseDevice(t) \/ BeginCompute(t) \/ FailCompute(t) \/ BeginCells(t)
  BY <1>1, <1>4 DEF LoseDevice, BeginCompute, FailCompute, BeginCells, readVars
<1>5. CASE \E outcome \in {"error", "unsupported", "complete"} : EndCompute(t, outcome)
  BY <1>1, <1>5 DEF EndCompute
<1>6. CASE \E outcome \in {"error", "cells"} : EndCells(t, outcome)
  BY <1>1, <1>6 DEF EndCells
<1>7. CASE RefuseOversized(t)
  BY <1>1, <1>7 DEF RefuseOversized, readVars
<1>8. CASE PoolAction(t)
  BY <1>1, <1>8 DEF PoolAction, BeginAllocate, EvictOne, FinishAllocate, readVars, threadVars
<1>9. QED
  BY <1>2, <1>3, <1>4, <1>5, <1>6, <1>7, <1>8

\* The handles are as many as the allocations.
LEMMA HandleCounts ==
  ASSUME NEW A \in SUBSET Handles, NEW h \in Handles
  PROVE  /\ Cardinality(A) \in Nat
         /\ h \notin A => Cardinality(A \cup {h}) = Cardinality(A) + 1
<1>1. IsFiniteSet(Handles)
  BY PoolAssumption, FS_Interval DEF Handles
<1>2. QED
  BY <1>1, FS_Subset, FS_CardinalityType, FS_AddElement

\* What a reader does to the sets of storages.
LEMMA HandleSets ==
  ASSUME TypeOK, NEW h \in Handles, NEW answer, once' = [once EXCEPT ![h] = answer]
  PROVE  /\ answer # "empty" => Opened' = Opened \cup {h}
         /\ answer = "failed" => Failed' = Failed \cup {h}
         /\ answer # "failed" /\ once[h] # "failed" => Failed' = Failed
<1>1. once'[h] = answer /\ \A g \in Handles \ {h} : once'[g] = once[g]
  BY DEF TypeOK
<1>2. QED
  BY <1>1 DEF Opened, Failed

\* A read begins on a storage nobody has read.
LEMMA MaterializeStep ==
  ASSUME TypeOK, ReadInv, NEW t \in Threads, NEW h \in Handles, Materialize(t, h)
  PROVE  ReadInv'
<1> DEFINE c == [NoCall EXCEPT !.handle = h]
<1>1. c.handle = h
  BY DEF NoCall
<1>2. /\ h <= allocations /\ once[h] = "empty" /\ once' = [once EXCEPT ![h] = "running"]
      /\ pc[t] = "idle" /\ pc' = [pc EXCEPT ![t] = "checking"] /\ call' = [call EXCEPT ![t] = c]
      /\ readbacks' = readbacks \/ readbacks' = readbacks + 1
      /\ UNCHANGED <<fault, failures, poolVars>>
  BY DEF Materialize, Goto, CountRead
<1> HIDE DEF c
<1>3. /\ pc'[t] = "checking" /\ call'[t] = c
      /\ \A u \in Threads \ {t} : pc'[u] = pc[u] /\ call'[u] = call[u]
      /\ once'[h] = "running" /\ \A g \in Handles \ {h} : once'[g] = once[g]
      /\ UNCHANGED <<allocations, entries>>
  BY <1>2 DEF TypeOK, poolVars
<1>4. Readers'
  <2>1. \A u \in Threads \ {t} : pc'[u] \in Checking =>
          /\ call'[u].handle = call[u].handle /\ call[u].handle # h
          /\ call[u].handle \in Handles /\ call[u].handle <= allocations
          /\ once[call[u].handle] = "running"
    BY <1>2, <1>3 DEF ReadInv, Readers
  <2>2. QED
    BY <1>1, <1>2, <1>3, <2>1 DEF ReadInv, Readers
<1>5. GoneForGood'
  <2>1. Failed' = Failed
    BY <1>2, <1>3 DEF Failed
  <2>2. \A k : Gone(k)' = Gone(k)
    BY <1>3 DEF Gone, IsActive
  <2>3. \A u \in Threads : pc'[u] = "missing" => pc[u] = "missing" /\ call'[u] = call[u]
    BY <1>3
  <2>4. QED
    BY <1>2, <1>3, <2>1, <2>3 DEF ReadInv, GoneForGood, Gone, IsActive
<1>6. ReadOnce'
  <2>1. Opened' = Opened \cup {h} /\ h \notin Opened /\ Failed' = Failed
    BY <1>2, <1>3 DEF Opened, Failed
  <2>2. Cardinality(Opened') = Cardinality(Opened) + 1 /\ Cardinality(Opened) \in Nat
    BY <2>1, HandleCounts DEF Opened
  <2>3. readbacks <= Cardinality(Opened) /\ failures = Cardinality(Failed) /\ readbacks \in Nat
    BY DEF ReadInv, ReadOnce, Opened, Failed, TypeOK
  <2>4. readbacks' <= Cardinality(Opened') /\ failures' = Cardinality(Failed')
    BY <1>2, <2>1, <2>2, <2>3
  <2>5. QED
    BY <2>4 DEF ReadOnce, Opened, Failed
<1>7. QED
  BY <1>4, <1>5, <1>6 DEF ReadInv

\* The look at the allocation: what is missing is missing for good.
LEMMA FindMissingStep ==
  ASSUME TypeOK, ReadInv, NEW t \in Threads, FindMissing(t)
  PROVE  ReadInv'
<1>1. /\ Missing(t) \/ fault = "readback"
      /\ pc[t] = "checking" /\ pc' = [pc EXCEPT ![t] = "missing"]
      /\ UNCHANGED <<fault, allocations, entries, once, readbacks, failures, call>>
  BY DEF FindMissing, Goto, poolVars, readVars
<1>2. pc'[t] = "missing" /\ \A u \in Threads \ {t} : pc'[u] = pc[u]
  BY <1>1 DEF TypeOK
<1>3. Readers'
  BY <1>1, <1>2 DEF ReadInv, Readers, Checking
<1>4. GoneForGood'
  <2>1. fault # "readback" => Gone(call[t].handle)
    BY <1>1 DEF Missing, Gone, ReadInv, Readers, Checking
  <2>2. QED
    BY <1>1, <1>2, <2>1 DEF ReadInv, GoneForGood, Failed, Gone, IsActive
<1>5. ReadOnce'
  BY <1>1 DEF ReadInv, ReadOnce
<1>6. QED
  BY <1>3, <1>4, <1>5 DEF ReadInv

\* The OnceLock keeps the cells, or the failure.
LEMMA CacheStep ==
  ASSUME TypeOK, ReadInv, NEW t \in Threads, CacheCells(t) \/ CacheFailure(t)
  PROVE  ReadInv'
<1> DEFINE h == call[t].handle
<1>1. /\ pc' = [pc EXCEPT ![t] = "idle"] /\ call' = [call EXCEPT ![t] = NoCall]
      /\ \/ /\ pc[t] = "checking" /\ once' = [once EXCEPT ![h] = "ready"] /\ failures' = failures
         \/ /\ pc[t] = "missing" /\ once' = [once EXCEPT ![h] = "failed"] /\ failures' = failures + 1
      /\ UNCHANGED <<fault, allocations, entries, readbacks>>
  BY DEF CacheCells, CacheFailure, Goto, poolVars
<1>2. h \in Handles /\ once[h] = "running"
  BY <1>1 DEF ReadInv, Readers, Checking
<1>3. /\ pc'[t] = "idle" /\ \A u \in Threads \ {t} : pc'[u] = pc[u] /\ call'[u] = call[u]
      /\ \A g \in Handles \ {h} : once'[g] = once[g]
  BY <1>1, <1>2 DEF TypeOK
<1>4. Readers'
  <2>1. \A u \in Threads \ {t} : pc'[u] \in Checking => call[u].handle # h
    BY <1>1, <1>3 DEF ReadInv, Readers, Checking
  <2>2. QED
    BY <1>1, <1>3, <2>1 DEF ReadInv, Readers, Checking
<1>5. /\ Opened' = Opened /\ h \notin Failed
      /\ Failed' = IF pc[t] = "missing" THEN Failed \cup {h} ELSE Failed
  <2> HIDE DEF h
  <2>1. h \in Opened /\ h \notin Failed
    BY <1>2 DEF Opened, Failed
  <2>2. QED
    BY <1>1, <1>2, <2>1, HandleSets
<1>6. GoneForGood'
  <2>1. fault # "readback" => \A g \in Failed' : Gone(g)
    BY <1>5 DEF ReadInv, GoneForGood
  <2>2. \A u \in Threads : pc'[u] = "missing" => pc[u] = "missing" /\ call'[u] = call[u]
    BY <1>3
  <2>3. QED
    BY <1>1, <2>1, <2>2 DEF ReadInv, GoneForGood, Gone, IsActive
<1>7. ReadOnce'
  <2> HIDE DEF h
  <2>1. readbacks <= Cardinality(Opened) /\ failures = Cardinality(Failed)
    BY DEF ReadInv, ReadOnce, Opened, Failed
  <2>2. Failed \in SUBSET Handles
    BY DEF Failed
  <2>3. Cardinality(Failed \cup {h}) = Cardinality(Failed) + 1
    BY <1>2, <1>5, <2>2, HandleCounts
  <2>4. readbacks' <= Cardinality(Opened') /\ failures' = Cardinality(Failed')
    BY <1>1, <1>5, <2>1, <2>3
  <2>5. QED
    BY <2>4 DEF ReadOnce, Opened, Failed
<1>8. QED
  BY <1>4, <1>6, <1>7 DEF ReadInv

-----------------------------------------------------------------------------

\* A new executor has read nothing.
LEMMA ReadStarts == Init => ReadInv
<1>1. ASSUME Init PROVE ReadInv
  <2>1. Opened = {} /\ Failed = {} /\ Cardinality({}) = 0
    BY <1>1, FS_EmptySet DEF Init, Opened, Failed
  <2>2. ReadOnce
    BY <1>1, <2>1 DEF Init, ReadOnce, Opened, Failed
  <2>3. Readers /\ GoneForGood
    BY <1>1, <2>1 DEF Init, Readers, GoneForGood, Checking
  <2>4. QED
    BY <2>2, <2>3 DEF ReadInv
<1>2. QED
  BY <1>1

\* Every step keeps the readers apart and what is gone gone.
LEMMA ReadKept == TypeOK /\ AsksForResult /\ ReadInv /\ [Next]_vars => ReadInv'
<1> SUFFICES ASSUME TypeOK, AsksForResult, ReadInv, [Next]_vars
             PROVE  ReadInv'
  OBVIOUS
<1>1. [PoolNext]_poolVars
  BY PoolRefinementStep
<1>2. CASE Elsewhere
  BY <1>1, <1>2, ElsewhereKeeps
<1>3. CASE UNCHANGED vars
  BY <1>2, <1>3 DEF vars, readVars, threadVars, Elsewhere
<1>4. CASE \E t \in Threads : (\E h \in Handles : Materialize(t, h)) \/ FindMissing(t)
                              \/ CacheCells(t) \/ CacheFailure(t)
  BY <1>4, MaterializeStep, FindMissingStep, CacheStep
<1>5. QED
  BY <1>2, <1>3, <1>4, OtherSteps DEF Next, Start, Continue, PoolAction

\* The invariant holds throughout.
LEMMA ReadInvariance == Spec => []ReadInv
BY ReadStarts, ReadKept, TypeAndRequests, PTL DEF Spec

\* A storage is read back at most once, whoever asks for it, and every failure counted
\* is that of one storage.
THEOREM StoragesReadOnce == Spec => []ReadOnce
<1>1. ReadInv => ReadOnce
  BY DEF ReadInv
<1>2. QED
  BY <1>1, ReadInvariance, PTL

\* However the pool and the readers interleave, a storage that failed was evicted, and
\* stays so.
THEOREM FailuresAreEvictions == Spec => []FailureMeansEvicted
<1>1. ReadInv => FailureMeansEvicted
  BY DEF ReadInv, GoneForGood, Failed, Gone, FailureMeansEvicted
<1>2. QED
  BY <1>1, ReadInvariance, PTL
=============================================================================
