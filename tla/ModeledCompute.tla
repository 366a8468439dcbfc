--------------------------- MODULE ModeledCompute ---------------------------
(***************************************************************************)
(* ModeledTensorExecutor (sim-lib-compute-model) shared by several host    *)
(* threads: it is Clone over an Arc<Mutex<ModeledCounters>>, and a request *)
(* takes that lock again and again, so between two of its steps any other  *)
(* thread may run.  One action is one critical section of the lock.  The   *)
(* eviction loop of allocate_resident is the only section that is not one  *)
(* step (see ResidentPool): the other actions wait while `lock` is held.   *)
(*                                                                         *)
(* A request is its byte footprint and the bytes of its result.  What the  *)
(* CPU executor answers is external: any outcome.  Refusals that change    *)
(* nothing (byte counts that overflow, the out-of-memory fault) are no     *)
(* step, and the `tick` counter, which nothing reads, is left out.         *)
(***************************************************************************)
EXTENDS ResidentPool, Integers

CONSTANTS Threads,
          Requests,        \* [bytes, out]: request_bytes and result bytes
          MaxQueueDepth,   \* profile.max_queue_depth
          MaxQueueBytes,   \* profile.max_queue_bytes
          DeadlineTicks,   \* profile.submission_deadline_ticks
          AutoFlush,       \* profile.auto_flush_batches, "on" or "off"
          Faults           \* values of profile.fault, "none" for None

ASSUME ModeledAssumption ==
  /\ Requests \subseteq [bytes : Nat, out : Sizes]
  /\ MaxQueueDepth \in Nat
  /\ MaxQueueBytes \in Nat
  /\ DeadlineTicks \in Nat
  /\ AutoFlush \in {"on", "off"}
  /\ Faults \subseteq {"none", "oom", "device_lost", "readback"}

VARIABLES fault,           \* profile.fault, fixed when the executor is built
          accepted,        \* counters.accepted; also the last submission id
          queued,          \* counters.queued
          queuedBytes,     \* counters.queued_bytes
          batchFlushes,    \* counters.batch_flushes
          internal,        \* counters.internal_materializations
          readbacks,       \* counters.readbacks
          failures,        \* counters.materialization_failures
          once,            \* the OnceLock of each resident storage, by handle
          pc,              \* where each thread is in the call it makes
          call,            \* the submission, request and handle of that call
          section,         \* "fixed": inside a fixed-step ODE execution
          outstanding,     \* history: submissions reserved, in no flush yet
          userReadbacks    \* history: first reads made by user code

queueVars == <<accepted, queued, queuedBytes, batchFlushes, outstanding>>
readVars == <<internal, readbacks, failures, once, userReadbacks>>
threadVars == <<pc, call, section>>
vars == <<fault, poolVars, queueVars, readVars, threadVars>>

Steps == {"idle", "reserved", "computing", "computed", "reading", "read",
          "evicting", "failing", "checking", "missing"}

Handles == 1 .. MaxAllocations

Submission == [id : Nat, bytes : Nat]

NoCall == [id |-> 0, bytes |-> 0, out |-> 0, handle |-> 0]

TypeOK ==
  /\ PoolTypeOK
  /\ fault \in Faults
  /\ accepted \in Nat /\ queued \in Nat /\ queuedBytes \in Nat /\ batchFlushes \in Nat
  /\ internal \in Nat /\ readbacks \in Nat /\ failures \in Nat /\ userReadbacks \in Nat
  /\ once \in [Handles -> {"empty", "running", "ready", "failed"}]
  /\ pc \in [Threads -> Steps]
  /\ call \in [Threads -> [id : Nat, bytes : Nat, out : Nat, handle : Nat]]
  /\ section \in [Threads -> {"none", "fixed"}]
  /\ outstanding \subseteq Submission

Init ==
  /\ PoolInit
  /\ fault \in Faults
  /\ accepted = 0 /\ queued = 0 /\ queuedBytes = 0 /\ batchFlushes = 0
  /\ internal = 0 /\ readbacks = 0 /\ failures = 0 /\ userReadbacks = 0
  /\ once = [h \in Handles |-> "empty"]
  /\ pc = [t \in Threads |-> "idle"]
  /\ call = [t \in Threads |-> NoCall]
  /\ section = [t \in Threads |-> "none"]
  /\ outstanding = {}

Goto(t, from, to) == pc[t] = from /\ pc' = [pc EXCEPT ![t] = to]

Own(t) == [id |-> call[t].id, bytes |-> call[t].bytes]

-----------------------------------------------------------------------------
(* Mutated forms of the operations below.                                  *)

AdmitsAnyBytes(q, bytes, r) == q < MaxQueueDepth /\ DeadlineTicks > 0

DrainsOnDepthOnly(r) == AutoFlush = "on" /\ queued > 0 /\ queued >= MaxQueueDepth

DrainCountOnly == queued' = 0 /\ queuedBytes' = queuedBytes /\ outstanding' = {}

ReleaseUnsaturated(t) ==
  /\ queued' = queued - 1
  /\ queuedBytes' = queuedBytes - call[t].bytes
  /\ outstanding' = outstanding \ {Own(t)}
  /\ UNCHANGED <<accepted, batchFlushes>>

ReleaseBytesOnly(t) ==
  /\ queued' = queued
  /\ queuedBytes' = Monus(queuedBytes, call[t].bytes)
  /\ outstanding' = outstanding \ {Own(t)}
  /\ UNCHANGED <<accepted, batchFlushes>>

ReleaseCountOnly(t) ==
  /\ queued' = Monus(queued, 1)
  /\ queuedBytes' = queuedBytes
  /\ outstanding' = outstanding \ {Own(t)}
  /\ UNCHANGED <<accepted, batchFlushes>>

EvictOneReleases(t) ==
  /\ pc[t] = "evicting"
  /\ lock = "held" /\ NoRoom /\ entries # << >>
  /\ RetireFront
  /\ lock' = "free"
  /\ UNCHANGED <<fault, allocations, need, queueVars, readVars, threadVars>>

CountEveryRead(t) ==
  /\ readbacks' = readbacks + 1
  /\ userReadbacks' = IF section[t] = "none" THEN userReadbacks + 1 ELSE userReadbacks

MissingOffByOne(t) == call[t].handle <= evictions + 1

CacheFailureForRetry(t) ==
  /\ lock = "free"
  /\ Goto(t, "missing", "idle")
  /\ failures' = failures + 1
  /\ once' = [once EXCEPT ![call[t].handle] = "empty"]
  /\ call' = [call EXCEPT ![t] = NoCall]
  /\ UNCHANGED <<fault, poolVars, queueVars, internal, readbacks, userReadbacks, section>>

-----------------------------------------------------------------------------
(* The submission queue.                                                   *)

\* Auto-flush drains the queue before the limits are looked at.
Drains(r) ==
  /\ AutoFlush = "on"
  /\ queued > 0
  /\ queued >= MaxQueueDepth \/ queuedBytes + r.bytes > MaxQueueBytes

\* The three limits of reserve_submission, on a queue of q submissions.
Admits(q, bytes, r) ==
  /\ q < MaxQueueDepth
  /\ bytes + r.bytes <= MaxQueueBytes
  /\ DeadlineTicks > 0

DepthSeen(r) == IF Drains(r) THEN 0 ELSE queued
BytesSeen(r) == IF Drains(r) THEN 0 ELSE queuedBytes

Drain == queued' = 0 /\ queuedBytes' = 0 /\ outstanding' = {}

Reserve(t, r) ==
  /\ lock = "free"
  /\ fault # "oom"
  /\ accepted < MaxAllocations
  /\ Admits(DepthSeen(r), BytesSeen(r), r)
  /\ Goto(t, "idle", "reserved")
  /\ accepted' = accepted + 1
  /\ queued' = DepthSeen(r) + 1
  /\ queuedBytes' = BytesSeen(r) + r.bytes
  /\ batchFlushes' = IF Drains(r) THEN batchFlushes + 1 ELSE batchFlushes
  /\ LET mine == [id |-> accepted + 1, bytes |-> r.bytes]
     IN  outstanding' = IF Drains(r) THEN {mine} ELSE outstanding \cup {mine}
  /\ call' = [call EXCEPT ![t] = [id |-> accepted + 1, bytes |-> r.bytes,
                                  out |-> r.out, handle |-> 0]]
  /\ UNCHANGED <<fault, poolVars, readVars, section>>

\* A refusal still drains the queue when auto-flush ran first.
RefuseAfterDrain(t, r) ==
  /\ lock = "free"
  /\ fault # "oom"
  /\ pc[t] = "idle"
  /\ Drains(r) /\ ~Admits(0, 0, r)
  /\ Drain
  /\ batchFlushes' = batchFlushes + 1
  /\ UNCHANGED <<fault, poolVars, readVars, threadVars, accepted>>

\* release_submission: whatever the queue holds by now.
Release(t) ==
  /\ queued' = Monus(queued, 1)
  /\ queuedBytes' = Monus(queuedBytes, call[t].bytes)
  /\ outstanding' = outstanding \ {Own(t)}
  /\ UNCHANGED <<accepted, batchFlushes>>

Flush(t) ==
  /\ lock = "free"
  /\ pc[t] = "idle"
  /\ Drain
  /\ UNCHANGED <<fault, poolVars, readVars, threadVars, accepted, batchFlushes>>

-----------------------------------------------------------------------------
(* The rest of execute.                                                    *)

LoseDevice(t) ==
  /\ lock = "free"
  /\ fault = "device_lost"
  /\ Goto(t, "reserved", "idle")
  /\ Release(t)
  /\ call' = [call EXCEPT ![t] = NoCall]
  /\ UNCHANGED <<fault, poolVars, readVars, section>>

BeginCompute(t) ==
  /\ lock = "free"
  /\ fault # "device_lost"
  /\ Goto(t, "reserved", "computing")
  /\ internal' = internal + 1
  /\ UNCHANGED <<fault, poolVars, queueVars, readbacks, failures, once, userReadbacks, call, section>>

\* The CPU executor answered.  An Unsupported answer is returned as it is.
EndCompute(t, outcome) ==
  /\ lock = "free"
  /\ pc[t] = "computing"
  /\ pc' = [pc EXCEPT ![t] = CASE outcome = "error" -> "failing"
                               [] outcome = "unsupported" -> "idle"
                               [] outcome = "complete" -> "computed"]
  /\ call' = [call EXCEPT ![t] = IF outcome = "unsupported" THEN NoCall ELSE @]
  /\ internal' = Monus(internal, 1)
  /\ UNCHANGED <<fault, poolVars, queueVars, readbacks, failures, once, userReadbacks, section>>

FailCompute(t) ==
  /\ lock = "free"
  /\ Goto(t, "failing", "idle")
  /\ Release(t)
  /\ call' = [call EXCEPT ![t] = NoCall]
  /\ UNCHANGED <<fault, poolVars, readVars, section>>

BeginCells(t) ==
  /\ lock = "free"
  /\ Goto(t, "computed", "reading")
  /\ internal' = internal + 1
  /\ UNCHANGED <<fault, poolVars, queueVars, readbacks, failures, once, userReadbacks, call, section>>

\* Cells that cannot be read end the call; its reservation is not released.
EndCells(t, outcome) ==
  /\ lock = "free"
  /\ pc[t] = "reading"
  /\ pc' = [pc EXCEPT ![t] = IF outcome = "error" THEN "idle" ELSE "read"]
  /\ call' = [call EXCEPT ![t] = IF outcome = "error" THEN NoCall ELSE @]
  /\ internal' = Monus(internal, 1)
  /\ UNCHANGED <<fault, poolVars, queueVars, readbacks, failures, once, userReadbacks, section>>

\* A result larger than the pool ends the call the same way, without the lock.
RefuseOversized(t) ==
  /\ call[t].out > Capacity
  /\ Goto(t, "read", "idle")
  /\ call' = [call EXCEPT ![t] = NoCall]
  /\ UNCHANGED <<fault, poolVars, queueVars, readVars, section>>

BeginAllocate(t) ==
  /\ Goto(t, "read", "evicting")
  /\ BeginInsert(call[t].out)
  /\ UNCHANGED <<fault, queueVars, readVars, call, section>>

EvictOne(t) ==
  /\ pc[t] = "evicting"
  /\ Evict
  /\ UNCHANGED <<fault, queueVars, readVars, threadVars>>

\* Stores the result; completed and resident_allocations rise together.
FinishAllocate(t) ==
  /\ Goto(t, "evicting", "idle")
  /\ FinishInsert
  /\ call' = [call EXCEPT ![t] = NoCall]
  /\ UNCHANGED <<fault, queueVars, readVars, section>>

-----------------------------------------------------------------------------
(* Reading a resident storage: get_or_init runs its closure once.          *)

CountRead(t) ==
  /\ readbacks' = IF internal > 0 THEN readbacks ELSE readbacks + 1
  /\ userReadbacks' = IF section[t] = "none" THEN userReadbacks + 1 ELSE userReadbacks

Materialize(t, h) ==
  /\ lock = "free"
  /\ h <= allocations
  /\ once[h] = "empty"
  /\ Goto(t, "idle", "checking")
  /\ once' = [once EXCEPT ![h] = "running"]
  /\ call' = [call EXCEPT ![t] = [NoCall EXCEPT !.handle = h]]
  /\ CountRead(t)
  /\ UNCHANGED <<fault, poolVars, queueVars, internal, failures, section>>

Missing(t) == ~IsActive(call[t].handle)

FindMissing(t) ==
  /\ lock = "free"
  /\ Missing(t) \/ fault = "readback"
  /\ Goto(t, "checking", "missing")
  /\ UNCHANGED <<fault, poolVars, queueVars, readVars, call, section>>

CacheCells(t) ==
  /\ lock = "free"
  /\ ~Missing(t) /\ fault # "readback"
  /\ Goto(t, "checking", "idle")
  /\ once' = [once EXCEPT ![call[t].handle] = "ready"]
  /\ call' = [call EXCEPT ![t] = NoCall]
  /\ UNCHANGED <<fault, poolVars, queueVars, internal, readbacks, failures, userReadbacks, section>>

CacheFailure(t) ==
  /\ lock = "free"
  /\ Goto(t, "missing", "idle")
  /\ failures' = failures + 1
  /\ once' = [once EXCEPT ![call[t].handle] = "failed"]
  /\ call' = [call EXCEPT ![t] = NoCall]
  /\ UNCHANGED <<fault, poolVars, queueVars, internal, readbacks, userReadbacks, section>>

\* ResidentOdeExecutor::execute wraps a fixed-step plan in an internal section.
BeginFixed(t) ==
  /\ lock = "free"
  /\ pc[t] = "idle" /\ section[t] = "none"
  /\ section' = [section EXCEPT ![t] = "fixed"]
  /\ internal' = internal + 1
  /\ UNCHANGED <<fault, poolVars, queueVars, readbacks, failures, once, userReadbacks, pc, call>>

EndFixed(t) ==
  /\ lock = "free"
  /\ pc[t] = "idle" /\ section[t] = "fixed"
  /\ section' = [section EXCEPT ![t] = "none"]
  /\ internal' = Monus(internal, 1)
  /\ UNCHANGED <<fault, poolVars, queueVars, readbacks, failures, once, userReadbacks, pc, call>>

-----------------------------------------------------------------------------
\* What a thread may start, and what it does once it has started it.
Start(t) ==
  \/ \E r \in Requests : Reserve(t, r) \/ RefuseAfterDrain(t, r)
  \/ \E h \in Handles : Materialize(t, h)
  \/ Flush(t)
  \/ BeginFixed(t)
  \/ EndFixed(t)

Continue(t) ==
  \/ LoseDevice(t)
  \/ BeginCompute(t)
  \/ \E outcome \in {"error", "unsupported", "complete"} : EndCompute(t, outcome)
  \/ FailCompute(t)
  \/ BeginCells(t)
  \/ \E outcome \in {"error", "cells"} : EndCells(t, outcome)
  \/ RefuseOversized(t)
  \/ BeginAllocate(t)
  \/ EvictOne(t)
  \/ FinishAllocate(t)
  \/ FindMissing(t)
  \/ CacheCells(t)
  \/ CacheFailure(t)

Next == \E t \in Threads : Start(t) \/ Continue(t)

Spec == Init /\ [][Next]_vars

\* A thread inside a call is scheduled and keeps running.
FairSpec == Spec /\ \A t \in Threads : WF_vars(Continue(t))
=============================================================================
