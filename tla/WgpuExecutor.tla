---------------------------- MODULE WgpuExecutor ----------------------------
(***************************************************************************)
(* WgpuTensorExecutor (site.rs) and the resident storages it makes, shared *)
(* by several host threads.  The executor state (pipeline cache, arena and *)
(* queue counters) is behind one mutex and the physical counters behind    *)
(* another; execute takes the first three times and lets go of it between  *)
(* the limits it looks at and the submission it counts.                    *)
(*                                                                         *)
(* Bytes are counted in cells.  The largest buffer the device granted is   *)
(* both the arena's ceiling and the queue's byte limit: Capacity.  The     *)
(* device is external: a readback succeeds or not.  Requests have at most  *)
(* one resident input, and those refused before anything is read or        *)
(* submitted are no step.  The host fallback of execute is left out: every *)
(* operation kernel_op knows is pointwise, a reduction or linalg.          *)
(***************************************************************************)
EXTENDS BoundedArena, WgpuPipelineCache, Integers

CONSTANTS Threads,
          Requests,    \* [kind, bytes, key] of a TensorRequest
          MaxNodes     \* limits.max_nodes of check_submission_limits

Kinds == {"pointwise", "broadcast", "reduction", "empty", "linalg"}

ASSUME ExecutorAssumption ==
  /\ Capacity >= 1
  /\ Requests \subseteq [kind : Kinds, bytes : Sizes, key : Keys]
  /\ MaxNodes \in Nat \ {0}
  /\ IsFiniteSet(Threads)
  /\ MaxAllocations <= MaxLookups

VARIABLES queued, queuedBytes, accepted,
          submissions, fullReadbacks, scalarSyncs,   \* WgpuPhysicalCounters
          once,        \* the OnceLock of each resident storage, by allocation
          pc, call,    \* where each thread is, in which call
          calls,       \* history: requests that passed the limits
          flushed,     \* history: submissions reported by flushes
          submitted    \* history: calls of wgpu::Queue::submit

queueVars == <<queued, queuedBytes, accepted, flushed>>
physicalVars == <<submissions, fullReadbacks, scalarSyncs, submitted>>
threadVars == <<pc, call, calls>>
vars == <<arenaVars, cacheVars, queueVars, physicalVars, once, threadVars>>

Handles == 1 .. MaxAllocations

Steps == {"idle", "checked", "prepared", "compiled", "syncing", "submitted", "recorded",
          "copying", "copied", "mapping"}

\* The request of a call and its resident input; a "read" only reads the input.
Call == [kind : Kinds \cup {"read", "none"}, bytes : Nat, key : Keys \cup {"none"},
         input : Handles \cup {0}]

NoCall == [kind |-> "none", bytes |-> 0, key |-> "none", input |-> 0]

TypeOK ==
  /\ live \in Seq(LiveAllocation) /\ nextId \in Nat
  /\ CacheTypeOK
  /\ queued \in Nat /\ queuedBytes \in Nat /\ accepted \in Nat /\ flushed \in Nat
  /\ submissions \in Nat /\ fullReadbacks \in Nat /\ scalarSyncs \in Nat /\ submitted \in Nat
  /\ once \in [Handles -> {"empty", "running", "ready", "failed"}]
  /\ pc \in [Threads -> Steps]
  /\ call \in [Threads -> Call]
  /\ calls \in Nat

Init ==
  /\ ArenaInit
  /\ CacheInit
  /\ queued = 0 /\ queuedBytes = 0 /\ accepted = 0 /\ flushed = 0
  /\ submissions = 0 /\ fullReadbacks = 0 /\ scalarSyncs = 0 /\ submitted = 0
  /\ once = [h \in Handles |-> "empty"]
  /\ pc = [t \in Threads |-> "idle"]
  /\ call = [t \in Threads |-> NoCall]
  /\ calls = 0

Goto(t, from, to) == pc[t] = from /\ pc' = [pc EXCEPT ![t] = to]

Done(t) == call' = [call EXCEPT ![t] = NoCall]

\* A dispatch that read its input goes on with the cells.
GoesOn(t, outcome) == call[t].kind # "read" /\ outcome = "ready"

Charge(bytes) == IF bytes = 0 THEN 1 ELSE bytes    \* bytes.max(4)

-----------------------------------------------------------------------------
(* Mutated forms of the operations below.                                  *)

WithinLimitsDepthOnly(bytes) == queued < MaxNodes

WithinLimitsOffByOne(bytes) == queued <= MaxNodes /\ queuedBytes + bytes <= Capacity

FlushReportsAccepted(t) ==
  /\ pc[t] = "idle"
  /\ queued' = 0 /\ queuedBytes' = 0
  /\ flushed' = flushed + accepted
  /\ UNCHANGED <<arenaVars, cacheVars, accepted, physicalVars, once, threadVars>>

SubmitPointwiseUncounted(t) ==
  /\ call[t].kind \in {"pointwise", "broadcast"}
  /\ Goto(t, "compiled", "recorded")
  /\ submitted' = submitted + 1
  /\ UNCHANGED <<arenaVars, cacheVars, queueVars, submissions, fullReadbacks, scalarSyncs,
                 once, call, calls>>

EndReadForRetry(t, outcome) ==
  /\ pc[t] = "mapping"
  /\ once' = [once EXCEPT ![call[t].input] = IF outcome = "ready" THEN "ready" ELSE "empty"]
  /\ pc' = [pc EXCEPT ![t] = IF GoesOn(t, outcome) THEN "prepared" ELSE "idle"]
  /\ call' = [call EXCEPT ![t] = IF GoesOn(t, outcome) THEN @ ELSE NoCall]
  /\ UNCHANGED <<arenaVars, cacheVars, queueVars, physicalVars, calls>>

EndReadUnset(t, outcome) ==
  /\ pc[t] = "mapping"
  /\ once' = [once EXCEPT ![call[t].input] = IF outcome = "ready" THEN "ready" ELSE @]
  /\ pc' = [pc EXCEPT ![t] = IF GoesOn(t, outcome) THEN "prepared" ELSE "idle"]
  /\ call' = [call EXCEPT ![t] = IF GoesOn(t, outcome) THEN @ ELSE NoCall]
  /\ UNCHANGED <<arenaVars, cacheVars, queueVars, physicalVars, calls>>

-----------------------------------------------------------------------------
(* execute, up to the dispatch.                                            *)

WithinLimits(bytes) == queued < MaxNodes /\ queuedBytes + bytes <= Capacity

CheckLimits(t, r, input) ==
  /\ calls < MaxAllocations
  /\ WithinLimits(r.bytes)
  /\ Goto(t, "idle", "checked")
  /\ call' = [call EXCEPT ![t] = [kind |-> r.kind, bytes |-> r.bytes, key |-> r.key, input |-> input]]
  /\ calls' = calls + 1
  /\ UNCHANGED <<arenaVars, cacheVars, queueVars, physicalVars, once>>

\* A pointwise dispatch binds a resident input of this device as it is, unless
\* it has to be broadcast; a reduction of no cells reads nothing; all others
\* read the cells.
NeedsRead(t) == call[t].input # 0 /\ call[t].kind \in {"broadcast", "reduction", "linalg"}

Prepare(t) ==
  /\ ~NeedsRead(t)
  /\ Goto(t, "checked", "prepared")
  /\ UNCHANGED <<arenaVars, cacheVars, queueVars, physicalVars, once, call, calls>>

\* The input was read before: its OnceLock answers.
TakeCells(t) ==
  /\ NeedsRead(t)
  /\ once[call[t].input] = "ready"
  /\ Goto(t, "checked", "prepared")
  /\ UNCHANGED <<arenaVars, cacheVars, queueVars, physicalVars, once, call, calls>>

TakeFailure(t) ==
  /\ NeedsRead(t)
  /\ once[call[t].input] = "failed"
  /\ Goto(t, "checked", "idle")
  /\ Done(t)
  /\ UNCHANGED <<arenaVars, cacheVars, queueVars, physicalVars, once, calls>>

ReadInput(t) ==
  /\ NeedsRead(t)
  /\ once[call[t].input] = "empty"
  /\ Goto(t, "checked", "copying")
  /\ once' = [once EXCEPT ![call[t].input] = "running"]
  /\ fullReadbacks' = fullReadbacks + 1
  /\ UNCHANGED <<arenaVars, cacheVars, queueVars, submissions, scalarSyncs, submitted, call, calls>>

\* Cells that are no numbers, or more of them than one binding or one dispatch
\* can hold, end the call; nothing is checked after the pipeline is there.
Refuse(t) ==
  /\ call[t].kind # "empty"
  /\ Goto(t, "prepared", "idle")
  /\ Done(t)
  /\ UNCHANGED <<arenaVars, cacheVars, queueVars, physicalVars, once, calls>>

GetPipeline(t) ==
  /\ Goto(t, "prepared", "compiled")
  /\ GetOrInsertCompiled(call[t].key)
  /\ UNCHANGED <<arenaVars, queueVars, physicalVars, once, call, calls>>

-----------------------------------------------------------------------------
(* The dispatch, and the accounting after it.                              *)

SubmitPointwise(t) ==
  /\ call[t].kind \in {"pointwise", "broadcast"}
  /\ Goto(t, "compiled", "submitted")
  /\ submitted' = submitted + 1
  /\ UNCHANGED <<arenaVars, cacheVars, queueVars, submissions, fullReadbacks, scalarSyncs,
                 once, call, calls>>

SubmitLinalg(t) ==
  /\ call[t].kind = "linalg"
  /\ Goto(t, "compiled", "submitted")
  /\ submitted' = submitted + 1
  /\ UNCHANGED <<arenaVars, cacheVars, queueVars, submissions, fullReadbacks, scalarSyncs,
                 once, call, calls>>

SubmitReduction(t) ==
  /\ call[t].kind = "reduction"
  /\ Goto(t, "compiled", "syncing")
  /\ submitted' = submitted + 1
  /\ UNCHANGED <<arenaVars, cacheVars, queueVars, submissions, fullReadbacks, scalarSyncs,
                 once, call, calls>>

\* The partials of a reduction are read back; an error there ends the call.
SyncScalar(t, outcome) ==
  /\ pc[t] = "syncing"
  /\ scalarSyncs' = scalarSyncs + 1
  /\ pc' = [pc EXCEPT ![t] = IF outcome = "ready" THEN "submitted" ELSE "idle"]
  /\ call' = [call EXCEPT ![t] = IF outcome = "ready" THEN @ ELSE NoCall]
  /\ UNCHANGED <<arenaVars, cacheVars, queueVars, submissions, fullReadbacks, submitted, once, calls>>

\* The sum of no cells is a scalar written from the host: nothing is submitted.
UploadZero(t) ==
  /\ call[t].kind = "empty"
  /\ Goto(t, "compiled", "submitted")
  /\ UNCHANGED <<arenaVars, cacheVars, queueVars, physicalVars, once, call, calls>>

RecordSubmit(t) ==
  /\ Goto(t, "submitted", "recorded")
  /\ submissions' = submissions + 1
  /\ UNCHANGED <<arenaVars, cacheVars, queueVars, fullReadbacks, scalarSyncs, submitted,
                 once, call, calls>>

\* The second critical section; the limits are not looked at again.  Its early
\* return, the arena's refusal, is never taken: see CheckedFits.
Commit(t) ==
  /\ Goto(t, "recorded", "idle")
  /\ Allocate(Charge(call[t].bytes))
  /\ queued' = queued + 1
  /\ queuedBytes' = queuedBytes + call[t].bytes
  /\ accepted' = accepted + 1
  /\ Done(t)
  /\ UNCHANGED <<cacheVars, flushed, physicalVars, once, calls>>

Flush(t) ==
  /\ pc[t] = "idle"
  /\ queued' = 0 /\ queuedBytes' = 0
  /\ flushed' = flushed + queued
  /\ UNCHANGED <<arenaVars, cacheVars, accepted, physicalVars, once, threadVars>>

-----------------------------------------------------------------------------
(* Materialization of a resident storage; the arena is never asked.        *)

Read(t, h) ==
  /\ h <= nextId
  /\ once[h] = "empty"
  /\ Goto(t, "idle", "copying")
  /\ call' = [call EXCEPT ![t] = [NoCall EXCEPT !.kind = "read", !.input = h]]
  /\ once' = [once EXCEPT ![h] = "running"]
  /\ fullReadbacks' = fullReadbacks + 1
  /\ UNCHANGED <<arenaVars, cacheVars, queueVars, submissions, scalarSyncs, submitted, calls>>

SubmitCopy(t) ==
  /\ Goto(t, "copying", "copied")
  /\ submitted' = submitted + 1
  /\ UNCHANGED <<arenaVars, cacheVars, queueVars, submissions, fullReadbacks, scalarSyncs,
                 once, call, calls>>

RecordCopy(t) ==
  /\ Goto(t, "copied", "mapping")
  /\ submissions' = submissions + 1
  /\ UNCHANGED <<arenaVars, cacheVars, queueVars, fullReadbacks, scalarSyncs, submitted,
                 once, call, calls>>

EndRead(t, outcome) ==
  /\ pc[t] = "mapping"
  /\ once' = [once EXCEPT ![call[t].input] = outcome]
  /\ pc' = [pc EXCEPT ![t] = IF GoesOn(t, outcome) THEN "prepared" ELSE "idle"]
  /\ call' = [call EXCEPT ![t] = IF GoesOn(t, outcome) THEN @ ELSE NoCall]
  /\ UNCHANGED <<arenaVars, cacheVars, queueVars, physicalVars, calls>>

-----------------------------------------------------------------------------
Start(t) ==
  \/ \E r \in Requests, input \in Handles \cup {0} : input <= nextId /\ CheckLimits(t, r, input)
  \/ \E h \in Handles : Read(t, h)
  \/ Flush(t)

Continue(t) ==
  \/ Prepare(t)
  \/ TakeCells(t)
  \/ TakeFailure(t)
  \/ ReadInput(t)
  \/ Refuse(t)
  \/ GetPipeline(t)
  \/ SubmitPointwise(t)
  \/ SubmitLinalg(t)
  \/ SubmitReduction(t)
  \/ \E outcome \in {"ready", "failed"} : SyncScalar(t, outcome) \/ EndRead(t, outcome)
  \/ UploadZero(t)
  \/ RecordSubmit(t)
  \/ Commit(t)
  \/ SubmitCopy(t)
  \/ RecordCopy(t)

Next == \E t \in Threads : Start(t) \/ Continue(t)

Spec == Init /\ [][Next]_vars

\* A thread inside a call is scheduled, and the device answers it.
FairSpec == Spec /\ \A t \in Threads : WF_vars(Continue(t))
=============================================================================
