---------------------- MODULE ModeledComputeProperties ----------------------
(***************************************************************************)
(* What the modeled executor owes its callers.                             *)
(***************************************************************************)
EXTENDS ModeledCompute, FiniteSets, Functions

BytesOf(submissions) == SumFunctionOnSet([s \in submissions |-> s.bytes], submissions)

-----------------------------------------------------------------------------
(* The queue.                                                              *)

\* The queue respects max_queue_depth and max_queue_bytes whoever interleaves
\* with whom (reserve_submission looks and reserves under one lock).
QueueBounded == queued <= MaxQueueDepth /\ queuedBytes <= MaxQueueBytes

\* Flush evidence may miss submissions but never invents one: the queue counts
\* no more submissions, and no more bytes, than were reserved since the last
\* flush and not released.
FlushNeverInvents ==
  /\ queued <= Cardinality(outstanding)
  /\ queuedBytes <= BytesOf(outstanding)

\* With one thread the queue is exactly the submissions that await evidence:
\* each release gives back what its own reserve took.
QueueExact ==
  /\ queued = Cardinality(outstanding)
  /\ queuedBytes = BytesOf(outstanding)

\* With auto-flush a request that fits an empty queue is never refused.
AutoFlushAdmits ==
  \A r \in Requests : Admits(0, 0, r) => Admits(DepthSeen(r), BytesSeen(r), r)

\* When every submission fails by device loss, nothing stays queued once the
\* calls have returned, whatever flushes came in between.
LostDeviceLeavesQueueEmpty ==
  fault = "device_lost" /\ (\A t \in Threads : pc[t] = "idle") => queued = 0 /\ queuedBytes = 0

-----------------------------------------------------------------------------
(* Reading back.                                                           *)

\* Each storage is read back at most once, and each failure is one storage.
ReadOnce ==
  /\ readbacks <= Cardinality({h \in Handles : once[h] # "empty"})
  /\ failures = Cardinality({h \in Handles : once[h] = "failed"})

\* Without a readback fault a storage only fails when its allocation is gone
\* for good.
FailureMeansEvicted ==
  \A h \in Handles : once[h] = "failed" /\ fault # "readback" => ~IsActive(h)

\* readbacks counts the first reads made outside internal sections.
ReadbacksExact == readbacks = userReadbacks

-----------------------------------------------------------------------------
\* The executor runs the pool of ResidentPool.
RunsPool == PoolSpec

\* Every call returns: no step of it waits for another call forever.
CallsReturn == \A t \in Threads : pc[t] # "idle" ~> pc[t] = "idle"
=============================================================================
