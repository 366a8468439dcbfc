----------------------- MODULE WgpuExecutorProperties -----------------------
(***************************************************************************)
(* What the wgpu executor owes its callers, and what its evidence says.    *)
(***************************************************************************)
EXTENDS WgpuExecutor

\* Calls past the limits of check_submission_limits, not yet counted.
InFlight == {t \in Threads : pc[t] # "idle" /\ call[t].kind # "read"}

\* The node limit of check_submission_limits (WgpuQueueLimits::max_nodes,
\* "Maximum queued nodes").
QueueWithinLimits == queued <= MaxNodes

\* Threads that passed the limits together may all be counted, but no more than
\* that: the depth overshoots by less than one submission per thread.
DepthOvershoot == queued < MaxNodes + Cardinality(Threads)

\* What passed the queue's byte limit fits the arena: the refusal of allocate,
\* after the device has done the work, cannot happen.
CheckedFits == \A t \in InFlight : Charge(call[t].bytes) <= Capacity

\* Every accepted submission is reported by exactly one flush, or still queued.
FlushReportsOnce == flushed + queued = accepted

\* The physical evidence covers all work: the accepted submissions and the
\* finished readbacks have been recorded by the time they can be seen, and what
\* the device queue was given without being recorded belongs to a readback in
\* progress or to a call that was not accepted.
EvidenceCoversWork ==
  /\ submissions >= accepted + Cardinality({h \in Handles : once[h] \in {"ready", "failed"}})
  /\ submitted <= submissions + (calls - accepted)
                    + Cardinality({h \in Handles : once[h] = "running"})

\* A storage is read back once, by a caller or by a dispatch that needs its
\* cells, and keeps what it answered.
ReadOnce == fullReadbacks = Cardinality({h \in Handles : once[h] # "empty"})

\* Every call returns, also one that waits for the thread reading its input.
CallsReturn == \A t \in Threads : pc[t] # "idle" ~> pc[t] = "idle"
=============================================================================
