------------------------- MODULE WgpuExecutorProofs -------------------------
(***************************************************************************)
(* Proofs about the wgpu executor, for any number of threads: its queue,   *)
(* then its physical evidence.  A submission is looked at in one critical  *)
(* section and counted in another; the invariant of the queue therefore    *)
(* speaks of the calls in between.                                         *)
(***************************************************************************)
EXTENDS WgpuExecutorProperties, FiniteSetTheorems, TLAPS

Dispatching == {"checked", "prepared", "compiled", "syncing", "submitted", "recorded"}

\* Where the threads are, and that only dispatches are counted.
ThreadInv ==
  /\ pc \in [Threads -> Steps]
  /\ call \in [Threads -> Call]
  /\ \A t \in Threads : pc[t] \in Dispatching => call[t].kind # "read"

CountersInv ==
  /\ queued \in Nat /\ queuedBytes \in Nat /\ accepted \in Nat /\ flushed \in Nat
  /\ flushed + queued = accepted

\* The strengthening of DepthOvershoot: whoever is past the limits will be
\* counted, so what is promised to them must fit too.
PromiseInv == queued + Cardinality(InFlight) < MaxNodes + Cardinality(Threads)

IInv == ThreadInv /\ CountersInv /\ PromiseInv /\ CheckedFits

\* A step that neither counts nor admits a submission.
Quiet ==
  /\ UNCHANGED <<queued, queuedBytes, accepted, flushed>>
  /\ InFlight' \subseteq InFlight
  /\ \A s \in InFlight' : call'[s] = call[s]

\* Sets of threads are finite and no larger than all of them.
LEMMA InFlightFinite ==
  ASSUME NEW S \in SUBSET Threads
  PROVE  /\ IsFiniteSet(S)
         /\ Cardinality(S) \in Nat
         /\ Cardinality(Threads) \in Nat
         /\ Cardinality(S) <= Cardinality(Threads)
BY ExecutorAssumption, FS_Subset, FS_CardinalityType

\* A step of one thread that leaves its call alone or ends it, and the queue
\* alone, is quiet when the thread stays inside the calls it was in.
LEMMA OneThreadQuiet ==
  ASSUME ThreadInv, NEW t \in Threads, NEW step \in Steps, NEW c \in Call,
         pc' = [pc EXCEPT ![t] = step],
         call' = [call EXCEPT ![t] = c],
         c = call[t] \/ step = "idle",
         pc[t] # "idle",
         step \in Dispatching => c.kind # "read",
         UNCHANGED queueVars
  PROVE  Quiet /\ ThreadInv'
<1>1. /\ \A s \in Threads \ {t} : pc'[s] = pc[s] /\ call'[s] = call[s]
      /\ pc'[t] = step /\ call'[t] = c
      /\ pc' \in [Threads -> Steps] /\ call' \in [Threads -> Call]
  BY DEF ThreadInv
<1>2. \A s \in InFlight' : s \in Threads /\ pc'[s] # "idle" /\ call'[s].kind # "read"
  BY DEF InFlight
<1>3. \A s \in InFlight' : call'[s] = call[s] /\ s \in InFlight
  BY <1>1, <1>2 DEF InFlight
<1>4. ThreadInv'
  BY <1>1 DEF ThreadInv
<1> QED BY <1>3, <1>4 DEF Quiet, queueVars

\* Every step of a call but the second critical section is quiet.
LEMMA ContinueCases ==
  ASSUME ThreadInv, NEW t \in Threads, Continue(t)
  PROVE  Commit(t) \/ (Quiet /\ ThreadInv')
<1> USE DEF Goto, Done, Steps, Dispatching
<1>t. /\ call[t] \in Call /\ NoCall \in Call
      /\ pc[t] \in Dispatching => call[t].kind # "read"
      /\ [call EXCEPT ![t] = call[t]] = call
  BY DEF ThreadInv, Call, NoCall
<1>1. CASE Prepare(t)
  <2> QED BY <1>1, <1>t, OneThreadQuiet DEF Prepare
<1>2. CASE TakeCells(t)
  <2> QED BY <1>2, <1>t, OneThreadQuiet DEF TakeCells
<1>3. CASE TakeFailure(t)
  <2> QED BY <1>3, <1>t, OneThreadQuiet DEF TakeFailure
<1>13. CASE Refuse(t)
  <2> QED BY <1>13, <1>t, OneThreadQuiet DEF Refuse
<1>4. CASE ReadInput(t)
  <2> QED BY <1>4, <1>t, OneThreadQuiet DEF ReadInput
<1>5. CASE GetPipeline(t)
  <2> QED BY <1>5, <1>t, OneThreadQuiet DEF GetPipeline
<1>6. CASE SubmitPointwise(t) \/ SubmitLinalg(t)
  <2> QED BY <1>6, <1>t, OneThreadQuiet DEF SubmitPointwise, SubmitLinalg
<1>7. CASE SubmitReduction(t)
  <2> QED BY <1>7, <1>t, OneThreadQuiet DEF SubmitReduction
<1>8. ASSUME NEW outcome \in {"ready", "failed"}, SyncScalar(t, outcome)
      PROVE  Quiet /\ ThreadInv'
  <2>1. CASE outcome = "ready"
    BY <1>8, <2>1, <1>t, OneThreadQuiet DEF SyncScalar
  <2>2. CASE outcome # "ready"
    BY <1>8, <2>2, <1>t, OneThreadQuiet DEF SyncScalar
  <2> QED BY <2>1, <2>2
<1>9. ASSUME NEW outcome \in {"ready", "failed"}, EndRead(t, outcome)
      PROVE  Quiet /\ ThreadInv'
  <2>1. CASE GoesOn(t, outcome)
    BY <1>9, <2>1, <1>t, OneThreadQuiet DEF EndRead, GoesOn
  <2>2. CASE ~GoesOn(t, outcome)
    BY <1>9, <2>2, <1>t, OneThreadQuiet DEF EndRead
  <2> QED BY <2>1, <2>2
<1>10. CASE UploadZero(t)
  <2> QED BY <1>10, <1>t, OneThreadQuiet DEF UploadZero
<1>11. CASE RecordSubmit(t)
  <2> QED BY <1>11, <1>t, OneThreadQuiet DEF RecordSubmit
<1>12. CASE SubmitCopy(t) \/ RecordCopy(t)
  <2> QED BY <1>12, <1>t, OneThreadQuiet DEF SubmitCopy, RecordCopy
<1> QED BY <1>1, <1>2, <1>3, <1>4, <1>5, <1>6, <1>7, <1>8, <1>9, <1>10, <1>11, <1>12, <1>13
        DEF Continue

\* A read by a caller starts a call that will not be counted.
LEMMA ReadQuiet ==
  ASSUME ThreadInv, NEW t \in Threads, NEW h \in Handles, Read(t, h)
  PROVE  Quiet /\ ThreadInv'
<1> DEFINE c == [NoCall EXCEPT !.kind = "read", !.input = h]
<1>1. c \in Call /\ c.kind = "read"
  BY DEF NoCall, Call
<1>2. pc' = [pc EXCEPT ![t] = "copying"] /\ call' = [call EXCEPT ![t] = c]
  BY DEF Read, Goto
<1>3. /\ \A s \in Threads \ {t} : pc'[s] = pc[s] /\ call'[s] = call[s]
      /\ pc'[t] = "copying" /\ call'[t] = c
      /\ pc' \in [Threads -> Steps] /\ call' \in [Threads -> Call]
  BY <1>1, <1>2 DEF ThreadInv, Steps
<1> HIDE DEF c
<1>4. \A s \in InFlight' : call'[s] = call[s] /\ s \in InFlight
  BY <1>1, <1>3 DEF InFlight
<1>5. ThreadInv'
  BY <1>1, <1>3 DEF ThreadInv, Dispatching
<1> QED BY <1>4, <1>5 DEF Quiet, queueVars, Read

\* Quiet steps keep everything else.
LEMMA QuietKeeps ==
  ASSUME IInv, Quiet, ThreadInv'
  PROVE  IInv'
<1>1. Cardinality(InFlight') <= Cardinality(InFlight)
  <2>1. InFlight \in SUBSET Threads
    BY DEF InFlight
  <2> QED BY <2>1, InFlightFinite, FS_Subset DEF Quiet
<1>2. /\ Cardinality(InFlight) \in Nat /\ Cardinality(InFlight') \in Nat
      /\ Cardinality(Threads) \in Nat
  <2>1. InFlight \in SUBSET Threads /\ InFlight' \in SUBSET Threads
    BY DEF InFlight
  <2> QED BY <2>1, InFlightFinite
<1>3. PromiseInv'
  BY <1>1, <1>2, ExecutorAssumption DEF IInv, PromiseInv, CountersInv, Quiet
<1>4. CheckedFits'
  BY DEF IInv, CheckedFits, Quiet
<1>5. CountersInv'
  BY DEF IInv, CountersInv, Quiet
<1> QED BY <1>3, <1>4, <1>5 DEF IInv

\* Admission: the limits leave room for one more, whoever else was admitted.
LEMMA CheckLimitsKeeps ==
  ASSUME IInv, NEW t \in Threads, NEW r \in Requests, NEW input \in Handles \cup {0},
         CheckLimits(t, r, input)
  PROVE  IInv'
<1> DEFINE c == [kind |-> r.kind, bytes |-> r.bytes, key |-> r.key, input |-> input]
<1>1. /\ c \in Call /\ c.kind # "read" /\ c.bytes = r.bytes /\ r.bytes \in Nat
  <2>1. r \in [kind : Kinds, bytes : Sizes, key : Keys]
    BY ExecutorAssumption
  <2> QED BY <2>1, ArenaAssumption DEF Call, Kinds
<1>2. /\ pc' = [pc EXCEPT ![t] = "checked"] /\ call' = [call EXCEPT ![t] = c]
      /\ queued < MaxNodes /\ queuedBytes + r.bytes <= Capacity
      /\ UNCHANGED <<queued, queuedBytes, accepted, flushed>>
  BY DEF CheckLimits, Goto, WithinLimits, queueVars
<1> HIDE DEF c
<1>3. /\ \A s \in Threads \ {t} : pc'[s] = pc[s] /\ call'[s] = call[s]
      /\ pc'[t] = "checked" /\ call'[t] = c
      /\ pc' \in [Threads -> Steps] /\ call' \in [Threads -> Call]
  BY <1>1, <1>2 DEF IInv, ThreadInv, Steps
<1>4. ThreadInv'
  BY <1>1, <1>3 DEF IInv, ThreadInv
<1>5. CountersInv'
  BY <1>2 DEF IInv, CountersInv
<1>6. PromiseInv'
  <2>1. InFlight' \in SUBSET Threads
    BY DEF InFlight
  <2>2. /\ Cardinality(InFlight') <= Cardinality(Threads)
        /\ Cardinality(InFlight') \in Nat /\ Cardinality(Threads) \in Nat
    BY <2>1, InFlightFinite
  <2> QED BY <1>2, <2>2, ExecutorAssumption DEF IInv, CountersInv, PromiseInv
<1>7. CheckedFits'
  <2>1. Charge(r.bytes) <= Capacity
    BY <1>1, <1>2, ExecutorAssumption, ArenaAssumption DEF Charge, IInv, CountersInv
  <2> SUFFICES ASSUME NEW s \in InFlight' PROVE Charge(call'[s].bytes) <= Capacity
    BY DEF CheckedFits, Charge
  <2>2. CASE s = t
    BY <2>1, <2>2, <1>1, <1>3
  <2>3. CASE s # t
    <3>1. s \in InFlight /\ call'[s] = call[s]
      BY <2>3, <1>3 DEF InFlight
    <3> QED BY <3>1 DEF IInv, CheckedFits
  <2> QED BY <2>2, <2>3
<1> QED BY <1>4, <1>5, <1>6, <1>7 DEF IInv

\* Counting: the caller leaves the calls in flight as the queue takes it in.
LEMMA CommitKeeps ==
  ASSUME IInv, NEW t \in Threads, Commit(t)
  PROVE  IInv'
<1>1. /\ pc[t] = "recorded" /\ pc' = [pc EXCEPT ![t] = "idle"]
      /\ call' = [call EXCEPT ![t] = NoCall]
      /\ queued' = queued + 1 /\ queuedBytes' = queuedBytes + call[t].bytes
      /\ accepted' = accepted + 1 /\ flushed' = flushed
  BY DEF Commit, Goto, Done
<1>2. NoCall \in Call /\ NoCall.kind # "read" /\ call[t] \in Call /\ call[t].bytes \in Nat
  BY DEF NoCall, Call, IInv, ThreadInv
<1>3. /\ \A s \in Threads \ {t} : pc'[s] = pc[s] /\ call'[s] = call[s]
      /\ pc'[t] = "idle" /\ call'[t] = NoCall
      /\ pc' \in [Threads -> Steps] /\ call' \in [Threads -> Call]
  BY <1>1, <1>2 DEF IInv, ThreadInv, Steps
<1>4. ThreadInv'
  BY <1>2, <1>3 DEF IInv, ThreadInv
<1>5. CountersInv'
  BY <1>1, <1>2 DEF IInv, CountersInv
<1>6. t \in InFlight /\ InFlight' = InFlight \ {t}
  <2>1. t \in InFlight
    BY <1>1 DEF InFlight, IInv, ThreadInv, Dispatching
  <2>2. \A s \in InFlight' : s \in InFlight /\ s # t
    BY <1>3 DEF InFlight
  <2>3. \A s \in InFlight \ {t} : s \in InFlight'
    BY <1>3 DEF InFlight
  <2> QED BY <2>1, <2>2, <2>3
<1>7. PromiseInv'
  <2>1. InFlight \in SUBSET Threads /\ InFlight' \in SUBSET Threads
    BY DEF InFlight
  <2>2. /\ Cardinality(InFlight') = Cardinality(InFlight) - 1
        /\ Cardinality(InFlight) \in Nat /\ Cardinality(Threads) \in Nat
    BY <2>1, <1>6, InFlightFinite, FS_RemoveElement
  <2> QED BY <1>1, <2>2, ExecutorAssumption DEF IInv, CountersInv, PromiseInv
<1>8. CheckedFits'
  <2>a. \A s \in InFlight' : s \in InFlight /\ s # t
    BY <1>6
  <2>b. InFlight \subseteq Threads
    BY DEF InFlight
  <2>1. \A s \in InFlight' : s \in InFlight /\ call'[s] = call[s]
    BY <1>3, <2>a, <2>b
  <2> QED BY <2>1 DEF IInv, CheckedFits
<1> QED BY <1>4, <1>5, <1>7, <1>8 DEF IInv

\* A flush reports what is queued and leaves the promises standing.
LEMMA FlushKeeps ==
  ASSUME IInv, NEW t \in Threads, Flush(t)
  PROVE  IInv'
<1>1. /\ queued' = 0 /\ queuedBytes' = 0 /\ flushed' = flushed + queued /\ accepted' = accepted
      /\ UNCHANGED <<pc, call>>
  BY DEF Flush, threadVars
<1>2. ThreadInv' /\ InFlight' = InFlight
  BY <1>1 DEF IInv, ThreadInv, InFlight
<1>3. CountersInv'
  BY <1>1 DEF IInv, CountersInv
<1>4. CheckedFits'
  BY <1>1, <1>2 DEF IInv, CheckedFits
<1>5. PromiseInv'
  <2>1. InFlight \in SUBSET Threads
    BY DEF InFlight
  <2>2. Cardinality(InFlight) <= Cardinality(Threads)
        /\ Cardinality(InFlight) \in Nat /\ Cardinality(Threads) \in Nat
    BY <2>1, InFlightFinite
  <2> QED BY <1>1, <1>2, <2>2, ExecutorAssumption DEF IInv, CountersInv, PromiseInv
<1> QED BY <1>2, <1>3, <1>4, <1>5 DEF IInv

\* No step breaks the invariant.
LEMMA StepKeeps ==
  ASSUME IInv, [Next]_vars
  PROVE  IInv'
<1>1. CASE UNCHANGED vars
  <2>1. Quiet /\ ThreadInv'
    BY <1>1 DEF vars, queueVars, threadVars, Quiet, InFlight, IInv, ThreadInv
  <2> QED BY <2>1, QuietKeeps
<1>2. ASSUME NEW t \in Threads, Start(t)
      PROVE  IInv'
  <2>1. CASE Flush(t)
    BY <2>1, FlushKeeps
  <2>2. ASSUME NEW h \in Handles, Read(t, h) PROVE IInv'
    <3>1. Quiet /\ ThreadInv'
      BY <2>2, ReadQuiet DEF IInv
    <3> QED BY <3>1, QuietKeeps
  <2>3. ASSUME NEW r \in Requests, NEW input \in Handles \cup {0}, CheckLimits(t, r, input)
        PROVE  IInv'
    BY <2>3, CheckLimitsKeeps
  <2> QED BY <1>2, <2>1, <2>2, <2>3 DEF Start
<1>3. ASSUME NEW t \in Threads, Continue(t)
      PROVE  IInv'
  <2>1. Commit(t) \/ (Quiet /\ ThreadInv')
    BY <1>3, ContinueCases DEF IInv
  <2> QED BY <2>1, CommitKeeps, QuietKeeps
<1> QED BY <1>1, <1>2, <1>3 DEF Next

\* The invariant holds at first.
LEMMA InitEstablishes == Init => IInv
<1> SUFFICES ASSUME Init PROVE IInv
  OBVIOUS
<1>1. ThreadInv
  BY DEF Init, ThreadInv, Steps, Call, NoCall, Dispatching
<1>2. InFlight = {}
  BY DEF Init, InFlight
<1>3. PromiseInv
  <2>1. Cardinality({}) = 0
    BY FS_EmptySet
  <2>2. Cardinality(Threads) \in Nat
    BY InFlightFinite
  <2> QED BY <1>2, <2>1, <2>2, ExecutorAssumption DEF PromiseInv, Init
<1> QED BY <1>1, <1>2, <1>3 DEF IInv, CountersInv, CheckedFits, Init

\* The invariant holds at all times.
LEMMA Invariance == Spec => []IInv
BY InitEstablishes, StepKeeps, PTL DEF Spec

\* However many threads share the executor, they overshoot the node limit by
\* less than one submission each: the limits are looked at once per call.
THEOREM DepthOvershootBounded == Spec => []DepthOvershoot
<1>1. IInv => DepthOvershoot
  <2>1. InFlight \in SUBSET Threads
    BY DEF InFlight
  <2>2. Cardinality(InFlight) \in Nat /\ Cardinality(Threads) \in Nat
    BY <2>1, InFlightFinite
  <2> QED BY <2>2, ExecutorAssumption DEF IInv, PromiseInv, CountersInv, DepthOvershoot
<1> QED BY <1>1, Invariance, PTL

\* flush() reports every accepted submission exactly once.
THEOREM FlushesAddUp == Spec => []FlushReportsOnce
<1>1. IInv => FlushReportsOnce
  BY DEF IInv, CountersInv, FlushReportsOnce
<1> QED BY <1>1, Invariance, PTL

\* A request that passed the limits fits the arena: execute never fails after
\* the device did the work.
THEOREM CheckedRequestsFit == Spec => []CheckedFits
<1>1. IInv => CheckedFits
  BY DEF IInv
<1> QED BY <1>1, Invariance, PTL

-----------------------------------------------------------------------------
(***************************************************************************)
(* Proofs about the physical evidence of the wgpu executor and about its    *)
(* readbacks, for any number of threads.  A submission and its record are   *)
(* steps of their own, so the invariants count the threads in between.      *)
(***************************************************************************)

Reading == {"copying", "copied", "mapping"}

Answers == {"ready", "failed"}

Answered == {h \in Handles : once[h] \in Answers}

Running == {h \in Handles : once[h] = "running"}

Opened == {h \in Handles : once[h] # "empty"}

EvidenceTypes ==
  /\ once \in [Handles -> {"empty", "running"} \cup Answers]
  /\ submissions \in Nat /\ fullReadbacks \in Nat /\ submitted \in Nat /\ calls \in Nat

(* A OnceLock that is running is run by one thread.                         *)
Readers ==
  /\ \A t \in Threads : pc[t] \in Reading =>
       call[t].input \in Handles /\ once[call[t].input] = "running"
  /\ \A t, u \in Threads :
       pc[t] \in Reading /\ pc[u] \in Reading /\ t # u => call[t].input # call[u].input

(* Recorded, but not to be seen yet.                                        *)
Counted == {t \in Threads : pc[t] \in {"recorded", "mapping"}}

RecordedFirst == submissions >= accepted + Cardinality(Answered) + Cardinality(Counted)

(* Calls that have yet to submit, or have recorded what they submitted.     *)
Settled ==
  {t \in Threads : call[t].kind # "read" /\
     pc[t] \in {"checked", "prepared", "compiled", "recorded"} \cup Reading}

(* Readbacks that have yet to submit, or have recorded what they submitted. *)
Copying == {t \in Threads : pc[t] \in {"copying", "mapping"}}

Covered ==
  submitted + Cardinality(Settled) + Cardinality(Copying)
    <= submissions + (calls - accepted) + Cardinality(Running)

EvidenceInv == EvidenceTypes /\ Readers /\ ReadOnce /\ RecordedFirst /\ Covered

-----------------------------------------------------------------------------
(* Counting.                                                               *)

\* Two sets that agree but for one element.
LEMMA OneMember ==
  ASSUME NEW T, IsFiniteSet(T), NEW e \in T, NEW A \in SUBSET T, NEW B \in SUBSET T,
         \A x \in T \ {e} : x \in A <=> x \in B
  PROVE  /\ Cardinality(A) \in Nat /\ Cardinality(B) \in Nat
         /\ e \in A /\ e \notin B => Cardinality(B) = Cardinality(A) - 1
         /\ e \notin A /\ e \in B => Cardinality(B) = Cardinality(A) + 1
         /\ (e \in A <=> e \in B) => Cardinality(B) = Cardinality(A)
<1>1. IsFiniteSet(A) /\ IsFiniteSet(B)
  BY FS_Subset
<1>2. Cardinality(A) \in Nat /\ Cardinality(B) \in Nat
  BY <1>1, FS_CardinalityType
<1>3. ASSUME e \in A, e \notin B PROVE Cardinality(B) = Cardinality(A) - 1
  <2>1. B = A \ {e}
    BY <1>3
  <2>2. QED
    BY <1>1, <1>3, <2>1, FS_RemoveElement
<1>4. ASSUME e \notin A, e \in B PROVE Cardinality(B) = Cardinality(A) + 1
  <2>1. B = A \cup {e}
    BY <1>4
  <2>2. QED
    BY <1>1, <1>4, <2>1, FS_AddElement
<1>5. ASSUME e \in A <=> e \in B PROVE Cardinality(B) = Cardinality(A)
  <2>1. A = B
    BY <1>5
  <2>2. QED
    BY <2>1
<1>6. QED
  BY <1>2, <1>3, <1>4, <1>5

\* The handles are as many as the allocations.
LEMMA HandlesFinite == IsFiniteSet(Handles)
BY ArenaAssumption, FS_Interval DEF Handles

\* What a step of one thread does to the sets of threads.
Alone(t) == \A s \in Threads \ {t} : pc'[s] = pc[s] /\ call'[s] = call[s]

\* What one thread's step does to the number of threads at a stage.
LEMMA ThreadSets ==
  ASSUME NEW t \in Threads, Alone(t)
  PROVE  /\ Cardinality(Counted) \in Nat /\ Cardinality(Counted') \in Nat
         /\ Cardinality(Settled) \in Nat /\ Cardinality(Settled') \in Nat
         /\ Cardinality(Copying) \in Nat /\ Cardinality(Copying') \in Nat
         /\ t \in Counted /\ t \notin Counted' => Cardinality(Counted') = Cardinality(Counted) - 1
         /\ t \notin Counted /\ t \in Counted' => Cardinality(Counted') = Cardinality(Counted) + 1
         /\ (t \in Counted <=> t \in Counted') => Cardinality(Counted') = Cardinality(Counted)
         /\ t \in Settled /\ t \notin Settled' => Cardinality(Settled') = Cardinality(Settled) - 1
         /\ t \notin Settled /\ t \in Settled' => Cardinality(Settled') = Cardinality(Settled) + 1
         /\ (t \in Settled <=> t \in Settled') => Cardinality(Settled') = Cardinality(Settled)
         /\ t \in Copying /\ t \notin Copying' => Cardinality(Copying') = Cardinality(Copying) - 1
         /\ t \notin Copying /\ t \in Copying' => Cardinality(Copying') = Cardinality(Copying) + 1
         /\ (t \in Copying <=> t \in Copying') => Cardinality(Copying') = Cardinality(Copying)
<1>1. /\ Counted \in SUBSET Threads /\ Counted' \in SUBSET Threads
      /\ \A s \in Threads \ {t} : s \in Counted <=> s \in Counted'
  BY DEF Alone, Counted
<1>2. /\ Settled \in SUBSET Threads /\ Settled' \in SUBSET Threads
      /\ \A s \in Threads \ {t} : s \in Settled <=> s \in Settled'
  BY DEF Alone, Settled
<1>3. /\ Copying \in SUBSET Threads /\ Copying' \in SUBSET Threads
      /\ \A s \in Threads \ {t} : s \in Copying <=> s \in Copying'
  BY DEF Alone, Copying
<1> HIDE DEF Counted, Settled, Copying
<1>4. IsFiniteSet(Threads)
  BY ExecutorAssumption
<1>5. QED
  BY <1>1, <1>2, <1>3, <1>4, OneMember

\* What a step on one handle does to the sets of handles.
LEMMA HandleSets ==
  ASSUME NEW h \in Handles, \A g \in Handles \ {h} : once'[g] = once[g]
  PROVE  /\ Cardinality(Answered) \in Nat /\ Cardinality(Answered') \in Nat
         /\ Cardinality(Running) \in Nat /\ Cardinality(Running') \in Nat
         /\ Cardinality(Opened) \in Nat /\ Cardinality(Opened') \in Nat
         /\ h \notin Answered /\ h \in Answered' => Cardinality(Answered') = Cardinality(Answered) + 1
         /\ (h \in Answered <=> h \in Answered') => Cardinality(Answered') = Cardinality(Answered)
         /\ h \in Running /\ h \notin Running' => Cardinality(Running') = Cardinality(Running) - 1
         /\ h \notin Running /\ h \in Running' => Cardinality(Running') = Cardinality(Running) + 1
         /\ h \notin Opened /\ h \in Opened' => Cardinality(Opened') = Cardinality(Opened) + 1
         /\ (h \in Opened <=> h \in Opened') => Cardinality(Opened') = Cardinality(Opened)
<1>1. /\ Answered \in SUBSET Handles /\ Answered' \in SUBSET Handles
      /\ \A g \in Handles \ {h} : g \in Answered <=> g \in Answered'
  BY DEF Answered
<1>2. /\ Running \in SUBSET Handles /\ Running' \in SUBSET Handles
      /\ \A g \in Handles \ {h} : g \in Running <=> g \in Running'
  BY DEF Running
<1>3. /\ Opened \in SUBSET Handles /\ Opened' \in SUBSET Handles
      /\ \A g \in Handles \ {h} : g \in Opened <=> g \in Opened'
  BY DEF Opened
<1> HIDE DEF Answered, Running, Opened, Handles
<1>4. QED
  BY <1>1, <1>2, <1>3, HandlesFinite, OneMember

\* With no OnceLock touched the sets of handles stay.
LEMMA HandlesStay ==
  ASSUME UNCHANGED once
  PROVE  /\ Answered' = Answered /\ Running' = Running /\ Opened' = Opened
         /\ Cardinality(Answered) \in Nat /\ Cardinality(Running) \in Nat
         /\ Cardinality(Opened) \in Nat
<1>1. Answered' = Answered /\ Running' = Running /\ Opened' = Opened
  BY DEF Answered, Running, Opened
<1>2. Answered \in SUBSET Handles /\ Running \in SUBSET Handles /\ Opened \in SUBSET Handles
  BY DEF Answered, Running, Opened
<1>3. QED
  BY <1>1, <1>2, HandlesFinite, FS_Subset, FS_CardinalityType

-----------------------------------------------------------------------------
(* The steps.                                                              *)

\* A step that reads nothing keeps the readers apart.
LEMMA ReadersStay ==
  ASSUME Readers, NEW t \in Threads, Alone(t), UNCHANGED once,
         pc'[t] \in Reading => pc[t] \in Reading /\ call'[t] = call[t]
  PROVE  Readers'
BY DEF Readers, Alone

\* What a thread past the limits does that touches no OnceLock.
LEMMA DispatchStep ==
  ASSUME IInv, EvidenceInv, NEW t \in Threads, Alone(t), UNCHANGED once, UNCHANGED fullReadbacks,
         calls' = calls, submissions' \in Nat, submitted' \in Nat, accepted \in Nat,
         accepted' \in Nat,
         pc'[t] \in Reading => pc[t] \in Reading /\ call'[t] = call[t],
         \/ /\ UNCHANGED <<submissions, submitted, accepted>>
            /\ t \in Counted' => t \in Counted
            /\ t \in Settled' => t \in Settled
            /\ t \in Copying' => t \in Copying
         \/ /\ submitted' = submitted + 1 /\ UNCHANGED <<submissions, accepted>>
            /\ t \in Counted' => t \in Counted
            /\ \/ t \in Settled /\ t \notin Settled' /\ (t \in Copying' => t \in Copying)
               \/ t \in Copying /\ t \notin Copying' /\ (t \in Settled' => t \in Settled)
         \/ /\ submissions' = submissions + 1 /\ UNCHANGED <<submitted, accepted>>
            /\ \/ t \in Settled' => t \in Settled
               \/ t \in Copying' => t \in Copying
         \/ /\ accepted' = accepted + 1 /\ UNCHANGED <<submissions, submitted>>
            /\ t \in Counted /\ t \notin Counted'
            /\ t \in Settled /\ t \notin Settled'
            /\ t \in Copying' => t \in Copying
  PROVE  EvidenceInv'
<1>1. EvidenceTypes'
  BY DEF EvidenceInv, EvidenceTypes
<1>2. Readers'
  BY ReadersStay DEF EvidenceInv
<1>3. ReadOnce'
  BY DEF EvidenceInv, ReadOnce
<1>4. RecordedFirst'
  BY ThreadSets, HandlesStay DEF EvidenceInv, EvidenceTypes, RecordedFirst
<1>5. Covered'
  BY ThreadSets, HandlesStay DEF EvidenceInv, EvidenceTypes, Covered
<1>6. QED
  BY <1>1, <1>2, <1>3, <1>4, <1>5 DEF EvidenceInv

\* A dispatch, from the limits to the accounting, seen from the other threads.
LEMMA Moves ==
  ASSUME ThreadInv, NEW t \in Threads, NEW place, NEW c,
         pc' = [pc EXCEPT ![t] = place], call' = [call EXCEPT ![t] = c]
  PROVE  Alone(t) /\ pc'[t] = place /\ call'[t] = c
BY DEF ThreadInv, Alone

\* A thread that moves on moves alone.
LEMMA MovesOn ==
  ASSUME ThreadInv, NEW t \in Threads, NEW place, pc' = [pc EXCEPT ![t] = place], UNCHANGED call
  PROVE  Alone(t) /\ pc'[t] = place /\ call'[t] = call[t]
BY DEF ThreadInv, Alone

\* Steps of a call that leave the counters alone.
LEMMA SilentStep ==
  ASSUME IInv, EvidenceInv, NEW t \in Threads,
         \/ Prepare(t) \/ TakeCells(t) \/ TakeFailure(t) \/ Refuse(t) \/ GetPipeline(t)
         \/ UploadZero(t)
  PROVE  EvidenceInv'
<1>1. /\ UNCHANGED <<once, fullReadbacks, calls, submissions, submitted, accepted>>
      /\ Alone(t) /\ pc'[t] \in {"idle", "prepared", "compiled", "submitted"}
      /\ pc'[t] = "prepared" => pc[t] = "checked" /\ call'[t] = call[t]
      /\ pc'[t] = "compiled" => pc[t] = "prepared" /\ call'[t] = call[t]
  BY Moves, MovesOn
     DEF IInv, Prepare, TakeCells, TakeFailure, Refuse, GetPipeline, UploadZero, Goto, Done,
         queueVars, physicalVars
<1>2. accepted \in Nat /\ submissions \in Nat /\ submitted \in Nat
  BY DEF IInv, CountersInv, EvidenceInv, EvidenceTypes
<1>3. /\ t \in Counted' => t \in Counted
      /\ t \in Settled' => t \in Settled
      /\ t \in Copying' => t \in Copying
  BY <1>1 DEF Counted, Settled, Copying, Reading
<1>4. QED
  BY <1>1, <1>2, <1>3, DispatchStep DEF Reading

\* Steps that give the device queue something, for a request or for a readback.
LEMMA SubmitStep ==
  ASSUME IInv, EvidenceInv, NEW t \in Threads,
         SubmitPointwise(t) \/ SubmitLinalg(t) \/ SubmitReduction(t) \/ SubmitCopy(t)
  PROVE  EvidenceInv'
<1>1. /\ UNCHANGED <<once, fullReadbacks, calls, submissions, accepted, call>>
      /\ submitted' = submitted + 1
      /\ Alone(t) /\ call'[t] = call[t]
      /\ \/ pc[t] = "compiled" /\ pc'[t] \in {"submitted", "syncing"}
         \/ pc[t] = "copying" /\ pc'[t] = "copied"
  BY MovesOn
     DEF IInv, SubmitPointwise, SubmitLinalg, SubmitReduction, SubmitCopy, Goto, queueVars
<1>2. accepted \in Nat /\ submissions \in Nat /\ submitted \in Nat
  BY DEF IInv, CountersInv, EvidenceInv, EvidenceTypes
<1>3. pc[t] = "compiled" => call[t].kind # "read"
  BY DEF IInv, ThreadInv, Dispatching
<1>4. /\ t \in Counted' => t \in Counted
      /\ \/ t \in Settled /\ t \notin Settled' /\ (t \in Copying' => t \in Copying)
         \/ t \in Copying /\ t \notin Copying' /\ (t \in Settled' => t \in Settled)
  BY <1>1, <1>3 DEF Counted, Settled, Copying, Reading
<1>5. QED
  BY <1>1, <1>2, <1>4, DispatchStep DEF Reading

\* Steps that record what was submitted.
LEMMA RecordStep ==
  ASSUME IInv, EvidenceInv, NEW t \in Threads, RecordSubmit(t) \/ RecordCopy(t)
  PROVE  EvidenceInv'
<1>1. /\ UNCHANGED <<once, fullReadbacks, calls, submitted, accepted, call>>
      /\ submissions' = submissions + 1
      /\ Alone(t) /\ call'[t] = call[t]
      /\ \/ pc[t] = "submitted" /\ pc'[t] = "recorded"
         \/ pc[t] = "copied" /\ pc'[t] = "mapping"
  BY MovesOn DEF IInv, RecordSubmit, RecordCopy, Goto, queueVars
<1>2. accepted \in Nat /\ submissions \in Nat /\ submitted \in Nat
  BY DEF IInv, CountersInv, EvidenceInv, EvidenceTypes
<1>3. (t \in Settled' => t \in Settled) \/ (t \in Copying' => t \in Copying)
  BY <1>1 DEF Settled, Copying, Reading
<1>4. QED
  BY <1>1, <1>2, <1>3, DispatchStep DEF Reading

\* A reduction whose partials are read back, or not.
LEMMA SyncStep ==
  ASSUME IInv, EvidenceInv, NEW t \in Threads, NEW outcome \in Answers, SyncScalar(t, outcome)
  PROVE  EvidenceInv'
<1>1. /\ UNCHANGED <<once, fullReadbacks, calls, submissions, submitted, accepted>>
      /\ Alone(t) /\ pc'[t] \in {"submitted", "idle"}
  BY Moves DEF IInv, SyncScalar, queueVars
<1>2. accepted \in Nat /\ submissions \in Nat /\ submitted \in Nat
  BY DEF IInv, CountersInv, EvidenceInv, EvidenceTypes
<1>3. /\ t \in Counted' => t \in Counted
      /\ t \in Settled' => t \in Settled
      /\ t \in Copying' => t \in Copying
  BY <1>1 DEF Counted, Settled, Copying, Reading
<1>4. QED
  BY <1>1, <1>2, <1>3, DispatchStep DEF Reading

\* The second critical section: recorded before it is accepted.
LEMMA CommitStep ==
  ASSUME IInv, EvidenceInv, NEW t \in Threads, Commit(t)
  PROVE  EvidenceInv'
<1>1. /\ UNCHANGED <<once, fullReadbacks, calls, submissions, submitted>>
      /\ accepted' = accepted + 1
      /\ Alone(t) /\ pc[t] = "recorded" /\ pc'[t] = "idle"
  BY Moves DEF IInv, Commit, Goto, Done, physicalVars
<1>2. accepted \in Nat /\ submissions \in Nat /\ submitted \in Nat
  BY DEF IInv, CountersInv, EvidenceInv, EvidenceTypes
<1>3. call[t].kind # "read"
  BY <1>1 DEF IInv, ThreadInv, Dispatching
<1>4. /\ t \in Counted /\ t \notin Counted'
      /\ t \in Settled /\ t \notin Settled'
      /\ t \in Copying' => t \in Copying
  BY <1>1, <1>3 DEF Counted, Settled, Copying, Reading
<1>5. QED
  BY <1>1, <1>2, <1>4, DispatchStep DEF Reading

\* A request passes the limits: one more call that may be lost.
LEMMA AdmitStep ==
  ASSUME IInv, EvidenceInv, NEW t \in Threads, NEW r \in Requests, NEW input \in Handles \cup {0},
         CheckLimits(t, r, input)
  PROVE  EvidenceInv'
<1> DEFINE c == [kind |-> r.kind, bytes |-> r.bytes, key |-> r.key, input |-> input]
<1>1. /\ UNCHANGED <<once, fullReadbacks, submissions, submitted, accepted>>
      /\ calls' = calls + 1
      /\ Alone(t) /\ pc[t] = "idle" /\ pc'[t] = "checked"
  <2> HIDE DEF c
  <2>1. pc[t] = "idle" /\ pc' = [pc EXCEPT ![t] = "checked"] /\ call' = [call EXCEPT ![t] = c]
        /\ UNCHANGED <<once, fullReadbacks, submissions, submitted, accepted>> /\ calls' = calls + 1
    BY DEF CheckLimits, Goto, queueVars, physicalVars, c
  <2>2. QED
    BY <2>1, Moves DEF IInv
<1>2. t \notin Counted' /\ t \notin Copying' /\ t \notin Settled /\ t \notin Counted /\ t \notin Copying
  BY <1>1 DEF Counted, Settled, Copying, Reading
<1>3. EvidenceTypes' /\ ReadOnce'
  BY <1>1 DEF EvidenceInv, EvidenceTypes, ReadOnce
<1>4. Readers'
  BY <1>1, ReadersStay DEF EvidenceInv, Reading
<1>5. accepted \in Nat
  BY DEF IInv, CountersInv
<1>6. RecordedFirst' /\ Covered'
  BY <1>1, <1>2, <1>5, ThreadSets, HandlesStay
     DEF EvidenceInv, EvidenceTypes, RecordedFirst, Covered
<1>7. QED
  BY <1>3, <1>4, <1>6 DEF EvidenceInv

\* flush touches neither the evidence nor a call.
LEMMA FlushStep ==
  ASSUME IInv, EvidenceInv, NEW t \in Threads, Flush(t)
  PROVE  EvidenceInv'
<1>1. UNCHANGED <<once, pc, call, calls, submissions, fullReadbacks, submitted, accepted>>
  BY DEF Flush, physicalVars, threadVars
<1>2. QED
  BY <1>1 DEF EvidenceInv, EvidenceTypes, Readers, ReadOnce, RecordedFirst, Covered, Counted, Settled,
              Copying, Answered, Running

-----------------------------------------------------------------------------
(* Readbacks.                                                              *)

\* A thread enters the closure of a OnceLock that is empty.
LEMMA OpenStep ==
  ASSUME IInv, EvidenceInv, NEW t \in Threads, NEW h \in Handles, once[h] = "empty",
         Alone(t), once' = [once EXCEPT ![h] = "running"],
         pc[t] \in {"idle", "checked"}, pc'[t] = "copying", call'[t].input = h,
         pc[t] = "idle" => call'[t].kind = "read",
         pc[t] = "checked" => call'[t] = call[t],
         fullReadbacks' = fullReadbacks + 1,
         UNCHANGED <<submissions, submitted, calls, accepted>>
  PROVE  EvidenceInv'
<1>1. once'[h] = "running" /\ \A g \in Handles \ {h} : once'[g] = once[g]
  BY DEF EvidenceInv, EvidenceTypes
<1>2. EvidenceTypes'
  BY DEF EvidenceInv, EvidenceTypes
<1>3. Readers'
  <2>1. \A u \in Threads \ {t} : pc'[u] \in Reading =>
          /\ call'[u].input = call[u].input /\ call[u].input # h
          /\ call[u].input \in Handles /\ once[call[u].input] = "running"
    BY DEF EvidenceInv, Readers, Alone
  <2>2. QED
    BY <1>1, <2>1 DEF EvidenceInv, Readers, Alone
<1>4. /\ h \notin Opened /\ h \in Opened'
      /\ h \notin Running /\ h \in Running'
      /\ h \notin Answered /\ h \notin Answered'
  BY <1>1 DEF Opened, Running, Answered, Answers
<1>5. /\ t \notin Counted /\ t \notin Counted'
      /\ t \notin Copying /\ t \in Copying'
      /\ t \in Settled' => t \in Settled
  BY DEF Counted, Copying, Settled, Reading
<1>6. accepted \in Nat
  BY DEF IInv, CountersInv
<1>7. ReadOnce'
  <2>1. Cardinality(Opened') = Cardinality(Opened) + 1
    BY <1>1, <1>4, HandleSets
  <2>2. QED
    BY <2>1 DEF EvidenceInv, ReadOnce, Opened
<1>8. RecordedFirst' /\ Covered'
  <2>1. /\ Cardinality(Running') = Cardinality(Running) + 1
        /\ Cardinality(Answered') = Cardinality(Answered)
        /\ Cardinality(Running) \in Nat /\ Cardinality(Answered) \in Nat
    BY <1>1, <1>4, HandleSets
  <2>2. QED
    BY <1>5, <1>6, <2>1, ThreadSets DEF EvidenceInv, EvidenceTypes, RecordedFirst, Covered
<1>9. QED
  BY <1>2, <1>3, <1>7, <1>8 DEF EvidenceInv

\* A caller reads a storage.
LEMMA ReadStep ==
  ASSUME IInv, EvidenceInv, NEW t \in Threads, NEW h \in Handles, Read(t, h)
  PROVE  EvidenceInv'
<1> DEFINE c == [NoCall EXCEPT !.kind = "read", !.input = h]
<1>1. c.kind = "read" /\ c.input = h
  BY DEF NoCall
<1>2. /\ once[h] = "empty" /\ pc[t] = "idle" /\ once' = [once EXCEPT ![h] = "running"]
      /\ pc' = [pc EXCEPT ![t] = "copying"] /\ call' = [call EXCEPT ![t] = c]
      /\ fullReadbacks' = fullReadbacks + 1
      /\ UNCHANGED <<submissions, submitted, calls, accepted>>
  BY DEF Read, Goto, queueVars
<1> HIDE DEF c
<1>3. Alone(t) /\ pc'[t] = "copying" /\ call'[t] = c
  BY <1>2, Moves DEF IInv
<1>4. QED
  BY <1>1, <1>2, <1>3, OpenStep

\* A dispatch reads its input.
LEMMA ReadInputStep ==
  ASSUME IInv, EvidenceInv, NEW t \in Threads, ReadInput(t)
  PROVE  EvidenceInv'
<1>1. call[t].input \in Handles
  BY DEF IInv, ThreadInv, Call, ReadInput, NeedsRead
<1>2. /\ once[call[t].input] = "empty" /\ pc[t] = "checked"
      /\ once' = [once EXCEPT ![call[t].input] = "running"]
      /\ pc' = [pc EXCEPT ![t] = "copying"] /\ UNCHANGED call
      /\ fullReadbacks' = fullReadbacks + 1
      /\ UNCHANGED <<submissions, submitted, calls, accepted>>
  BY DEF ReadInput, Goto, queueVars
<1>3. Alone(t) /\ pc'[t] = "copying" /\ call'[t] = call[t]
  BY <1>2, MovesOn DEF IInv
<1>4. QED
  BY <1>1, <1>2, <1>3, OpenStep

\* The OnceLock answers, by then the readback is recorded.
LEMMA AnswerStep ==
  ASSUME IInv, EvidenceInv, NEW t \in Threads, NEW outcome \in Answers, EndRead(t, outcome)
  PROVE  EvidenceInv'
<1> DEFINE h == call[t].input
<1>1. /\ pc[t] = "mapping" /\ once' = [once EXCEPT ![h] = outcome]
      /\ UNCHANGED <<submissions, fullReadbacks, submitted, calls, accepted>>
      /\ Alone(t) /\ pc'[t] \in {"prepared", "idle"}
      /\ pc'[t] = "prepared" => call'[t] = call[t] /\ call[t].kind # "read"
  <2>1. pc[t] = "mapping" /\ once' = [once EXCEPT ![h] = outcome]
        /\ UNCHANGED <<submissions, fullReadbacks, submitted, calls, accepted>>
    BY DEF EndRead, queueVars, physicalVars
  <2>2. CASE GoesOn(t, outcome)
    BY <2>1, <2>2, Moves DEF IInv, EndRead, GoesOn
  <2>3. CASE ~GoesOn(t, outcome)
    BY <2>1, <2>3, Moves DEF IInv, EndRead
  <2>4. QED
    BY <2>1, <2>2, <2>3
<1>2. h \in Handles /\ once[h] = "running"
  BY <1>1 DEF EvidenceInv, Readers, Reading
<1>3. once'[h] = outcome /\ \A g \in Handles \ {h} : once'[g] = once[g]
  BY <1>1, <1>2 DEF EvidenceInv, EvidenceTypes
<1>4. EvidenceTypes'
  BY <1>1 DEF EvidenceInv, EvidenceTypes
<1>5. Readers'
  <2>1. \A u \in Threads \ {t} : pc'[u] \in Reading =>
          /\ call'[u].input = call[u].input /\ call[u].input # h
          /\ call[u].input \in Handles /\ once[call[u].input] = "running"
    BY <1>1 DEF EvidenceInv, Readers, Alone, Reading
  <2>2. pc'[t] \notin Reading
    BY <1>1 DEF Reading
  <2>3. QED
    BY <1>3, <2>1, <2>2, <1>1 DEF EvidenceInv, Readers, Alone
<1>6. /\ h \in Opened /\ h \in Opened'
      /\ h \in Running /\ h \notin Running'
      /\ h \notin Answered /\ h \in Answered'
  BY <1>2, <1>3 DEF Opened, Running, Answered, Answers
<1>7. /\ t \in Counted /\ t \notin Counted'
      /\ t \in Copying /\ t \notin Copying'
      /\ t \in Settled' => t \in Settled
  BY <1>1 DEF Counted, Copying, Settled, Reading
<1>8. accepted \in Nat
  BY DEF IInv, CountersInv
<1> HIDE DEF h
<1>9. ReadOnce'
  <2>1. Cardinality(Opened') = Cardinality(Opened)
    BY <1>2, <1>3, <1>6, HandleSets
  <2>2. QED
    BY <1>1, <2>1 DEF EvidenceInv, ReadOnce, Opened
<1>10. RecordedFirst' /\ Covered'
  <2>1. /\ Cardinality(Running') = Cardinality(Running) - 1
        /\ Cardinality(Answered') = Cardinality(Answered) + 1
        /\ Cardinality(Running) \in Nat /\ Cardinality(Answered) \in Nat
    BY <1>2, <1>3, <1>6, HandleSets
  <2>2. QED
    BY <1>1, <1>7, <1>8, <2>1, ThreadSets DEF EvidenceInv, EvidenceTypes, RecordedFirst, Covered
<1>11. QED
  BY <1>4, <1>5, <1>9, <1>10 DEF EvidenceInv

-----------------------------------------------------------------------------

\* A new executor has no evidence and no readers.
LEMMA EvidenceStarts == Init => EvidenceInv
<1> SUFFICES ASSUME Init PROVE EvidenceInv
  OBVIOUS
<1>1. /\ Answered = {} /\ Running = {} /\ Counted = {} /\ Settled = {} /\ Copying = {}
      /\ {h \in Handles : once[h] # "empty"} = {}
  BY DEF Init, Answered, Answers, Running, Counted, Settled, Copying, Reading
<1>2. Cardinality({}) = 0
  BY FS_EmptySet
<1>3. EvidenceTypes /\ Readers
  BY DEF Init, EvidenceTypes, Readers, Reading, Handles
<1>4. ReadOnce /\ RecordedFirst /\ Covered
  BY <1>1, <1>2 DEF Init, ReadOnce, RecordedFirst, Covered
<1>5. QED
  BY <1>3, <1>4 DEF EvidenceInv

\* Every step keeps the evidence in order.
LEMMA EvidenceKept ==
  ASSUME IInv, EvidenceInv, [Next]_vars
  PROVE  EvidenceInv'
<1>1. CASE UNCHANGED vars
  <2>1. UNCHANGED <<once, pc, call, calls, submissions, fullReadbacks, submitted, accepted>>
    BY <1>1 DEF vars, queueVars, physicalVars, threadVars
  <2>2. QED
    BY <2>1 DEF EvidenceInv, EvidenceTypes, Readers, ReadOnce, RecordedFirst, Covered, Counted,
                Settled, Copying, Answered, Running
<1>2. CASE \E t \in Threads : Start(t)
  BY <1>2, AdmitStep, ReadStep, FlushStep DEF Start
<1>3. CASE \E t \in Threads : Continue(t)
  BY <1>3, SilentStep, SubmitStep, RecordStep, SyncStep, CommitStep, ReadInputStep, AnswerStep
     DEF Continue, Answers
<1>4. QED
  BY <1>1, <1>2, <1>3 DEF Next

\* The invariant holds throughout.
LEMMA EvidenceInvariance == Spec => []EvidenceInv
BY EvidenceStarts, EvidenceKept, Invariance, PTL DEF Spec

\* A storage is read back once, whoever asks for its cells and however the first
\* readback ends.
THEOREM StoragesReadOnce == Spec => []ReadOnce
<1>1. EvidenceInv => ReadOnce
  BY DEF EvidenceInv
<1>2. QED
  BY <1>1, EvidenceInvariance, PTL

\* Whatever may be seen, accepted or read back, has been recorded; and what the device
\* was given without a record belongs to a readback in progress or a call that is not
\* accepted.
THEOREM EvidenceIsComplete == Spec => []EvidenceCoversWork
<1>1. IInv /\ EvidenceInv => EvidenceCoversWork
  <2> SUFFICES ASSUME IInv, EvidenceInv PROVE EvidenceCoversWork
    OBVIOUS
  <2>1. /\ Cardinality(Answered) \in Nat /\ Cardinality(Running) \in Nat
        /\ Cardinality(Counted) \in Nat /\ Cardinality(Settled) \in Nat
        /\ Cardinality(Copying) \in Nat
    <3>1. Counted \in SUBSET Threads /\ Settled \in SUBSET Threads /\ Copying \in SUBSET Threads
      BY DEF Counted, Settled, Copying
    <3>2. Answered \in SUBSET Handles /\ Running \in SUBSET Handles
      BY DEF Answered, Running
    <3>3. QED
      BY <3>1, <3>2, InFlightFinite, HandlesFinite, FS_Subset, FS_CardinalityType
  <2>2. accepted \in Nat
    BY DEF IInv, CountersInv
  <2>3. QED
    BY <2>1, <2>2 DEF EvidenceInv, EvidenceTypes, RecordedFirst, Covered, EvidenceCoversWork,
                      Answered, Answers, Running
<1>2. QED
  BY <1>1, Invariance, EvidenceInvariance, PTL
=============================================================================
