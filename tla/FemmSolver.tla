----------------------------- MODULE FemmSolver -----------------------------
(***************************************************************************)
(* ResidentCsrSolver: a FEMM linear solver over a tensor provider, cloned   *)
(* between threads that share its state and the provider's queue.           *)
(*                                                                         *)
(* A solve is a sequence of requests to the provider (kernels.rs), each of  *)
(* which may fail, with the tests the code makes of the scalars it reads;   *)
(* then a flush, and the certification in f64.  Of the numbers only what    *)
(* they decide is kept.  An error the code passes through refuse() is a     *)
(* refusal, and counted; any other is a failure, and is not.                *)
(***************************************************************************)
EXTENDS Outcomes, Integers, Sequences, FiniteSets

CONSTANTS Threads,
          Matrices,         \* matrix -> its rows and nonzeros
          Handles,          \* names for the factors of this solver
          Foreign,          \* handle -> factor a caller may hold that this solver did not make
          Methods,          \* Krylov methods a configuration may name
          MaxIters, MaxRefinements, MaxResidentBytes,  \* ResidentCsrConfig
          QueueDepth,       \* submissions the provider queues before it flushes itself
          MaxCalls,         \* bound on the calls, for model checking
          MaxAccepted       \* iterations stop at this many requests, for model checking

ASSUME FemmAssumption ==
  /\ Handles \cap DOMAIN Foreign = {} /\ None \notin DOMAIN Matrices
  /\ \A h \in DOMAIN Foreign : LET p == Foreign[h].payload IN
       p = None \/ p = [fingerprint |-> p.fingerprint, method |-> p.method]
  /\ {MaxIters, MaxRefinements, MaxResidentBytes, MaxCalls, MaxAccepted} \subseteq Nat
  /\ QueueDepth \in Nat \ {0} /\ Methods \subseteq {"cg", "bicgstab"}
  /\ \A m \in DOMAIN Matrices : Matrices[m] \in [rows : Nat, nonzeros : Nat]

VARIABLES method,     \* config.method
          snapshot,   \* ResidentCsrState::snapshot
          factors,    \* handle -> factor, or None
          provider,   \* its queue, and what it ever accepted and drained unasked
          call,       \* thread -> call in progress
          ended,      \* calls ended; history
          answer      \* the last solution: the matrix asked for and the one it is of; history

femmVars == <<method, snapshot, factors, provider, call, ended, answer>>

-----------------------------------------------------------------------------
(* What a solve asks of its provider: for each request, the ways the solve  *)
(* may leave the sequence there rather than go on to the next.              *)

Refusals == {"provider", "breakdown"}

Dispatch == {"provider"}
Answered == Dispatch \cup {"error"}   \* the host reads the result: it may not be finite

Upload == Dispatch        \* of host cells, by an addition of zeros
Spmv == Dispatch
Update == Dispatch        \* add, sub or scale
Dot == Answered
Norm == Answered

\* The test for a breakdown reads the scalar.
Tested(request) == request \cup {"breakdown"}

Times(n, request) == [i \in 1..n |-> request]

\* The right-hand side is uploaded and read: it may be zero.
RightHandSide == Upload \cup {"error", "zero"}

Prologue(m) ==
  <<RightHandSide>> \o IF m = "cg" THEN <<Upload, Dot>> ELSE Times(3, Upload)

\* A, denominator; x, r; residual, with the test of the old one; beta, p.
CgLoop ==
  <<Spmv, Tested(Dot)>> \o Times(4, Update) \o <<Tested(Norm) \cup {"converged"}, Dot>>
  \o Times(2, Update)

\* rho; p, v; alpha; s and its residual; t; omega; x, r and its residual.
BicgstabLoop ==
  <<Tested(Dot)>> \o Times(4, Update) \o <<Spmv, Tested(Dot)>> \o Times(2, Update)
  \o <<Norm \cup {"nearly"}, Spmv, Tested(Dot), Dot>> \o Times(6, Update)
  \o <<Norm \cup {"converged"}>>

Program(m) == Prologue(m) \o IF m = "cg" THEN CgLoop ELSE BicgstabLoop

LoopStart(m) == Len(Prologue(m)) + 1

\* Requests still to make once a solve leaves the sequence with a solution.
Closing(how) == CASE how = "zero" -> 1 [] how = "nearly" -> 2 [] how = "converged" -> 0

-----------------------------------------------------------------------------

Idle ==
  [at |-> "idle", handle |-> None, matrix |-> None, step |-> 0, iter |-> 0, left |-> 0,
   flushed |-> 0, refined |-> 0]

Init ==
  /\ method \in Methods
  /\ snapshot = [uploads |-> 0, bytes |-> 0, solves |-> 0, checks |-> 0, corrections |-> 0,
                 reused |-> 0, refusals |-> 0, submissions |-> 0]
  /\ factors = [h \in Handles |-> None]
  /\ provider = [queued |-> 0, accepted |-> 0, drained |-> 0]
  /\ call = [t \in Threads |-> Idle]
  /\ ended = 0
  /\ answer = None

Held == [h \in {g \in Handles : factors[g] # None} \cup DOMAIN Foreign |->
           IF h \in Handles THEN factors[h] ELSE Foreign[h]]

At(t, place) == call[t].at = place

\* The handles of calls in progress.
Used == {call[t].handle : t \in {u \in Threads : ~At(u, "idle")}}

Issued == ended + Cardinality({t \in Threads : ~At(t, "idle")})

Count(counter, n) == [snapshot EXCEPT ![counter] = @ + n]

Return(t) == call' = [call EXCEPT ![t] = Idle] /\ ended' = ended + 1

Refuse(t) == snapshot' = Count("refusals", 1) /\ Return(t)

Fail(t) == UNCHANGED snapshot /\ Return(t)

Go(t, to) == call' = [call EXCEPT ![t] = to] /\ UNCHANGED ended

\* A request the provider accepts; with its queue full it flushes it first.
Submitted ==
  LET full == provider.queued = QueueDepth IN
  [queued |-> IF full THEN 1 ELSE provider.queued + 1,
   accepted |-> provider.accepted + 1,
   drained |-> provider.drained + IF full THEN provider.queued ELSE 0]

Submit == provider' = Submitted

-----------------------------------------------------------------------------
(* factor.                                                                 *)

\* validate and the conversion to f32 may find the matrix malformed.
BeginFactor(t, m) ==
  LET free == {h \in Handles : factors[h] = None /\ h \notin Used}
      h == CHOOSE name \in free : TRUE
  IN
  /\ At(t, "idle") /\ Issued < MaxCalls
  /\ free # {}
  /\ \/ Go(t, [Idle EXCEPT !.at = "uploading", !.handle = h, !.matrix = m])
     \/ Return(t)
  /\ UNCHANGED <<method, snapshot, factors, provider, answer>>

UploadMatrix(t) ==
  /\ At(t, "uploading")
  /\ \/ Submit /\ Go(t, [call[t] EXCEPT !.at = "flushing"]) /\ UNCHANGED snapshot
     \/ UNCHANGED provider /\ Refuse(t)
  /\ UNCHANGED <<method, factors, answer>>

\* Row pointers and columns of eight bytes, values of four.
ResidentBytes(m) == 8 * (Matrices[m].rows + 1) + 12 * Matrices[m].nonzeros

\* Mutated: what is resident is the last upload.
RecordLastUpload(bytes) == [snapshot EXCEPT !.uploads = @ + 1, !.bytes = bytes]

\* The budget is for one upload, which has by then been made; what is resident is
\* added up and never taken away.
RecordUpload(bytes) == [snapshot EXCEPT !.uploads = @ + 1, !.bytes = @ + bytes]

EndFactor(t) ==
  LET bytes == ResidentBytes(call[t].matrix) IN
  /\ At(t, "uploaded")
  /\ IF bytes > MaxResidentBytes THEN Refuse(t) /\ UNCHANGED factors
     ELSE /\ snapshot' = RecordUpload(bytes)
          /\ factors' = [factors EXCEPT ![call[t].handle] =
               [fingerprint |-> call[t].matrix, transposable |-> FALSE, method |-> method,
                payload |-> [fingerprint |-> call[t].matrix, method |-> method]]]
          /\ Return(t)
  /\ UNCHANGED <<method, provider, answer>>

\* The last clone of a handle is dropped, and the resident form with it.
DropFactor(h) ==
  /\ factors[h] # None /\ h \notin Used
  /\ factors' = [factors EXCEPT ![h] = None]
  /\ UNCHANGED <<method, snapshot, provider, call, ended, answer>>

-----------------------------------------------------------------------------
(* can_reuse, solve, solve_transpose.                                      *)

\* Mutated: a stale factor is not noticed.
PayloadAnyMatrix(f) ==
  IF f.payload = None THEN "failed" ELSE IF f.payload.method # method THEN "refused" ELSE "done"

\* factor_payload: how it ends for a factor.
Payload(f) ==
  IF f.payload = None THEN "failed"
  ELSE IF f.payload.fingerprint # f.fingerprint \/ f.payload.method # method THEN "refused"
  ELSE "done"

\* The question counts as a refusal when the factor is stale or of another method.
CanReuse(t, h) ==
  LET f == Held[h]
      reusable == Payload(f) = "done" /\ ~f.transposable /\ f.method = method
  IN /\ At(t, "idle") /\ Issued < MaxCalls
     /\ snapshot' = IF Payload(f) = "refused" THEN Count("refusals", 1)
                    ELSE IF reusable THEN Count("reused", 1) ELSE snapshot
     /\ Return(t)
     /\ UNCHANGED <<method, factors, provider, answer>>

\* validate_rhs: a length that is not the matrix's, a cell that is not finite.
RejectRhs(t) == Fail(t)

\* A cell that is not finite in f32.
UnfitRhs(t) == snapshot' = Count("solves", 1) /\ Return(t)

EnterSolve(t, h) ==
  /\ snapshot' = Count("solves", 1)
  /\ Go(t, [Idle EXCEPT !.at = "iterating", !.handle = h, !.step = 1])

BeginSolve(t, h) ==
  /\ At(t, "idle") /\ Issued < MaxCalls
  /\ \/ Payload(Held[h]) = "failed" /\ Fail(t)
     \/ Payload(Held[h]) = "refused" /\ Refuse(t)
     \/ Payload(Held[h]) = "done" /\ (RejectRhs(t) \/ UnfitRhs(t) \/ EnterSolve(t, h))
  /\ UNCHANGED <<method, factors, provider, answer>>

SolveTranspose(t, h) ==
  /\ At(t, "idle") /\ Issued < MaxCalls
  /\ Refuse(t)
  /\ UNCHANGED <<method, factors, provider, answer>>

\* Mutated: the iterations begun are not counted.
ExhaustedUncounted(iter) == 0 >= MaxIters

Exhausted(iter) == iter >= MaxIters

\* The next request.  Where a round of the loop would begin, if one is left.
GoOn(t) ==
  LET c == call[t] IN
  IF c.step \notin {LoopStart(method) - 1, Len(Program(method))}
  THEN Go(t, [c EXCEPT !.step = @ + 1]) /\ UNCHANGED snapshot
  ELSE IF Exhausted(c.iter) THEN Refuse(t)
  ELSE Go(t, [c EXCEPT !.step = LoopStart(method), !.iter = @ + 1]) /\ UNCHANGED snapshot

Leave(t, how) ==
  \/ how \in Refusals /\ Refuse(t)
  \/ how = "error" /\ Fail(t)
  \/ /\ how \notin Refusals \cup {"error"}
     /\ Go(t, [call[t] EXCEPT !.at = "closing", !.left = Closing(how)])
     /\ UNCHANGED snapshot

\* Every way to leave but a failure of the provider is found in its answer.
Iterate(t) ==
  /\ At(t, "iterating") /\ provider.accepted < MaxAccepted
  /\ \/ Submit /\ GoOn(t)
     \/ \E how \in Program(method)[call[t].step] :
          /\ IF how = "provider" THEN UNCHANGED provider ELSE Submit
          /\ Leave(t, how)
  /\ UNCHANGED <<method, factors, answer>>

\* The requests left, and then the cells of the solution.
Close(t) ==
  /\ At(t, "closing") /\ call[t].left > 0
  /\ \/ Submit /\ Go(t, [call[t] EXCEPT !.left = @ - 1]) /\ UNCHANGED snapshot
     \/ UNCHANGED provider /\ Refuse(t)
  /\ UNCHANGED <<method, factors, answer>>

ReadSolution(t) ==
  /\ At(t, "closing") /\ call[t].left = 0
  /\ Go(t, [call[t] EXCEPT !.at = "flushing"]) \/ Return(t)
  /\ UNCHANGED <<method, snapshot, factors, provider, answer>>

\* finish: the provider is flushed, by whichever call comes first for all of them,
\* and only then is the count taken to the shared state.
Flush(t) ==
  /\ At(t, "flushing")
  /\ \/ /\ Go(t, [call[t] EXCEPT !.at = "reporting", !.flushed = provider.queued])
        /\ provider' = [provider EXCEPT !.queued = 0]
     \/ Return(t) /\ UNCHANGED provider
  /\ UNCHANGED <<method, snapshot, factors, answer>>

\* Mutated: the last flush is what is reported, as readbacks are.
ReportedLast(n) == [snapshot EXCEPT !.submissions = n]

Reported(n) == Count("submissions", n)

Report(t) ==
  /\ At(t, "reporting")
  /\ snapshot' = Reported(call[t].flushed)
  /\ Go(t, [call[t] EXCEPT !.at = IF call[t].matrix # None THEN "uploaded" ELSE "certifying",
                           !.flushed = 0])
  /\ UNCHANGED <<method, factors, provider, answer>>

\* Someone else flushes a provider the solver was given.
FlushElsewhere ==
  /\ provider.queued > 0
  /\ provider' = [provider EXCEPT !.queued = 0, !.drained = @ + provider.queued]
  /\ UNCHANGED <<method, snapshot, factors, call, ended, answer>>

Solution(t) ==
  [asked |-> Held[call[t].handle].fingerprint, solved |-> Held[call[t].handle].payload]

\* f64_residual: a solution or a residual that is not finite.
NoResidual(t) == Fail(t) /\ UNCHANGED answer

Accept(t) ==
  /\ snapshot' = Count("checks", 1)
  /\ answer' = Solution(t)
  /\ Return(t)

GiveUp(t) ==
  /\ call[t].refined >= MaxRefinements
  /\ snapshot' = [Count("checks", 1) EXCEPT !.refusals = @ + 1]
  /\ Return(t) /\ UNCHANGED answer

\* The matrix is singular, or its correction is not finite.
NoCorrection(t) ==
  /\ call[t].refined < MaxRefinements
  /\ snapshot' = Count("checks", 1)
  /\ Return(t) /\ UNCHANGED answer

\* A dense solve in f64, which asks nothing of the provider.
Correct(t) ==
  /\ call[t].refined < MaxRefinements
  /\ snapshot' = [Count("checks", 1) EXCEPT !.corrections = @ + 1]
  /\ Go(t, [call[t] EXCEPT !.refined = @ + 1]) /\ UNCHANGED answer

Certify(t) ==
  /\ At(t, "certifying")
  /\ NoResidual(t) \/ Accept(t) \/ GiveUp(t) \/ NoCorrection(t) \/ Correct(t)
  /\ UNCHANGED <<method, factors, provider>>

-----------------------------------------------------------------------------

Continue(t) ==
  \/ UploadMatrix(t) \/ EndFactor(t)
  \/ Iterate(t) \/ Close(t) \/ ReadSolution(t) \/ Flush(t) \/ Report(t) \/ Certify(t)

Next ==
  \/ \E t \in Threads :
       \/ Continue(t)
       \/ \E m \in DOMAIN Matrices : BeginFactor(t, m)
       \/ \E h \in DOMAIN Held : CanReuse(t, h) \/ BeginSolve(t, h) \/ SolveTranspose(t, h)
  \/ \E h \in Handles : DropFactor(h)
  \/ FlushElsewhere

\* A thread in a call goes on with it.
Spec == Init /\ [][Next]_femmVars /\ \A t \in Threads : WF_femmVars(Continue(t))
=============================================================================
