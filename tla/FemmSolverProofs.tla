-------------------------- MODULE FemmSolverProofs --------------------------
(***************************************************************************)
(* Proofs about FemmSolver, for any threads, matrices, factors callers may *)
(* bring, configuration and provider queue.                                 *)
(***************************************************************************)
EXTENDS FemmSolverProperties, SumLemmas, TLAPS

Solving(t) == ~At(t, "idle") /\ call[t].matrix = None

Factoring(t) == ~At(t, "idle") /\ call[t].matrix # None

Shaped ==
  /\ DOMAIN factors = Handles
  /\ DOMAIN call = Threads
  /\ \A t \in Threads : DOMAIN call[t] = DOMAIN Idle

(* finish is shared by the two kinds of call, which the other steps keep apart. *)
KindsApart ==
  \A t \in Threads :
    /\ call[t].at \in {"iterating", "closing", "certifying"} => call[t].matrix = None
    /\ call[t].at \in {"uploading", "uploaded"} => call[t].matrix # None

Whole(f) == f.payload = None \/ f.payload = [fingerprint |-> f.payload.fingerprint, method |-> f.payload.method]

FactorsWhole == \A h \in Handles : factors[h] # None => Whole(factors[h])

(* A factor is written at the end of a call that began when its handle was *)
(* free: nobody else may have it by then.                                   *)
FreshHandles ==
  \A t \in Threads : Factoring(t) =>
    /\ call[t].handle \in Handles
    /\ factors[call[t].handle] = None
    /\ \A u \in Threads \ {t} : Factoring(u) => call[u].handle # call[t].handle

Solvable(h) == h \in DOMAIN Held /\ Payload(Held[h]) = "done"

(* The test of factor_payload holds for as long as the solve goes on.       *)
SolvableInUse == \A t \in Threads : Solving(t) => Solvable(call[t].handle)

SolverInv ==
  /\ Shaped /\ KindsApart /\ FactorsWhole /\ FreshHandles /\ SolvableInUse
  /\ SolutionIsOfItsMatrix

-----------------------------------------------------------------------------

\* A thread goes on with its call or ends it; the others and the factors are untouched.
KeepsCall(t) ==
  /\ DOMAIN call' = Threads
  /\ \A u \in Threads \ {t} : call'[u] = call[u]
  /\ \/ call'[t] = Idle
     \/ /\ ~At(t, "idle") /\ DOMAIN call'[t] = DOMAIN Idle
        /\ call'[t].handle = call[t].handle /\ call'[t].matrix = call[t].matrix
        /\ call'[t].at # "idle"
  /\ UNCHANGED <<method, factors>>

\* What the proofs use of the record of an idle thread.
LEMMA IdleCall ==
  /\ Idle.at = "idle" /\ Idle.matrix = None
  /\ DOMAIN Idle = {"at", "handle", "matrix", "step", "iter", "left", "flushed", "refined"}
BY DEF Idle

\* Handles resolve to the same factors as long as no factor is written or dropped.
LEMMA HeldUnchanged ==
  ASSUME factors' = factors
  PROVE  Held' = Held
BY DEF Held

\* The parts of the invariant that look at one call survive whatever keeps its kind.
LEMMA KeepsInvariant ==
  ASSUME SolverInv, NEW t \in Threads, KeepsCall(t)
  PROVE  Shaped' /\ FactorsWhole' /\ FreshHandles' /\ SolvableInUse'
<1>1. Shaped'
  BY DEF SolverInv, Shaped, KeepsCall, Idle
<1>2. FactorsWhole'
  BY DEF SolverInv, FactorsWhole, KeepsCall, Whole
<1>3. \A u \in Threads : (Factoring(u)' => Factoring(u)) /\ (Solving(u)' => Solving(u))
                         /\ (~At(u, "idle")' => call'[u].handle = call[u].handle)
  BY IdleCall DEF KeepsCall, Factoring, Solving, At
<1>4. FreshHandles'
  BY <1>3 DEF SolverInv, FreshHandles, KeepsCall, Factoring
<1>5. SolvableInUse'
  BY <1>3, HeldUnchanged DEF SolverInv, SolvableInUse, Solvable, KeepsCall, Solving, Payload
<1>6. QED
  BY <1>1, <1>2, <1>4, <1>5

\* Every step inside a call keeps its handle and its kind.
LEMMA GoKeeps ==
  ASSUME SolverInv, NEW t \in Threads, ~At(t, "idle"), UNCHANGED <<method, factors>>,
         NEW to, Go(t, to), DOMAIN to = DOMAIN Idle, to.at # "idle",
         to.handle = call[t].handle, to.matrix = call[t].matrix
  PROVE  KeepsCall(t) /\ call' = [call EXCEPT ![t] = to]
BY DEF SolverInv, Shaped, Go, KeepsCall

\* So does its end.
LEMMA ReturnKeeps ==
  ASSUME SolverInv, NEW t \in Threads, UNCHANGED <<method, factors>>, Return(t)
  PROVE  KeepsCall(t) /\ call' = [call EXCEPT ![t] = Idle]
BY DEF SolverInv, Shaped, Return, KeepsCall

\* What may follow a step keeps the kinds of call apart.
LEMMA KindsKept ==
  ASSUME SolverInv, NEW t \in Threads, KeepsCall(t),
         \/ call'[t] = Idle
         \/ call'[t].at \in {"iterating", "closing", "certifying"} /\ call[t].matrix = None
         \/ call'[t].at \in {"flushing", "reporting"}
         \/ call'[t].at \in {"uploading", "uploaded"} /\ call[t].matrix # None
  PROVE  KindsApart'
<1> SUFFICES ASSUME NEW u \in Threads
             PROVE  /\ call'[u].at \in {"iterating", "closing", "certifying"} => call'[u].matrix = None
                    /\ call'[u].at \in {"uploading", "uploaded"} => call'[u].matrix # None
  BY DEF KindsApart
<1>1. CASE u # t
  BY <1>1 DEF SolverInv, KindsApart, KeepsCall
<1>2. CASE u = t
  BY <1>2, IdleCall DEF KeepsCall
<1>3. QED
  BY <1>1, <1>2

\* How a call goes on: the same call, at a place of its kind.
GoesOn(t, to) ==
  /\ DOMAIN to = DOMAIN Idle
  /\ to.handle = call[t].handle /\ to.matrix = call[t].matrix
  /\ \/ to.at \in {"iterating", "closing", "certifying"} /\ call[t].matrix = None
     \/ to.at \in {"flushing", "reporting"}
     \/ to.at = "uploaded" /\ call[t].matrix # None

\* A call that goes on stays of its kind.
LEMMA GoesOnKeeps ==
  ASSUME SolverInv, NEW t \in Threads, ~At(t, "idle"), UNCHANGED <<method, factors>>,
         NEW to, GoesOn(t, to), Go(t, to)
  PROVE  KeepsCall(t) /\ KindsApart'
<1>1. KeepsCall(t) /\ call' = [call EXCEPT ![t] = to]
  BY GoKeeps DEF GoesOn
<1>2. call'[t] = to
  BY <1>1 DEF SolverInv, Shaped
<1>3. QED
  BY <1>1, <1>2, KindsKept DEF GoesOn

\* A call that ends leaves the others of theirs.
LEMMA EndKeeps ==
  ASSUME SolverInv, NEW t \in Threads, UNCHANGED <<method, factors>>, Return(t)
  PROVE  KeepsCall(t) /\ KindsApart'
<1>1. KeepsCall(t) /\ call' = [call EXCEPT ![t] = Idle]
  BY ReturnKeeps
<1>2. call'[t] = Idle
  BY <1>1 DEF SolverInv, Shaped
<1>3. QED
  BY <1>1, <1>2, KindsKept

\* A step inside a call, up to the certification: the call goes on or returns.
LEMMA WithinCall ==
  ASSUME SolverInv, NEW t \in Threads,
         \/ UploadMatrix(t) \/ Iterate(t) \/ Close(t) \/ ReadSolution(t) \/ Flush(t) \/ Report(t)
  PROVE  /\ ~At(t, "idle") /\ UNCHANGED <<method, factors, answer>>
         /\ Return(t) \/ \E to : GoesOn(t, to) /\ Go(t, to)
<1> DEFINE c == call[t]
<1>0. DOMAIN c = DOMAIN Idle /\ (c.at \in {"iterating", "closing", "certifying"} => c.matrix = None)
      /\ (c.at \in {"uploading", "uploaded"} => c.matrix # None)
  BY DEF SolverInv, Shaped, KindsApart
<1>1. CASE UploadMatrix(t)
  <2> DEFINE to == [c EXCEPT !.at = "flushing"]
  <2>1. GoesOn(t, to)
    BY <1>0, IdleCall, Zenon DEF GoesOn
  <2>2. /\ At(t, "uploading") /\ UNCHANGED <<method, factors, answer>>
        /\ Return(t) \/ Go(t, to)
    BY <1>1, Zenon DEF UploadMatrix, Refuse
  <2> HIDE DEF to
  <2>3. QED
    BY <2>1, <2>2 DEF At
<1>2. CASE Iterate(t)
  <2> DEFINE next == [c EXCEPT !.step = @ + 1]
             again == [c EXCEPT !.step = LoopStart(method), !.iter = @ + 1]
             closing(how) == [c EXCEPT !.at = "closing", !.left = Closing(how)]
  <2>0. At(t, "iterating") /\ UNCHANGED <<method, factors, answer>>
    BY <1>2 DEF Iterate
  <2>a. c.at = "iterating" /\ c.matrix = None
    BY <2>0, <1>0 DEF At
  <2>1. GoesOn(t, next)
    BY <2>a, <1>0, IdleCall, Zenon DEF GoesOn
  <2>2. GoesOn(t, again)
    BY <2>a, <1>0, IdleCall, Zenon DEF GoesOn
  <2>3. \A how : GoesOn(t, closing(how))
    BY <2>a, <1>0, IdleCall, Zenon DEF GoesOn
  <2>4. Return(t) \/ Go(t, next) \/ Go(t, again) \/ \E how : Go(t, closing(how))
    BY <1>2, Zenon DEF Iterate, GoOn, Leave, Refuse, Fail
  <2> HIDE DEF next, again, closing
  <2>5. QED
    BY <2>0, <2>1, <2>2, <2>3, <2>4 DEF At
<1>3. CASE Close(t)
  <2> DEFINE to == [c EXCEPT !.left = @ - 1]
  <2>0. At(t, "closing") /\ UNCHANGED <<method, factors, answer>>
    BY <1>3 DEF Close
  <2>a. c.at = "closing" /\ c.matrix = None
    BY <2>0, <1>0 DEF At
  <2>1. GoesOn(t, to)
    BY <2>a, <1>0, IdleCall, Zenon DEF GoesOn
  <2>2. Return(t) \/ Go(t, to)
    BY <1>3, Zenon DEF Close, Refuse
  <2> HIDE DEF to
  <2>3. QED
    BY <2>0, <2>1, <2>2 DEF At
<1>4. CASE ReadSolution(t)
  <2> DEFINE to == [c EXCEPT !.at = "flushing"]
  <2>1. GoesOn(t, to)
    BY <1>0, IdleCall, Zenon DEF GoesOn
  <2>2. /\ At(t, "closing") /\ UNCHANGED <<method, factors, answer>>
        /\ Return(t) \/ Go(t, to)
    BY <1>4, Zenon DEF ReadSolution
  <2> HIDE DEF to
  <2>3. QED
    BY <2>1, <2>2 DEF At
<1>5. CASE Flush(t)
  <2> DEFINE to == [c EXCEPT !.at = "reporting", !.flushed = provider.queued]
  <2>1. GoesOn(t, to)
    BY <1>0, IdleCall, Zenon DEF GoesOn
  <2>2. /\ At(t, "flushing") /\ UNCHANGED <<method, factors, answer>>
        /\ Return(t) \/ Go(t, to)
    BY <1>5, Zenon DEF Flush
  <2> HIDE DEF to
  <2>3. QED
    BY <2>1, <2>2 DEF At
<1>6. CASE Report(t)
  <2> DEFINE place == IF c.matrix # None THEN "uploaded" ELSE "certifying"
             to == [c EXCEPT !.at = place, !.flushed = 0]
  <2>1. DOMAIN to = DOMAIN Idle /\ to.handle = c.handle /\ to.matrix = c.matrix /\ to.at = place
    BY <1>0, IdleCall, Zenon
  <2>2. /\ At(t, "reporting") /\ UNCHANGED <<method, factors, answer>>
        /\ Go(t, to)
    BY <1>6, Zenon DEF Report
  <2> HIDE DEF to
  <2>3. GoesOn(t, to)
    BY <2>1 DEF GoesOn
  <2>4. QED
    BY <2>2, <2>3 DEF At
<1>7. QED
  BY <1>1, <1>2, <1>3, <1>4, <1>5, <1>6

\* What is left is as it was when nothing but the call of a thread has changed.
LEMMA CallStep ==
  ASSUME SolverInv, NEW t \in Threads,
         \/ UploadMatrix(t) \/ Iterate(t) \/ Close(t) \/ ReadSolution(t) \/ Flush(t) \/ Report(t)
  PROVE  SolverInv'
<1>1. KeepsCall(t) /\ KindsApart' /\ UNCHANGED answer
  BY WithinCall, GoesOnKeeps, EndKeeps
<1>2. SolutionIsOfItsMatrix'
  BY <1>1 DEF SolverInv, SolutionIsOfItsMatrix, KeepsCall
<1>3. QED
  BY <1>1, <1>2, KeepsInvariant DEF SolverInv

\* A call that ends with nothing to show, begun or not.
LEMMA ReturnStep ==
  ASSUME SolverInv, NEW t \in Threads, UNCHANGED <<method, factors, answer>>, Return(t)
  PROVE  SolverInv'
<1>1. KeepsCall(t) /\ KindsApart'
  BY EndKeeps
<1>2. SolutionIsOfItsMatrix'
  BY DEF SolverInv, SolutionIsOfItsMatrix
<1>3. QED
  BY <1>1, <1>2, KeepsInvariant DEF SolverInv

-----------------------------------------------------------------------------
(* factor, and the dropping of what it made.                               *)

\* What is held under a handle whose factor is not touched.
LEMMA HeldStays ==
  ASSUME NEW k \in DOMAIN Held, k \in Handles => factors'[k] = factors[k]
  PROVE  k \in DOMAIN Held' /\ Held'[k] = Held[k]
BY DEF Held

\* factor takes a handle that nobody holds or is about to fill.
LEMMA BeginFactorStep ==
  ASSUME SolverInv, NEW t \in Threads, NEW m \in DOMAIN Matrices, BeginFactor(t, m)
  PROVE  SolverInv'
<1> DEFINE free == {h \in Handles : factors[h] = None /\ h \notin Used}
           k == CHOOSE name \in free : TRUE
           to == [Idle EXCEPT !.at = "uploading", !.handle = k, !.matrix = m]
<1>1. At(t, "idle") /\ UNCHANGED <<method, factors, answer>> /\ (Go(t, to) \/ Return(t))
  BY Zenon DEF BeginFactor
<1>2. k \in Handles /\ factors[k] = None /\ k \notin Used
  BY DEF BeginFactor
<1>3. DOMAIN to = DOMAIN Idle /\ to.at = "uploading" /\ to.handle = k /\ to.matrix = m
  BY IdleCall, Zenon
<1> HIDE DEF k, to
<1>4. CASE Return(t)
  BY <1>1, <1>4, ReturnStep
<1>5. CASE Go(t, to)
  <2>1. /\ call' = [call EXCEPT ![t] = to] /\ call'[t] = to
        /\ \A u \in Threads \ {t} : call'[u] = call[u]
    BY <1>5 DEF Go, SolverInv, Shaped
  <2>2. m # None
    BY FemmAssumption
  <2>3. Shaped'
    BY <1>1, <1>3, <2>1 DEF SolverInv, Shaped, Idle
  <2>4. KindsApart'
    BY <1>1, <1>3, <2>1, <2>2 DEF SolverInv, KindsApart
  <2>5. FactorsWhole'
    BY <1>1 DEF SolverInv, FactorsWhole, Whole
  <2>6. FreshHandles'
    <3>1. \A u \in Threads \ {t} : Factoring(u)' => Factoring(u) /\ call'[u].handle # k
      BY <1>2, <2>1 DEF Factoring, At, Used
    <3>2. QED
      BY <1>1, <1>2, <1>3, <2>1, <3>1 DEF SolverInv, FreshHandles
  <2>7. SolvableInUse'
    <3>1. \A u \in Threads : Solving(u)' => Solving(u) /\ call'[u] = call[u]
      BY <1>3, <2>1, <2>2 DEF Solving, At
    <3>2. QED
      BY <1>1, <3>1, HeldUnchanged DEF SolverInv, SolvableInUse, Solvable, Payload
  <2>8. SolutionIsOfItsMatrix'
    BY <1>1 DEF SolverInv, SolutionIsOfItsMatrix
  <2>9. QED
    BY <2>3, <2>4, <2>5, <2>6, <2>7, <2>8 DEF SolverInv
<1>6. QED
  BY <1>1, <1>4, <1>5

\* factor fills its own handle, and no solve in progress reads another factor for it.
LEMMA EndFactorStep ==
  ASSUME SolverInv, NEW t \in Threads, EndFactor(t)
  PROVE  SolverInv'
<1> DEFINE k == call[t].handle
           made == [fingerprint |-> call[t].matrix, transposable |-> FALSE, method |-> method,
                    payload |-> [fingerprint |-> call[t].matrix, method |-> method]]
<1>1. /\ At(t, "uploaded") /\ Return(t) /\ UNCHANGED <<method, answer>>
      /\ UNCHANGED factors \/ factors' = [factors EXCEPT ![k] = made]
  BY DEF EndFactor, Refuse
<1>2. Whole(made)
  BY DEF Whole
<1> HIDE DEF made
<1>3. CASE UNCHANGED factors
  BY <1>1, <1>3, ReturnStep
<1>4. CASE factors' = [factors EXCEPT ![k] = made]
  <2>1. Factoring(t)
    BY <1>1 DEF SolverInv, KindsApart, Factoring, At
  <2>2. k \in Handles /\ factors[k] = None
    BY <2>1 DEF SolverInv, FreshHandles
  <2>3. factors'[k] = made /\ \A h \in Handles \ {k} : factors'[h] = factors[h]
    BY <1>4, <2>2 DEF SolverInv, Shaped
  <2>4. call'[t] = Idle /\ \A u \in Threads \ {t} : call'[u] = call[u]
    BY <1>1 DEF Return, SolverInv, Shaped
  <2>5. Shaped'
    BY <1>1, <1>4 DEF Return, SolverInv, Shaped, Idle
  <2>6. KindsApart'
    BY <2>4, IdleCall DEF SolverInv, KindsApart
  <2>7. FactorsWhole'
    BY <1>2, <2>3 DEF SolverInv, FactorsWhole, Whole
  <2>8. FreshHandles'
    <3>1. \A u \in Threads : Factoring(u)' => u # t /\ Factoring(u) /\ call'[u] = call[u]
      BY <2>4, IdleCall DEF Factoring, At
    <3>2. \A u \in Threads : Factoring(u)' => call[u].handle # k
      BY <2>1, <3>1 DEF SolverInv, FreshHandles
    <3>3. QED
      BY <2>3, <3>1, <3>2 DEF SolverInv, FreshHandles
  <2>9. SolvableInUse'
    <3> SUFFICES ASSUME NEW u \in Threads, Solving(u)'
                 PROVE  Solvable(call[u].handle)' /\ call'[u] = call[u]
      BY DEF SolvableInUse, Solvable
    <3>1. Solving(u) /\ call'[u] = call[u]
      BY <2>4, IdleCall DEF Solving, At
    <3>2. Solvable(call[u].handle)
      BY <3>1 DEF SolverInv, SolvableInUse
    <3>3. call[u].handle \in Handles => factors'[call[u].handle] = factors[call[u].handle]
      BY <2>2, <2>3, <3>2, FemmAssumption DEF Solvable, Held
    <3>4. QED
      BY <1>1, <3>1, <3>2, <3>3, HeldStays DEF Solvable, Payload
  <2>10. SolutionIsOfItsMatrix'
    BY <1>1 DEF SolverInv, SolutionIsOfItsMatrix
  <2>11. QED
    BY <2>5, <2>6, <2>7, <2>8, <2>9, <2>10 DEF SolverInv
<1>5. QED
  BY <1>1, <1>3, <1>4

\* A factor in use has a handle held by the call: the last clone is not dropped.
LEMMA DropFactorStep ==
  ASSUME SolverInv, NEW h \in Handles, DropFactor(h)
  PROVE  SolverInv'
<1>1. /\ h \notin Used /\ UNCHANGED <<method, call, answer>>
      /\ factors'[h] = None /\ \A g \in Handles \ {h} : factors'[g] = factors[g]
      /\ DOMAIN factors' = Handles
  BY DEF DropFactor, SolverInv, Shaped
<1>2. Shaped' /\ KindsApart' /\ SolutionIsOfItsMatrix'
  BY <1>1 DEF SolverInv, Shaped, KindsApart, SolutionIsOfItsMatrix, Idle
<1>3. FactorsWhole' /\ FreshHandles'
  BY <1>1 DEF SolverInv, FactorsWhole, Whole, FreshHandles, Factoring, At
<1>4. SolvableInUse'
  <2> SUFFICES ASSUME NEW u \in Threads, Solving(u)
               PROVE  Solvable(call[u].handle)'
    BY <1>1 DEF SolvableInUse, Solving, At, Solvable
  <2>1. call[u].handle # h
    BY <1>1 DEF Used, Solving
  <2>2. Solvable(call[u].handle)
    BY DEF SolverInv, SolvableInUse
  <2>3. QED
    BY <1>1, <2>1, <2>2, HeldStays DEF Solvable, Payload
<1>5. QED
  BY <1>2, <1>3, <1>4 DEF SolverInv

-----------------------------------------------------------------------------
(* solve.                                                                  *)

\* A solve goes past factor_payload only with a factor that passes it.
LEMMA BeginSolveStep ==
  ASSUME SolverInv, NEW t \in Threads, NEW h \in DOMAIN Held, BeginSolve(t, h)
  PROVE  SolverInv'
<1>1. /\ UNCHANGED <<method, factors, answer>>
      /\ \/ Return(t)
         \/ EnterSolve(t, h) /\ Payload(Held[h]) = "done"
  BY DEF BeginSolve, Fail, Refuse, RejectRhs, UnfitRhs
<1>2. CASE Return(t)
  BY <1>1, <1>2, ReturnStep
<1>3. CASE EnterSolve(t, h) /\ Payload(Held[h]) = "done"
  <2> DEFINE to == [Idle EXCEPT !.at = "iterating", !.handle = h, !.step = 1]
  <2>1. Go(t, to)
    BY <1>3, Zenon DEF EnterSolve
  <2>2. DOMAIN to = DOMAIN Idle /\ to.at = "iterating" /\ to.handle = h /\ to.matrix = None
    BY IdleCall, Zenon
  <2> HIDE DEF to
  <2>3. DOMAIN call' = Threads /\ call'[t] = to /\ \A u \in Threads \ {t} : call'[u] = call[u]
    BY <2>1 DEF Go, SolverInv, Shaped
  <2>4. Shaped' /\ KindsApart' /\ FactorsWhole' /\ SolutionIsOfItsMatrix'
    BY <1>1, <2>2, <2>3
       DEF SolverInv, Shaped, Idle, KindsApart, FactorsWhole, Whole, SolutionIsOfItsMatrix
  <2>5. FreshHandles'
    BY <1>1, <2>2, <2>3 DEF SolverInv, FreshHandles, Factoring, At
  <2>6. SolvableInUse'
    BY <1>1, <1>3, <2>2, <2>3, HeldUnchanged
       DEF SolverInv, SolvableInUse, Solvable, Solving, At, Payload
  <2>7. QED
    BY <2>4, <2>5, <2>6 DEF SolverInv
<1>4. QED
  BY <1>1, <1>2, <1>3

\* Every payload, made here or brought, is of one matrix and one method.
LEMMA HeldWhole ==
  ASSUME SolverInv, NEW h \in DOMAIN Held
  PROVE  Whole(Held[h])
BY FemmAssumption DEF SolverInv, FactorsWhole, Held, Whole

\* The solution accepted is of the factor tested when the call began.
LEMMA CertifyStep ==
  ASSUME SolverInv, NEW t \in Threads, Certify(t)
  PROVE  SolverInv'
<1> DEFINE k == call[t].handle
           again == [call[t] EXCEPT !.refined = @ + 1]
<1>1. /\ At(t, "certifying") /\ UNCHANGED <<method, factors>>
      /\ \/ Return(t) /\ (UNCHANGED answer \/ answer' = Solution(t))
         \/ Go(t, again) /\ UNCHANGED answer
  BY Zenon DEF Certify, NoResidual, Fail, Accept, GiveUp, NoCorrection, Correct
<1>2. GoesOn(t, again)
  <2>1. DOMAIN call[t] = DOMAIN Idle /\ call[t].at = "certifying" /\ call[t].matrix = None
    BY <1>1 DEF SolverInv, Shaped, KindsApart, At
  <2>2. QED
    BY <2>1, IdleCall, Zenon DEF GoesOn
<1> HIDE DEF again
<1>3. KeepsCall(t) /\ KindsApart'
  BY <1>1, <1>2, GoesOnKeeps, EndKeeps DEF At
<1>4. SolutionIsOfItsMatrix'
  <2>1. CASE UNCHANGED answer
    BY <1>1, <2>1 DEF SolverInv, SolutionIsOfItsMatrix
  <2>2. CASE answer' = Solution(t)
    <3>1. Solvable(k)
      BY <1>1 DEF SolverInv, KindsApart, SolvableInUse, Solving, At
    <3>2. Held[k].payload = [fingerprint |-> Held[k].fingerprint, method |-> method]
      BY <3>1, HeldWhole DEF Solvable, Payload, Whole
    <3>3. QED
      BY <1>1, <2>2, <3>2 DEF SolutionIsOfItsMatrix, Solution
  <2>3. QED
    BY <1>1, <2>1, <2>2
<1>5. QED
  BY <1>3, <1>4, KeepsInvariant DEF SolverInv

-----------------------------------------------------------------------------

\* A solver starts without factors, calls or answer.
LEMMA InitHolds ==
  ASSUME Init
  PROVE  SolverInv
BY IdleCall
   DEF Init, SolverInv, Shaped, KindsApart, FactorsWhole, FreshHandles, SolvableInUse,
       SolutionIsOfItsMatrix, Solving, Factoring, At, Idle

\* The invariant is inductive.
LEMMA NextKeeps ==
  ASSUME SolverInv, [Next]_femmVars
  PROVE  SolverInv'
<1>1. CASE UNCHANGED <<method, factors, call, answer>>
  BY <1>1, HeldUnchanged
     DEF SolverInv, Shaped, KindsApart, FactorsWhole, Whole, FreshHandles, SolvableInUse, Solvable,
         Payload, SolutionIsOfItsMatrix, Solving, Factoring, At, Idle
<1>2. CASE \E t \in Threads : Continue(t)
  BY <1>2, CallStep, EndFactorStep, CertifyStep DEF Continue
<1>3. CASE \E t \in Threads, m \in DOMAIN Matrices : BeginFactor(t, m)
  BY <1>3, BeginFactorStep
<1>4. CASE \E t \in Threads, h \in DOMAIN Held : CanReuse(t, h) \/ SolveTranspose(t, h)
  BY <1>4, ReturnStep DEF CanReuse, SolveTranspose, Refuse
<1>5. CASE \E t \in Threads, h \in DOMAIN Held : BeginSolve(t, h)
  BY <1>5, BeginSolveStep
<1>6. CASE \E h \in Handles : DropFactor(h)
  BY <1>6, DropFactorStep
<1>7. CASE FlushElsewhere
  BY <1>1, <1>7 DEF FlushElsewhere
<1>8. CASE UNCHANGED femmVars
  BY <1>1, <1>8 DEF femmVars
<1>9. QED
  BY <1>2, <1>3, <1>4, <1>5, <1>6, <1>7, <1>8 DEF Next

\* Whatever factors callers make, hold, bring and drop while others solve, a solution is
\* one of the matrix of the handle it was asked with, by the configured method.
THEOREM SolutionOfItsMatrix == Spec => []SolutionIsOfItsMatrix
<1>1. Init => SolverInv
  BY InitHolds
<1>2. SolverInv /\ [Next]_femmVars => SolverInv'
  BY NextKeeps
<1>3. SolverInv => SolutionIsOfItsMatrix
  BY DEF SolverInv
<1>4. QED
  BY <1>1, <1>2, <1>3, PTL DEF Spec

-----------------------------------------------------------------------------
(* What the snapshot accounts for.                                         *)

Counters ==
  {"uploads", "bytes", "solves", "checks", "corrections", "reused", "refusals", "submissions"}

AccountShape ==
  /\ provider \in [queued : Nat, accepted : Nat, drained : Nat]
  /\ snapshot \in [Counters -> Nat]
  /\ \A t \in Threads : call[t].flushed \in Nat
  /\ IsFiniteSet(Unreported)

(* Every matrix somebody has factored or is factoring has a size.           *)
FactorsMeasured ==
  /\ IsFiniteSet(Made)
  /\ \A h \in Made : factors[h].fingerprint \in DOMAIN Matrices
  /\ \A t \in Threads : Factoring(t) => call[t].matrix \in DOMAIN Matrices

AccountInv ==
  AccountShape /\ SubmissionsAccounted /\ FactorsMeasured /\ ResidentCoversFactors

\* What the calls that have flushed and not reported hold.
InHand == Total(FlushedBy, Unreported)

\* The account, with the sum by its name.
LEMMA Account ==
  SubmissionsAccounted <=>
    provider.accepted = snapshot.submissions + provider.queued + provider.drained + InHand
BY DEF SubmissionsAccounted, InHand, Total

\* A counter goes up, and the others stay.
LEMMA CountCounts ==
  ASSUME snapshot \in [Counters -> Nat], NEW c \in Counters, NEW n \in Nat
  PROVE  /\ Count(c, n) \in [Counters -> Nat]
         /\ Count(c, n)[c] = snapshot[c] + n
         /\ \A d \in Counters \ {c} : Count(c, n)[d] = snapshot[d]
BY DEF Count

\* A thread that neither had submissions in hand nor takes any changes no sum.
LEMMA HandStays ==
  ASSUME DOMAIN call = Threads, NEW t \in Threads, call[t].at # "reporting", NEW to, to.at # "reporting",
         call' = [call EXCEPT ![t] = to], IsFiniteSet(Unreported)
  PROVE  Unreported' = Unreported /\ InHand' = InHand
<1>1. Unreported' = Unreported
  BY DEF Unreported, At
<1>2. \A u \in Unreported : call'[u] = call[u]
  BY DEF Unreported, At
<1>3. FlushedBy' = FlushedBy
  BY <1>1, <1>2 DEF FlushedBy
<1>4. QED
  BY <1>1, <1>3 DEF InHand

\* A request is in the queue, or the queue before it was drained for it.
LEMMA SubmittedOnce ==
  ASSUME provider \in [queued : Nat, accepted : Nat, drained : Nat]
  PROVE  /\ Submitted \in [queued : Nat, accepted : Nat, drained : Nat]
         /\ Submitted.accepted = provider.accepted + 1
         /\ Submitted.queued + Submitted.drained = provider.queued + provider.drained + 1
BY DEF Submitted

\* Nothing is counted as submitted or resident.
OthersCounted ==
  /\ snapshot' \in [Counters -> Nat]
  /\ snapshot'.submissions = snapshot.submissions /\ snapshot'.bytes = snapshot.bytes

\* A step of a thread that does no flush, report or factor: it may submit, and count.
Quiet(t) ==
  /\ \E to : /\ call' = [call EXCEPT ![t] = to] /\ to.at # "reporting" /\ to.flushed \in Nat
             /\ to.matrix \in DOMAIN Matrices \cup {None}
  /\ call[t].at # "reporting"
  /\ Submit \/ UNCHANGED provider
  /\ OthersCounted
  /\ UNCHANGED factors

\* What is added to both sides leaves the account.
LEMMA BothSides ==
  ASSUME NEW a \in Nat, NEW q \in Nat, NEW d \in Nat, NEW aa \in Nat, NEW qq \in Nat, NEW dd \in Nat,
         NEW told \in Nat, NEW hand \in Nat,
         aa - (qq + dd) = a - (q + d), a = told + q + d + hand
  PROVE  aa = told + qq + dd + hand
OBVIOUS

\* Such a step adds the request it submitted to both sides of the account.
LEMMA QuietKeeps ==
  ASSUME SolverInv, AccountInv, NEW t \in Threads, Quiet(t)
  PROVE  AccountInv'
<1>1. PICK to : /\ call' = [call EXCEPT ![t] = to] /\ to.at # "reporting" /\ to.flushed \in Nat
                /\ to.matrix \in DOMAIN Matrices \cup {None}
  BY DEF Quiet
<1>2. DOMAIN call = Threads
  BY DEF SolverInv, Shaped
<1>3. /\ provider \in [queued : Nat, accepted : Nat, drained : Nat] /\ snapshot \in [Counters -> Nat]
      /\ IsFiniteSet(Unreported) /\ \A u \in Threads : call[u].flushed \in Nat
  BY DEF AccountInv, AccountShape
<1>4. Unreported' = Unreported /\ InHand' = InHand
  BY <1>1, <1>2, <1>3, HandStays DEF Quiet
<1>5. /\ provider' \in [queued : Nat, accepted : Nat, drained : Nat]
      /\ provider'.accepted - (provider'.queued + provider'.drained)
           = provider.accepted - (provider.queued + provider.drained)
  <2>1. CASE UNCHANGED provider
    BY <1>3, <2>1
  <2>2. CASE Submit
    <3>1. provider' = Submitted
      BY <2>2 DEF Submit
    <3>2. /\ Submitted \in [queued : Nat, accepted : Nat, drained : Nat]
          /\ Submitted.accepted = provider.accepted + 1
          /\ Submitted.queued + Submitted.drained = provider.queued + provider.drained + 1
      BY <1>3, SubmittedOnce
    <3>3. QED
      BY <1>3, <3>1, <3>2
  <2>3. QED
    BY <2>1, <2>2 DEF Quiet
<1>6. AccountShape'
  BY <1>1, <1>2, <1>3, <1>4, <1>5 DEF AccountShape, Quiet, OthersCounted
<1>7. SubmissionsAccounted'
  <2>1. InHand \in Nat
    <3>1. \A u \in Unreported : FlushedBy[u] \in Nat
      BY <1>3 DEF FlushedBy, Unreported
    <3>2. QED
      BY <1>3, <3>1, SumIsNat DEF InHand
  <2>2. provider.accepted = snapshot.submissions + provider.queued + provider.drained + InHand
    BY Account DEF AccountInv
  <2>3. snapshot.submissions \in Nat /\ snapshot'.submissions = snapshot.submissions
    BY <1>3 DEF Quiet, OthersCounted, Counters
  <2>4. provider'.accepted = snapshot'.submissions + provider'.queued + provider'.drained + InHand'
    <3>1. /\ provider.accepted \in Nat /\ provider.queued \in Nat /\ provider.drained \in Nat
          /\ provider'.accepted \in Nat /\ provider'.queued \in Nat /\ provider'.drained \in Nat
      BY <1>3, <1>5
    <3>2. /\ InHand' = InHand
          /\ provider'.accepted - (provider'.queued + provider'.drained)
               = provider.accepted - (provider.queued + provider.drained)
      BY <1>4, <1>5
    <3>3. provider'.accepted = snapshot.submissions + provider'.queued + provider'.drained + InHand
      <4> DEFINE told == snapshot.submissions
                 a == provider.accepted
                 q == provider.queued
                 d == provider.drained
                 aa == provider'.accepted
                 qq == provider'.queued
                 dd == provider'.drained
      <4>1. a \in Nat /\ q \in Nat /\ d \in Nat /\ aa \in Nat /\ qq \in Nat /\ dd \in Nat /\ told \in Nat
        BY <2>3, <3>1
      <4>2. aa - (qq + dd) = a - (q + d) /\ a = told + q + d + InHand
        BY <2>2, <3>2
      <4> HIDE DEF told, a, q, d, aa, qq, dd
      <4>3. aa = told + qq + dd + InHand
        BY <2>1, <4>1, <4>2, BothSides
      <4>4. QED
        BY <4>3 DEF told, aa, qq, dd
    <3>4. QED
      BY <2>3, <3>2, <3>3
  <2>5. QED
    BY <2>4 DEF SubmissionsAccounted, InHand, Total
<1>8. FactorsMeasured'
  <2>1. Made' = Made
    BY DEF Made, Quiet
  <2>2. \A u \in Threads : Factoring(u)' => call'[u].matrix \in DOMAIN Matrices
    BY <1>1, <1>2 DEF AccountInv, FactorsMeasured, Factoring, At
  <2>3. QED
    BY <2>1, <2>2 DEF AccountInv, FactorsMeasured, Quiet
<1>9. ResidentCoversFactors'
  BY DEF AccountInv, ResidentCoversFactors, Retained, BytesHeld, Made, Quiet, OthersCounted
<1>10. QED
  BY <1>6, <1>7, <1>8, <1>9 DEF AccountInv

\* Every counter but those two may go up.
LEMMA OthersCount ==
  ASSUME AccountInv
  PROVE  /\ UNCHANGED snapshot => OthersCounted
         /\ \A c \in Counters \ {"submissions", "bytes"} : snapshot' = Count(c, 1) => OthersCounted
         /\ \A c, d \in Counters \ {"submissions", "bytes"} :
              snapshot' = [Count(c, 1) EXCEPT ![d] = @ + 1] => OthersCounted
<1>1. snapshot \in [Counters -> Nat] /\ "submissions" \in Counters /\ "bytes" \in Counters
  BY DEF AccountInv, AccountShape, Counters
<1>2. ASSUME NEW c \in Counters \ {"submissions", "bytes"}
      PROVE  /\ Count(c, 1) \in [Counters -> Nat]
             /\ Count(c, 1)["submissions"] = snapshot["submissions"]
             /\ Count(c, 1)["bytes"] = snapshot["bytes"]
  <2>1. c \in Counters /\ 1 \in Nat
    BY <1>2
  <2>2. Count(c, 1) \in [Counters -> Nat] /\ \A d \in Counters \ {c} : Count(c, 1)[d] = snapshot[d]
    BY <1>1, <2>1, CountCounts
  <2>3. QED
    BY <1>1, <1>2, <2>2
<1>3. ASSUME NEW s \in [Counters -> Nat], NEW d \in Counters \ {"submissions", "bytes"}
      PROVE  /\ [s EXCEPT ![d] = @ + 1] \in [Counters -> Nat]
             /\ [s EXCEPT ![d] = @ + 1]["submissions"] = s["submissions"]
             /\ [s EXCEPT ![d] = @ + 1]["bytes"] = s["bytes"]
  BY <1>1
<1>4. ASSUME NEW c \in Counters \ {"submissions", "bytes"},
             NEW d \in Counters \ {"submissions", "bytes"}, snapshot' = [Count(c, 1) EXCEPT ![d] = @ + 1]
      PROVE  OthersCounted
  BY <1>2, <1>3, <1>4 DEF OthersCounted
<1>5. QED
  BY <1>1, <1>2, <1>4 DEF OthersCounted

\* A call that ends with no flush in hand, refused, failed or answered.
LEMMA ReturnIsQuiet ==
  ASSUME NEW t \in Threads, Return(t), ~At(t, "reporting"), UNCHANGED factors,
         Submit \/ UNCHANGED provider, OthersCounted
  PROVE  Quiet(t)
<1>1. Idle.at # "reporting" /\ Idle.flushed \in Nat /\ Idle.matrix = None
  BY DEF Idle
<1>2. QED
  BY <1>1 DEF Quiet, Return, At

\* A call that goes on the same way.
LEMMA GoIsQuiet ==
  ASSUME NEW t \in Threads, NEW to, Go(t, to), ~At(t, "reporting"), UNCHANGED factors,
         to.at # "reporting", to.flushed \in Nat, to.matrix \in DOMAIN Matrices \cup {None},
         Submit \/ UNCHANGED provider, OthersCounted
  PROVE  Quiet(t)
BY DEF Quiet, Go, At

\* What a call in progress has in hand, and what it factors.
LEMMA CallFacts ==
  ASSUME SolverInv, AccountInv, NEW t \in Threads, ~At(t, "idle")
  PROVE  /\ DOMAIN call[t] = DOMAIN Idle
         /\ call[t].flushed \in Nat /\ call[t].matrix \in DOMAIN Matrices \cup {None}
BY DEF SolverInv, Shaped, AccountInv, AccountShape, FactorsMeasured, Factoring

\* Most steps of a call are quiet.
LEMMA RequestsAreQuiet ==
  ASSUME SolverInv, AccountInv, NEW t \in Threads,
         UploadMatrix(t) \/ Iterate(t) \/ Close(t) \/ ReadSolution(t)
  PROVE  Quiet(t)
<1> DEFINE c == call[t]
           flushing == [c EXCEPT !.at = "flushing"]
           next == [c EXCEPT !.step = @ + 1]
           again == [c EXCEPT !.step = LoopStart(method), !.iter = @ + 1]
           closing(how) == [c EXCEPT !.at = "closing", !.left = Closing(how)]
           closer == [c EXCEPT !.left = @ - 1]
<1>1. /\ c.at \in {"uploading", "iterating", "closing"} /\ ~At(t, "idle") /\ ~At(t, "reporting")
      /\ UNCHANGED factors
      /\ Submit \/ UNCHANGED provider
  BY Zenon DEF UploadMatrix, Iterate, Close, ReadSolution, At
<1>2. UNCHANGED snapshot \/ snapshot' = Count("refusals", 1)
  BY Zenon DEF UploadMatrix, Iterate, Close, ReadSolution, GoOn, Leave, Refuse, Fail
<1>3. OthersCounted
  BY <1>2, OthersCount DEF Counters
<1>4. Return(t) \/ Go(t, flushing) \/ Go(t, next) \/ Go(t, again) \/ Go(t, closer)
      \/ \E how : Go(t, closing(how))
  BY Zenon DEF UploadMatrix, Iterate, Close, ReadSolution, GoOn, Leave, Refuse, Fail
<1> DEFINE Fits(to) == /\ to.at # "reporting" /\ to.flushed \in Nat
                       /\ to.matrix \in DOMAIN Matrices \cup {None}
<1>5. /\ Fits(flushing) /\ Fits(next) /\ Fits(again) /\ Fits(closer)
      /\ \A how : Fits(closing(how))
  <2>1. /\ c.flushed \in Nat /\ c.matrix \in DOMAIN Matrices \cup {None}
        /\ DOMAIN c = {"at", "handle", "matrix", "step", "iter", "left", "flushed", "refined"}
    BY <1>1, CallFacts, IdleCall
  <2>2. c.at # "reporting"
    BY <1>1
  <2> HIDE DEF c
  <2>3. Fits(flushing)
    BY <2>1, <2>2
  <2>4. Fits(next)
    BY <2>1, <2>2
  <2>5. Fits(again)
    BY <2>1, <2>2
  <2>6. Fits(closer)
    BY <2>1, <2>2
  <2>7. \A how : Fits(closing(how))
    BY <2>1, <2>2
  <2>8. QED
    BY <2>3, <2>4, <2>5, <2>6, <2>7
<1> HIDE DEF flushing, next, again, closing, closer, c
<1>6. ASSUME NEW to, Fits(to), Go(t, to)
      PROVE  Quiet(t)
  BY <1>1, <1>3, <1>6, GoIsQuiet
<1>7. Return(t) => Quiet(t)
  BY <1>1, <1>3, ReturnIsQuiet
<1> HIDE DEF Fits
<1>8. QED
  BY <1>4, <1>5, <1>6, <1>7

\* So are the calls that only ask, the first steps of the others and the certification.
LEMMA BeginIsQuiet ==
  ASSUME SolverInv, AccountInv, NEW t \in Threads, NEW m \in DOMAIN Matrices, BeginFactor(t, m)
  PROVE  Quiet(t)
<1> DEFINE free == {h \in Handles : factors[h] = None /\ h \notin Used}
           k == CHOOSE name \in free : TRUE
           to == [Idle EXCEPT !.at = "uploading", !.handle = k, !.matrix = m]
<1>1. ~At(t, "reporting") /\ UNCHANGED <<snapshot, factors, provider>> /\ (Go(t, to) \/ Return(t))
  BY Zenon DEF BeginFactor, At
<1>2. to.at # "reporting" /\ to.flushed \in Nat /\ to.matrix \in DOMAIN Matrices \cup {None}
  BY DEF Idle
<1>3. OthersCounted
  BY <1>1, OthersCount
<1> HIDE DEF to
<1>4. QED
  BY <1>1, <1>2, <1>3, GoIsQuiet, ReturnIsQuiet

\* can_reuse, solve_transpose and the start of a solve.
LEMMA AskIsQuiet ==
  ASSUME SolverInv, AccountInv, NEW t \in Threads, NEW h,
         CanReuse(t, h) \/ SolveTranspose(t, h) \/ BeginSolve(t, h)
  PROVE  Quiet(t)
<1> DEFINE to == [Idle EXCEPT !.at = "iterating", !.handle = h, !.step = 1]
<1>1. ~At(t, "reporting") /\ UNCHANGED <<factors, provider>> /\ (Go(t, to) \/ Return(t))
  BY Zenon DEF CanReuse, SolveTranspose, BeginSolve, RejectRhs, UnfitRhs, EnterSolve, Refuse, Fail, At
<1>2. to.at # "reporting" /\ to.flushed \in Nat /\ to.matrix \in DOMAIN Matrices \cup {None}
  BY DEF Idle
<1>3. \/ UNCHANGED snapshot
      \/ \E c \in {"refusals", "reused", "solves"} : snapshot' = Count(c, 1)
  BY DEF CanReuse, SolveTranspose, BeginSolve, RejectRhs, UnfitRhs, EnterSolve, Refuse, Fail
<1>4. OthersCounted
  BY <1>3, OthersCount DEF Counters
<1> HIDE DEF to
<1>5. QED
  BY <1>1, <1>2, <1>4, GoIsQuiet, ReturnIsQuiet

\* The certification asks nothing of the provider.
LEMMA CertifyIsQuiet ==
  ASSUME SolverInv, AccountInv, NEW t \in Threads, Certify(t)
  PROVE  Quiet(t)
<1> DEFINE to == [call[t] EXCEPT !.refined = @ + 1]
<1>1. /\ ~At(t, "reporting") /\ ~At(t, "idle") /\ call[t].at = "certifying"
      /\ UNCHANGED <<factors, provider>> /\ (Go(t, to) \/ Return(t))
  BY Zenon DEF Certify, NoResidual, Fail, Accept, GiveUp, NoCorrection, Correct, At
<1>2. to.at # "reporting" /\ to.flushed \in Nat /\ to.matrix \in DOMAIN Matrices \cup {None}
  <2>1. /\ call[t].flushed \in Nat /\ call[t].matrix \in DOMAIN Matrices \cup {None}
        /\ DOMAIN call[t] = {"at", "handle", "matrix", "step", "iter", "left", "flushed", "refined"}
    BY <1>1, CallFacts, IdleCall
  <2>2. QED
    BY <1>1, <2>1
<1>3. \/ UNCHANGED snapshot \/ snapshot' = Count("checks", 1)
      \/ \E c \in {"refusals", "corrections"} : snapshot' = [Count("checks", 1) EXCEPT ![c] = @ + 1]
  BY Zenon DEF Certify, NoResidual, Fail, Accept, GiveUp, NoCorrection, Correct
<1>4. OthersCounted
  BY <1>3, OthersCount DEF Counters
<1> HIDE DEF to
<1>5. QED
  BY <1>1, <1>2, <1>4, GoIsQuiet, ReturnIsQuiet

\* Whoever flushes has the whole queue in hand.
LEMMA FlushKeeps ==
  ASSUME SolverInv, AccountInv, NEW t \in Threads, Flush(t)
  PROVE  AccountInv'
<1> DEFINE c == call[t]
           to == [c EXCEPT !.at = "reporting", !.flushed = provider.queued]
<1>1. c.at = "flushing" /\ ~At(t, "reporting") /\ ~At(t, "idle") /\ UNCHANGED <<snapshot, factors>>
  BY DEF Flush, At
<1>2. CASE Return(t) /\ UNCHANGED provider
  <2>1. OthersCounted
    BY <1>1, OthersCount
  <2>2. QED
    BY <1>1, <1>2, <2>1, ReturnIsQuiet, QuietKeeps
<1>3. CASE Go(t, to) /\ provider' = [provider EXCEPT !.queued = 0]
  <2>1. /\ provider \in [queued : Nat, accepted : Nat, drained : Nat] /\ snapshot \in [Counters -> Nat]
        /\ IsFiniteSet(Unreported) /\ \A u \in Threads : call[u].flushed \in Nat
    BY DEF AccountInv, AccountShape
  <2>2. /\ to.at = "reporting" /\ to.flushed = provider.queued
        /\ to.matrix \in DOMAIN Matrices \cup {None}
    <3>1. /\ c.matrix \in DOMAIN Matrices \cup {None}
          /\ DOMAIN c = {"at", "handle", "matrix", "step", "iter", "left", "flushed", "refined"}
      BY <1>1, CallFacts, IdleCall
    <3> HIDE DEF c
    <3>2. QED
      BY <3>1
  <2> HIDE DEF to, c
  <2>3. call' = [call EXCEPT ![t] = to] /\ DOMAIN call = Threads
    BY <1>3 DEF Go, SolverInv, Shaped
  <2>4. Unreported' = Unreported \cup {t} /\ t \notin Unreported
    BY <1>1, <2>2, <2>3 DEF Unreported, At
  <2>5. /\ \A u \in Unreported : FlushedBy'[u] = FlushedBy[u] /\ FlushedBy[u] \in Nat
        /\ FlushedBy'[t] = provider.queued
    BY <2>1, <2>2, <2>3, <2>4 DEF FlushedBy, Unreported, At
  <2>6. InHand' = InHand + provider.queued /\ InHand \in Nat /\ IsFiniteSet(Unreported')
    <3> DEFINE f == FlushedBy
               g == FlushedBy'
               S == Unreported
    <3>1. /\ IsFiniteSet(S) /\ t \notin S /\ g[t] \in Nat /\ g[t] = provider.queued
          /\ \A u \in S : g[u] \in Nat /\ g[u] = f[u]
      BY <2>1, <2>4, <2>5
    <3>2. InHand' = Total(g, S \cup {t}) /\ InHand = Total(f, S)
      BY <2>4 DEF InHand, Total
    <3> HIDE DEF f, g, S
    <3>3. Total(g, S \cup {t}) = Total(g, S) + g[t]
      BY <3>1, SumAdds
    <3>4. Total(g, S) = Total(f, S) /\ Total(g, S) \in Nat
      BY <3>1, SumAgrees, SumIsNat
    <3>5. IsFiniteSet(S \cup {t})
      BY <3>1, FS_AddElement
    <3>6. QED
      BY <2>4, <3>1, <3>2, <3>3, <3>4, <3>5 DEF S
  <2>7. /\ provider' \in [queued : Nat, accepted : Nat, drained : Nat] /\ provider'.queued = 0
        /\ provider'.accepted = provider.accepted /\ provider'.drained = provider.drained
    BY <1>3, <2>1
  <2>8. AccountShape'
    BY <1>1, <2>1, <2>2, <2>3, <2>6, <2>7 DEF AccountShape
  <2>9. SubmissionsAccounted'
    <3>1. /\ provider.accepted = snapshot.submissions + provider.queued + provider.drained + InHand
          /\ snapshot.submissions \in Nat /\ snapshot'.submissions = snapshot.submissions
      BY <1>1, <2>1, Account DEF AccountInv, Counters
    <3>2. /\ provider.accepted \in Nat /\ provider.queued \in Nat /\ provider.drained \in Nat
      BY <2>1
    <3>3. provider'.accepted = snapshot'.submissions + provider'.queued + provider'.drained + InHand'
      BY <2>6, <2>7, <3>1, <3>2
    <3>4. QED
      BY <3>3 DEF SubmissionsAccounted, InHand, Total
  <2>10. FactorsMeasured' /\ ResidentCoversFactors'
    <3>1. Made' = Made
      BY <1>1 DEF Made
    <3>2. \A u \in Threads : Factoring(u)' => call'[u].matrix \in DOMAIN Matrices
      BY <2>2, <2>3 DEF AccountInv, FactorsMeasured, Factoring, At
    <3>3. QED
      BY <1>1, <3>1, <3>2
         DEF AccountInv, FactorsMeasured, ResidentCoversFactors, Retained, BytesHeld, Made
  <2>11. QED
    BY <2>8, <2>9, <2>10 DEF AccountInv
<1>4. QED
  BY <1>2, <1>3, Zenon DEF Flush

\* What a report adds to the snapshot is what its call had in hand.
LEMMA ReportKeeps ==
  ASSUME SolverInv, AccountInv, NEW t \in Threads, Report(t)
  PROVE  AccountInv'
<1> DEFINE c == call[t]
           place == IF c.matrix # None THEN "uploaded" ELSE "certifying"
           to == [c EXCEPT !.at = place, !.flushed = 0]
<1>1. c.at = "reporting" /\ ~At(t, "idle") /\ UNCHANGED <<provider, factors>> /\ Go(t, to)
  BY Zenon DEF Report, At
<1>2. /\ provider \in [queued : Nat, accepted : Nat, drained : Nat] /\ snapshot \in [Counters -> Nat]
      /\ IsFiniteSet(Unreported) /\ \A u \in Threads : call[u].flushed \in Nat
  BY DEF AccountInv, AccountShape
<1>3. /\ to.at # "reporting" /\ to.flushed = 0
      /\ to.matrix \in DOMAIN Matrices \cup {None}
  <2>1. /\ c.matrix \in DOMAIN Matrices \cup {None}
        /\ DOMAIN c = {"at", "handle", "matrix", "step", "iter", "left", "flushed", "refined"}
    BY <1>1, CallFacts, IdleCall
  <2>2. place \in {"uploaded", "certifying"}
    OBVIOUS
  <2> HIDE DEF c, place
  <2>3. QED
    BY <2>1, <2>2
<1>4. snapshot' = Count("submissions", c.flushed)
  BY <1>1 DEF Report, Reported
<1> HIDE DEF to, place
<1>5. call' = [call EXCEPT ![t] = to] /\ DOMAIN call = Threads
  BY <1>1 DEF Go, SolverInv, Shaped
<1>6. Unreported' = Unreported \ {t} /\ t \in Unreported
  BY <1>1, <1>3, <1>5 DEF Unreported, At
<1>7. /\ \A u \in Unreported : FlushedBy[u] = call[u].flushed /\ FlushedBy[u] \in Nat
      /\ \A u \in Unreported' : FlushedBy'[u] = FlushedBy[u]
  BY <1>2, <1>5, <1>6 DEF FlushedBy, Unreported, At
<1>8. InHand = c.flushed + InHand' /\ InHand' \in Nat /\ IsFiniteSet(Unreported')
  <2> DEFINE f == FlushedBy
             g == FlushedBy'
             S == Unreported
  <2>1. /\ IsFiniteSet(S) /\ t \in S /\ f[t] = c.flushed
        /\ \A u \in S : f[u] \in Nat
        /\ \A u \in S \ {t} : g[u] = f[u]
    BY <1>2, <1>6, <1>7
  <2>2. InHand' = Total(g, S \ {t}) /\ InHand = Total(f, S)
    BY <1>6 DEF InHand, Total
  <2> HIDE DEF f, g, S
  <2>3. Total(f, S) = f[t] + Total(f, S \ {t})
    BY <2>1, SumTakes
  <2>4. IsFiniteSet(S \ {t})
    BY <2>1, FS_RemoveElement
  <2>5. Total(f, S \ {t}) \in Nat
    BY <2>1, <2>4, SumIsNat
  <2>6. Total(g, S \ {t}) = Total(f, S \ {t})
    BY <2>1, <2>4, SumAgrees
  <2>7. QED
    BY <1>6, <2>1, <2>2, <2>3, <2>4, <2>5, <2>6 DEF S
<1>9. /\ snapshot' \in [Counters -> Nat]
      /\ snapshot'.submissions = snapshot.submissions + c.flushed /\ snapshot'.bytes = snapshot.bytes
  <2> DEFINE n == c.flushed
             counter == "submissions"
  <2>1. counter \in Counters /\ "bytes" \in Counters \ {counter} /\ n \in Nat
    BY <1>2 DEF Counters
  <2>2. snapshot' = Count(counter, n)
    BY <1>4
  <2> HIDE DEF n, counter
  <2>3. /\ Count(counter, n) \in [Counters -> Nat]
        /\ Count(counter, n)[counter] = snapshot[counter] + n
        /\ \A d \in Counters \ {counter} : Count(counter, n)[d] = snapshot[d]
    BY <1>2, <2>1, CountCounts
  <2>4. /\ snapshot' \in [Counters -> Nat] /\ snapshot'["bytes"] = snapshot["bytes"]
        /\ snapshot'[counter] = snapshot[counter] + n
    BY <2>1, <2>2, <2>3
  <2>5. QED
    BY <2>4 DEF counter, n
<1>10. AccountShape'
  BY <1>1, <1>2, <1>3, <1>5, <1>8, <1>9 DEF AccountShape
<1>11. SubmissionsAccounted'
  <2>1. /\ provider.accepted = snapshot.submissions + provider.queued + provider.drained + InHand
        /\ snapshot.submissions \in Nat /\ c.flushed \in Nat
    BY <1>2, Account DEF AccountInv, Counters
  <2>2. /\ provider.accepted \in Nat /\ provider.queued \in Nat /\ provider.drained \in Nat
    BY <1>2
  <2>3. provider'.accepted = snapshot'.submissions + provider'.queued + provider'.drained + InHand'
    <3>1. UNCHANGED provider /\ InHand = c.flushed + InHand' /\ InHand' \in Nat
          /\ snapshot'.submissions = snapshot.submissions + c.flushed
      BY <1>1, <1>8, <1>9
    <3> HIDE DEF c
    <3>2. QED
      BY <2>1, <2>2, <3>1
  <2>4. QED
    BY <2>3 DEF SubmissionsAccounted, InHand, Total
<1>12. FactorsMeasured' /\ ResidentCoversFactors'
  <2>1. Made' = Made
    BY <1>1 DEF Made
  <2>2. \A u \in Threads : Factoring(u)' => call'[u].matrix \in DOMAIN Matrices
    BY <1>3, <1>5 DEF AccountInv, FactorsMeasured, Factoring, At
  <2>3. QED
    BY <1>1, <1>9, <2>1, <2>2
       DEF AccountInv, FactorsMeasured, ResidentCoversFactors, Retained, BytesHeld, Made
<1>13. QED
  BY <1>10, <1>11, <1>12 DEF AccountInv

\* What someone else flushes is drained.
LEMMA FlushElsewhereKeeps ==
  ASSUME SolverInv, AccountInv, FlushElsewhere
  PROVE  AccountInv'
<1>1. /\ provider' = [provider EXCEPT !.queued = 0, !.drained = @ + provider.queued]
      /\ UNCHANGED <<snapshot, factors, call>>
  BY DEF FlushElsewhere
<1>2. provider \in [queued : Nat, accepted : Nat, drained : Nat]
  BY DEF AccountInv, AccountShape
<1>3. /\ provider' \in [queued : Nat, accepted : Nat, drained : Nat] /\ provider'.queued = 0
      /\ provider'.accepted = provider.accepted
      /\ provider'.drained = provider.drained + provider.queued
  <2>1. [provider EXCEPT !.drained = @ + provider.queued] \in [queued : Nat, accepted : Nat, drained : Nat]
    BY <1>2
  <2>2. provider' = [[provider EXCEPT !.drained = @ + provider.queued] EXCEPT !.queued = 0]
    BY <1>1, <1>2
  <2>3. QED
    BY <1>2, <2>1, <2>2
<1>4. Unreported' = Unreported /\ FlushedBy' = FlushedBy /\ Made' = Made /\ BytesHeld' = BytesHeld
  BY <1>1 DEF Unreported, FlushedBy, Made, BytesHeld, At
<1>5. InHand' = InHand
  BY <1>4 DEF InHand
<1>6. AccountShape'
  BY <1>1, <1>3, <1>4 DEF AccountInv, AccountShape
<1>7. InHand \in Nat
  <2>1. IsFiniteSet(Unreported) /\ \A u \in Unreported : FlushedBy[u] \in Nat
    BY DEF AccountInv, AccountShape, FlushedBy, Unreported
  <2>2. QED
    BY <2>1, SumIsNat DEF InHand
<1>8. SubmissionsAccounted'
  <2>1. /\ provider.accepted = snapshot.submissions + provider.queued + provider.drained + InHand
        /\ snapshot.submissions \in Nat
    BY Account DEF AccountInv, AccountShape, Counters
  <2>2. /\ provider.accepted \in Nat /\ provider.queued \in Nat /\ provider.drained \in Nat
    BY <1>2
  <2>3. provider'.accepted = snapshot'.submissions + provider'.queued + provider'.drained + InHand'
    BY <1>1, <1>3, <1>5, <1>7, <2>1, <2>2
  <2>4. QED
    BY <2>3 DEF SubmissionsAccounted, InHand, Total
<1>9. FactorsMeasured' /\ ResidentCoversFactors'
  BY <1>1, <1>4
     DEF AccountInv, FactorsMeasured, Factoring, At, ResidentCoversFactors, Retained
<1>10. QED
  BY <1>6, <1>8, <1>9 DEF AccountInv

\* A matrix takes room.
LEMMA ResidentBytesType ==
  ASSUME NEW m \in DOMAIN Matrices
  PROVE  ResidentBytes(m) \in Nat
<1>1. Matrices[m].rows \in Nat /\ Matrices[m].nonzeros \in Nat
  BY FemmAssumption
<1>2. QED
  BY <1>1 DEF ResidentBytes

\* What the factors in use hold has a sum.
LEMMA HeldBytesType ==
  ASSUME AccountInv
  PROVE  \A h \in Made : BytesHeld[h] = ResidentBytes(factors[h].fingerprint) /\ BytesHeld[h] \in Nat
BY ResidentBytesType DEF AccountInv, FactorsMeasured, BytesHeld

\* factor counts what it leaves resident before anyone can hold it.
LEMMA EndFactorKeeps ==
  ASSUME SolverInv, AccountInv, NEW t \in Threads, EndFactor(t)
  PROVE  AccountInv'
<1> DEFINE c == call[t]
           k == c.handle
           bytes == ResidentBytes(c.matrix)
           made == [fingerprint |-> c.matrix, transposable |-> FALSE, method |-> method,
                    payload |-> [fingerprint |-> c.matrix, method |-> method]]
<1>1. ~At(t, "reporting") /\ c.at = "uploaded" /\ ~At(t, "idle") /\ Return(t) /\ UNCHANGED provider
  BY DEF EndFactor, Refuse, At
<1>2. CASE UNCHANGED factors /\ snapshot' = Count("refusals", 1)
  <2>1. OthersCounted
    BY <1>2, OthersCount DEF Counters
  <2>2. QED
    BY <1>1, <1>2, <2>1, ReturnIsQuiet, QuietKeeps
<1>3. CASE factors' = [factors EXCEPT ![k] = made] /\ snapshot' = RecordUpload(bytes)
  <2>1. /\ provider \in [queued : Nat, accepted : Nat, drained : Nat] /\ snapshot \in [Counters -> Nat]
        /\ IsFiniteSet(Unreported) /\ \A u \in Threads : call[u].flushed \in Nat
        /\ IsFiniteSet(Made)
    BY DEF AccountInv, AccountShape, FactorsMeasured
  <2>2. Factoring(t)
    BY <1>1 DEF SolverInv, KindsApart, Factoring
  <2>3. k \in Handles /\ factors[k] = None /\ c.matrix \in DOMAIN Matrices
    BY <2>2 DEF SolverInv, FreshHandles, AccountInv, FactorsMeasured
  <2>4. bytes \in Nat /\ made.fingerprint = c.matrix
    BY <2>3, ResidentBytesType
  <2> HIDE DEF made
  <2>5. call' = [call EXCEPT ![t] = Idle] /\ DOMAIN call = Threads
    BY <1>1 DEF Return, SolverInv, Shaped
  <2>6. Idle.at # "reporting" /\ Idle.flushed \in Nat /\ Idle.matrix = None /\ Idle.at = "idle"
    BY DEF Idle
  <2>7. Unreported' = Unreported /\ InHand' = InHand
    BY <1>1, <2>1, <2>5, <2>6, HandStays DEF At
  <2>8. /\ snapshot' \in [Counters -> Nat] /\ snapshot'.submissions = snapshot.submissions
        /\ snapshot'.bytes = snapshot.bytes + bytes
    <3> HIDE DEF bytes
    <3> DEFINE once == [snapshot EXCEPT !.bytes = @ + bytes]
    <3>1. /\ once \in [Counters -> Nat] /\ once.submissions = snapshot.submissions
          /\ once.bytes = snapshot.bytes + bytes
      BY <2>1, <2>4 DEF Counters
    <3>2. snapshot' = [once EXCEPT !.uploads = @ + 1]
      BY <1>3, <2>1 DEF RecordUpload, Counters
    <3> HIDE DEF once
    <3>3. QED
      BY <3>1, <3>2 DEF Counters
  <2>9. AccountShape'
    BY <1>1, <2>1, <2>5, <2>6, <2>7, <2>8 DEF AccountShape
  <2>10. SubmissionsAccounted'
    <3>1. provider.accepted = snapshot.submissions + provider.queued + provider.drained + InHand
      BY Account DEF AccountInv
    <3>2. provider'.accepted = snapshot'.submissions + provider'.queued + provider'.drained + InHand'
      BY <1>1, <2>7, <2>8, <3>1
    <3>3. QED
      BY <3>2 DEF SubmissionsAccounted, InHand, Total
  <2>11. /\ Made' \in {Made, Made \cup {k}} /\ k \notin Made
         /\ \A h \in Made : factors'[h] = factors[h]
         /\ factors'[k] = made
    BY <1>3, <2>3 DEF Made, SolverInv, Shaped
  <2>12. /\ IsFiniteSet(Made') /\ \A h \in Made' : factors'[h].fingerprint \in DOMAIN Matrices
    BY <2>1, <2>3, <2>4, <2>11, FS_AddElement DEF AccountInv, FactorsMeasured
  <2>13. FactorsMeasured'
    BY <2>5, <2>6, <2>12 DEF AccountInv, FactorsMeasured, Factoring, At
  <2>14. ResidentCoversFactors'
    <3> DEFINE f == BytesHeld
               g == BytesHeld'
               S == Made
    <3>1. \A h \in S : f[h] \in Nat /\ f[h] = ResidentBytes(factors[h].fingerprint)
      BY HeldBytesType
    <3>2. \A h \in S : h \in Made' /\ g[h] = ResidentBytes(factors'[h].fingerprint)
      BY <2>11 DEF BytesHeld, ResidentBytes
    <3>3. \A h \in S : f[h] \in Nat /\ g[h] = f[h]
      BY <2>11, <3>1, <3>2
    <3>4. Made' = S \cup {k} => g[k] = bytes
      BY <2>4, <2>11 DEF BytesHeld, ResidentBytes
    <3>5. Retained' = Total(g, Made') /\ Retained = Total(f, S)
      BY DEF Retained, Total
    <3>6. IsFiniteSet(S) /\ k \notin S /\ Made' \in {S, S \cup {k}} /\ bytes \in Nat
      BY <2>1, <2>4, <2>11
    <3>a. Retained <= snapshot.bytes /\ snapshot.bytes \in Nat /\ snapshot'.bytes = snapshot.bytes + bytes
      BY <2>1, <2>8 DEF AccountInv, ResidentCoversFactors, Counters
    <3> HIDE DEF f, g, S, bytes, k
    <3>7. Total(g, S) = Total(f, S) /\ Total(f, S) \in Nat
      BY <3>3, <3>6, SumAgrees, SumIsNat
    <3>8. CASE Made' = S
      BY <3>5, <3>6, <3>7, <3>8, <3>a DEF ResidentCoversFactors
    <3>9. CASE Made' = S \cup {k}
      <4>1. g[k] = bytes /\ \A h \in S : g[h] \in Nat
        BY <3>3, <3>4, <3>9
      <4>2. Total(g, S \cup {k}) = Total(g, S) + g[k]
        BY <3>6, <4>1, SumAdds
      <4>3. QED
        BY <3>5, <3>6, <3>7, <3>9, <3>a, <4>1, <4>2 DEF ResidentCoversFactors
    <3>10. QED
      BY <3>6, <3>8, <3>9
  <2>15. QED
    BY <2>9, <2>10, <2>13, <2>14 DEF AccountInv
<1>4. QED
  BY <1>2, <1>3, Zenon DEF EndFactor, Refuse

\* The drop of a factor takes from what is held, and nothing from what is called resident.
LEMMA DropFactorKeeps ==
  ASSUME SolverInv, AccountInv, NEW k \in Handles, DropFactor(k)
  PROVE  AccountInv'
<1>1. /\ factors[k] # None /\ factors' = [factors EXCEPT ![k] = None]
      /\ UNCHANGED <<snapshot, provider, call>>
  BY DEF DropFactor
<1>2. Made' = Made \ {k} /\ k \in Made /\ \A h \in Made \ {k} : factors'[h] = factors[h]
  BY <1>1 DEF Made, SolverInv, Shaped
<1>3. AccountShape' /\ SubmissionsAccounted'
  BY <1>1 DEF AccountInv, AccountShape, SubmissionsAccounted, Unreported, FlushedBy, At
<1>4. IsFiniteSet(Made) /\ IsFiniteSet(Made')
  BY <1>2, FS_RemoveElement DEF AccountInv, FactorsMeasured
<1>5. FactorsMeasured'
  BY <1>1, <1>2, <1>4 DEF AccountInv, FactorsMeasured, Factoring, At
<1>6. ResidentCoversFactors'
  <2> DEFINE f == BytesHeld
             g == BytesHeld'
             S == Made
  <2>1. IsFiniteSet(S) /\ k \in S /\ IsFiniteSet(S \ {k})
    BY <1>2, <1>4
  <2>2. \A h \in S : f[h] \in Nat
    BY HeldBytesType
  <2>3. \A h \in S \ {k} : g[h] = f[h]
    BY <1>2 DEF BytesHeld, ResidentBytes
  <2>4. Retained' = Total(g, S \ {k}) /\ Retained = Total(f, S)
    BY <1>2 DEF Retained, Total
  <2>5. Retained <= snapshot.bytes /\ snapshot' = snapshot /\ snapshot.bytes \in Nat
    BY <1>1 DEF AccountInv, AccountShape, ResidentCoversFactors, Counters
  <2> HIDE DEF f, g, S
  <2>6. Total(f, S) = f[k] + Total(f, S \ {k}) /\ Total(f, S \ {k}) \in Nat
    BY <2>1, <2>2, SumTakes, SumIsNat
  <2>7. Total(g, S \ {k}) = Total(f, S \ {k})
    BY <2>1, <2>3, SumAgrees
  <2>8. f[k] \in Nat
    BY <2>1, <2>2
  <2>9. QED
    BY <2>4, <2>5, <2>6, <2>7, <2>8 DEF ResidentCoversFactors
<1>7. QED
  BY <1>3, <1>5, <1>6 DEF AccountInv

-----------------------------------------------------------------------------

\* Nothing is accounted for at first.
LEMMA InitAccounts ==
  ASSUME Init
  PROVE  AccountInv
<1>1. \A t \in Threads : call[t] = Idle
  BY DEF Init
<1>2. Unreported = {} /\ Made = {} /\ \A t \in Threads : call[t].flushed \in Nat /\ ~Factoring(t)
  BY <1>1 DEF Init, Unreported, Made, Idle, At, Factoring
<1>3. \A f : Total(f, {}) = 0
  BY FS_EmptySet, SumSteps
<1>4. snapshot \in [Counters -> Nat] /\ snapshot.submissions = 0 /\ snapshot.bytes = 0
  BY DEF Init, Counters
<1>5. provider = [queued |-> 0, accepted |-> 0, drained |-> 0]
  BY DEF Init
<1>6. AccountShape /\ FactorsMeasured
  BY <1>2, <1>4, <1>5, FS_EmptySet DEF AccountShape, FactorsMeasured
<1>7. SubmissionsAccounted
  BY <1>2, <1>3, <1>4, <1>5 DEF SubmissionsAccounted, Total
<1>8. ResidentCoversFactors
  BY <1>2, <1>3, <1>4 DEF ResidentCoversFactors, Retained, Total
<1>9. QED
  BY <1>6, <1>7, <1>8 DEF AccountInv

\* The accounts stay balanced at every step.
LEMMA NextAccounts ==
  ASSUME SolverInv, AccountInv, [Next]_femmVars
  PROVE  AccountInv'
<1>1. CASE \E t \in Threads : Continue(t)
  BY <1>1, RequestsAreQuiet, CertifyIsQuiet, QuietKeeps, EndFactorKeeps, FlushKeeps, ReportKeeps
     DEF Continue
<1>2. CASE \E t \in Threads, m \in DOMAIN Matrices : BeginFactor(t, m)
  BY <1>2, BeginIsQuiet, QuietKeeps
<1>3. CASE \E t \in Threads, h \in DOMAIN Held : CanReuse(t, h) \/ BeginSolve(t, h) \/ SolveTranspose(t, h)
  BY <1>3, AskIsQuiet, QuietKeeps
<1>4. CASE \E h \in Handles : DropFactor(h)
  BY <1>4, DropFactorKeeps
<1>5. CASE FlushElsewhere
  BY <1>5, FlushElsewhereKeeps
<1>6. CASE UNCHANGED femmVars
  BY <1>6
     DEF femmVars, AccountInv, AccountShape, SubmissionsAccounted, FactorsMeasured,
         ResidentCoversFactors, Retained, BytesHeld, Made, Unreported, FlushedBy, Factoring, At
<1>7. QED
  BY <1>1, <1>2, <1>3, <1>4, <1>5, <1>6 DEF Next

\* Both hold of every state a solver reaches.
LEMMA AlwaysAccounted == Spec => [](SolverInv /\ AccountInv)
<1>1. Init => SolverInv /\ AccountInv
  BY InitHolds, InitAccounts
<1>2. SolverInv /\ AccountInv /\ [Next]_femmVars => (SolverInv /\ AccountInv)'
  BY NextKeeps, NextAccounts
<1>3. QED
  BY <1>1, <1>2, PTL DEF Spec

\* Whoever flushes for whom, provider_submissions is short of the requests accepted by
\* exactly those queued, in hand, or drained by the provider itself or someone else.
THEOREM SubmissionsAddUp == Spec => []SubmissionsAccounted
<1>1. SolverInv /\ AccountInv => SubmissionsAccounted
  BY DEF AccountInv
<1>2. QED
  BY <1>1, AlwaysAccounted, PTL

\* However factors are made and dropped, the snapshot never calls less resident than the
\* factors in use hold.
THEOREM ResidentIsCovered == Spec => []ResidentCoversFactors
<1>1. SolverInv /\ AccountInv => ResidentCoversFactors
  BY DEF AccountInv
<1>2. QED
  BY <1>1, AlwaysAccounted, PTL
=============================================================================
