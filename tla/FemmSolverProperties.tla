------------------------ MODULE FemmSolverProperties ------------------------
(***************************************************************************)
(* What the resident FEMM solver promises, and what its snapshot is worth.  *)
(***************************************************************************)
EXTENDS FemmSolver, Functions

\* A solution is one of the matrix of the handle it was asked with, found by the
\* method the solver is configured for, whatever factors callers hold and drop
\* meanwhile (factor_payload, solve).
SolutionIsOfItsMatrix ==
  answer # None => answer.solved = [fingerprint |-> answer.asked, method |-> method]

Unreported == {t \in Threads : At(t, "reporting")}

FlushedBy == [t \in Unreported |-> call[t].flushed]

\* Every request the provider accepted is reported by the solver, in its queue, in the
\* hands of a call that has flushed and not yet reported, or was drained by the
\* provider itself or by someone else: provider_submissions is short of the work done
\* by exactly the rest (ProviderWork::finish, reserve_submission).
SubmissionsAccounted ==
  provider.accepted =
    snapshot.submissions + provider.queued + provider.drained
    + SumFunctionOnSet(FlushedBy, Unreported)

Made == {h \in Handles : factors[h] # None}

BytesHeld == [h \in Made |-> ResidentBytes(factors[h].fingerprint)]

Retained == SumFunctionOnSet(BytesHeld, Made)

\* What the snapshot calls resident is never less than what the factors in use hold
\* (factor).
ResidentCoversFactors == Retained <= snapshot.bytes

\* A call returns, converged or not, whatever the provider answers and whatever the
\* other threads do (solve_forward, cg_f32, bicgstab_f32).
CallsReturn == \A t \in Threads : ~At(t, "idle") ~> At(t, "idle")
=============================================================================
