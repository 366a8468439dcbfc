---------------------------- MODULE MCFemmSolver ----------------------------
(***************************************************************************)
(* Two threads, a matrix within the budget and one beyond it, and the       *)
(* handles a caller may bring: of another provider, stale, of other solvers. *)
(***************************************************************************)
EXTENDS FemmSolverProperties

MCMatrices ==
  [m \in {"small", "large"} |->
     IF m = "small" THEN [rows |-> 1, nonzeros |-> 1] ELSE [rows |-> 2, nonzeros |-> 3]]

Factor(fingerprint, payload) ==
  [fingerprint |-> fingerprint, transposable |-> FALSE, method |-> "cg", payload |-> payload]

MCForeign ==
  [h \in {"other", "stale", "shared"} |->
     CASE h = "other" -> Factor("small", None)
       [] h = "stale" -> Factor("large", [fingerprint |-> "small", method |-> "cg"])
       [] h = "shared" -> Factor("small", [fingerprint |-> "small", method |-> "cg"])]
=============================================================================
