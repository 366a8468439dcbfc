-------------------------- MODULE MCVendorRuntime --------------------------
(* Two sites, one of each vendor, on devices that use the same addresses.  *)
EXTENDS VendorRuntimeProperties, TLC

CONSTANTS cuda0, rocm0

MCVendor == [s \in Sites |-> IF s = cuda0 THEN "cuda" ELSE "rocm"]

Full(l) == Checked(l)

\* Everything there; an older BLAS first on the search path; no blaslt, which
\* only CUDA requires; no gfx target, which only ROCm requires.
MCInstallations ==
  LET all == [l \in Libraries \cup {"gfx"} |-> IF l = "gfx" THEN TRUE ELSE <<Full(l)>>] IN
  {all,
   [all EXCEPT !["blas"] = <<{"create", "destroy", "sgemm"}, Full("blas")>>],
   [all EXCEPT !["blaslt"] = << >>],
   [all EXCEPT !["gfx"] = FALSE]}

Symmetry == Permutations(Threads) \cup Permutations(Tensors) \cup Permutations(Addresses)
=============================================================================
