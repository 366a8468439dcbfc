------------------------------ MODULE Outcomes ------------------------------
(***************************************************************************)
(* What the operators of the host-side modules return when there is nothing *)
(* to return.                                                              *)
(***************************************************************************)
CONSTANTS None,     \* Option::None
          Refused   \* an Err
=============================================================================
