-------------------------- MODULE MCModeledCompute --------------------------
(* Instances of the modeled executor for TLC.  Bytes are counted in cells. *)
EXTENDS ModeledComputeProperties

SmallAndLarge == {[bytes |-> 1, out |-> 2], [bytes |-> 3, out |-> 2]}

\* One result larger than the pool, one request larger than the queue.
WithOversized == {[bytes |-> 1, out |-> 1], [bytes |-> 3, out |-> 2],
                  [bytes |-> 2, out |-> 4], [bytes |-> 6, out |-> 1]}
=============================================================================
