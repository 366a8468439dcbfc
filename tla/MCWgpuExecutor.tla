--------------------------- MODULE MCWgpuExecutor ---------------------------
(* Instances of the wgpu executor for TLC. *)
EXTENDS WgpuExecutorProperties

R(kind, bytes, key) == [kind |-> kind, bytes |-> bytes, key |-> key]

\* One request of each kind; the result of the last exceeds a Capacity of 3.
EachKind == {R("pointwise", 2, "add"), R("broadcast", 2, "add"), R("reduction", 1, "sum"),
             R("empty", 1, "sum"), R("linalg", 2, "add"), R("linalg", 4, "add")}

PointwiseAndReduction == {R("pointwise", 2, "add"), R("reduction", 1, "sum")}
=============================================================================
