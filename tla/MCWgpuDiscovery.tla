-------------------------- MODULE MCWgpuDiscovery --------------------------
(***************************************************************************)
(* Every report of at most two adapters, with two sort keys.                *)
(***************************************************************************)
EXTENDS WgpuDiscovery

Devices == {"d0", "d1"}

Probes ==
  [key : 1..2, device : Devices, transfer : BOOLEAN, mapping : BOOLEAN, allocated : BOOLEAN]

MCReports ==
  {probes \in UNION {[1..n -> Probes] : n \in 0..2} :
     \A i, j \in DOMAIN probes : probes[i].device = probes[j].device => i = j}
=============================================================================
