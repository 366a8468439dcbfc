--------------------------- MODULE WgpuDiscovery ---------------------------
(***************************************************************************)
(* From the adapters a platform capsule has probed to the sites the wgpu   *)
(* library registers: WgpuDiscovery::from_probes and                       *)
(* ComputeWgpuLib::{from_probe_port, manifest, load}.                      *)
(*                                                                         *)
(* A runtime is the evidence of one adapter with the device that produced  *)
(* it.  sort_key is a number; labels, limits and features, which are copied*)
(* as they come, are left out.                                             *)
(***************************************************************************)
EXTENDS Outcomes, Naturals, FiniteSets

\* What the port may return: sequences, in the order of the runtime, of
\* [key, device, transfer, mapping, allocated], the last that some allocation succeeded.
CONSTANT Reports

\* A report is finite, and a device is reported by one adapter.
ASSUME DiscoveryAssumption ==
  \A probes \in Reports :
    /\ IsFiniteSet(DOMAIN probes) /\ DOMAIN probes \subseteq Nat
    /\ \A i \in DOMAIN probes : probes[i].key \in Nat
    /\ \A i, j \in DOMAIN probes : probes[i].device = probes[j].device => i = j

VARIABLES adapters,   \* WgpuDiscovery::adapters
          contexts,   \* the devices retained beside them
          sites       \* the registry: the site registered for each ordinal

discoveryVars == <<adapters, contexts, sites>>

Successful(probe) == probe.transfer /\ probe.mapping /\ probe.allocated

\* sort_by is stable.
Before(probes, i, j) == probes[i].key < probes[j].key \/ (probes[i].key = probes[j].key /\ i < j)

\* The places of the runtime that are kept, sorted.
Order(probes, kept) ==
  CHOOSE order \in [1..Cardinality(kept) -> kept] :
    \A low, high \in DOMAIN order : low < high => Before(probes, order[low], order[high])

\* Mutated: the adapters that failed a probe are sorted in.
FromAllProbes(probes) ==
  LET order == Order(probes, DOMAIN probes) IN [place \in DOMAIN order |-> probes[order[place]]]

\* from_probes: keep the successful, sort them; the ordinal is the new place.
FromProbes(probes) ==
  LET order == Order(probes, {i \in DOMAIN probes : Successful(probes[i])}) IN
  [place \in DOMAIN order |-> probes[order[place]]]

\* from_probe_port: a context for every runtime, in the order of the port.
ContextsOf(probes) == [i \in DOMAIN probes |-> probes[i].device]

DiscoveryInit == adapters = << >> /\ contexts = << >> /\ sites = << >>

\* from_probe_port
Discover(probes) ==
  /\ adapters = << >> /\ contexts = << >>
  /\ adapters' = FromProbes(probes)
  /\ contexts' = ContextsOf(probes)
  /\ UNCHANGED sites

\* from_discovery: evidence without devices.
Describe(probes) ==
  /\ adapters = << >> /\ contexts = << >>
  /\ adapters' = FromProbes(probes)
  /\ UNCHANGED <<contexts, sites>>

\* load: a site for each adapter, on the context found at its ordinal, if there is one.
LoadSites ==
  /\ adapters # << >> /\ sites = << >>
  /\ sites' = [place \in DOMAIN adapters |->
                 [probe |-> adapters[place],
                  device |-> IF place \in DOMAIN contexts THEN contexts[place] ELSE None]]
  /\ UNCHANGED <<adapters, contexts>>

DiscoveryNext ==
  \/ \E probes \in Reports : Discover(probes)
  \/ \E probes \in Reports : Describe(probes)
  \/ LoadSites

DiscoverySpec == DiscoveryInit /\ [][DiscoveryNext]_discoveryVars

-----------------------------------------------------------------------------

\* A site that runs on a device runs on the one whose probe it presents as its
\* evidence (WgpuAdapterRuntime, ComputeWgpuLib::load).
SiteKeepsDevice ==
  \A place \in DOMAIN sites : sites[place].device \in {None, sites[place].probe.device}

\* The sites are those of the adapters that passed their probes, their ordinals
\* follow the sort keys, and no two run on one device (from_probes, load).
SitesAreProven ==
  /\ \A place \in DOMAIN sites : Successful(sites[place].probe)
  /\ \A low, high \in DOMAIN sites : low < high =>
       /\ sites[low].probe.key <= sites[high].probe.key
       /\ sites[low].device = sites[high].device => sites[low].device = None
=============================================================================
