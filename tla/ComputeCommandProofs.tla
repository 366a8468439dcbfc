------------------------ MODULE ComputeCommandProofs ------------------------
(***************************************************************************)
(* Proofs about the host side: the sites discovery leads to, what a profile *)
(* is judged by before and after it was saved, and what of an artifact is   *)
(* verified.                                                               *)
(***************************************************************************)
EXTENDS ComputeCommandProperties, SumLemmas

-----------------------------------------------------------------------------
(* Discovery: sort_by of the adapters that are kept.                       *)

\* Of any two places one comes before the other, and the relation is transitive.
LEMMA BeforeIsOrder ==
  ASSUME NEW probes \in Reports,
         NEW i \in DOMAIN probes, NEW j \in DOMAIN probes, NEW k \in DOMAIN probes
  PROVE  /\ i # j => Before(probes, i, j) \/ Before(probes, j, i)
         /\ Before(probes, i, j) /\ Before(probes, j, k) => Before(probes, i, k)
         /\ Before(probes, i, j) => probes[i].key <= probes[j].key
BY DiscoveryAssumption DEF Before

\* Places that are not empty have a last one.
LEMMA LastPlace ==
  ASSUME NEW probes \in Reports, NEW kept \in SUBSET DOMAIN probes, kept # {}
  PROVE  \E last \in kept : \A i \in kept \ {last} : Before(probes, i, last)
<1> DEFINE IsLast(s, last) == \A i \in s \ {last} : Before(probes, i, last)
           B == {s \in SUBSET kept : s # {} /\ ~ \E last \in s : IsLast(s, last)}
<1> SUFFICES ASSUME B # {}
             PROVE  FALSE
  OBVIOUS
<1>1. IsFiniteSet(kept)
  BY DiscoveryAssumption, FS_Subset
<1>2. PICK s \in B : \A t \in SUBSET s : t # s => t \notin B
  <2>1. B \subseteq SUBSET kept
    OBVIOUS
  <2> HIDE DEF B
  <2>2. QED
    BY <1>1, <2>1, SmallestSet
<1>3. PICK x \in s : TRUE
  OBVIOUS
<1>4. s \ {x} # {}
  <2> SUFFICES ASSUME s \ {x} = {}
               PROVE  FALSE
    OBVIOUS
  <2>1. IsLast(s, x)
    OBVIOUS
  <2>2. QED
    BY <2>1
<1>5. s \ {x} \notin B /\ s \ {x} \in SUBSET kept
  BY <1>2
<1>6. PICK y \in s \ {x} : IsLast(s \ {x}, y)
  BY <1>4, <1>5
<1>7. x \in DOMAIN probes /\ y \in DOMAIN probes /\ \A i \in s : i \in DOMAIN probes
  OBVIOUS
<1>8. CASE Before(probes, x, y)
  <2>1. IsLast(s, y)
    BY <1>6, <1>8
  <2>2. QED
    BY <2>1
<1>9. CASE Before(probes, y, x)
  <2>1. \A i \in s \ {x} : Before(probes, i, x)
    <3> SUFFICES ASSUME NEW i \in s \ {x}
                 PROVE  Before(probes, i, x)
      OBVIOUS
    <3>1. CASE i = y
      BY <1>9, <3>1
    <3>2. CASE i # y
      <4>1. Before(probes, i, y)
        BY <1>6, <3>2
      <4>2. QED
        BY <1>7, <1>9, <4>1, BeforeIsOrder
    <3>3. QED
      BY <3>1, <3>2
  <2>2. QED
    BY <2>1
<1>10. QED
  BY <1>6, <1>7, <1>8, <1>9, BeforeIsOrder

Sorted(probes, kept, order) ==
  /\ order \in [1..Cardinality(kept) -> kept]
  /\ \A low, high \in DOMAIN order : low < high => Before(probes, order[low], order[high])

\* Any places can be sorted.
LEMMA OrderExists ==
  ASSUME NEW probes \in Reports, NEW kept \in SUBSET DOMAIN probes
  PROVE  \E order : Sorted(probes, kept, order)
<1> DEFINE B == {s \in SUBSET kept : ~ \E order : Sorted(probes, s, order)}
<1> SUFFICES ASSUME B # {}
             PROVE  FALSE
  OBVIOUS
<1>1. IsFiniteSet(kept)
  BY DiscoveryAssumption, FS_Subset
<1>2. PICK s \in B : \A t \in SUBSET s : t # s => t \notin B
  <2>1. B \subseteq SUBSET kept
    OBVIOUS
  <2> HIDE DEF B
  <2>2. QED
    BY <1>1, <2>1, SmallestSet
<1>3. s \in SUBSET DOMAIN probes /\ IsFiniteSet(s)
  BY <1>1, FS_Subset
<1>4. s # {}
  <2> SUFFICES ASSUME s = {}
               PROVE  FALSE
    OBVIOUS
  <2>1. Cardinality(s) = 0
    BY FS_EmptySet
  <2>2. 1..0 = {}
    OBVIOUS
  <2>3. [i \in 1..0 |-> i] \in [1..Cardinality(s) -> s]
    BY <2>1, <2>2
  <2>4. Sorted(probes, s, [i \in 1..0 |-> i])
    BY <2>2, <2>3 DEF Sorted
  <2>5. QED
    BY <2>4
<1>5. PICK last \in s : \A i \in s \ {last} : Before(probes, i, last)
  BY <1>3, <1>4, LastPlace
<1> DEFINE rest == s \ {last}
           n == Cardinality(rest)
<1>6. n \in Nat /\ Cardinality(s) = n + 1
  BY <1>3, FS_RemoveElement, FS_CardinalityType, FS_Subset
<1>7. PICK order : Sorted(probes, rest, order)
  BY <1>2
<1>8. /\ order \in [1..n -> rest]
      /\ \A low, high \in 1..n : low < high => Before(probes, order[low], order[high])
  BY <1>7 DEF Sorted
<1> DEFINE longer == [i \in 1..(n + 1) |-> IF i = n + 1 THEN last ELSE order[i]]
<1> HIDE DEF n, rest
<1>9. \A i \in 1..n : longer[i] = order[i] /\ order[i] \in rest
  BY <1>6, <1>8
<1>10. longer \in [1..(n + 1) -> s]
  <2>1. \A i \in 1..(n + 1) : i = n + 1 \/ i \in 1..n
    BY <1>6
  <2>2. rest \subseteq s
    BY DEF rest
  <2>3. QED
    BY <1>8, <2>1, <2>2
<1>11. \A low, high \in 1..(n + 1) : low < high => Before(probes, longer[low], longer[high])
  <2> SUFFICES ASSUME NEW low \in 1..(n + 1), NEW high \in 1..(n + 1), low < high
               PROVE  Before(probes, longer[low], longer[high])
    OBVIOUS
  <2>1. low \in 1..n
    BY <1>6
  <2>2. CASE high = n + 1
    <3>1. longer[high] = last
      BY <2>2
    <3>2. longer[low] \in s \ {last}
      BY <1>9, <2>1 DEF rest
    <3>3. QED
      BY <1>5, <3>1, <3>2
  <2>3. CASE high # n + 1
    <3>1. high \in 1..n
      BY <1>6, <2>3
    <3> HIDE DEF longer
    <3>2. QED
      BY <1>8, <1>9, <2>1, <3>1
  <2>4. QED
    BY <2>2, <2>3
<1> HIDE DEF longer
<1>12. Sorted(probes, s, longer)
  <2>1. longer \in [1..Cardinality(s) -> s]
    BY <1>6, <1>10
  <2>2. DOMAIN longer = 1..(n + 1)
    BY <1>10
  <2>3. QED
    BY <1>11, <2>1, <2>2 DEF Sorted
<1>13. QED
  BY <1>12

\* So the order chosen is sorted.
LEMMA OrderIsSorted ==
  ASSUME NEW probes \in Reports, NEW kept \in SUBSET DOMAIN probes
  PROVE  Sorted(probes, kept, Order(probes, kept))
<1>1. \E order \in [1..Cardinality(kept) -> kept] :
        \A low, high \in DOMAIN order : low < high => Before(probes, order[low], order[high])
  BY OrderExists DEF Sorted
<1>2. QED
  BY <1>1 DEF Order, Sorted

\* What discovery keeps: adapters that passed their probes, by key, each of a place
\* of its own in the report.
LEMMA FromProbesProperties ==
  ASSUME NEW probes \in Reports
  PROVE  \E order :
           /\ FromProbes(probes) = [place \in DOMAIN order |-> probes[order[place]]]
           /\ \A place \in DOMAIN order :
                order[place] \in DOMAIN probes /\ Successful(probes[order[place]])
           /\ DOMAIN order \subseteq Nat
           /\ \A low, high \in DOMAIN order : low < high =>
                probes[order[low]].key <= probes[order[high]].key
<1> DEFINE kept == {i \in DOMAIN probes : Successful(probes[i])}
           order == Order(probes, kept)
<1>1. Sorted(probes, kept, order)
  BY OrderIsSorted
<1>2. /\ DOMAIN order = 1..Cardinality(kept)
      /\ \A place \in DOMAIN order : order[place] \in kept
      /\ \A low, high \in DOMAIN order : low < high => Before(probes, order[low], order[high])
  BY <1>1 DEF Sorted
<1>3. FromProbes(probes) = [place \in DOMAIN order |-> probes[order[place]]]
  BY DEF FromProbes
<1> HIDE DEF order
<1>4. \A low, high \in DOMAIN order : low < high => probes[order[low]].key <= probes[order[high]].key
  BY <1>2, BeforeIsOrder
<1>5. DOMAIN order \subseteq Nat
  BY <1>2
<1>6. QED
  BY <1>2, <1>3, <1>4, <1>5

(* The adapters come from one report, and the contexts, if there are any,   *)
(* from the same one; SitesAreProven says the rest.                         *)
DiscoveryInv ==
  /\ adapters # << >> =>
       \E probes \in Reports :
         adapters = FromProbes(probes) /\ contexts \in {<< >>, ContextsOf(probes)}
  /\ SitesAreProven

\* The sites of adapters and contexts of one report are proven.
LEMMA LoadedSitesAreProven ==
  ASSUME NEW probes \in Reports, NEW devices, devices \in {<< >>, ContextsOf(probes)},
         NEW found, found = FromProbes(probes), NEW loaded,
         loaded = [place \in DOMAIN found |->
                     [probe |-> found[place],
                      device |-> IF place \in DOMAIN devices THEN devices[place] ELSE None]]
  PROVE  /\ \A place \in DOMAIN loaded : Successful(loaded[place].probe)
         /\ \A low, high \in DOMAIN loaded : low < high =>
              /\ loaded[low].probe.key <= loaded[high].probe.key
              /\ loaded[low].device = loaded[high].device => loaded[low].device = None
<1>1. PICK order :
        /\ found = [place \in DOMAIN order |-> probes[order[place]]]
        /\ \A place \in DOMAIN order :
             order[place] \in DOMAIN probes /\ Successful(probes[order[place]])
        /\ DOMAIN order \subseteq Nat
        /\ \A low, high \in DOMAIN order : low < high =>
             probes[order[low]].key <= probes[order[high]].key
  BY FromProbesProperties
<1>2. /\ DOMAIN loaded = DOMAIN order
      /\ \A place \in DOMAIN order :
           /\ loaded[place].probe = probes[order[place]]
           /\ loaded[place].device = IF place \in DOMAIN devices THEN devices[place] ELSE None
  BY <1>1
<1>3. \A low, high \in DOMAIN order : low < high =>
        (loaded[low].device = loaded[high].device => loaded[low].device = None)
  <2> SUFFICES ASSUME NEW low \in DOMAIN order, NEW high \in DOMAIN order, low < high,
                      loaded[low].device = loaded[high].device, loaded[low].device # None
               PROVE  FALSE
    OBVIOUS
  <2>1. /\ low \in DOMAIN devices /\ high \in DOMAIN devices
        /\ devices[low] = devices[high]
    BY <1>2
  <2>2. DOMAIN << >> = {}
    OBVIOUS
  <2>3. devices = [i \in DOMAIN probes |-> probes[i].device]
    BY <2>1, <2>2 DEF ContextsOf
  <2>4. low \in DOMAIN probes /\ high \in DOMAIN probes /\ probes[low].device = probes[high].device
    BY <2>1, <2>3
  <2>5. low = high
    BY <2>4, DiscoveryAssumption
  <2>6. low \in Nat
    BY <1>1
  <2>7. QED
    BY <2>5, <2>6
<1>4. \A place \in DOMAIN loaded : Successful(loaded[place].probe)
  BY <1>1, <1>2
<1>5. ASSUME NEW low \in DOMAIN loaded, NEW high \in DOMAIN loaded, low < high
      PROVE  /\ loaded[low].probe.key <= loaded[high].probe.key
             /\ loaded[low].device = loaded[high].device => loaded[low].device = None
  <2>1. low \in DOMAIN order /\ high \in DOMAIN order
    BY <1>2
  <2>2. loaded[low].probe = probes[order[low]] /\ loaded[high].probe = probes[order[high]]
    BY <1>2, <2>1
  <2>3. probes[order[low]].key <= probes[order[high]].key
    BY <1>1, <1>5, <2>1
  <2>4. loaded[low].probe.key <= loaded[high].probe.key
    BY <2>2, <2>3, Zenon
  <2>5. loaded[low].device = loaded[high].device => loaded[low].device = None
    BY <1>3, <1>5, <2>1
  <2>6. QED
    BY <2>4, <2>5
<1>6. QED
  BY <1>4, <1>5, Zenon

\* Every step of discovery keeps the invariant.
LEMMA DiscoverySteps ==
  ASSUME DiscoveryInv, [DiscoveryNext]_discoveryVars
  PROVE  DiscoveryInv'
<1>1. ASSUME NEW probes \in Reports, Discover(probes)
      PROVE  DiscoveryInv'
  <2>1. adapters' = FromProbes(probes) /\ contexts' = ContextsOf(probes) /\ sites' = sites
    BY <1>1 DEF Discover
  <2>2. SitesAreProven'
    BY <2>1 DEF DiscoveryInv, SitesAreProven
  <2>3. QED
    BY <2>1, <2>2 DEF DiscoveryInv
<1>2. ASSUME NEW probes \in Reports, Describe(probes)
      PROVE  DiscoveryInv'
  <2>1. adapters' = FromProbes(probes) /\ contexts' = << >> /\ sites' = sites
    BY <1>2 DEF Describe
  <2>2. SitesAreProven'
    BY <2>1 DEF DiscoveryInv, SitesAreProven
  <2>3. QED
    BY <2>1, <2>2 DEF DiscoveryInv
<1>3. CASE LoadSites
  <2>1. /\ adapters # << >> /\ adapters' = adapters /\ contexts' = contexts
        /\ sites' = [place \in DOMAIN adapters |->
                       [probe |-> adapters[place],
                        device |-> IF place \in DOMAIN contexts THEN contexts[place] ELSE None]]
    BY <1>3 DEF LoadSites
  <2>2. PICK probes \in Reports :
          adapters = FromProbes(probes) /\ contexts \in {<< >>, ContextsOf(probes)}
    BY <2>1 DEF DiscoveryInv
  <2>3. /\ \A place \in DOMAIN sites' : Successful(sites'[place].probe)
        /\ \A low, high \in DOMAIN sites' : low < high =>
             /\ sites'[low].probe.key <= sites'[high].probe.key
             /\ sites'[low].device = sites'[high].device => sites'[low].device = None
    BY <2>1, <2>2, LoadedSitesAreProven
  <2>4. SitesAreProven'
    BY <2>3 DEF SitesAreProven, Successful
  <2>5. QED
    BY <2>1, <2>2, <2>4 DEF DiscoveryInv
<1>4. CASE UNCHANGED discoveryVars
  <2>1. adapters' = adapters /\ contexts' = contexts /\ sites' = sites
    BY <1>4 DEF discoveryVars
  <2>2. QED
    BY <2>1 DEF DiscoveryInv, SitesAreProven
<1>5. QED
  BY <1>1, <1>2, <1>3, <1>4 DEF DiscoveryNext

\* Nothing but discovery touches the registry: what a command or a host that routes
\* work does leaves its variables alone.
LEMMA OnlyDiscoveryRegisters ==
  ASSUME [Next]_vars
  PROVE  [DiscoveryNext]_discoveryVars
<1>1. CASE Command
  <2>1. PICK command \in Commands :
          Reject(command) \/ Look(command) \/ SaveProfile(command) \/ CaptureArtifact(command)
    BY <1>1 DEF Command
  <2>2. \E result : Answer(command, result)
    BY <2>1 DEF Reject, Look, SaveProfile, CaptureArtifact
  <2>3. QED
    BY <2>2 DEF Answer, discoveryVars
<1>2. CASE HostNext /\ UNCHANGED <<adapters, contexts, sites, commandVars>>
  <2>1. adapters' = adapters /\ contexts' = contexts /\ sites' = sites
    BY <1>2
  <2>2. QED
    BY <2>1 DEF discoveryVars
<1>3. CASE UNCHANGED vars
  BY <1>3 DEF vars, hostVars, discoveryVars
<1>4. QED
  BY <1>1, <1>2, <1>3 DEF Next

\* However many adapters a platform reports, in whatever order, and whatever the
\* commands do meanwhile: only proven adapters get a site, ordinals follow the sort
\* keys and no device is given twice (from_probes, load).
THEOREM RegisteredSitesAreProven == Spec => []SitesAreProven
<1>1. Init => DiscoveryInv
  <2> SUFFICES ASSUME Init
               PROVE  DiscoveryInv
    OBVIOUS
  <2>1. adapters = << >> /\ sites = << >>
    BY DEF Init, DiscoveryInit
  <2>2. DOMAIN << >> = {}
    OBVIOUS
  <2>3. QED
    BY <2>1, <2>2 DEF DiscoveryInv, SitesAreProven
<1>2. DiscoveryInv /\ [Next]_vars => DiscoveryInv'
  BY OnlyDiscoveryRegisters, DiscoverySteps
<1>3. DiscoveryInv => SitesAreProven
  BY DEF DiscoveryInv
<1>4. QED
  BY <1>1, <1>2, <1>3, PTL DEF Spec

-----------------------------------------------------------------------------
(* Profiles and their records.                                             *)

\* One function joined to another.
LEMMA JoinedProperties ==
  ASSUME NEW f, NEW g
  PROVE  /\ DOMAIN Joined(f, g) = DOMAIN f \cup DOMAIN g
         /\ \A x \in DOMAIN f : Joined(f, g)[x] = f[x]
         /\ \A x \in DOMAIN g \ DOMAIN f : Joined(f, g)[x] = g[x]
BY DEF Joined

IsProfile(p) ==
  /\ IsIdentity(p.identity)
  /\ p.observed # None => IsIdentity(p.observed)
  /\ p.kind \in EvidenceKinds
  /\ p.measuredAt \in Nat /\ p.staleAfter \in Nat

\* What profile_to_value writes without a condition.
ProfileFields(p) ==
  [schema |-> "v2",
   adapter |-> p.identity.adapter, driver |-> p.identity.driver, backend |-> p.identity.backend,
   limits |-> p.limits, samples |-> p.samples, context |-> p.context, tile |-> p.tile,
   allocation |-> p.allocation, producer |-> p.producer, measuredAt |-> p.measuredAt,
   staleAfter |-> p.staleAfter, provider |-> p.modeled.provider, kind |-> p.kind]

\* What it writes of the identity observed.
Observation(p) ==
  IF p.observed = None THEN << >>
  ELSE [observedAdapter |-> p.observed.adapter, observedDriver |-> p.observed.driver,
        observedBackend |-> p.observed.backend]

\* A record has the fields of its profile, and those of an observation if there is one.
LEMMA TableProperties ==
  ASSUME NEW p
  PROVE  /\ \A field \in Required \cup {"kind"} :
              field \in DOMAIN ToTable(p) /\ ToTable(p)[field] = ProfileFields(p)[field]
         /\ \A field \in ObservedFields :
              /\ field \in DOMAIN ToTable(p) <=> p.observed # None
              /\ p.observed # None => ToTable(p)[field] = Observation(p)[field]
<1> DEFINE f == ProfileFields(p)
           g == Observation(p)
<1>1. DOMAIN f = Required \cup {"kind"}
  BY DEF ProfileFields, Required
<1>2. DOMAIN g = IF p.observed = None THEN {} ELSE ObservedFields
  <2>1. CASE p.observed = None
    BY <2>1 DEF Observation
  <2>2. CASE p.observed # None
    BY <2>2 DEF Observation, ObservedFields
  <2>3. QED
    BY <2>1, <2>2
<1>3. ToTable(p) = Joined(f, g)
  BY DEF ToTable, ProfileFields, Observation
<1> HIDE DEF f, g
<1>4. /\ DOMAIN Joined(f, g) = DOMAIN f \cup DOMAIN g
      /\ \A x \in DOMAIN f : Joined(f, g)[x] = f[x]
      /\ \A x \in DOMAIN g \ DOMAIN f : Joined(f, g)[x] = g[x]
  BY JoinedProperties
<1>5. ObservedFields \cap (Required \cup {"kind"}) = {}
  BY DEF ObservedFields, Required
<1>6. ASSUME NEW field \in Required \cup {"kind"}
      PROVE  field \in DOMAIN ToTable(p) /\ ToTable(p)[field] = f[field]
  BY <1>1, <1>3, <1>4
<1>7. ASSUME NEW field \in ObservedFields
      PROVE  /\ field \in DOMAIN ToTable(p) <=> p.observed # None
             /\ p.observed # None => ToTable(p)[field] = g[field]
  BY <1>1, <1>2, <1>3, <1>4, <1>5
<1>8. QED
  BY <1>6, <1>7 DEF f, g

(* What choose reads of a profile, but for the fault.                       *)
SameEvidence(p, q) ==
  /\ p.identity = q.identity /\ p.observed = q.observed /\ p.kind = q.kind
  /\ p.measuredAt = q.measuredAt /\ p.staleAfter = q.staleAfter
  /\ p.tile = q.tile /\ p.allocation = q.allocation /\ p.samples = q.samples

\* Of a record, the profile is read again with the same evidence and without a fault.
LEMMA RecordKeepsEvidence ==
  ASSUME NEW p, IsProfile(p)
  PROVE  /\ WellFormed(ToTable(p))
         /\ SameEvidence(Rebuilt(ToTable(p)), p)
         /\ Rebuilt(ToTable(p)).modeled.fault = None
<1> DEFINE t == ToTable(p)
<1>1. /\ \A field \in Required \cup {"kind"} : field \in DOMAIN t /\ t[field] = ProfileFields(p)[field]
      /\ \A field \in ObservedFields :
           /\ field \in DOMAIN t <=> p.observed # None
           /\ p.observed # None => t[field] = Observation(p)[field]
  BY TableProperties
<1> HIDE DEF t
<1>2. /\ t.schema = "v2" /\ t.kind = p.kind /\ t.samples = p.samples /\ t.tile = p.tile
      /\ t.adapter = p.identity.adapter /\ t.driver = p.identity.driver
      /\ t.backend = p.identity.backend /\ t.allocation = p.allocation
      /\ t.measuredAt = p.measuredAt /\ t.staleAfter = p.staleAfter
  BY <1>1 DEF ProfileFields, Required
<1>3. KindOf(t) = p.kind
  BY <1>1, <1>2 DEF KindOf
<1>4. ObservedOf(t) = p.observed
  <2>1. CASE p.observed = None
    <3>1. ~(ObservedFields \subseteq DOMAIN t)
      BY <1>1, <2>1 DEF ObservedFields
    <3>2. QED
      BY <2>1, <3>1 DEF ObservedOf
  <2>2. CASE p.observed # None
    <3>1. ObservedFields \subseteq DOMAIN t
      BY <1>1, <2>2
    <3>2. /\ t.observedAdapter = p.observed.adapter /\ t.observedDriver = p.observed.driver
          /\ t.observedBackend = p.observed.backend
      BY <1>1, <2>2 DEF ObservedFields, Observation
    <3>3. ObservedOf(t) = Identity(p.observed.adapter, p.observed.driver, p.observed.backend)
      BY <3>1, <3>2 DEF ObservedOf
    <3>4. QED
      BY <2>2, <3>3 DEF IsProfile, IsIdentity
  <2>3. QED
    BY <2>1, <2>2
<1>5. WellFormed(t)
  <2>1. Required \subseteq DOMAIN t
    BY <1>1
  <2>2. ObservedFields \subseteq DOMAIN t \/ ObservedFields \cap DOMAIN t = {}
    BY <1>1
  <2>3. KindOf(t) \in EvidenceKinds
    BY <1>3 DEF IsProfile
  <2>4. QED
    BY <1>2, <2>1, <2>2, <2>3 DEF WellFormed, Schemas
<1>6. Identity(t.adapter, t.driver, t.backend) = p.identity
  BY <1>2 DEF IsProfile, IsIdentity
<1>7. SameEvidence(Rebuilt(t), p) /\ Rebuilt(t).modeled.fault = None
  BY <1>2, <1>3, <1>4, <1>6 DEF SameEvidence, Rebuilt
<1>8. QED
  BY <1>5, <1>7 DEF t

\* Profiles of the same evidence are judged alike, if neither is at fault.
LEMMA SameEvidenceSameChoice ==
  ASSUME NEW p, NEW q, p # None, q # None, SameEvidence(p, q),
         p.modeled.fault = None, q.modeled.fault = None, NEW expected, NEW now
  PROVE  Choose(expected, now, p) = Choose(expected, now, q)
<1>1. Age(p, now) = Age(q, now)
  BY DEF SameEvidence, Age
<1>2. Conclusive(p) <=> Conclusive(q)
  BY DEF SameEvidence, Conclusive
<1>3. VerifyPhysical(p) <=> VerifyPhysical(q)
  BY DEF SameEvidence, VerifyPhysical
<1>4. QED
  BY <1>1, <1>2, <1>3 DEF SameEvidence, Choose

\* A profile that is stale stays so, and what a device decision rests on besides the
\* age does not change.
LEMMA AgeOnlyGrows ==
  ASSUME NEW p, p.measuredAt \in Nat, p.staleAfter \in Nat, NEW expected,
         NEW now \in Nat, NEW later \in Nat, now <= later
  PROVE  /\ Choose(expected, now, p) = "stale" => Choose(expected, later, p) = "stale"
         /\ Choose(expected, now, p) = "device" =>
              Choose(expected, later, p) \in {"device", "stale"}
<1>1. Age(p, now) <= Age(p, later) /\ Age(p, now) \in Nat /\ Age(p, later) \in Nat
  BY DEF Age
<1>2. Age(p, now) > p.staleAfter => Age(p, later) > p.staleAfter
  BY <1>1
<1>3. QED
  BY <1>2 DEF Choose

\* What has to be true of a profile that gives the device.
LEMMA DeviceNeeds ==
  ASSUME NEW p, p.measuredAt \in Nat, p.staleAfter \in Nat, NEW expected, NEW now \in Nat,
         Choose(expected, now, p) = "device"
  PROVE  /\ p # None /\ p.kind = Physical /\ p.identity = expected /\ p.observed = expected
         /\ now <= p.measuredAt + p.staleAfter
         /\ \A kind \in SampleKinds : SomePositive(p.samples[kind])
<1>1. p # None /\ p.identity = expected /\ ~(Age(p, now) > p.staleAfter)
  BY DEF Choose
<1>2. Conclusive(p) /\ VerifyPhysical(p)
  BY DEF Choose
<1>3. now <= p.measuredAt + p.staleAfter
  BY <1>1 DEF Age
<1>4. QED
  BY <1>1, <1>2, <1>3 DEF Conclusive, ConclusiveSamples, VerifyPhysical

-----------------------------------------------------------------------------
(* The folds over the arguments of a command and over the rows of an answer. *)
(* The prover takes no operator as a parameter: what is common to the folds  *)
(* is proved of all of them, told apart by their kind.                       *)

\* What a fold starts from and what an item does, as ParseOptions and ProviderRows
\* have them.
ProfileStart == [awaits |-> None, request |-> ProfileDefaults]

ValuedOptions == DOMAIN LabelOptions \cup {"--now", "--max-profile-bytes"}

ProfileStep(at, token) ==
  IF at.request = Refused THEN at
  ELSE IF at.awaits = None /\ token \in ValuedOptions THEN [at EXCEPT !.awaits = token]
  ELSE [awaits |-> None,
        request |-> IF at.awaits = None THEN ProfileWord(at.request, token)
                    ELSE IF token \in Dashed THEN Refused
                    ELSE ProfileValue(at.request, at.awaits, token)]

SelectionStart == [awaits |-> None, request |-> [selector |-> None, maxDevices |-> 16]]

SelectionStep(at, token) ==
  IF at.request = Refused THEN at
  ELSE IF at.awaits = None /\ token \in {"--max-devices"} THEN [at EXCEPT !.awaits = token]
  ELSE [awaits |-> None,
        request |-> IF at.awaits = None THEN SelectionWord(at.request, token)
                    ELSE IF token \in Dashed THEN Refused
                    ELSE SelectionValue(at.request, at.awaits, token)]

RowStep(selector, kept, row) ==
  IF selector \in {row.selector, row.site} THEN Append(kept, row) ELSE kept

Kind(of, selector) == [of |-> of, selector |-> selector]

FoldStart(kind) ==
  IF kind.of = "profile" THEN ProfileStart
  ELSE IF kind.of = "selection" THEN SelectionStart ELSE << >>

FoldStep(kind, at, item) ==
  IF kind.of = "profile" THEN ProfileStep(at, item)
  ELSE IF kind.of = "selection" THEN SelectionStep(at, item) ELSE RowStep(kind.selector, at, item)

\* What the recursive function inside a fold is chosen to be.
Folding(kind, items, S, F) ==
  F = [s \in SUBSET S |->
         IF s = {} THEN FoldStart(kind) ELSE FoldStep(kind, F[s \ {Max(s)}], items[Max(s)])]

FoldOf(kind, items, S) == (CHOOSE F : Folding(kind, items, S, F))[S]

\* What profile and explain return is read off the end of the fold.
LEMMA ProfileUnfolds ==
  ASSUME NEW items
  PROVE  ParseProfile(items) =
           LET end == FoldOf(Kind("profile", None), items, DOMAIN items) IN
           IF end.awaits = None THEN end.request ELSE Refused
BY DEF ParseProfile, ParseOptions, FoldLeft, MapThenFoldSet, FoldOf, Folding, FoldStart, FoldStep,
       Kind, ProfileStep, ProfileStart, ValuedOptions

\* So it is of devices and probe.
LEMMA SelectionUnfolds ==
  ASSUME NEW items
  PROVE  ParseSelection(items) =
           LET end == FoldOf(Kind("selection", None), items, DOMAIN items) IN
           IF end.awaits = None THEN end.request ELSE Refused
BY DEF ParseSelection, ParseOptions, FoldLeft, MapThenFoldSet, FoldOf, Folding, FoldStart, FoldStep,
       Kind, SelectionStep, SelectionStart

\* And the rows that are kept are a fold.
LEMMA RowsUnfold ==
  ASSUME NEW selector, NEW items
  PROVE  FoldLeft(LAMBDA kept, row : IF selector \in {row.selector, row.site}
                                     THEN Append(kept, row) ELSE kept, << >>, items) =
           FoldOf(Kind("rows", selector), items, DOMAIN items)
BY DEF FoldLeft, MapThenFoldSet, FoldOf, Folding, FoldStart, FoldStep, Kind, RowStep

\* A finite set of places that is not empty has its maximum.
LEMMA MaxIsElement ==
  ASSUME NEW s \in SUBSET Nat, IsFiniteSet(s), s # {}
  PROVE  Max(s) \in s
<1> DEFINE Greatest(t, x) == \A y \in t : x >= y
           B == {t \in SUBSET s : t # {} /\ ~ \E x \in t : Greatest(t, x)}
<1>1. B = {}
  <2> SUFFICES ASSUME B # {}
               PROVE  FALSE
    OBVIOUS
  <2>1. B \subseteq SUBSET s
    OBVIOUS
  <2>2. PICK t \in B : \A u \in SUBSET t : u # t => u \notin B
    <3> HIDE DEF B
    <3>1. QED
      BY <2>1, SmallestSet
  <2>3. PICK x \in t : TRUE
    OBVIOUS
  <2>4. t \ {x} # {}
    <3> SUFFICES ASSUME t \ {x} = {}
                 PROVE  FALSE
      OBVIOUS
    <3>1. Greatest(t, x)
      BY <2>3
    <3>2. QED
      BY <3>1
  <2>5. t \ {x} \notin B /\ t \ {x} \in SUBSET s
    BY <2>2
  <2>6. PICK y \in t \ {x} : Greatest(t \ {x}, y)
    BY <2>4, <2>5
  <2>7. x \in Nat /\ y \in Nat /\ \A z \in t : z \in Nat
    OBVIOUS
  <2>8. CASE x >= y
    <3>1. Greatest(t, x)
      BY <2>6, <2>7, <2>8
    <3>2. QED
      BY <3>1
  <2>9. CASE ~(x >= y)
    <3>1. Greatest(t, y)
      BY <2>6, <2>7, <2>9
    <3>2. QED
      BY <3>1
  <2>10. QED
    BY <2>8, <2>9
<1>2. \E x \in s : \A y \in s : x >= y
  BY <1>1
<1>3. QED
  BY <1>2 DEF Max

\* Two such functions agree wherever both are defined.
LEMMA FoldingUnique ==
  ASSUME NEW kind, NEW items, NEW S \in SUBSET Nat, IsFiniteSet(S), NEW T,
         NEW F, Folding(kind, items, S, F), NEW G, Folding(kind, items, T, G),
         NEW r \in SUBSET S, r \subseteq T
  PROVE  F[r] = G[r]
<1> DEFINE B == {s \in SUBSET S : s \subseteq T /\ F[s] # G[s]}
<1> SUFFICES ASSUME B # {}
             PROVE  FALSE
  OBVIOUS
<1>1. B \subseteq SUBSET S
  OBVIOUS
<1>2. PICK s \in B : \A t \in SUBSET s : t # s => t \notin B
  <2> HIDE DEF B
  <2>1. QED
    BY <1>1, SmallestSet
<1> DEFINE x == Max(s)
<1>3. /\ F[s] = IF s = {} THEN FoldStart(kind) ELSE FoldStep(kind, F[s \ {x}], items[x])
      /\ G[s] = IF s = {} THEN FoldStart(kind) ELSE FoldStep(kind, G[s \ {x}], items[x])
  <2>1. F = [t \in SUBSET S |->
               IF t = {} THEN FoldStart(kind) ELSE FoldStep(kind, F[t \ {Max(t)}], items[Max(t)])]
    BY DEF Folding
  <2>2. G = [t \in SUBSET T |->
               IF t = {} THEN FoldStart(kind) ELSE FoldStep(kind, G[t \ {Max(t)}], items[Max(t)])]
    BY DEF Folding
  <2>3. s \in SUBSET S /\ s \in SUBSET T
    OBVIOUS
  <2>4. F[s] = IF s = {} THEN FoldStart(kind) ELSE FoldStep(kind, F[s \ {x}], items[x])
    BY <2>1, <2>3, Zenon
  <2>5. G[s] = IF s = {} THEN FoldStart(kind) ELSE FoldStep(kind, G[s \ {x}], items[x])
    BY <2>2, <2>3, Zenon
  <2>6. QED
    BY <2>4, <2>5
<1>4. s # {} /\ F[s \ {x}] # G[s \ {x}]
  BY <1>3
<1>5. x \in s
  BY <1>4, MaxIsElement, FS_Subset
<1>6. s \ {x} \in B
  BY <1>4
<1>7. QED
  BY <1>2, <1>5, <1>6

\* Where the recursion is defined on a set, the fold over it is its step.
LEMMA FoldOfFolding ==
  ASSUME NEW kind, NEW items, NEW S \in SUBSET Nat, IsFiniteSet(S),
         \A s \in SUBSET S : \E F : Folding(kind, items, s, F)
  PROVE  FoldOf(kind, items, S) = IF S = {} THEN FoldStart(kind)
                           ELSE FoldStep(kind, FoldOf(kind, items, S \ {Max(S)}), items[Max(S)])
<1> DEFINE x == Max(S)
           U == S \ {x}
           F == CHOOSE H : Folding(kind, items, S, H)
           G == CHOOSE H : Folding(kind, items, U, H)
<1>1. Folding(kind, items, S, F) /\ Folding(kind, items, U, G)
  <2>1. (\E H : Folding(kind, items, S, H)) /\ (\E H : Folding(kind, items, U, H))
    OBVIOUS
  <2>2. QED
    BY <2>1, Zenon
<1>2. FoldOf(kind, items, S) = F[S] /\ FoldOf(kind, items, U) = G[U]
  BY DEF FoldOf
<1>3. U \in SUBSET S /\ U \subseteq U
  OBVIOUS
<1> HIDE DEF F, G, U
<1>4. F[U] = G[U]
  <2>1. \A r \in SUBSET S : r \subseteq U => F[r] = G[r]
    BY <1>1, FoldingUnique
  <2>2. QED
    BY <1>3, <2>1
<1>5. F[S] = IF S = {} THEN FoldStart(kind) ELSE FoldStep(kind, F[S \ {x}], items[x])
  <2>1. F = [t \in SUBSET S |->
               IF t = {} THEN FoldStart(kind) ELSE FoldStep(kind, F[t \ {Max(t)}], items[Max(t)])]
    BY <1>1 DEF Folding
  <2>2. S \in SUBSET S
    OBVIOUS
  <2>3. QED
    BY <2>1, <2>2, Zenon
<1>6. S \ {x} = U
  BY DEF U
<1>7. QED
  BY <1>2, <1>4, <1>5, <1>6

\* The recursion is defined on every finite set of places.
LEMMA FoldingExists ==
  ASSUME NEW kind, NEW items, NEW S \in SUBSET Nat, IsFiniteSet(S)
  PROVE  \E F : Folding(kind, items, S, F)
<1> DEFINE B == {s \in SUBSET S : ~ \E F : Folding(kind, items, s, F)}
<1> SUFFICES ASSUME B # {}
             PROVE  FALSE
  OBVIOUS
<1>1. B \subseteq SUBSET S
  OBVIOUS
<1>2. PICK s \in B : \A t \in SUBSET s : t # s => t \notin B
  <2> HIDE DEF B
  <2>1. QED
    BY <1>1, SmallestSet
<1>3. s \in SUBSET S /\ IsFiniteSet(s) /\ \A t \in SUBSET s : t # s => \E F : Folding(kind, items, t, F)
  BY <1>2, FS_Subset
<1> DEFINE step(t) == IF t = {} THEN FoldStart(kind)
                      ELSE FoldStep(kind, FoldOf(kind, items, t \ {Max(t)}), items[Max(t)])
           F == [t \in SUBSET s |-> step(t)]
<1>4. \A t \in SUBSET s : t # s => F[t] = FoldOf(kind, items, t)
  <2> SUFFICES ASSUME NEW t \in SUBSET s, t # s
               PROVE  step(t) = FoldOf(kind, items, t)
    OBVIOUS
  <2>1. t \in SUBSET Nat /\ IsFiniteSet(t) /\ \A u \in SUBSET t : \E H : Folding(kind, items, u, H)
    BY <1>3, FS_Subset
  <2>2. QED
    BY <2>1, FoldOfFolding
<1>5. \A t \in SUBSET s : t # {} => F[t \ {Max(t)}] = FoldOf(kind, items, t \ {Max(t)})
  <2> SUFFICES ASSUME NEW t \in SUBSET s, t # {}
               PROVE  F[t \ {Max(t)}] = FoldOf(kind, items, t \ {Max(t)})
    OBVIOUS
  <2>1. Max(t) \in t
    BY <1>3, MaxIsElement, FS_Subset
  <2>2. t \ {Max(t)} \in SUBSET s /\ t \ {Max(t)} # s
    BY <2>1
  <2> HIDE DEF F
  <2>3. QED
    BY <1>4, <2>2
<1>6. F = [t \in SUBSET s |->
             IF t = {} THEN FoldStart(kind) ELSE FoldStep(kind, F[t \ {Max(t)}], items[Max(t)])]
  BY <1>5
<1>7. Folding(kind, items, s, F)
  BY <1>6 DEF Folding
<1>8. QED
  BY <1>2, <1>7

\* So a fold is its step, all the way down.
LEMMA FoldOfStep ==
  ASSUME NEW kind, NEW items, NEW S \in SUBSET Nat, IsFiniteSet(S)
  PROVE  FoldOf(kind, items, S) =
           IF S = {} THEN FoldStart(kind)
           ELSE FoldStep(kind, FoldOf(kind, items, S \ {Max(S)}), items[Max(S)])
<1>1. \A s \in SUBSET S : s \in SUBSET Nat /\ IsFiniteSet(s)
  BY FS_Subset
<1>2. \A s \in SUBSET S : \E F : Folding(kind, items, s, F)
  BY <1>1, FoldingExists
<1>3. QED
  BY <1>2, FoldOfFolding

\* A request that is not refused asks of a tick.
Asks(request) == request = Refused \/ ("now" \in DOMAIN request /\ request.now \in Nat)

\* No token takes that from it.
LEMMA StepAsks ==
  ASSUME NEW at, Asks(at.request), NEW token
  PROVE  Asks(ProfileStep(at, token).request)
<1>1. CASE at.request = Refused
  BY <1>1 DEF ProfileStep
<1>2. CASE at.request # Refused
  <2>1. CASE at.awaits = None /\ token \in ValuedOptions
    <3>1. ProfileStep(at, token) = [at EXCEPT !.awaits = token]
      BY <1>2, <2>1 DEF ProfileStep
    <3>2. ProfileStep(at, token).request = at.request
      BY <3>1
    <3>3. QED
      BY <3>2
  <2> DEFINE request == at.request
  <2>2. "now" \in DOMAIN request /\ request.now \in Nat
    BY <1>2 DEF Asks
  <2>3. Asks(ProfileWord(request, token))
    BY <2>2 DEF ProfileWord, Asks
  <2>4. Asks(ProfileValue(request, at.awaits, token))
    <3>1. CASE at.awaits \in DOMAIN LabelOptions
      <4> DEFINE field == LabelOptions[at.awaits]
                 value == Checked(token, Selectors)
      <4>1. field \in {"key", "adapter", "driver", "backend"}
        BY <3>1 DEF LabelOptions
      <4>2. ProfileValue(request, at.awaits, token) = With(request, field, value)
        BY <3>1 DEF ProfileValue
      <4> HIDE DEF field, value
      <4>3. Asks(With(request, field, value))
        BY <2>2, <4>1 DEF With, Asks
      <4>4. QED
        BY <4>2, <4>3
    <3>2. CASE at.awaits \notin DOMAIN LabelOptions
      BY <2>2, <3>2, NumbersAssumption DEF ProfileValue, Asks
    <3>3. QED
      BY <3>1, <3>2
  <2>5. CASE ~(at.awaits = None /\ token \in ValuedOptions)
    <3>1. ProfileStep(at, token).request \in
            {ProfileWord(request, token), Refused, ProfileValue(request, at.awaits, token)}
      BY <1>2, <2>5 DEF ProfileStep
    <3>2. Asks(Refused)
      BY DEF Asks
    <3>3. QED
      BY <2>3, <2>4, <3>1, <3>2
  <2>6. QED
    BY <2>1, <2>5
<1>3. QED
  BY <1>1, <1>2

\* A request of devices and probe has a limit.
Limited(request) ==
  request = Refused \/ ("maxDevices" \in DOMAIN request /\ request.maxDevices \in Nat)

\* No token takes that from it.
LEMMA StepLimited ==
  ASSUME NEW at, Limited(at.request), NEW token
  PROVE  Limited(SelectionStep(at, token).request)
<1> DEFINE request == at.request
<1>1. CASE request = Refused
  BY <1>1 DEF SelectionStep
<1>2. CASE request # Refused
  <2>1. "maxDevices" \in DOMAIN request /\ request.maxDevices \in Nat
    BY <1>2 DEF Limited
  <2>2. CASE at.awaits = None /\ token \in {"--max-devices"}
    <3>1. SelectionStep(at, token).request = request
      BY <1>2, <2>2 DEF SelectionStep
    <3>2. QED
      BY <3>1
  <2>3. Limited(SelectionWord(request, token))
    <3> DEFINE value == Checked(token, Selectors)
    <3> HIDE DEF value
    <3>1. Limited(With(request, "selector", value))
      BY <2>1 DEF With, Limited
    <3>2. SelectionWord(request, token) \in {request, Refused, With(request, "selector", value)}
      BY DEF SelectionWord, value
    <3>3. Limited(request) /\ Limited(Refused)
      BY DEF Limited
    <3>4. QED
      BY <3>1, <3>2, <3>3
  <2>4. Limited(SelectionValue(request, at.awaits, token))
    BY <2>1, NumbersAssumption DEF SelectionValue, InPolicy, Limited
  <2>5. CASE ~(at.awaits = None /\ token \in {"--max-devices"})
    <3>1. SelectionStep(at, token).request \in
            {SelectionWord(request, token), Refused, SelectionValue(request, at.awaits, token)}
      BY <1>2, <2>5 DEF SelectionStep
    <3>2. Limited(Refused)
      BY DEF Limited
    <3>3. QED
      BY <2>3, <2>4, <3>1, <3>2
  <2>6. QED
    BY <2>2, <2>5
<1>3. QED
  BY <1>1, <1>2

\* What a fold has kept at some places: of rows, one if it is named.
Keeps(kind, items, S, value) ==
  /\ kind.of = "profile" => Asks(value.request)
  /\ kind.of = "selection" => Limited(value.request)
  /\ kind.of = "rows" =>
       /\ value \in Seq({items[i] : i \in DOMAIN items})
       /\ (\E i \in S : kind.selector \in {items[i].selector, items[i].site}) => value # << >>

\* A step keeps it.
LEMMA StepKeeps ==
  ASSUME NEW kind, NEW items, NEW S \in SUBSET DOMAIN items, NEW x \in S, NEW value,
         Keeps(kind, items, S \ {x}, value)
  PROVE  Keeps(kind, items, S, FoldStep(kind, value, items[x]))
<1> DEFINE next == FoldStep(kind, value, items[x])
           R == {items[i] : i \in DOMAIN items}
<1>1. kind.of = "profile" => Asks(next.request)
  BY StepAsks DEF Keeps, FoldStep
<1>2. kind.of = "selection" => Limited(next.request)
  BY StepLimited DEF Keeps, FoldStep
<1>3. ASSUME kind.of = "rows"
      PROVE  /\ next \in Seq(R)
             /\ (\E i \in S : kind.selector \in {items[i].selector, items[i].site}) => next # << >>
  <2>1. next = IF kind.selector \in {items[x].selector, items[x].site}
               THEN Append(value, items[x]) ELSE value
    BY <1>3 DEF FoldStep, RowStep
  <2>2. items[x] \in R /\ value \in Seq(R)
    BY <1>3 DEF Keeps
  <2> HIDE DEF R, next
  <2>3. Append(value, items[x]) \in Seq(R) /\ Append(value, items[x]) # << >>
    BY <2>2
  <2>4. (\E i \in S \ {x} : kind.selector \in {items[i].selector, items[i].site}) => value # << >>
    BY <1>3 DEF Keeps
  <2>5. QED
    BY <2>1, <2>2, <2>3, <2>4
<1>4. QED
  BY <1>1, <1>2, <1>3 DEF Keeps

\* An induction over the items.
LEMMA FoldKeeps ==
  ASSUME NEW kind, kind.of \in {"profile", "selection", "rows"}, NEW items, NEW n \in Nat,
         DOMAIN items = 1 .. n
  PROVE  Keeps(kind, items, DOMAIN items, FoldOf(kind, items, DOMAIN items))
<1> DEFINE S == DOMAIN items
           B == {s \in SUBSET S : ~Keeps(kind, items, s, FoldOf(kind, items, s))}
<1>1. S \in SUBSET Nat /\ IsFiniteSet(S)
  BY FS_Interval
<1> HIDE DEF S
<1>2. B = {}
  <2> SUFFICES ASSUME B # {}
               PROVE  FALSE
    OBVIOUS
  <2>1. B \subseteq SUBSET S
    OBVIOUS
  <2>2. PICK s \in B : \A t \in SUBSET s : t # s => t \notin B
    <3> HIDE DEF B
    <3>1. QED
      BY <1>1, <2>1, SmallestSet
  <2> DEFINE x == Max(s)
             before == FoldOf(kind, items, s \ {x})
  <2>3. s \in SUBSET Nat /\ IsFiniteSet(s) /\ s \in SUBSET S
    BY <1>1, FS_Subset
  <2>4. FoldOf(kind, items, s) = IF s = {} THEN FoldStart(kind) ELSE FoldStep(kind, before, items[x])
    BY <2>3, FoldOfStep
  <2>5. CASE s = {}
    <3>1. FoldOf(kind, items, s) = FoldStart(kind)
      BY <2>4, <2>5
    <3>2. Keeps(kind, items, s, FoldStart(kind))
      <4>1. Asks(ProfileStart.request)
        BY DEF ProfileStart, ProfileDefaults, Asks
      <4>2. Limited(SelectionStart.request)
        BY DEF SelectionStart, Limited
      <4>3. QED
        BY <2>5, <4>1, <4>2 DEF Keeps, FoldStart
    <3>3. QED
      BY <3>1, <3>2
  <2>6. CASE s # {}
    <3>1. x \in s
      BY <2>3, <2>6, MaxIsElement
    <3>2. Keeps(kind, items, s \ {x}, before)
      BY <2>2, <3>1
    <3>3. FoldOf(kind, items, s) = FoldStep(kind, before, items[x])
      BY <2>4, <2>6
    <3> HIDE DEF before, x
    <3>4. Keeps(kind, items, s, FoldStep(kind, before, items[x]))
      BY <2>3, <3>1, <3>2, StepKeeps DEF S
    <3>5. QED
      BY <3>3, <3>4
  <2>7. QED
    BY <2>5, <2>6
<1>3. QED
  BY <1>2 DEF S

\* A request that profile and explain parse asks of a tick.
LEMMA ParsedAsks ==
  ASSUME NEW args \in Seq(STRING)
  PROVE  Asks(ParseProfile(args))
<1> DEFINE end == FoldOf(Kind("profile", None), args, DOMAIN args)
<1>1. DOMAIN args = 1 .. Len(args) /\ Len(args) \in Nat
  OBVIOUS
<1>2. Kind("profile", None).of = "profile"
  BY DEF Kind
<1>3. Keeps(Kind("profile", None), args, DOMAIN args, end)
  BY <1>1, <1>2, FoldKeeps
<1>4. Asks(end.request)
  BY <1>2, <1>3 DEF Keeps
<1>5. ParseProfile(args) \in {end.request, Refused}
  BY ProfileUnfolds
<1>6. QED
  BY <1>4, <1>5 DEF Asks

\* One that devices and probe parse has a limit.
LEMMA ParsedLimited ==
  ASSUME NEW args \in Seq(STRING)
  PROVE  Limited(ParseSelection(args))
<1> DEFINE end == FoldOf(Kind("selection", None), args, DOMAIN args)
<1>1. DOMAIN args = 1 .. Len(args) /\ Len(args) \in Nat
  OBVIOUS
<1>2. Kind("selection", None).of = "selection"
  BY DEF Kind
<1>3. Keeps(Kind("selection", None), args, DOMAIN args, end)
  BY <1>1, <1>2, FoldKeeps
<1>4. Limited(end.request)
  BY <1>2, <1>3 DEF Keeps
<1>5. ParseSelection(args) \in {end.request, Refused}
  BY SelectionUnfolds
<1>6. QED
  BY <1>4, <1>5 DEF Limited

-----------------------------------------------------------------------------
(* The store and what was written to it.                                   *)

(* A record is that of the profile last written under its key, or was there *)
(* before and proves nothing; only the host writes physical evidence.       *)
StoreInv ==
  /\ \A key \in DOMAIN written :
       /\ written[key].profile \in Savable
       /\ written[key].by # "host" => written[key].profile.kind # Physical
       /\ key \in DOMAIN store /\ store[key] = ToTable(written[key].profile)
  /\ store # None =>
       /\ IsFiniteSet(DOMAIN store)
       /\ \A key \in DOMAIN store \ DOMAIN written :
            WellFormed(store[key]) => ~VerifyPhysical(Rebuilt(store[key]))

\* A command about profiles or providers has the request its arguments are parsed to.
LEMMA CommandsParse ==
  ASSUME NEW command \in Commands, command # Refused,
         command.verb \in {"profile", "explain", "devices", "probe"}
  PROVE  \E args \in Seq(STRING) :
           /\ AboutProfiles(command) =>
                \/ command.request = ParseProfile(args) /\ command.request # Refused
                \/ command.request = ParseExplain(args) /\ command.request # Refused
           /\ command.verb \in {"devices", "probe"} =>
                command.request = ParseSelection(args) /\ command.request # Refused
<1>1. PICK arguments \in Inputs : command = ParseComputeArgs(arguments)
  BY DEF Commands
<1> DEFINE args == StripVerb(arguments)
<1>2. args \in Seq(STRING)
  <2>1. arguments \in Seq(STRING)
    BY SessionAssumption
  <2>2. QED
    <3>1. CASE arguments # << >> /\ Head(arguments) = "compute"
      <4>1. Tail(arguments) \in Seq(STRING)
        BY <2>1, <3>1
      <4>2. QED
        BY <3>1, <4>1 DEF StripVerb
    <3>2. CASE ~(arguments # << >> /\ Head(arguments) = "compute")
      BY <2>1, <3>2 DEF StripVerb
    <3>3. QED
      BY <3>1, <3>2
<1> DEFINE Verb(request) ==
             IF request = Refused THEN Refused ELSE [verb |-> Head(args), request |-> request]
           selection == ParseSelection(Tail(args))
           profile == ParseProfile(Tail(args))
           explain == ParseExplain(Tail(args))
           recipe == ParseRecipe(Tail(args))
           acceptance == ParseAcceptance(Tail(args))
<1>3. /\ args # << >>
      /\ AboutProfiles(command) =>
           \/ profile # Refused /\ command.request = profile
           \/ explain # Refused /\ command.request = explain
      /\ command.verb \in {"devices", "probe"} => selection # Refused /\ command.request = selection
  <2>1. command =
          IF args = << >> \/ \E i \in DOMAIN args : args[i] \in {"--help", "-h"}
          THEN [verb |-> "help"]
          ELSE IF Head(args) \in {"devices", "probe"} THEN Verb(selection)
          ELSE IF Head(args) = "profile" THEN Verb(profile)
          ELSE IF Head(args) = "explain" THEN Verb(explain)
          ELSE IF Head(args) = "recipe" THEN Verb(recipe)
          ELSE IF Head(args) = "acceptance" THEN Verb(acceptance)
          ELSE Refused
    BY <1>1 DEF ParseComputeArgs
  <2> HIDE DEF args, selection, profile, explain, recipe, acceptance
  <2>2. command.verb # "help"
    OBVIOUS
  <2>3. command.verb = Head(args) /\ args # << >>
    BY <2>1, <2>2
  <2>4. CASE Head(args) \in {"devices", "probe"}
    BY <2>1, <2>3, <2>4 DEF AboutProfiles
  <2>5. CASE Head(args) = "profile"
    BY <2>1, <2>3, <2>5 DEF AboutProfiles
  <2>6. CASE Head(args) = "explain"
    BY <2>1, <2>3, <2>6 DEF AboutProfiles
  <2>7. QED
    BY <2>3, <2>4, <2>5, <2>6
<1>4. Tail(args) \in Seq(STRING)
  BY <1>2, <1>3
<1>5. QED
  BY <1>3, <1>4

\* The tick a command about profiles asks of is a number.
LEMMA CommandsAskNow ==
  ASSUME NEW command \in Commands, command # Refused, AboutProfiles(command)
  PROVE  command.request.now \in Nat
<1>1. PICK args \in Seq(STRING) :
        /\ command.request # Refused
        /\ command.request = ParseProfile(args) \/ command.request = ParseExplain(args)
  BY CommandsParse DEF AboutProfiles
<1>2. Asks(ParseProfile(args))
  BY ParsedAsks
<1>3. QED
  BY <1>1, <1>2 DEF ParseExplain, Asks

\* The limit a command about providers asks for is a number.
LEMMA CommandsLimit ==
  ASSUME NEW command \in Commands, command # Refused, command.verb \in {"devices", "probe"}
  PROVE  command.request.maxDevices \in Nat
<1>1. PICK args \in Seq(STRING) : command.request = ParseSelection(args) /\ command.request # Refused
  BY CommandsParse
<1>2. QED
  BY <1>1, ParsedLimited DEF Limited

\* A profile a command makes is whole, and is no physical evidence.
LEMMA CommandProfileProperties ==
  ASSUME NEW command \in Commands, command # Refused, AboutProfiles(command)
  PROVE  /\ CommandProfile(command.request) \in Savable
         /\ IsProfile(CommandProfile(command.request))
         /\ CommandProfile(command.request).kind # Physical
<1> DEFINE request == command.request
           p == CommandProfile(request)
           i == RequestedIdentity(request)
<1>1. /\ p.identity = i /\ p.observed = i /\ p.kind = "modeled"
      /\ p.measuredAt = request.now /\ p.staleAfter = 10000
  BY DEF CommandProfile, Measure, StaleAfter
<1>2. IsIdentity(i)
  BY DEF RequestedIdentity, IsIdentity, Identity
<1>3. request.now \in Nat
  BY CommandsAskNow
<1>4. p \in Savable
  BY DEF Savable, AboutProfiles
<1> HIDE DEF p, i
<1>5. IsProfile(p)
  BY <1>1, <1>2, <1>3 DEF IsProfile, EvidenceKinds
<1>6. p.kind # Physical
  BY <1>1 DEF Physical
<1>7. QED
  BY <1>4, <1>5, <1>6 DEF p

\* Every profile that may be saved is whole.
LEMMA SavableProperties ==
  ASSUME NEW p \in Savable
  PROVE  IsProfile(p) /\ p # None /\ Rebuilt(ToTable(p)) # None /\ Rebuilt(ToTable(p)) # Refused
<1>1. p # None /\ Rebuilt(ToTable(p)) # None /\ Rebuilt(ToTable(p)) # Refused
  BY OutcomeAssumption
<1>2. CASE p \in HostProfiles
  BY <1>1, <1>2, RoutingAssumption DEF IsProfile
<1>3. CASE p \notin HostProfiles
  <2>1. PICK command \in {c \in Commands : c # Refused /\ c.verb \in {"profile", "explain"}} :
          p = CommandProfile(command.request)
    BY <1>3 DEF Savable
  <2>2. command \in Commands /\ command # Refused /\ AboutProfiles(command)
    BY DEF AboutProfiles
  <2>3. QED
    BY <1>1, <2>1, <2>2, CommandProfileProperties
<1>4. QED
  BY <1>2, <1>3

\* A profile saved, by the host or by a command, keeps the store in order.
LEMMA SavedIsWritten ==
  ASSUME StoreInv, store # None, NEW key, NEW p \in Savable, NEW writer,
         writer # "host" => p.kind # Physical,
         store' = Put(store, key, ToTable(p)),
         written' = Put(written, key, [profile |-> p, by |-> writer])
  PROVE  StoreInv'
<1> DEFINE t == ToTable(p)
           entry == [profile |-> p, by |-> writer]
<1>1. entry.profile = p /\ entry.by = writer
  OBVIOUS
<1> HIDE DEF entry, t
<1>2. /\ DOMAIN store' = DOMAIN store \cup {key} /\ store'[key] = t
      /\ \A k \in DOMAIN store \ {key} : store'[k] = store[k]
  <2>1. store' = Put(store, key, t)
    BY DEF t
  <2>2. QED
    BY <2>1 DEF Put, Joined
<1>3. /\ DOMAIN written' = DOMAIN written \cup {key} /\ written'[key] = entry
      /\ \A k \in DOMAIN written \ {key} : written'[k] = written[k]
  <2>1. written' = Put(written, key, entry)
    BY DEF entry
  <2>2. QED
    BY <2>1 DEF Put, Joined
<1>4. ASSUME NEW k \in DOMAIN written'
      PROVE  /\ written'[k].profile \in Savable
             /\ written'[k].by # "host" => written'[k].profile.kind # Physical
             /\ k \in DOMAIN store' /\ store'[k] = ToTable(written'[k].profile)
  <2>1. CASE k = key
    BY <1>1, <1>2, <1>3, <2>1 DEF t
  <2>2. CASE k # key
    <3>1. k \in DOMAIN written /\ written'[k] = written[k]
      BY <1>3, <2>2
    <3>2. /\ written[k].profile \in Savable
          /\ written[k].by # "host" => written[k].profile.kind # Physical
          /\ k \in DOMAIN store /\ store[k] = ToTable(written[k].profile)
      BY <3>1 DEF StoreInv
    <3>3. k \in DOMAIN store' /\ store'[k] = store[k]
      BY <1>2, <2>2, <3>2
    <3>4. QED
      BY <3>1, <3>2, <3>3
  <2>3. QED
    BY <2>1, <2>2
<1>5. IsFiniteSet(DOMAIN store')
  BY <1>2, FS_AddElement DEF StoreInv
<1>6. ASSUME NEW k \in DOMAIN store' \ DOMAIN written'
      PROVE  WellFormed(store'[k]) => ~VerifyPhysical(Rebuilt(store'[k]))
  <2>1. k \in DOMAIN store \ DOMAIN written /\ store'[k] = store[k]
    BY <1>2, <1>3
  <2>2. WellFormed(store[k]) => ~VerifyPhysical(Rebuilt(store[k]))
    BY <2>1 DEF StoreInv
  <2>3. QED
    BY <2>1, <2>2
<1>7. (\A k \in DOMAIN written :
         /\ written[k].profile \in Savable
         /\ written[k].by # "host" => written[k].profile.kind # Physical
         /\ k \in DOMAIN store /\ store[k] = ToTable(written[k].profile))'
  BY <1>4
<1>8. QED
  BY <1>5, <1>6, <1>7 DEF StoreInv

\* A save that is not refused puts the record into the table.
LEMMA SavePuts ==
  ASSUME NEW table, NEW policy, NEW key, NEW p, Save(table, policy, key, p) # Refused
  PROVE  Save(table, policy, key, p) = Put(table, key, ToTable(p))
BY DEF Save

\* Commands and the host keep the store in order; discovery does not touch it.
LEMMA StoreSteps ==
  ASSUME StoreInv, [Next]_vars
  PROVE  StoreInv'
<1>1. ASSUME store' = store, written' = written
      PROVE  StoreInv'
  BY <1>1 DEF StoreInv
<1>2. ASSUME NEW key, NEW p \in HostProfiles, HostSave(key, p)
      PROVE  StoreInv'
  <2>1. /\ store # None
        /\ store' = Put(store, key, ToTable(p))
        /\ written' = Put(written, key, [profile |-> p, by |-> "host"])
    BY <1>2, SavePuts DEF HostSave, Remember
  <2>2. p \in Savable
    BY DEF Savable
  <2>3. QED
    BY <2>1, <2>2, SavedIsWritten
<1>3. ASSUME NEW command \in Commands, SaveProfile(command)
      PROVE  StoreInv'
  <2> DEFINE request == command.request
             key == ProfileKey(request)
             p == CommandProfile(request)
             saved == IF key = Refused THEN Refused ELSE Save(store, PolicyOf(request), key, p)
  <2>1. /\ command # Refused /\ AboutProfiles(command) /\ store # None
        /\ IF saved = Refused
           THEN UNCHANGED <<store, written>> /\ Answer(command, Refused)
           ELSE /\ store' = saved
                /\ written' = Remember(key, p, "command")
                /\ Answer(command, Evidence("saved", {key}, None))
    BY <1>3 DEF SaveProfile, Admitted
  <2>2. p \in Savable /\ p.kind # Physical
    BY <2>1, CommandProfileProperties
  <2> HIDE DEF request, key, p
  <2>3. CASE saved = Refused
    BY <1>1, <2>1, <2>3
  <2>4. CASE saved # Refused
    <3>1. saved = Save(store, PolicyOf(request), key, p)
      BY <2>4
    <3>2. saved = Put(store, key, ToTable(p))
      BY <2>4, <3>1, SavePuts
    <3>3. /\ store' = Put(store, key, ToTable(p))
          /\ written' = Put(written, key, [profile |-> p, by |-> "command"])
      BY <2>1, <2>4, <3>2 DEF Remember
    <3>4. QED
      BY <2>1, <2>2, <3>3, SavedIsWritten
  <2>5. QED
    BY <2>3, <2>4
<1>4. CASE Command
  <2>1. PICK command \in Commands :
          Reject(command) \/ Look(command) \/ SaveProfile(command) \/ CaptureArtifact(command)
    BY <1>4 DEF Command
  <2>2. CASE SaveProfile(command)
    BY <1>3, <2>2
  <2>3. CASE Reject(command) \/ Look(command) \/ CaptureArtifact(command)
    <3>1. store' = store /\ written' = written
      BY <2>3 DEF Reject, Look, CaptureArtifact
    <3>2. QED
      BY <1>1, <3>1
  <2>4. QED
    BY <2>1, <2>2, <2>3
<1>5. CASE HostNext
  <2>1. ASSUME NEW legacy, NEW key, NEW expected, NEW now, BuildAuto(legacy, key, expected, now)
        PROVE  store' = store /\ written' = written
    BY <2>1 DEF BuildAuto
  <2>2. CASE Execute \/ Flush
    <3>1. store' = store /\ written' = written
      BY <2>2 DEF Execute, Flush
    <3>2. QED
      BY <1>1, <3>1
  <2>3. QED
    BY <1>1, <1>2, <1>5, <2>1, <2>2 DEF HostNext
<1>6. CASE UNCHANGED <<autoVars, commandVars>>
  <2>1. store' = store /\ written' = written
    BY <1>6 DEF autoVars
  <2>2. QED
    BY <1>1, <2>1
<1>7. CASE UNCHANGED vars
  <2>1. store' = store /\ written' = written
    BY <1>7 DEF vars, hostVars
  <2>2. QED
    BY <1>1, <2>1
<1>8. QED
  BY <1>4, <1>5, <1>6, <1>7 DEF Next

\* What a session finds in its store is in order.
LEMMA StoreStarts == Init => StoreInv
<1> SUFFICES ASSUME Init
             PROVE  StoreInv
  OBVIOUS
<1>1. written = << >> /\ DOMAIN written = {}
  BY DEF Init, AutoInit
<1>2. PICK session \in Sessions : store = session.table
  BY DEF Init
<1>3. QED
  BY <1>1, <1>2, SessionAssumption DEF StoreInv

\* What the store holds is what was written to it, at all times.
LEMMA StoreInvariance == Spec => []StoreInv
BY StoreStarts, StoreSteps, PTL DEF Spec

-----------------------------------------------------------------------------

\* A profile judged after it went through the store is judged as it was before, for
\* every profile a host or a command saves (profile_to_value, profile_from_value).
THEOREM SavedProfilesKeepTheirDecision == Spec => []PersistenceKeepsDecision
<1>1. ASSUME StoreInv
      PROVE  PersistenceKeepsDecision
  <2> SUFFICES ASSUME NEW key \in DOMAIN written, NEW expected, NEW now
               PROVE  LET p == written[key].profile
                          kept == FromTable(store[key])
                      IN /\ kept # Refused
                         /\ p.modeled.fault = None =>
                              Choose(expected, now, kept) = Choose(expected, now, p)
    BY DEF PersistenceKeepsDecision
  <2> DEFINE p == written[key].profile
             kept == FromTable(store[key])
  <2>1. p \in Savable /\ store[key] = ToTable(p)
    BY <1>1 DEF StoreInv
  <2> HIDE DEF p
  <2>2. /\ IsProfile(p) /\ p # None
        /\ Rebuilt(ToTable(p)) # None /\ Rebuilt(ToTable(p)) # Refused
    BY <2>1, SavableProperties
  <2>3. /\ WellFormed(ToTable(p)) /\ SameEvidence(Rebuilt(ToTable(p)), p)
        /\ Rebuilt(ToTable(p)).modeled.fault = None
    BY <2>2, RecordKeepsEvidence
  <2>4. kept = Rebuilt(ToTable(p))
    BY <2>1, <2>3 DEF FromTable
  <2> HIDE DEF kept
  <2>5. kept # Refused /\ kept # None /\ SameEvidence(kept, p) /\ kept.modeled.fault = None
    BY <2>2, <2>3, <2>4
  <2>6. p.modeled.fault = None => Choose(expected, now, kept) = Choose(expected, now, p)
    BY <2>2, <2>5, SameEvidenceSameChoice
  <2>7. QED
    BY <2>5, <2>6 DEF p, kept
<1>2. QED
  BY <1>1, StoreInvariance, PTL

\* What is stale stays stale, and a device decision is lost to age only, for every
\* profile saved (AutoComputeRouter::choose).
THEOREM StaleProfilesStayStale == Spec => []StaleIsForever
<1>1. ASSUME StoreInv
      PROVE  StaleIsForever
  <2> SUFFICES ASSUME NEW key \in DOMAIN written, NEW expected,
                      NEW now \in Ticks, NEW later \in Ticks, now <= later
               PROVE  LET p == written[key].profile IN
                      /\ Choose(expected, now, p) = "stale" => Choose(expected, later, p) = "stale"
                      /\ Choose(expected, now, p) = "device" =>
                           Choose(expected, later, p) \in {"device", "stale"}
    BY DEF StaleIsForever
  <2> DEFINE p == written[key].profile
  <2>1. p \in Savable
    BY <1>1 DEF StoreInv
  <2> HIDE DEF p
  <2>2. p.measuredAt \in Nat /\ p.staleAfter \in Nat
    BY <2>1, SavableProperties DEF IsProfile
  <2>3. now \in Nat /\ later \in Nat
    BY RoutingAssumption
  <2>4. /\ Choose(expected, now, p) = "stale" => Choose(expected, later, p) = "stale"
        /\ Choose(expected, now, p) = "device" =>
             Choose(expected, later, p) \in {"device", "stale"}
    BY <2>2, <2>3, AgeOnlyGrows
  <2>5. QED
    BY <2>4 DEF p
<1>2. QED
  BY <1>1, StoreInvariance, PTL

\* What is loaded and gives the device was written by the host, from what it observed.
LEMMA LoadedDeviceIsTrusted ==
  ASSUME StoreInv, store # None, NEW policy, NEW key, NEW expected, NEW now \in Nat,
         NEW p, p = Load(store, policy, key), p # None, p # Refused,
         Choose(expected, now, p) = "device"
  PROVE  Trusted(key, expected, now)
<1>1. key \in DOMAIN store /\ p = FromTable(store[key])
  BY DEF Load
<1>2. WellFormed(store[key]) /\ p = Rebuilt(store[key])
  BY <1>1 DEF FromTable
<1>3. VerifyPhysical(p)
  BY DEF Choose
<1>4. key \in DOMAIN written
  BY <1>1, <1>2, <1>3 DEF StoreInv
<1> DEFINE q == written[key].profile
<1>5. q \in Savable /\ store[key] = ToTable(q) /\ (written[key].by # "host" => q.kind # Physical)
  BY <1>4 DEF StoreInv
<1> HIDE DEF q
<1>6. IsProfile(q)
  BY <1>5, SavableProperties
<1>7. SameEvidence(p, q)
  BY <1>2, <1>5, <1>6, RecordKeepsEvidence
<1>8. p.measuredAt \in Nat /\ p.staleAfter \in Nat
  BY <1>6, <1>7 DEF SameEvidence, IsProfile
<1>9. /\ p.kind = Physical /\ p.identity = expected /\ p.observed = expected
      /\ now <= p.measuredAt + p.staleAfter
      /\ \A kind \in SampleKinds : SomePositive(p.samples[kind])
  BY <1>8, DeviceNeeds
<1>10. /\ q.kind = Physical /\ q.identity = expected /\ q.observed = expected
       /\ now <= q.measuredAt + q.staleAfter
       /\ \A kind \in SampleKinds : SomePositive(q.samples[kind])
  BY <1>7, <1>9 DEF SameEvidence
<1>11. written[key].by = "host"
  BY <1>5, <1>10
<1>12. QED
  BY <1>4, <1>10, <1>11 DEF Trusted, q

\* A router is built on what the store says of its key, or on nothing.
LEMMA RouterIsTrusted ==
  ASSUME StoreInv, NEW legacy, NEW key, NEW expected, NEW now \in Ticks,
         BuildAuto(legacy, key, expected, now), auto'.decision = "device"
  PROVE  Trusted(auto'.key, auto'.expected, auto'.now)
<1> DEFINE measured == IF store = None THEN None ELSE Load(store, DefaultPolicy, key)
           router == NewAuto(legacy, measured, expected, now)
<1>1. measured # Refused /\ auto' = Joined(router, [key |-> key, now |-> now])
  BY DEF BuildAuto
<1>2. /\ DOMAIN router = {"decision", "modeled", "expected"}
      /\ router.expected = expected
      /\ router.decision = IF expected # None THEN Choose(expected, now, measured)
                           ELSE IF measured # None THEN "incompatible" ELSE "absent"
  BY DEF NewAuto
<1> HIDE DEF measured, router
<1>3. /\ auto'.decision = router.decision /\ auto'.expected = router.expected
      /\ auto'.key = key /\ auto'.now = now
  BY <1>1, <1>2 DEF Joined
<1>4. Choose(expected, now, measured) = "device"
  BY <1>2, <1>3
<1>5. measured # None
  BY <1>4 DEF Choose
<1>6. store # None /\ measured = Load(store, DefaultPolicy, key)
  BY <1>5 DEF measured
<1>7. now \in Nat
  BY RoutingAssumption
<1>8. Trusted(key, expected, now)
  BY <1>1, <1>4, <1>5, <1>6, <1>7, LoadedDeviceIsTrusted
<1>9. QED
  BY <1>2, <1>3, <1>8

\* A read says device only of what the store says of the key it names.
LEMMA ReadIsTrusted ==
  ASSUME StoreInv, store # None, NEW request, request.now \in Nat,
         ReadProfile(request) # Refused, ReadProfile(request).decision = "device"
  PROVE  \E key \in ReadProfile(request).keys :
           Trusted(key, RequestedIdentity(request), request.now)
<1> DEFINE key == ProfileKey(request)
           p == IF key = Refused THEN Refused ELSE Load(store, PolicyOf(request), key)
           expected == RequestedIdentity(request)
<1>1. ReadProfile(request) = IF p = Refused THEN Refused
                             ELSE IF p = None THEN Evidence("missing", {key}, None)
                             ELSE Evidence("checked", {key}, Choose(expected, request.now, p))
  BY DEF ReadProfile
<1> HIDE DEF key, p, expected
<1>2. p # Refused
  BY <1>1
<1>3. p # None
  <2> SUFFICES ASSUME p = None
               PROVE  FALSE
    OBVIOUS
  <2>1. ReadProfile(request).decision = None
    BY <1>1, <1>2 DEF Evidence
  <2>2. QED
    BY <2>1, RoutingAssumption
<1>4. ReadProfile(request) = Evidence("checked", {key}, Choose(expected, request.now, p))
  BY <1>1, <1>2, <1>3
<1>5. Choose(expected, request.now, p) = "device" /\ ReadProfile(request).keys = {key}
  BY <1>4 DEF Evidence
<1>6. p = Load(store, PolicyOf(request), key)
  BY <1>2 DEF p
<1>7. Trusted(key, expected, request.now)
  BY <1>2, <1>3, <1>5, <1>6, LoadedDeviceIsTrusted
<1>8. QED
  BY <1>5, <1>7 DEF expected

\* Of the commands about profiles only a read or an explain says anything of a device.
LEMMA AnswersAreTrusted ==
  ASSUME StoreInv, NEW command \in Commands, command # Refused, AboutProfiles(command),
         Look(command) \/ SaveProfile(command) \/ CaptureArtifact(command) \/ Reject(command),
         answer'.result # Refused, answer'.result.decision = "device"
  PROVE  /\ answer'.command = command
         /\ \E key \in answer'.result.keys :
              Trusted(key, RequestedIdentity(command.request), command.request.now)
<1> DEFINE request == command.request
<1>1. ASSUME NEW result, Answer(command, result)
      PROVE  answer'.command = command /\ answer'.result = result
  BY <1>1 DEF Answer
<1>2. ASSUME NEW status, NEW keys, Answer(command, Evidence(status, keys, None))
      PROVE  FALSE
  <2>1. answer'.result.decision = None
    BY <1>1, <1>2 DEF Evidence
  <2>2. QED
    BY <2>1, RoutingAssumption
<1>3. ~Answer(command, Refused)
  BY <1>1
<1>4. CASE Reject(command)
  BY <1>3, <1>4 DEF Reject
<1>5. CASE SaveProfile(command)
  BY <1>2, <1>3, <1>5 DEF SaveProfile
<1>6. CASE CaptureArtifact(command)
  BY <1>6 DEF CaptureArtifact, AboutProfiles
<1>7. CASE Look(command)
  <2>1. CASE store = None
    <3>1. Answer(command, Evidence("no-profile-store", {}, None))
      BY <1>7, <2>1 DEF Look, AboutProfiles
    <3>2. QED
      BY <1>2, <3>1
  <2>2. CASE store # None
    <3>1. Answer(command, IF request.action = "list" THEN ListProfiles(request)
                          ELSE ReadProfile(request))
      BY <1>7, <2>2 DEF Look, AboutProfiles
    <3>2. CASE request.action = "list"
      <4>1. Answer(command, ListProfiles(request))
        BY <3>1, <3>2
      <4>2. ListProfiles(request) = Refused
            \/ \E keys : ListProfiles(request) = Evidence("profiles", keys, None)
        BY DEF ListProfiles
      <4>3. QED
        BY <1>2, <1>3, <4>1, <4>2
    <3>3. CASE request.action # "list"
      <4>1. answer'.command = command /\ answer'.result = ReadProfile(request)
        BY <1>1, <3>1, <3>3
      <4>2. request.now \in Nat
        BY CommandsAskNow
      <4>3. ReadProfile(request) # Refused /\ ReadProfile(request).decision = "device"
        BY <4>1
      <4>4. \E key \in ReadProfile(request).keys :
              Trusted(key, RequestedIdentity(request), request.now)
        BY <2>2, <4>2, <4>3, ReadIsTrusted
      <4>5. QED
        BY <4>1, <4>4
    <3>4. QED
      BY <3>2, <3>3
  <2>3. QED
    BY <2>1, <2>2
<1>8. QED
  BY <1>4, <1>5, <1>6, <1>7

\* Work goes to a device, and an answer says it would, only on a profile the host
\* saved from what it observed on that device and that is not stale, whatever the
\* commands and the host have written and overwritten in between
\* (AutoComputeRouter::choose, verify_physical, profile_from_value).
THEOREM DeviceRoutesAreProven == Spec => DeviceRouteProven
<1>1. ASSUME StoreInv, [Next]_vars
      PROVE  RouteIsTrusted
  <2> SUFFICES ASSUME auto' # auto, auto'.decision = "device"
               PROVE  Trusted(auto'.key, auto'.expected, auto'.now)
    BY DEF RouteIsTrusted
  <2>1. CASE HostNext
    <3>1. ASSUME NEW key, NEW p, HostSave(key, p)
          PROVE  FALSE
      BY <3>1 DEF HostSave
    <3>2. ~Execute /\ ~Flush
      BY DEF Execute, Flush
    <3>3. PICK legacy \in LegacyModeled, key \in Keys, expected \in Expectations, now \in Ticks :
            BuildAuto(legacy, key, expected, now)
      BY <2>1, <3>1, <3>2 DEF HostNext
    <3>4. QED
      BY <1>1, <3>3, RouterIsTrusted
  <2>2. CASE Command
    <3>1. PICK command \in Commands :
            Reject(command) \/ Look(command) \/ SaveProfile(command) \/ CaptureArtifact(command)
      BY <2>2 DEF Command
    <3>2. \E result : Answer(command, result)
      BY <3>1 DEF Reject, Look, SaveProfile, CaptureArtifact
    <3>3. QED
      BY <3>2 DEF Answer
  <2>3. CASE UNCHANGED <<autoVars, commandVars>> \/ UNCHANGED vars
    BY <2>3 DEF autoVars, vars, hostVars
  <2>4. QED
    BY <1>1, <2>1, <2>2, <2>3 DEF Next
<1>2. ASSUME StoreInv, [Next]_vars
      PROVE  AnswerIsTrusted
  <2> SUFFICES ASSUME answer' # answer, answer'.command # Refused, AboutProfiles(answer'.command),
                      answer'.result # Refused, answer'.result.decision = "device"
               PROVE  \E key \in answer'.result.keys :
                        Trusted(key, RequestedIdentity(answer'.command.request),
                                answer'.command.request.now)
    BY DEF AnswerIsTrusted
  <2>1. CASE Command
    <3>1. PICK command \in Commands :
            Look(command) \/ SaveProfile(command) \/ CaptureArtifact(command) \/ Reject(command)
      BY <2>1 DEF Command
    <3>2. \E result : Answer(command, result)
      BY <3>1 DEF Reject, Look, SaveProfile, CaptureArtifact
    <3>3. answer'.command = command
      BY <3>2 DEF Answer
    <3>4. QED
      BY <1>2, <3>1, <3>3, AnswersAreTrusted
  <2>2. CASE UNCHANGED commandVars \/ UNCHANGED vars
    BY <2>2 DEF commandVars, vars
  <2>3. QED
    BY <1>2, <2>1, <2>2 DEF Next
<1>3. StoreInv /\ [Next]_vars => [RouteIsTrusted /\ AnswerIsTrusted]_vars
  BY <1>1, <1>2
<1>4. QED
  BY <1>3, StoreInvariance, PTL DEF Spec, DeviceRouteProven

\* A save without a key writes the only key there is, or the first.
LEMMA ImplicitSave ==
  ASSUME NEW request, request.key = None, ProfileKey(request) # Refused, NEW p,
         NEW table, table = Save(store, PolicyOf(request), ProfileKey(request), p),
         table # Refused
  PROVE  Cardinality(DOMAIN table) = 1
<1> DEFINE key == ProfileKey(request)
           keys == ListKeys(store, PolicyOf(request))
<1>1. DOMAIN table = {key} \cup DOMAIN store
  BY DEF Save, Put, Joined
<1>2. keys # Refused
  BY DEF ProfileKey
<1>3. keys = DOMAIN store
  BY <1>2 DEF ListKeys
<1>4. key = IF keys = {} THEN "compute-profile/" \o request.adapter
            ELSE IF Cardinality(keys) = 1 THEN CHOOSE k \in keys : TRUE ELSE Refused
  BY <1>2 DEF ProfileKey
<1> HIDE DEF key, keys
<1>5. CASE keys = {}
  <2>1. DOMAIN table = {key}
    BY <1>1, <1>3, <1>5
  <2>2. QED
    BY <2>1, FS_Singleton
<1>6. CASE keys # {}
  <2>1. Cardinality(keys) = 1 /\ key = CHOOSE k \in keys : TRUE
    BY <1>4, <1>6 DEF key
  <2>2. key \in keys
    BY <1>6, <2>1
  <2>3. DOMAIN table = keys
    BY <1>1, <1>3, <2>2
  <2>4. QED
    BY <2>1, <2>3
<1>7. QED
  BY <1>5, <1>6

\* A save that names no key leaves one profile in the store, however many commands and
\* saves of the host went before (profile_key).
THEOREM ImplicitSavesKeepOneKey == Spec => ImplicitSaveKeepsOneKey
<1>1. ASSUME [Next]_vars, store' # store, issued' # issued
      PROVE  answer'.command.request.key # None \/ Cardinality(DOMAIN store') = 1
  <2>1. Command
    BY <1>1 DEF Next, vars, commandVars
  <2>2. PICK command \in Commands :
          Reject(command) \/ Look(command) \/ SaveProfile(command) \/ CaptureArtifact(command)
    BY <2>1 DEF Command
  <2>3. SaveProfile(command)
    BY <1>1, <2>2 DEF Reject, Look, CaptureArtifact
  <2> DEFINE request == command.request
             p == CommandProfile(request)
  <2>4. /\ ProfileKey(request) # Refused
        /\ store' = Save(store, PolicyOf(request), ProfileKey(request), p)
        /\ store' # Refused
    BY <1>1, <2>3 DEF SaveProfile
  <2>5. answer'.command = command
    BY <2>3 DEF SaveProfile, Answer
  <2> HIDE DEF p
  <2>6. request.key = None => Cardinality(DOMAIN store') = 1
    BY <2>4, ImplicitSave
  <2>7. QED
    BY <2>5, <2>6
<1>2. QED
  BY <1>1, PTL DEF Spec, ImplicitSaveKeepsOneKey

-----------------------------------------------------------------------------
(* Artifacts and their files.                                              *)

CaseName == [id : STRING, category : STRING]

(* What a capture may return: it was proven, for its own source, before it  *)
(* was rendered.                                                           *)
IsPortable(a) ==
  /\ \E request, manifest, gpu :
       manifest.cases \in Seq(CaseName) /\ a = PortableArtifact(request, manifest, gpu)
  /\ PortableProven(a, a.source)

IsVendor(a) ==
  /\ \E request, gpu, runtime : a = VendorArtifact(request, gpu, runtime)
  /\ VendorProven(a, a.source)

IsCaptured(a) == a # Refused /\ (IsPortable(a) \/ IsVendor(a))

DistinctIds(cases) == \A i, j \in DOMAIN cases : cases[i].id = cases[j].id => i = j

\* Cases on lines of their own.
IsCaseList(cases) ==
  /\ Len(cases) \in Nat /\ DOMAIN cases = 1 .. Len(cases)
  /\ cases \in Seq({cases[i] : i \in DOMAIN cases})
  /\ DistinctIds(cases)

\* What a capture returns was proven.
LEMMA CapturesAreProven ==
  ASSUME NEW request, NEW tools, NEW found,
         \A path \in DOMAIN found : found[path].kind = "manifest" => found[path].content.cases \in Seq(CaseName),
         NEW a, a = Capture(request, found, tools), a # Refused
  PROVE  IsCaptured(a)
<1> DEFINE file == found[request.manifest]
           gpu == PhysicalGpu(request.target, tools)
           runtime == RuntimeFor(request.target, tools)
<1>1. request.manifest \in DOMAIN found /\ file.kind = "manifest"
  BY DEF Capture
<1>2. a = IF file.content.schema = "vendor" THEN VendorCapture(request, file.content, tools)
          ELSE PortableCapture(request, file.content, tools)
  BY <1>1 DEF Capture
<1>3. file.content.cases \in Seq(CaseName)
  BY <1>1
<1>4. CASE file.content.schema = "vendor"
  <2>1. a = VendorCapture(request, file.content, tools)
    BY <1>2, <1>4
  <2>2. a = VendorArtifact(request, gpu, runtime) /\ VendorProven(a, request.source)
    BY <2>1 DEF VendorCapture
  <2>3. a.source = request.source
    BY <2>2 DEF VendorArtifact
  <2>4. QED
    BY <2>2, <2>3 DEF IsCaptured, IsVendor
<1>5. CASE file.content.schema # "vendor"
  <2>1. a = PortableCapture(request, file.content, tools)
    BY <1>2, <1>5
  <2>2. a = PortableArtifact(request, file.content, gpu) /\ PortableProven(a, request.source)
    BY <2>1 DEF PortableCapture
  <2>3. a.source = request.source
    BY <2>2 DEF PortableArtifact
  <2>4. QED
    BY <1>3, <2>2, <2>3 DEF IsCaptured, IsPortable
<1>6. QED
  BY <1>4, <1>5

\* The vendor cases have five names.
LEMMA VendorNames ==
  /\ DOMAIN VendorCases = 1 .. 5
  /\ DistinctIds(VendorCases)
<1> DEFINE v == VendorCases
<1>1. DOMAIN v = 1 .. 5
  BY DEF VendorCases, Pairs
<1>2. /\ v[1].id = "runtime-probe" /\ v[2].id = "dense-matmul-differential"
      /\ v[3].id = "unsupported-failure" /\ v[4].id = "measured-crossover"
      /\ v[5].id = "vendor-absent-portability"
  BY DEF VendorCases, Pairs
<1> HIDE DEF v
<1>3. \A i \in 1 .. 5 : i = 1 \/ i = 2 \/ i = 3 \/ i = 4 \/ i = 5
  OBVIOUS
<1>4. DistinctIds(v)
  BY <1>1, <1>2, <1>3 DEF DistinctIds
<1>5. QED
  BY <1>1, <1>4 DEF v

\* What is common to both kinds of artifact.
LEMMA ArtifactFacts ==
  ASSUME NEW a, IsCaptured(a)
  PROVE  /\ a.private = FALSE /\ a.schema \in {"portable", "vendor"}
         /\ a.schema = "vendor" <=> IsVendor(a)
         /\ a.schema = "portable" <=> IsPortable(a)
         /\ a = [a EXCEPT !.cases = a.cases]
         /\ \A c : /\ [a EXCEPT !.cases = c].cases = c
                   /\ [a EXCEPT !.cases = c].schema = a.schema
                   /\ [a EXCEPT !.cases = c].source = a.source
         /\ IsCaseList(a.cases)
<1>1. CASE IsPortable(a)
  <2>1. PICK request, manifest, gpu :
          manifest.cases \in Seq(CaseName) /\ a = PortableArtifact(request, manifest, gpu)
    BY <1>1 DEF IsPortable
  <2>2. /\ a.private = FALSE /\ a.schema = "portable"
        /\ a = [a EXCEPT !.cases = a.cases]
        /\ a.cases = [i \in DOMAIN manifest.cases |-> CaseResult(manifest.cases[i], i)]
    BY <2>1 DEF PortableArtifact
  <2>3. \A c : /\ [a EXCEPT !.cases = c].cases = c
               /\ [a EXCEPT !.cases = c].schema = a.schema
               /\ [a EXCEPT !.cases = c].source = a.source
    BY <2>1 DEF PortableArtifact
  <2>4. DistinctIds(a.cases)
    BY <1>1 DEF IsPortable, PortableProven, CasesProven, DistinctIds
  <2>5. Len(manifest.cases) \in Nat /\ DOMAIN manifest.cases = 1 .. Len(manifest.cases)
    BY <2>1
  <2>6. /\ Len(a.cases) \in Nat /\ DOMAIN a.cases = 1 .. Len(a.cases)
        /\ a.cases \in Seq({a.cases[i] : i \in DOMAIN a.cases})
    BY <2>2, <2>5
  <2>7. ~IsVendor(a)
    BY <2>2 DEF IsVendor, VendorArtifact
  <2>8. QED
    BY <1>1, <2>2, <2>3, <2>4, <2>6, <2>7 DEF IsCaseList
<1>2. CASE IsVendor(a)
  <2>1. PICK request, gpu, runtime : a = VendorArtifact(request, gpu, runtime)
    BY <1>2 DEF IsVendor
  <2>2. /\ a.private = FALSE /\ a.schema = "vendor"
        /\ a = [a EXCEPT !.cases = a.cases]
        /\ a.cases = [i \in DOMAIN VendorCases |->
                [id |-> VendorCases[i].id, category |-> VendorCases[i].category,
                 hash |-> CaseHash(VendorCases[i]), passed |-> TRUE]]
    BY <2>1 DEF VendorArtifact
  <2>3. \A c : /\ [a EXCEPT !.cases = c].cases = c
               /\ [a EXCEPT !.cases = c].schema = a.schema
               /\ [a EXCEPT !.cases = c].source = a.source
    BY <2>1 DEF VendorArtifact
  <2>4. DistinctIds(a.cases)
    BY <2>2, VendorNames DEF DistinctIds
  <2>5. /\ Len(a.cases) \in Nat /\ DOMAIN a.cases = 1 .. Len(a.cases)
        /\ a.cases \in Seq({a.cases[i] : i \in DOMAIN a.cases})
    BY <2>2, VendorNames
  <2>6. ~IsPortable(a)
    BY <2>2 DEF IsPortable, PortableArtifact
  <2>7. QED
    BY <1>2, <2>2, <2>3, <2>4, <2>5, <2>6 DEF IsCaseList
<1>3. QED
  BY <1>1, <1>2 DEF IsCaptured

\* The lesser of two numbers.
LEMMA MinOfTwo ==
  ASSUME NEW x \in Int, NEW y \in Int
  PROVE  Min({x, y}) = IF x <= y THEN x ELSE y
BY DEF Min

\* The first line of a case.
LineOf(cases, id) ==
  LET lines == {i \in 1 .. Len(cases) : cases[i].id = id}
  IN IF lines # {} THEN Min(lines) ELSE 0

\* Where ids are distinct it is the only one.
LEMMA LineIs ==
  ASSUME NEW cases, DOMAIN cases = 1 .. Len(cases), Len(cases) \in Nat, DistinctIds(cases),
         NEW i \in DOMAIN cases
  PROVE  LineOf(cases, cases[i].id) = i
<1> DEFINE lines == {j \in 1 .. Len(cases) : cases[j].id = cases[i].id}
<1>1. lines = {i}
  BY DEF DistinctIds
<1>2. i \in Int
  OBVIOUS
<1>3. Min({i}) = i
  BY <1>2 DEF Min
<1>4. QED
  BY <1>1, <1>3 DEF LineOf

\* How many cases of an artifact are on the lines a file has.
Present(a, lines) == Min({Len(a.cases), lines - CasesAt(a)})

\* A case that failed, or whose hash is another's, among the first.
Failing(a, present) ==
  a.schema = "vendor" /\ \E i \in 1 .. present :
    LET first == a.cases[LineOf(a.cases, a.cases[i].id)] IN
    ~first.passed \/ first.hash # CaseHash(a.cases[i])

Cut(a, present) == [a EXCEPT !.cases = SubSeq(a.cases, 1, present)]

\* What the parser makes of a file.
LEMMA ParseIs ==
  ASSUME NEW a, NEW lines
  PROVE  Parse(FileOf(a, lines)) =
           IF a.private \/ lines <= Fields(a.schema) \/ lines = CasesAt(a) \/ Failing(a, Present(a, lines))
           THEN Refused ELSE Cut(a, Present(a, lines))
BY DEF Parse, FileOf, Failing, Present, Cut, LineOf, SelectInSeq

\* An artifact has a case.
LEMMA HasCases ==
  ASSUME NEW a, IsCaptured(a)
  PROVE  Len(a.cases) > 0
<1> DEFINE s == a.cases
<1>1. Len(s) \in Nat /\ DOMAIN s = 1 .. Len(s)
  BY ArtifactFacts DEF IsCaseList
<1>2. ASSUME IsPortable(a)
      PROVE  Len(s) > 0
  <2>1. Cardinality(Ids(s)) = Len(PortableCases)
    BY <1>2 DEF IsPortable, PortableProven, CasesProven
  <2>2. Len(PortableCases) = 6
    BY DEF PortableCases, Pairs
  <2>3. s = << >> => Ids(s) = {}
    BY DEF Ids
  <2>4. Len(s) = 0 => Ids(s) = {}
    BY <1>1 DEF Ids
  <2>5. Cardinality({}) = 0
    BY FS_EmptySet
  <2> HIDE DEF s
  <2>6. QED
    BY <1>1, <2>1, <2>2, <2>4, <2>5
<1>3. ASSUME IsVendor(a)
      PROVE  Len(s) > 0
  <2>1. DOMAIN s = 1 .. 5
    BY <1>3, VendorNames DEF IsVendor, VendorArtifact
  <2>2. 1 \in DOMAIN s
    BY <2>1
  <2> HIDE DEF s
  <2>3. QED
    BY <1>1, <2>2
<1>4. QED
  BY <1>2, <1>3 DEF IsCaptured

\* Fewer cases than were captured prove nothing.
LEMMA CutProvesNothing ==
  ASSUME NEW a, IsCaptured(a), NEW k \in Int, k < Len(a.cases), NEW source
  PROVE  /\ a.schema = "portable" => ~PortableProven(Cut(a, k), source)
         /\ a.schema = "vendor" => ~VendorProven(Cut(a, k), source)
<1> DEFINE s == a.cases
           n == Len(s)
           c == SubSeq(s, 1, k)
<1>1. /\ n \in Nat /\ DOMAIN s = 1 .. n /\ s \in Seq({s[i] : i \in DOMAIN s}) /\ DistinctIds(s)
      /\ Cut(a, k).cases = c
  <2>1. /\ n \in Nat /\ DOMAIN s = 1 .. n /\ s \in Seq({s[i] : i \in DOMAIN s}) /\ DistinctIds(s)
    <3>1. IsCaseList(s)
      BY ArtifactFacts
    <3>2. QED
      BY <3>1 DEF IsCaseList
  <2>2. Cut(a, k) = [a EXCEPT !.cases = c]
    BY DEF Cut
  <2> HIDE DEF c
  <2>3. [a EXCEPT !.cases = c].cases = c
    BY ArtifactFacts
  <2>4. QED
    BY <2>1, <2>2, <2>3
<1>2. DOMAIN c = 1 .. k /\ \A i \in 1 .. k : i \in 1 .. n /\ c[i] = s[i]
  <2>1. c = [i \in 1 .. 1 + k - 1 |-> s[i + 1 - 1]]
    BY <1>1
  <2>2. QED
    BY <1>1, <2>1
<1>3. n \in DOMAIN s /\ n \notin DOMAIN c
  BY <1>1, <1>2, HasCases
<1>4. ASSUME a.schema = "portable", PortableProven(Cut(a, k), source)
      PROVE  FALSE
  <2>1. CasesProven(s) /\ CasesProven(c)
    BY <1>1, <1>4, ArtifactFacts DEF IsPortable, PortableProven
  <2> HIDE DEF s, c
  <2>2. Cardinality(Ids(s)) = Cardinality(Ids(c))
    BY <2>1 DEF CasesProven
  <2>3. Ids(c) \in SUBSET Ids(s)
    BY <1>1, <1>2 DEF Ids
  <2>4. IsFiniteSet(Ids(s))
    <3>1. IsFiniteSet(DOMAIN s)
      BY <1>1, FS_Interval
    <3> DEFINE f == [i \in DOMAIN s |-> s[i].id]
    <3>2. f \in Surjection(DOMAIN s, Ids(s))
      BY DEF Ids, Surjection
    <3> HIDE DEF f
    <3>3. QED
      BY <3>1, <3>2, FS_Surjection
  <2>5. Ids(s) = Ids(c)
    BY <2>2, <2>3, <2>4, FS_Subset
  <2>6. PICK i \in DOMAIN c : c[i].id = s[n].id
    BY <1>3, <2>5 DEF Ids
  <2>7. i \in DOMAIN s /\ s[i].id = s[n].id
    BY <1>1, <1>2, <2>6
  <2>8. i = n
    BY <1>1, <1>3, <2>7 DEF DistinctIds
  <2>9. QED
    BY <1>3, <2>6, <2>8
<1>5. ASSUME a.schema = "vendor", VendorProven(Cut(a, k), source)
      PROVE  FALSE
  <2>1. DOMAIN c = DOMAIN VendorCases
    BY <1>1, <1>5 DEF VendorProven, Each
  <2>2. DOMAIN s = DOMAIN VendorCases
    <3>1. IsVendor(a)
      BY <1>5, ArtifactFacts
    <3>2. QED
      BY <3>1 DEF IsVendor, VendorArtifact
  <2>3. QED
    BY <1>3, <2>1, <2>2
<1>6. QED
  BY <1>4, <1>5

\* No case of a captured artifact fails.
LEMMA NoneFails ==
  ASSUME NEW a, IsCaptured(a), NEW k \in Int, k <= Len(a.cases)
  PROVE  ~Failing(a, k)
<1> DEFINE s == a.cases
<1> SUFFICES ASSUME Failing(a, k)
             PROVE  FALSE
  OBVIOUS
<1>1. IsCaseList(s)
  BY ArtifactFacts
<1>2. PICK request, gpu, runtime : a = VendorArtifact(request, gpu, runtime)
  <2>1. IsVendor(a)
    BY ArtifactFacts DEF Failing
  <2>2. QED
    BY <2>1 DEF IsVendor
<1>3. s = [i \in DOMAIN VendorCases |->
            [id |-> VendorCases[i].id, category |-> VendorCases[i].category,
             hash |-> CaseHash(VendorCases[i]), passed |-> TRUE]]
  BY <1>2 DEF VendorArtifact
<1>4. \A i \in DOMAIN s : s[i].passed /\ s[i].hash = CaseHash(s[i])
  BY <1>3 DEF CaseHash
<1>5. PICK i \in 1 .. k : LET first == s[LineOf(s, s[i].id)] IN
        ~first.passed \/ first.hash # CaseHash(s[i])
  BY DEF Failing
<1> HIDE DEF s
<1>6. i \in DOMAIN s
  BY <1>1 DEF IsCaseList, s
<1>7. LineOf(s, s[i].id) = i
  BY <1>1, <1>6, LineIs DEF IsCaseList
<1>8. QED
  BY <1>4, <1>5, <1>6, <1>7

\* A cut that cuts nothing off.
LEMMA WholeCut ==
  ASSUME NEW a, IsCaptured(a)
  PROVE  Cut(a, Len(a.cases)) = a
<1> DEFINE s == a.cases
           R == {s[i] : i \in DOMAIN s}
<1>1. IsCaseList(s) /\ a = [a EXCEPT !.cases = s]
  BY ArtifactFacts
<1>2. SubSeq(s, 1, Len(s)) = s
  <2>1. s \in Seq(R)
    BY <1>1 DEF IsCaseList
  <2> HIDE DEF s, R
  <2>2. QED
    BY <2>1
<1>3. QED
  BY <1>1, <1>2 DEF Cut

\* A source an artifact is verified for is its own.
LEMMA OwnSource ==
  ASSUME NEW a, IsCaptured(a), NEW source
  PROVE  /\ a.schema = "portable" => (PortableProven(a, source) <=> source = a.source)
         /\ a.schema = "vendor" => (VendorProven(a, source) <=> source = a.source)
<1>1. ASSUME a.schema = "portable"
      PROVE  PortableProven(a, source) <=> source = a.source
  <2>1. PortableProven(a, a.source)
    BY <1>1, ArtifactFacts DEF IsPortable
  <2>2. QED
    BY <2>1 DEF PortableProven
<1>2. ASSUME a.schema = "vendor"
      PROVE  VendorProven(a, source) <=> source = a.source
  <2>1. VendorProven(a, a.source)
    BY <1>2, ArtifactFacts DEF IsVendor
  <2>2. QED
    BY <2>1 DEF VendorProven
<1>3. QED
  BY <1>1, <1>2

\* A file is verified if it has every case, and for its own source only.
LEMMA FileIsVerified ==
  ASSUME NEW a, IsCaptured(a), NEW lines \in Nat, NEW source
  PROVE  VerifyFile(FileOf(a, lines), source) # Refused
           <=> source = a.source /\ lines >= CasesAt(a) + Len(a.cases)
<1> DEFINE f == FileOf(a, lines)
           n == Len(a.cases)
           k == Present(a, lines)
           parsed == Parse(f)
           Accepted(b) == \/ b.schema = "vendor" /\ VendorProven(b, source)
                          \/ b.schema = "portable" /\ PortableProven(b, source)
<1>1. n \in Nat /\ n > 0 /\ a # Refused /\ a.private = FALSE /\ a.schema \in {"portable", "vendor"}
  <2>1. IsCaseList(a.cases)
    BY ArtifactFacts
  <2>2. QED
    BY <2>1, HasCases, ArtifactFacts DEF IsCaseList, IsCaptured
<1>2. CasesAt(a) \in Nat /\ Fields(a.schema) \in Nat /\ CasesAt(a) = Fields(a.schema) + 2
  BY DEF CasesAt, Fields
<1>3. k = IF n <= lines - CasesAt(a) THEN n ELSE lines - CasesAt(a)
  BY <1>1, <1>2, MinOfTwo DEF Present
<1>4. f.kind = "artifact"
  BY DEF FileOf
<1>5. VerifyFile(f, source) = IF parsed = Refused THEN Refused
                              ELSE IF Accepted(parsed) THEN parsed ELSE Refused
  BY <1>4 DEF VerifyFile
<1>6. parsed = IF a.private \/ lines <= Fields(a.schema) \/ lines = CasesAt(a) \/ Failing(a, k)
               THEN Refused ELSE Cut(a, k)
  BY ParseIs
<1>7. k \in Int /\ k <= n
  BY <1>1, <1>2, <1>3
<1>8. ~Failing(a, k)
  BY <1>7, NoneFails
<1>9. CASE lines >= CasesAt(a) + n
  <2>1. k = n
    BY <1>1, <1>2, <1>3, <1>9
  <2>2. Cut(a, k) = a
    BY <2>1, WholeCut
  <2>3. parsed = a
    BY <1>1, <1>2, <1>6, <1>8, <1>9, <2>2
  <2>4. Accepted(a) <=> source = a.source
    BY <1>1, OwnSource
  <2> HIDE DEF Accepted, parsed
  <2>5. VerifyFile(f, source) = IF Accepted(a) THEN a ELSE Refused
    BY <1>1, <1>5, <2>3
  <2>6. QED
    BY <1>1, <1>9, <2>4, <2>5
<1>10. CASE ~(lines >= CasesAt(a) + n)
  <2>1. k < n
    BY <1>1, <1>2, <1>3, <1>10
  <2>2. Cut(a, k).schema = a.schema
    BY ArtifactFacts DEF Cut
  <2>3. ~Accepted(Cut(a, k))
    BY <1>1, <1>7, <2>1, <2>2, CutProvesNothing
  <2> HIDE DEF Accepted, parsed
  <2>4. parsed # Refused => ~Accepted(parsed)
    BY <1>6, <2>3
  <2>5. VerifyFile(f, source) = Refused
    BY <1>5, <2>4
  <2>6. QED
    BY <1>10, <2>5
<1>11. QED
  BY <1>9, <1>10

-----------------------------------------------------------------------------
(* The files of the host: manifests it found, and what captures wrote.      *)
IsFile(file) ==
  /\ file.kind = "manifest" => file.content.cases \in Seq(CaseName)
  /\ file.kind = "artifact" =>
       /\ IsCaptured(file.content) /\ file.lines \in Nat
       /\ file = FileOf(file.content, file.lines)

FilesInv == \A path \in DOMAIN files : IsFile(files[path])

LEMMA FilesStart == Init => FilesInv
<1> SUFFICES ASSUME Init, NEW path \in DOMAIN files
             PROVE  IsFile(files[path])
  BY DEF FilesInv
<1>1. files[path].kind = "manifest" /\ files[path].content.cases \in Seq(CaseName)
  BY SessionAssumption DEF Init, CaseName
<1>2. QED
  BY <1>1 DEF IsFile

\* A capture leaves a proven artifact, with as many of its lines as were written.
LEMMA FileSteps == FilesInv /\ [Next]_vars => FilesInv'
<1> SUFFICES ASSUME FilesInv, [Next]_vars
             PROVE  FilesInv'
  OBVIOUS
<1>1. ASSUME UNCHANGED files
      PROVE  FilesInv'
  BY <1>1 DEF FilesInv
<1>2. ASSUME NEW command, CaptureArtifact(command), files' # files
      PROVE  FilesInv'
  <2> DEFINE request == command.request
             a == Capture(request, files, host)
             Written(lines) == FileOf(a, lines)
  <2>1. PICK lines \in 0 .. LinesOf(a) : a # Refused /\ files' = Put(files, request.output, Written(lines))
    BY <1>2 DEF CaptureArtifact
  <2>2. IsCaptured(a)
    <3>1. \A path \in DOMAIN files : files[path].kind = "manifest" => files[path].content.cases \in Seq(CaseName)
      BY DEF FilesInv, IsFile
    <3> HIDE DEF a
    <3>2. a = Capture(request, files, host)
      BY DEF a
    <3>3. QED
      BY <2>1, <3>1, <3>2, CapturesAreProven
  <2> HIDE DEF a
  <2>3. lines \in Nat
    <3>1. Len(a.cases) \in Nat
      BY <2>2, ArtifactFacts DEF IsCaseList
    <3>2. CasesAt(a) \in Nat
      BY DEF CasesAt, Fields
    <3>3. QED
      BY <2>1, <3>1, <3>2 DEF LinesOf
  <2>4. IsFile(Written(lines))
    BY <2>2, <2>3 DEF IsFile, FileOf
  <2> HIDE DEF Written
  <2>5. \A path \in DOMAIN files' :
          \/ files'[path] = Written(lines)
          \/ path \in DOMAIN files /\ files'[path] = files[path]
    BY <2>1 DEF Put, Joined
  <2>6. ASSUME NEW path \in DOMAIN files'
        PROVE  IsFile(files'[path])
    BY <2>4, <2>5, <2>6 DEF FilesInv
  <2>7. QED
    BY <2>6 DEF FilesInv
<1>3. CASE Command
  <2>1. PICK command : Reject(command) \/ Look(command) \/ SaveProfile(command) \/ CaptureArtifact(command)
    BY <1>3 DEF Command
  <2>2. QED
    BY <1>1, <1>2, <2>1 DEF Reject, Look, SaveProfile
<1>4. CASE ~Command
  BY <1>1, <1>4 DEF Next, vars, commandVars
<1>5. QED
  BY <1>3, <1>4

LEMMA FilesInvariance == Spec => []FilesInv
BY FilesStart, FileSteps, PTL DEF Spec

\* Whatever captures wrote, failed to write or wrote over, a file is verified, for its
\* own source and no other, if and only if every line up to its last case is there
\* (capture, Artifact::{render, parse, verify}, both schemas).
THEOREM FilesVerifyWhenComplete == Spec => []VerifiesWhenComplete
<1>1. FilesInv => VerifiesWhenComplete
  <2> SUFFICES ASSUME FilesInv, NEW path \in DOMAIN files, files[path].kind = "artifact",
                      NEW source
               PROVE  VerifyFile(files[path], source) # Refused
                        <=> /\ source = files[path].content.source
                            /\ files[path].lines >= CasesAt(files[path].content)
                                 + Len(files[path].content.cases)
    BY DEF VerifiesWhenComplete
  <2> DEFINE a == files[path].content
             lines == files[path].lines
  <2>1. IsCaptured(a) /\ lines \in Nat /\ files[path] = FileOf(a, lines)
    BY DEF FilesInv, IsFile
  <2> HIDE DEF a, lines
  <2>2. VerifyFile(FileOf(a, lines), source) # Refused
          <=> source = a.source /\ lines >= CasesAt(a) + Len(a.cases)
    BY <2>1, FileIsVerified
  <2>3. QED
    BY <2>1, <2>2 DEF a, lines
<1>2. QED
  BY <1>1, FilesInvariance, PTL

-----------------------------------------------------------------------------
(* Altered artifacts.                                                       *)

\* An artifact and its cases are records.
LEMMA ArtifactFields ==
  ASSUME NEW a, IsCaptured(a)
  PROVE  /\ a = [x \in DOMAIN a |-> a[x]]
         /\ {"private", "schema", "source", "cases", "target", "adapter", "evidence"} \subseteq DOMAIN a
         /\ a.schema = "vendor" => "provider" \in DOMAIN a
         /\ \A i \in DOMAIN a.cases :
              /\ {"id", "category", "hash", "passed"} \subseteq DOMAIN a.cases[i]
              /\ a.cases[i].hash = CaseHash(a.cases[i])
<1>1. CASE IsPortable(a)
  <2>1. PICK request, manifest, gpu : a = PortableArtifact(request, manifest, gpu)
    BY <1>1 DEF IsPortable
  <2>2. a.schema = "portable" /\ a = [x \in DOMAIN a |-> a[x]]
        /\ {"private", "schema", "source", "cases", "target", "adapter", "evidence"} \subseteq DOMAIN a
        /\ a.cases = [i \in DOMAIN manifest.cases |-> CaseResult(manifest.cases[i], i)]
    BY <2>1 DEF PortableArtifact
  <2>3. \A i \in DOMAIN a.cases :
          /\ {"id", "category", "hash", "passed"} \subseteq DOMAIN a.cases[i]
          /\ a.cases[i].hash = CaseHash(a.cases[i])
    BY <2>2 DEF CaseResult, CaseHash
  <2>4. QED
    BY <2>2, <2>3
<1>2. CASE IsVendor(a)
  <2>1. PICK request, gpu, runtime : a = VendorArtifact(request, gpu, runtime)
    BY <1>2 DEF IsVendor
  <2>2. a = [x \in DOMAIN a |-> a[x]]
        /\ {"private", "schema", "source", "cases", "target", "adapter", "evidence", "provider"} \subseteq DOMAIN a
        /\ a.cases = [i \in DOMAIN VendorCases |->
                [id |-> VendorCases[i].id, category |-> VendorCases[i].category,
                 hash |-> CaseHash(VendorCases[i]), passed |-> TRUE]]
    BY <2>1 DEF VendorArtifact
  <2>3. \A i \in DOMAIN a.cases :
          /\ {"id", "category", "hash", "passed"} \subseteq DOMAIN a.cases[i]
          /\ a.cases[i].hash = CaseHash(a.cases[i])
    BY <2>2 DEF CaseHash
  <2>4. QED
    BY <2>2, <2>3
<1>3. QED
  BY <1>1, <1>2 DEF IsCaptured

\* Cases on at most k lines have at most k ids.
LEMMA FewIds ==
  ASSUME NEW cases, NEW k \in Nat, DOMAIN cases = 1 .. k
  PROVE  /\ IsFiniteSet(Ids(cases)) /\ Cardinality(Ids(cases)) \in Nat
         /\ Cardinality(Ids(cases)) <= k
         /\ DistinctIds(cases) => Cardinality(Ids(cases)) = k
<1> DEFINE f == [i \in DOMAIN cases |-> cases[i].id]
<1>1. f \in Surjection(DOMAIN cases, Ids(cases))
  BY DEF Ids, Surjection
<1>2. IsFiniteSet(DOMAIN cases) /\ Cardinality(DOMAIN cases) = k
  BY FS_Interval
<1>3. DistinctIds(cases) => f \in Injection(DOMAIN cases, Ids(cases))
  BY DEF DistinctIds, Ids, Injection, IsInjective
<1> HIDE DEF f
<1>4. /\ IsFiniteSet(Ids(cases)) /\ Cardinality(Ids(cases)) <= Cardinality(DOMAIN cases)
      /\ Cardinality(Ids(cases)) = Cardinality(DOMAIN cases) <=> f \in Injection(DOMAIN cases, Ids(cases))
  BY <1>1, <1>2, FS_Surjection
<1>5. Cardinality(Ids(cases)) \in Nat
  BY <1>4, FS_CardinalityType
<1>6. QED
  BY <1>2, <1>3, <1>4, <1>5

\* Every case there must be is there, and no other.
LEMMA CaseCount ==
  ASSUME NEW a, IsCaptured(a)
  PROVE  /\ a.schema = "portable" => Len(a.cases) = 6
         /\ a.schema = "vendor" => Len(a.cases) = 5
         /\ Len(PortableCases) = 6 /\ DOMAIN VendorCases = 1 .. 5
<1> DEFINE s == a.cases
<1>1. IsCaseList(s)
  BY ArtifactFacts
<1>2. Len(PortableCases) = 6
  BY DEF PortableCases, Pairs
<1>3. ASSUME a.schema = "portable"
      PROVE  Len(s) = 6
  <2>1. CasesProven(s)
    BY <1>3, ArtifactFacts DEF IsPortable, PortableProven
  <2> HIDE DEF s
  <2>2. Cardinality(Ids(s)) = Len(s)
    BY <1>1, FewIds DEF IsCaseList
  <2>3. QED
    BY <1>2, <2>1, <2>2 DEF CasesProven
<1>4. ASSUME a.schema = "vendor"
      PROVE  Len(s) = 5
  <2>1. DOMAIN s = 1 .. 5
    <3>1. IsVendor(a)
      BY <1>4, ArtifactFacts
    <3>2. QED
      BY <3>1, VendorNames DEF IsVendor, VendorArtifact
  <2> HIDE DEF s
  <2>2. DOMAIN s = 1 .. Len(s) /\ Len(s) \in Nat
    BY <1>1 DEF IsCaseList
  <2>3. QED
    BY <2>1, <2>2
<1>5. QED
  BY <1>2, <1>3, <1>4, VendorNames

\* What is verified of a file with all its lines.
LEMMA VerifiedIsProven ==
  ASSUME NEW b, NEW c, b.cases = c, b = [b EXCEPT !.cases = c],
         NEW R, c \in Seq(R), NEW source,
         VerifyFile(FileOf(b, LinesOf(b)), source) # Refused
  PROVE  /\ b.schema \in {"portable", "vendor"}
         /\ b.schema = "portable" => PortableProven(b, source)
         /\ b.schema = "vendor" => VendorProven(b, source) /\ ~Failing(b, Len(c))
<1> DEFINE f == FileOf(b, LinesOf(b))
           n == Len(c)
           parsed == Parse(f)
           Accepted(x) == \/ x.schema = "vendor" /\ VendorProven(x, source)
                          \/ x.schema = "portable" /\ PortableProven(x, source)
<1>1. n \in Nat /\ CasesAt(b) \in Nat /\ Fields(b.schema) \in Nat
  BY DEF CasesAt, Fields
<1>2. LinesOf(b) = CasesAt(b) + n + 2
  BY DEF LinesOf
<1>3. LinesOf(b) - CasesAt(b) = n + 2
  BY <1>1, <1>2
<1>4. Present(b, LinesOf(b)) = n
  <2>1. Present(b, LinesOf(b)) = Min({n, n + 2})
    BY <1>3 DEF Present
  <2> HIDE DEF n
  <2>2. n <= n + 2 /\ n \in Int /\ n + 2 \in Int
    BY <1>1
  <2>3. QED
    BY <2>1, <2>2, MinOfTwo
<1>5. SubSeq(c, 1, n) = c
  OBVIOUS
<1>6. Cut(b, n) = b
  BY <1>5 DEF Cut
<1>7. parsed = Refused \/ (~Failing(b, n) /\ parsed = b)
  <2>1. parsed = IF b.private \/ LinesOf(b) <= Fields(b.schema) \/ LinesOf(b) = CasesAt(b)
                    \/ Failing(b, Present(b, LinesOf(b)))
                 THEN Refused ELSE Cut(b, Present(b, LinesOf(b)))
    BY ParseIs
  <2> HIDE DEF parsed, n
  <2>2. QED
    BY <1>4, <1>6, <2>1
<1>8. VerifyFile(f, source) = IF parsed = Refused THEN Refused
                              ELSE IF Accepted(parsed) THEN parsed ELSE Refused
  BY DEF VerifyFile, FileOf
<1> HIDE DEF parsed, Accepted
<1>9. parsed # Refused /\ Accepted(parsed)
  BY <1>8
<1>10. ~Failing(b, n) /\ Accepted(b)
  BY <1>7, <1>9
<1>11. QED
  BY <1>10 DEF Accepted

\* An artifact with a case less or a case more proves nothing.
LEMMA CountedCases ==
  ASSUME NEW a, IsCaptured(a), NEW c, NEW R, c \in Seq(R), NEW source,
         \/ Len(c) < Len(a.cases)
         \/ Len(c) = Len(a.cases) + 1 /\ ~DistinctIds(c),
         NEW b, b = [a EXCEPT !.cases = c]
  PROVE  VerifyFile(FileOf(b, LinesOf(b)), source) = Refused
<1> SUFFICES ASSUME VerifyFile(FileOf(b, LinesOf(b)), source) # Refused
             PROVE  FALSE
  OBVIOUS
<1>1. /\ b.cases = c /\ b.schema = a.schema /\ b = [b EXCEPT !.cases = c]
  BY ArtifactFields
<1>2. /\ b.schema \in {"portable", "vendor"}
      /\ b.schema = "portable" => PortableProven(b, source)
      /\ b.schema = "vendor" => VendorProven(b, source)
  BY <1>1, VerifiedIsProven
<1>3. Len(c) \in Nat /\ DOMAIN c = 1 .. Len(c)
  OBVIOUS
<1>4. CASE b.schema = "portable"
  <2>1. Cardinality(Ids(c)) = 6 /\ DistinctIds(c) /\ Len(a.cases) = 6
    <3>1. CasesProven(c)
      BY <1>1, <1>2, <1>4 DEF PortableProven
    <3>2. QED
      BY <1>1, <1>4, <3>1, CaseCount DEF CasesProven, DistinctIds
  <2>2. Cardinality(Ids(c)) <= Len(c) /\ Cardinality(Ids(c)) \in Nat
    BY <1>3, FewIds
  <2>3. QED
    BY <1>3, <2>1, <2>2
<1>5. CASE b.schema = "vendor"
  <2>1. DOMAIN c = 1 .. 5 /\ Len(a.cases) = 5
    <3>1. Each(c, LAMBDA x : [id |-> x.id, category |-> x.category]) = VendorCases
      BY <1>1, <1>2, <1>5 DEF VendorProven
    <3>2. DOMAIN c = DOMAIN VendorCases
      BY <3>1 DEF Each
    <3>3. QED
      BY <1>1, <1>5, <3>2, CaseCount
  <2>2. Len(c) = 5
    <3>1. ASSUME NEW k \in Nat, 1 .. k = 1 .. 5
          PROVE  k = 5
      <4>1. k >= 5
        BY <3>1, 5 \in 1 .. 5
      <4>2. k \in 1 .. 5
        BY <3>1, <4>1, k \in 1 .. k
      <4>3. QED
        BY <4>1, <4>2
    <3>2. QED
      BY <1>3, <2>1, <3>1
  <2>3. QED
    BY <2>1, <2>2
<1>6. QED
  BY <1>2, <1>4, <1>5

\* A case that failed, or whose hash is not its own, refuses the artifact.
LEMMA AlteredCase ==
  ASSUME NEW a, IsCaptured(a), NEW i \in DOMAIN a.cases, NEW case,
         case.id = a.cases[i].id, case.category = a.cases[i].category,
         ~case.passed \/ case.hash # CaseHash(case),
         NEW b, b = [a EXCEPT !.cases = [a.cases EXCEPT ![i] = case]], NEW source
  PROVE  VerifyFile(FileOf(b, LinesOf(b)), source) = Refused
<1> SUFFICES ASSUME VerifyFile(FileOf(b, LinesOf(b)), source) # Refused
             PROVE  FALSE
  OBVIOUS
<1> DEFINE s == a.cases
           c == [s EXCEPT ![i] = case]
           n == Len(s)
<1>1. /\ b.cases = c /\ b.schema = a.schema /\ b = [b EXCEPT !.cases = c]
  BY ArtifactFields
<1>2. /\ n \in Nat /\ DOMAIN s = 1 .. n /\ s \in Seq({s[j] : j \in DOMAIN s}) /\ DistinctIds(s)
  BY ArtifactFacts DEF IsCaseList
<1>3. /\ c \in Seq({s[j] : j \in DOMAIN s} \cup {case}) /\ Len(c) = n /\ DOMAIN c = 1 .. n
      /\ c[i] = case
  BY <1>2
<1>4. DistinctIds(c)
  <2>1. \A j \in DOMAIN c : c[j].id = s[j].id
    BY <1>2, <1>3
  <2> HIDE DEF c, s
  <2>2. QED
    BY <1>2, <1>3, <2>1 DEF DistinctIds
<1>5. /\ b.schema \in {"portable", "vendor"}
      /\ b.schema = "portable" => PortableProven(b, source)
      /\ b.schema = "vendor" => ~Failing(b, Len(c))
  BY <1>1, <1>3, VerifiedIsProven
<1>6. i \in 1 .. n
  BY <1>2
<1>7. CASE b.schema = "portable"
  <2>1. CasesProven(c)
    BY <1>1, <1>5, <1>7 DEF PortableProven
  <2> HIDE DEF c, n
  <2>2. CaseProven(case)
    BY <1>3, <1>6, <2>1 DEF CasesProven
  <2>3. case.passed /\ case.hash = CaseHash(case)
    BY <2>2 DEF CaseProven
  <2>4. QED
    BY <2>3
<1>8. CASE b.schema = "vendor"
  <2> HIDE DEF c, s
  <2>1. LineOf(c, c[i].id) = i
    BY <1>2, <1>3, <1>4, <1>6, LineIs
  <2>2. c[LineOf(c, c[i].id)] = case /\ c[i] = case
    BY <1>3, <2>1
  <2>3. i \in 1 .. Len(c)
    BY <1>3, <1>6
  <2>4. Failing(b, Len(c))
    <3>1. ~c[LineOf(c, c[i].id)].passed \/ c[LineOf(c, c[i].id)].hash # CaseHash(c[i])
      BY <2>2
    <3>2. b.cases = c /\ b.schema = "vendor"
      BY <1>1, <1>8
    <3>3. QED
      BY <2>3, <3>1, <3>2 DEF Failing
  <2>5. QED
    BY <1>5, <1>8, <2>4
<1>9. QED
  BY <1>5, <1>7, <1>8

\* The next case is another.
LEMMA NextCase ==
  ASSUME NEW a, IsCaptured(a), NEW i \in DOMAIN a.cases
  PROVE  LET next == (i % Len(a.cases)) + 1 IN
         next \in DOMAIN a.cases /\ a.cases[next].id # a.cases[i].id
<1> DEFINE s == a.cases
           next == (i % Len(s)) + 1
<1>1. IsCaseList(s) /\ Len(s) \in {5, 6}
  BY ArtifactFacts, CaseCount
<1> HIDE DEF s
<1>2. /\ DOMAIN s = 1 .. Len(s) /\ i \in 1 .. Len(s) /\ DistinctIds(s)
  BY <1>1 DEF IsCaseList, s
<1>3. next \in 1 .. Len(s) /\ next # i
  <2>1. CASE Len(s) = 5
    BY <1>2, <2>1
  <2>2. CASE Len(s) = 6
    BY <1>2, <2>2
  <2>3. QED
    BY <1>1, <2>1, <2>2
<1>4. QED
  BY <1>2, <1>3 DEF DistinctIds, s

\* A name that fits the target an artifact was captured for, and no other.
FitsOne(a) ==
  \A other \in DOMAIN Targets : other # a.target =>
    /\ ~Has(a.adapter, Targets[other])
    /\ {a.target, other} \subseteq Nvidia => Model(other) \notin a.adapter

\* Another target, or other evidence, refuses the artifact.
LEMMA AlteredField ==
  ASSUME NEW a, IsCaptured(a), FitsOne(a), NEW source, NEW b,
         \/ \E target \in DOMAIN Targets \ {a.target} : b = [a EXCEPT !.target = target]
         \/ \E kind \in EvidenceKinds \ {Physical} : b = [a EXCEPT !.evidence = kind]
  PROVE  VerifyFile(FileOf(b, LinesOf(b)), source) = Refused
<1> SUFFICES ASSUME VerifyFile(FileOf(b, LinesOf(b)), source) # Refused
             PROVE  FALSE
  OBVIOUS
<1> DEFINE c == a.cases
           R == {c[i] : i \in DOMAIN c}
<1>1. c \in Seq(R)
  BY ArtifactFacts DEF IsCaseList
<1>2. /\ b.cases = c /\ b.schema = a.schema /\ b = [b EXCEPT !.cases = c] /\ b.adapter = a.adapter
      /\ a.schema = "vendor" => b.provider = a.provider
  BY ArtifactFields
<1>3. \/ b.target \in DOMAIN Targets /\ b.target # a.target
      \/ b.evidence # Physical
  BY ArtifactFields
<1> HIDE DEF c, R
<1>4. /\ b.schema \in {"portable", "vendor"}
      /\ b.schema = "portable" => PortableProven(b, source)
      /\ b.schema = "vendor" => VendorProven(b, source)
  BY <1>1, <1>2, VerifiedIsProven
<1>5. b.evidence = Physical
  BY <1>4 DEF PortableProven, VendorProven
<1>6. b.target \in DOMAIN Targets /\ b.target # a.target
  BY <1>3, <1>5
<1>7. CASE b.schema = "portable"
  BY <1>2, <1>4, <1>6, <1>7 DEF PortableProven, FitsOne
<1>8. CASE b.schema = "vendor"
  <2>1. TargetProven(b.target, b.adapter, b.provider)
    BY <1>4, <1>8 DEF VendorProven
  <2>2. TargetProven(a.target, a.adapter, a.provider)
    <3>1. VendorProven(a, a.source)
      BY <1>2, <1>8, ArtifactFacts DEF IsVendor
    <3>2. QED
      BY <3>1 DEF VendorProven
  <2>3. b.provider = a.provider /\ b.adapter = a.adapter
    BY <1>2, <1>8
  <2>4. VendorProvider(b.target) = VendorProvider(a.target)
    BY <2>1, <2>2, <2>3 DEF TargetProven
  <2>5. a.target \in Nvidia \cup {Gfx1151} /\ b.target \in Nvidia \cup {Gfx1151}
    BY <2>1, <2>2 DEF TargetProven, Targets
  <2>6. {a.target, b.target} \subseteq Nvidia
    BY <1>6, <2>4, <2>5 DEF VendorProvider
  <2>7. b.target # Gfx1151
    BY <2>6 DEF Nvidia, Gfx1151, Laptop5080, Desktop5090
  <2>8. Model(b.target) \in b.adapter
    BY <2>1, <2>7 DEF TargetProven
  <2>9. QED
    BY <1>6, <2>3, <2>6, <2>8 DEF FitsOne
<1>9. QED
  BY <1>4, <1>7, <1>8

\* The adapter of an artifact was reported for its target, by the host of the session.
LEMMA CapturedName ==
  ASSUME NEW request, NEW tools, NEW found, NEW a, a = Capture(request, found, tools), a # Refused
  PROVE  /\ a.target \in DOMAIN Targets /\ PhysicalGpu(a.target, tools) # Refused
         /\ a.adapter = PhysicalGpu(a.target, tools).name
<1> DEFINE file == found[request.manifest]
           gpu == PhysicalGpu(request.target, tools)
           runtime == RuntimeFor(request.target, tools)
<1>1. request.target \in DOMAIN Targets /\ file.kind = "manifest"
  BY DEF Capture
<1>2. a = IF file.content.schema = "vendor" THEN VendorCapture(request, file.content, tools)
          ELSE PortableCapture(request, file.content, tools)
  BY <1>1 DEF Capture
<1>3. CASE a = VendorCapture(request, file.content, tools)
  <2>1. a = VendorArtifact(request, gpu, runtime) /\ gpu # Refused
    BY <1>3 DEF VendorCapture
  <2>2. QED
    BY <1>1, <2>1 DEF VendorArtifact
<1>4. CASE a = PortableCapture(request, file.content, tools)
  <2>1. a = PortableArtifact(request, file.content, gpu) /\ gpu # Refused
    BY <1>4 DEF PortableCapture
  <2>2. QED
    BY <1>1, <2>1 DEF PortableArtifact
<1>5. QED
  BY <1>2, <1>3, <1>4

NamesInv ==
  /\ host \in {session.host : session \in Sessions}
  /\ \A path \in DOMAIN files : files[path].kind = "artifact" => FitsOne(files[path].content)

LEMMA NamesStart == Init => NamesInv
<1> SUFFICES ASSUME Init
             PROVE  NamesInv
  OBVIOUS
<1>1. PICK session \in Sessions : host = session.host /\ files = session.files
  BY DEF Init
<1>2. \A path \in DOMAIN files : files[path].kind = "manifest"
  BY <1>1, SessionAssumption
<1>3. QED
  BY <1>1, <1>2 DEF NamesInv

LEMMA NamesSteps == NamesInv /\ [Next]_vars => NamesInv'
<1> SUFFICES ASSUME NamesInv, [Next]_vars
             PROVE  NamesInv'
  OBVIOUS
<1>1. host' = host
  <2>1. CASE Command
    BY <2>1 DEF Command, Reject, Look, SaveProfile, CaptureArtifact, Answer
  <2>2. CASE ~Command
    BY <2>2 DEF Next, vars, commandVars
  <2>3. QED
    BY <2>1, <2>2
<1>2. ASSUME UNCHANGED files
      PROVE  NamesInv'
  BY <1>1, <1>2 DEF NamesInv
<1>3. ASSUME NEW command, CaptureArtifact(command), files' # files
      PROVE  NamesInv'
  <2> DEFINE request == command.request
             a == Capture(request, files, host)
             Written(lines) == FileOf(a, lines)
  <2>1. PICK lines \in 0 .. LinesOf(a) : a # Refused /\ files' = Put(files, request.output, Written(lines))
    BY <1>3 DEF CaptureArtifact
  <2>2. /\ a.target \in DOMAIN Targets /\ PhysicalGpu(a.target, host) # Refused
        /\ a.adapter = PhysicalGpu(a.target, host).name
    <3> HIDE DEF a
    <3>1. a = Capture(request, files, host)
      BY DEF a
    <3>2. QED
      BY <2>1, <3>1, CapturedName
  <2> HIDE DEF a
  <2>3. PICK session \in Sessions : host = session.host
    BY DEF NamesInv
  <2>4. FitsOne(a)
    BY <2>2, <2>3, NamesAssumption DEF FitsOne
  <2>5. Written(lines).content = a
    BY DEF FileOf
  <2> HIDE DEF Written
  <2>6. \A path \in DOMAIN files' :
          \/ files'[path] = Written(lines)
          \/ path \in DOMAIN files /\ files'[path] = files[path]
    BY <2>1 DEF Put, Joined
  <2>7. \A path \in DOMAIN files' : files'[path].kind = "artifact" => FitsOne(files'[path].content)
    BY <2>4, <2>5, <2>6 DEF NamesInv
  <2>8. QED
    BY <1>1, <2>7 DEF NamesInv
<1>4. CASE Command
  <2>1. PICK command : Reject(command) \/ Look(command) \/ SaveProfile(command) \/ CaptureArtifact(command)
    BY <1>4 DEF Command
  <2>2. QED
    BY <1>2, <1>3, <2>1 DEF Reject, Look, SaveProfile
<1>5. CASE ~Command
  BY <1>2, <1>5 DEF Next, vars, commandVars
<1>6. QED
  BY <1>4, <1>5

LEMMA NamesInvariance == Spec => []NamesInv
BY NamesStart, NamesSteps, PTL DEF Spec

\* Every alteration is refused.
LEMMA AlterationsRefused ==
  ASSUME NEW a, IsCaptured(a), FitsOne(a), NEW b \in Alterations(a)
  PROVE  VerifyFile(FileOf(b, LinesOf(b)), b.source) = Refused
<1> DEFINE s == a.cases
           n == Len(s)
           R == {s[i] : i \in DOMAIN s}
<1>1. n \in Nat /\ DOMAIN s = 1 .. n /\ s \in Seq(R) /\ DistinctIds(s)
  <2>1. IsCaseList(s)
    BY ArtifactFacts
  <2>2. QED
    BY <2>1 DEF IsCaseList
<1>2. ASSUME NEW i \in DOMAIN s, b = [a EXCEPT !.cases = Without(s, i)]
      PROVE  VerifyFile(FileOf(b, LinesOf(b)), b.source) = Refused
  <2> DEFINE c == Without(s, i)
  <2>1. i \in 1 .. n
    BY <1>1
  <2>2. c \in Seq(R) /\ Len(c) < n
    <3> HIDE DEF s, R
    <3>1. SubSeq(s, 1, i - 1) \in Seq(R) /\ Len(SubSeq(s, 1, i - 1)) = i - 1
      BY <1>1, <2>1
    <3>2. SubSeq(s, i + 1, n) \in Seq(R) /\ Len(SubSeq(s, i + 1, n)) = n - i
      BY <1>1, <2>1
    <3>3. QED
      BY <1>1, <2>1, <3>1, <3>2 DEF Without
  <2> HIDE DEF c
  <2>3. b = [a EXCEPT !.cases = c]
    BY <1>2 DEF c
  <2> HIDE DEF R
  <2>4. QED
    BY <2>2, <2>3, CountedCases
<1>3. ASSUME NEW i \in DOMAIN s, b = [a EXCEPT !.cases = Append(s, s[i])]
      PROVE  VerifyFile(FileOf(b, LinesOf(b)), b.source) = Refused
  <2> DEFINE c == Append(s, s[i])
  <2>1. c \in Seq(R) /\ Len(c) = n + 1 /\ i \in 1 .. n
    <3>1. s[i] \in R /\ i \in 1 .. n
      BY <1>1
    <3> HIDE DEF s, R
    <3>2. QED
      BY <1>1, <3>1
  <2>2. c[i] = s[i] /\ c[n + 1] = s[i] /\ DOMAIN c = 1 .. n + 1
    BY <1>1, <2>1
  <2> HIDE DEF c
  <2>3. ~DistinctIds(c)
    <3>1. n \in Nat
      BY <1>1
    <3> HIDE DEF n, s
    <3>2. i \in DOMAIN c /\ n + 1 \in DOMAIN c /\ i # n + 1
      BY <2>1, <2>2, <3>1
    <3>3. c[i].id = c[n + 1].id
      BY <2>2
    <3>4. QED
      BY <3>2, <3>3 DEF DistinctIds
  <2>4. b = [a EXCEPT !.cases = c]
    BY <1>3 DEF c
  <2> HIDE DEF R
  <2>5. QED
    BY <2>1, <2>3, <2>4, CountedCases
<1>4. ASSUME NEW i \in DOMAIN s, b = [a EXCEPT !.cases[i].passed = FALSE]
      PROVE  VerifyFile(FileOf(b, LinesOf(b)), b.source) = Refused
  <2> DEFINE case == [s[i] EXCEPT !.passed = FALSE]
  <2>1. case.id = s[i].id /\ case.category = s[i].category /\ case.passed = FALSE
    BY ArtifactFields
  <2>2. b = [a EXCEPT !.cases = [a.cases EXCEPT ![i] = case]]
    BY <1>4
  <2> HIDE DEF case
  <2>3. QED
    BY <2>1, <2>2, AlteredCase
<1>5. ASSUME NEW i \in DOMAIN s,
             b = [a EXCEPT !.cases[i].hash = CaseHash(s[(i % Len(s)) + 1])]
      PROVE  VerifyFile(FileOf(b, LinesOf(b)), b.source) = Refused
  <2> DEFINE other == CaseHash(s[(i % Len(s)) + 1])
             case == [s[i] EXCEPT !.hash = other]
  <2>1. s[(i % Len(s)) + 1].id # s[i].id
    BY NextCase
  <2>2. other[1] = s[(i % Len(s)) + 1].id
    BY DEF CaseHash
  <2> HIDE DEF other
  <2>3. case.id = s[i].id /\ case.category = s[i].category /\ case.hash = other
    BY ArtifactFields
  <2>4. b = [a EXCEPT !.cases = [a.cases EXCEPT ![i] = case]]
    BY <1>5 DEF other
  <2> HIDE DEF case
  <2>5. CaseHash(case)[1] = s[i].id
    BY <2>3 DEF CaseHash
  <2>6. case.hash # CaseHash(case)
    BY <2>1, <2>2, <2>3, <2>5
  <2>7. QED
    BY <2>3, <2>4, <2>6, AlteredCase
<1>6. ASSUME \/ \E target \in DOMAIN Targets \ {a.target} : b = [a EXCEPT !.target = target]
             \/ \E kind \in EvidenceKinds \ {Physical} : b = [a EXCEPT !.evidence = kind]
      PROVE  VerifyFile(FileOf(b, LinesOf(b)), b.source) = Refused
  BY <1>6, AlteredField
<1>7. \/ \E i \in DOMAIN s : b = [a EXCEPT !.cases = Without(s, i)]
      \/ \E i \in DOMAIN s : b = [a EXCEPT !.cases = Append(s, s[i])]
      \/ \E i \in DOMAIN s : b = [a EXCEPT !.cases[i].passed = FALSE]
      \/ \E i \in DOMAIN s : b = [a EXCEPT !.cases[i].hash = CaseHash(s[(i % Len(s)) + 1])]
      \/ \E target \in DOMAIN Targets \ {a.target} : b = [a EXCEPT !.target = target]
      \/ \E kind \in EvidenceKinds \ {Physical} : b = [a EXCEPT !.evidence = kind]
  BY DEF Alterations
<1>8. QED
  BY <1>2, <1>3, <1>4, <1>5, <1>6, <1>7

\* Of a verified artifact no single case may be dropped, repeated, failed or given
\* another's hash, nor its target or its kind of evidence be another, whatever was
\* captured before (Artifact::verify and parse_artifact_cases, both schemas).
THEOREM AlteredArtifactsAreRefused == Spec => []AlteredIsRefused
<1>1. FilesInv /\ NamesInv => AlteredIsRefused
  <2> SUFFICES ASSUME FilesInv, NamesInv, NEW path \in DOMAIN files, files[path].kind = "artifact",
                      NEW altered \in Alterations(files[path].content)
               PROVE  VerifyFile(FileOf(altered, LinesOf(altered)), altered.source) = Refused
    BY DEF AlteredIsRefused
  <2> DEFINE a == files[path].content
  <2>1. IsCaptured(a) /\ FitsOne(a)
    BY DEF FilesInv, IsFile, NamesInv
  <2> HIDE DEF a
  <2>2. altered \in Alterations(a)
    BY DEF a
  <2>3. QED
    BY <2>1, <2>2, AlterationsRefused
<1>2. QED
  BY <1>1, FilesInvariance, NamesInvariance, PTL

-----------------------------------------------------------------------------
(* The rows of devices and probe.                                          *)

IsSequence(f) == \E S : f \in Seq(S)

\* A function on the first numbers is a sequence of its values.
LEMMA RowsAreSequences ==
  ASSUME NEW S, NEW n \in Nat, NEW f \in [1 .. n -> S]
  PROVE  f \in Seq(S) /\ Len(f) = n /\ \A i \in 1 .. n : f[i] \in S
OBVIOUS

\* Of two sequences joined the second begins where the first ends.
Follows(S, f, g) ==
  /\ f \o g \in Seq(S) /\ Len(f \o g) = Len(f) + Len(g)
  /\ \A n \in 1 .. Len(g) : (f \o g)[Len(f) + n] = g[n]

LEMMA JoinedRows ==
  ASSUME NEW S, NEW f \in Seq(S), NEW g \in Seq(S)
  PROVE  Follows(S, f, g)
BY DEF Follows

\* A function on the first numbers is a sequence.
LEMMA OnesAreSequences ==
  ASSUME NEW f, NEW n \in Nat, f = [i \in 1 .. n |-> f[i]]
  PROVE  IsSequence(f)
<1> DEFINE S == {f[i] : i \in 1 .. n}
<1>1. f \in [1 .. n -> S]
  OBVIOUS
<1> HIDE DEF S
<1>2. f \in Seq(S)
  BY <1>1, RowsAreSequences
<1>3. QED
  BY <1>2 DEF IsSequence

\* What discovery keeps is a sequence.
LEMMA AdaptersAreSequences ==
  ASSUME NEW probes \in Reports
  PROVE  IsSequence(FromProbes(probes))
<1> DEFINE kept == {i \in DOMAIN probes : Successful(probes[i])}
           order == Order(probes, kept)
           n == Cardinality(kept)
<1>1. Sorted(probes, kept, order)
  BY OrderIsSorted
<1>2. DOMAIN order = 1 .. n
  BY <1>1 DEF Sorted
<1>3. n \in Nat
  BY DiscoveryAssumption, FS_Subset, FS_CardinalityType
<1>4. FromProbes(probes) = [place \in DOMAIN order |-> probes[order[place]]]
  BY DEF FromProbes
<1> HIDE DEF order, n
<1>5. FromProbes(probes) = [place \in 1 .. n |-> FromProbes(probes)[place]]
  BY <1>2, <1>4
<1>6. QED
  BY <1>3, <1>5, OnesAreSequences

\* The sites are in the order of the adapters, one after the other.
SitesInv == IsSequence(adapters) /\ IsSequence(sites)

LEMMA SitesStart == Init => SitesInv
<1>1. << >> \in Seq({})
  OBVIOUS
<1>2. IsSequence(<< >>)
  BY <1>1 DEF IsSequence
<1>3. QED
  BY <1>2 DEF Init, DiscoveryInit, SitesInv

LEMMA SitesSteps == SitesInv /\ [Next]_vars => SitesInv'
<1> SUFFICES ASSUME SitesInv, [Next]_vars
             PROVE  SitesInv'
  OBVIOUS
<1>1. [DiscoveryNext]_discoveryVars
  BY OnlyDiscoveryRegisters
<1>2. ASSUME NEW probes \in Reports, adapters' = FromProbes(probes), UNCHANGED sites
      PROVE  SitesInv'
  <2>1. IsSequence(FromProbes(probes))
    BY AdaptersAreSequences
  <2>2. IsSequence(adapters')
    BY <1>2, <2>1
  <2>3. IsSequence(sites')
    BY <1>2 DEF SitesInv
  <2>4. QED
    BY <2>2, <2>3 DEF SitesInv
<1>3. CASE LoadSites
  <2>1. PICK S : adapters \in Seq(S)
    BY DEF SitesInv, IsSequence
  <2>2. DOMAIN adapters = 1 .. Len(adapters) /\ Len(adapters) \in Nat
    BY <2>1
  <2>3. sites' = [place \in 1 .. Len(adapters) |-> sites'[place]] /\ adapters' = adapters
    BY <1>3, <2>2 DEF LoadSites
  <2>4. IsSequence(sites')
    BY <2>2, <2>3, OnesAreSequences
  <2>5. QED
    BY <2>3, <2>4 DEF SitesInv
<1>4. CASE UNCHANGED discoveryVars
  BY <1>4 DEF discoveryVars, SitesInv
<1>5. QED
  BY <1>1, <1>2, <1>3, <1>4 DEF DiscoveryNext, Discover, Describe

LEMMA SitesInvariance == Spec => []SitesInv
BY SitesStart, SitesSteps, PTL DEF Spec

\* The rows before one is chosen.
AllRows(limit) == Each(FixedProviders, FixedRow) \o WgpuRows(limit)

\* Every row has a provider, and every site the limit admits has a row.
LEMMA EverySiteHasARow ==
  ASSUME SitesInv, NEW limit \in Nat
  PROVE  /\ DOMAIN AllRows(limit) = 1 .. 4 + Min({limit, Len(sites)})
         /\ 4 + Min({limit, Len(sites)}) \in Nat
         /\ \A i \in DOMAIN AllRows(limit) : AllRows(limit)[i].status # "unknown-selector"
         /\ AllRows(limit) \in Seq({AllRows(limit)[i] : i \in DOMAIN AllRows(limit)})
         /\ \A place \in DOMAIN sites : place <= limit =>
              \E i \in DOMAIN AllRows(limit) :
                /\ AllRows(limit)[i].selector = "wgpu"
                /\ AllRows(limit)[i].site = WgpuSite(place - 1)
<1> DEFINE fixed == Each(FixedProviders, FixedRow)
           wgpu == WgpuRows(limit)
           rows == AllRows(limit)
           m == Min({limit, Len(sites)})
           row(n) == [selector |-> "wgpu", site |-> WgpuSite(n - 1), installed |-> TRUE,
                      status |-> "probe-backed"]
<1>1. PICK S : sites \in Seq(S)
  BY DEF SitesInv, IsSequence
<1>2. Len(sites) \in Nat /\ DOMAIN sites = 1 .. Len(sites)
  BY <1>1
<1>3. m = IF limit <= Len(sites) THEN limit ELSE Len(sites)
  BY <1>2, MinOfTwo
<1>4. m \in Nat
  BY <1>2, <1>3
<1>5. wgpu = [n \in 1 .. m |-> row(n)]
  BY DEF WgpuRows
<1>6. fixed = [i \in 1 .. 4 |-> FixedRow(FixedProviders[i])]
  BY DEF Each, FixedProviders
<1>7. rows = fixed \o wgpu
  BY DEF AllRows
<1> DEFINE R == {FixedRow(FixedProviders[i]) : i \in 1 .. 4} \cup {row(n) : n \in 1 .. m}
<1>8. \A r \in R : r.status # "unknown-selector"
  BY DEF FixedRow
<1>9. \A n : row(n).selector = "wgpu" /\ row(n).site = WgpuSite(n - 1)
  OBVIOUS
<1>10. fixed \in Seq(R) /\ Len(fixed) = 4
  <2>1. fixed \in [1 .. 4 -> R]
    BY <1>6
  <2> HIDE DEF R, fixed
  <2>2. ASSUME NEW n \in Nat, n = 4
        PROVE  fixed \in Seq(R) /\ Len(fixed) = n
    BY <2>1, <2>2, RowsAreSequences
  <2>3. QED
    BY <2>2
<1>11. wgpu \in Seq(R) /\ Len(wgpu) = m
  <2>1. wgpu \in [1 .. m -> R]
    BY <1>5
  <2> HIDE DEF R, wgpu, m
  <2>2. QED
    BY <1>4, <2>1, RowsAreSequences
<1>12. \A n \in 1 .. m : wgpu[n] = row(n)
  BY <1>5
<1> HIDE DEF fixed, wgpu, m, R, row, rows
<1>13. /\ rows \in Seq(R) /\ Len(rows) = 4 + m /\ DOMAIN rows = 1 .. 4 + m
       /\ \A n \in 1 .. m : rows[4 + n] = wgpu[n]
  <2>1. /\ rows \in Seq(R) /\ Len(rows) = 4 + m
        /\ \A n \in 1 .. m : rows[4 + n] = wgpu[n]
    <3>1. Follows(R, fixed, wgpu)
      BY <1>10, <1>11, JoinedRows
    <3>2. /\ rows \in Seq(R) /\ Len(rows) = Len(fixed) + Len(wgpu)
          /\ \A n \in 1 .. Len(wgpu) : rows[Len(fixed) + n] = wgpu[n]
      BY <1>7, <3>1 DEF Follows
    <3>3. Len(fixed) = 4 /\ Len(wgpu) = m
      BY <1>10, <1>11
    <3>4. QED
      BY <3>2, <3>3
  <2>2. DOMAIN rows = 1 .. 4 + m
    BY <2>1
  <2>3. ASSUME NEW n \in 1 .. m
        PROVE  rows[4 + n] = wgpu[n]
    BY <2>1
  <2>4. QED
    BY <2>1, <2>2, <2>3
<1>14. \A i \in DOMAIN rows : rows[i].status # "unknown-selector"
  <2>1. \A i \in DOMAIN rows : rows[i] \in R
    BY <1>4, <1>13
  <2>2. QED
    BY <1>8, <2>1
<1>15. rows \in Seq({rows[i] : i \in DOMAIN rows})
  <2> DEFINE T == {rows[i] : i \in DOMAIN rows}
  <2>1. rows = [i \in 1 .. 4 + m |-> rows[i]]
    BY <1>13
  <2>2. rows \in [1 .. 4 + m -> T]
    BY <1>13, <2>1
  <2> HIDE DEF T
  <2>3. rows \in Seq(T)
    BY <1>4, <2>2, RowsAreSequences
  <2>4. QED
    BY <2>3 DEF T
<1>16. ASSUME NEW place \in DOMAIN sites, place <= limit
       PROVE  \E i \in DOMAIN rows : rows[i].selector = "wgpu" /\ rows[i].site = WgpuSite(place - 1)
  <2>1. place \in 1 .. m
    <3>1. place \in Nat /\ place >= 1 /\ place <= Len(sites)
      BY <1>2
    <3>2. place <= m
      BY <1>3, <1>16, <3>1
    <3>3. QED
      BY <1>4, <3>1, <3>2
  <2>2. 4 + place \in DOMAIN rows /\ rows[4 + place] = row(place)
    BY <1>4, <1>12, <1>13, <2>1
  <2>3. QED
    BY <1>9, <2>2
<1>17. /\ DOMAIN rows = 1 .. 4 + m /\ 4 + m \in Nat
       /\ \A i \in DOMAIN rows : rows[i].status # "unknown-selector"
       /\ rows \in Seq({rows[i] : i \in DOMAIN rows})
       /\ \A place \in DOMAIN sites : place <= limit =>
            \E i \in DOMAIN rows : rows[i].selector = "wgpu" /\ rows[i].site = WgpuSite(place - 1)
  BY <1>4, <1>13, <1>14, <1>15, <1>16
<1>18. QED
  BY <1>17 DEF rows, m

\* A row of no provider is there when no row is named.
LEMMA UnknownRowsAreUnknown ==
  ASSUME SitesInv, NEW selection, selection.maxDevices \in Nat,
         NEW i \in DOMAIN ProviderRows(selection),
         ProviderRows(selection)[i].status = "unknown-selector",
         NEW place \in DOMAIN sites, place <= selection.maxDevices
  PROVE  selection.selector \notin {"wgpu", WgpuSite(place - 1)}
<1> DEFINE limit == selection.maxDevices
           name == selection.selector
           all == AllRows(limit)
           kept == FoldOf(Kind("rows", name), all, DOMAIN all)
           chosen == IF name = None THEN all ELSE kept
           rows == IF chosen = << >> THEN << UnknownRow(name) >> ELSE chosen
           R == {all[j] : j \in DOMAIN all}
<1>1. ProviderRows(selection) = SubSeq(rows, 1, Min({Len(rows), limit}))
  BY RowsUnfold DEF ProviderRows, AllRows
<1>2. /\ DOMAIN all = 1 .. 4 + Min({limit, Len(sites)}) /\ 4 + Min({limit, Len(sites)}) \in Nat
      /\ \A r \in R : r.status # "unknown-selector"
      /\ all \in Seq(R)
      /\ \E j \in DOMAIN all : all[j].selector = "wgpu" /\ all[j].site = WgpuSite(place - 1)
  BY EverySiteHasARow
<1>3. Keeps(Kind("rows", name), all, DOMAIN all, kept)
  <2>1. Kind("rows", name).of = "rows"
    BY DEF Kind
  <2> HIDE DEF all
  <2>2. QED
    BY <1>2, <2>1, FoldKeeps
<1>4. /\ kept \in Seq(R)
      /\ (\E j \in DOMAIN all : name \in {all[j].selector, all[j].site}) => kept # << >>
  BY <1>3 DEF Keeps, Kind
<1> SUFFICES ASSUME name \in {"wgpu", WgpuSite(place - 1)}
             PROVE  FALSE
  OBVIOUS
<1> HIDE DEF all, kept, R
<1>5. kept # << >> /\ all # << >>
  <2>1. PICK j \in DOMAIN all : all[j].selector = "wgpu" /\ all[j].site = WgpuSite(place - 1)
    BY <1>2
  <2>2. name \in {all[j].selector, all[j].site}
    BY <2>1
  <2>3. QED
    BY <1>4, <2>1, <2>2
<1>6. rows \in Seq(R)
  BY <1>2, <1>4, <1>5
<1> HIDE DEF rows
<1>7. Len(rows) \in Nat /\ limit \in Nat
  BY <1>6
<1>8. Min({Len(rows), limit}) = IF Len(rows) <= limit THEN Len(rows) ELSE limit
  BY <1>7, MinOfTwo
<1> DEFINE k == Min({Len(rows), limit})
<1>9. k \in Nat /\ k <= Len(rows)
  BY <1>7, <1>8
<1> HIDE DEF k
<1>10. SubSeq(rows, 1, k) \in Seq(R)
  BY <1>6, <1>9
<1>11. ProviderRows(selection)[i] \in R
  <2>1. ProviderRows(selection) \in Seq(R)
    BY <1>1, <1>10 DEF k
  <2>2. QED
    BY <2>1
<1>12. QED
  BY <1>2, <1>11

\* However many adapters were registered and whatever was asked before: a provider is
\* reported unknown only if no site the command's limit admits has its name
\* (provider_rows, load).
THEOREM UnknownProvidersAreAbsent == Spec => UnknownIsAbsent
<1> DEFINE Absent ==
      (answer' # answer /\ answer'.command # Refused) =>
         LET asked == answer'.command IN
         (asked.verb \in {"devices", "probe"} /\ answer'.result # Refused) =>
           \A i \in DOMAIN answer'.result : answer'.result[i].status = "unknown-selector" =>
             \A place \in DOMAIN sites :
               place <= asked.request.maxDevices =>
                 asked.request.selector \notin {"wgpu", WgpuSite(place - 1)}
<1>1. ASSUME SitesInv, [Next]_vars, answer' # answer, answer'.command # Refused,
             answer'.command.verb \in {"devices", "probe"}, answer'.result # Refused,
             NEW i \in DOMAIN answer'.result, answer'.result[i].status = "unknown-selector",
             NEW place \in DOMAIN sites, place <= answer'.command.request.maxDevices
      PROVE  answer'.command.request.selector \notin {"wgpu", WgpuSite(place - 1)}
  <2>1. Command
    BY <1>1 DEF Next, vars, commandVars
  <2>2. PICK command \in Commands :
          Reject(command) \/ Look(command) \/ SaveProfile(command) \/ CaptureArtifact(command)
    BY <2>1 DEF Command
  <2>3. \E result : Answer(command, result)
    BY <2>2 DEF Reject, Look, SaveProfile, CaptureArtifact
  <2>4. answer'.command = command
    BY <2>3 DEF Answer
  <2>5. Look(command)
    <3>1. ~Reject(command)
      BY <1>1 DEF Reject, Answer
    <3>2. ~AboutProfiles(command) /\ command.verb # "acceptance"
      BY <1>1, <2>4 DEF AboutProfiles
    <3>3. QED
      BY <2>2, <3>1, <3>2 DEF SaveProfile, CaptureArtifact
  <2>6. Answer(command, ProviderRows(command.request))
    BY <1>1, <2>4, <2>5 DEF Look, AboutProfiles
  <2>7. answer'.result = ProviderRows(command.request)
    BY <2>6 DEF Answer
  <2>8. command.request.maxDevices \in Nat
    BY <1>1, <2>4, CommandsLimit
  <2>9. QED
    BY <1>1, <2>4, <2>7, <2>8, UnknownRowsAreUnknown
<1>2. SitesInv /\ [Next]_vars => [Absent]_vars
  BY <1>1
<1>3. QED
  BY <1>2, SitesInvariance, PTL DEF Spec, UnknownIsAbsent
=============================================================================
