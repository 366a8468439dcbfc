-------------------------- MODULE MeasuredProfile --------------------------
(***************************************************************************)
(* Measured compute profiles: the deterministic harness that makes one, the*)
(* tests a router puts it to before it trusts a device, and its encoding in *)
(* a profile store.  No state: ProfileStore and the automatic executor are *)
(* AutoRouting.                                                            *)
(*                                                                         *)
(* A label is a string, of which only its length and equality matter.  The *)
(* five limits are one component of a record, and so are the six lists of  *)
(* samples.                                                                *)
(***************************************************************************)
EXTENDS Outcomes, Naturals, Sequences, SequencesExt, FiniteSetsExt, TLC

Identity(adapter, driver, backend) ==
  [adapter |-> adapter, driver |-> driver, backend |-> backend]

\* f, and g where f says nothing.
Joined(f, g) == [x \in DOMAIN f \cup DOMAIN g |-> IF x \in DOMAIN f THEN f[x] ELSE g[x]]

Put(table, key, value) == Joined([k \in {key} |-> value], table)

Limits == {"resident", "binding", "depth", "queueBytes", "deadline"}
SampleKinds == {"upload", "download", "launch", "element", "reduction", "matmul"}

Physical == "physical-device"
EvidenceKinds == {"modeled", "host-emulated", Physical}

-----------------------------------------------------------------------------
(* The harness.                                                            *)

CellBytes == 8
StaleAfter == 10000

DefaultBounds ==
  [transfer |-> <<4096, 16384, 65536>>, element |-> <<256, 1024, 4096>>,
   edge |-> <<8, 16, 32>>, maxSample |-> 262144]

\* The values from 1 to max, the first time each occurs.
BoundedNonzero(values, max) ==
  FoldLeft(LAMBDA kept, v : IF v \in 1..max /\ ~Contains(kept, v) THEN Append(kept, v) ELSE kept,
           << >>, values)

Each(values, Op(_)) == [i \in DOMAIN values |-> Op(values[i])]

Samples(bounds) ==
  LET transfers == BoundedNonzero(bounds.transfer, bounds.maxSample)
      elements == BoundedNonzero(bounds.element, Max({bounds.maxSample \div CellBytes, 1}))
      edges == BoundedNonzero(bounds.edge, 512)
  IN [upload |-> transfers,
      download |-> Each(transfers, LAMBDA b : (9 * b) \div 10),
      launch |-> [i \in DOMAIN transfers |-> i],
      element |-> elements,
      reduction |-> Each(elements, LAMBDA c : c \div 2),
      matmul |-> Each(edges, LAMBDA e : e * e * e)]

\* measure_bounded_profile: nothing is measured and nothing observed; the kind of
\* evidence says so, and the observed identity is the caller's.
Measure(identity, modeled, producer, now, bounds) ==
  LET samples == Samples(bounds) IN
  [identity |-> identity,
   limits |-> modeled.limits,
   samples |-> samples,
   context |-> [thermal |-> "bounded", power |-> "host"],
   tile |-> Max({Min({modeled.tile, modeled.limits.binding}), CellBytes}),
   allocation |-> SelectSeq(samples.upload, LAMBDA b : b <= modeled.limits.resident),
   kind |-> "modeled",
   producer |-> producer,
   measuredAt |-> now,
   staleAfter |-> StaleAfter,
   observed |-> identity,
   modeled |-> modeled]

-----------------------------------------------------------------------------
(* Routing.                                                                *)

SomePositive(values) == \E i \in DOMAIN values : values[i] > 0

ConclusiveSamples(samples) == \A kind \in SampleKinds : SomePositive(samples[kind])

Conclusive(p) ==
  /\ p.tile > 0
  /\ SomePositive(p.allocation)
  /\ ConclusiveSamples(p.samples)
  /\ p.modeled.fault = None

\* Mutated: the difference wraps, here at 2^30.
AgeWrapping(p, now) == (1073741824 + now - p.measuredAt) % 1073741824

\* u64::saturating_sub: a profile from the future has no age.
Age(p, now) == IF now < p.measuredAt THEN 0 ELSE now - p.measuredAt

\* is_compatible, which the router does not call.
Compatible(p, identity, now) ==
  /\ p.identity = identity
  /\ Age(p, now) <= p.staleAfter
  /\ p.limits.resident > 0
  /\ p.limits.binding > 0

\* Mutated: any observed device will do.
VerifyKindOnly(p) == p.kind = Physical

VerifyPhysical(p) == p.kind = Physical /\ p.observed = p.identity

\* AutoComputeRouter::choose, for an expected identity at a tick.
Choose(expected, now, p) ==
  IF p = None THEN "absent"
  ELSE IF p.identity # expected THEN "incompatible"
  ELSE IF Age(p, now) > p.staleAfter THEN "stale"
  ELSE IF ~Conclusive(p) THEN "inconclusive"
  ELSE IF ~VerifyPhysical(p) THEN "non-physical"
  ELSE "device"

-----------------------------------------------------------------------------
(* The record kept in a store.                                             *)

\* What the store takes a profile to weigh: the identity it was observed on and
\* the provider of its modeled profile are not counted.
EstimatedBytes(p) ==
  LET labels == <<p.identity.adapter, p.identity.driver, p.identity.backend,
                  p.context.thermal, p.context.power, p.producer>>
      numbers == Len(p.allocation) + MapThenSumSet(LAMBDA k : Len(p.samples[k]), SampleKinds)
  IN 256 + 8 * numbers + FoldLeft(LAMBDA n, l : n + Len(l), 0, labels)

Schemas == {"v1", "v2"}

Required == {"schema", "adapter", "driver", "backend", "limits", "samples", "context", "tile",
             "allocation", "producer", "measuredAt", "staleAfter", "provider"}

ObservedFields == {"observedAdapter", "observedDriver", "observedBackend"}

\* profile_to_value.  Of the modeled profile only the provider is written.
ToTable(p) ==
  Joined(
    [schema |-> "v2",
     adapter |-> p.identity.adapter, driver |-> p.identity.driver, backend |-> p.identity.backend,
     limits |-> p.limits, samples |-> p.samples, context |-> p.context, tile |-> p.tile,
     allocation |-> p.allocation, producer |-> p.producer, measuredAt |-> p.measuredAt,
     staleAfter |-> p.staleAfter, provider |-> p.modeled.provider, kind |-> p.kind],
    IF p.observed = None THEN << >>
    ELSE [observedAdapter |-> p.observed.adapter, observedDriver |-> p.observed.driver,
          observedBackend |-> p.observed.backend])

\* A missing kind, as in records of the first schema, proves nothing.
KindOf(t) == IF "kind" \in DOMAIN t THEN t.kind ELSE "modeled"

\* Mutated: the driver is taken from the declared identity.
ObservedOfDeclaredDriver(t) ==
  IF ObservedFields \subseteq DOMAIN t
  THEN Identity(t.observedAdapter, t.driver, t.observedBackend)
  ELSE None

ObservedOf(t) ==
  IF ObservedFields \subseteq DOMAIN t
  THEN Identity(t.observedAdapter, t.observedDriver, t.observedBackend)
  ELSE None

WellFormed(t) ==
  /\ Required \subseteq DOMAIN t
  /\ t.schema \in Schemas
  /\ KindOf(t) \in EvidenceKinds
  /\ ObservedFields \subseteq DOMAIN t \/ ObservedFields \cap DOMAIN t = {}

\* The modeled profile is rebuilt from the limits and the tile, without a fault and
\* without auto-flush, whatever was saved.
Rebuilt(t) ==
  [identity |-> Identity(t.adapter, t.driver, t.backend),
   limits |-> t.limits, samples |-> t.samples, context |-> t.context, tile |-> t.tile,
   allocation |-> t.allocation, kind |-> KindOf(t), producer |-> t.producer,
   measuredAt |-> t.measuredAt, staleAfter |-> t.staleAfter, observed |-> ObservedOf(t),
   modeled |-> [provider |-> t.provider, limits |-> t.limits, tile |-> t.tile,
                fault |-> None, autoFlush |-> FALSE]]

\* profile_from_value
FromTable(t) == IF WellFormed(t) THEN Rebuilt(t) ELSE Refused

-----------------------------------------------------------------------------
(* AutoTensorExecutor.                                                     *)

\* new: without an expected identity a profile is incompatible; the unmeasured
\* profile serves whenever the measured one is not accepted.
NewAuto(legacy, measured, expected, now) ==
  LET decision == IF expected # None THEN Choose(expected, now, measured)
                  ELSE IF measured # None THEN "incompatible" ELSE "absent"
  IN [decision |-> decision,
      modeled |-> IF decision = "device" THEN measured.modeled ELSE legacy,
      expected |-> expected]

DefaultAuto == NewAuto(None, None, None, 0)

UsesCpuFallback(executor) == executor.modeled = None

Provider(executor) == IF UsesCpuFallback(executor) THEN "auto/cpu" ELSE "auto/modeled"
=============================================================================
