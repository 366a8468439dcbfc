---------------------- MODULE ComputeCommandProperties ----------------------
(***************************************************************************)
(* What the host side promises of profiles, sites and artifacts.           *)
(***************************************************************************)
EXTENDS ComputeCommand

Expected == Expectations \ {None}

\* A profile the router may trust: saved by the host from what it observed on the
\* expected device, not too old, with samples of every kind.
Trusted(key, expected, now) ==
  /\ key \in DOMAIN written
  /\ written[key].by = "host"
  /\ LET p == written[key].profile IN
     /\ p.kind = Physical
     /\ p.identity = expected /\ p.observed = expected
     /\ now <= p.measuredAt + p.staleAfter
     /\ \A kind \in SampleKinds : SomePositive(p.samples[kind])

\* A router built by this step goes to the device only on a trusted profile.
RouteIsTrusted ==
  (auto' # auto /\ auto'.decision = "device") => Trusted(auto'.key, auto'.expected, auto'.now)

\* An answer of this step says device only of a trusted profile.
AnswerIsTrusted ==
  (answer' # answer /\ answer'.command # Refused) =>
    LET asked == answer'.command IN
    (AboutProfiles(asked) /\ answer'.result # Refused) =>
      \/ answer'.result.decision # "device"
      \/ \E key \in answer'.result.keys :
           Trusted(key, RequestedIdentity(asked.request), asked.request.now)

\* Whatever commands and the host have saved, read and overwritten, work goes to a
\* device, and a read or explain says it would, only on a trusted profile: never on one made
\* by the synthetic harness, nor on a record of the first schema
\* (AutoComputeRouter::choose, verify_physical, save_profile, profile_from_value).
DeviceRouteProven == [][RouteIsTrusted /\ AnswerIsTrusted]_vars

\* A profile is judged after it was saved as it was before, for every device and at
\* every tick, but for the fault of its modeled profile, which is not saved
\* (profile_to_value, profile_from_value).
PersistenceKeepsDecision ==
  \A key \in DOMAIN written :
    LET p == written[key].profile
        kept == FromTable(store[key])
    IN \A expected \in Expected, now \in Ticks :
         /\ kept # Refused
         /\ p.modeled.fault = None => Choose(expected, now, kept) = Choose(expected, now, p)

\* A stored profile that is stale at a tick is so at every later tick, and one that
\* gives the device at a tick can only lose it by becoming stale
\* (AutoComputeRouter::choose, a difference of ticks that saturates).
StaleIsForever ==
  \A key \in DOMAIN written : \A expected \in Expected, now, later \in Ticks :
    LET p == written[key].profile IN
    now <= later =>
      /\ Choose(expected, now, p) = "stale" => Choose(expected, later, p) = "stale"
      /\ Choose(expected, now, p) = "device" => Choose(expected, later, p) \in {"device", "stale"}

\* A save that names no key never leaves a second profile behind, so that a read
\* that names none stays possible (profile_key).
ImplicitSaveKeepsOneKey ==
  [][(store' # store /\ issued' # issued) =>
       (answer'.command.request.key # None \/ Cardinality(DOMAIN store') = 1)]_vars

\* A provider is reported unknown only if no site has its name or the site's ordinal
\* is not below the limit the command was given (provider_rows, load).
UnknownIsAbsent ==
  [][(answer' # answer /\ answer'.command # Refused) =>
       LET asked == answer'.command IN
       (asked.verb \in {"devices", "probe"} /\ answer'.result # Refused) =>
         \A i \in DOMAIN answer'.result : answer'.result[i].status = "unknown-selector" =>
           \A place \in DOMAIN sites :
             place <= asked.request.maxDevices =>
               asked.request.selector \notin {"wgpu", WgpuSite(place - 1)}]_vars

\* An artifact a capture wrote is verified, for its own source and no other, if and
\* only if every line up to its last case reached the file: neither does capture
\* write what verify refuses, nor does verify accept what a failed write left of it
\* (capture, Artifact::{render, parse, verify}, both schemas).
VerifiesWhenComplete ==
  \A path \in DOMAIN files :
    LET file == files[path] IN
    file.kind = "artifact" =>
      \A source \in {Commits[token] : token \in DOMAIN Commits} :
        (VerifyFile(file, source) # Refused) <=>
          /\ source = file.content.source
          /\ file.lines >= CasesAt(file.content) + Len(file.content.cases)

\* What a change to one line of an artifact may make of it.
Without(cases, i) == SubSeq(cases, 1, i - 1) \o SubSeq(cases, i + 1, Len(cases))

Alterations(artifact) ==
  LET cases == artifact.cases IN
  {[artifact EXCEPT !.cases = Without(cases, i)] : i \in DOMAIN cases}
  \cup {[artifact EXCEPT !.cases = Append(cases, cases[i])] : i \in DOMAIN cases}
  \cup {[artifact EXCEPT !.cases[i].passed = FALSE] : i \in DOMAIN cases}
  \cup {[artifact EXCEPT !.cases[i].hash = CaseHash(cases[(i % Len(cases)) + 1])] : i \in DOMAIN cases}
  \cup {[artifact EXCEPT !.target = target] : target \in DOMAIN Targets \ {artifact.target}}
  \cup {[artifact EXCEPT !.evidence = kind] : kind \in EvidenceKinds \ {Physical}}

\* Of an artifact that is verified no single case may be dropped, repeated, failed or
\* given another's hash, nor its target or its kind of evidence be another
\* (Artifact::verify and parse_artifact_cases, both schemas).
AlteredIsRefused ==
  \A path \in DOMAIN files :
    LET file == files[path] IN
    (file.kind = "artifact" /\ file.lines = LinesOf(file.content)) =>
      \A altered \in Alterations(file.content) :
        VerifyFile(FileOf(altered, LinesOf(altered)), altered.source) = Refused

\* An artifact that is accepted names an adapter of its registered target, in full
\* (TARGETS, verify_target_provider).
AcceptedFitsTarget ==
  \A path \in DOMAIN files :
    LET file == files[path] IN
    (file.kind = "artifact" /\ VerifyFile(file, file.content.source) # Refused) =>
      Has(file.content.adapter, Targets[file.content.target])
=============================================================================
