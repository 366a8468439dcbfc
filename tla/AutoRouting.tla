---------------------------- MODULE AutoRouting ----------------------------
(***************************************************************************)
(* ProfileStore, a table of profiles the embedding host supplies, and      *)
(* AutoTensorExecutor, which is built from one of them and keeps a ledger. *)
(* The two meet in the host: it saves what its capsule observed, loads a   *)
(* profile for the device it expects, and routes work by the decision.     *)
(***************************************************************************)
EXTENDS MeasuredProfile

CONSTANTS HostProfiles,   \* profiles a host may come to save itself
          LegacyModeled,  \* modeled profiles a host may hand over unmeasured, None included
          Expectations,   \* identities a host may expect, None included
          Keys,           \* keys the host uses
          Ticks,          \* logical ticks the host may be at
          MaxEvents       \* bound on the ledger, for model checking

\* What profile_to_value writes of an identity is all there is to it.
IsIdentity(i) == i = Identity(i.adapter, i.driver, i.backend)

\* Ticks and the age of a profile are u64; a decision is never None.
ASSUME RoutingAssumption ==
  /\ Ticks \subseteq Nat
  /\ \A p \in HostProfiles :
       /\ IsIdentity(p.identity) /\ (p.observed # None => IsIdentity(p.observed))
       /\ p.kind \in EvidenceKinds
       /\ p.measuredAt \in Nat /\ p.staleAfter \in Nat
  /\ None # "device"

VARIABLES store,    \* key -> record, None if the host supplies no table
          written,  \* key -> the profile written there, and who wrote it; history
          auto,     \* the executor, None before it is built
          ledger    \* its events

autoVars == <<store, written, auto, ledger>>

-----------------------------------------------------------------------------
(* ProfileStore, under a policy of key and profile bytes.                  *)

DefaultPolicy == [key |-> 96, profile |-> 8192]

ValidKey(policy, key) == Len(key) <= policy.key

\* save: the policy is applied to the profile, the update is one step.
Save(table, policy, key, p) ==
  IF ~ValidKey(policy, key) \/ EstimatedBytes(p) > policy.profile THEN Refused
  ELSE Put(table, key, ToTable(p))

\* load: None when there is no such key.
Load(table, policy, key) ==
  IF ~ValidKey(policy, key) THEN Refused
  ELSE IF key \notin DOMAIN table THEN None
  ELSE LET p == FromTable(table[key]) IN
       IF p = Refused THEN Refused
       ELSE IF EstimatedBytes(p) > policy.profile THEN Refused ELSE p

\* keys: one key outside the policy and none is listed.
ListKeys(table, policy) ==
  IF \E key \in DOMAIN table : ~ValidKey(policy, key) THEN Refused ELSE DOMAIN table

Remember(key, p, writer) == Put(written, key, [profile |-> p, by |-> writer])

-----------------------------------------------------------------------------
(* The embedding host.                                                     *)

Event(executor, synchronizations) ==
  [provider |-> Provider(executor), decision |-> executor.decision,
   synchronizations |-> synchronizations]

AutoInit == written = << >> /\ auto = None /\ ledger = << >>

HostSave(key, p) ==
  /\ store # None
  /\ Save(store, DefaultPolicy, key, p) # Refused
  /\ store' = Save(store, DefaultPolicy, key, p)
  /\ written' = Remember(key, p, "host")
  /\ UNCHANGED <<auto, ledger>>

\* ComputeAutoLib::load of a profile whose measured part came from the store.
BuildAuto(legacy, key, expected, now) ==
  LET measured == IF store = None THEN None ELSE Load(store, DefaultPolicy, key) IN
  /\ auto = None
  /\ measured # Refused
  /\ auto' = Joined(NewAuto(legacy, measured, expected, now), [key |-> key, now |-> now])
  /\ UNCHANGED <<store, written, ledger>>

\* execute records its event before the selected executor answers or fails.
Execute ==
  /\ auto # None /\ Len(ledger) < MaxEvents
  /\ ledger' = Append(ledger, Event(auto, 0))
  /\ UNCHANGED <<store, written, auto>>

\* flush records it when the selected executor has flushed; if it fails, nothing.
Flush ==
  /\ auto # None /\ Len(ledger) < MaxEvents
  /\ ledger' = Append(ledger, Event(auto, 1))
  /\ UNCHANGED <<store, written, auto>>

HostNext ==
  \/ \E key \in Keys, p \in HostProfiles : HostSave(key, p)
  \/ \E legacy \in LegacyModeled, key \in Keys, expected \in Expectations, now \in Ticks :
       BuildAuto(legacy, key, expected, now)
  \/ Execute
  \/ Flush
=============================================================================
