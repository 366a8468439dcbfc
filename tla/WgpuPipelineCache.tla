------------------------- MODULE WgpuPipelineCache -------------------------
(***************************************************************************)
(* WgpuPipelineCache (pipeline.rs): a first-in first-out cache of pipeline *)
(* records and, beside it, the native pipelines compiled so far.  A record *)
(* may be cached without its pipeline, when get_or_insert put it there.    *)
(* Both lists are kept by hand, so each must follow the other.             *)
(*                                                                         *)
(* A record is its key; a compiled pipeline is its key too, and as nothing *)
(* reads the order of the pipelines and none is compiled twice, they are a *)
(* set.  Keys stand for (ordinal, operation, dtype, rank, tile).  One call *)
(* is one step: the executor makes it with its state locked.               *)
(***************************************************************************)
EXTENDS Naturals, Sequences, FiniteSets

CONSTANTS Keys,             \* the keys asked for
          CacheCapacity,    \* the argument of WgpuPipelineCache::new
          MaxLookups        \* bound on hits + misses, for model checking

ASSUME CacheAssumption ==
  /\ CacheCapacity \in Nat
  /\ MaxLookups \in Nat

VARIABLES records,          \* entries, oldest first
          compiled,         \* compiled, the keys of the native pipelines
          hits, misses,
          discarded         \* evictions

cacheVars == <<records, compiled, hits, misses, discarded>>

Elements(seq) == {seq[i] : i \in DOMAIN seq}

CacheTypeOK ==
  /\ records \in Seq(Keys)
  /\ compiled \subseteq Keys
  /\ hits \in Nat /\ misses \in Nat /\ discarded \in Nat

\* capacity.max(1)
Room == IF CacheCapacity = 0 THEN 1 ELSE CacheCapacity

CacheInit ==
  /\ records = << >> /\ compiled = {}
  /\ hits = 0 /\ misses = 0 /\ discarded = 0

-----------------------------------------------------------------------------
(* Mutated forms, each a slip the definition it stands for could have had. *)

RecordFoundRefreshed(key) ==
  /\ key \in Elements(records)
  /\ hits' = hits + 1
  /\ records' = Append(SelectSeq(records, LAMBDA k : k # key), key)
  /\ UNCHANGED <<misses, discarded>>

RetainedAll(key) == compiled

-----------------------------------------------------------------------------
RecordFound(key) ==
  /\ key \in Elements(records)
  /\ hits' = hits + 1
  /\ UNCHANGED <<records, misses, discarded>>

Full == Len(records) = Room

RecordMissed(key) ==
  /\ key \notin Elements(records)
  /\ misses' = misses + 1
  /\ records' = Append(IF Full THEN Tail(records) ELSE records, key)
  /\ discarded' = IF Full THEN discarded + 1 ELSE discarded
  /\ UNCHANGED hits

\* What is left compiled by a lookup of key: a miss on a full cache drops the
\* pipeline of the record it evicts.
Retained(key) ==
  IF key \notin Elements(records) /\ Full THEN compiled \ {Head(records)} ELSE compiled

Lookup(key) ==
  /\ hits + misses < MaxLookups
  /\ RecordFound(key) \/ RecordMissed(key)

GetOrInsert(key) ==
  /\ Lookup(key)
  /\ compiled' = Retained(key)

GetOrInsertCompiled(key) ==
  /\ Lookup(key)
  /\ compiled' = Retained(key) \cup {key}

CacheNext == \E key \in Keys : GetOrInsert(key) \/ GetOrInsertCompiled(key)

CacheSpec == CacheInit /\ [][CacheNext]_cacheVars

-----------------------------------------------------------------------------
\* A pipeline that is kept can be found: its record is cached.
CompiledIsCached == compiled \subseteq Elements(records)
=============================================================================
