------------------------ MODULE MCWgpuPipelineCache ------------------------
(* The cache with the history of its misses. *)
EXTENDS WgpuPipelineCache, SequencesExt

VARIABLE missed    \* the keys of the lookups that missed, in order

Init == CacheInit /\ missed = << >>

Next ==
  /\ CacheNext
  /\ missed' = IF misses' > misses THEN Append(missed, Last(records')) ELSE missed

Spec == Init /\ [][Next]_<<cacheVars, missed>>

\* First in, first out: the cache holds the keys of the latest misses, whatever
\* was hit in between, and has evicted all the others.
HoldsLatestMisses ==
  /\ IsSuffix(records, missed)
  /\ discarded = Len(missed) - Len(records)
=============================================================================
