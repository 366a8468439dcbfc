----------------------- MODULE WgpuPipelineCacheProofs -----------------------
(***************************************************************************)
(* Proofs about the wgpu pipeline cache, for every capacity and any set of *)
(* keys: the two lists it keeps by hand follow one another, and eviction   *)
(* is first in, first out by miss.                                         *)
(***************************************************************************)
EXTENDS MCWgpuPipelineCache, TLAPS

Distinct(seq) == \A i, j \in 1..Len(seq) : i # j => seq[i] # seq[j]

(* A record evicted must be the only one of its key, or the pipelines       *)
(* dropped with it would be missed by another.                              *)
CacheInv ==
  /\ CacheTypeOK
  /\ Len(records) <= Room
  /\ Distinct(records)
  /\ CompiledIsCached

(* HoldsLatestMisses, place by place.                                       *)
HistoryInv ==
  /\ missed \in Seq(Keys)
  /\ Len(records) <= Len(missed)
  /\ \A i \in 1..Len(records) : records[i] = missed[Len(missed) - Len(records) + i]
  /\ discarded = Len(missed) - Len(records)

\* The records a miss keeps beside the one it adds.
Kept == IF Full THEN Tail(records) ELSE records

-----------------------------------------------------------------------------

\* There is room for a record, even in a cache of capacity zero.
LEMMA RoomIsPositive == Room \in Nat /\ Room >= 1
BY CacheAssumption DEF Room

\* The keys of a sequence by place.
LEMMA ElementsByPlace ==
  ASSUME NEW seq \in Seq(Keys)
  PROVE  Elements(seq) = {seq[i] : i \in 1..Len(seq)}
BY DEF Elements

\* What a miss keeps is a sequence without its key, of which at most the oldest
\* record is lost.
LEMMA KeptProperties ==
  ASSUME CacheInv, NEW key \in Keys, key \notin Elements(records)
  PROVE  /\ Kept \in Seq(Keys) /\ Len(Kept) < Room /\ Distinct(Kept)
         /\ \A i \in 1..Len(Kept) : Kept[i] # key
         /\ Full => Elements(records) \ {Head(records)} \subseteq Elements(Kept)
         /\ Full => Len(Kept) = Len(records) - 1
         /\ Full => \A i \in 1..Len(Kept) : Kept[i] = records[i + 1]
<1>1. records \in Seq(Keys) /\ Len(records) <= Room /\ Distinct(records) /\ Len(records) \in Nat
  BY DEF CacheInv, CacheTypeOK
<1>2. \A i \in 1..Len(records) : records[i] # key
  BY <1>1, ElementsByPlace
<1>3. CASE ~Full
  <2>1. Len(records) < Room
    BY <1>1, <1>3, RoomIsPositive DEF Full
  <2>2. QED
    BY <1>1, <1>2, <1>3, <2>1 DEF Kept
<1>4. CASE Full
  <2>1. Len(records) = Room /\ Room \in Nat /\ Room >= 1 /\ records # << >>
    BY <1>1, <1>4, RoomIsPositive DEF Full
  <2>2. Kept \in Seq(Keys) /\ Len(Kept) = Len(records) - 1
    BY <1>1, <1>4, <2>1 DEF Kept
  <2>3. \A i \in 1..Len(Kept) : Kept[i] = records[i + 1] /\ i + 1 \in 1..Len(records)
    BY <1>1, <1>4, <2>1, <2>2 DEF Kept
  <2>4. Distinct(Kept)
    <3> SUFFICES ASSUME NEW i \in 1..Len(Kept), NEW j \in 1..Len(Kept), i # j
                 PROVE  Kept[i] # Kept[j]
      BY DEF Distinct
    <3>1. i + 1 # j + 1
      BY <1>1, <2>2
    <3>2. QED
      BY <1>1, <2>3, <3>1 DEF Distinct
  <2>5. Elements(records) \ {Head(records)} \subseteq Elements(Kept)
    <3> SUFFICES ASSUME NEW k \in Elements(records), k # Head(records)
                 PROVE  k \in Elements(Kept)
      OBVIOUS
    <3>1. PICK i \in 1..Len(records) : records[i] = k
      BY <1>1, ElementsByPlace
    <3>2. i # 1
      BY <1>1, <2>1, <3>1
    <3>3. i - 1 \in 1..Len(Kept) /\ (i - 1) + 1 = i
      BY <1>1, <2>2, <3>2
    <3>4. Kept[i - 1] = k
      BY <2>3, <3>1, <3>3
    <3>5. QED
      BY <2>2, <3>3, <3>4, ElementsByPlace
  <2>6. QED
    BY <1>1, <1>2, <1>4, <2>1, <2>2, <2>3, <2>4, <2>5
<1>5. QED
  BY <1>3, <1>4

\* Appending a new key keeps the keys distinct, and adds it to them.
LEMMA AppendAddsKey ==
  ASSUME NEW seq \in Seq(Keys), Distinct(seq), NEW key \in Keys,
         \A i \in 1..Len(seq) : seq[i] # key, NEW longer, longer = Append(seq, key)
  PROVE  /\ longer \in Seq(Keys) /\ Len(longer) = Len(seq) + 1
         /\ Distinct(longer)
         /\ Elements(longer) = Elements(seq) \cup {key}
<1>1. /\ longer \in Seq(Keys) /\ Len(longer) = Len(seq) + 1 /\ Len(seq) \in Nat
      /\ longer[Len(seq) + 1] = key
      /\ \A i \in 1..Len(seq) : longer[i] = seq[i]
  OBVIOUS
<1>2. Distinct(longer)
  <2> SUFFICES ASSUME NEW i \in 1..Len(longer), NEW j \in 1..Len(longer), i # j
               PROVE  longer[i] # longer[j]
    BY DEF Distinct
  <2>1. CASE i = Len(seq) + 1
    <3>1. j \in 1..Len(seq)
      BY <1>1, <2>1
    <3>2. QED
      BY <1>1, <2>1, <3>1
  <2>2. CASE j = Len(seq) + 1
    <3>1. i \in 1..Len(seq)
      BY <1>1, <2>2
    <3>2. QED
      BY <1>1, <2>2, <3>1
  <2>3. CASE i # Len(seq) + 1 /\ j # Len(seq) + 1
    <3>1. i \in 1..Len(seq) /\ j \in 1..Len(seq)
      BY <1>1, <2>3
    <3>2. QED
      BY <1>1, <3>1 DEF Distinct
  <2>4. QED
    BY <2>1, <2>2, <2>3
<1>3. Elements(longer) = Elements(seq) \cup {key}
  <2>1. Elements(longer) = {longer[i] : i \in 1..(Len(seq) + 1)}
    BY <1>1, ElementsByPlace
  <2>2. Elements(seq) = {seq[i] : i \in 1..Len(seq)}
    BY ElementsByPlace
  <2>3. 1..(Len(seq) + 1) = 1..Len(seq) \cup {Len(seq) + 1}
    BY <1>1
  <2>4. QED
    BY <1>1, <2>1, <2>2, <2>3
<1>4. QED
  BY <1>1, <1>2, <1>3

-----------------------------------------------------------------------------

\* Nothing is cached at first.
LEMMA CacheStarts == CacheInit => CacheInv
<1> SUFFICES ASSUME CacheInit
             PROVE  CacheInv
  OBVIOUS
<1>1. records = << >> /\ compiled = {} /\ hits = 0 /\ misses = 0 /\ discarded = 0
  BY DEF CacheInit
<1>2. CacheTypeOK /\ CompiledIsCached
  BY <1>1 DEF CacheTypeOK, CompiledIsCached
<1>3. Len(records) <= Room /\ Distinct(records)
  BY <1>1, RoomIsPositive DEF Distinct
<1>4. QED
  BY <1>2, <1>3 DEF CacheInv

\* What a lookup does to the records and to what stays compiled.
LEMMA LookupProperties ==
  ASSUME CacheInv, NEW key \in Keys, Lookup(key)
  PROVE  /\ records' \in Seq(Keys) /\ Len(records') <= Room /\ Distinct(records')
         /\ hits' \in Nat /\ misses' \in Nat /\ discarded' \in Nat
         /\ Retained(key) \subseteq Elements(records') /\ Retained(key) \subseteq Keys
         /\ key \in Elements(records')
<1>1. CacheTypeOK /\ Len(records) <= Room /\ Distinct(records) /\ compiled \subseteq Elements(records)
  BY DEF CacheInv, CompiledIsCached
<1>2. CASE RecordFound(key)
  <2>1. UNCHANGED <<records, misses, discarded>> /\ hits' = hits + 1 /\ key \in Elements(records)
    BY <1>2 DEF RecordFound
  <2>2. Retained(key) = compiled
    BY <2>1 DEF Retained
  <2>3. records' = records /\ misses' = misses /\ discarded' = discarded
    BY <2>1
  <2>4. QED
    BY <1>1, <2>1, <2>2, <2>3 DEF CacheTypeOK
<1>3. CASE RecordMissed(key)
  <2>1. /\ key \notin Elements(records) /\ misses' = misses + 1 /\ hits' = hits
        /\ records' = Append(Kept, key)
        /\ discarded' = IF Full THEN discarded + 1 ELSE discarded
    BY <1>3 DEF RecordMissed, Kept
  <2>2. /\ Kept \in Seq(Keys) /\ Len(Kept) < Room /\ Distinct(Kept)
        /\ \A i \in 1..Len(Kept) : Kept[i] # key
        /\ Full => Elements(records) \ {Head(records)} \subseteq Elements(Kept)
    BY <2>1, KeptProperties
  <2>3. /\ records' \in Seq(Keys) /\ Len(records') = Len(Kept) + 1 /\ Distinct(records')
        /\ Elements(records') = Elements(Kept) \cup {key}
    BY <2>1, <2>2, AppendAddsKey
  <2>4. Len(records') <= Room
    BY <2>2, <2>3, RoomIsPositive
  <2>5. Retained(key) \subseteq Elements(Kept)
    <3>1. CASE Full
      BY <1>1, <2>1, <2>2, <3>1 DEF Retained
    <3>2. CASE ~Full
      BY <1>1, <3>2 DEF Retained, Kept
    <3>3. QED
      BY <3>1, <3>2
  <2>6. Retained(key) \subseteq Keys
    BY <1>1 DEF Retained, CacheTypeOK
  <2>7. hits' \in Nat /\ misses' \in Nat /\ discarded' \in Nat
    BY <1>1, <2>1 DEF CacheTypeOK
  <2>8. QED
    BY <2>3, <2>4, <2>5, <2>6, <2>7
<1>4. QED
  BY <1>2, <1>3 DEF Lookup

\* Both lookups keep the cache's invariant.
LEMMA CacheSteps ==
  ASSUME CacheInv, [CacheNext]_cacheVars
  PROVE  CacheInv'
<1>1. ASSUME NEW key \in Keys, GetOrInsert(key) \/ GetOrInsertCompiled(key)
      PROVE  CacheInv'
  <2>1. Lookup(key)
    BY <1>1 DEF GetOrInsert, GetOrInsertCompiled
  <2>2. compiled' \subseteq Retained(key) \cup {key}
    BY <1>1 DEF GetOrInsert, GetOrInsertCompiled
  <2>3. /\ records' \in Seq(Keys) /\ Len(records') <= Room /\ Distinct(records')
        /\ hits' \in Nat /\ misses' \in Nat /\ discarded' \in Nat
        /\ Retained(key) \subseteq Elements(records') /\ Retained(key) \subseteq Keys
        /\ key \in Elements(records')
    BY <2>1, LookupProperties
  <2>4. CacheTypeOK'
    BY <1>1, <2>2, <2>3 DEF CacheTypeOK
  <2>5. CompiledIsCached'
    <3>1. compiled' \subseteq Elements(records')
      BY <2>2, <2>3
    <3>2. QED
      BY <3>1 DEF CompiledIsCached, Elements
  <2>6. Distinct(records)'
    BY <2>3 DEF Distinct
  <2>7. QED
    BY <2>3, <2>4, <2>5, <2>6 DEF CacheInv, Room
<1>2. CASE UNCHANGED cacheVars
  BY <1>2 DEF cacheVars, CacheInv, CacheTypeOK, CompiledIsCached, Distinct, Elements, Room
<1>3. QED
  BY <1>1, <1>2 DEF CacheNext

\* Every miss adds its key to both ends of what is compared.
LEMMA HistorySteps ==
  ASSUME CacheInv, HistoryInv, Next
  PROVE  HistoryInv'
<1> DEFINE n == Len(records)
           m == Len(missed)
<1>1. /\ records \in Seq(Keys) /\ n \in Nat /\ m \in Nat /\ n <= m
      /\ missed \in Seq(Keys) /\ discarded = m - n /\ discarded \in Nat
      /\ \A i \in 1..n : records[i] = missed[m - n + i]
      /\ hits \in Nat /\ misses \in Nat
  BY DEF CacheInv, CacheTypeOK, HistoryInv
<1>2. PICK key \in Keys : Lookup(key)
  BY DEF Next, CacheNext, GetOrInsert, GetOrInsertCompiled
<1>3. CASE RecordFound(key)
  <2>1. records' = records /\ misses' = misses /\ discarded' = discarded
    BY <1>3 DEF RecordFound
  <2>2. missed' = missed
    BY <1>1, <2>1 DEF Next
  <2>3. QED
    BY <2>1, <2>2 DEF HistoryInv
<1>4. CASE RecordMissed(key)
  <2>1. /\ key \notin Elements(records) /\ misses' = misses + 1
        /\ records' = Append(Kept, key)
        /\ discarded' = IF Full THEN discarded + 1 ELSE discarded
    BY <1>4 DEF RecordMissed, Kept
  <2>2. /\ Kept \in Seq(Keys)
        /\ Full => Len(Kept) = n - 1
        /\ Full => \A i \in 1..Len(Kept) : Kept[i] = records[i + 1]
    BY <2>1, KeptProperties
  <2>3. missed' = Append(missed, key)
    <3>1. misses' > misses
      BY <1>1, <2>1
    <3>2. Last(records') = key
      BY <2>1, <2>2 DEF Last
    <3>3. QED
      BY <3>1, <3>2 DEF Next
  <2> DEFINE k == Len(Kept)
  <2>4. /\ records' \in Seq(Keys) /\ Len(records') = k + 1 /\ k \in Nat
        /\ records'[k + 1] = key
        /\ \A i \in 1..k : records'[i] = Kept[i]
    BY <2>1, <2>2
  <2>5. /\ missed' \in Seq(Keys) /\ Len(missed') = m + 1
        /\ missed'[m + 1] = key
        /\ \A i \in 1..m : missed'[i] = missed[i]
    BY <1>1, <2>3
  <2>6. k <= m /\ discarded' = m - k
    <3>1. CASE Full
      <4>1. k = n - 1 /\ discarded' = discarded + 1
        BY <2>1, <2>2, <3>1
      <4> HIDE DEF k, n, m
      <4>2. QED
        BY <1>1, <4>1
    <3>2. CASE ~Full
      BY <1>1, <2>1, <3>2 DEF Kept
    <3>3. QED
      BY <3>1, <3>2
  <2>7. \A i \in 1..k : Kept[i] = missed[m - k + i]
    <3>1. CASE Full
      <4> SUFFICES ASSUME NEW i \in 1..k
                   PROVE  Kept[i] = missed[m - k + i]
        OBVIOUS
      <4>1. k = n - 1 /\ Kept[i] = records[i + 1] /\ i + 1 \in 1..n
        BY <1>1, <2>2, <3>1
      <4>2. m - n + (i + 1) = m - k + i
        BY <1>1, <4>1
      <4>3. QED
        BY <1>1, <4>1, <4>2
    <3>2. CASE ~Full
      BY <1>1, <3>2 DEF Kept
    <3>3. QED
      BY <3>1, <3>2
  <2> HIDE DEF n, m, k
  <2>8. \A i \in 1..(k + 1) : records'[i] = missed'[(m + 1) - (k + 1) + i]
    <3> SUFFICES ASSUME NEW i \in 1..(k + 1)
                 PROVE  records'[i] = missed'[(m + 1) - (k + 1) + i]
      OBVIOUS
    <3>1. CASE i = k + 1
      <4>1. (m + 1) - (k + 1) + i = m + 1
        BY <1>1, <2>4, <3>1
      <4>2. QED
        BY <2>4, <2>5, <3>1, <4>1
    <3>2. CASE i # k + 1
      <4>1. i \in 1..k /\ (m + 1) - (k + 1) + i = m - k + i /\ m - k + i \in 1..m
        BY <1>1, <2>4, <2>6, <3>2
      <4>2. QED
        BY <2>4, <2>5, <2>7, <4>1
    <3>3. QED
      BY <3>1, <3>2
  <2>9. k + 1 <= m + 1 /\ discarded' = (m + 1) - (k + 1)
    BY <1>1, <2>4, <2>6
  <2>10. /\ missed' \in Seq(Keys) /\ Len(records') <= Len(missed')
         /\ \A i \in 1..Len(records') : records'[i] = missed'[Len(missed') - Len(records') + i]
         /\ discarded' = Len(missed') - Len(records')
    BY <2>4, <2>5, <2>8, <2>9
  <2>11. QED
    BY <2>10 DEF HistoryInv
<1>5. QED
  BY <1>2, <1>3, <1>4 DEF Lookup

\* Place by place, the records are a suffix of the keys missed.
LEMMA LatestByPlace ==
  ASSUME CacheInv, HistoryInv
  PROVE  HoldsLatestMisses
<1> DEFINE n == Len(records)
           m == Len(missed)
<1>1. /\ records \in Seq(Keys) /\ n \in Nat /\ m \in Nat /\ n <= m
      /\ missed \in Seq(Keys) /\ discarded = m - n
      /\ \A i \in 1..n : records[i] = missed[m - n + i]
  BY DEF CacheInv, CacheTypeOK, HistoryInv
<1> DEFINE r == Reverse(records)
           h == Reverse(missed)
<1>2. /\ r = [i \in 1..n |-> records[(n - i) + 1]]
      /\ h = [i \in 1..m |-> missed[(m - i) + 1]]
  BY DEF Reverse
<1>3. /\ r \in Seq(Keys) /\ Len(r) = n
      /\ h \in Seq(Keys) /\ Len(h) = m
  BY <1>1, <1>2
<1>4. \A i \in 1..n : r[i] = h[i]
  <2> SUFFICES ASSUME NEW i \in 1..n
               PROVE  r[i] = h[i]
    OBVIOUS
  <2>1. r[i] = records[(n - i) + 1] /\ h[i] = missed[(m - i) + 1]
    BY <1>1, <1>2
  <2>2. (n - i) + 1 \in 1..n /\ m - n + ((n - i) + 1) = (m - i) + 1
    BY <1>1
  <2> HIDE DEF n, m, r, h
  <2>3. QED
    BY <1>1, <2>1, <2>2
<1> HIDE DEF r, h
<1>5. SubSeq(r, 1, n) = SubSeq(h, 1, n)
  BY <1>1, <1>3, <1>4
<1>6. IsPrefix(r, h)
  BY <1>1, <1>3, <1>5 DEF IsPrefix
<1>7. QED
  BY <1>1, <1>6 DEF HoldsLatestMisses, IsSuffix, r, h

-----------------------------------------------------------------------------

\* A pipeline that is kept can be found, for every capacity: whatever was hit,
\* missed and evicted, its record is cached (get_or_insert,
\* get_or_insert_compiled).
THEOREM CompiledPipelinesAreCached == CacheSpec => []CompiledIsCached
<1>1. CacheInit => CacheInv
  BY CacheStarts
<1>2. CacheInv /\ [CacheNext]_cacheVars => CacheInv'
  BY CacheSteps
<1>3. CacheInv => CompiledIsCached
  BY DEF CacheInv
<1>4. QED
  BY <1>1, <1>2, <1>3, PTL DEF CacheSpec

\* First in, first out by miss, for every capacity and any number of lookups
\* (get_or_insert).
THEOREM CacheIsFirstInFirstOut == Spec => []HoldsLatestMisses
<1>1. Init => CacheInv /\ HistoryInv
  <2> SUFFICES ASSUME Init
               PROVE  CacheInv /\ HistoryInv
    OBVIOUS
  <2>1. CacheInv
    BY CacheStarts DEF Init
  <2>2. records = << >> /\ missed = << >> /\ discarded = 0
    BY DEF Init, CacheInit
  <2>3. HistoryInv
    BY <2>2 DEF HistoryInv
  <2>4. QED
    BY <2>1, <2>3
<1>2. CacheInv /\ HistoryInv /\ [Next]_<<cacheVars, missed>> => CacheInv' /\ HistoryInv'
  <2> SUFFICES ASSUME CacheInv, HistoryInv, [Next]_<<cacheVars, missed>>
               PROVE  CacheInv' /\ HistoryInv'
    OBVIOUS
  <2>1. CASE Next
    <3>1. [CacheNext]_cacheVars
      BY <2>1 DEF Next
    <3>2. QED
      BY <2>1, <3>1, CacheSteps, HistorySteps
  <2>2. CASE UNCHANGED <<cacheVars, missed>>
    <3>1. UNCHANGED cacheVars /\ missed' = missed
      BY <2>2
    <3>2. records' = records /\ discarded' = discarded
      BY <3>1 DEF cacheVars
    <3>3. CacheInv'
      BY <3>1, CacheSteps
    <3>4. HistoryInv'
      BY <3>1, <3>2 DEF HistoryInv
    <3>5. QED
      BY <3>3, <3>4
  <2>3. QED
    BY <2>1, <2>2
<1>3. CacheInv /\ HistoryInv => HoldsLatestMisses
  BY LatestByPlace
<1>4. QED
  BY <1>1, <1>2, <1>3, PTL DEF Spec
=============================================================================
