------------------------- MODULE ResidentPoolProofs -------------------------
(***************************************************************************)
(* Proofs about ResidentPool, for every capacity, every set of sizes and   *)
(* every number of allocations.                                            *)
(***************************************************************************)
EXTENDS MCResidentPool, SumLemmas

(* The bound alone is not inductive: the loop may leave by its `break`, and *)
(* then only RoomWhenEmpty says that the allocation still fits.             *)
RoomWhenEmpty == entries = << >> => residentBytes = 0

NeedFits == need <= Capacity

BoundInv == NeedFits /\ RoomWhenEmpty /\ PoolBounded

(* OldestFirst is not inductive either: that the front of the deque is the  *)
(* allocation evictions + 1 when it is active needs the order of the active *)
(* entries and that no allocation was ever lost from the deque.             *)
HandlesAllocated == \A i \in DOMAIN entries : entries[i].id \in 1 .. allocations

NoneLost == \A n \in 1 .. allocations : \E i \in DOMAIN entries : entries[i].id = n

ActiveInOrder ==
  \A i, j \in DOMAIN entries :
    entries[i].state = "active" /\ entries[j].state = "active" /\ i < j => entries[i].id < entries[j].id

OrderInv ==
  /\ evictions <= allocations
  /\ HandlesAllocated
  /\ NoneLost
  /\ ActiveInOrder
  /\ OldestFirst

-----------------------------------------------------------------------------
\* What rotating the deque does to its entries.
LEMMA RotateProperties ==
  ASSUME NEW s \in Seq(Entry), s # << >>, NEW r,
         r = Append(Tail(s), [Head(s) EXCEPT !.state = "evicted"])
  PROVE  /\ r \in Seq(Entry) /\ r # << >> /\ Len(r) = Len(s) /\ Len(s) \in Nat \ {0}
         /\ \A i \in 1 .. Len(s) - 1 : r[i] = s[i + 1]
         /\ r[Len(s)].state = "evicted" /\ r[Len(s)].id = s[1].id /\ r[Len(s)].bytes = s[1].bytes
         /\ s[1] \in Entry /\ s[1] = Head(s)
<1> DEFINE e == [Head(s) EXCEPT !.state = "evicted"]
<1>1. Len(s) \in Nat \ {0} /\ Head(s) = s[1] /\ s[1] \in Entry
  OBVIOUS
<1>2. e \in Entry /\ e.state = "evicted" /\ e.id = s[1].id /\ e.bytes = s[1].bytes
  BY <1>1 DEF Entry
<1>3. Tail(s) \in Seq(Entry) /\ Len(Tail(s)) = Len(s) - 1
      /\ \A i \in 1 .. Len(s) - 1 : Tail(s)[i] = s[i + 1]
  BY <1>1
<1> HIDE DEF e
<1>4. r = Append(Tail(s), e)
  BY DEF e
<1>5. QED
  BY <1>1, <1>2, <1>3, <1>4

\* One step of the pool keeps every variable in its type.
LEMMA PoolTypeStep == PoolTypeOK /\ [PoolNext]_poolVars => PoolTypeOK'
<1> SUFFICES ASSUME PoolTypeOK, [PoolNext]_poolVars
             PROVE  PoolTypeOK'
  OBVIOUS
<1> USE PoolAssumption DEF PoolTypeOK
<1>1. ASSUME NEW bytes \in Sizes, BeginInsert(bytes)
      PROVE  PoolTypeOK'
  BY <1>1 DEF BeginInsert
<1>2. CASE Evict
  <2>1. entries \in Seq(Entry) /\ entries # << >>
    BY <1>2 DEF Evict
  <2>2. entries' \in Seq(Entry) /\ Head(entries) \in Entry
    BY <1>2, <2>1, RotateProperties DEF Evict, RetireFront
  <2>3. residentBytes' \in Nat /\ evictions' \in Nat
    BY <1>2, <2>2 DEF Evict, RetireFront, Monus, Entry
  <2>4. QED
    BY <1>2, <2>2, <2>3 DEF Evict
<1>3. CASE FinishInsert
  <2>1. [id |-> allocations + 1, bytes |-> need, state |-> "active"] \in Entry
    BY DEF Entry
  <2>2. QED
    BY <1>3, <2>1 DEF FinishInsert
<1>4. CASE UNCHANGED poolVars
  BY <1>4 DEF poolVars
<1>5. QED
  BY <1>1, <1>2, <1>3, <1>4 DEF PoolNext

\* Every variable of the pool keeps its type (ModeledCounters, model.rs).
THEOREM PoolTypeCorrect == PoolSpec => []PoolTypeOK
<1>1. PoolInit => PoolTypeOK
  BY DEF PoolInit, PoolTypeOK
<1>2. QED
  BY <1>1, PoolTypeStep, PTL DEF PoolSpec

-----------------------------------------------------------------------------

\* No step of the pool takes it over its bound.
LEMMA BoundStep == PoolTypeOK /\ BoundInv /\ [PoolNext]_poolVars => BoundInv'
<1> SUFFICES ASSUME PoolTypeOK, BoundInv, [PoolNext]_poolVars
             PROVE  BoundInv'
  OBVIOUS
<1> USE PoolAssumption DEF PoolTypeOK, BoundInv, NeedFits, RoomWhenEmpty, PoolBounded
<1>1. ASSUME NEW bytes \in Sizes, BeginInsert(bytes)
      PROVE  BoundInv'
  BY <1>1 DEF BeginInsert
<1>2. CASE Evict
  <2>1. entries' # << >> /\ Head(entries) \in Entry
    BY <1>2, RotateProperties DEF Evict, RetireFront
  <2>2. residentBytes' <= residentBytes /\ residentBytes' \in Nat
    BY <1>2, <2>1 DEF Evict, RetireFront, Monus, Entry
  <2>3. QED
    BY <1>2, <2>1, <2>2 DEF Evict
<1>3. CASE FinishInsert
  <2>1. entries' # << >>
    BY <1>3 DEF FinishInsert
  <2>2. residentBytes' <= Capacity
    BY <1>3 DEF FinishInsert, NoRoom
  <2>3. QED
    BY <1>3, <2>1, <2>2 DEF FinishInsert
<1>4. CASE UNCHANGED poolVars
  BY <1>4 DEF poolVars
<1>5. QED
  BY <1>1, <1>2, <1>3, <1>4 DEF PoolNext

\* The resident bytes never exceed max_resident_bytes (allocate_resident).
THEOREM PoolNeverOverflows == PoolSpec => []PoolBounded
<1>1. PoolInit => BoundInv
  BY PoolAssumption DEF PoolInit, BoundInv, NeedFits, RoomWhenEmpty, PoolBounded
<1>2. BoundInv => PoolBounded
  BY DEF BoundInv
<1>3. QED
  BY <1>1, <1>2, BoundStep, PoolTypeCorrect, PTL DEF PoolSpec

-----------------------------------------------------------------------------
\* OrderInv, with the domain of the deque written as an interval.
LEMMA OrderFacts ==
  ASSUME PoolTypeOK, OrderInv
  PROVE  /\ entries \in Seq(Entry) /\ Len(entries) \in Nat
         /\ DOMAIN entries = 1 .. Len(entries)
         /\ evictions \in Nat /\ allocations \in Nat /\ evictions <= allocations
         /\ \A i \in 1 .. Len(entries) : entries[i].id \in 1 .. allocations
         /\ \A i \in 1 .. Len(entries) : entries[i].state = "active" <=> entries[i].id > evictions
         /\ \A k \in 1 .. allocations : \E i \in 1 .. Len(entries) : entries[i].id = k
         /\ \A i, j \in 1 .. Len(entries) :
              entries[i].state = "active" /\ entries[j].state = "active" /\ i < j
                => entries[i].id < entries[j].id
<1>1. entries \in Seq(Entry) /\ evictions \in Nat /\ allocations \in Nat
  BY DEF PoolTypeOK
<1>2. DOMAIN entries = 1 .. Len(entries) /\ Len(entries) \in Nat
  BY <1>1
<1>3. QED
  BY <1>1, <1>2 DEF OrderInv, HandlesAllocated, NoneLost, ActiveInOrder, OldestFirst

\* The heart of oldest-first: an active allocation at the front of the deque
\* is the oldest one that has not been evicted.
LEMMA FrontIsOldest ==
  ASSUME PoolTypeOK, OrderInv, entries # << >>, entries[1].state = "active"
  PROVE  entries[1].id = evictions + 1
<1>1. 1 \in 1 .. Len(entries) /\ entries[1].id \in 1 .. allocations /\ entries[1].id > evictions
  BY OrderFacts
<1>2. evictions \in Nat /\ allocations \in Nat
  BY OrderFacts
<1>3. evictions + 1 \in 1 .. allocations
  BY <1>1, <1>2
<1>4. PICK j \in 1 .. Len(entries) : entries[j].id = evictions + 1
  BY <1>3, OrderFacts
<1>5. entries[j].state = "active"
  <2>1. entries[j].id > evictions
    BY <1>2, <1>4
  <2>2. QED
    BY <2>1, OrderFacts
<1>6. CASE j = 1
  BY <1>4, <1>6
<1>7. CASE j # 1
  <2>1. 1 < j
    BY <1>7, OrderFacts
  <2>2. entries[1].id < entries[j].id
    BY <1>1, <1>5, <2>1, OrderFacts
  <2>3. entries[1].id < evictions + 1
    BY <1>4, <2>2
  <2>4. QED
    BY <1>1, <1>2, <2>3
<1>8. QED
  BY <1>6, <1>7

\* An iteration of the loop, which rotates the deque, keeps its order.
LEMMA OrderEvict ==
  ASSUME PoolTypeOK, OrderInv, Evict
  PROVE  OrderInv'
<1> DEFINE n == Len(entries)
<1>1. entries \in Seq(Entry) /\ entries # << >> /\ allocations' = allocations
      /\ entries' = Append(Tail(entries), [Head(entries) EXCEPT !.state = "evicted"])
  BY DEF Evict, RetireFront, PoolTypeOK
<1>2. /\ entries' \in Seq(Entry) /\ Len(entries') = n /\ n \in Nat \ {0}
      /\ \A i \in 1 .. n - 1 : entries'[i] = entries[i + 1]
      /\ entries'[n].state = "evicted" /\ entries'[n].id = entries[1].id
      /\ entries[1] \in Entry /\ entries[1] = Head(entries)
  BY <1>1, RotateProperties
<1>3. DOMAIN entries' = 1 .. n
  BY <1>2
<1>4. evictions' = IF entries[1].state = "active" THEN evictions + 1 ELSE evictions
  BY <1>2 DEF Evict, RetireFront
<1>5. entries[1].state = "active" => entries[1].id = evictions + 1
  BY <1>1, FrontIsOldest
<1>6. /\ evictions \in Nat /\ allocations \in Nat /\ evictions <= allocations
      /\ \A i \in 1 .. n : entries[i].id \in 1 .. allocations
      /\ \A i \in 1 .. n : entries[i].state = "active" <=> entries[i].id > evictions
      /\ \A k \in 1 .. allocations : \E i \in 1 .. n : entries[i].id = k
      /\ \A i, j \in 1 .. n :
           entries[i].state = "active" /\ entries[j].state = "active" /\ i < j
             => entries[i].id < entries[j].id
  BY OrderFacts
<1> HIDE DEF n
<1>7. (evictions <= allocations)'
  BY <1>1, <1>2, <1>4, <1>5, <1>6
<1>8. \A i \in 1 .. n : \/ i = n /\ entries'[i].state = "evicted" /\ entries'[i].id = entries[1].id
                        \/ i + 1 \in 1 .. n /\ entries'[i] = entries[i + 1]
  BY <1>2
<1>9. HandlesAllocated'
  BY <1>1, <1>2, <1>3, <1>6, <1>8 DEF HandlesAllocated
<1>10. NoneLost'
  <2> SUFFICES ASSUME NEW k \in 1 .. allocations
               PROVE  \E i \in 1 .. n : entries'[i].id = k
    BY <1>1, <1>3 DEF NoneLost
  <2>1. PICK i \in 1 .. n : entries[i].id = k
    BY <1>6
  <2>2. CASE i = 1
    BY <1>2, <2>1, <2>2
  <2>3. CASE i # 1
    <3>1. i - 1 \in 1 .. n - 1 /\ i - 1 \in 1 .. n /\ (i - 1) + 1 = i
      BY <1>2, <2>3
    <3>2. entries'[i - 1] = entries[i]
      BY <1>2, <3>1
    <3>3. QED
      BY <2>1, <3>1, <3>2
  <2>4. QED
    BY <2>2, <2>3
<1>11. ActiveInOrder'
  <2> SUFFICES ASSUME NEW i \in 1 .. n, NEW j \in 1 .. n,
                      entries'[i].state = "active", entries'[j].state = "active", i < j
               PROVE  entries'[i].id < entries'[j].id
    BY <1>3 DEF ActiveInOrder
  <2>1. i + 1 \in 1 .. n /\ entries'[i] = entries[i + 1]
    BY <1>2, <1>8
  <2>2. j + 1 \in 1 .. n /\ entries'[j] = entries[j + 1]
    BY <1>2, <1>8
  <2>3. i + 1 < j + 1
    BY <1>2
  <2>4. QED
    BY <1>6, <2>1, <2>2, <2>3
<1>12. OldestFirst'
  <2> SUFFICES ASSUME NEW i \in 1 .. n
               PROVE  entries'[i].state = "active" <=> entries'[i].id > evictions'
    BY <1>3 DEF OldestFirst
  <2>1. 1 \in 1 .. n /\ entries[1].id \in 1 .. allocations
    BY <1>2, <1>6
  <2>2. CASE entries'[i].state = "evicted" /\ entries'[i].id = entries[1].id
    BY <1>4, <1>5, <1>6, <2>1, <2>2
  <2>3. CASE i + 1 \in 1 .. n /\ entries'[i] = entries[i + 1]
    <3>1. entries[i + 1].id \in Nat /\ 1 < i + 1
          /\ (entries[i + 1].state = "active" <=> entries[i + 1].id > evictions)
      BY <1>6, <2>3
    <3>2. CASE entries[1].state # "active"
      BY <1>4, <2>3, <3>1, <3>2
    <3>3. CASE entries[1].state = "active"
      <4>1. entries[i + 1].state = "active" => entries[i + 1].id > entries[1].id
        BY <1>6, <2>1, <2>3, <3>1, <3>3
      <4>2. evictions' = evictions + 1 /\ entries[1].id = evictions + 1
        BY <1>4, <1>5, <3>3
      <4>3. QED
        BY <1>6, <2>3, <3>1, <4>1, <4>2
    <3>4. QED
      BY <3>2, <3>3
  <2>4. QED
    BY <1>8, <2>2, <2>3
<1>13. QED
  BY <1>7, <1>9, <1>10, <1>11, <1>12 DEF OrderInv

\* An insertion adds the youngest at the back.
LEMMA OrderFinish ==
  ASSUME PoolTypeOK, OrderInv, FinishInsert
  PROVE  OrderInv'
<1> DEFINE n == Len(entries)
           new == [id |-> allocations + 1, bytes |-> need, state |-> "active"]
<1>1. entries' = Append(entries, new) /\ allocations' = allocations + 1 /\ evictions' = evictions
      /\ entries \in Seq(Entry) /\ need \in Nat /\ allocations \in Nat
  BY DEF FinishInsert, PoolTypeOK
<1>2. new \in Entry /\ new.id = allocations + 1 /\ new.state = "active"
  BY <1>1 DEF Entry
<1> HIDE DEF new
<1>3. n \in Nat /\ DOMAIN entries' = 1 .. n + 1 /\ entries'[n + 1] = new
      /\ \A i \in 1 .. n : entries'[i] = entries[i]
  BY <1>1, <1>2
<1>4. /\ evictions \in Nat /\ allocations \in Nat /\ evictions <= allocations
      /\ \A i \in 1 .. n : entries[i].id \in 1 .. allocations
      /\ \A i \in 1 .. n : entries[i].state = "active" <=> entries[i].id > evictions
      /\ \A k \in 1 .. allocations : \E i \in 1 .. n : entries[i].id = k
      /\ \A i, j \in 1 .. n :
           entries[i].state = "active" /\ entries[j].state = "active" /\ i < j
             => entries[i].id < entries[j].id
  BY OrderFacts
<1> HIDE DEF n
<1>5. \A i \in 1 .. n + 1 : \/ i = n + 1 /\ entries'[i] = new
                            \/ i \in 1 .. n /\ entries'[i] = entries[i]
  BY <1>3
<1>6. HandlesAllocated'
  BY <1>1, <1>2, <1>3, <1>4, <1>5 DEF HandlesAllocated
<1>7. NoneLost'
  <2> SUFFICES ASSUME NEW k \in 1 .. allocations + 1
               PROVE  \E i \in 1 .. n + 1 : entries'[i].id = k
    BY <1>1, <1>3 DEF NoneLost
  <2>1. CASE k = allocations + 1
    BY <1>2, <1>3, <2>1
  <2>2. CASE k # allocations + 1
    <3>1. PICK i \in 1 .. n : entries[i].id = k
      BY <1>4, <2>2
    <3>2. QED
      BY <1>3, <3>1
  <2>3. QED
    BY <2>1, <2>2
<1>8. ActiveInOrder'
  <2> SUFFICES ASSUME NEW i \in 1 .. n + 1, NEW j \in 1 .. n + 1,
                      entries'[i].state = "active", entries'[j].state = "active", i < j
               PROVE  entries'[i].id < entries'[j].id
    BY <1>3 DEF ActiveInOrder
  <2>1. i \in 1 .. n /\ entries'[i] = entries[i] /\ entries[i].id \in 1 .. allocations
    BY <1>3, <1>4
  <2>2. CASE j = n + 1
    BY <1>2, <1>3, <1>4, <2>1, <2>2
  <2>3. CASE j \in 1 .. n /\ entries'[j] = entries[j]
    BY <1>4, <2>1, <2>3
  <2>4. QED
    BY <1>5, <2>2, <2>3
<1>9. OldestFirst'
  <2> SUFFICES ASSUME NEW i \in 1 .. n + 1
               PROVE  entries'[i].state = "active" <=> entries'[i].id > evictions
    BY <1>1, <1>3 DEF OldestFirst
  <2>1. CASE entries'[i] = new
    BY <1>2, <1>4, <2>1
  <2>2. CASE i \in 1 .. n /\ entries'[i] = entries[i]
    BY <1>4, <2>2
  <2>3. QED
    BY <1>5, <2>1, <2>2
<1>10. QED
  BY <1>1, <1>4, <1>6, <1>7, <1>8, <1>9 DEF OrderInv

\* No step of the pool disturbs the order.
LEMMA OrderStep == PoolTypeOK /\ OrderInv /\ [PoolNext]_poolVars => OrderInv'
<1> SUFFICES ASSUME PoolTypeOK, OrderInv, [PoolNext]_poolVars
             PROVE  OrderInv'
  OBVIOUS
<1>1. ASSUME UNCHANGED <<entries, allocations, evictions>>
      PROVE  OrderInv'
  BY <1>1 DEF OrderInv, HandlesAllocated, NoneLost, ActiveInOrder, OldestFirst
<1>2. ASSUME NEW bytes \in Sizes, BeginInsert(bytes)
      PROVE  OrderInv'
  BY <1>1, <1>2 DEF BeginInsert
<1>3. CASE UNCHANGED poolVars
  BY <1>1, <1>3 DEF poolVars
<1>4. QED
  BY <1>2, <1>3, OrderEvict, OrderFinish DEF PoolNext

\* Eviction is oldest first in every run (doc comment of the wgpu arena, and
\* the loop of allocate_resident): the active handles are the newest ones.
THEOREM PoolEvictsOldestFirst == PoolSpec => []OldestFirst
<1>1. PoolInit => OrderInv
  BY DEF PoolInit, OrderInv, HandlesAllocated, NoneLost, ActiveInOrder, OldestFirst
<1>2. OrderInv => OldestFirst
  BY DEF OrderInv
<1>3. QED
  BY <1>1, <1>2, OrderStep, PoolTypeCorrect, PTL DEF PoolSpec

-----------------------------------------------------------------------------
(* The refinement.  What the loop has taken out of the deque so far and what *)
(* it has left active are, together, a run of consecutive allocations.      *)

Unique == \A i, j \in DOMAIN entries : entries[i].id = entries[j].id => i = j

\* How much each allocation weighs.
Weight == [id \in 1 .. allocations |-> SizeOf(id)]

Allocated(id) == [id |-> id, bytes |-> SizeOf(id)]

\* The allocations after the first b.
After(b) == [n \in 1 .. allocations - b |-> Allocated(b + n)]

\* The last allocation that had gone when the insertion in progress began.
Before == evictions - Len(victims)

VictimsAreOldest ==
  /\ victims \in Seq([id : Nat, bytes : Nat])
  /\ Len(victims) <= evictions
  /\ \A n \in 1 .. Len(victims) : victims[n] = Allocated(Before + n)

\* The loop took its last victim because there was no room with it.
LastWasNeeded ==
  Len(victims) > 0 => Total(Weight, evictions .. allocations) + need > Capacity

TraceInv ==
  /\ PoolTypeOK /\ BoundInv /\ OrderInv
  /\ Unique
  /\ residentBytes = Total(Weight, evictions + 1 .. allocations)
  /\ VictimsAreOldest
  /\ LastWasNeeded
  /\ lock = "free" => victims = << >>
  /\ lock = "held" => need \in Sizes /\ allocations < MaxAllocations

\* The size of an allocation is read where its entry is.
LEMMA SizeIs ==
  ASSUME PoolTypeOK, OrderInv, Unique
  PROVE  /\ \A i \in 1 .. Len(entries) : SizeOf(entries[i].id) = entries[i].bytes
         /\ \A id \in 1 .. allocations : SizeOf(id) \in Nat
         /\ \A id \in 1 .. allocations : Weight[id] = SizeOf(id) /\ Weight[id] \in Nat
<1>1. /\ entries \in Seq(Entry) /\ DOMAIN entries = 1 .. Len(entries)
      /\ \A k \in 1 .. allocations : \E i \in 1 .. Len(entries) : entries[i].id = k
  BY OrderFacts
<1>2. ASSUME NEW i \in 1 .. Len(entries)
      PROVE  SizeOf(entries[i].id) = entries[i].bytes
  <2> DEFINE j == CHOOSE k \in DOMAIN entries : entries[k].id = entries[i].id
  <2>1. j \in DOMAIN entries /\ entries[j].id = entries[i].id
    BY <1>1
  <2>2. j = i
    BY <1>1, <2>1 DEF Unique
  <2>3. QED
    BY <2>2 DEF SizeOf
<1>3. ASSUME NEW id \in 1 .. allocations
      PROVE  SizeOf(id) \in Nat
  <2>1. PICK i \in 1 .. Len(entries) : entries[i].id = id
    BY <1>1
  <2>2. entries[i] \in Entry
    BY <1>1
  <2>3. entries[i].bytes \in Nat
    BY <2>2 DEF Entry
  <2>4. QED
    BY <1>2, <2>1, <2>3
<1>4. QED
  BY <1>2, <1>3 DEF Weight

\* The active allocations are those after the first `evictions` ones.
LEMMA LiveIs ==
  PoolTypeOK /\ OrderInv => Live = After(evictions)
<1> SUFFICES ASSUME PoolTypeOK, OrderInv
             PROVE  Live = After(evictions)
  OBVIOUS
<1> DEFINE a == allocations
           e == evictions
<1>1. a \in Nat /\ e \in Nat /\ e <= a
  BY OrderFacts
<1>2. ActiveIds = e + 1 .. a
  <2>1. ASSUME NEW id \in ActiveIds
        PROVE  id \in e + 1 .. a
    <3>1. PICK i \in DOMAIN entries : entries[i].state = "active" /\ entries[i].id = id
      BY DEF ActiveIds
    <3>2. i \in 1 .. Len(entries)
      BY <3>1, OrderFacts
    <3>3. id \in 1 .. a /\ id > e
      BY <3>1, <3>2, OrderFacts
    <3>4. QED
      BY <1>1, <3>3
  <2>2. ASSUME NEW id \in e + 1 .. a
        PROVE  id \in ActiveIds
    <3>1. id \in 1 .. a /\ id > e
      BY <1>1
    <3>2. PICK i \in 1 .. Len(entries) : entries[i].id = id
      BY <3>1, OrderFacts
    <3>3. i \in DOMAIN entries /\ entries[i].state = "active"
      BY <3>1, <3>2, OrderFacts
    <3>4. QED
      BY <3>2, <3>3 DEF ActiveIds
  <2>3. QED
    BY <2>1, <2>2
<1>3. Cardinality(ActiveIds) = a - e
  <2>1. Cardinality(e + 1 .. a) = IF e + 1 > a THEN 0 ELSE a - (e + 1) + 1
    BY <1>1, FS_Interval
  <2>2. QED
    BY <1>1, <1>2, <2>1
<1>4. ASSUME NEW n \in 1 .. a - e
      PROVE  Aged(n) = e + n
  <2> DEFINE Older(id) == {k \in ActiveIds : k <= id}
  <2>1. ASSUME NEW id \in e + 1 .. a
        PROVE  Cardinality(Older(id)) = id - e
    <3>1. Older(id) = e + 1 .. id
      BY <1>1, <1>2
    <3>2. Cardinality(e + 1 .. id) = IF e + 1 > id THEN 0 ELSE id - (e + 1) + 1
      BY <1>1, FS_Interval
    <3> HIDE DEF Older
    <3>3. QED
      BY <1>1, <3>1, <3>2
  <2>2. e + n \in e + 1 .. a /\ (e + n) - e = n
    BY <1>1
  <2>3. ASSUME NEW id \in e + 1 .. a
        PROVE  Cardinality(Older(id)) = n <=> id = e + n
    <3> HIDE DEF Older
    <3>1. Cardinality(Older(id)) = id - e
      BY <2>1
    <3>2. QED
      BY <1>1, <3>1
  <2>4. Aged(n) = CHOOSE id \in e + 1 .. a : Cardinality(Older(id)) = n
    BY <1>2 DEF Aged
  <2> HIDE DEF Older
  <2>5. QED
    BY <2>2, <2>3, <2>4
<1>5. QED
  BY <1>1, <1>3, <1>4 DEF Live, After, Allocated

\* What is after the first b is a sequence of allocations.
LEMMA AfterIsSeq ==
  ASSUME PoolTypeOK, OrderInv, Unique, NEW b \in Nat, b <= allocations
  PROVE  /\ After(b) \in Seq([id : Nat, bytes : Nat])
         /\ Len(After(b)) = allocations - b
         /\ \A n \in 1 .. allocations - b : After(b)[n] = Allocated(b + n)
<1>1. allocations \in Nat /\ allocations - b \in Nat
  BY OrderFacts
<1>2. \A n \in 1 .. allocations - b : Allocated(b + n) \in [id : Nat, bytes : Nat]
  <2> SUFFICES ASSUME NEW n \in 1 .. allocations - b
               PROVE  Allocated(b + n) \in [id : Nat, bytes : Nat]
    OBVIOUS
  <2>1. b + n \in 1 .. allocations
    BY <1>1
  <2>2. SizeOf(b + n) \in Nat
    BY <2>1, SizeIs
  <2>3. QED
    BY <2>1, <2>2 DEF Allocated
<1>3. QED
  BY <1>1, <1>2 DEF After

\* Victims and active allocations together.
LEMMA AllIs ==
  TraceInv => victims \o Live = After(Before)
<1> SUFFICES ASSUME TraceInv
             PROVE  victims \o Live = After(Before)
  OBVIOUS
<1> DEFINE v == Len(victims)
           left == After(evictions)
<1>1. /\ allocations \in Nat /\ evictions \in Nat /\ evictions <= allocations
      /\ v \in Nat /\ v <= evictions
      /\ \A n \in 1 .. v : victims[n] = Allocated(Before + n)
  <2>1. victims \in Seq([id : Nat, bytes : Nat])
    BY DEF TraceInv, VictimsAreOldest
  <2>2. QED
    BY <2>1, OrderFacts DEF TraceInv, VictimsAreOldest
<1>2. Live = left
  BY LiveIs DEF TraceInv
<1>3. Len(left) = allocations - evictions /\ \A n \in 1 .. allocations - evictions : left[n] = Allocated(evictions + n)
  BY <1>1 DEF After
<1> DEFINE both == victims \o left
<1>4. /\ both = [n \in 1 .. v + Len(left) |-> both[n]]
      /\ \A n \in 1 .. v + Len(left) : both[n] = IF n <= v THEN victims[n] ELSE left[n - v]
  <2> DEFINE R == [id : Nat, bytes : Nat]
  <2>1. victims \in Seq(R)
    BY DEF TraceInv, VictimsAreOldest
  <2>2. left \in Seq(R)
    BY <1>1, AfterIsSeq DEF TraceInv
  <2> HIDE DEF R, left
  <2>3. both \in Seq(R) /\ Len(both) = v + Len(left)
    BY <2>1, <2>2
  <2>4. \A n \in 1 .. v + Len(left) : both[n] = IF n <= v THEN victims[n] ELSE left[n - v]
    BY <2>1, <2>2
  <2> HIDE DEF both, v
  <2>5. both = [n \in 1 .. Len(both) |-> both[n]]
    BY <2>3
  <2>6. QED
    BY <2>3, <2>4, <2>5
<1>5. v + Len(left) = allocations - Before
  BY <1>1, <1>3 DEF Before
<1>6. ASSUME NEW n \in 1 .. allocations - Before
      PROVE  (IF n <= v THEN victims[n] ELSE left[n - v]) = Allocated(Before + n)
  <2>1. CASE n <= v
    BY <1>1, <2>1 DEF Before
  <2>2. CASE ~(n <= v)
    <3>1. n - v \in 1 .. allocations - evictions /\ evictions + (n - v) = Before + n
      BY <1>1, <2>2 DEF Before
    <3>2. left[n - v] = Allocated(Before + n)
      BY <1>3, <3>1
    <3>3. QED
      BY <2>2, <3>2
  <2>3. QED
    BY <2>1, <2>2
<1> HIDE DEF left, v
<1>7. both = After(Before)
  <2> HIDE DEF both
  <2>1. QED
    BY <1>4, <1>5, <1>6 DEF After
<1>8. QED
  BY <1>2, <1>7

\* What the fold of Held is chosen to be.
Holding(s, S, F) ==
  F = [t \in SUBSET S |-> IF t = {} THEN 0 ELSE s[Taken(t)].bytes + F[t \ {Taken(t)}]]

\* Held is the value of a recursive function, like a sum.
LEMMA HeldUnfolds ==
  ASSUME NEW s
  PROVE  Arena!Held(s) = (CHOOSE F : Holding(s, DOMAIN s, F))[DOMAIN s]
BY DEF Arena!Held, Arena!FoldSeq, Arena!FoldFunction, Arena!FoldFunctionOnSet, Arena!MapThenFoldSet, Holding, Taken

\* What a list of allocations holds is a sum over its places.
LEMMA HeldIsSum ==
  ASSUME NEW s, IsFiniteSet(DOMAIN s)
  PROVE  Arena!Held(s) = Total([i \in DOMAIN s |-> s[i].bytes], DOMAIN s)
<1> DEFINE S == DOMAIN s
           f == [i \in S |-> s[i].bytes]
<1>1. ASSUME NEW F
      PROVE  Holding(s, S, F) <=> Folded(f, S, F)
  <2>1. \A t \in SUBSET S : t # {} => f[Taken(t)] = s[Taken(t)].bytes
    <3> SUFFICES ASSUME NEW t \in SUBSET S, t # {}
                 PROVE  f[Taken(t)] = s[Taken(t)].bytes
      OBVIOUS
    <3>1. Taken(t) \in S
      BY TakenIsElement
    <3>2. QED
      BY <3>1
  <2> HIDE DEF f, S
  <2>2. [t \in SUBSET S |-> IF t = {} THEN 0 ELSE s[Taken(t)].bytes + F[t \ {Taken(t)}]]
        = [t \in SUBSET S |-> IF t = {} THEN 0 ELSE f[Taken(t)] + F[t \ {Taken(t)}]]
    BY <2>1
  <2>3. QED
    BY <2>2 DEF Holding, Folded
<1> HIDE DEF f
<1>2. \E F : Folded(f, S, F)
  BY FoldedExists
<1> DEFINE F == CHOOSE H : Holding(s, S, H)
           G == CHOOSE H : Folded(f, S, H)
<1>3. Folded(f, S, G)
  BY <1>2, Zenon
<1>4. Holding(s, S, F)
  <2>1. \E H : Holding(s, S, H)
    BY <1>1, <1>2
  <2>2. QED
    BY <2>1, Zenon
<1>5. Folded(f, S, F)
  <2> HIDE DEF F
  <2>1. QED
    BY <1>1, <1>4
<1>6. F[S] = G[S]
  <2> HIDE DEF F, G, S
  <2>1. IsFiniteSet(S)
    BY DEF S
  <2>2. S \in SUBSET S /\ S \subseteq S
    OBVIOUS
  <2>3. QED
    BY <1>3, <1>5, <2>1, <2>2, FoldedUnique
<1>7. Total(f, S) = G[S]
  BY SumUnfolds
<1>8. Arena!Held(s) = F[S]
  BY HeldUnfolds
<1>9. QED
  BY <1>6, <1>7, <1>8 DEF f

\* What is after the first b holds what its allocations weigh.
LEMMA HeldAfter ==
  ASSUME PoolTypeOK, OrderInv, Unique, NEW b \in Nat, b <= allocations
  PROVE  Arena!Held(After(b)) = Total(Weight, b + 1 .. allocations)
<1> DEFINE n == allocations - b
           s == After(b)
           g == [i \in DOMAIN s |-> s[i].bytes]
<1>1. allocations \in Nat /\ n \in Nat /\ b + n = allocations
  BY OrderFacts
<1>2. /\ s \in Seq([id : Nat, bytes : Nat]) /\ Len(s) = n
      /\ \A i \in 1 .. n : s[i] = Allocated(b + i)
  BY AfterIsSeq
<1>3. DOMAIN s = 1 .. n
  BY <1>2
<1>4. \A i \in 1 .. n : g[i] \in Nat /\ Weight[b + i] = g[i]
  <2> SUFFICES ASSUME NEW i \in 1 .. n
               PROVE  g[i] \in Nat /\ Weight[b + i] = g[i]
    OBVIOUS
  <2>1. b + i \in 1 .. allocations
    BY <1>1
  <2>2. Weight[b + i] = SizeOf(b + i) /\ Weight[b + i] \in Nat
    BY <2>1, SizeIs
  <2>3. s[i].bytes = SizeOf(b + i)
    BY <1>2 DEF Allocated
  <2>4. g[i] = s[i].bytes
    BY <1>3
  <2>5. QED
    BY <2>2, <2>3, <2>4
<1>5. IsFiniteSet(DOMAIN s)
  BY <1>1, <1>3, FS_Interval
<1>6. Arena!Held(s) = Total(g, DOMAIN s)
  BY <1>5, HeldIsSum
<1> HIDE DEF g, s
<1>7. Total(g, 1 .. n) = Total(Weight, b + 1 .. b + n)
  BY <1>1, <1>4, SumShifts
<1>8. QED
  BY <1>1, <1>3, <1>6, <1>7 DEF s

SizesAreRead ==
  /\ \A i \in 1 .. Len(entries) : SizeOf(entries[i].id) = entries[i].bytes
  /\ \A id \in 1 .. allocations : SizeOf(id) \in Nat
  /\ \A id \in 1 .. allocations : Weight[id] = SizeOf(id) /\ Weight[id] \in Nat

\* The same, of any state.
LEMMA SizesRead == PoolTypeOK /\ OrderInv /\ Unique => SizesAreRead
BY SizeIs DEF SizesAreRead

\* A step that loses no entry changes no allocation's size.
LEMMA SizesStay ==
  ASSUME PoolTypeOK, OrderInv, Unique, PoolTypeOK', OrderInv', Unique',
         \A i \in 1 .. Len(entries) : \E j \in 1 .. Len(entries') :
           entries'[j].id = entries[i].id /\ entries'[j].bytes = entries[i].bytes
  PROVE  /\ \A id \in 1 .. allocations : SizeOf(id)' = SizeOf(id)
         /\ SizesAreRead'
<1>1. SizesAreRead /\ SizesAreRead'
  BY SizesRead, PTL
<1>2. ASSUME NEW id \in 1 .. allocations
      PROVE  SizeOf(id)' = SizeOf(id)
  <2>1. PICK i \in 1 .. Len(entries) : entries[i].id = id
    BY OrderFacts
  <2>2. PICK j \in 1 .. Len(entries') : entries'[j].id = id /\ entries'[j].bytes = entries[i].bytes
    BY <2>1
  <2>3. SizeOf(id) = entries[i].bytes
    BY <1>1, <2>1 DEF SizesAreRead
  <2>4. SizeOf(entries[j].id)' = entries'[j].bytes
    BY <1>1 DEF SizesAreRead
  <2>5. QED
    BY <2>2, <2>3, <2>4
<1>3. QED
  BY <1>1, <1>2

\* Nor what a set of them weighs.
LEMMA WeightsStay ==
  ASSUME PoolTypeOK, OrderInv, Unique, SizesAreRead', allocations' \in Nat,
         allocations <= allocations', \A id \in 1 .. allocations : SizeOf(id)' = SizeOf(id),
         NEW S \in SUBSET (1 .. allocations)
  PROVE  Total(Weight', S) = Total(Weight, S)
<1> DEFINE W == Weight'
<1>1. allocations \in Nat
  BY OrderFacts
<1>2. \A id \in S : W[id] = Weight[id]
  <2> SUFFICES ASSUME NEW id \in S
               PROVE  W[id] = Weight[id]
    OBVIOUS
  <2>1. id \in 1 .. allocations /\ id \in 1 .. allocations'
    BY <1>1
  <2>2. Weight[id] = SizeOf(id)
    BY <2>1, SizeIs
  <2>3. W[id] = SizeOf(id)'
    BY <2>1 DEF SizesAreRead
  <2>4. QED
    BY <2>1, <2>2, <2>3
<1>3. IsFiniteSet(S)
  <2>1. IsFiniteSet(1 .. allocations)
    BY <1>1, FS_Interval
  <2>2. QED
    BY <2>1, FS_Subset
<1> HIDE DEF W
<1>4. Total(W, S) = Total(Weight, S)
  BY <1>2, <1>3, SumAgrees
<1>5. QED
  BY <1>4 DEF W

\* The weight of a run of allocations, without its first.
LEMMA WeightFrom ==
  ASSUME PoolTypeOK, OrderInv, Unique, NEW b \in Nat, b < allocations
  PROVE  /\ Total(Weight, b + 1 .. allocations) = SizeOf(b + 1) + Total(Weight, b + 2 .. allocations)
         /\ Total(Weight, b + 2 .. allocations) \in Nat /\ SizeOf(b + 1) \in Nat
<1> DEFINE S == b + 1 .. allocations
           T == b + 2 .. allocations
<1>1. allocations \in Nat
  BY OrderFacts
<1>2. \A id \in S : Weight[id] \in Nat
  BY <1>1, SizeIs
<1>3. /\ IsFiniteSet(S) /\ IsFiniteSet(T)
      /\ b + 1 \in S /\ S \ {b + 1} = T /\ b + 1 \in 1 .. allocations
  <2>1. IsFiniteSet(S)
    BY <1>1, FS_Interval
  <2>2. IsFiniteSet(T)
    BY <1>1, FS_Interval
  <2>3. b + 1 \in S /\ b + 1 \in 1 .. allocations
    BY <1>1
  <2>4. S \ {b + 1} = T
    BY <1>1
  <2>5. QED
    BY <2>1, <2>2, <2>3, <2>4
<1>4. Weight[b + 1] = SizeOf(b + 1) /\ SizeOf(b + 1) \in Nat
  BY <1>3, SizeIs
<1> HIDE DEF S
<1>5. Total(Weight, S) = Weight[b + 1] + Total(Weight, S \ {b + 1})
  BY <1>2, <1>3, SumTakes
<1>6. \A id \in T : Weight[id] \in Nat
  BY <1>2, <1>3
<1> HIDE DEF T
<1>7. Total(Weight, T) \in Nat
  BY <1>3, <1>6, SumIsNat
<1>8. QED
  BY <1>3, <1>4, <1>5, <1>7 DEF S, T

-----------------------------------------------------------------------------
(* The steps.                                                              *)

\* A step of the pool leaves the ids of the deque distinct.
LEMMA UniqueStep == PoolTypeOK /\ OrderInv /\ Unique /\ [PoolNext]_poolVars => Unique'
<1> SUFFICES ASSUME PoolTypeOK, OrderInv, Unique, [PoolNext]_poolVars
             PROVE  Unique'
  OBVIOUS
<1> DEFINE n == Len(entries)
<1>1. entries \in Seq(Entry) /\ DOMAIN entries = 1 .. n /\ n \in Nat
  BY OrderFacts
<1>2. CASE Evict
  <2>1. entries # << >> /\ entries' = Append(Tail(entries), [Head(entries) EXCEPT !.state = "evicted"])
    BY <1>2 DEF Evict, RetireFront
  <2>2. /\ entries' \in Seq(Entry) /\ Len(entries') = n /\ n \in Nat \ {0}
        /\ \A i \in 1 .. n - 1 : entries'[i] = entries[i + 1]
        /\ entries'[n].id = entries[1].id
    BY <1>1, <2>1, RotateProperties
  <2>3. ASSUME NEW i \in DOMAIN entries', NEW j \in DOMAIN entries', entries'[i].id = entries'[j].id
        PROVE  i = j
    <3> DEFINE From(k) == IF k = n THEN 1 ELSE k + 1
    <3>1. i \in 1 .. n /\ j \in 1 .. n
      BY <2>2, <2>3
    <3>2. \A k \in 1 .. n : From(k) \in 1 .. n /\ entries'[k].id = entries[From(k)].id
      BY <2>2
    <3>3. From(i) = From(j)
      BY <1>1, <2>3, <3>1, <3>2 DEF Unique
    <3>4. QED
      BY <2>2, <3>1, <3>3
  <2>4. QED
    BY <2>3 DEF Unique
<1>3. CASE FinishInsert
  <2> DEFINE new == [id |-> allocations + 1, bytes |-> need, state |-> "active"]
  <2>1. entries' = Append(entries, new)
    BY <1>3 DEF FinishInsert
  <2>2. new.id = allocations + 1 /\ allocations \in Nat /\ \A i \in 1 .. n : entries[i].id \in 1 .. allocations
    BY OrderFacts
  <2> HIDE DEF new
  <2>3. DOMAIN entries' = 1 .. n + 1 /\ entries'[n + 1] = new /\ \A i \in 1 .. n : entries'[i] = entries[i]
    BY <1>1, <2>1
  <2>4. QED
    BY <1>1, <2>2, <2>3 DEF Unique
<1>4. CASE (\E bytes \in Sizes : BeginInsert(bytes)) \/ UNCHANGED poolVars
  BY <1>4 DEF BeginInsert, poolVars, Unique
<1>5. QED
  BY <1>2, <1>3, <1>4 DEF PoolNext

\* An iteration of the loop leaves the sizes alone.
LEMMA EvictSizes ==
  ASSUME PoolTypeOK, OrderInv, Unique, Evict, PoolTypeOK', OrderInv', Unique'
  PROVE  SizesAreRead' /\ \A id \in 1 .. allocations : SizeOf(id)' = SizeOf(id)
<1> DEFINE n == Len(entries)
<1>1. /\ entries \in Seq(Entry) /\ n \in Nat /\ entries # << >>
      /\ entries' = Append(Tail(entries), [Head(entries) EXCEPT !.state = "evicted"])
  BY OrderFacts DEF Evict, RetireFront
<1>2. /\ Len(entries') = n /\ n \in Nat \ {0}
      /\ \A i \in 1 .. n - 1 : entries'[i] = entries[i + 1]
      /\ entries'[n].id = entries[1].id /\ entries'[n].bytes = entries[1].bytes
  BY <1>1, RotateProperties
<1>3. ASSUME NEW i \in 1 .. n
      PROVE  \E j \in 1 .. n : entries'[j].id = entries[i].id /\ entries'[j].bytes = entries[i].bytes
  <2>1. CASE i = 1
    BY <1>2, <2>1
  <2>2. CASE i # 1
    <3>1. i - 1 \in 1 .. n - 1 /\ i - 1 \in 1 .. n /\ (i - 1) + 1 = i
      BY <1>1, <2>2
    <3>2. entries'[i - 1] = entries[i]
      BY <1>2, <3>1
    <3>3. QED
      BY <3>1, <3>2
  <2>3. QED
    BY <2>1, <2>2
<1>4. \A i \in 1 .. Len(entries) : \E j \in 1 .. Len(entries') :
        entries'[j].id = entries[i].id /\ entries'[j].bytes = entries[i].bytes
  BY <1>2, <1>3
<1>5. QED
  BY <1>4, SizesStay

\* An iteration of the loop keeps the trace: an active front is the next victim, and
\* there was no room with it.
LEMMA EvictTraced ==
  ASSUME TraceInv, TracedNext, Evict, PoolTypeOK', BoundInv', OrderInv', Unique'
  PROVE  TraceInv'
<1> DEFINE n == Len(entries)
           a == allocations
           e == evictions
           v == Len(victims)
           R == [id : Nat, bytes : Nat]
<1>1. PoolTypeOK /\ OrderInv /\ Unique
  BY DEF TraceInv
<1>2. /\ entries \in Seq(Entry) /\ n \in Nat /\ a \in Nat /\ e \in Nat /\ e <= a
      /\ residentBytes \in Nat /\ need \in Nat
  BY <1>1, OrderFacts DEF PoolTypeOK
<1>3. /\ victims \in Seq(R) /\ v \in Nat /\ v <= e
      /\ \A i \in 1 .. v : victims[i] = Allocated(Before + i)
  <2>1. victims \in Seq(R)
    BY DEF TraceInv, VictimsAreOldest
  <2>2. QED
    BY <2>1 DEF TraceInv, VictimsAreOldest
<1>4. /\ lock = "held" /\ lock' = "held" /\ entries # << >> /\ residentBytes + need > Capacity
      /\ allocations' = a /\ need' = need
      /\ entries' = Append(Tail(entries), [Head(entries) EXCEPT !.state = "evicted"])
  BY DEF Evict, RetireFront, NoRoom
<1>5. /\ entries' \in Seq(Entry) /\ Len(entries') = n /\ n \in Nat \ {0}
      /\ \A i \in 1 .. n - 1 : entries'[i] = entries[i + 1]
      /\ entries'[n].id = entries[1].id /\ entries'[n].bytes = entries[1].bytes
      /\ entries[1] = Head(entries) /\ entries[1] \in Entry
  BY <1>2, <1>4, RotateProperties
<1>7. SizesAreRead' /\ \A id \in 1 .. a : SizeOf(id)' = SizeOf(id)
  BY <1>1, EvictSizes
<1>8. ASSUME NEW id \in 1 .. a
      PROVE  Allocated(id)' = Allocated(id)
  BY <1>7 DEF Allocated
<1>9. ASSUME NEW b \in Nat
      PROVE  Total(Weight', b + 1 .. a) = Total(Weight, b + 1 .. a)
  <2> DEFINE S == b + 1 .. a
  <2>1. S \in SUBSET (1 .. a)
    BY <1>2
  <2> HIDE DEF S
  <2>2. Total(Weight', S) = Total(Weight, S)
    BY <1>1, <1>2, <1>4, <1>7, <2>1, WeightsStay
  <2>3. QED
    BY <2>2 DEF S
<1>10. residentBytes = Total(Weight, e + 1 .. a)
  BY DEF TraceInv
<1>11. ASSUME residentBytes' = Total(Weight', evictions' + 1 .. a), VictimsAreOldest', LastWasNeeded'
       PROVE  TraceInv'
  BY <1>4, <1>11 DEF TraceInv
<1>12. CASE entries[1].state = "active"
  <2> DEFINE front == [id |-> e + 1, bytes |-> SizeOf(e + 1)]
  <2>1. entries[1].id = e + 1
    BY <1>1, <1>4, <1>12, FrontIsOldest
  <2>2. e + 1 \in 1 .. a
    <3>1. 1 \in 1 .. Len(entries)
      BY <1>5
    <3>2. entries[1].id \in 1 .. a
      BY <1>1, <3>1, OrderFacts
    <3>3. QED
      BY <2>1, <3>2
  <2>3. SizeOf(e + 1) = entries[1].bytes
    <3>1. 1 \in 1 .. Len(entries)
      BY <1>5
    <3>2. QED
      BY <1>1, <2>1, <3>1, SizeIs
  <2>4. /\ Total(Weight, e + 1 .. a) = SizeOf(e + 1) + Total(Weight, e + 2 .. a)
        /\ Total(Weight, e + 2 .. a) \in Nat /\ SizeOf(e + 1) \in Nat
    BY <1>1, <1>2, <2>2, WeightFrom
  <2>5. evictions' = e + 1 /\ residentBytes' = Monus(residentBytes, entries[1].bytes)
    BY <1>5, <1>12 DEF Evict, RetireFront
  <2>6. residentBytes' = Total(Weight, e + 2 .. a)
    <3> DEFINE rest == Total(Weight, e + 2 .. a)
    <3>1. residentBytes = SizeOf(e + 1) + rest /\ rest \in Nat
      BY <1>10, <2>4
    <3> HIDE DEF rest
    <3>2. residentBytes' = rest
      BY <2>3, <2>4, <2>5, <3>1 DEF Monus
    <3>3. QED
      BY <3>2 DEF rest
  <2>7. residentBytes' = Total(Weight', evictions' + 1 .. a)
    <3>1. e + 1 \in Nat /\ (e + 1) + 1 = e + 2
      BY <1>2
    <3>2. Total(Weight', e + 2 .. a) = Total(Weight, e + 2 .. a)
      BY <1>9, <3>1
    <3>3. QED
      BY <2>5, <2>6, <3>1, <3>2
  <2>8. victims' = Append(victims, front)
    <3>1. Head(entries).state = "active" /\ Head(entries).id = e + 1
          /\ Head(entries).bytes = SizeOf(e + 1)
      BY <1>5, <1>12, <2>1, <2>3
    <3>2. QED
      BY <1>4, <3>1 DEF TracedNext
  <2>9. front \in R /\ front = Allocated(e + 1)
    BY <1>2, <2>4 DEF Allocated
  <2> HIDE DEF front
  <2>10. /\ victims' \in Seq(R) /\ Len(victims') = v + 1 /\ victims'[v + 1] = front
         /\ \A i \in 1 .. v : victims'[i] = victims[i]
    <3> HIDE DEF R
    <3>1. QED
      BY <1>3, <2>8, <2>9
  <2>11. Before' = Before /\ Before = e - v
    BY <1>2, <1>3, <2>5, <2>10 DEF Before
  <2>12. ASSUME NEW i \in 1 .. v + 1
         PROVE  victims'[i] = Allocated(Before + i)'
    <3>1. Before + i \in 1 .. a
      BY <1>2, <1>3, <2>2, <2>11
    <3>2. Allocated(Before + i)' = Allocated(Before + i)
      <4>1. ASSUME NEW k, k \in 1 .. a, k = Before + i, k = Before' + i
            PROVE  Allocated(Before + i)' = Allocated(Before + i)
        BY <1>7, <4>1 DEF Allocated
      <4>2. QED
        BY <2>11, <3>1, <4>1
    <3>3. CASE i = v + 1
      <4>1. Before + i = e + 1
        BY <1>2, <1>3, <2>11, <3>3
      <4>2. QED
        BY <2>9, <2>10, <3>2, <3>3, <4>1
    <3>4. CASE i # v + 1
      <4>1. i \in 1 .. v
        BY <1>3, <3>4
      <4>2. QED
        BY <1>3, <2>10, <3>2, <4>1
    <3>5. QED
      BY <3>3, <3>4
  <2>13. VictimsAreOldest'
    <3>1. Len(victims') <= evictions'
      BY <1>2, <1>3, <2>5, <2>10
    <3>2. \A i \in 1 .. Len(victims') : victims'[i] = Allocated(Before + i)'
      BY <2>10, <2>12
    <3>3. QED
      BY <2>10, <3>1, <3>2 DEF VictimsAreOldest
  <2>14. LastWasNeeded'
    <3>1. Total(Weight', e + 1 .. a) = residentBytes
      BY <1>2, <1>9, <1>10
    <3>2. Total(Weight', evictions' .. allocations') + need' > Capacity
      BY <1>4, <2>5, <3>1
    <3>3. QED
      BY <3>2 DEF LastWasNeeded
  <2>15. QED
    BY <1>11, <2>7, <2>13, <2>14
<1>13. CASE entries[1].state # "active"
  <2>1. evictions' = e /\ residentBytes' = residentBytes
    BY <1>5, <1>13 DEF Evict, RetireFront
  <2>2. victims' = victims
    BY <1>4, <1>5, <1>13 DEF TracedNext
  <2>3. residentBytes' = Total(Weight', evictions' + 1 .. a)
    BY <1>2, <1>9, <1>10, <2>1
  <2>4. Before' = Before /\ Before = e - v
    BY <2>1, <2>2 DEF Before
  <2>5. ASSUME NEW i \in 1 .. v
        PROVE  victims'[i] = Allocated(Before + i)'
    <3>1. Before + i \in 1 .. a
      BY <1>2, <1>3, <2>4
    <3>2. ASSUME NEW k, k \in 1 .. a, k = Before + i, k = Before' + i
          PROVE  Allocated(Before + i)' = Allocated(Before + i)
      BY <1>7, <3>2 DEF Allocated
    <3>3. QED
      BY <1>3, <2>2, <2>4, <3>1, <3>2
  <2>6. VictimsAreOldest'
    <3>1. victims' \in Seq(R) /\ Len(victims') <= evictions'
      BY <1>3, <2>1, <2>2
    <3>2. \A i \in 1 .. Len(victims') : victims'[i] = Allocated(Before + i)'
      BY <2>2, <2>5
    <3>3. QED
      BY <3>1, <3>2 DEF VictimsAreOldest
  <2>7. LastWasNeeded'
    <3>1. CASE v > 0
      <4>1. e - 1 \in Nat /\ (e - 1) + 1 = e
        BY <1>2, <1>3, <3>1
      <4>2. Total(Weight', e .. a) = Total(Weight, e .. a)
        BY <1>9, <4>1
      <4>3. Total(Weight, e .. a) + need > Capacity
        BY <3>1 DEF TraceInv, LastWasNeeded
      <4>4. QED
        BY <1>4, <2>1, <4>2, <4>3 DEF LastWasNeeded
    <3>2. CASE ~(v > 0)
      BY <2>2, <3>2 DEF LastWasNeeded
    <3>3. QED
      BY <3>1, <3>2
  <2>8. QED
    BY <1>11, <2>3, <2>6, <2>7
<1>14. QED
  BY <1>12, <1>13

\* A step that leaves the deque alone leaves the sizes alone.
LEMMA SameSizes ==
  ASSUME entries' = entries, allocations' = allocations
  PROVE  /\ Weight' = Weight
         /\ \A id \in Nat : Allocated(id)' = Allocated(id)
BY DEF Weight, Allocated, SizeOf

\* Without a victim there is nothing to say of victims.
LEMMA NoVictims ==
  ASSUME victims = << >>, evictions \in Nat
  PROVE  VictimsAreOldest /\ LastWasNeeded
<1> DEFINE R == [id : Nat, bytes : Nat]
<1>1. victims \in Seq(R) /\ Len(victims) = 0
  <2> HIDE DEF R
  <2>1. QED
    OBVIOUS
<1>2. QED
  BY <1>1 DEF VictimsAreOldest, LastWasNeeded

NoneTaken == victims = << >> /\ evictions \in Nat

\* The same, of any state.
LEMMA NoVictimsNow == NoneTaken => VictimsAreOldest /\ LastWasNeeded
BY NoVictims DEF NoneTaken

\* The beginning of an insertion keeps the trace.
LEMMA BeginTraced ==
  ASSUME TraceInv, TracedNext, NEW bytes \in Sizes, BeginInsert(bytes),
         PoolTypeOK', BoundInv', OrderInv', Unique'
  PROVE  TraceInv'
<1>1. /\ lock = "free" /\ lock' = "held" /\ need' = bytes /\ allocations < MaxAllocations
      /\ entries' = entries /\ residentBytes' = residentBytes
      /\ allocations' = allocations /\ evictions' = evictions
  BY DEF BeginInsert
<1>2. victims = << >> /\ victims' = << >>
  BY <1>1 DEF TraceInv, TracedNext
<1>3. NoneTaken'
  BY <1>2 DEF NoneTaken, PoolTypeOK
<1>4. VictimsAreOldest' /\ LastWasNeeded'
  BY <1>3, NoVictimsNow, PTL
<1>5. Weight' = Weight
  BY <1>1, SameSizes
<1>6. residentBytes' = Total(Weight', evictions' + 1 .. allocations')
  <2>1. residentBytes = Total(Weight, evictions + 1 .. allocations)
    BY DEF TraceInv
  <2>2. QED
    BY <1>1, <1>5, <2>1
<1>7. QED
  BY <1>1, <1>2, <1>4, <1>6 DEF TraceInv

\* A step that changes nothing keeps the trace.
LEMMA StutterTraced ==
  ASSUME TraceInv, UNCHANGED tracedVars, PoolTypeOK', BoundInv', OrderInv', Unique'
  PROVE  TraceInv'
<1>1. /\ entries' = entries /\ residentBytes' = residentBytes /\ allocations' = allocations
      /\ evictions' = evictions /\ lock' = lock /\ need' = need /\ victims' = victims
  BY DEF tracedVars
<1>2. Weight' = Weight
  BY <1>1, SameSizes
<1>3. residentBytes' = Total(Weight', evictions' + 1 .. allocations')
  BY <1>1, <1>2 DEF TraceInv
<1>4. VictimsAreOldest'
  BY <1>1 DEF TraceInv, VictimsAreOldest, Before, Allocated, SizeOf
<1>5. LastWasNeeded'
  BY <1>1, <1>2 DEF TraceInv, LastWasNeeded
<1>6. QED
  BY <1>1, <1>3, <1>4, <1>5 DEF TraceInv

\* The end of an insertion leaves the sizes of the others alone.
LEMMA FinishSizes ==
  ASSUME PoolTypeOK, OrderInv, Unique, FinishInsert, PoolTypeOK', OrderInv', Unique'
  PROVE  /\ SizesAreRead'
         /\ \A id \in 1 .. allocations : SizeOf(id)' = SizeOf(id)
         /\ \A id \in Nat : id = allocations + 1 => SizeOf(id)' = need /\ Weight'[id] = need
<1> DEFINE n == Len(entries)
           new == [id |-> allocations + 1, bytes |-> need, state |-> "active"]
<1>1. entries \in Seq(Entry) /\ n \in Nat /\ allocations \in Nat /\ need \in Nat
  BY OrderFacts DEF PoolTypeOK
<1>2. entries' = Append(entries, new) /\ allocations' = allocations + 1
  BY DEF FinishInsert
<1>3. new \in Entry /\ new.id = allocations + 1 /\ new.bytes = need
  BY <1>1 DEF Entry
<1> HIDE DEF new
<1>4. Len(entries') = n + 1 /\ entries'[n + 1] = new /\ \A i \in 1 .. n : entries'[i] = entries[i]
  BY <1>1, <1>2, <1>3
<1>5. \A i \in 1 .. Len(entries) : \E j \in 1 .. Len(entries') :
        entries'[j].id = entries[i].id /\ entries'[j].bytes = entries[i].bytes
  BY <1>1, <1>4
<1>6. SizesAreRead' /\ \A id \in 1 .. allocations : SizeOf(id)' = SizeOf(id)
  BY <1>5, SizesStay
<1>7. ASSUME NEW id \in Nat, id = allocations + 1
      PROVE  SizeOf(id)' = need /\ Weight'[id] = need
  <2>1. n + 1 \in 1 .. Len(entries')
    BY <1>1, <1>4
  <2>2. ASSUME NEW k \in 1 .. Len(entries'), entries'[k].id = id
        PROVE  SizeOf(id)' = entries'[k].bytes
    BY <1>6, <2>2 DEF SizesAreRead
  <2>3. entries'[n + 1].id = id /\ entries'[n + 1].bytes = need
    BY <1>3, <1>4, <1>7
  <2>4. SizeOf(id)' = need
    BY <2>1, <2>2, <2>3
  <2>5. id \in 1 .. allocations'
    BY <1>1, <1>2, <1>7
  <2>6. QED
    BY <2>4, <2>5, <1>6 DEF SizesAreRead
<1>8. QED
  BY <1>6, <1>7

\* The end of an insertion keeps the trace.
LEMMA FinishTraced ==
  ASSUME TraceInv, TracedNext, FinishInsert, PoolTypeOK', BoundInv', OrderInv', Unique'
  PROVE  TraceInv'
<1> DEFINE a == allocations
           e == evictions
<1>1. PoolTypeOK /\ OrderInv /\ Unique /\ residentBytes = Total(Weight, e + 1 .. a)
  BY DEF TraceInv
<1>2. /\ a \in Nat /\ e \in Nat /\ e <= a /\ need \in Nat
      /\ allocations' = a + 1 /\ evictions' = e /\ residentBytes' = residentBytes + need
      /\ lock' = "free" /\ victims' = << >>
  BY <1>1, OrderFacts DEF PoolTypeOK, FinishInsert, TracedNext
<1>3. /\ SizesAreRead' /\ \A id \in 1 .. a : SizeOf(id)' = SizeOf(id)
      /\ \A id \in Nat : id = a + 1 => Weight'[id] = need
  BY <1>1, FinishSizes
<1>4. NoneTaken'
  BY <1>2 DEF NoneTaken
<1>5. VictimsAreOldest' /\ LastWasNeeded'
  BY <1>4, NoVictimsNow, PTL
<1> DEFINE S == e + 1 .. a
           W == Weight'
<1>6. Total(W, S) = Total(Weight, S)
  <2>1. S \in SUBSET (1 .. a)
    BY <1>2
  <2> HIDE DEF S
  <2>2. QED
    BY <1>1, <1>2, <1>3, <2>1, WeightsStay
<1>7. Total(W, S \cup {a + 1}) = Total(W, S) + need
  <2>1. IsFiniteSet(S)
    BY <1>2, FS_Interval
  <2>2. \A z \in S : W[z] \in Nat
    <3>1. \A z \in S : z \in 1 .. allocations'
      BY <1>2
    <3>2. \A z \in 1 .. allocations' : W[z] \in Nat
      BY <1>3 DEF SizesAreRead
    <3>3. QED
      BY <3>1, <3>2
  <2>3. a + 1 \notin S /\ W[a + 1] = need /\ W[a + 1] \in Nat
    BY <1>2, <1>3
  <2> HIDE DEF W, S
  <2>4. Total(W, S \cup {a + 1}) = Total(W, S) + W[a + 1]
    BY <2>1, <2>2, <2>3, SumAdds
  <2>5. QED
    BY <2>3, <2>4
<1>8. S \cup {a + 1} = evictions' + 1 .. allocations'
  BY <1>2
<1> HIDE DEF S, W
<1>9. residentBytes' = Total(W, evictions' + 1 .. allocations')
  BY <1>1, <1>2, <1>6, <1>7, <1>8 DEF S
<1>10. QED
  BY <1>2, <1>5, <1>9 DEF TraceInv, W

\* The trace holds of an empty pool.
LEMMA TraceStarts == TracedInit => TraceInv
<1> SUFFICES ASSUME TracedInit
             PROVE  TraceInv
  OBVIOUS
<1>1. /\ entries = << >> /\ residentBytes = 0 /\ allocations = 0 /\ evictions = 0
      /\ lock = "free" /\ need = 0 /\ victims = << >>
  BY DEF TracedInit, PoolInit
<1>2. PoolTypeOK
  BY <1>1 DEF PoolTypeOK
<1>3. BoundInv
  BY <1>1, PoolAssumption DEF BoundInv, NeedFits, RoomWhenEmpty, PoolBounded
<1>4. OrderInv
  BY <1>1 DEF OrderInv, HandlesAllocated, NoneLost, ActiveInOrder, OldestFirst
<1>5. Unique
  BY <1>1 DEF Unique
<1>6. residentBytes = Total(Weight, evictions + 1 .. allocations)
  <2>1. evictions + 1 .. allocations = {}
    BY <1>1
  <2>2. IsFiniteSet({})
    BY FS_EmptySet
  <2>3. Total(Weight, {}) = 0
    BY <2>2, SumSteps
  <2>4. QED
    BY <1>1, <2>1, <2>3
<1>7. VictimsAreOldest /\ LastWasNeeded
  BY <1>1, NoVictims
<1>8. QED
  BY <1>1, <1>2, <1>3, <1>4, <1>5, <1>6, <1>7 DEF TraceInv

\* No step of the traced pool disturbs it.
LEMMA TraceStep == TraceInv /\ [TracedNext]_tracedVars => TraceInv'
<1> SUFFICES ASSUME TraceInv, [TracedNext]_tracedVars
             PROVE  TraceInv'
  OBVIOUS
<1>1. [PoolNext]_poolVars
  BY DEF TracedNext, tracedVars, poolVars
<1>2. PoolTypeOK /\ BoundInv /\ OrderInv /\ Unique
  BY DEF TraceInv
<1>3. PoolTypeOK' /\ BoundInv' /\ OrderInv' /\ Unique'
  BY <1>1, <1>2, PoolTypeStep, BoundStep, OrderStep, UniqueStep
<1>4. CASE TracedNext /\ \E bytes \in Sizes : BeginInsert(bytes)
  BY <1>3, <1>4, BeginTraced
<1>5. CASE TracedNext /\ Evict
  BY <1>3, <1>5, EvictTraced
<1>6. CASE TracedNext /\ FinishInsert
  BY <1>3, <1>6, FinishTraced
<1>7. CASE UNCHANGED tracedVars
  BY <1>3, <1>7, StutterTraced
<1>8. QED
  BY <1>4, <1>5, <1>6, <1>7 DEF TracedNext, PoolNext

\* The trace holds throughout.
LEMMA TraceInvariance == TracedSpec => []TraceInv
BY TraceStarts, TraceStep, PTL DEF TracedSpec

AllAreAfter == victims \o Live = After(Before)

\* What the refinement reads of the trace.
LEMMA AllAre == TraceInv => AllAreAfter
BY AllIs DEF AllAreAfter

\* An iteration moves an allocation from the active ones to the victims.
LEMMA EvictKeepsGone ==
  ASSUME TraceInv, TracedNext, Evict
  PROVE  Before' = Before
<1>1. victims \in Seq([id : Nat, bytes : Nat]) /\ evictions \in Nat /\ Len(victims) \in Nat
  BY DEF TraceInv, VictimsAreOldest, PoolTypeOK
<1>2. lock = "held" /\ lock' = "held"
  BY DEF Evict
<1>3. CASE Head(entries).state = "active"
  <2> DEFINE x == [id |-> Head(entries).id, bytes |-> Head(entries).bytes]
  <2>1. victims' = Append(victims, x) /\ evictions' = evictions + 1
    BY <1>2, <1>3 DEF TracedNext, Evict, RetireFront
  <2> HIDE DEF x
  <2>2. Len(victims') = Len(victims) + 1
    BY <1>1, <2>1
  <2>3. QED
    BY <1>1, <2>1, <2>2 DEF Before
<1>4. CASE Head(entries).state # "active"
  BY <1>2, <1>4 DEF TracedNext, Evict, RetireFront, Before
<1>5. QED
  BY <1>3, <1>4

\* Where the arena sees nothing, the pool is between two of its steps.
LEMMA SameAll ==
  ASSUME TraceInv, TraceInv', allocations' = allocations, Before' = Before,
         \A id \in 1 .. allocations : SizeOf(id)' = SizeOf(id)
  PROVE  (victims \o Live)' = victims \o Live
<1>1. AllAreAfter /\ AllAreAfter'
  BY AllAre, PTL
<1>2. allocations \in Nat /\ Before \in Nat /\ Before <= allocations
  <2>1. Len(victims) \in Nat /\ Len(victims) <= evictions
    BY DEF TraceInv, VictimsAreOldest
  <2>2. QED
    BY <2>1, OrderFacts DEF TraceInv, Before
<1>3. ASSUME NEW n \in 1 .. allocations - Before
      PROVE  Allocated(Before + n)' = Allocated(Before + n)
  <2>1. ASSUME NEW k \in 1 .. allocations, k = Before + n, k = Before' + n
        PROVE  Allocated(Before + n)' = Allocated(Before + n)
    BY <2>1 DEF Allocated
  <2>2. Before + n \in 1 .. allocations
    BY <1>2
  <2>3. QED
    BY <2>1, <2>2
<1>4. After(Before)' = After(Before)
  BY <1>3 DEF After
<1>5. QED
  BY <1>1, <1>4 DEF AllAreAfter

\* What the arena keeps when it drops the n oldest.
LEMMA DroppingIs ==
  ASSUME TraceInv, NEW n \in 0 .. allocations - Before
  PROVE  Arena!Dropping(n) = After(Before + n)
<1> DEFINE s == After(Before)
           len == allocations - Before
<1>1. allocations \in Nat /\ Before \in Nat /\ Before <= allocations
  <2>1. Len(victims) \in Nat /\ Len(victims) <= evictions
    BY DEF TraceInv, VictimsAreOldest
  <2>2. QED
    BY <2>1, OrderFacts DEF TraceInv, Before
<1>2. /\ s \in Seq([id : Nat, bytes : Nat]) /\ Len(s) = len
      /\ \A i \in 1 .. len : s[i] = Allocated(Before + i)
  BY <1>1, AfterIsSeq DEF TraceInv
<1>3. Arena!Dropping(n) = SubSeq(s, n + 1, len)
  BY <1>2, AllAre DEF AllAreAfter, Arena!Dropping
<1>4. SubSeq(s, n + 1, len) = [i \in 1 .. len - n |-> s[i + n]]
  <2> HIDE DEF s
  <2>1. len \in Nat /\ n \in Nat /\ n <= len
    BY <1>1
  <2>2. SubSeq(s, n + 1, len) = [i \in 1 .. 1 + len - (n + 1) |-> s[i + (n + 1) - 1]]
    BY <1>2, <2>1
  <2>3. 1 + len - (n + 1) = len - n /\ \A i \in 1 .. len - n : i + (n + 1) - 1 = i + n
    BY <2>1
  <2> HIDE DEF len
  <2>4. QED
    BY <2>2, <2>3
<1>5. \A i \in 1 .. len - n : s[i + n] = Allocated((Before + n) + i)
  <2>1. \A i \in 1 .. len - n : i + n \in 1 .. len /\ Before + (i + n) = (Before + n) + i
    BY <1>1
  <2>2. QED
    BY <1>2, <2>1
<1>6. len - n = allocations - (Before + n)
  BY <1>1
<1> HIDE DEF s, len
<1>7. QED
  BY <1>3, <1>4, <1>5, <1>6 DEF After

\* When the loop is over, what it took is what the arena would drop: there is
\* room without the victims, and with one victim fewer there was none.
LEMMA VictimsAreTheFewest ==
  ASSUME TraceInv, FinishInsert
  PROVE  Arena!Victims(need) = Len(victims)
<1> DEFINE a == allocations
           e == evictions
           v == Len(victims)
           len == Len(victims \o Live)
           Fits(n) == Arena!Held(Arena!Dropping(n)) + need <= Capacity
<1>1. /\ PoolTypeOK /\ OrderInv /\ Unique
      /\ a \in Nat /\ e \in Nat /\ e <= a /\ v \in Nat /\ v <= e /\ Before = e - v
      /\ residentBytes = Total(Weight, e + 1 .. a) /\ need \in Nat
  <2>1. PoolTypeOK /\ OrderInv /\ Unique /\ residentBytes = Total(Weight, e + 1 .. a)
    BY DEF TraceInv
  <2>2. Len(victims) \in Nat /\ Len(victims) <= evictions
    BY DEF TraceInv, VictimsAreOldest
  <2>3. QED
    BY <2>1, <2>2, OrderFacts DEF Before, PoolTypeOK
<1>2. len = a - Before
  <2>1. Before \in Nat /\ Before <= a
    BY <1>1
  <2>2. Len(After(Before)) = a - Before
    BY <1>1, <2>1, AfterIsSeq
  <2>3. QED
    BY <2>2, AllAre DEF AllAreAfter
<1>3. ASSUME NEW n \in 0 .. len
      PROVE  /\ Arena!Held(Arena!Dropping(n)) = Total(Weight, Before + n + 1 .. a)
             /\ Total(Weight, Before + n + 1 .. a) \in Nat
  <2>1. n \in 0 .. a - Before /\ Before + n \in Nat /\ Before + n <= a
    BY <1>1, <1>2
  <2>2. Arena!Dropping(n) = After(Before + n)
    BY <2>1, DroppingIs
  <2>3. Arena!Held(After(Before + n)) = Total(Weight, Before + n + 1 .. a)
    BY <1>1, <2>1, HeldAfter
  <2> DEFINE S == Before + n + 1 .. a
  <2>4. IsFiniteSet(S)
    BY <1>1, <2>1, FS_Interval
  <2>5. \A id \in S : Weight[id] \in Nat
    <3>1. \A id \in S : id \in 1 .. a
      BY <1>1, <2>1
    <3>2. QED
      BY <1>1, <3>1, SizeIs
  <2>6. Total(Weight, S) \in Nat
    <3> HIDE DEF S
    <3>1. QED
      BY <2>4, <2>5, SumIsNat
  <2>7. QED
    BY <2>2, <2>3, <2>6
<1>4. v \in 0 .. len /\ Before + v + 1 = e + 1
  BY <1>1, <1>2
<1>5. Arena!Held(Arena!Dropping(v)) + need <= Capacity
  <2>1. residentBytes + need <= Capacity
    <3>1. CASE entries = << >>
      BY <1>1, <3>1, PoolAssumption DEF TraceInv, BoundInv, RoomWhenEmpty, NeedFits
    <3>2. CASE entries # << >>
      BY <1>1, <3>2, PoolAssumption DEF FinishInsert, NoRoom, PoolTypeOK
    <3>3. QED
      BY <3>1, <3>2
  <2>2. Arena!Held(Arena!Dropping(v)) = Total(Weight, e + 1 .. a)
    BY <1>3, <1>4
  <2>3. QED
    BY <1>1, <2>1, <2>2
<1>6. ASSUME NEW m \in 0 .. v - 1
      PROVE  Arena!Held(Arena!Dropping(m)) + need > Capacity
  <2> DEFINE S == Before + m + 1 .. a
             T == e .. a
  <2>1. m \in 0 .. len /\ v > 0 /\ Before + m + 1 <= e /\ Before + m + 1 \in 1 .. e
    BY <1>1, <1>2, <1>4
  <2>2. T \in SUBSET S
    BY <1>1, <2>1
  <2>3. IsFiniteSet(S)
    BY <1>1, <2>1, FS_Interval
  <2>4. \A id \in S : Weight[id] \in Nat
    <3>1. \A id \in S : id \in 1 .. a
      BY <1>1, <2>1
    <3>2. QED
      BY <1>1, <3>1, SizeIs
  <2>5. Total(Weight, T) + need > Capacity
    BY <2>1 DEF TraceInv, LastWasNeeded
  <2>6. Arena!Held(Arena!Dropping(m)) = Total(Weight, S) /\ Total(Weight, S) \in Nat
    BY <1>3, <2>1
  <2> HIDE DEF S, T
  <2>7. Total(Weight, T) <= Total(Weight, S)
    BY <2>2, <2>3, <2>4, SumGrows
  <2>8. Total(Weight, T) \in Nat
    <3>1. IsFiniteSet(T) /\ \A id \in T : Weight[id] \in Nat
      BY <2>2, <2>3, <2>4, FS_Subset
    <3>2. QED
      BY <3>1, SumIsNat
  <2>9. QED
    BY <1>1, <2>5, <2>6, <2>7, <2>8, PoolAssumption
<1>7. ASSUME NEW n \in 0 .. len,
             Arena!Held(Arena!Dropping(n)) + need <= Capacity,
             \A m \in 0 .. n - 1 : Arena!Held(Arena!Dropping(m)) + need > Capacity
      PROVE  n = v
  <2>1. ASSUME NEW x \in Nat
        PROVE  ~(x + need <= Capacity /\ x + need > Capacity)
    BY <1>1, PoolAssumption
  <2>2. CASE n < v
    <3>1. n \in 0 .. v - 1
      BY <1>4, <2>2
    <3>2. Arena!Held(Arena!Dropping(n)) + need > Capacity
      BY <1>6, <3>1
    <3>3. Arena!Held(Arena!Dropping(n)) \in Nat
      BY <1>3
    <3>4. QED
      BY <1>7, <2>1, <3>2, <3>3
  <2>3. CASE v < n
    <3>1. v \in 0 .. n - 1
      BY <1>4, <2>3
    <3>2. Arena!Held(Arena!Dropping(v)) + need > Capacity
      BY <1>7, <3>1
    <3>3. Arena!Held(Arena!Dropping(v)) \in Nat
      BY <1>3, <1>4
    <3>4. QED
      BY <1>5, <2>1, <3>2, <3>3
  <2>4. len \in Nat
    BY <1>1, <1>2
  <2>5. QED
    BY <1>4, <2>2, <2>3, <2>4
<1>8. Arena!Victims(need) =
        CHOOSE n \in 0 .. len :
          /\ Arena!Held(Arena!Dropping(n)) + need <= Capacity
          /\ \A m \in 0 .. n - 1 : Arena!Held(Arena!Dropping(m)) + need > Capacity
  BY DEF Arena!Victims
<1> HIDE DEF v, len
<1>9. QED
  BY <1>4, <1>5, <1>6, <1>7, <1>8 DEF v

\* The end of an insertion is the step of the arena.
LEMMA FinishIsAllocate ==
  ASSUME TraceInv, TraceInv', TracedNext, FinishInsert
  PROVE  Arena!Allocate(need) /\ need \in Sizes
<1> DEFINE a == allocations
           e == evictions
           v == Len(victims)
           R == [id : Nat, bytes : Nat]
           new == [id |-> a + 1, bytes |-> need]
<1>1. /\ PoolTypeOK /\ OrderInv /\ Unique /\ PoolTypeOK' /\ OrderInv' /\ Unique'
      /\ a \in Nat /\ e \in Nat /\ e <= a /\ v \in Nat /\ v <= e /\ Before = e - v /\ need \in Nat
  <2>1. PoolTypeOK /\ OrderInv /\ Unique /\ PoolTypeOK' /\ OrderInv' /\ Unique'
    BY DEF TraceInv
  <2>2. Len(victims) \in Nat /\ Len(victims) <= evictions
    BY DEF TraceInv, VictimsAreOldest
  <2>3. QED
    BY <2>1, <2>2, OrderFacts DEF Before, PoolTypeOK
<1>2. need <= Capacity /\ need \in Sizes /\ a < MaxAllocations /\ allocations' = a + 1
      /\ evictions' = e /\ victims' = << >>
  BY DEF TraceInv, BoundInv, NeedFits, FinishInsert, TracedNext
<1>3. Arena!Dropping(Arena!Victims(need)) = After(e)
  <2>1. Arena!Victims(need) = v
    BY VictimsAreTheFewest
  <2>2. v \in 0 .. a - Before /\ Before + v = e
    BY <1>1
  <2>3. Arena!Dropping(v) = After(Before + v)
    BY <2>2, DroppingIs
  <2>4. QED
    BY <2>1, <2>2, <2>3
<1>4. /\ After(e) \in Seq(R) /\ Len(After(e)) = a - e
      /\ \A n \in 1 .. a - e : After(e)[n] = Allocated(e + n)
  BY <1>1, AfterIsSeq
<1>5. (victims \o Live)' = After(e)'
  <2>1. AllAreAfter'
    BY AllAre, PTL
  <2>2. Before' = e /\ e' = e
    BY <1>1, <1>2 DEF Before
  <2>3. After(Before)' = After(e)'
    BY <2>2 DEF After, Allocated
  <2>4. QED
    BY <2>1, <2>3 DEF AllAreAfter
<1>6. /\ \A id \in 1 .. a : SizeOf(id)' = SizeOf(id)
      /\ \A id \in Nat : id = a + 1 => SizeOf(id)' = need
  BY <1>1, FinishSizes
<1>7. ASSUME NEW n \in 1 .. a + 1 - e
      PROVE  Allocated(e + n)' = IF n <= a - e THEN After(e)[n] ELSE new
  <2>1. CASE n <= a - e
    <3>1. n \in 1 .. a - e /\ e + n \in 1 .. a
      BY <1>1, <2>1
    <3>2. ASSUME NEW k \in 1 .. a, k = e + n, k = e' + n
          PROVE  Allocated(e + n)' = Allocated(e + n)
      BY <1>6, <3>2 DEF Allocated
    <3>3. e' = e
      BY <1>2
    <3>4. QED
      BY <1>4, <2>1, <3>1, <3>2, <3>3
  <2>2. CASE ~(n <= a - e)
    <3>1. e + n = a + 1 /\ a + 1 \in Nat
      BY <1>1, <2>2
    <3>2. ASSUME NEW k \in Nat, k = a + 1, k = e' + n
          PROVE  Allocated(e + n)' = new
      BY <1>6, <3>2 DEF Allocated
    <3>3. e' = e
      BY <1>2
    <3>4. QED
      BY <2>2, <3>1, <3>2, <3>3
  <2>3. QED
    BY <2>1, <2>2
<1> DEFINE s == After(e)
           len == a - e
<1>8. After(e)' = [n \in 1 .. a + 1 - e |-> IF n <= len THEN s[n] ELSE new]
  <2>1. \A n \in 1 .. a + 1 - e : Allocated(e + n)' = IF n <= len THEN s[n] ELSE new
    BY <1>7
  <2>2. allocations' - e' = a + 1 - e
    <3>1. allocations' = a + 1 /\ e' = e /\ a \in Nat /\ e \in Nat
      BY <1>1, <1>2
    <3>2. QED
      BY <3>1, SMT
  <2> HIDE DEF s, new, len
  <2>3. After(e)' = [n \in 1 .. allocations' - e' |-> Allocated(e + n)']
    BY DEF After
  <2>4. QED
    BY <2>1, <2>2, <2>3
<1>9. Append(s, new) = [n \in 1 .. len + 1 |-> IF n <= len THEN s[n] ELSE new]
  <2>1. new \in R /\ len \in Nat /\ s \in Seq(R) /\ Len(s) = len
    BY <1>1, <1>4
  <2> HIDE DEF s, new, R, len
  <2>2. Append(s, new) \in Seq(R) /\ Len(Append(s, new)) = len + 1
    BY <2>1
  <2>3. \A n \in 1 .. len + 1 : Append(s, new)[n] = IF n <= len THEN s[n] ELSE new
    BY <2>1
  <2> DEFINE t == Append(s, new)
  <2>4. t \in Seq(R) /\ Len(t) = len + 1 /\ \A n \in 1 .. len + 1 : t[n] = IF n <= len THEN s[n] ELSE new
    BY <2>2, <2>3
  <2> HIDE DEF t
  <2>5. t = [n \in 1 .. len + 1 |-> t[n]]
    BY <2>4
  <2>6. t = [n \in 1 .. len + 1 |-> IF n <= len THEN s[n] ELSE new]
    BY <2>4, <2>5
  <2>7. QED
    BY <2>6 DEF t
<1>10. (victims \o Live)' = Append(After(e), new)
  <2>1. len + 1 = a + 1 - e
    BY <1>1
  <2>2. QED
    BY <1>5, <1>8, <1>9, <2>1
<1>11. QED
  BY <1>2, <1>3, <1>10 DEF Arena!Allocate

\* A step of the traced pool is a step of the arena, or none.
LEMMA TracedStepIsArenaStep ==
  TraceInv /\ TraceInv' /\ [TracedNext]_tracedVars => [Arena!ArenaNext]_(Arena!arenaVars)
<1> SUFFICES ASSUME TraceInv, TraceInv', [TracedNext]_tracedVars
             PROVE  [Arena!ArenaNext]_(Arena!arenaVars)
  OBVIOUS
<1>1. PoolTypeOK /\ OrderInv /\ Unique /\ PoolTypeOK' /\ OrderInv' /\ Unique'
  BY DEF TraceInv
<1>2. CASE TracedNext /\ \E bytes \in Sizes : BeginInsert(bytes)
  <2>1. entries' = entries /\ allocations' = allocations /\ evictions' = evictions
        /\ lock = "free" /\ lock' = "held"
    BY <1>2 DEF BeginInsert
  <2>2. Before' = Before
    BY <1>2, <2>1 DEF TracedNext, Before
  <2>3. \A id \in 1 .. allocations : SizeOf(id)' = SizeOf(id)
    BY <2>1 DEF SizeOf
  <2>4. QED
    BY <2>1, <2>2, <2>3, SameAll DEF Arena!arenaVars
<1>3. CASE TracedNext /\ Evict
  <2>1. allocations' = allocations
    BY <1>3 DEF Evict
  <2>2. QED
    BY <1>1, <1>3, <2>1, EvictKeepsGone, EvictSizes, SameAll DEF Arena!arenaVars
<1>4. CASE TracedNext /\ FinishInsert
  BY <1>4, FinishIsAllocate DEF Arena!ArenaNext
<1>5. CASE UNCHANGED tracedVars
  BY <1>5 DEF tracedVars, Arena!arenaVars, Live, Aged, ActiveIds, SizeOf
<1>6. QED
  BY <1>2, <1>3, <1>4, <1>5 DEF TracedNext, PoolNext

\* The pool of the modeled executor implements the arena (allocate_resident of model.rs,
\* whose loop evicts one entry at a time and rotates the deque, against allocate of
\* arena.rs): what an insertion leaves is what dropping the fewest of the oldest leaves.
THEOREM PoolImplementsArena == TracedSpec => ImplementsArena
<1>1. TracedInit => Arena!ArenaInit
  <2> SUFFICES ASSUME TracedInit
               PROVE  Arena!ArenaInit
    OBVIOUS
  <2>1. entries = << >> /\ allocations = 0 /\ evictions = 0 /\ victims = << >>
    BY DEF TracedInit, PoolInit
  <2>2. TraceInv
    BY TraceStarts
  <2>3. victims \o Live = After(Before)
    BY <2>2, AllIs
  <2>4. After(Before) = << >>
    <3>1. PoolTypeOK /\ OrderInv /\ Unique
      BY <2>2 DEF TraceInv
    <3>2. Before = 0
      <4>1. Len(victims) = 0 /\ evictions = 0
        BY <2>1
      <4>2. evictions - Len(victims) = 0 - 0
        BY <4>1, Zenon
      <4>3. QED
        BY <4>2, SMT DEF Before
    <3>3. After(Before) \in Seq([id : Nat, bytes : Nat]) /\ Len(After(Before)) = 0
      BY <2>1, <3>1, <3>2, AfterIsSeq
    <3> DEFINE s == After(Before)
    <3> HIDE DEF s
    <3>4. s \in Seq([id : Nat, bytes : Nat]) /\ Len(s) = 0
      BY <3>3 DEF s
    <3>5. s = << >>
      BY <3>4
    <3>6. QED
      BY <3>5 DEF s
  <2>5. QED
    BY <2>1, <2>3, <2>4 DEF Arena!ArenaInit
<1>2. QED
  BY <1>1, TraceInvariance, TracedStepIsArenaStep, PTL DEF TracedSpec, ImplementsArena, Arena!ArenaSpec
=============================================================================
