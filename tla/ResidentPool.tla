---------------------------- MODULE ResidentPool ----------------------------
(***************************************************************************)
(* The bounded resident pool of ModeledTensorExecutor: live_allocations,   *)
(* resident_bytes and evictions of ModeledCounters, and the loop of        *)
(* allocate_resident that runs under the counters lock.  One iteration of  *)
(* the loop is one step.  An evicted allocation is not removed: it is      *)
(* marked inactive and rotated to the back of the deque, so the order the  *)
(* deque is left in is not the order of allocation.                        *)
(***************************************************************************)
EXTENDS Naturals, Sequences

CONSTANTS Capacity,        \* profile.max_resident_bytes
          Sizes,           \* result sizes in bytes
          MaxAllocations   \* bound on resident_allocations, for model checking

ASSUME PoolAssumption ==
  /\ Capacity \in Nat
  /\ Sizes \subseteq Nat
  /\ MaxAllocations \in Nat

VARIABLES entries,         \* live_allocations, front first
          residentBytes,   \* resident_bytes
          allocations,     \* resident_allocations; the last handle given out
          evictions,
          lock,            \* an allocation holds the counters lock
          need             \* the bytes it asks for

poolVars == <<entries, residentBytes, allocations, evictions, lock, need>>

Entry == [id : Nat, bytes : Nat, state : {"active", "evicted"}]

PoolTypeOK ==
  /\ entries \in Seq(Entry)
  /\ residentBytes \in Nat
  /\ allocations \in Nat
  /\ evictions \in Nat
  /\ lock \in {"free", "held"}
  /\ need \in Nat

PoolInit ==
  /\ entries = << >>
  /\ residentBytes = 0
  /\ allocations = 0
  /\ evictions = 0
  /\ lock = "free"
  /\ need = 0

Monus(a, b) == IF b <= a THEN a - b ELSE 0

\* is_resident_active
IsActive(id) == \E i \in DOMAIN entries : entries[i].state = "active" /\ entries[i].id = id

-----------------------------------------------------------------------------
(* Mutated forms, each a slip the definition after it could have had.      *)

NoRoomIgnoringRequest == residentBytes > Capacity
NoRoomOffByOne == residentBytes + need >= Capacity

EvictWithoutRefund ==
  /\ entries' = Append(Tail(entries), [Head(entries) EXCEPT !.state = "evicted"])
  /\ residentBytes' = residentBytes
  /\ evictions' = IF Head(entries).state = "active" THEN evictions + 1 ELSE evictions

EvictNewest ==
  LET last == entries[Len(entries)] IN
  /\ entries' = <<[last EXCEPT !.state = "evicted"]>> \o SubSeq(entries, 1, Len(entries) - 1)
  /\ residentBytes' = IF last.state = "active" THEN Monus(residentBytes, last.bytes) ELSE residentBytes
  /\ evictions' = IF last.state = "active" THEN evictions + 1 ELSE evictions

-----------------------------------------------------------------------------
\* The while condition of allocate_resident.
NoRoom == residentBytes + need > Capacity

\* The body of the loop: pop the front, retire it if it is active, push it back.
RetireFront ==
  /\ entries' = Append(Tail(entries), [Head(entries) EXCEPT !.state = "evicted"])
  /\ residentBytes' = IF Head(entries).state = "active"
                      THEN Monus(residentBytes, Head(entries).bytes)
                      ELSE residentBytes
  /\ evictions' = IF Head(entries).state = "active" THEN evictions + 1 ELSE evictions

BeginInsert(bytes) ==
  /\ lock = "free"
  /\ bytes <= Capacity
  /\ allocations < MaxAllocations
  /\ lock' = "held"
  /\ need' = bytes
  /\ UNCHANGED <<entries, residentBytes, allocations, evictions>>

Evict ==
  /\ lock = "held"
  /\ NoRoom
  /\ entries # << >>
  /\ RetireFront
  /\ UNCHANGED <<allocations, lock, need>>

FinishInsert ==
  /\ lock = "held"
  /\ ~NoRoom \/ entries = << >>
  /\ allocations' = allocations + 1
  /\ residentBytes' = residentBytes + need
  /\ entries' = Append(entries, [id |-> allocations + 1, bytes |-> need, state |-> "active"])
  /\ lock' = "free"
  /\ need' = 0
  /\ UNCHANGED evictions

PoolNext ==
  \/ \E bytes \in Sizes : BeginInsert(bytes)
  \/ Evict
  \/ FinishInsert

PoolSpec == PoolInit /\ [][PoolNext]_poolVars

-----------------------------------------------------------------------------
(* Properties of the pool.                                                 *)

\* The bytes retained never exceed max_resident_bytes, in the middle of an
\* eviction loop included, although the loop may leave by its `break`.
PoolBounded == residentBytes <= Capacity

\* Eviction takes the oldest first whatever the rotation did to the deque: the
\* active allocations are exactly those made after the first `evictions` ones.
OldestFirst ==
  \A i \in DOMAIN entries : entries[i].state = "active" <=> entries[i].id > evictions
=============================================================================
