--------------------------- MODULE MCResidentPool ---------------------------
(***************************************************************************)
(* ResidentPool implements BoundedArena.  The history variable victims     *)
(* holds what the insertion in progress has evicted so far: the arena      *)
(* drops them at once, when the insertion ends.                            *)
(***************************************************************************)
EXTENDS ResidentPool, FiniteSets

VARIABLE victims

tracedVars == <<entries, residentBytes, allocations, evictions, lock, need, victims>>

\* The active allocations, oldest first, wherever the deque has them.
ActiveIds == {entries[i].id : i \in {j \in DOMAIN entries : entries[j].state = "active"}}

Aged(n) == CHOOSE id \in ActiveIds : Cardinality({k \in ActiveIds : k <= id}) = n

SizeOf(id) == entries[CHOOSE i \in DOMAIN entries : entries[i].id = id].bytes

Live == [n \in 1 .. Cardinality(ActiveIds) |-> [id |-> Aged(n), bytes |-> SizeOf(Aged(n))]]

TracedInit == PoolInit /\ victims = << >>

TracedNext ==
  /\ PoolNext
  /\ victims' = IF lock' = "free" THEN << >>
                ELSE IF lock = "held" /\ Head(entries).state = "active"
                THEN Append(victims, [id |-> Head(entries).id, bytes |-> Head(entries).bytes])
                ELSE victims

TracedSpec == TracedInit /\ [][TracedNext]_tracedVars

Arena == INSTANCE BoundedArena WITH live <- victims \o Live, nextId <- allocations

\* The rotating loop keeps the arena's promise: what it leaves active is what is
\* left of the allocations, oldest first, after dropping as few as possible.
ImplementsArena == Arena!ArenaSpec
=============================================================================
