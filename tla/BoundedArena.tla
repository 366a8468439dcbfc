---------------------------- MODULE BoundedArena ----------------------------
(***************************************************************************)
(* What a resident arena promises: a byte ceiling kept by dropping the     *)
(* oldest allocations, and no more of them than the new one needs.         *)
(*                                                                         *)
(* The wgpu arena (arena.rs) is owned through &mut self, so one allocate   *)
(* call is one step here.  The tombstones it keeps for evicted allocations *)
(* are abstracted away: contains() only ever answers for active ones.      *)
(* ResidentPool, the loop the modeled executor runs, implements this.      *)
(***************************************************************************)
EXTENDS Naturals, Sequences, SequencesExt

CONSTANTS Capacity,   \* max_bytes: the byte ceiling
          Sizes,      \* the allocation sizes callers ask for
          MaxAllocations  \* bound on next_id, for model checking

ASSUME ArenaAssumption ==
  /\ Capacity \in Nat
  /\ Sizes \subseteq Nat
  /\ MaxAllocations \in Nat

VARIABLES live,       \* the active allocations, oldest first
          nextId      \* id given to the last allocation

arenaVars == <<live, nextId>>

LiveAllocation == [id : Nat, bytes : Nat]

Held(allocations) == FoldSeq(LAMBDA a, sum : a.bytes + sum, 0, allocations)

Dropping(n) == SubSeq(live, n + 1, Len(live))

\* How many of the oldest allocations go to make room for `bytes` more.
Victims(bytes) ==
  CHOOSE n \in 0 .. Len(live) :
    /\ Held(Dropping(n)) + bytes <= Capacity
    /\ \A m \in 0 .. n - 1 : Held(Dropping(m)) + bytes > Capacity

ArenaInit == live = << >> /\ nextId = 0

Allocate(bytes) ==
  /\ bytes <= Capacity
  /\ nextId < MaxAllocations
  /\ nextId' = nextId + 1
  /\ live' = Append(Dropping(Victims(bytes)), [id |-> nextId + 1, bytes |-> bytes])

ArenaNext == \E bytes \in Sizes : Allocate(bytes)

ArenaSpec == ArenaInit /\ [][ArenaNext]_arenaVars
=============================================================================
