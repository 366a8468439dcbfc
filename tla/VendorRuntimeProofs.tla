------------------------ MODULE VendorRuntimeProofs ------------------------
(***************************************************************************)
(* Proofs about the CUDA and ROCm providers, for any sites, threads,        *)
(* addresses, tensors and installations: who owns device memory, what it    *)
(* holds, and that the libraries it needs stay open.                        *)
(***************************************************************************)
EXTENDS VendorRuntimeProperties, TLAPS, FiniteSetTheorems

-----------------------------------------------------------------------------
(* The inductive invariant.                                                *)

Words == {"garbage", "host", "zeros", "x", "error"}

Terms == Seq(Words)

Places == {"idle", "left", "right", "output", "handle", "gemm"}

Buffers == Operands \cup {"output"}

Slot ==
  [state : {"empty", "pending", "device", "host"}, held : BOOLEAN, site : Sites \cup {None},
   addr : Addresses \cup {None}, value : Terms, read : Terms]

Call ==
  [at : Places, site : Sites \cup {None}, inputs : [Operands -> Tensors \cup {"host"}],
   into : Tensors \cup {None}, shape : Shapes \cup {None}, raw : Addresses \cup {None},
   bufs : [Buffers -> Addresses \cup {None}]]

Files == {OpenFirst(i[l]) : i \in Installations, l \in CalledLibraries} \cup {{}}

SiteType ==
  /\ site \in [Sites -> [status : {"unprobed", "runtime", "absent", "evidence", "dropped"},
                         exports : [CalledLibraries -> Files]]]
  /\ loaded \subseteq Sites
  /\ counters \in [Sites -> [accepted : Nat, queued : Nat, next : Nat]]
  /\ handles \in [Sites -> Int]
  /\ ended \in [Sites -> [produced : Nat, failed : Nat, oversized : Nat, flushed : Nat]]

DataType ==
  /\ memory \in [Sites -> [Addresses -> Terms]]
  /\ tensors \in [Tensors -> Slot]
  /\ call \in [Threads -> Call]

Busy(t) == call[t].at # "idle"

Ref(s, a) == Referenced(tensors, call, s, a)

(* What a call has claimed: a site, a slot for its result, its operands.   *)
Claims(t) ==
  /\ call[t].site \in Sites /\ site[call[t].site].status \in {"runtime", "evidence"}
  /\ call[t].into \in Tensors /\ tensors[call[t].into].state = "pending"
  /\ \A u \in Threads \ {t} : Busy(u) => call[u].into # call[t].into
  /\ \A o \in Operands : call[t].inputs[o] # "host" => Stored(call[t].inputs[o])

(* What the place of a call says about its buffers.                        *)
Placed(c) ==
  /\ c.raw # None => c.at \in Buffers
  /\ c.bufs["left"] # None <=> c.at # "left"
  /\ c.bufs["right"] # None <=> c.at \notin {"left", "right"}
  /\ c.bufs["output"] # None <=> c.at \in {"handle", "gemm"}

CallShape ==
  \A t \in Threads :
    /\ ~Busy(t) => call[t] = Idle
    /\ Busy(t) => /\ Claims(t) /\ Placed(call[t])
                  /\ call[t].at # "left" \/ call[t].raw # None => OnRuntime(t)

TensorShape ==
  \A x \in Tensors : tensors[x].state = "device" => tensors[x].site \in Sites /\ tensors[x].addr \in Addresses

Shape == SiteType /\ DataType /\ CallShape /\ TensorShape

(* A buffer wrapped or not is owned as BuffersAccounted says, and an output *)
(* that is not in a tensor yet belongs to its call alone.                   *)
Owned ==
  \A s \in Sites, a \in Addresses :
    /\ (memory[s][a] # Free) <=> (Ref(s, a) \/ Raw(s, a) # {})
    /\ \A t, u \in Raw(s, a) : t = u
    /\ Raw(s, a) # {} => ~Ref(s, a)

OutputOwned ==
  \A t \in Threads : Busy(t) /\ call[t].bufs["output"] # None =>
    /\ \A x \in Tensors : tensors[x].state = "device" /\ tensors[x].site = call[t].site
         => tensors[x].addr # call[t].bufs["output"]
    /\ \A u \in Threads \ {t} : Busy(u) /\ call[u].site = call[t].site =>
         \A b \in Buffers : call[u].bufs[b] # call[t].bufs["output"]

(* An operand that is on the device holds what the request owes its reader, *)
(* and one being uploaded can be read.                                      *)
OperandsHeld ==
  \A t \in Threads : Busy(t) =>
    /\ \A o \in Operands : call[t].bufs[o] # None =>
         memory[call[t].site][call[t].bufs[o]] = Owed(call[t].inputs[o])
    /\ call[t].raw # None /\ call[t].at \in Operands =>
         ~Reusable(Operand(t), call[t].site) /\ Readable(Operand(t))

LibrariesOpen ==
  \A s \in Sites :
    /\ site[s].status = "runtime" => s \in loaded
    /\ \A a \in Addresses : Ref(s, a) => s \in loaded
    /\ s \in loaded =>
         /\ site[s].status \in {"runtime", "dropped"}
         /\ {"malloc", "free", "memcpy", "synchronize"} \subseteq site[s].exports["runtime"]
         /\ {"create", "destroy", "sgemm"} \subseteq site[s].exports["blas"]

MemoryInv == Owned /\ OutputOwned /\ OperandsHeld /\ ResultsAreProducts

RuntimeInv ==
  Shape /\ MemoryInv /\ LibrariesOpen /\ HandlesAccounted /\ EvidenceAccounted

-----------------------------------------------------------------------------
(* Terms and slots.                                                        *)

\* The words of the terms a buffer may hold, and what tells them from no term.
LEMMA TermFacts ==
  /\ Free \in Terms /\ Garbage \in Terms /\ HostValue \in Terms /\ Zeros \in Terms
  /\ Unread \in Terms /\ ReadError \in Terms
  /\ Garbage # Free /\ HostValue # Free /\ Zeros # Free /\ Unread = Free
  /\ HostValue \notin {Unread, ReadError}
<1>1. << >> \in Terms /\ \A w \in Words : <<w>> \in Terms /\ <<w>> # << >>
  BY DEF Terms
<1>2. <<"host">> # <<"error">>
  OBVIOUS
<1>3. {"garbage", "host", "zeros", "error"} \subseteq Words
  BY DEF Words
<1>4. QED
  BY <1>1, <1>2, <1>3 DEF Free, Garbage, HostValue, Zeros, Unread, ReadError

\* A product is a term, and never the term of a free address.
LEMMA ProductFacts ==
  ASSUME NEW l \in Terms, NEW r \in Terms
  PROVE  Product(l, r) \in Terms /\ Product(l, r) # Free
<1>1. "x" \in Words
  BY DEF Words
<1>2. <<"x">> \o l \in Seq(Words) /\ Len(<<"x">> \o l) = 1 + Len(l)
  BY <1>1 DEF Terms
<1>3. (<<"x">> \o l) \o r \in Seq(Words) /\ Len((<<"x">> \o l) \o r) = 1 + Len(l) + Len(r)
  BY <1>2 DEF Terms
<1>4. Len(l) \in Nat /\ Len(r) \in Nat /\ Len(<< >>) = 0
  BY DEF Terms
<1>5. QED
  BY <1>3, <1>4 DEF Product, Terms, Free

\* An empty slot is a slot.
LEMMA EmptySlotType == EmptySlot \in Slot /\ EmptySlot.state = "empty"
BY TermFacts DEF EmptySlot, Slot, Terms, Unread

\* A thread between calls is in a call that holds nothing.
LEMMA IdleType == Idle \in Call /\ Idle.at = "idle" /\ Idle.site = None /\ Idle.raw = None
BY DEF Idle, Call, Places, NoBuffers, Buffers, Operands

\* A slot keeps what it holds as long as somebody holds it.
LEMMA KeptFacts ==
  ASSUME NEW slots, NEW calls, NEW x \in Tensors
  PROVE  /\ Kept(slots, calls)[x] \in {slots[x], EmptySlot}
         /\ (slots[x].state \notin {"device", "host"} \/ slots[x].held \/ HeldBy(calls, x))
              => Kept(slots, calls)[x] = slots[x]
BY DEF Kept

-----------------------------------------------------------------------------
(* Releasing.                                                              *)

\* A slot, a buffer, a library after what the program still names is counted again.
LEMMA ReleaseFacts ==
  ASSUME NEW slots, NEW calls, NEW mem, NEW sites, Release(slots, calls, mem, sites)
  PROVE  /\ call' = calls /\ tensors' = [x \in Tensors |-> tensors'[x]]
         /\ \A x \in Tensors :
              /\ tensors'[x] \in {slots[x], EmptySlot}
              /\ (slots[x].state \notin {"device", "host"} \/ slots[x].held \/ HeldBy(calls, x))
                   => tensors'[x] = slots[x]
         /\ memory' = [s \in Sites |-> [a \in Addresses |->
                         IF Ref(s, a) /\ ~Ref(s, a)' THEN Free ELSE mem[s][a]]]
         /\ loaded' = {s \in loaded : sites[s].status = "runtime" \/ \E a \in Addresses : Ref(s, a)'}
<1>1. tensors' = Kept(slots, calls) /\ call' = calls
  BY DEF Release
<1>2. \A x \in Tensors :
        /\ tensors'[x] \in {slots[x], EmptySlot}
        /\ (slots[x].state \notin {"device", "host"} \/ slots[x].held \/ HeldBy(calls, x))
             => tensors'[x] = slots[x]
  BY <1>1, KeptFacts
<1>3. tensors' = [x \in Tensors |-> tensors'[x]]
  BY <1>1 DEF Kept
<1>4. \A s, a : Referenced(Kept(slots, calls), calls, s, a) <=> Ref(s, a)'
  BY <1>1 DEF Ref
<1>5. memory' = [s \in Sites |-> [a \in Addresses |->
                   IF Ref(s, a) /\ ~Ref(s, a)' THEN Free ELSE mem[s][a]]]
  BY <1>4 DEF Release, Freed, Ref
<1>6. loaded' = {s \in loaded : sites[s].status = "runtime" \/ \E a \in Addresses : Ref(s, a)'}
  BY <1>4 DEF Release, Hosted
<1>7. QED
  BY <1>1, <1>2, <1>3, <1>5, <1>6

\* A call ends: with its result in `storage`, or with an error and an empty slot.
EndCall(t, storage, mem) ==
  /\ Busy(t)
  /\ Release([tensors EXCEPT ![call[t].into] = storage], [call EXCEPT ![t] = Idle], mem, site)
  /\ UNCHANGED <<site, counters>>

Result(storage) == storage \in Slot /\ storage.state \in {"empty", "device", "host"}
                   /\ (storage = EmptySlot \/ storage.held)

\* What the end of a call leaves to the others.
LEMMA EndFrame ==
  ASSUME Shape, NEW t \in Threads, NEW storage, NEW mem, Result(storage), EndCall(t, storage, mem)
  PROVE  /\ call' = [call EXCEPT ![t] = Idle] /\ call' \in [Threads -> Call]
         /\ tensors' \in [Tensors -> Slot]
         /\ tensors'[call[t].into] = storage
         /\ \A x \in Tensors \ {call[t].into} :
              /\ tensors'[x] \in {tensors[x], EmptySlot}
              /\ (~Stored(x) \/ \E u \in Threads \ {t} : Busy(u) /\ \E o \in Operands : call[u].inputs[o] = x)
                   => tensors'[x] = tensors[x]
<1> DEFINE i == call[t].into
           slots == [tensors EXCEPT ![i] = storage]
           calls == [call EXCEPT ![t] = Idle]
<1>1. /\ tensors \in [Tensors -> Slot] /\ call \in [Threads -> Call] /\ i \in Tensors
  BY DEF Shape, DataType, CallShape, EndCall, Claims
<1>2. /\ slots \in [Tensors -> Slot] /\ slots[i] = storage
      /\ \A x \in Tensors \ {i} : slots[x] = tensors[x]
  BY <1>1 DEF Result
<1>3. /\ calls \in [Threads -> Call] /\ calls[t] = Idle
      /\ \A u \in Threads \ {t} : calls[u] = call[u]
  BY <1>1, IdleType
<1>4. Release(slots, calls, mem, site)
  BY DEF EndCall
<1>5. /\ call' = calls /\ tensors' = [x \in Tensors |-> tensors'[x]]
      /\ \A x \in Tensors :
           /\ tensors'[x] \in {slots[x], EmptySlot}
           /\ (slots[x].state \notin {"device", "host"} \/ slots[x].held \/ HeldBy(calls, x))
                => tensors'[x] = slots[x]
  <2> HIDE DEF slots, calls
  <2>1. QED
    BY <1>4, ReleaseFacts
<1>6. tensors'[i] = storage
  <2>1. storage.state \notin {"device", "host"} \/ storage.held
    BY EmptySlotType DEF Result
  <2>2. QED
    BY <1>1, <1>2, <1>5, <2>1
<1>7. \A x \in Tensors : tensors'[x] \in Slot
  BY <1>2, <1>5, EmptySlotType
<1>8. tensors' \in [Tensors -> Slot]
  BY <1>5, <1>7
<1>9. ASSUME NEW x \in Tensors \ {i}
      PROVE  /\ tensors'[x] \in {tensors[x], EmptySlot}
             /\ (~Stored(x) \/ \E u \in Threads \ {t} : Busy(u) /\ \E o \in Operands : call[u].inputs[o] = x)
                  => tensors'[x] = tensors[x]
  <2>1. tensors'[x] \in {tensors[x], EmptySlot}
    BY <1>2, <1>5
  <2>2. ~Stored(x) => slots[x].state \notin {"device", "host"}
    BY <1>2 DEF Stored
  <2>3. (\E u \in Threads \ {t} : Busy(u) /\ \E o \in Operands : call[u].inputs[o] = x) => HeldBy(calls, x)
    BY <1>3 DEF HeldBy, Busy
  <2>4. QED
    BY <1>2, <1>5, <2>1, <2>2, <2>3
<1>10. QED
  BY <1>3, <1>5, <1>6, <1>8, <1>9

-----------------------------------------------------------------------------
(* Shape.                                                                  *)

\* The end of a call keeps the shape of the others.
LEMMA EndShape ==
  ASSUME Shape, NEW t \in Threads, NEW storage, NEW mem, Result(storage), EndCall(t, storage, mem),
         storage.state = "device" => storage.site \in Sites /\ storage.addr \in Addresses,
         memory' \in [Sites -> [Addresses -> Terms]],
         handles' \in [Sites -> Int],
         ended' \in [Sites -> [produced : Nat, failed : Nat, oversized : Nat, flushed : Nat]]
  PROVE  Shape'
<1>1. /\ call' = [call EXCEPT ![t] = Idle] /\ call' \in [Threads -> Call]
      /\ tensors' \in [Tensors -> Slot]
      /\ tensors'[call[t].into] = storage
      /\ \A x \in Tensors \ {call[t].into} :
           /\ tensors'[x] \in {tensors[x], EmptySlot}
           /\ (~Stored(x) \/ \E u \in Threads \ {t} : Busy(u) /\ \E o \in Operands : call[u].inputs[o] = x)
                => tensors'[x] = tensors[x]
  BY EndFrame
<1>2. UNCHANGED <<site, counters>> /\ loaded' \subseteq loaded
  BY ReleaseFacts DEF EndCall
<1>3. SiteType'
  BY <1>2 DEF Shape, SiteType
<1>4. DataType'
  BY <1>1 DEF DataType
<1>5. TensorShape'
  BY <1>1, EmptySlotType DEF Shape, TensorShape
<1>6. call'[t] = Idle /\ \A u \in Threads \ {t} : call'[u] = call[u]
  BY <1>1 DEF Shape, DataType
<1>7. ASSUME NEW u \in Threads, Busy(u)'
      PROVE  Claims(u)' /\ Placed(call[u])' /\ (call[u].at # "left" \/ call[u].raw # None => OnRuntime(u))'
  <2>1. u # t /\ call'[u] = call[u] /\ Busy(u)
    BY <1>6, <1>7, IdleType DEF Busy
  <2>2. Claims(u) /\ Placed(call[u]) /\ (call[u].at # "left" \/ call[u].raw # None => OnRuntime(u))
    BY <2>1 DEF Shape, CallShape
  <2>3. Claims(t) /\ call[t].into # call[u].into
    BY <2>1 DEF Shape, CallShape, EndCall, Claims
  <2>4. tensors'[call[u].into] = tensors[call[u].into]
    BY <1>1, <2>2, <2>3 DEF Claims, Stored
  <2>5. \A o \in Operands : call[u].inputs[o] # "host" => Stored(call[u].inputs[o])'
    <3> SUFFICES ASSUME NEW o \in Operands, call[u].inputs[o] # "host"
                 PROVE  Stored(call[u].inputs[o])'
      OBVIOUS
    <3>1. call[u].inputs[o] \in Tensors /\ Stored(call[u].inputs[o])
      <4>1. call[u] \in Call
        BY DEF Shape, DataType
      <4>2. call[u].inputs[o] \in Tensors \cup {"host"}
        BY <4>1 DEF Call
      <4>3. QED
        BY <2>2, <4>2 DEF Claims
    <3>2. call[u].inputs[o] # call[t].into
      BY <2>3, <3>1 DEF Claims, Stored
    <3>3. tensors'[call[u].inputs[o]] = tensors[call[u].inputs[o]]
      BY <1>1, <2>1, <3>1, <3>2
    <3>4. QED
      BY <2>1, <3>1, <3>3 DEF Stored
  <2>6. \A v \in Threads \ {u} : Busy(v)' => call'[v].into # call'[u].into
    BY <1>6, <2>1, <2>2, IdleType DEF Claims, Busy
  <2>7. QED
    BY <1>2, <2>1, <2>2, <2>4, <2>5, <2>6 DEF Claims, OnRuntime
<1>8. \A u \in Threads : ~Busy(u)' => call'[u] = Idle
  BY <1>6 DEF Shape, CallShape, Busy
<1>9. CallShape'
  BY <1>7, <1>8 DEF CallShape
<1>10. QED
  BY <1>3, <1>4, <1>5, <1>9 DEF Shape

-----------------------------------------------------------------------------
(* Memory, when something is released.                                     *)

SameData(x) ==
  /\ tensors'[x].state = tensors[x].state /\ tensors'[x].site = tensors[x].site
  /\ tensors'[x].addr = tensors[x].addr /\ tensors'[x].value = tensors[x].value
  /\ tensors'[x].read = tensors[x].read

\* The output of a call that ends.
Leaving(s, a) ==
  \E t \in Threads : Busy(t) /\ ~Busy(t)' /\ call[t].site = s /\ call[t].bufs["output"] = a

\* Nothing but a call that ends refers to its output.
LEMMA LeavingAlone ==
  ASSUME Shape, OutputOwned, NEW s \in Sites, NEW a \in Addresses, Leaving(s, a),
         \A u \in Threads : Busy(u)' => Busy(u) /\ call'[u] = call[u]
  PROVE  /\ Ref(s, a)
         /\ \A x \in Tensors : tensors[x].state = "device" /\ tensors[x].site = s => tensors[x].addr # a
         /\ \A u \in Threads : Busy(u)' /\ call'[u].site = s => \A b \in Buffers : call'[u].bufs[b] # a
<1> PICK t \in Threads : Busy(t) /\ ~Busy(t)' /\ call[t].site = s /\ call[t].bufs["output"] = a
  BY DEF Leaving
<1>1. call[t].bufs["output"] # None
  BY VendorAssumption
<1>2. Ref(s, a)
  BY DEF Ref, Referenced, Busy, NoBuffers
<1>3. QED
  BY <1>1, <1>2 DEF OutputOwned

\* What survives is referred to as before, but for a result that takes over its call's output.
LEMMA ShedRefs ==
  ASSUME Shape, Shape', OutputOwned, NEW s \in Sites, NEW a \in Addresses, Ref(s, a)',
         \A u \in Threads : Busy(u)' => Busy(u) /\ call'[u] = call[u],
         \A x \in Tensors : tensors'[x].state = "device" =>
           SameData(x) \/ Leaving(tensors'[x].site, tensors'[x].addr)
  PROVE  Ref(s, a)
<1>1. CASE \E x \in Tensors : tensors'[x].state = "device" /\ tensors'[x].site = s /\ tensors'[x].addr = a
  <2> PICK x \in Tensors : tensors'[x].state = "device" /\ tensors'[x].site = s /\ tensors'[x].addr = a
    BY <1>1
  <2>1. CASE SameData(x)
    BY <2>1 DEF SameData, Ref, Referenced
  <2>2. CASE Leaving(s, a)
    BY <2>2, LeavingAlone
  <2>3. QED
    BY <2>1, <2>2
<1>2. CASE \E u \in Threads : Busy(u)' /\ call'[u].site = s /\ \E b \in Buffers : call'[u].bufs[b] = a
  BY <1>2 DEF Ref, Referenced, Busy, NoBuffers, Buffers
<1>3. QED
  BY <1>1, <1>2 DEF Ref, Referenced, Busy, NoBuffers, Buffers

\* Whatever is released, memory stays accounted for and keeps what it holds.
LEMMA Shed ==
  ASSUME Shape, Shape', MemoryInv, NEW mem,
         memory' = [s \in Sites |-> [a \in Addresses |->
                      IF Ref(s, a) /\ ~Ref(s, a)' THEN Free ELSE mem[s][a]]],
         \A u \in Threads : Busy(u)' => Busy(u) /\ call'[u] = call[u],
         \A x \in Tensors : tensors'[x].state = "device" =>
           \/ SameData(x)
           \/ /\ Leaving(tensors'[x].site, tensors'[x].addr)
              /\ mem[tensors'[x].site][tensors'[x].addr] = tensors'[x].value
              /\ tensors'[x].read = Unread,
         \A u \in Threads : Busy(u)' =>
           \A o \in Operands : call[u].inputs[o] # "host" => SameData(call[u].inputs[o]),
         \A s \in Sites, a \in Addresses : (mem[s][a] # Free) <=> (Ref(s, a) \/ Raw(s, a)' # {}),
         \A s \in Sites, a \in Addresses :
           Ref(s, a) => mem[s][a] = memory[s][a] \/ Leaving(s, a)
  PROVE  MemoryInv'
<1>1. \A s \in Sites, a \in Addresses : Ref(s, a)' => Ref(s, a)
  BY ShedRefs DEF MemoryInv
<1>2. \A s \in Sites, a \in Addresses : Raw(s, a)' \subseteq Raw(s, a)
  <2> SUFFICES ASSUME NEW s \in Sites, NEW a \in Addresses, NEW u \in Raw(s, a)'
               PROVE  u \in Raw(s, a)
    OBVIOUS
  <2>1. u \in Threads /\ call'[u].site = s /\ call'[u].raw = a
    BY DEF Raw
  <2>2. Busy(u)'
    BY <2>1, VendorAssumption, IdleType DEF Shape, CallShape
  <2>3. QED
    BY <2>1, <2>2 DEF Raw
<1>3. \A s \in Sites, a \in Addresses :
        memory'[s][a] = IF Ref(s, a) /\ ~Ref(s, a)' THEN Free ELSE mem[s][a]
  OBVIOUS
<1>4. Owned'
  <2> SUFFICES ASSUME NEW s \in Sites, NEW a \in Addresses
               PROVE  /\ (memory'[s][a] # Free) <=> (Ref(s, a)' \/ Raw(s, a)' # {})
                      /\ \A t, u \in Raw(s, a)' : t = u
                      /\ Raw(s, a)' # {} => ~Ref(s, a)'
    BY DEF Owned
  <2>1. /\ \A t, u \in Raw(s, a) : t = u
        /\ Raw(s, a) # {} => ~Ref(s, a)
    BY DEF MemoryInv, Owned
  <2>2. QED
    BY <1>1, <1>2, <1>3, <2>1
<1>5. OutputOwned'
  <2> SUFFICES ASSUME NEW t \in Threads, Busy(t)', call'[t].bufs["output"] # None
               PROVE  /\ \A x \in Tensors : tensors'[x].state = "device" /\ tensors'[x].site = call'[t].site
                           => tensors'[x].addr # call'[t].bufs["output"]
                      /\ \A u \in Threads \ {t} : Busy(u)' /\ call'[u].site = call'[t].site =>
                           \A b \in Buffers : call'[u].bufs[b] # call'[t].bufs["output"]
    BY DEF OutputOwned
  <2>1. Busy(t) /\ call'[t] = call[t]
    OBVIOUS
  <2>2. \A u \in Threads \ {t} : Busy(u)' /\ call'[u].site = call'[t].site =>
          \A b \in Buffers : call'[u].bufs[b] # call'[t].bufs["output"]
    BY <2>1 DEF MemoryInv, OutputOwned
  <2>3. ASSUME NEW x \in Tensors, tensors'[x].state = "device", tensors'[x].site = call'[t].site
        PROVE  tensors'[x].addr # call'[t].bufs["output"]
    <3>1. CASE SameData(x)
      <4>1. tensors[x].state = "device" /\ tensors[x].site = call[t].site /\ call[t].bufs["output"] # None
        BY <2>1, <2>3, <3>1 DEF SameData
      <4>2. tensors[x].addr # call[t].bufs["output"]
        BY <2>1, <4>1 DEF MemoryInv, OutputOwned
      <4>3. QED
        BY <2>1, <3>1, <4>2 DEF SameData
    <3>2. CASE Leaving(tensors'[x].site, tensors'[x].addr)
      <4>1. tensors'[x].site \in Sites /\ tensors'[x].addr \in Addresses
        BY <2>3 DEF Shape, TensorShape
      <4>2. QED
        BY <2>3, <3>2, <4>1, LeavingAlone DEF MemoryInv, Buffers
    <3>3. QED
      BY <2>3, <3>1, <3>2
  <2>4. QED
    BY <2>2, <2>3
<1>6. \A s \in Sites, a \in Addresses : Ref(s, a)' => memory'[s][a] = memory[s][a] \/ Leaving(s, a)
  BY <1>1, <1>3
<1>7. OperandsHeld'
  <2> SUFFICES ASSUME NEW t \in Threads, Busy(t)'
               PROVE  /\ \A o \in Operands : call'[t].bufs[o] # None =>
                           memory'[call'[t].site][call'[t].bufs[o]] = Owed(call[t].inputs[o])'
                      /\ call'[t].raw # None /\ call'[t].at \in Operands =>
                           ~Reusable(Operand(t), call[t].site)' /\ Readable(Operand(t))'
    BY DEF OperandsHeld
  <2>1. Busy(t) /\ call'[t] = call[t] /\ call[t].site \in Sites /\ call[t] \in Call
    BY DEF Shape, CallShape, Claims, DataType
  <2>2. \A o \in Operands : Owed(call[t].inputs[o])' = Owed(call[t].inputs[o])
    BY <2>1 DEF Owed, SameData
  <2>3. ASSUME NEW o \in Operands, call[t].bufs[o] # None
        PROVE  memory'[call[t].site][call[t].bufs[o]] = Owed(call[t].inputs[o])
    <3> DEFINE a == call[t].bufs[o]
    <3>1. a \in Addresses /\ o \in Buffers
      BY <2>1, <2>3 DEF Call, Buffers
    <3>2. Ref(call[t].site, a)'
      BY <2>1, <3>1 DEF Ref, Referenced, Busy, NoBuffers, Buffers
    <3>3. ~Leaving(call[t].site, a)
      BY <2>1, <3>1, LeavingAlone DEF MemoryInv
    <3>4. memory[call[t].site][a] = Owed(call[t].inputs[o])
      BY <2>1, <2>3 DEF MemoryInv, OperandsHeld
    <3>5. QED
      BY <1>6, <2>1, <3>1, <3>2, <3>3, <3>4
  <2>4. ASSUME call[t].raw # None, call[t].at \in Operands
        PROVE  ~Reusable(Operand(t), call[t].site)' /\ Readable(Operand(t))'
    <3>1. ~Reusable(Operand(t), call[t].site) /\ Readable(Operand(t))
      BY <2>1, <2>4 DEF MemoryInv, OperandsHeld
    <3>2. Operand(t)' = Operand(t) /\ (Operand(t) # "host" => SameData(Operand(t)))
      BY <2>1, <2>4 DEF Operand
    <3>3. QED
      BY <2>1, <3>1, <3>2 DEF Reusable, Readable, Cells, SameData
  <2>5. QED
    BY <2>1, <2>2, <2>3, <2>4
<1>8. ResultsAreProducts'
  <2> SUFFICES ASSUME NEW x \in Tensors, tensors'[x].state = "device"
               PROVE  /\ memory'[tensors'[x].site][tensors'[x].addr] = tensors'[x].value
                      /\ tensors'[x].read \in {Unread, ReadError, tensors'[x].value}
    BY DEF ResultsAreProducts
  <2>1. tensors'[x].site \in Sites /\ tensors'[x].addr \in Addresses
    BY DEF Shape, TensorShape
  <2>2. Ref(tensors[x].site, tensors[x].addr)'
    BY DEF Ref, Referenced
  <2>3. CASE SameData(x)
    <3>1. ~Leaving(tensors'[x].site, tensors'[x].addr)
      BY <2>1, <2>3, LeavingAlone DEF MemoryInv, SameData
    <3>2. QED
      BY <1>6, <2>1, <2>2, <2>3, <3>1 DEF MemoryInv, ResultsAreProducts, SameData
  <2>4. CASE /\ Leaving(tensors'[x].site, tensors'[x].addr)
             /\ mem[tensors'[x].site][tensors'[x].addr] = tensors'[x].value
             /\ tensors'[x].read = Unread
    BY <1>3, <2>1, <2>2, <2>4
  <2>5. QED
    BY <2>3, <2>4
<1>9. QED
  BY <1>4, <1>5, <1>7, <1>8 DEF MemoryInv

\* What the memory of a call that ends must be before anything is freed.
Settled(t, storage, mem) ==
  /\ mem \in [Sites -> [Addresses -> Terms]]
  /\ \A s \in Sites, a \in Addresses : (mem[s][a] # Free) <=> (Ref(s, a) \/ Raw(s, a) \ {t} # {})
  /\ \A s \in Sites, a \in Addresses :
       Ref(s, a) => mem[s][a] = memory[s][a] \/ (call[t].site = s /\ call[t].bufs["output"] = a)
  /\ storage.state = "device" =>
       /\ storage.site = call[t].site /\ storage.addr = call[t].bufs["output"]
       /\ storage.site \in Sites /\ storage.addr \in Addresses
       /\ mem[storage.site][storage.addr] = storage.value
       /\ storage.read = Unread

\* The end of a call keeps the others' memory.
LEMMA EndMemory ==
  ASSUME Shape, Shape', MemoryInv, NEW t \in Threads, NEW storage, NEW mem,
         Result(storage), EndCall(t, storage, mem), Settled(t, storage, mem)
  PROVE  MemoryInv'
<1>1. /\ call' = [call EXCEPT ![t] = Idle]
      /\ tensors'[call[t].into] = storage
      /\ \A x \in Tensors \ {call[t].into} :
           /\ tensors'[x] \in {tensors[x], EmptySlot}
           /\ (~Stored(x) \/ \E u \in Threads \ {t} : Busy(u) /\ \E o \in Operands : call[u].inputs[o] = x)
                => tensors'[x] = tensors[x]
  BY EndFrame
<1>2. memory' = [s \in Sites |-> [a \in Addresses |->
                   IF Ref(s, a) /\ ~Ref(s, a)' THEN Free ELSE mem[s][a]]]
  BY ReleaseFacts DEF EndCall
<1>3. call'[t] = Idle /\ \A u \in Threads \ {t} : call'[u] = call[u]
  BY <1>1 DEF Shape, DataType
<1>4. Busy(t) /\ ~Busy(t)' /\ call[t].into \in Tensors /\ tensors[call[t].into].state = "pending"
  BY <1>3, IdleType DEF EndCall, Busy, Shape, CallShape, Claims
<1>5. \A u \in Threads : Busy(u)' => u # t /\ Busy(u) /\ call'[u] = call[u]
  BY <1>3, <1>4 DEF Busy
<1>6. ASSUME NEW x \in Tensors, tensors'[x].state = "device"
      PROVE  \/ SameData(x)
             \/ /\ Leaving(tensors'[x].site, tensors'[x].addr)
                /\ mem[tensors'[x].site][tensors'[x].addr] = tensors'[x].value
                /\ tensors'[x].read = Unread
  <2>1. CASE x = call[t].into
    BY <1>1, <1>4, <1>6, <2>1 DEF Settled, Leaving
  <2>2. CASE x # call[t].into
    BY <1>1, <1>6, <2>2, EmptySlotType DEF SameData
  <2>3. QED
    BY <2>1, <2>2
<1>7. ASSUME NEW u \in Threads, Busy(u)', NEW o \in Operands, call[u].inputs[o] # "host"
      PROVE  SameData(call[u].inputs[o])
  <2>1. u # t /\ Busy(u)
    BY <1>5, <1>7
  <2>2. call[u].inputs[o] \in Tensors
    BY <1>7 DEF Shape, DataType, Call
  <2>3. Stored(call[u].inputs[o])
    BY <1>7, <2>1 DEF Shape, CallShape, Claims
  <2>4. call[u].inputs[o] # call[t].into
    BY <1>4, <2>3 DEF Stored
  <2>5. QED
    BY <1>1, <2>1, <2>2, <2>4 DEF SameData
<1>8. \A s \in Sites, a \in Addresses : Raw(s, a)' = Raw(s, a) \ {t}
  <2> SUFFICES ASSUME NEW s \in Sites, NEW a \in Addresses
               PROVE  Raw(s, a)' = Raw(s, a) \ {t}
    OBVIOUS
  <2>1. t \notin Raw(s, a)'
    BY <1>3, IdleType, VendorAssumption DEF Raw
  <2>2. QED
    BY <1>3, <2>1 DEF Raw
<1>9. \A s \in Sites, a \in Addresses : (mem[s][a] # Free) <=> (Ref(s, a) \/ Raw(s, a)' # {})
  BY <1>8 DEF Settled
<1>10. \A s \in Sites, a \in Addresses : Ref(s, a) => mem[s][a] = memory[s][a] \/ Leaving(s, a)
  BY <1>4 DEF Settled, Leaving
<1>11. \A u \in Threads : Busy(u)' => Busy(u) /\ call'[u] = call[u]
  BY <1>5
<1>12. \A u \in Threads : Busy(u)' =>
         \A o \in Operands : call[u].inputs[o] # "host" => SameData(call[u].inputs[o])
  BY <1>7
<1>13. QED
  BY <1>2, <1>6, <1>9, <1>10, <1>11, <1>12, Shed

\* A call that ends keeps its shape and everyone's memory.
LEMMA EndStep ==
  ASSUME Shape, MemoryInv, NEW t \in Threads, NEW storage, NEW mem,
         Result(storage), EndCall(t, storage, mem), Settled(t, storage, mem),
         handles' \in [Sites -> Int],
         ended' \in [Sites -> [produced : Nat, failed : Nat, oversized : Nat, flushed : Nat]]
  PROVE  Shape' /\ MemoryInv'
<1>1. memory' = [s \in Sites |-> [a \in Addresses |->
                   IF Ref(s, a) /\ ~Ref(s, a)' THEN Free ELSE mem[s][a]]]
  BY ReleaseFacts DEF EndCall
<1>2. memory' \in [Sites -> [Addresses -> Terms]]
  BY <1>1, TermFacts DEF Settled
<1>3. Shape'
  BY <1>2, EndShape DEF Settled
<1>4. QED
  BY <1>3, EndMemory

\* A call without a raw pointer leaves memory as it is.
LEMMA SettledAsIs ==
  ASSUME Shape, MemoryInv, NEW t \in Threads, NEW storage,
         call[t].raw = None, storage.state # "device"
  PROVE  Settled(t, storage, memory)
<1>1. \A s \in Sites, a \in Addresses : t \notin Raw(s, a)
  BY VendorAssumption DEF Raw
<1>2. \A s \in Sites, a \in Addresses : (memory[s][a] # Free) <=> (Ref(s, a) \/ Raw(s, a) \ {t} # {})
  BY <1>1 DEF MemoryInv, Owned
<1>3. memory \in [Sites -> [Addresses -> Terms]]
  BY DEF Shape, DataType
<1>4. QED
  BY <1>2, <1>3 DEF Settled

\* upload frees the pointer it has not wrapped.
LEMMA SettledFree ==
  ASSUME Shape, MemoryInv, NEW t \in Threads, call[t].raw # None
  PROVE  Settled(t, EmptySlot, FreeRaw(t))
<1> DEFINE r == call[t].raw
           m == call[t].site
<1>1. m \in Sites /\ r \in Addresses
  <2>1. Busy(t)
    BY IdleType DEF Shape, CallShape
  <2>2. QED
    BY <2>1 DEF Shape, CallShape, Claims, DataType, Call
<1>2. memory \in [Sites -> [Addresses -> Terms]]
  BY DEF Shape, DataType
<1>3. /\ FreeRaw(t) \in [Sites -> [Addresses -> Terms]]
      /\ \A s \in Sites, a \in Addresses : FreeRaw(t)[s][a] = IF s = m /\ a = r THEN Free ELSE memory[s][a]
  BY <1>1, <1>2, TermFacts DEF FreeRaw
<1>4. t \in Raw(m, r) /\ \A s \in Sites, a \in Addresses : t \in Raw(s, a) => s = m /\ a = r
  BY DEF Raw
<1>5. Raw(m, r) = {t} /\ ~Ref(m, r)
  BY <1>1, <1>4 DEF MemoryInv, Owned
<1>6. ASSUME NEW s \in Sites, NEW a \in Addresses
      PROVE  (FreeRaw(t)[s][a] # Free) <=> (Ref(s, a) \/ Raw(s, a) \ {t} # {})
  <2>1. CASE s = m /\ a = r
    BY <1>3, <1>5, <2>1
  <2>2. CASE ~(s = m /\ a = r)
    <3>1. Raw(s, a) \ {t} = Raw(s, a)
      BY <1>4, <2>2
    <3>2. (memory[s][a] # Free) <=> (Ref(s, a) \/ Raw(s, a) # {})
      BY DEF MemoryInv, Owned
    <3>3. QED
      BY <1>3, <2>2, <3>1, <3>2
  <2>3. QED
    BY <2>1, <2>2
<1>7. \A s \in Sites, a \in Addresses : Ref(s, a) => FreeRaw(t)[s][a] = memory[s][a]
  BY <1>3, <1>5
<1>8. QED
  BY <1>3, <1>6, <1>7, EmptySlotType DEF Settled

\* A call that fails.
LEMMA FailStep ==
  ASSUME Shape, MemoryInv, NEW t \in Threads, NEW mem, Busy(t), Settled(t, EmptySlot, mem),
         Fail(t, mem), UNCHANGED <<site, counters>>, handles' \in [Sites -> Int]
  PROVE  Shape' /\ MemoryInv'
<1>1. EndCall(t, EmptySlot, mem)
  BY DEF Fail, EndCall
<1>2. Result(EmptySlot)
  BY EmptySlotType DEF Result
<1>3. call[t].site \in Sites
  BY DEF Shape, CallShape, Claims
<1>4. ended' \in [Sites -> [produced : Nat, failed : Nat, oversized : Nat, flushed : Nat]]
  <2>1. ended \in [Sites -> [produced : Nat, failed : Nat, oversized : Nat, flushed : Nat]]
    BY DEF Shape, SiteType
  <2>2. ended' = [ended EXCEPT ![call[t].site].failed = @ + 1]
    BY DEF Fail
  <2>3. QED
    BY <1>3, <2>1, <2>2
<1>5. QED
  BY <1>1, <1>2, <1>4, EndStep

\* A call that succeeds.
LEMMA SucceedStep ==
  ASSUME Shape, MemoryInv, NEW t \in Threads, NEW storage, NEW mem, Busy(t), Result(storage),
         Settled(t, storage, mem), Succeed(t, storage, mem), UNCHANGED <<site, counters>>,
         handles' \in [Sites -> Int]
  PROVE  Shape' /\ MemoryInv'
<1>1. EndCall(t, storage, mem)
  BY DEF Succeed, EndCall
<1>2. call[t].site \in Sites
  BY DEF Shape, CallShape, Claims
<1>3. ended' \in [Sites -> [produced : Nat, failed : Nat, oversized : Nat, flushed : Nat]]
  <2>1. ended \in [Sites -> [produced : Nat, failed : Nat, oversized : Nat, flushed : Nat]]
    BY DEF Shape, SiteType
  <2>2. ended' = [ended EXCEPT ![call[t].site].produced = @ + 1]
    BY DEF Succeed
  <2>3. QED
    BY <1>2, <2>1, <2>2
<1>4. QED
  BY <1>1, <1>3, EndStep

\* The failures that leave a device's memory alone.
LEMMA PlainFailures ==
  ASSUME Shape, MemoryInv, NEW t \in Threads,
         \/ RejectShapes(t) \/ Unreadable(t) \/ MallocFails(t) \/ CreateFails(t)
         \/ MultiplyFails(t) \/ CpuFails(t)
  PROVE  Shape' /\ MemoryInv'
<1>1. Fail(t, memory) /\ UNCHANGED <<site, counters>>
  BY DEF RejectShapes, Unreadable, MallocFails, CreateFails, MultiplyFails, CpuFails
<1>2. Busy(t)
  BY DEF RejectShapes, Unreadable, MallocFails, CreateFails, MultiplyFails, CpuFails,
         OnRuntime, OnEvidence, AtOperand, ToUpload, Busy
<1>3. Claims(t) /\ Placed(call[t]) /\ (call[t].at # "left" \/ call[t].raw # None => OnRuntime(t))
  BY <1>2 DEF Shape, CallShape
<1>4. call[t].raw = None
  <2>1. CASE CpuFails(t)
    BY <1>3, <2>1 DEF CpuFails, OnEvidence, OnRuntime
  <2>2. CASE CreateFails(t) \/ MultiplyFails(t)
    BY <1>3, <2>2 DEF CreateFails, MultiplyFails, Placed, Buffers, Operands
  <2>3. CASE RejectShapes(t) \/ Unreadable(t) \/ MallocFails(t)
    BY <2>3 DEF RejectShapes, Unreadable, MallocFails, AtOperand, ToUpload
  <2>4. QED
    BY <2>1, <2>2, <2>3
<1>5. Settled(t, EmptySlot, memory)
  BY <1>4, SettledAsIs, EmptySlotType
<1>6. handles' \in [Sites -> Int]
  <2>1. handles' = handles \/ handles' = Destroy(handles, call[t].site)
    BY DEF RejectShapes, Unreadable, MallocFails, CreateFails, MultiplyFails, CpuFails
  <2>2. QED
    BY <2>1 DEF Shape, SiteType, Destroy
<1>7. QED
  BY <1>1, <1>2, <1>5, <1>6, FailStep

\* A copy that fails.
LEMMA CopyFailsStep ==
  ASSUME Shape, MemoryInv, NEW t \in Threads, CopyFails(t)
  PROVE  Shape' /\ MemoryInv'
<1>1. Busy(t)
  BY IdleType DEF CopyFails, Shape, CallShape
<1>2. handles' \in [Sites -> Int]
  BY DEF CopyFails, Shape, SiteType
<1>3. QED
  BY <1>1, <1>2, SettledFree, FailStep DEF CopyFails

\* What a product is made of, when both operands are on the device.
LEMMA GemmFacts ==
  ASSUME Shape, MemoryInv, NEW t \in Threads, call[t].at = "gemm"
  PROVE  /\ Busy(t) /\ call[t].site \in Sites /\ call[t].raw = None
         /\ call[t].bufs["output"] \in Addresses
         /\ \A o \in Operands : Contents(t, o) = Owed(call[t].inputs[o]) /\ Contents(t, o) \in Terms
<1>1. Busy(t)
  BY DEF Busy
<1>2. Claims(t) /\ Placed(call[t]) /\ call[t] \in Call
  BY <1>1 DEF Shape, CallShape, DataType
<1>3. call[t].raw = None /\ \A b \in Buffers : call[t].bufs[b] # None
  BY <1>2 DEF Placed, Buffers, Operands
<1>4. \A b \in Buffers : call[t].bufs[b] \in Addresses
  BY <1>2, <1>3 DEF Call
<1>5. \A o \in Operands : Contents(t, o) = Owed(call[t].inputs[o])
  BY <1>1, <1>3 DEF MemoryInv, OperandsHeld, Contents, Buffers
<1>6. \A o \in Operands : Contents(t, o) \in Terms
  BY <1>2, <1>4 DEF Contents, Shape, DataType, Claims, Buffers
<1>7. QED
  BY <1>1, <1>2, <1>3, <1>4, <1>5, <1>6 DEF Claims, Buffers

\* sgemm writes the output and nothing else.
LEMMA SettledProduct ==
  ASSUME Shape, MemoryInv, NEW t \in Threads, call[t].at = "gemm"
  PROVE  /\ Result(Resident(t, "device", call[t].bufs["output"]))
         /\ Settled(t, Resident(t, "device", call[t].bufs["output"]), Sgemm(t))
<1> DEFINE r == call[t].bufs["output"]
           m == call[t].site
           left == Contents(t, "left")
           right == Contents(t, "right")
           storage == Resident(t, "device", r)
<1>1. Busy(t) /\ m \in Sites /\ call[t].raw = None /\ r \in Addresses
  BY GemmFacts
<1>2. /\ left = Owed(call[t].inputs["left"]) /\ left \in Terms
      /\ right = Owed(call[t].inputs["right"]) /\ right \in Terms
  BY GemmFacts DEF Operands
<1>3. Product(left, right) \in Terms /\ Product(left, right) # Free
  BY <1>2, ProductFacts
<1>4. memory \in [Sites -> [Addresses -> Terms]]
  BY DEF Shape, DataType
<1>5. /\ Sgemm(t) \in [Sites -> [Addresses -> Terms]]
      /\ \A s \in Sites, a \in Addresses :
           Sgemm(t)[s][a] = IF s = m /\ a = r THEN Product(left, right) ELSE memory[s][a]
  <2> HIDE DEF left, right
  <2>1. Sgemm(t) = [memory EXCEPT ![m][r] = Product(left, right)]
    BY DEF Sgemm, left, right
  <2>2. QED
    BY <1>1, <1>3, <1>4, <2>1
<1>6. /\ storage.state = "device" /\ storage.held /\ storage.site = m /\ storage.addr = r
      /\ storage.value = Product(left, right) /\ storage.read = Unread
  BY <1>2 DEF Resident
<1>7. storage \in Slot
  <2> DEFINE p == Product(left, right)
  <2>1. p \in Terms /\ Unread \in Terms
    BY <1>3, TermFacts
  <2>2. storage = [state |-> "device", held |-> TRUE, site |-> m, addr |-> r,
                   value |-> p, read |-> Unread]
    BY <1>2 DEF Resident
  <2> HIDE DEF p, storage
  <2>3. QED
    BY <1>1, <2>1, <2>2 DEF Slot
<1>8. Ref(m, r)
  <2>1. r # None
    BY <1>1, VendorAssumption
  <2>2. QED
    BY <1>1, <2>1 DEF Ref, Referenced, NoBuffers, Busy
<1>9. \A s \in Sites, a \in Addresses : Raw(s, a) \ {t} = Raw(s, a)
  BY <1>1, VendorAssumption DEF Raw
<1>10. \A s \in Sites, a \in Addresses : (Sgemm(t)[s][a] # Free) <=> (Ref(s, a) \/ Raw(s, a) \ {t} # {})
  BY <1>3, <1>5, <1>8, <1>9 DEF MemoryInv, Owned
<1>11. \A s \in Sites, a \in Addresses :
         Ref(s, a) => Sgemm(t)[s][a] = memory[s][a] \/ (m = s /\ r = a)
  BY <1>5
<1>12. Result(storage)
  BY <1>6, <1>7 DEF Result
<1>13. Sgemm(t)[storage.site][storage.addr] = storage.value
  BY <1>1, <1>5, <1>6
<1>14. Settled(t, storage, Sgemm(t))
  <2> HIDE DEF storage
  <2>1. QED
    BY <1>1, <1>5, <1>6, <1>10, <1>11, <1>13 DEF Settled
<1>15. QED
  BY <1>12, <1>14

\* A product.
LEMMA MultiplyStep ==
  ASSUME Shape, MemoryInv, NEW t \in Threads, Multiply(t)
  PROVE  Shape' /\ MemoryInv'
<1>1. call[t].at = "gemm"
  BY DEF Multiply
<1>2. Busy(t) /\ call[t].site \in Sites
  BY <1>1, GemmFacts
<1>3. handles' \in [Sites -> Int]
  BY <1>2 DEF Multiply, Destroy, Shape, SiteType
<1>4. Succeed(t, Resident(t, "device", call[t].bufs["output"]), Sgemm(t)) /\ UNCHANGED <<site, counters>>
  BY DEF Multiply
<1>5. QED
  BY <1>1, <1>2, <1>3, <1>4, SettledProduct, SucceedStep

\* What the executor on evidence produces is a tensor on the host.
LEMMA CpuResult ==
  ASSUME Shape, MemoryInv, NEW t \in Threads, ComputeOnCpu(t)
  PROVE  /\ Busy(t) /\ Result(Resident(t, "host", None))
         /\ Settled(t, Resident(t, "host", None), memory)
<1> DEFINE storage == Resident(t, "host", None)
<1>1. Busy(t) /\ Claims(t) /\ call[t].raw = None /\ call[t] \in Call
  BY DEF ComputeOnCpu, OnEvidence, OnRuntime, Shape, CallShape, DataType, Busy
<1>2. \A o \in Operands : Owed(call[t].inputs[o]) \in Terms
  <2> SUFFICES ASSUME NEW o \in Operands
               PROVE  Owed(call[t].inputs[o]) \in Terms
    OBVIOUS
  <2>1. call[t].inputs[o] \in Tensors \cup {"host"}
    BY <1>1 DEF Call
  <2>2. QED
    BY <2>1, TermFacts DEF Owed, Shape, DataType, Slot
<1>3. Product(Owed(call[t].inputs["left"]), Owed(call[t].inputs["right"])) \in Terms
  BY <1>2, ProductFacts DEF Operands
<1>4. /\ storage.state = "host" /\ storage.held /\ storage.state # "device"
  BY DEF Resident
<1>5. storage \in Slot
  <2> DEFINE p == Product(Owed(call[t].inputs["left"]), Owed(call[t].inputs["right"]))
  <2>1. storage = [state |-> "host", held |-> TRUE, site |-> call[t].site, addr |-> None,
                   value |-> p, read |-> Unread]
    BY DEF Resident
  <2>2. p \in Terms /\ Unread \in Terms /\ call[t].site \in Sites
    BY <1>1, <1>3, TermFacts DEF Claims
  <2> HIDE DEF p, storage
  <2>3. QED
    BY <2>1, <2>2 DEF Slot
<1>6. Result(storage) /\ Settled(t, storage, memory)
  <2> HIDE DEF storage
  <2>1. QED
    BY <1>1, <1>4, <1>5, SettledAsIs DEF Result
<1>7. QED
  BY <1>1, <1>6

\* The executor on evidence answers.
LEMMA CpuStep ==
  ASSUME Shape, MemoryInv, NEW t \in Threads, ComputeOnCpu(t)
  PROVE  Shape' /\ MemoryInv'
<1>1. handles' \in [Sites -> Int]
  BY DEF ComputeOnCpu, Shape, SiteType
<1>2. QED
  BY <1>1, CpuResult, SucceedStep DEF ComputeOnCpu

-----------------------------------------------------------------------------
(* The steps of a call that goes on.                                       *)

\* A call that goes to its next place keeps the shape of all.
LEMMA StageShape ==
  ASSUME Shape, NEW t \in Threads, Busy(t), NEW c \in Call, c.at # "idle",
         c.site = call[t].site, c.into = call[t].into, c.inputs = call[t].inputs, Placed(c),
         c.at # "left" \/ c.raw # None => OnRuntime(t),
         call' = [call EXCEPT ![t] = c],
         UNCHANGED <<site, loaded, counters, tensors, ended>>,
         memory' \in [Sites -> [Addresses -> Terms]], handles' \in [Sites -> Int]
  PROVE  Shape'
<1>1. call \in [Threads -> Call]
  BY DEF Shape, DataType
<1>2. call' \in [Threads -> Call] /\ call'[t] = c /\ \A u \in Threads \ {t} : call'[u] = call[u]
  BY <1>1
<1>3. SiteType' /\ DataType' /\ TensorShape'
  BY <1>2 DEF Shape, SiteType, DataType, TensorShape
<1>4. \A u \in Threads : /\ Busy(u)' <=> Busy(u)
                         /\ call'[u].site = call[u].site /\ call'[u].into = call[u].into
                         /\ call'[u].inputs = call[u].inputs
  BY <1>2 DEF Busy
<1>5. ASSUME NEW u \in Threads
      PROVE  /\ ~Busy(u)' => call'[u] = Idle
             /\ Busy(u)' => /\ Claims(u)' /\ Placed(call[u])'
                            /\ (call[u].at # "left" \/ call[u].raw # None => OnRuntime(u))'
  <2>1. ~Busy(u)' => call'[u] = Idle
    BY <1>2, <1>4 DEF Shape, CallShape
  <2>2. ASSUME Busy(u)'
        PROVE  /\ Claims(u)' /\ Placed(call[u])'
               /\ (call[u].at # "left" \/ call[u].raw # None => OnRuntime(u))'
    <3>1. Claims(u) /\ Placed(call[u]) /\ (call[u].at # "left" \/ call[u].raw # None => OnRuntime(u))
      BY <1>4, <2>2 DEF Shape, CallShape
    <3>2. Claims(u)'
      BY <1>4, <3>1 DEF Claims, Stored
    <3>3. Placed(call[u])' /\ (call[u].at # "left" \/ call[u].raw # None => OnRuntime(u))'
      <4>1. CASE u = t
        BY <1>2, <4>1 DEF OnRuntime
      <4>2. CASE u # t
        BY <1>2, <3>1, <4>2 DEF OnRuntime
      <4>3. QED
        BY <4>1, <4>2
    <3>4. QED
      BY <3>2, <3>3
  <2>3. QED
    BY <2>1, <2>2
<1>6. QED
  BY <1>3, <1>5 DEF Shape, CallShape

\* What a call that is under way knows about itself.
LEMMA CallFacts ==
  ASSUME Shape, NEW t \in Threads, Busy(t)
  PROVE  /\ call[t] \in Call /\ call[t].site \in Sites /\ Placed(call[t])
         /\ call[t].into \in Tensors /\ tensors[call[t].into].state = "pending"
         /\ \A o \in Operands : /\ call[t].inputs[o] \in Tensors \cup {"host"}
                                /\ call[t].inputs[o] # "host" => Stored(call[t].inputs[o])
         /\ \A b \in Buffers : call[t].bufs[b] \in Addresses \cup {None}
         /\ call[t].raw \in Addresses \cup {None}
         /\ call[t].at # "left" \/ call[t].raw # None => OnRuntime(t)
<1>1. call[t] \in Call
  BY DEF Shape, DataType
<1>2. QED
  BY <1>1 DEF Shape, CallShape, Claims, Call

\* A buffer goes to the place it was made for.
LEMMA HoldingFacts ==
  ASSUME NEW t \in Threads, call[t] \in Call, call[t].at \in Buffers, Placed(call[t]),
         NEW a \in Addresses
  PROVE  /\ Holding(t, a) \in Call /\ Placed(Holding(t, a)) /\ Holding(t, a).at \notin {"idle", "left"}
         /\ Holding(t, a).site = call[t].site /\ Holding(t, a).into = call[t].into
         /\ Holding(t, a).inputs = call[t].inputs /\ Holding(t, a).raw = None
         /\ \A b \in Buffers : Holding(t, a).bufs[b] = IF b = call[t].at THEN a ELSE call[t].bufs[b]
         /\ call[t].at \in Operands => Holding(t, a).bufs["output"] = None
<1> DEFINE c == call[t]
           bufs == [c.bufs EXCEPT ![c.at] = a]
           h == Holding(t, a)
<1>1. c.at \in {"left", "right", "output"} /\ a # None
  BY VendorAssumption DEF Buffers, Operands
<1>2. bufs \in [Buffers -> Addresses \cup {None}]
      /\ \A b \in Buffers : bufs[b] = IF b = c.at THEN a ELSE c.bufs[b]
  BY DEF Call
<1>3. h.at = NextStage(c.at) /\ h.site = c.site /\ h.into = c.into /\ h.inputs = c.inputs
      /\ h.raw = None /\ h.bufs = bufs /\ h.shape = c.shape
  BY DEF Holding, Call
<1>4. NextStage(c.at) = IF c.at = "left" THEN "right" ELSE IF c.at = "right" THEN "output" ELSE "handle"
  BY <1>1 DEF NextStage
<1>5. h \in Call
  <2>1. NextStage(c.at) \in Places
    BY <1>1, <1>4 DEF Places
  <2>2. h = [at |-> NextStage(c.at), site |-> c.site, inputs |-> c.inputs, into |-> c.into,
             shape |-> c.shape, raw |-> None, bufs |-> bufs]
    <3>1. c = [at |-> c.at, site |-> c.site, inputs |-> c.inputs, into |-> c.into,
               shape |-> c.shape, raw |-> c.raw, bufs |-> c.bufs]
      BY DEF Call
    <3> HIDE DEF c
    <3>2. [c EXCEPT !.bufs[c.at] = a, !.raw = None, !.at = NextStage(c.at)]
            = [at |-> NextStage(c.at), site |-> c.site, inputs |-> c.inputs, into |-> c.into,
               shape |-> c.shape, raw |-> None, bufs |-> bufs]
      <4> DEFINE c1 == [at |-> c.at, site |-> c.site, inputs |-> c.inputs, into |-> c.into,
                        shape |-> c.shape, raw |-> c.raw, bufs |-> bufs]
                 c2 == [at |-> c.at, site |-> c.site, inputs |-> c.inputs, into |-> c.into,
                        shape |-> c.shape, raw |-> None, bufs |-> bufs]
      <4> HIDE DEF bufs
      <4>1. [c EXCEPT !.bufs = bufs] = c1
        BY <3>1
      <4>2. [c1 EXCEPT !.raw = None] = c2
        OBVIOUS
      <4>3. [c2 EXCEPT !.at = NextStage(c.at)]
              = [at |-> NextStage(c.at), site |-> c.site, inputs |-> c.inputs, into |-> c.into,
                 shape |-> c.shape, raw |-> None, bufs |-> bufs]
        OBVIOUS
      <4> HIDE DEF c1, c2
      <4>4. [c EXCEPT !.bufs[c.at] = a, !.raw = None, !.at = NextStage(c.at)]
              = [[[c EXCEPT !.bufs = bufs] EXCEPT !.raw = None] EXCEPT !.at = NextStage(c.at)]
        BY DEF bufs
      <4>5. QED
        BY <4>1, <4>2, <4>3, <4>4
    <3>3. h = [c EXCEPT !.bufs[c.at] = a, !.raw = None, !.at = NextStage(c.at)]
      BY DEF Holding, c, h
    <3>4. QED
      BY <3>2, <3>3
  <2> HIDE DEF h, bufs
  <2>3. QED
    BY <1>2, <2>1, <2>2 DEF Call
<1>6. Placed(h)
  BY <1>1, <1>2, <1>3, <1>4 DEF Placed, Buffers, Operands
<1>7. c.at \in Operands => bufs["output"] = None
  BY <1>1, <1>2 DEF Placed, Buffers, Operands
<1>8. QED
  BY <1>1, <1>2, <1>3, <1>4, <1>5, <1>6, <1>7

\* The references of a call that goes on: those of the others and its own.
LEMMA StageRefs ==
  ASSUME Shape, NEW t \in Threads, Busy(t), NEW c, c.at # "idle", c.site = call[t].site,
         call' = [call EXCEPT ![t] = c], tensors' = tensors,
         NEW s \in Sites, NEW a \in Addresses
  PROVE  /\ (\A b \in Buffers : c.bufs[b] = call[t].bufs[b]) => (Ref(s, a)' <=> Ref(s, a))
         /\ Ref(s, a)' => Ref(s, a) \/ (s = c.site /\ \E b \in Buffers : c.bufs[b] = a)
         /\ (\A b \in Buffers : c.bufs[b] = call[t].bufs[b] \/ call[t].bufs[b] = None)
              => (Ref(s, a) => Ref(s, a)')
         /\ (s = c.site /\ \E b \in Buffers : c.bufs[b] = a) => Ref(s, a)'
<1>1. call \in [Threads -> Call]
  BY DEF Shape, DataType
<1>2. call'[t] = c /\ \A u \in Threads \ {t} : call'[u] = call[u]
  BY <1>1
<1>3. a # None
  BY VendorAssumption
<1>4. Ref(s, a) <=>
        \/ \E x \in Tensors : tensors[x].state = "device" /\ tensors[x].site = s /\ tensors[x].addr = a
        \/ s = c.site /\ \E b \in Buffers : call[t].bufs[b] = a
        \/ \E u \in Threads \ {t} : call[u].at # "idle" /\ call[u].site = s
                                    /\ \E b \in Buffers : call[u].bufs[b] = a
  BY DEF Ref, Referenced, Busy, NoBuffers, Buffers
<1>5. Ref(s, a)' <=>
        \/ \E x \in Tensors : tensors[x].state = "device" /\ tensors[x].site = s /\ tensors[x].addr = a
        \/ s = c.site /\ \E b \in Buffers : c.bufs[b] = a
        \/ \E u \in Threads \ {t} : call[u].at # "idle" /\ call[u].site = s
                                    /\ \E b \in Buffers : call[u].bufs[b] = a
  BY <1>2 DEF Ref, Referenced, NoBuffers, Buffers
<1>6. Ref(s, a) \in BOOLEAN /\ Ref(s, a)' \in BOOLEAN
  BY DEF Ref, Referenced
<1>7. QED
  BY <1>3, <1>4, <1>5, <1>6

\* References follow the sites and buffers of the calls.
LEMMA SameRefs ==
  ASSUME tensors' = tensors,
         \A u \in Threads : /\ call'[u].at = call[u].at /\ call'[u].site = call[u].site
                           /\ call'[u].bufs = call[u].bufs,
         NEW s, NEW a
  PROVE  Ref(s, a)' <=> Ref(s, a)
BY DEF Ref, Referenced

\* An operand that is on the device is bound as it is.
LEMMA ReuseStep ==
  ASSUME Shape, MemoryInv, NEW t \in Threads, Reuse(t)
  PROVE  Shape' /\ MemoryInv'
<1> DEFINE x == Operand(t)
           a == tensors[x].addr
           m == call[t].site
           o == call[t].at
           c == Holding(t, a)
<1>1. Busy(t) /\ o \in Operands /\ o \in Buffers /\ call[t].raw = None /\ OnRuntime(t)
  BY DEF Reuse, AtOperand, OnRuntime, Busy, Buffers
<1>2. /\ x \in Tensors /\ tensors[x].state = "device" /\ tensors[x].site = m /\ m \in Sites
      /\ a \in Addresses
  BY <1>1, CallFacts DEF Reuse, Reusable, Operand, Shape, TensorShape
<1>3. /\ c \in Call /\ Placed(c) /\ c.at \notin {"idle", "left"}
      /\ c.site = m /\ c.into = call[t].into /\ c.inputs = call[t].inputs /\ c.raw = None
      /\ \A b \in Buffers : c.bufs[b] = IF b = o THEN a ELSE call[t].bufs[b]
      /\ c.bufs["output"] = None
  BY <1>1, <1>2, CallFacts, HoldingFacts
<1>4. call' = [call EXCEPT ![t] = c] /\ UNCHANGED <<site, loaded, counters, memory, handles, tensors, ended>>
  BY DEF Reuse
<1>5. call \in [Threads -> Call] /\ memory \in [Sites -> [Addresses -> Terms]] /\ handles \in [Sites -> Int]
  BY DEF Shape, DataType, SiteType
<1>6. call'[t] = c /\ \A u \in Threads \ {t} : call'[u] = call[u]
  BY <1>4, <1>5
<1>7. Shape'
  <2> HIDE DEF c, m
  <2>1. m = call[t].site
    BY DEF m
  <2>2. QED
    BY <1>1, <1>3, <1>4, <1>5, <2>1, StageShape
<1>8. call[t].bufs[o] = None
  BY <1>1, CallFacts DEF Placed, Operands
<1>9. \A s \in Sites, d \in Addresses : Ref(s, d)' <=> Ref(s, d)
  <2> SUFFICES ASSUME NEW s \in Sites, NEW d \in Addresses
               PROVE  Ref(s, d)' <=> Ref(s, d)
    OBVIOUS
  <2>1. Ref(m, a)
    BY <1>2 DEF Ref, Referenced
  <2>2. \A b \in Buffers : c.bufs[b] = call[t].bufs[b] \/ call[t].bufs[b] = None
    BY <1>3, <1>8
  <2>3. /\ Ref(s, d) => Ref(s, d)'
        /\ Ref(s, d)' => Ref(s, d) \/ (s = m /\ \E b \in Buffers : c.bufs[b] = d)
    <3>1. c.at # "idle" /\ c.site = call[t].site /\ call' = [call EXCEPT ![t] = c] /\ tensors' = tensors
      BY <1>3, <1>4
    <3> HIDE DEF c
    <3>2. QED
      BY <1>1, <2>2, <3>1, StageRefs
  <2>4. (s = m /\ \E b \in Buffers : c.bufs[b] = d) => Ref(s, d)
    <3> SUFFICES ASSUME s = m, NEW b \in Buffers, c.bufs[b] = d
                 PROVE  Ref(s, d)
      OBVIOUS
    <3>1. CASE b = o
      BY <1>3, <2>1, <3>1
    <3>2. CASE b # o
      BY <1>1, <1>3, <3>2 DEF Ref, Referenced, Busy, NoBuffers, Buffers
    <3>3. QED
      BY <3>1, <3>2
  <2>5. QED
    BY <2>3, <2>4
<1>10. \A s \in Sites, d \in Addresses : Raw(s, d)' = Raw(s, d)
  BY <1>1, <1>3, <1>6 DEF Raw
<1>11. Owned'
  BY <1>4, <1>9, <1>10 DEF MemoryInv, Owned
<1>12. OutputOwned'
  <2> SUFFICES ASSUME NEW u \in Threads, Busy(u)', call'[u].bufs["output"] # None
               PROVE  /\ \A y \in Tensors : tensors'[y].state = "device" /\ tensors'[y].site = call'[u].site
                           => tensors'[y].addr # call'[u].bufs["output"]
                      /\ \A v \in Threads \ {u} : Busy(v)' /\ call'[v].site = call'[u].site =>
                           \A b \in Buffers : call'[v].bufs[b] # call'[u].bufs["output"]
    BY DEF OutputOwned
  <2>1. u # t /\ call'[u] = call[u] /\ Busy(u)
    BY <1>3, <1>6 DEF Busy
  <2>2. /\ \A y \in Tensors : tensors[y].state = "device" /\ tensors[y].site = call[u].site
             => tensors[y].addr # call[u].bufs["output"]
        /\ \A v \in Threads \ {u} : Busy(v) /\ call[v].site = call[u].site =>
             \A b \in Buffers : call[v].bufs[b] # call[u].bufs["output"]
    BY <2>1 DEF MemoryInv, OutputOwned
  <2>3. ASSUME NEW v \in Threads \ {u}, Busy(v)', call'[v].site = call'[u].site, NEW b \in Buffers
        PROVE  call'[v].bufs[b] # call'[u].bufs["output"]
    <3>1. CASE v # t
      BY <1>6, <2>1, <2>2, <2>3, <3>1 DEF Busy
    <3>2. CASE v = t
      BY <1>1, <1>2, <1>3, <1>6, <2>1, <2>2, <2>3, <3>2
    <3>3. QED
      BY <3>1, <3>2
  <2>4. QED
    BY <1>4, <2>1, <2>2, <2>3
<1>13. OperandsHeld'
  <2> SUFFICES ASSUME NEW u \in Threads, Busy(u)'
               PROVE  /\ \A p \in Operands : call'[u].bufs[p] # None =>
                           memory'[call'[u].site][call'[u].bufs[p]] = Owed(call[u].inputs[p])'
                      /\ call'[u].raw # None /\ call'[u].at \in Operands =>
                           ~Reusable(Operand(u), call[u].site)' /\ Readable(Operand(u))'
    BY DEF OperandsHeld
  <2>1. CASE u # t
    <3>1. call'[u] = call[u] /\ Busy(u)
      BY <1>6, <2>1 DEF Busy
    <3>2. /\ \A p \in Operands : Owed(call[u].inputs[p])' = Owed(call[u].inputs[p])
          /\ Reusable(Operand(u), call[u].site)' <=> Reusable(Operand(u), call[u].site)
          /\ Readable(Operand(u))' <=> Readable(Operand(u))
      <4>1. \A p \in Operands : Owed(call[u].inputs[p])' = Owed(call[u].inputs[p])
        BY <1>4, <3>1 DEF Owed
      <4>2. Reusable(Operand(u), call[u].site)' <=> Reusable(Operand(u), call[u].site)
        BY <1>4, <3>1 DEF Operand, Reusable
      <4>3. Readable(Operand(u))' <=> Readable(Operand(u))
        BY <1>4, <3>1 DEF Operand, Readable, Cells, Unread, ReadError
      <4>4. QED
        BY <4>1, <4>2, <4>3
    <3>3. QED
      BY <1>4, <3>1, <3>2 DEF MemoryInv, OperandsHeld
  <2>2. CASE u = t
    <3>1. call'[u].raw = None
      BY <1>3, <1>6, <2>2
    <3>2. ASSUME NEW p \in Operands, call'[u].bufs[p] # None
          PROVE  memory'[call'[u].site][call'[u].bufs[p]] = Owed(call[u].inputs[p])'
      <4>1. Owed(call[u].inputs[p])' = Owed(call[t].inputs[p])
        BY <1>3, <1>4, <1>6, <2>2 DEF Owed
      <4>2. CASE p = o
        <5>1. memory[m][a] = tensors[x].value /\ x # "host"
          BY <1>2, VendorAssumption DEF MemoryInv, ResultsAreProducts
        <5>2. call'[u].bufs[p] = a /\ call'[u].site = m /\ x = call[t].inputs[p]
          BY <1>1, <1>3, <1>6, <2>2, <4>2 DEF Operand
        <5>3. QED
          BY <1>4, <4>1, <5>1, <5>2 DEF Owed
      <4>3. CASE p # o
        <5>1. p \in Buffers
          BY DEF Buffers
        <5>2. call'[u].bufs[p] = call[t].bufs[p] /\ call'[u].site = m
          BY <1>3, <1>6, <2>2, <4>3, <5>1
        <5>3. QED
          BY <1>1, <1>4, <3>2, <4>1, <5>2 DEF MemoryInv, OperandsHeld
      <4>4. QED
        BY <4>2, <4>3
    <3>3. QED
      BY <3>1, <3>2
  <2>3. QED
    BY <2>1, <2>2
<1>14. ResultsAreProducts'
  BY <1>4 DEF MemoryInv, ResultsAreProducts
<1>15. QED
  BY <1>7, <1>11, <1>12, <1>13, <1>14 DEF MemoryInv

\* A call that stays where it is still has its operands when no buffer it refers to changes.
LEMMA StayOperands ==
  ASSUME Shape, MemoryInv, tensors' = tensors, NEW u \in Threads, Busy(u),
         call'[u].site = call[u].site, call'[u].inputs = call[u].inputs, call'[u].at = call[u].at,
         call'[u].bufs = call[u].bufs,
         \A a \in Addresses : Ref(call[u].site, a) => memory'[call[u].site][a] = memory[call[u].site][a]
  PROVE  /\ \A p \in Operands : call'[u].bufs[p] # None =>
              memory'[call'[u].site][call'[u].bufs[p]] = Owed(call[u].inputs[p])'
         /\ Reusable(Operand(u), call[u].site)' <=> Reusable(Operand(u), call[u].site)
         /\ Readable(Operand(u))' <=> Readable(Operand(u))
<1>1. \A p \in Operands : Owed(call[u].inputs[p])' = Owed(call[u].inputs[p])
  BY DEF Owed
<1>2. ASSUME NEW p \in Operands, call'[u].bufs[p] # None
      PROVE  memory'[call'[u].site][call'[u].bufs[p]] = Owed(call[u].inputs[p])
  <2>1. call[u].bufs[p] \in Addresses /\ p \in Buffers
    BY <1>2, CallFacts DEF Buffers
  <2>2. Ref(call[u].site, call[u].bufs[p])
    BY <2>1 DEF Ref, Referenced, Busy, NoBuffers, Buffers
  <2>3. memory[call[u].site][call[u].bufs[p]] = Owed(call[u].inputs[p])
    BY <1>2 DEF MemoryInv, OperandsHeld
  <2>4. QED
    BY <2>1, <2>2, <2>3
<1>3. Reusable(Operand(u), call[u].site)' <=> Reusable(Operand(u), call[u].site)
  BY DEF Operand, Reusable
<1>4. Readable(Operand(u))' <=> Readable(Operand(u))
  BY DEF Operand, Readable, Cells, Unread, ReadError
<1>5. QED
  BY <1>1, <1>2, <1>3, <1>4

\* An allocation takes a free address and nothing else.
LEMMA MallocStep ==
  ASSUME Shape, MemoryInv, NEW t \in Threads, Malloc(t)
  PROVE  Shape' /\ MemoryInv'
<1> DEFINE m == call[t].site
<1>1. PICK r \in Addresses : /\ memory[m][r] = Free
                             /\ memory' = [memory EXCEPT ![m][r] = Garbage]
                             /\ call' = [call EXCEPT ![t].raw = r]
  BY DEF Malloc
<1> DEFINE c == [call[t] EXCEPT !.raw = r]
<1>2. UNCHANGED <<site, loaded, counters, handles, tensors, ended>>
  BY DEF Malloc
<1>3. /\ Busy(t) /\ OnRuntime(t) /\ call[t].raw = None /\ call[t].at \in Buffers
      /\ call[t].at \in Operands => ~Reusable(Operand(t), m) /\ Readable(Operand(t))
  BY DEF Malloc, ToUpload, AtOperand, OnRuntime, Busy, Buffers, Operands
<1>4. call[t] \in Call /\ m \in Sites /\ Placed(call[t]) /\ r # None
  BY <1>3, CallFacts, VendorAssumption
<1>5. /\ c \in Call /\ c.at = call[t].at /\ c.site = m /\ c.into = call[t].into
      /\ c.inputs = call[t].inputs /\ c.bufs = call[t].bufs /\ c.raw = r
  BY <1>4 DEF Call
<1>6. Placed(c) /\ c.at # "idle"
  BY <1>3, <1>4, <1>5 DEF Placed, Buffers, Operands
<1>7. call \in [Threads -> Call] /\ memory \in [Sites -> [Addresses -> Terms]] /\ handles \in [Sites -> Int]
  BY DEF Shape, DataType, SiteType
<1>8. call' = [call EXCEPT ![t] = c] /\ call'[t] = c /\ \A u \in Threads \ {t} : call'[u] = call[u]
  BY <1>1, <1>7
<1>9. /\ memory' \in [Sites -> [Addresses -> Terms]]
      /\ \A s \in Sites, d \in Addresses :
           memory'[s][d] = IF s = m /\ d = r THEN Garbage ELSE memory[s][d]
  BY <1>1, <1>4, <1>7, TermFacts
<1>10. Shape'
  <2> HIDE DEF c
  <2>1. c.site = call[t].site
    BY <1>5
  <2>2. QED
    BY <1>2, <1>3, <1>5, <1>6, <1>7, <1>8, <1>9, <2>1, StageShape
<1>11. Raw(m, r) = {} /\ ~Ref(m, r)
  BY <1>1, <1>4 DEF MemoryInv, Owned
<1>12. ASSUME NEW s \in Sites, NEW d \in Addresses
       PROVE  Ref(s, d)' <=> Ref(s, d)
  <2>1. \A u \in Threads : /\ call'[u].at = call[u].at /\ call'[u].site = call[u].site
                           /\ call'[u].bufs = call[u].bufs
    BY <1>5, <1>8
  <2>2. QED
    BY <1>2, <2>1, SameRefs
<1>13. \A s \in Sites, d \in Addresses : Raw(s, d)' = IF s = m /\ d = r THEN {t} ELSE Raw(s, d)
  <2> SUFFICES ASSUME NEW s \in Sites, NEW d \in Addresses
               PROVE  Raw(s, d)' = IF s = m /\ d = r THEN {t} ELSE Raw(s, d)
    OBVIOUS
  <2>1. d # None
    BY VendorAssumption
  <2>2. t \in Raw(s, d)' <=> s = m /\ d = r
    BY <1>5, <1>8 DEF Raw
  <2>3. t \notin Raw(s, d)
    BY <1>3, <2>1 DEF Raw
  <2>4. \A u \in Threads \ {t} : u \in Raw(s, d)' <=> u \in Raw(s, d)
    BY <1>8 DEF Raw
  <2>5. Raw(s, d)' \subseteq Threads /\ Raw(s, d) \subseteq Threads
    BY DEF Raw
  <2>6. QED
    BY <1>11, <2>2, <2>3, <2>4, <2>5
<1>14. Owned'
  <2> SUFFICES ASSUME NEW s \in Sites, NEW d \in Addresses
               PROVE  /\ (memory'[s][d] # Free) <=> (Ref(s, d)' \/ Raw(s, d)' # {})
                      /\ \A u, v \in Raw(s, d)' : u = v
                      /\ Raw(s, d)' # {} => ~Ref(s, d)'
    BY DEF Owned
  <2>1. CASE s = m /\ d = r
    <3>1. memory'[s][d] = Garbage /\ Raw(s, d)' = {t}
      BY <1>9, <1>13, <2>1
    <3>2. ~Ref(s, d)'
      BY <1>11, <1>12, <2>1
    <3>3. QED
      BY <3>1, <3>2, TermFacts
  <2>2. CASE ~(s = m /\ d = r)
    <3>1. memory'[s][d] = memory[s][d] /\ Raw(s, d)' = Raw(s, d) /\ (Ref(s, d)' <=> Ref(s, d))
      BY <1>9, <1>12, <1>13, <2>2
    <3>2. QED
      BY <3>1 DEF MemoryInv, Owned
  <2>3. QED
    BY <2>1, <2>2
<1>15. \A u \in Threads : /\ Busy(u)' <=> Busy(u)
                          /\ call'[u].site = call[u].site /\ call'[u].at = call[u].at
                          /\ call'[u].inputs = call[u].inputs /\ call'[u].bufs = call[u].bufs
  BY <1>5, <1>8 DEF Busy
<1>16. OutputOwned'
  BY <1>2, <1>15 DEF MemoryInv, OutputOwned
<1>17. OperandsHeld'
  <2> SUFFICES ASSUME NEW u \in Threads, Busy(u)'
               PROVE  /\ \A p \in Operands : call'[u].bufs[p] # None =>
                           memory'[call'[u].site][call'[u].bufs[p]] = Owed(call[u].inputs[p])'
                      /\ call'[u].raw # None /\ call'[u].at \in Operands =>
                           ~Reusable(Operand(u), call[u].site)' /\ Readable(Operand(u))'
    BY DEF OperandsHeld
  <2>1. Busy(u) /\ call[u].site \in Sites
    BY <1>15, CallFacts
  <2>2. \A a \in Addresses : Ref(call[u].site, a) => memory'[call[u].site][a] = memory[call[u].site][a]
    BY <1>9, <1>11, <2>1
  <2>3. /\ \A p \in Operands : call'[u].bufs[p] # None =>
             memory'[call'[u].site][call'[u].bufs[p]] = Owed(call[u].inputs[p])'
        /\ Reusable(Operand(u), call[u].site)' <=> Reusable(Operand(u), call[u].site)
        /\ Readable(Operand(u))' <=> Readable(Operand(u))
    BY <1>2, <1>15, <2>1, <2>2, StayOperands
  <2>4. CASE u = t
    BY <1>3, <1>15, <2>3, <2>4
  <2>5. CASE u # t
    <3>1. call'[u] = call[u]
      BY <1>8, <2>5
    <3>2. QED
      BY <2>1, <2>3, <3>1 DEF MemoryInv, OperandsHeld
  <2>6. QED
    BY <2>4, <2>5
<1>18. ResultsAreProducts'
  <2> SUFFICES ASSUME NEW x \in Tensors, tensors[x].state = "device"
               PROVE  /\ memory'[tensors[x].site][tensors[x].addr] = tensors[x].value
                      /\ tensors[x].read \in {Unread, ReadError, tensors[x].value}
    BY <1>2 DEF ResultsAreProducts
  <2>1. tensors[x].site \in Sites /\ tensors[x].addr \in Addresses
    BY DEF Shape, TensorShape
  <2>2. Ref(tensors[x].site, tensors[x].addr)
    BY DEF Ref, Referenced
  <2>3. QED
    BY <1>9, <1>11, <2>1, <2>2 DEF MemoryInv, ResultsAreProducts
<1>19. QED
  BY <1>10, <1>14, <1>16, <1>17, <1>18 DEF MemoryInv

\* A pointer that is not wrapped yet belongs to its call.
LEMMA RawFacts ==
  ASSUME Shape, MemoryInv, NEW t \in Threads, call[t].raw # None
  PROVE  /\ Busy(t) /\ call[t] \in Call /\ Placed(call[t]) /\ call[t].site \in Sites
         /\ call[t].raw \in Addresses /\ call[t].at \in Buffers /\ OnRuntime(t)
         /\ Raw(call[t].site, call[t].raw) = {t} /\ ~Ref(call[t].site, call[t].raw)
         /\ \A s \in Sites, a \in Addresses : t \in Raw(s, a) => s = call[t].site /\ a = call[t].raw
<1>1. Busy(t)
  BY IdleType DEF Shape, CallShape
<1>2. /\ call[t] \in Call /\ Placed(call[t]) /\ call[t].site \in Sites
      /\ call[t].raw \in Addresses /\ OnRuntime(t)
  BY <1>1, CallFacts
<1>3. call[t].at \in Buffers
  BY <1>2 DEF Placed
<1>4. t \in Raw(call[t].site, call[t].raw)
      /\ \A s \in Sites, a \in Addresses : t \in Raw(s, a) => s = call[t].site /\ a = call[t].raw
  BY DEF Raw
<1>5. /\ \A u, v \in Raw(call[t].site, call[t].raw) : u = v
      /\ Raw(call[t].site, call[t].raw) # {} => ~Ref(call[t].site, call[t].raw)
  BY <1>2 DEF MemoryInv, Owned
<1>6. Raw(call[t].site, call[t].raw) = {t} /\ ~Ref(call[t].site, call[t].raw)
  BY <1>4, <1>5
<1>7. QED
  BY <1>1, <1>2, <1>3, <1>4, <1>6

\* What is uploaded is a term, and for an operand what the request owes its reader.
LEMMA UploadedFacts ==
  ASSUME Shape, MemoryInv, NEW t \in Threads, call[t].raw # None
  PROVE  /\ Uploaded(t) \in Terms /\ Uploaded(t) # Free
         /\ call[t].at \in Operands => Uploaded(t) = Owed(call[t].inputs[call[t].at])
<1> DEFINE x == Operand(t)
<1>1. Busy(t) /\ call[t].at \in Buffers
  BY RawFacts
<1>2. CASE call[t].at = "output"
  BY <1>2, TermFacts DEF Uploaded, Operands
<1>3. CASE call[t].at \in Operands
  <2>1. ~Reusable(x, call[t].site) /\ Readable(x)
    BY <1>1, <1>3 DEF MemoryInv, OperandsHeld
  <2>2. x \in Tensors \cup {"host"} /\ (x # "host" => Stored(x)) /\ x = call[t].inputs[call[t].at]
    BY <1>1, <1>3, CallFacts DEF Operand
  <2>3. Uploaded(t) = Cells(x)
    BY <1>3 DEF Uploaded, Operands
  <2>4. CASE x = "host"
    BY <2>2, <2>3, <2>4, TermFacts DEF Cells, Owed
  <2>5. CASE x # "host"
    <3>1. tensors[x] \in Slot /\ x \in Tensors
      BY <2>2, <2>5 DEF Shape, DataType
    <3>2. tensors[x].state \in {"device", "host"} /\ tensors[x].value \in Terms /\ tensors[x].read \in Terms
      BY <2>2, <2>5, <3>1 DEF Stored, Slot
    <3>3. Cells(x) \notin {Unread, ReadError}
      BY <2>1 DEF Readable
    <3>4. CASE tensors[x].state = "host"
      BY <2>2, <2>3, <2>5, <3>2, <3>3, <3>4, TermFacts DEF Cells, Owed
    <3>5. CASE tensors[x].state = "device"
      <4>1. Cells(x) = tensors[x].read
        BY <2>5, <3>5 DEF Cells
      <4>2. tensors[x].read = tensors[x].value
        BY <3>1, <3>3, <3>5, <4>1 DEF MemoryInv, ResultsAreProducts
      <4>3. QED
        BY <2>2, <2>3, <2>5, <3>2, <3>3, <4>1, <4>2, TermFacts DEF Owed
    <3>6. QED
      BY <3>2, <3>4, <3>5
  <2>6. QED
    BY <2>4, <2>5
<1>4. QED
  BY <1>1, <1>2, <1>3 DEF Buffers

\* A copy fills the allocation and wraps it.
LEMMA CopyInStep ==
  ASSUME Shape, MemoryInv, NEW t \in Threads, CopyIn(t)
  PROVE  Shape' /\ MemoryInv'
<1> DEFINE m == call[t].site
           r == call[t].raw
           o == call[t].at
           c == Holding(t, r)
           up == Uploaded(t)
<1>1. /\ r # None /\ memory' = [memory EXCEPT ![m][r] = up] /\ call' = [call EXCEPT ![t] = c]
      /\ UNCHANGED <<site, loaded, counters, handles, tensors, ended>>
  BY DEF CopyIn
<1>2. /\ Busy(t) /\ call[t] \in Call /\ Placed(call[t]) /\ m \in Sites
      /\ r \in Addresses /\ o \in Buffers /\ OnRuntime(t)
      /\ Raw(m, r) = {t} /\ ~Ref(m, r)
      /\ \A s \in Sites, a \in Addresses : t \in Raw(s, a) => s = m /\ a = r
  BY <1>1, RawFacts
<1>3. up \in Terms /\ up # Free /\ (o \in Operands => up = Owed(call[t].inputs[o]))
  BY <1>1, UploadedFacts
<1>4. /\ c \in Call /\ Placed(c) /\ c.at \notin {"idle", "left"}
      /\ c.site = m /\ c.into = call[t].into /\ c.inputs = call[t].inputs /\ c.raw = None
      /\ \A b \in Buffers : c.bufs[b] = IF b = o THEN r ELSE call[t].bufs[b]
      /\ o \in Operands => c.bufs["output"] = None
  BY <1>2, HoldingFacts
<1>5. call \in [Threads -> Call] /\ memory \in [Sites -> [Addresses -> Terms]] /\ handles \in [Sites -> Int]
  BY DEF Shape, DataType, SiteType
<1>6. call'[t] = c /\ \A u \in Threads \ {t} : call'[u] = call[u]
  BY <1>1, <1>5
<1>7. /\ memory' \in [Sites -> [Addresses -> Terms]]
      /\ \A s \in Sites, d \in Addresses :
           memory'[s][d] = IF s = m /\ d = r THEN up ELSE memory[s][d]
  <2> HIDE DEF up
  <2>1. QED
    BY <1>1, <1>2, <1>3, <1>5
<1>8. Shape'
  <2>1. c.site = call[t].site
    BY <1>4
  <2> HIDE DEF c, m, up
  <2>2. QED
    BY <1>1, <1>2, <1>4, <1>5, <1>7, <2>1, StageShape
<1>9. call[t].bufs[o] = None
  BY <1>2 DEF Placed, Buffers, Operands
<1>10. ASSUME NEW s \in Sites, NEW d \in Addresses
       PROVE  Ref(s, d)' <=> Ref(s, d) \/ (s = m /\ d = r)
  <2>1. \A b \in Buffers : c.bufs[b] = call[t].bufs[b] \/ call[t].bufs[b] = None
    BY <1>4, <1>9
  <2>2. /\ Ref(s, d) => Ref(s, d)'
        /\ Ref(s, d)' => Ref(s, d) \/ (s = m /\ \E b \in Buffers : c.bufs[b] = d)
        /\ (s = m /\ \E b \in Buffers : c.bufs[b] = d) => Ref(s, d)'
    <3>1. c.at # "idle" /\ c.site = call[t].site /\ call' = [call EXCEPT ![t] = c] /\ tensors' = tensors
      BY <1>1, <1>4
    <3> HIDE DEF c
    <3>2. QED
      BY <1>2, <2>1, <3>1, StageRefs
  <2>3. (s = m /\ d = r) => \E b \in Buffers : c.bufs[b] = d
    BY <1>2, <1>4
  <2>4. ASSUME s = m, NEW b \in Buffers, c.bufs[b] = d, d # r
        PROVE  Ref(s, d)
    BY <1>2, <1>4, <2>4 DEF Ref, Referenced, Busy, NoBuffers, Buffers
  <2>5. QED
    BY <2>2, <2>3, <2>4
<1>11. \A s \in Sites, d \in Addresses : Raw(s, d)' = Raw(s, d) \ {t}
  <2> SUFFICES ASSUME NEW s \in Sites, NEW d \in Addresses
               PROVE  Raw(s, d)' = Raw(s, d) \ {t}
    OBVIOUS
  <2>1. t \notin Raw(s, d)'
    BY <1>4, <1>6, VendorAssumption DEF Raw
  <2>2. QED
    BY <1>6, <2>1 DEF Raw
<1>12. Owned'
  <2> SUFFICES ASSUME NEW s \in Sites, NEW d \in Addresses
               PROVE  /\ (memory'[s][d] # Free) <=> (Ref(s, d)' \/ Raw(s, d)' # {})
                      /\ \A u, v \in Raw(s, d)' : u = v
                      /\ Raw(s, d)' # {} => ~Ref(s, d)'
    BY DEF Owned
  <2>1. CASE s = m /\ d = r
    <3>1. memory'[s][d] = up /\ Raw(s, d)' = {}
      BY <1>2, <1>7, <1>11, <2>1
    <3>2. Ref(s, d)'
      BY <1>10, <2>1
    <3>3. QED
      BY <1>3, <3>1, <3>2
  <2>2. CASE ~(s = m /\ d = r)
    <3>1. memory'[s][d] = memory[s][d]
      BY <1>7, <2>2
    <3>2. Raw(s, d)' = Raw(s, d)
      BY <1>2, <1>11, <2>2
    <3>3. Ref(s, d)' <=> Ref(s, d)
      BY <1>10, <2>2
    <3>4. QED
      BY <3>1, <3>2, <3>3 DEF MemoryInv, Owned
  <2>3. QED
    BY <2>1, <2>2
<1>13. OutputOwned'
  <2> SUFFICES ASSUME NEW u \in Threads, Busy(u)', call'[u].bufs["output"] # None
               PROVE  /\ \A y \in Tensors : tensors'[y].state = "device" /\ tensors'[y].site = call'[u].site
                           => tensors'[y].addr # call'[u].bufs["output"]
                      /\ \A v \in Threads \ {u} : Busy(v)' /\ call'[v].site = call'[u].site =>
                           \A b \in Buffers : call'[v].bufs[b] # call'[u].bufs["output"]
    BY DEF OutputOwned
  <2>1. CASE u = t
    <3>1. o = "output" /\ call'[u].bufs["output"] = r /\ call'[u].site = m
      BY <1>2, <1>4, <1>6, <2>1 DEF Buffers
    <3>2. \A y \in Tensors : tensors[y].state = "device" /\ tensors[y].site = m => tensors[y].addr # r
      BY <1>2 DEF Ref, Referenced
    <3>3. \A v \in Threads \ {u} : Busy(v) /\ call[v].site = m => \A b \in Buffers : call[v].bufs[b] # r
      BY <1>2 DEF Ref, Referenced, Busy, NoBuffers, Buffers
    <3>4. QED
      BY <1>1, <1>6, <2>1, <3>1, <3>2, <3>3 DEF Busy
  <2>2. CASE u # t
    <3>1. call'[u] = call[u] /\ Busy(u)
      BY <1>6, <2>2 DEF Busy
    <3>2. /\ \A y \in Tensors : tensors[y].state = "device" /\ tensors[y].site = call[u].site
               => tensors[y].addr # call[u].bufs["output"]
          /\ \A v \in Threads \ {u} : Busy(v) /\ call[v].site = call[u].site =>
               \A b \in Buffers : call[v].bufs[b] # call[u].bufs["output"]
      BY <3>1 DEF MemoryInv, OutputOwned
    <3>3. call[u].site = m => call[u].bufs["output"] # r
      BY <1>2, <3>1 DEF Ref, Referenced, Busy, NoBuffers, Buffers
    <3>4. ASSUME NEW v \in Threads \ {u}, Busy(v)', call'[v].site = call'[u].site, NEW b \in Buffers
          PROVE  call'[v].bufs[b] # call'[u].bufs["output"]
      <4>1. CASE v # t
        BY <1>6, <3>1, <3>2, <3>4, <4>1 DEF Busy
      <4>2. CASE v = t
        BY <1>2, <1>4, <1>6, <3>1, <3>2, <3>3, <3>4, <4>2
      <4>3. QED
        BY <4>1, <4>2
    <3>5. QED
      BY <1>1, <3>1, <3>2, <3>4
  <2>3. QED
    BY <2>1, <2>2
<1>14. OperandsHeld'
  <2> SUFFICES ASSUME NEW u \in Threads, Busy(u)'
               PROVE  /\ \A p \in Operands : call'[u].bufs[p] # None =>
                           memory'[call'[u].site][call'[u].bufs[p]] = Owed(call[u].inputs[p])'
                      /\ call'[u].raw # None /\ call'[u].at \in Operands =>
                           ~Reusable(Operand(u), call[u].site)' /\ Readable(Operand(u))'
    BY DEF OperandsHeld
  <2>1. CASE u # t
    <3>1. call'[u] = call[u] /\ Busy(u) /\ call[u].site \in Sites
      BY <1>6, <2>1, CallFacts DEF Busy
    <3>2. \A a \in Addresses : Ref(call[u].site, a) => memory'[call[u].site][a] = memory[call[u].site][a]
      BY <1>2, <1>7, <3>1
    <3>3. /\ \A p \in Operands : call'[u].bufs[p] # None =>
               memory'[call'[u].site][call'[u].bufs[p]] = Owed(call[u].inputs[p])'
          /\ Reusable(Operand(u), call[u].site)' <=> Reusable(Operand(u), call[u].site)
          /\ Readable(Operand(u))' <=> Readable(Operand(u))
      BY <1>1, <3>1, <3>2, StayOperands
    <3>4. QED
      BY <3>1, <3>3 DEF MemoryInv, OperandsHeld
  <2>2. CASE u = t
    <3>1. call'[u].raw = None /\ call'[u].site = m
      BY <1>4, <1>6, <2>2
    <3>2. ASSUME NEW p \in Operands, call'[u].bufs[p] # None
          PROVE  memory'[call'[u].site][call'[u].bufs[p]] = Owed(call[u].inputs[p])'
      <4>1. Owed(call[u].inputs[p])' = Owed(call[t].inputs[p]) /\ p \in Buffers
        BY <1>1, <1>4, <1>6, <2>2 DEF Owed, Buffers
      <4>2. CASE p = o
        <5>1. call'[u].bufs[p] = r /\ memory'[m][r] = up
          BY <1>2, <1>4, <1>6, <1>7, <2>2, <4>2
        <5>2. up = Owed(call[t].inputs[p])
          BY <1>3, <4>2
        <5>3. QED
          BY <3>1, <4>1, <5>1, <5>2
      <4>3. CASE p # o
        <5>1. call'[u].bufs[p] = call[t].bufs[p] /\ call[t].bufs[p] \in Addresses
          BY <1>2, <1>4, <1>6, <2>2, <3>2, <4>1, <4>3, CallFacts
        <5>2. Ref(m, call[t].bufs[p])
          BY <1>2, <4>1, <5>1 DEF Ref, Referenced, Busy, NoBuffers, Buffers
        <5>3. memory'[m][call[t].bufs[p]] = memory[m][call[t].bufs[p]]
          BY <1>2, <1>7, <5>1, <5>2
        <5>4. memory[m][call[t].bufs[p]] = Owed(call[t].inputs[p])
          BY <1>2, <3>2, <5>1 DEF MemoryInv, OperandsHeld
        <5>5. QED
          BY <3>1, <4>1, <5>1, <5>3, <5>4
      <4>4. QED
        BY <4>2, <4>3
    <3>3. QED
      BY <3>1, <3>2
  <2>3. QED
    BY <2>1, <2>2
<1>15. ResultsAreProducts'
  <2> SUFFICES ASSUME NEW x \in Tensors, tensors[x].state = "device"
               PROVE  /\ memory'[tensors[x].site][tensors[x].addr] = tensors[x].value
                      /\ tensors[x].read \in {Unread, ReadError, tensors[x].value}
    BY <1>1 DEF ResultsAreProducts
  <2>1. tensors[x].site \in Sites /\ tensors[x].addr \in Addresses
    BY DEF Shape, TensorShape
  <2>2. Ref(tensors[x].site, tensors[x].addr)
    BY DEF Ref, Referenced
  <2>3. memory'[tensors[x].site][tensors[x].addr] = memory[tensors[x].site][tensors[x].addr]
    BY <1>2, <1>7, <2>1, <2>2
  <2>4. QED
    BY <2>3 DEF MemoryInv, ResultsAreProducts
<1>16. QED
  BY <1>8, <1>12, <1>13, <1>14, <1>15 DEF MemoryInv

\* The handle of a product: its dimensions fit, or the call fails.
LEMMA CreateHandleStep ==
  ASSUME Shape, MemoryInv, NEW t \in Threads, CreateHandle(t)
  PROVE  Shape' /\ MemoryInv'
<1> DEFINE m == call[t].site
           c == [call[t] EXCEPT !.at = "gemm"]
<1>1. /\ Busy(t) /\ call[t] \in Call /\ Placed(call[t]) /\ m \in Sites /\ OnRuntime(t)
      /\ call[t].at = "handle"
  BY CallFacts DEF CreateHandle, Busy
<1>2. call[t].raw = None
  BY <1>1 DEF Placed, Buffers, Operands
<1>3. call \in [Threads -> Call] /\ memory \in [Sites -> [Addresses -> Terms]]
  BY DEF Shape, DataType
<1>4. handles' \in [Sites -> Int] /\ UNCHANGED <<site, counters>>
  BY <1>1 DEF CreateHandle, Shape, SiteType
<1>5. CASE call[t].shape = "oversized"
  <2>1. EndCall(t, EmptySlot, memory)
    BY <1>1, <1>5 DEF CreateHandle, EndCall
  <2>2. ended \in [Sites -> [produced : Nat, failed : Nat, oversized : Nat, flushed : Nat]]
    BY DEF Shape, SiteType
  <2> DEFINE failed == [ended EXCEPT ![m].failed = @ + 1]
  <2>3. failed \in [Sites -> [produced : Nat, failed : Nat, oversized : Nat, flushed : Nat]]
    BY <1>1, <2>2
  <2>4. ended' \in [Sites -> [produced : Nat, failed : Nat, oversized : Nat, flushed : Nat]]
    <3>1. ended' = [failed EXCEPT ![m].oversized = @ + 1]
      BY <1>1, <1>5, <2>2 DEF CreateHandle
    <3> HIDE DEF failed
    <3>2. QED
      BY <1>1, <2>3, <3>1
  <2>5. Result(EmptySlot) /\ Settled(t, EmptySlot, memory)
    BY <1>2, SettledAsIs, EmptySlotType DEF Result
  <2>6. QED
    BY <1>4, <2>1, <2>4, <2>5, EndStep
<1>6. CASE call[t].shape # "oversized"
  <2>1. call' = [call EXCEPT ![t] = c] /\ UNCHANGED <<loaded, memory, tensors, ended>>
    BY <1>1, <1>6 DEF CreateHandle
  <2>2. /\ c \in Call /\ c.at = "gemm" /\ c.site = m /\ c.into = call[t].into
        /\ c.inputs = call[t].inputs /\ c.bufs = call[t].bufs /\ c.raw = None
    BY <1>1, <1>2 DEF Call, Places
  <2>3. Placed(c)
    BY <1>1, <2>2 DEF Placed
  <2>4. Shape'
    <3>1. c.site = call[t].site
      BY <2>2
    <3> HIDE DEF c
    <3>2. QED
      BY <1>1, <1>3, <1>4, <2>1, <2>2, <2>3, <3>1, StageShape
  <2>5. call'[t] = c /\ \A u \in Threads \ {t} : call'[u] = call[u]
    BY <1>3, <2>1
  <2>6. \A u \in Threads : /\ Busy(u)' <=> Busy(u)
                           /\ call'[u].site = call[u].site /\ call'[u].bufs = call[u].bufs
                           /\ call'[u].raw = call[u].raw /\ call'[u].inputs = call[u].inputs
                           /\ (call[u].raw # None => call'[u].at = call[u].at)
    BY <1>1, <1>2, <2>2, <2>5 DEF Busy
  <2>7. \A s \in Sites, a \in Addresses : Ref(s, a)' <=> Ref(s, a)
    BY <2>1, <2>6 DEF Ref, Referenced, Busy
  <2>8. \A s \in Sites, a \in Addresses : Raw(s, a)' = Raw(s, a)
    BY <2>6 DEF Raw
  <2>9. Owned'
    BY <2>1, <2>7, <2>8 DEF MemoryInv, Owned
  <2>10. OutputOwned'
    BY <2>1, <2>6 DEF MemoryInv, OutputOwned
  <2>11. OperandsHeld'
    <3> SUFFICES ASSUME NEW u \in Threads, Busy(u)'
                 PROVE  /\ \A p \in Operands : call'[u].bufs[p] # None =>
                             memory'[call'[u].site][call'[u].bufs[p]] = Owed(call[u].inputs[p])'
                        /\ call'[u].raw # None /\ call'[u].at \in Operands =>
                             ~Reusable(Operand(u), call[u].site)' /\ Readable(Operand(u))'
      BY DEF OperandsHeld
    <3>1. CASE call[u].raw # None
      <4>1. Busy(u) /\ call'[u].at = call[u].at /\ call'[u].raw = call[u].raw
            /\ call'[u].site = call[u].site /\ call'[u].inputs = call[u].inputs /\ call'[u].bufs = call[u].bufs
        BY <2>6, <3>1
      <4>2. /\ \A p \in Operands : call'[u].bufs[p] # None =>
                 memory'[call'[u].site][call'[u].bufs[p]] = Owed(call[u].inputs[p])'
            /\ Reusable(Operand(u), call[u].site)' <=> Reusable(Operand(u), call[u].site)
            /\ Readable(Operand(u))' <=> Readable(Operand(u))
        BY <2>1, <4>1, StayOperands
      <4>3. QED
        BY <4>1, <4>2 DEF MemoryInv, OperandsHeld
    <3>2. CASE call[u].raw = None
      <4>1. \A p \in Operands : Owed(call[u].inputs[p])' = Owed(call[u].inputs[p])
        BY <2>1, <2>6 DEF Owed
      <4>2. QED
        BY <2>1, <2>6, <3>2, <4>1 DEF MemoryInv, OperandsHeld
    <3>3. QED
      BY <3>1, <3>2
  <2>12. ResultsAreProducts'
    BY <2>1 DEF MemoryInv, ResultsAreProducts
  <2>13. QED
    BY <2>4, <2>9, <2>10, <2>11, <2>12 DEF MemoryInv
<1>7. QED
  BY <1>5, <1>6

-----------------------------------------------------------------------------
(* The other steps.                                                        *)

\* A read asks the device and keeps the answer.
LEMMA MaterializeStep ==
  ASSUME Shape, MemoryInv, NEW x \in Tensors, Materialize(x)
  PROVE  Shape' /\ MemoryInv'
<1>1. PICK answer \in {memory[tensors[x].site][tensors[x].addr], ReadError} :
        tensors' = [tensors EXCEPT ![x].read = answer]
  BY DEF Materialize
<1>2. /\ tensors[x].state = "device" /\ tensors[x].read = Unread
      /\ UNCHANGED <<site, loaded, counters, memory, handles, call, ended>>
  BY DEF Materialize, Unanswered
<1>3. tensors[x].site \in Sites /\ tensors[x].addr \in Addresses /\ tensors[x] \in Slot
      /\ tensors \in [Tensors -> Slot] /\ memory \in [Sites -> [Addresses -> Terms]]
  BY <1>2 DEF Shape, TensorShape, DataType
<1>4. answer \in Terms /\ answer \in {tensors[x].value, ReadError}
  BY <1>2, <1>3, TermFacts DEF MemoryInv, ResultsAreProducts
<1>5. tensors' \in [Tensors -> Slot]
  BY <1>1, <1>3, <1>4 DEF Slot
<1>6. \A y \in Tensors :
        /\ tensors'[y].state = tensors[y].state /\ tensors'[y].site = tensors[y].site
        /\ tensors'[y].addr = tensors[y].addr /\ tensors'[y].value = tensors[y].value
        /\ tensors'[y].read = IF y = x THEN answer ELSE tensors[y].read
  BY <1>1, <1>3 DEF Slot
<1>7. Shape'
  <2>1. SiteType' /\ DataType' /\ TensorShape'
    BY <1>2, <1>5, <1>6 DEF Shape, SiteType, DataType, TensorShape
  <2>2. CallShape'
    <3> SUFFICES ASSUME NEW t \in Threads
                 PROVE  /\ ~Busy(t)' => call'[t] = Idle
                        /\ Busy(t)' => /\ Claims(t)' /\ Placed(call[t])'
                                       /\ (call[t].at # "left" \/ call[t].raw # None => OnRuntime(t))'
      BY DEF CallShape
    <3>1. /\ ~Busy(t) => call[t] = Idle
          /\ Busy(t) => /\ Claims(t) /\ Placed(call[t])
                        /\ (call[t].at # "left" \/ call[t].raw # None => OnRuntime(t))
      BY DEF Shape, CallShape
    <3>2. (Busy(t)' <=> Busy(t)) /\ call' = call /\ site' = site
      BY <1>2 DEF Busy
    <3>3. Placed(call[t])' <=> Placed(call[t])
      BY <3>2 DEF Placed
    <3>4. OnRuntime(t)' <=> OnRuntime(t)
      BY <3>2 DEF OnRuntime
    <3>5. Busy(t) => Claims(t)'
      <4> SUFFICES ASSUME Busy(t)
                   PROVE  Claims(t)'
        OBVIOUS
      <4>1. \A o \in Operands : call[t].inputs[o] # "host" => Stored(call[t].inputs[o])'
        <5> SUFFICES ASSUME NEW o \in Operands, call[t].inputs[o] # "host"
                     PROVE  Stored(call[t].inputs[o])'
          OBVIOUS
        <5>1. call[t].inputs[o] \in Tensors /\ Stored(call[t].inputs[o])
          BY CallFacts
        <5>2. QED
          BY <1>6, <3>2, <5>1 DEF Stored
      <4>2. QED
        BY <1>6, <3>1, <3>2, <4>1 DEF Claims, Busy
    <3>6. QED
      BY <3>1, <3>2, <3>3, <3>4, <3>5
  <2>3. QED
    BY <2>1, <2>2 DEF Shape
<1>8. \A s \in Sites, a \in Addresses : (Ref(s, a)' <=> Ref(s, a)) /\ Raw(s, a)' = Raw(s, a)
  BY <1>2, <1>6 DEF Ref, Referenced, Raw
<1>9. Owned' /\ OutputOwned'
  BY <1>2, <1>6, <1>8 DEF MemoryInv, Owned, OutputOwned, Busy
<1>10. OperandsHeld'
  <2> SUFFICES ASSUME NEW u \in Threads, Busy(u)
               PROVE  /\ \A p \in Operands : call[u].bufs[p] # None =>
                           memory[call[u].site][call[u].bufs[p]] = Owed(call[u].inputs[p])'
                      /\ call[u].raw # None /\ call[u].at \in Operands =>
                           ~Reusable(Operand(u), call[u].site)' /\ Readable(Operand(u))'
    BY <1>2 DEF OperandsHeld, Busy
  <2>1. ASSUME NEW p \in Operands
        PROVE  Owed(call[u].inputs[p])' = Owed(call[u].inputs[p])
    <3>1. call[u].inputs[p] \in Tensors \cup {"host"}
      BY CallFacts
    <3>2. QED
      BY <1>2, <1>6, <3>1 DEF Owed
  <2>2. ASSUME call[u].raw # None, call[u].at \in Operands
        PROVE  ~Reusable(Operand(u), call[u].site)' /\ Readable(Operand(u))'
    <3> DEFINE y == call[u].inputs[call[u].at]
    <3>1. y \in Tensors \cup {"host"} /\ Operand(u) = y /\ Operand(u)' = y
      BY <1>2, <2>2, CallFacts DEF Operand
    <3>2. ~Reusable(y, call[u].site) /\ Cells(y) \notin {Unread, ReadError}
      BY <2>2, <3>1 DEF MemoryInv, OperandsHeld, Readable
    <3>3. y # x \/ y = "host"
      BY <1>2, <3>1, <3>2, VendorAssumption DEF Cells, Unread, ReadError
    <3>4. y # "host" => y \in Tensors /\ y # x
      BY <3>1, <3>3
    <3>5. ~Reusable(Operand(u), call[u].site)'
      BY <1>2, <1>6, <3>1, <3>2, <3>4 DEF Reusable
    <3>6. Readable(Operand(u))'
      BY <1>2, <1>6, <3>1, <3>2, <3>4 DEF Readable, Cells, Unread, ReadError
    <3>7. QED
      BY <3>5, <3>6
  <2>3. QED
    BY <2>1, <2>2 DEF MemoryInv, OperandsHeld
<1>11. ResultsAreProducts'
  BY <1>2, <1>4, <1>6 DEF MemoryInv, ResultsAreProducts, Unread, ReadError
<1>12. QED
  BY <1>7, <1>9, <1>10, <1>11 DEF MemoryInv

Counts == [accepted : Nat, queued : Nat, next : Nat]

\* reserve_allocation counts once in each counter.
LEMMA ReservedFacts ==
  ASSUME NEW k \in Counts
  PROVE  /\ Reserved(k) \in Counts
         /\ Reserved(k) = [accepted |-> k.accepted + 1, queued |-> k.queued + 1, next |-> k.next + 1]
<1> DEFINE k1 == [accepted |-> k.accepted + 1, queued |-> k.queued, next |-> k.next]
           k2 == [accepted |-> k.accepted + 1, queued |-> k.queued + 1, next |-> k.next]
<1>1. k = [accepted |-> k.accepted, queued |-> k.queued, next |-> k.next]
      /\ k.accepted \in Nat /\ k.queued \in Nat /\ k.next \in Nat
  BY DEF Counts
<1>2. [k EXCEPT !.accepted = @ + 1] = k1
  BY <1>1
<1>3. [k1 EXCEPT !.queued = @ + 1] = k2
  OBVIOUS
<1>4. [k2 EXCEPT !.next = @ + 1]
        = [accepted |-> k.accepted + 1, queued |-> k.queued + 1, next |-> k.next + 1]
  OBVIOUS
<1> HIDE DEF k1, k2
<1>5. Reserved(k) = [accepted |-> k.accepted + 1, queued |-> k.queued + 1, next |-> k.next + 1]
  BY <1>2, <1>3, <1>4 DEF Reserved
<1>6. QED
  BY <1>1, <1>5 DEF Counts

\* A call begins with an empty slot of its own and nothing on the device.
LEMMA BeginStep ==
  ASSUME Shape, MemoryInv, NEW t \in Threads, NEW s \in Sites, NEW inputs \in [Operands -> Available],
         NEW x \in Empty, NEW shape \in Shapes, Begin(t, s, inputs, x, shape)
  PROVE  Shape' /\ MemoryInv'
<1> DEFINE c == [Idle EXCEPT !.at = "left", !.site = s, !.inputs = inputs, !.into = x, !.shape = shape]
<1>1. /\ call[t].at = "idle" /\ site[s].status \in {"runtime", "evidence"}
      /\ counters' = [counters EXCEPT ![s] = Reserved(@)]
      /\ call' = [call EXCEPT ![t] = c]
      /\ tensors' = [tensors EXCEPT ![x].state = "pending"]
      /\ UNCHANGED <<site, loaded, memory, handles, ended>>
  BY DEF Begin
<1>2. x \in Tensors /\ tensors[x].state = "empty"
  BY DEF Empty
<1>3. \A o \in Operands : inputs[o] \in Tensors \cup {"host"}
                          /\ (inputs[o] # "host" => Stored(inputs[o]) /\ inputs[o] # x)
  BY <1>2 DEF Available, Stored
<1>4. call \in [Threads -> Call] /\ tensors \in [Tensors -> Slot]
  BY DEF Shape, DataType
<1>5. c = [at |-> "left", site |-> s, inputs |-> inputs, into |-> x, shape |-> shape,
           raw |-> None, bufs |-> NoBuffers]
  <2> DEFINE i0 == [o \in Operands |-> "host"]
             c1 == [at |-> "left", site |-> None, inputs |-> i0, into |-> None, shape |-> None,
                    raw |-> None, bufs |-> NoBuffers]
             c2 == [at |-> "left", site |-> s, inputs |-> i0, into |-> None, shape |-> None,
                    raw |-> None, bufs |-> NoBuffers]
             c3 == [at |-> "left", site |-> s, inputs |-> inputs, into |-> None, shape |-> None,
                    raw |-> None, bufs |-> NoBuffers]
             c4 == [at |-> "left", site |-> s, inputs |-> inputs, into |-> x, shape |-> None,
                    raw |-> None, bufs |-> NoBuffers]
  <2>1. Idle = [at |-> "idle", site |-> None, inputs |-> i0, into |-> None, shape |-> None,
                raw |-> None, bufs |-> NoBuffers]
    BY DEF Idle
  <2> HIDE DEF i0
  <2>2. [Idle EXCEPT !.at = "left"] = c1
    BY <2>1
  <2>3. [c1 EXCEPT !.site = s] = c2 /\ [c2 EXCEPT !.inputs = inputs] = c3 /\ [c3 EXCEPT !.into = x] = c4
    OBVIOUS
  <2>4. [c4 EXCEPT !.shape = shape] = [at |-> "left", site |-> s, inputs |-> inputs, into |-> x,
                                       shape |-> shape, raw |-> None, bufs |-> NoBuffers]
    OBVIOUS
  <2> HIDE DEF c1, c2, c3, c4
  <2>5. QED
    BY <2>2, <2>3, <2>4
<1>6. NoBuffers \in [Buffers -> Addresses \cup {None}] /\ \A b \in Buffers : NoBuffers[b] = None
  BY DEF NoBuffers, Buffers
<1>7. inputs \in [Operands -> Tensors \cup {"host"}]
  BY <1>3
<1>8. c \in Call
  <2> HIDE DEF c
  <2>1. QED
    BY <1>2, <1>5, <1>6, <1>7 DEF Call, Places
<1>9. /\ c.at = "left" /\ c.site = s /\ c.inputs = inputs /\ c.into = x /\ c.raw = None
      /\ c.bufs = NoBuffers
  <2> HIDE DEF c
  <2>1. QED
    BY <1>5
<1> HIDE DEF c
<1>10. call'[t] = c /\ \A u \in Threads \ {t} : call'[u] = call[u]
  BY <1>1, <1>4
<1>11. /\ tensors' \in [Tensors -> Slot]
       /\ tensors'[x].state = "pending" /\ \A y \in Tensors \ {x} : tensors'[y] = tensors[y]
  BY <1>1, <1>2, <1>4 DEF Slot
<1>12. \A y : y \in Tensors /\ (Stored(y) \/ tensors[y].state = "pending") => y # x /\ tensors'[y] = tensors[y]
  BY <1>2, <1>11 DEF Stored
<1>13. Placed(c)
  BY <1>6, <1>9 DEF Placed, Buffers, Operands
<1>14. SiteType'
  <2>1. counters \in [Sites -> Counts]
    BY DEF Shape, SiteType, Counts
  <2>2. counters[s] \in Counts
    BY <2>1
  <2>3. Reserved(counters[s]) \in Counts
    BY <2>2, ReservedFacts
  <2>4. counters' \in [Sites -> Counts]
    BY <1>1, <2>1, <2>3
  <2>5. QED
    BY <1>1, <2>4 DEF Shape, SiteType, Counts
<1>15. DataType'
  BY <1>1, <1>4, <1>8, <1>11 DEF Shape, DataType
<1>16. TensorShape'
  BY <1>2, <1>11 DEF Shape, TensorShape
<1>17. CallShape'
  <2> SUFFICES ASSUME NEW u \in Threads
               PROVE  /\ ~Busy(u)' => call'[u] = Idle
                      /\ Busy(u)' => /\ Claims(u)' /\ Placed(call[u])'
                                     /\ (call[u].at # "left" \/ call[u].raw # None => OnRuntime(u))'
    BY DEF CallShape
  <2>1. CASE u = t
    <3>1. call'[u].site \in Sites /\ site'[call'[u].site].status \in {"runtime", "evidence"}
      BY <1>1, <1>9, <1>10, <2>1
    <3>2. call'[u].into \in Tensors /\ tensors'[call'[u].into].state = "pending"
      BY <1>2, <1>9, <1>10, <1>11, <2>1
    <3>3. ASSUME NEW v \in Threads \ {u}, Busy(v)'
          PROVE  call'[v].into # call'[u].into
      <4>1. Busy(v) /\ call'[v] = call[v]
        BY <1>10, <2>1, <3>3 DEF Busy
      <4>2. QED
        BY <1>9, <1>10, <1>12, <2>1, <4>1, CallFacts
    <3>4. ASSUME NEW o \in Operands, call'[u].inputs[o] # "host"
          PROVE  Stored(call[u].inputs[o])'
      <4>1. call'[u].inputs[o] = inputs[o] /\ inputs[o] \in Tensors /\ Stored(inputs[o])
        BY <1>3, <1>9, <1>10, <2>1, <3>4
      <4>2. QED
        BY <1>12, <4>1 DEF Stored
    <3>5. Claims(u)'
      BY <3>1, <3>2, <3>3, <3>4 DEF Claims
    <3>6. Placed(call[u])'
      BY <1>10, <1>13, <2>1 DEF Placed
    <3>7. QED
      BY <1>9, <1>10, <2>1, <3>5, <3>6 DEF Busy
  <2>2. CASE u # t
    <3>1. call'[u] = call[u] /\ (Busy(u)' <=> Busy(u))
      BY <1>10, <2>2 DEF Busy
    <3>2. ~Busy(u) => call[u] = Idle
      BY DEF Shape, CallShape
    <3>3. ASSUME Busy(u)
          PROVE  Claims(u)'
      <4>1. Claims(u)
        BY <3>3 DEF Shape, CallShape
      <4>2. call[u].into # x /\ tensors'[call[u].into].state = "pending"
        BY <1>12, <3>3, CallFacts
      <4>3. \A v \in Threads \ {u} : Busy(v)' => call'[v].into # call'[u].into
        BY <1>9, <1>10, <3>1, <4>1, <4>2 DEF Claims, Busy
      <4>4. \A o \in Operands : call[u].inputs[o] # "host" => Stored(call[u].inputs[o])'
        <5> SUFFICES ASSUME NEW o \in Operands, call[u].inputs[o] # "host"
                     PROVE  Stored(call[u].inputs[o])'
          OBVIOUS
        <5>1. call[u].inputs[o] \in Tensors /\ Stored(call[u].inputs[o])
          BY <3>3, CallFacts
        <5>2. QED
          BY <1>12, <3>1, <5>1 DEF Stored
      <4>5. QED
        BY <1>1, <3>1, <4>1, <4>2, <4>3, <4>4 DEF Claims
    <3>4. Busy(u) => Placed(call[u])' /\ (call[u].at # "left" \/ call[u].raw # None => OnRuntime(u))'
      BY <1>1, <3>1, CallFacts DEF Placed, OnRuntime
    <3>5. QED
      BY <3>1, <3>2, <3>3, <3>4
  <2>3. QED
    BY <2>1, <2>2
<1>18. Shape'
  BY <1>14, <1>15, <1>16, <1>17 DEF Shape
<1>19. call[t] = Idle /\ \A b \in Buffers : call[t].bufs[b] = None
  BY <1>1, <1>6 DEF Shape, CallShape, Busy, Idle
<1>20. \A y \in Tensors : (tensors'[y].state = "device" <=> tensors[y].state = "device")
                          /\ (tensors[y].state = "device" => tensors'[y] = tensors[y])
  BY <1>2, <1>11
<1>21. ASSUME NEW d \in Sites, NEW a \in Addresses
       PROVE  (Ref(d, a)' <=> Ref(d, a)) /\ Raw(d, a)' = Raw(d, a)
  <2>1. a # None
    BY VendorAssumption
  <2>2. Ref(d, a)' <=>
          \/ \E y \in Tensors : tensors'[y].state = "device" /\ tensors'[y].site = d /\ tensors'[y].addr = a
          \/ \E u \in Threads \ {t} : call[u].at # "idle" /\ call[u].site = d
                                      /\ \E b \in Buffers : call[u].bufs[b] = a
    BY <1>6, <1>9, <1>10, <2>1 DEF Ref, Referenced, NoBuffers, Buffers
  <2>3. Ref(d, a) <=>
          \/ \E y \in Tensors : tensors[y].state = "device" /\ tensors[y].site = d /\ tensors[y].addr = a
          \/ \E u \in Threads \ {t} : call[u].at # "idle" /\ call[u].site = d
                                      /\ \E b \in Buffers : call[u].bufs[b] = a
    BY <1>1 DEF Ref, Referenced, NoBuffers, Buffers
  <2>4. Raw(d, a)' = Raw(d, a)
    BY <1>9, <1>10, <1>19, <2>1, IdleType DEF Raw
  <2>5. QED
    BY <1>20, <2>2, <2>3, <2>4
<1>22. Owned'
  BY <1>1, <1>21 DEF MemoryInv, Owned
<1>23. OutputOwned'
  <2> SUFFICES ASSUME NEW u \in Threads, Busy(u)', call'[u].bufs["output"] # None
               PROVE  /\ \A y \in Tensors : tensors'[y].state = "device" /\ tensors'[y].site = call'[u].site
                           => tensors'[y].addr # call'[u].bufs["output"]
                      /\ \A v \in Threads \ {u} : Busy(v)' /\ call'[v].site = call'[u].site =>
                           \A b \in Buffers : call'[v].bufs[b] # call'[u].bufs["output"]
    BY DEF OutputOwned
  <2>1. u # t
    BY <1>6, <1>9, <1>10 DEF Buffers
  <2>2. call'[u] = call[u] /\ Busy(u)
    BY <1>10, <2>1 DEF Busy
  <2>3. \A y \in Tensors : tensors'[y].state = "device" /\ tensors'[y].site = call'[u].site
          => tensors'[y].addr # call'[u].bufs["output"]
    BY <1>20, <2>2 DEF MemoryInv, OutputOwned
  <2>4. ASSUME NEW v \in Threads \ {u}, Busy(v)', call'[v].site = call'[u].site, NEW b \in Buffers
        PROVE  call'[v].bufs[b] # call'[u].bufs["output"]
    <3>1. CASE v = t
      BY <1>6, <1>9, <1>10, <3>1
    <3>2. CASE v # t
      BY <1>10, <2>2, <2>4, <3>2 DEF MemoryInv, OutputOwned, Busy
    <3>3. QED
      BY <3>1, <3>2
  <2>5. QED
    BY <2>3, <2>4
<1>24. OperandsHeld'
  <2> SUFFICES ASSUME NEW u \in Threads, Busy(u)'
               PROVE  /\ \A p \in Operands : call'[u].bufs[p] # None =>
                           memory'[call'[u].site][call'[u].bufs[p]] = Owed(call[u].inputs[p])'
                      /\ call'[u].raw # None /\ call'[u].at \in Operands =>
                           ~Reusable(Operand(u), call[u].site)' /\ Readable(Operand(u))'
    BY DEF OperandsHeld
  <2>1. CASE u = t
    BY <1>6, <1>9, <1>10, <2>1 DEF Buffers
  <2>2. CASE u # t
    <3>1. call'[u] = call[u] /\ Busy(u)
      BY <1>10, <2>2 DEF Busy
    <3>2. ASSUME NEW p \in Operands
          PROVE  Owed(call[u].inputs[p])' = Owed(call[u].inputs[p])
      BY <1>12, <3>1, CallFacts DEF Owed
    <3>3. ASSUME call[u].raw # None, call[u].at \in Operands
          PROVE  ~Reusable(Operand(u), call[u].site)' /\ Readable(Operand(u))'
      <4> DEFINE y == call[u].inputs[call[u].at]
      <4>1. (y = "host" \/ (y \in Tensors /\ tensors'[y] = tensors[y])) /\ Operand(u) = y /\ Operand(u)' = y
        BY <1>12, <3>1, <3>3, CallFacts DEF Operand
      <4>2. ~Reusable(y, call[u].site) /\ Cells(y) \notin {Unread, ReadError}
        BY <3>1, <3>3, <4>1 DEF MemoryInv, OperandsHeld, Readable
      <4>3. ~Reusable(Operand(u), call[u].site)'
        BY <3>1, <4>1, <4>2 DEF Reusable
      <4>4. Readable(Operand(u))'
        BY <4>1, <4>2 DEF Readable, Cells, Unread, ReadError
      <4>5. QED
        BY <4>3, <4>4
    <3>4. QED
      BY <1>1, <3>1, <3>2, <3>3 DEF MemoryInv, OperandsHeld
  <2>3. QED
    BY <2>1, <2>2
<1>25. ResultsAreProducts'
  BY <1>1, <1>20 DEF MemoryInv, ResultsAreProducts
<1>26. QED
  BY <1>18, <1>22, <1>23, <1>24, <1>25 DEF MemoryInv

\* Steps that leave calls and memory alone.
LEMMA SiteStep ==
  ASSUME Shape, MemoryInv, UNCHANGED <<memory, tensors, call>>, SiteType',
         \A t \in Threads : Busy(t) => site'[call[t].site].status = site[call[t].site].status
  PROVE  Shape' /\ MemoryInv'
<1>1. DataType' /\ TensorShape'
  BY DEF Shape, DataType, TensorShape
<1>2. CallShape'
  <2> SUFFICES ASSUME NEW t \in Threads
               PROVE  /\ ~Busy(t)' => call'[t] = Idle
                      /\ Busy(t)' => /\ Claims(t)' /\ Placed(call[t])'
                                     /\ (call[t].at # "left" \/ call[t].raw # None => OnRuntime(t))'
    BY DEF CallShape
  <2>1. Busy(t)' <=> Busy(t)
    BY DEF Busy
  <2>2. ~Busy(t) => call[t] = Idle
    BY DEF Shape, CallShape
  <2>3. Busy(t) => Claims(t)'
    BY DEF Shape, CallShape, Claims, Stored, Busy
  <2>4. Busy(t) => Placed(call[t])'
    BY CallFacts DEF Placed
  <2>5. Busy(t) => (call[t].at # "left" \/ call[t].raw # None => OnRuntime(t))'
    BY CallFacts DEF OnRuntime
  <2>6. QED
    BY <2>1, <2>2, <2>3, <2>4, <2>5
<1>3. \A s \in Sites, a \in Addresses : (Ref(s, a)' <=> Ref(s, a)) /\ Raw(s, a)' = Raw(s, a)
  BY DEF Ref, Referenced, Raw
<1>4. Owned' /\ OutputOwned'
  BY <1>3 DEF MemoryInv, Owned, OutputOwned, Busy
<1>5. OperandsHeld'
  <2> SUFFICES ASSUME NEW u \in Threads, Busy(u)
               PROVE  /\ \A p \in Operands : call[u].bufs[p] # None =>
                           memory[call[u].site][call[u].bufs[p]] = Owed(call[u].inputs[p])'
                      /\ call[u].raw # None /\ call[u].at \in Operands =>
                           ~Reusable(Operand(u), call[u].site)' /\ Readable(Operand(u))'
    BY DEF OperandsHeld, Busy
  <2>1. /\ \A p \in Operands : call'[u].bufs[p] # None =>
             memory'[call'[u].site][call'[u].bufs[p]] = Owed(call[u].inputs[p])'
        /\ Reusable(Operand(u), call[u].site)' <=> Reusable(Operand(u), call[u].site)
        /\ Readable(Operand(u))' <=> Readable(Operand(u))
    BY StayOperands
  <2>2. QED
    BY <2>1 DEF MemoryInv, OperandsHeld
<1>6. ResultsAreProducts'
  BY DEF MemoryInv, ResultsAreProducts
<1>7. QED
  BY <1>1, <1>2, <1>4, <1>5, <1>6 DEF Shape, MemoryInv

\* flush, and probing: no call is on a site that has not been loaded.
LEMMA QuietStep ==
  ASSUME Shape, MemoryInv, NEW s \in Sites,
         \/ \E i \in Installations : Probe(s, i)
         \/ FromEvidence(s) \/ Flush(s)
  PROVE  Shape' /\ MemoryInv'
<1>1. CASE \E i \in Installations : Probe(s, i)
  <2> PICK i \in Installations : Probe(s, i)
    BY <1>1
  <2>1. /\ site[s].status = "unprobed" /\ UNCHANGED <<memory, tensors, call, counters, handles, ended>>
        /\ site' = [site EXCEPT ![s] =
             [status |-> IF Complete(Vendor[s], i) THEN "runtime" ELSE "absent",
              exports |-> [l \in CalledLibraries |->
                             IF Complete(Vendor[s], i) THEN OpenFirst(i[l]) ELSE {}]]]
        /\ loaded' \subseteq loaded \cup {s}
    BY DEF Probe
  <2>2. [l \in CalledLibraries |-> IF Complete(Vendor[s], i) THEN OpenFirst(i[l]) ELSE {}]
          \in [CalledLibraries -> Files]
    BY DEF Files
  <2>3. SiteType'
    <3> DEFINE e == [l \in CalledLibraries |-> IF Complete(Vendor[s], i) THEN OpenFirst(i[l]) ELSE {}]
               k == IF Complete(Vendor[s], i) THEN "runtime" ELSE "absent"
    <3>1. e \in [CalledLibraries -> Files] /\ k \in {"unprobed", "runtime", "absent", "evidence", "dropped"}
      BY <2>2
    <3>2. site' = [site EXCEPT ![s] = [status |-> k, exports |-> e]]
      BY <2>1
    <3> HIDE DEF e, k
    <3>3. [status |-> k, exports |-> e]
            \in [status : {"unprobed", "runtime", "absent", "evidence", "dropped"},
                exports : [CalledLibraries -> Files]]
      BY <3>1
    <3> DEFINE entry == [status |-> k, exports |-> e]
               kind == [status : {"unprobed", "runtime", "absent", "evidence", "dropped"},
                        exports : [CalledLibraries -> Files]]
    <3>4. site \in [Sites -> kind] /\ entry \in kind
      BY <3>3 DEF Shape, SiteType
    <3> HIDE DEF entry, kind
    <3>5. site' \in [Sites -> kind]
      BY <3>2, <3>4 DEF entry
    <3>6. QED
      BY <2>1, <3>5 DEF Shape, SiteType, kind
  <2>4. \A t \in Threads : Busy(t) => call[t].site # s /\ call[t].site \in Sites
    BY <2>1 DEF Shape, CallShape, Claims
  <2>5. \A t \in Threads : Busy(t) => site'[call[t].site].status = site[call[t].site].status
    BY <2>1, <2>4 DEF Shape, SiteType
  <2>6. QED
    BY <2>1, <2>3, <2>5, SiteStep
<1>2. CASE FromEvidence(s)
  <2>1. SiteType'
    BY <1>2 DEF FromEvidence, Shape, SiteType
  <2>2. \A t \in Threads : Busy(t) => call[t].site # s /\ call[t].site \in Sites
    BY <1>2 DEF FromEvidence, Shape, CallShape, Claims
  <2>3. \A t \in Threads : Busy(t) => site'[call[t].site].status = site[call[t].site].status
    BY <1>2, <2>2 DEF FromEvidence, Shape, SiteType
  <2>4. UNCHANGED <<memory, tensors, call>>
    BY <1>2 DEF FromEvidence
  <2>5. QED
    BY <2>1, <2>3, <2>4, SiteStep
<1>3. CASE Flush(s)
  <2>1. UNCHANGED <<site, memory, tensors, call>>
    BY <1>3 DEF Flush
  <2>2. counters \in [Sites -> Counts] /\ counters[s] \in Counts
    BY DEF Shape, SiteType, Counts
  <2>3. Drained(counters[s]) \in Counts
    BY <2>2 DEF Drained, Counts
  <2>4. counters' \in [Sites -> Counts]
    BY <1>3, <2>2, <2>3 DEF Flush
  <2>5. ended \in [Sites -> [produced : Nat, failed : Nat, oversized : Nat, flushed : Nat]]
    BY DEF Shape, SiteType
  <2>6. ended' = [ended EXCEPT ![s].flushed = @ + counters[s].queued] /\ counters[s].queued \in Nat
    BY <1>3, <2>2 DEF Flush, Counts
  <2>7. ended' \in [Sites -> [produced : Nat, failed : Nat, oversized : Nat, flushed : Nat]]
    BY <2>5, <2>6
  <2>8. SiteType'
    BY <1>3, <2>4, <2>7 DEF Flush, Shape, SiteType, Counts
  <2>9. QED
    BY <2>1, <2>8, SiteStep
<1>4. QED
  BY <1>1, <1>2, <1>3

\* Something the program named goes, and what only that kept.
LEMMA DropStep ==
  ASSUME Shape, MemoryInv, NEW slots \in [Tensors -> Slot], NEW sites, SiteType',
         \A y \in Tensors : slots[y].state = tensors[y].state /\ slots[y].site = tensors[y].site
                            /\ slots[y].addr = tensors[y].addr /\ slots[y].value = tensors[y].value
                            /\ slots[y].read = tensors[y].read,
         Release(slots, call, memory, sites),
         \A t \in Threads : Busy(t) => site'[call[t].site].status = site[call[t].site].status
  PROVE  Shape' /\ MemoryInv'
<1>1. /\ call' = call /\ tensors' = [y \in Tensors |-> tensors'[y]]
      /\ \A y \in Tensors :
           /\ tensors'[y] \in {slots[y], EmptySlot}
           /\ (slots[y].state \notin {"device", "host"} \/ slots[y].held \/ HeldBy(call, y))
                => tensors'[y] = slots[y]
      /\ memory' = [s \in Sites |-> [a \in Addresses |->
                      IF Ref(s, a) /\ ~Ref(s, a)' THEN Free ELSE memory[s][a]]]
  BY ReleaseFacts
<1>2. tensors' \in [Tensors -> Slot]
  BY <1>1, EmptySlotType
<1>3. memory \in [Sites -> [Addresses -> Terms]]
  BY DEF Shape, DataType
<1>4. memory' \in [Sites -> [Addresses -> Terms]]
  BY <1>1, <1>3, TermFacts
<1>5. \A y \in Tensors : tensors'[y].state = "device" => SameData(y)
  BY <1>1, EmptySlotType DEF SameData
<1>6. \A y \in Tensors : tensors[y].state = "pending" => SameData(y)
  BY <1>1 DEF SameData
<1>7. ASSUME NEW u \in Threads, Busy(u), NEW o \in Operands, call[u].inputs[o] # "host"
      PROVE  SameData(call[u].inputs[o])
  <2>1. call[u].inputs[o] \in Tensors
    BY <1>7, CallFacts
  <2>2. HeldBy(call, call[u].inputs[o])
    BY <1>7 DEF HeldBy, Busy
  <2>3. QED
    BY <1>1, <2>1, <2>2 DEF SameData
<1>8. DataType'
  BY <1>1, <1>2, <1>4 DEF Shape, DataType
<1>9. TensorShape'
  BY <1>5 DEF Shape, TensorShape, SameData
<1>10. CallShape'
  <2> SUFFICES ASSUME NEW t \in Threads
               PROVE  /\ ~Busy(t)' => call'[t] = Idle
                      /\ Busy(t)' => /\ Claims(t)' /\ Placed(call[t])'
                                     /\ (call[t].at # "left" \/ call[t].raw # None => OnRuntime(t))'
    BY DEF CallShape
  <2>1. Busy(t)' <=> Busy(t)
    BY <1>1 DEF Busy
  <2>2. ~Busy(t) => call[t] = Idle
    BY DEF Shape, CallShape
  <2>3. ASSUME Busy(t)
        PROVE  Claims(t)'
    <3>1. Claims(t)
      BY <2>3 DEF Shape, CallShape
    <3>2. tensors'[call[t].into].state = "pending"
      BY <1>6, <2>3, CallFacts DEF SameData
    <3>3. \A o \in Operands : call[t].inputs[o] # "host" => Stored(call[t].inputs[o])'
      <4> SUFFICES ASSUME NEW o \in Operands, call[t].inputs[o] # "host"
                   PROVE  Stored(call[t].inputs[o])'
        OBVIOUS
      <4>1. Stored(call[t].inputs[o]) /\ SameData(call[t].inputs[o])
        BY <1>7, <2>3, CallFacts
      <4>2. QED
        BY <1>1, <4>1 DEF Stored, SameData
    <3>4. QED
      <4>1. call' = call /\ site'[call[t].site].status = site[call[t].site].status
        BY <1>1, <2>3
      <4>2. \A u \in Threads \ {t} : Busy(u)' => call[u].into # call[t].into
        BY <3>1, <4>1 DEF Claims, Busy
      <4>3. QED
        BY <3>1, <3>2, <3>3, <4>1, <4>2 DEF Claims
  <2>4. Busy(t) => Placed(call[t])'
    BY <1>1, CallFacts DEF Placed
  <2>5. Busy(t) => (call[t].at # "left" \/ call[t].raw # None => OnRuntime(t))'
    BY <1>1, CallFacts DEF OnRuntime
  <2>6. QED
    BY <1>1, <2>1, <2>2, <2>3, <2>4, <2>5
<1>11. Shape'
  BY <1>8, <1>9, <1>10 DEF Shape
<1>12. \A s \in Sites, a \in Addresses : (memory[s][a] # Free) <=> (Ref(s, a) \/ Raw(s, a)' # {})
  BY <1>1 DEF MemoryInv, Owned, Raw
<1>13. \A u \in Threads : Busy(u)' => Busy(u) /\ call'[u] = call[u]
  BY <1>1 DEF Busy
<1>14. MemoryInv'
  BY <1>1, <1>5, <1>7, <1>11, <1>12, <1>13, Shed
<1>15. QED
  BY <1>11, <1>14

\* A caller lets a tensor go.
LEMMA DropTensorStep ==
  ASSUME Shape, MemoryInv, NEW x \in Tensors, DropTensor(x)
  PROVE  Shape' /\ MemoryInv'
<1> DEFINE slots == [tensors EXCEPT ![x].held = FALSE]
<1>1. Release(slots, call, memory, site) /\ UNCHANGED <<site, counters, handles, ended>>
  BY DEF DropTensor
<1>2. tensors \in [Tensors -> Slot]
  BY DEF Shape, DataType
<1>3. /\ slots \in [Tensors -> Slot]
      /\ \A y \in Tensors : slots[y].state = tensors[y].state /\ slots[y].site = tensors[y].site
                            /\ slots[y].addr = tensors[y].addr /\ slots[y].value = tensors[y].value
                            /\ slots[y].read = tensors[y].read
  BY <1>2 DEF Slot
<1> HIDE DEF slots
<1>4. SiteType'
  BY <1>1, ReleaseFacts DEF Shape, SiteType
<1>5. QED
  BY <1>1, <1>3, <1>4, DropStep

\* The last clone of an executor goes.
LEMMA DropExecutorStep ==
  ASSUME Shape, MemoryInv, NEW s \in Sites, DropExecutor(s)
  PROVE  Shape' /\ MemoryInv'
<1>1. /\ site[s].status = "runtime" /\ \A t \in Threads : call[t].site # s
      /\ site' = [site EXCEPT ![s].status = "dropped"]
      /\ Release(tensors, call, memory, site')
      /\ UNCHANGED <<counters, handles, ended>>
  BY DEF DropExecutor
<1>2. site \in [Sites -> [status : {"unprobed", "runtime", "absent", "evidence", "dropped"},
                          exports : [CalledLibraries -> Files]]]
  BY DEF Shape, SiteType
<1>3. /\ site' \in [Sites -> [status : {"unprobed", "runtime", "absent", "evidence", "dropped"},
                              exports : [CalledLibraries -> Files]]]
      /\ \A d \in Sites \ {s} : site'[d].status = site[d].status
  BY <1>1, <1>2
<1>4. loaded' \subseteq loaded
  BY <1>1, ReleaseFacts
<1>5. SiteType'
  BY <1>1, <1>3, <1>4 DEF Shape, SiteType
<1>6. \A t \in Threads : Busy(t) => site'[call[t].site].status = site[call[t].site].status
  BY <1>1, <1>3, CallFacts
<1>7. tensors \in [Tensors -> Slot]
  BY DEF Shape, DataType
<1>8. QED
  BY <1>1, <1>5, <1>6, <1>7, DropStep

-----------------------------------------------------------------------------
(* Counting calls and handles.                                             *)

Multiplying(s) == {t \in Threads : call[t].site = s /\ call[t].at = "gemm"}

Ended == [produced : Nat, failed : Nat, oversized : Nat, flushed : Nat]

Accounts == HandlesAccounted /\ EvidenceAccounted

\* The sets of calls that are counted are finite.
LEMMA CountedFinite ==
  ASSUME NEW s
  PROVE  /\ IsFiniteSet(InFlight(s)) /\ Cardinality(InFlight(s)) \in Nat
         /\ IsFiniteSet(Multiplying(s)) /\ Cardinality(Multiplying(s)) \in Nat
<1>1. InFlight(s) \subseteq Threads /\ Multiplying(s) \subseteq Threads
  BY DEF InFlight, Multiplying
<1>2. QED
  BY <1>1, VendorAssumption, FS_Subset, FS_CardinalityType

\* A call that ends is counted no more.
LEMMA EndCounts ==
  ASSUME Shape, NEW t \in Threads, Busy(t), call' = [call EXCEPT ![t] = Idle], NEW s \in Sites
  PROVE  /\ Cardinality(InFlight(s))' = Cardinality(InFlight(s)) - (IF s = call[t].site THEN 1 ELSE 0)
         /\ Cardinality(Multiplying(s))'
              = Cardinality(Multiplying(s)) - (IF s = call[t].site /\ call[t].at = "gemm" THEN 1 ELSE 0)
<1>1. call'[t] = Idle /\ \A u \in Threads \ {t} : call'[u] = call[u]
  BY DEF Shape, DataType
<1>2. Idle.site = None /\ s # None
  BY VendorAssumption, IdleType
<1>3. InFlight(s)' = InFlight(s) \ {t}
  BY <1>1, <1>2 DEF InFlight
<1>4. Multiplying(s)' = Multiplying(s) \ {t}
  BY <1>1, <1>2 DEF Multiplying
<1>5. (t \in InFlight(s) <=> s = call[t].site)
      /\ (t \in Multiplying(s) <=> s = call[t].site /\ call[t].at = "gemm")
  BY DEF InFlight, Multiplying
<1>6. /\ Cardinality(InFlight(s) \ {t})
           = IF t \in InFlight(s) THEN Cardinality(InFlight(s)) - 1 ELSE Cardinality(InFlight(s))
      /\ Cardinality(Multiplying(s) \ {t})
           = IF t \in Multiplying(s) THEN Cardinality(Multiplying(s)) - 1 ELSE Cardinality(Multiplying(s))
  BY CountedFinite, FS_RemoveElement
<1>7. QED
  BY <1>3, <1>4, <1>5, <1>6, CountedFinite

\* A call that goes on is counted as before, and as multiplying when it gets there.
LEMMA StageCounts ==
  ASSUME Shape, NEW t \in Threads, Busy(t), call[t].at # "gemm", NEW c, c.site = call[t].site,
         call' = [call EXCEPT ![t] = c], NEW s \in Sites
  PROVE  /\ Cardinality(InFlight(s))' = Cardinality(InFlight(s))
         /\ Cardinality(Multiplying(s))'
              = Cardinality(Multiplying(s)) + (IF s = call[t].site /\ c.at = "gemm" THEN 1 ELSE 0)
<1>1. call'[t] = c /\ \A u \in Threads \ {t} : call'[u] = call[u]
  BY DEF Shape, DataType
<1>2. InFlight(s)' = InFlight(s)
  BY <1>1 DEF InFlight
<1>3. t \notin Multiplying(s)
  BY DEF Multiplying
<1>4. Multiplying(s)' = IF s = call[t].site /\ c.at = "gemm" THEN Multiplying(s) \cup {t} ELSE Multiplying(s)
  <2>1. \A u \in Threads \ {t} : u \in Multiplying(s)' <=> u \in Multiplying(s)
    BY <1>1 DEF Multiplying
  <2>2. t \in Multiplying(s)' <=> s = call[t].site /\ c.at = "gemm"
    BY <1>1 DEF Multiplying
  <2>3. Multiplying(s)' \subseteq Threads /\ Multiplying(s) \subseteq Threads
    BY DEF Multiplying
  <2>4. QED
    BY <1>3, <2>1, <2>2, <2>3
<1>5. Cardinality(Multiplying(s) \cup {t}) = Cardinality(Multiplying(s)) + 1
  BY <1>3, CountedFinite, FS_AddElement
<1>6. QED
  BY <1>2, <1>4, <1>5, CountedFinite

\* A call that begins is in flight.
LEMMA BeginCounts ==
  ASSUME Shape, NEW t \in Threads, ~Busy(t), NEW c, c.at = "left",
         call' = [call EXCEPT ![t] = c], NEW s \in Sites
  PROVE  /\ Cardinality(InFlight(s))' = Cardinality(InFlight(s)) + (IF s = c.site THEN 1 ELSE 0)
         /\ Cardinality(Multiplying(s))' = Cardinality(Multiplying(s))
<1>1. call'[t] = c /\ \A u \in Threads \ {t} : call'[u] = call[u]
  BY DEF Shape, DataType
<1>2. call[t].site # s
  BY VendorAssumption, IdleType DEF Shape, CallShape
<1>3. InFlight(s)' = IF s = c.site THEN InFlight(s) \cup {t} ELSE InFlight(s)
  <2>1. \A u \in Threads \ {t} : u \in InFlight(s)' <=> u \in InFlight(s)
    BY <1>1 DEF InFlight
  <2>2. (t \in InFlight(s)' <=> s = c.site) /\ t \notin InFlight(s)
    BY <1>1, <1>2 DEF InFlight
  <2>3. InFlight(s)' \subseteq Threads /\ InFlight(s) \subseteq Threads
    BY DEF InFlight
  <2>4. QED
    BY <2>1, <2>2, <2>3
<1>4. Multiplying(s)' = Multiplying(s)
  BY <1>1, <1>2 DEF Multiplying
<1>5. t \notin InFlight(s)
  BY <1>2 DEF InFlight
<1>6. Cardinality(InFlight(s) \cup {t}) = Cardinality(InFlight(s)) + 1
  BY <1>5, CountedFinite, FS_AddElement
<1>7. QED
  BY <1>3, <1>4, <1>6, CountedFinite

\* What the counters of a site add up to.
LEMMA AccountsFacts ==
  ASSUME Shape
  PROVE  Accounts <=>
         \A s \in Sites :
           /\ handles[s] = Cardinality(Multiplying(s)) + ended[s].oversized
           /\ counters[s].accepted = counters[s].queued + ended[s].flushed
           /\ counters[s].accepted = ended[s].produced + ended[s].failed + Cardinality(InFlight(s))
           /\ counters[s].next = counters[s].accepted
BY DEF Accounts, HandlesAccounted, EvidenceAccounted, Multiplying

\* The numbers of a site.
LEMMA NumberTypes ==
  ASSUME Shape, NEW s \in Sites
  PROVE  /\ handles[s] \in Int
         /\ counters[s].accepted \in Nat /\ counters[s].queued \in Nat /\ counters[s].next \in Nat
         /\ ended[s].produced \in Nat /\ ended[s].failed \in Nat
         /\ ended[s].oversized \in Nat /\ ended[s].flushed \in Nat
BY DEF Shape, SiteType

\* A call that ends is accounted for when it leaves no handle behind but an oversized one's,
\* and is counted once as produced or failed.
LEMMA EndAccounts ==
  ASSUME Shape, Shape', Accounts, NEW t \in Threads, Busy(t), call' = [call EXCEPT ![t] = Idle],
         counters' = counters,
         \A s \in Sites :
           /\ handles'[s] - ended'[s].oversized = handles[s] - ended[s].oversized
                - (IF s = call[t].site /\ call[t].at = "gemm" THEN 1 ELSE 0)
           /\ ended'[s].produced + ended'[s].failed = ended[s].produced + ended[s].failed
                + (IF s = call[t].site THEN 1 ELSE 0)
           /\ ended'[s].flushed = ended[s].flushed
  PROVE  Accounts'
<1> SUFFICES ASSUME NEW s \in Sites
             PROVE  /\ handles'[s] = Cardinality(Multiplying(s))' + ended'[s].oversized
                    /\ counters'[s].accepted = counters'[s].queued + ended'[s].flushed
                    /\ counters'[s].accepted = ended'[s].produced + ended'[s].failed + Cardinality(InFlight(s))'
                    /\ counters'[s].next = counters'[s].accepted
  BY DEF Accounts, HandlesAccounted, EvidenceAccounted, Multiplying
<1>1. /\ Cardinality(InFlight(s))' = Cardinality(InFlight(s)) - (IF s = call[t].site THEN 1 ELSE 0)
      /\ Cardinality(Multiplying(s))'
           = Cardinality(Multiplying(s)) - (IF s = call[t].site /\ call[t].at = "gemm" THEN 1 ELSE 0)
  BY EndCounts
<1>2. /\ handles[s] \in Int /\ handles'[s] \in Int
      /\ counters[s].accepted \in Nat /\ counters[s].queued \in Nat
      /\ ended[s].produced \in Nat /\ ended[s].failed \in Nat
      /\ ended[s].oversized \in Nat /\ ended[s].flushed \in Nat
      /\ ended'[s].produced \in Nat /\ ended'[s].failed \in Nat
      /\ ended'[s].oversized \in Nat /\ ended'[s].flushed \in Nat
  BY DEF Shape, SiteType
<1>3. Cardinality(InFlight(s)) \in Nat /\ Cardinality(Multiplying(s)) \in Nat
  BY CountedFinite
<1>4. /\ handles[s] = Cardinality(Multiplying(s)) + ended[s].oversized
      /\ counters[s].accepted = counters[s].queued + ended[s].flushed
      /\ counters[s].accepted = ended[s].produced + ended[s].failed + Cardinality(InFlight(s))
      /\ counters[s].next = counters[s].accepted
  BY AccountsFacts
<1>5. handles'[s] = Cardinality(Multiplying(s))' + ended'[s].oversized
  BY <1>1, <1>2, <1>3, <1>4
<1>6. counters'[s].accepted = ended'[s].produced + ended'[s].failed + Cardinality(InFlight(s))'
  BY <1>1, <1>2, <1>3, <1>4
<1>7. QED
  BY <1>4, <1>5, <1>6

\* A failure is one failed call, and a multiplication that fails gives its handle back.
LEMMA FailAccounts ==
  ASSUME Shape, Shape', Accounts, NEW t \in Threads, Busy(t), NEW mem, Fail(t, mem), counters' = counters,
         \/ call[t].at # "gemm" /\ handles' = handles
         \/ call[t].at = "gemm" /\ handles' = Destroy(handles, call[t].site)
  PROVE  Accounts'
<1> DEFINE m == call[t].site
<1>1. m \in Sites
  BY CallFacts
<1>2. ended \in [Sites -> Ended] /\ handles \in [Sites -> Int]
  BY DEF Shape, SiteType, Ended
<1>3. ended' = [ended EXCEPT ![m].failed = @ + 1] /\ call' = [call EXCEPT ![t] = Idle]
  BY ReleaseFacts DEF Fail
<1>4. \A s \in Sites :
        /\ ended'[s].produced = ended[s].produced /\ ended'[s].oversized = ended[s].oversized
        /\ ended'[s].flushed = ended[s].flushed
        /\ ended'[s].failed = ended[s].failed + (IF s = m THEN 1 ELSE 0)
  BY <1>1, <1>2, <1>3 DEF Ended
<1>5. \A s \in Sites : handles'[s] = handles[s] - (IF s = m /\ call[t].at = "gemm" THEN 1 ELSE 0)
  BY <1>1, <1>2 DEF Destroy
<1>6. \A s \in Sites :
        /\ handles'[s] - ended'[s].oversized = handles[s] - ended[s].oversized
             - (IF s = m /\ call[t].at = "gemm" THEN 1 ELSE 0)
        /\ ended'[s].produced + ended'[s].failed = ended[s].produced + ended[s].failed + (IF s = m THEN 1 ELSE 0)
        /\ ended'[s].flushed = ended[s].flushed
  BY <1>2, <1>4, <1>5 DEF Ended
<1>7. QED
  BY <1>3, <1>6, EndAccounts

\* A success is one product.
LEMMA SucceedAccounts ==
  ASSUME Shape, Shape', Accounts, NEW t \in Threads, Busy(t), NEW storage, NEW mem,
         Succeed(t, storage, mem), counters' = counters,
         \/ call[t].at # "gemm" /\ handles' = handles
         \/ call[t].at = "gemm" /\ handles' = Destroy(handles, call[t].site)
  PROVE  Accounts'
<1> DEFINE m == call[t].site
<1>1. m \in Sites
  BY CallFacts
<1>2. ended \in [Sites -> Ended] /\ handles \in [Sites -> Int]
  BY DEF Shape, SiteType, Ended
<1>3. ended' = [ended EXCEPT ![m].produced = @ + 1] /\ call' = [call EXCEPT ![t] = Idle]
  BY ReleaseFacts DEF Succeed
<1>4. \A s \in Sites :
        /\ ended'[s].failed = ended[s].failed /\ ended'[s].oversized = ended[s].oversized
        /\ ended'[s].flushed = ended[s].flushed
        /\ ended'[s].produced = ended[s].produced + (IF s = m THEN 1 ELSE 0)
  BY <1>1, <1>2, <1>3 DEF Ended
<1>5. \A s \in Sites : handles'[s] = handles[s] - (IF s = m /\ call[t].at = "gemm" THEN 1 ELSE 0)
  BY <1>1, <1>2 DEF Destroy
<1>6. \A s \in Sites :
        /\ handles'[s] - ended'[s].oversized = handles[s] - ended[s].oversized
             - (IF s = m /\ call[t].at = "gemm" THEN 1 ELSE 0)
        /\ ended'[s].produced + ended'[s].failed = ended[s].produced + ended[s].failed + (IF s = m THEN 1 ELSE 0)
        /\ ended'[s].flushed = ended[s].flushed
  BY <1>2, <1>4, <1>5 DEF Ended
<1>7. QED
  BY <1>3, <1>6, EndAccounts

\* Every step of a call keeps the accounts.
LEMMA CallAccounts ==
  ASSUME Shape, MemoryInv, Shape', Accounts, NEW t \in Threads,
         \/ RejectShapes(t) \/ Reuse(t) \/ Unreadable(t)
         \/ Malloc(t) \/ MallocFails(t) \/ CopyIn(t) \/ CopyFails(t)
         \/ CreateHandle(t) \/ CreateFails(t) \/ Multiply(t) \/ MultiplyFails(t)
         \/ ComputeOnCpu(t) \/ CpuFails(t)
  PROVE  Accounts'
<1> DEFINE m == call[t].site
<1>1. CASE Reuse(t) \/ Malloc(t) \/ CopyIn(t)
  <2>1. UNCHANGED <<counters, handles, ended>>
    BY <1>1 DEF Reuse, Malloc, CopyIn
  <2>2. Busy(t) /\ call[t].at \in Buffers
    BY <1>1, RawFacts DEF Reuse, Malloc, CopyIn, AtOperand, ToUpload, OnRuntime, Busy, Buffers
  <2>3. PICK c : call' = [call EXCEPT ![t] = c] /\ c.site = m /\ c.at # "gemm"
    <3>1. CASE Malloc(t)
      <4>1. PICK a \in Addresses : call' = [call EXCEPT ![t].raw = a]
        BY <3>1 DEF Malloc
      <4>2. call' = [call EXCEPT ![t] = [call[t] EXCEPT !.raw = a]]
        BY <4>1 DEF Shape, DataType
      <4>3. [call[t] EXCEPT !.raw = a].site = m /\ [call[t] EXCEPT !.raw = a].at # "gemm"
        BY <2>2, CallFacts DEF Call, Buffers, Operands
      <4>4. QED
        BY <4>2, <4>3
    <3>2. CASE Reuse(t) \/ CopyIn(t)
      <4>1. PICK a \in Addresses : call' = [call EXCEPT ![t] = Holding(t, a)]
        <5>1. CASE Reuse(t)
          <6>1. Operand(t) \in Tensors /\ tensors[Operand(t)].state = "device"
            BY <2>2, <5>1, CallFacts DEF Reuse, AtOperand, Reusable, Operand
          <6>2. tensors[Operand(t)].addr \in Addresses
            BY <6>1 DEF Shape, TensorShape
          <6>3. QED
            BY <5>1, <6>2 DEF Reuse
        <5>2. CASE CopyIn(t)
          BY <5>2, RawFacts DEF CopyIn
        <5>3. QED
          BY <3>2, <5>1, <5>2
      <4>2. Holding(t, a).site = m
        BY <2>2, CallFacts, HoldingFacts
      <4>3. Holding(t, a).at # "gemm"
        <5>1. Holding(t, a).at = NextStage(call[t].at)
          BY <2>2, CallFacts DEF Holding, Call
        <5>2. QED
          BY <2>2, <5>1 DEF NextStage, Buffers, Operands
      <4>4. QED
        BY <4>1, <4>2, <4>3
    <3>3. QED
      BY <1>1, <3>1, <3>2
  <2>4. \A s \in Sites : /\ Cardinality(InFlight(s))' = Cardinality(InFlight(s))
                         /\ Cardinality(Multiplying(s))' = Cardinality(Multiplying(s))
    <3> SUFFICES ASSUME NEW s \in Sites
                 PROVE  /\ Cardinality(InFlight(s))' = Cardinality(InFlight(s))
                        /\ Cardinality(Multiplying(s))' = Cardinality(Multiplying(s))
      OBVIOUS
    <3>1. call[t].at # "gemm"
      BY <2>2 DEF Buffers, Operands
    <3>2. Cardinality(Multiplying(s)) \in Nat
      BY CountedFinite
    <3>3. /\ Cardinality(InFlight(s))' = Cardinality(InFlight(s))
          /\ Cardinality(Multiplying(s))'
               = Cardinality(Multiplying(s)) + (IF s = call[t].site /\ c.at = "gemm" THEN 1 ELSE 0)
      BY <2>2, <2>3, <3>1, StageCounts
    <3>4. QED
      BY <2>3, <3>2, <3>3
  <2>5. QED
    BY <2>1, <2>4 DEF Accounts, HandlesAccounted, EvidenceAccounted, Multiplying
<1>2. CASE RejectShapes(t) \/ Unreadable(t) \/ MallocFails(t) \/ CreateFails(t) \/ CpuFails(t)
  <2>1. Fail(t, memory) /\ counters' = counters /\ handles' = handles
    BY <1>2 DEF RejectShapes, Unreadable, MallocFails, CreateFails, CpuFails
  <2>2. Busy(t)
    BY <1>2 DEF RejectShapes, Unreadable, MallocFails, CreateFails, CpuFails,
                OnRuntime, OnEvidence, AtOperand, ToUpload, Busy
  <2>3. call[t].at # "gemm"
    <3>1. CASE CpuFails(t)
      BY <2>2, <3>1, CallFacts DEF CpuFails, OnEvidence, OnRuntime
    <3>2. CASE RejectShapes(t) \/ Unreadable(t) \/ MallocFails(t) \/ CreateFails(t)
      BY <3>2 DEF RejectShapes, Unreadable, MallocFails, CreateFails, AtOperand, ToUpload, Operands
    <3>3. QED
      BY <1>2, <3>1, <3>2
  <2>4. QED
    BY <2>1, <2>2, <2>3, FailAccounts
<1>3. CASE CopyFails(t)
  <2>1. Fail(t, FreeRaw(t)) /\ counters' = counters /\ handles' = handles /\ call[t].raw # None
    BY <1>3 DEF CopyFails
  <2>2. Busy(t) /\ call[t].at # "gemm"
    BY <2>1, RawFacts DEF Buffers, Operands
  <2>3. QED
    BY <2>1, <2>2, FailAccounts
<1>4. CASE MultiplyFails(t)
  BY <1>4, FailAccounts DEF MultiplyFails, Busy
<1>5. CASE Multiply(t)
  BY <1>5, SucceedAccounts DEF Multiply, Busy
<1>6. CASE ComputeOnCpu(t)
  <2>1. Busy(t) /\ call[t].at # "gemm"
    BY <1>6, CallFacts DEF ComputeOnCpu, OnEvidence, OnRuntime, Busy
  <2>2. Succeed(t, Resident(t, "host", None), memory) /\ counters' = counters /\ handles' = handles
    BY <1>6 DEF ComputeOnCpu
  <2>3. QED
    BY <2>1, <2>2, SucceedAccounts
<1>7. CASE CreateHandle(t)
  <2>1. /\ Busy(t) /\ call[t].at = "handle" /\ m \in Sites /\ counters' = counters
        /\ handles' = [handles EXCEPT ![m] = @ + 1]
    BY <1>7, CallFacts DEF CreateHandle, Busy
  <2>2. ended \in [Sites -> Ended] /\ handles \in [Sites -> Int]
    BY DEF Shape, SiteType, Ended
  <2>3. \A s \in Sites : handles'[s] = handles[s] + (IF s = m THEN 1 ELSE 0)
    BY <2>1, <2>2
  <2>4. CASE call[t].shape = "oversized"
    <3> DEFINE failed == [ended EXCEPT ![m].failed = @ + 1]
    <3>1. /\ failed \in [Sites -> Ended]
          /\ \A s \in Sites :
               /\ failed[s].produced = ended[s].produced /\ failed[s].oversized = ended[s].oversized
               /\ failed[s].flushed = ended[s].flushed
               /\ failed[s].failed = ended[s].failed + (IF s = m THEN 1 ELSE 0)
      BY <2>1, <2>2 DEF Ended
    <3>2. ended' = [failed EXCEPT ![m].oversized = @ + 1] /\ call' = [call EXCEPT ![t] = Idle]
      BY <1>7, <2>2, <2>4, ReleaseFacts DEF CreateHandle
    <3> HIDE DEF failed
    <3>3. \A s \in Sites :
            /\ ended'[s].produced = failed[s].produced /\ ended'[s].failed = failed[s].failed
            /\ ended'[s].flushed = failed[s].flushed
            /\ ended'[s].oversized = failed[s].oversized + (IF s = m THEN 1 ELSE 0)
      BY <2>1, <3>1, <3>2 DEF Ended
    <3>4. \A s \in Sites :
            /\ handles'[s] - ended'[s].oversized = handles[s] - ended[s].oversized
                 - (IF s = m /\ call[t].at = "gemm" THEN 1 ELSE 0)
            /\ ended'[s].produced + ended'[s].failed
                 = ended[s].produced + ended[s].failed + (IF s = m THEN 1 ELSE 0)
            /\ ended'[s].flushed = ended[s].flushed
      <4> SUFFICES ASSUME NEW s \in Sites
                   PROVE  /\ handles'[s] - ended'[s].oversized = handles[s] - ended[s].oversized
                               - (IF s = m /\ call[t].at = "gemm" THEN 1 ELSE 0)
                          /\ ended'[s].produced + ended'[s].failed
                               = ended[s].produced + ended[s].failed + (IF s = m THEN 1 ELSE 0)
                          /\ ended'[s].flushed = ended[s].flushed
        OBVIOUS
      <4>1. handles[s] \in Int /\ ended[s].oversized \in Nat /\ ended[s].produced \in Nat /\ ended[s].failed \in Nat
        BY NumberTypes
      <4>2. handles'[s] - ended'[s].oversized = handles[s] - ended[s].oversized
        <5> DEFINE k == IF s = m THEN 1 ELSE 0
        <5>1. handles'[s] = handles[s] + k
          BY <2>3
        <5>2. ended'[s].oversized = ended[s].oversized + k
          BY <3>1, <3>3
        <5>3. k \in Nat
          OBVIOUS
        <5> HIDE DEF k
        <5>4. QED
          BY <4>1, <5>1, <5>2, <5>3
      <4>3. QED
        BY <2>1, <3>1, <3>3, <4>1, <4>2
    <3>5. QED
      BY <2>1, <3>2, <3>4, EndAccounts
  <2>5. CASE call[t].shape # "oversized"
    <3> DEFINE c == [call[t] EXCEPT !.at = "gemm"]
    <3>1. call' = [call EXCEPT ![t] = c] /\ ended' = ended
      BY <1>7, <2>5 DEF CreateHandle, Shape, DataType
    <3>2. c.site = m /\ c.at = "gemm"
      BY <2>1, CallFacts DEF Call
    <3> HIDE DEF c
    <3>3. ASSUME NEW s \in Sites
          PROVE  /\ Cardinality(InFlight(s))' = Cardinality(InFlight(s))
                 /\ Cardinality(Multiplying(s))' = Cardinality(Multiplying(s)) + (IF s = m THEN 1 ELSE 0)
      BY <2>1, <3>1, <3>2, StageCounts
    <3> SUFFICES ASSUME NEW s \in Sites
                 PROVE  /\ handles'[s] = Cardinality(Multiplying(s))' + ended'[s].oversized
                        /\ counters'[s].accepted = counters'[s].queued + ended'[s].flushed
                        /\ counters'[s].accepted
                             = ended'[s].produced + ended'[s].failed + Cardinality(InFlight(s))'
                        /\ counters'[s].next = counters'[s].accepted
      BY DEF Accounts, HandlesAccounted, EvidenceAccounted, Multiplying
    <3>4. /\ handles[s] = Cardinality(Multiplying(s)) + ended[s].oversized
          /\ counters[s].accepted = counters[s].queued + ended[s].flushed
          /\ counters[s].accepted = ended[s].produced + ended[s].failed + Cardinality(InFlight(s))
          /\ counters[s].next = counters[s].accepted
      BY AccountsFacts
    <3>5. Cardinality(Multiplying(s)) \in Nat /\ ended[s].oversized \in Nat /\ handles[s] \in Int
      BY CountedFinite, NumberTypes
    <3>6. handles'[s] = Cardinality(Multiplying(s))' + ended'[s].oversized
      BY <2>3, <3>1, <3>3, <3>4, <3>5
    <3>7. QED
      BY <2>1, <3>1, <3>3, <3>4, <3>6
  <2>6. QED
    BY <2>4, <2>5
<1>8. QED
  BY <1>1, <1>2, <1>3, <1>4, <1>5, <1>6, <1>7

\* A call that begins is counted, and has not ended.
LEMMA BeginAccounts ==
  ASSUME Shape, Accounts, NEW t \in Threads, NEW s \in Sites, NEW inputs, NEW x, NEW shape,
         Begin(t, s, inputs, x, shape)
  PROVE  Accounts'
<1> DEFINE c == [Idle EXCEPT !.at = "left", !.site = s, !.inputs = inputs, !.into = x, !.shape = shape]
<1>1. /\ call[t].at = "idle" /\ call' = [call EXCEPT ![t] = c]
      /\ counters' = [counters EXCEPT ![s] = Reserved(@)] /\ UNCHANGED <<handles, ended>>
  BY DEF Begin
<1>2. c.at = "left" /\ c.site = s
  BY DEF Idle
<1> HIDE DEF c
<1>3. counters \in [Sites -> Counts] /\ counters[s] \in Counts
  BY DEF Shape, SiteType, Counts
<1>4. Reserved(counters[s])
        = [accepted |-> counters[s].accepted + 1, queued |-> counters[s].queued + 1, next |-> counters[s].next + 1]
  BY <1>3, ReservedFacts
<1>5. counters' = [counters EXCEPT ![s] = [accepted |-> counters[s].accepted + 1,
                                           queued |-> counters[s].queued + 1,
                                           next |-> counters[s].next + 1]]
  BY <1>1, <1>3, <1>4
<1>6. \A d \in Sites :
        /\ counters'[d].accepted = counters[d].accepted + (IF d = s THEN 1 ELSE 0)
        /\ counters'[d].queued = counters[d].queued + (IF d = s THEN 1 ELSE 0)
        /\ counters'[d].next = counters[d].next + (IF d = s THEN 1 ELSE 0)
  BY <1>3, <1>5 DEF Counts
<1> SUFFICES ASSUME NEW d \in Sites
             PROVE  /\ handles'[d] = Cardinality(Multiplying(d))' + ended'[d].oversized
                    /\ counters'[d].accepted = counters'[d].queued + ended'[d].flushed
                    /\ counters'[d].accepted = ended'[d].produced + ended'[d].failed + Cardinality(InFlight(d))'
                    /\ counters'[d].next = counters'[d].accepted
  BY DEF Accounts, HandlesAccounted, EvidenceAccounted, Multiplying
<1>7. /\ Cardinality(InFlight(d))' = Cardinality(InFlight(d)) + (IF d = s THEN 1 ELSE 0)
      /\ Cardinality(Multiplying(d))' = Cardinality(Multiplying(d))
  BY <1>1, <1>2, BeginCounts DEF Busy
<1>8. Cardinality(InFlight(d)) \in Nat /\ Cardinality(Multiplying(d)) \in Nat
  BY CountedFinite
<1>9. /\ handles[d] = Cardinality(Multiplying(d)) + ended[d].oversized
      /\ counters[d].accepted = counters[d].queued + ended[d].flushed
      /\ counters[d].accepted = ended[d].produced + ended[d].failed + Cardinality(InFlight(d))
      /\ counters[d].next = counters[d].accepted
  BY AccountsFacts
<1>10. /\ counters[d].accepted \in Nat /\ counters[d].queued \in Nat /\ counters[d].next \in Nat
       /\ ended[d].produced \in Nat /\ ended[d].failed \in Nat /\ ended[d].flushed \in Nat
  BY NumberTypes
<1>11. QED
  BY <1>1, <1>6, <1>7, <1>8, <1>9, <1>10

\* flush reports what was queued and forgets it.
LEMMA FlushAccounts ==
  ASSUME Shape, Accounts, NEW s \in Sites, Flush(s)
  PROVE  Accounts'
<1>1. counters \in [Sites -> Counts] /\ counters[s] \in Counts /\ ended \in [Sites -> Ended]
  BY DEF Shape, SiteType, Counts, Ended
<1>2. /\ ended' = [ended EXCEPT ![s].flushed = @ + counters[s].queued]
      /\ counters' = [counters EXCEPT ![s] = Drained(@)] /\ UNCHANGED <<handles, call>>
  BY DEF Flush
<1>3. counters' = [counters EXCEPT ![s].queued = 0]
  BY <1>1, <1>2 DEF Drained
<1>4. \A d \in Sites :
        /\ counters'[d].accepted = counters[d].accepted /\ counters'[d].next = counters[d].next
        /\ counters'[d].queued = IF d = s THEN 0 ELSE counters[d].queued
  BY <1>1, <1>3 DEF Counts
<1>5. \A d \in Sites :
        /\ ended'[d].produced = ended[d].produced /\ ended'[d].failed = ended[d].failed
        /\ ended'[d].oversized = ended[d].oversized
        /\ ended'[d].flushed = ended[d].flushed + (IF d = s THEN counters[s].queued ELSE 0)
  BY <1>1, <1>2 DEF Ended, Counts
<1> SUFFICES ASSUME NEW d \in Sites
             PROVE  /\ handles'[d] = Cardinality(Multiplying(d))' + ended'[d].oversized
                    /\ counters'[d].accepted = counters'[d].queued + ended'[d].flushed
                    /\ counters'[d].accepted = ended'[d].produced + ended'[d].failed + Cardinality(InFlight(d))'
                    /\ counters'[d].next = counters'[d].accepted
  BY DEF Accounts, HandlesAccounted, EvidenceAccounted, Multiplying
<1>6. InFlight(d)' = InFlight(d) /\ Multiplying(d)' = Multiplying(d)
  BY <1>2 DEF InFlight, Multiplying
<1>7. /\ handles[d] = Cardinality(Multiplying(d)) + ended[d].oversized
      /\ counters[d].accepted = counters[d].queued + ended[d].flushed
      /\ counters[d].accepted = ended[d].produced + ended[d].failed + Cardinality(InFlight(d))
      /\ counters[d].next = counters[d].accepted
  BY AccountsFacts
<1>8. counters[d].queued \in Nat /\ ended[d].flushed \in Nat
  BY NumberTypes
<1>9. QED
  BY <1>2, <1>4, <1>5, <1>6, <1>7, <1>8

-----------------------------------------------------------------------------
(* Libraries.                                                              *)

\* The end of a call refers to nothing new.
LEMMA EndRefs ==
  ASSUME Shape, NEW t \in Threads, NEW storage, NEW mem, Result(storage), EndCall(t, storage, mem),
         storage.state = "device" => storage.site = call[t].site /\ storage.addr = call[t].bufs["output"],
         NEW s \in Sites, NEW a \in Addresses, Ref(s, a)'
  PROVE  Ref(s, a)
<1>1. /\ call' = [call EXCEPT ![t] = Idle]
      /\ tensors'[call[t].into] = storage
      /\ \A x \in Tensors \ {call[t].into} : tensors'[x] \in {tensors[x], EmptySlot}
  BY EndFrame
<1>2. call'[t] = Idle /\ \A u \in Threads \ {t} : call'[u] = call[u]
  BY <1>1 DEF Shape, DataType
<1>3. Busy(t)
  BY DEF EndCall
<1>4. CASE \E x \in Tensors : tensors'[x].state = "device" /\ tensors'[x].site = s /\ tensors'[x].addr = a
  <2> PICK x \in Tensors : tensors'[x].state = "device" /\ tensors'[x].site = s /\ tensors'[x].addr = a
    BY <1>4
  <2>1. CASE x = call[t].into
    BY <1>1, <1>3, <2>1 DEF Ref, Referenced, Busy, NoBuffers
  <2>2. CASE x # call[t].into
    BY <1>1, <2>2, EmptySlotType DEF Ref, Referenced
  <2>3. QED
    BY <2>1, <2>2
<1>5. CASE \E u \in Threads : Busy(u)' /\ call'[u].site = s /\ \E b \in Buffers : call'[u].bufs[b] = a
  BY <1>2, <1>5, IdleType DEF Ref, Referenced, Busy, NoBuffers, Buffers
<1>6. QED
  BY <1>4, <1>5 DEF Ref, Referenced, Busy, NoBuffers, Buffers

\* The end of a call.
LEMMA EndLibraries ==
  ASSUME Shape, LibrariesOpen, NEW t \in Threads, NEW storage, NEW mem, Result(storage),
         EndCall(t, storage, mem),
         storage.state = "device" => storage.site = call[t].site /\ storage.addr = call[t].bufs["output"]
  PROVE  LibrariesOpen'
<1>1. \A s \in Sites, a \in Addresses : Ref(s, a)' => Ref(s, a)
  BY EndRefs
<1>2. site' = site
  BY DEF EndCall
<1>3. Release([tensors EXCEPT ![call[t].into] = storage], [call EXCEPT ![t] = Idle], mem, site)
  BY DEF EndCall
<1>4. loaded' = {s \in loaded : site[s].status = "runtime" \/ \E a \in Addresses : Ref(s, a)'}
  BY <1>3, ReleaseFacts
<1>5. QED
  BY <1>1, <1>2, <1>4 DEF LibrariesOpen

\* A step that keeps the sites and refers to nothing new but on a site that runs.
LEMMA StageLibraries ==
  ASSUME LibrariesOpen, UNCHANGED <<site, loaded>>,
         \A s \in Sites, a \in Addresses : Ref(s, a)' => Ref(s, a) \/ site[s].status = "runtime"
  PROVE  LibrariesOpen'
BY DEF LibrariesOpen

\* Every step of a call keeps the libraries it needs.
LEMMA CallLibraries ==
  ASSUME Shape, MemoryInv, LibrariesOpen, NEW t \in Threads,
         \/ RejectShapes(t) \/ Reuse(t) \/ Unreadable(t)
         \/ Malloc(t) \/ MallocFails(t) \/ CopyIn(t) \/ CopyFails(t)
         \/ CreateHandle(t) \/ CreateFails(t) \/ Multiply(t) \/ MultiplyFails(t)
         \/ ComputeOnCpu(t) \/ CpuFails(t)
  PROVE  LibrariesOpen'
<1>1. Result(EmptySlot) /\ EmptySlot.state # "device"
  BY EmptySlotType DEF Result
<1>2. ASSUME NEW mem, EndCall(t, EmptySlot, mem)
      PROVE  LibrariesOpen'
  BY <1>1, <1>2, EndLibraries
<1>3. CASE RejectShapes(t) \/ Unreadable(t) \/ MallocFails(t) \/ CreateFails(t) \/ MultiplyFails(t) \/ CpuFails(t)
  <2>1. EndCall(t, EmptySlot, memory)
    BY <1>3 DEF RejectShapes, Unreadable, MallocFails, CreateFails, MultiplyFails, CpuFails, Fail,
                OnRuntime, OnEvidence, AtOperand, ToUpload, Busy, EndCall
  <2>2. QED
    BY <1>2, <2>1
<1>4. CASE CopyFails(t)
  <2>1. EndCall(t, EmptySlot, FreeRaw(t))
    BY <1>4, RawFacts DEF CopyFails, Fail, EndCall
  <2>2. QED
    BY <1>2, <2>1
<1>5. CASE Multiply(t)
  <2>1. call[t].at = "gemm"
    BY <1>5 DEF Multiply
  <2> DEFINE storage == Resident(t, "device", call[t].bufs["output"])
  <2>2. storage.site = call[t].site /\ storage.addr = call[t].bufs["output"]
    BY DEF Resident
  <2>3. Result(storage)
    BY <2>1, SettledProduct
  <2>4. EndCall(t, storage, Sgemm(t))
    BY <1>5 DEF Multiply, Succeed, EndCall, Busy
  <2> HIDE DEF storage
  <2>5. QED
    BY <2>2, <2>3, <2>4, EndLibraries
<1>6. CASE ComputeOnCpu(t)
  <2> DEFINE storage == Resident(t, "host", None)
  <2>1. storage.state = "host"
    BY DEF Resident
  <2>2. Result(storage)
    BY <1>6, CpuResult
  <2>3. EndCall(t, storage, memory)
    BY <1>6 DEF ComputeOnCpu, OnEvidence, Succeed, EndCall, Busy
  <2> HIDE DEF storage
  <2>4. QED
    BY <2>1, <2>2, <2>3, EndLibraries
<1>7. CASE CreateHandle(t) /\ call[t].shape = "oversized"
  <2>1. EndCall(t, EmptySlot, memory)
    BY <1>7 DEF CreateHandle, EndCall, Busy
  <2>2. QED
    BY <1>2, <2>1
<1>8. CASE Reuse(t) \/ Malloc(t) \/ CopyIn(t) \/ (CreateHandle(t) /\ call[t].shape # "oversized")
  <2>1. UNCHANGED <<site, loaded, tensors>>
    BY <1>8 DEF Reuse, Malloc, CopyIn, CreateHandle
  <2>2. Busy(t) /\ site[call[t].site].status = "runtime"
    <3>1. CASE Reuse(t) \/ Malloc(t)
      BY <3>1 DEF Reuse, Malloc, AtOperand, ToUpload, OnRuntime, Busy
    <3>2. CASE CopyIn(t)
      BY <3>2, RawFacts DEF CopyIn, OnRuntime
    <3>3. CASE CreateHandle(t)
      BY <3>3, CallFacts DEF CreateHandle, OnRuntime, Busy
    <3>4. QED
      BY <1>8, <3>1, <3>2, <3>3
  <2>3. PICK c : call' = [call EXCEPT ![t] = c] /\ c.site = call[t].site
    <3>1. CASE Reuse(t) \/ CopyIn(t)
      <4>1. PICK a : call' = [call EXCEPT ![t] = Holding(t, a)]
        BY <3>1 DEF Reuse, CopyIn
      <4>2. Holding(t, a).site = call[t].site
        BY <2>2, CallFacts DEF Holding, Call
      <4>3. QED
        BY <4>1, <4>2
    <3>2. CASE Malloc(t)
      <4>1. PICK a \in Addresses : call' = [call EXCEPT ![t].raw = a]
        BY <3>2 DEF Malloc
      <4>2. call' = [call EXCEPT ![t] = [call[t] EXCEPT !.raw = a]]
        BY <4>1 DEF Shape, DataType
      <4>3. [call[t] EXCEPT !.raw = a].site = call[t].site
        BY <2>2, CallFacts DEF Call
      <4>4. QED
        BY <4>2, <4>3
    <3>3. CASE CreateHandle(t) /\ call[t].shape # "oversized"
      <4>1. call' = [call EXCEPT ![t] = [call[t] EXCEPT !.at = "gemm"]]
        BY <3>3 DEF CreateHandle, Shape, DataType
      <4>2. [call[t] EXCEPT !.at = "gemm"].site = call[t].site
        BY <2>2, CallFacts DEF Call
      <4>3. QED
        BY <4>1, <4>2
    <3>4. QED
      BY <1>8, <3>1, <3>2, <3>3
  <2>4. call'[t] = c /\ \A u \in Threads \ {t} : call'[u] = call[u]
    BY <2>3 DEF Shape, DataType
  <2>5. ASSUME NEW s \in Sites, NEW a \in Addresses, Ref(s, a)'
        PROVE  Ref(s, a) \/ site[s].status = "runtime"
    <3>1. CASE \E x \in Tensors : tensors'[x].state = "device" /\ tensors'[x].site = s /\ tensors'[x].addr = a
      BY <2>1, <3>1 DEF Ref, Referenced
    <3>2. CASE \E u \in Threads : Busy(u)' /\ call'[u].site = s /\ \E b \in Buffers : call'[u].bufs[b] = a
      <4> PICK u \in Threads : Busy(u)' /\ call'[u].site = s /\ \E b \in Buffers : call'[u].bufs[b] = a
        BY <3>2
      <4>1. CASE u = t
        BY <2>2, <2>3, <2>4, <4>1
      <4>2. CASE u # t
        BY <2>4, <4>2 DEF Ref, Referenced, Busy, NoBuffers, Buffers
      <4>3. QED
        BY <4>1, <4>2
    <3>3. QED
      BY <2>5, <3>1, <3>2 DEF Ref, Referenced, Busy, NoBuffers, Buffers
  <2>6. QED
    BY <2>1, <2>5, StageLibraries
<1>9. QED
  BY <1>3, <1>4, <1>5, <1>6, <1>7, <1>8

\* Probing, flushing and dropping.
LEMMA QuietLibraries ==
  ASSUME Shape, LibrariesOpen, NEW s \in Sites,
         \/ \E i \in Installations : Probe(s, i)
         \/ FromEvidence(s) \/ Flush(s) \/ DropExecutor(s)
  PROVE  LibrariesOpen'
<1>1. site \in [Sites -> [status : {"unprobed", "runtime", "absent", "evidence", "dropped"},
                          exports : [CalledLibraries -> Files]]]
  BY DEF Shape, SiteType
<1>2. \A d \in Sites :
        /\ site[d].status = "runtime" => d \in loaded
        /\ \A a \in Addresses : Ref(d, a) => d \in loaded
        /\ d \in loaded =>
             /\ site[d].status \in {"runtime", "dropped"}
             /\ {"malloc", "free", "memcpy", "synchronize"} \subseteq site[d].exports["runtime"]
             /\ {"create", "destroy", "sgemm"} \subseteq site[d].exports["blas"]
  BY DEF LibrariesOpen
<1>3. CASE \E i \in Installations : Probe(s, i)
  <2> PICK i \in Installations : Probe(s, i)
    BY <1>3
  <2> DEFINE complete == Complete(Vendor[s], i)
  <2>1. /\ site[s].status = "unprobed" /\ UNCHANGED <<tensors, call>>
        /\ site' = [site EXCEPT ![s] =
             [status |-> IF complete THEN "runtime" ELSE "absent",
              exports |-> [l \in CalledLibraries |-> IF complete THEN OpenFirst(i[l]) ELSE {}]]]
        /\ loaded' = IF complete THEN loaded \cup {s} ELSE loaded
    BY DEF Probe
  <2>2. s \notin loaded /\ \A a \in Addresses : ~Ref(s, a)
    BY <1>2, <2>1
  <2>3. complete => /\ {"malloc", "free", "memcpy", "synchronize"} \subseteq OpenFirst(i["runtime"])
                    /\ {"create", "destroy", "sgemm"} \subseteq OpenFirst(i["blas"])
    <3> SUFFICES ASSUME complete
                 PROVE  /\ {"malloc", "free", "memcpy", "synchronize"} \subseteq OpenFirst(i["runtime"])
                        /\ {"create", "destroy", "sgemm"} \subseteq OpenFirst(i["blas"])
      OBVIOUS
    <3>1. "runtime" \in Required(Vendor[s]) /\ "blas" \in Required(Vendor[s])
      BY DEF Required, Libraries
    <3>2. Checked("runtime") \subseteq OpenFirst(i["runtime"]) /\ Checked("blas") \subseteq OpenFirst(i["blas"])
      BY <3>1 DEF Complete
    <3>3. /\ Checked("runtime") = {"malloc", "free", "memcpy", "synchronize"}
          /\ Checked("blas") = {"create", "destroy", "sgemm", "gemmEx"}
      BY DEF Checked
    <3>4. QED
      BY <3>2, <3>3
  <2> HIDE DEF complete
  <2>4. /\ \A d \in Sites \ {s} : site'[d] = site[d]
        /\ site'[s].status = IF complete THEN "runtime" ELSE "absent"
        /\ site'[s].exports = [l \in CalledLibraries |-> IF complete THEN OpenFirst(i[l]) ELSE {}]
    BY <1>1, <2>1
  <2>5. complete => /\ site'[s].exports["runtime"] = OpenFirst(i["runtime"])
                    /\ site'[s].exports["blas"] = OpenFirst(i["blas"])
    BY <2>4 DEF CalledLibraries
  <2>6. \A d \in Sites, a \in Addresses : Ref(d, a)' <=> Ref(d, a)
    BY <2>1 DEF Ref, Referenced
  <2> SUFFICES ASSUME NEW d \in Sites
               PROVE  /\ site'[d].status = "runtime" => d \in loaded'
                      /\ \A a \in Addresses : Ref(d, a)' => d \in loaded'
                      /\ d \in loaded' =>
                           /\ site'[d].status \in {"runtime", "dropped"}
                           /\ {"malloc", "free", "memcpy", "synchronize"} \subseteq site'[d].exports["runtime"]
                           /\ {"create", "destroy", "sgemm"} \subseteq site'[d].exports["blas"]
    BY DEF LibrariesOpen
  <2>7. CASE d = s
    BY <2>1, <2>2, <2>3, <2>4, <2>5, <2>6, <2>7
  <2>8. CASE d # s
    BY <1>2, <2>1, <2>4, <2>6, <2>8
  <2>9. QED
    BY <2>7, <2>8
<1>4. CASE FromEvidence(s)
  <2>1. /\ site[s].status = "unprobed" /\ UNCHANGED <<loaded, tensors, call>>
        /\ site' = [site EXCEPT ![s].status = "evidence"]
    BY <1>4 DEF FromEvidence
  <2>2. s \notin loaded
    BY <1>2, <2>1
  <2>3. \A d \in Sites : site'[d].exports = site[d].exports
                         /\ site'[d].status = IF d = s THEN "evidence" ELSE site[d].status
    BY <1>1, <2>1
  <2>4. \A d \in Sites, a \in Addresses : Ref(d, a)' <=> Ref(d, a)
    BY <2>1 DEF Ref, Referenced
  <2>5. QED
    BY <1>2, <2>1, <2>2, <2>3, <2>4 DEF LibrariesOpen
<1>5. CASE Flush(s)
  <2>1. UNCHANGED <<site, loaded, tensors, call>>
    BY <1>5 DEF Flush
  <2>2. \A d \in Sites, a \in Addresses : Ref(d, a)' <=> Ref(d, a)
    BY <2>1 DEF Ref, Referenced
  <2>3. QED
    BY <2>1, <2>2, StageLibraries
<1>6. CASE DropExecutor(s)
  <2>1. /\ site[s].status = "runtime" /\ site' = [site EXCEPT ![s].status = "dropped"]
        /\ Release(tensors, call, memory, site')
    BY <1>6 DEF DropExecutor
  <2>2. \A d \in Sites : site'[d].exports = site[d].exports
                         /\ site'[d].status = IF d = s THEN "dropped" ELSE site[d].status
    BY <1>1, <2>1
  <2>3. call' = call /\ \A y \in Tensors : tensors'[y] \in {tensors[y], EmptySlot}
    BY <2>1, ReleaseFacts
  <2>4. \A d \in Sites, a \in Addresses : Ref(d, a)' => Ref(d, a)
    BY <2>3, EmptySlotType DEF Ref, Referenced
  <2>5. \A d \in Sites :
          /\ site'[d].exports = site[d].exports
          /\ site'[d].status = site[d].status \/ (site[d].status = "runtime" /\ site'[d].status = "dropped")
    BY <2>1, <2>2
  <2>6. loaded' = {d \in loaded : site'[d].status = "runtime" \/ \E a \in Addresses : Ref(d, a)'}
    <3>1. tensors' = Kept(tensors, call) /\ call' = call
          /\ loaded' = {d \in loaded : Hosted(Kept(tensors, call), call, site', d)}
      BY <2>1 DEF Release
    <3>2. \A d : Hosted(Kept(tensors, call), call, site', d)
                  <=> site'[d].status = "runtime" \/ \E a \in Addresses : Ref(d, a)'
      BY <3>1 DEF Hosted, Ref
    <3>3. QED
      BY <3>1, <3>2
  <2>7. QED
    BY <1>2, <2>4, <2>5, <2>6 DEF LibrariesOpen
<1>7. QED
  BY <1>3, <1>4, <1>5, <1>6

\* A caller lets a tensor go.
LEMMA DropTensorLibraries ==
  ASSUME Shape, LibrariesOpen, NEW x \in Tensors, DropTensor(x)
  PROVE  LibrariesOpen'
<1> DEFINE slots == [tensors EXCEPT ![x].held = FALSE]
<1>1. Release(slots, call, memory, site) /\ site' = site
  BY DEF DropTensor
<1>2. \A y \in Tensors : slots[y].state = tensors[y].state /\ slots[y].site = tensors[y].site
                         /\ slots[y].addr = tensors[y].addr
  BY DEF Shape, DataType, Slot
<1> HIDE DEF slots
<1>3. /\ call' = call
      /\ \A y \in Tensors : tensors'[y] \in {slots[y], EmptySlot}
      /\ loaded' = {d \in loaded : site[d].status = "runtime" \/ \E a \in Addresses : Ref(d, a)'}
  BY <1>1, ReleaseFacts
<1>4. \A d \in Sites, a \in Addresses : Ref(d, a)' => Ref(d, a)
  BY <1>2, <1>3, EmptySlotType DEF Ref, Referenced
<1>5. QED
  BY <1>1, <1>3, <1>4 DEF LibrariesOpen

-----------------------------------------------------------------------------
(* The invariant and what it says.                                         *)

\* The invariant holds before anything is probed.
LEMMA RuntimeInit == Init => RuntimeInv
<1> SUFFICES ASSUME Init
             PROVE  RuntimeInv
  OBVIOUS
<1>1. /\ \A s \in Sites : site[s].status = "unprobed" /\ loaded = {}
      /\ \A s \in Sites, a \in Addresses : memory[s][a] = Free
      /\ \A x \in Tensors : tensors[x] = EmptySlot
      /\ \A t \in Threads : call[t] = Idle
  BY DEF Init
<1>2. SiteType
  BY DEF Init, SiteType, Files
<1>3. DataType
  BY EmptySlotType, IdleType, TermFacts DEF Init, DataType
<1>4. \A t \in Threads : ~Busy(t) /\ call[t].site = None /\ call[t].raw = None /\ call[t].at = "idle"
  BY <1>1, IdleType DEF Busy
<1>5. \A x \in Tensors : tensors[x].state = "empty"
  BY <1>1, EmptySlotType
<1>6. Shape
  BY <1>1, <1>2, <1>3, <1>4, <1>5 DEF Shape, CallShape, TensorShape
<1>7. \A s \in Sites, a \in Addresses : ~Ref(s, a) /\ Raw(s, a) = {}
  BY <1>4, <1>5, VendorAssumption DEF Ref, Referenced, Raw
<1>8. MemoryInv
  BY <1>1, <1>4, <1>5, <1>7 DEF MemoryInv, Owned, OutputOwned, OperandsHeld, ResultsAreProducts
<1>9. LibrariesOpen
  BY <1>1, <1>7 DEF LibrariesOpen
<1>10. Accounts
  <2> SUFFICES ASSUME NEW s \in Sites
               PROVE  /\ handles[s] = Cardinality(Multiplying(s)) + ended[s].oversized
                      /\ counters[s].accepted = counters[s].queued + ended[s].flushed
                      /\ counters[s].accepted = ended[s].produced + ended[s].failed + Cardinality(InFlight(s))
                      /\ counters[s].next = counters[s].accepted
    BY DEF Accounts, HandlesAccounted, EvidenceAccounted, Multiplying
  <2>1. Multiplying(s) = {} /\ InFlight(s) = {}
    BY <1>4, VendorAssumption DEF Multiplying, InFlight
  <2>2. Cardinality(Multiplying(s)) = 0 /\ Cardinality(InFlight(s)) = 0
    BY <2>1, FS_EmptySet
  <2>3. QED
    BY <2>2 DEF Init
<1>11. QED
  BY <1>6, <1>8, <1>9, <1>10 DEF RuntimeInv, Accounts

\* Every step keeps the invariant.
LEMMA RuntimeStep == RuntimeInv /\ [Next]_vendorVars => RuntimeInv'
<1> SUFFICES ASSUME RuntimeInv, [Next]_vendorVars
             PROVE  RuntimeInv'
  OBVIOUS
<1>1. Shape /\ MemoryInv /\ LibrariesOpen /\ Accounts
  BY DEF RuntimeInv, Accounts
<1> DEFINE Goal == Shape' /\ MemoryInv' /\ LibrariesOpen' /\ Accounts'
<1>2. ASSUME UNCHANGED <<counters, handles, ended, call>>
      PROVE  Accounts'
  BY <1>1, <1>2 DEF Accounts, HandlesAccounted, EvidenceAccounted, InFlight
<1>3. ASSUME NEW s \in Sites, NEW i \in Installations, Probe(s, i)
      PROVE  Goal
  BY <1>1, <1>2, <1>3, QuietStep, QuietLibraries DEF Probe
<1>4. ASSUME NEW s \in Sites, FromEvidence(s)
      PROVE  Goal
  BY <1>1, <1>2, <1>4, QuietStep, QuietLibraries DEF FromEvidence
<1>5. ASSUME NEW s \in Sites, DropExecutor(s)
      PROVE  Goal
  <2>1. UNCHANGED <<counters, handles, ended, call>>
    BY <1>5 DEF DropExecutor, Release
  <2>2. QED
    BY <1>1, <1>2, <1>5, <2>1, DropExecutorStep, QuietLibraries
<1>6. ASSUME NEW s \in Sites, Flush(s)
      PROVE  Goal
  BY <1>1, <1>6, QuietStep, QuietLibraries, FlushAccounts
<1>7. ASSUME NEW t \in Threads, NEW s \in Sites, NEW inputs \in [Operands -> Available], NEW x \in Empty,
             NEW shape \in Shapes, Begin(t, s, inputs, x, shape)
      PROVE  Goal
  <2>1. Shape' /\ MemoryInv' /\ Accounts'
    BY <1>1, <1>7, BeginStep, BeginAccounts
  <2>2. \A d \in Sites, a \in Addresses : Ref(d, a)' => Ref(d, a)
    <3>1. /\ tensors' = [tensors EXCEPT ![x].state = "pending"] /\ x \in Tensors
          /\ \A u \in Threads \ {t} : call'[u] = call[u]
          /\ \A b \in Buffers : call'[t].bufs[b] = None
      BY <1>1, <1>7 DEF Begin, Empty, Shape, DataType, Idle, NoBuffers, Buffers
    <3>2. \A y \in Tensors : tensors'[y].state = "device" => tensors'[y] = tensors[y]
      BY <1>1, <3>1 DEF Shape, DataType, Slot
    <3>3. QED
      BY <3>1, <3>2, VendorAssumption DEF Ref, Referenced, NoBuffers, Buffers
  <2>3. UNCHANGED <<site, loaded>>
    BY <1>7 DEF Begin
  <2>4. QED
    BY <1>1, <2>1, <2>2, <2>3, StageLibraries
<1>8. ASSUME NEW t \in Threads,
             \/ RejectShapes(t) \/ Reuse(t) \/ Unreadable(t)
             \/ Malloc(t) \/ MallocFails(t) \/ CopyIn(t) \/ CopyFails(t)
             \/ CreateHandle(t) \/ CreateFails(t) \/ Multiply(t) \/ MultiplyFails(t)
             \/ ComputeOnCpu(t) \/ CpuFails(t)
      PROVE  Goal
  <2>1. Shape' /\ MemoryInv'
    BY <1>1, <1>8, PlainFailures, CopyFailsStep, MultiplyStep, CpuStep, ReuseStep, MallocStep, CopyInStep,
       CreateHandleStep
  <2>2. LibrariesOpen'
    BY <1>1, <1>8, CallLibraries
  <2>3. Accounts'
    BY <1>1, <1>8, <2>1, CallAccounts
  <2>4. QED
    BY <2>1, <2>2, <2>3
<1>9. ASSUME NEW x \in Tensors, Materialize(x)
      PROVE  Goal
  <2>1. Shape' /\ MemoryInv'
    BY <1>1, <1>9, MaterializeStep
  <2>2. UNCHANGED <<site, loaded, counters, handles, ended, call>>
    BY <1>9 DEF Materialize
  <2>3. \A d \in Sites, a \in Addresses : Ref(d, a)' => Ref(d, a)
    <3>1. PICK answer : tensors' = [tensors EXCEPT ![x].read = answer]
      BY <1>9 DEF Materialize
    <3>2. \A y \in Tensors : tensors'[y].state = tensors[y].state /\ tensors'[y].site = tensors[y].site
                             /\ tensors'[y].addr = tensors[y].addr
      BY <1>1, <3>1 DEF Shape, DataType, Slot
    <3>3. QED
      BY <2>2, <3>2 DEF Ref, Referenced
  <2>4. QED
    BY <1>1, <1>2, <2>1, <2>2, <2>3, StageLibraries
<1>10. ASSUME NEW x \in Tensors, DropTensor(x)
       PROVE  Goal
  <2>1. UNCHANGED <<counters, handles, ended, call>>
    BY <1>10 DEF DropTensor, Release
  <2>2. QED
    BY <1>1, <1>2, <1>10, <2>1, DropTensorStep, DropTensorLibraries
<1>11. ASSUME UNCHANGED vendorVars
       PROVE  Goal
  <2>1. UNCHANGED <<site, loaded, counters, memory, handles, tensors, call, ended>>
    BY <1>11 DEF vendorVars
  <2>2. SiteType'
    BY <1>1, <2>1 DEF Shape, SiteType
  <2>3. Shape' /\ MemoryInv'
    BY <1>1, <2>1, <2>2, SiteStep
  <2>4. \A d \in Sites, a \in Addresses : Ref(d, a)' => Ref(d, a)
    BY <2>1 DEF Ref, Referenced
  <2>5. Accounts'
    BY <1>2, <2>1
  <2>6. LibrariesOpen'
    BY <1>1, <2>1, <2>4, StageLibraries
  <2>7. QED
    BY <2>3, <2>5, <2>6
<1>12. Goal
  <2> HIDE DEF Goal
  <2>1. ASSUME NEW s \in Sites,
               \/ \E i \in Installations : Probe(s, i)
               \/ FromEvidence(s) \/ DropExecutor(s) \/ Flush(s)
        PROVE  Goal
    BY <2>1, <1>3, <1>4, <1>5, <1>6
  <2>2. ASSUME NEW t \in Threads,
               \E s \in Sites, inputs \in [Operands -> Available], x \in Empty, shape \in Shapes :
                 Begin(t, s, inputs, x, shape)
        PROVE  Goal
    BY <2>2, <1>7
  <2>3. ASSUME NEW x \in Tensors, Materialize(x) \/ DropTensor(x)
        PROVE  Goal
    BY <2>3, <1>9, <1>10
  <2>4. CASE Next
    BY <2>1, <2>2, <2>3, <2>4, <1>8 DEF Next
  <2>5. QED
    BY <1>11, <2>4
<1>13. QED
  BY <1>12 DEF RuntimeInv, Accounts

\* The inductive invariant of the providers.
THEOREM RuntimeInvariant == Spec => []RuntimeInv
BY RuntimeInit, RuntimeStep, PTL DEF Spec

\* Device memory neither leaks nor dangles, for any number of threads, sites,
\* tensors and addresses.
THEOREM BuffersAccountedFor == Spec => []BuffersAccounted
<1>1. RuntimeInv => BuffersAccounted
  <2> SUFFICES ASSUME RuntimeInv, NEW s \in Sites, NEW a \in Addresses
               PROVE  /\ (memory[s][a] # Free) <=> (Referenced(tensors, call, s, a) \/ Raw(s, a) # {})
                      /\ Cardinality(Raw(s, a)) <= 1
                      /\ Raw(s, a) # {} => ~Referenced(tensors, call, s, a)
    BY DEF BuffersAccounted
  <2>1. /\ (memory[s][a] # Free) <=> (Ref(s, a) \/ Raw(s, a) # {})
        /\ \A t, u \in Raw(s, a) : t = u
        /\ Raw(s, a) # {} => ~Ref(s, a)
    BY DEF RuntimeInv, MemoryInv, Owned
  <2>2. CASE Raw(s, a) = {}
    BY <2>1, <2>2, FS_EmptySet DEF Ref
  <2>3. CASE Raw(s, a) # {}
    <3>1. PICK t : Raw(s, a) = {t}
      BY <2>1, <2>3
    <3>2. Cardinality(Raw(s, a)) = 1
      BY <3>1, FS_Singleton
    <3>3. QED
      BY <2>1, <3>2 DEF Ref
  <2>4. QED
    BY <2>2, <2>3
<1>2. QED
  BY <1>1, RuntimeInvariant, PTL

\* The live handles of a site are those of the multiplications under way and one for
\* each product its calls were refused as too large for i32 after the handle existed
\* (runtime.rs:134): that early return never destroys its handle.
THEOREM HandlesAccountedFor == Spec => []HandlesAccounted
<1>1. RuntimeInv => HandlesAccounted
  BY DEF RuntimeInv
<1>2. QED
  BY <1>1, RuntimeInvariant, PTL

(* Handles that exist though no multiplication of the site is under way.    *)
Abandoned(s) == handles[s] - Cardinality(Multiplying(s))

(* The step that leaves matmul between the creation of a handle and its use. *)
RefusesDimensions(s) ==
  \E t \in Threads : call[t].site = s /\ call[t].shape = "oversized" /\ CreateHandle(t)

\* What the steps do to the count of refused products.
LEMMA OversizedCounts ==
  ASSUME RuntimeInv, [Next]_vendorVars, NEW s \in Sites
  PROVE  \/ ended'[s].oversized = ended[s].oversized
         \/ ended'[s].oversized = ended[s].oversized + 1 /\ RefusesDimensions(s)
<1> DEFINE Goal == \/ ended'[s].oversized = ended[s].oversized
                   \/ ended'[s].oversized = ended[s].oversized + 1 /\ RefusesDimensions(s)
<1>1. Shape /\ MemoryInv /\ ended \in [Sites -> Ended] /\ ended[s] \in Ended
  BY DEF RuntimeInv, Shape, SiteType, Ended
<1>2. ASSUME ended' = ended
      PROVE  Goal
  BY <1>2
<1>3. ASSUME NEW t \in Threads, Busy(t), NEW mem, Fail(t, mem)
      PROVE  Goal
  <2>1. ended' = [ended EXCEPT ![call[t].site].failed = @ + 1]
    BY <1>3 DEF Fail
  <2>2. QED
    BY <1>1, <2>1 DEF Ended
<1>4. ASSUME NEW t \in Threads, Busy(t), NEW storage, NEW mem, Succeed(t, storage, mem)
      PROVE  Goal
  <2>1. ended' = [ended EXCEPT ![call[t].site].produced = @ + 1]
    BY <1>4 DEF Succeed
  <2>2. QED
    BY <1>1, <2>1 DEF Ended
<1>5. ASSUME NEW t \in Threads, CreateHandle(t)
      PROVE  Goal
  <2>1. CASE call[t].shape = "oversized"
    <3> DEFINE m == call[t].site
               failed == [ended EXCEPT ![m].failed = @ + 1]
    <3>1. m \in Sites
      BY <1>1, <1>5, CallFacts DEF CreateHandle, Busy
    <3>2. failed \in [Sites -> Ended] /\ failed[s].oversized = ended[s].oversized
      BY <1>1, <3>1 DEF Ended
    <3>3. ended' = [failed EXCEPT ![m].oversized = @ + 1]
      BY <1>1, <1>5, <2>1, <3>1 DEF CreateHandle
    <3> HIDE DEF failed
    <3>4. ended'[s].oversized = IF s = m THEN failed[s].oversized + 1 ELSE failed[s].oversized
      BY <3>1, <3>2, <3>3 DEF Ended
    <3>5. QED
      BY <1>5, <2>1, <3>2, <3>4 DEF RefusesDimensions
  <2>2. CASE call[t].shape # "oversized"
    BY <1>2, <1>5, <2>2 DEF CreateHandle
  <2>3. QED
    BY <2>1, <2>2
<1>6. ASSUME NEW d \in Sites, Flush(d)
      PROVE  Goal
  <2>1. ended' = [ended EXCEPT ![d].flushed = @ + counters[d].queued]
    BY <1>6 DEF Flush
  <2>2. QED
    BY <1>1, <2>1 DEF Ended
<1>7. ASSUME NEW d \in Sites,
             \/ \E i \in Installations : Probe(d, i)
             \/ FromEvidence(d) \/ DropExecutor(d)
      PROVE  Goal
  BY <1>2, <1>7 DEF Probe, FromEvidence, DropExecutor
<1>8. ASSUME NEW t \in Threads, Reuse(t) \/ Malloc(t) \/ CopyIn(t)
      PROVE  Goal
  BY <1>2, <1>8 DEF Reuse, Malloc, CopyIn
<1>9. ASSUME NEW t \in Threads,
             RejectShapes(t) \/ Unreadable(t) \/ MallocFails(t) \/ CreateFails(t) \/ MultiplyFails(t) \/ CpuFails(t)
      PROVE  Goal
  <2>1. Busy(t) /\ Fail(t, memory)
    BY <1>9 DEF RejectShapes, Unreadable, MallocFails, CreateFails, MultiplyFails, CpuFails,
                OnRuntime, OnEvidence, AtOperand, ToUpload, Busy
  <2>2. QED
    BY <1>3, <2>1
<1>10. ASSUME NEW t \in Threads, CopyFails(t)
       PROVE  Goal
  <2>1. Busy(t) /\ Fail(t, FreeRaw(t))
    BY <1>1, <1>10, RawFacts DEF CopyFails
  <2>2. QED
    BY <1>3, <2>1
<1>11. ASSUME NEW t \in Threads, Multiply(t)
       PROVE  Goal
  <2>1. Busy(t) /\ Succeed(t, Resident(t, "device", call[t].bufs["output"]), Sgemm(t))
    BY <1>11 DEF Multiply, Busy
  <2>2. QED
    BY <1>4, <2>1
<1>12. ASSUME NEW t \in Threads, ComputeOnCpu(t)
       PROVE  Goal
  <2>1. Busy(t) /\ Succeed(t, Resident(t, "host", None), memory)
    BY <1>12 DEF ComputeOnCpu, OnEvidence, Busy
  <2>2. QED
    BY <1>4, <2>1
<1>13. ASSUME NEW t \in Threads,
              \E d \in Sites, inputs \in [Operands -> Available], x \in Empty, shape \in Shapes :
                Begin(t, d, inputs, x, shape)
       PROVE  Goal
  BY <1>2, <1>13 DEF Begin
<1>14. ASSUME NEW x \in Tensors, Materialize(x) \/ DropTensor(x)
       PROVE  Goal
  BY <1>2, <1>14 DEF Materialize, DropTensor
<1>15. ASSUME UNCHANGED vendorVars
       PROVE  Goal
  BY <1>2, <1>15 DEF vendorVars
<1>16. Goal
  <2> HIDE DEF Goal
  <2>1. CASE Next
    BY <2>1, <1>5, <1>6, <1>7, <1>8, <1>9, <1>10, <1>11, <1>12, <1>13, <1>14 DEF Next
  <2>2. QED
    BY <1>15, <2>1
<1>17. QED
  BY <1>16

\* What is abandoned is what was refused, and both are numbers.
LEMMA AbandonedIsRefused ==
  ASSUME RuntimeInv, NEW s \in Sites
  PROVE  Abandoned(s) = ended[s].oversized /\ ended[s].oversized \in Nat
<1>1. handles[s] = Cardinality(Multiplying(s)) + ended[s].oversized
  BY DEF RuntimeInv, HandlesAccounted, Multiplying
<1>2. Cardinality(Multiplying(s)) \in Nat /\ ended[s].oversized \in Nat
  BY CountedFinite, NumberTypes DEF RuntimeInv
<1>3. QED
  BY <1>1, <1>2 DEF Abandoned

\* One step abandons a handle, and one handle: the refusal of dimensions beyond i32
\* (runtime.rs:134).  No other step of a call, a caller, a flush or a drop changes how
\* many handles of a site exist beside its multiplications, so none is destroyed
\* twice and an abandoned one is never destroyed.
THEOREM OnlyRefusalsAbandon ==
  Spec => [][\A s \in Sites : \/ Abandoned(s)' = Abandoned(s)
                              \/ Abandoned(s)' = Abandoned(s) + 1 /\ RefusesDimensions(s)]_vendorVars
<1>1. ASSUME RuntimeInv, RuntimeInv', [Next]_vendorVars
      PROVE  [\A s \in Sites : \/ Abandoned(s)' = Abandoned(s)
                               \/ Abandoned(s)' = Abandoned(s) + 1 /\ RefusesDimensions(s)]_vendorVars
  <2> SUFFICES ASSUME NEW s \in Sites
               PROVE  \/ Abandoned(s)' = Abandoned(s)
                      \/ Abandoned(s)' = Abandoned(s) + 1 /\ RefusesDimensions(s)
    OBVIOUS
  <2>1. Abandoned(s) = ended[s].oversized
    BY <1>1, AbandonedIsRefused
  <2>2. Abandoned(s)' = ended'[s].oversized
    <3>1. Multiplying(s)' \subseteq Threads
      BY DEF Multiplying
    <3>2. Cardinality(Multiplying(s))' \in Nat
      BY <3>1, VendorAssumption, FS_Subset, FS_CardinalityType
    <3>3. handles'[s] = Cardinality(Multiplying(s))' + ended'[s].oversized /\ ended'[s].oversized \in Nat
      BY <1>1 DEF RuntimeInv, HandlesAccounted, Multiplying, Shape, SiteType
    <3>4. QED
      BY <3>2, <3>3 DEF Abandoned
  <2>3. \/ ended'[s].oversized = ended[s].oversized
        \/ ended'[s].oversized = ended[s].oversized + 1 /\ RefusesDimensions(s)
    BY <1>1, OversizedCounts
  <2>4. QED
    BY <2>1, <2>2, <2>3
<1>2. QED
  BY <1>1, RuntimeInvariant, PTL DEF Spec

(* Every handle is that of a multiplication between its creation and its    *)
(* destruction.                                                             *)
HandlesOnlyMultiply == \A s \in Sites : handles[s] = Cardinality(Multiplying(s))

NothingRefused == \A s \in Sites : ended[s].oversized = 0

\* Where every product has dimensions that fit i32, a handle exists exactly while a
\* multiplication is between cublasCreate and cublasDestroy, whatever fails in
\* between.
THEOREM FittingProductsKeepNoHandle ==
  ASSUME "oversized" \notin Shapes \cup {None}
  PROVE  Spec => []HandlesOnlyMultiply
<1>1. Init => NothingRefused
  BY DEF Init, NothingRefused
<1>2. RuntimeInv /\ NothingRefused /\ [Next]_vendorVars => NothingRefused'
  <2> SUFFICES ASSUME RuntimeInv, NothingRefused, [Next]_vendorVars, NEW s \in Sites
               PROVE  ended'[s].oversized = 0
    BY DEF NothingRefused
  <2>1. ~RefusesDimensions(s)
    <3>1. \A t \in Threads : call[t].shape \in Shapes \cup {None}
      BY DEF RuntimeInv, Shape, DataType, Call
    <3>2. QED
      BY <3>1 DEF RefusesDimensions
  <2>2. QED
    BY <2>1, OversizedCounts DEF NothingRefused
<1>3. RuntimeInv /\ NothingRefused => HandlesOnlyMultiply
  <2> SUFFICES ASSUME RuntimeInv, NothingRefused, NEW s \in Sites
               PROVE  handles[s] = Cardinality(Multiplying(s))
    BY DEF HandlesOnlyMultiply
  <2>1. handles[s] = Cardinality(Multiplying(s)) + ended[s].oversized
    BY DEF RuntimeInv, HandlesAccounted, Multiplying
  <2>2. ended[s].oversized = 0 /\ Cardinality(Multiplying(s)) \in Nat
    BY CountedFinite DEF NothingRefused
  <2>3. QED
    BY <2>1, <2>2
<1>4. QED
  BY <1>1, <1>2, <1>3, RuntimeInvariant, PTL DEF Spec

\* A resident result is the product that was asked for, as long as it is held.
THEOREM ResidentResultsAreProducts == Spec => []ResultsAreProducts
<1>1. RuntimeInv => ResultsAreProducts
  BY DEF RuntimeInv, MemoryInv
<1>2. QED
  BY <1>1, RuntimeInvariant, PTL

\* Every counted call is reported by one flush or still queued, and every call
\* ended once or runs.
THEOREM EvidenceIsAccounted == Spec => []EvidenceAccounted
<1>1. RuntimeInv => EvidenceAccounted
  BY DEF RuntimeInv
<1>2. QED
  BY <1>1, RuntimeInvariant, PTL

\* Libraries stay open as long as a call or a buffer needs them, though the site
\* may be gone.
THEOREM RuntimeStaysOpen == Spec => []RuntimeServes
<1>1. RuntimeInv => RuntimeServes
  <2> SUFFICES ASSUME RuntimeInv, NEW s \in Sites,
                      \/ \E a \in Addresses : memory[s][a] # Free
                      \/ \E t \in InFlight(s) : OnRuntime(t)
               PROVE  /\ s \in loaded
                      /\ {"malloc", "free", "memcpy", "synchronize"} \subseteq site[s].exports["runtime"]
                      /\ {"create", "destroy", "sgemm"} \subseteq site[s].exports["blas"]
    BY DEF RuntimeServes
  <2>1. /\ site[s].status = "runtime" => s \in loaded
        /\ \A a \in Addresses : Ref(s, a) => s \in loaded
        /\ s \in loaded =>
             /\ {"malloc", "free", "memcpy", "synchronize"} \subseteq site[s].exports["runtime"]
             /\ {"create", "destroy", "sgemm"} \subseteq site[s].exports["blas"]
    BY DEF RuntimeInv, LibrariesOpen
  <2>2. ASSUME NEW t \in InFlight(s), OnRuntime(t)
        PROVE  s \in loaded
    BY <2>1, <2>2 DEF InFlight, OnRuntime
  <2>3. ASSUME NEW a \in Addresses, memory[s][a] # Free
        PROVE  s \in loaded
    <3>1. Ref(s, a) \/ Raw(s, a) # {}
      BY <2>3 DEF RuntimeInv, MemoryInv, Owned
    <3>2. ASSUME NEW t \in Raw(s, a)
          PROVE  s \in loaded
      <4>1. t \in Threads /\ call[t].site = s /\ call[t].raw = a /\ a # None
        BY VendorAssumption DEF Raw
      <4>2. OnRuntime(t)
        BY <4>1, RawFacts DEF RuntimeInv
      <4>3. QED
        BY <2>1, <4>1, <4>2 DEF OnRuntime
    <3>3. QED
      BY <2>1, <3>1, <3>2
  <2>4. QED
    BY <2>1, <2>2, <2>3
<1>2. QED
  BY <1>1, RuntimeInvariant, PTL

\* What a resident tensor once answered it answers for ever.
THEOREM ReadAnswersAreFinal == Spec => ReadAnswerIsFinal
<1>1. ASSUME RuntimeInv, [Next]_vendorVars
      PROVE  [\A x \in Tensors :
                tensors[x].state = "device" /\ tensors'[x].state = "device" /\ tensors[x].read # Unread
                  => tensors'[x].read = tensors[x].read]_vendorVars
  <2> SUFFICES ASSUME NEW x \in Tensors, tensors[x].state = "device", tensors'[x].state = "device",
                      tensors[x].read # Unread
               PROVE  tensors'[x].read = tensors[x].read
    OBVIOUS
  <2>1. Shape /\ MemoryInv /\ tensors \in [Tensors -> Slot]
    BY <1>1 DEF RuntimeInv, Shape, DataType
  <2>2. ASSUME NEW slots, NEW calls, NEW mem, NEW sites, Release(slots, calls, mem, sites),
               slots[x].state = "device" => slots[x].read = tensors[x].read
        PROVE  tensors'[x].read = tensors[x].read
    BY <2>2, ReleaseFacts, EmptySlotType
  <2>3. ASSUME NEW t \in Threads, NEW storage, NEW mem, EndCall(t, storage, mem)
        PROVE  tensors'[x].read = tensors[x].read
    <3> DEFINE slots == [tensors EXCEPT ![call[t].into] = storage]
    <3>1. call[t].into \in Tensors /\ tensors[call[t].into].state = "pending"
      BY <2>1, <2>3, CallFacts DEF EndCall
    <3>2. slots[x] = tensors[x]
      BY <2>1, <3>1
    <3>3. Release(slots, [call EXCEPT ![t] = Idle], mem, site)
      BY <2>3 DEF EndCall
    <3> HIDE DEF slots
    <3>4. QED
      BY <2>2, <3>2, <3>3
  <2>4. CASE UNCHANGED tensors
    BY <2>4
  <2>5. ASSUME NEW s \in Sites,
               \/ \E i \in Installations : Probe(s, i)
               \/ FromEvidence(s) \/ DropExecutor(s) \/ Flush(s)
        PROVE  tensors'[x].read = tensors[x].read
    <3>1. CASE DropExecutor(s)
      <4>1. tensors' = Kept(tensors, call)
        BY <3>1 DEF DropExecutor, Release
      <4>2. QED
        BY <4>1, KeptFacts, EmptySlotType
    <3>2. CASE (\E i \in Installations : Probe(s, i)) \/ FromEvidence(s) \/ Flush(s)
      BY <2>4, <3>2 DEF Probe, FromEvidence, Flush
    <3>3. QED
      BY <2>5, <3>1, <3>2
  <2>6. ASSUME NEW t \in Threads, NEW s \in Sites, NEW inputs \in [Operands -> Available], NEW y \in Empty,
               NEW shape \in Shapes, Begin(t, s, inputs, y, shape)
        PROVE  tensors'[x].read = tensors[x].read
    BY <2>1, <2>6 DEF Begin, Slot
  <2>7. ASSUME NEW t \in Threads,
               \/ RejectShapes(t) \/ Reuse(t) \/ Unreadable(t)
               \/ Malloc(t) \/ MallocFails(t) \/ CopyIn(t) \/ CopyFails(t)
               \/ CreateHandle(t) \/ CreateFails(t) \/ Multiply(t) \/ MultiplyFails(t)
               \/ ComputeOnCpu(t) \/ CpuFails(t)
        PROVE  tensors'[x].read = tensors[x].read
    <3>1. CASE Reuse(t) \/ Malloc(t) \/ CopyIn(t) \/ (CreateHandle(t) /\ call[t].shape # "oversized")
      BY <2>4, <3>1 DEF Reuse, Malloc, CopyIn, CreateHandle
    <3>2. CASE CreateHandle(t) /\ call[t].shape = "oversized"
      <4>1. EndCall(t, EmptySlot, memory)
        BY <3>2 DEF CreateHandle, EndCall, Busy
      <4>2. QED
        BY <2>3, <4>1
    <3>3. CASE RejectShapes(t) \/ Unreadable(t) \/ MallocFails(t) \/ CreateFails(t) \/ MultiplyFails(t)
               \/ CpuFails(t)
      <4>1. EndCall(t, EmptySlot, memory)
        BY <3>3 DEF RejectShapes, Unreadable, MallocFails, CreateFails, MultiplyFails, CpuFails, Fail,
                    OnRuntime, OnEvidence, AtOperand, ToUpload, Busy, EndCall
      <4>2. QED
        BY <2>3, <4>1
    <3>4. CASE CopyFails(t)
      <4>1. EndCall(t, EmptySlot, FreeRaw(t))
        BY <2>1, <3>4, RawFacts DEF CopyFails, Fail, EndCall
      <4>2. QED
        BY <2>3, <4>1
    <3>5. CASE Multiply(t)
      <4>1. EndCall(t, Resident(t, "device", call[t].bufs["output"]), Sgemm(t))
        BY <3>5 DEF Multiply, Succeed, EndCall, Busy
      <4>2. QED
        BY <2>3, <4>1
    <3>6. CASE ComputeOnCpu(t)
      <4>1. EndCall(t, Resident(t, "host", None), memory)
        BY <3>6 DEF ComputeOnCpu, OnEvidence, Succeed, EndCall, Busy
      <4>2. QED
        BY <2>3, <4>1
    <3>7. QED
      BY <2>7, <3>1, <3>2, <3>3, <3>4, <3>5, <3>6
  <2>8. ASSUME NEW y \in Tensors, Materialize(y)
        PROVE  tensors'[x].read = tensors[x].read
    <3>1. PICK answer : tensors' = [tensors EXCEPT ![y].read = answer]
      BY <2>8 DEF Materialize
    <3>2. tensors[y].read = Unread
      BY <2>8 DEF Materialize, Unanswered
    <3>3. QED
      BY <2>1, <3>1, <3>2
  <2>9. ASSUME NEW y \in Tensors, DropTensor(y)
        PROVE  tensors'[x].read = tensors[x].read
    <3> DEFINE slots == [tensors EXCEPT ![y].held = FALSE]
    <3>1. Release(slots, call, memory, site)
      BY <2>9 DEF DropTensor
    <3>2. slots[x].read = tensors[x].read
      BY <2>1 DEF Slot
    <3> HIDE DEF slots
    <3>3. QED
      BY <2>2, <3>1, <3>2
  <2>10. CASE UNCHANGED vendorVars
    BY <2>4, <2>10 DEF vendorVars
  <2> DEFINE Goal == tensors'[x].read = tensors[x].read
  <2>11. CASE Next
    <3> SUFFICES Goal
      OBVIOUS
    <3>1. \A t \in Threads :
            (\E s \in Sites, inputs \in [Operands -> Available], y \in Empty, shape \in Shapes :
               Begin(t, s, inputs, y, shape)) => Goal
      BY <2>6
    <3>2. \A y \in Tensors : Materialize(y) \/ DropTensor(y) => Goal
      BY <2>8, <2>9
    <3>3. \A s \in Sites : (\/ \E i \in Installations : Probe(s, i)
                            \/ FromEvidence(s) \/ DropExecutor(s) \/ Flush(s)) => Goal
      BY <2>5
    <3>4. \A t \in Threads :
            (\/ RejectShapes(t) \/ Reuse(t) \/ Unreadable(t)
             \/ Malloc(t) \/ MallocFails(t) \/ CopyIn(t) \/ CopyFails(t)
             \/ CreateHandle(t) \/ CreateFails(t) \/ Multiply(t) \/ MultiplyFails(t)
             \/ ComputeOnCpu(t) \/ CpuFails(t)) => Goal
      BY <2>7
    <3> HIDE DEF Goal
    <3>5. QED
      BY <2>11, <3>1, <3>2, <3>3, <3>4 DEF Next
  <2>12. QED
    BY <1>1, <2>10, <2>11
<1>2. QED
  BY <1>1, RuntimeInvariant, PTL DEF Spec, ReadAnswerIsFinal
=============================================================================
