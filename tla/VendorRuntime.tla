--------------------------- MODULE VendorRuntime ---------------------------
(***************************************************************************)
(* The CUDA and ROCm matmul providers.  The two crates are the same        *)
(* program up to the libraries they look for, so one module models both; a *)
(* site is one loaded provider with its executor, and a process may run    *)
(* several.                                                                *)
(*                                                                         *)
(* A call of execute owns its thread.  The only lock is the executor's     *)
(* counters; the device calls between are not serialized, so every one of  *)
(* them is a step.  Device buffers are shared by reference count between   *)
(* running calls and the tensors calls have produced: a buffer is freed by *)
(* whoever drops it last.                                                  *)
(*                                                                         *)
(* The contents of a buffer are a term in prefix form: <<"host">> for what *)
(* a host tensor holds, <<"zeros">>, and <<"x">> \o l \o r for a product.  *)
(***************************************************************************)
EXTENDS Naturals, FiniteSets, Sequences, SequencesExt, FiniteSetsExt

CONSTANTS Threads,
          Sites,
          Vendor,         \* Vendor[s]: "cuda" or "rocm"
          Installations,  \* what the host may have installed, see Discovered
          Addresses,      \* device addresses; two devices may use the same one
          Tensors,        \* storages results are put in
          Shapes,         \* subset of {"conforming", "oversized", "nonconforming"}
          MaxCalls,       \* bound on calls of execute, for model checking
          None

Libraries == {"driver", "runtime", "blas", "blaslt"}

\* execution_handles.
CalledLibraries == {"runtime", "blas"}

ASSUME VendorAssumption ==
  /\ IsFiniteSet(Threads) /\ IsFiniteSet(Tensors)
  /\ Vendor \in [Sites -> {"cuda", "rocm"}]
  /\ \A i \in Installations : DOMAIN i = Libraries \cup {"gfx"}
  /\ Shapes \subseteq {"conforming", "oversized", "nonconforming"}
  /\ None \notin Addresses \cup Tensors \cup Sites
  /\ "host" \notin Tensors
  /\ MaxCalls \in Nat

VARIABLES site,      \* per site: its status and the symbols its libraries export
          loaded,    \* sites whose library handles are open
          counters,  \* CudaExecutorState
          memory,    \* contents per site and address
          handles,   \* BLAS handles created and not destroyed, per site
          tensors,
          call,      \* the call of execute each thread is in
          ended      \* history: how the calls of each site ended, and what flush reported

vendorVars == <<site, loaded, counters, memory, handles, tensors, call, ended>>

Free == << >>
Garbage == <<"garbage">>
HostValue == <<"host">>
Zeros == <<"zeros">>
Product(l, r) == <<"x">> \o l \o r

Unread == << >>
ReadError == <<"error">>

Operands == {"left", "right"}
NoBuffers == [b \in Operands \cup {"output"} |-> None]

EmptySlot == [state |-> "empty", held |-> FALSE, site |-> None, addr |-> None,
              value |-> << >>, read |-> Unread]

Idle == [at |-> "idle", site |-> None, inputs |-> [o \in Operands |-> "host"], into |-> None,
         shape |-> None, raw |-> None, bufs |-> NoBuffers]

Init ==
  /\ site = [s \in Sites |-> [status |-> "unprobed", exports |-> [l \in CalledLibraries |-> {}]]]
  /\ loaded = {}
  /\ counters = [s \in Sites |-> [accepted |-> 0, queued |-> 0, next |-> 0]]
  /\ memory = [s \in Sites |-> [a \in Addresses |-> Free]]
  /\ handles = [s \in Sites |-> 0]
  /\ tensors = [x \in Tensors |-> EmptySlot]
  /\ call = [t \in Threads |-> Idle]
  /\ ended = [s \in Sites |-> [produced |-> 0, failed |-> 0, oversized |-> 0, flushed |-> 0]]

-----------------------------------------------------------------------------
(* Discovery and loading.                                                  *)

\* The libraries open_first has to find, and the symbols symbol_evidence asks for
\* (HIP has its version symbols in the runtime library, which no call needs).
Required(v) == IF v = "cuda" THEN Libraries ELSE {"runtime", "blas"}

Checked(l) ==
  CASE l = "driver" -> {"init", "version"}
    [] l = "runtime" -> {"malloc", "free", "memcpy", "synchronize"}
    [] l = "blas" -> {"create", "destroy", "sgemm", "gemmEx"}
    [] l = "blaslt" -> {"ltCreate", "ltDestroy"}

\* An installation maps each library to the files of that name that open, in
\* the order of candidate_paths, a file being the set of symbols it exports.
OpenFirst(files) == IF files = << >> THEN {} ELSE Head(files)

Complete(v, installation) ==
  /\ \A l \in Required(v) : installation[l] # << >> /\ Checked(l) \subseteq OpenFirst(installation[l])
  /\ v = "rocm" => installation.gfx

\* discover, then load: only a probe that kept its handles gives a site.
Probe(s, installation) ==
  /\ site[s].status = "unprobed"
  /\ LET complete == Complete(Vendor[s], installation) IN
     /\ site' = [site EXCEPT ![s] =
          [status |-> IF complete THEN "runtime" ELSE "absent",
           exports |-> [l \in CalledLibraries |-> IF complete THEN OpenFirst(installation[l]) ELSE {}]]]
     /\ loaded' = IF complete THEN loaded \cup {s} ELSE loaded
  /\ UNCHANGED <<counters, memory, handles, tensors, call, ended>>

\* CudaTensorExecutor::new: an executor on evidence alone computes on the CPU.
FromEvidence(s) ==
  /\ site[s].status = "unprobed"
  /\ site' = [site EXCEPT ![s].status = "evidence"]
  /\ UNCHANGED <<loaded, counters, memory, handles, tensors, call, ended>>


-----------------------------------------------------------------------------
(* Who holds what.                                                         *)

Stored(x) == tensors[x].state \in {"device", "host"}

HeldBy(calls, x) == \E t \in Threads : calls[t].at # "idle" /\ \E o \in Operands : calls[t].inputs[o] = x

\* The reference counts: of a storage, of a buffer, of a runtime.
Kept(slots, calls) ==
  [x \in Tensors |-> IF slots[x].state \in {"device", "host"} /\ ~slots[x].held /\ ~HeldBy(calls, x)
                     THEN EmptySlot ELSE slots[x]]

Referenced(slots, calls, s, a) ==
  \/ \E x \in Tensors : slots[x].state = "device" /\ slots[x].site = s /\ slots[x].addr = a
  \/ \E t \in Threads : calls[t].at # "idle" /\ calls[t].site = s
                        /\ \E b \in DOMAIN NoBuffers : calls[t].bufs[b] = a

\* Mutated: a buffer does not keep its runtime.
HostedByExecutor(slots, calls, sites, s) == sites[s].status = "runtime"

\* Owners of a CudaLibrarySet: its executor, and every buffer.
Hosted(slots, calls, sites, s) ==
  \/ sites[s].status = "runtime"
  \/ \E a \in Addresses : Referenced(slots, calls, s, a)

\* Mutated: no Drop for CudaDeviceBuffer.
FreedLate(slots, calls, mem) == mem

\* CudaDeviceBuffer::drop, for the buffers whose last owner goes.
Freed(slots, calls, mem) ==
  [s \in Sites |-> [a \in Addresses |->
     IF Referenced(tensors, call, s, a) /\ ~Referenced(slots, calls, s, a) THEN Free ELSE mem[s][a]]]

\* What is left when `slots` and `calls` are what the program still names.
Release(slots, calls, mem, sites) ==
  LET kept == Kept(slots, calls) IN
  /\ tensors' = kept
  /\ call' = calls
  /\ memory' = Freed(kept, calls, mem)
  /\ loaded' = {s \in loaded : Hosted(kept, calls, sites, s)}

\* A call that fails keeps its count in queued: nothing gives it back.
Fail(t, mem) ==
  /\ Release([tensors EXCEPT ![call[t].into] = EmptySlot], [call EXCEPT ![t] = Idle], mem, site)
  /\ ended' = [ended EXCEPT ![call[t].site].failed = @ + 1]

Succeed(t, storage, mem) ==
  /\ Release([tensors EXCEPT ![call[t].into] = storage], [call EXCEPT ![t] = Idle], mem, site)
  /\ ended' = [ended EXCEPT ![call[t].site].produced = @ + 1]

-----------------------------------------------------------------------------
(* execute.  Requests for another operation or another dtype are answered  *)
(* Unsupported, and a byte count that overflows is refused, before         *)
(* anything changes.                                                       *)

\* Mutated: queued is forgotten.
ReservedUnqueued(c) == [c EXCEPT !.accepted = @ + 1, !.next = @ + 1]

\* reserve_allocation.
Reserved(c) == [c EXCEPT !.accepted = @ + 1, !.queued = @ + 1, !.next = @ + 1]

\* What a caller may pass, and where a result may go.
Available == {"host"} \cup {x \in Tensors : Stored(x) /\ tensors[x].held}
Empty == {x \in Tensors : tensors[x].state = "empty"}

\* Calls counted so far, for the bound.
Calls == MapThenSumSet(LAMBDA s : counters[s].accepted, Sites)

Begin(t, s, inputs, x, shape) ==
  /\ call[t].at = "idle"
  /\ site[s].status \in {"runtime", "evidence"}
  /\ Calls < MaxCalls
  /\ counters' = [counters EXCEPT ![s] = Reserved(@)]
  /\ call' = [call EXCEPT ![t] = [Idle EXCEPT !.at = "left", !.site = s, !.inputs = inputs,
                                              !.into = x, !.shape = shape]]
  /\ tensors' = [tensors EXCEPT ![x].state = "pending"]
  /\ UNCHANGED <<site, loaded, memory, handles, ended>>

OnRuntime(t) == call[t].at # "idle" /\ site[call[t].site].status = "runtime"
OnEvidence(t) == call[t].at # "idle" /\ site[call[t].site].status = "evidence"

\* The arity, rank and shape tests of execute_runtime.
RejectShapes(t) ==
  /\ OnRuntime(t)
  /\ call[t].at = "left" /\ call[t].raw = None
  /\ call[t].shape = "nonconforming"
  /\ Fail(t, memory)
  /\ UNCHANGED <<site, counters, handles>>

-----------------------------------------------------------------------------
(* cuda_input, once for each operand.                                      *)

AtOperand(t) ==
  /\ OnRuntime(t)
  /\ call[t].at \in Operands /\ call[t].raw = None
  /\ call[t].shape # "nonconforming"

Operand(t) == call[t].inputs[call[t].at]

\* On this runtime: the same Arc, not the same vendor.
Reusable(x, s) == x # "host" /\ tensors[x].state = "device" /\ tensors[x].site = s

NextStage(at) == CASE at = "left" -> "right" [] at = "right" -> "output" [] at = "output" -> "handle"

Holding(t, a) == [call[t] EXCEPT !.bufs[call[t].at] = a, !.raw = None, !.at = NextStage(call[t].at)]

Reuse(t) ==
  /\ AtOperand(t)
  /\ Reusable(Operand(t), call[t].site)
  /\ call' = [call EXCEPT ![t] = Holding(t, tensors[Operand(t)].addr)]
  /\ UNCHANGED <<site, loaded, counters, memory, handles, tensors, ended>>

\* Mutated: an error is not kept.
AskAgainAfterError(x) == tensors[x].read \in {Unread, ReadError}

\* get_or_init has no answer yet.
Unanswered(x) == tensors[x].read = Unread

\* materialize, by whoever holds the tensor or by a call that needs its cells.
\* The copy back happens inside the OnceLock, which keeps errors too.
Materialize(x) ==
  /\ tensors[x].state = "device"
  /\ \/ tensors[x].held
     \/ \E t \in Threads : /\ \/ AtOperand(t) /\ Operand(t) = x /\ ~Reusable(x, call[t].site)
                              \/ OnEvidence(t) /\ x \in Range(call[t].inputs)
  /\ Unanswered(x)
  /\ \E answer \in {memory[tensors[x].site][tensors[x].addr], ReadError} :
       tensors' = [tensors EXCEPT ![x].read = answer]
  /\ UNCHANGED <<site, loaded, counters, memory, handles, call, ended>>

Cells(x) ==
  IF x = "host" THEN HostValue
  ELSE IF tensors[x].state = "host" THEN tensors[x].value ELSE tensors[x].read

Readable(x) == Cells(x) \notin {Unread, ReadError}

\* The cells are an error, or not canonical f32.
Unreadable(t) ==
  /\ AtOperand(t)
  /\ ~Reusable(Operand(t), call[t].site)
  /\ Cells(Operand(t)) # Unread
  /\ Fail(t, memory)
  /\ UNCHANGED <<site, counters, handles>>

-----------------------------------------------------------------------------
(* CudaLibrarySet::upload, of an operand's cells or of the output's zeros. *)

ToUpload(t) ==
  /\ OnRuntime(t) /\ call[t].raw = None
  /\ \/ call[t].at = "output"
     \/ AtOperand(t) /\ ~Reusable(Operand(t), call[t].site) /\ Readable(Operand(t))

Uploaded(t) == IF call[t].at = "output" THEN Zeros ELSE Cells(Operand(t))

Malloc(t) ==
  /\ ToUpload(t)
  /\ \E a \in Addresses :
       /\ memory[call[t].site][a] = Free
       /\ memory' = [memory EXCEPT ![call[t].site][a] = Garbage]
       /\ call' = [call EXCEPT ![t].raw = a]
  /\ UNCHANGED <<site, loaded, counters, handles, tensors, ended>>

MallocFails(t) ==
  /\ ToUpload(t)
  /\ Fail(t, memory)
  /\ UNCHANGED <<site, counters, handles>>

CopyIn(t) ==
  /\ call[t].raw # None
  /\ memory' = [memory EXCEPT ![call[t].site][call[t].raw] = Uploaded(t)]
  /\ call' = [call EXCEPT ![t] = Holding(t, call[t].raw)]
  /\ UNCHANGED <<site, loaded, counters, handles, tensors, ended>>

\* Mutated: the early return of a failed copy leaves the pointer.
AbandonCopy(t) == memory

\* The pointer is not in a CudaDeviceBuffer yet: upload frees it itself.
FreeRaw(t) == [memory EXCEPT ![call[t].site][call[t].raw] = Free]

CopyFails(t) ==
  /\ call[t].raw # None
  /\ Fail(t, FreeRaw(t))
  /\ UNCHANGED <<site, counters, handles>>

-----------------------------------------------------------------------------
(* CudaLibrarySet::matmul after its output is allocated.                   *)

\* cublasCreate, then matrix_dimensions: dimensions beyond i32 are found out
\* when the handle exists.
CreateHandle(t) ==
  /\ call[t].at = "handle"
  /\ handles' = [handles EXCEPT ![call[t].site] = @ + 1]
  /\ IF call[t].shape = "oversized"
     THEN /\ Release([tensors EXCEPT ![call[t].into] = EmptySlot], [call EXCEPT ![t] = Idle], memory, site)
          /\ ended' = [ended EXCEPT ![call[t].site].failed = @ + 1, ![call[t].site].oversized = @ + 1]
     ELSE /\ call' = [call EXCEPT ![t].at = "gemm"]
          /\ UNCHANGED <<loaded, memory, tensors, ended>>
  /\ UNCHANGED <<site, counters>>

CreateFails(t) ==
  /\ call[t].at = "handle"
  /\ Fail(t, memory)
  /\ UNCHANGED <<site, counters, handles>>

Contents(t, b) == memory[call[t].site][call[t].bufs[b]]

\* Mutated: the operands of the column-major call in row-major order.
SgemmUntransposed(t) == [memory EXCEPT ![call[t].site][call[t].bufs["output"]] =
                           Product(Contents(t, "right"), Contents(t, "left"))]

\* Row-major C = A * B; the call passes the right operand first.
Sgemm(t) == [memory EXCEPT ![call[t].site][call[t].bufs["output"]] =
               Product(Contents(t, "left"), Contents(t, "right"))]

Destroy(h, s) == [h EXCEPT ![s] = @ - 1]

\* The term a reader of the result is owed, from the inputs of the request.
Owed(x) == IF x = "host" THEN HostValue ELSE tensors[x].value

Resident(t, state, addr) ==
  [state |-> state, held |-> TRUE, site |-> call[t].site, addr |-> addr,
   value |-> Product(Owed(call[t].inputs["left"]), Owed(call[t].inputs["right"])), read |-> Unread]

Multiply(t) ==
  /\ call[t].at = "gemm"
  /\ handles' = Destroy(handles, call[t].site)
  /\ Succeed(t, Resident(t, "device", call[t].bufs["output"]), Sgemm(t))
  /\ UNCHANGED <<site, counters>>

\* Mutated: the error is returned before the handle is destroyed.
MultiplyFailsEarly(t) ==
  /\ call[t].at = "gemm"
  /\ Fail(t, memory)
  /\ UNCHANGED <<site, counters, handles>>

\* cublasSgemm or cublasDestroy reports an error; the handle is destroyed first.
MultiplyFails(t) ==
  /\ call[t].at = "gemm"
  /\ handles' = Destroy(handles, call[t].site)
  /\ Fail(t, memory)
  /\ UNCHANGED <<site, counters>>

-----------------------------------------------------------------------------
(* The executor without a runtime: the CPU executor of another repository  *)
(* reads the inputs' cells and answers or fails.                           *)

ComputeOnCpu(t) ==
  /\ OnEvidence(t)
  /\ call[t].shape # "nonconforming"
  /\ \A o \in Operands : Readable(call[t].inputs[o])
  /\ Succeed(t, Resident(t, "host", None), memory)
  /\ UNCHANGED <<site, counters, handles>>

CpuFails(t) ==
  /\ OnEvidence(t)
  /\ Fail(t, memory)
  /\ UNCHANGED <<site, counters, handles>>

-----------------------------------------------------------------------------
(* Callers.                                                                *)

\* The caller drops its tensor; calls that have it as an operand still do.
DropTensor(x) ==
  /\ Stored(x) /\ tensors[x].held
  /\ Release([tensors EXCEPT ![x].held = FALSE], call, memory, site)
  /\ UNCHANGED <<site, counters, handles, ended>>

\* The last clone of the executor and its library go; tensors may remain.
DropExecutor(s) ==
  /\ site[s].status = "runtime"
  /\ \A t \in Threads : call[t].site # s
  /\ site' = [site EXCEPT ![s].status = "dropped"]
  /\ Release(tensors, call, memory, site')
  /\ UNCHANGED <<counters, handles, ended>>

\* flush.
Drained(c) == [c EXCEPT !.queued = 0]

Flush(s) ==
  /\ site[s].status \in {"runtime", "evidence"}
  /\ counters[s].queued > 0
  /\ ended' = [ended EXCEPT ![s].flushed = @ + counters[s].queued]
  /\ counters' = [counters EXCEPT ![s] = Drained(@)]
  /\ UNCHANGED <<site, loaded, memory, handles, tensors, call>>

Next ==
  \/ \E s \in Sites :
       \/ \E installation \in Installations : Probe(s, installation)
       \/ FromEvidence(s)
       \/ DropExecutor(s)
       \/ Flush(s)
  \/ \E t \in Threads :
       \/ \E s \in Sites, inputs \in [Operands -> Available], x \in Empty, shape \in Shapes :
            Begin(t, s, inputs, x, shape)
       \/ RejectShapes(t)
       \/ Reuse(t) \/ Unreadable(t)
       \/ Malloc(t) \/ MallocFails(t) \/ CopyIn(t) \/ CopyFails(t)
       \/ CreateHandle(t) \/ CreateFails(t) \/ Multiply(t) \/ MultiplyFails(t)
       \/ ComputeOnCpu(t) \/ CpuFails(t)
  \/ \E x \in Tensors : Materialize(x) \/ DropTensor(x)

Spec == Init /\ [][Next]_vendorVars
=============================================================================
