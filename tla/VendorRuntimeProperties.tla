---------------------- MODULE VendorRuntimeProperties ----------------------
(***************************************************************************)
(* What the CUDA and ROCm providers owe their callers and the device.      *)
(***************************************************************************)
EXTENDS VendorRuntime

Raw(s, a) == {t \in Threads : call[t].site = s /\ call[t].raw = a}

\* Device memory neither leaks nor dangles: an address is allocated exactly when
\* a tensor or a running call holds it, or one upload has not wrapped it yet
\* (the early returns of upload and matmul, CudaDeviceBuffer::drop).
BuffersAccounted ==
  \A s \in Sites, a \in Addresses :
    /\ (memory[s][a] # Free) <=> (Referenced(tensors, call, s, a) \/ Raw(s, a) # {})
    /\ Cardinality(Raw(s, a)) <= 1
    /\ Raw(s, a) # {} => ~Referenced(tensors, call, s, a)

\* A BLAS handle is left behind by each product whose dimensions do not fit i32,
\* and by nothing else: not by a multiplication that fails (matmul).
HandlesAccounted ==
  \A s \in Sites :
    handles[s] = Cardinality({t \in Threads : call[t].site = s /\ call[t].at = "gemm"}) + ended[s].oversized

\* A resident result is the product its request asked for, wherever its operands
\* came from (this device, the other one, the host), as long as it is held, and
\* that is what a reader gets if it gets anything.
ResultsAreProducts ==
  \A x \in Tensors : tensors[x].state = "device" =>
    /\ memory[tensors[x].site][tensors[x].addr] = tensors[x].value
    /\ tensors[x].read \in {Unread, ReadError, tensors[x].value}

InFlight(s) == {t \in Threads : call[t].site = s}

\* Every call counted by reserve_allocation is reported by exactly one flush, or
\* still to be, and that includes calls that failed or have not finished.
EvidenceAccounted ==
  \A s \in Sites :
    /\ counters[s].accepted = counters[s].queued + ended[s].flushed
    /\ counters[s].accepted = ended[s].produced + ended[s].failed + Cardinality(InFlight(s))
    /\ counters[s].next = counters[s].accepted

\* As long as a call runs on a runtime, or a buffer waits to be freed there, its
\* libraries are open and export every symbol that executing and freeing look up,
\* though the site may be gone.
RuntimeServes ==
  \A s \in Sites :
    (\/ \E a \in Addresses : memory[s][a] # Free
     \/ \E t \in InFlight(s) : OnRuntime(t))
      => /\ s \in loaded
         /\ {"malloc", "free", "memcpy", "synchronize"} \subseteq site[s].exports["runtime"]
         /\ {"create", "destroy", "sgemm"} \subseteq site[s].exports["blas"]

\* What a resident tensor once answered it answers for ever: a failed copy back
\* is not tried again, though calls on its own device still multiply by it.
ReadAnswerIsFinal ==
  [][\A x \in Tensors :
       tensors[x].state = "device" /\ tensors'[x].state = "device" /\ tensors[x].read # Unread
         => tensors'[x].read = tensors[x].read]_vendorVars
=============================================================================
