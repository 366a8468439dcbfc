# A TLA+ model of sim-compute

`sim-compute` provides tensor executors ("compute sites") outside the SIM
kernel: a modeled resident executor, a wgpu executor, CUDA and ROCm matmul
providers, an automatic selector, a FEMM solver on top of them and a command
line. This directory holds a model of what these keep and decide in TLA+, the
instances TLC checks, and proofs the TLA+ proof system checks. Paths below are
relative to `src/crates/`.

## How to run

    tlc -workers 2 -config MCResidentPool.cfg MCResidentPool.tla
    tlapm ResidentPoolProofs.tla

Every `.cfg` names its run in the table below; `PROJECT.json` lists the same
runs, the source lines each definition translates (`map`), a mutated form of the
code that breaks each property (`mutants`), the hazards the properties are for,
and where the code and its documentation disagree (`findings`).

## The system

| component | state | operations | hard behaviour | what makes it correct |
|---|---|---|---|---|
| modeled executor (`sim-lib-compute-model/src/model.rs`) | `ModeledCounters` behind one mutex, shared by every clone: queue depth and bytes, the resident pool, evidence counters | `execute`, `flush`, `snapshot` | one request takes the mutex six times or more and other threads run in between; failures after the reservation; the eviction loop | queue and pool limits hold; the counters say what happened |
| modeled storage (`storage.rs`) | a `OnceLock` per tensor, the host cells | `materialize`, `cell` | racing readers; eviction between the check and the answer | one answer, forever; failure only when evicted |
| resident ODE executor (`ode.rs`) | none of its own | `execute` | opens an internal section around a whole evaluation | sections balance; readbacks are its own |
| wgpu executor (`sim-lib-compute-wgpu/src/site.rs`, `dispatch*.rs`) | pipelines, arena, queue counters behind one mutex; physical evidence behind another | `execute` by kind of kernel, `flush` | limits and accounting are two critical sections; errors after the device did the work; a dispatch may have to read its input back | limits, evidence, every call returns |
| wgpu storage (`storage.rs`) | a `OnceLock`, the device buffer | `materialize` | readback submitted inside the `OnceLock`; a dispatch may be the reader | read once, recorded |
| wgpu arena (`arena.rs`) | active and evicted allocations, bytes, evictions | `allocate`, `contains`, `snapshot` | rotating eviction | bounded, oldest first, as few evictions as possible |
| wgpu pipeline cache (`pipeline.rs`) | FIFO of records and a list of compiled pipelines | `get_or_insert`, `get_or_insert_compiled` | two lists that must agree | bounded; what is compiled can be found |
| wgpu discovery (`probe.rs`, `site.rs`) | adapter evidence, device contexts, the registry | `from_probe_port`, `from_discovery`, `load` | sorting and renumbering one of two parallel lists | a site runs on the adapter it names; only proven adapters get one |
| CUDA, ROCm providers (`sim-lib-compute-cuda`, `-rocm`) | queue counters behind a mutex; device buffers shared by `Arc`; `OnceLock` per storage | `execute`, `flush`, `materialize`, loading | raw device memory and BLAS handles across early returns | no leak, no use after free, evidence of done work |
| automatic router (`sim-lib-compute-auto`) | the profile store's table; a profile, a decision, a ledger | `save`, `load`, `keys`, `choose`, `execute`, `flush` | profiles of several origins overwrite each other; staleness; what persists | a device only on fresh, physical, complete evidence of that device |
| FEMM solver (`sim-lib-compute-femm`) | upload and solve evidence behind a mutex; factors | `factor`, `can_reuse`, `solve`, drop | an early return at every request; retries by refinement; a provider queue it shares with others | a solution is of its matrix; evidence adds up; calls end |
| command line (`sim-lib-compute-cli`) | the host's capabilities, registry, store and files | devices, probe, profile, explain, recipe, acceptance capture, verify and import | several commands on one store; an artifact that is written in part | nothing physical claimed without evidence |

The executors do not call each other. The automatic selector owns a modeled
executor; the FEMM solver holds any executor and, if it is the modeled one, reads
its snapshot; the ODE executor wraps any executor and brackets its evaluations
with the modeled executor's internal sections. The command line reads the registry
discovery fills and the store the router decides on, and writes both store and
files. What the executors share is state reached from several host threads: a clone of an executor is the same executor, and a
tensor keeps its storage, hence its `OnceLock`, wherever it goes. What the host side
shares is state that outlives one command: a profile or an artifact is written by
one and believed by another. Both kinds of sharing are what the models are about.

## The modules

| module | models | extends or instantiates |
|---|---|---|
| `BoundedArena` | the abstract arena, and `WgpuResidentArena`: `allocate` in one step | |
| `ResidentPool` | the pool inside `ModeledCounters`: the loop of `allocate_resident`, an iteration a step | |
| `MCResidentPool` | a history of the victims, the refinement to `BoundedArena` | both |
| `SumLemmas` | lemmas about sums over finite sets | |
| `ResidentPoolProofs` | proofs about the pool, and of the refinement | `MCResidentPool`, `SumLemmas` |
| `ModeledCompute` | `ModeledTensorExecutor`, its storages and the fixed ODE section, for a set of threads | `ResidentPool` |
| `ModeledComputeProperties`, `MCModeledCompute` | what it owes its callers; instances | `ModeledCompute` |
| `ModeledComputeProofs` | proofs about the executor and its storages | `ModeledComputeProperties`, `ResidentPoolProofs` |
| `WgpuPipelineCache`, `MCWgpuPipelineCache` | the pipeline cache; a history of its misses | |
| `WgpuPipelineCacheProofs` | proofs about the cache | `MCWgpuPipelineCache` |
| `WgpuExecutor` | `WgpuTensorExecutor` and its storages, for a set of threads | `BoundedArena`, `WgpuPipelineCache` |
| `WgpuExecutorProperties`, `MCWgpuExecutor` | as above | `WgpuExecutor` |
| `WgpuExecutorProofs` | proofs about its queue, then about its physical evidence | `WgpuExecutorProperties` |
| `VendorRuntime` | the CUDA and the ROCm provider, for a set of sites and threads | |
| `VendorRuntimeProperties`, `MCVendorRuntime`, `VendorRuntimeProofs` | as above | `VendorRuntime` |
| `Outcomes` | `None` and `Refused`, for the host-side modules | |
| `FemmSolver` | `ResidentCsrSolver` on a provider with a bounded queue, for a set of threads | `Outcomes` |
| `FemmSolverProperties`, `MCFemmSolver`, `FemmSolverProofs` | as above | `FemmSolver` |
| `MeasuredProfile` | the profile harness, the tests of `choose`, the encoding of a profile; pure | `Outcomes` |
| `AutoRouting` | `ProfileStore`, `AutoTensorExecutor` and the host that uses both | `MeasuredProfile` |
| `WgpuDiscovery`, `MCWgpuDiscovery` | from probed adapters to registered sites | `Outcomes` |
| `CommandArgs` | from arguments to a command; pure | `Outcomes` |
| `Acceptance` | capturing and verifying an artifact, portable and vendor; pure | `MeasuredProfile` |
| `ComputeCommand` | `sim compute` in a host: composes the four above | `AutoRouting`, `WgpuDiscovery`, `CommandArgs`, `Acceptance` |
| `ComputeCommandProperties`, `MCComputeCommand` | what the host side owes; sessions for TLC | `ComputeCommand` |
| `ComputeCommandProofs` | proofs about it | `ComputeCommandProperties`, `SumLemmas` |

### One action is one critical section

In both executors a thread's call is a sequence of critical sections, with
computation that touches nothing shared in between. A thread's place is `pc[t]`
and what it carries is `call[t]`; an action is what one section does, with the
computation after it. Where two accesses are two acquisitions of a mutex in the
code (check, then count; count, then look; look, then cache) they are two actions.
A Rust `OnceLock` is `once[h]`: `empty`, `running` while a thread is inside the
closure of `get_or_init`, then its answer. A thread that finds it running waits;
in the model none of its actions is enabled.

`ModeledCompute` follows `execute` from `reserve_submission` (`Reserve`, with the
auto-flush and the three limits in one section) through device loss, the CPU
executor in an internal section, the result's cells in another, to
`allocate_resident`. The eviction loop keeps the lock for many iterations and is
the one section that is not a step: it is `ResidentPool`, whose `lock` the other
actions wait for. Paths that end a call with its reservation still queued
(`Unsupported`, unreadable cells, a result larger than the pool) do so in the
model. `RefuseAfterDrain` is the refusal that has an effect: auto-flush has
emptied the queue by then. Two history variables, `outstanding` and
`userReadbacks`, say what the counters should.

`WgpuExecutor` follows `execute` from `check_submission_limits` through reading
the input back when the dispatch needs its cells, the pipeline cache, the
submission by kind of kernel (pointwise; pointwise with a broadcast, which reads
its input; reduction, which synchronizes; reduction of no cells, which submits
nothing; linalg), `record_submit`, and the second critical section, which
allocates and counts without looking at the limits again. `submitted`, `calls`
and `flushed` are history.

Left out of these two: tensor contents, shapes and dtypes (a request is a byte
count and a kind), the modeled `tick`, which nothing reads, touched segments and
uploaded bytes, requests refused before they change anything, a second resident
input, and the wgpu host fallback, which no operation of `kernel_op` reaches.

### The vendor providers

`sim-lib-compute-cuda` and `sim-lib-compute-rocm` are one program under two sets
of names; they differ in which libraries `discover` requires (`Required`) and in
the gfx target ROCm asks for. `VendorRuntime` models both: `Vendor[s]` says what
site `s` is, and a definition is mapped to whichever crate it was read from. Here
the lock is not the unit of a step: only `reserve_allocation` and `flush` take
one. A step is a call of the vendor's library, with the host code after it.

A call holds its operands (`inputs`, the tensors of the request) and its device
buffers (`bufs`), an upload that has not finished a bare pointer (`raw`), and a
storage its buffer. `Referenced` is the reference count of a buffer being
positive, `Release` what happens when a call ends or a caller drops a tensor:
storages without an owner go, then buffers, then a library nothing keeps open.
Buffer contents are terms, so that a result can be compared with the product its
request asked for; `read` is the `OnceLock`. The copy back is one step, since
nothing writes to a buffer that a tensor holds. `MallocFails` also stands for
the other early returns of that place, the byte counts, symbol lookups and length
tests. The vendor library is external: it answers or fails at every call, except
that `cudaFree` succeeds and a multiplication is finished when its handle is
destroyed.

### The FEMM solver

A call of `FemmSolver` is `call[t]`: where it is, the handle it works for, and
for a solve the request it makes next. A Krylov solve is a fixed sequence of
requests to the provider with tests in between, so it is written as data:
`Program(m)` lists the requests of the prologue and of one round of CG or
BiCGSTAB in the order of `kernels.rs`, each as the set of ways in which the solve
may leave the sequence there. The provider may refuse any of them; a scalar the
host reads may not be finite; a denominator may break down; a residual may be
small enough. `Iterate` makes one request and goes on, begins the next round, or
leaves; `GoOn` holds the bound on rounds. `Flush` and `Report` are `finish`: the
provider is flushed first, and what that reported is added to the shared snapshot
under its lock afterwards. `Certify` is one turn of the refinement loop in f64.

The difference between `refuse()` and an error passed up by `?` is kept
(`Refuse`, `Fail`), since only the first is counted. The provider is external: a
queue that flushes itself when it is full, as the modeled executor's auto-flush
does, and that someone else may flush (`FlushElsewhere`). `Foreign` are handles a
caller may bring: of another provider, of a solver that shares the matrix, and one
whose fingerprint no longer agrees with its resident form.

### The host side

`MeasuredProfile` is the harness (`Measure`), the order of the tests in `choose`
(`Choose`), and the encoding: `ToTable` makes the record `profile_to_value` makes,
with the fields it does not write missing, and `FromTable` refuses what
`profile_from_value` refuses, a record of the first schema or without a required
field among them. A profile is never kept as such across a save.

In `AutoRouting` the host saves what it observed (`HostSave`), builds a router for
the device it expects from what it loads (`BuildAuto`), and runs work through it
(`Execute`, `Flush`, which differ in whether the ledger is written before or after
the selected executor may fail). `written` is history: who wrote each key last,
and what, before encoding.

`WgpuDiscovery` keeps the two lists the code keeps, `adapters` and `contexts`, and
looks one up by the position in the other, as `load` does.

`CommandArgs` folds the arguments as the loops of `args.rs` do, including which
tokens an option takes as its value. `Acceptance` abstracts the text of a file to
the artifact it renders and the number of its lines that are there; the line
order decides what a torn file still holds. `ComputeCommand` is the entrypoint: a
command is parsed, asks for its capabilities, and is refused, looks, saves or
captures. `CaptureArtifact` may fail after any number of lines has reached the
file, which the code leaves behind. Between commands the host discovers adapters,
saves profiles and routes work, if it loads the library that does so.

## The runs

| run | module, cfg | shows |
|---|---|---|
| `resident_pool` | `MCResidentPool` | The loop stays in its bound, evicts oldest first, ends, and implements `BoundedArena`: it evicts no more than the request needs. |
| `modeled_sequential` | `MCModeledCompute`, `MCModeledSequential.cfg` | One thread: queue, bytes and readbacks are exact, and auto-flush admits whatever fits an empty queue. |
| `modeled_concurrent` | `MCModeledConcurrent.cfg` | Two threads, each fault in turn: what holds under every interleaving. |
| `modeled_auto_flush_shared` | `MCModeledAutoFlushShared.cfg` | violation: two threads break `AutoFlushAdmits`. |
| `wgpu_pipeline_cache` | `MCWgpuPipelineCache` | Bounded, first in first out by miss, compiled pipelines follow their records. |
| `wgpu_concurrent` | `MCWgpuExecutor`, `MCWgpuConcurrent.cfg` | Two threads, all kinds of request: limits, evidence, readbacks, termination of calls. |
| `wgpu_queue_shared` | `MCWgpuQueueShared.cfg` | violation: two threads exceed `max_nodes`. |
| `vendor_runtime` | `MCVendorRuntime` | A CUDA and a ROCm site, two threads, every library call failing or not: no leak and no dangling buffer, handles, libraries, results, evidence. |
| `femm_solver` | `MCFemmSolver` | Two threads factor, solve, ask and drop on one provider queue, every request failing or not: of which matrix a solution is, what the snapshot misses, that calls end. |
| `compute_command` | `MCComputeCommand` | Eight sessions, at most two commands each between the host's own steps: device decisions, what persists, sites and rows, artifacts torn or complete. |
| `site_context` | `MCWgpuDiscovery` | violation: a site is given the device of another adapter. |
| `vendor_target` | `MCComputeCommand`, `MCVendorTarget.cfg` | violation: a desktop RTX 5080 is accepted for the laptop target. |

### What the violations say

`AutoFlushAdmits`: thread 1 reserves, thread 2 reserves, thread 1's work is
flushed with thread 2's, thread 2 reserves again, thread 1 fails and releases.
Count and bytes saturate separately, and the queue is left with no submission
and some bytes. Auto-flush needs `queued > 0` (`model.rs:266`), so a request that
an empty queue would take is refused, and stays refused until an explicit flush.
`LostDeviceLeavesQueueEmpty` shows the converse: where every submission fails,
releases alone never leave anything behind.

`QueueWithinLimits`: the limit is looked at once, before the dispatch.
`DepthOvershoot` is the bound that does hold, and is proved.

`SiteKeepsDevice`: adapters that failed a probe are dropped and the others sorted
and renumbered; the contexts stay in the order of the port (`site.rs:340`). With
two adapters whose sort keys are not in that order each site gets the other's
device. `SitesAreProven` is what does hold: every site shows a successful probe,
ordinals follow the sort keys, and no device is given twice.

`AcceptedFitsTarget`: the vendor artifact is matched with its target by a fragment
of the adapter's name that the desktop and the laptop card share
(`vendor/artifact.rs:277`); the portable verifier asks for the whole name.

### What passing properties say that may surprise

`HandlesAccounted` holds and says what the code does: a product whose dimensions
do not fit `i32` leaves a BLAS handle behind for good (`runtime.rs:134`), and
nothing else does. It is not that a handle exists only while a multiplication runs:
that is `FittingProductsKeepNoHandle`, proved for requests whose dimensions all fit.
`EvidenceAccounted` says that `flush` of a vendor site counts calls, failed
ones included, not results.

`SubmissionsAccounted` holds with a `drained` in it: what the provider flushes by
itself during a solve, or someone else flushes, is work of the solver that
`provider_submissions` never shows. `ResidentCoversFactors` is an inequality for
the same reason: `resident_bytes` is added to and never taken from.

`PersistenceKeepsDecision` excludes profiles with a fault: fault, auto-flush and
tile size of the modeled part are not saved, so a profile of a faulty device
judges as healthy once it went through the store.

`EvidenceCoversWork` has both inequalities because neither is an equality: the sum
of no cells is recorded and not submitted, a reduction whose partials cannot be
read back is submitted and not recorded.

### Where the code and what is said of it differ, without a run

- The readbacks of a modeled executor are counted while no thread is inside an
  internal section (`model.rs`), so one thread's section hides another's readback:
  `ReadbacksExact` holds for one thread and is checked there.
- `prepare_tensor` (`model.rs:221`) takes the host cells of an evicted tensor:
  chaining on it succeeds while reading it fails. A wgpu storage is read and bound
  without asking the arena (`storage.rs:108`), and its device memory is not given
  back when the arena evicts it.
- A result that is `Unsupported`, cannot be read or is larger than the pool ends
  `execute` with its reservation still queued (`model.rs:402`), and auto-flush drops
  the evidence of a batch before a request that is then refused (`model.rs:263`).
- The age of a profile saturates (`profile.rs:364`): one measured in the future is
  fresh, and `AutoTensorExecutor` decides once, when it is built.
- A registered site at or beyond the row limit is reported as an unknown selector
  (`UnknownIsAbsent` is about the sites below it).
- Evicted entries stay in both deques forever, and each scan passes over them.
- The FEMM documentation has one scalar read per iteration and a correction by the
  resident factor; the code reads three in CG and six in BiCGSTAB, and corrects by
  a dense solve in f64. `max_resident_bytes` is documented as what the arena
  retains and bounds one upload. A `can_reuse` that finds a stale factor counts as
  a refusal; errors outside `refuse()` are not counted at all.
- `Inconclusive` is documented as missing samples or limits (`profile.rs:332`);
  limits are never compared, and a profile with limits of zero goes to the device.
- `explain save` saves a profile under the read capability; `profile save` asks
  for the write capability.
- A portable capture writes its cases as passed; what was run is in the manifest's
  word. A vendor capture measures, but `f64::max` drops a differential that is not
  a number, and the runtime it measures is not tied to the adapter it names.

### Bounds, and why they are enough

Threads are two (each of the races needs two; a third only repeats a role), three
allocations fill a pool of three cells with results of two, so the eviction loop
runs and evicts at each allocation after the first, and a queue of two
submissions fills, overflows and drains. `MaxAllocations` bounds submissions
(`accepted` for the modeled executor, `calls` for wgpu) and with them every other
counter; `MaxLookups` bounds lookups of the cache alone and does not bind in the
executor (`ExecutorAssumption`). `MCResidentPool` takes five allocations of up to
a whole pool, zero bytes included, so that several evictions, inactive entries
in front and a second rotation occur. In the sequential run one result is larger
than the pool and one request larger than the queue; in `MCWgpuConcurrent` one
result is larger than the device's buffer limit. In the run of the cache alone a
cache of two sees six lookups of four keys. Three calls of the vendor sites give a product, a product
of it on the other device, and a third call beside either; three addresses per
device are what one call needs, so two calls on one device run out of memory; the
two devices use the same addresses, so that taking one for the other would show;
two storages let one be dropped while the other is an operand. The installations
are a complete one, one with an incomplete BLAS in front, one without the library
only CUDA requires and one without the target only ROCm requires. The wgpu node
limit is 1 instead of 64. Readers start only on allocated handles; deadlock
checking is off because a bounded model stops when its bound is reached.

The FEMM run has `MaxCalls` 2, so that two solves run against each other, or one
beside a factor or a drop, after the foreign handles gave them something to solve;
`MaxIters` 2 and `MaxRefinements` 1 make each loop run, repeat and give up; the
queue of three fills several times during a solve. `MaxResidentBytes` lies between
the two matrices. `MaxAccepted` is above what two calls can ask for and is never
reached: it is there for instances with more rounds, and cuts off no behaviour
`CallsReturn` is about here.

A session of the command line has `MaxCommands` 2: what is hard is a command on
what another one left, with any number of the host's own steps in between (at most
`MaxEvents` of the ledger). The eight sessions are hosts with and without a store,
with a record of the first schema, with half a record, with a laptop or two
desktop cards or an AMD one, and with a runtime that accepts what it should
refuse; the ticks are the ones at the edge of staleness; two adapters suffice to
be in the wrong order. Arguments are thirty-four lists, one or more for each verb and
for each way an option can be wrong. `MCWgpuDiscovery` has every report of at most
two adapters.

### Fairness

`FairSpec` has weak fairness of `Continue(t)` for each thread: a thread inside a
call is scheduled again, and the CPU executor or the device answers it (both are
external; the code waits for them without a timeout, `dispatch.rs:416`). Nothing
is assumed of callers: no call ever has to begin. The mutex itself is not fair in
Rust; weak fairness is enough in the model because every critical section but the
eviction loop is one step, and a call that runs the loop returns. With
contention that a real mutex resolves by starving one waiter forever `CallsReturn`
would not hold; calls are finitely many in every instance. `FemmSolver` states the
same fairness of its threads, with the same reasons: the provider answers a
request, or refuses it. The vendor providers, discovery and the command line state
none: every behaviour asked of them is safety.

## The theorems

All are proved for every value of the constants, from the `ASSUME`s of the
modules they are about. `PoolAssumption`, `ArenaAssumption`, `CacheAssumption`,
`ModeledAssumption`, `ExecutorAssumption`, `VendorAssumption` and `FemmAssumption`
say that byte counts and limits are naturals, that requests have the fields the
code reads, that the wgpu node limit is positive and that the set of threads is
finite. `DiscoveryAssumption` says that a report is finite and names a device
once, `NumbersAssumption` that a token parsed as a number gives one,
`RoutingAssumption` that ticks are naturals and an identity has three fields,
`SessionAssumption` that what a store holds when a session begins proves nothing
physical and that the files it finds are manifests, whose cases have an id and a
category (an artifact is one the session captured), `NamesAssumption` that no
adapter's name fits two targets (no product is called both `RTX 5080` and
`RTX 5090`; nothing in the code would keep such an artifact from being verified
for the other target), `OutcomeAssumption` that `None` and `Refused` are no
profiles. TLC evaluates all of them on the instances.

*The pool* (`ResidentPoolProofs`). `PoolBounded` is not inductive: the loop may
leave by its `break` with an empty deque, and then the bound needs
`resident_bytes` to be what the active entries hold; `BoundInv` carries that far
enough. `OldestFirst` needs the shape of the rotating deque: `OrderInv` says that
no allocation is lost from it and that its active entries are in order of
allocation, so that the front of the deque is the oldest active one whenever the
loop pops an active entry.

`PoolImplementsArena` is the refinement: a loop that evicts one entry at a time,
looks at the room after each and rotates what it evicted, leaves what dropping the
fewest of the oldest would have left. The arena's `live` is what the loop has
taken so far (`victims`, a history variable) followed by what is still active, in
order of age, wherever the deque has it. `TraceInv` says that the two together are
a run of consecutive allocations (`AllIs`), that `resident_bytes` is the weight of
the second, and that with its last victim the loop had no room (`LastWasNeeded`).
Beginning an insertion and an iteration of the loop are then stutters; the end is
`Allocate`, because `Victims` has one solution and the loop found it
(`VictimsAreTheFewest`).

*The modeled executor* (`ModeledComputeProofs`). `TypeCorrect` needs that a call
asks for a result of a size the pool is defined for (`AsksForResult`).
`ExecutorRunsPool` is a refinement by substitution: every step is a `PoolNext`
step or leaves `poolVars` alone, so both pool theorems hold of the executor
(`ExecutorPoolBounded`, `ExecutorEvictsOldestFirst`). `ExecutorQueueBounded` is
inductive with the types.

The counters of the queue are compared with `outstanding`, the submissions that
were accepted and not yet flushed or given back. Depth and bytes are reduced by
saturating subtraction, separately, so with several threads neither is exact;
`FlushNeverInvents` says what remains true of every interleaving: depth and bytes
are at most those of the submissions outstanding. It is inductive with `QueueInv`,
which has submission numbers that grow, so that a reservation is a submission of
its own, and, where every submission fails, no submission outstanding but the
reservations of calls that have not failed yet; then `DeviceLossEmptiesQueue`
follows when there are none. Where there is one thread (`SequentialQueueExact`, and the theorems that
follow it, have the hypothesis `Threads = {t}`: TLC shows with two that they would
be false without it) a thread that gives a reservation back still has it
outstanding (`ExactInv`), and both are equalities. `SequentialReadbacksExact` is
the same for internal sections: one thread's section is its own.

For the storages `ReadInv` adds that a thread inside the `OnceLock` is the only
one there (`Readers`), and that it is sure of what it saw: between the section
that looked at the allocation and the one that writes the answer the pool may do
anything, but an allocation that is not active stays so (`GoneForGood`).
`FailuresAreEvictions` follows.

*The wgpu pipeline cache* (`WgpuPipelineCacheProofs`). `CacheInv`: records are
distinct, no more than there is room for, and a compiled pipeline has its record.
An eviction drops the oldest record and what was compiled for it; that this
leaves no other record without its pipeline needs that records are distinct.
`HistoryInv` is `HoldsLatestMisses` place by place.

*The wgpu executor* (`WgpuExecutorProofs`). What is promised between the two
critical sections has to be part of the invariant: `PromiseInv` bounds the queue
together with the calls in flight, and `CheckedFits` is a statement about calls,
not about the queue. Most steps are `Quiet`: they admit no call and count none;
one lemma deals with all of them. The evidence is a matter of
counting threads between a step and the step that records it: `RecordedFirst` adds
the threads that have recorded and not yet counted or answered, `Covered` those
that have submitted and not yet recorded. Each step moves one thread or one
storage in or out of one such set, which `ThreadSets` and `HandleSets` turn into
arithmetic.

*The vendor providers* (`VendorRuntimeProofs`). `RuntimeInv` is one invariant for
ownership, contents and accounts, because each needs the others. `Owned` says
that an address is allocated exactly when something refers to it, so that an early
return anywhere can neither leak a buffer nor free one in use; `OperandsHeld` says
that between two library calls a call's operands are on the device as it asked
for them, whatever other threads release, and `OutputOwned` that its output is
nobody else's; with them `ResultsAreProducts` is inductive. `LibrariesOpen` says what keeps a library
open, and `RuntimeServes` that it suffices. `HandlesAccounted` and
`EvidenceAccounted` count the calls at the multiplication beside those that
ended. `HandlesAccountedFor` needs the history `ended`, in which the refused
products are counted; `OnlyRefusalsAbandon` says the same of the handles alone: what
exists beside the multiplications under way (`Abandoned`) never decreases and
increases in one step only, the refusal of dimensions beyond `i32`, by one. It
follows from the invariant in both states and from what each step does to `ended`
(`OversizedCounts`). Under the hypothesis that no requested shape is oversized,
`FittingProductsKeepNoHandle` has a handle exactly while its multiplication is
between creation and destruction. `ReadAnswersAreFinal` is the action property of the `OnceLock`.

*The FEMM solver* (`FemmSolverProofs`). A solve tests its factor once and uses it
many requests later, while other threads write and drop factors. `SolverInv` says
why the test still holds (`SolvableInUse`): a factor in use is not dropped, and one
is only written under a handle that was free when its call began and belongs to no
other call (`FreshHandles`). `SubmissionsAddUp` is an equation between the
snapshot, the provider's queue, and what each thread has flushed and not yet
reported (`InHand`, a sum over threads); `AccountInv` has it for every state, a
thread between its flush and its report included. `ResidentIsCovered` is the
other sum: `resident_bytes` is only added to, and a factor that is made adds its
share in the same step (`FactorsMeasured` says that it has one).

*The host side* (`ComputeCommandProofs`). `RegisteredSitesAreProven` needs
that the adapters and the contexts come from one report (`DiscoveryInv`) and that
sorting loses no adapter and invents none: `Order`, the model's sort, is chosen by
a permutation, and the lemmas are about permutations.
`SavedProfilesKeepTheirDecision` goes through the encoding field by field: what
`choose` looks at is what a record keeps, except a fault. `StaleProfilesStayStale`
is about every pair of ticks. `DeviceRoutesAreProven` needs `StoreInv`: a
record in the store is the encoding of the last profile `written` under its key,
or one the session began with; that a command can only write a modeled profile
makes a device decision the host's doing. That the tick a command decides at is a
number goes through the parser, whose loop is a fold; `FoldOfStep` unfolds it, and
`FoldKeeps` is the induction over its items. The prover takes no operator as a
parameter, so the lemmas are about three folds at once, told apart by a kind: the
arguments of `profile`, those of `devices`, and the rows `provider_rows` retains.
`ImplicitSavesKeepOneKey` says that a save which names no key either finds the one
there is or begins an empty store. `UnknownProvidersAreAbsent` needs that the sites
are numbered without a gap (`SitesInv`) and that a row that is named is retained.
`FilesVerifyWhenComplete` needs that every artifact in a file was proven before it
was rendered (`FilesInv`; `CapturesAreProven`), that ids are distinct so that the
vendor parser finds a case by its id (`LineIs`), and that a prefix of the cases
proves nothing (`CutProvesNothing`: a portable artifact is short of an id, a vendor
artifact of a case). `AlteredArtifactsAreRefused` takes the changes one by one:
a case more or less (`CountedCases`, by counting ids), one failed or with
another's hash (`AlteredCase`), another target or evidence (`AlteredField`).

*Sums* (`SumLemmas`). The sums of these arguments are folds over finite sets. The
prover has no induction over a formula, so each lemma takes a smallest set that
would be a counterexample (`SmallestSet`, from the library's theorem that strict
inclusion is well founded): the recursion is well defined, any element may be
taken first, functions that agree have one sum, more elements do not weigh less,
and moving the indices changes nothing.

Only model-checked: the liveness property `CallsReturn` of three modules, which
is out of the prover's reach, and what the violation runs refute. The provers do not
see into `SelectSeq`, `SortSeq`, `@@` and `:>`; where a proof needs what such an
operator returns the model has a fold or an explicit function instead.

## The plan

In order of importance; the first eight steps are done.

1. `ResidentPool` and `BoundedArena`, with their proofs.
2. `ModeledCompute`: the executor everything else is measured against.
3. `WgpuPipelineCache` and `WgpuExecutor`: the physical path.
4. `VendorRuntime`: CUDA and ROCm.
5. `MeasuredProfile`, `AutoRouting`, `WgpuDiscovery`: what a device decision and a
   site rest on.
6. `CommandArgs`, `Acceptance`, `ComputeCommand`: the same through the command line.
7. `FemmSolver`.
8. Proofs: every safety property and action property the passing runs check.
9. Pure algorithms over bounded inputs: segment plans (contiguous, complete,
   within the boundary), broadcasting, the fixed reduction tree.

## Not modelled

Kernel arithmetic and shader text (floating point); the CPU executor and the SIM
kernel (other repositories; external, any outcome); rendering of answers and
artifacts, the characters of tokens; generated documentation, recipes and `xtask`.
Of the FEMM solver the numbers, and the counters of matrix-vector, vector and
scalar dispatches, which are added up beside the requests the model makes. Of the
vendor crates `matmul_f32`, which takes the same steps without an executor. The
wgpu segment planner is a pure function left for step 9 of the plan;
`WgpuSubmissionQueue` is exported and used by nothing. The modeled compute site
registers one site and has no state. The adapter's `TensorStorage::cell` on an
already materialized storage is a lookup and changes nothing.
