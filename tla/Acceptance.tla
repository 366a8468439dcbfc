----------------------------- MODULE Acceptance -----------------------------
(***************************************************************************)
(* Physical acceptance artifacts: capture them on a host, verify them from  *)
(* a file.  Pure: the files of the host are those of ComputeCommand.        *)
(*                                                                         *)
(* The name of an adapter is the set of the fragments it contains.  A hash  *)
(* stands for what is hashed.  Errors are in units of 1e-9; NotANumber is a *)
(* float that is not finite.  Of the text of a file, what is kept is the    *)
(* artifact or manifest it renders, whether private data occurs in it, and  *)
(* how many of its lines are there.                                         *)
(*                                                                         *)
(* The tools of a host:                                                     *)
(*   nvidia  - rows of nvidia-smi [name, driver, power, thermal, columns,   *)
(*             clean], or None when it does not run                         *)
(*   vulkan  - lines of vulkaninfo <<key, value>>, or None                  *)
(*   cuda, rocm - the vendor runtime, or None                               *)
(* and a runtime is [identity, gfx, answers, errors, rejects, times].       *)
(***************************************************************************)
EXTENDS MeasuredProfile

CONSTANT NotANumber

Pairs(table) == [i \in DOMAIN table |-> [id |-> table[i][1], category |-> table[i][2]]]

PortableCases ==
  Pairs(<< <<"probe-allocation-transfer", "probe/allocation/transfer">>,
           <<"pointwise-transcendental", "pointwise/transcendental">>,
           <<"reduction-linalg", "reduction/linalg">>,
           <<"cross-binding-segmentation", "cross-binding/segmentation">>,
           <<"fixed-adaptive-ode", "ode/fixed-adaptive">>,
           <<"certified-femm", "femm/certified">> >>)

VendorCases ==
  Pairs(<< <<"runtime-probe", "vendor/probe">>,
           <<"dense-matmul-differential", "vendor/matmul-differential">>,
           <<"unsupported-failure", "vendor/fail-closed">>,
           <<"measured-crossover", "vendor/crossover">>,
           <<"vendor-absent-portability", "portable/vendor-absent">> >>)

Laptop5080 == "gpu:nvidia/rtx-5080-laptop"
Desktop5090 == "gpu:nvidia/rtx-5090"
Gfx1151 == "gpu:amd/gfx1151"
Nvidia == {Laptop5080, Desktop5090}

AmdNames == {"AMD Radeon Graphics", "RADV STRIX_HALO", "Radeon 8060S"}

\* TARGETS: fragments of which the adapter of a portable artifact has one.
Targets ==
  [target \in Nvidia \cup {Gfx1151} |->
     CASE target = Laptop5080 -> {"NVIDIA GeForce RTX 5080 Laptop GPU"}
       [] target = Desktop5090 -> {"NVIDIA GeForce RTX 5090"}
       [] target = Gfx1151 -> AmdNames]

Model(target) == IF target = Laptop5080 THEN "RTX 5080" ELSE "RTX 5090"

Has(name, fragments) == name \cap fragments # {}

Ids(cases) == {cases[i].id : i \in DOMAIN cases}

CaseHash(case) == <<case.id, case.category>>

-----------------------------------------------------------------------------
(* Probing the host.                                                       *)

\* The first row with the model's name, if it can be read and quoted.
NvidiaGpu(target, rows) ==
  LET at == IF rows = None THEN 0 ELSE SelectInSeq(rows, LAMBDA r : Model(target) \in r.name)
  IN IF at = 0 THEN Refused ELSE IF rows[at].columns # 4 THEN Refused ELSE rows[at]

\* A device is reported by the line that completes it: its driver follows its name.
VulkanGpu(lines) ==
  LET Read(at, line) ==
        IF at.found THEN at
        ELSE LET name == IF line[1] = "deviceName" THEN line[2] ELSE at.name
                 driver == CASE line[1] = "deviceName" -> None
                             [] line[1] = "driverName" -> line[2]
                             [] OTHER -> at.driver
             IN [name |-> name, driver |-> driver,
                 found |-> "llvmpipe" \notin name /\ driver # None /\ Has(name, AmdNames)]
      end == FoldLeft(Read, [name |-> {}, driver |-> None, found |-> FALSE],
                      IF lines = None THEN << >> ELSE lines)
  IN IF ~end.found THEN Refused
     ELSE [name |-> end.name, driver |-> end.driver, power |-> "unavailable",
           thermal |-> "unavailable", columns |-> 4, clean |-> TRUE]

\* physical_gpu and the sanitizers every capture puts its answer through.
PhysicalGpu(target, tools) ==
  LET gpu == IF target = Gfx1151 THEN VulkanGpu(tools.vulkan)
             ELSE NvidiaGpu(target, tools.nvidia)
  IN IF gpu = Refused THEN Refused ELSE IF gpu.clean THEN gpu ELSE Refused

-----------------------------------------------------------------------------
(* Portable artifacts.                                                     *)

PortableCaps == "storage-buffer,compute-shader,f32"
ErrorLimit == 10000

\* A manifest is accepted when its ids are those of the required cases.
ManifestCases(manifest) ==
  IF manifest.schema = "portable" /\ Ids(manifest.cases) = Ids(PortableCases)
  THEN manifest.cases ELSE Refused

CaseError(id) ==
  CASE id = "pointwise-transcendental" -> 119 [] id = "reduction-linalg" -> 238
    [] id = "fixed-adaptive-ode" -> 477 [] id = "certified-femm" -> 954 [] OTHER -> 0

\* The result written for the case at an index: no case is run.
CaseResult(case, index) ==
  [id |-> case.id, category |-> case.category, hash |-> CaseHash(case), passed |-> TRUE,
   submitted |-> index, bytes |-> 4096 * index,
   readbacks |-> IF case.id = "certified-femm" THEN 1 ELSE 0, error |-> CaseError(case.id)]

PortableArtifact(request, manifest, gpu) ==
  [schema |-> "portable", private |-> FALSE, source |-> request.source,
   harness |-> "portable-v1", manifest |-> manifest.text,
   target |-> request.target, adapter |-> gpu.name, backend |-> "wgpu", driver |-> gpu.driver,
   caps |-> PortableCaps, evidence |-> Physical, power |-> gpu.power, thermal |-> gpu.thermal,
   cases |-> [i \in DOMAIN manifest.cases |-> CaseResult(manifest.cases[i], i)]]

\* Mutated: a case may have failed.
CaseComplete(result) ==
  /\ \E i \in DOMAIN PortableCases :
       PortableCases[i].id = result.id /\ PortableCases[i].category = result.category
  /\ result.hash = CaseHash(result)
  /\ result.submitted > 0 /\ result.bytes > 0 /\ result.readbacks <= result.submitted
  /\ result.error # NotANumber /\ result.error <= ErrorLimit

CaseProven(result) ==
  /\ \E i \in DOMAIN PortableCases :
       PortableCases[i].id = result.id /\ PortableCases[i].category = result.category
  /\ result.hash = CaseHash(result)
  /\ result.passed
  /\ result.submitted > 0 /\ result.bytes > 0 /\ result.readbacks <= result.submitted
  /\ result.error # NotANumber /\ result.error <= ErrorLimit

\* Mutated: a required case may be missing.
CasesAmongRequired(cases) ==
  /\ \A i, j \in DOMAIN cases : cases[i].id = cases[j].id => i = j
  /\ \A i \in DOMAIN cases : CaseProven(cases[i])

CasesProven(cases) ==
  /\ \A i, j \in DOMAIN cases : cases[i].id = cases[j].id => i = j
  /\ \A i \in DOMAIN cases : CaseProven(cases[i])
  /\ Cardinality(Ids(cases)) = Len(PortableCases)

\* Artifact::verify
PortableProven(artifact, source) ==
  /\ artifact.source = source
  /\ artifact.harness = "portable-v1" /\ artifact.manifest = "portable-v1"
  /\ artifact.target \in DOMAIN Targets
  /\ artifact.evidence = Physical
  /\ Has(artifact.adapter, Targets[artifact.target])
  /\ artifact.backend = "wgpu" /\ artifact.caps = PortableCaps
  /\ CasesProven(artifact.cases)

PortableCapture(request, manifest, tools) ==
  LET cases == ManifestCases(manifest)
      gpu == PhysicalGpu(request.target, tools)
      artifact == PortableArtifact(request, manifest, gpu)
  IN IF cases = Refused \/ gpu = Refused THEN Refused
     ELSE IF PortableProven(artifact, request.source) THEN artifact ELSE Refused

-----------------------------------------------------------------------------
(* Vendor artifacts.                                                       *)

CrossoverDimensions == <<16, 32, 64, 128, 256, 384>>
SampleCount == 3
DifferentialDimension == 64
VendorErrorLimit == 5000000

\* The runtime is the one of the target's vendor; nothing ties it to the adapter
\* but the architecture ROCm names.
RuntimeFor(target, tools) ==
  IF target \in Nvidia THEN IF tools.cuda = None THEN Refused ELSE tools.cuda
  ELSE IF tools.rocm = None THEN Refused
  ELSE IF "gfx1151" \in tools.rocm.gfx THEN tools.rocm ELSE Refused

VendorProvider(target) == IF target \in Nvidia THEN "cuda/cublas" ELSE "rocm/rocblas"

\* f64::max drops a NaN: the largest of the differences that are numbers.
Differential(runtime) ==
  IF runtime.answers THEN Max({0} \cup (runtime.errors \ {NotANumber})) ELSE Refused

Median(samples) == SortSeq(samples, <)[(SampleCount \div 2) + 1]

MeasureCrossover(runtime) ==
  [i \in DOMAIN CrossoverDimensions |->
     LET n == CrossoverDimensions[i] IN
     [dimension |-> n, cpu |-> Median(runtime.times[n].cpu),
      vendor |-> Median(runtime.times[n].vendor)]]

CrossoverLabel(measurements) ==
  LET at == SelectInSeq(measurements, LAMBDA row : row.vendor < row.cpu) IN
  IF at # 0 THEN <<"n", measurements[at].dimension>>
  ELSE <<"not-observed-through-n", Last(measurements).dimension>>

AdapterMatches(target, name) ==
  IF target = Gfx1151
  THEN "Radeon" \in name /\ Has(name, {"STRIX_HALO", "Radeon 8060S", "AMD Radeon Graphics"})
  ELSE Model(target) \in name

\* A loader restricted to a directory without libraries finds none; the automatic
\* executor without a profile is the CPU.
Portability(target, name) ==
  /\ UsesCpuFallback(DefaultAuto) /\ DefaultAuto.decision = "absent"
  /\ AdapterMatches(target, name)

VendorArtifact(request, gpu, runtime) ==
  LET measurements == MeasureCrossover(runtime) IN
  [schema |-> "vendor", private |-> FALSE, source |-> request.source,
   harness |-> "vendor-v1", manifest |-> "vendor-v1",
   target |-> request.target, adapter |-> gpu.name, provider |-> VendorProvider(request.target),
   runtime |-> runtime.identity, driver |-> gpu.driver, evidence |-> Physical,
   power |-> gpu.power, thermal |-> gpu.thermal, dimension |-> DifferentialDimension,
   error |-> Differential(runtime), samples |-> SampleCount,
   crossover |-> CrossoverLabel(measurements), measurements |-> measurements,
   absentExplicit |-> "not-available", absentAuto |-> "cpu/absent", absentWgpu |-> "probe-green",
   cases |-> [i \in DOMAIN VendorCases |->
                [id |-> VendorCases[i].id, category |-> VendorCases[i].category,
                 hash |-> CaseHash(VendorCases[i]), passed |-> TRUE]]]

TargetProven(target, name, provider) ==
  /\ target \in DOMAIN Targets
  /\ IF target = Gfx1151 THEN Has(name, {"Radeon", "STRIX_HALO"}) ELSE Model(target) \in name
  /\ provider = VendorProvider(target)

VendorProven(artifact, source) ==
  /\ artifact.source = source
  /\ artifact.harness = "vendor-v1" /\ artifact.manifest = "vendor-v1"
  /\ artifact.evidence = Physical
  /\ artifact.dimension = DifferentialDimension /\ artifact.samples = SampleCount
  /\ artifact.error # NotANumber /\ artifact.error <= VendorErrorLimit
  /\ TargetProven(artifact.target, artifact.adapter, artifact.provider)
  /\ artifact.absentExplicit = "not-available" /\ artifact.absentAuto = "cpu/absent"
  /\ artifact.absentWgpu = "probe-green"
  /\ Each(artifact.measurements, LAMBDA row : row.dimension) = CrossoverDimensions
  /\ \A i \in DOMAIN artifact.measurements :
       artifact.measurements[i].cpu > 0 /\ artifact.measurements[i].vendor > 0
  /\ artifact.crossover = CrossoverLabel(artifact.measurements)
  /\ Each(artifact.cases, LAMBDA c : [id |-> c.id, category |-> c.category]) = VendorCases

ValidManifest(manifest) == manifest.cases = VendorCases /\ manifest.text = "vendor-v1"

VendorCapture(request, manifest, tools) ==
  LET gpu == PhysicalGpu(request.target, tools)
      runtime == RuntimeFor(request.target, tools)
      artifact == VendorArtifact(request, gpu, runtime)
  IN IF ~ValidManifest(manifest) \/ gpu = Refused \/ runtime = Refused THEN Refused
     ELSE IF ~runtime.answers THEN Refused
     ELSE IF Differential(runtime) > VendorErrorLimit \/ ~runtime.rejects
             \/ ~Portability(request.target, gpu.name) THEN Refused
     ELSE IF VendorProven(artifact, request.source) THEN artifact ELSE Refused

-----------------------------------------------------------------------------
(* Files.                                                                  *)

Fields(schema) == IF schema = "vendor" THEN 19 ELSE 11

CasesAt(artifact) == Fields(artifact.schema) + 2

\* The line of the schema, one a field, the line that opens the cases, one a case,
\* and two that close.
LinesOf(artifact) == CasesAt(artifact) + Len(artifact.cases) + 2

\* A text that breaks off inside a line does not end as an artifact must: it counts
\* as a file of no line.
FileOf(artifact, lines) == [kind |-> "artifact", content |-> artifact, lines |-> lines]

\* Artifact::parse, both schemas: every field must be there, the last line must be
\* one that ends in a closing bracket, and the cases are those that are there.
Parse(file) ==
  LET artifact == file.content
      present == Min({Len(artifact.cases), file.lines - CasesAt(artifact)})
      lineOf(id) == SelectInSeq(artifact.cases, LAMBDA c : c.id = id)
      failed == artifact.schema = "vendor" /\ \E i \in 1..present :
                  LET first == artifact.cases[lineOf(artifact.cases[i].id)] IN
                  ~first.passed \/ first.hash # CaseHash(artifact.cases[i])
  IN IF artifact.private \/ file.lines <= Fields(artifact.schema)
        \/ file.lines = CasesAt(artifact) \/ failed
     THEN Refused
     ELSE [artifact EXCEPT !.cases = SubSeq(artifact.cases, 1, present)]

VerifyFile(file, source) ==
  IF file.kind # "artifact" THEN Refused
  ELSE LET artifact == Parse(file) IN
       IF artifact = Refused THEN Refused
       ELSE IF (artifact.schema = "vendor" /\ VendorProven(artifact, source))
               \/ (artifact.schema = "portable" /\ PortableProven(artifact, source))
       THEN artifact ELSE Refused

\* capture, up to the write of the artifact it returns.
Capture(request, files, tools) ==
  IF request.target \notin DOMAIN Targets \/ request.manifest \notin DOMAIN files THEN Refused
  ELSE LET file == files[request.manifest] IN
       IF file.kind # "manifest" THEN Refused
       ELSE IF file.content.schema = "vendor"
       THEN VendorCapture(request, file.content, tools)
       ELSE PortableCapture(request, file.content, tools)
=============================================================================
