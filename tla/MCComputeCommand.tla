-------------------------- MODULE MCComputeCommand --------------------------
(***************************************************************************)
(* Sessions small enough for TLC: two adapters, two keys, one device the   *)
(* host expects, three hosts with a GPU of each vendor.                     *)
(***************************************************************************)
EXTENDS ComputeCommandProperties

Gpu == Identity("gpu", "drv", "wgpu")
Other == Identity("gpu", "old", "wgpu")

MCExpectations == {Gpu, None}
MCKeys == {"a"}
MCTicks == {0, 10005, 10006}
MCLegacy == {None, DefaultModeled}

\* What a platform capsule may have measured: on the device, on the same adapter with
\* another driver, with a fault, and before the samples were conclusive.
Observed ==
  [Measure(Gpu, DefaultModeled, "capsule", 5, DefaultBounds) EXCEPT !.kind = Physical]

MCHostProfiles ==
  {Observed, [Observed EXCEPT !.observed = Other], [Observed EXCEPT !.modeled.fault = "device-lost"],
   [Observed EXCEPT !.samples["matmul"] = <<0>>]}

FirstSchema ==
  LET t == ToTable(Observed) IN
  [field \in Required |-> IF field = "schema" THEN "v1" ELSE t[field]]

Halved == [field \in DOMAIN ToTable(Observed) \ {"observedDriver"} |-> ToTable(Observed)[field]]

Probe(device, key, transfer) ==
  [device |-> device, key |-> key, transfer |-> transfer, mapping |-> TRUE, allocated |-> TRUE]

MCReports ==
  {<< Probe("d0", 2, TRUE), Probe("d1", 1, TRUE) >>, << Probe("d0", 1, FALSE), Probe("d1", 1, TRUE) >>}

-----------------------------------------------------------------------------

MCDashed == {"--help", "--json", "--max-devices", "--key", "--adapter", "--driver", "--backend",
             "--now", "--max-profile-bytes", "--manifest", "--source", "--target", "--output",
             "--verbose"}

MCSelectors ==
  {"wgpu", "model", "site/compute/wgpu/1", "a", "b", "gpu", "old", "drv", "other", Recipe}

MCCapabilities == DOMAIN Targets
MCCommits == ("AAAA" :> "aaaa") @@ ("aaaa" :> "aaaa") @@ ("bbbb" :> "bbbb")
MCPaths == {"portable.sx", "vendor.sx", "out.sx"}
MCNumbers == ("0" :> 0) @@ ("1" :> 1) @@ ("2" :> 2) @@ ("5" :> 5) @@ ("10006" :> 10006)
             @@ ("100" :> 100) @@ ("65537" :> 65537)

ForGpu == <<"--adapter", "gpu", "--driver", "drv", "--backend", "wgpu">>

CaptureOf(manifest, target) ==
  <<"acceptance", "capture", "--manifest", manifest, "--source", "AAAA", "--target", target,
    "--output", "out.sx">>

MCInputs ==
  {<<"compute">>, <<"reset">>, <<"devices", "--help">>,
   <<"devices", "--max-devices", "1">>, <<"compute", "probe", "wgpu", "--max-devices", "1", "--json">>,
   <<"devices", "site/compute/wgpu/1", "--max-devices", "1">>,
   <<"devices", "site/compute/wgpu/1">>,
   <<"devices", "wgpu", "model">>, <<"probe", "--max-devices", "0">>, <<"devices", "--max-devices", "65537">>,
   <<"profile">>, <<"profile", "save">> \o ForGpu, <<"profile", "read", "save", "--key", "b", "--now", "5">>,
   <<"profile", "save", "--key">>, <<"profile", "save", "--key", "b", "--max-profile-bytes", "100">>,
   <<"profile", "--max-profile-bytes", "65537">>, <<"profile", "read", "--now", "5">> \o ForGpu,
   <<"explain", "--key", "a", "--now", "10006">> \o ForGpu, <<"explain", "save", "--key", "b">> \o ForGpu,
   <<"explain", "--now", "--key">>, <<"recipe">>, <<"recipe", "other", "--json">>, <<"recipe", "--verbose">>,
   <<"acceptance", "verify", "out.sx", "--source", "bbbb">>, <<"acceptance">>,
   <<"acceptance", "verify", "out.sx">>, <<"acceptance", "import", "out.sx", "--source", "aaaa">>}
  \cup {CaptureOf(manifest, target) : manifest \in {"portable.sx", "vendor.sx"}, target \in DOMAIN Targets}
  \cup {CaptureOf("portable.sx", Laptop5080) \o <<"out.sx">>}

-----------------------------------------------------------------------------

Runtime(identity, gfx) ==
  [identity |-> identity, gfx |-> gfx, answers |-> TRUE, errors |-> {0, 477, NotANumber}, rejects |-> TRUE,
   times |-> [n \in ToSet(CrossoverDimensions) |->
                [cpu |-> <<3 * n, n, 2 * n>>, vendor |-> <<200, 100, 150>>]]]

Row(name) ==
  [name |-> name, driver |-> "595.84", power |-> "20W", thermal |-> "40C", columns |-> 4, clean |-> TRUE]

NvidiaHost(names, cuda) ==
  [nvidia |-> [i \in DOMAIN names |-> Row(names[i])], vulkan |-> None, cuda |-> cuda, rocm |-> None,
   providers |-> {"cuda"}]

Cuda == Runtime("cuda-13020-cublas", {})
Laptop == {"RTX 5080", "NVIDIA GeForce RTX 5080", "NVIDIA GeForce RTX 5080 Laptop GPU"}
Desktop == {"RTX 5080", "NVIDIA GeForce RTX 5080"}

AmdHost ==
  [nvidia |-> None,
   vulkan |-> << <<"deviceName", {"llvmpipe"}>>, <<"driverName", "llvmpipe">>,
                 <<"deviceName", {"Radeon", "AMD Radeon Graphics", "STRIX_HALO", "RADV STRIX_HALO"}>>,
                 <<"driverName", "radv">> >>,
   cuda |-> None, rocm |-> Runtime("rocm-70-rocblas-gfx1151", {"gfx1151"}), providers |-> {"model"}]

BareHost(providers) == [NvidiaHost(<< >>, None) EXCEPT !.providers = providers]

Manifest(schema, cases, text) ==
  [kind |-> "manifest", content |-> [schema |-> schema, cases |-> cases, text |-> text]]

Manifests ==
  ("portable.sx" :> Manifest("portable", PortableCases, "portable-v1"))
  @@ ("vendor.sx" :> Manifest("vendor", VendorCases, "vendor-v1"))

Reader == {"compute.device", "compute.profile.read"}
Writer == Reader \cup {"compute.profile.write"}
Acceptor == {"compute.acceptance"}

Session(table, capabilities_, host_, files_) ==
  [table |-> table, capabilities |-> capabilities_, host |-> host_, files |-> files_]

MCSessions ==
  {Session(<< >>, Writer, BareHost({"auto"}), << >>),
   Session("a" :> FirstSchema, Writer, BareHost({"auto"}), << >>),
   Session("b" :> Halved, Reader, BareHost({"auto"}), << >>),
   Session(None, Writer, BareHost({"model", "wgpu"}), << >>),
   Session(None, Acceptor, AmdHost, Manifests),
   Session(None, Acceptor, NvidiaHost(<<Laptop>>, Cuda), Manifests),
   Session(None, Acceptor, NvidiaHost(<<Laptop>>, [Cuda EXCEPT !.rejects = FALSE]), Manifests),
   Session(None, Acceptor, NvidiaHost(<<{"RTX 4090"}, {"RTX 5090", "NVIDIA GeForce RTX 5090"}>>, Cuda),
           Manifests)}

DesktopSession == {Session(None, Acceptor, NvidiaHost(<<Desktop>>, Cuda), Manifests)}
=============================================================================
