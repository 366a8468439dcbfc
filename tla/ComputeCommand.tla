--------------------------- MODULE ComputeCommand ---------------------------
(***************************************************************************)
(* `sim compute` in a host: the entrypoint parses its envelope, asks for the*)
(* capability of the command and answers it from the registry (discovery), *)
(* the profile store (routing) and the files and tools of the host         *)
(* (acceptance).  Between commands the host discovers its adapters, saves   *)
(* profiles and routes work.                                                *)
(***************************************************************************)
EXTENDS AutoRouting, WgpuDiscovery, CommandArgs, Acceptance

CONSTANTS Inputs,      \* argument lists
          Sessions,    \* where a session may start: [table, capabilities, host, files], the
                       \* table None for no store, the host its tools and the providers it loads
          MaxCommands  \* bound on the commands of a session, for model checking

\* Arguments are tokens, and the store a session finds is finite and proves nothing:
\* its records are of the first schema, or not well formed.  The files it finds are
\* manifests: the artifacts are those it captures.
ASSUME SessionAssumption ==
  /\ \A args \in Inputs : args \in Seq(STRING)
  /\ \A session \in Sessions : session.table # None =>
       /\ IsFiniteSet(DOMAIN session.table)
       /\ \A key \in DOMAIN session.table :
            WellFormed(session.table[key]) => ~VerifyPhysical(Rebuilt(session.table[key]))
  /\ \A session \in Sessions : \A path \in DOMAIN session.files :
       /\ session.files[path].kind = "manifest"
       /\ session.files[path].content.cases \in Seq([id : STRING, category : STRING])

\* No adapter is named as two targets are, and none as two models of one vendor.
ASSUME NamesAssumption ==
  \A session \in Sessions : \A target, other \in DOMAIN Targets :
    LET gpu == PhysicalGpu(target, session.host) IN
    (gpu # Refused /\ other # target) =>
      /\ ~Has(gpu.name, Targets[other])
      /\ {target, other} \subseteq Nvidia => Model(other) \notin gpu.name

VARIABLES capabilities, host, files, issued,
          answer   \* the last command and what it returned

hostVars == <<adapters, contexts, sites, store, written, auto, ledger>>
commandVars == <<capabilities, host, files, issued, answer>>
vars == <<hostVars, commandVars>>

Init ==
  /\ DiscoveryInit /\ AutoInit
  /\ \E session \in Sessions :
       /\ store = session.table
       /\ capabilities = session.capabilities
       /\ host = session.host
       /\ files = session.files
  /\ issued = 0
  /\ answer = [command |-> None, result |-> None]

-----------------------------------------------------------------------------
(* What a command may ask.                                                 *)

Requires(command) ==
  CASE command.verb \in {"devices", "probe", "recipe"} -> {"compute.device"}
    [] command.verb = "profile" ->
         IF command.request.action = "save" THEN {"compute.profile.write"}
         ELSE {"compute.profile.read"}
    [] command.verb = "explain" -> {"compute.device", "compute.profile.read"}
    [] command.verb = "acceptance" /\ command.request.action = "capture" -> {"compute.acceptance"}
    [] OTHER -> {}

Admitted(command) == command # Refused /\ Requires(command) \subseteq capabilities

-----------------------------------------------------------------------------
(* devices, probe.                                                         *)

FixedProviders == <<"model", "auto", "cuda", "rocm">>

FixedRow(selector) ==
  [selector |-> selector, site |-> "site/compute/" \o selector,
   installed |-> selector \in host.providers,
   status |-> IF selector \in host.providers THEN "installed"
              ELSE IF selector = "model" THEN "model/no-adapter" ELSE "no-adapter"]

WgpuSite(ordinal) == "site/compute/wgpu/" \o ToString(ordinal)

\* Mutated: the last ordinal is not looked at.
WgpuRowsButLast(limit) ==
  [n \in 1..Min({limit - 1, Len(sites)}) |->
     [selector |-> "wgpu", site |-> WgpuSite(n - 1), installed |-> TRUE,
      status |-> "probe-backed"]]

\* The ordinals looked at are those below the limit on rows.
WgpuRows(limit) ==
  [n \in 1..Min({limit, Len(sites)}) |->
     [selector |-> "wgpu", site |-> WgpuSite(n - 1), installed |-> TRUE,
      status |-> "probe-backed"]]

UnknownRow(selector) ==
  [selector |-> selector, site |-> selector, installed |-> FALSE, status |-> "unknown-selector"]

ProviderRows(selection) ==
  LET all == Each(FixedProviders, FixedRow) \o WgpuRows(selection.maxDevices)
      chosen == IF selection.selector = None THEN all
                ELSE FoldLeft(LAMBDA kept, row : IF selection.selector \in {row.selector, row.site}
                                                 THEN Append(kept, row) ELSE kept,
                              << >>, all)
      rows == IF chosen = << >> THEN << UnknownRow(selection.selector) >> ELSE chosen
  IN SubSeq(rows, 1, Min({Len(rows), selection.maxDevices}))

-----------------------------------------------------------------------------
(* profile, explain.                                                       *)

PolicyOf(request) == [key |-> 96, profile |-> request.maxProfileBytes]

\* Mutated: without a key always the adapter's.
ProfileKeyOfAdapter(request) ==
  IF request.key # None THEN request.key ELSE "compute-profile/" \o request.adapter

\* Without a key: the only one there is, the adapter's if there is none.
ProfileKey(request) ==
  LET keys == ListKeys(store, PolicyOf(request)) IN
  IF request.key # None THEN request.key
  ELSE IF keys = Refused THEN Refused
  ELSE IF keys = {} THEN "compute-profile/" \o request.adapter
  ELSE IF Cardinality(keys) = 1 THEN CHOOSE key \in keys : TRUE
  ELSE Refused

DefaultModeled ==
  [provider |-> "modeled-compute",
   limits |-> [resident |-> 8388608, binding |-> 1048576, depth |-> 8, queueBytes |-> 2097152,
               deadline |-> 8],
   tile |-> 262144, fault |-> None, autoFlush |-> FALSE]

RequestedIdentity(request) == Identity(request.adapter, request.driver, request.backend)

CommandProfile(request) ==
  Measure(RequestedIdentity(request), DefaultModeled, "sim-lib-compute-cli", request.now,
          DefaultBounds)

Evidence(status, keys, decision) == [status |-> status, keys |-> keys, decision |-> decision]

ListProfiles(request) ==
  LET keys == ListKeys(store, PolicyOf(request)) IN
  IF keys = Refused THEN Refused ELSE Evidence("profiles", keys, None)

ReadProfile(request) ==
  LET key == ProfileKey(request)
      p == IF key = Refused THEN Refused ELSE Load(store, PolicyOf(request), key)
  IN IF p = Refused THEN Refused
     ELSE IF p = None THEN Evidence("missing", {key}, None)
     ELSE Evidence("checked", {key}, Choose(RequestedIdentity(request), request.now, p))

-----------------------------------------------------------------------------
(* The commands.                                                           *)

Answer(command, result) ==
  /\ answer' = [command |-> command, result |-> result]
  /\ UNCHANGED <<capabilities, host, adapters, contexts, sites, auto, ledger>>

\* An envelope that is no table of strings, an argument or a capability is refused.
Reject(command) ==
  /\ ~Admitted(command)
  /\ Answer(command, Refused)
  /\ UNCHANGED <<store, written, files>>

AboutProfiles(command) == command.verb \in {"profile", "explain"}

\* The commands that only look.
Look(command) ==
  /\ Admitted(command)
  /\ \/ command.verb \in {"help", "recipe"} /\ Answer(command, command.verb)
     \/ command.verb \in {"devices", "probe"} /\ Answer(command, ProviderRows(command.request))
     \/ AboutProfiles(command) /\ store = None /\ Answer(command, Evidence("no-profile-store", {}, None))
     \/ /\ AboutProfiles(command) /\ store # None /\ command.request.action # "save"
        /\ Answer(command, IF command.request.action = "list" THEN ListProfiles(command.request)
                           ELSE ReadProfile(command.request))
     \/ /\ command.verb = "acceptance" /\ command.request.action # "capture"
        /\ LET input == command.request.input IN
           Answer(command, IF input \in DOMAIN files
                           THEN VerifyFile(files[input], command.request.source) ELSE Refused)
  /\ UNCHANGED <<store, written, files>>

\* profile save, and explain save.
SaveProfile(command) ==
  LET request == command.request
      key == ProfileKey(request)
      p == CommandProfile(request)
      saved == IF key = Refused THEN Refused ELSE Save(store, PolicyOf(request), key, p)
  IN /\ Admitted(command) /\ AboutProfiles(command) /\ store # None
     /\ request.action = "save"
     /\ IF saved = Refused
        THEN UNCHANGED <<store, written>> /\ Answer(command, Refused)
        ELSE /\ store' = saved
             /\ written' = Remember(key, p, "command")
             /\ Answer(command, Evidence("saved", {key}, None))
     /\ UNCHANGED files

\* The write of an artifact may fail before the file is touched, or after any
\* number of its lines; the command has then failed and the file is not removed.
CaptureArtifact(command) ==
  LET request == command.request
      artifact == Capture(request, files, host)
  IN /\ Admitted(command)
     /\ command.verb = "acceptance" /\ request.action = "capture"
     /\ \/ Answer(command, Refused) /\ UNCHANGED files
        \/ /\ artifact # Refused
           /\ \E lines \in 0..LinesOf(artifact) :
                /\ files' = Put(files, request.output, FileOf(artifact, lines))
                /\ Answer(command, IF lines = LinesOf(artifact) THEN artifact ELSE Refused)
     /\ UNCHANGED <<store, written>>

Commands == {ParseComputeArgs(args) : args \in Inputs} \cup {Refused}

\* The profiles that may come to be saved.
Savable ==
  HostProfiles \cup
  {CommandProfile(command.request) :
     command \in {c \in Commands : c # Refused /\ c.verb \in {"profile", "explain"}}}

\* An outcome is no profile.
ASSUME OutcomeAssumption ==
  \A p \in Savable : {p, Rebuilt(ToTable(p))} \cap {None, Refused} = {}

Command ==
  /\ issued < MaxCommands
  /\ issued' = issued + 1
  /\ \E command \in Commands :
       \/ Reject(command)
       \/ Look(command)
       \/ SaveProfile(command)
       \/ CaptureArtifact(command)

\* A host routes work, or discovers adapters, if it loads the library that does.
Next ==
  \/ Command
  \/ "auto" \in host.providers /\ HostNext /\ UNCHANGED <<adapters, contexts, sites, commandVars>>
  \/ "wgpu" \in host.providers /\ DiscoveryNext /\ UNCHANGED <<autoVars, commandVars>>

Spec == Init /\ [][Next]_vars
=============================================================================
