----------------------------- MODULE DeviceChain -----------------------------
(***************************************************************************)
(* From the configuration to the ordered device chain a detection works    *)
(* through: the GPUs of a host (platform/amd_detect.go), a typed selector  *)
(* resolved against them (platform/gpu_request.go), the chain of a         *)
(* configuration (device_chain_default.go) and the detection options built *)
(* from it (service_accel.go).                                             *)
(*                                                                         *)
(* A device is [node, vendor, name, integrated, class], its name a set of  *)
(* words and "" no render node.  env is [os, wsl, nvidia, intel, amd,      *)
(* devices, pci, pi], pci the adapters lspci names, as [name, vendor].  A  *)
(* selector is [kind, node, match], match a set of words.                  *)
(***************************************************************************)
EXTENDS EncoderChoice

-----------------------------------------------------------------------------
(* The elements of a list at some of its indices, in order.                 *)
Sublist(list, indices) ==
  LET taken[n \in 0..Len(list)] ==
        IF n = 0 THEN <<>>
        ELSE IF n \in indices THEN Append(taken[n - 1], list[n]) ELSE taken[n - 1]
  IN  taken[Len(list)]

(* The GPUs of a host.                                                      *)

NameMatches(haystack, needle) == needle # {} /\ haystack # {} /\ needle \subseteq haystack

(* The path of a render node as words: its own and those all nodes share.   *)
NodeWords(node) == IF node = "" THEN {} ELSE {node, "dri"}

StableID(d) == IF d.node # "" THEN <<"drm", d.node>> ELSE <<"name", d.name>>

(* The first device of each id is kept.                                     *)
MergeGPULists(primary, extra) ==
  LET all == primary \o extra
  IN  Sublist(all, {i \in DOMAIN all : \A j \in 1..(i - 1) : StableID(all[j]) # StableID(all[i])})

DeviceClassFor(d, pi) ==
  IF d.class # "" THEN d.class
  ELSE IF d.integrated THEN "igpu"
  ELSE IF d.vendor \in {"nvidia", "amd"} \/ pi = "" THEN "dgpu" ELSE "soc"

SyntheticNVIDIAGPU ==
  [node |-> "", vendor |-> "nvidia", name |-> {"nvidia", "gpu"}, integrated |-> FALSE, class |-> ""]

(* drm are the render nodes of the host, adapters what the Windows or macOS *)
(* enumeration reports.                                                     *)
ListGPUDevices(os, wsl, pi, nvidia, drm, adapters) ==
  LET nodes  == IF os = "linux" THEN drm ELSE <<>>
      listed == IF os # "linux" \/ wsl THEN MergeGPULists(nodes, adapters) ELSE nodes
      all    == IF nvidia /\ \A i \in DOMAIN listed : listed[i].vendor # "nvidia"
                  THEN MergeGPULists(listed, <<SyntheticNVIDIAGPU>>) ELSE listed
  IN  [i \in DOMAIN all |-> [all[i] EXCEPT !.class = DeviceClassFor(all[i], pi)]]

IntegratedGPUs(devices)       == {i \in DOMAIN devices : devices[i].integrated}
DiscreteGPUs(devices)         == DOMAIN devices \ IntegratedGPUs(devices)
VendorGPUs(devices, vendor)   == {i \in DOMAIN devices : devices[i].vendor = vendor}
OrElse(preferred, others)     == IF preferred = {} THEN others ELSE preferred
PickFirst(devices, own, best) ==
  IF own = {} THEN <<>> ELSE <<devices[Min(OrElse(own \cap best, own))]>>

(* On a hybrid host the render node of the first integrated GPU is tried.   *)
DefaultRenderNodeForGPUs(devices) ==
  IF devices = <<>> THEN ""
  ELSE IF IntegratedGPUs(devices) = {} \/ DiscreteGPUs(devices) = {} THEN devices[1].node
  ELSE devices[Min(IntegratedGPUs(devices))].node

PickNVIDIAGPUDevice(devices) ==
  PickFirst(devices, VendorGPUs(devices, "nvidia"), DiscreteGPUs(devices))

PickIntelIGPUDevice(devices) ==
  PickFirst(devices, VendorGPUs(devices, "intel"), IntegratedGPUs(devices))

(* AMD prefers the last discrete one.                                       *)
PickAMDGPUDevice(devices) ==
  LET own == VendorGPUs(devices, "amd")
  IN  IF own = {} THEN <<>> ELSE <<devices[Max(OrElse(own \cap DiscreteGPUs(devices), own))]>>

(* The driver facts: vaDrivers are the VA drivers installed, in glob order, *)
(* bound those whose kernel driver is bound, dxg the paravirtual GPU of WSL. *)
FirstVADriver(installed, names) ==
  LET found == SelectSeq(names, LAMBDA n : n \in Range(installed))
  IN  IF found = <<>> THEN "" ELSE Head(found)

VaapiVendorDriver(installed, intel, amd) ==
  LET i == IF intel THEN FirstVADriver(installed, <<"iHD", "i965", "intel">>) ELSE ""
      a == IF amd THEN FirstVADriver(installed, <<"radeonsi", "r600">>) ELSE ""
  IN  [driver |-> IF i # "" THEN i ELSE a, blocked |-> i = "" /\ a = "" /\ (intel \/ amd)]

VaapiAvailable(f) ==
  LET vendor == VaapiVendorDriver(f.vaDrivers, f.intel, f.amd)
      usable == SelectSeq(f.vaDrivers, LAMBDA d :
                  CASE d \in {"nouveau", "virtio_gpu"} -> d \in f.bound
                    [] d = "d3d12" -> f.wsl /\ f.dxg
                    [] OTHER -> f.dri)
  IN  IF f.vaDrivers = <<>> \/ (f.wsl /\ ~f.dri) THEN ""
      ELSE IF vendor.driver # "" THEN vendor.driver
      ELSE IF vendor.blocked \/ usable = <<>> THEN "" ELSE Head(usable)

QsvAvailable(f) == (f.wsl \/ f.os \in {"linux", "windows"}) /\ f.intel

VulkanStackAvailable(f) ==
  /\ f.os # "darwin" /\ f.pi # "legacy"
  /\ f.libvulkan
  /\ f.os = "windows" \/ f.dri \/ f.dxg

-----------------------------------------------------------------------------
(* One selector resolved on a host.                                         *)

Refused == [enabled |-> FALSE, auto |-> FALSE, software |-> FALSE, fallback |-> FALSE,
            vendor |-> "error", id |-> <<>>, node |-> "", name |-> {}, integrated |-> FALSE]

AutoChoice == [Refused EXCEPT !.auto = TRUE, !.vendor = ""]

SoftwareDeviceChoice == [Refused EXCEPT !.software = TRUE, !.vendor = "", !.name = {"cpu"}]

Plain(vendor, name) == [Refused EXCEPT !.enabled = TRUE, !.vendor = vendor, !.name = name]

GPUChoiceFromDevice(d) ==
  [Refused EXCEPT !.enabled = TRUE, !.vendor = d.vendor, !.id = StableID(d), !.node = d.node,
                  !.name = d.name, !.integrated = d.integrated]

UnavailableGPU(strict) == IF strict THEN Refused ELSE [AutoChoice EXCEPT !.fallback = TRUE]

(* A choice is completed from the device of its id, with its node, or of its *)
(* name and vendor.                                                         *)
FillGPUChoiceDevice(choice, devices) ==
  LET byId   == {i \in DOMAIN devices : StableID(devices[i]) = choice.id}
      byNode == {i \in DOMAIN devices : choice.node # "" /\ devices[i].node = choice.node}
      byName == {i \in DOMAIN devices : /\ NameMatches(devices[i].name, choice.name)
                                        /\ choice.vendor \in {"", devices[i].vendor}}
      found  == OrElse(byId, OrElse(byNode, byName))
      device == devices[Min(found)]
  IN  IF ~choice.enabled \/ found = {} THEN choice
      ELSE [GPUChoiceFromDevice(device) EXCEPT
              !.auto = choice.auto,
              !.node = IF device.node = "" THEN choice.node ELSE device.node]

ShouldPreferWSLNVIDIAAuto(env) ==
  /\ env.os = "linux" /\ env.wsl /\ env.nvidia
  /\ \A i \in DOMAIN env.devices : env.devices[i].vendor # "nvidia"

WslNVIDIA == Plain("nvidia", SyntheticNVIDIAGPU.name)

FirstDevice(devices, found, otherwise) ==
  IF found = {} THEN otherwise ELSE GPUChoiceFromDevice(devices[Min(found)])

ResolveIntegrated(env, strict) ==
  CASE env.os = "darwin" -> Plain("apple", {"apple", "videotoolbox"})
    [] env.os = "windows" /\ env.intel -> Plain("intel", {"intel", "gpu"})
    [] env.os = "windows" /\ ~env.intel /\ env.amd -> Plain("amd", {"amd", "integrated", "gpu"})
    [] env.os = "linux" -> FirstDevice(env.devices, IntegratedGPUs(env.devices),
                                       UnavailableGPU(strict))
    [] OTHER -> UnavailableGPU(strict)

ResolveDiscrete(env, strict) ==
  CASE env.os = "windows" /\ env.nvidia -> Plain("nvidia", {"nvidia", "gpu"})
    [] env.os = "windows" /\ ~env.nvidia /\ env.amd -> Plain("amd", {"amd", "discrete", "gpu"})
    [] env.os = "linux" -> FirstDevice(env.devices, DiscreteGPUs(env.devices),
                             IF env.wsl /\ env.nvidia THEN WslNVIDIA ELSE UnavailableGPU(strict))
    [] OTHER -> UnavailableGPU(strict)

(* A node that is no listed device is taken as it is; one that cannot be    *)
(* opened is an error even when not strict.                                 *)
ResolveRenderNode(node, env) ==
  IF node \notin env.nodes THEN Refused
  ELSE FirstDevice(env.devices, {i \in DOMAIN env.devices : env.devices[i].node = node},
                   [Plain("unknown", {node}) EXCEPT !.node = node])

(* A name may be part of a render node's path; the adapter names lspci      *)
(* reports give at least the vendor.                                        *)
IsNamed(device, match) ==
  NameMatches(device.name, match) \/ NameMatches(NodeWords(device.node), match)

ResolveNameDevice(match, env, strict) ==
  LET named    == {i \in DOMAIN env.devices : IsNamed(env.devices[i], match)}
      adapters == {i \in DOMAIN env.pci : NameMatches(env.pci[i].name, match)}
      adapter  == env.pci[Min(adapters)]
      meant    == {i \in DOMAIN env.devices : \/ env.devices[i].vendor = adapter.vendor
                                              \/ NameMatches(env.devices[i].name, adapter.name)}
  IN  IF named # {} THEN FirstDevice(env.devices, named, Refused)
      ELSE IF adapters # {} THEN
        FirstDevice(env.devices, meant, Plain(adapter.vendor, adapter.name))
      ELSE IF env.nvidia /\ NameMatches({"nvidia"}, match) THEN Plain("nvidia", match)
      ELSE UnavailableGPU(strict)

ResolveGPURequest(sel, env, strict) ==
  CASE sel.kind = "auto" /\ ShouldPreferWSLNVIDIAAuto(env) -> [WslNVIDIA EXCEPT !.auto = TRUE]
    [] sel.kind = "auto" /\ ~ShouldPreferWSLNVIDIAAuto(env) -> AutoChoice
    [] sel.kind = "software" -> SoftwareDeviceChoice
    [] sel.kind = "integrated" -> ResolveIntegrated(env, strict)
    [] sel.kind = "discrete" -> ResolveDiscrete(env, strict)
    [] sel.kind = "device" -> IF sel.node # "" THEN ResolveRenderNode(sel.node, env)
                              ELSE ResolveNameDevice(sel.match, env, strict)

ResolveGPUSelectorWithEnv(sel, env, strict) ==
  FillGPUChoiceDevice(ResolveGPURequest(sel, env, strict), env.devices)

-----------------------------------------------------------------------------
(* The chain of a configuration.  cfg is [primary, fallbacks, selector, gpu, *)
(* preference, performance, allow, dsAllow, hierarchy, vulkan, skipHW,       *)
(* strict]; allow and dsAllow are "unset", TRUE or FALSE as strings.         *)

NoSelector == [kind |-> "auto", node |-> "", match |-> {}]

(* The deprecated string: a keyword, a device path or a name.               *)
ParseGPUSelector(spec) ==
  CASE spec \in {"", "auto"} -> NoSelector
    [] spec \in {"igpu", "integrated"} -> [NoSelector EXCEPT !.kind = "integrated"]
    [] spec \in {"dgpu", "discrete"} -> [NoSelector EXCEPT !.kind = "discrete"]
    [] spec \in {"software", "cpu", "none"} -> [NoSelector EXCEPT !.kind = "software"]
    [] spec = "/dev/a" -> [NoSelector EXCEPT !.kind = "device", !.node = spec]
    [] OTHER -> [NoSelector EXCEPT !.kind = "device", !.match = {spec}]

EffectiveGPUSelector(cfg) == IF cfg.selector # NoSelector THEN cfg.selector ELSE ParseGPUSelector(cfg.gpu)

EffectiveDiscrete(cfg) == cfg.preference = "discrete" \/ cfg.performance

EffectiveAllowSoftware(cfg) ==
  CASE cfg.dsAllow # "unset" -> cfg.dsAllow = "true"
    [] cfg.dsAllow = "unset" /\ cfg.allow # "unset" -> cfg.allow = "true"
    [] OTHER -> TRUE

DeviceSelectionExplicit(cfg) == cfg.fallbacks # <<>> \/ cfg.primary.kind # "auto"

ResolveSelectorChainEnv(cfg, env) ==
  LET specs == (IF cfg.primary = NoSelector THEN <<>> ELSE <<cfg.primary>>) \o cfg.fallbacks
  IN  [i \in DOMAIN specs |-> ResolveGPUSelectorWithEnv(specs[i], env, cfg.strict)]

(* A Pi without a SoC device is given one.                                  *)
AppendPiSOCDevice(devices, pi) ==
  IF pi = "" \/ \E i \in DOMAIN devices : devices[i].class = "soc" THEN devices
  ELSE Append(devices, [node |-> "", vendor |-> "soc", name |-> {"pi", pi},
                        integrated |-> TRUE, class |-> "soc"])

SocGPUs(devices) == {i \in DOMAIN devices : devices[i].class = "soc"}

(* Mutant: a discrete GPU of Intel belongs to neither class.                *)
OrderGPUDevices_LosesArc(devices, discreteFirst) ==
  LET soc  == Sublist(devices, SocGPUs(devices))
      igpu == Sublist(devices, IntegratedGPUs(devices) \ SocGPUs(devices))
      dgpu == Sublist(devices, DiscreteGPUs(devices)
                                 \ (SocGPUs(devices) \cup VendorGPUs(devices, "intel")))
  IN  IF discreteFirst THEN dgpu \o soc \o igpu ELSE soc \o igpu \o dgpu

OrderGPUDevices(devices, discreteFirst) ==
  LET own  == IntegratedGPUs(devices)
                \cup {i \in VendorGPUs(devices, "intel") : devices[i].class = "igpu"}
      soc  == Sublist(devices, SocGPUs(devices))
      igpu == Sublist(devices, own \ SocGPUs(devices))
      dgpu == Sublist(devices, DOMAIN devices \ (own \cup SocGPUs(devices)))
  IN  IF discreteFirst THEN dgpu \o soc \o igpu ELSE soc \o igpu \o dgpu

BuildDefaultDeviceChain(env, discreteFirst, allow) ==
  LET ordered == OrderGPUDevices(AppendPiSOCDevice(env.devices, env.pi), discreteFirst)
      chain   == [i \in DOMAIN ordered |->
                    FillGPUChoiceDevice(GPUChoiceFromDevice(ordered[i]),
                                        AppendPiSOCDevice(env.devices, env.pi))]
  IN  (IF chain = <<>> THEN <<AutoChoice>> ELSE chain)
        \o (IF allow THEN <<SoftwareDeviceChoice>> ELSE <<>>)

(* <<Refused>> stands for the error.                                        *)
ResolveConfigDeviceChain(cfg, env) ==
  LET allow    == EffectiveAllowSoftware(cfg)
      software == IF allow THEN <<SoftwareDeviceChoice>> ELSE <<>>
      listed   == ResolveSelectorChainEnv(cfg, env)
      single   == ResolveGPUSelectorWithEnv(EffectiveGPUSelector(cfg), env, cfg.strict)
  IN  IF DeviceSelectionExplicit(cfg) THEN
        IF Refused \in Range(listed) THEN <<Refused>> ELSE listed \o software
      ELSE IF EffectiveGPUSelector(cfg) # NoSelector THEN
        IF single = Refused THEN <<Refused>>
        ELSE <<single>> \o (IF single.software THEN <<>> ELSE software)
      ELSE BuildDefaultDeviceChain(env, EffectiveDiscrete(cfg), allow)

(* Only the service-wide switch reaches the detection.                      *)
BuildDetectOptions(cfg, env) ==
  LET chain == ResolveConfigDeviceChain(cfg, env)
  IN  [hierarchy   |-> IF Head(chain).software /\ cfg.hierarchy = <<>> THEN <<"none">> ELSE cfg.hierarchy,
       performance |-> cfg.performance,
       chain       |-> chain,
       allow       |-> cfg.allow # "false",
       vulkan      |-> cfg.vulkan,
       skipHW      |-> cfg.skipHW]

(* The facts of the host the detection gates backends on.                   *)
HostOf(env, f, compiled, works) ==
  [os |-> env.os, wsl |-> env.wsl, nvidia |-> env.nvidia, intel |-> env.intel, amd |-> env.amd,
   dri |-> f.dri, vaapi |-> VaapiAvailable(f) # "", qsv |-> QsvAvailable(f) /\ f.qsvRuntime,
   vulkan |-> VulkanStackAvailable(f), v4l2 |-> f.v4l2, pi |-> env.pi,
   compiled |-> compiled, works |-> works]

-----------------------------------------------------------------------------
(* Properties.                                                              *)

(* The default chain holds every GPU of the host exactly once, the         *)
(* preferred class first, and software at the end exactly when it is       *)
(* allowed (device_chain_default.go:73).                                   *)
DefaultChainIsComplete(env, discreteFirst, allow) ==
  LET chain    == BuildDefaultDeviceChain(env, discreteFirst, allow)
      known    == AppendPiSOCDevice(env.devices, env.pi)
      hardware == {i \in DOMAIN chain : ~chain[i].software}
      Id(c)    == StableID([node |-> c.node, name |-> c.name])
  IN  /\ hardware = 1..(IF known = <<>> THEN 1 ELSE Len(known))
      /\ Len(chain) = Cardinality(hardware) + (IF allow THEN 1 ELSE 0)
      /\ allow => Last(chain) = SoftwareDeviceChoice
      /\ known = <<>> => chain[1] = AutoChoice
      /\ \A i \in DOMAIN known : \E j \in hardware : Id(chain[j]) = StableID(known[i])
      /\ env.pi = "" => \A i, j \in hardware :
           i < j /\ chain[j].integrated # chain[i].integrated => chain[j].integrated = discreteFirst

(* A resolved selector is what was asked for: an integrated or discrete    *)
(* GPU, the render node, a GPU with that in its name or in the path of its *)
(* node, or one of the vendor of an adapter of that name.  Anything else is *)
(* marked as a fallback, and under strict it is refused                    *)
(* (gpu_selector.go:33-41, gpu_env.go:50-73).                              *)
SelectorHonoured(sel, env, strict) ==
  LET choice == ResolveGPUSelectorWithEnv(sel, env, strict)
  IN  \/ choice = Refused
      \/ choice.fallback /\ choice.auto /\ ~strict
      \/ /\ ~choice.fallback
         /\ sel.kind = "software" <=> choice.software
         /\ sel.kind = "integrated" => choice.enabled /\ (choice.integrated \/ env.os # "linux")
         /\ sel.kind = "discrete" => choice.enabled /\ ~choice.integrated
         /\ sel.kind = "device" /\ sel.node # "" => choice.node = sel.node
         /\ sel.kind = "device" /\ sel.node = "" =>
              \/ IsNamed(choice, sel.match)
              \/ \E i \in DOMAIN env.pci : /\ NameMatches(env.pci[i].name, sel.match)
                                           /\ env.pci[i].vendor = choice.vendor

(* A name that fits a listed device, by its name or its node, is answered   *)
(* with such a device: it is not refused, it does not fall back, and no     *)
(* adapter that lspci lists under that name comes first (gpu_env.go:50-73). *)
ListedNameIsFound(sel, env, strict) ==
  LET choice == ResolveGPUSelectorWithEnv(sel, env, strict)
      named  == {d \in Range(env.devices) : IsNamed(d, sel.match)}
  IN  sel.kind = "device" /\ sel.node = "" /\ named # {} =>
        choice.enabled /\ ~choice.fallback /\ \E d \in named : choice.id = StableID(d)

(* The device a smoke test is run on is one of its vendor, of the preferred *)
(* kind if there is one, and VAAPI without a choice gets a listed node.     *)
PicksAreOfTheHost(env) ==
  LET Of(vendor, integrated) ==
        {d \in Range(env.devices) : d.vendor = vendor /\ d.integrated = integrated}
      Picked(pick, best, other) ==
        IF best # {} THEN pick # <<>> /\ Head(pick) \in best
        ELSE IF other # {} THEN pick # <<>> /\ Head(pick) \in other ELSE pick = <<>>
  IN  /\ Picked(PickNVIDIAGPUDevice(env.devices), Of("nvidia", FALSE), Of("nvidia", TRUE))
      /\ Picked(PickAMDGPUDevice(env.devices), Of("amd", FALSE), Of("amd", TRUE))
      /\ Picked(PickIntelIGPUDevice(env.devices), Of("intel", TRUE), Of("intel", FALSE))
      /\ DefaultRenderNodeForGPUs(env.devices) \in {""} \cup {d.node : d \in Range(env.devices)}

(* A configuration that turns the software fallback off and asks for       *)
(* software nowhere never gets it for an automatic request: not through    *)
(* the chain, a selector that found nothing, or the fallback of the        *)
(* encoder chosen (service_accel.go, device_chain_default.go).             *)
SoftwareStaysOff(cfg, env, caps, profile) ==
  LET answer == ResolveEncoder(caps, profile)
  IN  /\ cfg.allow = "false" /\ cfg.dsAllow = "unset"
      /\ \A sel \in {cfg.primary, EffectiveGPUSelector(cfg)} \cup Range(cfg.fallbacks) :
           sel.kind # "software"
      /\ profile.codec = "h264" => PiDefaultH264(env.pi) = None
      /\ profile.encoder = None /\ ~profile.software /\ profile.accel = ""
      /\ answer # Unavailable
      => IsHardware(answer.encoder) /\ answer.fallback = None

(* DeviceSelection.AllowSoftware overrides the service-wide switch          *)
(* (gpu_device_selection.go:14): when it turns software off, an automatic   *)
(* request is not answered with software.                                   *)
AllowSoftwareOverrides(cfg, env, f, works, profile) ==
  LET caps == Detect(HostOf(env, f, works, works), BuildDetectOptions(cfg, env))
  IN  /\ ResolveConfigDeviceChain(cfg, env) # <<Refused>>
      /\ cfg.dsAllow = "false"
      /\ \A c \in Range(ResolveConfigDeviceChain(cfg, env)) : ~c.software
      /\ ~caps.error /\ env.pi = ""
      /\ profile.encoder = None /\ ~profile.software /\ profile.accel = ""
      => ResolveEncoder(caps, profile).accel # "none"
=============================================================================
