---------------------------- MODULE EncoderChoice ----------------------------
(***************************************************************************)
(* Which encoder a job runs: what detection finds on a host                *)
(* (capabilities/detect.go), the matrix of preferred encoders rewritten by *)
(* the Pi profile and by the device chain (capabilities/device_selection), *)
(* and the resolver that answers each job from it (encode/resolve.go).     *)
(*                                                                         *)
(* An encoder or decoder name is <<codec, kind>>, a software one           *)
(* <<codec, library>>; None stands for no name.  A host is                 *)
(* [os, wsl, nvidia, intel, amd, dri, vaapi, qsv, vulkan, v4l2, pi,        *)
(* compiled, works]; a device of a chain is [software, vendor].            *)
(***************************************************************************)
EXTENDS Integers, Sequences, SequencesExt, FiniteSets

None == <<>>

Codecs == {"h264", "hevc", "av1", "vp9"}

-----------------------------------------------------------------------------
(* The catalogue.                                                          *)

AllEncoderAccelTypes ==
  {"nvenc", "vaapi", "qsv", "amf", "d3d12", "videotoolbox", "v4l2m2m", "vulkan"}

(* D3D12 on WSL is driven through the vaapi encoders.                      *)
KindOf(accel) == IF accel = "d3d12" THEN "vaapi" ELSE accel

EncoderKinds(codec) ==
  {"nvenc", "amf", "qsv", "vaapi"}
    \cup (IF codec # "vp9" THEN {"vulkan"} ELSE {})
    \cup (IF codec \in {"h264", "hevc"} THEN {"videotoolbox", "v4l2m2m"} ELSE {})

CodecEncoderMap(codec, accel) ==
  IF codec \in Codecs /\ KindOf(accel) \in EncoderKinds(codec)
    THEN <<codec, KindOf(accel)>> ELSE None

SoftwareFallback(codec) ==
  CASE codec = "h264" -> << <<"h264", "libx264">> >>
    [] codec = "av1"  -> << <<"av1", "libsvtav1">>, <<"av1", "librav1e">>, <<"av1", "libaom-av1">> >>
    [] codec = "vp9"  -> << <<"vp9", "libvpx-vp9">> >>
    [] codec = "hevc" -> << <<"hevc", "libx265">>, <<"hevc", "libvvenc">> >>
    [] OTHER -> <<>>

IsHardware(name) == name # None /\ name[2] \in {KindOf(a) : a \in AllEncoderAccelTypes}

EncoderMatchesCodec(name, codec) ==
  \/ \E i \in DOMAIN SoftwareFallback(codec) : SoftwareFallback(codec)[i] = name
  \/ \E accel \in AllEncoderAccelTypes : CodecEncoderMap(codec, accel) = name

EncoderAccel(name) == IF IsHardware(name) THEN name[2] ELSE "none"

(* cuvid and qsv have decoders of their own, the others decode through a   *)
(* -hwaccel of the software decoder; amf and v4l2m2m have neither.          *)
CodecDecoderMap(codec, accel) ==
  IF accel \in {"nvenc", "qsv"} THEN <<codec, accel>> ELSE None

CodecHWAccelDecodeKey(codec, accel) ==
  IF KindOf(accel) \in {"vaapi", "videotoolbox", "vulkan"}
    THEN <<codec, KindOf(accel)>> ELSE None

DecoderFor(codec, accel) ==
  IF CodecDecoderMap(codec, accel) # None
    THEN CodecDecoderMap(codec, accel) ELSE CodecHWAccelDecodeKey(codec, accel)

SoftwareDecoder(codec) == <<codec, "software">>

DecoderMatchesCodec(name, codec) ==
  name = SoftwareDecoder(codec) \/ \E a \in AllEncoderAccelTypes : DecoderFor(codec, a) = name

DecoderAccel(name) == IF IsHardware(name) THEN name[2] ELSE "none"

-----------------------------------------------------------------------------
(* The order in which backends are tried.                                   *)

HierarchyForPlatform(host) ==
  LET Ordinary(os) == host.pi = "" /\ host.os = os
  IN  CASE host.pi = "pi4"    -> <<"v4l2m2m", "nvenc", "vaapi", "qsv", "amf">>
        [] host.pi = "pi5"    -> <<"v4l2m2m", "none">>
        [] host.pi = "legacy" -> <<"none">>
        [] Ordinary("darwin")  -> <<"videotoolbox">>
        [] Ordinary("windows") -> <<"qsv", "nvenc", "amf">>
        [] Ordinary("linux") /\ ~host.wsl -> <<"vaapi", "qsv", "nvenc", "amf">>
        [] Ordinary("linux") /\ host.wsl ->
             IF host.nvidia /\ ~host.dri THEN <<"nvenc", "d3d12", "vaapi", "qsv">>
             ELSE <<"vaapi", "qsv", "d3d12", "nvenc">>

HierarchyForPerformance(host) ==
  CASE host.os = "darwin"  -> HierarchyForPlatform(host)
    [] host.os = "windows" -> <<"nvenc", "qsv", "amf">>
    [] host.os = "linux"   -> IF host.wsl THEN <<"nvenc", "d3d12", "vaapi", "qsv">>
                              ELSE <<"nvenc", "vaapi", "qsv", "amf">>

HierarchyForGPU(vendor, host) ==
  CASE vendor = "nvidia" -> <<"nvenc">>
    [] vendor = "intel"  -> IF host.os = "windows" THEN <<"qsv">>
                            ELSE IF host.wsl THEN <<"vaapi", "qsv", "d3d12">>
                            ELSE <<"vaapi", "qsv">>
    [] vendor = "amd"    -> IF host.os = "windows" THEN <<"amf">> ELSE <<"amf", "vaapi">>
    [] vendor = "apple"  -> <<"videotoolbox">>
    [] vendor = "soc"    -> <<"v4l2m2m">>
    [] OTHER             -> <<>>

ResolveEncoderHierarchy(explicit, performance, gpu, host) ==
  CASE explicit # <<>> -> explicit
    [] explicit = <<>> /\ gpu.enabled /\ HierarchyForGPU(gpu.vendor, host) # <<>> ->
         HierarchyForGPU(gpu.vendor, host)
    [] OTHER -> IF performance THEN HierarchyForPerformance(host) ELSE HierarchyForPlatform(host)

MergeVulkanHierarchy(hierarchy, explicit, fallback) ==
  IF explicit = <<>> /\ fallback /\ "vulkan" \notin Range(hierarchy)
    THEN Append(hierarchy, "vulkan") ELSE hierarchy

-----------------------------------------------------------------------------
(* Detection: a hardware encoder is available when it is compiled in, the  *)
(* platform does not rule its kind out and its smoke test passed; skipping *)
(* the tests leaves software only.                                         *)

PlatformGate(kind, host) ==
  CASE kind = "nvenc"   -> host.nvidia
    [] kind = "amf"     -> host.amd /\ host.os = "windows"
    [] kind = "v4l2m2m" -> host.v4l2 \/ host.pi = "pi4"
    [] kind = "qsv"     -> host.intel /\ (host.os = "windows" \/ (host.qsv /\ host.vaapi))
    [] kind = "vaapi"   -> host.vaapi
    [] kind = "vulkan"  -> host.vulkan /\ host.os # "darwin" /\ host.pi # "legacy"
    [] OTHER -> TRUE

PopulateEncoders(host, skipHW) ==
  {e \in host.compiled :
     IsHardware(e) => ~skipHW /\ PlatformGate(e[2], host) /\ e \in host.works}

-----------------------------------------------------------------------------
(* The matrix.  A selection is [encoder, accel, fallback].                  *)

NoSelection == [encoder |-> None, accel |-> "none", fallback |-> None]

(* The first element of a list that is accepted.                            *)
FirstAccepted(list, accepted, otherwise) ==
  LET hits == {i \in DOMAIN list : list[i] \in accepted}
  IN  IF hits = {} THEN otherwise ELSE list[Min(hits)]

FirstSoftware(available, codec) == FirstAccepted(SoftwareFallback(codec), available, None)

SoftwareSelection(available, codec) ==
  LET sw == FirstSoftware(available, codec)
  IN  [encoder |-> sw, accel |-> "none", fallback |-> sw]

(* The first backend of an order whose encoder for the codec is available. *)
FirstBackend(codec, hierarchy, available) ==
  FirstAccepted(hierarchy, {a \in AllEncoderAccelTypes : CodecEncoderMap(codec, a) \in available}, "none")

Hardware(codec, accel, fallback) ==
  [encoder |-> CodecEncoderMap(codec, accel), accel |-> accel, fallback |-> fallback]

ResolvePreferredEncode(available, codec, hierarchy) ==
  LET accel == FirstBackend(codec, hierarchy, available)
  IN  IF accel = "none" THEN SoftwareSelection(available, codec)
      ELSE Hardware(codec, accel, FirstSoftware(available, codec))

ResolvePreferredDecode(available, codec, hierarchy) ==
  LET decodes == {a \in AllEncoderAccelTypes : DecoderFor(codec, a) \in available}
      accel == FirstAccepted(hierarchy, decodes, "none")
      sw == IF SoftwareDecoder(codec) \in available THEN SoftwareDecoder(codec) ELSE None
  IN  [decoder |-> IF accel = "none" THEN sw ELSE DecoderFor(codec, accel), accel |-> accel]

BuildCodecMatrix(available, hierarchy) ==
  [codec \in Codecs |-> ResolvePreferredEncode(available, codec, hierarchy)]

(* On a Raspberry Pi the profile pins H.264.                                *)
PiDefaultH264(pi) ==
  CASE pi = "pi4" -> <<"h264", "v4l2m2m">>
    [] pi \in {"pi5", "legacy"} -> <<"h264", "libx264">>
    [] OTHER -> None

ApplyPiPlatformProfile(available, matrix, pi) ==
  LET sw   == FirstSoftware(available, "h264")
      want == PiDefaultH264(pi)
      enc  == IF want \in available THEN want ELSE sw
  IN  IF want = None \/ enc = None THEN matrix
      ELSE [matrix EXCEPT !["h264"] =
              [encoder |-> enc, accel |-> EncoderAccel(enc), fallback |-> sw]]

(* What one device of the chain offers for a codec; a device of an unknown *)
(* vendor follows the global order.                                        *)
DeviceHierarchy(device, host, global) ==
  IF HierarchyForGPU(device.vendor, host) = <<>> THEN global
  ELSE HierarchyForGPU(device.vendor, host)

DeviceOffer(available, codec, device, host, global, allow) ==
  LET accel == FirstBackend(codec, DeviceHierarchy(device, host, global), available)
      sw    == FirstSoftware(available, codec)
  IN  CASE device.software -> [encoder |-> sw, accel |-> "none", fallback |-> None]
        [] ~device.software /\ accel = "none" -> NoSelection
        [] OTHER -> Hardware(codec, accel, IF allow THEN sw ELSE None)

SelectEncodeForDeviceChain(available, codec, chain, host, global, allow) ==
  LET offers == [i \in DOMAIN chain |-> DeviceOffer(available, codec, chain[i], host, global, allow)]
  IN  FirstAccepted(offers, {s \in Range(offers) : s.encoder # None}, NoSelection)

ApplyDeviceSelection(available, matrix, chain, host, global, allow) ==
  [codec \in Codecs |->
     LET sel == SelectEncodeForDeviceChain(available, codec, chain, host, global, allow)
         again == ResolvePreferredEncode(available, codec, global)
     IN  IF codec = "h264" /\ PiDefaultH264(host.pi) # None THEN matrix[codec]
         ELSE IF sel.encoder # None THEN sel
         ELSE IF ~allow THEN NoSelection
         ELSE IF again.encoder # None THEN again
         ELSE matrix[codec]]

(* The backends of a resolved order that some codec can use, as a set.      *)
UsableHierarchy(available, hierarchy) ==
  LET usable == {a \in Range(hierarchy) :
                   a = "none" \/ \E c \in Codecs : CodecEncoderMap(c, a) \in available}
  IN  IF usable = {} THEN {"none"} ELSE usable

(* The encoder an option list shows as the default of a codec: the lists   *)
(* are built with the matrix, before the Pi profile and the chain.          *)
BuildEncodeOptions(host, available, matrix, hierarchy, codec) ==
  LET offered == {CodecEncoderMap(codec, a) : a \in Range(hierarchy \o HierarchyForPlatform(host))}
                   \cup Range(SoftwareFallback(codec))
  IN  [name \in offered \ {None} |->
         [available |-> name \in available, default |-> name = matrix[codec].encoder]]

(* opts is [hierarchy, performance, chain, allow, vulkan, skipHW]; the GPU  *)
(* is the first device of the chain.                                        *)
NonSoftwareChainDevices(chain) == Cardinality({i \in DOMAIN chain : ~chain[i].software})

FirstOfChain(opts) ==
  IF opts.chain = <<>> THEN [software |-> FALSE, vendor |-> ""] ELSE Head(opts.chain)

(* A software device put first asks for software, unless an order is given. *)
ExplicitHierarchy(opts) ==
  IF FirstOfChain(opts).software /\ opts.hierarchy = <<>> THEN <<"none">> ELSE opts.hierarchy

DetectHierarchy(host, opts) ==
  LET first == FirstOfChain(opts)
      gpu   == IF NonSoftwareChainDevices(opts.chain) > 1
                 THEN [enabled |-> FALSE, vendor |-> ""]
                 ELSE [enabled |-> ~first.software /\ first.vendor # "", vendor |-> first.vendor]
      explicit == ExplicitHierarchy(opts)
  IN  MergeVulkanHierarchy(ResolveEncoderHierarchy(explicit, opts.performance, gpu, host),
                           explicit, opts.vulkan)

NoCapabilities == [error |-> TRUE]

Detect(host, opts) ==
  LET available == PopulateEncoders(host, opts.skipHW)
      order     == DetectHierarchy(host, opts)
      built     == BuildCodecMatrix(available, order)
      pinned    == ApplyPiPlatformProfile(available, built, host.pi)
      chosen    == IF opts.chain = <<>> THEN pinned
                   ELSE ApplyDeviceSelection(available, pinned, opts.chain, host, order, opts.allow)
  IN  IF opts.chain # <<>> /\ ~opts.allow /\ \A c \in Codecs : chosen[c].accel = "none"
        THEN NoCapabilities
        ELSE [error |-> FALSE, host |-> host, encoders |-> available, matrix |-> chosen,
              chain |-> opts.chain, allow |-> opts.allow, order |-> order,
              shown |-> IF ExplicitHierarchy(opts) = <<>> THEN UsableHierarchy(available, order)
                        ELSE Range(order),
              options |-> [c \in Codecs |-> BuildEncodeOptions(host, available, built, order, c)]]

-----------------------------------------------------------------------------
(* Limits of the Pi encoder: a 0 height or rate is unknown.                 *)

EncodeLimitsFor(pi) ==
  CASE pi = "pi5"    -> [height |-> 720, fps |-> 30]
    [] pi = "legacy" -> [height |-> 720, fps |-> 25]
    [] OTHER         -> [height |-> 0, fps |-> 0]

Pi4HWEncodeExceeds(height, fps) ==
  \/ height > 1080
  \/ fps > (IF height > 720 THEN 30 ELSE 60)

EncodeExceedsLimits(name, pi, height, fps) ==
  /\ name = <<"h264", "v4l2m2m">>
  /\ IF pi = "pi4" THEN Pi4HWEncodeExceeds(height, fps)
     ELSE LET limit == EncodeLimitsFor(pi)
          IN  \/ limit.height > 0 /\ height > limit.height
              \/ limit.fps > 0 /\ fps > limit.fps

-----------------------------------------------------------------------------
(* The resolver.  A profile is [codec, encoder, accel, software, height,   *)
(* fps]; Unavailable stands for every error it returns.                    *)

Unavailable == [encoder |-> None, accel |-> "error", fallback |-> None]

ValidateProfileOverrides(profile) ==
  profile.encoder # None =>
    ~profile.software /\ profile.accel \in {"", EncoderAccel(profile.encoder)}

ResolvePreferred(caps, codec) ==
  IF caps.matrix[codec].encoder = None THEN Unavailable ELSE caps.matrix[codec]

ResolveSoftware(caps, codec) ==
  IF FirstSoftware(caps.encoders, codec) = None THEN Unavailable
  ELSE [SoftwareSelection(caps.encoders, codec) EXCEPT !.fallback = None]

ResolveHardware(caps, codec, accel) ==
  IF CodecEncoderMap(codec, accel) \in caps.encoders
    THEN Hardware(codec, accel, FirstSoftware(caps.encoders, codec)) ELSE Unavailable

ResolveExplicitEncoder(caps, codec, name) ==
  IF EncoderMatchesCodec(name, codec) /\ name \in caps.encoders
    THEN [encoder |-> name, accel |-> EncoderAccel(name), fallback |-> FirstSoftware(caps.encoders, codec)]
    ELSE Unavailable

(* The encoders of the chain that may take over, device by device.          *)
FallbackAfterRejected(caps, profile, rejected) ==
  LET usable == {a \in AllEncoderAccelTypes :
                   LET name == CodecEncoderMap(profile.codec, a)
                   IN  /\ name \in caps.encoders \ {rejected}
                       /\ ~EncodeExceedsLimits(name, caps.host.pi, profile.height, profile.fps)}
      offers == [i \in DOMAIN caps.chain |->
                   FirstAccepted(HierarchyForGPU(caps.chain[i].vendor, caps.host), usable, "none")]
      accel  == FirstAccepted(offers, usable, "none")
  IN  CASE accel # "none" ->
             Hardware(profile.codec, accel,
                      IF caps.allow THEN FirstSoftware(caps.encoders, profile.codec) ELSE None)
        [] accel = "none" /\ caps.allow -> ResolveSoftware(caps, profile.codec)
        [] OTHER -> Unavailable

(* Mutant: a request that names its encoder falls back like any other.      *)
FinalizeEncoderSelection_FallsBack(caps, profile, sel) ==
  IF ~EncodeExceedsLimits(sel.encoder, caps.host.pi, profile.height, profile.fps) THEN sel
  ELSE FallbackAfterRejected(caps, profile, sel.encoder)

FinalizeEncoderSelection(caps, profile, sel) ==
  IF ~EncodeExceedsLimits(sel.encoder, caps.host.pi, profile.height, profile.fps) THEN sel
  ELSE IF profile.encoder # None \/ profile.accel \notin {"", "none"} THEN Unavailable
  ELSE FallbackAfterRejected(caps, profile, sel.encoder)

ResolveEncoder(caps, profile) ==
  LET accel == IF profile.software THEN "none" ELSE profile.accel
      found == CASE profile.encoder # None -> ResolveExplicitEncoder(caps, profile.codec, profile.encoder)
                 [] profile.encoder = None /\ accel = "" -> ResolvePreferred(caps, profile.codec)
                 [] OTHER -> ResolveHardware(caps, profile.codec, accel)
  IN  CASE ~ValidateProfileOverrides(profile) -> Unavailable
        [] ValidateProfileOverrides(profile) /\ profile.encoder = None /\ accel = "none" ->
             ResolveSoftware(caps, profile.codec)
        [] OTHER -> IF found = Unavailable THEN Unavailable
                    ELSE FinalizeEncoderSelection(caps, profile, found)

-----------------------------------------------------------------------------
(* Properties of the answers.                                              *)

(* An answer names an encoder that is available, of the codec, within the  *)
(* limits, of the accel it reports, and never other than the one asked     *)
(* for: a named encoder, an accel and software are each kept through the   *)
(* lookup and the limit check (encode/resolve.go, resolve_limits.go).      *)
ChoiceHonoursRequest(caps, profile) ==
  LET answer == ResolveEncoder(caps, profile)
      name   == answer.encoder
  IN  answer # Unavailable =>
        /\ name \in caps.encoders
        /\ EncoderMatchesCodec(name, profile.codec)
        /\ EncoderAccel(name) = KindOf(answer.accel)
        /\ ~EncodeExceedsLimits(name, caps.host.pi, profile.height, profile.fps)
        /\ profile.encoder # None => name = profile.encoder
        /\ profile.software => ~IsHardware(name)
        /\ profile.encoder = None /\ ~profile.software /\ profile.accel # "" =>
             EncoderAccel(name) = KindOf(profile.accel)

(* With the software fallback off, no chain entry asking for software and  *)
(* no Pi pin, an automatic request is never answered with software, not    *)
(* even after the limits rejected the first choice.                        *)
NoUnaskedSoftware(caps, profile) ==
  LET answer == ResolveEncoder(caps, profile)
  IN  /\ ~caps.allow
      /\ \A i \in DOMAIN caps.chain : ~caps.chain[i].software
      /\ profile.encoder = None /\ ~profile.software /\ profile.accel = ""
      /\ profile.codec = "h264" => PiDefaultH264(caps.host.pi) = None
      /\ answer # Unavailable
      => IsHardware(answer.encoder) /\ answer.fallback = None

(* An automatic request is refused only when nothing could serve it: no    *)
(* available encoder of a device of known vendor in the chain is within    *)
(* the limits and software is off or missing.                              *)
Eligible(caps, profile) ==
  {name \in caps.encoders :
     /\ EncoderMatchesCodec(name, profile.codec)
     /\ ~EncodeExceedsLimits(name, caps.host.pi, profile.height, profile.fps)
     /\ IF IsHardware(name)
          THEN \E i \in DOMAIN caps.chain :
                 \E a \in Range(HierarchyForGPU(caps.chain[i].vendor, caps.host)) :
                   CodecEncoderMap(profile.codec, a) = name
          ELSE caps.allow}

AutomaticSucceeds(caps, profile) ==
  /\ profile.encoder = None /\ ~profile.software /\ profile.accel = ""
  /\ Eligible(caps, profile) # {}
  => ResolveEncoder(caps, profile) # Unavailable

(* The order a report shows leaves out no backend of the resolved order    *)
(* that some codec can be asked of by name, and, unless the caller gave the *)
(* order, names no backend that none can (detect.go:115-120): an order that *)
(* was given is shown as it is.                                             *)
ReportIsUsable(caps, opts) ==
  LET answers(a) == \E c \in Codecs : ResolveHardware(caps, c, a) # Unavailable
  IN  /\ \A a \in Range(caps.order) : answers(a) => a \in caps.shown
      /\ opts.hierarchy = <<>> => \A a \in caps.shown : a = "none" \/ answers(a)
      /\ opts.hierarchy # <<>> => caps.shown = Range(opts.hierarchy)

(* config.go:39-44: EncoderHierarchy overrides the preference order, and   *)
(* [none] makes the resolver prefer software.                              *)
HierarchyHonoured(caps, opts, profile) ==
  /\ opts.hierarchy = <<"none">>
  /\ profile.encoder = None /\ ~profile.software /\ profile.accel = ""
  /\ FirstSoftware(caps.encoders, profile.codec) # None
  => ~IsHardware(ResolveEncoder(caps, profile).encoder)
=============================================================================
