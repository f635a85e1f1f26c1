---------------------------- MODULE DecisionProofs ----------------------------
(***************************************************************************)
(* Proofs about EncoderChoice, for every host, order of backends, device   *)
(* chain and request: what detection hands to the resolver is sound, the   *)
(* resolver's answers honour what was asked, software that nobody asked    *)
(* for and nobody allowed is never an answer, no automatic request is      *)
(* refused that could be served, and the options of a job fit its encoder. *)
(* About FramePath: the filters between any decoder and any encoder are in *)
(* an order every frame passes.  About DeviceChain: on every host a        *)
(* selector is answered with the device it names, the default chain holds  *)
(* every GPU once, and from a configuration to the answer software is only *)
(* what was asked for or allowed.  Then the seven invariants of            *)
(* Decisions_sound: EncodersHonoured, FramesArrive and DevicesHonoured     *)
(* from these, MediaJobsSound, PlanServes, JobsFollowPlan and              *)
(* FragmentsSound from the theorems of MediaProofs.                        *)
(***************************************************************************)
EXTENDS MCDecisions, MediaProofs

(* Hosts, chains and requests as the code makes them.                       *)
Backends == AllEncoderAccelTypes \cup {"none"}

IsHost(host) ==
  /\ host.os \in {"linux", "windows", "darwin"} /\ host.pi \in {"", "pi4", "pi5", "legacy"}
  /\ None \notin host.compiled

(* A chain as DeviceChain makes them: software has no vendor.               *)
IsChain(chain) ==
  \E n \in Nat : /\ DOMAIN chain = 1..n
                 /\ \A i \in 1..n : /\ chain[i].software \in BOOLEAN
                                    /\ chain[i].software => chain[i].vendor = ""

IsRequest(profile) ==
  /\ profile.codec \in Codecs /\ profile.software \in BOOLEAN
  /\ {"codec", "encoder", "accel", "software", "height", "fps"} \subseteq DOMAIN profile

(* Some backend of the vendor's order has an encoder of the codec there.    *)
Drives(vendor, host, codec, available) ==
  \E i \in DOMAIN HierarchyForGPU(vendor, host) :
    CodecEncoderMap(codec, HierarchyForGPU(vendor, host)[i]) \in available

(* What the resolver may rely on of a matrix entry.                         *)
SoundSelection(available, codec, sel) ==
  sel.encoder # None =>
    /\ sel.encoder \in available
    /\ EncoderMatchesCodec(sel.encoder, codec)
    /\ EncoderAccel(sel.encoder) = KindOf(sel.accel)

-----------------------------------------------------------------------------
(* The first accepted element is an accepted element of the list, and there *)
(* is one unless none is accepted.                                          *)
LEMMA FirstIsAccepted ==
  ASSUME NEW list, NEW n \in Nat, DOMAIN list = 1..n, NEW accepted, NEW otherwise,
         otherwise \notin accepted
  PROVE  LET first == FirstAccepted(list, accepted, otherwise)
         IN  \/ first = otherwise /\ \A i \in 1..n : list[i] \notin accepted
             \/ first \in accepted /\ \E i \in 1..n : list[i] = first
  <1> DEFINE hits == {i \in DOMAIN list : list[i] \in accepted}
  <1>1. CASE hits = {} BY <1>1 DEF FirstAccepted
  <1>2. CASE hits # {}
      <2>1. hits \subseteq Nat OBVIOUS
      <2>2. Min(hits) \in hits BY ONLY <1>2, <2>1, MinIsLeast
      <2> QED BY <1>2, <2>2 DEF FirstAccepted
  <1> QED BY <1>1, <1>2

LEMMA HardwareNames ==
  ASSUME NEW codec, NEW accel, CodecEncoderMap(codec, accel) # None
  PROVE  LET name == CodecEncoderMap(codec, accel)
         IN  /\ name = <<codec, KindOf(accel)>> /\ IsHardware(name)
             /\ EncoderAccel(name) = KindOf(accel)
             /\ EncoderMatchesCodec(name, codec)
             /\ accel \in AllEncoderAccelTypes /\ accel \notin {"none", "", "error"}
  <1>1. codec \in Codecs /\ KindOf(accel) \in EncoderKinds(codec)
        /\ CodecEncoderMap(codec, accel) = <<codec, KindOf(accel)>>
      BY DEF CodecEncoderMap
  <1>2. KindOf(accel) \in AllEncoderAccelTypes /\ KindOf(KindOf(accel)) = KindOf(accel)
      BY <1>1 DEF EncoderKinds, AllEncoderAccelTypes, KindOf
  <1>3. IsHardware(<<codec, KindOf(accel)>>) BY <1>2 DEF IsHardware, None
  <1>4. CodecEncoderMap(codec, KindOf(accel)) = CodecEncoderMap(codec, accel)
      BY <1>2 DEF CodecEncoderMap
  <1>5. accel \in AllEncoderAccelTypes /\ accel \notin {"none", "", "error"} BY <1>2 DEF KindOf, AllEncoderAccelTypes
  <1>6. EncoderAccel(<<codec, KindOf(accel)>>) = KindOf(accel) BY <1>3 DEF EncoderAccel
  <1>7. EncoderMatchesCodec(<<codec, KindOf(accel)>>, codec)
      BY <1>1, <1>2, <1>4, Zenon DEF EncoderMatchesCodec
  <1> QED BY <1>1, <1>3, <1>5, <1>6, <1>7

LEMMA SoftwareNames ==
  ASSUME NEW codec \in Codecs, NEW available, None \notin available
  PROVE  LET name == FirstSoftware(available, codec)
         IN  /\ \/ name = None /\ \A i \in DOMAIN SoftwareFallback(codec) :
                                     SoftwareFallback(codec)[i] \notin available
                \/ name \in available /\ \E i \in DOMAIN SoftwareFallback(codec) :
                                             SoftwareFallback(codec)[i] = name
  <1>1. PICK n \in 1..3 : DOMAIN SoftwareFallback(codec) = 1..n
      BY DEF Codecs, SoftwareFallback
  <1> QED BY <1>1, FirstIsAccepted DEF FirstSoftware

LEMMA FallbacksAreSoftware ==
  ASSUME NEW codec \in Codecs, NEW i \in DOMAIN SoftwareFallback(codec)
  PROVE  LET name == SoftwareFallback(codec)[i]
         IN  /\ name # None /\ ~IsHardware(name)
             /\ EncoderAccel(name) = "none" /\ EncoderMatchesCodec(name, codec)
  <1> DEFINE name == SoftwareFallback(codec)[i]
             Libraries == {"libx264", "libsvtav1", "librav1e", "libaom-av1", "libvpx-vp9", "libx265", "libvvenc"}
  <1>1. \E library \in Libraries : name = <<codec, library>>
      <2>1. CASE codec = "h264" BY <2>1 DEF SoftwareFallback
      <2>2. CASE codec = "hevc" BY <2>2 DEF SoftwareFallback
      <2>3. CASE codec = "av1" BY <2>3 DEF SoftwareFallback
      <2>4. CASE codec = "vp9" BY <2>4 DEF SoftwareFallback
      <2> QED BY <2>1, <2>2, <2>3, <2>4 DEF Codecs
  <1> HIDE DEF name
  <1>2. PICK library \in Libraries : name = <<codec, library>> BY <1>1
  <1>3. library \notin {KindOf(a) : a \in AllEncoderAccelTypes}
      <2>1. \A a \in AllEncoderAccelTypes : KindOf(a) \in AllEncoderAccelTypes
          BY DEF AllEncoderAccelTypes, KindOf
      <2>2. library \notin AllEncoderAccelTypes BY DEF AllEncoderAccelTypes
      <2> QED BY <2>1, <2>2
  <1>4. name # None BY <1>2 DEF None
  <1>5. ~IsHardware(name) BY <1>2, <1>3 DEF IsHardware
  <1>6. EncoderMatchesCodec(name, codec) BY DEF EncoderMatchesCodec, name
  <1> QED BY <1>4, <1>5, <1>6 DEF EncoderAccel, name

LEMMA SoftwareFound ==
  ASSUME NEW codec \in Codecs, NEW available, None \notin available
  PROVE  LET name == FirstSoftware(available, codec)
         IN  /\ name # None => /\ name \in available /\ ~IsHardware(name)
                               /\ EncoderAccel(name) = "none" /\ EncoderMatchesCodec(name, codec)
             /\ \A e \in available : EncoderMatchesCodec(e, codec) /\ ~IsHardware(e) => name # None
  <1>1. ASSUME NEW e \in available, EncoderMatchesCodec(e, codec), ~IsHardware(e)
        PROVE  \E i \in DOMAIN SoftwareFallback(codec) : SoftwareFallback(codec)[i] = e
      <2>1. \A a : CodecEncoderMap(codec, a) # None => IsHardware(CodecEncoderMap(codec, a))
          BY HardwareNames
      <2> QED BY <1>1, <2>1, Zenon DEF EncoderMatchesCodec
  <1> QED BY <1>1, SoftwareNames, FallbacksAreSoftware, Zenon

LEMMA BackendFound ==
  ASSUME NEW codec \in Codecs, NEW available, None \notin available,
         NEW hierarchy, NEW n \in Nat, DOMAIN hierarchy = 1..n
  PROVE  LET accel == FirstBackend(codec, hierarchy, available)
         IN  \/ accel = "none" /\ \A i \in 1..n : CodecEncoderMap(codec, hierarchy[i]) \notin available
             \/ accel \in AllEncoderAccelTypes /\ CodecEncoderMap(codec, accel) \in available
  <1> DEFINE usable == {a \in AllEncoderAccelTypes : CodecEncoderMap(codec, a) \in available}
  <1>1. "none" \notin usable BY DEF AllEncoderAccelTypes
  <1>2. \A a : CodecEncoderMap(codec, a) \in available => a \in usable BY HardwareNames
  <1>3. FirstBackend(codec, hierarchy, available) = FirstAccepted(hierarchy, usable, "none")
      BY Zenon DEF FirstBackend
  <1> HIDE DEF usable
  <1>4. \/ /\ FirstBackend(codec, hierarchy, available) = "none"
           /\ \A i \in 1..n : hierarchy[i] \notin usable
        \/ FirstBackend(codec, hierarchy, available) \in usable
      BY <1>1, <1>3, FirstIsAccepted
  <1> QED BY <1>2, <1>4 DEF usable

LEMMA HardwareIsSound ==
  ASSUME NEW codec, NEW available, None \notin available, NEW accel, NEW fallback,
         CodecEncoderMap(codec, accel) \in available
  PROVE  LET sel == Hardware(codec, accel, fallback)
         IN  /\ SoundSelection(available, codec, sel) /\ IsHardware(sel.encoder)
             /\ sel.encoder # None /\ sel # Unavailable /\ sel.accel # "none" /\ sel.accel = accel
             /\ EncoderAccel(sel.encoder) = KindOf(accel)
             /\ sel.encoder = CodecEncoderMap(codec, accel) /\ sel.fallback = fallback
  <1>1. CodecEncoderMap(codec, accel) # None OBVIOUS
  <1> QED BY <1>1, HardwareNames DEF Hardware, SoundSelection, Unavailable

LEMMA SoftwareIsSound ==
  ASSUME NEW codec \in Codecs, NEW available, None \notin available, NEW sel,
         sel.encoder = FirstSoftware(available, codec), sel.accel = "none"
  PROVE  SoundSelection(available, codec, sel)
  <1>1. KindOf("none") = "none" BY DEF KindOf
  <1> QED BY <1>1, SoftwareFound DEF SoundSelection

LEMMA HierarchiesAreLists ==
  ASSUME NEW host, IsHost(host), NEW vendor
  PROVE  /\ HierarchyForGPU(vendor, host) \in Seq(Backends)
         /\ HierarchyForPlatform(host) \in Seq(Backends)
         /\ HierarchyForPerformance(host) \in Seq(Backends)
  <1>1. {"nvenc", "vaapi", "qsv", "amf", "d3d12", "videotoolbox", "v4l2m2m", "none"} \subseteq Backends
      BY DEF Backends, AllEncoderAccelTypes
  <1>2. HierarchyForGPU(vendor, host) \in Seq(Backends)
      <2>1. CASE vendor = "nvidia" BY <1>1, <2>1 DEF HierarchyForGPU
      <2>2. CASE vendor = "intel"
          <3>1. CASE host.os = "windows" BY <1>1, <2>2, <3>1 DEF HierarchyForGPU
          <3>2. CASE host.os # "windows" /\ host.wsl BY <1>1, <2>2, <3>2 DEF HierarchyForGPU
          <3>3. CASE host.os # "windows" /\ ~host.wsl BY <1>1, <2>2, <3>3 DEF HierarchyForGPU
          <3> QED BY <3>1, <3>2, <3>3
      <2>3. CASE vendor = "amd"
          <3>1. CASE host.os = "windows" BY <1>1, <2>3, <3>1 DEF HierarchyForGPU
          <3>2. CASE host.os # "windows" BY <1>1, <2>3, <3>2 DEF HierarchyForGPU
          <3> QED BY <3>1, <3>2
      <2>4. CASE vendor = "apple" BY <1>1, <2>4 DEF HierarchyForGPU
      <2>5. CASE vendor = "soc" BY <1>1, <2>5 DEF HierarchyForGPU
      <2>6. CASE vendor \notin {"nvidia", "intel", "amd", "apple", "soc"} BY <2>6 DEF HierarchyForGPU
      <2> QED BY <2>1, <2>2, <2>3, <2>4, <2>5, <2>6
  <1>3. HierarchyForPlatform(host) \in Seq(Backends)
      <2> DEFINE wsl == host.wsl
                 bare == host.nvidia /\ ~host.dri
      <2>1. CASE host.pi = "pi4" BY <1>1, <2>1 DEF HierarchyForPlatform
      <2>2. CASE host.pi = "pi5" BY <1>1, <2>2 DEF HierarchyForPlatform
      <2>3. CASE host.pi = "legacy" BY <1>1, <2>3 DEF HierarchyForPlatform
      <2>4. CASE host.pi = "" /\ host.os = "darwin"
          <3>1. HierarchyForPlatform(host) = <<"videotoolbox">> BY <2>4, Zenon DEF HierarchyForPlatform
          <3> QED BY <1>1, <3>1
      <2>5. CASE host.pi = "" /\ host.os = "windows"
          <3>1. HierarchyForPlatform(host) = <<"qsv", "nvenc", "amf">>
              BY <2>5, Zenon DEF HierarchyForPlatform
          <3> QED BY <1>1, <3>1
      <2>6. CASE host.pi = "" /\ host.os = "linux"
          <3>1. ~wsl => HierarchyForPlatform(host) = <<"vaapi", "qsv", "nvenc", "amf">>
              BY <2>6, Zenon DEF HierarchyForPlatform
          <3>2. wsl /\ bare => HierarchyForPlatform(host) = <<"nvenc", "d3d12", "vaapi", "qsv">>
              BY <2>6, Zenon DEF HierarchyForPlatform
          <3>3. wsl /\ ~bare => HierarchyForPlatform(host) = <<"vaapi", "qsv", "d3d12", "nvenc">>
              BY <2>6, Zenon DEF HierarchyForPlatform
          <3>4. /\ <<"vaapi", "qsv", "nvenc", "amf">> \in Seq(Backends)
                /\ <<"nvenc", "d3d12", "vaapi", "qsv">> \in Seq(Backends)
                /\ <<"vaapi", "qsv", "d3d12", "nvenc">> \in Seq(Backends)
              BY <1>1
          <3> HIDE DEF wsl, bare
          <3> QED BY <3>1, <3>2, <3>3, <3>4, Zenon
      <2> QED BY <2>1, <2>2, <2>3, <2>4, <2>5, <2>6 DEF IsHost
  <1>4. HierarchyForPerformance(host) \in Seq(Backends)
      <2>1. CASE host.os = "darwin" BY <1>3, <2>1 DEF HierarchyForPerformance
      <2>2. CASE host.os = "windows" BY <1>1, <2>2 DEF HierarchyForPerformance
      <2>3. CASE host.os = "linux" /\ host.wsl BY <1>1, <2>3 DEF HierarchyForPerformance
      <2>4. CASE host.os = "linux" /\ ~host.wsl BY <1>1, <2>4 DEF HierarchyForPerformance
      <2> QED BY <2>1, <2>2, <2>3, <2>4 DEF IsHost
  <1> QED BY <1>2, <1>3, <1>4

LEMMA OrderIsAList ==
  ASSUME NEW host, IsHost(host), NEW opts, opts.hierarchy \in Seq(Backends)
  PROVE  DetectHierarchy(host, opts) \in Seq(Backends)
  <1>1. ASSUME NEW explicit \in Seq(Backends), NEW gpu, NEW performance, NEW fallback
        PROVE  MergeVulkanHierarchy(ResolveEncoderHierarchy(explicit, performance, gpu, host),
                                    explicit, fallback) \in Seq(Backends)
      <2> DEFINE order == ResolveEncoderHierarchy(explicit, performance, gpu, host)
      <2>1. order \in Seq(Backends)
          <3>1. CASE explicit # <<>> BY <3>1 DEF ResolveEncoderHierarchy
          <3>2. CASE explicit = <<>> /\ gpu.enabled /\ HierarchyForGPU(gpu.vendor, host) # <<>>
              BY <3>2, HierarchiesAreLists DEF ResolveEncoderHierarchy
          <3>3. CASE explicit = <<>> /\ ~(gpu.enabled /\ HierarchyForGPU(gpu.vendor, host) # <<>>)
              BY <3>3, HierarchiesAreLists DEF ResolveEncoderHierarchy
          <3> QED BY <3>1, <3>2, <3>3
      <2>2. "vulkan" \in Backends BY DEF Backends, AllEncoderAccelTypes
      <2> HIDE DEF order
      <2>3. MergeVulkanHierarchy(order, explicit, fallback) \in Seq(Backends)
          BY <2>1, <2>2 DEF MergeVulkanHierarchy
      <2> QED BY <2>3 DEF order
  <1>2. <<"none">> \in Seq(Backends)
      <2>1. "none" \in Backends BY DEF Backends
      <2> QED BY <2>1
  <1>3. ExplicitHierarchy(opts) \in Seq(Backends) BY <1>2, Zenon DEF ExplicitHierarchy
  <1> QED BY <1>1, <1>3, Zenon DEF DetectHierarchy

LEMMA PreferredIsSound ==
  ASSUME NEW codec \in Codecs, NEW available, None \notin available, NEW hierarchy \in Seq(Backends)
  PROVE  LET sel == ResolvePreferredEncode(available, codec, hierarchy)
         IN  /\ SoundSelection(available, codec, sel)
             /\ FirstSoftware(available, codec) # None => sel.encoder # None
  <1> DEFINE accel == FirstBackend(codec, hierarchy, available)
  <1>1. Len(hierarchy) \in Nat /\ DOMAIN hierarchy = 1..Len(hierarchy) OBVIOUS
  <1>2. CASE accel = "none"
      <2>1. ResolvePreferredEncode(available, codec, hierarchy) = SoftwareSelection(available, codec)
          BY <1>2 DEF ResolvePreferredEncode
      <2> QED BY <2>1, SoftwareIsSound DEF SoftwareSelection
  <1>3. CASE accel # "none"
      <2>1. ResolvePreferredEncode(available, codec, hierarchy)
              = Hardware(codec, accel, FirstSoftware(available, codec))
          BY <1>3 DEF ResolvePreferredEncode
      <2>2. CodecEncoderMap(codec, accel) \in available BY <1>1, <1>3, BackendFound
      <2> QED BY <2>1, <2>2, HardwareIsSound
  <1> QED BY <1>2, <1>3

LEMMA KindsAreKinds ==
  ASSUME NEW name
  PROVE  KindOf(EncoderAccel(name)) = EncoderAccel(name)
  <1>1. \A a \in AllEncoderAccelTypes : KindOf(KindOf(a)) = KindOf(a)
      BY DEF KindOf, AllEncoderAccelTypes
  <1>2. KindOf("none") = "none" BY DEF KindOf
  <1>3. CASE IsHardware(name) BY <1>1, <1>3 DEF EncoderAccel, IsHardware
  <1>4. CASE ~IsHardware(name) BY <1>2, <1>4 DEF EncoderAccel
  <1> QED BY <1>3, <1>4

LEMMA PinIsSound ==
  ASSUME NEW available, None \notin available, NEW matrix, DOMAIN matrix = Codecs,
         matrix = [c \in Codecs |-> matrix[c]],
         \A c \in Codecs : SoundSelection(available, c, matrix[c]), NEW pi
  PROVE  LET pinned == ApplyPiPlatformProfile(available, matrix, pi)
         IN  /\ \A c \in Codecs : SoundSelection(available, c, pinned[c])
             /\ \A c \in Codecs \ {"h264"} : pinned[c] = matrix[c]
             /\ PiDefaultH264(pi) = None => pinned = matrix
             /\ pinned["h264"].encoder = None =>
                  /\ matrix["h264"].encoder = None
                  /\ PiDefaultH264(pi) # None => FirstSoftware(available, "h264") = None
  <1> DEFINE sw   == FirstSoftware(available, "h264")
             want == PiDefaultH264(pi)
             enc  == IF want \in available THEN want ELSE sw
             sel  == [encoder |-> enc, accel |-> EncoderAccel(enc), fallback |-> sw]
  <1>1. "h264" \in Codecs BY DEF Codecs
  <1>2. want \in {<<"h264", "v4l2m2m">>, <<"h264", "libx264">>, None} BY Zenon DEF PiDefaultH264
  <1>3. CASE want = None \/ enc = None
      <2>1. ApplyPiPlatformProfile(available, matrix, pi) = matrix
          BY <1>3 DEF ApplyPiPlatformProfile
      <2> QED BY <1>3, <2>1
  <1>4. CASE want # None /\ enc # None
      <2>1. ApplyPiPlatformProfile(available, matrix, pi) = [matrix EXCEPT !["h264"] = sel]
          BY <1>4 DEF ApplyPiPlatformProfile
      <2>2. enc \in available /\ EncoderMatchesCodec(enc, "h264")
          <3>1. CASE want \in available
              <4>1. CodecEncoderMap("h264", "v4l2m2m") = <<"h264", "v4l2m2m">>
                  BY <1>1 DEF CodecEncoderMap, KindOf, EncoderKinds
              <4>2. "v4l2m2m" \in AllEncoderAccelTypes BY DEF AllEncoderAccelTypes
              <4>3. EncoderMatchesCodec(<<"h264", "v4l2m2m">>, "h264")
                  BY <4>1, <4>2, Zenon DEF EncoderMatchesCodec
              <4>4. SoftwareFallback("h264") = << <<"h264", "libx264">> >> BY DEF SoftwareFallback
              <4>5. EncoderMatchesCodec(<<"h264", "libx264">>, "h264")
                  BY <4>4 DEF EncoderMatchesCodec
              <4> QED BY <1>2, <1>4, <3>1, <4>3, <4>5
          <3>2. CASE want \notin available BY <1>1, <1>4, <3>2, SoftwareFound
          <3> QED BY <3>1, <3>2
      <2>3. KindOf(EncoderAccel(enc)) = EncoderAccel(enc) BY KindsAreKinds
      <2>4. SoundSelection(available, "h264", sel) BY <2>2, <2>3 DEF SoundSelection
      <2> HIDE DEF sel, enc
      <2>5. sel.encoder = enc BY DEF sel
      <2> QED BY <1>1, <1>4, <2>1, <2>4, <2>5
  <1> QED BY <1>3, <1>4

LEMMA OfferIsSound ==
  ASSUME NEW codec \in Codecs, NEW available, None \notin available, NEW device, NEW host,
         IsHost(host), NEW global \in Seq(Backends), NEW allow, device.software \in BOOLEAN
  PROVE  LET offer == DeviceOffer(available, codec, device, host, global, allow)
         IN  /\ SoundSelection(available, codec, offer)
             /\ ~device.software /\ offer.encoder # None =>
                  IsHardware(offer.encoder) /\ (~allow => offer.fallback = None)
             /\ ~device.software /\ Drives(device.vendor, host, codec, available) => offer.encoder # None
  <1> DEFINE own   == HierarchyForGPU(device.vendor, host)
             order == DeviceHierarchy(device, host, global)
             accel == FirstBackend(codec, order, available)
             sw    == FirstSoftware(available, codec)
             offer == DeviceOffer(available, codec, device, host, global, allow)
  <1>1. order = (IF own = <<>> THEN global ELSE own) BY DEF DeviceHierarchy
  <1>2. own \in Seq(Backends) /\ order \in Seq(Backends) BY <1>1, HierarchiesAreLists
  <1>3. DOMAIN order = 1..Len(order) /\ Len(order) \in Nat BY <1>2
  <1>4. \/ accel = "none" /\ \A i \in DOMAIN order : CodecEncoderMap(codec, order[i]) \notin available
        \/ accel # "none" /\ CodecEncoderMap(codec, accel) \in available
      <2>1. "none" \notin AllEncoderAccelTypes BY DEF AllEncoderAccelTypes
      <2> QED BY <1>3, <2>1, BackendFound
  <1>5. Drives(device.vendor, host, codec, available) => accel # "none"
      <2>1. SUFFICES ASSUME NEW i \in DOMAIN own, CodecEncoderMap(codec, own[i]) \in available
                     PROVE  accel # "none"
          BY DEF Drives
      <2>2. own # <<>> BY <2>1
      <2> QED BY <1>1, <1>4, <2>1, <2>2
  <1> HIDE DEF own, order, accel, sw
  <1>6. CASE device.software
      <2>1. offer = [encoder |-> sw, accel |-> "none", fallback |-> None]
          BY <1>6, Zenon DEF DeviceOffer, accel, sw, order
      <2> QED BY <1>6, <2>1, SoftwareIsSound DEF sw
  <1>7. CASE ~device.software /\ accel = "none"
      <2>1. offer = NoSelection BY <1>7, Zenon DEF DeviceOffer, accel, sw, order
      <2> QED BY <1>5, <1>7, <2>1 DEF NoSelection, SoundSelection
  <1>8. CASE ~device.software /\ accel # "none"
      <2>1. offer = Hardware(codec, accel, IF allow THEN sw ELSE None)
          BY <1>8, Zenon DEF DeviceOffer, accel, sw, order
      <2>2. CodecEncoderMap(codec, accel) \in available BY <1>4, <1>8
      <2> QED BY <2>1, <2>2, HardwareIsSound
  <1> QED BY <1>6, <1>7, <1>8

LEMMA SelectionIsAnOffer ==
  ASSUME NEW codec, NEW available, NEW chain, NEW n \in Nat, DOMAIN chain = 1..n,
         NEW host, NEW global, NEW allow
  PROVE  LET sel == SelectEncodeForDeviceChain(available, codec, chain, host, global, allow)
             Offer(i) == DeviceOffer(available, codec, chain[i], host, global, allow)
         IN  /\ sel = NoSelection \/ sel.encoder # None
             /\ sel.encoder # None => \E i \in 1..n : sel = Offer(i)
             /\ \A i \in 1..n : Offer(i).encoder # None => sel.encoder # None
  <1> DEFINE offers == [i \in DOMAIN chain |-> DeviceOffer(available, codec, chain[i], host, global, allow)]
             good   == {s \in Range(offers) : s.encoder # None}
  <1>1. SelectEncodeForDeviceChain(available, codec, chain, host, global, allow)
          = FirstAccepted(offers, good, NoSelection)
      BY DEF SelectEncodeForDeviceChain
  <1>2. NoSelection \notin good BY DEF NoSelection
  <1>3. \A i \in 1..n : offers[i].encoder # None => offers[i] \in good BY DEF Range
  <1>4. DOMAIN offers = 1..n /\ \A s \in good : s.encoder # None OBVIOUS
  <1>5. \A i \in 1..n : offers[i] = DeviceOffer(available, codec, chain[i], host, global, allow)
      OBVIOUS
  <1> HIDE DEF offers, good
  <1>6. LET first == FirstAccepted(offers, good, NoSelection)
        IN  \/ first = NoSelection /\ \A i \in 1..n : offers[i] \notin good
            \/ first \in good /\ \E i \in 1..n : offers[i] = first
      BY <1>2, <1>4, FirstIsAccepted
  <1>7. NoSelection.encoder = None BY DEF NoSelection
  <1> QED BY <1>1, <1>3, <1>4, <1>5, <1>6, <1>7

(* What a device chain makes of the matrix of a host without one.           *)
LEMMA ChainIsSound ==
  ASSUME NEW codec \in Codecs, NEW available, None \notin available, NEW host, IsHost(host),
         NEW chain, IsChain(chain), NEW global \in Seq(Backends), NEW allow \in BOOLEAN,
         NEW matrix, SoundSelection(available, codec, matrix[codec])
  PROVE  LET chosen == ApplyDeviceSelection(available, matrix, chain, host, global, allow)[codec]
             pinned == codec = "h264" /\ PiDefaultH264(host.pi) # None
         IN  /\ SoundSelection(available, codec, chosen)
             /\ pinned => chosen = matrix[codec]
             /\ ~pinned /\ ~allow /\ (\A i \in DOMAIN chain : ~chain[i].software)
                  /\ chosen.encoder # None => IsHardware(chosen.encoder) /\ chosen.fallback = None
             /\ ~pinned /\ allow /\ FirstSoftware(available, codec) # None => chosen.encoder # None
             /\ ~pinned /\ (\E i \in DOMAIN chain : Drives(chain[i].vendor, host, codec, available))
                  => chosen.encoder # None
  <1> DEFINE sel    == SelectEncodeForDeviceChain(available, codec, chain, host, global, allow)
             again  == ResolvePreferredEncode(available, codec, global)
             chosen == ApplyDeviceSelection(available, matrix, chain, host, global, allow)[codec]
             pinned == codec = "h264" /\ PiDefaultH264(host.pi) # None
             Offer(i) == DeviceOffer(available, codec, chain[i], host, global, allow)
  <1>1. PICK n \in Nat : /\ DOMAIN chain = 1..n
                         /\ \A i \in 1..n : /\ chain[i].software \in BOOLEAN
                                            /\ chain[i].software => chain[i].vendor = ""
      BY DEF IsChain
  <1>2. chosen = (IF pinned THEN matrix[codec] ELSE IF sel.encoder # None THEN sel
                  ELSE IF ~allow THEN NoSelection
                  ELSE IF again.encoder # None THEN again ELSE matrix[codec])
      BY DEF ApplyDeviceSelection
  <1>3. /\ sel = NoSelection \/ sel.encoder # None
        /\ sel.encoder # None => \E i \in 1..n : sel = Offer(i)
        /\ \A i \in 1..n : Offer(i).encoder # None => sel.encoder # None
      <2>1. DOMAIN chain = 1..n BY <1>1
      <2> QED BY ONLY n \in Nat, <2>1, SelectionIsAnOffer
  <1>4. \A i \in 1..n :
          /\ SoundSelection(available, codec, Offer(i))
          /\ ~chain[i].software /\ Offer(i).encoder # None =>
               IsHardware(Offer(i).encoder) /\ (~allow => Offer(i).fallback = None)
          /\ ~chain[i].software /\ Drives(chain[i].vendor, host, codec, available) => Offer(i).encoder # None
      <2> TAKE i \in 1..n
      <2>1. chain[i].software \in BOOLEAN BY <1>1
      <2> QED BY <2>1, OfferIsSound
  <1>5. /\ SoundSelection(available, codec, again)
        /\ FirstSoftware(available, codec) # None => again.encoder # None
      BY PreferredIsSound
  <1>6. SoundSelection(available, codec, NoSelection) /\ NoSelection.encoder = None
      BY DEF NoSelection, SoundSelection
  <1>7. HierarchyForGPU("", host) = <<>> BY Zenon DEF HierarchyForGPU
  <1> HIDE DEF sel, again, chosen, pinned, Offer
  <1>8. SoundSelection(available, codec, sel) BY <1>3, <1>4, <1>6
  <1>9. SoundSelection(available, codec, chosen) /\ (pinned => chosen = matrix[codec])
      BY <1>2, <1>5, <1>6, <1>8
  <1>10. ASSUME ~pinned, ~allow, \A i \in DOMAIN chain : ~chain[i].software, chosen.encoder # None
         PROVE  IsHardware(chosen.encoder) /\ chosen.fallback = None
      <2>1. chosen = sel /\ sel.encoder # None BY <1>2, <1>6, <1>10
      <2> QED BY <1>1, <1>3, <1>4, <1>10, <2>1, <1>6
  <1>11. ASSUME ~pinned, allow, FirstSoftware(available, codec) # None PROVE chosen.encoder # None
      BY <1>2, <1>5, <1>11
  <1>12. ASSUME ~pinned, NEW i \in DOMAIN chain, Drives(chain[i].vendor, host, codec, available)
         PROVE  chosen.encoder # None
      <2>1. ~chain[i].software
          <3>1. DOMAIN <<>> = {} OBVIOUS
          <3> QED BY <1>1, <1>7, <1>12, <3>1 DEF Drives
      <2>2. Offer(i).encoder # None BY <1>1, <1>4, <1>12, <2>1
      <2>3. sel.encoder # None BY <1>1, <1>3, <2>2
      <2> QED BY <1>2, <1>12, <2>3
  <1> QED BY <1>9, <1>10, <1>11, <1>12 DEF chosen, pinned

(* The order a report shows, as a set.                                      *)
Shown(available, opts, order) ==
  IF ExplicitHierarchy(opts) = <<>> THEN UsableHierarchy(available, order) ELSE Range(order)

(* What a detection hands to the resolver.                                  *)
IsDetected(caps, host, opts) ==
  /\ caps.host = host /\ caps.chain = opts.chain /\ caps.allow = opts.allow
  /\ caps.encoders = PopulateEncoders(host, opts.skipHW) /\ None \notin caps.encoders
  /\ caps.order \in Seq(Backends) /\ caps.order = DetectHierarchy(host, opts)
  /\ caps.shown = Shown(caps.encoders, opts, caps.order)
  /\ \A c \in Codecs : SoundSelection(caps.encoders, c, caps.matrix[c])

LEMMA DetectionIsSound ==
  ASSUME NEW host, IsHost(host), NEW opts, opts.hierarchy \in Seq(Backends), opts.allow \in BOOLEAN,
         IsChain(opts.chain), ~Detect(host, opts).error
  PROVE  LET caps == Detect(host, opts)
         IN  /\ IsDetected(caps, host, opts)
             /\ \A c \in Codecs :
                  LET pinned == c = "h264" /\ PiDefaultH264(host.pi) # None
                      drives == \E i \in DOMAIN caps.chain :
                                  Drives(caps.chain[i].vendor, host, c, caps.encoders)
                  IN  /\ opts.chain # <<>> /\ ~pinned /\ ~caps.allow
                           /\ (\A i \in DOMAIN caps.chain : ~caps.chain[i].software)
                           /\ caps.matrix[c].encoder # None
                           => IsHardware(caps.matrix[c].encoder) /\ caps.matrix[c].fallback = None
                      /\ caps.matrix[c].encoder = None =>
                           /\ pinned \/ caps.allow => FirstSoftware(caps.encoders, c) = None
                           /\ ~pinned => ~drives
  <1> DEFINE available == PopulateEncoders(host, opts.skipHW)
             order     == DetectHierarchy(host, opts)
             built     == BuildCodecMatrix(available, order)
             pinned    == ApplyPiPlatformProfile(available, built, host.pi)
             chosen    == IF opts.chain = <<>> THEN pinned
                          ELSE ApplyDeviceSelection(available, pinned, opts.chain, host, order, opts.allow)
             caps      == Detect(host, opts)
             options   == [c \in Codecs |-> BuildEncodeOptions(host, available, built, order, c)]
             Pinned(c) == c = "h264" /\ PiDefaultH264(host.pi) # None
  <1>1. caps = [error |-> FALSE, host |-> host, encoders |-> available, matrix |-> chosen,
                chain |-> opts.chain, allow |-> opts.allow, order |-> order,
                shown |-> Shown(available, opts, order), options |-> options]
      <2>1. NoCapabilities.error BY DEF NoCapabilities
      <2>2. caps # NoCapabilities BY <2>1
      <2> QED BY <2>2, Zenon DEF Detect, Shown
  <1>2. None \notin available BY DEF PopulateEncoders, IsHost
  <1>3. order \in Seq(Backends) BY OrderIsAList
  <1>4. \A c \in Codecs : SoundSelection(available, c, built[c])
      <2> TAKE c \in Codecs
      <2>1. built[c] = ResolvePreferredEncode(available, c, order) BY DEF BuildCodecMatrix
      <2> QED BY <1>2, <1>3, <2>1, PreferredIsSound
  <1>5. \A c \in Codecs : FirstSoftware(available, c) # None => built[c].encoder # None
      <2> TAKE c \in Codecs
      <2>1. built[c] = ResolvePreferredEncode(available, c, order) BY DEF BuildCodecMatrix
      <2> QED BY <1>2, <1>3, <2>1, PreferredIsSound
  <1>6. DOMAIN built = Codecs /\ built = [c \in Codecs |-> built[c]] BY DEF BuildCodecMatrix
  <1> HIDE DEF available, order, built
  <1>7. /\ \A c \in Codecs : SoundSelection(available, c, pinned[c])
        /\ \A c \in Codecs \ {"h264"} : pinned[c] = built[c]
        /\ PiDefaultH264(host.pi) = None => pinned = built
        /\ pinned["h264"].encoder = None =>
             /\ built["h264"].encoder = None
             /\ PiDefaultH264(host.pi) # None => FirstSoftware(available, "h264") = None
      BY <1>2, <1>4, <1>6, PinIsSound
  <1>8. \A c \in Codecs : FirstSoftware(available, c) # None => pinned[c].encoder # None
      BY <1>5, <1>7
  <1>9. /\ caps.host = host /\ caps.encoders = available /\ caps.matrix = chosen
        /\ caps.chain = opts.chain /\ caps.allow = opts.allow /\ caps.order = order
        /\ caps.shown = Shown(available, opts, order)
      BY <1>1
  <1> HIDE DEF pinned, caps
  <1>10. ASSUME NEW c \in Codecs
         PROVE  /\ SoundSelection(available, c, chosen[c])
                /\ opts.chain # <<>> /\ ~Pinned(c) /\ ~opts.allow
                     /\ (\A i \in DOMAIN opts.chain : ~opts.chain[i].software)
                     /\ chosen[c].encoder # None
                     => IsHardware(chosen[c].encoder) /\ chosen[c].fallback = None
                /\ Pinned(c) /\ chosen[c].encoder = None => FirstSoftware(available, c) = None
                /\ ~Pinned(c) /\ opts.allow /\ chosen[c].encoder = None => FirstSoftware(available, c) = None
                /\ ~Pinned(c) /\ chosen[c].encoder = None =>
                     ~(\E i \in DOMAIN opts.chain : Drives(opts.chain[i].vendor, host, c, available))
      <2>1. CASE opts.chain = <<>>
          <3>1. chosen[c] = pinned[c] BY <2>1
          <3>2. DOMAIN opts.chain = {} BY <2>1
          <3> QED BY <1>7, <1>8, <2>1, <3>1, <3>2
      <2>2. CASE opts.chain # <<>>
          <3>1. chosen[c] = ApplyDeviceSelection(available, pinned, opts.chain, host, order, opts.allow)[c]
              BY <2>2
          <3>2. SoundSelection(available, c, pinned[c]) BY <1>7
          <3>3. Pinned(c) => chosen[c] = pinned[c] BY <1>2, <1>3, <3>1, <3>2, ChainIsSound
          <3> QED BY <1>2, <1>3, <1>8, <3>1, <3>2, <3>3, ChainIsSound
      <2> QED BY <2>1, <2>2
  <1>11. IsDetected(caps, host, opts) BY <1>2, <1>3, <1>9, <1>10 DEF IsDetected, order, available
  <1> QED BY <1>9, <1>10, <1>11 DEF caps

-----------------------------------------------------------------------------
(* The limit is that of one hardware encoder; software has none.            *)
LEMMA SoftwareIsUnlimited ==
  ASSUME NEW name, ~IsHardware(name), NEW pi, NEW height, NEW fps
  PROVE  ~EncodeExceedsLimits(name, pi, height, fps)
  <1>1. KindOf("v4l2m2m") = "v4l2m2m" /\ "v4l2m2m" \in AllEncoderAccelTypes
      BY DEF KindOf, AllEncoderAccelTypes
  <1>2. IsHardware(<<"h264", "v4l2m2m">>) BY <1>1 DEF IsHardware, None
  <1> QED BY <1>2, Zenon DEF EncodeExceedsLimits

(* What an answer owes to the detection and the limits, whatever was asked. *)
SoundAnswer(caps, profile, answer) ==
  answer # Unavailable =>
    /\ answer.encoder # None
    /\ SoundSelection(caps.encoders, profile.codec, answer)
    /\ ~EncodeExceedsLimits(answer.encoder, caps.host.pi, profile.height, profile.fps)

LEMMA SoftwareAnswer ==
  ASSUME NEW caps, None \notin caps.encoders, NEW codec \in Codecs
  PROVE  LET answer == ResolveSoftware(caps, codec)
         IN  /\ answer # Unavailable =>
                  /\ answer.encoder # None /\ ~IsHardware(answer.encoder)
                  /\ SoundSelection(caps.encoders, codec, answer)
             /\ answer = Unavailable => FirstSoftware(caps.encoders, codec) = None
  <1> DEFINE sw == FirstSoftware(caps.encoders, codec)
             answer == [encoder |-> sw, accel |-> "none", fallback |-> None]
  <1>1. CASE sw = None BY <1>1 DEF ResolveSoftware
  <1>2. CASE sw # None
      <2>1. ResolveSoftware(caps, codec) = answer BY <1>2 DEF ResolveSoftware, SoftwareSelection
      <2>2. answer # Unavailable BY DEF Unavailable
      <2> QED BY <1>2, <2>1, <2>2, SoftwareIsSound, SoftwareFound
  <1> QED BY <1>1, <1>2

(* The second search, after the limits rejected an encoder: it misses none. *)
NoneLeft(caps, profile, rejected) ==
  \A i \in DOMAIN caps.chain :
    \A j \in DOMAIN HierarchyForGPU(caps.chain[i].vendor, caps.host) :
      LET name == CodecEncoderMap(profile.codec, HierarchyForGPU(caps.chain[i].vendor, caps.host)[j])
      IN  \/ name \notin caps.encoders \ {rejected}
          \/ EncodeExceedsLimits(name, caps.host.pi, profile.height, profile.fps)

LEMMA FallbackIsSound ==
  ASSUME NEW caps, None \notin caps.encoders, IsHost(caps.host), IsChain(caps.chain),
         caps.allow \in BOOLEAN, NEW profile, profile.codec \in Codecs, NEW rejected
  PROVE  LET answer == FallbackAfterRejected(caps, profile, rejected)
         IN  /\ SoundAnswer(caps, profile, answer)
             /\ ~caps.allow /\ answer # Unavailable => IsHardware(answer.encoder) /\ answer.fallback = None
             /\ answer = Unavailable =>
                  /\ caps.allow => FirstSoftware(caps.encoders, profile.codec) = None
                  /\ NoneLeft(caps, profile, rejected)
  <1> DEFINE Orders(i) == HierarchyForGPU(caps.chain[i].vendor, caps.host)
             Name(a) == CodecEncoderMap(profile.codec, a)
             usable == {a \in AllEncoderAccelTypes :
                          /\ Name(a) \in caps.encoders \ {rejected}
                          /\ ~EncodeExceedsLimits(Name(a), caps.host.pi, profile.height, profile.fps)}
             offers == [i \in DOMAIN caps.chain |-> FirstAccepted(Orders(i), usable, "none")]
             accel  == FirstAccepted(offers, usable, "none")
             fallback == IF caps.allow THEN FirstSoftware(caps.encoders, profile.codec) ELSE None
             answer == FallbackAfterRejected(caps, profile, rejected)
  <1>1. /\ accel # "none" => answer = Hardware(profile.codec, accel, fallback)
        /\ accel = "none" /\ caps.allow => answer = ResolveSoftware(caps, profile.codec)
        /\ accel = "none" /\ ~caps.allow => answer = Unavailable
      BY Zenon DEF FallbackAfterRejected
  <1>2. PICK n \in Nat : DOMAIN caps.chain = 1..n BY DEF IsChain
  <1>3. DOMAIN offers = 1..n BY <1>2
  <1>4. "none" \notin usable BY DEF AllEncoderAccelTypes
  <1>5. \A a : Name(a) \in caps.encoders \ {rejected} => Name(a) # None /\ a \in AllEncoderAccelTypes
      BY HardwareNames
  <1>6. \A a : /\ Name(a) \in caps.encoders \ {rejected}
               /\ ~EncodeExceedsLimits(Name(a), caps.host.pi, profile.height, profile.fps)
               => a \in usable
      BY <1>5
  <1>7. \A a \in usable : /\ Name(a) \in caps.encoders
                          /\ ~EncodeExceedsLimits(Name(a), caps.host.pi, profile.height, profile.fps)
      OBVIOUS
  <1>8. \A i \in 1..n : offers[i] = FirstAccepted(Orders(i), usable, "none") BY <1>2
  <1> HIDE DEF usable, offers, accel, answer
  <1>9. \/ accel = "none" /\ \A i \in 1..n : offers[i] \notin usable
        \/ accel \in usable
      BY <1>3, <1>4, FirstIsAccepted DEF accel
  <1>10. ASSUME accel = "none", NEW i \in DOMAIN caps.chain, NEW j \in DOMAIN Orders(i)
         PROVE  Orders(i)[j] \notin usable
      <2>1. Orders(i) \in Seq(Backends) BY HierarchiesAreLists
      <2>2. Len(Orders(i)) \in Nat /\ DOMAIN Orders(i) = 1..Len(Orders(i)) BY <2>1
      <2>3. offers[i] \notin usable BY <1>2, <1>4, <1>9, <1>10
      <2>4. FirstAccepted(Orders(i), usable, "none") \notin usable BY <1>2, <1>8, <2>3
      <2> HIDE DEF Orders
      <2> QED BY <1>4, <1>10, <2>2, <2>4, FirstIsAccepted
  <1>11. ASSUME accel = "none", NEW i \in DOMAIN caps.chain, NEW j \in DOMAIN Orders(i)
         PROVE  \/ Name(Orders(i)[j]) \notin caps.encoders \ {rejected}
                \/ EncodeExceedsLimits(Name(Orders(i)[j]), caps.host.pi, profile.height, profile.fps)
      BY <1>6, <1>10, <1>11
  <1>12. CASE accel # "none"
      <2>1. Name(accel) \in caps.encoders
            /\ ~EncodeExceedsLimits(Name(accel), caps.host.pi, profile.height, profile.fps)
          BY <1>7, <1>9, <1>12
      <2>2. answer = Hardware(profile.codec, accel, fallback) BY <1>1, <1>12
      <2>3. ~caps.allow => fallback = None OBVIOUS
      <2> HIDE DEF fallback
      <2>4. /\ SoundSelection(caps.encoders, profile.codec, answer) /\ IsHardware(answer.encoder)
            /\ answer.encoder # None /\ answer # Unavailable /\ answer.encoder = Name(accel)
            /\ answer.fallback = fallback
          BY <2>1, <2>2, HardwareIsSound
      <2> QED BY <2>1, <2>3, <2>4, Zenon DEF SoundAnswer, answer
  <1>13. CASE accel = "none" /\ caps.allow
      <2>1. answer = ResolveSoftware(caps, profile.codec) BY <1>1, <1>13
      <2>2. SoundAnswer(caps, profile, answer)
          BY <2>1, SoftwareAnswer, SoftwareIsUnlimited DEF SoundAnswer
      <2>3. answer = Unavailable => FirstSoftware(caps.encoders, profile.codec) = None
          BY <2>1, SoftwareAnswer
      <2> QED BY <1>11, <1>13, <2>2, <2>3 DEF answer, NoneLeft
  <1>14. CASE accel = "none" /\ ~caps.allow
      <2>1. answer = Unavailable BY <1>1, <1>14
      <2>2. SoundAnswer(caps, profile, answer) BY <2>1 DEF SoundAnswer
      <2> QED BY <1>11, <1>14, <2>1, <2>2 DEF answer, NoneLeft
  <1> QED BY <1>12, <1>13, <1>14

(* What the resolver relies on of the capabilities it is given.             *)
Resolvable(caps) ==
  /\ None \notin caps.encoders /\ IsHost(caps.host) /\ IsChain(caps.chain) /\ caps.allow \in BOOLEAN
  /\ \A c \in Codecs : SoundSelection(caps.encoders, c, caps.matrix[c])

LEMMA DetectedIsResolvable ==
  ASSUME NEW host, IsHost(host), NEW opts, IsChain(opts.chain), opts.allow \in BOOLEAN,
         NEW caps, IsDetected(caps, host, opts)
  PROVE  Resolvable(caps)
  BY DEF IsDetected, Resolvable

(* The ways through ResolveEncoder.                                         *)
Final(caps, profile, found) ==
  IF found = Unavailable THEN Unavailable ELSE FinalizeEncoderSelection(caps, profile, found)

LEMMA WaysOfResolve ==
  ASSUME NEW caps, NEW profile, IsRequest(profile)
  PROVE  LET answer == ResolveEncoder(caps, profile)
         IN  /\ ~ValidateProfileOverrides(profile) => answer = Unavailable
             /\ ValidateProfileOverrides(profile) /\ profile.encoder # None =>
                  answer = Final(caps, profile, ResolveExplicitEncoder(caps, profile.codec, profile.encoder))
             /\ profile.encoder = None /\ (profile.software \/ profile.accel = "none") =>
                  answer = ResolveSoftware(caps, profile.codec)
             /\ profile.encoder = None /\ ~profile.software /\ profile.accel = "" =>
                  answer = Final(caps, profile, ResolvePreferred(caps, profile.codec))
             /\ profile.encoder = None /\ ~profile.software /\ profile.accel \notin {"", "none"} =>
                  answer = Final(caps, profile, ResolveHardware(caps, profile.codec, profile.accel))
  <1>1. profile.encoder = None => ValidateProfileOverrides(profile) BY DEF ValidateProfileOverrides
  <1> QED BY <1>1, Zenon DEF ResolveEncoder, Final

LEMMA FinalIsSound ==
  ASSUME NEW caps, Resolvable(caps), NEW profile, profile.codec \in Codecs, NEW found,
         found # Unavailable, found.encoder # None, SoundSelection(caps.encoders, profile.codec, found)
  PROVE  LET answer == FinalizeEncoderSelection(caps, profile, found)
         IN  /\ SoundAnswer(caps, profile, answer)
             /\ \/ answer \in {found, Unavailable}
                \/ profile.encoder = None /\ profile.accel \in {"", "none"}
  <1>1. CASE ~EncodeExceedsLimits(found.encoder, caps.host.pi, profile.height, profile.fps)
      BY <1>1 DEF FinalizeEncoderSelection, SoundAnswer
  <1>2. CASE EncodeExceedsLimits(found.encoder, caps.host.pi, profile.height, profile.fps)
      <2>1. CASE profile.encoder # None \/ profile.accel \notin {"", "none"}
          BY <1>2, <2>1 DEF FinalizeEncoderSelection, SoundAnswer
      <2>2. CASE profile.encoder = None /\ profile.accel \in {"", "none"}
          <3>1. FinalizeEncoderSelection(caps, profile, found)
                  = FallbackAfterRejected(caps, profile, found.encoder)
              BY <1>2, <2>2 DEF FinalizeEncoderSelection
          <3>2. SoundAnswer(caps, profile, FallbackAfterRejected(caps, profile, found.encoder))
              BY FallbackIsSound DEF Resolvable
          <3> QED BY <2>2, <3>1, <3>2
      <2> QED BY <2>1, <2>2
  <1> QED BY <1>1, <1>2

LEMMA AnswersHonourRequests ==
  ASSUME NEW caps, Resolvable(caps), NEW profile, IsRequest(profile)
  PROVE  ChoiceHonoursRequest(caps, profile)
  <1> DEFINE answer == ResolveEncoder(caps, profile)
             Kept == /\ profile.encoder # None => answer.encoder = profile.encoder
                     /\ profile.software => ~IsHardware(answer.encoder)
                     /\ profile.encoder = None /\ ~profile.software /\ profile.accel # "" =>
                          EncoderAccel(answer.encoder) = KindOf(profile.accel)
  <1>0. profile.codec \in Codecs /\ profile.software \in BOOLEAN BY DEF IsRequest
  <1>1. SUFFICES ASSUME answer # Unavailable
                 PROVE  SoundAnswer(caps, profile, answer) /\ Kept
      BY DEF ChoiceHonoursRequest, SoundAnswer, SoundSelection
  <1>2. CASE profile.encoder # None
      <2> DEFINE found == ResolveExplicitEncoder(caps, profile.codec, profile.encoder)
      <2>1. ~profile.software /\ answer = Final(caps, profile, found)
          <3>1. ValidateProfileOverrides(profile) BY <1>0, <1>1, WaysOfResolve
          <3> QED BY <1>0, <1>2, <3>1, WaysOfResolve DEF ValidateProfileOverrides
      <2>2. found # Unavailable BY <1>1, <2>1 DEF Final
      <2>3. /\ EncoderMatchesCodec(profile.encoder, profile.codec) /\ profile.encoder \in caps.encoders
            /\ found.encoder = profile.encoder /\ found.accel = EncoderAccel(profile.encoder)
          BY <2>2 DEF ResolveExplicitEncoder
      <2>4. KindOf(EncoderAccel(profile.encoder)) = EncoderAccel(profile.encoder)
          BY KindsAreKinds
      <2>5. SoundSelection(caps.encoders, profile.codec, found) BY <2>3, <2>4 DEF SoundSelection
      <2> HIDE DEF found
      <2>6. answer = FinalizeEncoderSelection(caps, profile, found) BY <2>1, <2>2 DEF Final
      <2> HIDE DEF answer
      <2>7. SoundAnswer(caps, profile, answer) /\ answer = found
          BY <1>0, <1>1, <1>2, <2>2, <2>3, <2>5, <2>6, FinalIsSound
      <2> QED BY <1>2, <2>1, <2>3, <2>7
  <1>3. CASE profile.encoder = None /\ (profile.software \/ profile.accel = "none")
      <2>1. answer = ResolveSoftware(caps, profile.codec) BY <1>0, <1>3, WaysOfResolve
      <2> HIDE DEF answer
      <2>2. /\ answer.encoder # None /\ ~IsHardware(answer.encoder)
            /\ SoundSelection(caps.encoders, profile.codec, answer)
          BY <1>0, <1>1, <2>1, SoftwareAnswer DEF Resolvable
      <2>3. SoundAnswer(caps, profile, answer) BY <2>2, SoftwareIsUnlimited DEF SoundAnswer
      <2>4. EncoderAccel(answer.encoder) = "none" /\ KindOf("none") = "none"
          BY <2>2 DEF EncoderAccel, KindOf
      <2> QED BY <1>3, <2>2, <2>3, <2>4
  <1>4. CASE profile.encoder = None /\ ~profile.software /\ profile.accel = ""
      <2> DEFINE found == ResolvePreferred(caps, profile.codec)
      <2>1. answer = Final(caps, profile, found) BY <1>0, <1>4, WaysOfResolve
      <2>2. found # Unavailable BY <1>1, <2>1 DEF Final
      <2>3. found.encoder # None /\ found = caps.matrix[profile.codec]
          BY <2>2 DEF ResolvePreferred
      <2>4. SoundSelection(caps.encoders, profile.codec, found) BY <1>0, <2>3 DEF Resolvable
      <2> HIDE DEF found
      <2>5. answer = FinalizeEncoderSelection(caps, profile, found) BY <2>1, <2>2 DEF Final
      <2> HIDE DEF answer
      <2>6. SoundAnswer(caps, profile, answer)
          BY <1>0, <2>2, <2>3, <2>4, <2>5, FinalIsSound
      <2> QED BY <1>4, <2>6
  <1>5. CASE profile.encoder = None /\ ~profile.software /\ profile.accel \notin {"", "none"}
      <2> DEFINE found == ResolveHardware(caps, profile.codec, profile.accel)
      <2>1. answer = Final(caps, profile, found) /\ ~profile.software
          BY <1>0, <1>5, WaysOfResolve
      <2>2. found # Unavailable BY <1>1, <2>1 DEF Final
      <2>3. /\ CodecEncoderMap(profile.codec, profile.accel) \in caps.encoders
            /\ found = Hardware(profile.codec, profile.accel, FirstSoftware(caps.encoders, profile.codec))
          BY <2>2 DEF ResolveHardware
      <2> HIDE DEF found
      <2>4. /\ SoundSelection(caps.encoders, profile.codec, found) /\ found.encoder # None
            /\ EncoderAccel(found.encoder) = KindOf(profile.accel)
          BY <2>3, HardwareIsSound DEF Resolvable
      <2>5. answer = FinalizeEncoderSelection(caps, profile, found) BY <2>1, <2>2 DEF Final
      <2> HIDE DEF answer
      <2>6. SoundAnswer(caps, profile, answer) /\ answer = found
          BY <1>0, <1>1, <1>5, <2>1, <2>2, <2>4, <2>5, FinalIsSound
      <2> QED BY <1>5, <2>1, <2>4, <2>6
  <1> QED BY <1>2, <1>3, <1>4, <1>5

(* THEOREM: on every host, with any device chain and backend order, an      *)
(* answer of the resolver names an available encoder of the codec, within   *)
(* the limits of the board, of the accel it reports, and keeps the encoder, *)
(* accel or software the request asked for (encode/resolve.go).             *)
THEOREM ChoicesHonourRequests ==
  ASSUME NEW host, IsHost(host), NEW opts, opts.hierarchy \in Seq(Backends), opts.allow \in BOOLEAN,
         IsChain(opts.chain), ~Detect(host, opts).error, NEW profile, IsRequest(profile)
  PROVE  ChoiceHonoursRequest(Detect(host, opts), profile)
  <1>1. Resolvable(Detect(host, opts)) BY DetectionIsSound, DetectedIsResolvable
  <1> QED BY <1>1, AnswersHonourRequests

(* THEOREM: with the software fallback off and no software in the chain, an *)
(* automatic request never ends in software, neither by the preferred       *)
(* encoder of the matrix nor by the search after the limits rejected it     *)
(* (device_selection.go, resolve_limits.go).                                *)
THEOREM SoftwareIsNeverUnasked ==
  ASSUME NEW host, IsHost(host), NEW opts, opts.hierarchy \in Seq(Backends), opts.allow \in BOOLEAN,
         IsChain(opts.chain), opts.chain # <<>>, ~Detect(host, opts).error,
         NEW profile, IsRequest(profile)
  PROVE  NoUnaskedSoftware(Detect(host, opts), profile)
  <1> DEFINE caps  == Detect(host, opts)
             answer == ResolveEncoder(caps, profile)
             found == caps.matrix[profile.codec]
  <1>0. profile.codec \in Codecs /\ profile.software \in BOOLEAN BY DEF IsRequest
  <1>1. /\ IsDetected(caps, host, opts)
        /\ LET pinned == profile.codec = "h264" /\ PiDefaultH264(host.pi) # None
           IN  ~pinned /\ ~caps.allow /\ (\A i \in DOMAIN caps.chain : ~caps.chain[i].software)
                 /\ found.encoder # None => IsHardware(found.encoder) /\ found.fallback = None
      BY <1>0, DetectionIsSound
  <1>2. Resolvable(caps) BY <1>1, DetectedIsResolvable
  <1>3. caps.host = host BY <1>1 DEF IsDetected
  <1> HIDE DEF caps
  <1>4. SUFFICES ASSUME ~caps.allow, \A i \in DOMAIN caps.chain : ~caps.chain[i].software,
                        profile.encoder = None, ~profile.software, profile.accel = "",
                        profile.codec = "h264" => PiDefaultH264(caps.host.pi) = None,
                        answer # Unavailable
                 PROVE  IsHardware(answer.encoder) /\ answer.fallback = None
      BY DEF NoUnaskedSoftware, caps
  <1>5. answer = Final(caps, profile, ResolvePreferred(caps, profile.codec))
      BY <1>0, <1>4, WaysOfResolve
  <1>6. found.encoder # None /\ ResolvePreferred(caps, profile.codec) = found
      BY <1>4, <1>5 DEF Final, ResolvePreferred
  <1>7. IsHardware(found.encoder) /\ found.fallback = None BY <1>1, <1>3, <1>4, <1>6
  <1>8. answer = FinalizeEncoderSelection(caps, profile, found) BY <1>4, <1>5, <1>6 DEF Final
  <1>9. answer = found \/ answer = FallbackAfterRejected(caps, profile, found.encoder)
      BY <1>4, <1>8 DEF FinalizeEncoderSelection
  <1> HIDE DEF answer, found
  <1>10. answer = FallbackAfterRejected(caps, profile, found.encoder) =>
           IsHardware(answer.encoder) /\ answer.fallback = None
      <2> DEFINE second == FallbackAfterRejected(caps, profile, found.encoder)
      <2>1. ~caps.allow /\ second # Unavailable => IsHardware(second.encoder) /\ second.fallback = None
          BY <1>0, <1>2, FallbackIsSound DEF Resolvable
      <2> HIDE DEF second
      <2>2. answer = second => IsHardware(answer.encoder) /\ answer.fallback = None BY <1>4, <2>1
      <2> QED BY <2>2 DEF second
  <1> QED BY <1>4, <1>7, <1>9, <1>10

(* THEOREM: an automatic request is refused only when no device of the      *)
(* chain has an encoder of the codec within the limits and software is off  *)
(* or missing.  H.264 on a Raspberry Pi is pinned to one encoder, which     *)
(* must then be there, or a software one.                                   *)
THEOREM AutomaticRequestsSucceed ==
  ASSUME NEW host, IsHost(host), NEW opts, opts.hierarchy \in Seq(Backends), opts.allow \in BOOLEAN,
         IsChain(opts.chain), ~Detect(host, opts).error, NEW profile, IsRequest(profile),
         profile.codec = "h264" /\ PiDefaultH264(host.pi) # None =>
           FirstSoftware(Detect(host, opts).encoders, "h264") # None
  PROVE  AutomaticSucceeds(Detect(host, opts), profile)
  <1> DEFINE caps  == Detect(host, opts)
             codec == profile.codec
             answer == ResolveEncoder(caps, profile)
             found == caps.matrix[codec]
             pinned == codec = "h264" /\ PiDefaultH264(host.pi) # None
             drives == \E i \in DOMAIN caps.chain : Drives(caps.chain[i].vendor, host, codec, caps.encoders)
  <1>0. profile.codec \in Codecs /\ profile.software \in BOOLEAN BY DEF IsRequest
  <1>1. /\ IsDetected(caps, host, opts)
        /\ found.encoder = None =>
             /\ pinned \/ caps.allow => FirstSoftware(caps.encoders, codec) = None
             /\ ~pinned => ~drives
      BY <1>0, DetectionIsSound
  <1>2. Resolvable(caps) BY <1>1, DetectedIsResolvable
  <1>3. caps.host = host BY <1>1 DEF IsDetected
  <1>4. pinned => FirstSoftware(caps.encoders, codec) # None OBVIOUS
  <1> HIDE DEF caps, drives, pinned
  <1>5. SUFFICES ASSUME profile.encoder = None, ~profile.software, profile.accel = "",
                        NEW name \in Eligible(caps, profile)
                 PROVE  answer # Unavailable
      BY DEF AutomaticSucceeds, caps
  <1>6. /\ name \in caps.encoders /\ EncoderMatchesCodec(name, codec) /\ name # None
        /\ ~EncodeExceedsLimits(name, caps.host.pi, profile.height, profile.fps)
      BY <1>2 DEF Eligible, Resolvable
  <1>7. IsHardware(name) => \E i \in DOMAIN caps.chain :
                              \E j \in DOMAIN HierarchyForGPU(caps.chain[i].vendor, host) :
                                CodecEncoderMap(codec, HierarchyForGPU(caps.chain[i].vendor, host)[j]) = name
      BY <1>3, Zenon DEF Eligible, Range
  <1>8. ~IsHardware(name) => caps.allow /\ FirstSoftware(caps.encoders, codec) # None
      <2>1. ~IsHardware(name) => caps.allow BY Zenon DEF Eligible
      <2> QED BY <1>0, <1>2, <1>6, <2>1, SoftwareFound DEF Resolvable
  <1>9. IsHardware(name) => drives BY <1>6, <1>7 DEF drives, Drives
  <1>10. found.encoder # None BY <1>1, <1>4, <1>8, <1>9
  <1>11. answer = Final(caps, profile, ResolvePreferred(caps, codec))
      BY <1>0, <1>5, WaysOfResolve
  <1>12. ResolvePreferred(caps, codec) = found BY <1>10 DEF ResolvePreferred
  <1>13. found # Unavailable BY <1>10 DEF Unavailable
  <1>14. answer = FinalizeEncoderSelection(caps, profile, found) BY <1>11, <1>12, <1>13 DEF Final
  <1>15. CASE ~EncodeExceedsLimits(found.encoder, caps.host.pi, profile.height, profile.fps)
      BY <1>13, <1>14, <1>15 DEF FinalizeEncoderSelection
  <1>16. CASE EncodeExceedsLimits(found.encoder, caps.host.pi, profile.height, profile.fps)
      <2> DEFINE second == FallbackAfterRejected(caps, profile, found.encoder)
      <2>1. answer = second BY <1>5, <1>14, <1>16 DEF FinalizeEncoderSelection
      <2>2. name # found.encoder BY <1>6, <1>16
      <2>3. second = Unavailable => /\ caps.allow => FirstSoftware(caps.encoders, codec) = None
                                    /\ NoneLeft(caps, profile, found.encoder)
          BY <1>0, <1>2, FallbackIsSound DEF Resolvable
      <2>4. IsHardware(name) => ~NoneLeft(caps, profile, found.encoder)
          BY <1>3, <1>6, <1>7, <2>2, Zenon DEF NoneLeft
      <2> QED BY <1>8, <2>1, <2>3, <2>4
  <1> QED BY <1>15, <1>16

(* An explicit order is the order of the detection.                         *)
LEMMA ExplicitOrderIsKept ==
  ASSUME NEW host, NEW opts, ExplicitHierarchy(opts) # <<>>
  PROVE  DetectHierarchy(host, opts) = ExplicitHierarchy(opts)
  <1> DEFINE given == ExplicitHierarchy(opts)
  <1>1. given # <<>> OBVIOUS
  <1> HIDE DEF given
  <1>2. ASSUME NEW gpu
        PROVE  MergeVulkanHierarchy(ResolveEncoderHierarchy(given, opts.performance, gpu, host),
                                    given, opts.vulkan) = given
      <2>1. ResolveEncoderHierarchy(given, opts.performance, gpu, host) = given
          BY <1>1 DEF ResolveEncoderHierarchy
      <2> QED BY <1>1, <2>1 DEF MergeVulkanHierarchy
  <1>3. DetectHierarchy(host, opts) = given BY <1>2, Zenon DEF DetectHierarchy, given
  <1> QED BY <1>3 DEF given

(* THEOREM: the order a report shows keeps every backend of the order of    *)
(* the detection that some codec can be asked of by name; it names no other *)
(* one unless the caller gave the order, which is then shown as it is       *)
(* (capabilities/detect.go, encode/resolve.go).                             *)
THEOREM ReportsAreUsable ==
  ASSUME NEW host, IsHost(host), NEW opts, opts.hierarchy \in Seq(Backends), opts.allow \in BOOLEAN,
         IsChain(opts.chain), ~Detect(host, opts).error
  PROVE  ReportIsUsable(Detect(host, opts), opts)
  <1> DEFINE caps == Detect(host, opts)
             answers(a) == \E c \in Codecs : ResolveHardware(caps, c, a) # Unavailable
             offers(a) == \E c \in Codecs : CodecEncoderMap(c, a) \in caps.encoders
             usable == {a \in Range(caps.order) : a = "none" \/ offers(a)}
             pruned == IF usable = {} THEN {"none"} ELSE usable
             explicit == ExplicitHierarchy(opts)
  <1>1. IsDetected(caps, host, opts) BY DetectionIsSound
  <1> HIDE DEF caps
  <1>2. ASSUME NEW a PROVE answers(a) <=> offers(a)
      <2>1. ASSUME NEW c \in Codecs
            PROVE  ResolveHardware(caps, c, a) # Unavailable <=> CodecEncoderMap(c, a) \in caps.encoders
          <3>1. CASE CodecEncoderMap(c, a) \in caps.encoders
              <4>1. ResolveHardware(caps, c, a) = Hardware(c, a, FirstSoftware(caps.encoders, c))
                  BY <3>1 DEF ResolveHardware
              <4>2. None \notin caps.encoders BY <1>1 DEF IsDetected
              <4>3. Hardware(c, a, FirstSoftware(caps.encoders, c)) # Unavailable
                  BY <3>1, <4>2, HardwareIsSound
              <4> QED BY <3>1, <4>1, <4>3
          <3>2. CASE CodecEncoderMap(c, a) \notin caps.encoders BY <3>2 DEF ResolveHardware
          <3> QED BY <3>1, <3>2
      <2> QED BY <2>1
  <1>3. pruned = UsableHierarchy(caps.encoders, caps.order) BY Zenon DEF UsableHierarchy
  <1>4. /\ caps.order = DetectHierarchy(host, opts)
        /\ caps.shown = IF explicit = <<>> THEN pruned ELSE Range(caps.order)
      BY <1>1, <1>3, Zenon DEF IsDetected, Shown
  <1>5. /\ \A a \in pruned : a = "none" \/ offers(a)
        /\ \A a \in Range(caps.order) : offers(a) => a \in pruned
      OBVIOUS
  <1> HIDE DEF offers, answers, pruned, explicit
  <1>6. CASE opts.hierarchy # <<>>
      <2>1. explicit = opts.hierarchy BY <1>6, Zenon DEF explicit, ExplicitHierarchy
      <2>2. caps.order = opts.hierarchy BY <1>4, <1>6, <2>1, ExplicitOrderIsKept DEF explicit
      <2>3. caps.shown = Range(opts.hierarchy) /\ Range(caps.order) = Range(opts.hierarchy)
          BY <1>4, <1>6, <2>1, <2>2
      <2> QED BY <1>6, <2>3 DEF ReportIsUsable, caps
  <1>7. CASE opts.hierarchy = <<>>
      <2>1. explicit \in {<<>>, <<"none">>} BY <1>7, Zenon DEF explicit, ExplicitHierarchy
      <2>2. CASE explicit = <<>>
          <3>1. /\ \A a \in caps.shown : a = "none" \/ answers(a)
                /\ \A a \in Range(caps.order) : answers(a) => a \in caps.shown
              BY <1>2, <1>4, <1>5, <2>2
          <3> QED BY <1>7, <3>1, Zenon DEF ReportIsUsable, answers, caps
      <2>3. CASE explicit = <<"none">>
          <3>1. caps.order = explicit BY <1>4, <2>3, ExplicitOrderIsKept DEF explicit
          <3>2. Range(caps.order) = {"none"} BY <2>3, <3>1 DEF Range
          <3>3. caps.shown = {"none"} BY <1>4, <2>3, <3>2
          <3>4. /\ \A a \in caps.shown : a = "none" \/ answers(a)
                /\ \A a \in Range(caps.order) : answers(a) => a \in caps.shown
              BY <3>2, <3>3
          <3> QED BY <1>7, <3>4, Zenon DEF ReportIsUsable, answers, caps
      <2> QED BY <2>1, <2>2, <2>3
  <1> QED BY <1>6, <1>7

(* The service's defaults fill only what a request leaves open.             *)
LEMMA DefaultsYield ==
  ASSUME NEW caps, NEW profile, IsRequest(profile), NEW preferred
  PROVE  EncodeDefaultsYield(caps, profile, preferred)
  <1> DEFINE filled == ApplyEncodeDefaults(profile, preferred)
  <1>1. CASE profile.software \/ profile.encoder # None \/ profile.accel # "" \/ preferred = ""
      <2>1. filled = profile BY <1>1 DEF ApplyEncodeDefaults
      <2> QED BY <2>1 DEF EncodeDefaultsYield
  <1>2. CASE ~(profile.software \/ profile.encoder # None \/ profile.accel # "" \/ preferred = "")
      <2>1. filled.encoder = None BY <1>2 DEF ApplyEncodeDefaults, IsRequest
      <2>2. ValidateProfileOverrides(filled) BY <2>1 DEF ValidateProfileOverrides
      <2> QED BY <1>2, <2>2 DEF EncodeDefaultsYield
  <1> QED BY <1>1, <1>2

-----------------------------------------------------------------------------
(* The options of an encoder.                                               *)
Qualities == {"ultrafast", "veryfast", "fast", "medium"}

LEMMA QualityIsKnown ==
  ASSUME NEW profile, profile.quality \in Qualities \cup {""}
  PROVE  ProfileEncodeOpts(profile).quality \in Qualities
  BY DEF ProfileEncodeOpts, Qualities

LEMMA HardwarePresetFits ==
  ASSUME NEW codec, NEW kind \in {KindOf(a) : a \in AllEncoderAccelTypes}, NEW q \in Qualities
  PROVE  HardwarePreset(kind, codec, q) \in EncoderPresets(<<codec, kind>>)
  <1> DEFINE name == <<codec, kind>>
  <1>1. name[2] = kind OBVIOUS
  <1>2. kind \in {"nvenc", "vaapi", "qsv", "amf", "videotoolbox", "v4l2m2m", "vulkan"}
      BY DEF KindOf, AllEncoderAccelTypes
  <1> HIDE DEF name
  <1>3. CASE kind = "nvenc"
      <2>1. NvencPreset(q) \in {"p1", "p3", "p4"} BY DEF NvencPreset, Qualities
      <2>2. HardwarePreset(kind, codec, q) = NvencPreset(q) BY <1>3 DEF HardwarePreset
      <2>3. EncoderPresets(name) = {"p1", "p2", "p3", "p4", "p5", "p6", "p7"}
          BY <1>1, <1>3 DEF EncoderPresets
      <2> QED BY <2>1, <2>2, <2>3 DEF name
  <1>4. CASE kind = "qsv"
      <2>1. QsvPreset(q) \in {"7", "6", "4"} BY DEF QsvPreset, Qualities
      <2>2. HardwarePreset(kind, codec, q) = QsvPreset(q) BY <1>4 DEF HardwarePreset
      <2>3. EncoderPresets(name) = {"1", "2", "3", "4", "5", "6", "7"}
          BY <1>1, <1>4 DEF EncoderPresets
      <2> QED BY <2>1, <2>2, <2>3 DEF name
  <1>5. CASE kind = "amf"
      <2>1. AmfQualityPreset(q, codec) \in {"speed", "balanced", "quality"}
          BY DEF AmfQualityPreset, Qualities
      <2>2. HardwarePreset(kind, codec, q) = AmfQualityPreset(q, codec) BY <1>5 DEF HardwarePreset
      <2>3. EncoderPresets(name) = {"speed", "balanced", "quality"}
          BY <1>1, <1>5 DEF EncoderPresets
      <2> QED BY <2>1, <2>2, <2>3 DEF name
  <1>6. CASE kind \in {"vaapi", "videotoolbox", "v4l2m2m", "vulkan"}
      <2>1. HardwarePreset(kind, codec, q) = "" BY <1>6 DEF HardwarePreset
      <2>2. EncoderPresets(name) = {""} BY <1>1, <1>6 DEF EncoderPresets
      <2> QED BY <2>1, <2>2 DEF name
  <1> QED BY <1>2, <1>3, <1>4, <1>5, <1>6

LEMMA LibraryPresets ==
  ASSUME NEW name
  PROVE  /\ name[2] \in {"libx264", "libx265"} =>
              EncoderPresets(name)
                = {"ultrafast", "superfast", "veryfast", "faster", "fast", "medium", "slow"}
         /\ name[2] = "libvvenc" =>
              EncoderPresets(name) = {"faster", "fast", "medium", "slow", "slower"}
         /\ name[2] = "libvpx-vp9" => EncoderPresets(name) = {"best", "good", "realtime"}
  <1> DEFINE library == name[2]
  <1>1. library \in {"libx264", "libx265", "libvvenc", "libvpx-vp9"} =>
          library \notin {"nvenc", "qsv", "amf"}
      OBVIOUS
  <1>2. ASSUME library \in {"libx264", "libx265"}
        PROVE  EncoderPresets(name)
                 = {"ultrafast", "superfast", "veryfast", "faster", "fast", "medium", "slow"}
      BY <1>2 DEF EncoderPresets
  <1>3. ASSUME library = "libvvenc"
        PROVE  EncoderPresets(name) = {"faster", "fast", "medium", "slow", "slower"}
      BY <1>3 DEF EncoderPresets
  <1>4. ASSUME library = "libvpx-vp9"
        PROVE  EncoderPresets(name) = {"best", "good", "realtime"}
      BY <1>4 DEF EncoderPresets
  <1> QED BY <1>2, <1>3, <1>4

LEMMA LibraryPresetFits ==
  ASSUME NEW q \in Qualities, NEW name
  PROVE  /\ name[2] = "libx264" => X264Preset(q) \in EncoderPresets(name)
         /\ name[2] = "libx265" => X265Preset(q) \in EncoderPresets(name)
         /\ name[2] = "libvvenc" => VvencPreset(q) \in EncoderPresets(name)
         /\ name[2] = "libvpx-vp9" => Vp9Deadline(q) \in EncoderPresets(name)
  <1>1. X264Preset(q) \in {"ultrafast", "superfast", "veryfast", "faster", "fast", "medium", "slow"}
      BY DEF X264Preset, Qualities
  <1>2. X265Preset(q) \in {"ultrafast", "superfast", "veryfast", "faster", "fast", "medium", "slow"}
      BY DEF X265Preset, Qualities
  <1>3. VvencPreset(q) \in {"faster", "fast", "medium", "slow", "slower"}
      BY DEF VvencPreset, Qualities
  <1>4. Vp9Deadline(q) \in {"best", "good", "realtime"} BY DEF Vp9Deadline, Qualities
  <1> QED BY <1>1, <1>2, <1>3, <1>4, LibraryPresets

LEMMA LibrariesOfCodec ==
  ASSUME NEW codec, NEW name,
         \E i \in DOMAIN SoftwareFallback(codec) : SoftwareFallback(codec)[i] = name
  PROVE  /\ codec = "h264" => name[2] = "libx264"
         /\ codec = "hevc" => \/ name = <<"hevc", "libvvenc">> /\ name[2] = "libvvenc"
                              \/ name # <<"hevc", "libvvenc">> /\ name[2] = "libx265"
         /\ codec = "vp9" => /\ name[2] = "libvpx-vp9" /\ name = <<"vp9", "libvpx-vp9">>
                             /\ Head(SoftwareFallback(codec)) = <<"vp9", "libvpx-vp9">>
  <1>1. CASE codec = "h264"
      <2>1. SoftwareFallback(codec) = << <<"h264", "libx264">> >> BY <1>1 DEF SoftwareFallback
      <2> QED BY <1>1, <2>1
  <1>2. CASE codec = "hevc"
      <2>1. SoftwareFallback(codec) = << <<"hevc", "libx265">>, <<"hevc", "libvvenc">> >>
          BY <1>2 DEF SoftwareFallback
      <2> QED BY <1>2, <2>1
  <1>3. CASE codec = "vp9"
      <2>1. SoftwareFallback(codec) = << <<"vp9", "libvpx-vp9">> >> BY <1>3 DEF SoftwareFallback
      <2> QED BY <1>3, <2>1
  <1> QED BY <1>1, <1>2, <1>3

(* An encoder that fits a codec, by name.                                   *)
LEMMA NamesOfCodec ==
  ASSUME NEW codec \in Codecs, NEW name, EncoderMatchesCodec(name, codec), name # None
  PROVE  \/ /\ ~IsHardware(name) /\ EncoderAccel(name) = "none"
            /\ \E i \in DOMAIN SoftwareFallback(codec) : SoftwareFallback(codec)[i] = name
         \/ IsHardware(name) /\ name = <<codec, EncoderAccel(name)>>
            /\ EncoderAccel(name) \in {KindOf(a) : a \in AllEncoderAccelTypes}
  <1>1. CASE \E i \in DOMAIN SoftwareFallback(codec) : SoftwareFallback(codec)[i] = name
      BY <1>1, FallbacksAreSoftware
  <1>2. CASE \E accel \in AllEncoderAccelTypes : CodecEncoderMap(codec, accel) = name
      <2>1. PICK accel \in AllEncoderAccelTypes : CodecEncoderMap(codec, accel) = name BY <1>2
      <2>2. name = <<codec, KindOf(accel)>> /\ IsHardware(name) /\ EncoderAccel(name) = KindOf(accel)
          BY <2>1, HardwareNames
      <2> QED BY <2>1, <2>2
  <1> QED BY <1>1, <1>2 DEF EncoderMatchesCodec

LEMMA OptionsFitAnswers ==
  ASSUME NEW caps, Resolvable(caps),
         NEW profile, IsRequest(profile), profile.quality \in Qualities \cup {""}
  PROVE  OptionsFitEncoder(caps, profile)
  <1> DEFINE sel  == ResolveEncoder(caps, profile)
             args == VideoEncoderArgs(caps, profile)
             kind == KindOf(sel.accel)
             q    == ProfileEncodeOpts(profile).quality
  <1>1. SUFFICES ASSUME sel # Unavailable,
                        ~(profile.codec = "hevc" /\ kind \in {"amf", "v4l2m2m"}),
                        profile.codec = "av1" => IsHardware(sel.encoder)
                 PROVE  args.encoder = sel.encoder /\ args.preset \in EncoderPresets(sel.encoder)
      BY Zenon DEF OptionsFitEncoder
  <1>2. /\ sel.encoder \in caps.encoders /\ EncoderMatchesCodec(sel.encoder, profile.codec)
        /\ EncoderAccel(sel.encoder) = kind
      <2>1. ChoiceHonoursRequest(caps, profile) BY AnswersHonourRequests
      <2> QED BY <1>1, <2>1, Zenon DEF ChoiceHonoursRequest
  <1>3. sel.encoder # None BY <1>2 DEF Resolvable
  <1>4. profile.codec \in Codecs BY DEF IsRequest
  <1>5. q \in Qualities BY QualityIsKnown
  <1> DEFINE named == IF kind # "none" \/ profile.codec \in {"h264", "hevc"} THEN sel.encoder
                      ELSE Head(SoftwareFallback(profile.codec))
             preset ==
               IF kind # "none" /\ ~(profile.codec = "hevc" /\ kind \in {"amf", "v4l2m2m"})
                 THEN HardwarePreset(kind, profile.codec, q)
               ELSE CASE profile.codec = "h264" -> X264Preset(q)
                      [] profile.codec = "av1"  -> Svtav1Preset(q)
                      [] profile.codec = "vp9"  -> Vp9Deadline(q)
                      [] profile.codec = "hevc" ->
                           IF sel.encoder = <<"hevc", "libvvenc">> THEN VvencPreset(q) ELSE X265Preset(q)
  <1>6. args.encoder = named /\ args.preset = preset BY DEF VideoEncoderArgs
  <1> HIDE DEF args, sel, q, kind
  <1>7. CASE IsHardware(sel.encoder)
      <2>1. /\ sel.encoder = <<profile.codec, kind>>
            /\ kind \in {KindOf(a) : a \in AllEncoderAccelTypes}
          BY <1>2, <1>3, <1>4, <1>7, NamesOfCodec
      <2>2. kind # "none" BY <2>1 DEF KindOf, AllEncoderAccelTypes
      <2>3. named = sel.encoder /\ preset = HardwarePreset(kind, profile.codec, q) BY <1>1, <2>2
      <2> HIDE DEF named, preset
      <2> QED BY <1>5, <1>6, <2>1, <2>3, HardwarePresetFits
  <1>8. CASE ~IsHardware(sel.encoder)
      <2>1. /\ kind = "none"
            /\ \E i \in DOMAIN SoftwareFallback(profile.codec) :
                 SoftwareFallback(profile.codec)[i] = sel.encoder
          BY <1>2, <1>3, <1>4, <1>8, NamesOfCodec
      <2>2. CASE profile.codec = "h264"
          <3>1. sel.encoder[2] = "libx264"
              BY ONLY <2>1, <2>2, LibrariesOfCodec
          <3>2. named = sel.encoder /\ preset = X264Preset(q) BY <2>1, <2>2
          <3> HIDE DEF named, preset
          <3> QED BY <1>5, <1>6, <3>1, <3>2, LibraryPresetFits
      <2>3. CASE profile.codec = "hevc"
          <3>1. \/ sel.encoder = <<"hevc", "libvvenc">> /\ sel.encoder[2] = "libvvenc"
                \/ sel.encoder # <<"hevc", "libvvenc">> /\ sel.encoder[2] = "libx265"
              BY ONLY <2>1, <2>3, LibrariesOfCodec
          <3>2. /\ named = sel.encoder
                /\ preset = IF sel.encoder = <<"hevc", "libvvenc">> THEN VvencPreset(q) ELSE X265Preset(q)
              BY <2>1, <2>3
          <3> HIDE DEF named, preset
          <3> QED BY <1>5, <1>6, <3>1, <3>2, LibraryPresetFits
      <2>4. CASE profile.codec = "vp9"
          <3>1. /\ sel.encoder = <<"vp9", "libvpx-vp9">> /\ sel.encoder[2] = "libvpx-vp9"
                /\ Head(SoftwareFallback(profile.codec)) = <<"vp9", "libvpx-vp9">>
              BY ONLY <2>1, <2>4, LibrariesOfCodec
          <3>2. named = sel.encoder /\ preset = Vp9Deadline(q) BY <2>1, <2>4, <3>1
          <3> HIDE DEF named, preset
          <3> QED BY <1>5, <1>6, <3>1, <3>2, LibraryPresetFits
      <2> QED BY <1>1, <1>4, <1>8, <2>2, <2>3, <2>4 DEF Codecs
  <1> QED BY <1>7, <1>8

(* THEOREM: on every host and whatever is asked, the options a job passes   *)
(* name the encoder that was resolved and a preset this encoder knows,      *)
(* except where the code does not look at which encoder of hevc or av1 it   *)
(* has (encode/profile.go).                                                 *)
THEOREM OptionsFit ==
  ASSUME NEW host, IsHost(host), NEW opts, opts.hierarchy \in Seq(Backends), opts.allow \in BOOLEAN,
         IsChain(opts.chain), ~Detect(host, opts).error,
         NEW profile, IsRequest(profile), profile.quality \in Qualities \cup {""}
  PROVE  OptionsFitEncoder(Detect(host, opts), profile)
  <1>1. Resolvable(Detect(host, opts)) BY DetectionIsSound, DetectedIsResolvable
  <1> QED BY <1>1, OptionsFitAnswers

-----------------------------------------------------------------------------
(* Frames, and what the filters of a list make of one.                      *)
Places == {"", "system", "stuck", "nvenc", "vaapi", "vulkan", "videotoolbox"}
Formats == {"none", "nv12", "p010", "yuv420p"}
Frames == [loc : Places, fmt : Formats, fresh : BOOLEAN]

LEMMA FilteredIsFrame ==
  ASSUME NEW frame \in Frames, NEW filter, NEW hw \in Places, NEW open
  PROVE  Filtered(filter, frame, hw, open) \in Frames
  <1> DEFINE out == Filtered(filter, frame, hw, open)
  <1>1. frame.loc \in Places /\ frame.fmt \in Formats /\ frame.fresh \in BOOLEAN BY DEF Frames
  <1>2. Stuck \in Frames BY DEF Stuck, Frames, Places, Formats
  <1>3. ASSUME NEW fmt \in Formats PROVE InSystem(frame, fmt) \in Frames
      BY <1>2 DEF InSystem, Frames, Places
  <1>4. ASSUME NEW fmt \in Formats PROVE Converted(frame, fmt) \in Frames
      BY <1>2, <1>3 DEF Converted
  <1>5. ASSUME NEW fmt \in Formats, NEW device \in Places PROVE OnDevice(frame, device, fmt) \in Frames
      BY <1>2 DEF OnDevice, Frames
  <1>6. CASE filter = "hwdownload"
      <2>1. out = IF frame.loc \in {"system", "stuck"} THEN Stuck
                  ELSE [loc |-> "system", fmt |-> frame.fmt, fresh |-> TRUE]
          BY <1>6 DEF Filtered
      <2>2. [loc |-> "system", fmt |-> frame.fmt, fresh |-> TRUE] \in Frames
          BY <1>1 DEF Frames, Places
      <2> QED BY ONLY <1>2, <2>1, <2>2, Zenon
  <1>7. CASE filter = "hwupload"
      <2>1. out = IF frame.loc # "system" \/ hw \notin open THEN Stuck
                  ELSE [loc |-> hw, fmt |-> frame.fmt, fresh |-> FALSE]
          BY <1>7 DEF Filtered
      <2>2. [loc |-> hw, fmt |-> frame.fmt, fresh |-> FALSE] \in Frames
          BY <1>1 DEF Frames
      <2> QED BY ONLY <1>2, <2>1, <2>2, Zenon
  <1>8. CASE filter = "format=nv12" BY <1>4, <1>8 DEF Filtered, Formats
  <1>9. CASE filter = "format=p010" BY <1>4, <1>9 DEF Filtered, Formats
  <1>10. CASE filter = "format=yuv420p" BY <1>3, <1>10 DEF Filtered, Formats
  <1>11. CASE filter \in {"scale", "pad", "tile"} BY <1>1, <1>3, <1>11 DEF Filtered
  <1>12. CASE filter = "scale_vaapi=nv12" BY <1>5, <1>12 DEF Filtered, Formats, Places
  <1>13. CASE filter = "scale_cuda=nv12" BY <1>5, <1>13 DEF Filtered, Formats, Places
  <1>14. CASE filter = "scale_vulkan" BY <1>1, <1>5, <1>14 DEF Filtered, Places
  <1>15. CASE filter = "scale_vt" BY <1>1, <1>5, <1>15 DEF Filtered, Places
  <1>16. CASE filter \notin {"hwdownload", "hwupload", "format=nv12", "format=p010", "format=yuv420p",
                             "scale", "pad", "tile", "scale_vaapi=nv12", "scale_cuda=nv12",
                             "scale_vulkan", "scale_vt"}
      <2>1. out = frame BY <1>16 DEF Filtered
      <2> QED BY <2>1
  <1> QED BY <1>6, <1>7, <1>8, <1>9, <1>10, <1>11, <1>12, <1>13, <1>14, <1>15, <1>16

(* at[k] is the frame after k of the filters.                               *)
Passes(at, n, filters, first, hw, open) ==
  /\ at \in [0..n -> Frames]
  /\ at[0] = first
  /\ \A k \in 1..n : at[k] = Filtered(filters[k], at[k - 1], hw, open)
  /\ Passed(filters, first, hw, open) = at[n]

LEMMA PassedRecurs ==
  ASSUME NEW n \in Nat, NEW filters, Len(filters) = n,
         NEW first \in Frames, NEW hw \in Places, NEW open
  PROVE  \E at : Passes(at, n, filters, first, hw, open)
  <1> DEFINE step == [k \in 1..n |-> [f \in Frames |-> Filtered(filters[k], f, hw, open)]]
             Def(f) == [k \in 0..n |-> IF k = 0 THEN first
                                       ELSE Filtered(filters[k], f[k - 1], hw, open)]
             at == CHOOSE f : f = Def(f)
  <1>1. Passed(filters, first, hw, open) = at[n] BY DEF Passed
  <1>2. step \in [1..n -> [Frames -> Frames]] BY FilteredIsFrame
  <1>3. \A k \in 1..n, f \in Frames : step[k][f] = Filtered(filters[k], f, hw, open) OBVIOUS
  <1> HIDE DEF step
  <1>4. PICK g \in [0..n -> Frames] : Recurs(g, n, first, step) BY <1>2, RecursionUpTo
  <1>5. \A k \in 0..n : g[k] = IF k = 0 THEN first ELSE Filtered(filters[k], g[k - 1], hw, open)
      <2> SUFFICES ASSUME NEW k \in 0..n
                   PROVE  g[k] = IF k = 0 THEN first ELSE Filtered(filters[k], g[k - 1], hw, open)
          OBVIOUS
      <2>1. k # 0 => k \in 1..n /\ k - 1 \in 0..n /\ g[k - 1] \in Frames OBVIOUS
      <2> QED BY <1>3, <1>4, <2>1 DEF Recurs
  <1>6. g = Def(g) BY <1>5
  <1>7. at = Def(at)
      <2> HIDE DEF Def
      <2> QED BY <1>6
  <1>8. DOMAIN at = 0..n /\ \A k \in 0..n : at[k] = IF k = 0 THEN first
                                             ELSE Filtered(filters[k], at[k - 1], hw, open)
      <2> DEFINE f == at
      <2>1. f = Def(f) BY <1>7
      <2> HIDE DEF f
      <2>2. DOMAIN f = 0..n /\ \A k \in 0..n : f[k] = IF k = 0 THEN first
                                             ELSE Filtered(filters[k], f[k - 1], hw, open)
          BY <2>1
      <2> QED BY <2>2 DEF f
  <1> HIDE DEF at, Def
  <1>9. \A k \in 0..n : at[k] = g[k]
      <2> DEFINE S == {k \in 0..n : at[k] = g[k]}
      <2>1. 0 \in S
          <3>1. 0 \in 0..n OBVIOUS
          <3>2. at[0] = first /\ g[0] = first BY <1>5, <1>8, <3>1
          <3> QED BY <3>1, <3>2
      <2>2. ASSUME NEW k \in 0..n - 1, k \in S PROVE k + 1 \in S
          <3>1. k + 1 \in 0..n /\ k + 1 # 0 /\ (k + 1) - 1 = k OBVIOUS
          <3> QED BY <1>5, <1>8, <2>2, <3>1
      <2>3. \A k \in 0..n : k \in S
          <3> HIDE DEF S
          <3> QED BY <2>1, <2>2, InductionUpTo
      <2> QED BY <2>3
  <1>10. /\ g[0] = first /\ Passed(filters, first, hw, open) = g[n]
         /\ \A k \in 1..n : g[k] = Filtered(filters[k], g[k - 1], hw, open)
      <2>1. 0 \in 0..n /\ n \in 0..n /\ \A k \in 1..n : k \in 0..n /\ k # 0 OBVIOUS
      <2> QED BY <1>1, <1>5, <1>9, <2>1
  <1> QED BY <1>4, <1>10 DEF Passes

(* One filter after the other.                                              *)
LEMMA PassedNone ==
  ASSUME NEW first \in Frames, NEW hw \in Places, NEW open
  PROVE  Passed(<<>>, first, hw, open) = first
  <1> DEFINE none == <<>>
  <1>1. Len(none) = 0 /\ 0 \in Nat OBVIOUS
  <1> HIDE DEF none
  <1>2. PICK at : Passes(at, 0, none, first, hw, open) BY <1>1, PassedRecurs, Zenon
  <1>3. Passed(none, first, hw, open) = first BY <1>2 DEF Passes
  <1> QED BY <1>3 DEF none

LEMMA PassedOne ==
  ASSUME NEW filter, NEW first \in Frames, NEW hw \in Places, NEW open
  PROVE  Passed(<<filter>>, first, hw, open) = Filtered(filter, first, hw, open)
  <1> DEFINE one == <<filter>>
  <1>1. Len(one) = 1 /\ one[1] = filter /\ 1 \in Nat OBVIOUS
  <1> HIDE DEF one
  <1>2. PICK at : Passes(at, 1, one, first, hw, open) BY <1>1, PassedRecurs, Zenon
  <1>3. 1 \in 1..1 /\ 1 - 1 = 0 OBVIOUS
  <1>4. Passed(one, first, hw, open) = Filtered(filter, first, hw, open)
      BY <1>1, <1>2, <1>3 DEF Passes
  <1> QED BY <1>4 DEF one

LEMMA PassedBoth ==
  ASSUME NEW R, NEW a \in Seq(R), NEW b \in Seq(R),
         NEW first \in Frames, NEW hw \in Places, NEW open
  PROVE  /\ Passed(a, first, hw, open) \in Frames
         /\ Passed(a \o b, first, hw, open) = Passed(b, Passed(a, first, hw, open), hw, open)
  <1>1. PICK m \in Nat : Len(a) = m OBVIOUS
  <1>2. PICK n \in Nat : Len(b) = n OBVIOUS
  <1> DEFINE both == a \o b
  <1>3. /\ Len(both) = m + n
        /\ \A k \in 1..m : both[k] = a[k]
        /\ \A k \in 1..n : both[m + k] = b[k]
      BY <1>1, <1>2
  <1>4. m + n \in Nat OBVIOUS
  <1> HIDE DEF both
  <1>5. PICK p : Passes(p, m, a, first, hw, open) BY <1>1, PassedRecurs, Zenon
  <1>6. p[m] \in Frames /\ p[m] = Passed(a, first, hw, open) BY <1>5 DEF Passes
  <1>7. PICK q : Passes(q, n, b, p[m], hw, open) BY <1>2, <1>6, PassedRecurs, Zenon
  <1>8. PICK r : Passes(r, m + n, both, first, hw, open) BY <1>3, <1>4, PassedRecurs, Zenon
  <1>9. \A k \in 0..m : r[k] = p[k]
      <2> DEFINE S == {k \in 0..m : r[k] = p[k]}
      <2>1. 0 \in S BY <1>5, <1>8 DEF Passes
      <2>2. ASSUME NEW k \in 0..m - 1, k \in S PROVE k + 1 \in S
          <3>1. k + 1 \in 1..m /\ k + 1 \in 1..m + n /\ (k + 1) - 1 = k /\ k + 1 \in 0..m OBVIOUS
          <3>2. r[k + 1] = Filtered(both[k + 1], r[k], hw, open) BY <1>8, <3>1 DEF Passes
          <3>3. p[k + 1] = Filtered(a[k + 1], p[k], hw, open) BY <1>5, <3>1 DEF Passes
          <3> QED BY <1>3, <2>2, <3>1, <3>2, <3>3
      <2>3. \A k \in 0..m : k \in S
          <3> HIDE DEF S
          <3> QED BY <2>1, <2>2, InductionUpTo
      <2> QED BY <2>3
  <1>10. \A k \in 0..n : r[m + k] = q[k]
      <2> DEFINE S == {k \in 0..n : r[m + k] = q[k]}
      <2>1. 0 \in S
          <3>1. m \in 0..m /\ m + 0 = m OBVIOUS
          <3> QED BY <1>7, <1>9, <3>1 DEF Passes
      <2>2. ASSUME NEW k \in 0..n - 1, k \in S PROVE k + 1 \in S
          <3>1. k + 1 \in 1..n /\ m + (k + 1) \in 1..m + n /\ (k + 1) - 1 = k
                /\ (m + (k + 1)) - 1 = m + k /\ k + 1 \in 0..n
              OBVIOUS
          <3>2. r[m + (k + 1)] = Filtered(both[m + (k + 1)], r[m + k], hw, open)
              BY <1>8, <3>1 DEF Passes
          <3>3. q[k + 1] = Filtered(b[k + 1], q[k], hw, open) BY <1>7, <3>1 DEF Passes
          <3> QED BY <1>3, <2>2, <3>1, <3>2, <3>3
      <2>3. \A k \in 0..n : k \in S
          <3> HIDE DEF S
          <3> QED BY <2>1, <2>2, InductionUpTo
      <2> QED BY <2>3
  <1>11. r[m + n] = q[n] BY <1>10
  <1>12. Passed(both, first, hw, open) = Passed(b, p[m], hw, open)
      BY <1>7, <1>8, <1>11 DEF Passes
  <1> QED BY <1>6, <1>12 DEF both

-----------------------------------------------------------------------------
(* What single filters make of a frame in system memory or on a device.     *)
Devices == {"nvenc", "vaapi", "vulkan", "videotoolbox"}

SystemFrame(fmt) == [loc |-> "system", fmt |-> fmt, fresh |-> FALSE]

LEMMA SystemFilters ==
  ASSUME NEW frame \in Frames, frame.loc = "system", NEW hw \in Places, NEW open
  PROVE  /\ Filtered("scale", frame, hw, open) = SystemFrame(frame.fmt)
         /\ Filtered("format=yuv420p", frame, hw, open) = SystemFrame("yuv420p")
         /\ ~frame.fresh => Filtered("format=nv12", frame, hw, open) = SystemFrame("nv12")
         /\ hw \in open =>
              Filtered("hwupload", frame, hw, open) = [loc |-> hw, fmt |-> frame.fmt, fresh |-> FALSE]
  <1>1. Filtered("scale", frame, hw, open) = SystemFrame(frame.fmt)
      BY DEF Filtered, InSystem, SystemFrame
  <1>2. Filtered("format=yuv420p", frame, hw, open) = SystemFrame("yuv420p")
      BY DEF Filtered, InSystem, SystemFrame
  <1>3. ~frame.fresh => Filtered("format=nv12", frame, hw, open) = SystemFrame("nv12")
      BY DEF Filtered, Converted, InSystem, SystemFrame
  <1>4. hw \in open =>
          Filtered("hwupload", frame, hw, open) = [loc |-> hw, fmt |-> frame.fmt, fresh |-> FALSE]
      BY DEF Filtered
  <1> QED BY <1>1, <1>2, <1>3, <1>4

LEMMA SystemFramesAreFrames ==
  ASSUME NEW fmt \in Formats
  PROVE  /\ SystemFrame(fmt) \in Frames /\ SystemFrame(fmt).loc = "system"
         /\ SystemFrame(fmt).fmt = fmt /\ SystemFrame(fmt).fresh = FALSE
  BY DEF SystemFrame, Frames, Places

(* A few filters, one after the other.                                        *)
LEMMA PassedTwo ==
  ASSUME NEW a, NEW b, NEW first \in Frames, NEW hw \in Places, NEW open
  PROVE  Passed(<<a, b>>, first, hw, open)
           = Filtered(b, Filtered(a, first, hw, open), hw, open)
  <1> DEFINE list == <<a, b>>
  <1>1. /\ Len(list) = 2 /\ 2 \in Nat
        /\ list[1] = a /\ list[2] = b
      OBVIOUS
  <1> HIDE DEF list
  <1>2. PICK at : Passes(at, 2, list, first, hw, open) BY <1>1, PassedRecurs, Zenon
  <1>3. 1 \in 1..2 /\ 1 - 1 = 0 /\ 2 \in 1..2 /\ 2 - 1 = 1 OBVIOUS
  <1>4. at[1] = Filtered(a, first, hw, open) BY <1>1, <1>2, <1>3 DEF Passes
  <1>5. at[2] = Filtered(b, at[1], hw, open) BY <1>1, <1>2, <1>3 DEF Passes
  <1>6. Passed(list, first, hw, open) = at[2] BY <1>2 DEF Passes
  <1> QED BY <1>4, <1>5, <1>6 DEF list

LEMMA PassedThree ==
  ASSUME NEW a, NEW b, NEW c, NEW first \in Frames, NEW hw \in Places, NEW open
  PROVE  Passed(<<a, b, c>>, first, hw, open)
           = Filtered(c, Filtered(b, Filtered(a, first, hw, open), hw, open), hw, open)
  <1> DEFINE list == <<a, b, c>>
  <1>1. /\ Len(list) = 3 /\ 3 \in Nat
        /\ list[1] = a /\ list[2] = b /\ list[3] = c
      OBVIOUS
  <1> HIDE DEF list
  <1>2. PICK at : Passes(at, 3, list, first, hw, open) BY <1>1, PassedRecurs, Zenon
  <1>3. 1 \in 1..3 /\ 1 - 1 = 0 /\ 2 \in 1..3 /\ 2 - 1 = 1 /\ 3 \in 1..3 /\ 3 - 1 = 2 OBVIOUS
  <1>4. at[1] = Filtered(a, first, hw, open) BY <1>1, <1>2, <1>3 DEF Passes
  <1>5. at[2] = Filtered(b, at[1], hw, open) BY <1>1, <1>2, <1>3 DEF Passes
  <1>6. at[3] = Filtered(c, at[2], hw, open) BY <1>1, <1>2, <1>3 DEF Passes
  <1>7. Passed(list, first, hw, open) = at[3] BY <1>2 DEF Passes
  <1> QED BY <1>4, <1>5, <1>6, <1>7 DEF list

LEMMA PassedFour ==
  ASSUME NEW a, NEW b, NEW c, NEW d, NEW first \in Frames, NEW hw \in Places, NEW open
  PROVE  Passed(<<a, b, c, d>>, first, hw, open)
           = Filtered(d, Filtered(c, Filtered(b, Filtered(a, first, hw, open), hw, open), hw, open), hw, open)
  <1> DEFINE list == <<a, b, c, d>>
  <1>1. /\ Len(list) = 4 /\ 4 \in Nat
        /\ list[1] = a /\ list[2] = b /\ list[3] = c /\ list[4] = d
      OBVIOUS
  <1> HIDE DEF list
  <1>2. PICK at : Passes(at, 4, list, first, hw, open) BY <1>1, PassedRecurs, Zenon
  <1>3. 1 \in 1..4 /\ 1 - 1 = 0 /\ 2 \in 1..4 /\ 2 - 1 = 1 /\ 3 \in 1..4 /\ 3 - 1 = 2 /\ 4 \in 1..4 /\ 4 - 1 = 3 OBVIOUS
  <1>4. at[1] = Filtered(a, first, hw, open) BY <1>1, <1>2, <1>3 DEF Passes
  <1>5. at[2] = Filtered(b, at[1], hw, open) BY <1>1, <1>2, <1>3 DEF Passes
  <1>6. at[3] = Filtered(c, at[2], hw, open) BY <1>1, <1>2, <1>3 DEF Passes
  <1>7. at[4] = Filtered(d, at[3], hw, open) BY <1>1, <1>2, <1>3 DEF Passes
  <1>8. Passed(list, first, hw, open) = at[4] BY <1>2 DEF Passes
  <1> QED BY <1>4, <1>5, <1>6, <1>7, <1>8 DEF list

LEMMA FormatFilters ==
  ASSUME NEW frame, NEW hw, NEW open
  PROVE  /\ Filtered("format=nv12", frame, hw, open) = Converted(frame, "nv12")
         /\ Filtered("format=p010", frame, hw, open) = Converted(frame, "p010")
  <1>1. Filtered("format=nv12", frame, hw, open) = Converted(frame, "nv12") BY ZenonT(60) DEF Filtered
  <1>2. Filtered("format=p010", frame, hw, open) = Converted(frame, "p010") BY ZenonT(60) DEF Filtered
  <1> QED BY <1>1, <1>2

(* A frame fetched from its device in its own format.                       *)
LEMMA FrameIsFetched ==
  ASSUME NEW frame \in Frames, frame.loc \in Devices, NEW format,
         \/ frame.fmt = "nv12" /\ format = "format=nv12"
         \/ frame.fmt = "p010" /\ format = "format=p010",
         NEW hw \in Places, NEW open
  PROVE  Passed(<<"hwdownload", format>>, frame, hw, open) = SystemFrame(frame.fmt)
  <1> DEFINE fetched == [loc |-> "system", fmt |-> frame.fmt, fresh |-> TRUE]
  <1>1. Filtered("hwdownload", frame, hw, open) = fetched BY SMTT(30) DEF Filtered, Devices
  <1>2. Filtered(format, fetched, hw, open) = SystemFrame(frame.fmt)
      <2>1. Filtered(format, fetched, hw, open) = Converted(fetched, frame.fmt) BY FormatFilters
      <2>2. Converted(fetched, frame.fmt) = SystemFrame(frame.fmt)
          BY DEF Converted, InSystem, SystemFrame
      <2> QED BY <2>1, <2>2
  <1>3. Passed(<<"hwdownload", format>>, frame, hw, open)
          = Filtered(format, Filtered("hwdownload", frame, hw, open), hw, open)
      BY PassedTwo
  <1> QED BY <1>1, <1>2, <1>3

(* The frames of a decoder: in system memory unless it emits device frames. *)
Emitted(caps, request) == VideoDecoderArgs(caps, request).loc

LEMMA DecodedIsFrame ==
  ASSUME NEW caps, NEW request, NEW depth \in Nat
  PROVE  LET frame == DecodedFrame(caps, request, depth)
             kind  == KindOf(DecodeAccel(caps, request))
         IN  /\ frame \in Frames /\ ~frame.fresh
             /\ frame.fmt = IF depth > 8 THEN "p010" ELSE "nv12"
             /\ DecodeEmitsHardwareFrames(caps, request) => frame.loc \in Devices /\ frame.loc = kind
             /\ ~DecodeEmitsHardwareFrames(caps, request) => frame.loc = "system"
             /\ kind \in {"vaapi", "vulkan", "videotoolbox"} =>
                  DecodeEmitsHardwareFrames(caps, request) /\ VideoDecoderArgs(caps, request).device = kind
             /\ kind = "none" => frame.loc = "system"
             /\ kind = "nvenc" /\ "scale_cuda" \in caps.filters => frame.loc = "nvenc"
  <1> DEFINE kind == KindOf(DecodeAccel(caps, request))
             args == VideoDecoderArgs(caps, request)
  <1>1. args = CASE kind = "nvenc" -> [device |-> "", loc |-> IF "scale_cuda" \in caps.filters THEN "nvenc" ELSE "system"]
                 [] kind = "qsv"   -> [device |-> "qsv", loc |-> "system"]
                 [] kind \in {"vaapi", "vulkan", "videotoolbox"} -> [device |-> kind, loc |-> kind]
                 [] OTHER          -> [device |-> "", loc |-> "system"]
      BY DEF VideoDecoderArgs
  <1>2. DecodeEmitsHardwareFrames(caps, request)
          <=> (kind \in {"vaapi", "vulkan", "videotoolbox"} \/ (kind = "nvenc" /\ "scale_cuda" \in caps.filters))
      BY DEF DecodeEmitsHardwareFrames
  <1>3. DecodedFrame(caps, request, depth)
          = [loc |-> args.loc, fmt |-> IF depth > 8 THEN "p010" ELSE "nv12", fresh |-> FALSE]
      BY DEF DecodedFrame
  <1> HIDE DEF kind, args
  <1>4. CASE kind = "nvenc"
      <2>1. args.loc = IF "scale_cuda" \in caps.filters THEN "nvenc" ELSE "system" BY <1>1, <1>4
      <2> QED BY <1>2, <1>3, <1>4, <2>1 DEF Frames, Places, Formats, Devices, kind, args
  <1>5. CASE kind = "qsv"
      <2>1. args.loc = "system" BY <1>1, <1>5
      <2> QED BY <1>2, <1>3, <1>5, <2>1 DEF Frames, Places, Formats, Devices, kind, args
  <1>6. CASE kind \in {"vaapi", "vulkan", "videotoolbox"}
      <2>1. args.loc = kind /\ args.device = kind BY <1>1, <1>6
      <2>2. kind \in Devices /\ kind \in Places BY <1>6 DEF Devices, Places
      <2>3. DecodedFrame(caps, request, depth) \in Frames
          BY <1>3, <2>1, <2>2 DEF Frames, Formats
      <2>4. kind # "none" /\ kind # "nvenc" /\ DecodeEmitsHardwareFrames(caps, request)
          BY <1>2, <1>6
      <2> QED BY <1>3, <2>1, <2>2, <2>3, <2>4 DEF kind, args
  <1>7. CASE kind \notin {"nvenc", "qsv", "vaapi", "vulkan", "videotoolbox"}
      <2>1. args.loc = "system" BY <1>1, <1>7
      <2> QED BY <1>2, <1>3, <1>7, <2>1 DEF Frames, Places, Formats, Devices, kind, args
  <1> QED BY <1>4, <1>5, <1>6, <1>7

FilterNames == {"hwdownload", "hwupload", "format=nv12", "format=p010", "format=yuv420p", "scale",
                "scale_vaapi=nv12", "scale_cuda=nv12", "scale_vulkan", "scale_vt"}

(* What the request says of the depth is no lie, and the depth is not more   *)
(* than 8 unless it says so.                                                *)
Told(request, depth) == request.depth \in {0, depth} /\ (depth <= 8 \/ request.depth = depth)

Readied(fetches, request, maxHeight) ==
  (IF fetches THEN <<"hwdownload", HwDownloadFormat(request)>> ELSE <<>>) \o ScaleTo("scale", maxHeight)

(* Fetched from the device if it is there, then scaled if asked.            *)
LEMMA FetchedAndScaled ==
  ASSUME NEW request, NEW depth \in Nat, Told(request, depth),
         NEW frame \in Frames, ~frame.fresh, frame.fmt = IF depth > 8 THEN "p010" ELSE "nv12",
         NEW fetches \in BOOLEAN, fetches => frame.loc \in Devices, ~fetches => frame.loc = "system",
         NEW maxHeight, NEW hw \in Places, NEW open
  PROVE  LET parts == Readied(fetches, request, maxHeight)
             out   == Passed(parts, frame, hw, open)
         IN  parts \in Seq(FilterNames) /\ out \in Frames /\ out.loc = "system" /\ ~out.fresh
  <1> DEFINE fetch == IF fetches THEN <<"hwdownload", HwDownloadFormat(request)>> ELSE <<>>
             scale == ScaleTo("scale", maxHeight)
             mid   == Passed(fetch, frame, hw, open)
             out   == Passed(scale, mid, hw, open)
  <1>1. HwDownloadFormat(request) = IF depth > 8 THEN "format=p010" ELSE "format=nv12"
      BY DEF HwDownloadFormat, Told
  <1>2. fetch \in Seq(FilterNames)
      <2>1. HwDownloadFormat(request) \in FilterNames /\ "hwdownload" \in FilterNames
          BY <1>1 DEF FilterNames
      <2> QED BY <2>1
  <1>3. scale \in Seq(FilterNames)
      <2>1. "scale" \in FilterNames BY DEF FilterNames
      <2> QED BY <2>1 DEF ScaleTo
  <1>4. mid \in Frames /\ mid.loc = "system" /\ ~mid.fresh
      <2>1. CASE fetches
          <3>1. mid = SystemFrame(frame.fmt) BY <1>1, <2>1, FrameIsFetched
          <3>2. frame.fmt \in Formats BY DEF Frames
          <3> QED BY <3>1, <3>2, SystemFramesAreFrames
      <2>2. CASE ~fetches
          <3>1. mid = frame BY <2>2, PassedNone
          <3> QED BY <2>2, <3>1
      <2> QED BY <2>1, <2>2
  <1>5. Passed(fetch \o scale, frame, hw, open) = out
      <2> HIDE DEF fetch, scale
      <2> QED BY <1>2, <1>3, PassedBoth DEF mid
  <1> HIDE DEF mid
  <1>6. out \in Frames /\ out.loc = "system" /\ ~out.fresh
      <2>1. CASE maxHeight > 0
          <3>1. out = Filtered("scale", mid, hw, open) BY <1>4, <2>1, PassedOne DEF ScaleTo
          <3>2. out = SystemFrame(mid.fmt) BY <1>4, <3>1, SystemFilters
          <3>3. mid.fmt \in Formats BY <1>4 DEF Frames
          <3> QED BY <3>2, <3>3, SystemFramesAreFrames
      <2>2. CASE ~(maxHeight > 0)
          <3>1. out = mid BY <1>4, <2>2, PassedNone DEF ScaleTo
          <3> QED BY <1>4, <3>1
      <2> QED BY <2>1, <2>2
  <1>7. fetch \o scale \in Seq(FilterNames)
      <2> HIDE DEF fetch, scale
      <2> QED BY <1>2, <1>3
  <1> HIDE DEF out, fetch, scale
  <1>8. Passed(fetch \o scale, frame, hw, open) \in Frames
        /\ Passed(fetch \o scale, frame, hw, open).loc = "system"
        /\ ~Passed(fetch \o scale, frame, hw, open).fresh
      BY <1>5, <1>6
  <1> QED BY <1>7, <1>8 DEF fetch, scale, Readied

LEMMA ReadiedThen ==
  ASSUME NEW request, NEW depth \in Nat, Told(request, depth),
         NEW frame \in Frames, ~frame.fresh, frame.fmt = IF depth > 8 THEN "p010" ELSE "nv12",
         NEW fetches \in BOOLEAN, fetches => frame.loc \in Devices, ~fetches => frame.loc = "system",
         NEW maxHeight, NEW hw \in Places, NEW open, NEW last \in Seq(FilterNames)
  PROVE  \E mid \in Frames :
           /\ mid.loc = "system" /\ ~mid.fresh
           /\ Passed(Readied(fetches, request, maxHeight) \o last, frame, hw, open)
                = Passed(last, mid, hw, open)
  <1> DEFINE parts == Readied(fetches, request, maxHeight)
             mid == Passed(parts, frame, hw, open)
  <1>1. parts \in Seq(FilterNames) /\ mid \in Frames /\ mid.loc = "system" /\ ~mid.fresh
      BY FetchedAndScaled
  <1>2. Passed(parts \o last, frame, hw, open) = Passed(last, mid, hw, open)
      <2> HIDE DEF parts
      <2> QED BY <1>1, PassedBoth
  <1> HIDE DEF mid
  <1> QED BY <1>1, <1>2

LEMMA NamesOfFilters ==
  /\ <<"format=yuv420p">> \in Seq(FilterNames)
  /\ <<"format=nv12">> \in Seq(FilterNames)
  /\ <<"format=nv12", "hwupload">> \in Seq(FilterNames)
  <1>1. "format=yuv420p" \in FilterNames /\ "format=nv12" \in FilterNames /\ "hwupload" \in FilterNames
      BY DEF FilterNames
  <1> QED BY <1>1

(* Frames in system memory, uploaded to a device that is open.              *)
LEMMA FrameIsUploaded ==
  ASSUME NEW mid \in Frames, mid.loc = "system", ~mid.fresh, NEW hw \in Places, NEW open, hw \in open
  PROVE  Passed(<<"format=nv12", "hwupload">>, mid, hw, open)
           = [loc |-> hw, fmt |-> "nv12", fresh |-> FALSE]
  <1> DEFINE nv12 == SystemFrame("nv12")
  <1>1. Filtered("format=nv12", mid, hw, open) = nv12 BY SystemFilters
  <1>2. nv12 \in Frames /\ nv12.loc = "system" /\ nv12.fmt = "nv12"
      <2>1. "nv12" \in Formats BY DEF Formats
      <2> QED BY <2>1, SystemFramesAreFrames
  <1> HIDE DEF nv12
  <1>3. Filtered("hwupload", nv12, hw, open) = [loc |-> hw, fmt |-> "nv12", fresh |-> FALSE]
      BY <1>2, SystemFilters
  <1>4. Passed(<<"format=nv12", "hwupload">>, mid, hw, open)
          = Filtered("hwupload", Filtered("format=nv12", mid, hw, open), hw, open)
      BY PassedTwo
  <1> QED BY ONLY <1>1, <1>3, <1>4

-----------------------------------------------------------------------------
(* The graph of each encoder takes the frames of the decoder to it.         *)
LEMMA SoftwareArrives ==
  ASSUME NEW caps, NEW request, NEW depth \in Nat, Told(request, depth), NEW maxHeight, NEW opened
  PROVE  Through(SoftwareVideoFilters(caps, request, maxHeight),
                 DecodedFrame(caps, request, depth), opened).loc = "system"
  <1> DEFINE frame == DecodedFrame(caps, request, depth)
             fetches == DecodeEmitsHardwareFrames(caps, request)
             parts == Readied(fetches, request, maxHeight)
             last == <<"format=yuv420p">>
             open == opened \cup {}
             hw == ""
  <1>1. /\ frame \in Frames /\ ~frame.fresh /\ frame.fmt = IF depth > 8 THEN "p010" ELSE "nv12"
        /\ fetches => frame.loc \in Devices
        /\ ~fetches => frame.loc = "system"
      BY DecodedIsFrame
  <1>2. fetches \in BOOLEAN /\ hw \in Places BY DEF DecodeEmitsHardwareFrames, Places
  <1>3. last \in Seq(FilterNames) BY NamesOfFilters
  <1>4. Through(SoftwareVideoFilters(caps, request, maxHeight), frame, opened)
          = Passed(parts \o last, frame, hw, open)
      BY DEF Through, SoftwareVideoFilters, Graph, Readied
  <1> HIDE DEF frame, fetches, hw, open, last
  <1>5. PICK mid \in Frames : /\ mid.loc = "system" /\ ~mid.fresh
                              /\ Passed(parts \o last, frame, hw, open) = Passed(last, mid, hw, open)
      BY <1>1, <1>2, <1>3, ReadiedThen, SMTT(30)
  <1>6. Passed(last, mid, hw, open) = SystemFrame("yuv420p")
      <2>1. Passed(last, mid, hw, open) = Filtered("format=yuv420p", mid, hw, open)
          BY <1>2, PassedOne DEF last
      <2> QED BY <1>2, <1>5, <2>1, SystemFilters
  <1>7. SystemFrame("yuv420p").loc = "system" BY DEF SystemFrame
  <1> QED BY <1>4, <1>5, <1>6, <1>7 DEF frame

LEMMA QsvArrives ==
  ASSUME NEW caps, NEW request, NEW depth \in Nat, Told(request, depth), NEW maxHeight, NEW opened
  PROVE  Through(QsvVideoFilters(caps, request, maxHeight),
                 DecodedFrame(caps, request, depth), opened).loc = "system"
  <1> DEFINE frame == DecodedFrame(caps, request, depth)
             fetches == DecodeEmitsHardwareFrames(caps, request)
             parts == Readied(fetches, request, maxHeight)
             last == <<"format=nv12">>
             open == opened \cup {}
             hw == ""
  <1>1. /\ frame \in Frames /\ ~frame.fresh /\ frame.fmt = IF depth > 8 THEN "p010" ELSE "nv12"
        /\ fetches => frame.loc \in Devices
        /\ ~fetches => frame.loc = "system"
      BY DecodedIsFrame
  <1>2. fetches \in BOOLEAN /\ hw \in Places BY DEF DecodeEmitsHardwareFrames, Places
  <1>3. last \in Seq(FilterNames) BY NamesOfFilters
  <1>4. Through(QsvVideoFilters(caps, request, maxHeight), frame, opened)
          = Passed(parts \o last, frame, hw, open)
      BY DEF Through, QsvVideoFilters, Graph, Readied
  <1> HIDE DEF frame, fetches, hw, open, last
  <1>5. PICK mid \in Frames : /\ mid.loc = "system" /\ ~mid.fresh
                              /\ Passed(parts \o last, frame, hw, open) = Passed(last, mid, hw, open)
      BY <1>1, <1>2, <1>3, ReadiedThen, SMTT(30)
  <1>6. Passed(last, mid, hw, open) = SystemFrame("nv12")
      <2>1. Passed(last, mid, hw, open) = Filtered("format=nv12", mid, hw, open)
          BY <1>2, PassedOne DEF last
      <2> QED BY <1>2, <1>5, <2>1, SystemFilters
  <1>7. SystemFrame("nv12").loc = "system" BY DEF SystemFrame
  <1> QED BY <1>4, <1>5, <1>6, <1>7 DEF frame

(* nvenc takes its own frames down as nv12, whatever their depth.           *)
LEMMA NvencArrives ==
  ASSUME NEW caps, NEW request, NEW depth \in Nat, Told(request, depth), NEW maxHeight, NEW opened
  PROVE  Through(NvencVideoFilters(caps, request, maxHeight),
                 DecodedFrame(caps, request, depth), opened).loc = "system"
  <1> DEFINE frame == DecodedFrame(caps, request, depth)
             open == opened \cup {}
             hw == ""
             own == ~(DecodeAccel(caps, request) # "nvenc" \/ "scale_cuda" \notin caps.filters)
  <1>1. CASE ~own
      <2>1. NvencVideoFilters(caps, request, maxHeight) = SoftwareVideoFilters(caps, request, maxHeight)
          BY <1>1 DEF NvencVideoFilters
      <2> QED BY <2>1, SoftwareArrives
  <1>2. CASE own
      <2>1. frame \in Frames /\ frame.loc = "nvenc"
          <3>1. KindOf(DecodeAccel(caps, request)) = "nvenc" BY <1>2 DEF KindOf
          <3> QED BY <1>2, <3>1, DecodedIsFrame
      <2>2. hw \in Places BY DEF Places
      <2> DEFINE a == [loc |-> "nvenc", fmt |-> "nv12", fresh |-> FALSE]
                 b == [loc |-> "system", fmt |-> "nv12", fresh |-> TRUE]
      <2>3. Through(NvencVideoFilters(caps, request, maxHeight), frame, opened)
              = Passed(<<"scale_cuda=nv12", "hwdownload", "format=nv12">>, frame, hw, open)
          BY <1>2 DEF Through, NvencVideoFilters, Graph
      <2> HIDE DEF frame, hw, open
      <2>4. Filtered("scale_cuda=nv12", frame, hw, open) = a
          <3>1. Filtered("scale_cuda=nv12", frame, hw, open) = OnDevice(frame, "nvenc", "nv12")
              BY ZenonT(60) DEF Filtered
          <3> QED BY <2>1, <3>1 DEF OnDevice
      <2>5. Filtered("hwdownload", a, hw, open) = b
          <3>1. a.loc \notin {"system", "stuck"} /\ a.fmt = "nv12" OBVIOUS
          <3> HIDE DEF a
          <3>2. Filtered("hwdownload", a, hw, open)
                  = [loc |-> "system", fmt |-> a.fmt, fresh |-> TRUE]
              BY <3>1, ZenonT(60) DEF Filtered
          <3> QED BY <3>1, <3>2
      <2>6. Filtered("format=nv12", b, hw, open) = SystemFrame("nv12")
          <3>1. Filtered("format=nv12", b, hw, open) = Converted(b, "nv12") BY FormatFilters
          <3>2. Converted(b, "nv12") = SystemFrame("nv12") BY DEF Converted, InSystem, SystemFrame
          <3> QED BY <3>1, <3>2
      <2> HIDE DEF a, b
      <2>7. Passed(<<"scale_cuda=nv12", "hwdownload", "format=nv12">>, frame, hw, open)
              = Filtered("format=nv12",
                         Filtered("hwdownload", Filtered("scale_cuda=nv12", frame, hw, open), hw, open),
                         hw, open)
          BY <2>1, <2>2, PassedThree
      <2>8. Through(NvencVideoFilters(caps, request, maxHeight), frame, opened) = SystemFrame("nv12")
          BY <2>3, <2>4, <2>5, <2>6, <2>7
      <2>9. SystemFrame("nv12").loc = "system" BY DEF SystemFrame
      <2> QED BY <2>8, <2>9 DEF frame
  <1> QED BY <1>1, <1>2

LEMMA KindsOfAccel ==
  ASSUME NEW accel
  PROVE  \A kind \in {"none", "nvenc", "vulkan", "videotoolbox"} : KindOf(accel) = kind => accel = kind
  BY DEF KindOf

LEMMA VaapiArrives ==
  ASSUME NEW caps, NEW request, NEW depth \in Nat, Told(request, depth), NEW maxHeight,
         KindOf(DecodeAccel(caps, request)) \in {"none", "vaapi"},
         NEW opened, VideoDecoderArgs(caps, request).device \in opened
  PROVE  Through(VaapiVideoFilters(caps, request, maxHeight),
                 DecodedFrame(caps, request, depth), opened).loc = "vaapi"
  <1> DEFINE frame == DecodedFrame(caps, request, depth)
             own == KindOf(DecodeAccel(caps, request)) = "vaapi"
             hw == "vaapi"
             open == opened \cup (IF own THEN {} ELSE {"vaapi"})
             parts == Readied(own, request, maxHeight)
             last == <<"format=nv12", "hwupload">>
  <1>1. /\ frame \in Frames /\ ~frame.fresh /\ frame.fmt = IF depth > 8 THEN "p010" ELSE "nv12"
        /\ own => frame.loc = "vaapi" /\ VideoDecoderArgs(caps, request).device = "vaapi"
        /\ ~own => frame.loc = "system"
      <2>1. /\ frame \in Frames /\ ~frame.fresh /\ frame.fmt = IF depth > 8 THEN "p010" ELSE "nv12"
          BY DecodedIsFrame
      <2>2. CASE own
          <3>1. DecodeEmitsHardwareFrames(caps, request) /\ VideoDecoderArgs(caps, request).device = "vaapi"
              BY <2>2, DecodedIsFrame
          <3>2. frame.loc = "vaapi" BY <2>2, <3>1, DecodedIsFrame
          <3> QED BY <2>1, <2>2, <3>1, <3>2
      <2>3. CASE ~own
          <3>1. frame.loc = "system" BY <2>3, DecodedIsFrame
          <3> QED BY <2>1, <2>3, <3>1
      <2> QED BY <2>2, <2>3
  <1>2. hw \in Places /\ own \in BOOLEAN /\ (own => frame.loc \in Devices) BY <1>1 DEF Places, Devices
  <1>3. hw \in open BY <1>1
  <1>4. Through(VaapiVideoFilters(caps, request, maxHeight), frame, opened)
          = Passed(IF own /\ "scale_vaapi" \in caps.filters THEN <<"scale_vaapi=nv12">> ELSE parts \o last,
                   frame, hw, open)
      BY DEF Through, VaapiVideoFilters, DeviceGraph, Readied
  <1>5. last \in Seq(FilterNames) BY NamesOfFilters
  <1> HIDE DEF frame, own, hw, open, last
  <1>6. CASE own /\ "scale_vaapi" \in caps.filters
      <2>1. Passed(<<"scale_vaapi=nv12">>, frame, hw, open) = Filtered("scale_vaapi=nv12", frame, hw, open)
          BY <1>1, <1>2, PassedOne
      <2>2. Filtered("scale_vaapi=nv12", frame, hw, open).loc = "vaapi" BY <1>1, <1>6, ZenonT(60) DEF Filtered, OnDevice
      <2> QED BY <1>4, <1>6, <2>1, <2>2 DEF frame
  <1>7. CASE ~(own /\ "scale_vaapi" \in caps.filters)
      <2>1. PICK mid \in Frames : /\ mid.loc = "system" /\ ~mid.fresh
                                  /\ Passed(parts \o last, frame, hw, open) = Passed(last, mid, hw, open)
          BY <1>1, <1>2, <1>5, ReadiedThen
      <2>2. Passed(last, mid, hw, open) = [loc |-> hw, fmt |-> "nv12", fresh |-> FALSE]
          BY <1>2, <1>3, <2>1, FrameIsUploaded DEF last
      <2>3. Through(VaapiVideoFilters(caps, request, maxHeight), frame, opened).loc = hw
          BY <1>4, <1>7, <2>1, <2>2
      <2> QED BY <2>3 DEF frame, hw
  <1> QED BY <1>6, <1>7

(* Frames of a vulkan decoder, scaled in system memory.                     *)
LEMMA FrameGoesThroughSystem ==
  ASSUME NEW frame \in Frames, frame.loc \in Devices, NEW hw \in Places, NEW open, hw \in open
  PROVE  Passed(<<"hwdownload", "scale", "format=nv12", "hwupload">>, frame, hw, open).loc = hw
  <1> DEFINE a == [loc |-> "system", fmt |-> frame.fmt, fresh |-> TRUE]
             b == SystemFrame(frame.fmt)
             c == SystemFrame("nv12")
  <1>1. Filtered("hwdownload", frame, hw, open) = a BY DEF Filtered, Devices
  <1>2. a \in Frames /\ a.loc = "system" /\ a.fmt = frame.fmt BY DEF Frames, Places
  <1>3. Filtered("scale", a, hw, open) = b
      <2> HIDE DEF a
      <2>1. Filtered("scale", a, hw, open) = SystemFrame(a.fmt) BY <1>2, SystemFilters
      <2> QED BY <1>2, <2>1
  <1>4. frame.fmt \in Formats /\ "nv12" \in Formats BY DEF Frames, Formats
  <1>5. b \in Frames /\ b.loc = "system" /\ ~b.fresh BY <1>4, SystemFramesAreFrames
  <1>6. c \in Frames /\ c.loc = "system" BY <1>4, SystemFramesAreFrames
  <1> HIDE DEF a, b
  <1>7. Filtered("format=nv12", b, hw, open) = c BY <1>5, SystemFilters
  <1> HIDE DEF c
  <1>8. Filtered("hwupload", c, hw, open) = [loc |-> hw, fmt |-> c.fmt, fresh |-> FALSE]
      BY <1>6, SystemFilters
  <1>9. Passed(<<"hwdownload", "scale", "format=nv12", "hwupload">>, frame, hw, open)
          = Filtered("hwupload", Filtered("format=nv12",
              Filtered("scale", Filtered("hwdownload", frame, hw, open), hw, open), hw, open), hw, open)
      BY PassedFour
  <1>10. Passed(<<"hwdownload", "scale", "format=nv12", "hwupload">>, frame, hw, open)
           = [loc |-> hw, fmt |-> c.fmt, fresh |-> FALSE]
      BY <1>1, <1>3, <1>7, <1>8, <1>9
  <1> QED BY <1>10

LEMMA LengthOfBoth ==
  ASSUME NEW R, NEW a \in Seq(R), NEW b \in Seq(R)
  PROVE  Len(a \o b) = Len(a) + Len(b) /\ Len(a) \in Nat /\ Len(b) \in Nat
  OBVIOUS

(* A scaler takes the frames of its own device.                             *)
LEMMA DeviceScalers ==
  ASSUME NEW frame, NEW hw, NEW open
  PROVE  /\ frame.loc = "vulkan" => Filtered("scale_vulkan", frame, hw, open).loc = "vulkan"
         /\ frame.loc = "videotoolbox" => Filtered("scale_vt", frame, hw, open).loc = "videotoolbox"
  <1>1. frame.loc = "vulkan" => Filtered("scale_vulkan", frame, hw, open).loc = "vulkan"
      <2>1. Filtered("scale_vulkan", frame, hw, open) = OnDevice(frame, "vulkan", frame.fmt)
          BY ZenonT(60) DEF Filtered
      <2> QED BY <2>1 DEF OnDevice
  <1>2. frame.loc = "videotoolbox" => Filtered("scale_vt", frame, hw, open).loc = "videotoolbox"
      <2>1. Filtered("scale_vt", frame, hw, open) = OnDevice(frame, "videotoolbox", frame.fmt)
          BY ZenonT(60) DEF Filtered
      <2> QED BY <2>1 DEF OnDevice
  <1> QED BY <1>1, <1>2

(* The frames of a backend's own decoder, or of the software decoder.       *)
LEMMA OwnOrSystem ==
  ASSUME NEW caps, NEW request, NEW depth \in Nat, NEW kind \in {"vulkan", "videotoolbox"},
         KindOf(DecodeAccel(caps, request)) \in {"none", kind}
  PROVE  LET frame == DecodedFrame(caps, request, depth)
             accel == DecodeAccel(caps, request)
         IN  /\ frame \in Frames /\ ~frame.fresh /\ frame.fmt = IF depth > 8 THEN "p010" ELSE "nv12"
             /\ accel = kind => frame.loc = kind /\ VideoDecoderArgs(caps, request).device = kind
             /\ accel # kind => accel = "none" /\ frame.loc = "system"
  <1> DEFINE frame == DecodedFrame(caps, request, depth)
             accel == DecodeAccel(caps, request)
  <1>1. /\ frame \in Frames /\ ~frame.fresh /\ frame.fmt = IF depth > 8 THEN "p010" ELSE "nv12"
      BY DecodedIsFrame
  <1>2. CASE KindOf(accel) = kind
      <2>1. accel = kind BY <1>2, KindsOfAccel
      <2>2. DecodeEmitsHardwareFrames(caps, request) /\ VideoDecoderArgs(caps, request).device = kind
          BY <1>2, DecodedIsFrame
      <2>3. frame.loc = kind BY <1>2, <2>2, DecodedIsFrame
      <2> QED BY <1>1, <2>1, <2>2, <2>3
  <1>3. CASE KindOf(accel) = "none"
      <2>1. accel = "none" BY <1>3, KindsOfAccel
      <2>2. frame.loc = "system" BY <1>3, DecodedIsFrame
      <2> QED BY <1>1, <2>1, <2>2
  <1> QED BY <1>2, <1>3

LEMMA VulkanArrives ==
  ASSUME NEW caps, NEW request, NEW depth \in Nat, Told(request, depth), NEW maxHeight \in Nat,
         KindOf(DecodeAccel(caps, request)) \in {"none", "vulkan"},
         ~(KindOf(DecodeAccel(caps, request)) = "vulkan" /\ maxHeight = 0),
         NEW opened, VideoDecoderArgs(caps, request).device \in opened
  PROVE  Through(VulkanVideoFilters(caps, request, maxHeight),
                 DecodedFrame(caps, request, depth), opened).loc = "vulkan"
  <1> DEFINE frame == DecodedFrame(caps, request, depth)
             accel == DecodeAccel(caps, request)
             own == accel = "vulkan"
             hw == "vulkan"
             open == opened \cup (IF own THEN {} ELSE {"vulkan"})
             scale == "scale_vulkan" \in caps.filters
             fetch == IF accel \notin {"none", "vulkan"} THEN <<"hwdownload">> ELSE <<>>
             filters == CASE maxHeight > 0 /\ own /\ scale   -> <<"scale_vulkan">>
                          [] maxHeight > 0 /\ own /\ ~scale  -> <<"hwdownload", "scale", "format=nv12", "hwupload">>
                          [] maxHeight > 0 /\ ~own /\ scale  -> fetch \o <<"format=nv12", "hwupload", "scale_vulkan">>
                          [] OTHER -> fetch \o ScaleTo("scale", maxHeight) \o <<"format=nv12", "hwupload">>
  <1>1. /\ frame \in Frames /\ ~frame.fresh /\ frame.fmt = IF depth > 8 THEN "p010" ELSE "nv12"
        /\ own => frame.loc = "vulkan" /\ VideoDecoderArgs(caps, request).device = "vulkan"
        /\ ~own => accel = "none" /\ frame.loc = "system"
      BY OwnOrSystem
  <1>2. own => maxHeight > 0
      <2>1. KindOf("vulkan") = "vulkan" BY DEF KindOf
      <2> QED BY <2>1
  <1>3. hw \in Places BY DEF Places
  <1>4. hw \in open BY <1>1
  <1>5. Through(VulkanVideoFilters(caps, request, maxHeight), frame, opened)
          = Passed(filters, frame, hw, open)
      BY DEF Through, VulkanVideoFilters, DeviceGraph
  <1>6. ~own => fetch = <<>> BY <1>1
  <1> HIDE DEF frame, hw, open, fetch
  <1>7. CASE own /\ scale
      <2>1. filters = <<"scale_vulkan">> BY <1>2, <1>7
      <2>2. Passed(filters, frame, hw, open) = Filtered("scale_vulkan", frame, hw, open)
          BY <1>1, <1>3, <2>1, PassedOne
      <2>3. Filtered("scale_vulkan", frame, hw, open).loc = "vulkan" BY <1>1, <1>7, DeviceScalers
      <2> QED BY <1>5, <2>2, <2>3 DEF frame
  <1>8. CASE own /\ ~scale
      <2>1. filters = <<"hwdownload", "scale", "format=nv12", "hwupload">> BY <1>2, <1>8
      <2>2. frame.loc \in Devices BY <1>1, <1>8 DEF Devices
      <2> HIDE DEF filters
      <2>3. Passed(filters, frame, hw, open).loc = hw BY <1>1, <1>3, <1>4, <2>1, <2>2, FrameGoesThroughSystem
      <2> QED BY <1>5, <2>3 DEF frame, hw
  <1>9. CASE ~own /\ maxHeight > 0 /\ scale
      <2> DEFINE some == <<"format=nv12", "hwupload">>
                 a == SystemFrame("nv12")
                 b == [loc |-> hw, fmt |-> a.fmt, fresh |-> FALSE]
                 none == <<>>
                 last == <<"format=nv12", "hwupload", "scale_vulkan">>
      <2>1. filters = none \o last BY <1>6, <1>9
      <2>2. Filtered("format=nv12", frame, hw, open) = a BY <1>1, <1>3, <1>9, SystemFilters
      <2>3. a \in Frames /\ a.loc = "system"
          <3>1. "nv12" \in Formats BY DEF Formats
          <3> QED BY <3>1, SystemFramesAreFrames
      <2> HIDE DEF a
      <2>4. Filtered("hwupload", a, hw, open) = b BY <1>3, <1>4, <2>3, SystemFilters
      <2>5. b.loc = "vulkan" BY DEF hw
      <2> HIDE DEF b
      <2>6. Filtered("scale_vulkan", b, hw, open).loc = "vulkan" BY <2>5, DeviceScalers
      <2>7. Passed(last, frame, hw, open) = Filtered("scale_vulkan", b, hw, open)
          BY <1>1, <1>3, <2>2, <2>4, PassedThree
      <2>8. none \in Seq(FilterNames) /\ last \in Seq(FilterNames)
          <3>1. {"format=nv12", "hwupload", "scale_vulkan"} \subseteq FilterNames BY DEF FilterNames
          <3> QED BY <3>1
      <2>9. Passed(none, frame, hw, open) = frame BY <1>1, <1>3, PassedNone
      <2> HIDE DEF none, last, filters
      <2>10. Passed(filters, frame, hw, open) = Passed(last, frame, hw, open)
          BY <1>1, <1>3, <2>1, <2>8, <2>9, PassedBoth
      <2> QED BY <1>5, <2>6, <2>7, <2>10 DEF frame
  <1>10. CASE ~own /\ ~(maxHeight > 0 /\ scale)
      <2> DEFINE last == <<"format=nv12", "hwupload">>
                 fetches == FALSE
      <2>1. filters = Readied(fetches, request, maxHeight) \o last BY <1>6, <1>10 DEF Readied
      <2>9. fetches \in BOOLEAN /\ ~fetches /\ frame.loc = "system" BY <1>1, <1>10
      <2>2. last \in Seq(FilterNames) BY NamesOfFilters
      <2> HIDE DEF last, filters, fetches, own
      <2>3. PICK mid \in Frames :
              /\ mid.loc = "system" /\ ~mid.fresh
              /\ Passed(Readied(fetches, request, maxHeight) \o last, frame, hw, open) = Passed(last, mid, hw, open)
          BY <1>1, <1>3, <2>9, <2>2, ReadiedThen
      <2>4. Passed(last, mid, hw, open) = [loc |-> hw, fmt |-> "nv12", fresh |-> FALSE]
          BY <1>3, <1>4, <2>3, FrameIsUploaded DEF last
      <2>5. [loc |-> hw, fmt |-> "nv12", fresh |-> FALSE].loc = hw OBVIOUS
      <2>6. Passed(filters, frame, hw, open).loc = hw BY ONLY <2>1, <2>3, <2>4, <2>5
      <2> QED BY <1>5, <2>6 DEF frame, hw
  <1> QED BY <1>7, <1>8, <1>9, <1>10

LEMMA VideotoolboxArrives ==
  ASSUME NEW caps, NEW request, NEW depth \in Nat, Told(request, depth), NEW maxHeight \in Nat,
         KindOf(DecodeAccel(caps, request)) \in {"none", "videotoolbox"},
         NEW opened, VideoDecoderArgs(caps, request).device \in opened,
         DecodeAccel(caps, request) # "videotoolbox" => "videotoolbox" \in opened
  PROVE  Through(VideotoolboxVideoFilters(caps, request, maxHeight),
                 DecodedFrame(caps, request, depth), opened).loc = "videotoolbox"
  <1> DEFINE frame == DecodedFrame(caps, request, depth)
             own == DecodeAccel(caps, request) = "videotoolbox"
             hw == "videotoolbox"
             open == opened \cup {}
             scale == "scale_vt" \in caps.filters
             up == <<"format=nv12", "hwupload">>
             parts == CASE own /\ scale   -> ScaleTo("scale_vt", maxHeight)
                        [] own /\ ~scale  -> IF maxHeight > 0
                                               THEN <<"hwdownload", "scale", "format=nv12", "hwupload">> ELSE <<>>
                        [] ~own /\ scale  -> up \o ScaleTo("scale_vt", maxHeight)
                        [] OTHER -> ScaleTo("scale", maxHeight) \o up
  <1>1. /\ frame \in Frames /\ ~frame.fresh /\ frame.fmt = IF depth > 8 THEN "p010" ELSE "nv12"
        /\ own => frame.loc = "videotoolbox" /\ VideoDecoderArgs(caps, request).device = "videotoolbox"
        /\ ~own => frame.loc = "system"
      BY OwnOrSystem
  <1>2. hw \in Places BY DEF Places
  <1>3. hw \in open BY <1>1
  <1>9. "" \in Places BY DEF Places
  <1>4. Through(VideotoolboxVideoFilters(caps, request, maxHeight), frame, opened)
          = Passed(parts, frame, IF parts = <<>> THEN "" ELSE hw, open)
      BY DEF Through, VideotoolboxVideoFilters, DeviceGraph, Graph
  <1>5. up \in Seq(FilterNames) BY NamesOfFilters
  <1>6. Len(up) = 2 OBVIOUS
  <1> HIDE DEF frame, hw, open, up
  <1>7. ASSUME parts # <<>> PROVE Passed(parts, frame, hw, open).loc = hw
      <2>1. CASE own /\ scale
          <3>1. parts = <<"scale_vt">> BY <1>7, <2>1 DEF ScaleTo
          <3>2. Passed(parts, frame, hw, open) = Filtered("scale_vt", frame, hw, open)
              BY <1>1, <1>2, <3>1, PassedOne
          <3> HIDE DEF parts
          <3> QED BY <1>1, <2>1, <3>2, DeviceScalers DEF hw
      <2>2. CASE own /\ ~scale
          <3>1. parts = <<"hwdownload", "scale", "format=nv12", "hwupload">> BY <1>7, <2>2
          <3>2. frame.loc \in Devices BY <1>1, <2>2 DEF Devices
          <3> HIDE DEF parts
          <3> QED BY <1>1, <1>2, <1>3, <3>1, <3>2, FrameGoesThroughSystem
      <2>3. CASE ~own /\ scale
          <3> DEFINE last == ScaleTo("scale_vt", maxHeight)
                     a == [loc |-> hw, fmt |-> "nv12", fresh |-> FALSE]
          <3>1. parts = up \o last BY <2>3
          <3>2. last \in Seq(FilterNames)
              <4>1. "scale_vt" \in FilterNames BY DEF FilterNames
              <4> QED BY <4>1 DEF ScaleTo
          <3>3. Passed(up, frame, hw, open) = a BY <1>1, <1>2, <1>3, <2>3, FrameIsUploaded DEF up
          <3>4. a \in Frames /\ a.loc = hw BY <1>2 DEF Frames, Formats
          <3> HIDE DEF a, parts
          <3>5. Passed(last, a, hw, open).loc = hw
              <4>1. CASE maxHeight > 0
                  <5>1. Passed(last, a, hw, open) = Filtered("scale_vt", a, hw, open)
                      BY <1>2, <3>4, <4>1, PassedOne DEF ScaleTo
                  <5> QED BY <3>4, <5>1, DeviceScalers DEF hw
              <4>2. CASE ~(maxHeight > 0)
                  <5>1. Passed(last, a, hw, open) = a BY <1>2, <3>4, <4>2, PassedNone DEF ScaleTo
                  <5> QED BY <3>4, <5>1
              <4> QED BY <4>1, <4>2
          <3> HIDE DEF last
          <3>6. Passed(up \o last, frame, hw, open) = Passed(last, Passed(up, frame, hw, open), hw, open)
              BY <1>1, <1>2, <1>5, <3>2, PassedBoth
          <3> QED BY <3>1, <3>3, <3>5, <3>6
      <2>4. CASE ~own /\ ~scale
          <3> DEFINE first == ScaleTo("scale", maxHeight)
                     mid == Passed(first, frame, hw, open)
          <3>1. parts = first \o up BY <2>4
          <3>2. first \in Seq(FilterNames)
              <4>1. "scale" \in FilterNames BY DEF FilterNames
              <4> QED BY <4>1 DEF ScaleTo
          <3>3. mid \in Frames /\ mid.loc = "system" /\ ~mid.fresh
              <4>1. CASE maxHeight > 0
                  <5>1. mid = Filtered("scale", frame, hw, open) BY <1>1, <1>2, <4>1, PassedOne DEF ScaleTo
                  <5>2. mid = SystemFrame(frame.fmt) BY <1>1, <1>2, <2>4, <5>1, SystemFilters
                  <5>3. frame.fmt \in Formats BY <1>1 DEF Frames
                  <5> QED BY <5>2, <5>3, SystemFramesAreFrames
              <4>2. CASE ~(maxHeight > 0)
                  <5>1. mid = frame BY <1>1, <1>2, <4>2, PassedNone DEF ScaleTo
                  <5> QED BY <1>1, <2>4, <5>1
              <4> QED BY <4>1, <4>2
          <3>4. Passed(up, mid, hw, open) = [loc |-> hw, fmt |-> "nv12", fresh |-> FALSE]
              BY <1>2, <1>3, <3>3, FrameIsUploaded DEF up
          <3> HIDE DEF first, parts
          <3>5. Passed(first \o up, frame, hw, open) = Passed(up, mid, hw, open)
              BY <1>1, <1>2, <1>5, <3>2, PassedBoth
          <3> QED BY <3>1, <3>4, <3>5
      <2> QED BY <2>1, <2>2, <2>3, <2>4
  <1>8. ASSUME parts = <<>> PROVE Passed(parts, frame, "", open).loc = "videotoolbox"
      <2>1. own
          <3> SUFFICES ASSUME ~own PROVE FALSE OBVIOUS
          <3>1. ScaleTo("scale_vt", maxHeight) \in Seq(FilterNames) /\ ScaleTo("scale", maxHeight) \in Seq(FilterNames)
              <4>1. "scale" \in FilterNames /\ "scale_vt" \in FilterNames BY DEF FilterNames
              <4> QED BY <4>1 DEF ScaleTo
          <3>2. parts = up \o ScaleTo("scale_vt", maxHeight) \/ parts = ScaleTo("scale", maxHeight) \o up
              OBVIOUS
          <3>3. Len(parts) >= 2
              <4> DEFINE a == ScaleTo("scale_vt", maxHeight)
                         b == ScaleTo("scale", maxHeight)
              <4> HIDE DEF parts, a, b
              <4>1. a \in Seq(FilterNames) /\ b \in Seq(FilterNames) BY <3>1 DEF a, b
              <4>2. Len(up \o a) = 2 + Len(a) /\ Len(a) \in Nat BY <1>5, <1>6, <4>1, LengthOfBoth
              <4>3. Len(b \o up) = Len(b) + 2 /\ Len(b) \in Nat BY <1>5, <1>6, <4>1, LengthOfBoth
              <4>4. Len(up \o a) >= 2 /\ Len(b \o up) >= 2 BY <4>2, <4>3
              <4> QED BY <3>2, <4>4 DEF a, b
          <3>4. Len(<<>>) = 0 OBVIOUS
          <3> QED BY <1>8, <3>3, <3>4
      <2>2. Passed(<<>>, frame, "", open) = frame BY <1>1, <1>9, PassedNone
      <2> QED BY <1>1, <1>8, <2>1, <2>2
  <1> HIDE DEF parts, own
  <1> QED BY <1>4, <1>7, <1>8 DEF frame, hw

(* THEOREM: whatever a detection holds, and whichever encoder and decoder a  *)
(* request resolves to, the frames of a segment encode arrive where the     *)
(* encoder takes them, when the depth of the source is known or 8 bits: the *)
(* graphs of video_filter.go fetch, scale, convert and upload in an order   *)
(* in which every filter takes what the one before it left.                 *)
THEOREM FramesReachEncoders ==
  ASSUME NEW caps, NEW profile, IsRequest(profile), NEW request,
         NEW depth \in Nat, request.depth \in {0, depth}, NEW maxHeight \in Nat
  PROVE  FrameReachesEncoder(caps, profile, request, maxHeight, depth)
  <1> DEFINE sel   == ResolveEncoder(caps, profile)
             kind  == KindOf(sel.accel)
             from  == KindOf(DecodeAccel(caps, request))
             opened == {VideoDecoderArgs(caps, request).device}
                         \cup VideoToolboxPreInputInit(caps, profile, request)
             Arrived(graph) == Through(graph, DecodedFrame(caps, request, depth), opened).loc
             graph == VideoFilterArgs(caps, profile, request, maxHeight)
  <1>1. SUFFICES ASSUME sel # Unavailable, depth <= 8 \/ request.depth = depth, Pairs(kind, from),
                        ~(kind = "vulkan" /\ from = "vulkan" /\ maxHeight = 0)
                 PROVE  Arrived(graph) \in EncoderTakes(kind)
      BY DEF FrameReachesEncoder
  <1>2. Told(request, depth) BY <1>1 DEF Told
  <1>3. profile.software => kind = "none"
      <2>1. ASSUME profile.software PROVE sel = ResolveSoftware(caps, profile.codec)
          <3>1. CASE profile.encoder = None BY <2>1, <3>1, WaysOfResolve
          <3>2. CASE profile.encoder # None
              <4>1. ~ValidateProfileOverrides(profile) BY <2>1, <3>2 DEF ValidateProfileOverrides
              <4>2. sel = Unavailable BY <4>1, WaysOfResolve
              <4> QED BY <1>1, <4>2
          <3> QED BY <3>1, <3>2
      <2>2. ASSUME profile.software PROVE sel.accel = "none"
          <3>1. ResolveSoftware(caps, profile.codec) # Unavailable BY <1>1, <2>1, <2>2
          <3>2. ResolveSoftware(caps, profile.codec)
                  = [SoftwareSelection(caps.encoders, profile.codec) EXCEPT !.fallback = None]
              BY <3>1 DEF ResolveSoftware
          <3> QED BY <2>1, <2>2, <3>2 DEF SoftwareSelection
      <2> QED BY <2>2 DEF KindOf
  <1>4. graph = CASE kind = "vaapi"        -> VaapiVideoFilters(caps, request, maxHeight)
                  [] kind = "nvenc"        -> NvencVideoFilters(caps, request, maxHeight)
                  [] kind = "qsv"          -> QsvVideoFilters(caps, request, maxHeight)
                  [] kind = "vulkan"       -> VulkanVideoFilters(caps, request, maxHeight)
                  [] kind = "videotoolbox" -> VideotoolboxVideoFilters(caps, request, maxHeight)
                  [] OTHER                 -> SoftwareVideoFilters(caps, request, maxHeight)
      BY <1>3 DEF VideoFilterArgs
  <1>5. VideoDecoderArgs(caps, request).device \in opened OBVIOUS
  <1>6. kind = "videotoolbox" /\ DecodeAccel(caps, request) # "videotoolbox" => "videotoolbox" \in opened
      <2>1. kind = "videotoolbox" => sel.accel = "videotoolbox" BY KindsOfAccel
      <2>2. kind = "videotoolbox" => ~profile.software BY <1>3
      <2> QED BY <2>1, <2>2 DEF VideoToolboxPreInputInit
  <1>7. kind \in {"vaapi", "vulkan", "videotoolbox"} => from \in {"none", kind}
      BY <1>1 DEF Pairs, FetchingBackends
  <1> HIDE DEF opened, graph, kind, from
  <1>8. CASE kind = "vaapi"
      <2>1. Arrived(graph) = "vaapi" BY <1>2, <1>4, <1>5, <1>7, <1>8, VaapiArrives DEF from
      <2> QED BY <1>8, <2>1 DEF EncoderTakes
  <1>9. CASE kind = "nvenc"
      <2>1. Arrived(graph) = "system" BY <1>2, <1>4, <1>9, NvencArrives
      <2> QED BY <1>9, <2>1 DEF EncoderTakes
  <1>10. CASE kind = "qsv"
      <2>1. Arrived(graph) = "system" BY <1>2, <1>4, <1>10, QsvArrives
      <2> QED BY <1>10, <2>1 DEF EncoderTakes
  <1>11. CASE kind = "vulkan"
      <2>1. Arrived(graph) = "vulkan" BY <1>1, <1>2, <1>4, <1>5, <1>7, <1>11, VulkanArrives DEF from
      <2> QED BY <1>11, <2>1 DEF EncoderTakes
  <1>12. CASE kind = "videotoolbox"
      <2>1. Arrived(graph) = "videotoolbox"
          BY <1>2, <1>4, <1>5, <1>6, <1>7, <1>12, VideotoolboxArrives DEF from
      <2> QED BY <1>12, <2>1 DEF EncoderTakes
  <1>13. CASE kind \notin {"vaapi", "nvenc", "qsv", "vulkan", "videotoolbox"}
      <2>1. Arrived(graph) = "system" BY <1>2, <1>4, <1>13, SoftwareArrives
      <2> QED BY <1>13, <2>1 DEF EncoderTakes
  <1> QED BY <1>8, <1>9, <1>10, <1>11, <1>12, <1>13

-----------------------------------------------------------------------------
(* The questions about encoders that MCDecisions asks.                      *)
IsEncoderQuestion(q) ==
  /\ IsHost(q.host) /\ q.opts.hierarchy \in Seq(Backends) /\ q.opts.allow \in BOOLEAN
  /\ IsChain(q.opts.chain) /\ q.opts.chain # <<>>
  /\ PiDefaultH264(q.host.pi) # None => <<"h264", "libx264">> \in q.host.compiled

EncodersInv == Asked("encoders") => IsEncoderQuestion(question)

LEMMA ChainsAreChains ==
  ASSUME NEW chain \in PiChains \cup PcChains
  PROVE  IsChain(chain) /\ chain # <<>>
  <1> DEFINE Ok(d) == d.software \in BOOLEAN /\ (d.software => d.vendor = "")
  <1>1. Ok(SoftwareDev) /\ \A vendor : Ok(Dev(vendor)) BY DEF SoftwareDev, Dev
  <1> HIDE DEF Ok
  <1>2. \E n \in {1, 2, 3} : DOMAIN chain = 1..n /\ \A i \in 1..n : Ok(chain[i])
      <2>1. CASE \E d : chain = <<d>> /\ Ok(d) BY <2>1
      <2>2. CASE \E d, e : chain = <<d, e>> /\ Ok(d) /\ Ok(e) BY <2>2
      <2>3. CASE \E d, e, f : chain = <<d, e, f>> /\ Ok(d) /\ Ok(e) /\ Ok(f) BY <2>3
      <2>4. \/ \E d : chain = <<d>> /\ Ok(d)
            \/ \E d, e : chain = <<d, e>> /\ Ok(d) /\ Ok(e)
            \/ \E d, e, f : chain = <<d, e, f>> /\ Ok(d) /\ Ok(e) /\ Ok(f)
          BY <1>1, Zenon DEF PiChains, PcChains
      <2> QED BY <2>1, <2>2, <2>3, <2>4
  <1>3. PICK n \in {1, 2, 3} : DOMAIN chain = 1..n /\ \A i \in 1..n : Ok(chain[i]) BY <1>2
  <1>4. IsChain(chain) BY <1>3 DEF IsChain, Ok
  <1>5. chain # <<>> BY <1>3
  <1> QED BY <1>4, <1>5

LEMMA OptionsAreOptions ==
  ASSUME NEW chains, chains \subseteq PiChains \cup PcChains, NEW opts \in DetectOptions(chains)
  PROVE  /\ opts.hierarchy \in Seq(Backends) /\ opts.allow \in BOOLEAN
         /\ IsChain(opts.chain) /\ opts.chain # <<>>
  <1>1. /\ opts.hierarchy \in {<<>>, <<"none">>, <<"vaapi", "none">>}
        /\ opts.allow \in BOOLEAN /\ opts.chain \in chains
      BY DEF DetectOptions
  <1>2. "none" \in Backends /\ "vaapi" \in Backends BY DEF Backends, AllEncoderAccelTypes
  <1>3. <<>> \in Seq(Backends) /\ <<"none">> \in Seq(Backends) /\ <<"vaapi", "none">> \in Seq(Backends)
      BY <1>2
  <1>4. IsChain(opts.chain) /\ opts.chain # <<>> BY <1>1, ChainsAreChains
  <1> QED BY <1>1, <1>3, <1>4

LEMMA EncoderQuestions ==
  ASSUME AskPiEncoders \/ AskPcEncoders
  PROVE  IsEncoderQuestion(question')
  <1>1. CASE AskPiEncoders
      <2>1. PICK pi \in {"pi4", "pi5", "legacy"}, works \in PiWorks, opts \in DetectOptions(PiChains) :
              question' = [host |-> Pi(pi, works), opts |-> opts]
          BY <1>1, Zenon DEF AskPiEncoders
      <2>2. <<"h264", "libx264">> \in works /\ None \notin works
          BY DEF PiWorks, SoftwareWorks, None
      <2>3. IsHost(Pi(pi, works)) /\ Pi(pi, works).compiled = works BY <2>2 DEF IsHost, Pi
      <2>4. /\ opts.hierarchy \in Seq(Backends) /\ opts.allow \in BOOLEAN
            /\ IsChain(opts.chain) /\ opts.chain # <<>>
          BY OptionsAreOptions
      <2> QED BY <2>1, <2>2, <2>3, <2>4 DEF IsEncoderQuestion
  <1>2. CASE AskPcEncoders
      <2>1. PICK wsl \in BOOLEAN, works \in PcWorks, opts \in DetectOptions(PcChains) :
              question' = [host |-> Pc(wsl, works), opts |-> opts]
          BY <1>2, Zenon DEF AskPcEncoders
      <2>2. None \notin works BY DEF PcWorks, SoftwareWorks, NoSoftwareWorks, None
      <2>3. IsHost(Pc(wsl, works)) /\ PiDefaultH264(Pc(wsl, works).pi) = None
          BY <2>2 DEF IsHost, Pc, PiDefaultH264
      <2>4. /\ opts.hierarchy \in Seq(Backends) /\ opts.allow \in BOOLEAN
            /\ IsChain(opts.chain) /\ opts.chain # <<>>
          BY OptionsAreOptions
      <2> QED BY <2>1, <2>3, <2>4 DEF IsEncoderQuestion
  <1> QED BY <1>1, <1>2

(* Requests and defaults of the run are requests.                           *)
LEMMA ProfilesAreRequests ==
  ASSUME NEW codecs, codecs \subseteq Codecs, NEW encoders, NEW accels,
         NEW software, software \subseteq BOOLEAN, NEW heights, NEW rates,
         NEW request \in [codec: codecs, encoder: encoders, accel: accels, software: software,
                         height: heights, fps: rates]
  PROVE  IsRequest(request)
  <1>1. /\ request.codec \in codecs /\ request.software \in software
        /\ DOMAIN request = {"codec", "encoder", "accel", "software", "height", "fps"}
      OBVIOUS
  <1> QED BY <1>1 DEF IsRequest

LEMMA RequestsAreRequests ==
  ASSUME NEW codecs, codecs \subseteq Codecs, NEW heights,
         NEW request, request \in Requests(codecs) \/ request \in Automatic(heights)
  PROVE  IsRequest(request)
  <1> DEFINE Names == {None, <<"h264", "vaapi">>, <<"h264", "v4l2m2m">>, <<"h264", "libx264">>}
             Accels == {"", "none", "vaapi", "v4l2m2m"}
             Both == {"h264", "av1"}
             Zero == {0, 60}
             Tall == {0, 1080, 2160}
  <1>1. Both \subseteq Codecs BY DEF Codecs
  <1>2. CASE request \in Requests(codecs)
      <2>1. Requests(codecs) = [codec: codecs, encoder: Names, accel: Accels, software: BOOLEAN,
                                height: Tall, fps: Zero]
          BY Zenon DEF Requests
      <2> HIDE DEF Names, Accels, Tall, Zero
      <2> QED BY <1>2, <2>1, ProfilesAreRequests
  <1>3. CASE request \in Automatic(heights)
      <2> DEFINE no == {None}
                 blank == {""}
                 off == {FALSE}
      <2>1. Automatic(heights) = [codec: Both, encoder: no, accel: blank, software: off,
                                  height: heights, fps: Zero]
          BY Zenon DEF Automatic
      <2>2. off \subseteq BOOLEAN OBVIOUS
      <2> HIDE DEF Both, no, blank, off, Zero
      <2> QED BY <1>1, <1>3, <2>1, <2>2, ProfilesAreRequests
  <1> QED BY <1>2, <1>3

(* What the invariant of the run says of one question.                      *)
LEMMA QuestionsAreHonoured ==
  ASSUME NEW host, NEW opts, IsEncoderQuestion([host |-> host, opts |-> opts]),
         ~Detect(host, opts).error
  PROVE  /\ ReportIsUsable(Detect(host, opts), opts)
         /\ \A request : IsRequest(request) =>
              /\ ChoiceHonoursRequest(Detect(host, opts), request)
              /\ NoUnaskedSoftware(Detect(host, opts), request)
              /\ AutomaticSucceeds(Detect(host, opts), request)
  <1>1. /\ IsHost(host) /\ opts.hierarchy \in Seq(Backends) /\ opts.allow \in BOOLEAN
        /\ IsChain(opts.chain) /\ opts.chain # <<>>
        /\ PiDefaultH264(host.pi) # None => <<"h264", "libx264">> \in host.compiled
      BY DEF IsEncoderQuestion
  <1>2. PiDefaultH264(host.pi) # None => FirstSoftware(Detect(host, opts).encoders, "h264") # None
      <2>1. SUFFICES ASSUME PiDefaultH264(host.pi) # None
                     PROVE  FirstSoftware(Detect(host, opts).encoders, "h264") # None
          OBVIOUS
      <2>2. IsDetected(Detect(host, opts), host, opts) BY <1>1, DetectionIsSound
      <2>3. "h264" \in Codecs BY DEF Codecs
      <2>4. 1 \in DOMAIN SoftwareFallback("h264") /\ SoftwareFallback("h264")[1] = <<"h264", "libx264">>
          BY DEF SoftwareFallback
      <2>5. ~IsHardware(<<"h264", "libx264">>) /\ EncoderMatchesCodec(<<"h264", "libx264">>, "h264")
          BY <2>3, <2>4, FallbacksAreSoftware
      <2>6. <<"h264", "libx264">> \in PopulateEncoders(host, opts.skipHW)
          BY <1>1, <2>1, <2>5 DEF PopulateEncoders
      <2>7. <<"h264", "libx264">> \in Detect(host, opts).encoders /\ None \notin Detect(host, opts).encoders
          BY <2>2, <2>6 DEF IsDetected
      <2> QED BY <2>3, <2>5, <2>7, SoftwareFound
  <1>3. ASSUME NEW request, IsRequest(request)
        PROVE  /\ ChoiceHonoursRequest(Detect(host, opts), request)
               /\ NoUnaskedSoftware(Detect(host, opts), request)
               /\ AutomaticSucceeds(Detect(host, opts), request)
      <2>1. ChoiceHonoursRequest(Detect(host, opts), request) BY <1>1, <1>3, ChoicesHonourRequests
      <2>2. NoUnaskedSoftware(Detect(host, opts), request) BY <1>1, <1>3, SoftwareIsNeverUnasked
      <2>3. AutomaticSucceeds(Detect(host, opts), request) BY <1>1, <1>2, <1>3, AutomaticRequestsSucceed
      <2> QED BY <2>1, <2>2, <2>3
  <1>4. ReportIsUsable(Detect(host, opts), opts) BY <1>1, ReportsAreUsable
  <1> QED BY <1>3, <1>4

LEMMA InvariantHonours ==
  ASSUME EncodersInv
  PROVE  EncodersHonoured
  <1> DEFINE caps == Detect(question.host, question.opts)
             asked == Requests({"h264", "av1"})
             automatic == Automatic({0, 1080, 2160})
             defaults == {"", "none", "vaapi"}
  <1>1. SUFFICES ASSUME Asked("encoders"), ~caps.error
                 PROVE  /\ ReportIsUsable(caps, question.opts)
                        /\ \A request \in asked :
                             /\ ChoiceHonoursRequest(caps, request)
                             /\ \A preferred \in defaults : EncodeDefaultsYield(caps, request, preferred)
                        /\ \A request \in automatic :
                             NoUnaskedSoftware(caps, request) /\ AutomaticSucceeds(caps, request)
      BY Zenon DEF EncodersHonoured
  <1>2. IsEncoderQuestion([host |-> question.host, opts |-> question.opts])
      BY <1>1 DEF EncodersInv, IsEncoderQuestion
  <1>3. /\ ReportIsUsable(caps, question.opts)
        /\ \A request : IsRequest(request) =>
             /\ ChoiceHonoursRequest(caps, request)
             /\ NoUnaskedSoftware(caps, request) /\ AutomaticSucceeds(caps, request)
      BY <1>1, <1>2, QuestionsAreHonoured
  <1>4. \A request, preferred : IsRequest(request) => EncodeDefaultsYield(caps, request, preferred)
      BY DefaultsYield
  <1>5. {"h264", "av1"} \subseteq Codecs BY DEF Codecs
  <1>6. \A request \in asked \cup automatic : IsRequest(request) BY <1>5, RequestsAreRequests
  <1> HIDE DEF caps, asked, automatic, defaults
  <1> QED BY <1>3, <1>4, <1>6

(* THEOREM: every request is answered as asked, an automatic one is neither *)
(* given software it should not get nor refused what the host could do, and *)
(* the report names the backends that can be asked for.                     *)
THEOREM EncodersAreHonoured == Spec => []EncodersHonoured
  <1>1. Init => EncodersInv BY DEF Init, EncodersInv, Asked
  <1>2. EncodersInv /\ [Next]_vars => EncodersInv'
      <2> SUFFICES ASSUME EncodersInv, [Next]_vars PROVE EncodersInv' OBVIOUS
      <2>1. CASE Choose BY <2>1 DEF Choose, EncodersInv, Asked
      <2>2. CASE AskPiEncoders \/ AskPcEncoders BY <2>2, EncoderQuestions DEF EncodersInv
      <2>3. ASSUME NEW t, t # "encoders", Asking(t) PROVE EncodersInv'
          BY <2>3 DEF Asking, EncodersInv, Asked
      <2>4. CASE AskPlan \/ AskProbe \/ AskPipeline \/ AskRecording \/ AskJoin \/ AskSheet \/ AskFrame
                   \/ AskAlign \/ AskPublish \/ AskPrefix \/ AskSelector \/ AskPiSelector
                   \/ AskConfig \/ AskFrames
          <3>1. AskPlan \/ AskProbe => Asking("plan") BY PTL DEF AskPlan, AskProbe
          <3>2. AskPipeline \/ AskRecording \/ AskJoin \/ AskSheet \/ AskFrame => Asking("media")
              BY PTL DEF AskPipeline, AskRecording, AskJoin, AskSheet, AskFrame
          <3>3. AskAlign \/ AskPublish \/ AskPrefix => Asking("fragments")
              BY PTL DEF AskAlign, AskPublish, AskPrefix
          <3>4. AskSelector \/ AskPiSelector => Asking("devices") BY PTL DEF AskSelector, AskPiSelector
          <3>5. AskConfig => Asking("config") BY PTL DEF AskConfig
          <3>6. AskFrames => Asking("frames") BY PTL DEF AskFrames
          <3> QED BY <2>3, <2>4, <3>1, <3>2, <3>3, <3>4, <3>5, <3>6
      <2>5. CASE UNCHANGED vars BY <2>5 DEF vars, EncodersInv, Asked
      <2> QED BY <2>1, <2>2, <2>4, <2>5 DEF Next
  <1>3. EncodersInv => EncodersHonoured BY InvariantHonours
  <1> QED BY <1>1, <1>2, <1>3, PTL DEF Spec

-----------------------------------------------------------------------------
(* The questions about media that MCDecisions asks.                         *)
IsMediaQuestion(q) ==
  \/ q.job = "pipeline" /\ q.opts.maxHeight \in Nat /\ q.info.height \in Int
  \/ q.job = "record" /\ IsRecordRequest(q.opts) /\ q.filters \in BOOLEAN
  \/ q.job = "join" /\ IsJoinRequest(q.opts) /\ \E n \in Nat : DOMAIN q.clips = 1..n
  \/ q.job = "sheet" /\ IsSheetRequest(q.opts)
  \/ q.job = "frame" /\ IsFrameRequest(q.opts)

MediaInv == Asked("media") => IsMediaQuestion(question)

LEMMA PipelineQuestions ==
  ASSUME AskPipeline
  PROVE  IsMediaQuestion(question')
  <1> DEFINE videos == {"", "h264", "hevc", "mpeg4"}
             audios == {"", "aac", "opus"}
             heights == {0, 480, 1080}
             starts == {0, 3}
             limits == {0, 480, 720}
             lengths == {8}
  <1>1. limits \subseteq Nat /\ heights \subseteq Int OBVIOUS
  <1>2. PICK info \in [hasVideo: BOOLEAN, video: videos, audio: audios, height: heights,
                       startTime: starts],
             opts \in [force: BOOLEAN, maxHeight: limits, segmentSec: lengths] :
          question' = [job |-> "pipeline", opts |-> opts, info |-> info]
      BY PTL DEF AskPipeline
  <1> HIDE DEF videos, audios, heights, starts, limits, lengths
  <1>3. opts.maxHeight \in limits /\ info.height \in heights OBVIOUS
  <1> QED BY <1>1, <1>2, <1>3 DEF IsMediaQuestion

LEMMA RecordQuestions ==
  ASSUME AskRecording
  PROVE  IsMediaQuestion(question')
  <1> DEFINE modes == {"copy", "transcode", "auto"}
             codecs == {"", "h264", "copy"}
             audios == {"", "aac", "copy"}
             lengths == {0, 7, 3600}
  <1>1. PICK opts \in [mode: modes, codec: codecs, audio: audios, seconds: lengths,
                       aligned: BOOLEAN, hwDecode: BOOLEAN],
             info \in Infos, filters \in BOOLEAN :
          question' = [job |-> "record", opts |-> opts, info |-> info, filters |-> filters]
      BY PTL DEF AskRecording
  <1> HIDE DEF modes, codecs, audios, lengths
  <1>2. opts.mode \in modes OBVIOUS
  <1>3. IsRecordRequest(opts) BY <1>2 DEF modes, IsRecordRequest
  <1> QED BY <1>1, <1>3 DEF IsMediaQuestion

LEMMA JoinQuestions ==
  ASSUME AskJoin
  PROVE  IsMediaQuestion(question')
  <1> DEFINE sizes == {0, 1}
             codecs == {""}
  <1>1. sizes \subseteq Int OBVIOUS
  <1>2. PICK opts \in [width: sizes, height: sizes, fps: sizes, codec: codecs], n \in 0..2 :
          \E clips \in [1..n -> Clips] : question' = [job |-> "join", opts |-> opts, clips |-> clips]
      BY PTL DEF AskJoin
  <1> HIDE DEF sizes, codecs
  <1>3. PICK clips : DOMAIN clips = 1..n /\ question' = [job |-> "join", opts |-> opts, clips |-> clips]
      BY <1>2
  <1>4. opts.width \in sizes /\ opts.height \in sizes /\ opts.fps \in sizes OBVIOUS
  <1>5. IsJoinRequest(opts) BY ONLY <1>1, <1>4, Zenon DEF IsJoinRequest
  <1>6. n \in Nat OBVIOUS
  <1> QED BY <1>3, <1>5, <1>6 DEF IsMediaQuestion

LEMMA SheetQuestions ==
  ASSUME AskSheet
  PROVE  IsMediaQuestion(question')
  <1>1. PICK opts \in [columns: 0..3, rows: 0..3, count: 0..7, interval: {0, 2, 5}, start: {0, 3},
                       end: {0, 4, 20}, duration: {3, 10}] : question' = [job |-> "sheet", opts |-> opts]
      BY PTL DEF AskSheet
  <1>2. IsSheetRequest(opts) BY DEF IsSheetRequest
  <1> QED BY <1>1, <1>2 DEF IsMediaQuestion

LEMMA FrameQuestions ==
  ASSUME AskFrame
  PROVE  IsMediaQuestion(question')
  <1>1. PICK opts \in [at: [kind: {"first", "seconds", "percent"}, value: {-1, 0, 50, 100, 120}],
                       duration: {0, 40}, width: {0, 1}, height: {0, 1}, exact: BOOLEAN,
                       format: {"webp", "png", "jpeg"}],
             encoders \in SUBSET {"webp", "libwebp", "png", "mjpeg"} :
          question' = [job |-> "frame", opts |-> opts, encoders |-> encoders]
      BY PTL DEF AskFrame
  <1>2. IsFrameRequest(opts) BY DEF IsFrameRequest
  <1> QED BY <1>1, <1>2 DEF IsMediaQuestion

LEMMA InvariantSound ==
  ASSUME MediaInv
  PROVE  MediaJobsSound
  <1> SUFFICES ASSUME Asked("media") PROVE MediaJobsSound BY DEF MediaJobsSound
  <1> DEFINE heights == {0, 480, 720}
             Other(force, maxHeight) == [force |-> force, maxHeight |-> maxHeight, segmentSec |-> 8]
  <1>1. IsMediaQuestion(question) BY DEF MediaInv
  <1>2. CASE /\ question.job = "pipeline"
             /\ question.opts.maxHeight \in Nat /\ question.info.height \in Int
      <2>1. PipelineJustified(question.info, question.opts) BY <1>2, PipelineIsJustified
      <2>2. \A force \in BOOLEAN, maxHeight \in heights :
              KeyTellsApart(question.info, question.opts, Other(force, maxHeight))
          <3> HIDE DEF Other
          <3> QED BY KeysTellApart
      <2> QED BY ONLY <1>2, <2>1, <2>2, ZenonT(60) DEF MediaJobsSound
  <1>3. CASE /\ question.job = "record"
             /\ IsRecordRequest(question.opts) /\ question.filters \in BOOLEAN
      <2>1. TRUE \in BOOLEAN OBVIOUS
      <2>2. RecordingJustified(question.opts, question.info, TRUE, question.filters)
          BY <1>3, <2>1, RecordingIsJustified
      <2> QED BY ONLY <1>3, <2>2, ZenonT(30) DEF MediaJobsSound
  <1>4. CASE /\ question.job = "join" /\ IsJoinRequest(question.opts)
             /\ \E n \in Nat : DOMAIN question.clips = 1..n
      <2>1. JoinJustified(question.opts, question.clips) BY <1>4, JoinIsJustified
      <2> QED BY ONLY <1>4, <2>1, ZenonT(30) DEF MediaJobsSound
  <1>5. CASE question.job = "sheet" /\ IsSheetRequest(question.opts)
      <2>1. FALSE \in BOOLEAN /\ 2 \in Int OBVIOUS
      <2>2. SheetHoldsSamples(question.opts, FALSE, 2) BY <1>5, <2>1, SheetsHoldTheirSamples
      <2>3. SamplesSpanWindow(question.opts) BY <1>5, SamplesReachTheEnd
      <2> QED BY ONLY <1>5, <2>2, <2>3, ZenonT(30) DEF MediaJobsSound
  <1>6. CASE question.job = "frame" /\ IsFrameRequest(question.opts)
      <2>1. FrameReachable(question.opts, question.encoders) BY <1>6, FramesAreReachable
      <2> QED BY ONLY <1>6, <2>1, ZenonT(30) DEF MediaJobsSound
  <1> QED BY <1>1, <1>2, <1>3, <1>4, <1>5, <1>6 DEF IsMediaQuestion

(* THEOREM: whatever MCDecisions asks about jobs on media, streams are      *)
(* copied or encoded for a reason, keys tell segments apart, and sheets and *)
(* frames show what they say.                                               *)
THEOREM MediaJobsAreSound == Spec => []MediaJobsSound
  <1>1. Init => MediaInv BY DEF Init, MediaInv, Asked
  <1>2. MediaInv /\ [Next]_vars => MediaInv'
      <2> SUFFICES ASSUME MediaInv, [Next]_vars PROVE MediaInv' OBVIOUS
      <2>1. CASE Choose BY <2>1 DEF Choose, MediaInv, Asked
      <2>2. CASE AskPipeline \/ AskRecording \/ AskJoin \/ AskSheet \/ AskFrame
          BY <2>2, PipelineQuestions, RecordQuestions, JoinQuestions, SheetQuestions, FrameQuestions
             DEF MediaInv
      <2>3. ASSUME NEW t, t # "media", Asking(t) PROVE MediaInv'
          BY <2>3 DEF Asking, MediaInv, Asked
      <2>4. CASE AskPlan \/ AskProbe \/ AskPiEncoders \/ AskPcEncoders
                   \/ AskAlign \/ AskPublish \/ AskPrefix \/ AskSelector \/ AskPiSelector
                   \/ AskConfig \/ AskFrames
          <3>1. AskPlan \/ AskProbe => Asking("plan") BY PTL DEF AskPlan, AskProbe
          <3>2. AskPiEncoders \/ AskPcEncoders => Asking("encoders")
              BY PTL DEF AskPiEncoders, AskPcEncoders
          <3>3. AskAlign \/ AskPublish \/ AskPrefix => Asking("fragments")
              BY PTL DEF AskAlign, AskPublish, AskPrefix
          <3>4. AskSelector \/ AskPiSelector => Asking("devices") BY PTL DEF AskSelector, AskPiSelector
          <3>5. AskConfig => Asking("config") BY PTL DEF AskConfig
          <3>6. AskFrames => Asking("frames") BY PTL DEF AskFrames
          <3> QED BY <2>3, <2>4, <3>1, <3>2, <3>3, <3>4, <3>5, <3>6
      <2>5. CASE UNCHANGED vars BY <2>5 DEF vars, MediaInv, Asked
      <2> QED BY <2>1, <2>2, <2>4, <2>5 DEF Next
  <1>3. MediaInv => MediaJobsSound BY InvariantSound
  <1> QED BY <1>1, <1>2, <1>3, PTL DEF Spec

-----------------------------------------------------------------------------
(* The questions about plans that MCDecisions asks: what a probe may say,   *)
(* and a file by its keyframes, its duration and its start.                 *)
IsProbeQuestion(q) ==
  /\ \E n \in Nat : IsProbeOf(q.packets, n)
  /\ q.frames \in SUBSET Int /\ IsFiniteSet(q.frames)

IsFileQuestion(q) ==
  /\ q.kf \subseteq Nat /\ IsFiniteSet(q.kf)
  /\ q.duration \in Nat /\ q.start \in Nat /\ q.seg \in Nat /\ q.seg >= MinSegment

IsPlanQuestion(q) ==
  \/ q.job = "probe" /\ IsProbeQuestion(q)
  \/ q.job = "file" /\ IsFileQuestion(q)

PlanInv == Asked("plan") => IsPlanQuestion(question)

LEMMA FileQuestions ==
  ASSUME AskPlan
  PROVE  IsPlanQuestion(question')
  <1> DEFINE jobs == {"file"}
             durations == {0, 1, 5, 8, 9}
             starts == {0, 3}
             lengths == {3, 4}
             kfs == UNION {kSubset(n, 0..9) : n \in 0..MaxKeyframes}
  <1>1. durations \subseteq Nat /\ starts \subseteq Nat /\ lengths \subseteq Nat
        /\ \A l \in lengths : l >= MinSegment
      BY DEF MinSegment
  <1>2. kfs \subseteq SUBSET (0..9) BY DEF kSubset
  <1>3. question' \in [job : jobs, duration : durations, start : starts, seg : lengths, kf : kfs]
      BY PTL DEF AskPlan
  <1> HIDE DEF durations, starts, lengths, kfs
  <1>4. PICK q : q = question' OBVIOUS
  <1>5. /\ q.job = "file" /\ q.duration \in durations /\ q.start \in starts
        /\ q.seg \in lengths /\ q.kf \in kfs
      BY <1>3, <1>4
  <1>6. IsFiniteSet(0..9)
      <2>1. 0 \in Int /\ 9 \in Int OBVIOUS
      <2> QED BY ONLY <2>1, FS_Interval
  <1>7. q.kf \in SUBSET (0..9) BY <1>2, <1>5
  <1>8. IsFiniteSet(q.kf) BY ONLY <1>6, <1>7, FS_Subset
  <1>9. q.kf \subseteq Nat BY <1>7
  <1>10. IsFileQuestion(q) BY <1>1, <1>5, <1>8, <1>9 DEF IsFileQuestion
  <1> QED BY <1>4, <1>5, <1>10 DEF IsPlanQuestion

LEMMA ProbeQuestions ==
  ASSUME AskProbe
  PROVE  IsPlanQuestion(question')
  <1> DEFINE pts == {-1, 3, 5}
             dts == {-1, 0, 3}
             packet == [key : BOOLEAN, pts : pts, dts : dts]
             few == {-1, 0, 4}
  <1>1. PICK n \in 0..3, frames \in SUBSET few :
          \E packets \in [1..n -> packet] :
            question' = [job |-> "probe", packets |-> packets, frames |-> frames]
      BY PTL DEF AskProbe
  <1>2. PICK packets \in [1..n -> packet] :
          question' = [job |-> "probe", packets |-> packets, frames |-> frames]
      BY <1>1
  <1>3. packet \subseteq [key : BOOLEAN, pts : Nat \cup {-1}, dts : Nat \cup {-1}]
      <2> SUFFICES ASSUME NEW p \in packet
                   PROVE  p \in [key : BOOLEAN, pts : Nat \cup {-1}, dts : Nat \cup {-1}]
          OBVIOUS
      <2>1. pts \subseteq Nat \cup {-1} /\ dts \subseteq Nat \cup {-1} OBVIOUS
      <2> HIDE DEF pts, dts
      <2> QED BY <2>1
  <1> HIDE DEF packet
  <1>4. IsProbeOf(packets, n) /\ n \in Nat BY <1>3 DEF IsProbeOf
  <1> DEFINE span == (-1)..4
  <1>5. few \subseteq span /\ span \subseteq Int OBVIOUS
  <1>6. IsFiniteSet(span)
      <2>1. -1 \in Int /\ 4 \in Int OBVIOUS
      <2> QED BY ONLY <2>1, FS_Interval
  <1>7. frames \in SUBSET Int /\ IsFiniteSet(frames)
      <2> HIDE DEF few, span
      <2>1. frames \in SUBSET span BY <1>5
      <2>2. IsFiniteSet(frames) BY ONLY <1>6, <2>1, FS_Subset
      <2> QED BY <1>5, <2>1, <2>2
  <1>8. PICK q : q = question' OBVIOUS
  <1>9. q.job = "probe" /\ q.packets = packets /\ q.frames = frames BY <1>2, <1>8
  <1>10. IsProbeQuestion(q) BY <1>4, <1>7, <1>9 DEF IsProbeQuestion
  <1> QED BY <1>8, <1>9, <1>10 DEF IsPlanQuestion

-----------------------------------------------------------------------------
(* The file of a question, its keyframes and its plan.                      *)
LEMMA QuestionIsFile ==
  ASSUME IsFileQuestion(question), NEW kf, kf = Increasing(question.kf)
  PROVE  /\ IsFile(kf, question.duration, question.start, question.seg)
         /\ kf \in Seq(Nat) /\ StrictlyIncreasing(kf)
  <1>1. kf \in Seq(Nat) /\ StrictlyIncreasing(kf)
      BY IncreasingOrders DEF IsFileQuestion
  <1> QED BY <1>1 DEF IsFile, IsFileQuestion

LEMMA PreparedOfQuestion ==
  ASSUME IsFileQuestion(question)
  PROVE  /\ Prepared.duration \in Nat /\ PreparedFor(Prepared.keyframes, Prepared.duration)
         /\ Prepared.keyframes # <<>> => Prepared.duration > 0
         /\ ToSet(Prepared.keyframes) \subseteq
              {0} \cup ToSet(NormalizeHLSKeyframeTimes(Increasing(question.kf), question.start))
         /\ MediaLength = LengthPlanned(Prepared.duration, question.seg)
         /\ MediaLength \in Nat /\ MediaLength > 0
  <1>1. PICK kf : kf = Increasing(question.kf) OBVIOUS
  <1>2. IsFile(kf, question.duration, question.start, question.seg) BY <1>1, QuestionIsFile
  <1>3. Prepared = PrepareHLSMediaTimeline(kf, question.duration, question.start)
      BY <1>1 DEF Prepared
  <1>4. /\ Prepared.duration \in Nat /\ PreparedFor(Prepared.keyframes, Prepared.duration)
        /\ Prepared.keyframes # <<>> => Prepared.duration > 0
        /\ ToSet(Prepared.keyframes) \subseteq
              {0} \cup ToSet(NormalizeHLSKeyframeTimes(kf, question.start))
      BY <1>2, <1>3, PreparedFile
  <1>5. MediaLength = LengthPlanned(Prepared.duration, question.seg)
      BY DEF MediaLength, LengthPlanned
  <1>6. MediaLength \in Nat /\ MediaLength > 0
      BY <1>4 DEF MediaLength, IsFileQuestion, MinSegment
  <1> QED BY <1>1, <1>4, <1>5, <1>6

LEMMA FileKeyframesOfQuestion ==
  ASSUME IsFileQuestion(question)
  PROVE  /\ FileKeyframes \in Seq(Nat) /\ StrictlyIncreasing(FileKeyframes)
         /\ ToSet(Prepared.keyframes) \subseteq ToSet(FileKeyframes)
  <1>1. PICK times : times = NormalizeHLSKeyframeTimes(Increasing(question.kf), question.start)
      OBVIOUS
  <1>2. times \in Seq(Nat)
      <2>1. Increasing(question.kf) \in Seq(Nat) BY QuestionIsFile
      <2> QED BY <1>1, <2>1, NormalizedTimes DEF IsFileQuestion
  <1> DEFINE inside == {0} \cup {t \in ToSet(times) : t < MediaLength}
  <1>3. FileKeyframes = Increasing(inside) BY <1>1 DEF FileKeyframes
  <1>4. inside \subseteq Nat /\ IsFiniteSet(inside)
      <2>1. PICK n \in Nat : DOMAIN times = 1..n /\ \A i \in 1..n : times[i] \in Nat BY <1>2
      <2>2. times \in Surjection(1..n, ToSet(times)) BY <1>2, <2>1 DEF Surjection, ToSet
      <2>3. IsFiniteSet(ToSet(times)) BY <2>2, FS_Interval, FS_Surjection
      <2>4. ToSet(times) \subseteq Nat BY <2>1 DEF ToSet
      <2>5. IsFiniteSet(ToSet(times) \cup {0})
          BY <2>3, FS_AddElement
      <2>6. inside \in SUBSET (ToSet(times) \cup {0}) OBVIOUS
      <2>7. IsFiniteSet(inside)
          <3> HIDE DEF inside
          <3> QED BY <2>5, <2>6, FS_Subset
      <2> QED BY <2>4, <2>6, <2>7
  <1>5. ToSet(Prepared.keyframes) \subseteq inside
      <2> SUFFICES ASSUME NEW t \in ToSet(Prepared.keyframes), t # 0 PROVE t \in inside OBVIOUS
      <2>1. t \in ToSet(times) BY <1>1, PreparedOfQuestion
      <2>2. Prepared.keyframes # <<>> BY DEF ToSet
      <2>3. Prepared.duration > 0 /\ t \in 0..Prepared.duration - 1
          BY <2>2, PreparedOfQuestion DEF PreparedFor
      <2>4. MediaLength = Prepared.duration /\ Prepared.duration \in Nat
          BY <2>3, PreparedOfQuestion DEF LengthPlanned
      <2> QED BY <2>1, <2>3, <2>4
  <1> HIDE DEF inside
  <1>6. /\ Increasing(inside) \in Seq(Nat) /\ StrictlyIncreasing(Increasing(inside))
        /\ ToSet(Increasing(inside)) = inside
      BY <1>4, IncreasingOrders
  <1> QED BY <1>3, <1>5, <1>6

LEMMA ListOfQuestion ==
  ASSUME IsFileQuestion(question)
  PROVE  /\ InOrder(ListOf) /\ \A i \in 1..Len(ListOf) : ListOf[i].dur > 0
         /\ Prepared.keyframes # <<>> =>
              \A i \in 1..Len(ListOf) : ListOf[i].start \in ToSet(Prepared.keyframes)
  <1>1. PICK kf : kf = Increasing(question.kf) OBVIOUS
  <1>2. IsFile(kf, question.duration, question.start, question.seg) BY <1>1, QuestionIsFile
  <1>3. Prepared = PrepareHLSMediaTimeline(kf, question.duration, question.start)
        /\ ListOf = BuildVODSegmentList(question.duration, question.seg, question.start, kf)
      BY <1>1 DEF Prepared, ListOf
  <1>4. /\ ListOf \in Plans /\ TilesMedia(ListOf, LengthPlanned(Prepared.duration, question.seg))
        /\ Prepared.keyframes # <<>> =>
              \A i \in 1..Len(ListOf) : ListOf[i].start \in ToSet(Prepared.keyframes)
      BY <1>2, <1>3, FilePlan
  <1>5. TilesMedia(ListOf, MediaLength) /\ MediaLength \in Nat /\ MediaLength > 0
      BY <1>4, PreparedOfQuestion
  <1>6. InOrder(ListOf) BY <1>4, <1>5, StartsIncrease DEF InOrder
  <1>7. \A i \in 1..Len(ListOf) : ListOf[i].dur > 0
      <2> SUFFICES ASSUME NEW i \in 1..Len(ListOf) PROVE ListOf[i].dur > 0 OBVIOUS
      <2>1. ListOf[i].dur \in 1..MediaLength BY <1>4, <1>5, SegmentsWithinMedia
      <2> QED BY <1>5, <2>1
  <1> QED BY <1>4, <1>6, <1>7

LEMMA GridOfQuestion ==
  ASSUME IsFileQuestion(question)
  PROVE  /\ InOrder(Grid)
         /\ \A i \in 1..Len(Grid) : Grid[i].start = (i - 1) * question.seg
  <1>1. PICK seg \in Nat : seg = question.seg /\ seg >= MinSegment BY DEF IsFileQuestion
  <1>2. PICK duration \in Nat : duration = Prepared.duration BY PreparedOfQuestion
  <1>3. OrDefault(seg) = seg BY <1>1 DEF OrDefault, MinSegment
  <1>4. Grid = FixedHLSSegmentTimeline(duration, seg)
      BY <1>1, <1>2, <1>3 DEF Grid, BuildVODSegmentListFixedGrid
  <1>5. PICK grid : grid = Grid OBVIOUS
  <1>6. \E length \in Nat : length > 0 /\ TilesMedia(grid, length) /\ grid \in Plans
                            /\ \A i \in 1..Len(grid) : grid[i].start = (i - 1) * seg
      <2>1. CASE duration = 0
          <3>1. grid = FixedHLSSegmentTimeline(0, seg) BY <1>4, <1>5, <2>1
          <3>2. seg > 0 BY <1>1 DEF MinSegment
          <3> QED BY <1>1, <3>1, <3>2, EmptyMediaPlan
      <2>2. CASE duration # 0
          <3>1. duration > 0 BY <2>2
          <3> QED BY <1>1, <1>4, <1>5, <3>1, FixedGridTiles
      <2> QED BY <2>1, <2>2
  <1>7. PICK length \in Nat : length > 0 /\ TilesMedia(grid, length) BY <1>6
  <1>8. InOrder(grid) BY <1>6, <1>7, StartsIncrease DEF InOrder
  <1> QED BY <1>1, <1>5, <1>6, <1>8

-----------------------------------------------------------------------------
LEMMA InvariantServes ==
  ASSUME PlanInv
  PROVE  PlanServes
  <1>1. ASSUME Asked("plan"), question.job = "probe"
        PROVE  ProbeFindsKeyframes(question.packets, question.frames, 1)
      <2>1. IsProbeQuestion(question) BY <1>1 DEF PlanInv, IsPlanQuestion
      <2>2. PICK n \in Nat : IsProbeOf(question.packets, n) BY <2>1 DEF IsProbeQuestion
      <2>3. question.frames \in SUBSET Int /\ IsFiniteSet(question.frames) BY <2>1 DEF IsProbeQuestion
      <2>4. 1 \in Nat \ {0} OBVIOUS
      <2> QED BY <2>2, <2>3, <2>4, ProbesFindKeyframes
  <1>2. ASSUME Asked("plan"), question.job = "file"
        PROVE  /\ TilesMedia(ListOf, MediaLength)
               /\ TilesMedia(BuildHLSSegmentTimeline(Prepared.duration, Prepared.keyframes,
                                                     question.seg, 0), MediaLength)
               /\ Prepared.keyframes # <<>> => CutsOnKeyframes(ListOf, Prepared.keyframes)
               /\ IndexFindsSegment(ListOf, MediaLength)
               /\ TargetCovers(BuildVODPlaylist(ListOf, question.seg))
      <2>1. IsFileQuestion(question) BY <1>2 DEF PlanInv, IsPlanQuestion
      <2>2. PICK kf : kf = Increasing(question.kf) OBVIOUS
      <2>3. IsFile(kf, question.duration, question.start, question.seg)
          BY <2>1, <2>2, QuestionIsFile
      <2>4. Prepared = PrepareHLSMediaTimeline(kf, question.duration, question.start)
            /\ ListOf = BuildVODSegmentList(question.duration, question.seg, question.start, kf)
          BY <2>2 DEF Prepared, ListOf
      <2>5. MediaLength = LengthPlanned(Prepared.duration, question.seg)
          BY <2>1, PreparedOfQuestion
      <2> QED BY <2>3, <2>4, <2>5, FilePlansServe
  <1> QED BY <1>1, <1>2 DEF PlanServes

LEMMA InvariantFollows ==
  ASSUME PlanInv
  PROVE  JobsFollowPlan
  <1> SUFFICES ASSUME IsFileQuestion(question) PROVE JobsFollowPlan
      BY DEF PlanInv, IsPlanQuestion, JobsFollowPlan
  <1>1. question.start \in Nat /\ question.seg \in Nat /\ question.seg > 0
      BY DEF IsFileQuestion, MinSegment
  <1>2. PICK n \in Nat : n = Len(ListOf) /\ DOMAIN ListOf = 1..n
      BY ListOfQuestion, PlanTyped DEF InOrder
  <1>3. PICK g \in Nat : g = Len(Grid) /\ DOMAIN Grid = 1..g
      BY GridOfQuestion, PlanTyped DEF InOrder
  <1>4. Prepared.keyframes \in Seq(Nat) /\ StrictlyIncreasing(Prepared.keyframes)
      BY PreparedOfQuestion DEF PreparedFor
  <1>5. RestartsFollow(FALSE)
      <2> SUFFICES ASSUME Prepared.keyframes # <<>>, NEW i \in 1..n, NEW stop \in 0..n,
                          NEW job, job = JobAt(i, stop, FALSE)
                   PROVE  RestartFollowsPlan(job, FileKeyframes)
          BY <1>2 DEF RestartsFollow
      <2>1. IsJobOf(job, ListOf, i, stop, question.start)
          BY <1>1, <1>2 DEF JobAt, IsJobOf
      <2>2. ~job.remux /\ job.videoCopy /\ job.seekTimes = Prepared.keyframes BY DEF JobAt
      <2>3. \A k \in 1..Len(ListOf) :
              ListOf[k].start \in ToSet(job.seekTimes) \cap ToSet(FileKeyframes)
          BY <2>2, ListOfQuestion, FileKeyframesOfQuestion
      <2>4. InOrder(ListOf) BY ListOfQuestion
      <2>5. FileKeyframes \in Seq(Nat) /\ StrictlyIncreasing(FileKeyframes)
          BY FileKeyframesOfQuestion
      <2> QED BY <1>4, <2>1, <2>2, <2>3, <2>4, <2>5, RestartsFollowPlans
  <1>6. \A i \in DOMAIN Grid : \A stop \in 0..Len(Grid) : TranscodeFollowsGrid(TranscodeAt(i, stop))
      <2> SUFFICES ASSUME NEW i \in 1..g, NEW stop \in 0..g, NEW job, job = TranscodeAt(i, stop)
                   PROVE  TranscodeFollowsGrid(job)
          BY <1>3
      <2>1. IsJobOf(job, Grid, i, stop, question.start)
          BY <1>1, <1>3 DEF TranscodeAt, IsJobOf
      <2>2. /\ ~job.remux /\ ~job.videoCopy /\ job.seekTimes = <<>>
            /\ job.segmentSec = question.seg
          BY DEF TranscodeAt
      <2> QED BY <1>1, <2>1, <2>2, GridOfQuestion, TranscodesFollowGrid
  <1>7. \A i \in DOMAIN ListOf, copies \in BOOLEAN :
          CopyStartsOnKeyframe(JobAt(i, 0, copies), Increasing(question.kf))
      <2> SUFFICES ASSUME NEW i \in 1..n, NEW copies \in BOOLEAN, NEW job, job = JobAt(i, 0, copies)
                   PROVE  CopyStartsOnKeyframe(job, Increasing(question.kf))
          BY <1>2
      <2>1. job.startTime = question.start /\ job.startSec = ListOf[i].start BY DEF JobAt
      <2>2. ListOf[i].start \in Nat BY <1>2, ListOfQuestion DEF InOrder
      <2>3. Increasing(question.kf) \in Seq(Nat) /\ StrictlyIncreasing(Increasing(question.kf))
          BY QuestionIsFile
      <2> QED BY <1>1, <2>1, <2>2, <2>3, CopiesStartOnKeyframes
  <1>8. \A copies \in BOOLEAN :
          SegmentAsListed([remux |-> copies, videoCopy |-> FALSE, maxHeight |-> 0, gop |-> 0,
                           video |-> "h264", startTime |-> question.start, omitAudio |-> FALSE],
                          ListOf, Prepared.keyframes, question.seg)
      <2> SUFFICES ASSUME NEW copies \in BOOLEAN, NEW params,
                          params = [remux |-> copies, videoCopy |-> FALSE, maxHeight |-> 0, gop |-> 0,
                                    video |-> "h264", startTime |-> question.start, omitAudio |-> FALSE]
                   PROVE  SegmentAsListed(params, ListOf, Prepared.keyframes, question.seg)
          OBVIOUS
      <2>1. params.startTime \in Nat BY <1>1
      <2> QED BY <1>4, <2>1, ListOfQuestion, SegmentsAreAsListed
  <1> QED BY <1>5, <1>6, <1>7, <1>8 DEF JobsFollowPlan

LEMMA PlanQuestionsAreTyped ==
  ASSUME PlanInv, [Next]_vars
  PROVE  PlanInv'
  <1>1. CASE Choose BY <1>1 DEF Choose, PlanInv, Asked
  <1>2. CASE AskPlan \/ AskProbe BY <1>2, FileQuestions, ProbeQuestions DEF PlanInv
  <1>3. ASSUME NEW t, t # "plan", Asking(t) PROVE PlanInv'
      BY <1>3 DEF Asking, PlanInv, Asked
  <1>4. CASE AskPipeline \/ AskRecording \/ AskJoin \/ AskSheet \/ AskFrame
               \/ AskAlign \/ AskPublish \/ AskPrefix \/ AskPiEncoders \/ AskPcEncoders
               \/ AskSelector \/ AskPiSelector \/ AskConfig \/ AskFrames
      <2>1. AskPipeline \/ AskRecording \/ AskJoin \/ AskSheet \/ AskFrame => Asking("media")
          BY PTL DEF AskPipeline, AskRecording, AskJoin, AskSheet, AskFrame
      <2>2. AskPiEncoders \/ AskPcEncoders => Asking("encoders")
          BY PTL DEF AskPiEncoders, AskPcEncoders
      <2>3. AskAlign \/ AskPublish \/ AskPrefix => Asking("fragments")
          BY PTL DEF AskAlign, AskPublish, AskPrefix
      <2>4. AskSelector \/ AskPiSelector => Asking("devices") BY PTL DEF AskSelector, AskPiSelector
      <2>5. AskConfig => Asking("config") BY PTL DEF AskConfig
      <2>6. AskFrames => Asking("frames") BY PTL DEF AskFrames
      <2> QED BY <1>3, <1>4, <2>1, <2>2, <2>3, <2>4, <2>5, <2>6
  <1>5. CASE UNCHANGED vars BY <1>5 DEF vars, PlanInv, Asked
  <1> QED BY <1>1, <1>2, <1>4, <1>5 DEF Next

(* THEOREM: whatever MCDecisions asks about a file or its probe, the        *)
(* keyframes are found and the plan covers the media, cuts it on keyframes  *)
(* and finds the segment of every time.                                     *)
THEOREM PlansServe == Spec => []PlanServes
  <1>1. Init => PlanInv BY DEF Init, PlanInv, Asked
  <1>2. PlanInv /\ [Next]_vars => PlanInv' BY PlanQuestionsAreTyped
  <1>3. PlanInv => PlanServes BY InvariantServes
  <1> QED BY <1>1, <1>2, <1>3, PTL DEF Spec

(* THEOREM: the jobs MCDecisions asks about cut where the plan of their     *)
(* file does, whichever segment they start at and whatever their hand-off.  *)
THEOREM JobsFollowPlans == Spec => []JobsFollowPlan
  <1>1. Init => PlanInv BY DEF Init, PlanInv, Asked
  <1>2. PlanInv /\ [Next]_vars => PlanInv' BY PlanQuestionsAreTyped
  <1>3. PlanInv => JobsFollowPlan BY InvariantFollows
  <1> QED BY <1>1, <1>2, <1>3, PTL DEF Spec

-----------------------------------------------------------------------------
(* The questions about frames.                                              *)
IsFrameQuestion(q) ==
  /\ q.encode \in Kinds /\ q.decode \in Kinds \cup {""}
  /\ q.maxHeight \in {0, 720} /\ q.depth \in {8, 10} /\ q.told \in BOOLEAN

FramesInv == Asked("frames") => IsFrameQuestion(question)

LEMMA FrameCapsAreResolvable ==
  ASSUME NEW filters
  PROVE  Resolvable(FrameCaps(filters))
  <1> DEFINE host == Pc(FALSE, FrameEncoders)
             opts == [hierarchy |-> <<>>, performance |-> FALSE, chain |-> <<>>, allow |-> TRUE,
                      vulkan |-> FALSE, skipHW |-> FALSE]
             found == Detect(host, opts)
             caps == FrameCaps(filters)
  <1>1. None \notin FrameEncoders BY DEF FrameEncoders, None
  <1>2. IsHost(host) BY <1>1 DEF IsHost, Pc
  <1>3. opts.chain = <<>> /\ opts.hierarchy = <<>> /\ opts.allow = TRUE OBVIOUS
  <1>4. IsChain(opts.chain)
      <2> DEFINE chain == opts.chain
      <2>1. DOMAIN chain = 1..0 /\ 0 \in Nat BY <1>3
      <2>2. \A i \in 1..0 : FALSE OBVIOUS
      <2> HIDE DEF chain
      <2>3. IsChain(chain) BY ONLY <2>1, <2>2, Zenon DEF IsChain
      <2> QED BY <2>3 DEF chain
  <1>5. opts.hierarchy \in Seq(Backends) BY <1>3
  <1>6. ~found.error BY <1>3 DEF Detect
  <1>7. caps.host = found.host /\ caps.encoders = found.encoders /\ caps.matrix = found.matrix
        /\ caps.chain = found.chain /\ caps.allow = found.allow
      BY DEF FrameCaps, WithDecoders
  <1> HIDE DEF host, opts
  <1>8. IsDetected(found, host, opts) BY <1>2, <1>3, <1>4, <1>5, <1>6, DetectionIsSound
  <1>9. Resolvable(found) BY <1>2, <1>3, <1>4, <1>8, DetectedIsResolvable
  <1> HIDE DEF found, caps
  <1>10. Resolvable(caps) BY <1>7, <1>9 DEF Resolvable
  <1> QED BY <1>10 DEF caps

LEMMA FrameProfilesAreRequests ==
  ASSUME NEW codec \in Codecs, NEW quality
  PROVE  IsRequest(FrameProfile(codec, quality)) /\ FrameProfile(codec, quality).quality = quality
  BY DEF FrameProfile, IsRequest

LEMMA InvariantArrives ==
  ASSUME FramesInv
  PROVE  FramesArrive
  <1> SUFFICES ASSUME Asked("frames") PROVE FramesArrive BY DEF FramesArrive
  <1> DEFINE caps == FrameCaps(question.filters)
  <1>1. IsFrameQuestion(question) BY DEF FramesInv
  <1>2. Resolvable(caps) BY FrameCapsAreResolvable
  <1>3. "h264" \in Codecs /\ "hevc" \in Codecs BY DEF Codecs
  <1> HIDE DEF caps
  <1>4. FrameReachesEncoder(caps, FrameProfile("h264", ""), FrameRequest,
                            question.maxHeight, question.depth)
      <2>4. question.depth \in {8, 10} /\ question.maxHeight \in {0, 720}
          BY <1>1, Zenon DEF IsFrameQuestion
      <2>1. question.depth \in Nat /\ question.maxHeight \in Nat BY ONLY <2>4
      <2>2. FrameRequest.depth \in {0, question.depth} BY DEF FrameRequest
      <2>3. IsRequest(FrameProfile("h264", "")) BY <1>3, FrameProfilesAreRequests
      <2> QED BY <2>1, <2>2, <2>3, FramesReachEncoders
  <1>5. ASSUME NEW codec \in {"h264", "hevc"}, NEW quality \in {"", "ultrafast", "fast", "medium"}
        PROVE  OptionsFitEncoder(caps, FrameProfile(codec, quality))
      <2>1. codec \in Codecs BY <1>3
      <2>2. quality \in Qualities \cup {""} BY DEF Qualities
      <2> QED BY <1>2, <2>1, <2>2, FrameProfilesAreRequests, OptionsFitAnswers
  <1> QED BY <1>4, <1>5 DEF FramesArrive, caps

LEMMA FrameQuestionsAreTyped ==
  ASSUME FramesInv, [Next]_vars
  PROVE  FramesInv'
  <1>1. CASE Choose BY <1>1 DEF Choose, FramesInv, Asked
  <1>2. CASE AskFrames
      <2>1. question' \in [encode: Kinds, decode: Kinds \cup {""}, filters: SUBSET Scalers,
                           maxHeight: {0, 720}, depth: {8, 10}, told: BOOLEAN]
          BY <1>2, PTL DEF AskFrames
      <2>2. IsFrameQuestion(question') BY <2>1 DEF IsFrameQuestion
      <2> QED BY <2>2 DEF FramesInv
  <1>3. ASSUME NEW t, t # "frames", Asking(t) PROVE FramesInv'
      BY <1>3 DEF Asking, FramesInv, Asked
  <1>4. CASE AskPlan \/ AskProbe \/ AskPipeline \/ AskRecording \/ AskJoin \/ AskSheet \/ AskFrame
               \/ AskAlign \/ AskPublish \/ AskPrefix \/ AskPiEncoders \/ AskPcEncoders
               \/ AskSelector \/ AskPiSelector \/ AskConfig
      <2>1. AskPipeline \/ AskRecording \/ AskJoin \/ AskSheet \/ AskFrame => Asking("media")
          BY PTL DEF AskPipeline, AskRecording, AskJoin, AskSheet, AskFrame
      <2>2. AskPiEncoders \/ AskPcEncoders => Asking("encoders")
          BY PTL DEF AskPiEncoders, AskPcEncoders
      <2>3. AskAlign \/ AskPublish \/ AskPrefix => Asking("fragments")
          BY PTL DEF AskAlign, AskPublish, AskPrefix
      <2>4. AskSelector \/ AskPiSelector => Asking("devices") BY PTL DEF AskSelector, AskPiSelector
      <2>5. AskConfig => Asking("config") BY PTL DEF AskConfig
      <2>6. AskPlan \/ AskProbe => Asking("plan") BY PTL DEF AskPlan, AskProbe
      <2> QED BY <1>3, <1>4, <2>1, <2>2, <2>3, <2>4, <2>5, <2>6
  <1>5. CASE UNCHANGED vars BY <1>5 DEF vars, FramesInv, Asked
  <1> QED BY <1>1, <1>2, <1>4, <1>5 DEF Next

(* THEOREM: whichever encoder and decoder MCDecisions pairs, with whichever *)
(* scalers compiled in, the frames arrive at the encoder and its options    *)
(* are its own.                                                             *)
THEOREM FramesAlwaysArrive == Spec => []FramesArrive
  <1>1. Init => FramesInv BY DEF Init, FramesInv, Asked
  <1>2. FramesInv /\ [Next]_vars => FramesInv' BY FrameQuestionsAreTyped
  <1>3. FramesInv => FramesArrive BY InvariantArrives
  <1> QED BY <1>1, <1>2, <1>3, PTL DEF Spec

-----------------------------------------------------------------------------
(* The questions of fragments.                                              *)

IsFragmentQuestion(q) ==
  \/ /\ q.job = "align" /\ q.media \in Medias /\ q.start \in 0..4 /\ q.scales \in AskedScales
  \/ /\ q.job = "publish" /\ q.start \in {0, 3}
     /\ \E video, audio, d, f, gap \in Nat : q.segs = MuxerSegments(video, audio, d, 2, f, gap)
  \/ /\ q.job = "prefix"
     /\ \E moof \in {20, 40, 64} :
          \/ q.boxes = <<Box("ftyp", 8), InitBox, Box("moof", moof), Box("mdat", 10)>>
          \/ q.boxes = <<Box("ftyp", 8), InitBox, Box("free", 9), Box("moof", moof), Box("mdat", 10)>>
          \/ q.boxes = <<Box("styp", 10), MediaBox(moof, 4), Box("mdat", 30), MediaBox(moof, 10),
                         Box("mdat", 30)>>

FragmentsInv == Asked("fragments") => IsFragmentQuestion(question)

Trafs == [track : 1..3, version : 0..2, ticks : Int, dur : Nat]

LEMMA TrafsAreMedia ==
  ASSUME NEW media, media \in Seq(Trafs)
  PROVE  IsMedia(media) /\ Tracks(media) \subseteq Nat
  <1>1. \A t \in Trafs : /\ t \in [track : Int, version : Int, ticks : Int, dur : Nat]
                         /\ t.track \in Nat
      BY DEF Trafs
  <1>2. Len(media) \in Nat /\ DOMAIN media = 1..Len(media)
        /\ \A i \in 1..Len(media) : media[i] \in Trafs OBVIOUS
  <1>3. IsMedia(media)
      <2> DEFINE T == [track : Int, version : Int, ticks : Int, dur : Nat]
      <2>1. \A i \in 1..Len(media) : media[i] \in T BY <1>1, <1>2
      <2> HIDE DEF T
      <2>2. media \in Seq(T) BY <1>2, <2>1
      <2> QED BY <2>2 DEF T, IsMedia
  <1>4. Tracks(media) \subseteq Nat BY <1>1, <1>2 DEF Tracks, Timed
  <1> QED BY <1>3, <1>4

LEMMA AskedMedia ==
  ASSUME NEW media \in Medias
  PROVE  IsMedia(media) /\ Tracks(media) \subseteq Nat
  <1>1. \A k \in 1..3, v \in 0..2, t \in Int, d \in Nat : Traf(k, v, t, d) \in Trafs
      BY DEF Traf, Trafs
  <1>2. \A a, b \in Trafs : <<a, b>> \in Seq(Trafs) OBVIOUS
  <1>3. \A a, b, c, d \in Trafs : <<a, b, c, d>> \in Seq(Trafs) OBVIOUS
  <1>4. Ticks \subseteq Int BY DEF Ticks
  <1>5. CASE \E v \in {0, 1}, w \in {0, 2}, a \in Ticks, b \in Ticks :
               media = <<Traf(1, v, a, 12), Traf(2, w, b, 8)>>
      <2>1. PICK v \in {0, 1}, w \in {0, 2}, a \in Ticks, b \in Ticks :
              media = <<Traf(1, v, a, 12), Traf(2, w, b, 8)>> BY <1>5
      <2>2. Traf(1, v, a, 12) \in Trafs /\ Traf(2, w, b, 8) \in Trafs BY <1>1, <1>4
      <2>3. media \in Seq(Trafs) BY <1>2, <2>1, <2>2
      <2> QED BY <2>3, TrafsAreMedia
  <1>6. CASE \E k \in 1..3, a \in Ticks, b \in Ticks :
               media = <<Traf(2, 1, a, 12), Traf(k, 1, b, 8)>>
      <2>1. PICK k \in 1..3, a \in Ticks, b \in Ticks :
              media = <<Traf(2, 1, a, 12), Traf(k, 1, b, 8)>> BY <1>6
      <2>2. Traf(2, 1, a, 12) \in Trafs /\ Traf(k, 1, b, 8) \in Trafs BY <1>1, <1>4
      <2>3. media \in Seq(Trafs) BY <1>2, <2>1, <2>2
      <2> QED BY <2>3, TrafsAreMedia
  <1>7. CASE \E a \in Ticks, b \in Ticks, c \in Ticks :
               media = <<Traf(1, 0, a, 12), Traf(2, 0, b, 8), Traf(1, 0, c, 12), Traf(2, 0, -1, 8)>>
      <2>1. PICK a \in Ticks, b \in Ticks, c \in Ticks :
              media = <<Traf(1, 0, a, 12), Traf(2, 0, b, 8), Traf(1, 0, c, 12), Traf(2, 0, -1, 8)>>
          BY <1>7
      <2>2. /\ Traf(1, 0, a, 12) \in Trafs /\ Traf(2, 0, b, 8) \in Trafs
            /\ Traf(1, 0, c, 12) \in Trafs /\ Traf(2, 0, -1, 8) \in Trafs BY <1>1, <1>4
      <2>3. media \in Seq(Trafs) BY <1>3, <2>1, <2>2
      <2> QED BY <2>3, TrafsAreMedia
  <1> QED BY <1>5, <1>6, <1>7 DEF Medias

LEMMA AskedScalesAreScales ==
  ASSUME NEW scales \in AskedScales
  PROVE  AreScales(scales)
  <1>1. \A k \in DOMAIN scales : scales[k] \in Nat BY DEF AskedScales
  <1> QED BY <1>1, AskedScalesAssumption DEF AreScales

InitScales == TrackTimescalesFromInit(MCMoov)

LEMMA ScalesOfInit ==
  /\ DOMAIN InitScales = {1, 2} /\ InitScales[1] = VideoScale /\ InitScales[2] = AudioScale
  /\ AreScales(InitScales)
  <1> DEFINE v == [track |-> 1, scale |-> VideoScale]
             a == [track |-> 2, scale |-> AudioScale]
  <1>1. MCMoov = {v, a} /\ v.track = 1 /\ a.track = 2 /\ v.scale = VideoScale /\ a.scale = AudioScale
      BY DEF MCMoov
  <1> HIDE DEF v, a
  <1>2. {t.track : t \in MCMoov} = {1, 2} BY <1>1
  <1>3. (CHOOSE t \in MCMoov : t.track = 1) = v BY <1>1
  <1>4. (CHOOSE t \in MCMoov : t.track = 2) = a BY <1>1
  <1>5. InitScales = [k \in {1, 2} |-> (CHOOSE t \in MCMoov : t.track = k).scale]
      BY <1>2 DEF InitScales, TrackTimescalesFromInit
  <1>6. DOMAIN InitScales = {1, 2} /\ InitScales[1] = VideoScale /\ InitScales[2] = AudioScale
      BY <1>1, <1>3, <1>4, <1>5
  <1> QED BY <1>6, ScalesAssumption DEF AreScales

LEMMA CutsAreKnown ==
  ASSUME NEW video \in Nat, NEW audio \in Nat, NEW length \in Nat
  PROVE  LET cut == CutAt(video, audio, length)
         IN  /\ cut.extinf = length /\ IsMedia(cut.media) /\ TracksAreKnown(cut.media, InitScales)
             /\ Tracks(cut.media) = {1, 2} /\ ValidateMonotonicTFDT(cut.media)
  <1> DEFINE v == Traf(1, 1, video, VideoScale * length)
             a == Traf(2, 1, audio, AudioScale * length)
             media == <<v, a>>
  <1>1. CutAt(video, audio, length).media = media /\ CutAt(video, audio, length).extinf = length
      BY DEF CutAt
  <1>2. VideoScale * length \in Nat /\ AudioScale * length \in Nat BY ScalesAssumption
  <1>3. /\ v \in Trafs /\ a \in Trafs /\ v.track = 1 /\ a.track = 2 /\ v.ticks = video
        /\ a.ticks = audio /\ v.version = 1
      BY <1>2 DEF Traf, Trafs
  <1> HIDE DEF v, a
  <1>4. media \in Seq(Trafs) /\ DOMAIN media = 1..2 /\ media[1] = v /\ media[2] = a /\ Len(media) = 2
      BY <1>3
  <1>5. media # <<>> BY <1>4
  <1> HIDE DEF media
  <1>6. Timed(media) = {1, 2} BY <1>3, <1>4 DEF Timed
  <1>7. Tracks(media) = {1, 2} BY <1>3, <1>4, <1>6 DEF Tracks
  <1>8. IsMedia(media) BY <1>4, TrafsAreMedia
  <1>9. TracksAreKnown(media, InitScales)
      <2>1. \A i \in DOMAIN media : media[i].track \in Tracks(media) BY <1>3, <1>4, <1>7
      <2>2. \A k \in Tracks(media) : k \in DOMAIN InitScales /\ InitScales[k] > 0
          BY <1>7, ScalesOfInit, ScalesAssumption
      <2> QED BY <1>5, <1>7, <2>1, <2>2 DEF TracksAreKnown
  <1>10. ValidateMonotonicTFDT(media)
      <2>1. {i \in Timed(media) : media[i].track = 1} = {1} BY <1>3, <1>4, <1>6
      <2> QED BY <1>3, <1>4, <2>1 DEF ValidateMonotonicTFDT
  <1> QED BY <1>1, <1>7, <1>8, <1>9, <1>10

LEMMA MuxerSegmentsAreCut ==
  ASSUME NEW video \in Nat, NEW audio \in Nat, NEW d \in Nat, NEW f \in Nat, NEW gap \in Nat
  PROVE  AreCut(MuxerSegments(video, audio, d, 2, f, gap), InitScales)
  <1> DEFINE segs == MuxerSegments(video, audio, d, 2, f, gap)
             v2 == video + VideoScale * d
             a2 == audio + AudioScale * d
             v3 == video + VideoScale * (d + 2) + gap
             a3 == audio + AudioScale * (d + 2)
  <1>1. v2 \in Nat /\ a2 \in Nat /\ v3 \in Nat /\ a3 \in Nat BY ScalesAssumption
  <1>2. segs = <<CutAt(video, audio, d), CutAt(v2, a2, 2), CutAt(v3, a3, f)>> BY DEF MuxerSegments
  <1> HIDE DEF v2, a2, v3, a3
  <1>3. /\ DOMAIN segs = 1..3 /\ Len(segs) = 3 /\ segs[1] = CutAt(video, audio, d)
        /\ segs[2] = CutAt(v2, a2, 2) /\ segs[3] = CutAt(v3, a3, f)
      BY <1>2
  <1> DEFINE Good(cut) == /\ cut.extinf \in Nat /\ IsMedia(cut.media)
                          /\ TracksAreKnown(cut.media, InitScales)
                          /\ Tracks(cut.media) = {1, 2} /\ ValidateMonotonicTFDT(cut.media)
  <1>4. \A v, a, l \in Nat : Good(CutAt(v, a, l))
      <2> SUFFICES ASSUME NEW v \in Nat, NEW a \in Nat, NEW l \in Nat PROVE Good(CutAt(v, a, l))
          OBVIOUS
      <2> DEFINE cut == CutAt(v, a, l)
      <2>1. /\ cut.extinf = l /\ IsMedia(cut.media) /\ TracksAreKnown(cut.media, InitScales)
            /\ Tracks(cut.media) = {1, 2} /\ ValidateMonotonicTFDT(cut.media)
          BY CutsAreKnown
      <2> HIDE DEF cut
      <2>2. Good(cut) BY <2>1
      <2> QED BY <2>2 DEF cut
  <1> HIDE DEF segs, Good
  <1>5. Good(segs[1]) /\ Good(segs[2]) /\ Good(segs[3])
      <2>1. 2 \in Nat OBVIOUS
      <2> QED BY <1>1, <1>3, <1>4, <2>1
  <1>6. \A i \in 1..3 : Good(segs[i])
      <2>1. \A i \in 1..3 : i = 1 \/ i = 2 \/ i = 3 OBVIOUS
      <2> QED BY <1>5, <2>1
  <1>7. \A i \in DOMAIN segs :
          /\ segs[i].extinf \in Nat
          /\ IsMedia(segs[i].media) /\ TracksAreKnown(segs[i].media, InitScales)
          /\ 1 \in Tracks(segs[i].media) /\ Tracks(segs[i].media) = Tracks(segs[1].media)
          /\ ValidateMonotonicTFDT(segs[i].media)
      BY <1>3, <1>5, <1>6 DEF Good
  <1> QED BY <1>3, <1>7 DEF AreCut, segs

LEMMA AskedBoxes ==
  ASSUME NEW moof \in Nat \ {0}, NEW boxes,
         \/ boxes = <<Box("ftyp", 8), InitBox, Box("moof", moof), Box("mdat", 10)>>
         \/ boxes = <<Box("ftyp", 8), InitBox, Box("free", 9), Box("moof", moof), Box("mdat", 10)>>
         \/ boxes = <<Box("styp", 10), MediaBox(moof, 4), Box("mdat", 30), MediaBox(moof, 10),
                      Box("mdat", 30)>>
  PROVE  AreBoxes(boxes) /\ InitFirst(boxes)
  <1> DEFINE Good(box) == box.size \in Nat \ {0} /\ IsMedia(box.trafs)
  <1>1. ASSUME NEW type, NEW size \in Nat \ {0}
        PROVE  Good(Box(type, size)) /\ Box(type, size).type = type
      <2>1. Box(type, size).trafs = <<>> /\ Box(type, size).size = size /\ Box(type, size).type = type
          BY DEF Box
      <2>2. IsMedia(<<>>) BY DEF IsMedia
      <2> QED BY <2>1, <2>2
  <1>2. Good(InitBox) /\ InitBox.type = "moov" /\ InitBox.kids = {"trak", "mvex"}
      <2>1. InitBox.trafs = <<>> /\ InitBox.size = 12 /\ InitBox.type = "moov"
            /\ InitBox.kids = {"trak", "mvex"}
          BY DEF InitBox, Box
      <2>2. IsMedia(<<>>) BY DEF IsMedia
      <2> QED BY <2>1, <2>2
  <1>3. ASSUME NEW ticks \in Nat
        PROVE  Good(MediaBox(moof, ticks)) /\ MediaBox(moof, ticks).type = "moof"
      <2>1. /\ MediaBox(moof, ticks).trafs = <<Traf(1, 0, ticks, 6)>>
            /\ MediaBox(moof, ticks).size = moof /\ MediaBox(moof, ticks).type = "moof"
          BY DEF MediaBox, Box
      <2>2. Traf(1, 0, ticks, 6) \in Trafs BY DEF Traf, Trafs
      <2>3. IsMedia(<<Traf(1, 0, ticks, 6)>>)
          <3>1. \A t \in Trafs : <<t>> \in Seq(Trafs) OBVIOUS
          <3> QED BY <2>2, <3>1, TrafsAreMedia
      <2> QED BY <2>1, <2>3
  <1> HIDE DEF Good
  <1>4. {8, 9, 10, 30} \subseteq Nat \ {0} /\ 4 \in Nat /\ 10 \in Nat OBVIOUS
  <1> DEFINE Are(n) == /\ DOMAIN boxes = 1..n /\ Len(boxes) = n /\ \A i \in 1..n : Good(boxes[i])
  <1>5. ASSUME NEW n \in Nat, Are(n) PROVE AreBoxes(boxes) BY <1>5 DEF AreBoxes, Good
  <1>6. CASE boxes = <<Box("ftyp", 8), InitBox, Box("moof", moof), Box("mdat", 10)>>
      <2>1. /\ DOMAIN boxes = 1..4 /\ Len(boxes) = 4 /\ boxes[1] = Box("ftyp", 8)
            /\ boxes[2] = InitBox /\ boxes[3] = Box("moof", moof) /\ boxes[4] = Box("mdat", 10)
          BY <1>6
      <2>2. \A i \in 1..4 : i \in {1, 2, 3, 4} OBVIOUS
      <2>3. Are(4) BY <1>1, <1>2, <1>4, <2>1, <2>2
      <2>4. /\ boxes[1].type = "ftyp" /\ boxes[2].type = "moov" /\ boxes[3].type = "moof"
            /\ boxes[4].type = "mdat" BY <1>1, <1>2, <1>4, <2>1
      <2>5. InitFirst(boxes) BY <1>2, <2>1, <2>2, <2>4 DEF InitFirst
      <2> QED BY <1>5, <2>3, <2>5
  <1>7. CASE boxes = <<Box("ftyp", 8), InitBox, Box("free", 9), Box("moof", moof), Box("mdat", 10)>>
      <2>1. /\ DOMAIN boxes = 1..5 /\ Len(boxes) = 5 /\ boxes[1] = Box("ftyp", 8)
            /\ boxes[2] = InitBox /\ boxes[3] = Box("free", 9) /\ boxes[4] = Box("moof", moof)
            /\ boxes[5] = Box("mdat", 10)
          BY <1>7
      <2>2. \A i \in 1..5 : i \in {1, 2, 3, 4, 5} OBVIOUS
      <2>3. Are(5) BY <1>1, <1>2, <1>4, <2>1, <2>2
      <2>4. /\ boxes[1].type = "ftyp" /\ boxes[2].type = "moov" /\ boxes[3].type = "free"
            /\ boxes[4].type = "moof" /\ boxes[5].type = "mdat" BY <1>1, <1>2, <1>4, <2>1
      <2>5. InitFirst(boxes) BY <1>2, <2>1, <2>2, <2>4 DEF InitFirst
      <2> QED BY <1>5, <2>3, <2>5
  <1>8. CASE boxes = <<Box("styp", 10), MediaBox(moof, 4), Box("mdat", 30), MediaBox(moof, 10),
                       Box("mdat", 30)>>
      <2>1. /\ DOMAIN boxes = 1..5 /\ Len(boxes) = 5 /\ boxes[1] = Box("styp", 10)
            /\ boxes[2] = MediaBox(moof, 4) /\ boxes[3] = Box("mdat", 30)
            /\ boxes[4] = MediaBox(moof, 10) /\ boxes[5] = Box("mdat", 30)
          BY <1>8
      <2>2. \A i \in 1..5 : i \in {1, 2, 3, 4, 5} OBVIOUS
      <2>3. Are(5) BY <1>1, <1>3, <1>4, <2>1, <2>2
      <2>4. \A i \in 1..5 : boxes[i].type # "moov" BY <1>1, <1>3, <1>4, <2>1, <2>2
      <2>5. InitFirst(boxes) BY <2>1, <2>4 DEF InitFirst
      <2> QED BY <1>5, <2>3, <2>5
  <1> QED BY <1>6, <1>7, <1>8

LEMMA InvariantIsSoundOfFragments ==
  ASSUME FragmentsInv
  PROVE  FragmentsSound
  <1> SUFFICES ASSUME Asked("fragments") PROVE FragmentsSound BY DEF FragmentsSound
  <1>1. IsFragmentQuestion(question) BY DEF FragmentsInv
  <1>2. CASE /\ question.job = "align" /\ question.media \in Medias /\ question.start \in 0..4
             /\ question.scales \in AskedScales
      <2>1. AlignIsSound(question.media, question.start, question.scales)
          <3>1. question.start \in Nat BY <1>2
          <3> QED BY <1>2, <3>1, AskedMedia, AskedScalesAreScales, AlignmentIsSound
      <2> QED BY <1>2, <2>1 DEF FragmentsSound
  <1>3. CASE /\ question.job = "publish" /\ question.start \in {0, 3}
             /\ \E video, audio, d, f, gap \in Nat :
                  question.segs = MuxerSegments(video, audio, d, 2, f, gap)
      <2>1. AreCut(question.segs, InitScales) BY <1>3, MuxerSegmentsAreCut
      <2>2. question.start \in Nat BY <1>3
      <2>3. PublishedValidates(question.segs, question.start, question.transcode, question.hasAudio,
                               InitScales)
          BY <2>1, <2>2, ScalesOfInit, PublishedSegmentsValidate
      <2> QED BY <1>3, <2>3 DEF FragmentsSound, InitScales
  <1>4. CASE /\ question.job = "prefix"
             /\ \E moof \in {20, 40, 64} :
                  \/ question.boxes = <<Box("ftyp", 8), InitBox, Box("moof", moof), Box("mdat", 10)>>
                  \/ question.boxes = <<Box("ftyp", 8), InitBox, Box("free", 9), Box("moof", moof),
                                        Box("mdat", 10)>>
                  \/ question.boxes = <<Box("styp", 10), MediaBox(moof, 4), Box("mdat", 30),
                                        MediaBox(moof, 10), Box("mdat", 30)>>
      <2>1. {20, 40, 64} \subseteq Nat \ {0} OBVIOUS
      <2>2. AreBoxes(question.boxes) /\ InitFirst(question.boxes) BY <1>4, <2>1, AskedBoxes
      <2>3. InitIsWhole(question.boxes) /\ SegmentIsParseable(question.boxes)
          BY <2>2, InitsAreWhole, SegmentsAreParseable
      <2> QED BY <1>4, <2>3 DEF FragmentsSound
  <1> QED BY <1>1, <1>2, <1>3, <1>4 DEF IsFragmentQuestion

LEMMA FragmentQuestionsAreTyped ==
  ASSUME FragmentsInv, [Next]_vars
  PROVE  FragmentsInv'
  <1>1. CASE Choose BY <1>1 DEF Choose, FragmentsInv, Asked
  <1>2. CASE AskAlign
      <2>1. PICK media \in Medias, start \in 0..4, scales \in AskedScales :
              question' = [job |-> "align", media |-> media, start |-> start, scales |-> scales]
          BY <1>2, PTL DEF AskAlign
      <2>2. IsFragmentQuestion(question') BY <2>1 DEF IsFragmentQuestion
      <2> QED BY <2>2 DEF FragmentsInv
  <1>3. CASE AskPublish
      <2>1. PICK video \in {0, 6, 9, 30}, audio \in {0, 3, 4, 9, 20}, d \in {1, 4}, f \in {1, 3},
                 gap \in {0, 6}, start \in {0, 3}, transcode \in BOOLEAN, hasAudio \in BOOLEAN :
              question' = [job |-> "publish", segs |-> MuxerSegments(video, audio, d, 2, f, gap),
                           start |-> start, transcode |-> transcode, hasAudio |-> hasAudio]
          BY <1>3, PTL DEF AskPublish
      <2>2. video \in Nat /\ audio \in Nat /\ d \in Nat /\ f \in Nat /\ gap \in Nat OBVIOUS
      <2>3. /\ question'.job = "publish" /\ question'.start \in {0, 3}
            /\ question'.segs = MuxerSegments(video, audio, d, 2, f, gap) BY <2>1
      <2>4. IsFragmentQuestion(question') BY <2>2, <2>3 DEF IsFragmentQuestion
      <2> QED BY <2>4 DEF FragmentsInv
  <1>4. CASE AskPrefix
      <2>1. PICK moof \in {20, 40, 64} : \E boxes \in
              {<<Box("ftyp", 8), InitBox, Box("moof", moof), Box("mdat", 10)>>,
               <<Box("ftyp", 8), InitBox, Box("free", 9), Box("moof", moof), Box("mdat", 10)>>,
               <<Box("styp", 10), MediaBox(moof, 4), Box("mdat", 30), MediaBox(moof, 10),
                 Box("mdat", 30)>>} :
              question' = [job |-> "prefix", boxes |-> boxes]
          BY <1>4, PTL DEF AskPrefix
      <2>2. question'.job = "prefix" BY <2>1
      <2>3. \/ question'.boxes = <<Box("ftyp", 8), InitBox, Box("moof", moof), Box("mdat", 10)>>
            \/ question'.boxes = <<Box("ftyp", 8), InitBox, Box("free", 9), Box("moof", moof),
                                   Box("mdat", 10)>>
            \/ question'.boxes = <<Box("styp", 10), MediaBox(moof, 4), Box("mdat", 30),
                                   MediaBox(moof, 10), Box("mdat", 30)>>
          BY <2>1
      <2>4. IsFragmentQuestion(question') BY <2>2, <2>3 DEF IsFragmentQuestion
      <2> QED BY <2>4 DEF FragmentsInv
  <1>5. ASSUME NEW t, t # "fragments", Asking(t) PROVE FragmentsInv'
      BY <1>5 DEF Asking, FragmentsInv, Asked
  <1>6. CASE AskPlan \/ AskProbe \/ AskPipeline \/ AskRecording \/ AskJoin \/ AskSheet \/ AskFrame
               \/ AskPiEncoders \/ AskPcEncoders \/ AskSelector \/ AskPiSelector \/ AskConfig
               \/ AskFrames
      <2>1. AskPipeline \/ AskRecording \/ AskJoin \/ AskSheet \/ AskFrame => Asking("media")
          BY PTL DEF AskPipeline, AskRecording, AskJoin, AskSheet, AskFrame
      <2>2. AskPiEncoders \/ AskPcEncoders => Asking("encoders")
          BY PTL DEF AskPiEncoders, AskPcEncoders
      <2>3. AskFrames => Asking("frames") BY PTL DEF AskFrames
      <2>4. AskSelector \/ AskPiSelector => Asking("devices") BY PTL DEF AskSelector, AskPiSelector
      <2>5. AskConfig => Asking("config") BY PTL DEF AskConfig
      <2>6. AskPlan \/ AskProbe => Asking("plan") BY PTL DEF AskPlan, AskProbe
      <2> QED BY <1>5, <1>6, <2>1, <2>2, <2>3, <2>4, <2>5, <2>6
  <1>7. CASE UNCHANGED vars BY <1>7 DEF vars, FragmentsInv, Asked
  <1> QED BY <1>1, <1>2, <1>3, <1>4, <1>6, <1>7 DEF Next

(* THEOREM: whatever fragments, segments and prefixes MCDecisions asks of,  *)
(* alignment, publishing and the validators keep their promises.            *)
THEOREM FragmentsAreSound == Spec => []FragmentsSound
  <1>1. Init => FragmentsInv BY DEF Init, FragmentsInv, Asked
  <1>2. FragmentsInv /\ [Next]_vars => FragmentsInv' BY FragmentQuestionsAreTyped
  <1>3. FragmentsInv => FragmentsSound BY InvariantIsSoundOfFragments
  <1> QED BY <1>1, <1>2, <1>3, PTL DEF Spec

-----------------------------------------------------------------------------
(* Lists taken from lists, and what a choice keeps of the GPU it is made of.*)
(* The elements of a list at some of its indices, as they are taken one by  *)
(* one.                                                                     *)
Taken(s, list, chosen, n) ==
  \E at \in [1..Len(s) -> chosen] :
    /\ \A k \in 1..Len(s) : s[k] = list[at[k]] /\ at[k] <= n
    /\ \A k, l \in 1..Len(s) : k < l => at[k] < at[l]
    /\ \A i \in chosen : i <= n => \E k \in 1..Len(s) : at[k] = i

LEMMA TakenBy ==
  ASSUME NEW s, NEW list, NEW chosen, NEW n, NEW m, Len(s) = m, NEW at \in [1..m -> chosen],
         \A k \in 1..m : s[k] = list[at[k]] /\ at[k] <= n,
         \A k, l \in 1..m : k < l => at[k] < at[l],
         \A i \in chosen : i <= n => \E k \in 1..m : at[k] = i
  PROVE  Taken(s, list, chosen, n)
  <1>1. at \in [1..Len(s) -> chosen] OBVIOUS
  <1> SUFFICES \E to \in [1..Len(s) -> chosen] :
                 /\ \A k \in 1..Len(s) : s[k] = list[to[k]] /\ to[k] <= n
                 /\ \A k, l \in 1..Len(s) : k < l => to[k] < to[l]
                 /\ \A i \in chosen : i <= n => \E k \in 1..Len(s) : to[k] = i
      BY Zenon DEF Taken
  <1> WITNESS at \in [1..Len(s) -> chosen]
  <1> QED OBVIOUS

LEMMA TakenNext ==
  ASSUME NEW R, NEW list \in Seq(R), NEW chosen, chosen \subseteq 1..Len(list), NEW n \in Nat,
         n + 1 \in 1..Len(list), NEW s \in Seq(R), Taken(s, list, chosen, n),
         NEW t, t = IF n + 1 \in chosen THEN Append(s, list[n + 1]) ELSE s
  PROVE  t \in Seq(R) /\ Taken(t, list, chosen, n + 1)
  <1>1. PICK at \in [1..Len(s) -> chosen] :
          /\ \A k \in 1..Len(s) : s[k] = list[at[k]] /\ at[k] <= n
          /\ \A k, l \in 1..Len(s) : k < l => at[k] < at[l]
          /\ \A i \in chosen : i <= n => \E k \in 1..Len(s) : at[k] = i
      BY DEF Taken
  <1>a. chosen \subseteq Nat OBVIOUS
  <1>b. \A k \in 1..Len(s) : at[k] \in Nat /\ at[k] <= n /\ s[k] = list[at[k]] BY <1>a, <1>1
  <1>2. CASE n + 1 \notin chosen
      <2>1. t = s BY <1>2
      <2>2. \A i \in chosen : i <= n + 1 => i <= n BY <1>2, <1>a
      <2>3. \A k \in 1..Len(s) : at[k] <= n + 1 BY <1>b
      <2> DEFINE m == Len(s)
                 more == n + 1
      <2>5. m = Len(s) /\ at \in [1..m -> chosen] OBVIOUS
      <2>6. \A k \in 1..m : s[k] = list[at[k]] /\ at[k] <= more BY <1>b, <2>3
      <2>7. \A k, l \in 1..m : k < l => at[k] < at[l] BY <1>1
      <2>8. \A i \in chosen : i <= more => \E k \in 1..m : at[k] = i BY <1>1, <2>2
      <2> HIDE DEF m, more
      <2>9. Taken(s, list, chosen, more) BY ONLY <2>5, <2>6, <2>7, <2>8, TakenBy
      <2>4. Taken(s, list, chosen, n + 1) BY <2>9 DEF more
      <2> QED BY <2>1, <2>4
  <1>3. CASE n + 1 \in chosen
      <2> DEFINE m == Len(s)
                 to == [k \in 1..m + 1 |-> IF k = m + 1 THEN n + 1 ELSE at[k]]
      <2>1. list[n + 1] \in R /\ m \in Nat OBVIOUS
      <2>2. /\ t \in Seq(R) /\ Len(t) = m + 1 /\ t[m + 1] = list[n + 1]
            /\ \A k \in 1..m : t[k] = s[k]
          BY <1>3, <2>1
      <2> HIDE DEF m
      <2>3. to \in [1..m + 1 -> chosen] /\ to[m + 1] = n + 1 /\ \A k \in 1..m : to[k] = at[k]
          BY <1>1, <1>3, <2>1 DEF m
      <2> HIDE DEF to
      <2>4. \A k \in 1..m : at[k] \in Nat /\ at[k] <= n /\ s[k] = list[at[k]] BY <1>b DEF m
      <2>5. \A k \in 1..m + 1 : k = m + 1 \/ k \in 1..m BY <2>1
      <2>6. \A k \in 1..m + 1 : t[k] = list[to[k]] /\ to[k] <= n + 1 BY <2>2, <2>3, <2>4, <2>5
      <2>7. ASSUME NEW k \in 1..m + 1, NEW l \in 1..m + 1, k < l PROVE to[k] < to[l]
          <3>1. k \in 1..m BY <2>1, <2>7
          <3>2. CASE l = m + 1 BY <2>3, <2>4, <3>1, <3>2
          <3>3. CASE l \in 1..m BY <1>1, <2>3, <2>7, <3>1, <3>3 DEF m
          <3> QED BY <2>5, <3>2, <3>3
      <2>8. ASSUME NEW i \in chosen, i <= n + 1 PROVE \E k \in 1..m + 1 : to[k] = i
          <3>1. CASE i = n + 1 BY <2>1, <2>3, <3>1
          <3>2. CASE i <= n
              <4>1. PICK k \in 1..m : at[k] = i BY <1>1, <3>2 DEF m
              <4> QED BY <2>1, <2>3, <4>1
          <3>3. i \in Nat BY <1>a
          <3> QED BY <2>8, <3>1, <3>2, <3>3
      <2> DEFINE l == m + 1
                 more == n + 1
      <2>9. Len(t) = l /\ to \in [1..l -> chosen] BY <2>2, <2>3
      <2>10. \A k \in 1..l : t[k] = list[to[k]] /\ to[k] <= more BY <2>6
      <2>11. \A j, k \in 1..l : j < k => to[j] < to[k] BY <2>7
      <2>12. \A i \in chosen : i <= more => \E k \in 1..l : to[k] = i BY <2>8
      <2> HIDE DEF l, more
      <2>13. ASSUME NEW u, Len(u) = l, NEW r \in [1..l -> chosen],
                    \A k \in 1..l : u[k] = list[r[k]] /\ r[k] <= more,
                    \A j, k \in 1..l : j < k => r[j] < r[k],
                    \A i \in chosen : i <= more => \E k \in 1..l : r[k] = i
             PROVE  Taken(u, list, chosen, more)
          BY ONLY <2>13, TakenBy
      <2>14. Taken(t, list, chosen, more) BY ONLY <2>9, <2>10, <2>11, <2>12, <2>13
      <2> QED BY <2>2, <2>14 DEF more
  <1> QED BY <1>2, <1>3

LEMMA SublistIsTaken ==
  ASSUME NEW R, NEW list \in Seq(R), NEW chosen, chosen \subseteq 1..Len(list)
  PROVE  /\ Sublist(list, chosen) \in Seq(R)
         /\ Taken(Sublist(list, chosen), list, chosen, Len(list))
  <1> DEFINE N == Len(list)
             T == Seq(R)
             Next1(k, s) == IF k \in chosen THEN Append(s, list[k]) ELSE s
             step == [k \in 1..N |-> [s \in T |-> Next1(k, s)]]
             Def(f) == [n \in 0..N |-> IF n = 0 THEN <<>>
                          ELSE IF n \in chosen THEN Append(f[n - 1], list[n]) ELSE f[n - 1]]
             taken == CHOOSE f : f = Def(f)
  <1>1. Sublist(list, chosen) = taken[N] BY DEF Sublist
  <1>2. N \in Nat OBVIOUS
  <1>3. \A k \in 1..N, s \in T : Next1(k, s) \in T
      <2> SUFFICES ASSUME NEW k \in 1..N, NEW s \in T PROVE Next1(k, s) \in T OBVIOUS
      <2>1. list[k] \in R OBVIOUS
      <2> QED BY <2>1
  <1> HIDE DEF T, N, Next1
  <1>4. step \in [1..N -> [T -> T]] BY <1>3
  <1>5. \A k \in 1..N, s \in T : step[k][s] = Next1(k, s) OBVIOUS
  <1> HIDE DEF step
  <1>6. <<>> \in T BY DEF T
  <1>7. PICK g \in [0..N -> T] : Recurs(g, N, <<>>, step) BY <1>2, <1>4, <1>6, RecursionUpTo
  <1>8. \A k \in 0..N : g[k] = IF k = 0 THEN <<>> ELSE Next1(k, g[k - 1])
      <2> SUFFICES ASSUME NEW k \in 0..N PROVE g[k] = IF k = 0 THEN <<>> ELSE Next1(k, g[k - 1])
          OBVIOUS
      <2>1. k # 0 => k \in 1..N /\ k - 1 \in 0..N /\ g[k - 1] \in T BY <1>2
      <2> QED BY <1>5, <1>7, <2>1 DEF Recurs
  <1>9. g = Def(g) BY <1>7, <1>8 DEF Next1
  <1>10. taken = Def(taken)
      <2> HIDE DEF Def
      <2> QED BY <1>9
  <1>11. \A k \in 0..N : taken[k] = IF k = 0 THEN <<>> ELSE Next1(k, taken[k - 1])
      <2> DEFINE f == taken
      <2>1. f = Def(f) BY <1>10
      <2> HIDE DEF f
      <2>2. \A k \in 0..N : f[k] = IF k = 0 THEN <<>> ELSE Next1(k, f[k - 1]) BY <2>1 DEF Next1
      <2> QED BY <2>2 DEF f
  <1> HIDE DEF taken, Def
  <1> DEFINE S == {k \in 0..N : taken[k] \in T /\ Taken(taken[k], list, chosen, k)}
  <1>12. 0 \in S
      <2>1. 0 \in 0..N /\ taken[0] = <<>> BY <1>2, <1>11
      <2>2. Taken(<<>>, list, chosen, 0)
          <3> DEFINE none == [k \in 1..0 |-> CHOOSE i \in chosen : TRUE]
          <3>1. Len(<<>>) = 0 OBVIOUS
          <3>2. none \in [1..0 -> chosen] OBVIOUS
          <3>3. \A i \in chosen : ~(i <= 0) OBVIOUS
          <3>4. \A k : k \notin 1..0 OBVIOUS
          <3> HIDE DEF none
          <3> DEFINE empty == <<>>
          <3>5. Len(empty) = 0 BY <3>1
          <3> HIDE DEF empty
          <3>6. Taken(empty, list, chosen, 0) BY <3>2, <3>3, <3>4, <3>5, TakenBy
          <3> QED BY <3>6 DEF empty
      <2> QED BY <1>6, <2>1, <2>2
  <1>13. ASSUME NEW k \in 0..N - 1, k \in S PROVE k + 1 \in S
      <2>1. k + 1 \in 0..N /\ k + 1 # 0 /\ (k + 1) - 1 = k /\ k \in Nat /\ k + 1 \in 1..N BY <1>2
      <2>2. taken[k + 1] = Next1(k + 1, taken[k]) BY <1>11, <2>1
      <2>3. taken[k] \in Seq(R) /\ Taken(taken[k], list, chosen, k) BY <1>13 DEF T
      <2>4. taken[k + 1] \in Seq(R) /\ Taken(taken[k + 1], list, chosen, k + 1)
          BY <2>1, <2>2, <2>3, TakenNext DEF Next1, N
      <2> QED BY <2>1, <2>4 DEF T
  <1>14. \A k \in 0..N : k \in S
      <2> HIDE DEF S
      <2> QED BY <1>2, <1>12, <1>13, InductionUpTo
  <1>15. N \in 0..N BY <1>2
  <1> QED BY <1>1, <1>14, <1>15 DEF T, N

(* A device of a list has a name of its own, so that its id finds it again. *)
IsGPU(d) ==
  /\ d = [node |-> d.node, vendor |-> d.vendor, name |-> d.name,
          integrated |-> d.integrated, class |-> d.class]
  /\ d.integrated \in BOOLEAN

IsGPUs(list) ==
  /\ list \in Seq(Range(list))
  /\ \A i \in DOMAIN list : IsGPU(list[i])
  /\ \A i, j \in DOMAIN list : StableID(list[i]) = StableID(list[j]) => i = j

LEMMA GPUsHaveNumbers ==
  ASSUME NEW list, IsGPUs(list)
  PROVE  /\ Len(list) \in Nat /\ DOMAIN list = 1..Len(list) /\ DOMAIN list \subseteq Nat
         /\ (list = <<>> <=> DOMAIN list = {})
  <1>1. list \in Seq(Range(list)) BY DEF IsGPUs
  <1> HIDE DEF Range
  <1>2. Len(list) \in Nat /\ DOMAIN list = 1..Len(list) BY <1>1
  <1>3. Len(list) = 0 <=> list = <<>> BY <1>1
  <1> DEFINE n == Len(list)
  <1>4. n \in Nat /\ DOMAIN list = 1..n BY <1>2
  <1> HIDE DEF n
  <1>5. DOMAIN list = {} <=> n = 0
      <2>1. n # 0 => 1 \in 1..n BY <1>4
      <2>2. n = 0 => 1..n = {} BY <1>4
      <2> QED BY <1>4, <2>1, <2>2
  <1> QED BY <1>3, <1>4, <1>5 DEF n

LEMMA IDsAreNotEmpty ==
  ASSUME NEW d
  PROVE  StableID(d) # <<>>
  <1>1. \A a, b : <<a, b>> # <<>> OBVIOUS
  <1> QED BY <1>1 DEF StableID

LEMMA MinOfOne ==
  ASSUME NEW i \in Nat
  PROVE  Min({i}) = i
  <1>1. {i} # {} /\ {i} \subseteq Nat OBVIOUS
  <1>2. Min({i}) \in {i} BY <1>1, MinIsLeast
  <1> QED BY <1>2

(* A choice completed from a device.                                        *)
Completed(choice, d) ==
  [GPUChoiceFromDevice(d) EXCEPT !.auto = choice.auto,
                                 !.node = IF d.node = "" THEN choice.node ELSE d.node]

(* What a choice keeps of a device.                                         *)
LEMMA ChoiceOfDevice ==
  ASSUME NEW d
  PROVE  LET choice == GPUChoiceFromDevice(d)
         IN  /\ choice.enabled /\ ~choice.auto /\ ~choice.software /\ ~choice.fallback
             /\ choice.vendor = d.vendor /\ choice.id = StableID(d) /\ choice.node = d.node
             /\ choice.name = d.name /\ choice.integrated = d.integrated
             /\ choice # Refused
  <1> HIDE DEF StableID
  <1> QED BY DEF GPUChoiceFromDevice, Refused

LEMMA ChoiceCompleted ==
  ASSUME NEW choice, NEW d
  PROVE  LET full == Completed(choice, d)
         IN  /\ full.enabled /\ full.auto = choice.auto /\ ~full.software /\ ~full.fallback
             /\ full.vendor = d.vendor /\ full.name = d.name /\ full.integrated = d.integrated
  <1> HIDE DEF StableID
  <1> QED BY DEF Completed, GPUChoiceFromDevice, Refused

LEMMA NodeCompleted ==
  ASSUME NEW choice, NEW d
  PROVE  Completed(choice, d).node = IF d.node = "" THEN choice.node ELSE d.node
  <1> HIDE DEF StableID
  <1> QED BY DEF Completed, GPUChoiceFromDevice, Refused

LEMMA OwnChoiceKept ==
  ASSUME NEW devices, IsGPUs(devices), NEW i \in DOMAIN devices
  PROVE  FillGPUChoiceDevice(GPUChoiceFromDevice(devices[i]), devices) = GPUChoiceFromDevice(devices[i])
  <1> DEFINE choice == GPUChoiceFromDevice(devices[i])
             byId == {j \in DOMAIN devices : StableID(devices[j]) = choice.id}
             byNode == {j \in DOMAIN devices : choice.node # "" /\ devices[j].node = choice.node}
             byName == {j \in DOMAIN devices : /\ NameMatches(devices[j].name, choice.name)
                                               /\ choice.vendor \in {"", devices[j].vendor}}
             found == OrElse(byId, OrElse(byNode, byName))
             node(device) == IF device.node = "" THEN choice.node ELSE device.node
  <1>1. choice.enabled /\ choice.id = StableID(devices[i]) /\ ~choice.auto /\ choice.node = devices[i].node
      BY ChoiceOfDevice
  <1>2. byId = {i} BY <1>1 DEF IsGPUs
  <1>3. found = {i} BY <1>2 DEF OrElse
  <1>4. Min(found) = i BY <1>3, MinOfOne, GPUsHaveNumbers
  <1>5. FillGPUChoiceDevice(choice, devices)
          = IF ~choice.enabled \/ found = {} THEN choice
            ELSE [GPUChoiceFromDevice(devices[Min(found)]) EXCEPT !.auto = choice.auto,
                                                                   !.node = node(devices[Min(found)])]
      BY Zenon DEF FillGPUChoiceDevice
  <1>6. FillGPUChoiceDevice(choice, devices)
          = [choice EXCEPT !.auto = choice.auto, !.node = node(devices[i])]
      BY <1>1, <1>3, <1>4, <1>5
  <1>7. node(devices[i]) = choice.node BY <1>1
  <1>8. [choice EXCEPT !.auto = choice.auto, !.node = choice.node] = choice
      BY DEF GPUChoiceFromDevice, Refused
  <1> QED BY <1>6, <1>7, <1>8

(* The devices a choice made without an id may be completed from.           *)
Meant(choice, devices) ==
  LET byNode == {i \in DOMAIN devices : choice.node # "" /\ devices[i].node = choice.node}
      byName == {i \in DOMAIN devices : /\ NameMatches(devices[i].name, choice.name)
                                        /\ choice.vendor \in {"", devices[i].vendor}}
  IN  OrElse(byNode, byName)

LEMMA PlainFilled ==
  ASSUME NEW devices, IsGPUs(devices), NEW choice, choice.id = <<>>
  PROVE  LET filled == FillGPUChoiceDevice(choice, devices)
         IN  \/ filled = choice /\ (~choice.enabled \/ Meant(choice, devices) = {})
             \/ \E i \in Meant(choice, devices) :
                  choice.enabled /\ filled = Completed(choice, devices[i])
  <1> DEFINE byId == {j \in DOMAIN devices : StableID(devices[j]) = choice.id}
             byNode == {j \in DOMAIN devices : choice.node # "" /\ devices[j].node = choice.node}
             byName == {j \in DOMAIN devices : /\ NameMatches(devices[j].name, choice.name)
                                               /\ choice.vendor \in {"", devices[j].vendor}}
             found == OrElse(byId, OrElse(byNode, byName))
  <1>1. byId = {} BY IDsAreNotEmpty
  <1>2. found = Meant(choice, devices) BY <1>1 DEF OrElse, Meant
  <1>3. FillGPUChoiceDevice(choice, devices)
          = IF ~choice.enabled \/ found = {} THEN choice ELSE Completed(choice, devices[Min(found)])
      BY Zenon DEF FillGPUChoiceDevice, Completed
  <1>4. found \subseteq Nat
      <2>1. found \subseteq DOMAIN devices BY DEF OrElse
      <2> QED BY <2>1, GPUsHaveNumbers
  <1> HIDE DEF found
  <1>5. found # {} => Min(found) \in found BY <1>4, MinIsLeast
  <1>6. \/ FillGPUChoiceDevice(choice, devices) = choice /\ (~choice.enabled \/ found = {})
        \/ \E i \in found : choice.enabled /\ FillGPUChoiceDevice(choice, devices) = Completed(choice, devices[i])
      BY <1>3, <1>5
  <1> QED BY <1>2, <1>6

-----------------------------------------------------------------------------
(* Selectors (platform/gpu_request.go), each kind in turn.                  *)
(* What the probes report: no NVIDIA GPU is integrated                      *)
(* (platform/gpu_select.go, classifyIntegrated; nvidia_gpu.go), a device    *)
(* that is named after a node, for want of a name, is the one of that node. *)
(* Beyond the code: no integrated GPU has "discrete" in its name.           *)
IsDeviceEnv(env) ==
  /\ IsGPUs(env.devices)
  /\ \A i \in DOMAIN env.devices :
       env.devices[i].vendor = "nvidia" \/ "discrete" \in env.devices[i].name
         => ~env.devices[i].integrated
  /\ \A i \in DOMAIN env.devices : \A node \in env.nodes :
       node \in env.devices[i].name => env.devices[i].node \in {"", node}
  /\ \E n \in Nat : DOMAIN env.pci = 1..n
  /\ \A i \in DOMAIN env.pci : env.pci[i].vendor # ""

IsSelector(sel) == sel.kind \in {"auto", "software", "integrated", "discrete", "device"}

LEMMA DeviceChosen ==
  ASSUME NEW devices, IsGPUs(devices), NEW found \in SUBSET DOMAIN devices, NEW otherwise
  PROVE  \/ found = {} /\ FirstDevice(devices, found, otherwise) = otherwise
         \/ \E i \in found :
              /\ FirstDevice(devices, found, otherwise) = GPUChoiceFromDevice(devices[i])
              /\ FillGPUChoiceDevice(FirstDevice(devices, found, otherwise), devices)
                   = GPUChoiceFromDevice(devices[i])
  <1>1. CASE found = {} BY <1>1 DEF FirstDevice
  <1>2. CASE found # {}
      <2>1. found \subseteq Nat BY GPUsHaveNumbers
      <2>2. Min(found) \in found BY <1>2, <2>1, MinIsLeast
      <2>3. FirstDevice(devices, found, otherwise) = GPUChoiceFromDevice(devices[Min(found)])
          BY <1>2 DEF FirstDevice
      <2> QED BY <2>2, <2>3, OwnChoiceKept
  <1> QED BY <1>1, <1>2

(* The answer to a vendor and a name: the first device of the vendor that   *)
(* matches the name, or the vendor and the name themselves.                 *)
OfVendorAndName(filled, devices, vendor, name) ==
  /\ filled.enabled /\ ~filled.software /\ ~filled.fallback
  /\ filled.vendor = vendor
  /\ \/ /\ filled.name = name /\ ~filled.integrated
        /\ \A i \in DOMAIN devices :
             ~(NameMatches(devices[i].name, name) /\ devices[i].vendor = vendor)
     \/ \E i \in DOMAIN devices :
          /\ NameMatches(devices[i].name, name) /\ devices[i].vendor = vendor
          /\ filled.name = devices[i].name /\ filled.integrated = devices[i].integrated

LEMMA PlainAnswers ==
  ASSUME NEW devices, IsGPUs(devices), NEW vendor, vendor # "", NEW name
  PROVE  OfVendorAndName(FillGPUChoiceDevice(Plain(vendor, name), devices), devices, vendor, name)
  <1> DEFINE choice == Plain(vendor, name)
             filled == FillGPUChoiceDevice(choice, devices)
  <1>1. /\ choice.enabled /\ ~choice.auto /\ ~choice.software /\ ~choice.fallback
        /\ choice.vendor = vendor /\ choice.id = <<>> /\ choice.node = "" /\ choice.name = name
        /\ ~choice.integrated
      <2> HIDE DEF filled
      <2> QED BY DEF Plain, Refused
  <1> SUFFICES OfVendorAndName(filled, devices, vendor, name) OBVIOUS
  <1> HIDE DEF choice
  <1>2. Meant(choice, devices)
          = {i \in DOMAIN devices : NameMatches(devices[i].name, name) /\ devices[i].vendor = vendor}
      BY <1>1 DEF Meant, OrElse
  <1>3. \/ filled = choice /\ Meant(choice, devices) = {}
        \/ \E i \in Meant(choice, devices) : filled = Completed(choice, devices[i])
      BY <1>1, PlainFilled
  <1>4. CASE filled = choice /\ Meant(choice, devices) = {}
      <2>1. \A i \in DOMAIN devices : ~(NameMatches(devices[i].name, name) /\ devices[i].vendor = vendor)
          BY <1>2, <1>4
      <2> HIDE DEF filled
      <2>2. /\ filled.enabled /\ ~filled.software /\ ~filled.fallback /\ filled.vendor = vendor
            /\ filled.name = name /\ ~filled.integrated
          BY ONLY <1>1, <1>4
      <2>3. OfVendorAndName(filled, devices, vendor, name) BY <2>1, <2>2 DEF OfVendorAndName
      <2> QED BY <2>3
  <1>5. ASSUME NEW i \in Meant(choice, devices), filled = Completed(choice, devices[i])
        PROVE  OfVendorAndName(filled, devices, vendor, name)
      <2>1. i \in DOMAIN devices /\ NameMatches(devices[i].name, name) /\ devices[i].vendor = vendor
          BY <1>2
      <2> HIDE DEF filled
      <2>2. /\ filled.enabled /\ ~filled.software /\ ~filled.fallback
            /\ filled.vendor = devices[i].vendor /\ filled.name = devices[i].name
            /\ filled.integrated = devices[i].integrated
          BY ONLY <1>5, ChoiceCompleted
      <2> QED BY <2>1, <2>2 DEF OfVendorAndName
  <1> QED BY <1>3, <1>4, <1>5

LEMMA NothingFound ==
  ASSUME NEW sel, NEW env, NEW strict \in BOOLEAN,
         ResolveGPURequest(sel, env, strict) \in {Refused, UnavailableGPU(strict)}
  PROVE  SelectorHonoured(sel, env, strict)
  <1> DEFINE choice == ResolveGPURequest(sel, env, strict)
  <1>1. ~Refused.enabled /\ ~AutoChoice.enabled BY DEF Refused, AutoChoice
  <1>2. ~UnavailableGPU(strict).enabled
      BY DEF UnavailableGPU, AutoChoice, Refused
  <1>3. ~choice.enabled BY <1>1, <1>2
  <1>4. ResolveGPUSelectorWithEnv(sel, env, strict) = choice
      <2> HIDE DEF choice
      <2>1. FillGPUChoiceDevice(choice, env.devices) = choice BY <1>3, Zenon DEF FillGPUChoiceDevice
      <2> QED BY <2>1 DEF ResolveGPUSelectorWithEnv, choice
  <1>5. CASE choice = Refused BY <1>4, <1>5 DEF SelectorHonoured
  <1>6. CASE choice = UnavailableGPU(strict) /\ ~strict
      <2>1. choice.fallback /\ choice.auto BY <1>6 DEF UnavailableGPU, AutoChoice, Refused
      <2> QED BY <1>4, <1>6, <2>1 DEF SelectorHonoured
  <1>7. CASE choice = UnavailableGPU(strict) /\ strict BY <1>5, <1>7 DEF UnavailableGPU
  <1> QED BY <1>5, <1>6, <1>7

LEMMA AutoIsHonoured ==
  ASSUME NEW sel, sel.kind = "auto", NEW env, IsDeviceEnv(env), NEW strict
  PROVE  LET choice == ResolveGPUSelectorWithEnv(sel, env, strict)
         IN  ~choice.software /\ ~choice.fallback
  <1> DEFINE asked == ResolveGPURequest(sel, env, strict)
             choice == FillGPUChoiceDevice(asked, env.devices)
  <1>1. asked \in {AutoChoice, [WslNVIDIA EXCEPT !.auto = TRUE]} BY DEF ResolveGPURequest
  <1>2. asked.id = <<>> /\ ~asked.software /\ ~asked.fallback
      BY <1>1 DEF AutoChoice, WslNVIDIA, Plain, Refused
  <1>3. IsGPUs(env.devices) BY DEF IsDeviceEnv
  <1> HIDE DEF asked
  <1>4. CASE choice = asked BY <1>2, <1>4 DEF ResolveGPUSelectorWithEnv, asked
  <1>5. ASSUME NEW d, choice = Completed(asked, d) PROVE ~choice.software /\ ~choice.fallback
      <2> HIDE DEF choice
      <2> QED BY <1>5, ChoiceCompleted
  <1>6. choice = asked \/ \E d : choice = Completed(asked, d) BY <1>2, <1>3, PlainFilled
  <1>7. ResolveGPUSelectorWithEnv(sel, env, strict) = choice
      BY DEF ResolveGPUSelectorWithEnv, asked
  <1> HIDE DEF choice
  <1> QED BY <1>4, <1>5, <1>6, <1>7

LEMMA SoftwareIsHonoured ==
  ASSUME NEW sel, sel.kind = "software", NEW env, NEW strict
  PROVE  SelectorHonoured(sel, env, strict) /\ ResolveGPUSelectorWithEnv(sel, env, strict).software
  <1>1. ResolveGPURequest(sel, env, strict) = SoftwareDeviceChoice BY DEF ResolveGPURequest
  <1>2. /\ ~SoftwareDeviceChoice.enabled /\ SoftwareDeviceChoice.software
        /\ ~SoftwareDeviceChoice.fallback
      BY DEF SoftwareDeviceChoice, Refused
  <1>3. FillGPUChoiceDevice(SoftwareDeviceChoice, env.devices) = SoftwareDeviceChoice
      BY <1>2, Zenon DEF FillGPUChoiceDevice
  <1>4. ResolveGPUSelectorWithEnv(sel, env, strict) = SoftwareDeviceChoice
      BY <1>1, <1>3 DEF ResolveGPUSelectorWithEnv
  <1> QED BY <1>2, <1>4 DEF SelectorHonoured

LEMMA ClassesAreDevices ==
  ASSUME NEW devices
  PROVE  IntegratedGPUs(devices) \subseteq DOMAIN devices /\ DiscreteGPUs(devices) \subseteq DOMAIN devices
  BY DEF IntegratedGPUs, DiscreteGPUs

(* What is made of a device, completed.                                     *)
IsOneOf(choice, devices, found) == \E i \in found : choice = GPUChoiceFromDevice(devices[i])

LEMMA DeviceAnswers ==
  ASSUME NEW sel, NEW env, IsDeviceEnv(env), NEW strict, NEW found, found \subseteq DOMAIN env.devices,
         NEW otherwise, ResolveGPURequest(sel, env, strict) = FirstDevice(env.devices, found, otherwise),
         ResolveGPURequest(sel, env, strict) # otherwise
  PROVE  IsOneOf(ResolveGPUSelectorWithEnv(sel, env, strict), env.devices, found)
  <1>1. IsGPUs(env.devices) BY DEF IsDeviceEnv
  <1> QED BY <1>1, DeviceChosen DEF ResolveGPUSelectorWithEnv, IsOneOf

LEMMA IntegratedIsHonoured ==
  ASSUME NEW sel, sel.kind = "integrated", NEW env, IsDeviceEnv(env), NEW strict \in BOOLEAN
  PROVE  SelectorHonoured(sel, env, strict)
  <1> DEFINE asked == ResolveGPURequest(sel, env, strict)
             choice == ResolveGPUSelectorWithEnv(sel, env, strict)
             found == IntegratedGPUs(env.devices)
  <1>1. asked = ResolveIntegrated(env, strict) BY DEF ResolveGPURequest
  <1>2. choice = FillGPUChoiceDevice(asked, env.devices) BY DEF ResolveGPUSelectorWithEnv
  <1>3. IsGPUs(env.devices) BY DEF IsDeviceEnv
  <1>4. CASE asked = UnavailableGPU(strict) BY <1>4, NothingFound
  <1>5. ASSUME NEW vendor \in {"apple", "intel", "amd"}, NEW words, asked = Plain(vendor, words),
               env.os # "linux"
        PROVE  SelectorHonoured(sel, env, strict)
      <2>0. OfVendorAndName(choice, env.devices, vendor, words) BY <1>2, <1>3, <1>5, PlainAnswers
      <2>1. choice.enabled /\ ~choice.software /\ ~choice.fallback
          <3> HIDE DEF choice
          <3> QED BY <2>0 DEF OfVendorAndName
      <2> HIDE DEF choice
      <2> QED BY <1>5, <2>1 DEF SelectorHonoured, choice
  <1>6. CASE env.os = "linux" /\ asked = FirstDevice(env.devices, found, UnavailableGPU(strict))
      <2> SUFFICES ASSUME asked # UnavailableGPU(strict) PROVE SelectorHonoured(sel, env, strict)
          BY <1>4
      <2>1. found \subseteq DOMAIN env.devices BY ClassesAreDevices
      <2> HIDE DEF found
      <2>2. PICK i \in found : choice = GPUChoiceFromDevice(env.devices[i])
          BY <1>6, <2>1, DeviceAnswers, ZenonT(30) DEF IsOneOf
      <2>3. env.devices[i].integrated BY DEF found, IntegratedGPUs
      <2> HIDE DEF choice
      <2>4. choice.enabled /\ ~choice.software /\ ~choice.fallback /\ choice.integrated
          BY <2>2, <2>3, ChoiceOfDevice
      <2> QED BY <2>4 DEF SelectorHonoured, choice
  <1>7. \/ asked = UnavailableGPU(strict)
        \/ env.os # "linux" /\ \E vendor \in {"apple", "intel", "amd"} : \E words : asked = Plain(vendor, words)
        \/ env.os = "linux" /\ asked = FirstDevice(env.devices, found, UnavailableGPU(strict))
      <2> HIDE DEF asked, found
      <2> QED BY <1>1 DEF ResolveIntegrated, found
  <1> QED BY <1>4, <1>5, <1>6, <1>7

LEMMA DiscreteIsHonoured ==
  ASSUME NEW sel, sel.kind = "discrete", NEW env, IsDeviceEnv(env), NEW strict \in BOOLEAN
  PROVE  SelectorHonoured(sel, env, strict)
  <1> DEFINE asked == ResolveGPURequest(sel, env, strict)
             choice == ResolveGPUSelectorWithEnv(sel, env, strict)
             found == DiscreteGPUs(env.devices)
             otherwise == IF env.wsl /\ env.nvidia THEN WslNVIDIA ELSE UnavailableGPU(strict)
  <1>1. asked = ResolveDiscrete(env, strict) BY DEF ResolveGPURequest
  <1>2. choice = FillGPUChoiceDevice(asked, env.devices) BY DEF ResolveGPUSelectorWithEnv
  <1>3. IsGPUs(env.devices) BY DEF IsDeviceEnv
  <1>4. CASE asked = UnavailableGPU(strict) BY <1>4, NothingFound
  <1>5. ASSUME NEW vendor \in {"nvidia", "amd"}, NEW words, asked = Plain(vendor, words),
               vendor = "nvidia" \/ "discrete" \in words
        PROVE  SelectorHonoured(sel, env, strict)
      <2>0. OfVendorAndName(choice, env.devices, vendor, words) BY <1>2, <1>3, <1>5, PlainAnswers
      <2>1. choice.enabled /\ ~choice.software /\ ~choice.fallback
          <3> HIDE DEF choice
          <3> QED BY <2>0 DEF OfVendorAndName
      <2>2. ~choice.integrated
          <3>1. \/ ~choice.integrated
                \/ \E i \in DOMAIN env.devices :
                     /\ NameMatches(env.devices[i].name, words) /\ env.devices[i].vendor = vendor
                     /\ choice.integrated = env.devices[i].integrated
              <4> HIDE DEF choice
              <4> QED BY <2>0 DEF OfVendorAndName
          <3>2. ASSUME NEW i \in DOMAIN env.devices, NameMatches(env.devices[i].name, words),
                       env.devices[i].vendor = vendor
                PROVE  ~env.devices[i].integrated
              BY <1>5, <3>2 DEF IsDeviceEnv, NameMatches
          <3> HIDE DEF choice
          <3> QED BY <3>1, <3>2
      <2> HIDE DEF choice
      <2> QED BY <1>5, <2>1, <2>2 DEF SelectorHonoured, choice
  <1>6. CASE asked = FirstDevice(env.devices, found, otherwise)
      <2> SUFFICES ASSUME asked # otherwise PROVE SelectorHonoured(sel, env, strict)
          <3>1. CASE otherwise = UnavailableGPU(strict) BY <1>4, <3>1
          <3>2. CASE otherwise = WslNVIDIA
              <4>1. WslNVIDIA = Plain("nvidia", SyntheticNVIDIAGPU.name) BY DEF WslNVIDIA
              <4> QED BY <1>5, <3>2, <4>1
          <3> QED BY <3>1, <3>2
      <2>1. found \subseteq DOMAIN env.devices BY ClassesAreDevices
      <2> HIDE DEF found, otherwise
      <2>2. PICK i \in found : choice = GPUChoiceFromDevice(env.devices[i])
          BY <1>6, <2>1, DeviceAnswers, Zenon DEF IsOneOf
      <2>3. ~env.devices[i].integrated BY DEF found, DiscreteGPUs, IntegratedGPUs
      <2> HIDE DEF choice
      <2>4. choice.enabled /\ ~choice.software /\ ~choice.fallback /\ ~choice.integrated
          BY <2>2, <2>3, ChoiceOfDevice
      <2> QED BY <2>4 DEF SelectorHonoured, choice
  <1>7. \/ asked = UnavailableGPU(strict)
        \/ \E vendor \in {"nvidia", "amd"} : \E words :
             asked = Plain(vendor, words) /\ (vendor = "nvidia" \/ "discrete" \in words)
        \/ asked = FirstDevice(env.devices, found, otherwise)
      <2> HIDE DEF asked, found
      <2> QED BY <1>1 DEF ResolveDiscrete, found
  <1> QED BY <1>4, <1>5, <1>6, <1>7

LEMMA NodeIsHonoured ==
  ASSUME NEW sel, sel.kind = "device", sel.node # "", NEW env, IsDeviceEnv(env), NEW strict \in BOOLEAN
  PROVE  SelectorHonoured(sel, env, strict)
  <1> DEFINE asked == ResolveGPURequest(sel, env, strict)
             choice == ResolveGPUSelectorWithEnv(sel, env, strict)
             found == {i \in DOMAIN env.devices : env.devices[i].node = sel.node}
             otherwise == [Plain("unknown", {sel.node}) EXCEPT !.node = sel.node]
  <1>1. asked = ResolveRenderNode(sel.node, env) BY DEF ResolveGPURequest
  <1>2. choice = FillGPUChoiceDevice(asked, env.devices) BY DEF ResolveGPUSelectorWithEnv
  <1>3. IsGPUs(env.devices) BY DEF IsDeviceEnv
  <1>4. CASE sel.node \notin env.nodes BY <1>1, <1>4, NothingFound DEF ResolveRenderNode
  <1>5. SUFFICES ASSUME sel.node \in env.nodes
                 PROVE  choice.node = sel.node /\ ~choice.software /\ ~choice.fallback
      <2> HIDE DEF choice
      <2> QED BY <1>4 DEF SelectorHonoured, choice
  <1>6. asked = FirstDevice(env.devices, found, otherwise)
      BY <1>1, <1>5, Zenon DEF ResolveRenderNode
  <1>7. CASE asked = otherwise
      <2>1. /\ otherwise.enabled /\ ~otherwise.software /\ ~otherwise.fallback
            /\ otherwise.id = <<>> /\ otherwise.node = sel.node /\ otherwise.name = {sel.node}
          <3> HIDE DEF asked, choice
          <3> QED BY DEF Plain, Refused
      <2> HIDE DEF otherwise
      <2>2. CASE choice = otherwise
          <3> HIDE DEF choice
          <3> QED BY <2>1, <2>2
      <2>3. ASSUME NEW i \in Meant(otherwise, env.devices),
                   choice = Completed(otherwise, env.devices[i])
            PROVE  choice.node = sel.node /\ ~choice.software /\ ~choice.fallback
          <3> HIDE DEF choice
          <3>1. ~choice.software /\ ~choice.fallback BY ONLY <2>3, ChoiceCompleted
          <3>2. i \in DOMAIN env.devices
                /\ (env.devices[i].node = sel.node \/ NameMatches(env.devices[i].name, {sel.node}))
              BY <2>1 DEF Meant, OrElse
          <3>3. env.devices[i].node \in {"", sel.node} BY <1>5, <3>2 DEF IsDeviceEnv, NameMatches
          <3>4. choice.node = IF env.devices[i].node = "" THEN otherwise.node ELSE env.devices[i].node
              BY ONLY <2>3, NodeCompleted
          <3> QED BY <2>1, <3>1, <3>3, <3>4
      <2>4. choice = otherwise \/ \E i \in Meant(otherwise, env.devices) :
                                    choice = Completed(otherwise, env.devices[i])
          <3> HIDE DEF asked
          <3> QED BY <1>2, <1>3, <1>7, <2>1, PlainFilled
      <2> QED BY <2>2, <2>3, <2>4
  <1>8. CASE asked # otherwise
      <2>1. found \subseteq DOMAIN env.devices OBVIOUS
      <2> HIDE DEF found, otherwise
      <2>2. PICK i \in found : choice = GPUChoiceFromDevice(env.devices[i])
          BY <1>6, <1>8, <2>1, DeviceAnswers, Zenon DEF IsOneOf
      <2>3. env.devices[i].node = sel.node BY DEF found
      <2> HIDE DEF choice
      <2> QED BY <2>2, <2>3, ChoiceOfDevice
  <1> QED BY <1>7, <1>8

LEMMA IndicesAreNatural ==
  ASSUME NEW n \in Nat, NEW S, S \subseteq 1..n
  PROVE  S \subseteq Nat
  OBVIOUS

LEMMA MatchesWide ==
  ASSUME NEW a, NEW b, NEW c, NameMatches(a, b), NameMatches(b, c)
  PROVE  NameMatches(a, c)
  BY DEF NameMatches

LEMMA NameIsHonoured ==
  ASSUME NEW sel, sel.kind = "device", sel.node = "", NEW env, IsDeviceEnv(env), NEW strict \in BOOLEAN,
         \A i \in DOMAIN env.pci : env.pci[i].vendor # ""
  PROVE  SelectorHonoured(sel, env, strict)
  <1> DEFINE asked == ResolveGPURequest(sel, env, strict)
             choice == ResolveGPUSelectorWithEnv(sel, env, strict)
             named == {i \in DOMAIN env.devices : IsNamed(env.devices[i], sel.match)}
             adapters == {i \in DOMAIN env.pci : NameMatches(env.pci[i].name, sel.match)}
             adapter == env.pci[Min(adapters)]
             meant == {i \in DOMAIN env.devices : \/ env.devices[i].vendor = adapter.vendor
                                                  \/ NameMatches(env.devices[i].name, adapter.name)}
             byAdapter == Plain(adapter.vendor, adapter.name)
             Held == \/ IsNamed(choice, sel.match)
                     \/ \E i \in DOMAIN env.pci : /\ NameMatches(env.pci[i].name, sel.match)
                                                  /\ env.pci[i].vendor = choice.vendor
  <1>1. asked = ResolveNameDevice(sel.match, env, strict) BY DEF ResolveGPURequest
  <1>2. choice = FillGPUChoiceDevice(asked, env.devices) BY DEF ResolveGPUSelectorWithEnv
  <1>3. IsGPUs(env.devices) BY DEF IsDeviceEnv
  <1>4. CASE asked \in {Refused, UnavailableGPU(strict)} BY <1>4, NothingFound
  <1>5. SUFFICES ASSUME asked # Refused, asked # UnavailableGPU(strict)
                 PROVE  Held /\ ~choice.software /\ ~choice.fallback
      <2> HIDE DEF choice
      <2> QED BY <1>4 DEF SelectorHonoured, choice
  <1>6. \/ named # {} /\ asked = FirstDevice(env.devices, named, Refused)
        \/ named = {} /\ adapters # {} /\ asked = FirstDevice(env.devices, meant, byAdapter)
        \/ named = {} /\ asked = Plain("nvidia", sel.match) /\ NameMatches({"nvidia"}, sel.match)
      <2> HIDE DEF asked
      <2> QED BY <1>1, <1>5, Zenon DEF ResolveNameDevice
  <1>7. CASE asked = FirstDevice(env.devices, named, Refused)
      <2>1. named \subseteq DOMAIN env.devices OBVIOUS
      <2> HIDE DEF named, Held
      <2>2. PICK i \in named : choice = GPUChoiceFromDevice(env.devices[i])
          BY <1>5, <1>7, <2>1, DeviceAnswers, Zenon DEF IsOneOf
      <2>3. IsNamed(env.devices[i], sel.match) BY DEF named
      <2> HIDE DEF choice
      <2>4. /\ choice.name = env.devices[i].name /\ choice.node = env.devices[i].node
            /\ ~choice.software /\ ~choice.fallback
          BY ONLY <2>2, ChoiceOfDevice
      <2> QED BY <2>3, <2>4 DEF Held, IsNamed
  <1>8. CASE adapters # {} /\ asked = FirstDevice(env.devices, meant, byAdapter)
      <2>0. Min(adapters) \in adapters
          <3>0. PICK n \in Nat : DOMAIN env.pci = 1..n BY DEF IsDeviceEnv
          <3>1. adapters \subseteq Nat
              <4>1. adapters \subseteq DOMAIN env.pci OBVIOUS
              <4> HIDE DEF adapters
              <4> QED BY ONLY n \in Nat, <3>0, <4>1, IndicesAreNatural
          <3> HIDE DEF adapters
          <3> QED BY <1>8, <3>1, MinIsLeast
      <2>1. /\ Min(adapters) \in DOMAIN env.pci /\ adapter.vendor # ""
            /\ NameMatches(adapter.name, sel.match)
          BY <2>0
      <2>2. CASE asked = byAdapter
          <3>1. OfVendorAndName(choice, env.devices, adapter.vendor, adapter.name)
              <4> HIDE DEF adapter
              <4> QED BY <1>2, <1>3, <2>1, <2>2, PlainAnswers
          <3> HIDE DEF choice
          <3>2. choice.vendor = adapter.vendor /\ ~choice.software /\ ~choice.fallback
              <4> HIDE DEF adapter
              <4> QED BY <3>1 DEF OfVendorAndName
          <3> QED BY <2>1, <3>2
      <2>3. CASE asked # byAdapter
          <3>1. meant \subseteq DOMAIN env.devices OBVIOUS
          <3> HIDE DEF byAdapter, meant, Held
          <3>2. PICK i \in meant : choice = GPUChoiceFromDevice(env.devices[i])
              BY <1>8, <2>3, <3>1, DeviceAnswers, Zenon DEF IsOneOf
          <3>3. \/ env.devices[i].vendor = adapter.vendor
                \/ NameMatches(env.devices[i].name, adapter.name)
              BY DEF meant
          <3> HIDE DEF choice
          <3>4. /\ choice.name = env.devices[i].name /\ choice.vendor = env.devices[i].vendor
                /\ ~choice.software /\ ~choice.fallback
              BY ONLY <3>2, ChoiceOfDevice
          <3>5. CASE env.devices[i].vendor = adapter.vendor BY <2>1, <3>4, <3>5 DEF Held
          <3>6. CASE NameMatches(env.devices[i].name, adapter.name)
              <4>1. NameMatches(env.devices[i].name, sel.match) BY <2>1, <3>6, MatchesWide
              <4> QED BY <3>4, <4>1 DEF Held, IsNamed
          <3> QED BY <3>3, <3>4, <3>5, <3>6
      <2> QED BY <2>2, <2>3
  <1>9. CASE asked = Plain("nvidia", sel.match) /\ NameMatches({"nvidia"}, sel.match)
      <2>1. OfVendorAndName(choice, env.devices, "nvidia", sel.match)
          BY <1>2, <1>3, <1>9, PlainAnswers
      <2> HIDE DEF choice
      <2>2. NameMatches(sel.match, sel.match) BY <1>9 DEF NameMatches
      <2>3. ~choice.software /\ ~choice.fallback /\ NameMatches(choice.name, sel.match)
          BY <2>1, <2>2 DEF OfVendorAndName
      <2> QED BY <2>3 DEF IsNamed
  <1> QED BY <1>6, <1>7, <1>8, <1>9

(* THEOREM: on every host a name that fits a listed device, by its name or  *)
(* by its node, is answered with such a device (platform/gpu_env.go).       *)
THEOREM ListedNamesAreFound ==
  ASSUME NEW sel, NEW env, IsDeviceEnv(env), NEW strict
  PROVE  ListedNameIsFound(sel, env, strict)
  <1> DEFINE choice == ResolveGPUSelectorWithEnv(sel, env, strict)
             named == {i \in DOMAIN env.devices : IsNamed(env.devices[i], sel.match)}
             fits == {d \in Range(env.devices) : IsNamed(d, sel.match)}
  <1>1. SUFFICES ASSUME sel.kind = "device", sel.node = "", fits # {}
                 PROVE  choice.enabled /\ ~choice.fallback /\ \E d \in fits : choice.id = StableID(d)
      BY Zenon DEF ListedNameIsFound
  <1>2. \A i \in named : env.devices[i] \in fits BY DEF Range
  <1>3. named # {} BY <1>1 DEF Range
  <1>4. ResolveGPURequest(sel, env, strict) = FirstDevice(env.devices, named, Refused)
      <2>1. ResolveGPURequest(sel, env, strict) = ResolveNameDevice(sel.match, env, strict)
          BY <1>1 DEF ResolveGPURequest
      <2> QED BY <1>3, <2>1, Zenon DEF ResolveNameDevice
  <1>5. choice = FillGPUChoiceDevice(FirstDevice(env.devices, named, Refused), env.devices)
      BY <1>4 DEF ResolveGPUSelectorWithEnv
  <1>6. IsGPUs(env.devices) /\ named \in SUBSET DOMAIN env.devices BY DEF IsDeviceEnv
  <1> HIDE DEF choice, named, fits
  <1>7. PICK i \in named : choice = GPUChoiceFromDevice(env.devices[i])
      BY <1>3, <1>5, <1>6, DeviceChosen
  <1>8. choice.enabled /\ ~choice.fallback /\ choice.id = StableID(env.devices[i])
      BY ONLY <1>7, ChoiceOfDevice
  <1> QED BY <1>2, <1>8

(* THEOREM: on every host a selector is answered with what it asked for, or *)
(* the answer says that it is a fallback, or there is none.                 *)
THEOREM SelectorsAreHonoured ==
  ASSUME NEW sel, IsSelector(sel), NEW env, IsDeviceEnv(env), NEW strict \in BOOLEAN
  PROVE  SelectorHonoured(sel, env, strict)
  <1>1. CASE sel.kind = "auto"
      <2> DEFINE choice == ResolveGPUSelectorWithEnv(sel, env, strict)
      <2>1. ~choice.software /\ ~choice.fallback BY <1>1, AutoIsHonoured
      <2> HIDE DEF choice
      <2> QED BY <1>1, <2>1 DEF SelectorHonoured, choice
  <1>2. CASE sel.kind = "software" BY <1>2, SoftwareIsHonoured
  <1>3. CASE sel.kind = "integrated" BY <1>3, IntegratedIsHonoured
  <1>4. CASE sel.kind = "discrete" BY <1>4, DiscreteIsHonoured
  <1>5. CASE sel.kind = "device" /\ sel.node # "" BY <1>5, NodeIsHonoured
  <1>6. CASE sel.kind = "device" /\ sel.node = "" BY <1>6, NameIsHonoured DEF IsDeviceEnv
  <1> QED BY <1>1, <1>2, <1>3, <1>4, <1>5, <1>6 DEF IsSelector

-----------------------------------------------------------------------------
(* The GPU a smoke test is run on (platform/amd_detect.go).                 *)
(* A pick is one device of the vendor, of the preferred kind if there is    *)
(* one.                                                                     *)
IsPick(pick, devices, vendor, integrated) ==
  LET own == VendorGPUs(devices, vendor)
      best == {i \in own : devices[i].integrated = integrated}
  IN  IF own = {} THEN pick = <<>>
      ELSE \E i \in OrElse(best, own) : pick = <<devices[i]>>

LEMMA PicksArePicked ==
  ASSUME NEW devices, IsGPUs(devices)
  PROVE  /\ IsPick(PickNVIDIAGPUDevice(devices), devices, "nvidia", FALSE)
         /\ IsPick(PickAMDGPUDevice(devices), devices, "amd", FALSE)
         /\ IsPick(PickIntelIGPUDevice(devices), devices, "intel", TRUE)
  <1> DEFINE N == Len(devices)
  <1>1. N \in Nat /\ DOMAIN devices = 1..N BY GPUsHaveNumbers
  <1>2. \A vendor : VendorGPUs(devices, vendor) \subseteq 1..N BY <1>1 DEF VendorGPUs
  <1>3. \A vendor : /\ VendorGPUs(devices, vendor) \cap DiscreteGPUs(devices)
                         = {i \in VendorGPUs(devices, vendor) : devices[i].integrated = FALSE}
                    /\ VendorGPUs(devices, vendor) \cap IntegratedGPUs(devices)
                         = {i \in VendorGPUs(devices, vendor) : devices[i].integrated = TRUE}
      BY DEF VendorGPUs, DiscreteGPUs, IntegratedGPUs, IsGPUs, IsGPU
  <1> HIDE DEF N
  <1>4. ASSUME NEW own, own \subseteq 1..N, own # {}, NEW best, best \subseteq own
        PROVE  Min(OrElse(best, own)) \in OrElse(best, own) /\ Max(OrElse(best, own)) \in OrElse(best, own)
      <2> DEFINE some == OrElse(best, own)
      <2>1. some \subseteq 1..N /\ some # {} BY <1>4 DEF OrElse
      <2> HIDE DEF some
      <2>2. some \subseteq Nat BY <1>1, <2>1, IndicesAreNatural
      <2>3. some \subseteq 0..N BY <1>1, <2>1
      <2>4. Min(some) \in some BY <2>1, <2>2, MinIsLeast
      <2>5. Max(some) \in some BY <1>1, <2>1, <2>3, MaxIsGreatest
      <2> QED BY <2>4, <2>5 DEF some
  <1> DEFINE own(vendor) == VendorGPUs(devices, vendor)
             best(vendor, integrated) == {i \in own(vendor) : devices[i].integrated = integrated}
             First(vendor, integrated) ==
               IF own(vendor) = {} THEN <<>>
               ELSE <<devices[Min(OrElse(best(vendor, integrated), own(vendor)))]>>
             LastOf(vendor, integrated) ==
               IF own(vendor) = {} THEN <<>>
               ELSE <<devices[Max(OrElse(best(vendor, integrated), own(vendor)))]>>
  <1>5. \A vendor, integrated : best(vendor, integrated) \subseteq own(vendor) OBVIOUS
  <1>6. /\ PickNVIDIAGPUDevice(devices) = First("nvidia", FALSE)
        /\ PickAMDGPUDevice(devices) = LastOf("amd", FALSE)
        /\ PickIntelIGPUDevice(devices) = First("intel", TRUE)
      <2>1. PickNVIDIAGPUDevice(devices) = First("nvidia", FALSE)
          BY <1>3, Zenon DEF PickNVIDIAGPUDevice, PickFirst
      <2>2. PickAMDGPUDevice(devices) = LastOf("amd", FALSE) BY <1>3, Zenon DEF PickAMDGPUDevice
      <2>3. PickIntelIGPUDevice(devices) = First("intel", TRUE)
          BY <1>3, Zenon DEF PickIntelIGPUDevice, PickFirst
      <2> QED BY <2>1, <2>2, <2>3
  <1>7. ASSUME NEW vendor, NEW integrated
        PROVE  /\ IsPick(First(vendor, integrated), devices, vendor, integrated)
               /\ IsPick(LastOf(vendor, integrated), devices, vendor, integrated)
      <2> DEFINE mine == own(vendor)
                 better == best(vendor, integrated)
      <2>1. mine \subseteq 1..N /\ better \subseteq mine BY <1>2, <1>5
      <2>2. CASE mine = {} BY <2>2 DEF IsPick
      <2>3. CASE mine # {}
          <3> HIDE DEF mine, better
          <3>1. Min(OrElse(better, mine)) \in OrElse(better, mine) /\ Max(OrElse(better, mine)) \in OrElse(better, mine)
              BY <1>4, <2>1, <2>3
          <3>2. \E i \in OrElse(better, mine) : <<devices[Min(OrElse(better, mine))]>> = <<devices[i]>>
              BY <3>1
          <3>3. \E i \in OrElse(better, mine) : <<devices[Max(OrElse(better, mine))]>> = <<devices[i]>>
              BY <3>1
          <3> QED BY <2>3, <3>2, <3>3, Zenon DEF IsPick, mine, better
      <2> QED BY <2>2, <2>3
  <1> HIDE DEF First, LastOf
  <1> QED BY <1>6, <1>7

(* THEOREM: on every host a smoke test of a vendor runs on a device of it,  *)
(* of the preferred kind if there is one.                                   *)
THEOREM PicksAreOnTheHost ==
  ASSUME NEW env, IsGPUs(env.devices)
  PROVE  PicksAreOfTheHost(env)
  <1> DEFINE devices == env.devices
             Of(vendor, integrated) ==
               {d \in Range(devices) : d.vendor = vendor /\ d.integrated = integrated}
             Picked(pick, best, other) ==
               IF best # {} THEN pick # <<>> /\ Head(pick) \in best
               ELSE IF other # {} THEN pick # <<>> /\ Head(pick) \in other ELSE pick = <<>>
  <1>1. ASSUME NEW pick, NEW vendor, NEW integrated \in BOOLEAN, IsPick(pick, devices, vendor, integrated)
        PROVE  Picked(pick, Of(vendor, integrated), Of(vendor, ~integrated))
      <2> DEFINE own == VendorGPUs(devices, vendor)
                 best == {i \in own : devices[i].integrated = integrated}
      <2>1. \A kind : Of(vendor, kind) # {} <=> \E i \in own : devices[i].integrated = kind
          BY DEF Range, VendorGPUs
      <2>2. \A i \in own : \A kind : devices[i].integrated = kind => devices[i] \in Of(vendor, kind)
          BY DEF Range, VendorGPUs
      <2>3. \A i \in own : devices[i].integrated \in {integrated, ~integrated}
          BY <1>1 DEF VendorGPUs, IsGPUs, IsGPU
      <2>4. \A d : <<d>> # <<>> /\ Head(<<d>>) = d OBVIOUS
      <2>5. CASE own = {}
          <3>1. pick = <<>> BY <1>1, <2>5 DEF IsPick
          <3>2. Of(vendor, integrated) = {} /\ Of(vendor, ~integrated) = {} BY <2>1, <2>5
          <3> QED BY <3>1, <3>2
      <2>6. CASE own # {}
          <3>1. PICK i \in OrElse(best, own) : pick = <<devices[i]>> BY <1>1, <2>6, Zenon DEF IsPick
          <3>2. pick # <<>> /\ Head(pick) = devices[i] BY <2>4, <3>1
          <3>3. CASE best # {}
              <4>1. i \in best BY <3>1, <3>3 DEF OrElse
              <4>2. Head(pick) \in Of(vendor, integrated) BY <2>2, <3>2, <4>1
              <4> HIDE DEF Of
              <4> QED BY <3>2, <4>2
          <3>4. CASE best = {}
              <4>1. i \in own /\ devices[i].integrated = ~integrated BY <2>3, <3>1, <3>4 DEF OrElse
              <4>2. Head(pick) \in Of(vendor, ~integrated) BY <2>2, <3>2, <4>1
              <4>3. Of(vendor, integrated) = {} BY <2>1, <3>4
              <4> HIDE DEF Of
              <4> QED BY <3>2, <4>2, <4>3
          <3> QED BY <3>3, <3>4
      <2> QED BY <2>5, <2>6
  <1>2. /\ Picked(PickNVIDIAGPUDevice(devices), Of("nvidia", FALSE), Of("nvidia", TRUE))
        /\ Picked(PickAMDGPUDevice(devices), Of("amd", FALSE), Of("amd", TRUE))
        /\ Picked(PickIntelIGPUDevice(devices), Of("intel", TRUE), Of("intel", FALSE))
      <2>1. ASSUME NEW pick, NEW vendor, IsPick(pick, devices, vendor, FALSE)
            PROVE  Picked(pick, Of(vendor, FALSE), Of(vendor, TRUE))
          <3> DEFINE no == FALSE
                     yes == TRUE
          <3>1. no \in BOOLEAN /\ (~no) = yes OBVIOUS
          <3> HIDE DEF no, yes, Picked, Of
          <3> QED BY <1>1, <2>1, <3>1 DEF no, yes
      <2>2. ASSUME NEW pick, NEW vendor, IsPick(pick, devices, vendor, TRUE)
            PROVE  Picked(pick, Of(vendor, TRUE), Of(vendor, FALSE))
          <3> HIDE DEF Picked, Of
          <3> QED BY <1>1, <2>2
      <2> HIDE DEF Picked, Of, devices
      <2> QED BY <2>1, <2>2, PicksArePicked DEF devices
  <1>3. DefaultRenderNodeForGPUs(devices) \in {""} \cup {d.node : d \in Range(devices)}
      <2>1. DOMAIN devices = 1..Len(devices) /\ Len(devices) \in Nat
            /\ (devices # <<>> => DOMAIN devices # {})
          BY GPUsHaveNumbers
      <2>2. \A i \in DOMAIN devices : devices[i].node \in {d.node : d \in Range(devices)}
          BY DEF Range
      <2>3. devices # <<>> => 1 \in DOMAIN devices BY <2>1
      <2>4. IntegratedGPUs(devices) # {} => Min(IntegratedGPUs(devices)) \in DOMAIN devices
          <3> DEFINE some == IntegratedGPUs(devices)
          <3>1. some \subseteq 1..Len(devices) BY <2>1 DEF IntegratedGPUs
          <3> HIDE DEF some
          <3>2. some \subseteq Nat BY <2>1, <3>1, IndicesAreNatural
          <3>3. some # {} => Min(some) \in some BY <3>2, MinIsLeast
          <3> QED BY <2>1, <3>1, <3>3 DEF some
      <2> HIDE DEF devices
      <2> QED BY <2>2, <2>3, <2>4 DEF DefaultRenderNodeForGPUs
  <1> QED BY <1>2, <1>3, Zenon DEF PicksAreOfTheHost

-----------------------------------------------------------------------------
(* The default chain (device_chain_default.go): the order of the GPUs holds *)
(* each of them once, and completing their choices changes none.            *)
(* A list of the elements at some indices, each once.                       *)
ListsAll(s, list, chosen) ==
  /\ s \in Seq(Range(list)) /\ Len(s) = Cardinality(chosen)
  /\ \A k \in 1..Len(s) : \E i \in chosen : s[k] = list[i]
  /\ \A i \in chosen : \E k \in 1..Len(s) : s[k] = list[i]

LEMMA SublistListsAll ==
  ASSUME NEW list, list \in Seq(Range(list)), NEW chosen, chosen \subseteq 1..Len(list)
  PROVE  ListsAll(Sublist(list, chosen), list, chosen)
  <1> DEFINE s == Sublist(list, chosen)
             R == Range(list)
  <1> HIDE DEF R
  <1>1. s \in Seq(R) /\ Taken(s, list, chosen, Len(list))
      <2>1. list \in Seq(R) BY DEF R
      <2> QED BY ONLY <2>1, chosen \subseteq 1..Len(list), SublistIsTaken
  <1> HIDE DEF s
  <1>2. PICK at \in [1..Len(s) -> chosen] :
          /\ \A k \in 1..Len(s) : s[k] = list[at[k]] /\ at[k] <= Len(list)
          /\ \A k, l \in 1..Len(s) : k < l => at[k] < at[l]
          /\ \A i \in chosen : i <= Len(list) => \E k \in 1..Len(s) : at[k] = i
      BY <1>1 DEF Taken
  <1>3. Len(s) \in Nat BY <1>1
  <1>4. \A i \in chosen : i \in Nat /\ i <= Len(list) OBVIOUS
  <1> DEFINE m == Len(s)
  <1>5. Cardinality(chosen) = m
      <2>1. \A k, l \in 1..m : at[k] = at[l] => k = l
          <3> SUFFICES ASSUME NEW k \in 1..m, NEW l \in 1..m, at[k] = at[l] PROVE k = l OBVIOUS
          <3>1. at[k] \in Nat /\ at[l] \in Nat BY <1>2, <1>4
          <3>2. ~(k < l) /\ ~(l < k) BY <1>2, <3>1
          <3> QED BY <1>3, <3>2
      <2>2. \A i \in chosen : \E k \in 1..m : at[k] = i BY <1>2, <1>4
      <2> HIDE DEF m
      <2>3. at \in [1..m -> chosen] BY <1>2 DEF m
      <2>4. m \in Nat BY <1>3 DEF m
      <2>5. at \in Surjection(1..m, chosen) BY <2>2, <2>3 DEF Surjection
      <2>6. at \in Injection(1..m, chosen) BY <2>1, <2>3 DEF Injection, IsInjective
      <2>7. IsFiniteSet(1..m) /\ Cardinality(1..m) = m BY <2>4, FS_Interval
      <2> QED BY <2>5, <2>6, <2>7, FS_Surjection
  <1>6. \A k \in 1..m : \E i \in chosen : s[k] = list[i] BY <1>2
  <1>7. \A i \in chosen : \E k \in 1..m : s[k] = list[i] BY <1>2, <1>4
  <1>8. ListsAll(s, list, chosen) BY <1>1, <1>5, <1>6, <1>7 DEF ListsAll, R
  <1> QED BY <1>8 DEF s

LEMMA ConcatenationOf ==
  ASSUME NEW R, NEW s \in Seq(R), NEW t \in Seq(R)
  PROVE  /\ s \o t \in Seq(R) /\ Len(s \o t) = Len(s) + Len(t)
         /\ \A k \in 1..Len(s) : k \in 1..Len(s \o t) /\ (s \o t)[k] = s[k]
         /\ \A k \in 1..Len(t) : Len(s) + k \in 1..Len(s \o t) /\ (s \o t)[Len(s) + k] = t[k]
         /\ \A k \in 1..Len(s \o t) : k \in 1..Len(s) \/ k - Len(s) \in 1..Len(t)
  OBVIOUS

(* The first elements of a list have indices of a, the others of b.         *)
Split(j, first, list, a, b) ==
  \A k \in 1..Len(j) :
    \/ k <= first /\ \E i \in a : j[k] = list[i]
    \/ k > first /\ \E i \in b : j[k] = list[i]

LEMMA JoinedListsAll ==
  ASSUME NEW list, list \in Seq(Range(list)), NEW a, a \subseteq 1..Len(list),
         NEW b, b \subseteq 1..Len(list), a \cap b = {},
         NEW s, ListsAll(s, list, a), NEW t, ListsAll(t, list, b)
  PROVE  ListsAll(s \o t, list, a \cup b) /\ Split(s \o t, Len(s), list, a, b)
  <1> DEFINE R == Range(list)
             j == s \o t
             n == Len(list)
             p == Len(s)
             q == Len(t)
  <1>1. s \in Seq(R) /\ t \in Seq(R) BY DEF ListsAll
  <1>2. n \in Nat BY DEF Range
  <1>3. Len(j) = Cardinality(a \cup b)
      <2>1. Len(j) = p + q /\ p \in Nat /\ q \in Nat
          <3> HIDE DEF R
          <3> QED BY <1>1
      <2>2. IsFiniteSet(1..n) BY <1>2, FS_Interval
      <2> HIDE DEF j, p, q, n
      <2>3. IsFiniteSet(a) /\ IsFiniteSet(b)
          <3>1. a \in SUBSET (1..n) /\ b \in SUBSET (1..n) BY DEF n
          <3> QED BY <2>2, <3>1, FS_Subset
      <2>4. Cardinality(a \cup b) = Cardinality(a) + Cardinality(b) - Cardinality(a \cap b)
          BY <2>3, FS_Union
      <2>5. Cardinality(a \cap b) = 0 BY FS_EmptySet
      <2>6. Cardinality(a) = p /\ Cardinality(b) = q BY DEF ListsAll, p, q
      <2> QED BY <2>1, <2>4, <2>5, <2>6
  <1>4. p \in Nat /\ q \in Nat /\ j \in Seq(R) /\ Len(j) = p + q
      <2> HIDE DEF R
      <2> QED BY <1>1
  <1>5. /\ \A k \in 1..p : k \in 1..Len(j) /\ j[k] = s[k]
        /\ \A k \in 1..q : p + k \in 1..Len(j) /\ j[p + k] = t[k]
        /\ \A k \in 1..Len(j) : k \in 1..p \/ k - p \in 1..q
      <2> HIDE DEF R
      <2> QED BY <1>1, ConcatenationOf
  <1>6. /\ \A k \in 1..p : \E i \in a : s[k] = list[i]
        /\ \A k \in 1..q : \E i \in b : t[k] = list[i]
        /\ \A i \in a : \E k \in 1..p : s[k] = list[i]
        /\ \A i \in b : \E k \in 1..q : t[k] = list[i]
      BY DEF ListsAll
  <1> HIDE DEF R, j, p, q, n
  <1>7. \A k \in 1..Len(j) : \/ k <= p /\ \E i \in a : j[k] = list[i]
                             \/ k > p /\ \E i \in b : j[k] = list[i]
      <2> SUFFICES ASSUME NEW k \in 1..Len(j)
                   PROVE  \/ k <= p /\ \E i \in a : j[k] = list[i]
                          \/ k > p /\ \E i \in b : j[k] = list[i]
          OBVIOUS
      <2>1. CASE k \in 1..p
          <3>1. k <= p /\ j[k] = s[k] BY <1>4, <1>5, <2>1
          <3> QED BY <1>6, <2>1, <3>1
      <2>2. CASE k - p \in 1..q
          <3>1. p + (k - p) = k /\ k > p BY <1>4, <2>2
          <3>2. j[k] = t[k - p] BY <1>5, <2>2, <3>1
          <3> QED BY <1>6, <2>2, <3>1, <3>2
      <2> QED BY <1>5, <2>1, <2>2
  <1>8. \A k \in 1..Len(j) : \E i \in a \cup b : j[k] = list[i] BY <1>7
  <1>9. \A i \in a \cup b : \E k \in 1..Len(j) : j[k] = list[i]
      <2> SUFFICES ASSUME NEW i \in a \cup b PROVE \E k \in 1..Len(j) : j[k] = list[i] OBVIOUS
      <2>1. CASE i \in a
          <3>1. PICK k \in 1..p : s[k] = list[i] BY <1>6, <2>1
          <3> QED BY <1>5, <3>1
      <2>2. CASE i \in b
          <3>1. PICK k \in 1..q : t[k] = list[i] BY <1>6, <2>2
          <3> QED BY <1>5, <3>1
      <2> QED BY <2>1, <2>2
  <1>10. ListsAll(j, list, a \cup b) BY <1>3, <1>4, <1>8, <1>9 DEF ListsAll, R
  <1>11. Split(j, p, list, a, b) BY <1>7, Zenon DEF Split
  <1> QED BY <1>10, <1>11 DEF j, p

(* The classes ListGPUDevices gives: a SoC device is one of a Pi, and       *)
(* elsewhere the class igpu is the integrated GPUs'.                        *)
IsClassed(env) ==
  env.pi = "" => \A i \in DOMAIN env.devices :
                   /\ env.devices[i].class # "soc"
                   /\ env.devices[i].class = "igpu" => env.devices[i].integrated

(* No GPU of a Pi has the name the SoC device is given.                     *)
IsNamedApart(env) ==
  env.pi # "" => \A i \in DOMAIN env.devices : env.devices[i].name # {"pi", env.pi}

LEMMA NamesTellApart ==
  ASSUME NEW d, NEW name, d.name # name
  PROVE  StableID(d) # <<"name", name>>
  <1>1. \A a, b, c, e : <<a, b>> = <<c, e>> => a = c /\ b = e OBVIOUS
  <1> QED BY <1>1 DEF StableID

LEMMA AppendedGPUs ==
  ASSUME NEW list, IsGPUs(list), NEW d, IsGPU(d),
         \A i \in DOMAIN list : StableID(list[i]) # StableID(d)
  PROVE  IsGPUs(Append(list, d))
  <1> DEFINE R == Range(list) \cup {d}
             n == Len(list)
             more == Append(list, d)
  <1>1. n \in Nat /\ DOMAIN list = 1..n BY GPUsHaveNumbers
  <1>2. list \in Seq(R)
      <2>1. list \in Seq(Range(list)) BY DEF IsGPUs
      <2> HIDE DEF Range
      <2> QED BY <2>1
  <1> HIDE DEF R
  <1>3. d \in R BY DEF R
  <1>4. /\ more \in Seq(R) /\ Len(more) = n + 1 /\ more[n + 1] = d
        /\ \A i \in 1..n : more[i] = list[i]
        /\ DOMAIN more = 1..n + 1
      BY <1>2, <1>3
  <1>5. \A i \in 1..n + 1 : i \in 1..n \/ i = n + 1 BY <1>1
  <1> HIDE DEF n, more
  <1>6. more \in Seq(Range(more))
      <2>1. more = [i \in 1..n + 1 |-> more[i]] BY <1>4
      <2>2. \A i \in 1..n + 1 : more[i] \in Range(more) BY <1>4 DEF Range
      <2>3. more \in [1..n + 1 -> Range(more)] BY <2>1, <2>2
      <2>4. n + 1 \in Nat BY <1>1
      <2> QED BY <2>3, <2>4, FunctionIsSeq
  <1>7. \A i \in DOMAIN more : IsGPU(more[i]) BY <1>1, <1>4, <1>5 DEF IsGPUs
  <1>8. \A i, j \in DOMAIN more : StableID(more[i]) = StableID(more[j]) => i = j
      BY <1>1, <1>4, <1>5 DEF IsGPUs
  <1> QED BY <1>6, <1>7, <1>8 DEF IsGPUs, more

LEMMA KnownAreGPUs ==
  ASSUME NEW env, IsGPUs(env.devices), IsNamedApart(env)
  PROVE  IsGPUs(AppendPiSOCDevice(env.devices, env.pi))
  <1> DEFINE soc == [node |-> "", vendor |-> "soc", name |-> {"pi", env.pi},
                     integrated |-> TRUE, class |-> "soc"]
  <1>1. CASE AppendPiSOCDevice(env.devices, env.pi) = env.devices BY <1>1
  <1>2. CASE env.pi # "" /\ AppendPiSOCDevice(env.devices, env.pi) = Append(env.devices, soc)
      <2>1. IsGPU(soc) BY DEF IsGPU
      <2>2. StableID(soc) = <<"name", {"pi", env.pi}>> BY DEF StableID
      <2> HIDE DEF soc
      <2>3. \A i \in DOMAIN env.devices : StableID(env.devices[i]) # StableID(soc)
          BY <1>2, <2>2, NamesTellApart DEF IsNamedApart
      <2> QED BY <1>2, <2>1, <2>3, AppendedGPUs
  <1>3. \/ AppendPiSOCDevice(env.devices, env.pi) = env.devices
        \/ env.pi # "" /\ AppendPiSOCDevice(env.devices, env.pi) = Append(env.devices, soc)
      BY Zenon DEF AppendPiSOCDevice
  <1> QED BY <1>1, <1>2, <1>3

(* The order holds every device, and those of one kind before the others.   *)
LEMMA OrderHoldsAll ==
  ASSUME NEW list, IsGPUs(list), NEW discreteFirst \in BOOLEAN
  PROVE  LET ordered == OrderGPUDevices(list, discreteFirst)
         IN  /\ ListsAll(ordered, list, 1..Len(list)) /\ Len(ordered) = Len(list)
             /\ (\A i \in DOMAIN list :
                   list[i].class # "soc" /\ (list[i].class = "igpu" => list[i].integrated))
                => \A k, l \in DOMAIN ordered :
                     k < l /\ ordered[l].integrated # ordered[k].integrated
                     => ordered[l].integrated = discreteFirst
  <1> DEFINE N == Len(list)
             own == IntegratedGPUs(list) \cup {i \in VendorGPUs(list, "intel") : list[i].class = "igpu"}
             S == SocGPUs(list)
             I == own \ S
             D == DOMAIN list \ (own \cup S)
             soc == Sublist(list, S)
             igpu == Sublist(list, I)
             dgpu == Sublist(list, D)
             ordered == OrderGPUDevices(list, discreteFirst)
             Plainly == \A i \in DOMAIN list :
                          list[i].class # "soc" /\ (list[i].class = "igpu" => list[i].integrated)
             Sorted(s) == \A k, l \in DOMAIN s :
                            k < l /\ s[l].integrated # s[k].integrated => s[l].integrated = discreteFirst
  <1>1. N \in Nat /\ DOMAIN list = 1..N BY GPUsHaveNumbers
  <1>2. list \in Seq(Range(list)) BY DEF IsGPUs
  <1>3. own \subseteq 1..N /\ S \subseteq 1..N
      BY <1>1 DEF IntegratedGPUs, VendorGPUs, SocGPUs
  <1>4. Plainly => S = {} /\ I = IntegratedGPUs(list) /\ D = DOMAIN list \ IntegratedGPUs(list)
      BY DEF IntegratedGPUs, VendorGPUs, SocGPUs
  <1>5. ordered = IF discreteFirst THEN (dgpu \o soc) \o igpu ELSE (soc \o igpu) \o dgpu
      BY Zenon DEF OrderGPUDevices
  <1> HIDE DEF own, S
  <1>6. /\ I \subseteq 1..N /\ D \subseteq 1..N /\ S \cap I = {} /\ D \cap S = {}
        /\ (D \cup S) \cap I = {} /\ (S \cup I) \cap D = {}
        /\ (D \cup S) \cup I = 1..N /\ (S \cup I) \cup D = 1..N
      BY <1>1, <1>3
  <1>7. \A i \in DOMAIN list : list[i].integrated \in BOOLEAN BY DEF IsGPUs, IsGPU
  <1>8. Plainly => (\A i \in I : list[i].integrated = TRUE) /\ (\A i \in D : list[i].integrated = FALSE)
      BY <1>4, <1>7 DEF IntegratedGPUs
  <1> HIDE DEF I, D, soc, igpu, dgpu, ordered, Plainly, N
  <1>9. ListsAll(soc, list, S) /\ ListsAll(igpu, list, I) /\ ListsAll(dgpu, list, D)
      BY <1>2, <1>3, <1>6, SublistListsAll DEF soc, igpu, dgpu, N
  <1>10. ASSUME NEW A, NEW B, NEW s, NEW t, A \subseteq 1..N, B \subseteq 1..N, A \cap B = {},
                A \cup B = 1..N, ListsAll(s, list, A), ListsAll(t, list, B), ordered = s \o t,
                Plainly => /\ \A i \in A : list[i].integrated = ~discreteFirst
                           /\ \A i \in B : list[i].integrated = discreteFirst
         PROVE  ListsAll(ordered, list, 1..N) /\ Len(ordered) = N /\ (Plainly => Sorted(ordered))
      <2>1. ListsAll(ordered, list, 1..N) /\ Split(ordered, Len(s), list, A, B)
          <3>1. ListsAll(s \o t, list, A \cup B) /\ Split(s \o t, Len(s), list, A, B)
              BY <1>2, <1>10, JoinedListsAll DEF N
          <3> QED BY <1>10, <3>1
      <2>2. Cardinality(1..N) = N BY <1>1, FS_Interval
      <2>3. Len(ordered) = N BY <2>1, <2>2 DEF ListsAll
      <2>4. DOMAIN ordered = 1..N
          <3>1. ordered \in Seq(Range(list)) BY <2>1 DEF ListsAll
          <3> HIDE DEF Range
          <3> QED BY <2>3, <3>1
      <2>5. s \in Seq(Range(list)) BY <1>10 DEF ListsAll
      <2>6. Len(s) \in Nat
          <3> HIDE DEF Range
          <3> QED BY <2>5
      <2>7. ASSUME Plainly PROVE Sorted(ordered)
          <3> SUFFICES ASSUME NEW k \in 1..N, NEW l \in 1..N, k < l,
                              ordered[l].integrated # ordered[k].integrated
                       PROVE  ordered[l].integrated = discreteFirst
              BY <2>4
          <3>1. ASSUME NEW m \in 1..N
                PROVE  \/ m <= Len(s) /\ ordered[m].integrated = ~discreteFirst
                       \/ m > Len(s) /\ ordered[m].integrated = discreteFirst
              <4>1. \/ m <= Len(s) /\ \E i \in A : ordered[m] = list[i]
                    \/ m > Len(s) /\ \E i \in B : ordered[m] = list[i]
                  BY <2>1, <2>3 DEF Split
              <4>2. CASE m <= Len(s) /\ \E i \in A : ordered[m] = list[i] BY <1>10, <2>7, <4>2
              <4>3. CASE m > Len(s) /\ \E i \in B : ordered[m] = list[i] BY <1>10, <2>7, <4>3
              <4> QED BY <4>1, <4>2, <4>3
          <3>2. /\ \/ k <= Len(s) /\ ordered[k].integrated = ~discreteFirst
                   \/ k > Len(s) /\ ordered[k].integrated = discreteFirst
                /\ \/ l <= Len(s) /\ ordered[l].integrated = ~discreteFirst
                   \/ l > Len(s) /\ ordered[l].integrated = discreteFirst
              BY <3>1
          <3>3. k \in Nat /\ l \in Nat BY <1>1
          <3>4. k > Len(s) => l > Len(s) BY <2>6, <3>3
          <3> QED BY <3>2, <3>4
      <2> QED BY <2>1, <2>3, <2>7
  <1>11. CASE discreteFirst
      <2>1. ListsAll(dgpu \o soc, list, D \cup S)
          BY <1>2, <1>3, <1>6, <1>9, JoinedListsAll DEF N
      <2>2. Plainly => /\ \A i \in D \cup S : list[i].integrated = ~discreteFirst
                       /\ \A i \in I : list[i].integrated = discreteFirst
          BY <1>4, <1>8, <1>11
      <2>3. ordered = (dgpu \o soc) \o igpu BY <1>5, <1>11
      <2>4. ListsAll(ordered, list, 1..N) /\ Len(ordered) = N /\ (Plainly => Sorted(ordered))
          <3> HIDE DEF Sorted
          <3>1. D \cup S \subseteq 1..N BY <1>3, <1>6
          <3> QED BY <1>6, <1>9, <1>10, <2>1, <2>2, <2>3, <3>1
      <2> QED BY <2>4 DEF ordered, Plainly, N
  <1>12. CASE ~discreteFirst
      <2>1. ListsAll(soc \o igpu, list, S \cup I)
          BY <1>2, <1>3, <1>6, <1>9, JoinedListsAll DEF N
      <2>2. Plainly => /\ \A i \in S \cup I : list[i].integrated = ~discreteFirst
                       /\ \A i \in D : list[i].integrated = discreteFirst
          BY <1>4, <1>8, <1>12
      <2>3. ordered = (soc \o igpu) \o dgpu BY <1>5, <1>12
      <2>4. ListsAll(ordered, list, 1..N) /\ Len(ordered) = N /\ (Plainly => Sorted(ordered))
          <3> HIDE DEF Sorted
          <3>1. S \cup I \subseteq 1..N BY <1>3, <1>6
          <3> QED BY <1>6, <1>9, <1>10, <2>1, <2>2, <2>3, <3>1
      <2> QED BY <2>4 DEF ordered, Plainly, N
  <1> QED BY <1>11, <1>12

LEMMA SoftwareChoice ==
  /\ SoftwareDeviceChoice.software /\ SoftwareDeviceChoice.vendor = ""
  /\ ~AutoChoice.software /\ AutoChoice.vendor = ""
  BY DEF SoftwareDeviceChoice, AutoChoice, Refused

LEMMA ChoiceKeepsID ==
  ASSUME NEW d
  PROVE  LET c == GPUChoiceFromDevice(d) IN StableID([node |-> c.node, name |-> c.name]) = StableID(d)
  <1> DEFINE c == GPUChoiceFromDevice(d)
  <1>1. c.node = d.node /\ c.name = d.name BY ChoiceOfDevice
  <1> HIDE DEF c
  <1>2. StableID([node |-> c.node, name |-> c.name]) = StableID(d) BY <1>1 DEF StableID
  <1> QED BY <1>2 DEF c

(* The hardware of the default chain.                                       *)
DefaultHardware(env, discreteFirst) ==
  LET known   == AppendPiSOCDevice(env.devices, env.pi)
      ordered == OrderGPUDevices(known, discreteFirst)
  IN  IF known = <<>> THEN <<AutoChoice>>
      ELSE [i \in DOMAIN ordered |-> GPUChoiceFromDevice(ordered[i])]

LEMMA HardwareOfChain ==
  ASSUME NEW env, IsGPUs(env.devices), IsNamedApart(env), NEW discreteFirst \in BOOLEAN, NEW allow
  PROVE  BuildDefaultDeviceChain(env, discreteFirst, allow)
           = DefaultHardware(env, discreteFirst) \o (IF allow THEN <<SoftwareDeviceChoice>> ELSE <<>>)
  <1> DEFINE known == AppendPiSOCDevice(env.devices, env.pi)
             ordered == OrderGPUDevices(known, discreteFirst)
             chain == [i \in DOMAIN ordered |-> FillGPUChoiceDevice(GPUChoiceFromDevice(ordered[i]), known)]
             plain == [i \in DOMAIN ordered |-> GPUChoiceFromDevice(ordered[i])]
             hardware == IF chain = <<>> THEN <<AutoChoice>> ELSE chain
  <1>1. IsGPUs(known) BY KnownAreGPUs
  <1>2. BuildDefaultDeviceChain(env, discreteFirst, allow)
          = hardware \o (IF allow THEN <<SoftwareDeviceChoice>> ELSE <<>>)
      BY Zenon DEF BuildDefaultDeviceChain
  <1>3. DefaultHardware(env, discreteFirst) = IF known = <<>> THEN <<AutoChoice>> ELSE plain
      BY Zenon DEF DefaultHardware
  <1> HIDE DEF known
  <1>4. ListsAll(ordered, known, 1..Len(known)) /\ Len(ordered) = Len(known) BY <1>1, OrderHoldsAll
  <1> HIDE DEF ordered
  <1>5. /\ Len(known) \in Nat /\ DOMAIN known = 1..Len(known)
        /\ (known = <<>> <=> DOMAIN known = {})
      BY <1>1, GPUsHaveNumbers
  <1>6. DOMAIN ordered = 1..Len(known)
      <2>1. ordered \in Seq(Range(known)) BY <1>4 DEF ListsAll
      <2> HIDE DEF Range
      <2> QED BY <1>4, <2>1
  <1>7. \A k \in DOMAIN ordered :
          FillGPUChoiceDevice(GPUChoiceFromDevice(ordered[k]), known) = GPUChoiceFromDevice(ordered[k])
      <2> SUFFICES ASSUME NEW k \in DOMAIN ordered
                   PROVE  FillGPUChoiceDevice(GPUChoiceFromDevice(ordered[k]), known)
                            = GPUChoiceFromDevice(ordered[k])
          OBVIOUS
      <2>1. PICK i \in 1..Len(known) : ordered[k] = known[i] BY <1>4, <1>6 DEF ListsAll
      <2> QED BY <1>1, <1>5, <2>1, OwnChoiceKept
  <1>8. chain = plain BY <1>7
  <1>9. chain = <<>> <=> known = <<>>
      <2>1. DOMAIN chain = DOMAIN known BY <1>5, <1>6
      <2>2. DOMAIN <<>> = {} OBVIOUS
      <2>3. DOMAIN chain = {} => chain = <<>>
          <3> SUFFICES ASSUME DOMAIN ordered = {} PROVE chain = <<>> OBVIOUS
          <3> DEFINE f(k) == FillGPUChoiceDevice(GPUChoiceFromDevice(ordered[k]), known)
          <3> HIDE DEF f
          <3>1. [k \in {} |-> f(k)] = <<>> OBVIOUS
          <3> QED BY <3>1 DEF f
      <2> HIDE DEF chain
      <2> QED BY <1>5, <2>1, <2>2, <2>3
  <1> QED BY <1>2, <1>3, <1>8, <1>9

IsChainEnv(env) == IsGPUs(env.devices) /\ IsClassed(env) /\ IsNamedApart(env)

LEMMA DefaultHardwareHolds ==
  ASSUME NEW env, IsChainEnv(env), NEW discreteFirst \in BOOLEAN
  PROVE  LET hardware == DefaultHardware(env, discreteFirst)
             known == AppendPiSOCDevice(env.devices, env.pi)
             n == IF known = <<>> THEN 1 ELSE Len(known)
         IN  /\ n \in Nat \ {0} /\ hardware \in Seq(Range(hardware)) /\ Len(hardware) = n
             /\ \A k \in 1..n : ~hardware[k].software
             /\ known = <<>> => hardware[1] = AutoChoice
             /\ \A i \in DOMAIN known : \E k \in 1..n : hardware[k] = GPUChoiceFromDevice(known[i])
             /\ env.pi = "" => \A k, l \in 1..n :
                  k < l /\ hardware[l].integrated # hardware[k].integrated
                  => hardware[l].integrated = discreteFirst
  <1> DEFINE hardware == DefaultHardware(env, discreteFirst)
             known == AppendPiSOCDevice(env.devices, env.pi)
             ordered == OrderGPUDevices(known, discreteFirst)
             plain == [i \in DOMAIN ordered |-> GPUChoiceFromDevice(ordered[i])]
             n == IF known = <<>> THEN 1 ELSE Len(known)
             Sorted(s) == \A k, l \in DOMAIN s :
                            k < l /\ s[l].integrated # s[k].integrated => s[l].integrated = discreteFirst
  <1>1. IsGPUs(known) BY KnownAreGPUs DEF IsChainEnv
  <1>2. hardware = IF known = <<>> THEN <<AutoChoice>> ELSE plain BY Zenon DEF DefaultHardware
  <1>3. env.pi = "" => \A i \in DOMAIN known :
          known[i].class # "soc" /\ (known[i].class = "igpu" => known[i].integrated)
      <2> SUFFICES ASSUME env.pi = ""
                   PROVE  \A i \in DOMAIN known :
                            known[i].class # "soc" /\ (known[i].class = "igpu" => known[i].integrated)
          OBVIOUS
      <2>1. known = env.devices BY DEF AppendPiSOCDevice
      <2> HIDE DEF known
      <2> QED BY <2>1 DEF IsChainEnv, IsClassed
  <1> HIDE DEF known, hardware
  <1>4. ListsAll(ordered, known, 1..Len(known)) /\ Len(ordered) = Len(known)
      BY <1>1, OrderHoldsAll
  <1>a. env.pi = "" => Sorted(ordered) BY <1>1, <1>3, OrderHoldsAll
  <1> HIDE DEF ordered
  <1>5. /\ Len(known) \in Nat /\ DOMAIN known = 1..Len(known)
        /\ (known = <<>> <=> DOMAIN known = {})
      BY <1>1, GPUsHaveNumbers
  <1>6. DOMAIN ordered = 1..Len(known)
      <2>1. ordered \in Seq(Range(known)) BY <1>4 DEF ListsAll
      <2> HIDE DEF Range
      <2> QED BY <1>4, <2>1
  <1>7. n \in Nat \ {0} BY <1>5
  <1>8. CASE known = <<>>
      <2>1. hardware = <<AutoChoice>> /\ n = 1 BY <1>2, <1>8
      <2>2. DOMAIN hardware = 1..1 /\ hardware[1] = AutoChoice /\ Len(hardware) = 1 BY <2>1
      <2>3. hardware \in Seq(Range(hardware))
          <3>1. AutoChoice \in Range(hardware) BY <2>2 DEF Range
          <3> HIDE DEF Range
          <3> QED BY <2>1, <3>1
      <2>4. \A k \in 1..1 : k = 1 OBVIOUS
      <2>5. DOMAIN known = {} BY <1>5, <1>8
      <2>6. ~hardware[1].software BY <2>2, SoftwareChoice
      <2> HIDE DEF n
      <2>7. \A k \in 1..n : ~hardware[k].software BY <2>1, <2>4, <2>6
      <2>8. \A k, l \in 1..n : ~(k < l) BY <2>1, <2>4
      <2> QED BY <1>7, <1>8, <2>1, <2>2, <2>3, <2>5, <2>7, <2>8 DEF n, hardware, known
  <1>9. CASE known # <<>>
      <2>1. hardware = plain /\ n = Len(known) BY <1>2, <1>9
      <2> HIDE DEF n
      <2>2. DOMAIN hardware = 1..n /\ \A k \in 1..n : hardware[k] = GPUChoiceFromDevice(ordered[k])
          BY <1>6, <2>1
      <2> HIDE DEF plain
      <2>3. hardware \in Seq(Range(hardware)) /\ Len(hardware) = n
          <3>1. hardware = [k \in 1..n |-> hardware[k]] BY <2>1, <2>2 DEF plain
          <3>2. \A k \in 1..n : hardware[k] \in Range(hardware) BY <2>2 DEF Range
          <3> HIDE DEF Range
          <3>3. hardware \in [1..n -> Range(hardware)] BY <3>1, <3>2
          <3> QED BY <1>7, <3>3
      <2>4. \A k \in 1..n : ~hardware[k].software BY <2>2, ChoiceOfDevice
      <2>5. ASSUME NEW i \in DOMAIN known
            PROVE  \E k \in 1..n : hardware[k] = GPUChoiceFromDevice(known[i])
          <3>1. i \in 1..n BY <1>5, <2>1
          <3>2. PICK k \in 1..n : ordered[k] = known[i] BY <1>4, <2>1, <3>1 DEF ListsAll
          <3> QED BY <2>2, <3>2
      <2>6. ASSUME env.pi = "", NEW k \in 1..n, NEW l \in 1..n, k < l,
                   hardware[l].integrated # hardware[k].integrated
            PROVE  hardware[l].integrated = discreteFirst
          <3>1. \A m \in 1..n : hardware[m].integrated = ordered[m].integrated
              BY <2>2, ChoiceOfDevice
          <3>2. k \in DOMAIN ordered /\ l \in DOMAIN ordered BY <1>6, <2>1
          <3>3. Sorted(ordered) BY <1>a, <2>6
          <3>4. ordered[l].integrated # ordered[k].integrated BY <2>6, <3>1
          <3>5. ordered[l].integrated = discreteFirst BY <2>6, <3>2, <3>3, <3>4
          <3> QED BY <3>1, <3>5
      <2>7. env.pi = "" => \A k, l \in 1..n :
              k < l /\ hardware[l].integrated # hardware[k].integrated
              => hardware[l].integrated = discreteFirst
          BY <2>6
      <2> QED BY <1>7, <1>9, <2>3, <2>4, <2>5, <2>7 DEF n, hardware, known
  <1> QED BY <1>8, <1>9

(* THEOREM: on every host the default chain holds every GPU once, the       *)
(* preferred class first, and software last exactly when it is allowed.     *)
THEOREM DefaultChainsAreComplete ==
  ASSUME NEW env, IsChainEnv(env), NEW discreteFirst \in BOOLEAN, NEW allow \in BOOLEAN
  PROVE  DefaultChainIsComplete(env, discreteFirst, allow)
  <1> DEFINE hardware == DefaultHardware(env, discreteFirst)
             known == AppendPiSOCDevice(env.devices, env.pi)
             n == IF known = <<>> THEN 1 ELSE Len(known)
             chain == BuildDefaultDeviceChain(env, discreteFirst, allow)
             tail == IF allow THEN <<SoftwareDeviceChoice>> ELSE <<>>
             more == IF allow THEN 1 ELSE 0
             some == {i \in DOMAIN chain : ~chain[i].software}
             Id(c) == StableID([node |-> c.node, name |-> c.name])
  <1>1. /\ n \in Nat \ {0} /\ hardware \in Seq(Range(hardware)) /\ Len(hardware) = n
        /\ \A k \in 1..n : ~hardware[k].software
        /\ known = <<>> => hardware[1] = AutoChoice
        /\ \A i \in DOMAIN known : \E k \in 1..n : hardware[k] = GPUChoiceFromDevice(known[i])
        /\ env.pi = "" => \A k, l \in 1..n :
             k < l /\ hardware[l].integrated # hardware[k].integrated
             => hardware[l].integrated = discreteFirst
      BY DefaultHardwareHolds, ZenonT(30)
  <1>a. n \in Nat \ {0} /\ hardware \in Seq(Range(hardware)) /\ Len(hardware) = n BY <1>1, Zenon
  <1>b. \A k \in 1..n : ~hardware[k].software BY <1>1, Zenon
  <1>c. known = <<>> => hardware[1] = AutoChoice BY <1>1, Zenon
  <1>d. \A i \in DOMAIN known : \E k \in 1..n : hardware[k] = GPUChoiceFromDevice(known[i])
      BY <1>1, Zenon
  <1>e. env.pi = "" => \A k, l \in 1..n :
          k < l /\ hardware[l].integrated # hardware[k].integrated
          => hardware[l].integrated = discreteFirst
      BY <1>1, Zenon
  <1>2. chain = hardware \o tail BY HardwareOfChain DEF IsChainEnv
  <1> DEFINE R == Range(hardware) \cup {SoftwareDeviceChoice}
  <1>3. tail \in Seq(R) /\ Len(tail) = more /\ (allow => tail[1] = SoftwareDeviceChoice)
      <2>1. SoftwareDeviceChoice \in R OBVIOUS
      <2> HIDE DEF R
      <2> QED BY <2>1
  <1>4. hardware \in Seq(R)
      <2>1. Range(hardware) \subseteq R OBVIOUS
      <2> HIDE DEF R, hardware
      <2> DEFINE Q == Range(hardware)
      <2>2. hardware \in Seq(Q) /\ Q \subseteq R BY <1>a, <2>1
      <2> HIDE DEF Q
      <2> QED BY <2>2
  <1> HIDE DEF hardware, known, chain, tail, R, n
  <1>5. /\ chain \in Seq(R) /\ Len(chain) = n + more
        /\ \A k \in 1..n : k \in 1..Len(chain) /\ chain[k] = hardware[k]
        /\ \A k \in 1..more : chain[n + k] = tail[k]
        /\ \A k \in 1..Len(chain) : k \in 1..n \/ k - n \in 1..more
      <2> DEFINE joined == hardware \o tail
      <2>1. /\ joined \in Seq(R) /\ Len(joined) = Len(hardware) + Len(tail)
            /\ \A k \in 1..Len(hardware) : k \in 1..Len(joined) /\ joined[k] = hardware[k]
            /\ \A k \in 1..Len(tail) : joined[Len(hardware) + k] = tail[k]
            /\ \A k \in 1..Len(joined) : k \in 1..Len(hardware) \/ k - Len(hardware) \in 1..Len(tail)
          BY <1>3, <1>4, ConcatenationOf
      <2>2. Len(hardware) = n /\ Len(tail) = more /\ chain = joined BY <1>a, <1>2, <1>3
      <2> HIDE DEF joined, more
      <2> QED BY ONLY <2>1, <2>2
  <1>6. DOMAIN chain = 1..n + more BY <1>5
  <1>7. allow => chain[n + 1] = SoftwareDeviceChoice
      <2> SUFFICES ASSUME allow PROVE chain[n + 1] = SoftwareDeviceChoice OBVIOUS
      <2>1. 1 \in 1..more OBVIOUS
      <2> HIDE DEF more
      <2> QED BY <1>3, <1>5, <2>1
  <1>8. some = 1..n
      <2>1. ASSUME NEW k \in 1..n PROVE k \in some BY <1>b, <1>5, <1>6, <2>1
      <2>2. ASSUME NEW k \in some PROVE k \in 1..n
          <3>1. k \in 1..n + more /\ ~chain[k].software BY <1>6
          <3>2. CASE k \in 1..n BY <3>2
          <3>3. CASE k - n \in 1..more
              <4>1. allow /\ k = n + 1 BY <1>a, <3>1, <3>3
              <4> QED BY <1>7, <3>1, <4>1, SoftwareChoice
          <3> QED BY <1>5, <3>1, <3>2, <3>3
      <2> HIDE DEF some
      <2> QED BY <2>1, <2>2
  <1>9. Cardinality(1..n) = n BY <1>a, FS_Interval
  <1>10. allow => Last(chain) = SoftwareDeviceChoice BY <1>5, <1>7 DEF Last
  <1>11. known = <<>> => chain[1] = AutoChoice BY <1>a, <1>c, <1>5
  <1>12. \A i \in DOMAIN known : \E j \in some : Id(chain[j]) = StableID(known[i])
      <2> SUFFICES ASSUME NEW i \in DOMAIN known
                   PROVE  \E j \in some : Id(chain[j]) = StableID(known[i])
          OBVIOUS
      <2>1. PICK k \in 1..n : hardware[k] = GPUChoiceFromDevice(known[i]) BY <1>d
      <2>2. chain[k] = GPUChoiceFromDevice(known[i]) BY <1>5, <2>1
      <2>3. Id(chain[k]) = StableID(known[i]) BY <2>2, ChoiceKeepsID
      <2> HIDE DEF some, Id
      <2> QED BY <1>8, <2>1, <2>3
  <1>13. env.pi = "" => \A i, j \in some :
           i < j /\ chain[j].integrated # chain[i].integrated => chain[j].integrated = discreteFirst
      <2> HIDE DEF some
      <2> QED BY <1>e, <1>5, <1>8, ZenonT(30)
  <1>14. Len(chain) = Cardinality(some) + more BY <1>5, <1>8, <1>9
  <1>15. some = 1..(IF known = <<>> THEN 1 ELSE Len(known)) BY <1>8 DEF n
  <1> QED BY <1>10, <1>11, <1>12, <1>13, <1>14, <1>15, Zenon DEF DefaultChainIsComplete, known, chain

-----------------------------------------------------------------------------
(* The GPUs of a host, as ListGPUDevices merges and classes them.           *)
Distinct(list) == \A i, j \in DOMAIN list : StableID(list[i]) = StableID(list[j]) => i = j

(* What a platform reports of its GPUs, before they are classed: no NVIDIA  *)
(* GPU is integrated, nor one that calls itself discrete; a GPU named after *)
(* a node is the one of that node; none has the name of the Pi.             *)
IsReport(R, pi, nodes) ==
  \A d \in R : /\ IsGPU(d) /\ d.class = ""
               /\ d.vendor = "nvidia" \/ "discrete" \in d.name => ~d.integrated
               /\ \A node \in nodes : node \in d.name => d.node \in {"", node}
               /\ pi # "" => d.name # {"pi", pi}

LEMMA MergedAreDistinct ==
  ASSUME NEW R, NEW primary \in Seq(R), NEW extra \in Seq(R)
  PROVE  MergeGPULists(primary, extra) \in Seq(R) /\ Distinct(MergeGPULists(primary, extra))
  <1> DEFINE all == primary \o extra
             chosen == {i \in DOMAIN all : \A j \in 1..(i - 1) : StableID(all[j]) # StableID(all[i])}
             s == Sublist(all, chosen)
  <1>1. all \in Seq(R) /\ Len(all) \in Nat /\ DOMAIN all = 1..Len(all) OBVIOUS
  <1>2. MergeGPULists(primary, extra) = s BY Zenon DEF MergeGPULists
  <1> HIDE DEF all
  <1>3. chosen \subseteq 1..Len(all) BY <1>1
  <1>a. \A i \in chosen : \A j \in 1..(i - 1) : StableID(all[j]) # StableID(all[i]) OBVIOUS
  <1> HIDE DEF chosen, s
  <1>4. s \in Seq(R) /\ Taken(s, all, chosen, Len(all))
      <2>1. \A t : t = Sublist(all, chosen) => t \in Seq(R) /\ Taken(t, all, chosen, Len(all))
          BY <1>1, <1>3, SublistIsTaken
      <2> QED BY <2>1 DEF s
  <1>5. PICK at \in [1..Len(s) -> chosen] :
          /\ \A k \in 1..Len(s) : s[k] = all[at[k]] /\ at[k] <= Len(all)
          /\ \A k, l \in 1..Len(s) : k < l => at[k] < at[l]
          /\ \A i \in chosen : i <= Len(all) => \E k \in 1..Len(s) : at[k] = i
      BY <1>4 DEF Taken
  <1>6. DOMAIN s = 1..Len(s) /\ Len(s) \in Nat BY <1>4
  <1>7. ASSUME NEW k \in 1..Len(s), NEW l \in 1..Len(s), k < l
        PROVE  StableID(s[k]) # StableID(s[l])
      <2>1. at[k] \in chosen /\ at[l] \in chosen /\ at[k] < at[l] BY <1>5, <1>7
      <2>0. chosen \subseteq Nat \ {0} BY <1>1, <1>3
      <2>2. at[k] \in Nat \ {0} /\ at[l] \in Nat BY ONLY <2>0, <2>1
      <2>3. at[k] \in 1..(at[l] - 1) BY <2>1, <2>2
      <2>4. StableID(all[at[k]]) # StableID(all[at[l]]) BY <1>a, <2>1, <2>3
      <2> QED BY <1>5, <2>4
  <1>8. Distinct(s)
      <2> SUFFICES ASSUME NEW k \in 1..Len(s), NEW l \in 1..Len(s), StableID(s[k]) = StableID(s[l])
                   PROVE  k = l
          BY <1>6 DEF Distinct
      <2>1. ~(k < l) /\ ~(l < k) BY <1>7
      <2>2. k \in Nat /\ l \in Nat BY <1>6
      <2> QED BY <2>1, <2>2
  <1> QED BY <1>2, <1>4, <1>8

(* A GPU and the class it is given.                                         *)
Classed(d, pi) == [d EXCEPT !.class = DeviceClassFor(d, pi)]

GPU(node, vendor, name, integrated, given) ==
  [node |-> node, vendor |-> vendor, name |-> name, integrated |-> integrated, class |-> given]

WithClass(d, given) == [d EXCEPT !.class = given]

LEMMA ClassSet ==
  ASSUME NEW d, NEW g, NEW a, NEW b, NEW c, NEW i, NEW f, d = GPU(a, b, c, i, f)
  PROVE  WithClass(d, g) = GPU(a, b, c, i, g)
  BY DEF WithClass, GPU

LEMMA ClassedGPU ==
  ASSUME NEW d, IsGPU(d), d.class = "", NEW pi
  PROVE  LET c == Classed(d, pi)
         IN  /\ IsGPU(c) /\ c.node = d.node /\ c.vendor = d.vendor /\ c.name = d.name
             /\ c.integrated = d.integrated /\ StableID(c) = StableID(d)
             /\ pi = "" => c.class # "soc" /\ (c.class = "igpu" => c.integrated)
  <1> DEFINE class == DeviceClassFor(d, pi)
             e == GPU(d.node, d.vendor, d.name, d.integrated, class)
  <1>1. d = GPU(d.node, d.vendor, d.name, d.integrated, d.class) /\ d.integrated \in BOOLEAN
      BY DEF IsGPU, GPU
  <1>2. pi = "" => class # "soc" /\ (class = "igpu" => d.integrated) BY DEF DeviceClassFor
  <1>3. Classed(d, pi) = e
      <2>1. Classed(d, pi) = WithClass(d, DeviceClassFor(d, pi)) BY DEF Classed, WithClass
      <2>2. \A g : WithClass(d, g) = GPU(d.node, d.vendor, d.name, d.integrated, g)
          BY ONLY <1>1, ClassSet
      <2> QED BY <2>1, <2>2, Zenon
  <1> HIDE DEF class
  <1>4. /\ e.node = d.node /\ e.vendor = d.vendor /\ e.name = d.name
        /\ e.integrated = d.integrated /\ e.class = class
      BY DEF GPU
  <1>5. IsGPU(e) BY <1>1 DEF IsGPU, GPU
  <1>6. StableID(e) = StableID(d) BY <1>4, Zenon DEF StableID
  <1> HIDE DEF e
  <1> QED BY <1>2, <1>3, <1>4, <1>5, <1>6

(* What detection may rely on of a list of GPUs.                            *)
IsHostList(devices, pi, nodes) ==
  /\ IsGPUs(devices)
  /\ \A i \in DOMAIN devices :
       /\ devices[i].vendor = "nvidia" \/ "discrete" \in devices[i].name => ~devices[i].integrated
       /\ \A node \in nodes : node \in devices[i].name => devices[i].node \in {"", node}
       /\ pi = "" => /\ devices[i].class # "soc"
                     /\ devices[i].class = "igpu" => devices[i].integrated
       /\ pi # "" => devices[i].name # {"pi", pi}

LEMMA SyntheticIsReported ==
  ASSUME NEW R, NEW pi, NEW nodes, IsReport(R, pi, nodes)
  PROVE  IsReport(R \cup {SyntheticNVIDIAGPU}, pi, nodes)
  <1> DEFINE s == SyntheticNVIDIAGPU
  <1>1. IsGPU(s) BY DEF IsGPU, SyntheticNVIDIAGPU
  <1>2. s.class = "" /\ s.vendor = "nvidia" /\ s.name = {"nvidia", "gpu"} /\ s.node = "" /\ ~s.integrated
      BY DEF SyntheticNVIDIAGPU
  <1> HIDE DEF s
  <1>3. s.name # {"pi", pi}
      <2>1. "pi" \notin {"nvidia", "gpu"} OBVIOUS
      <2>2. "pi" \in {"pi", pi} OBVIOUS
      <2> QED BY <1>2, <2>1, <2>2
  <1>4. IsReport(R \cup {s}, pi, nodes) BY <1>1, <1>2, <1>3 DEF IsReport
  <1> QED BY <1>4 DEF s

LEMMA EmptyIsDistinct ==
  ASSUME NEW R
  PROVE  <<>> \in Seq(R) /\ Distinct(<<>>)
  BY DEF Distinct

LEMMA ClassedList ==
  ASSUME NEW R, NEW pi, NEW nodes, IsReport(R, pi, nodes), NEW all \in Seq(R), Distinct(all)
  PROVE  IsHostList([i \in DOMAIN all |-> Classed(all[i], pi)], pi, nodes)
  <1> DEFINE devices == [i \in DOMAIN all |-> Classed(all[i], pi)]
             n == Len(all)
  <1>1. DOMAIN all = 1..n /\ n \in Nat /\ DOMAIN devices = 1..n OBVIOUS
  <1>2. \A i \in 1..n : all[i] \in R /\ devices[i] = Classed(all[i], pi) OBVIOUS
  <1>s. devices = [i \in 1..n |-> Classed(all[i], pi)] BY <1>1
  <1> HIDE DEF devices, n
  <1>3. ASSUME NEW i \in 1..n
        PROVE  /\ IsGPU(devices[i]) /\ StableID(devices[i]) = StableID(all[i])
               /\ devices[i].vendor = "nvidia" \/ "discrete" \in devices[i].name => ~devices[i].integrated
               /\ \A node \in nodes : node \in devices[i].name => devices[i].node \in {"", node}
               /\ pi = "" => /\ devices[i].class # "soc"
                             /\ devices[i].class = "igpu" => devices[i].integrated
               /\ pi # "" => devices[i].name # {"pi", pi}
      <2> DEFINE d == all[i]
                 c == Classed(d, pi)
      <2>1. /\ IsGPU(d) /\ d.class = ""
            /\ d.vendor = "nvidia" \/ "discrete" \in d.name => ~d.integrated
            /\ \A node \in nodes : node \in d.name => d.node \in {"", node}
            /\ pi # "" => d.name # {"pi", pi}
          BY <1>2 DEF IsReport
      <2>2. c = devices[i] BY <1>2
      <2> HIDE DEF d, c
      <2>3. /\ IsGPU(c) /\ c.node = d.node /\ c.vendor = d.vendor /\ c.name = d.name
            /\ c.integrated = d.integrated /\ StableID(c) = StableID(d)
            /\ pi = "" => c.class # "soc" /\ (c.class = "igpu" => c.integrated)
          BY <2>1, ClassedGPU DEF c
      <2>4. /\ c.vendor = "nvidia" \/ "discrete" \in c.name => ~c.integrated
            /\ \A node \in nodes : node \in c.name => c.node \in {"", node}
            /\ pi # "" => c.name # {"pi", pi}
          BY <2>1, <2>3
      <2>5. StableID(c) = StableID(all[i]) BY <2>3 DEF d
      <2> QED BY <2>2, <2>3, <2>4, <2>5
  <1>4. IsGPUs(devices)
      <2>1. devices \in Seq(Range(devices))
          <3>1. \A i \in 1..n : devices[i] \in Range(devices) BY <1>1 DEF Range
          <3>2. devices \in [1..n -> Range(devices)] BY <1>s, <3>1, <1>2
          <3> QED BY <1>1, <3>2
      <2>2. \A i \in DOMAIN devices : IsGPU(devices[i]) BY <1>1, <1>3
      <2>3. \A i, j \in DOMAIN devices : StableID(devices[i]) = StableID(devices[j]) => i = j
          BY <1>1, <1>3 DEF Distinct
      <2> QED BY <2>1, <2>2, <2>3 DEF IsGPUs
  <1>5. IsHostList(devices, pi, nodes) BY <1>1, <1>3, <1>4 DEF IsHostList
  <1> QED BY <1>5 DEF devices

LEMMA ListedGPUs ==
  ASSUME NEW os, NEW wsl, NEW pi, NEW nvidia, NEW nodes, NEW R, IsReport(R, pi, nodes),
         NEW drm \in Seq(R), Distinct(drm), NEW adapters \in Seq(R)
  PROVE  IsHostList(ListGPUDevices(os, wsl, pi, nvidia, drm, adapters), pi, nodes)
  <1> DEFINE own    == IF os = "linux" THEN drm ELSE <<>>
             listed == IF os # "linux" \/ wsl THEN MergeGPULists(own, adapters) ELSE own
             more   == nvidia /\ \A i \in DOMAIN listed : listed[i].vendor # "nvidia"
             all    == IF more THEN MergeGPULists(listed, <<SyntheticNVIDIAGPU>>) ELSE listed
             S == R \cup {SyntheticNVIDIAGPU}
  <1>1. own \in Seq(R) /\ Distinct(own) BY EmptyIsDistinct
  <1>2. listed \in Seq(R) /\ Distinct(listed)
      <2> HIDE DEF own
      <2>1. MergeGPULists(own, adapters) \in Seq(R) /\ Distinct(MergeGPULists(own, adapters))
          BY <1>1, MergedAreDistinct
      <2> QED BY <1>1, <2>1
  <1>0. ListGPUDevices(os, wsl, pi, nvidia, drm, adapters) = [i \in DOMAIN all |-> Classed(all[i], pi)]
      BY Zenon DEF ListGPUDevices, Classed
  <1> HIDE DEF listed, own, more
  <1>3. IsReport(S, pi, nodes) BY SyntheticIsReported
  <1>4. all \in Seq(S) /\ Distinct(all)
      <2>1. listed \in Seq(S) /\ <<SyntheticNVIDIAGPU>> \in Seq(S) BY <1>2
      <2> HIDE DEF S
      <2>2. /\ MergeGPULists(listed, <<SyntheticNVIDIAGPU>>) \in Seq(S)
            /\ Distinct(MergeGPULists(listed, <<SyntheticNVIDIAGPU>>))
          BY <2>1, MergedAreDistinct
      <2> QED BY <1>2, <2>1, <2>2
  <1> HIDE DEF all, S
  <1> QED BY <1>0, <1>3, <1>4, ClassedList

-----------------------------------------------------------------------------
(* From a configuration to the encoder of a job: nothing in the chain is    *)
(* software but what is asked for or allowed.                               *)
NotSoftware(choice) == choice.software = FALSE

IsChoice(choice) == choice.software \in BOOLEAN /\ (choice.software => choice.vendor = "")

LEMMA HardwareAnswers ==
  /\ NotSoftware(Refused) /\ NotSoftware(AutoChoice)
  /\ \A strict : NotSoftware(UnavailableGPU(strict))
  /\ \A vendor, words : NotSoftware(Plain(vendor, words))
  /\ NotSoftware(WslNVIDIA) /\ NotSoftware([WslNVIDIA EXCEPT !.auto = TRUE])
  /\ \A node : NotSoftware([Plain("unknown", {node}) EXCEPT !.node = node])
  <1>1. NotSoftware(Refused) BY DEF NotSoftware, Refused
  <1>2. NotSoftware(AutoChoice) BY DEF NotSoftware, AutoChoice, Refused
  <1>3. \A strict : NotSoftware(UnavailableGPU(strict))
      BY DEF NotSoftware, UnavailableGPU, AutoChoice, Refused
  <1>4. \A vendor, words : NotSoftware(Plain(vendor, words)) BY DEF NotSoftware, Plain, Refused
  <1>5. NotSoftware(WslNVIDIA) BY <1>4 DEF WslNVIDIA
  <1>6. NotSoftware([WslNVIDIA EXCEPT !.auto = TRUE])
      BY DEF NotSoftware, WslNVIDIA, Plain, Refused
  <1>7. \A node : NotSoftware([Plain("unknown", {node}) EXCEPT !.node = node])
      BY DEF NotSoftware, Plain, Refused
  <1> QED BY <1>1, <1>2, <1>3, <1>4, <1>5, <1>6, <1>7

LEMMA DevicesAreHardware ==
  ASSUME NEW devices, NEW found, NEW otherwise, NotSoftware(otherwise)
  PROVE  NotSoftware(FirstDevice(devices, found, otherwise))
  <1>1. \A d : NotSoftware(GPUChoiceFromDevice(d))
      <2> HIDE DEF StableID
      <2> QED BY DEF NotSoftware, GPUChoiceFromDevice, Refused
  <1> QED BY <1>1 DEF FirstDevice

LEMMA RequestsAreHardware ==
  ASSUME NEW sel, IsSelector(sel), sel.kind # "software", NEW env, NEW strict
  PROVE  NotSoftware(ResolveGPURequest(sel, env, strict))
  <1>1. NotSoftware(ResolveIntegrated(env, strict))
      BY HardwareAnswers, DevicesAreHardware DEF ResolveIntegrated
  <1>2. NotSoftware(ResolveDiscrete(env, strict))
      <2> DEFINE otherwise == IF env.wsl /\ env.nvidia THEN WslNVIDIA ELSE UnavailableGPU(strict)
      <2>1. NotSoftware(otherwise) BY HardwareAnswers
      <2>2. NotSoftware(FirstDevice(env.devices, DiscreteGPUs(env.devices), otherwise))
          <3> HIDE DEF otherwise
          <3> QED BY <2>1, DevicesAreHardware
      <2> QED BY <2>2, HardwareAnswers DEF ResolveDiscrete
  <1>3. NotSoftware(ResolveRenderNode(sel.node, env))
      <2> DEFINE otherwise == [Plain("unknown", {sel.node}) EXCEPT !.node = sel.node]
                 found == {i \in DOMAIN env.devices : env.devices[i].node = sel.node}
      <2>1. NotSoftware(otherwise) BY HardwareAnswers, Zenon
      <2>2. NotSoftware(FirstDevice(env.devices, found, otherwise))
          <3> HIDE DEF otherwise, found
          <3> QED BY <2>1, DevicesAreHardware
      <2>3. NotSoftware(Refused) BY HardwareAnswers
      <2> QED BY <2>2, <2>3, Zenon DEF ResolveRenderNode
  <1>4. NotSoftware(ResolveNameDevice(sel.match, env, strict))
      <2> DEFINE match == sel.match
                 named == {i \in DOMAIN env.devices : IsNamed(env.devices[i], match)}
                 adapters == {i \in DOMAIN env.pci : NameMatches(env.pci[i].name, match)}
                 adapter == env.pci[Min(adapters)]
                 meant == {i \in DOMAIN env.devices : \/ env.devices[i].vendor = adapter.vendor
                                                      \/ NameMatches(env.devices[i].name, adapter.name)}
      <2>1. NotSoftware(FirstDevice(env.devices, named, Refused))
          BY ONLY HardwareAnswers, DevicesAreHardware
      <2>2. NotSoftware(FirstDevice(env.devices, meant, Plain(adapter.vendor, adapter.name)))
          <3> HIDE DEF meant, adapter
          <3>1. NotSoftware(Plain(adapter.vendor, adapter.name)) BY HardwareAnswers
          <3> QED BY <3>1, DevicesAreHardware
      <2>3. NotSoftware(Plain("nvidia", match)) /\ NotSoftware(UnavailableGPU(strict))
          BY HardwareAnswers
      <2> QED BY <2>1, <2>2, <2>3, Zenon DEF ResolveNameDevice
  <1>5. NotSoftware(AutoChoice) /\ NotSoftware([WslNVIDIA EXCEPT !.auto = TRUE]) BY HardwareAnswers
  <1> QED BY <1>1, <1>2, <1>3, <1>4, <1>5 DEF ResolveGPURequest, IsSelector

LEMMA ChoicesAreFilled ==
  ASSUME NEW choice, NEW devices
  PROVE  LET filled == FillGPUChoiceDevice(choice, devices)
         IN  filled = choice \/ (choice.enabled /\ \E d : filled = Completed(choice, d))
  BY Zenon DEF FillGPUChoiceDevice, Completed

(* Only a selector that asks for software is resolved to it.                *)
LEMMA SelectorsGiveChoices ==
  ASSUME NEW sel, IsSelector(sel), NEW env, NEW strict
  PROVE  LET choice == ResolveGPUSelectorWithEnv(sel, env, strict)
         IN  IsChoice(choice) /\ (choice.software => sel.kind = "software")
  <1> DEFINE asked == ResolveGPURequest(sel, env, strict)
             choice == FillGPUChoiceDevice(asked, env.devices)
  <1>1. ResolveGPUSelectorWithEnv(sel, env, strict) = choice BY DEF ResolveGPUSelectorWithEnv
  <1> HIDE DEF asked
  <1>2. choice = asked \/ (asked.enabled /\ \E d : choice = Completed(asked, d))
      BY ChoicesAreFilled
  <1> HIDE DEF choice
  <1>3. CASE sel.kind = "software"
      <2>1. asked = SoftwareDeviceChoice BY <1>3 DEF ResolveGPURequest, asked
      <2>2. /\ ~SoftwareDeviceChoice.enabled /\ SoftwareDeviceChoice.software = TRUE
            /\ SoftwareDeviceChoice.vendor = ""
          BY DEF SoftwareDeviceChoice, Refused
      <2>3. choice = SoftwareDeviceChoice BY <1>2, <2>1, <2>2
      <2> QED BY <1>1, <1>3, <2>2, <2>3 DEF IsChoice
  <1>4. CASE sel.kind # "software"
      <2>1. NotSoftware(asked) BY <1>4, RequestsAreHardware DEF asked
      <2>2. \A d : NotSoftware(Completed(asked, d))
          <3> HIDE DEF StableID
          <3> QED BY DEF NotSoftware, Completed, GPUChoiceFromDevice, Refused
      <2>3. NotSoftware(choice) BY <1>2, <2>1, <2>2
      <2> QED BY <1>1, <2>3 DEF NotSoftware, IsChoice
  <1> QED BY <1>3, <1>4

(* A configuration as the options of the service make it.                   *)
IsConfig(cfg) ==
  /\ IsSelector(cfg.primary) /\ IsSelector(cfg.selector)
  /\ cfg.fallbacks \in Seq(Range(cfg.fallbacks))
  /\ \A i \in DOMAIN cfg.fallbacks : IsSelector(cfg.fallbacks[i])
  /\ cfg.hierarchy \in Seq(Backends) /\ cfg.performance \in BOOLEAN

Asks(cfg) == {cfg.primary, EffectiveGPUSelector(cfg)} \cup Range(cfg.fallbacks)

(* A chain in which only what asked for software is software.               *)
IsChoices(chain, asked) ==
  \E n \in Nat : /\ DOMAIN chain = 1..n /\ chain \in Seq(Range(chain)) /\ Len(chain) = n
                 /\ \A i \in 1..n : IsChoice(chain[i]) /\ (chain[i].software => asked)

LEMMA JoinedChoices ==
  ASSUME NEW asked, NEW s, IsChoices(s, asked), NEW t, IsChoices(t, asked)
  PROVE  /\ IsChoices(s \o t, asked)
         /\ s # <<>> => s \o t # <<>>
  <1> DEFINE R == Range(s) \cup Range(t)
             Good(c) == IsChoice(c) /\ (c.software => asked)
  <1>1. /\ s \in Seq(Range(s)) /\ \A i \in 1..Len(s) : Good(s[i])
        /\ t \in Seq(Range(t)) /\ \A i \in 1..Len(t) : Good(t[i])
      BY DEF IsChoices
  <1>2. s \in Seq(R) /\ t \in Seq(R) /\ Len(s) \in Nat /\ Len(t) \in Nat
      <2> HIDE DEF Good
      <2>1. Range(s) \subseteq R /\ Range(t) \subseteq R OBVIOUS
      <2> HIDE DEF R, Range
      <2> QED BY <1>1, <2>1
  <1> HIDE DEF R, Good
  <1> DEFINE j == s \o t
             p == Len(s)
  <1>3. /\ j \in Seq(R) /\ Len(j) = p + Len(t)
        /\ \A k \in 1..p : j[k] = s[k]
        /\ \A k \in 1..Len(t) : j[p + k] = t[k]
        /\ \A k \in 1..Len(j) : k \in 1..p \/ k - p \in 1..Len(t)
      BY <1>2, ConcatenationOf
  <1>4. DOMAIN j = 1..Len(j) /\ Len(j) \in Nat BY <1>3
  <1>s. s # <<>> => p # 0 BY <1>2
  <1>t. j = <<>> => Len(j) = 0 OBVIOUS
  <1> HIDE DEF j, p
  <1>5. \A k \in 1..Len(j) : Good(j[k])
      <2> SUFFICES ASSUME NEW k \in 1..Len(j) PROVE Good(j[k]) OBVIOUS
      <2>1. CASE k \in 1..p BY <1>1, <1>3, <2>1 DEF p
      <2>2. CASE k - p \in 1..Len(t)
          <3>1. p + (k - p) = k BY <1>2, <2>2 DEF p
          <3> QED BY <1>1, <1>3, <2>2, <3>1
      <2> QED BY <1>3, <2>1, <2>2
  <1>6. j \in Seq(Range(j))
      <2>1. j \in [1..Len(j) -> Range(j)]
          <3>1. j = [k \in 1..Len(j) |-> j[k]] BY <1>3, <1>4
          <3>2. \A k \in 1..Len(j) : j[k] \in Range(j) BY <1>4 DEF Range
          <3> HIDE DEF Range
          <3> QED BY <3>1, <3>2
      <2> HIDE DEF Range
      <2> QED BY <1>4, <2>1
  <1>7. IsChoices(j, asked) BY <1>4, <1>5, <1>6 DEF IsChoices, Good
  <1>8. s # <<>> => j # <<>> BY <1>2, <1>3, <1>s, <1>t DEF p
  <1> QED BY <1>7, <1>8 DEF j

LEMMA OneChoice ==
  ASSUME NEW asked, NEW choice, IsChoice(choice), choice.software => asked
  PROVE  IsChoices(<<choice>>, asked) /\ <<choice>> # <<>>
  <1> DEFINE s == <<choice>>
  <1>1. DOMAIN s = 1..1 /\ Len(s) = 1 /\ s[1] = choice /\ s # <<>> OBVIOUS
  <1>2. Range(s) = {choice} BY DEF Range
  <1>3. s \in Seq(Range(s)) BY <1>2
  <1> HIDE DEF s
  <1>4. IsChoices(s, asked) BY <1>1, <1>3 DEF IsChoices
  <1> QED BY <1>1, <1>4 DEF s

LEMMA NoChoices ==
  ASSUME NEW asked
  PROVE  IsChoices(<<>>, asked)
  <1> DEFINE s == <<>>
  <1>1. DOMAIN s = 1..0 /\ Len(s) = 0 /\ s \in Seq(Range(s)) BY DEF Range
  <1>2. \A i \in 1..0 : FALSE OBVIOUS
  <1> HIDE DEF s
  <1>3. IsChoices(s, asked) BY <1>1, <1>2 DEF IsChoices
  <1> QED BY <1>3 DEF s

LEMMA SelectorChain ==
  ASSUME NEW cfg, IsConfig(cfg), NEW env, NEW asked \in BOOLEAN,
         \A sel \in Asks(cfg) : sel.kind = "software" => asked
  PROVE  /\ IsChoices(ResolveSelectorChainEnv(cfg, env), asked)
         /\ DeviceSelectionExplicit(cfg) => ResolveSelectorChainEnv(cfg, env) # <<>>
  <1> DEFINE R == {cfg.primary} \cup Range(cfg.fallbacks)
             first == IF cfg.primary = NoSelector THEN <<>> ELSE <<cfg.primary>>
             specs == first \o cfg.fallbacks
             chain == [i \in DOMAIN specs |-> ResolveGPUSelectorWithEnv(specs[i], env, cfg.strict)]
  <1>0. ResolveSelectorChainEnv(cfg, env) = chain BY DEF ResolveSelectorChainEnv
  <1>1. \A sel \in R : IsSelector(sel) /\ (sel.kind = "software" => asked)
      BY DEF IsConfig, Range, Asks
  <1>2. first \in Seq(R) /\ cfg.fallbacks \in Seq(R)
      <2>1. Range(cfg.fallbacks) \subseteq R /\ cfg.primary \in R OBVIOUS
      <2>2. cfg.fallbacks \in Seq(Range(cfg.fallbacks)) BY DEF IsConfig
      <2> HIDE DEF R, Range
      <2> QED BY <2>1, <2>2
  <1> HIDE DEF R
  <1>3. specs \in Seq(R)
      <2> HIDE DEF first
      <2> QED BY <1>2
  <1>4. DeviceSelectionExplicit(cfg) => specs # <<>>
      <2>1. NoSelector.kind = "auto" BY DEF NoSelector
      <2>2. DeviceSelectionExplicit(cfg) => cfg.fallbacks # <<>> \/ first = <<cfg.primary>>
          BY <2>1 DEF DeviceSelectionExplicit
      <2>3. Len(first) \in Nat /\ Len(cfg.fallbacks) \in Nat /\ Len(specs) = Len(first) + Len(cfg.fallbacks)
          <3> HIDE DEF first
          <3> QED BY <1>2
      <2>4. first = <<cfg.primary>> => Len(first) # 0 OBVIOUS
      <2>5. cfg.fallbacks # <<>> => Len(cfg.fallbacks) # 0 BY <1>2
      <2>6. specs = <<>> => Len(specs) = 0 OBVIOUS
      <2> HIDE DEF specs, first
      <2> QED BY <2>2, <2>3, <2>4, <2>5, <2>6
  <1> HIDE DEF specs
  <1> DEFINE n == Len(specs)
  <1>5. n \in Nat /\ DOMAIN specs = 1..n /\ (n = 0 <=> specs = <<>>) BY <1>3
  <1>6. \A i \in 1..n : specs[i] \in R BY <1>3
  <1>7. DOMAIN chain = 1..n /\ \A i \in 1..n : chain[i] = ResolveGPUSelectorWithEnv(specs[i], env, cfg.strict)
      BY <1>5
  <1>8. chain = [i \in 1..n |-> ResolveGPUSelectorWithEnv(specs[i], env, cfg.strict)] BY <1>5
  <1> HIDE DEF chain, n
  <1>9. ASSUME NEW i \in 1..n PROVE IsChoice(chain[i]) /\ (chain[i].software => asked)
      <2> DEFINE choice == ResolveGPUSelectorWithEnv(specs[i], env, cfg.strict)
      <2>1. IsSelector(specs[i]) /\ (specs[i].kind = "software" => asked) BY <1>1, <1>6
      <2>2. IsChoice(choice) /\ (choice.software => specs[i].kind = "software")
          BY <2>1, SelectorsGiveChoices
      <2>3. chain[i] = choice BY <1>7
      <2> HIDE DEF choice
      <2> QED BY <2>1, <2>2, <2>3
  <1>10. chain \in Seq(Range(chain)) /\ Len(chain) = n
      <2>1. \A i \in 1..n : chain[i] \in Range(chain) BY <1>7 DEF Range
      <2> HIDE DEF Range
      <2>2. chain \in [1..n -> Range(chain)] BY <1>7, <1>8, <2>1
      <2> QED BY <1>5, <2>2
  <1>11. IsChoices(chain, asked) BY <1>5, <1>7, <1>9, <1>10 DEF IsChoices
  <1>12. specs # <<>> => chain # <<>>
      <2>1. chain = <<>> => Len(chain) = 0 OBVIOUS
      <2> QED BY <1>5, <1>10, <2>1
  <1> QED BY <1>0, <1>4, <1>11, <1>12

LEMMA DefaultChoices ==
  ASSUME NEW env, IsChainEnv(env), NEW discreteFirst \in BOOLEAN, NEW allow \in BOOLEAN,
         NEW asked \in BOOLEAN, allow => asked
  PROVE  LET chain == BuildDefaultDeviceChain(env, discreteFirst, allow)
         IN  IsChoices(chain, asked) /\ chain # <<>>
  <1> DEFINE hardware == DefaultHardware(env, discreteFirst)
             known == AppendPiSOCDevice(env.devices, env.pi)
             ordered == OrderGPUDevices(known, discreteFirst)
             m == IF known = <<>> THEN 1 ELSE Len(known)
             tail == IF allow THEN <<SoftwareDeviceChoice>> ELSE <<>>
             n == Len(hardware)
  <1>1. m \in Nat \ {0} /\ hardware \in Seq(Range(hardware)) /\ n = m
      <2>1. /\ m \in Nat \ {0} /\ hardware \in Seq(Range(hardware)) /\ n = m
            /\ \A k \in 1..m : ~hardware[k].software
            /\ known = <<>> => hardware[1] = AutoChoice
            /\ \A i \in DOMAIN known : \E k \in 1..m : hardware[k] = GPUChoiceFromDevice(known[i])
            /\ env.pi = "" => \A k, l \in 1..m :
                 k < l /\ hardware[l].integrated # hardware[k].integrated
                 => hardware[l].integrated = discreteFirst
          BY DefaultHardwareHolds, ZenonT(30)
      <2> QED BY <2>1, Zenon
  <1>2. DOMAIN hardware = 1..n /\ n \in Nat /\ n # 0
      <2> HIDE DEF hardware, m
      <2>1. \A R : hardware \in Seq(R) => DOMAIN hardware = 1..n /\ n \in Nat OBVIOUS
      <2> QED BY ONLY <1>1, <2>1
  <1>3. \A k \in DOMAIN hardware : NotSoftware(hardware[k])
      <2>1. NotSoftware(AutoChoice) BY HardwareAnswers
      <2>2. \A d : NotSoftware(GPUChoiceFromDevice(d))
          <3> HIDE DEF StableID
          <3> QED BY DEF NotSoftware, GPUChoiceFromDevice, Refused
      <2>3. hardware = IF known = <<>> THEN <<AutoChoice>>
                       ELSE [i \in DOMAIN ordered |-> GPUChoiceFromDevice(ordered[i])]
          BY Zenon DEF DefaultHardware
      <2> HIDE DEF hardware, known, ordered
      <2>4. CASE known = <<>> BY <2>1, <2>3, <2>4
      <2>5. CASE known # <<>> BY <2>2, <2>3, <2>5
      <2> QED BY <2>4, <2>5
  <1>4. BuildDefaultDeviceChain(env, discreteFirst, allow) = hardware \o tail
      BY HardwareOfChain DEF IsChainEnv
  <1> HIDE DEF hardware
  <1>5. IsChoices(hardware, asked)
      <2>1. \A k \in 1..n : IsChoice(hardware[k]) /\ (hardware[k].software => asked)
          BY <1>2, <1>3 DEF NotSoftware, IsChoice
      <2>2. hardware \in Seq(Range(hardware)) BY <1>1, Zenon
      <2> QED BY <1>2, <2>1, <2>2 DEF IsChoices
  <1>6. IsChoices(tail, asked)
      <2>1. IsChoice(SoftwareDeviceChoice)
          <3>1. SoftwareDeviceChoice.software = TRUE /\ SoftwareDeviceChoice.vendor = ""
              BY DEF SoftwareDeviceChoice, Refused
          <3> QED BY <3>1 DEF IsChoice
      <2>2. allow => IsChoices(<<SoftwareDeviceChoice>>, asked) BY <2>1, OneChoice
      <2>3. IsChoices(<<>>, asked) BY NoChoices
      <2> QED BY <2>2, <2>3
  <1>7. hardware # <<>>
      <2>1. hardware = <<>> => Len(hardware) = 0 OBVIOUS
      <2> QED BY <1>2, <2>1
  <1> HIDE DEF tail
  <1> QED BY <1>4, <1>5, <1>6, <1>7, JoinedChoices

(* What of a configuration may lead to software.                            *)
MayBeSoftware(cfg) ==
  EffectiveAllowSoftware(cfg) \/ \E sel \in Asks(cfg) : sel.kind = "software"

LEMMA SoftwareTail ==
  ASSUME NEW asked \in BOOLEAN, NEW allow \in BOOLEAN, allow => asked
  PROVE  IsChoices(IF allow THEN <<SoftwareDeviceChoice>> ELSE <<>>, asked)
  <1>1. IsChoice(SoftwareDeviceChoice)
      <2>1. SoftwareDeviceChoice.software = TRUE /\ SoftwareDeviceChoice.vendor = ""
          BY DEF SoftwareDeviceChoice, Refused
      <2> QED BY <2>1 DEF IsChoice
  <1>2. allow => IsChoices(<<SoftwareDeviceChoice>>, asked) BY <1>1, OneChoice
  <1>3. IsChoices(<<>>, asked) BY NoChoices
  <1> QED BY <1>2, <1>3

LEMMA EffectiveSelector ==
  ASSUME NEW cfg, IsConfig(cfg)
  PROVE  IsSelector(EffectiveGPUSelector(cfg))
  <1>1. \A spec : IsSelector(ParseGPUSelector(spec)) BY DEF ParseGPUSelector, NoSelector, IsSelector
  <1> QED BY <1>1 DEF EffectiveGPUSelector, IsConfig

LEMMA ConfigChain ==
  ASSUME NEW cfg, IsConfig(cfg), NEW env, IsChainEnv(env)
  PROVE  LET chain == ResolveConfigDeviceChain(cfg, env)
         IN  IsChoices(chain, MayBeSoftware(cfg)) /\ chain # <<>>
  <1> DEFINE allow == EffectiveAllowSoftware(cfg)
             asked == MayBeSoftware(cfg)
             software == IF allow THEN <<SoftwareDeviceChoice>> ELSE <<>>
             listed == ResolveSelectorChainEnv(cfg, env)
             single == ResolveGPUSelectorWithEnv(EffectiveGPUSelector(cfg), env, cfg.strict)
             rest == IF single.software THEN <<>> ELSE software
             default == BuildDefaultDeviceChain(env, EffectiveDiscrete(cfg), allow)
             chain == ResolveConfigDeviceChain(cfg, env)
  <1>1. allow \in BOOLEAN BY DEF EffectiveAllowSoftware
  <1>2. asked \in BOOLEAN /\ (allow => asked) /\ \A sel \in Asks(cfg) : sel.kind = "software" => asked
      BY <1>1 DEF MayBeSoftware
  <1>3. \/ chain = <<Refused>>
        \/ DeviceSelectionExplicit(cfg) /\ chain = listed \o software
        \/ chain = <<single>> \o rest
        \/ chain = default
      BY Zenon DEF ResolveConfigDeviceChain
  <1> HIDE DEF asked, allow, chain
  <1>4. IsChoices(<<Refused>>, asked) /\ <<Refused>> # <<>>
      <2>1. NotSoftware(Refused) BY HardwareAnswers
      <2>2. IsChoice(Refused) /\ (Refused.software => asked) BY <2>1 DEF NotSoftware, IsChoice
      <2> QED BY <2>2, OneChoice
  <1>5. IsChoices(software, asked) BY <1>1, <1>2, SoftwareTail
  <1>6. IsChoices(listed, asked) /\ (DeviceSelectionExplicit(cfg) => listed # <<>>)
      BY <1>2, SelectorChain
  <1>7. IsChoices(<<single>>, asked) /\ <<single>> # <<>>
      <2>1. IsSelector(EffectiveGPUSelector(cfg)) BY EffectiveSelector
      <2>2. IsChoice(single) /\ (single.software => EffectiveGPUSelector(cfg).kind = "software")
          BY <2>1, SelectorsGiveChoices
      <2>3. single.software => asked
          <3>1. EffectiveGPUSelector(cfg) \in Asks(cfg) BY DEF Asks
          <3> HIDE DEF single
          <3> QED BY <1>2, <2>2, <3>1
      <2> HIDE DEF single
      <2> QED BY <2>2, <2>3, OneChoice
  <1>8. IsChoices(default, asked) /\ default # <<>>
      <2>1. EffectiveDiscrete(cfg) \in BOOLEAN BY DEF EffectiveDiscrete, IsConfig
      <2> QED BY <1>1, <1>2, <2>1, DefaultChoices
  <1>9. IsChoices(rest, asked)
      <2> HIDE DEF software, single
      <2>1. IsChoices(<<>>, asked) BY NoChoices
      <2> QED BY <1>5, <2>1
  <1> HIDE DEF software, listed, single, rest, default
  <1>10. DeviceSelectionExplicit(cfg) => IsChoices(listed \o software, asked) /\ listed \o software # <<>>
      BY <1>5, <1>6, JoinedChoices
  <1>11. IsChoices(<<single>> \o rest, asked) /\ <<single>> \o rest # <<>>
      <2> DEFINE one == <<single>>
      <2>1. IsChoices(one, asked) /\ one # <<>> BY <1>7
      <2> HIDE DEF one
      <2>2. IsChoices(one \o rest, asked) /\ one \o rest # <<>> BY <1>9, <2>1, JoinedChoices
      <2> QED BY <2>2 DEF one
  <1>12. IsChoices(chain, asked) /\ chain # <<>>
      BY <1>3, <1>4, <1>8, <1>10, <1>11, Zenon
  <1> QED BY <1>12 DEF chain, asked

(* THEOREM: from a configuration to the encoder of a job: whatever the      *)
(* selectors, the GPUs and the drivers, an automatic request gets software  *)
(* only where it is allowed or asked for, is refused only when nothing      *)
(* could serve it, and every answer is one of the request's                 *)
(* (device_chain_default.go, service_accel.go, encode/resolve.go).          *)
THEOREM ConfigsAreHonoured ==
  ASSUME NEW cfg, IsConfig(cfg), NEW env, IsChainEnv(env), NEW f, NEW compiled, NEW works,
         IsHost(HostOf(env, f, compiled, works)),
         ~Detect(HostOf(env, f, compiled, works), BuildDetectOptions(cfg, env)).error,
         NEW profile, IsRequest(profile),
         profile.codec = "h264" /\ PiDefaultH264(env.pi) # None =>
           FirstSoftware(Detect(HostOf(env, f, compiled, works), BuildDetectOptions(cfg, env)).encoders,
                         "h264") # None
  PROVE  LET caps == Detect(HostOf(env, f, compiled, works), BuildDetectOptions(cfg, env))
         IN  /\ SoftwareStaysOff(cfg, env, caps, profile)
             /\ AutomaticSucceeds(caps, profile)
             /\ ChoiceHonoursRequest(caps, profile)
  <1> DEFINE host == HostOf(env, f, compiled, works)
             opts == BuildDetectOptions(cfg, env)
             chain == ResolveConfigDeviceChain(cfg, env)
             caps == Detect(host, opts)
  <1>1. IsChoices(chain, MayBeSoftware(cfg)) /\ chain # <<>> BY ConfigChain
  <1>2. host.pi = env.pi BY DEF HostOf
  <1>3. opts.chain = chain /\ opts.allow = (cfg.allow # "false") BY DEF BuildDetectOptions
  <1>4. opts.hierarchy \in Seq(Backends)
      <2>1. "none" \in Backends BY DEF Backends
      <2>2. <<"none">> \in Seq(Backends) BY <2>1
      <2>3. opts.hierarchy \in {<<"none">>, cfg.hierarchy} BY DEF BuildDetectOptions
      <2>4. cfg.hierarchy \in Seq(Backends) BY DEF IsConfig
      <2> HIDE DEF opts
      <2> QED BY <2>2, <2>3, <2>4
  <1> HIDE DEF host, opts, chain
  <1>5. IsChain(opts.chain) /\ opts.chain # <<>> /\ opts.allow \in BOOLEAN
      BY <1>1, <1>3 DEF IsChoices, IsChoice, IsChain
  <1>6. profile.codec = "h264" /\ PiDefaultH264(host.pi) # None =>
          FirstSoftware(caps.encoders, "h264") # None
      BY <1>2 DEF host, opts
  <1>7. IsHost(host) /\ ~caps.error BY DEF host, opts
  <1>8. ChoiceHonoursRequest(caps, profile) BY <1>4, <1>5, <1>7, ChoicesHonourRequests
  <1>9. AutomaticSucceeds(caps, profile) BY <1>4, <1>5, <1>6, <1>7, AutomaticRequestsSucceed
  <1>10. NoUnaskedSoftware(caps, profile) BY <1>4, <1>5, <1>7, SoftwareIsNeverUnasked
  <1>11. caps.host = host /\ caps.chain = opts.chain /\ caps.allow = opts.allow
      <2>1. IsDetected(caps, host, opts) BY <1>4, <1>5, <1>7, DetectionIsSound
      <2> QED BY <2>1 DEF IsDetected
  <1> HIDE DEF caps
  <1>12. SoftwareStaysOff(cfg, env, caps, profile)
      <2> SUFFICES ASSUME cfg.allow = "false", cfg.dsAllow = "unset",
                          \A sel \in Asks(cfg) : sel.kind # "software",
                          profile.codec = "h264" => PiDefaultH264(env.pi) = None,
                          profile.encoder = None, ~profile.software, profile.accel = "",
                          ResolveEncoder(caps, profile) # Unavailable
                   PROVE  /\ IsHardware(ResolveEncoder(caps, profile).encoder)
                          /\ ResolveEncoder(caps, profile).fallback = None
          BY Zenon DEF SoftwareStaysOff, Asks
      <2>1. ~EffectiveAllowSoftware(cfg) BY DEF EffectiveAllowSoftware
      <2>2. ~MayBeSoftware(cfg) BY <2>1 DEF MayBeSoftware
      <2>3. \A i \in DOMAIN caps.chain : ~caps.chain[i].software
          BY <1>1, <1>3, <1>11, <2>2 DEF IsChoices
      <2>4. ~caps.allow BY <1>3, <1>11
      <2> QED BY <1>2, <1>10, <1>11, <2>3, <2>4 DEF NoUnaskedSoftware
  <1> QED BY <1>8, <1>9, <1>12 DEF caps, host, opts

-----------------------------------------------------------------------------
(* The questions about devices that MCDecisions asks.                       *)
(* The GPUs and nodes of the run.                                           *)
Reported == {Igpu, Arc, Dgpu, Amd, V3d, Gpu("", "intel", {"intel", "uhd"}, TRUE),
             Gpu("", "nvidia", {"nvidia", "rtx"}, FALSE)}
Nodes == {"/dev/a", "/dev/b", "/dev/c"}
Boards == {"", "pi4", "pi5", "legacy"}

(* The name of a GPU of the run is its own, and no integrated one is of     *)
(* NVIDIA.                                                                  *)
LEMMA ReportOf ==
  ASSUME NEW node, NEW vendor, NEW words, NEW integrated \in BOOLEAN,
         ~(integrated /\ vendor = "nvidia"), "discrete" \notin words, "pi" \notin words,
         \A n \in Nodes : n \notin words, NEW pi
  PROVE  IsReport({Gpu(node, vendor, words, integrated)}, pi, Nodes)
  <1> DEFINE d == Gpu(node, vendor, words, integrated)
  <1>1. IsGPU(d) BY DEF IsGPU, Gpu
  <1>2. /\ d.class = "" /\ d.vendor = vendor /\ d.name = words /\ d.node = node
        /\ d.integrated = integrated
      BY DEF Gpu
  <1> HIDE DEF d
  <1>3. d.name # {"pi", pi}
      <2>1. "pi" \in {"pi", pi} OBVIOUS
      <2> QED BY <1>2, <2>1
  <1>4. IsReport({d}, pi, Nodes) BY <1>1, <1>2, <1>3 DEF IsReport
  <1> QED BY <1>4 DEF d

LEMMA RunIsReported ==
  ASSUME NEW pi
  PROVE  IsReport(Reported, pi, Nodes)
  <1>1. IsReport({Igpu}, pi, Nodes) BY ReportOf DEF Igpu, Nodes
  <1>2. IsReport({Arc}, pi, Nodes) BY ReportOf DEF Arc, Nodes
  <1>3. IsReport({Dgpu}, pi, Nodes) BY ReportOf DEF Dgpu, Nodes
  <1>4. IsReport({Amd}, pi, Nodes) BY ReportOf DEF Amd, Nodes
  <1>5. IsReport({V3d}, pi, Nodes) BY ReportOf DEF V3d, Nodes
  <1>6. IsReport({Gpu("", "intel", {"intel", "uhd"}, TRUE)}, pi, Nodes) BY ReportOf DEF Nodes
  <1>7. IsReport({Gpu("", "nvidia", {"nvidia", "rtx"}, FALSE)}, pi, Nodes) BY ReportOf DEF Nodes
  <1> QED BY <1>1, <1>2, <1>3, <1>4, <1>5, <1>6, <1>7 DEF IsReport, Reported

CardLists == {<<>>, <<Igpu>>, <<Igpu, Dgpu>>, <<Dgpu>>, <<Igpu, Amd>>, <<Arc, Igpu>>, <<V3d>>}

LEMMA CardsAreDistinct ==
  ASSUME NEW cards \in CardLists
  PROVE  /\ cards \in Seq(Reported) /\ Distinct(cards)
         /\ {cards[i].node : i \in DOMAIN cards} \subseteq Nodes
  <1>1. /\ Igpu.node = "/dev/a" /\ V3d.node = "/dev/a"
        /\ Arc.node = "/dev/b" /\ Dgpu.node = "/dev/b" /\ Amd.node = "/dev/b"
      BY DEF Igpu, V3d, Arc, Dgpu, Amd, Gpu
  <1>2. {Igpu, Arc, Dgpu, Amd, V3d} \subseteq Reported BY DEF Reported
  <1>3. ASSUME NEW d \in Reported, d.node \in {"/dev/a", "/dev/b"}
        PROVE  <<d>> \in Seq(Reported) /\ Distinct(<<d>>)
               /\ {<<d>>[i].node : i \in DOMAIN <<d>>} \subseteq Nodes
      BY <1>3 DEF Distinct, Nodes
  <1>4. ASSUME NEW d \in Reported, NEW e \in Reported, d.node \in {"/dev/a", "/dev/b"},
               e.node \in {"/dev/a", "/dev/b"}, d.node # e.node
        PROVE  <<d, e>> \in Seq(Reported) /\ Distinct(<<d, e>>)
               /\ {<<d, e>>[i].node : i \in DOMAIN <<d, e>>} \subseteq Nodes
      <2>1. StableID(d) # StableID(e)
          <3>1. \A a, b, c, f : <<a, b>> = <<c, f>> => b = f OBVIOUS
          <3>2. d.node # "" /\ e.node # "" BY <1>4
          <3>3. StableID(d) = <<"drm", d.node>> /\ StableID(e) = <<"drm", e.node>> BY <3>2 DEF StableID
          <3> QED BY <1>4, <3>1, <3>3
      <2> DEFINE s == <<d, e>>
      <2>2. s \in Seq(Reported) /\ DOMAIN s = {1, 2} /\ s[1] = d /\ s[2] = e OBVIOUS
      <2> HIDE DEF s
      <2>3. Distinct(s) BY <2>1, <2>2 DEF Distinct
      <2>4. {s[i].node : i \in DOMAIN s} \subseteq Nodes BY <1>4, <2>2 DEF Nodes
      <2> QED BY <2>2, <2>3, <2>4 DEF s
  <1>5. <<>> \in Seq(Reported) /\ Distinct(<<>>) /\ {<<>>[i].node : i \in DOMAIN <<>>} \subseteq Nodes
      BY DEF Distinct
  <1>6. \/ cards = <<>>
        \/ \E d \in {Igpu, Dgpu, V3d} : cards = <<d>>
        \/ \E d, e \in {Igpu, Arc, Dgpu, Amd} : cards = <<d, e>> /\ d.node # e.node
      BY <1>1, Zenon DEF CardLists
  <1> HIDE DEF StableID
  <1>7. CASE cards = <<>> BY <1>5, <1>7
  <1>8. CASE \E d \in {Igpu, Dgpu, V3d} : cards = <<d>>
      <2>1. PICK d \in {Igpu, Dgpu, V3d} : cards = <<d>> BY <1>8
      <2>2. d \in Reported /\ d.node \in {"/dev/a", "/dev/b"} BY <1>1, <1>2
      <2> QED BY <1>3, <2>1, <2>2
  <1>9. CASE \E d, e \in {Igpu, Arc, Dgpu, Amd} : cards = <<d, e>> /\ d.node # e.node
      <2>1. PICK d, e \in {Igpu, Arc, Dgpu, Amd} : cards = <<d, e>> /\ d.node # e.node BY <1>9
      <2>2. d \in Reported /\ e \in Reported BY <1>2
      <2>3. d.node \in {"/dev/a", "/dev/b"} /\ e.node \in {"/dev/a", "/dev/b"} BY <1>1
      <2> QED BY <1>4, <2>1, <2>2, <2>3
  <1> QED BY <1>6, <1>7, <1>8, <1>9

LEMMA AdaptersAreReported ==
  ASSUME NEW adapters \in Adapters
  PROVE  adapters \in Seq(Reported)
  <1> DEFINE a == Gpu("", "intel", {"intel", "uhd"}, TRUE)
             b == Gpu("", "nvidia", {"nvidia", "rtx"}, FALSE)
  <1>1. a \in Reported /\ b \in Reported BY DEF Reported
  <1>2. adapters \in {<<>>, <<a>>, <<a, b>>} BY Zenon DEF Adapters
  <1> HIDE DEF a, b
  <1>3. <<>> \in Seq(Reported) /\ <<a>> \in Seq(Reported) /\ <<a, b>> \in Seq(Reported) BY <1>1
  <1> QED BY <1>2, <1>3, Zenon

(* What the run asks about is a host as its platform reports it.            *)
IsRunEnv(env, pi) == IsDeviceEnv(env) /\ IsChainEnv(env) /\ env.pi = pi /\ env.os = "linux"

LEMMA EnvironmentsAreHosts ==
  ASSUME NEW wsl, NEW nvidia, NEW cards \in CardLists, NEW adapters \in Seq(Reported), NEW pi,
         NEW pci \in {<<>>, PciNames}
  PROVE  IsRunEnv(EnvOf(wsl, nvidia, cards, adapters, pi, pci), pi)
  <1> DEFINE env == EnvOf(wsl, nvidia, cards, adapters, pi, pci)
             devices == ListGPUDevices("linux", wsl, pi, nvidia, cards, adapters)
  <1>1. /\ env.devices = devices /\ env.pi = pi /\ env.os = "linux" /\ env.pci = pci
        /\ env.nodes = {cards[i].node : i \in DOMAIN cards} \cup {"/dev/c"}
      BY DEF EnvOf
  <1>2. /\ cards \in Seq(Reported) /\ Distinct(cards)
        /\ {cards[i].node : i \in DOMAIN cards} \subseteq Nodes
      BY CardsAreDistinct
  <1>3. IsHostList(devices, pi, Nodes) BY <1>2, RunIsReported, ListedGPUs
  <1>4. env.nodes \subseteq Nodes BY <1>1, <1>2 DEF Nodes
  <1>5. /\ \E n \in Nat : DOMAIN pci = 1..n
        /\ \A i \in DOMAIN pci : pci[i].vendor # ""
      <2>1. CASE pci = <<>>
          <3>1. DOMAIN <<>> = 1..0 OBVIOUS
          <3> QED BY <2>1, <3>1
      <2>2. CASE pci = PciNames
          <3>1. DOMAIN PciNames = 1..2 /\ PciNames[1].vendor = "intel" /\ PciNames[2].vendor = "nvidia"
              BY DEF PciNames
          <3>2. DOMAIN pci = 1..2 /\ pci[1].vendor = "intel" /\ pci[2].vendor = "nvidia"
              BY <2>2, <3>1, Zenon
          <3>3. \A i \in 1..2 : i = 1 \/ i = 2 OBVIOUS
          <3>4. \A i \in DOMAIN pci : pci[i].vendor # "" BY <3>2, <3>3
          <3> QED BY <3>2, <3>4
      <2> QED BY <2>1, <2>2
  <1> HIDE DEF env, devices
  <1>6. IsDeviceEnv(env) BY <1>1, <1>3, <1>4, <1>5 DEF IsHostList, IsDeviceEnv
  <1>7. IsChainEnv(env) BY <1>1, <1>3 DEF IsHostList, IsChainEnv, IsClassed, IsNamedApart
  <1> QED BY <1>1, <1>6, <1>7 DEF env, IsRunEnv

IsDevicesQuestion(q) ==
  /\ IsSelector(q.selector) /\ q.strict \in BOOLEAN
  /\ IsDeviceEnv(q.env) /\ IsChainEnv(q.env)

IsConfigQuestion(q) ==
  /\ IsConfig(q.config) /\ IsChainEnv(q.env) /\ q.env.pi = "" /\ q.env.os = "linux"
  /\ None \notin q.works

DevicesInv ==
  /\ Asked("devices") => IsDevicesQuestion(question)
  /\ Asked("config") => IsConfigQuestion(question)

LEMMA SelectorsAreSelectors ==
  /\ \A spec : IsSelector(ParseGPUSelector(spec))
  /\ IsSelector(NoSelector)
  /\ \A sel \in Selectors : IsSelector(sel)
  <1>1. \A spec : IsSelector(ParseGPUSelector(spec)) BY DEF ParseGPUSelector, NoSelector, IsSelector
  <1>2. IsSelector(NoSelector) BY DEF NoSelector, IsSelector
  <1>3. IsSelector([NoSelector EXCEPT !.kind = "device", !.node = "/dev/c"])
      BY DEF NoSelector, IsSelector
  <1>4. \A words : IsSelector(ByName(words)) BY DEF ByName, NoSelector, IsSelector
  <1> QED BY <1>1, <1>2, <1>3, <1>4 DEF Selectors

LEMMA SelectorQuestions ==
  ASSUME AskSelector \/ AskPiSelector
  PROVE  IsDevicesQuestion(question')
  <1>1. ASSUME NEW selector \in Selectors, NEW strict \in BOOLEAN, NEW env,
               IsDeviceEnv(env), IsChainEnv(env),
               question' = [selector |-> selector, strict |-> strict, env |-> env]
        PROVE  IsDevicesQuestion(question')
      <2>1. IsSelector(selector) BY SelectorsAreSelectors
      <2> QED BY <1>1, <2>1 DEF IsDevicesQuestion
  <1>2. CASE AskSelector
      <2>1. PICK wsl, nvidia, strict \in BOOLEAN, adapters \in Adapters, selector \in Selectors,
                 cards \in {<<>>, <<Igpu>>, <<Igpu, Dgpu>>, <<Dgpu>>, <<Igpu, Amd>>, <<Arc, Igpu>>} :
              question' = [selector |-> selector, strict |-> strict,
                           env |-> EnvOf(wsl, nvidia, cards, adapters, "", PciNames)]
          BY <1>2, PTL DEF AskSelector
      <2>2. cards \in CardLists BY DEF CardLists
      <2>3. adapters \in Seq(Reported) BY AdaptersAreReported
      <2> DEFINE env == EnvOf(wsl, nvidia, cards, adapters, "", PciNames)
      <2>6. PciNames \in {<<>>, PciNames} OBVIOUS
      <2>4. IsRunEnv(env, "") BY ONLY <2>2, <2>3, <2>6, EnvironmentsAreHosts
      <2>5. question' = [selector |-> selector, strict |-> strict, env |-> env] BY <2>1
      <2> HIDE DEF env
      <2> QED BY <1>1, <2>4, <2>5 DEF IsRunEnv
  <1>3. CASE AskPiSelector
      <2>1. PICK pi \in {"pi4", "pi5", "legacy"}, cards \in {<<>>, <<V3d>>}, strict \in BOOLEAN,
                 selector \in Selectors :
              question' = [selector |-> selector, strict |-> strict,
                           env |-> EnvOf(FALSE, FALSE, cards, <<>>, pi, <<>>)]
          BY <1>3, PTL DEF AskPiSelector
      <2>2. cards \in CardLists BY DEF CardLists
      <2>3. <<>> \in Seq(Reported) OBVIOUS
      <2> DEFINE env == EnvOf(FALSE, FALSE, cards, <<>>, pi, <<>>)
      <2>4. IsRunEnv(env, pi) BY <2>2, <2>3, EnvironmentsAreHosts
      <2>5. question' = [selector |-> selector, strict |-> strict, env |-> env] BY <2>1
      <2> HIDE DEF env
      <2> QED BY <1>1, <2>4, <2>5 DEF IsRunEnv
  <1> QED BY <1>2, <1>3

(* What the configurations of the run are made of.                          *)
LEMMA ConfigParts ==
  /\ \A fallbacks \in {<<>>, <<ParseGPUSelector("igpu")>>} :
       /\ fallbacks \in Seq(Range(fallbacks))
       /\ \A i \in DOMAIN fallbacks : IsSelector(fallbacks[i])
  /\ \A order \in {<<>>, <<"none">>, <<"nvenc", "none">>} : order \in Seq(Backends)
  /\ \A works \in {SoftwareWorks \cup NoSoftwareWorks, NoSoftwareWorks} : None \notin works
  <1> DEFINE sel == ParseGPUSelector("igpu")
             Good(list) == list \in Seq(Range(list)) /\ \A i \in DOMAIN list : IsSelector(list[i])
  <1>1. Good(<<>>) BY DEF Range
  <1>2. Good(<<sel>>)
      <2>1. IsSelector(sel) BY SelectorsAreSelectors
      <2> HIDE DEF sel
      <2>2. Range(<<sel>>) = {sel} BY DEF Range
      <2> QED BY <2>1, <2>2
  <1>3. "none" \in Backends /\ "nvenc" \in Backends BY DEF Backends, AllEncoderAccelTypes
  <1>4. <<>> \in Seq(Backends) /\ <<"none">> \in Seq(Backends) /\ <<"nvenc", "none">> \in Seq(Backends)
      BY <1>3
  <1>5. None \notin SoftwareWorks /\ None \notin NoSoftwareWorks
      BY DEF SoftwareWorks, NoSoftwareWorks, None
  <1>6. \A list \in {<<>>, <<sel>>} : Good(list)
      <2> HIDE DEF Good, sel
      <2> QED BY <1>1, <1>2
  <1>7. \A order \in {<<>>, <<"none">>, <<"nvenc", "none">>} : order \in Seq(Backends)
      BY <1>4, Zenon
  <1>8. \A works \in {SoftwareWorks \cup NoSoftwareWorks, NoSoftwareWorks} : None \notin works
      BY <1>5
  <1> QED BY <1>6, <1>7, <1>8

LEMMA ConfigQuestions ==
  ASSUME AskConfig
  PROVE  IsConfigQuestion(question')
  <1> DEFINE EnvFor(cards) == EnvOf(FALSE, \E i \in DOMAIN cards : cards[i] = Dgpu, cards, <<>>, "", <<>>)
             lists == {<<Igpu>>, <<Igpu, Dgpu>>}
             firsts == {NoSelector, ParseGPUSelector("dgpu"), ParseGPUSelector("software")}
             others == {<<>>, <<ParseGPUSelector("igpu")>>}
             orders == {<<>>, <<"none">>, <<"nvenc", "none">>}
             builds == {SoftwareWorks \cup NoSoftwareWorks, NoSoftwareWorks}
             switches == {"unset", "true", "false"}
             names == {"", "igpu"}
             installed == {<<>>, <<"iHD">>}
             ConfigOf(primary, fallbacks, gpu, allow, dsAllow, hierarchy, skipHW, strict) ==
               [primary |-> primary, fallbacks |-> fallbacks, selector |-> NoSelector,
                gpu |-> gpu, preference |-> "", performance |-> FALSE, allow |-> allow,
                dsAllow |-> dsAllow, hierarchy |-> hierarchy, vulkan |-> FALSE,
                skipHW |-> skipHW, strict |-> strict]
  <1>1. PICK primary \in firsts, fallbacks \in others, gpu \in names, allow, dsAllow \in switches,
             hierarchy \in orders, skipHW, strict \in BOOLEAN, cards \in lists,
             drivers \in installed, works \in builds :
          question' = [config |-> ConfigOf(primary, fallbacks, gpu, allow, dsAllow, hierarchy, skipHW, strict),
                       env |-> EnvFor(cards), drivers |-> drivers, works |-> works]
      BY PTL DEF AskConfig
  <1> DEFINE cfg == ConfigOf(primary, fallbacks, gpu, allow, dsAllow, hierarchy, skipHW, strict)
             env == EnvFor(cards)
  <1>2. /\ cfg.primary = primary /\ cfg.fallbacks = fallbacks /\ cfg.selector = NoSelector
        /\ cfg.hierarchy = hierarchy /\ cfg.performance = FALSE
      OBVIOUS
  <1>3. question'.config = cfg /\ question'.env = env /\ question'.works = works BY <1>1
  <1> HIDE DEF cfg
  <1>4. IsSelector(primary) BY SelectorsAreSelectors
  <1>5. /\ fallbacks \in Seq(Range(fallbacks))
        /\ \A i \in DOMAIN fallbacks : IsSelector(fallbacks[i])
      BY ConfigParts, Zenon
  <1>6. hierarchy \in Seq(Backends) BY ConfigParts, Zenon
  <1>7. IsConfig(cfg)
      <2>1. IsSelector(NoSelector) BY SelectorsAreSelectors
      <2> QED BY <1>2, <1>4, <1>5, <1>6, <2>1 DEF IsConfig
  <1>8. IsChainEnv(env) /\ env.pi = "" /\ env.os = "linux"
      <2>1. cards \in CardLists BY DEF CardLists
      <2>2. <<>> \in Seq(Reported) BY EmptyIsDistinct
      <2>3. <<>> \in {<<>>, PciNames} OBVIOUS
      <2>4. \A any : IsRunEnv(EnvOf(FALSE, any, cards, <<>>, "", <<>>), "")
          BY ONLY <2>1, <2>2, <2>3, EnvironmentsAreHosts
      <2>5. IsRunEnv(env, "") BY <2>4, Zenon
      <2> HIDE DEF env
      <2> QED BY <2>5 DEF IsRunEnv
  <1>9. None \notin works BY ConfigParts, Zenon
  <1> HIDE DEF env
  <1> QED BY <1>3, <1>7, <1>8, <1>9 DEF IsConfigQuestion

LEMMA ConfigIsHonoured ==
  ASSUME IsConfigQuestion(question)
  PROVE  ConfigHonoured
  <1> DEFINE cfg == question.config
             env == question.env
             f == FactsOf(env, question.drivers)
             works == question.works
             host == HostOf(env, f, works, works)
             caps == ConfigCapabilities
  <1> SUFFICES ASSUME ~caps.error, NEW request \in Automatic({0})
               PROVE  /\ SoftwareStaysOff(cfg, env, caps, request)
                      /\ AutomaticSucceeds(caps, request)
                      /\ ChoiceHonoursRequest(caps, request)
      BY Zenon DEF ConfigHonoured, ConfigDetects
  <1>1. IsConfig(cfg) /\ IsChainEnv(env) /\ env.pi = "" /\ env.os = "linux" /\ None \notin works
      BY DEF IsConfigQuestion
  <1>2. caps = Detect(host, BuildDetectOptions(cfg, env)) BY DEF ConfigCapabilities
  <1>3. IsHost(host) BY <1>1 DEF IsHost, HostOf
  <1>4. PiDefaultH264(env.pi) = None BY <1>1 DEF PiDefaultH264
  <1>5. IsRequest(request)
      <2>1. {"h264", "av1"} \subseteq Codecs BY DEF Codecs
      <2> QED BY <2>1, RequestsAreRequests
  <1> HIDE DEF caps, cfg, env, f, works
  <1> QED BY <1>1, <1>2, <1>3, <1>4, <1>5, ConfigsAreHonoured

LEMMA DevicesInvHonours ==
  ASSUME DevicesInv
  PROVE  DevicesHonoured
  <1>1. Asked("devices") => SelectorsHonoured
      <2> SUFFICES ASSUME Asked("devices") PROVE SelectorsHonoured OBVIOUS
      <2>1. /\ IsSelector(question.selector) /\ question.strict \in BOOLEAN
            /\ IsDeviceEnv(question.env) /\ IsChainEnv(question.env)
          BY DEF DevicesInv, IsDevicesQuestion
      <2>2. SelectorHonoured(question.selector, question.env, question.strict)
          BY <2>1, SelectorsAreHonoured
      <2>3. ListedNameIsFound(question.selector, question.env, question.strict)
          BY <2>1, ListedNamesAreFound
      <2>4. PicksAreOfTheHost(question.env) BY <2>1, PicksAreOnTheHost DEF IsChainEnv
      <2>5. \A allow \in BOOLEAN : DefaultChainIsComplete(question.env, question.strict, allow)
          BY <2>1, DefaultChainsAreComplete
      <2> QED BY <2>2, <2>3, <2>4, <2>5 DEF SelectorsHonoured
  <1>2. Asked("config") => ConfigHonoured BY ConfigIsHonoured DEF DevicesInv
  <1> QED BY <1>1, <1>2 DEF DevicesHonoured

(* THEOREM: on every host and from every configuration the run asks about   *)
(* a selector names the device it says or nothing, the default chain misses *)
(* no device, and from a configuration to the encoder of a job no automatic *)
(* request gets software that was turned off or is refused what the host    *)
(* could do (platform/gpu_request.go, device_chain_default.go,              *)
(* service_accel.go).                                                       *)
THEOREM DevicesAreHonoured == Spec => []DevicesHonoured
  <1>1. Init => DevicesInv BY DEF Init, DevicesInv, Asked
  <1>2. DevicesInv /\ [Next]_vars => DevicesInv'
      <2> SUFFICES ASSUME DevicesInv, [Next]_vars PROVE DevicesInv' OBVIOUS
      <2>1. CASE Choose BY <2>1 DEF Choose, DevicesInv, Asked
      <2>2. CASE AskSelector \/ AskPiSelector
          <3>1. Asking("devices") BY <2>2, PTL DEF AskSelector, AskPiSelector
          <3> QED BY <2>2, <3>1, SelectorQuestions DEF DevicesInv, Asking, Asked
      <2>3. CASE AskConfig
          <3>1. Asking("config") BY <2>3, PTL DEF AskConfig
          <3> QED BY <2>3, <3>1, ConfigQuestions DEF DevicesInv, Asking, Asked
      <2>4. ASSUME NEW t, t # "devices", t # "config", Asking(t) PROVE DevicesInv'
          BY <2>4 DEF Asking, DevicesInv, Asked
      <2>5. CASE AskPlan \/ AskProbe \/ AskPipeline \/ AskRecording \/ AskJoin \/ AskSheet \/ AskFrame
                   \/ AskAlign \/ AskPublish \/ AskPrefix \/ AskPiEncoders \/ AskPcEncoders
                   \/ AskFrames
          <3>1. AskPlan \/ AskProbe => Asking("plan") BY PTL DEF AskPlan, AskProbe
          <3>2. AskPipeline \/ AskRecording \/ AskJoin \/ AskSheet \/ AskFrame => Asking("media")
              BY PTL DEF AskPipeline, AskRecording, AskJoin, AskSheet, AskFrame
          <3>3. AskAlign \/ AskPublish \/ AskPrefix => Asking("fragments")
              BY PTL DEF AskAlign, AskPublish, AskPrefix
          <3>4. AskPiEncoders \/ AskPcEncoders => Asking("encoders")
              BY PTL DEF AskPiEncoders, AskPcEncoders
          <3>5. AskFrames => Asking("frames") BY PTL DEF AskFrames
          <3> QED BY <2>4, <2>5, <3>1, <3>2, <3>3, <3>4, <3>5
      <2>6. CASE UNCHANGED vars BY <2>6 DEF vars, DevicesInv, Asked
      <2> QED BY <2>1, <2>2, <2>3, <2>5, <2>6 DEF Next
  <1>3. DevicesInv => DevicesHonoured BY DevicesInvHonours
  <1> QED BY <1>1, <1>2, <1>3, PTL DEF Spec
=============================================================================
