---------------------------- MODULE MCDecisions ----------------------------
(***************************************************************************)
(* The algorithms of the library over bounded inputs.  A behaviour picks a *)
(* topic, then one question of it; an invariant per topic says what the    *)
(* code's answer to the question must satisfy.                             *)
(***************************************************************************)
EXTENDS SegmentJobs, MediaJobs, Fragments, DeviceChain, FramePath

VARIABLES phase, topic, question

vars == <<phase, topic, question>>

Topics == {"plan", "media", "fragments", "encoders", "devices", "config", "frames"}

Init == phase = "idle" /\ topic = "none" /\ question = <<>>

Choose == phase = "idle" /\ phase' = "chosen" /\ topic' \in Topics /\ UNCHANGED question

Asking(t) == phase = "chosen" /\ topic = t /\ phase' = "asked" /\ UNCHANGED topic
Asked(t) == phase = "asked" /\ topic = t

-----------------------------------------------------------------------------
(* Segment plans: units of 250 ms, up to MaxKeyframes of the times up to 9. *)

MaxKeyframes == 4

AskPlan ==
  /\ Asking("plan")
  /\ question' \in [job: {"file"}, duration: {0, 1, 5, 8, 9}, start: {0, 3}, seg: {3, 4},
                    kf: UNION {kSubset(n, 0..9) : n \in 0..MaxKeyframes}]

AskProbe ==
  /\ Asking("plan")
  /\ \E n \in 0..3, frames \in SUBSET {-1, 0, 4} :
       \E packets \in [1..n -> [key: BOOLEAN, pts: {-1, 3, 5}, dts: {-1, 0, 3}]] :
         question' = [job |-> "probe", packets |-> packets, frames |-> frames]

Prepared == PrepareHLSMediaTimeline(Increasing(question.kf), question.duration, question.start)
ListOf == BuildVODSegmentList(question.duration, question.seg, question.start, Increasing(question.kf))
MediaLength == IF Prepared.duration <= 0 THEN question.seg ELSE Prepared.duration

JobAt(index, stop, remux) ==
  [remux |-> remux, videoCopy |-> ~remux, omitAudio |-> FALSE, video |-> "h264", gop |-> 0,
   startTime |-> question.start, startSec |-> ListOf[index].start, segmentSec |-> question.seg,
   startIndex |-> index - 1, stopIndex |-> stop, plan |-> ListOf, seekTimes |-> Prepared.keyframes]

Grid == BuildVODSegmentListFixedGrid(Prepared.duration, question.seg)
TranscodeAt(index, stop) ==
  [remux |-> FALSE, videoCopy |-> FALSE, omitAudio |-> FALSE, video |-> "h264", gop |-> 0,
   startTime |-> question.start, startSec |-> Grid[index].start, segmentSec |-> question.seg,
   startIndex |-> index - 1, stopIndex |-> stop, plan |-> Grid, seekTimes |-> <<>>]

FileKeyframes ==
  Increasing({0} \cup {t \in ToSet(NormalizeHLSKeyframeTimes(Increasing(question.kf),
                                                              question.start)) : t < MediaLength})

(* The keyframes of a file are found, and the plan of its segments covers  *)
(* the media, cuts it on keyframes when there are any, and finds the       *)
(* segment of every time (ops/hls_keyframes.go, hls_timeline.go,           *)
(* hls_vod.go).                                                            *)
PlanServes ==
  /\ Asked("plan") /\ question.job = "probe" =>
       ProbeFindsKeyframes(question.packets, question.frames, 1)
  /\ Asked("plan") /\ question.job = "file" =>
    /\ TilesMedia(ListOf, MediaLength)
    /\ TilesMedia(BuildHLSSegmentTimeline(Prepared.duration, Prepared.keyframes, question.seg, 0),
                  MediaLength)
    /\ Prepared.keyframes # <<>> => CutsOnKeyframes(ListOf, Prepared.keyframes)
    /\ IndexFindsSegment(ListOf, MediaLength)
    /\ TargetCovers(BuildVODPlaylist(ListOf, question.seg))

(* The jobs that make the segments follow the plan: a video copy or a      *)
(* transcode restarted at any segment, with any hand-off, the start of a   *)
(* continuous copy, and every segment made on demand (ops/hls_vod_job.go,  *)
(* hls_vod_copy.go, hls_continuous.go, hls_build.go).                      *)
RestartsFollow(remux) ==
  Prepared.keyframes # <<>> =>
    \A i \in DOMAIN ListOf : \A stop \in 0..Len(ListOf) :
      RestartFollowsPlan(JobAt(i, stop, remux), FileKeyframes)

JobsFollowPlan ==
  Asked("plan") /\ question.job = "file" =>
    /\ RestartsFollow(FALSE)
    /\ \A i \in DOMAIN Grid : \A stop \in 0..Len(Grid) : TranscodeFollowsGrid(TranscodeAt(i, stop))
    /\ \A i \in DOMAIN ListOf, copies \in BOOLEAN :
         CopyStartsOnKeyframe(JobAt(i, 0, copies), Increasing(question.kf))
    /\ \A copies \in BOOLEAN :
         SegmentAsListed([remux |-> copies, videoCopy |-> FALSE, maxHeight |-> 0, gop |-> 0,
                          video |-> "h264", startTime |-> question.start, omitAudio |-> FALSE],
                         ListOf, Prepared.keyframes, question.seg)

-----------------------------------------------------------------------------
(* Jobs on whole files.                                                     *)

Infos == [valid: BOOLEAN, hasVideo: BOOLEAN, hasAudio: BOOLEAN, video: {"", "h264", "vp9"},
          audio: {"", "aac", "opus"}, size: {1}, format: {"", "nv12"}, rate: {"25"}, base: {"tb"}]
Clips == [valid: BOOLEAN, hasVideo: {TRUE}, hasAudio: BOOLEAN, video: {"", "h264", "vp9"},
          audio: {"aac"}, size: {1, 2}, format: {"nv12"}, rate: {"", "25"}, base: {"tb"}]

AskPipeline ==
  /\ Asking("media")
  /\ \E info \in [hasVideo: BOOLEAN, video: {"", "h264", "hevc", "mpeg4"},
                  audio: {"", "aac", "opus"}, height: {0, 480, 1080}, startTime: {0, 3}],
        opts \in [force: BOOLEAN, maxHeight: {0, 480, 720}, segmentSec: {8}] :
       question' = [job |-> "pipeline", opts |-> opts, info |-> info]

AskRecording ==
  /\ Asking("media")
  /\ \E opts \in [mode: {"copy", "transcode", "auto"}, codec: {"", "h264", "copy"},
                  audio: {"", "aac", "copy"}, seconds: {0, 7, 3600}, aligned: BOOLEAN, hwDecode: BOOLEAN],
        info \in Infos, filters \in BOOLEAN :
       question' = [job |-> "record", opts |-> opts, info |-> info, filters |-> filters]

AskJoin ==
  /\ Asking("media")
  /\ \E opts \in [width: {0, 1}, height: {0, 1}, fps: {0, 1}, codec: {""}], n \in 0..2 :
       \E clips \in [1..n -> Clips] : question' = [job |-> "join", opts |-> opts, clips |-> clips]

AskSheet ==
  /\ Asking("media")
  /\ \E opts \in [columns: 0..3, rows: 0..3, count: 0..7, interval: {0, 2, 5}, start: {0, 3},
                  end: {0, 4, 20}, duration: {3, 10}] : question' = [job |-> "sheet", opts |-> opts]

AskFrame ==
  /\ Asking("media")
  /\ \E opts \in [at: [kind: {"first", "seconds", "percent"}, value: {-1, 0, 50, 100, 120}],
                  duration: {0, 40}, width: {0, 1}, height: {0, 1}, exact: BOOLEAN,
                  format: {"webp", "png", "jpeg"}],
        encoders \in SUBSET {"webp", "libwebp", "png", "mjpeg"} :
       question' = [job |-> "frame", opts |-> opts, encoders |-> encoders]

(* Streams are copied or encoded for a reason the probe gives, a recording *)
(* or a join copies only what is known to fit, a sheet shows the samples   *)
(* it says it shows, a frame is one of the media (ops/hls_pipeline.go,     *)
(* segment_record.go, concat_media.go, sprite_sheet.go, capture_frame.go). *)
MediaJobsSound ==
  Asked("media") =>
    CASE question.job = "pipeline" ->
           /\ PipelineJustified(question.info, question.opts)
           /\ \A force \in BOOLEAN, maxHeight \in {0, 480, 720} :
                KeyTellsApart(question.info, question.opts,
                              [force |-> force, maxHeight |-> maxHeight, segmentSec |-> 8])
      [] question.job = "record" ->
           RecordingJustified(question.opts, question.info, TRUE, question.filters)
      [] question.job = "join"  -> JoinJustified(question.opts, question.clips)
      [] question.job = "sheet" ->
           SheetHoldsSamples(question.opts, FALSE, 2) /\ SamplesSpanWindow(question.opts)
      [] question.job = "frame" -> FrameReachable(question.opts, question.encoders)

-----------------------------------------------------------------------------
(* Fragments: the scales are in the cfg, the times in ticks.                *)

MCInferredScales == <<6, 1, 4, 3>>
MCPlausible == <<1, 24>>
MCMoov == {[track |-> 1, scale |-> VideoScale], [track |-> 2, scale |-> AudioScale]}

Traf(track, version, ticks, dur) ==
  [track |-> track, version |-> version, ticks |-> ticks, dur |-> dur]

Ticks == {0, 5, 8, 24, 36}
Medias ==
  {<<Traf(1, v, a, 12), Traf(2, w, b, 8)>> : v \in {0, 1}, w \in {0, 2}, a \in Ticks, b \in Ticks}
    \cup {<<Traf(2, 1, a, 12), Traf(k, 1, b, 8)>> : k \in 1..3, a \in Ticks, b \in Ticks}
    \cup {<<Traf(1, 0, a, 12), Traf(2, 0, b, 8), Traf(1, 0, c, 12), Traf(2, 0, -1, 8)>> :
            a \in Ticks, b \in Ticks, c \in Ticks}

(* Three segments cut back to back, the last after a gap of gap ticks.      *)
CutAt(video, audio, length) ==
  [media |-> <<Traf(1, 1, video, VideoScale * length), Traf(2, 1, audio, AudioScale * length)>>,
   extinf |-> length]
MuxerSegments(video, audio, d, e, f, gap) ==
  <<CutAt(video, audio, d),
    CutAt(video + VideoScale * d, audio + AudioScale * d, e),
    CutAt(video + VideoScale * (d + e) + gap, audio + AudioScale * (d + e), f)>>

AskedScales == {<<>>, <<12>>, <<4, 4>>, <<6, 0>>}
ASSUME AskedScalesAssumption ==
  \A scales \in AskedScales : \A k \in DOMAIN scales :
    scales[k] > 0 => Resolution % scales[k] = 0

AskAlign ==
  /\ Asking("fragments")
  /\ \E media \in Medias, start \in 0..4, scales \in AskedScales :
       question' = [job |-> "align", media |-> media, start |-> start, scales |-> scales]

AskPublish ==
  /\ Asking("fragments")
  /\ \E video \in {0, 6, 9, 30}, audio \in {0, 3, 4, 9, 20}, d \in {1, 4}, f \in {1, 3},
        gap \in {0, 6}, start \in {0, 3}, transcode \in BOOLEAN, hasAudio \in BOOLEAN :
       question' = [job |-> "publish", segs |-> MuxerSegments(video, audio, d, 2, f, gap),
                    start |-> start, transcode |-> transcode, hasAudio |-> hasAudio]

InitBox == [Box("moov", 12) EXCEPT !.kids = {"trak", "mvex"}]
MediaBox(size, ticks) == [Box("moof", size) EXCEPT !.trafs = <<Traf(1, 0, ticks, 6)>>]

AskPrefix ==
  /\ Asking("fragments")
  /\ \E moof \in {20, 40, 64} : \E boxes \in
        {<<Box("ftyp", 8), InitBox, Box("moof", moof), Box("mdat", 10)>>,
         <<Box("ftyp", 8), InitBox, Box("free", 9), Box("moof", moof), Box("mdat", 10)>>,
         <<Box("styp", 10), MediaBox(moof, 4), Box("mdat", 30), MediaBox(moof, 10), Box("mdat", 30)>>} :
       question' = [job |-> "prefix", boxes |-> boxes]

(* Fragments are moved to media time without losing the tracks' spacing,   *)
(* what is published passes its validator, and a file cut off anywhere is  *)
(* not taken for a finished one (mp4/tfdt.go, fragment.go, hls_reader.go,  *)
(* init_validate.go, ops/hls_continuous_align.go, continuous_validate.go). *)
FragmentsSound ==
  Asked("fragments") =>
    CASE question.job = "align" ->
           AlignIsSound(question.media, question.start, question.scales)
      [] question.job = "publish" ->
           PublishedValidates(question.segs, question.start, question.transcode,
                              question.hasAudio, TrackTimescalesFromInit(MCMoov))
      [] question.job = "prefix" ->
           InitIsWhole(question.boxes) /\ SegmentIsParseable(question.boxes)

-----------------------------------------------------------------------------
(* Encoders: a host, the options of a detection, then every request.        *)

SoftwareWorks == {<<"h264", "libx264">>, <<"av1", "libsvtav1">>}
PiWorks == {{<<"h264", "v4l2m2m">>, <<"h264", "libx264">>},
            {<<"h264", "v4l2m2m">>, <<"hevc", "v4l2m2m">>} \cup SoftwareWorks,
            {<<"h264", "libx264">>}}
NoSoftwareWorks == {<<"h264", "nvenc">>, <<"h264", "vaapi">>, <<"av1", "vaapi">>}
PcWorks == {SoftwareWorks, NoSoftwareWorks, SoftwareWorks \cup NoSoftwareWorks,
            SoftwareWorks \cup {<<"h264", "vulkan">>}, {<<"h264", "qsv">>, <<"av1", "nvenc">>}}

Pi(pi, works) ==
  [os |-> "linux", wsl |-> FALSE, nvidia |-> FALSE, intel |-> FALSE, amd |-> FALSE, dri |-> TRUE,
   vaapi |-> FALSE, qsv |-> FALSE, vulkan |-> TRUE, v4l2 |-> pi # "pi5", pi |-> pi,
   compiled |-> works, works |-> works]
Pc(wsl, works) ==
  [os |-> "linux", wsl |-> wsl, nvidia |-> TRUE, intel |-> TRUE, amd |-> FALSE, dri |-> TRUE,
   vaapi |-> TRUE, qsv |-> TRUE, vulkan |-> TRUE, v4l2 |-> FALSE, pi |-> "",
   compiled |-> works, works |-> works]

Dev(vendor) == [software |-> FALSE, vendor |-> vendor]
SoftwareDev == [software |-> TRUE, vendor |-> ""]
PiChains == {<<Dev("soc")>>, <<Dev("soc"), SoftwareDev>>, <<Dev("unknown")>>,
             <<SoftwareDev, SoftwareDev>>, <<Dev("")>>}
PcChains == {<<Dev("intel")>>, <<Dev("intel"), Dev("nvidia"), SoftwareDev>>,
             <<Dev("nvidia"), Dev("intel")>>, <<Dev("unknown")>>, <<SoftwareDev, Dev("intel")>>,
             <<Dev(""), SoftwareDev>>}

DetectOptions(chains) ==
  [hierarchy: {<<>>, <<"none">>, <<"vaapi", "none">>}, performance: BOOLEAN, chain: chains,
   allow: BOOLEAN, vulkan: BOOLEAN, skipHW: BOOLEAN]

AskPiEncoders ==
  /\ Asking("encoders")
  /\ \E pi \in {"pi4", "pi5", "legacy"}, works \in PiWorks, opts \in DetectOptions(PiChains) :
       question' = [host |-> Pi(pi, works), opts |-> opts]

AskPcEncoders ==
  /\ Asking("encoders")
  /\ \E wsl \in BOOLEAN, works \in PcWorks, opts \in DetectOptions(PcChains) :
       question' = [host |-> Pc(wsl, works), opts |-> opts]

Requests(codecs) ==
  [codec: codecs, encoder: {None, <<"h264", "vaapi">>, <<"h264", "v4l2m2m">>, <<"h264", "libx264">>},
   accel: {"", "none", "vaapi", "v4l2m2m"}, software: BOOLEAN, height: {0, 1080, 2160}, fps: {0, 60}]
Automatic(heights) ==
  [codec: {"h264", "av1"}, encoder: {None}, accel: {""}, software: {FALSE},
   height: heights, fps: {0, 60}]

(* Every request is answered as asked, and an automatic one is never given *)
(* software it should not get nor refused what the host could do           *)
(* (capabilities/detect.go, device_selection.go, encode/resolve.go).       *)
EncodersHonoured ==
  Asked("encoders") =>
    LET caps == Detect(question.host, question.opts)
    IN  ~caps.error =>
          /\ ReportIsUsable(caps, question.opts)
          /\ \A request \in Requests({"h264", "av1"}) :
               /\ ChoiceHonoursRequest(caps, request)
               /\ \A preferred \in {"", "none", "vaapi"} :
                    EncodeDefaultsYield(caps, request, preferred)
          /\ \A request \in Automatic({0, 1080, 2160}) :
               NoUnaskedSoftware(caps, request) /\ AutomaticSucceeds(caps, request)

-----------------------------------------------------------------------------
(* Devices: what the platform reports, then a selector or a configuration.  *)

Gpu(node, vendor, words, integrated) ==
  [node |-> node, vendor |-> vendor, name |-> words, integrated |-> integrated, class |-> ""]
Igpu == Gpu("/dev/a", "intel", {"intel", "uhd"}, TRUE)
Arc  == Gpu("/dev/b", "intel", {"intel", "arc"}, FALSE)
Dgpu == Gpu("/dev/b", "nvidia", {"nvidia", "rtx"}, FALSE)
Amd  == Gpu("/dev/b", "amd", {"amd", "radeon"}, FALSE)
V3d  == Gpu("/dev/a", "unknown", {"v3d"}, FALSE)
Adapters == {<<>>, <<Gpu("", "intel", {"intel", "uhd"}, TRUE)>>,
             <<Gpu("", "intel", {"intel", "uhd"}, TRUE), Gpu("", "nvidia", {"nvidia", "rtx"}, FALSE)>>}
PciNames == <<[name |-> {"vga", "intel", "uhd"}, vendor |-> "intel"],
              [name |-> {"3d", "geforce"}, vendor |-> "nvidia"]>>

EnvOf(wsl, nvidia, cards, adapters, pi, pci) ==
  [os |-> "linux", wsl |-> wsl, nvidia |-> nvidia, amd |-> FALSE, pi |-> pi,
   intel |-> \E i \in DOMAIN cards : cards[i].vendor = "intel",
   devices |-> ListGPUDevices("linux", wsl, pi, nvidia, cards, adapters),
   nodes |-> {cards[i].node : i \in DOMAIN cards} \cup {"/dev/c"}, pci |-> pci]

(* A node nobody lists, parts of the path of one node and of every node,    *)
(* then keywords, a listed node, and names.                                 *)
ByName(words) == [NoSelector EXCEPT !.kind = "device", !.match = words]
Selectors == {NoSelector, [NoSelector EXCEPT !.kind = "device", !.node = "/dev/c"]}
               \cup {ByName({"/dev/b"}), ByName({"dri"})}
               \cup {ParseGPUSelector(s) : s \in {"igpu", "dgpu", "software", "/dev/a", "rtx",
                                                 "geforce", "nvidia", "zz"}}

AskSelector ==
  /\ Asking("devices")
  /\ \E wsl, nvidia, strict \in BOOLEAN, adapters \in Adapters, selector \in Selectors,
        cards \in {<<>>, <<Igpu>>, <<Igpu, Dgpu>>, <<Dgpu>>, <<Igpu, Amd>>, <<Arc, Igpu>>} :
       question' = [selector |-> selector, strict |-> strict,
                    env |-> EnvOf(wsl, nvidia, cards, adapters, "", PciNames)]

AskPiSelector ==
  /\ Asking("devices")
  /\ \E pi \in {"pi4", "pi5", "legacy"}, cards \in {<<>>, <<V3d>>}, strict \in BOOLEAN,
        selector \in Selectors :
       question' = [selector |-> selector, strict |-> strict,
                    env |-> EnvOf(FALSE, FALSE, cards, <<>>, pi, <<>>)]

FactsOf(env, drivers) ==
  [os |-> env.os, wsl |-> env.wsl, intel |-> env.intel, amd |-> env.amd, pi |-> env.pi,
   dri |-> env.devices # <<>>, dxg |-> FALSE, vaDrivers |-> drivers, bound |-> {},
   libvulkan |-> TRUE, qsvRuntime |-> TRUE, v4l2 |-> FALSE]

AskConfig ==
  /\ Asking("config")
  /\ \E primary \in {NoSelector, ParseGPUSelector("dgpu"), ParseGPUSelector("software")},
        fallbacks \in {<<>>, <<ParseGPUSelector("igpu")>>}, gpu \in {"", "igpu"},
        allow, dsAllow \in {"unset", "true", "false"},
        hierarchy \in {<<>>, <<"none">>, <<"nvenc", "none">>}, skipHW, strict \in BOOLEAN,
        cards \in {<<Igpu>>, <<Igpu, Dgpu>>}, drivers \in {<<>>, <<"iHD">>},
        works \in {SoftwareWorks \cup NoSoftwareWorks, NoSoftwareWorks} :
       question' =
         [config |-> [primary |-> primary, fallbacks |-> fallbacks, selector |-> NoSelector,
                      gpu |-> gpu, preference |-> "", performance |-> FALSE, allow |-> allow,
                      dsAllow |-> dsAllow, hierarchy |-> hierarchy, vulkan |-> FALSE,
                      skipHW |-> skipHW, strict |-> strict],
          env |-> EnvOf(FALSE, \E i \in DOMAIN cards : cards[i] = Dgpu, cards, <<>>, "", <<>>),
          drivers |-> drivers, works |-> works]

ConfigCapabilities ==
  Detect(HostOf(question.env, FactsOf(question.env, question.drivers), question.works, question.works),
         BuildDetectOptions(question.config, question.env))

ConfigDetects ==
  /\ ResolveConfigDeviceChain(question.config, question.env) # <<Refused>>
  /\ ~ConfigCapabilities.error

(* A selector names the device it says or nothing, and finds a device that *)
(* is listed under the name it gives; the chain made without one misses no *)
(* device, and from a configuration to the encoder of a job the promises   *)
(* of EncodersHonoured hold of the chain it resolves to                    *)
(* (platform/gpu_request.go, gpu_env.go, gpu_select.go,                    *)
(* device_chain_default.go, service_accel.go, platform/detect.go).         *)
SelectorsHonoured ==
  /\ SelectorHonoured(question.selector, question.env, question.strict)
  /\ ListedNameIsFound(question.selector, question.env, question.strict)
  /\ PicksAreOfTheHost(question.env)
  /\ \A allow \in BOOLEAN : DefaultChainIsComplete(question.env, question.strict, allow)

ConfigHonoured ==
  LET caps == ConfigCapabilities
  IN  ConfigDetects =>
        \A request \in Automatic({0}) :
          /\ SoftwareStaysOff(question.config, question.env, caps, request)
          /\ AutomaticSucceeds(caps, request)
          /\ ChoiceHonoursRequest(caps, request)

DevicesHonoured ==
  /\ Asked("devices") => SelectorsHonoured
  /\ Asked("config") => ConfigHonoured

-----------------------------------------------------------------------------
(* Frames: every pair of encoder and decoder a build may have.              *)

Kinds == {"none", "nvenc", "vaapi", "qsv", "vulkan", "videotoolbox"}
FrameEncoders == {<<"h264", k>> : k \in Kinds \ {"none"}} \cup {<<"h264", "libx264">>, <<"hevc", "libx265">>}
FrameDecoders == {<<"h264", k>> : k \in Kinds \ {"none"}} \cup {<<"h264", "software">>}

FrameCaps(filters) ==
  WithDecoders(Detect(Pc(FALSE, FrameEncoders),
                      [hierarchy |-> <<>>, performance |-> FALSE, chain |-> <<>>, allow |-> TRUE,
                       vulkan |-> FALSE, skipHW |-> FALSE]),
               FrameDecoders, filters, FALSE)

AskFrames ==
  /\ Asking("frames")
  /\ question' \in [encode: Kinds, decode: Kinds \cup {""}, filters: SUBSET Scalers,
                    maxHeight: {0, 720}, depth: {8, 10}, told: BOOLEAN]

FrameProfile(codec, quality) ==
  [codec |-> codec, encoder |-> None, accel |-> question.encode, software |-> FALSE, height |-> 0,
   fps |-> 0, quality |-> quality, gop |-> 0]
FrameRequest ==
  [codec |-> "h264", decoder |-> None, accel |-> question.decode, software |-> FALSE,
   depth |-> IF question.told THEN question.depth ELSE 0]

(* Decoded frames reach the encoder, and the options it gets are its own   *)
(* (encode/video_filter.go, decode.go, profile.go).                        *)
FramesArrive ==
  Asked("frames") =>
    LET caps == FrameCaps(question.filters)
    IN  /\ FrameReachesEncoder(caps, FrameProfile("h264", ""), FrameRequest,
                               question.maxHeight, question.depth)
        /\ \A codec \in {"h264", "hevc"}, quality \in {"", "ultrafast", "fast", "medium"} :
             OptionsFitEncoder(caps, FrameProfile(codec, quality))

(* video_filter.go:54 says that QSV decode keeps frames in system memory;  *)
(* the sprite chain fetches them from a device.                            *)
SpritesReachTile ==
  Asked("frames") => CellsReachTile(FrameCaps(question.filters), FrameRequest)

-----------------------------------------------------------------------------
(* What docs and comments say of the answers and the code does not do; run *)
(* by hand, README section 3.                                              *)

(* hls_vod_job.go:416-427, on a remux.                                     *)
RemuxRestartsFollowPlan == Asked("plan") /\ question.job = "file" => RestartsFollow(TRUE)

(* hls_continuous.go:376-378, of transcodes.                               *)
ContinuousKeyframesOnGrid ==
  Asked("plan") /\ question.job = "file" =>
    KeyframesOnGrid(BuildHLSContinuousArgs(TranscodeAt(1, 0), <<>>, TRUE))

(* profile_defaults.go:22: defaults fill what is empty.                    *)
DecodeDefaultsHonoured ==
  Asked("frames") =>
    DecodeDefaultsYield(FrameCaps(question.filters),
                        [FrameRequest EXCEPT !.decoder = <<"h264", "qsv">>, !.accel = ""], "vaapi")

(* sprite_sheet.go:50: EndSec limits sampling.                             *)
SamplingEnds ==
  Asked("media") /\ question.job = "sheet" => EndLimitsSampling(question.opts)

(* config.go:39-44, of the order the caller gives.                         *)
OrderHonoured ==
  Asked("config") =>
    (ConfigDetects => \A request \in Automatic({0}) :
                        HierarchyHonoured(ConfigCapabilities, question.config, request))

(* gpu_device_selection.go:14, of the software switch of a selection.      *)
SoftwareSwitchHonoured ==
  Asked("config") =>
    \A request \in Automatic({0}) :
      AllowSoftwareOverrides(question.config, question.env,
                             FactsOf(question.env, question.drivers), question.works, request)

-----------------------------------------------------------------------------
Next ==
  \/ Choose
  \/ AskPlan \/ AskProbe \/ AskPipeline
  \/ AskRecording \/ AskJoin \/ AskSheet \/ AskFrame
  \/ AskAlign \/ AskPublish \/ AskPrefix
  \/ AskPiEncoders \/ AskPcEncoders
  \/ AskSelector \/ AskPiSelector \/ AskConfig
  \/ AskFrames

Spec == Init /\ [][Next]_vars
=============================================================================
