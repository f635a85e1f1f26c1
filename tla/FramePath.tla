------------------------------ MODULE FramePath ------------------------------
(***************************************************************************)
(* The way of a frame through a transcode: the decoder                     *)
(* (encode/decode.go), the filters between decoder and encoder             *)
(* (encode/video_filter.go, videotoolbox_device.go, the sprite chain of    *)
(* ops/sprite_sheet.go), the encoder's options (encode/profile.go) and the *)
(* tail of a preset every backend understands.                             *)
(*                                                                         *)
(* caps is a detection result of EncoderChoice with three more fields:     *)
(* decoders (the available ones), decode (the matrix of preferred ones)    *)
(* and filters (the scalers compiled in).  A decode request is             *)
(* [codec, decoder, accel, software, depth]; depth 0 is an unknown one.    *)
(* A frame is [loc, fmt]: system memory or a device's, in nv12 or p010.    *)
(***************************************************************************)
EXTENDS EncoderChoice

Scalers == {"scale_vaapi", "scale_cuda", "scale_vulkan", "scale_vt"}

PopulateDecoders(host, works, skipHW) ==
  {d \in works : IsHardware(d) => ~skipHW /\ PlatformGate(d[2], host)}

WithDecoders(caps, works, filters, skipHW) ==
  LET available == PopulateDecoders(caps.host, works, skipHW)
  IN  [error |-> FALSE, host |-> caps.host, encoders |-> caps.encoders, matrix |-> caps.matrix,
       chain |-> caps.chain, allow |-> caps.allow, order |-> caps.order,
       decoders |-> available, filters |-> filters,
       decode |-> [c \in Codecs |-> ResolvePreferredDecode(available, c, caps.order)]]

-----------------------------------------------------------------------------
(* The decoder.  [decoder |-> None, accel |-> "none"] decodes in software   *)
(* without a word; accel "error" is a refusal.                             *)

NoDecoder == [decoder |-> None, accel |-> "none"]
Undecodable == [decoder |-> None, accel |-> "error"]

ValidateDecodeOverrides(request) ==
  request.decoder # None =>
    ~request.software /\ request.accel \in {"", DecoderAccel(request.decoder)}

AvailableDecoder(caps, name, accel) ==
  IF name \in caps.decoders THEN [decoder |-> name, accel |-> accel] ELSE Undecodable

ResolveDecoder(caps, request) ==
  CASE request.software -> NoDecoder
    [] ~request.software /\ ~ValidateDecodeOverrides(request) -> Undecodable
    [] ~request.software /\ ValidateDecodeOverrides(request) ->
         IF request.decoder # None THEN
           IF DecoderMatchesCodec(request.decoder, request.codec)
             THEN AvailableDecoder(caps, request.decoder, DecoderAccel(request.decoder))
             ELSE Undecodable
         ELSE IF request.accel = "" THEN
           IF caps.decode[request.codec].decoder = None
             THEN Undecodable ELSE caps.decode[request.codec]
         ELSE IF request.accel = "none" THEN
           AvailableDecoder(caps, SoftwareDecoder(request.codec), "none")
         ELSE AvailableDecoder(caps, DecoderFor(request.codec, request.accel), request.accel)

(* What the decoder's options do: the device they open under a name, and   *)
(* where its frames are.  cuvid keeps them on the card only when           *)
(* scale_cuda can take them there; qsv hands out system frames.            *)
DecodeAccel(caps, request) ==
  LET sel == ResolveDecoder(caps, request)
  IN  IF sel.accel = "error" THEN "none" ELSE sel.accel

VideoDecoderArgs(caps, request) ==
  LET kind == KindOf(DecodeAccel(caps, request))
  IN  CASE kind = "nvenc" -> [device |-> "", loc |-> IF "scale_cuda" \in caps.filters THEN "nvenc" ELSE "system"]
        [] kind = "qsv"   -> [device |-> "qsv", loc |-> "system"]
        [] kind \in {"vaapi", "vulkan", "videotoolbox"} -> [device |-> kind, loc |-> kind]
        [] OTHER          -> [device |-> "", loc |-> "system"]

DecodeEmitsHardwareFrames(caps, request) ==
  LET kind == KindOf(DecodeAccel(caps, request))
  IN  kind \in {"vaapi", "vulkan", "videotoolbox"} \/ (kind = "nvenc" /\ "scale_cuda" \in caps.filters)

-----------------------------------------------------------------------------
(* The filters.  A graph is [init: devices opened before the input or the  *)
(* graph, hw: the device of -filter_hw_device, filters].                   *)

Graph(filters) == [init |-> {}, hw |-> "", filters |-> filters]
DeviceGraph(device, opened, filters) ==
  [init |-> IF opened THEN {} ELSE {device}, hw |-> device, filters |-> filters]

ScaleTo(name, maxHeight) == IF maxHeight > 0 THEN <<name>> ELSE <<>>

HwDownloadFormat(request) == IF request.depth > 8 THEN "format=p010" ELSE "format=nv12"

SoftwareVideoFilters(caps, request, maxHeight) ==
  Graph((IF DecodeEmitsHardwareFrames(caps, request)
           THEN <<"hwdownload", HwDownloadFormat(request)>> ELSE <<>>)
        \o ScaleTo("scale", maxHeight) \o <<"format=yuv420p">>)

NvencVideoFilters(caps, request, maxHeight) ==
  IF DecodeAccel(caps, request) # "nvenc" \/ "scale_cuda" \notin caps.filters
    THEN SoftwareVideoFilters(caps, request, maxHeight)
    ELSE Graph(<<"scale_cuda=nv12", "hwdownload", "format=nv12">>)

(* Mutant: frames another device decoded are not fetched.                   *)
QsvVideoFilters_NoFetch(caps, request, maxHeight) ==
  Graph(ScaleTo("scale", maxHeight) \o <<"format=nv12">>)

QsvVideoFilters(caps, request, maxHeight) ==
  Graph((IF DecodeEmitsHardwareFrames(caps, request)
           THEN <<"hwdownload", HwDownloadFormat(request)>> ELSE <<>>)
        \o ScaleTo("scale", maxHeight) \o <<"format=nv12">>)

VaapiVideoFilters(caps, request, maxHeight) ==
  LET own == KindOf(DecodeAccel(caps, request)) = "vaapi"
  IN  DeviceGraph("vaapi", own,
        IF own /\ "scale_vaapi" \in caps.filters THEN <<"scale_vaapi=nv12">>
        ELSE (IF own THEN <<"hwdownload", HwDownloadFormat(request)>> ELSE <<>>)
             \o ScaleTo("scale", maxHeight) \o <<"format=nv12", "hwupload">>)

VulkanVideoFilters(caps, request, maxHeight) ==
  LET accel == DecodeAccel(caps, request)
      own   == accel = "vulkan"
      fetch == IF accel \notin {"none", "vulkan"} THEN <<"hwdownload">> ELSE <<>>
      scale == "scale_vulkan" \in caps.filters
  IN  DeviceGraph("vulkan", own,
        CASE maxHeight > 0 /\ own /\ scale   -> <<"scale_vulkan">>
          [] maxHeight > 0 /\ own /\ ~scale  -> <<"hwdownload", "scale", "format=nv12", "hwupload">>
          [] maxHeight > 0 /\ ~own /\ scale  -> fetch \o <<"format=nv12", "hwupload", "scale_vulkan">>
          [] OTHER -> fetch \o ScaleTo("scale", maxHeight) \o <<"format=nv12", "hwupload">>)

(* The device is opened before the input (VideoToolboxPreInputInit), not   *)
(* here.                                                                   *)
VideotoolboxVideoFilters(caps, request, maxHeight) ==
  LET own   == DecodeAccel(caps, request) = "videotoolbox"
      scale == "scale_vt" \in caps.filters
      parts == CASE own /\ scale   -> ScaleTo("scale_vt", maxHeight)
                 [] own /\ ~scale  -> IF maxHeight > 0
                                        THEN <<"hwdownload", "scale", "format=nv12", "hwupload">> ELSE <<>>
                 [] ~own /\ scale  -> <<"format=nv12", "hwupload">> \o ScaleTo("scale_vt", maxHeight)
                 [] OTHER -> ScaleTo("scale", maxHeight) \o <<"format=nv12", "hwupload">>
  IN  IF parts = <<>> THEN Graph(<<>>) ELSE DeviceGraph("videotoolbox", TRUE, parts)

VideoFilterArgs(caps, profile, request, maxHeight) ==
  LET kind == IF profile.software THEN "none" ELSE KindOf(ResolveEncoder(caps, profile).accel)
  IN  CASE kind = "vaapi"        -> VaapiVideoFilters(caps, request, maxHeight)
        [] kind = "nvenc"        -> NvencVideoFilters(caps, request, maxHeight)
        [] kind = "qsv"          -> QsvVideoFilters(caps, request, maxHeight)
        [] kind = "vulkan"       -> VulkanVideoFilters(caps, request, maxHeight)
        [] kind = "videotoolbox" -> VideotoolboxVideoFilters(caps, request, maxHeight)
        [] OTHER                 -> SoftwareVideoFilters(caps, request, maxHeight)

VideoToolboxPreInputInit(caps, profile, request) ==
  IF /\ ~profile.software
     /\ ResolveEncoder(caps, profile).accel = "videotoolbox"
     /\ DecodeAccel(caps, request) # "videotoolbox"
    THEN {"videotoolbox"} ELSE {}

(* The chain that makes the cells of a sprite sheet.                        *)
SpriteScalePad == <<"scale", "pad">>

SpriteSheetFilter(caps, request) ==
  LET accel   == DecodeAccel(caps, request)
      kind    == KindOf(accel)
      fetched == <<"hwdownload", "format=nv12">>
      scaler  == CASE kind = "vaapi" -> "scale_vaapi" [] kind = "nvenc" -> "scale_cuda"
                   [] kind = "videotoolbox" -> "scale_vt" [] OTHER -> "none"
      cell    == CASE scaler \in caps.filters ->
                        <<IF scaler = "scale_vt" THEN scaler ELSE scaler \o "=nv12">> \o fetched \o <<"pad">>
                   [] scaler \notin caps.filters /\ kind \in {"vaapi", "vulkan", "videotoolbox", "qsv"} ->
                        fetched \o SpriteScalePad
                   [] OTHER -> SpriteScalePad
  IN  Graph(<<"select">> \o cell \o <<"tile">>)

-----------------------------------------------------------------------------
(* What ffmpeg does with a frame: a software filter takes system frames, a  *)
(* device's scaler its own, hwdownload the frames of a device and, when a   *)
(* format follows it, only in the surface's own format; hwupload moves to   *)
(* the filter device, which must be open.                                   *)

Stuck == [loc |-> "stuck", fmt |-> "none", fresh |-> FALSE]

InSystem(frame, fmt) ==
  IF frame.loc # "system" THEN Stuck ELSE [loc |-> "system", fmt |-> fmt, fresh |-> FALSE]

OnDevice(frame, device, fmt) ==
  IF frame.loc # device THEN Stuck ELSE [loc |-> device, fmt |-> fmt, fresh |-> FALSE]

Converted(frame, fmt) ==
  IF frame.fresh /\ fmt # frame.fmt THEN Stuck ELSE InSystem(frame, fmt)

Filtered(filter, frame, hw, open) ==
  CASE filter = "hwdownload" ->
         IF frame.loc \in {"system", "stuck"} THEN Stuck
         ELSE [loc |-> "system", fmt |-> frame.fmt, fresh |-> TRUE]
    [] filter = "hwupload" ->
         IF frame.loc # "system" \/ hw \notin open THEN Stuck
         ELSE [loc |-> hw, fmt |-> frame.fmt, fresh |-> FALSE]
    [] filter = "format=nv12" -> Converted(frame, "nv12")
    [] filter = "format=p010" -> Converted(frame, "p010")
    [] filter = "format=yuv420p" -> InSystem(frame, "yuv420p")
    [] filter \in {"scale", "pad", "tile"} -> InSystem(frame, frame.fmt)
    [] filter = "scale_vaapi=nv12" -> OnDevice(frame, "vaapi", "nv12")
    [] filter = "scale_cuda=nv12"  -> OnDevice(frame, "nvenc", "nv12")
    [] filter = "scale_vulkan"     -> OnDevice(frame, "vulkan", frame.fmt)
    [] filter = "scale_vt"         -> OnDevice(frame, "videotoolbox", frame.fmt)
    [] OTHER -> frame

(* A frame after the filters: at[n] is the frame after n of them.           *)
Passed(filters, first, hw, open) ==
  LET at[n \in 0..Len(filters)] ==
        IF n = 0 THEN first ELSE Filtered(filters[n], at[n - 1], hw, open)
  IN  at[Len(filters)]

Through(graph, first, opened) ==
  Passed(graph.filters, first, graph.hw, opened \cup graph.init)

EncoderTakes(kind) ==
  CASE kind = "vaapi"  -> {"vaapi"}
    [] kind = "vulkan" -> {"vulkan"}
    [] kind \in {"nvenc", "videotoolbox"} -> {"system", kind}
    [] OTHER -> {"system"}

DecodedFrame(caps, request, depth) ==
  [loc |-> VideoDecoderArgs(caps, request).loc, fmt |-> IF depth > 8 THEN "p010" ELSE "nv12",
   fresh |-> FALSE]

-----------------------------------------------------------------------------
(* The encoder's options: [encoder, preset, pixels, gop].                   *)

X264Preset(q) == q
X265Preset(q) == IF q \in {"fast", "medium"} THEN q ELSE "ultrafast"
VvencPreset(q) == IF q \in {"fast", "medium"} THEN q ELSE "faster"
Svtav1Preset(q) == CASE q = "ultrafast" -> "12" [] q = "veryfast" -> "10" [] q = "fast" -> "8" [] q = "medium" -> "6"
Vp9Deadline(q) == IF q \in {"ultrafast", "veryfast"} THEN "realtime" ELSE "good"
NvencPreset(q) == CASE q \in {"ultrafast", "veryfast"} -> "p1" [] q = "fast" -> "p3" [] q = "medium" -> "p4"
QsvPreset(q) == CASE q \in {"ultrafast", "veryfast"} -> "7" [] q = "fast" -> "6" [] q = "medium" -> "4"
AmfQualityPreset(q, codec) ==
  CASE q \in {"ultrafast", "veryfast"} -> "speed"
    [] q = "fast" -> IF codec = "av1" THEN "speed" ELSE "balanced"
    [] q = "medium" -> "quality"

(* "" and 0 stand for what the caller left open.                           *)
ProfileEncodeOpts(profile) ==
  [quality |-> IF profile.quality # "" THEN profile.quality
               ELSE IF profile.codec = "av1" THEN "medium" ELSE "veryfast",
   gop     |-> IF profile.gop > 0 THEN profile.gop
               ELSE CASE profile.codec = "av1" -> 240 [] profile.codec = "h264" -> 60 [] OTHER -> 0]

HardwarePreset(kind, codec, q) ==
  CASE kind = "nvenc" -> NvencPreset(q)
    [] kind = "qsv" -> QsvPreset(q)
    [] kind = "amf" -> AmfQualityPreset(q, codec)
    [] OTHER -> ""

(* hevc has no amf branch; av1 in software is always libsvtav1.            *)
VideoEncoderArgs(caps, profile) ==
  LET sel   == ResolveEncoder(caps, profile)
      kind  == KindOf(sel.accel)
      opts  == ProfileEncodeOpts(profile)
      named == IF kind # "none" \/ profile.codec \in {"h264", "hevc"} THEN sel.encoder
               ELSE Head(SoftwareFallback(profile.codec))
      preset == IF kind # "none" /\ ~(profile.codec = "hevc" /\ kind \in {"amf", "v4l2m2m"})
                  THEN HardwarePreset(kind, profile.codec, opts.quality)
                ELSE CASE profile.codec = "h264" -> X264Preset(opts.quality)
                       [] profile.codec = "av1"  -> Svtav1Preset(opts.quality)
                       [] profile.codec = "vp9"  -> Vp9Deadline(opts.quality)
                       [] profile.codec = "hevc" ->
                            IF sel.encoder = <<"hevc", "libvvenc">> THEN VvencPreset(opts.quality)
                            ELSE X265Preset(opts.quality)
  IN  [encoder |-> named, preset |-> preset, gop |-> opts.gop,
       pixels |-> IF kind = "qsv" THEN "nv12" ELSE IF kind = "videotoolbox" THEN "" ELSE "yuv420p",
       tag |-> IF profile.codec = "hevc" THEN "hvc1" ELSE ""]

(* The presets an encoder knows.                                            *)
EncoderPresets(name) ==
  CASE name[2] = "nvenc" -> {"p1", "p2", "p3", "p4", "p5", "p6", "p7"}
    [] name[2] = "qsv" -> {"1", "2", "3", "4", "5", "6", "7"}
    [] name[2] = "amf" -> {"speed", "balanced", "quality"}
    [] name[2] \in {"libx264", "libx265"} -> {"ultrafast", "superfast", "veryfast", "faster", "fast", "medium", "slow"}
    [] name[2] = "libvvenc" -> {"faster", "fast", "medium", "slow", "slower"}
    [] name[2] = "libsvtav1" -> {"6", "8", "10", "12"}
    [] name[2] = "libvpx-vp9" -> {"best", "good", "realtime"}
    [] OTHER -> {""}

(* The defaults a service may apply to a request that names nothing.       *)
ApplyEncodeDefaults(profile, preferred) ==
  IF profile.software \/ profile.encoder # None \/ profile.accel # "" \/ preferred = "" THEN profile
  ELSE IF preferred = "none" THEN [profile EXCEPT !.software = TRUE]
  ELSE [profile EXCEPT !.accel = preferred]

ApplyDecodeDefaults(request, preferred) ==
  IF request.software \/ request.accel # "" \/ preferred = "" THEN request
  ELSE IF preferred = "none" THEN [request EXCEPT !.software = TRUE]
  ELSE [request EXCEPT !.accel = preferred]

-----------------------------------------------------------------------------
(* Properties.                                                             *)

(* The backends that take frames from any decoder: their graphs fetch what *)
(* another device decoded.  The others take their own decoder's only.      *)
FetchingBackends == {"none", "nvenc", "qsv", "amf", "v4l2m2m"}

Pairs(encoder, decoder) == encoder \in FetchingBackends \/ decoder \in {"none", encoder}

(* When the depth of the source is known or 8 bits, the frames of a        *)
(* segment encode pass every filter and arrive where the encoder takes     *)
(* them, whichever scalers are compiled in (video_filter.go with the       *)
(* devices of decode.go and videotoolbox_device.go): no device frame meets *)
(* a software filter, nothing is fetched twice and every upload has its    *)
(* device.  Left out: a vulkan decode encoded by vulkan at its own height. *)
FrameReachesEncoder(caps, profile, request, maxHeight, depth) ==
  LET kind  == KindOf(ResolveEncoder(caps, profile).accel)
      from  == KindOf(DecodeAccel(caps, request))
      frame == Through(VideoFilterArgs(caps, profile, request, maxHeight),
                       DecodedFrame(caps, request, depth),
                       {VideoDecoderArgs(caps, request).device}
                         \cup VideoToolboxPreInputInit(caps, profile, request))
  IN  /\ ResolveEncoder(caps, profile) # Unavailable
      /\ ResolveDecoder(caps, request) # Undecodable
      /\ depth <= 8 \/ request.depth = depth
      /\ Pairs(kind, from)
      /\ ~(kind = "vulkan" /\ from = "vulkan" /\ maxHeight = 0)
      => frame.loc \in EncoderTakes(kind)

(* The encoder named in the options is the one resolved, and its preset is *)
(* one it knows; hevc on amf or v4l2m2m and av1 in software, which the     *)
(* code does not tell apart, are left out.                                 *)
OptionsFitEncoder(caps, profile) ==
  LET sel  == ResolveEncoder(caps, profile)
      args == VideoEncoderArgs(caps, profile)
  IN  /\ sel # Unavailable
      /\ ~(profile.codec = "hevc" /\ KindOf(sel.accel) \in {"amf", "v4l2m2m"})
      /\ profile.codec = "av1" => IsHardware(sel.encoder)
      => args.encoder = sel.encoder /\ args.preset \in EncoderPresets(sel.encoder)

(* The defaults of a service change no answer a request asked for, and make *)
(* no valid request contradict itself (encode/profile_defaults.go).         *)
EncodeDefaultsYield(caps, profile, preferred) ==
  LET filled == ApplyEncodeDefaults(profile, preferred)
  IN  /\ ValidateProfileOverrides(profile) => ValidateProfileOverrides(filled)
      /\ profile.encoder # None \/ profile.software \/ profile.accel # "" =>
           ResolveEncoder(caps, filled) = ResolveEncoder(caps, profile)

DecodeDefaultsYield(caps, request, preferred) ==
  request.decoder # None \/ request.software \/ request.accel # "" =>
    ResolveDecoder(caps, ApplyDecodeDefaults(request, preferred)) = ResolveDecoder(caps, request)

(* video_filter.go:54: QSV decode keeps frames in system memory.  So the   *)
(* cells of a sprite sheet reach the tile filter from every 8-bit decoder. *)
CellsReachTile(caps, request) ==
  ResolveDecoder(caps, request) # Undecodable =>
    Through(SpriteSheetFilter(caps, request), DecodedFrame(caps, request, 8),
            {VideoDecoderArgs(caps, request).device}).loc = "system"
=============================================================================
