----------------------------- MODULE MediaJobs -----------------------------
(***************************************************************************)
(* The jobs on whole files: segmented recording (ops/segment_record.go),   *)
(* joining files (ops/concat_media.go), sprite sheets (ops/sprite_sheet.go)*)
(* and single frames (ops/capture_frame.go, ops/capture.go), from what the *)
(* caller asks and the probe finds to what ffmpeg is told.                 *)
(*                                                                         *)
(* A codec or rate the probe does not report is "", a bit depth 0.         *)
(***************************************************************************)
EXTENDS Integers, Sequences, FiniteSets, FiniteSetsExt

Or(value, default) == IF value = "" THEN default ELSE value

-----------------------------------------------------------------------------
(* What a probe is taken to say; a failed one says nothing.                 *)

NoFacts == [probed |-> FALSE, hasVideo |-> FALSE, hasAudio |-> FALSE, video |-> "",
            audio |-> "", size |-> 0, depth |-> 0, rate |-> "", base |-> ""]

BitDepthFromPixFmt(format) ==
  CASE format \in {"p010", "yuv420p10le"} -> 10
    [] format \in {"p012", "yuv420p12le"} -> 12
    [] format \in {"yuv420p", "nv12", "nv21", "rgb24", "bgr0", "gray"} -> 8
    [] OTHER -> 0

SourceFactsFromProbe(info) ==
  IF ~info.valid THEN NoFacts
  ELSE [probed |-> TRUE, hasVideo |-> info.hasVideo, hasAudio |-> info.hasAudio,
        video |-> info.video, audio |-> info.audio, size |-> info.size,
        depth |-> BitDepthFromPixFmt(info.format), rate |-> info.rate, base |-> info.base]

Mp4VideoCopyable == {"h264", "hevc", "av1"}
Mp4AudioCopyable == {"aac", "mp3", "ac3", "eac3"}

-----------------------------------------------------------------------------
(* Recording.  opts is [mode, codec, audio, seconds, aligned, hwDecode],    *)
(* seconds the whole seconds of the segment duration (an hour if none).     *)

RecordModeOf(opts) == IF opts.codec = "copy" THEN "copy" ELSE opts.mode

(* Without any of the intent fields the profile alone decides.              *)
UsesIntent(opts) ==
  opts.mode # "transcode" \/ opts.audio # "" \/ opts.aligned \/ opts.hwDecode

AutoTarget(codec, facts) ==
  Or(codec, IF facts.video \in Mp4VideoCopyable THEN facts.video ELSE "h264")

DecideVideo(mode, codec, facts) ==
  CASE mode = "copy" ->
         [action |-> "copy",
          codec |-> IF facts.probed /\ facts.video # "" THEN facts.video ELSE codec]
    [] mode = "transcode" \/ ~facts.probed ->
         [action |-> "transcode", codec |-> Or(codec, "h264")]
    [] OTHER ->
         LET target == AutoTarget(codec, facts)
         IN  [action |-> IF facts.video = target /\ target \in Mp4VideoCopyable
                           THEN "copy" ELSE "transcode",
              codec |-> target]

(* Mutant: audio nobody could probe is taken to be copyable.                *)
DecideAudio_Unprobed(mode, wanted, facts) ==
  CASE facts.probed /\ ~facts.hasAudio -> "none"
    [] wanted # "" -> wanted
    [] mode \in {"copy", "auto"} -> "copy"
    [] OTHER -> "aac"

DecideAudio(mode, wanted, facts) ==
  CASE facts.probed /\ ~facts.hasAudio -> "none"
    [] wanted # "" -> wanted
    [] mode = "copy" -> "copy"
    [] mode = "auto" /\ facts.probed /\ facts.audio \in Mp4AudioCopyable -> "copy"
    [] OTHER -> "aac"

DecideSegmentPlan(opts, facts) ==
  LET mode  == RecordModeOf(opts)
      video == DecideVideo(mode, opts.codec, facts)
  IN  [mode |-> mode, video |-> video.action, codec |-> video.codec,
       audio |-> DecideAudio(mode, opts.audio, facts),
       source |-> facts.video, depth |-> facts.depth,
       seconds |-> opts.seconds, aligned |-> opts.aligned,
       hwDecode |-> /\ video.action = "transcode" /\ opts.hwDecode
                    /\ facts.probed /\ facts.video # "" /\ facts.depth > 0]

SecondsPerDay == 86400

ValidateSegmentOptions(opts) ==
  /\ opts.seconds > 0
  /\ opts.aligned => SecondsPerDay % opts.seconds = 0
  /\ opts.audio \in {"", "aac", "copy"}

(* The probe is made only when something depends on it; a source without    *)
(* video is refused when it is known to be one.                             *)
PlanSegmentRecord(opts, info) ==
  LET probes == (opts.mode = "auto" \/ opts.hwDecode) /\ opts.codec # "copy"
      facts  == IF probes THEN SourceFactsFromProbe(info) ELSE NoFacts
  IN  IF ~ValidateSegmentOptions(opts) \/ (facts.probed /\ ~facts.hasVideo)
        THEN [refused |-> TRUE, plan |-> DecideSegmentPlan(opts, NoFacts)]
        ELSE [refused |-> FALSE, plan |-> DecideSegmentPlan(opts, facts)]

(* decodes and filters: whether a hardware decoder and the filter chain     *)
(* that goes with it can be built; they are used together or not at all.    *)
BuildSegmentRecordArgs(plan, decodes, filters) ==
  LET hw == plan.hwDecode /\ decodes /\ filters
  IN  [hwDecoder |-> hw, hwFilter |-> hw /\ plan.video # "copy",
       video |-> IF plan.video = "copy" THEN "copy" ELSE plan.codec,
       audio |-> plan.audio, maps |-> IF plan.audio = "none" THEN {"v"} ELSE {"v", "a"},
       seconds |-> plan.seconds, atClock |-> plan.aligned]

(* Without an intent the options are not validated, nothing is probed and   *)
(* ffmpeg picks the streams.                                                *)
SegmentRecord(opts, info, decodes, filters) ==
  LET planned == PlanSegmentRecord(opts, info)
  IN  IF UsesIntent(opts)
        THEN [refused |-> planned.refused,
              args |-> BuildSegmentRecordArgs(planned.plan, decodes, filters)]
        ELSE [refused |-> FALSE,
              args |-> [hwDecoder |-> FALSE, hwFilter |-> FALSE, video |-> Or(opts.codec, "h264"),
                        audio |-> "aac", maps |-> {"v", "a"}, seconds |-> opts.seconds,
                        atClock |-> FALSE]]

-----------------------------------------------------------------------------
(* Joining.  opts is [width, height, fps, codec].                           *)

ValidateConcatOptions(opts) ==
  /\ opts.width >= 0 /\ opts.height >= 0 /\ opts.fps >= 0
  /\ opts.width > 0 <=> opts.height > 0

CompleteFacts(facts) ==
  /\ facts.hasVideo => "" \notin {facts.video, facts.rate, facts.base}
  /\ facts.hasAudio => facts.audio # ""

DecideConcatPlan(opts, inputs) ==
  IF /\ opts.fps = 0 /\ ~(opts.width > 0 /\ opts.height > 0)
     /\ inputs # <<>>
     /\ \A i \in DOMAIN inputs :
          inputs[i].probed /\ CompleteFacts(inputs[i]) /\ inputs[i] = inputs[1]
    THEN "copy" ELSE "transcode"

BuildConcatMediaArgs(opts, action) ==
  [video |-> IF action = "copy" THEN "copy" ELSE Or(opts.codec, "h264"),
   audio |-> IF action = "copy" THEN "copy" ELSE "aac",
   scale |-> IF action = "copy" THEN 0 ELSE opts.width,
   rate  |-> IF action = "copy" THEN 0 ELSE opts.fps]

ConcatMedia(opts, probes) ==
  LET facts == [i \in DOMAIN probes |-> SourceFactsFromProbe(probes[i])]
  IN  IF probes = <<>> \/ ~ValidateConcatOptions(opts)
        THEN [refused |-> TRUE, args |-> BuildConcatMediaArgs(opts, "transcode")]
        ELSE [refused |-> FALSE,
              args |-> BuildConcatMediaArgs(opts, DecideConcatPlan(opts, facts))]

-----------------------------------------------------------------------------
(* Sprite sheets.  opts is [columns, rows, count, interval, start, end,     *)
(* duration]; an interval is <<numerator, denominator>>, and times on the   *)
(* sheet count in 1/denominator.                                            *)

Divided(a, b) == (a + b - 1) \div b

SpriteGrid(opts) ==
  LET wanted  == IF opts.count > 0 THEN opts.count
                 ELSE IF opts.columns * opts.rows > 0 THEN opts.columns * opts.rows ELSE 100
      columns == IF opts.columns > 0 THEN opts.columns
                 ELSE IF opts.rows > 0 THEN Divided(wanted, opts.rows)
                 ELSE CHOOSE c \in 1..wanted : c * c >= wanted /\ (c - 1) * (c - 1) < wanted
      rows    == IF opts.rows > 0 THEN opts.rows ELSE Divided(wanted, columns)
  IN  [columns |-> columns, rows |-> rows, count |-> Min({wanted, columns * rows})]

SpriteEnd(opts) ==
  LET end == IF opts.end <= 0 \/ opts.end > opts.duration THEN opts.duration ELSE opts.end
  IN  Max({opts.start, end})

SpriteInterval(opts, count) ==
  LET span == SpriteEnd(opts) - opts.start
  IN  CASE opts.interval > 0 -> <<opts.interval, 1>>
        [] opts.interval <= 0 /\ count > 1 /\ span > 0 -> <<span, count - 1>>
        [] OTHER -> <<1, 1>>

(* bound is -t after the seek, in twentieths: the time of the last sample,  *)
(* but at least 0.1 s, and half an interval; a unit is a second.  WebVTT    *)
(* cues name their cell by column and row; keyframes alone are decoded for  *)
(* wide intervals, never for a sheet with cues.                             *)
SpriteSheet(opts, webvtt, wide) ==
  LET grid     == SpriteGrid(opts)
      interval == SpriteInterval(opts, grid.count)
      Time(i)  == opts.start * interval[2] + i * interval[1]
      tenths   == 10 * interval[1] * (grid.count - 1)
      span     == IF tenths < interval[2] THEN interval[2] ELSE tenths
  IN  [grid |-> grid, interval |-> interval,
       keyframesOnly |-> interval[1] >= wide * interval[2] /\ ~webvtt,
       bound |-> 2 * span + 10 * interval[1],
       cues |-> [i \in 0..grid.count - 1 |->
                   [start |-> Time(i), end |-> Time(i + 1),
                    column |-> i % grid.columns, row |-> i \div grid.columns]]]

-----------------------------------------------------------------------------
(* Single frames.  at is [kind, value]; a seek is in hundredths of the      *)
(* unit of durations, one hundredth standing for the 0.05 s from the end.   *)

FrameNeedsDurationProbe(at, duration) == at.kind = "percent" /\ duration <= 0

ResolveFrameSeekSec(at, duration) ==
  CASE at.kind = "seconds" ->
         IF duration > 0 /\ at.value > duration THEN 100 * duration - 1 ELSE 100 * at.value
    [] at.kind = "percent" ->
         IF duration <= 0 THEN 0 ELSE duration * Min({at.value, 100})
    [] OTHER -> 0

(* encoders: those of the detected build, {} when it was not detected.      *)
ResolveFrameEncoder(format, encoders) ==
  LET wanted == CASE format = "webp" -> <<"libwebp", "webp">>
                  [] format = "png"  -> <<"png">>
                  [] OTHER           -> <<"mjpeg">>
      usable == {i \in DOMAIN wanted : encoders = {} \/ wanted[i] \in encoders}
  IN  IF usable = {} THEN "" ELSE wanted[Min(usable)]

ValidateFrameOptions(opts, encoders) ==
  /\ opts.at.value >= 0
  /\ opts.width >= 0 /\ opts.height >= 0 /\ (opts.width > 0 <=> opts.height > 0)
  /\ ResolveFrameEncoder(opts.format, encoders) # ""

FrameCaptureArgs(opts, encoders) ==
  LET seek == ResolveFrameSeekSec(opts.at, opts.duration)
  IN  [seek |-> seek, accurate |-> opts.exact, keyframesOnly |-> ~opts.exact,
       lightProbe |-> opts.duration > 0 \/ seek > 0 \/ opts.at.kind # "first",
       scaled |-> opts.width > 0 /\ opts.height > 0,
       encoder |-> ResolveFrameEncoder(opts.format, encoders)]

-----------------------------------------------------------------------------
(* A recording copies video only when the caller forces it or the source is *)
(* known to be what is wanted and fits MP4; what cannot be known is encoded.*)
(* Hardware decoding is chosen only with the facts it needs and set up      *)
(* whole.                                                                   *)
RecordingJustified(opts, info, decodes, filters) ==
  LET record == SegmentRecord(opts, info, decodes, filters)
      args   == record.args
  IN  ~record.refused =>
        /\ args.video = "copy" =>
             \/ "copy" \in {opts.mode, opts.codec}
             \/ info.valid /\ info.video \in Mp4VideoCopyable /\ opts.codec \in {"", info.video}
        /\ args.audio = "copy" /\ opts.audio # "copy" /\ RecordModeOf(opts) # "copy" =>
             info.valid /\ info.audio \in Mp4AudioCopyable
        /\ args.hwDecoder => args.hwFilter /\ info.valid /\ BitDepthFromPixFmt(info.format) > 0
        /\ args.atClock => SecondsPerDay % args.seconds = 0

(* Files are joined without re-encoding only when they are interchangeable  *)
(* and nothing about them is to change.                                     *)
JoinJustified(opts, probes) ==
  LET joined == ConcatMedia(opts, probes)
  IN  ~joined.refused /\ joined.args.video = "copy" /\ opts.codec # "copy" =>
        /\ opts.fps = 0 /\ opts.width = 0
        /\ \A i \in DOMAIN probes :
             /\ probes[i].valid
             /\ \A j \in DOMAIN probes :
                  /\ probes[i].video = probes[j].video /\ probes[i].size = probes[j].size
                  /\ probes[i].hasAudio = probes[j].hasAudio
                  /\ probes[i].rate = probes[j].rate

(* Every sample of a sheet has a cell of its own inside the grid, its cue   *)
(* names the cell, the cues follow one another, and ffmpeg reads up to the  *)
(* last sample and not to the next one.                                     *)
SheetHoldsSamples(opts, webvtt, wide) ==
  LET sheet == SpriteSheet(opts, webvtt, wide)
      cells == {<<sheet.cues[i].column, sheet.cues[i].row>> : i \in DOMAIN sheet.cues}
      last  == sheet.grid.count - 1
  IN  /\ Cardinality(cells) = sheet.grid.count
      /\ cells \subseteq (0..sheet.grid.columns - 1) \X (0..sheet.grid.rows - 1)
      /\ \A i \in 1..last : sheet.cues[i].start = sheet.cues[i - 1].end
      /\ LET Twentieths(t) == 20 * (t - opts.start * sheet.interval[2])
         IN  /\ Twentieths(sheet.cues[last].start) < sheet.bound
             /\ sheet.bound < Twentieths(sheet.cues[last].end)
      /\ webvtt => ~sheet.keyframesOnly

(* Without an interval of its own a sheet samples between start and end.    *)
SamplesSpanWindow(opts) ==
  LET sheet == SpriteSheet(opts, TRUE, 2)
      last  == sheet.cues[sheet.grid.count - 1].start
  IN  opts.interval = 0 /\ sheet.grid.count > 1 /\ SpriteEnd(opts) > opts.start =>
        last = SpriteEnd(opts) * sheet.interval[2]

(* EndSec "limits sampling".                                                *)
EndLimitsSampling(opts) ==
  LET sheet == SpriteSheet(opts, TRUE, 2)
  IN  \A i \in DOMAIN sheet.cues :
        i > 0 => sheet.cues[i].start <= SpriteEnd(opts) * sheet.interval[2]

(* A frame inside the media is asked for with an encoder the build has, and *)
(* a percentage is the first frame only when the duration must be probed.   *)
FrameReachable(opts, encoders) ==
  ValidateFrameOptions(opts, encoders) =>
    LET args == FrameCaptureArgs(opts, encoders)
    IN  /\ opts.duration > 0 => 0 <= args.seek /\ args.seek <= 100 * opts.duration
        /\ encoders # {} => args.encoder \in encoders
        /\ opts.at.kind = "percent" /\ opts.at.value > 0 /\ args.seek = 0 =>
             FrameNeedsDurationProbe(opts.at, opts.duration)
=============================================================================
