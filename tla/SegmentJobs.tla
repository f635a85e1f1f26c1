---------------------------- MODULE SegmentJobs ----------------------------
(***************************************************************************)
(* Which work a segment of a file needs and how ffmpeg is told to do it:   *)
(* the choice between remux, video copy and transcode                      *)
(* (ops/hls_pipeline.go, ops/hls_params.go), the one-shot segment          *)
(* (ops/hls_build.go, ops/hls_segment.go), the forward VOD job             *)
(* (ops/hls_vod_job.go), the continuous job (ops/hls_continuous.go) and    *)
(* the key a segment is cached under (ops/hls_cache.go).                   *)
(*                                                                         *)
(* An argument list is the record of what its options say; the options     *)
(* that are the same in every list are left out.  Times as in              *)
(* MediaTimeline; a record without a bound, seek or offset has 0 there.    *)
(***************************************************************************)
EXTENDS MediaTimeline

H264Names == {"", "h264", "avc", "avc1"}     \* isH264VideoCodec
DefaultFPS == 30
DefaultGOP == 120

-----------------------------------------------------------------------------
(* The pipeline.  info is [hasVideo, video, audio, height, startTime].      *)

NeedsFullVideoTranscode(info, opts) ==
  \/ opts.force
  \/ opts.maxHeight > 0 /\ info.height > opts.maxHeight
  \/ info.video \notin H264Names

CanFMP4StreamCopy(info) ==
  info.hasVideo /\ info.video \in H264Names /\ info.audio \in {"", "aac"}

CanH264VideoCopy(info) ==
  info.hasVideo /\ info.video \in H264Names /\ info.audio \notin {"", "aac"}

UseVideoCopy(info, opts) ==
  /\ ~CanFMP4StreamCopy(info) /\ CanH264VideoCopy(info)
  /\ ~NeedsFullVideoTranscode(info, opts)

BuildHLSSegmentBuildInput(info, opts) ==
  [remux     |-> CanFMP4StreamCopy(info) /\ ~NeedsFullVideoTranscode(info, opts),
   videoCopy |-> UseVideoCopy(info, opts)]

HLSSegmentGOP(fps, segmentSec) ==
  LET gop == (fps * OrDefault(segmentSec)) \div UnitsPerSecond
  IN  IF fps <= 0 \/ gop < 1 THEN DefaultGOP ELSE gop

IsKnownHLSInputVideoCodec(codec) ==
  codec \in {"h264", "avc", "avc1", "hevc", "h265", "vp9", "av1"}

HLSDecodeProfileForOnDemand(info) ==
  [software |-> ~IsKnownHLSInputVideoCodec(info.video),
   codec    |-> IF IsKnownHLSInputVideoCodec(info.video) THEN info.video ELSE ""]

(* Kilobits per second: target, least, most and buffer.                     *)
DefaultHLSVideoProfile(maxHeight) ==
  LET target == IF maxHeight >= 1080 THEN 5000 ELSE IF maxHeight >= 720 THEN 3500
                ELSE IF maxHeight >= 480 THEN 2000 ELSE 1500
  IN  [codec |-> "h264", height |-> maxHeight, target |-> target,
       least |-> target \div 2, most |-> (target * 3) \div 2, buffer |-> target * 2]

(* fps 0 stands for a probe that was not asked for, -1 for one that failed. *)
BuildHLSSegmentParams(info, opts, fps) ==
  LET path   == BuildHLSSegmentBuildInput(info, opts)
      copies == path.remux \/ path.videoCopy
      gop    == IF copies \/ fps = 0 THEN DefaultGOP
                ELSE HLSSegmentGOP(IF fps < 0 THEN DefaultFPS ELSE fps, opts.segmentSec)
  IN  [remux |-> path.remux, videoCopy |-> path.videoCopy, maxHeight |-> opts.maxHeight,
       gop |-> gop, video |-> info.video, startTime |-> info.startTime, omitAudio |-> FALSE,
       decode  |-> IF copies THEN [software |-> FALSE, codec |-> ""]
                   ELSE HLSDecodeProfileForOnDemand(info),
       profile |-> IF copies THEN [codec |-> ""] ELSE DefaultHLSVideoProfile(opts.maxHeight)]

Copies(job) == job.remux \/ job.videoCopy

-----------------------------------------------------------------------------
(* What is the same for every kind of job: the streams and their codecs.    *)

Fmp4CopyVideoTag(codec) ==
  IF codec \in {"hevc", "h265", "hev1", "hvc1"} THEN "hvc1" ELSE ""

JobCodecs(job, fromStart) ==
  [video |-> IF Copies(job) THEN "copy" ELSE "encode",
   audio |-> IF job.omitAudio THEN "none" ELSE IF job.remux THEN "copy" ELSE "aac",
   tag   |-> IF Copies(job) THEN Fmp4CopyVideoTag(job.video) ELSE "",
   gop   |-> IF Copies(job) THEN 0 ELSE IF job.gop <= 0 THEN DefaultGOP ELSE job.gop,
   audioFromZero |-> ~job.omitAudio /\ ~job.remux /\ fromStart]

(* "%.0f" of a time in seconds, in units: half to even.                     *)
WholeSeconds(time) ==
  LET floor == time \div UnitsPerSecond
      rest  == time % UnitsPerSecond
  IN  UnitsPerSecond * (IF rest < 2 \/ (rest = 2 /\ floor % 2 = 0) THEN floor ELSE floor + 1)

-----------------------------------------------------------------------------
(* One segment, made when it is asked for.                                  *)

BuildHLSSegmentOptions(params, index, plan, seekTimes, segmentSec) ==
  LET known  == index < Len(plan)
      start  == IF known THEN plan[index + 1].start ELSE index * OrDefault(segmentSec)
      seek   == IF seekTimes # <<>> /\ Copies(params) THEN KeyframeSeekBefore(seekTimes, start)
                ELSE start
  IN  [job |-> params, timeline |-> start, seek |-> HLSInputSeekSec(seek, params.startTime),
       dur |-> IF known THEN plan[index + 1].dur ELSE OrDefault(segmentSec)]

BuildHLSSegmentFFmpegArgs(opts, mux) ==
  LET dur == OrDefault(opts.dur)
  IN  [seek   |-> NonNegative(opts.seek),
       codecs |-> JobCodecs(opts.job, TRUE),
       forced |-> IF Copies(opts.job) THEN 0 ELSE WholeSeconds(dur),
       bound  |-> dur,
       offset |-> NonNegative(opts.timeline),
       mux    |-> mux]

(* A transport stream is refused on a copy pipeline.                        *)
SegmentMux(job, wanted) ==
  IF wanted = "mpegts" /\ Copies(job) THEN "refused" ELSE wanted

-----------------------------------------------------------------------------
(* The forward VOD job from startIndex, perhaps up to stopIndex.  job is a  *)
(* parameter record with startSec, segmentSec, startIndex, stopIndex, plan  *)
(* (<<>> without a segment list) and seekTimes.                             *)

VodCopyUsesExplicitSegmentCuts(job) == Copies(job) /\ job.plan # <<>>

VodInputSeekMediaSec(job) ==
  NonNegative(IF Copies(job) /\ job.seekTimes # <<>>
                THEN KeyframeSeekBefore(job.seekTimes, job.startSec) ELSE job.startSec)

Padded(job, mediaTime) ==
  LET seek == HLSInputSeekSec(mediaTime, job.startTime)
  IN  seek + (IF job.remux /\ seek > 0 THEN SeekPad ELSE 0)

(* A bound that is not after the seek is dropped: the job has none.         *)
VodJobStopDurationSec(job) ==
  LET bound == IF job.stopIndex < Len(job.plan) THEN job.plan[job.stopIndex + 1].start
               ELSE job.startSec + (job.stopIndex - job.startIndex) * job.segmentSec
      base  == IF Copies(job)
                 THEN Padded(job, VodCopyKeyframeSeekSec(job.startSec, job.seekTimes))
                        - job.startTime
                 ELSE job.startSec
  IN  IF job.stopIndex <= job.startIndex THEN 0 ELSE NonNegative(bound - base)

BuildHLSVODFFmpegArgs(job) ==
  LET segmentSec == OrDefault(job.segmentSec)
      explicit   == VodCopyUsesExplicitSegmentCuts(job)
      origin     == VodCopyKeyframeSeekSec(job.startSec, job.seekTimes)
  IN  [seek    |-> NonNegative(Padded(job, VodInputSeekMediaSec(job))),
       codecs  |-> JobCodecs(job, job.startSec <= 0),
       forced  |-> IF Copies(job) THEN 0 ELSE segmentSec,
       bound   |-> VodJobStopDurationSec(job),
       copyts  |-> explicit,
       offset  |-> IF explicit THEN 0 ELSE NonNegative(job.startSec),
       hlsTime |-> IF explicit THEN 0 ELSE segmentSec,
       cuts    |-> IF explicit THEN VODCopySegmentCutTimesRel(job.plan, origin, job.startIndex)
                   ELSE {},
       number  |-> job.startIndex,
       fragDiscont |-> Copies(job) /\ (explicit \/ job.startIndex > 0 \/ job.startSec > 0)]

-----------------------------------------------------------------------------
(* The continuous job; fileKeyframes are in container time, <<>> when the   *)
(* runner cannot be asked.                                                  *)

SnapContinuousCopyStart(job, fileKeyframes) ==
  IF ~Copies(job) \/ job.startSec <= 0 \/ fileKeyframes = <<>> THEN job.startSec
  ELSE KeyframeSeekBefore(NormalizeHLSKeyframeTimes(fileKeyframes, job.startTime), job.startSec)

BuildHLSContinuousArgs(job, fileKeyframes, fresh) ==
  LET startSec == SnapContinuousCopyStart(job, fileKeyframes)
  IN  [seek   |-> NonNegative(HLSInputSeekSec(startSec, job.startTime)),
       codecs |-> JobCodecs(job, startSec <= 0),
       forced |-> IF Copies(job) THEN 0 ELSE WholeSeconds(OrDefault(job.segmentSec)),
       copyts |-> ~Copies(job),
       offset |-> IF Copies(job) THEN NonNegative(startSec) ELSE 0,
       hlsTime |-> OrDefault(job.segmentSec),
       number |-> job.startIndex,
       appends |-> ~(job.startIndex > 0 \/ fresh)]

-----------------------------------------------------------------------------
(* The cache key: the parts of the parameters it is computed from.          *)

HLSCacheFingerprint(params) ==
  [remux |-> params.remux, videoCopy |-> params.videoCopy, maxHeight |-> params.maxHeight,
   gop |-> params.gop, video |-> params.video, omitAudio |-> params.omitAudio,
   decode |-> params.decode, codec |-> params.profile.codec,
   rates |-> IF params.profile.codec = "" THEN 0 ELSE params.profile.target]

-----------------------------------------------------------------------------
(* What the choice of a pipeline promises: a file has exactly one, video is *)
(* copied only when it is known to be (or not known not to be) H.264 of an  *)
(* allowed height and nobody asked for more, and audio only when it is AAC  *)
(* or there is none.                                                        *)
PipelineJustified(info, opts) ==
  LET params == BuildHLSSegmentParams(info, opts, 0)
      codecs == JobCodecs(params, TRUE)
  IN  /\ ~(params.remux /\ params.videoCopy)
      /\ codecs.video = "copy" =>
           /\ info.video \in H264Names /\ info.hasVideo /\ ~opts.force
           /\ (opts.maxHeight = 0 \/ info.height <= opts.maxHeight)
      /\ codecs.audio = "copy" => info.audio \in {"", "aac"} /\ codecs.video = "copy"
      /\ codecs.video = "encode" => params.profile.codec # ""

(* Two requests for segments of one file share a cached one only when they  *)
(* are to be made alike.                                                    *)
KeyTellsApart(info, opts, other) ==
  LET mine   == BuildHLSSegmentParams(info, opts, DefaultFPS)
      theirs == BuildHLSSegmentParams(info, other, DefaultFPS)
  IN  HLSCacheFingerprint(mine) = HLSCacheFingerprint(theirs) => mine = theirs

(* A segment made on demand holds what the playlist says is there: ffmpeg   *)
(* starts on its first frame and ends with its last; a transport stream is  *)
(* always encoded.                                                          *)
SegmentAsListed(params, plan, seekTimes, segmentSec) ==
  \A i \in DOMAIN plan, wanted \in {"fmp4", "mpegts"} :
    LET opts == BuildHLSSegmentOptions(params, i - 1, plan, seekTimes, segmentSec)
        args == BuildHLSSegmentFFmpegArgs(opts, SegmentMux(params, wanted))
    IN  args.mux # "refused" =>
          /\ args.seek = NonNegative(plan[i].start + params.startTime)
          /\ args.offset = plan[i].start
          /\ args.bound = plan[i].dur
          /\ args.mux = "mpegts" => args.codecs.video = "encode"

(* The boundaries a copy job cuts: where it begins and the cuts it makes,   *)
(* in media time.                                                           *)
JobBoundaries(job, fileKeyframes) ==
  LET args   == BuildHLSVODFFmpegArgs(job)
      origin == VodCopyKeyframeSeekSec(job.startSec, job.seekTimes)
  IN  {UnitMillis * SeekLandsOn(fileKeyframes, args.seek - job.startTime)} \cup
        MuxerCuts(fileKeyframes, origin, args.cuts)

PlannedBoundaries(job) ==
  {UnitMillis * job.plan[i].start : i \in job.startIndex + 1..Len(job.plan)}

(* A job that restarts in the middle cuts the file where the plan, and so a *)
(* job from 0, does; one with a hand-off ends there.                        *)
RestartFollowsPlan(job, fileKeyframes) ==
  /\ JobBoundaries(job, fileKeyframes) = PlannedBoundaries(job)
  /\ job.stopIndex > job.startIndex /\ job.stopIndex < Len(job.plan) =>
       LET args == BuildHLSVODFFmpegArgs(job)
       IN  /\ args.bound > 0
           /\ args.seek - job.startTime + args.bound = job.plan[job.stopIndex + 1].start

(* Transcoded segments of a job begin on forced keyframes exactly when the  *)
(* interval they are forced at divides the segment length.                  *)
KeyframesOnGrid(args) ==
  args.codecs.video = "encode" => args.forced > 0 /\ args.hlsTime % args.forced = 0

(* A transcode that starts at a segment of a fixed grid lists its segments  *)
(* where the grid has them, begins each on a keyframe it forces, and ends   *)
(* at the hand-off.                                                         *)
TranscodeFollowsGrid(job) ==
  LET args == BuildHLSVODFFmpegArgs(job)
  IN  /\ KeyframesOnGrid(args)
      /\ args.seek = NonNegative(args.offset + job.startTime)
      /\ \A i \in job.startIndex + 1..Len(job.plan) :
           job.plan[i].start = args.offset + (i - 1 - args.number) * args.hlsTime
      /\ job.stopIndex > job.startIndex /\ job.stopIndex < Len(job.plan) =>
           args.offset + args.bound = job.plan[job.stopIndex + 1].start

(* A continuous copy says of its first segment the time of the keyframe     *)
(* ffmpeg lands on.                                                         *)
CopyStartsOnKeyframe(job, fileKeyframes) ==
  LET args == BuildHLSContinuousArgs(job, fileKeyframes, FALSE)
  IN  /\ Copies(job) /\ job.startSec > 0
      /\ fileKeyframes # <<>> /\ Head(fileKeyframes) = job.startTime
      => SeekLandsOn(fileKeyframes, args.seek) = job.startTime + args.offset
=============================================================================
