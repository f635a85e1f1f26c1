--------------------------- MODULE MediaTimeline ---------------------------
(***************************************************************************)
(* How a file is cut into HLS segments: the keyframe probe                 *)
(* (ops/hls_keyframes.go), the media timeline (ops/hls_timeline.go), the   *)
(* VOD segment list (ops/hls_vod.go) and the cuts of a job that restarts   *)
(* in the middle (ops/hls_vod_copy.go).                                    *)
(*                                                                         *)
(* Times are natural numbers of units of 250 ms, so that the distances the *)
(* code compares with (0.5 s) are whole and its rounding tolerances (10 ms *)
(* and less) are smaller than any difference of two times.  The one        *)
(* tolerance that is a decision, the 1 ms by which a cut is named early,   *)
(* is kept: EmittedCut counts milliseconds.                                *)
(***************************************************************************)
EXTENDS Integers, Sequences, FiniteSets, FiniteSetsExt, SequencesExt

MinGap     == 2      \* hlsKeyframeMinGapSec
MinSegment == 2      \* hlsMinSegmentDurationSec
SeekPad    == 2      \* vodRemuxInputSeekPadSec
UnitMillis == 250
UnitsPerSecond == 4
DefaultSegment == 16 \* DefaultHLSSegmentDurationSec

CeilDiv(a, b) == (a + b - 1) \div b
NonNegative(t) == IF t < 0 THEN 0 ELSE t
Increasing(times) ==
  [i \in 1..Cardinality(times) |->
     CHOOSE t \in times : Cardinality({s \in times : s < t}) = i - 1]

-----------------------------------------------------------------------------
(* The probe.  A packet is [key, pts, dts], a time ffprobe does not know or *)
(* that is negative being -1; a failed ffprobe has no packets or frames,    *)
(* and finding no keyframe is an error: <<>>.                               *)

KeyframeTime(packet) == IF packet.pts >= 0 THEN packet.pts ELSE packet.dts

SortDedupeKeyframeTimes(times) == Increasing({t \in times : t >= 0})

(* Keyframes without any time are spread evenly, one GOP apart.             *)
SyntheticKeyframeTimes(packets, keys, frameUnits) ==
  LET gopFrames == Max({1, Len(packets) \div Cardinality(keys)})
  IN  [i \in 1..Cardinality(keys) |-> (i - 1) * gopFrames * frameUnits]

KeyPackets(packets) == {i \in DOMAIN packets : packets[i].key}

KeyframesByPacket(packets, frameUnits) ==
  LET keys  == KeyPackets(packets)
      times == SortDedupeKeyframeTimes({KeyframeTime(packets[i]) : i \in keys})
  IN  IF times = <<>> /\ keys # {}
        THEN SyntheticKeyframeTimes(packets, keys, frameUnits)
        ELSE times

KeyframesByFrame(frames) == SortDedupeKeyframeTimes(frames)

ProbeVideoKeyframeTimes(packets, frames, frameUnits) ==
  LET byPacket == KeyframesByPacket(packets, frameUnits)
  IN  IF byPacket # <<>> THEN byPacket ELSE KeyframesByFrame(frames)

-----------------------------------------------------------------------------
(* The media timeline: container times rebased to 0.                        *)

HLSMediaTimelineDuration(duration, startTime) ==
  IF duration <= 0 \/ startTime <= 0 THEN duration ELSE NonNegative(duration - startTime)

NormalizeHLSKeyframeTimes(keyframes, startTime) ==
  IF startTime <= 0 THEN keyframes
  ELSE [i \in DOMAIN keyframes |-> NonNegative(keyframes[i] - startTime)]

HLSInputSeekSec(mediaTime, startTime) == NonNegative(mediaTime) + startTime

FromZero(keyframes) ==
  IF keyframes = <<>> \/ Head(keyframes) = 0 THEN keyframes ELSE <<0>> \o keyframes

(* The keyframes inside the media, thinned to one per MinGap: kept[n] are   *)
(* those of the first n.                                                    *)
ThinnedKeyframes(keyframes, duration) ==
  LET Keeps(out, t) ==
        0 <= t /\ t < duration /\ (out = <<>> \/ t - out[Len(out)] >= MinGap)
      kept[n \in 0..Len(keyframes)] ==
        IF n = 0 THEN <<>>
        ELSE IF Keeps(kept[n - 1], keyframes[n]) THEN Append(kept[n - 1], keyframes[n])
        ELSE kept[n - 1]
  IN  kept[Len(keyframes)]

(* An index with more than 15 keyframes per second is not believed.         *)
SanitizeHLSKeyframes(keyframes, duration) ==
  IF duration <= 0 \/ UnitsPerSecond * Len(keyframes) > 15 * duration
    THEN <<>>
    ELSE FromZero(ThinnedKeyframes(keyframes, duration))

PrepareHLSMediaTimeline(keyframes, duration, startTime) ==
  LET media == HLSMediaTimelineDuration(duration, startTime)
  IN  [duration  |-> media,
       keyframes |-> SanitizeHLSKeyframes(NormalizeHLSKeyframeTimes(keyframes, startTime), media)]

-----------------------------------------------------------------------------
(* Plans: sequences of segments [start, dur].                               *)

Segment(start, dur) == [start |-> start, dur |-> dur]
SegmentEnd(segment) == segment.start + segment.dur
OrDefault(segmentSec) == IF segmentSec <= 0 THEN DefaultSegment ELSE segmentSec

(* Mutant: the last segment stays, however short.                           *)
MergeTinyTailSegment_Never(plan) == plan

MergeTinyTailSegment(plan) ==
  LET n == Len(plan)
  IN  IF n < 2 \/ plan[n].dur >= MinSegment
        THEN plan
        ELSE [i \in 1..n - 1 |->
                IF i = n - 1 THEN Segment(plan[i].start, plan[i].dur + plan[n].dur) ELSE plan[i]]

FixedHLSSegmentTimeline(duration, segmentSec) ==
  LET Length(start) == IF duration > start /\ duration - start < segmentSec
                         THEN duration - start ELSE segmentSec
  IN  MergeTinyTailSegment(
        [i \in 1..Max({1, CeilDiv(duration, segmentSec)}) |->
           Segment((i - 1) * segmentSec, Length((i - 1) * segmentSec))])

FirstAtOrAfter(keyframes, time, otherwise) ==
  LET later == {k \in ToSet(keyframes) : k >= time}
  IN  IF later = {} THEN otherwise ELSE Min(later)

(* Where the segments end, when the n-th, if it starts at s, ends at        *)
(* end[n][s]: 0 and then one end after the other, up to the duration.       *)
CutTimes(end, duration) ==
  LET at[n \in 0..duration] ==
        IF n = 0 THEN 0 ELSE IF at[n - 1] >= duration THEN at[n - 1] ELSE end[n][at[n - 1]]
  IN  at

SegmentsCutAt(at, duration) ==
  [i \in 1..Min({n \in 1..duration : at[n] >= duration}) |-> Segment(at[i - 1], at[i] - at[i - 1])]

(* On-demand segments: each lasts at least segmentSec from its own start.   *)
BuildHLSSegmentTimeline(givenDuration, givenKeyframes, givenSegment, startTime) ==
  LET segmentSec == OrDefault(givenSegment)
      media      == HLSMediaTimelineDuration(givenDuration, startTime)
      duration   == IF media <= 0 THEN segmentSec ELSE media
      keyframes  == FromZero(NormalizeHLSKeyframeTimes(givenKeyframes, startTime))
      end        == [n \in 1..duration |-> [s \in 0..duration - 1 |->
                       FirstAtOrAfter(keyframes, s + segmentSec, duration)]]
  IN  IF keyframes = <<>> THEN FixedHLSSegmentTimeline(duration, segmentSec)
      ELSE MergeTinyTailSegment(SegmentsCutAt(CutTimes(end, duration), duration))

(* Copied segments: the n-th ends at the first keyframe on or after         *)
(* n * segmentSec, wherever the ones before it ended.                       *)
VodCopyModeSegmentTimeline(duration, keyframes, segmentSec) ==
  LET end == [n \in 1..duration |-> [s \in 0..duration - 1 |->
                FirstAtOrAfter(FromZero(keyframes), Max({s + 1, n * segmentSec}), duration)]]
  IN  IF duration <= 0 THEN <<>>
      ELSE IF keyframes = <<>> THEN FixedHLSSegmentTimeline(duration, segmentSec)
      ELSE MergeTinyTailSegment(SegmentsCutAt(CutTimes(end, duration), duration))

BuildVODSegmentListFixedGrid(duration, segmentSec) ==
  FixedHLSSegmentTimeline(duration, OrDefault(segmentSec))

BuildVODSegmentListKeyframe(duration, segmentSec, startTime, keyframes) ==
  LET media == PrepareHLSMediaTimeline(keyframes, duration, startTime)
  IN  VodCopyModeSegmentTimeline(media.duration, media.keyframes, OrDefault(segmentSec))

BuildVODSegmentList(duration, segmentSec, startTime, keyframes) ==
  LET media == PrepareHLSMediaTimeline(keyframes, duration, startTime)
  IN  IF media.keyframes = <<>>
        THEN BuildVODSegmentListFixedGrid(media.duration, segmentSec)
        ELSE BuildVODSegmentListKeyframe(duration, segmentSec, startTime, keyframes)

(* The largest index (from 0) whose start is not after the time.            *)
SegmentIndexForTime(time, plan) ==
  LET late == {i \in 2..Len(plan) : plan[i].start > time}
  IN  IF plan = <<>> \/ time <= plan[1].start THEN 0
      ELSE IF late = {} THEN Len(plan) - 1 ELSE Min(late) - 2

KeyframeSeekBefore(keyframes, time) ==
  LET late == {i \in DOMAIN keyframes : keyframes[i] > time}
      n    == IF late = {} THEN Len(keyframes) ELSE Min(late) - 1
  IN  IF time <= 0 \/ n = 0 THEN 0 ELSE keyframes[n]

(* #EXT-X-TARGETDURATION, in seconds, and the playlist: the durations       *)
(* listed, in the order of the segment files 0, 1, ...                      *)
VODTargetDurationSec(plan) ==
  LET longest == Max({0} \cup {plan[i].dur : i \in DOMAIN plan})
  IN  CeilDiv(OrDefault(longest), UnitsPerSecond)

BuildVODPlaylist(plan, segmentSec) ==
  [target   |-> VODTargetDurationSec(plan),
   segments |-> [i \in DOMAIN plan |-> IF plan[i].dur <= 0 THEN segmentSec ELSE plan[i].dur]]

-----------------------------------------------------------------------------
(* A copy job that starts at segment startIndex (from 0) of a plan.         *)

VodCopyKeyframeSeekSec(startSec, seekTimes) ==
  NonNegative(IF seekTimes = <<>> THEN startSec ELSE KeyframeSeekBefore(seekTimes, startSec))

(* Mutant: the cuts count from the start of the media, not from the seek.   *)
VODCopySegmentCutTimesRel_Absolute(plan, seek, startIndex) ==
  {plan[i].start : i \in startIndex + 2..Len(plan)}

VODCopySegmentCutTimesRel(plan, seek, startIndex) ==
  {plan[i].start - seek : i \in startIndex + 2..Len(plan)} \cap (Nat \ {0})

(* floatsToArgStrings: a cut is named 1 ms before its boundary.             *)
EmittedCut(time) == UnitMillis * time - 1

(* ffmpeg, external: -ss before the input lands on the last keyframe of the *)
(* file not after it, and -f segment cuts at the first keyframe not before  *)
(* each of -segment_times, which count from the keyframe it landed on.      *)
SeekLandsOn(fileKeyframes, seek) == KeyframeSeekBefore(fileKeyframes, seek)

MuxerCuts(fileKeyframes, origin, cutTimes) ==
  LET millis == [i \in DOMAIN fileKeyframes |-> UnitMillis * fileKeyframes[i]]
  IN  {FirstAtOrAfter(millis, UnitMillis * origin + EmittedCut(t), -1) : t \in cutTimes}

-----------------------------------------------------------------------------
(* What a plan promises.                                                    *)

(* The segments follow one another from 0 without gap or overlap to the end *)
(* of the media, and none is too short for ffmpeg unless it is all there is.*)
TilesMedia(plan, duration) ==
  /\ plan # <<>>
  /\ plan[1].start = 0
  /\ \A i \in 1..Len(plan) - 1 : SegmentEnd(plan[i]) = plan[i + 1].start
  /\ SegmentEnd(Last(plan)) = duration
  /\ Len(plan) > 1 => \A i \in DOMAIN plan : plan[i].dur >= MinSegment

CutsOnKeyframes(plan, keyframes) ==
  \A i \in 2..Len(plan) : plan[i].start \in ToSet(keyframes)

(* Every time of the media is served by the segment that contains it.       *)
IndexFindsSegment(plan, duration) ==
  \A t \in 0..duration - 1 :
    LET segment == plan[SegmentIndexForTime(t, plan) + 1]
    IN  segment.start <= t /\ t < SegmentEnd(segment)

(* A file with keyframes is never probed to have none; the times found are  *)
(* in order without repeats, and are those of its keyframes unless nothing  *)
(* is known of any: then there is one time per keyframe, from 0.            *)
ProbeFindsKeyframes(packets, frames, frameUnits) ==
  LET times == ProbeVideoKeyframeTimes(packets, frames, frameUnits)
      keys  == KeyPackets(packets)
      known == {KeyframeTime(packets[i]) : i \in keys} \ {-1}
  IN  /\ \A i \in 1..Len(times) - 1 : times[i] < times[i + 1]
      /\ IF known # {} THEN ToSet(times) = known
         ELSE IF keys # {} THEN Len(times) = Cardinality(keys) /\ times[1] = 0
         ELSE ToSet(times) = frames \cap Nat

(* #EXTINF rounded to seconds never exceeds #EXT-X-TARGETDURATION.          *)
TargetCovers(playlist) ==
  \A i \in DOMAIN playlist.segments :
    playlist.segments[i] <= UnitsPerSecond * playlist.target
=============================================================================
