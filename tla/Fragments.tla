----------------------------- MODULE Fragments -----------------------------
(***************************************************************************)
(* The fMP4 files the program reads and rewrites (package mp4): which      *)
(* prefix of a file counts as finished, where the decode time of a         *)
(* fragment is moved to, and what the validators say of it.                *)
(*                                                                         *)
(* A file is a sequence of boxes [type, size, kids, trafs] of which the    *)
(* first "have" bytes are on disk.  The media in it is the sequence of its *)
(* track fragments in file order, each                                     *)
(*   track    the track_ID of its tfhd (1 when it has none)                *)
(*   version  of its tfdt, ticks its decode time (-1: it has no tfdt)      *)
(*   dur      the ticks its samples last, 0 when they do not say           *)
(* Times are in units; a timescale is in ticks per unit, and Sec is exact  *)
(* because every timescale divides Resolution.                             *)
(***************************************************************************)
EXTENDS Integers, Sequences, FiniteSets, FiniteSetsExt

CONSTANTS
  VideoScale, AudioScale,  \* defaultVideoTimescale, defaultAudioTimescale
  InferredScales,          \* the candidates of inferTrackDurationSec, in order
  Plausible,               \* <<0.5 s, 12 s>> in units
  Resolution,              \* parts of a unit times are compared in
  Tolerance,               \* toleranceSec in such parts
  MaxV0,                   \* the largest time a version 0 tfdt holds
  MinBytes                 \* MinHLSParseableFragmentBytes

ASSUME ScalesAssumption ==
  /\ {VideoScale, AudioScale, Resolution, Tolerance, MaxV0, MinBytes} \subseteq Nat \ {0}
  /\ Resolution % VideoScale = 0 /\ Resolution % AudioScale = 0

Magnitude(n) == IF n < 0 THEN -n ELSE n

(* math.Round(n / d): to the nearest, halves away from zero.                *)
Round(n, d) ==
  LET up == (2 * Magnitude(n) + d) \div (2 * d) IN IF n < 0 THEN -up ELSE up

(* The sum of the first n of a sequence of numbers.                         *)
SumOfFirst(numbers, n) ==
  LET sum[k \in 0..Len(numbers)] == IF k = 0 THEN 0 ELSE sum[k - 1] + numbers[k]
  IN  sum[n]

-----------------------------------------------------------------------------
(* Boxes on disk.                                                           *)

Box(type, size) == [type |-> type, size |-> size, kids |-> {}, trafs |-> <<>>]

Offset(boxes, i) == SumOfFirst([j \in DOMAIN boxes |-> boxes[j].size], i - 1)
Bytes(boxes)     == Offset(boxes, Len(boxes) + 1)

(* The whole boxes of a prefix, and the boxes whose header it holds.        *)
WholeBoxes(boxes, have)  == {i \in DOMAIN boxes : Offset(boxes, i + 1) <= have}
HeadersRead(boxes, have) == {i \in DOMAIN boxes : Offset(boxes, i) + 8 <= have}

(* walkBoxes accepts a prefix that ends where a box ends.                   *)
EndsOnBox(boxes, have) == \E i \in 1..(Len(boxes) + 1) : Offset(boxes, i) = have

InitSegmentComplete(boxes, have) ==
  LET whole == WholeBoxes(boxes, have)
      moovs == {i \in whole : boxes[i].type = "moov"}
  IN  /\ EndsOnBox(boxes, have) /\ moovs # {}
      /\ \E i \in whole : boxes[i].type \in {"ftyp", "styp"}
      /\ {"trak", "mvex"} \subseteq boxes[Max(moovs)].kids

(* The init is what precedes the first moof whose header is there.          *)
SplitInitMedia(boxes, have) ==
  LET moofs == {i \in HeadersRead(boxes, have) : boxes[i].type = "moof"}
      cut   == IF moofs = {} THEN have ELSE Offset(boxes, Min(moofs))
  IN  [init |-> cut, media |-> have - cut]

TrackTimescalesFromInit(moov) ==
  [k \in {t.track : t \in moov} |-> (CHOOSE t \in moov : t.track = k).scale]

TimescaleForTrack(track) == IF track = 2 THEN AudioScale ELSE VideoScale
TimescaleForTrackID(track, scales) ==
  IF track \in DOMAIN scales /\ scales[track] > 0 THEN scales[track]
  ELSE TimescaleForTrack(track)

Sec(ticks, scale) == ticks * (Resolution \div scale)

-----------------------------------------------------------------------------
(* Decode times.                                                            *)

Timed(media)  == {i \in DOMAIN media : media[i].ticks >= 0}
Tracks(media) == {media[i].track : i \in Timed(media)}
FirstOf(media, track) == Min({i \in Timed(media) : media[i].track = track})
FirstTFDT(media, track) == media[FirstOf(media, track)].ticks
Readable(media) == \A k \in Tracks(media) : media[FirstOf(media, k)].version \in {0, 1}

Fits(traf, ticks) ==
  \/ traf.version = 0 /\ ticks \in 0..MaxV0
  \/ traf.version = 1 /\ ticks >= 0

(* Adds delta[track] to the decode times; one that does not fit fails all.  *)
ApplyTFDTDeltas(media, delta) ==
  LET moved == [i \in DOMAIN media |->
                  IF i \in Timed(media)
                    THEN [media[i] EXCEPT !.ticks = @ + delta[media[i].track]] ELSE media[i]]
  IN  IF Readable(media) /\ \A i \in Timed(media) : Fits(media[i], moved[i].ticks)
        THEN [ok |-> TRUE, media |-> moved] ELSE [ok |-> FALSE, media |-> media]

OffsetDecodeTimeByStartSec(media, start) ==
  ApplyTFDTDeltas(media, [k \in Tracks(media) |-> start * TimescaleForTrack(k)])

PrimaryTrack(media) == IF 1 \in Tracks(media) THEN 1 ELSE Min(Tracks(media))

(* Mutant: the primary track's ticks are added to every track.              *)
AlignmentDelta_SameTicks(media, start, scales) ==
  LET primary == PrimaryTrack(media)
      shift   == start * TimescaleForTrackID(primary, scales) - FirstTFDT(media, primary)
  IN  [k \in Tracks(media) |-> Max({shift, -FirstTFDT(media, k)})]

(* One shift for all tracks, the one that brings the primary track to       *)
(* start, except that no track is moved below zero.                         *)
AlignmentDelta(media, start, scales) ==
  LET primary == PrimaryTrack(media)
      pts     == TimescaleForTrackID(primary, scales)
      shift   == start * pts - FirstTFDT(media, primary)
  IN  [k \in Tracks(media) |->
         Max({Round(shift * TimescaleForTrackID(k, scales), pts), -FirstTFDT(media, k)})]

AlignFragmentToMediaStart(media, start, scales) ==
  IF Tracks(media) = {} THEN [ok |-> TRUE, media |-> media]
  ELSE ApplyTFDTDeltas(media, AlignmentDelta(media, start, scales))

-----------------------------------------------------------------------------
(* Durations.                                                               *)

TrackTicks(media, track) ==
  SumOfFirst([i \in DOMAIN media |-> IF media[i].track = track THEN media[i].dur ELSE 0],
             Len(media))

InferTrackDurationSec(ticks) ==
  LET fits == {i \in DOMAIN InferredScales :
                 /\ ticks >= Plausible[1] * InferredScales[i]
                 /\ ticks <= Plausible[2] * InferredScales[i]}
  IN  Sec(ticks, IF fits = {} THEN VideoScale ELSE InferredScales[Min(fits)])

TrackDuration(media, track, scales) ==
  LET ticks == TrackTicks(media, track)
  IN  IF track \in DOMAIN scales /\ scales[track] > 0 THEN Sec(ticks, scales[track])
      ELSE InferTrackDurationSec(ticks)

TrackDurations(media, scales) ==
  {TrackDuration(media, k, scales) : k \in {media[i].track : i \in DOMAIN media}} \ {0}
FragmentDurationSec(media, scales) == Max(TrackDurations(media, scales) \cup {0})

-----------------------------------------------------------------------------
(* What the validators say.  Without a track 1 the start read is that of    *)
(* any track: the code takes the first a map iteration gives.               *)

FragmentMediaStarts(media, scales) ==
  {Sec(FirstTFDT(media, k), TimescaleForTrackID(k, scales)) :
     k \in IF 1 \in Tracks(media) THEN {1} ELSE Tracks(media)}

ValidateMonotonicTFDT(media) ==
  LET video == {i \in Timed(media) : media[i].track = 1}
  IN  /\ \A i \in video : media[i].version \in {0, 1}
      /\ \A i, j \in video : i < j => media[i].ticks <= media[j].ticks

IsHLSSegmentFragment(media, bytes) ==
  bytes >= MinBytes /\ Readable(media) /\ Tracks(media) # {}

PublishableHLSSegmentFragment(media, bytes) ==
  IsHLSSegmentFragment(media, bytes) /\ ValidateMonotonicTFDT(media)

(* What the moofs among the first n boxes hold, and their bytes.            *)
MediaOf(boxes, n) ==
  LET media[k \in 0..Len(boxes)] ==
        IF k = 0 THEN <<>>
        ELSE IF boxes[k].type = "moof" THEN media[k - 1] \o boxes[k].trafs
        ELSE media[k - 1]
  IN  media[n]
MoofBytes(boxes, n) ==
  SumOfFirst([i \in DOMAIN boxes |-> IF boxes[i].type = "moof" THEN boxes[i].size ELSE 0], n)

(* On disk only the moofs are read, and up to 7 bytes after the last whole  *)
(* box are not looked at.                                                   *)
PublishableHLSSegmentReaderAt(boxes, have) ==
  LET whole == Cardinality(WholeBoxes(boxes, have))
  IN  /\ HeadersRead(boxes, have) = WholeBoxes(boxes, have)
      /\ PublishableHLSSegmentFragment(MediaOf(boxes, whole), MoofBytes(boxes, whole))

Off(a, b) == Magnitude(a - b) > Tolerance

ValidateSegmentTimeline(media, bytes, expectedStart, expectedDur, actualDur, scales) ==
  LET dur == IF actualDur > 0 THEN actualDur ELSE FragmentDurationSec(media, <<>>)
  IN  {c \in {"min_size", "tfdt_start", "duration_match", "monotonic"} :
         CASE c = "min_size" -> ~IsHLSSegmentFragment(media, bytes)
           [] c = "tfdt_start" ->
                \/ ~Readable(media) \/ Tracks(media) = {}
                \/ \E s \in FragmentMediaStarts(media, scales) : Off(s, expectedStart)
           [] c = "duration_match" -> dur > 0 /\ expectedDur > 0 /\ Off(dur, expectedDur)
           [] OTHER -> ~ValidateMonotonicTFDT(media)}

ValidateContinuity(prevStart, prevDur, nextStart) ==
  IF prevDur > 0 /\ nextStart > 0 /\ Off(prevStart + prevDur, nextStart)
    THEN {"continuity"} ELSE {}

ValidateContinuityBetweenTracks(prev, next, track, scales) ==
  IF track \notin Tracks(prev) \cap Tracks(next) THEN {}
  ELSE LET at(m) == Sec(FirstTFDT(m, track), TimescaleForTrackID(track, scales))
       IN  ValidateContinuity(at(prev), TrackDuration(prev, track, scales), at(next))

-----------------------------------------------------------------------------
(* What the continuous publisher makes of the muxer's segments, each        *)
(* [media, extinf], and what the validator of its output says of those.     *)

MediaStart(segs, i, start) ==
  start + SumOfFirst([j \in DOMAIN segs |-> segs[j].extinf], i - 1)

PublishAligned(segs, start, scales) ==
  [i \in DOMAIN segs |->
     AlignFragmentToMediaStart(segs[i].media, MediaStart(segs, i, start), scales)]

ValidateContinuousHLSOutput(segs, start, transcode, hasAudio, scales) ==
  LET at(i)  == CHOOSE s \in FragmentMediaStarts(segs[i].media, scales) : TRUE
      dur(i) == IF FragmentDurationSec(segs[i].media, scales) > 0
                  THEN FragmentDurationSec(segs[i].media, scales)
                  ELSE segs[i].extinf * Resolution
      timeline(i) ==
        ValidateSegmentTimeline(segs[i].media, MinBytes, MediaStart(segs, i, start) * Resolution,
                                segs[i].extinf * Resolution, dur(i), scales)
          \ (IF transcode /\ segs[i].extinf > 0 THEN {"duration_match"} ELSE {})
      joins(i) ==
        IF i = 1 THEN {}
        ELSE ValidateContinuity(at(i - 1), dur(i - 1), at(i)) \cup
             (IF hasAudio THEN ValidateContinuityBetweenTracks(segs[i - 1].media,
                                                              segs[i].media, 2, scales)
                          ELSE {})
  IN  UNION {timeline(i) \cup joins(i) : i \in DOMAIN segs}

-----------------------------------------------------------------------------
(* What must hold of them.                                                  *)

(* A prefix of a file that passes for a finished init has the whole moov,   *)
(* so readers cannot mistake a file ffmpeg is still writing; and the init   *)
(* half split off any prefix that has media is such a one.                  *)
InitIsWhole(boxes) ==
  LET playable == {i \in DOMAIN boxes :
                     boxes[i].type = "moov" /\ {"trak", "mvex"} \subseteq boxes[i].kids}
  IN  \A have \in 0..Bytes(boxes) :
        /\ InitSegmentComplete(boxes, have) => playable \cap WholeBoxes(boxes, have) # {}
        /\ playable # {} /\ SplitInitMedia(boxes, have).media > 0
             => InitSegmentComplete(boxes, SplitInitMedia(boxes, have).init)

(* A prefix of a segment that passes for publishable holds its first moof   *)
(* whole and ends no more than a box header into another box.               *)
SegmentIsParseable(boxes) ==
  \A have \in 0..Bytes(boxes) :
    PublishableHLSSegmentReaderAt(boxes, have) =>
      \E i \in WholeBoxes(boxes, have) :
        /\ boxes[i].type = "moof"
        /\ have - Max({Offset(boxes, j + 1) : j \in WholeBoxes(boxes, have)}) < 8

(* How far a track starts behind the primary one.                           *)
Lag(media, k, scales) ==
  LET at(j) == Sec(FirstTFDT(media, j), TimescaleForTrackID(j, scales))
  IN  at(k) - at(PrimaryTrack(media))

(* Aligning puts the primary track at start exactly, moves the others by    *)
(* the same time to the nearest tick unless they would be before zero,      *)
(* keeps every track's own spacing, fits the field it is written to, has    *)
(* nothing left to do the second time, and is a plain offset for media that *)
(* starts at zero on the default timescales.                                *)
AlignIsSound(media, start, scales) ==
  LET out == AlignFragmentToMediaStart(media, start, scales)
      p   == PrimaryTrack(media)
      tick(k) == Resolution \div TimescaleForTrackID(k, scales)
  IN  out.ok /\ Tracks(media) # {} =>
        /\ FirstTFDT(out.media, p) = start * TimescaleForTrackID(p, scales)
        /\ \A k \in Tracks(media) :
             \/ 2 * Magnitude(Lag(out.media, k, scales) - Lag(media, k, scales)) <= tick(k)
             \/ FirstTFDT(out.media, k) = 0 /\ Lag(media, k, scales) < -start * Resolution
        /\ \A i, j \in Timed(media) :
             media[i].track = media[j].track =>
               out.media[i].ticks - out.media[j].ticks = media[i].ticks - media[j].ticks
        /\ \A i \in Timed(media) : Fits(media[i], out.media[i].ticks)
        /\ AlignFragmentToMediaStart(out.media, start, scales) = out
        /\ scales = <<>> /\ (\A k \in Tracks(media) : FirstTFDT(media, k) = 0)
             => OffsetDecodeTimeByStartSec(media, start) = out

(* Segments the muxer cut back to back, with the durations it lists, are    *)
(* published so that the validator of the output has nothing to say, unless *)
(* audio that leads the video had to be held at zero.                       *)
PublishedValidates(segs, start, transcode, hasAudio, scales) ==
  LET out   == PublishAligned(segs, start, scales)
      after == [i \in DOMAIN segs |-> [media |-> out[i].media, extinf |-> segs[i].extinf]]
      end(i, k) == FirstTFDT(segs[i].media, k) + TrackTicks(segs[i].media, k)
      backToBack == \A i \in DOMAIN segs : \A k \in Tracks(segs[i].media) :
                      i > 1 => FirstTFDT(segs[i].media, k) = end(i - 1, k)
      asListed == \A i \in DOMAIN segs : \A k \in Tracks(segs[i].media) :
                    TrackTicks(segs[i].media, k)
                      = segs[i].extinf * TimescaleForTrackID(k, scales)
      held == \E k \in Tracks(segs[1].media) :
                /\ FirstTFDT(out[1].media, k) = 0
                /\ Lag(segs[1].media, k, scales) < -start * Resolution
  IN  /\ \A i \in DOMAIN segs : out[i].ok
      /\ backToBack /\ asListed /\ ~held
      => ValidateContinuousHLSOutput(after, start, transcode, hasAudio, scales) = {}
============================================================================
