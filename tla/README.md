# A TLA+ model of go-ffmpeg

go-ffmpeg is a Go library that drives `ffmpeg` and `ffprobe` as child processes: it detects
what the host can do, limits how many processes run, decides which encoder, device, filter and
cut each job gets, and turns long encodes into HLS segments that are served while they are written.
This directory holds TLA+ modules for the parts whose correctness depends on the order of events
or on many cases of a decision, the TLC configurations that check them on small instances, and
TLAPS proofs for every value of the constants.

To check: `tlc -workers 2 -config X.cfg MCModule`; to prove: `tlapm XProofs.tla`.

## 1. Inventory of the system

| Component (source) | State | Operations | What is hard | What makes it correct |
|---|---|---|---|---|
| Concurrency limiter (`concurrency/limiter.go`) | buffered channels for probe, decode, encode, global, large file; `MisreleaseCount`; leases | `AcquireLease`, `Acquire`, `Run`, `Lease.Release`, `Release` | slots are taken one by one, each wait can be cancelled; `Release` does not know who acquired | exact accounting, no deadlock, all-or-nothing as seen from outside |
| VOD session and job (`ops/hls_vod_session.go`, `hls_vod_job.go`, `hls_vod_decide.go`, `hls_vod_ready.go`, `hls_vod_segment_list.go`, `hls_vod_copy.go`) | `job`, `jobStart`, `head`, `partialPath`, `restarting`, `pathReaders`, `pendingUnlink`; two mutexes; watcher goroutines; the cache directory; the ffmpeg process | `WaitForSegment`, `performRestart`, `InstallJob`, `AcquireServePath`, `ReleaseServePath`, `refreshEncodeHead`, `StartHLSVODSegmentJob` | clients, watchers and ffmpeg share a directory; locks are dropped around file accesses; jobs are killed and replaced | one ffmpeg at a time and none leaked; a request returns; cached segments are kept; nothing unfinished is served |
| Lazy detection (`service_process.go`, `service.go`, `capabilities/detect.go`) | `caps`, `resolver`, `detectTried`, `detectErr`, `detectRuns`, `mu`, `detectMu` | `New`, `ensureDetected`, `Reload` | concurrent first calls; contexts that end in the middle; failures that are cached | detection runs once; cancellations are not cached nor passed on to others |
| Service facade (`service*.go`, `config.go`) | the above; slots, processes, temporary files of the calls under way | about 60 methods: checks, slot, process, delivery | a background job's lease outlives the call that took it; output is copied by another goroutine | processes are paid for by slots; files are whole; a cancelled call ends |
| Continuous HLS (`ops/hls_continuous*.go`, `continuous_validate.go`) | `raw/`, `seg/`, `index.m3u8`, `job.json`, the `published` map, one lock per directory | `StartHLSContinuous`, the aligner's tick and final pass | ticks, the final pass and a next generation meet in one directory | the playlist lists only published segments; the end of the stream is announced once everything is published |
| VOD planner (`ops/hls_vod.go`, `hls_timeline.go`, `hls_keyframes.go`) | none | keyframe times, segment list, playlist, index for a time | boundaries, tails, keyframe gaps | segments partition the timeline, on keyframes |
| Segment jobs (`ops/hls_pipeline.go`, `hls_params.go`, `hls_build.go`, `hls_segment.go`, `hls_cache.go`, the argument parts of the job files) | none | choose remux, copy or transcode; seek, cut, bound; cache key | a job that restarts in the middle must make the same segments | what is made is what the playlist lists |
| Single-shot operations (`ops/run.go`, `capture*.go`, `sprite_sheet.go`) | a process, a copy goroutine, a temporary file | run one ffmpeg, stream or rename its output | writes after a cancelled call returned; grids and windows | a path has a whole file or none; samples have cells |
| Recording, concat (`ops/segment_record.go`, `concat_media.go`) | none | choose copy or transcode | rules with many inputs | the decision is justified by the probe |
| Encoder choice (`encode/*`, `capabilities/*`) | capabilities, immutable once published | detect, resolve, fall back, filter chains | fallbacks, limits and exclusions; where frames are | a chosen encoder is available, allowed and what was asked for; frames reach it |
| Device chains (`device_chain_default.go`, `gpu_*.go`, `device_preference.go`, `platform/*`) | none | parse, resolve, order | the same GPU reported by several sources; switches in three places | the chain is the host's devices in the order asked for |
| fMP4 (`mp4/*`) | none | rebase decode times, validate, recognise whole files | two timescales, two tfdt versions, prefixes | tracks keep their distance; nothing unfinished is taken for finished |
| probe, exec, logging, command line, examples, test tools | none to speak of | processes, parsing, I/O | | |

How they interact: a service method calls `ensureDetected` (lock `detectMu`), perhaps probes the
duration under a slot of its own, takes a lease from the limiter, reads the capabilities (lock `mu`)
and runs a process. `StartHLSVODSegmentJob` does so too but returns while ffmpeg runs; a goroutine
returns the lease when the job ends. A host serves segments with `HLSVODSession.WaitForSegment`,
giving it a `startJob` callback that calls `StartHLSVODSegmentJob`; the session calls it back under
`restartMu`. Sessions and ffmpeg meet only in the cache directory: segment files, `.tmp` siblings and
the live CSV list. Every job's arguments come from the pure parts: planner, pipeline choice,
resolver, filter chain.

`PROJECT.json` lists every component with its files, and every hazard at its line with the
properties that are about it.

## 2. Modules

| Module | Models | Refines / extended by |
|---|---|---|
| `SlotPool` | what the limiter promises: all slots of an operation at once | implemented by `Limiter`, used as promised by `ServiceCalls` |
| `Limiter` | `concurrency/limiter.go` and `Service.Release` | `MCLimiter`, `LimiterProofs` |
| `HLSVODSession` | the session, its watchers, the directory and ffmpeg | `MCHLSVODSession`, `HLSVODSessionProofs` |
| `EncodeHead` | the inside of `refreshEncodeHead` | `MCEncodeHead`, `EncodeHeadProofs` |
| `ContinuousPublisher` | the aligner of continuous HLS, its directory and ffmpeg | `MCContinuousPublisher`, `ContinuousPublisherProofs` |
| `Detection` | `ensureDetected`, `Reload` | `MCDetection`, `DetectionProofs` |
| `ServiceCalls` | the way of every method of `Service` from the request to the last effect of its process | `MCServiceCalls`, `ServiceCallsProofs` |
| `MediaTimeline` | keyframes, timelines, segment lists, cut times, playlists | `SegmentJobs`, `MediaProofs` |
| `SegmentJobs` | the pipeline of a file, and seeks, cuts and bounds of every kind of segment job | `MCDecisions`, `MediaProofs` |
| `MediaJobs` | recording, concat, sprite sheets, frames | `MCDecisions`, `MediaProofs` |
| `Fragments` | decode times, prefixes and validators of fMP4 | `MCDecisions` |
| `EncoderChoice` | detection's result on a host, hierarchies, the resolver | `DeviceChain`, `FramePath`, `DecisionProofs` |
| `DeviceChain` | GPUs, selectors, default chain, configuration | `MCDecisions`, `DecisionProofs` |
| `FramePath` | decoder, filters and encoder options of a job | `MCDecisions` |

An operator whose name ends in `_Something` after a code name (`Take_NoLimit`) is a mutant: the
code with a plausible bug. It is not part of any specification; it is substituted for the original
to see that a property notices.

### Limiter

A channel is its length (`occ`) and capacity (`Cap`; 0 for a tier that is off). `pc` is where a
caller stands in `AcquireLease`/`Acquire` (`global`, `large`, `tier`), in the code it protects
(`running`) or in the release (`relTier`, `relLarge`, `relGlobal`). `lease` is the flags of the
`Lease` (or, for a raw caller, what it sent). Each send and each receive is one action. `Cancel` is
`ctx.Done()` in the select of `acquireChan` in any of the three waits. `kind = "raw"` callers use
`Acquire`/`Release` and never take the large slot. `LargeEligible` is chosen freely, because
`os.Stat` decides on the spot. `StrayTier` and `StrayGlobal` (in `MisuseSpec` only) are
`Release(class)` without an `Acquire`. `strays` is a history variable.

The misuse run says something subtler than the comment on `MisreleaseCount`
(`limiter.go:98`: it "increments when Release is called without a matching acquire"): a stray
`Release` that finds another caller's slot is not counted then; the robbed caller's own release is.
`MisuseContained` states what is true: what runs beyond a capacity is bounded by the strays, and the
numbers agree once all slots are back.

### HLSVODSession

Variables named as in the code are the session's fields. `file`, `tmp` and `csv` are the directory:
a segment file is absent, ends inside a box (`part`, not publishable), ends after a whole
`moof`/`mdat` of an unfinished segment (`frag`, publishable to a reader that only looks at boxes), or
is complete (`full`). `jobs` are the ffmpeg processes: `w` is the segment being written, `wr` the
writer's phase, `stop` the bound (`-t`). `cl[c]` is where a client is in `WaitForSegment` and
`performRestart` and its local variables; `watching` are the `watchJob` goroutines (two for a job
that is installed twice). `explicitCopy` is chosen initially and then fixed: `attachJob` writes it, but
with the same value for the jobs of one cache directory. A session starts on whatever an earlier run
of the program left (`Cached`).

One action is one critical section of `s.mu` or one access to the directory; `restartMu` is held
over many actions. The exceptions: `refreshEncodeHead` together with the critical section after it
is one step (its own interleavings are in `EncodeHead`), reading a file to see whether it is
publishable is one step with opening it, and preparing the directory, or a
beginning of it when `startJob` fails, is one step with the start of the process: this is under `restartMu` and no ffmpeg runs then (`HandOff`). Segment times are
indices: `-t` stops ffmpeg exactly at `StopIndex`.

ffmpeg is modelled as the code uses it: with `-f hls` and `temp_file` a `.tmp` is renamed; with
`-f segment` a file grows in place, is closed, then listed. It may be killed or crash between any
two of these steps. A kill and the death of the process are different steps.

### EncodeHead

The steps inside `refreshEncodeHead`: read the job under the lock, read the directory or the list
without it, store the head under it if the job is still the same; several goroutines do so while jobs
are attached, ended, attached again, and segments are completed or unlinked. `seen` (history) are
the segments done at some time in the session's job.

### ContinuousPublisher

`th` are the two goroutines of a job's aligner, the one that ticks and the one that waits for ffmpeg;
both go through the same pass of `publishContinuousReadySegments`, one file operation per step,
under `lock`, with the playlist they have read in `pl` and their place in it in `i`. `published` is the
map they share. The directory is `raw`, `seg` and `tmp` (the `.align.tmp` files), `pl` (`ffmpeg.m3u8`),
`index` (`index.m3u8`) and `status` (`job.json`). The contents of a segment are reduced to the
`startSec` its timestamps were rebased to: the generation's own number, or 0 for the head of the file,
which is where every resume with `append_list` starts. An index outside the generation's playlist is
never looked at. Each file operation of a pass may fail, also after it had its effect (a tick drops
the error, the final pass records it unless the job has one); ffmpeg may close a segment that nobody
can parse, may die at any step and, without `temp_file`, rewrites its playlist in place, so that a
reader, or a kill, leaves any beginning of it. `Crash` is the end of the program: the directory stays.
A host starts a generation after the last one's `Wait`. That does not tell that the goroutine of the
ticks has returned (`hls_continuous.go:101-107`, `hls_continuous_align.go:478-484`): a pass of an earlier
generation may be in the directory, or begin, while a later one is prepared and runs, with its own
`published` map and its own `startSec`. Into a resume it fits. Into a generation that started with
`temp_file` it does not: it may write what it has read of the old playlist, on the old timeline.
`Overtaken` is a state where one that has parsed a playlist meets such a generation, and the history
variable `stray` remembers it; what the code promises, it promises until then (section 3).

### Detection

`th[t]` is a call of `ensureDetected` or `Reload`; a detection is two commands whose errors count
(`Versions`) and many whose errors are dropped (`Populate`). `cut` says that the context of the
call has ended (its caller cancelled it or `DetectTimeout` expired), which may happen before any
step. `host` may change between good and bad at any time.

### ServiceCalls

`Table` gives each method its class of slot, how it delivers (`via`) and whether it probes the duration
first. `pc` is the station of a call, `proc` its process as the operating system sees it (a killed one
is still there until `Reap`), `copier` the goroutine that copies its output, `holders` who has a
slot, `temps` and `dest` what is on disk. The differences between methods are in the delivery:
a capture waits for process and copy (`FrameCaptured`), a stream returns on its context at once
(`AbandonPipe`), a job returns while its process runs (`HandOver`) and a goroutine keeps the lease
(`ReleaseJobLease`). `Return` is the deferred part of every method: slot and temporary go. Slots are
one pool per class here; `Limiter` has the channels, and `OneSlotAtATime` shows that the calls use
them as `SlotPool` says. `ensureDetected` and the checks are one refusal (`Refuse`); `Detection` has the
inside. `Stuck` are calls whose writer blocks for ever.

### MediaTimeline, SegmentJobs

Times are integers in units of 250 ms, so that the code's 0.5 s distances are whole and its rounding
tolerances vanish; the 1 ms by which a cut time is named early is kept (`EmittedCut`). A keyframe list is
an increasing sequence. The sets of arguments are records of what the options say: seek, offset, cut times,
bound, forced keyframe interval. `RestartFollowsPlan` plays ffmpeg on them: it starts on the keyframe
the seek finds, cuts at the first keyframe at or after each named time, and must make the segments the
plan lists, up to the hand-off. `copyts` records which jobs get `-copyts` (for copies `hls_vod_job.go:280-283`, with `-start_at_zero`); the
semantics of ffmpeg does not depend on it. Where a seek lands and from where `-segment_times` count is external
(`SeekLandsOn`, `MuxerCuts`) and is what the repository says of them (`hls_vod_copy.go:16-18`: cut times are
"rebased to keyframeSeekSec (the media time of the input -ss keyframe)").

### MediaJobs

A probe is a record; an unknown codec or rate is `""`. The decisions of `segment_record.go` and
`concat_media.go` are one operator per function. A sprite sheet is its grid, its interval as a fraction and
its cues, in seconds times the denominator; the span is at least 0.1 s, and `bound` is in twentieths of the unit, so that this and
the half interval that ffmpeg reads beyond the last sample are whole.

### Fragments

A media file is its sequence of track fragments with decode time, version and duration; times are compared
exactly because all timescales of an instance divide `Resolution`. `Round` is `math.Round`. A file on disk is a
sequence of boxes and a number of bytes; the prefix topics cut it at every byte.

### EncoderChoice, DeviceChain, FramePath

An encoder name is `<<codec, kind>>`, the kind being its backend or software library. A host is its facts and what
works there; `Detect` is what `capabilities.Detect` builds of it, with hierarchy, Pi profile, device chain and limits.
`order` is the order it works with and `shown` the one it reports: without the backends that cannot run, unless an order was given,
by the caller or by a software device put first (`ExplicitHierarchy`).
`DeviceChain` goes from `Config` and the GPUs found to the chain and the detection options. A device's name is a set of
words, a name asked for another, and the path of a render node counts as words too (`NodeWords`, `IsNamed`). `FramePath`
follows a frame from the decoder through each filter (`Through`) to the encoder: where it is (system memory or a
device) and in which format; a step that ffmpeg would refuse gives `Stuck`.

## 3. What is checked

| Run | Instance | States | Shows |
|---|---|---|---|
| `Limiter_paired` | 3 callers, tiers 1/1/1, large 1, global 2 | 71 k | `SlotAccounting`, `NoMisrelease`, the refinement of `SlotPool`, `Served` |
| `Limiter_misuse` | 2 callers, strays, global 1 | 8 k | `MisuseContained` |
| `HLSVODSession_safety` | 2 clients, 2 segments and one past the end, 2 jobs, both kinds, an empty directory | 2.6 M | `OneActiveJob`, `NoOrphanJob`, `JobIsWatched`, `PendingHasReader` |
| `HLSVODSession_live` | 1 client, requests 0, 1, 2 (past the end), 2 jobs, 1 crash, both kinds, any leftovers of an earlier run | 0.9 M | `Returns`, `NoRestartLoop`, `GapIsFilled` |
| `EncodeHead_live` | 2 refreshes, 2 segments, 2 jobs, 1 unlink, both kinds | 0.17 M | `HeadBacked`, `HeadCatchesUp` |
| `Continuous_live` | 2 generations of up to 2 segments, fresh or resumed, passes of the first that run into the second, 1 fault, 1 crash | 1.2 M | `ListedIsServable`, `StatusIsTrue`, `OnlyGrows`, `JobEnds` |
| `Detection_live` | 2 goroutines, 3 detections, hardware required | 30 k | `OkMeansDetected`, `NoForeignCancel`, `DetectsOnce`, `CallsReturn` |
| `ServiceCalls_live` | 2 calls of any pair of 8 methods, 1 slot per class | 103 k | `ProcessHasSlot`, `FilesAreWhole`, `WriterLeftAlone`, `OneSlotAtATime`, `CancelledCallsEnd` |
| `Decisions_sound` | one question per behaviour, about 215 000 questions | 215 k | `PlanServes`, `JobsFollowPlan`, `MediaJobsSound`, `FragmentsSound`, `EncodersHonoured`, `DevicesHonoured`, `FramesArrive` |
| `HLSVODSession_tail`, `Detection_cancel`, `Decisions_sprite` | see below | | a sentence of the repository that does not hold |

Why the bounds are enough to be interesting. Three callers on one slot per tier and a global cap of
two put two callers in the system and a third behind them, with every channel contended. Two
clients and two jobs contain a kill, a rewrite of the same directory, a reader of a path that is to
be unlinked, and a cached tail; a third job only repeats this, and what matters is proved for any
number. Two refreshes are what it takes for one to be stale. Three detections allow a failed one, a
retried one and a `Reload` in between. Bounds on counters are constants (`MaxJobs`, `MaxCrashes`,
`MaxStrays`, `MaxRuns`, `MaxUnlinks`) in guards. No liveness property rests on one: `startJob` may fail at
any of its steps and never has to, and `Returns` names the states in which `MaxJobs` leaves no job.
Two segments and two generations contain a gap, a resume, a leftover and a prefix shorter than the
list; `MaxFaults` (failed file operations and unparseable segments) and `MaxGens` bound the
publisher, where the program dies at most once and a generation follows.
The eight methods of `MCServiceCalls` are one of each way to deliver; the others differ from them by the row
of `Table` only. Two calls with one slot per class make every wait happen.

`MCDecisions` asks one question per behaviour. The inputs are small but sit on the edges of the code:
segment lengths around the minimum, media shorter than a segment, tails above, at and below the merge, up to
four keyframes anywhere including none, inputs that do not start at 0, probes that fail or lack a stream, grids
with and without rows and counts, fragments of either version on both sides of the clamp, every prefix of a file, hosts with
and without each vendor, WSL, every kind of Pi, chains with unknown vendors and software at either end, every
pair of encoder and decoder with every set of compiled scalers.

What some properties mean:

- `ImplementsPool`: an operation appears to take its slots in the single step that takes its tier.
- `GapIsFilled`: a job that was started for a segment that was not ready (`over`, a history field of the job, is false)
  never opens a ready one. Jobs that start at a ready segment are exempt: they are what `HLSVODSession_tail` shows.
- `NoRestartLoop`: for an index within the playlist, a client starts a second job only if the first
  was interrupted by somebody else or the segment became ready meanwhile.
- `Returns` is about a call within the playlist. It ends, after one restart and one more for each job that was
  interrupted, unless the client restarts on a look at the directory that is out of date (the segment got ready
  since), which no fairness of the scheduler excludes and which may happen again. `OutOfJobs` is the bound: the
  call would start its first job, or one in the place of an interrupted one, and `MaxJobs` leaves none. A restart
  for any other reason with no job left counts as a call that does not return. Past the end (`k = N`) a client does
  restart again and again for as long as `startJob` succeeds, a hazard recorded in `PROJECT.json`; the run makes such
  requests, and TLC refutes `Returns` when `k < N` is dropped from `Calls`.
- `HeadCatchesUp`: a slower refresh may overwrite a newer head, but once jobs and ffmpeg are quiet
  the head settles on the first segment that is not complete.
- `StatusIsTrue` is two things. `StatusFollows`: `job.json` never promises what `index.m3u8` does not list.
  `DoneMeansPublished`: when `Wait` returns, both tell all that ffmpeg listed, also a killed one; its premise
  `errs = 0` is there because a job that has ffmpeg's error does not record a failed pass.
- `OnlyGrows` and `StatusFollows` are about generations with `temp_file`; a resume truncates the playlist
  it starts from, and the two artifacts shrink with it.
- `StaleBound` uses 0 both for "none" and for index 0, as the code does.
- `ProcessHasSlot` is about running processes: one that was killed may be dying after its slot was given back.
- `WriterLeftAlone` leaves out streams: `runFMP4ToWriter` returns on the context while the copy may go on.
- `CancelledCallsEnd` is for writers that accept or fail. With `Stuck = {c1}` and `Methods <- MCCapture` TLC refutes it:
  a capture into a writer that blocks waits for it, cancelled or not, and keeps its slot.
- `FilesAreWhole` speaks of captures to a file in every state, of screenshots (which write in place) when the call is over.
- `JobsFollowPlan` covers video copies, transcodes, starts of continuous copies and segments on demand;
  remuxes are below.
- `FramesArrive` covers the pairs of encoder and decoder in `Pairs` and sources whose depth is told; see below.

### Fairness

- Limiter: a blocked send is queued on its channel and a receive hands the slot to the first in the
  queue, so a caller whose channel frees again and again gets it: strong fairness of a caller's
  takes. What runs under a slot ends (ffmpeg ends or dies with its context): weak fairness of the
  release. Nothing is assumed of cancellation.
- Session: goroutines are scheduled and tickers fire (weak); `restartMu` is obtained by a waiter that
  finds it free again and again (Go's mutex has a starvation mode; strong); ffmpeg goes on to its
  end and a killed one dies (weak). In-place growth, crashes, cancellation, requests and failures of `startJob` are not fair.
- Continuous: the goroutine that has the lock is scheduled, ffmpeg goes on and the host waits (weak, `Holder`); Go's mutex
  hands over to a waiter that has been overtaken for long (its starvation mode), so the final pass gets its turn among
  ticks (strong, `Finisher`). A tick outside the lock need never be scheduled. Deaths, faults, `Cancel` are not fair.
- EncodeHead, Detection: goroutines are scheduled; commands end, at the latest with
  `DetectTimeout`; `detectMu` is obtained like `restartMu`.
- ServiceCalls: the goroutines of a call are scheduled, `exec` kills the process of a done context and a killed process
  dies, a copy whose process is gone comes to its end (all weak). A process need not end by itself, and nobody need
  cancel. Slots need no fairness: a call that waits is released by its own context.

### Where the code does not do what it says

Each of these runs checks one sentence of the documents or comments, and TLC finds it violated.
The findings in `PROJECT.json` quote the sentences.

- `Detection_cancel`: a context that ends during the listing commands leaves a truncated
  capability set that is published for good, or a cached "no hardware encoder".
- `HLSVODSession_tail`: a client finds its segment missing; the job makes it, and the rest, and ends; the client, which does not
  look again, restarts (`performRestart` passes `ready = false`, `hls_vod_session.go:281`). The new job starts at a ready
  segment: that is not past `StartIndex`, so it is no bound, and all that follows is encoded over. Three segments are needed to see it.
- `Decisions_sprite`: the sprite chain fetches the frames of a QSV decoder from a device they are not on.

More such sentences are stated in the modules without a run of their own. Put the formula in the `.cfg` of the run of its
module (for `HLSVODSession` that of `HLSVODSession_safety`) and TLC finds it violated:

- `ContinuousPublisher!LastReadyIsHighest` (`hls_continuous_align.go:44`): a kill in the middle of the rewrite of
  `ffmpeg.m3u8` leaves a shorter playlist that parses, and the final pass reports less than is published.
- `ContinuousPublisher!OnOwnTimeline` (`hls_continuous.go:64`): a tick that `Wait` did not wait for aligns segments of the
  next generation. It may also replace that generation's `index.m3u8` and `job.json` by what it has read before: TLC refutes
  `ListedIsServable`, `OnlyGrows` and `StatusIsTrue` when `~stray` is dropped from them.
- `HLSVODSession!InProgressNotServed` (`docs/hls-vod-contract.md:77`): between the start of ffmpeg and `InstallJob` (and while
  the old one is being killed) no job is active for the session, and with explicit cuts a growing segment is served.
- `HLSVODSession!UnlinkSparesReaders` (`hls_vod_session.go:56`): the unlink at line 371 happens after the lock is dropped,
  and a new reader's path goes.
- `MCDecisions!RemuxRestartsFollowPlan` (`hls_vod_job.go:416-427`): a remux seeks 0.5 s past the keyframe it wants; with a
  keyframe that close, it starts on the next one and the segment's head is missing, or its bound comes too late.
- `MCDecisions!ContinuousKeyframesOnGrid` (`hls_continuous.go:376-378`): keyframes are forced every `%.0f` seconds (line 342;
  `hls_segment.go:279` likewise), which is not the grid when the segment length is not whole.
- `MCDecisions!SamplingEnds` (`sprite_sheet.go:50`): with an interval, `EndSec` bounds no sample; the count does.
- `MCDecisions!OrderHonoured` (`config.go:39-44`): with a device chain the hierarchy of the caller decides nothing;
  `[none]` still gets a hardware encoder.
- `MCDecisions!SoftwareSwitchHonoured` (`gpu_device_selection.go:14`): the switch of a `DeviceSelection` reaches the chain, not
  the detection options (`service_accel.go:43-45`), so that the resolver still falls back to software.
- `MCDecisions!DecodeDefaultsHonoured` (`encode/profile_defaults.go:22`): a request with a decoder but no accel gets the service's
  accel and then contradicts itself.

Guards of `FramesArrive` and of the cache key name behaviours no sentence rules out: vaapi, vulkan and VideoToolbox
encoders take frames of their own decoder only, and vulkan to vulkan without scaling keeps a format it does not
take; a source of more than 8 bits whose depth the caller does not tell (the HLS builders never tell it) is fetched in
the wrong format; software AV1 is always named libsvtav1 in the options, whatever was resolved; HEVC on amf or v4l2m2m gets a
preset of x265; `HLSCacheFingerprint` leaves out `InputStartTimeSec`, `PixelFormat` and `OutputHeight`, which the library's
own builders derive from what is in it.

The model also shows behaviours that no document rules out and that are recorded as hazards: the
partial path unlinked at a kill is as old as the last tick, a deferred unlink can hit a segment that
was completed since, and the previous job's CSV list is read as the new one's until ffmpeg opens it.

## 4. What is proved

Eight modules hold the proofs; all are for arbitrary constants that satisfy the `ASSUME` of the
component (finite sets of callers, natural bounds), those on pure operators for arbitrary inputs.

- `LimiterProofs`: the inductive invariant is `TypeOK /\ LeaseShape /\ SlotAccounting /\ NoMisrelease`.
  `LeaseShape` is needed because only what a caller holds at each point of its walk shows that the
  slot it gives back is in the channel; `SlotAccounting` then gives a nonempty channel, hence
  `NoMisrelease`. From it follow the theorems of the same names and `LimiterImplementsPool`: taking
  the tier is the `Grant` of the pool, starting to release its `Finish`, all else stutters.
  With stray releases (`MisuseSpec`) the invariant is `StrayInv`: on each channel, what is held beyond its length is a
  gap that a stray tore, and the gaps plus the misreleases are the strays. `OverAdmissionIsBounded` and
  `MisuseIsContained` follow.
- `HLSVODSessionProofs`: the invariant adds to the types: one client at a time is past `restartMu`
  (`OneRestart`), where the live process is at each point of the hand-off (`HandOff`), and that in
  no hand-off the live process is the session's job (`SettledJob`). `OneActiveJob` and `NoOrphanJob`
  follow from the last two; neither is inductive alone, since after `TakeJob` the process is known only
  to the client. Theorems: `TypeCorrect`, `NoJobIsOrphaned`, `AtMostOneActiveJob`,
  `InstalledJobIsWatched`, `DeferredUnlinkHasReader`. Two action properties need invariants of their own on top of it. `GapsAreFilled`
  (for `Clear`, the option that bounds jobs): in the range of a job that was started for a missing segment nothing is ready that it has not
  opened yet (`GapAhead`), since clearing left nothing (`GapAtStart`), one ffmpeg runs and the others only unlink. `AloneNoRestartLoop`:
  while a request is under way, its job is the only live one, makes the segment asked for before any other (`Progress`), and is waited for as
  long as it runs (`HeadAhead`); so a restart finds it dead, and does not unlink the segment if it was made (`Loop`). Its hypothesis is a single client:
  with two, one may restart over what the job of the other has made, and unlink it as its own partial segment.
- `EncodeHeadProofs`: the invariant says what a refresh in flight may still store while the session's
  job is the one it read: an index from the job's start whose predecessors were all seen done.
  Theorems: `TypeCorrect`, `HeadStaysBacked`.
- `DetectionProofs`: the invariant `DetectionInv` says that whoever is between lock and record holds
  `detectMu`, that nothing is cached by `ensureDetected` meanwhile, and that no cancellation is cached.
  Theorems: `TypeCorrect`, `OperationsAreDetected`, `CancellationIsPrivate`, `DetectionRunsOnce`.
- `ContinuousPublisherProofs`: two invariants. `TInv` holds in every state: types, playlists within the media (`Bounds`), and
  who may run when (`Phases`: of the earlier generations the ticks only). `TypeCorrect` follows from it. `IInv` holds until `stray`: which
  `startSec` can be in `seg/` at each point of the preparation (`Timeline`), and that what any aligner still running believes
  published, and what the artifacts count, is in `seg/` (`Published`, `Served`). So `ListedIsServed`, `ListedStaysListed` and
  `StatusTellsTruth` are about every behaviour up to the first state where a generation with `temp_file` meets a pass of an earlier
  one; the passes that run into a resume, or wait for the lock, are within them, and nothing is assumed about the host. One lemma,
  `MoveStep`, covers the aligner: no step of it makes a segment unservable. `OnlyGrows`
  needs more: passes exclude each other (`Excludes`), and the pass under way has parsed a playlist that
  holds everything listed so far (`Grown`). `StatusIsTrue` rests on both: a pass writes the index and then the status from the same
  published map, so the status is never ahead (`Written`, `Follows`); the scan of the final pass reads a playlist that nobody
  rewrites any more, for ffmpeg has ended (`FinalScan`), so what it publishes is all of it (`Told`);
  and a pass that comes after it, of the same generation or of one that it resumes, starts from that playlist and finds every segment
  served or not to be parsed (`Covers`), so it writes the same again.
- `ServiceCallsProofs`: the invariant says, per station, which process, copy, slot, temporary and destination a call may have; a
  lemma per station shows that a step keeps its own call's part, and calls share only the slots. Theorems: `TypeCorrect`,
  `ProcessesAreCounted`, `FilesStayWhole`, `WritersAreLeftAlone`, and `CallsUseThePool`, the refinement of `SlotPool`.
- `MediaProofs`, for media of any length and every request and answer of the probe. Loops over keyframes, segments, samples and boxes
  are recursive functions. The library's induction theorems take an operator, which the provers cannot instantiate; here induction is
  done by the least counterexample instead: a set of naturals that is not empty has a least member (`LeastNatural`, from the library's
  well-foundedness of `<`), hence what each turn of a loop keeps holds after the last (`InductionUpTo`), and a recursive function is
  what its equation says (`RecursionUpTo`, from the library's recursion theorem).
  - plans: `ProbesFindKeyframes` (the merge of packets and frames loses no keyframe), `FixedGridTiles`, `FilePlansServe` (the grid and the
    plan on keyframes tile the media of any file, the latter cutting on keyframes only, and the index found for a time is the segment that
    holds it), `TargetDurationCovers`;
  - jobs on a plan: `RestartsFollowPlans` (a copy started at any segment cuts where the plan does, up to its hand-off),
    `TranscodesFollowGrid`, `CopiesStartOnKeyframes`, `SegmentsAreAsListed`;
  - segments: `PipelineIsJustified` (video is copied only when it is H.264 of an allowed height that nobody wants encoded),
    `KeysTellApart` (segments that are made differently have different cache keys);
  - media jobs: `RecordingIsJustified`, `JoinIsJustified` (any number of clips), `SheetsHoldTheirSamples` (any grid: the cells are distinct
    and inside), `SamplesReachTheEnd` (any window), `FramesAreReachable`;
  - files: `InitsAreWhole` and `SegmentsAreParseable` (any boxes, any prefix), `AlignmentIsSound` (any samples and any number of tracks),
    `PublishedSegmentsValidate` (any number of segments). Their hypotheses say what the files are: timescales that divide `Resolution`,
    so that times compare exactly (`AreScales`); boxes that are not empty (`AreBoxes`); a moov that is playable and
    comes before the fragments (`InitFirst`); segments with the same known tracks, video being track 1, in order (`AreCut`). The proof of the
    last rests on `OneShift`: when segments follow one another and last as long as listed, all are moved by the same number of ticks.
- `DecisionProofs`: for every host, backend order, device chain and request. The argument has two halves: every entry of detection's
  matrix names an available encoder of its codec and of the accel it says (`SoundSelection`, through `DetectionIsSound`), and whatever
  the resolver answers from sound entries honours the request. Theorems: `ChoicesHonourRequests`, `SoftwareIsNeverUnasked` (for a
  chain that is not empty, as the service always makes it), `AutomaticRequestsSucceed`, `ReportsAreUsable` (an order that was given is reported as it is, one that
  was not is reported without the backends nobody can ask for), `OptionsFit`. All suppose that detection
  did not fail, as the code does not resolve otherwise. `AutomaticRequestsSucceed` has one hypothesis more: where H.264 is pinned on a
  Raspberry Pi there is a software H.264 encoder. Without it the statement is false: where neither the
  pinned encoder nor libx264 is compiled and the order of backends names none that is, the chain is not asked and H.264 is refused,
  though a device of the chain may have an encoder for it (`capabilities/device_selection.go:14-62`).
  `FramesReachEncoders` follows a frame through the graph of every pair of decoder and encoder, one lemma per encoder family and what
  it does with frames of its own, of another device and of system memory.
  For devices the host is any list of GPUs with distinct ids, which is what `ListGPUDevices` makes of what the probes report (`ListedGPUs`).
  A list filtered by indices (`Sublist`) keeps their order and number, shown along the recursion that builds it; since an id finds its device again,
  completing a choice changes nothing. Theorems: `SelectorsAreHonoured`, `ListedNamesAreFound` (a name
  that fits the name or the render node of a listed device is answered with such a device), `PicksAreOnTheHost`, `DefaultChainsAreComplete` and
  `ConfigsAreHonoured`, which goes from the configuration to the encoder of a job: an element of the chain is software only if a selector asked
  for it or the fallback is allowed, and what follows is `SoftwareIsNeverUnasked`, `AutomaticRequestsSucceed` and `ChoicesHonourRequests`. The first
  and third suppose of the GPUs (`IsDeviceEnv`, `IsClassed`, `IsNamedApart`) that no NVIDIA GPU is integrated (`platform/gpu_select.go`, `classifyIntegrated`), that
  a device named after a render node is that node's, as only one without a name is, that only a Pi has a SoC class, and, beyond the code, that no integrated GPU has
  "discrete" in its name and no GPU the name of the Pi's SoC: a name of the former kind would answer the selector of a discrete GPU on Windows.
  From these and from `MediaProofs` follow all seven invariants of `Decisions_sound` as theorems of its specification: `EncodersAreHonoured`,
  `DevicesAreHonoured`, `FramesAlwaysArrive`, `MediaJobsAreSound`, `PlansServe`, `JobsFollowPlans` and `FragmentsAreSound`. Each needs only that a question
  asked stays the question, and that its arguments satisfy the hypotheses of the general theorems, which is checked action by action.

Every safety invariant of a passing run is thus a theorem. Only model-checked: liveness (`Served`, `Returns`, `HeadCatchesUp`, `CallsReturn`,
`JobEnds`, `CancelledCallsEnd`) and everything that needs `ENABLED`, which are out of the prover's reach.

## 5. Not modelled

- Text: argument lists beyond what their options decide, rate control, parsing of what `ffmpeg -encoders` and `ffprobe` print,
  reports, hints, error wording, logging.
- Bytes: boxes that are passed through, hashing of cache keys, images and the luma search of captures (a loop of captures
  whose result is the brightest).
- I/O of the host: sysfs, lspci, WMI, environment variables, discovery of binaries; what they say is the input of `DeviceChain`.
- Floating point: times are integers (see `MediaTimeline`), so errors below 10 ms are not seen.
- Errors of the file system in a VOD session other than a missing file, and Windows, where an open file cannot be unlinked;
  hosts that call `InstallJob`, `SetJob` or `AlignContinuousHLSSegments` themselves. A program crash is a new initial state of the session.
- The operation registry (`ops/operation.go`, `register.go`) is a constant table and a conjunction; probe queries, command line, examples
  and test tools are callers without state.

The components are listed in `PROJECT.json`, those without a module with the reason.

## 6. What could follow

The plan of the first version is done: `ServiceCalls` took the place of its first two items (background leases, stream writers), the planner,
encoder choice and recording decisions are in the `Decisions` modules. Worth adding:
a composition of `HLSVODSession` with `ServiceCalls`, where
`startJob` waits for the slot that the killed job gives back in a goroutine of its own.
