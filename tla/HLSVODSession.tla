---------------------------- MODULE HLSVODSession ----------------------------
(***************************************************************************)
(* ops/hls_vod_session.go and the job it drives (hls_vod_job.go): clients  *)
(* wait for segments of one cache directory, the session decides between   *)
(* serving, waiting and restarting ffmpeg, a watcher goroutine per         *)
(* installed job tracks the encode head, and ffmpeg itself writes the      *)
(* segments, in one of two ways:                                           *)
(*   explicitCopy = FALSE: -f hls with temp_file: seg/k.m4s.tmp, then a    *)
(*                         rename;                                         *)
(*   explicitCopy = TRUE:  -f segment (copy/remux): seg/k.m4s in place,    *)
(*                         listed in a live CSV once closed.               *)
(* One action is one critical section of s.mu or one access to the         *)
(* directory, except that refreshEncodeHead (whose own races EncodeHead.tla *)
(* models) is one step with the critical section it prepares.  restartMu is *)
(* held over many actions.                                                 *)
(***************************************************************************)
EXTENDS Integers, FiniteSets

CONSTANTS Clients,    \* goroutines in WaitForSegment
          N,          \* SegmentCount; segment N is past the end
          Requests,   \* the indices clients ask for, a subset of 0..N
          Gap,        \* HLSVODMaxWaitSegmentGap
          Kinds,      \* the values of explicitCopy that are checked
          Clear,      \* HLSVODJobOptions.ClearSegmentsFromIndex
          Cached,     \* what an earlier run of the program may have left of a segment
          MaxJobs,    \* bound: jobs started
          MaxCrashes  \* bound: ffmpeg exits that nobody asked for

ASSUME SessionAssumption ==
  /\ IsFiniteSet(Clients)
  /\ N \in Nat \ {0} /\ Gap \in Nat \ {0}
  /\ Requests \subseteq 0..N
  /\ Kinds \subseteq BOOLEAN /\ Clear \in BOOLEAN
  /\ Cached \subseteq {"part", "frag", "full"}
  /\ MaxJobs \in Nat /\ MaxCrashes \in Nat

Segs     == 0..N
JobIds   == 1..MaxJobs
NoJob    == 0
NoPath   == -1           \* partialPath = ""
Watchers == JobIds \X {1, 2}   \* InstallJob may run twice for one job

VARIABLES
  file,       \* seg/k.m4s: "none", "part" (ends inside a box), "frag" (ends
              \* after a whole moof/mdat of an unfinished segment) or "full"
  tmp,        \* seg/k.m4s.tmp exists
  csv,        \* indices listed in .ffmpeg-vod-segments.csv
  jobs,       \* the ffmpeg processes and their job handles; over is history:
              \* the first segment was ready when the process was started
  crashes,    \* crashes so far
  job, jobStart, head, partial, restarting,    \* the session's fields
  readers, pending,                            \* pathReaders, pendingUnlink
  explicitCopy, \* the session's kind of job (attachJob sets it to what it was)
  restartMu,  \* {} or the client that holds it
  watching,   \* the watchJob goroutines that run
  cl          \* where each client is in WaitForSegment, with its locals; new
              \* is the job its request started last

fsVars   == <<file, tmp, csv>>
ffVars   == <<jobs, crashes>>
sesVars  == <<job, jobStart, head, partial, restarting, readers, pending>>
vars == <<fsVars, ffVars, sesVars, restartMu, watching, cl, explicitCopy>>

Idle      == [pc |-> "idle", k |-> 0, active |-> FALSE, old |-> NoJob,
              partial |-> NoPath, new |-> NoJob, got |-> "none"]
NotStarted == [st |-> "none", start |-> 0, stop |-> 0, w |-> 0, wr |-> "none",
               over |-> FALSE]

(* A new session finds the directory as an earlier one left it: unfinished  *)
(* segments are in-place ones, and the CSV lists those that were closed.   *)
Init ==
  /\ explicitCopy \in Kinds
  /\ file \in [Segs -> {"none"} \cup Cached] /\ file[N] = "none"
  /\ \A k \in Segs : file[k] \in {"part", "frag"} => explicitCopy
  /\ tmp = [k \in Segs |-> FALSE]
  /\ csv = {k \in Segs : explicitCopy /\ file[k] = "full"}
  /\ jobs = [j \in JobIds |-> NotStarted] /\ crashes = 0
  /\ job = NoJob /\ jobStart = 0 /\ head = 0 /\ partial = NoPath /\ restarting = FALSE
  /\ readers = [k \in Segs |-> 0] /\ pending = {}
  /\ restartMu = {}
  /\ watching = {}
  /\ cl = [c \in Clients |-> Idle]

Alive(j)   == jobs[j].st \in {"run", "kill"}        \* the process exists
Running(j) == j # NoJob /\ Alive(j)                 \* HLSVODSegmentJob.Running
LiveJobs   == {j \in JobIds : Alive(j)}
(* Some process is in the middle of writing segment k.                     *)
BeingWritten(k) == \E j \in LiveJobs : jobs[j].w = k /\ jobs[j].wr = "open"

(* hlsVODSegmentReadyAt: no .tmp beside it, and a publishable fragment.     *)
ReadyAt(k) == ~tmp[k] /\ file[k] \in {"frag", "full"}

-----------------------------------------------------------------------------
(* ffmpeg, as the code uses it (argv of BuildHLSVODFFmpegArgs).            *)

SetJob(j, f, v) == jobs' = [jobs EXCEPT ![j][f] = v]

(* The muxer opens: the segment muxer truncates the CSV list.               *)
FFOpen(j) ==
  /\ Alive(j) /\ jobs[j].wr = "boot"
  /\ SetJob(j, "wr", "idle")
  /\ csv' = IF explicitCopy THEN {} ELSE csv
  /\ UNCHANGED <<file, tmp, crashes, sesVars, restartMu, watching, cl, explicitCopy>>

(* Input left to write: below the segment count and the -t bound.           *)
HasNext(j) == /\ jobs[j].w < N
              /\ jobs[j].stop > jobs[j].start => jobs[j].w < jobs[j].stop

FFBegin(j) ==
  /\ Alive(j) /\ jobs[j].wr = "idle" /\ HasNext(j)
  /\ SetJob(j, "wr", "open")
  /\ IF explicitCopy THEN file' = [file EXCEPT ![jobs[j].w] = "part"] /\ UNCHANGED tmp
                 ELSE tmp' = [tmp EXCEPT ![jobs[j].w] = TRUE] /\ UNCHANGED file
  /\ UNCHANGED <<csv, crashes, sesVars, restartMu, watching, cl, explicitCopy>>

(* An in-place segment that grows ends inside a box or on a box boundary.   *)
FFGrow(j) ==
  /\ explicitCopy /\ Alive(j) /\ jobs[j].wr = "open" /\ file[jobs[j].w] # "none"
  /\ file' = [file EXCEPT ![jobs[j].w] = IF @ = "frag" THEN "part" ELSE "frag"]
  /\ UNCHANGED <<tmp, csv, ffVars, sesVars, restartMu, watching, cl, explicitCopy>>

(* temp_file: the rename publishes the finished segment.                    *)
FFPublish(j) ==
  /\ ~explicitCopy /\ Alive(j) /\ jobs[j].wr = "open"
  /\ tmp' = [tmp EXCEPT ![jobs[j].w] = FALSE]
  /\ file' = [file EXCEPT ![jobs[j].w] = IF tmp[jobs[j].w] THEN "full" ELSE @]
  /\ jobs' = [jobs EXCEPT ![j].w = @ + 1, ![j].wr = "idle"]
  /\ UNCHANGED <<csv, crashes, sesVars, restartMu, watching, cl, explicitCopy>>

(* -f segment: the file is closed, then its line is appended to the CSV.    *)
FFClose(j) ==
  /\ explicitCopy /\ Alive(j) /\ jobs[j].wr = "open"
  /\ file' = [file EXCEPT ![jobs[j].w] = IF @ = "none" THEN @ ELSE "full"]
  /\ SetJob(j, "wr", "closed")
  /\ UNCHANGED <<tmp, csv, crashes, sesVars, restartMu, watching, cl, explicitCopy>>

FFList(j) ==
  /\ explicitCopy /\ Alive(j) /\ jobs[j].wr = "closed"
  /\ csv' = csv \cup {jobs[j].w}
  /\ jobs' = [jobs EXCEPT ![j].w = @ + 1, ![j].wr = "idle"]
  /\ UNCHANGED <<file, tmp, crashes, sesVars, restartMu, watching, cl, explicitCopy>>

(* cmd.Run returns and ffmpegDone is closed: at the end of the input or of  *)
(* the -t bound, by the kill of the context, or by a crash.                *)
FFExit(j) ==
  /\ Alive(j) /\ jobs[j].wr = "idle" /\ ~HasNext(j)
  /\ SetJob(j, "st", "done")
  /\ UNCHANGED <<fsVars, crashes, sesVars, restartMu, watching, cl, explicitCopy>>

FFKilled(j) ==
  /\ jobs[j].st = "kill"
  /\ SetJob(j, "st", "done")
  /\ UNCHANGED <<fsVars, crashes, sesVars, restartMu, watching, cl, explicitCopy>>

FFCrash(j) ==
  /\ Alive(j) /\ crashes < MaxCrashes
  /\ crashes' = crashes + 1
  /\ SetJob(j, "st", "done")
  /\ UNCHANGED <<fsVars, sesVars, restartMu, watching, cl, explicitCopy>>

FFStep(j) == \/ FFOpen(j) \/ FFBegin(j) \/ FFPublish(j) \/ FFClose(j) \/ FFList(j)
             \/ FFExit(j) \/ FFKilled(j)

-----------------------------------------------------------------------------
(* refreshEncodeHead: the smallest index from jobStart not listed, capped   *)
(* at the StopIndex (explicit cuts), or from the head on not ready.        *)
FirstFrom(h, Done(_)) ==
  CHOOSE i \in h..(N + 1) : ~(i \in Segs /\ Done(i)) /\ \A m \in h..(i - 1) : Done(m)
Listed(i) == i \in csv
CappedHead == LET stop == jobs[job].stop
                  h    == FirstFrom(jobStart, Listed)
              IN  IF stop > jobStart /\ h > stop THEN stop ELSE h
NewHead == IF job = NoJob THEN head
           ELSE IF explicitCopy THEN CappedHead ELSE FirstFrom(head, ReadyAt)
RefreshEncodeHead == head' = NewHead

(* partialSegmentPathLocked                                                *)
PartialOf(h, j) == IF jobs[j].stop > jobs[j].start /\ h >= jobs[j].stop THEN NoPath ELSE h

-----------------------------------------------------------------------------
(* watchJob: a tick of a running job refreshes the head and notes the path  *)
(* being written; when the job is over the session forgets it.             *)
WatchTick(w) ==
  /\ w \in watching /\ Alive(w[1])
  /\ RefreshEncodeHead
  /\ partial' = IF job = w[1] THEN PartialOf(NewHead, w[1]) ELSE partial
  /\ UNCHANGED <<fsVars, ffVars, job, jobStart, restarting, readers, pending,
                 restartMu, watching, cl, explicitCopy>>

WatchEnd(w) ==
  /\ w \in watching /\ ~Alive(w[1])
  /\ watching' = watching \ {w}
  /\ IF job = w[1] THEN job' = NoJob /\ UNCHANGED head ELSE RefreshEncodeHead /\ UNCHANGED job
  /\ UNCHANGED <<fsVars, ffVars, jobStart, partial, restarting, readers, pending,
                 restartMu, cl, explicitCopy>>

-----------------------------------------------------------------------------
(* WaitForSegment and performRestart                                       *)

At(c, p)     == cl[c].pc = p
Go(c, p)     == cl' = [cl EXCEPT ![c].pc = p]
Become(c, r) == cl' = [cl EXCEPT ![c] = r]

Request(c) ==
  /\ At(c, "idle")
  /\ \E k \in Requests : Become(c, [Idle EXCEPT !.pc = "ctx", !.k = k])
  /\ UNCHANGED <<fsVars, ffVars, sesVars, restartMu, watching, explicitCopy>>

(* ctx is done at the top of the loop, in sleepCtx or before restartMu.     *)
Cancelled(c) ==
  /\ At(c, "ctx") \/ At(c, "lock")
  /\ Become(c, Idle)
  /\ UNCHANGED <<fsVars, ffVars, sesVars, restartMu, watching, explicitCopy>>

(* explicitCopyJobActive, read before the CSV and the file are.             *)
CheckActive(c) ==
  /\ At(c, "ctx")
  /\ cl' = [cl EXCEPT ![c].active = explicitCopy /\ (restarting \/ Running(job)),
                      ![c].pc = IF explicitCopy THEN "list" ELSE "open"]
  /\ UNCHANGED <<fsVars, ffVars, sesVars, restartMu, watching, explicitCopy>>

(* HLSVODExplicitCopySegmentReady: k+1 listed, or no job.                   *)
CheckListed(c) ==
  /\ At(c, "list")
  /\ Go(c, IF cl[c].k + 1 \in csv \/ ~cl[c].active THEN "open" ELSE "view")
  /\ UNCHANGED <<fsVars, ffVars, sesVars, restartMu, watching, explicitCopy>>

(* hlsVODOpenPublishableFile.  "live" records a file opened in mid-write.   *)
Open(c) ==
  /\ At(c, "open")
  /\ LET k == cl[c].k
     IN  IF ReadyAt(k)
           THEN cl' = [cl EXCEPT ![c].pc = "found",
                                 ![c].got = IF explicitCopy /\ BeingWritten(k) THEN "live"
                                            ELSE file[k]]
           ELSE Go(c, "view")
  /\ UNCHANGED <<fsVars, ffVars, sesVars, restartMu, watching, explicitCopy>>

(* Mutant: the path is served without being marked as read.                 *)
AcquireServePath_NotCounted(c) ==
  /\ At(c, "found")
  /\ RefreshEncodeHead
  /\ Go(c, "reading")
  /\ UNCHANGED <<fsVars, ffVars, job, jobStart, partial, restarting, readers, pending,
                 restartMu, watching, explicitCopy>>

AcquireServePath(c) ==
  /\ At(c, "found")
  /\ RefreshEncodeHead
  /\ readers' = [readers EXCEPT ![cl[c].k] = @ + 1]
  /\ Go(c, "reading")
  /\ UNCHANGED <<fsVars, ffVars, job, jobStart, partial, restarting, pending,
                 restartMu, watching, explicitCopy>>

(* Mutant: the last reader unlinks but leaves the path pending.             *)
ReleaseServePath_KeepsPending(c) ==
  /\ At(c, "reading")
  /\ LET k == cl[c].k
     IN  /\ readers' = [readers EXCEPT ![k] = @ - 1]
         /\ IF readers[k] = 1 /\ k \in pending THEN Go(c, "unlinkRead") ELSE Become(c, Idle)
  /\ UNCHANGED <<fsVars, ffVars, job, jobStart, head, partial, restarting, pending,
                 restartMu, watching, explicitCopy>>

(* ReleaseServePath: the last reader of a path takes the deferred unlink    *)
(* and performs it after the lock is dropped.                              *)
ReleaseServePath(c) ==
  /\ At(c, "reading")
  /\ LET k == cl[c].k
         last == readers[k] = 1
     IN  /\ readers' = [readers EXCEPT ![k] = @ - 1]
         /\ pending' = IF last THEN pending \ {k} ELSE pending
         /\ IF last /\ k \in pending THEN Go(c, "unlinkRead") ELSE Become(c, Idle)
  /\ UNCHANGED <<fsVars, ffVars, job, jobStart, head, partial, restarting,
                 restartMu, watching, explicitCopy>>

(* unlinkSegmentPath                                                       *)
Unlink(k) ==
  /\ file' = IF k \in Segs THEN [file EXCEPT ![k] = "none"] ELSE file
  /\ tmp' = IF k \in Segs THEN [tmp EXCEPT ![k] = FALSE] ELSE tmp
  /\ UNCHANGED csv

UnlinkRead(c) ==
  /\ At(c, "unlinkRead")
  /\ Unlink(cl[c].k)
  /\ Become(c, Idle)
  /\ UNCHANGED <<ffVars, sesVars, restartMu, watching, explicitCopy>>

(* Mutant: without the job.Running test a dead job is waited for.           *)
MustRestart_IgnoresEnd(k) ==
  LET i == IF k >= N THEN N - 1 ELSE k
  IN  i < jobStart \/ i - NewHead > Gap

(* Mutant: the job's own first segment counts as before it.                *)
MustRestart_OffByOne(k) ==
  LET i == IF k >= N THEN N - 1 ELSE k
  IN  ~Running(job) \/ i <= jobStart \/ i - NewHead > Gap

(* DecideHLSVODSegmentAction(cfg, jobView(), k, ready = FALSE) = restart    *)
MustRestart(k) ==
  LET i == IF k >= N THEN N - 1 ELSE k
  IN  ~Running(job) \/ i < jobStart \/ i - NewHead > Gap

(* jobView refreshes the head and forgets a job that has ended.             *)
JobView == RefreshEncodeHead /\ job' = IF Running(job) THEN job ELSE NoJob

Decide(c) ==
  /\ At(c, "view")
  /\ JobView
  /\ Go(c, IF MustRestart(cl[c].k) THEN "lock" ELSE "ctx")
  /\ UNCHANGED <<fsVars, ffVars, jobStart, partial, restarting, readers, pending,
                 restartMu, watching, explicitCopy>>

LockRestart(c) ==
  /\ At(c, "lock")
  /\ restartMu = {}
  /\ restartMu' = {c}
  /\ Go(c, "recheck")
  /\ UNCHANGED <<fsVars, ffVars, sesVars, watching, explicitCopy>>

Recheck(c) ==
  /\ At(c, "recheck")
  /\ JobView
  /\ IF MustRestart(cl[c].k) THEN Go(c, "take") /\ UNCHANGED restartMu
                             ELSE Go(c, "ctx") /\ restartMu' = {}
  /\ UNCHANGED <<fsVars, ffVars, jobStart, partial, restarting, readers, pending,
                 watching, explicitCopy>>

(* Mutant: s.job is reset before it is saved, so nothing is cancelled.      *)
TakeJob_Loses(c) ==
  /\ At(c, "take")
  /\ cl' = [cl EXCEPT ![c].pc = "wait", ![c].old = NoJob, ![c].partial = partial]
  /\ job' = NoJob
  /\ UNCHANGED <<fsVars, ffVars, jobStart, head, partial, restarting, readers, pending,
                 restartMu, watching, explicitCopy>>

(* The session lets go of the old job, then kills it and waits for its end. *)
TakeJob(c) ==
  /\ At(c, "take")
  /\ cl' = [cl EXCEPT ![c].pc = "wait", ![c].old = job, ![c].partial = partial]
  /\ job' = NoJob
  /\ jobs' = IF Running(job) THEN [jobs EXCEPT ![job].st = "kill"] ELSE jobs
  /\ UNCHANGED <<fsVars, crashes, jobStart, head, partial, restarting, readers, pending,
                 restartMu, watching, explicitCopy>>

(* Mutant: Cancel without Wait.                                            *)
WaitOld_NoWait(c) ==
  /\ At(c, "wait")
  /\ restarting' = TRUE
  /\ Go(c, "defer")
  /\ UNCHANGED <<fsVars, ffVars, job, jobStart, head, partial, readers, pending,
                 restartMu, watching, explicitCopy>>

WaitOld(c) ==
  /\ At(c, "wait")
  /\ ~Running(cl[c].old)
  /\ restarting' = TRUE
  /\ Go(c, "defer")
  /\ UNCHANGED <<fsVars, ffVars, job, jobStart, head, partial, readers, pending,
                 restartMu, watching, explicitCopy>>

(* deferUnlinkPath: what it leaves alone.                                  *)
KeepPartial(p, old) ==
  \/ p = NoPath
  \/ ~explicitCopy /\ p \in Segs /\ ReadyAt(p)
  \/ explicitCopy /\ p \in csv
  \/ /\ explicitCopy /\ p \in Segs /\ ReadyAt(p)
     /\ old # NoJob /\ jobs[old].stop > jobs[old].start /\ p >= jobs[old].stop

(* Nothing is unlinked (kept, or left to the last reader), or the path and  *)
(* its .tmp are; then restarting is reset.                                 *)
DeferUnlink(c) ==
  /\ At(c, "defer")
  /\ LET p == cl[c].partial
         read == p \in Segs /\ readers[p] > 0
     IN  \/ /\ KeepPartial(p, cl[c].old) \/ read
            /\ pending' = IF KeepPartial(p, cl[c].old) THEN pending ELSE pending \cup {p}
            /\ restarting' = FALSE
            /\ Go(c, "start")
         \/ /\ ~KeepPartial(p, cl[c].old) /\ ~read
            /\ Go(c, "unlinkPartial")
            /\ UNCHANGED <<pending, restarting>>
  /\ UNCHANGED <<fsVars, ffVars, job, jobStart, head, partial, readers,
                 restartMu, watching, explicitCopy>>

UnlinkPartial(c) ==
  /\ At(c, "unlinkPartial")
  /\ Unlink(cl[c].partial)
  /\ restarting' = FALSE
  /\ Go(c, "start")
  /\ UNCHANGED <<ffVars, job, jobStart, head, partial, readers, pending,
                 restartMu, watching, explicitCopy>>

(* Mutant: no hand-off bound, the job runs over the cached tail.            *)
StaleBound_None(k) == 0

(* clearStaleVODSegments from index k: every .tmp goes, and the not-ready   *)
(* segments up to the first ready one, which bounds the job.  Index 0 is no *)
(* bound: the code's "none yet" is bound = 0.                              *)
StaleBound(k) ==
  LET ready == {i \in k..N : i > 0 /\ ReadyAt(i)}
  IN  IF ready = {} THEN 0 ELSE CHOOSE i \in ready : \A m \in ready : i <= m
Stale(k) == {i \in k..N : ~ReadyAt(i) /\ (StaleBound(k) > 0 => i < StaleBound(k))}

(* prepareVODOutputLayout up to the entries of segment m, in name order.    *)
Prepared(k, m) ==
  /\ file' = [i \in Segs |-> IF Clear /\ i \in Stale(k) /\ i < m THEN "none" ELSE file[i]]
  /\ tmp' = [i \in Segs |-> tmp[i] /\ ~(Clear /\ i < m)]
  /\ UNCHANGED csv

(* StartHLSVODSegmentJob at StartIndex = k: prepare the directory, start    *)
(* ffmpeg in a goroutine.                                                  *)
StartJob(c) ==
  /\ At(c, "start")
  /\ \E j \in JobIds :
       /\ jobs[j].st = "none" /\ \A i \in 1..(j - 1) : jobs[i].st # "none"
       /\ LET k == cl[c].k
              b == IF Clear THEN StaleBound(k) ELSE 0
          IN  /\ Prepared(k, N + 1)
              /\ jobs' = [jobs EXCEPT ![j] = [st |-> "run", start |-> k,
                                              stop |-> IF b > k THEN b ELSE 0,
                                              w |-> k, wr |-> "boot", over |-> ReadyAt(k)]]
       /\ cl' = [cl EXCEPT ![c].pc = "install", ![c].new = j]
  /\ UNCHANGED <<crashes, sesVars, restartMu, watching, explicitCopy>>

(* startJob returns an error: before the directory is touched (no slot, bad *)
(* options), in the middle of its preparation, or after it (no arguments).  *)
StartFails(c) ==
  /\ At(c, "start")
  /\ \E m \in 0..(N + 1) : Prepared(cl[c].k, m)
  /\ restartMu' = {}
  /\ Become(c, Idle)
  /\ UNCHANGED <<ffVars, sesVars, watching, explicitCopy>>

(* Mutant: attachJob without "go s.watchJob(job)".                         *)
Attach_NoWatcher(j, i) ==
  /\ job' = j
  /\ jobStart' = jobs[j].start
  /\ head' = jobs[j].start
  /\ partial' = PartialOf(jobs[j].start, j)
  /\ UNCHANGED watching

(* attachJob                                                               *)
Attach(j, i) ==
  /\ job' = j
  /\ jobStart' = jobs[j].start
  /\ head' = jobs[j].start
  /\ partial' = PartialOf(jobs[j].start, j)
  /\ watching' = watching \cup {<<j, i>>}

(* StartHLSVODSegmentJob registers the job with opts.Session ...            *)
Install(c) ==
  /\ At(c, "install")
  /\ Attach(cl[c].new, 1)
  /\ Go(c, "ensure")
  /\ UNCHANGED <<fsVars, ffVars, restarting, readers, pending, restartMu, explicitCopy>>

(* ... and performRestart registers it again if it is not the session's.    *)
Ensure(c) ==
  /\ At(c, "ensure")
  /\ IF job # cl[c].new THEN Attach(cl[c].new, 2)
                        ELSE UNCHANGED <<job, jobStart, head, partial, watching>>
  /\ restartMu' = {}
  /\ cl' = [cl EXCEPT ![c] = [Idle EXCEPT !.pc = "ctx", !.k = cl[c].k, !.new = cl[c].new]]
  /\ UNCHANGED <<fsVars, ffVars, restarting, readers, pending, explicitCopy>>

Waiting(c) ==
  \/ CheckActive(c) \/ CheckListed(c) \/ Open(c) \/ Decide(c)
  \/ AcquireServePath(c) \/ UnlinkRead(c)

Restarting(c) ==
  \/ LockRestart(c) \/ Recheck(c) \/ TakeJob(c) \/ WaitOld(c)
  \/ DeferUnlink(c) \/ UnlinkPartial(c) \/ StartJob(c) \/ Install(c) \/ Ensure(c)

ClientStep(c) ==
  \/ Request(c) \/ Cancelled(c) \/ ReleaseServePath(c) \/ StartFails(c)
  \/ Waiting(c) \/ Restarting(c)

Next ==
  \/ \E c \in Clients : ClientStep(c)
  \/ \E w \in Watchers : WatchTick(w) \/ WatchEnd(w)
  \/ \E j \in JobIds : FFStep(j) \/ FFGrow(j) \/ FFCrash(j)

Spec == Init /\ [][Next]_vars

(* ffmpeg reaches the end of its input, or dies when killed; goroutines are  *)
(* scheduled and a ticker wakes a waiting client; a mutex that is released   *)
(* again and again is obtained (Go's starvation mode): strong fairness.     *)
(* startJob may always fail and never has to.                              *)
Fairness ==
  /\ \A j \in JobIds : WF_vars(FFStep(j))
  /\ \A w \in Watchers : WF_vars(WatchTick(w)) /\ WF_vars(WatchEnd(w))
  /\ \A c \in Clients : WF_vars(Waiting(c)) /\ SF_vars(Restarting(c))

LiveSpec == Spec /\ Fairness

-----------------------------------------------------------------------------
(* PROPERTIES                                                              *)

HandOffPCs == {"wait", "defer", "unlinkPartial", "start", "install"}
RestartPCs == HandOffPCs \cup {"recheck", "take", "ensure"}
PCs == {"idle", "ctx", "list", "open", "found", "reading", "unlinkRead", "view", "lock"}
         \cup RestartPCs

DirType ==
  /\ file \in [Segs -> {"none", "part", "frag", "full"}]
  /\ tmp \in [Segs -> BOOLEAN]
  /\ csv \subseteq Segs

JobType ==
  /\ jobs \in [JobIds -> [st : {"none", "run", "kill", "done"}, start : Segs, stop : Segs,
                          w : Segs, wr : {"none", "boot", "idle", "open", "closed"},
                          over : BOOLEAN]]
  /\ crashes \in 0..MaxCrashes

SessionType ==
  /\ job \in {NoJob} \cup JobIds
  /\ jobStart \in Segs /\ head \in 0..(N + 1)
  /\ partial \in {NoPath} \cup 0..(N + 1)
  /\ restarting \in BOOLEAN
  /\ readers \in [Segs -> Nat]
  /\ pending \subseteq Segs

Locals == [pc : PCs, k : Segs, active : BOOLEAN, old : {NoJob} \cup JobIds,
           partial : {NoPath} \cup 0..(N + 1), new : {NoJob} \cup JobIds,
           got : {"none", "frag", "full", "live"}]

(* Type invariant: the domains of the directory, jobs, session and clients. *)
TypeOK ==
  /\ DirType /\ JobType /\ SessionType
  /\ cl \in [Clients -> Locals]
  /\ restartMu \subseteq Clients
  /\ watching \subseteq Watchers
  /\ explicitCopy \in Kinds

(* docs/hls-vod-contract.md:85, "One active job per file + transcode        *)
(* profile": however many clients restart at once, two ffmpeg processes     *)
(* never write the directory at the same time.                             *)
OneActiveJob == \A i, j \in LiveJobs : i = j

(* No ffmpeg is leaked: a process that runs is the session's job, or the    *)
(* client that holds restartMu is about to wait for it or to install it, so *)
(* the next restart can cancel it.                                         *)
InHandOff(j) == \E c \in Clients : \/ cl[c].pc = "wait" /\ cl[c].old = j
                                   \/ cl[c].pc = "install" /\ cl[c].new = j
NoOrphanJob == \A j \in LiveJobs : job = j \/ InHandOff(j)

(* The session's job always has a watcher, which forgets it when it ends    *)
(* (the head and the partial path would go stale without one).             *)
JobIsWatched == job # NoJob => \E i \in {1, 2} : <<job, i>> \in watching

(* A deferred unlink is never forgotten: a pending path has a reader, whose *)
(* release performs it; and the reader counts match the open readers.      *)
Reading(k) == {c \in Clients : cl[c].pc = "reading" /\ cl[c].k = k}

ReadersCounted == \A k \in Segs : readers[k] = Cardinality(Reading(k))

PendingHasReader == ReadersCounted /\ \A k \in pending : Reading(k) # {}

(* A job that is started to fill a gap never opens a ready segment: the      *)
(* bound found in the directory when it was prepared still holds when        *)
(* ffmpeg gets there, and without a bound nothing ready lies ahead.          *)
GapIsFilled ==
  [][\A j \in JobIds : FFBegin(j) /\ ReadyAt(jobs[j].w) => jobs[j].over]_vars

(* A request within the playlist does not loop over restarts: it starts      *)
(* ffmpeg a second time only if the one it started did not get to its end,  *)
(* and was not killed by this restart itself, or if the segment has become   *)
(* ready since it was looked for.                                          *)
Interrupted(j) == jobs[j].st = "done" /\ (jobs[j].wr # "idle" \/ HasNext(j))
NoRestartLoop ==
  [][\A c \in Clients : StartJob(c) /\ cl[c].k < N /\ cl[c].new # NoJob =>
        \/ Interrupted(cl[c].new) /\ cl[c].old # cl[c].new
        \/ ReadyAt(cl[c].k)]_vars

(* Liveness: a call of WaitForSegment for a segment of the playlist returns  *)
(* to a client that is alone, whatever an earlier request left on the disk.  *)
(* Two ways out are left: the look at the directory that it restarts on is   *)
(* out of date, the segment got ready since; or the bound leaves no job to   *)
(* start, its first one or one in the place of one that was interrupted.     *)
(* Past the end of the playlist nothing is promised: the decision is made    *)
(* on a clamped index, the look on the index itself, which is never there.   *)
Calls(c)     == cl[c].pc = "ctx" /\ cl[c].k < N
Returned(c)  == cl[c].pc \in {"reading", "idle"}
OutOfDate(c) == cl[c].pc = "start" /\ ReadyAt(cl[c].k)
OutOfJobs(c) ==
  /\ cl[c].pc = "start" /\ \A j \in JobIds : jobs[j].st # "none"
  /\ cl[c].new # NoJob => Interrupted(cl[c].new) /\ cl[c].old # cl[c].new
Returns ==
  \A c \in Clients : Calls(c) ~> Returned(c) \/ OutOfDate(c) \/ OutOfJobs(c)

-----------------------------------------------------------------------------
(* The parts of the inductive invariant that HLSVODSessionProofs adds to the *)
(* properties above.                                                       *)

(* restartMu: one client at a time is in performRestart.                   *)
OneRestart == \A c \in Clients : cl[c].pc \in RestartPCs => restartMu = {c}

(* The job to install is a started one.                                    *)
InstallsJob == \A c \in Clients : cl[c].pc \in {"install", "ensure"} => cl[c].new \in JobIds

(* Where the live process is at each point of a restart.                   *)
HandOff(c) ==
  /\ cl[c].pc \in HandOffPCs => job = NoJob
  /\ cl[c].pc = "wait" => LiveJobs \subseteq {cl[c].old}
  /\ cl[c].pc \in {"defer", "unlinkPartial", "start"} => LiveJobs = {}
  /\ cl[c].pc \in {"install", "ensure"} => LiveJobs \subseteq {cl[c].new}
  /\ cl[c].pc = "ensure" => job \in {cl[c].new, NoJob}

SettledJob == (\A c \in Clients : cl[c].pc \notin HandOffPCs) => LiveJobs \subseteq {job}

HandOffInv == SettledJob /\ \A c \in Clients : HandOff(c)

(* ffmpeg opens segments of the playlist only.                             *)
WriterInPlaylist == \A j \in JobIds : jobs[j].wr \in {"open", "closed"} => jobs[j].w < N

-----------------------------------------------------------------------------
(* What the documents say and the code does not do; each is refuted by TLC. *)

(* docs/hls-vod-contract.md:77: with explicit cuts "multi-moof in-progress  *)
(* files are not served".                                                  *)
InProgressNotServed == \A c \in Clients : cl[c].got # "live"

(* hls_vod_job.go:43-46: a repositioned job "fills the gap and hands off to   *)
(* the cached tail instead of deleting and re-encoding over it": past its    *)
(* first segment ffmpeg never opens one that is ready.                      *)
TailKept ==
  [][\A j \in JobIds : FFBegin(j) /\ jobs[j].w > jobs[j].start => ~ReadyAt(jobs[j].w)]_vars

Unlinking(c) == UnlinkRead(c) \/ UnlinkPartial(c)

(* hls_vod_session.go:56: AcquireServePath "marks path as being read         *)
(* (defers unlink until ReleaseServePath)".                                *)
UnlinkSparesReaders ==
  [][\A c \in Clients, k \in Segs : Unlinking(c) /\ readers[k] > 0 => file'[k] = file[k]]_vars
=============================================================================
