------------------------ MODULE ContinuousPublisher ------------------------
(***************************************************************************)
(* ops/hls_continuous.go and hls_continuous_align.go: ffmpeg writes        *)
(* segments under raw/ and lists them in ffmpeg.m3u8; an aligner publishes *)
(* them under seg/, lists the contiguous prefix in index.m3u8 and sums it  *)
(* up in job.json.  The aligner's ticks and its final pass are goroutines  *)
(* that share the published map and a lock per directory.  Generations     *)
(* follow one another in a directory; the program may die between any two  *)
(* steps.                                                                  *)
(***************************************************************************)
EXTENDS Integers, FiniteSets

CONSTANTS N,        \* segments the media has
          MaxGens,  \* bound: calls of StartHLSContinuous
          Modes,    \* the values of fresh that are checked
          MaxFaults \* bound: file operations of the aligner that fail, and
                    \* segments that ffmpeg closes but nobody can parse

ASSUME PublisherAssumption ==
  /\ N \in Nat \ {0} /\ MaxGens \in Nat /\ Modes \subseteq BOOLEAN
  /\ MaxFaults \in Nat

Segs   == 0..(N - 1)
Jobs   == 1..MaxGens
Actors == Jobs \X {"tick", "final"}
Free   == <<0, "none">>
None    == -1
Missing == -2
NoList == [st |-> "none", base |-> 0, n |-> 0, end |-> FALSE]
NoIndex  == [segs |-> {}, end |-> FALSE]
NoStatus == [last |-> Missing, complete |-> FALSE]

VARIABLES host,      \* where the host is in StartHLSContinuous ("wait": job runs)
          gen,       \* the generation started last, which is its job
          fresh,     \* it starts with temp_file; else it appends to the playlist
          start,     \* startSec of each job: its own, or 0 for the head of the file
          stopped,   \* its context has ended
          ff, cnt,   \* ffmpeg: its phase, and how many segments it has listed
          raw,       \* raw/: none, part, good, or bad (closed, but not parseable)
          pl,        \* ffmpeg.m3u8
          seg, tmp,  \* seg/: the startSec a segment is aligned to; .align.tmp files
          index,     \* index.m3u8
          status,    \* job.json
          published, \* the map of each job's aligner
          lock,      \* continuousAlignLocks
          th,        \* the goroutines of each aligner, and the pass they are in
          err, done, \* of each job: err, alignDone
          errs, bad, \* bounds: faults so far
          stray      \* history: a fresh generation has met a pass of an earlier one

job   == <<host, gen, fresh, start, stopped>>
proc  == <<ff, cnt, raw, pl, bad>>
serve == <<seg, tmp, index, status>>
align == <<published, lock, th, err, done, errs>>
code  == <<job, proc, serve, align>>
vars  == <<code, stray>>

Rest(p) == [pc |-> p, pl |-> NoList, i |-> 0, changed |-> FALSE]

Init ==
  /\ host = "idle" /\ gen = 0 /\ fresh \in Modes /\ stopped = FALSE
  /\ start = [j \in Jobs |-> 0]
  /\ ff = "off" /\ cnt = 0 /\ bad = 0
  /\ raw = [k \in Segs |-> "none"] /\ pl = NoList
  /\ seg = [k \in Segs |-> None] /\ tmp = {}
  /\ index = NoIndex /\ status = NoStatus
  /\ published = [j \in Jobs |-> {}] /\ lock = Free
  /\ th = [a \in Actors |-> Rest("out")]
  /\ err = [j \in Jobs |-> "none"] /\ done = {} /\ errs = 0
  /\ stray = FALSE

Listed(p) == p.base..(p.base + p.n - 1)

(* continuousSegmentPublished, and what ContinuousSegmentServeReady serves. *)
InServeDir(k) == seg[k] # None /\ k \notin tmp

-----------------------------------------------------------------------------
(* The host: StartHLSContinuous, Cancel, Wait, and the death of the program *)

(* The last job's Wait has returned, or the program was started again; the  *)
(* host drops its handle.  A resume with append_list is one of a generation *)
(* that started at the head of the file.                                   *)
Begin ==
  /\ host = "idle" /\ gen < MaxGens
  /\ \E f \in Modes : (gen > 0 /\ fresh => f) /\ fresh' = f
  /\ gen' = gen + 1 /\ stopped' = FALSE
  /\ start' = [start EXCEPT ![gen + 1] = IF fresh' THEN gen + 1 ELSE 0]
  /\ host' = IF fresh' THEN "clear" ELSE "launch"
  /\ err' = [j \in Jobs |-> "none"] /\ done' = {}
  /\ UNCHANGED <<proc, serve, published, lock, th, errs>>

(* Mutant: seg/ is kept, as it is for a resume.                            *)
ClearDirs_KeepSeg ==
  /\ host = "clear"
  /\ raw' = [k \in Segs |-> "none"]
  /\ host' = "clearFiles"
  /\ UNCHANGED <<gen, fresh, start, stopped, ff, cnt, pl, bad, serve, align>>

(* prepareContinuousOutputLayout removes the directories, then the files.   *)
ClearDirs ==
  /\ host = "clear"
  /\ raw' = [k \in Segs |-> "none"]
  /\ seg' = [k \in Segs |-> None] /\ tmp' = {}
  /\ host' = "clearFiles"
  /\ UNCHANGED <<gen, fresh, start, stopped, ff, cnt, pl, bad, index, status, align>>

ClearFiles ==
  /\ host = "clearFiles"
  /\ pl' = NoList /\ index' = NoIndex /\ status' = NoStatus
  /\ host' = "launch"
  /\ UNCHANGED <<gen, fresh, start, stopped, ff, cnt, raw, bad, seg, tmp, align>>

(* ffmpeg and the two goroutines of the aligner start.  With append_list    *)
(* ffmpeg goes on after the segments that the playlist lists.              *)
Launch ==
  /\ host = "launch" /\ pl.n < N
  /\ host' = "wait"
  /\ ff' = "open"
  /\ IF fresh THEN cnt' = 0 /\ \E b \in Segs : pl' = [NoList EXCEPT !.base = b]
              ELSE cnt' = pl.n /\ pl' = pl
  /\ th' = [a \in Actors |-> IF a[1] = gen THEN Rest("idle") ELSE th[a]]
  /\ UNCHANGED <<gen, fresh, start, stopped, raw, bad, serve, published, lock, err, done, errs>>

(* The keyframe probe, the arguments or a file operation fails: no job.     *)
LaunchFails ==
  /\ host \in {"clearFiles", "launch"}
  /\ host' = "idle"
  /\ UNCHANGED <<gen, fresh, start, stopped, proc, serve, align>>

Cancel ==
  /\ host = "wait" /\ ~stopped
  /\ stopped' = TRUE
  /\ UNCHANGED <<host, gen, fresh, start, proc, serve, align>>

Wait ==
  /\ host = "wait" /\ gen \in done
  /\ host' = "idle"
  /\ UNCHANGED <<gen, fresh, start, stopped, proc, serve, align>>

(* Everything but the directory is gone (bound: a generation follows).      *)
Crash ==
  /\ host # "idle" /\ gen < MaxGens
  /\ host' = "idle" /\ ff' = "off" /\ lock' = Free
  /\ th' = [a \in Actors |-> Rest("out")]
  /\ published' = [j \in Jobs |-> {}] /\ err' = [j \in Jobs |-> "none"] /\ done' = {}
  /\ UNCHANGED <<gen, fresh, start, stopped, cnt, raw, pl, bad, serve, errs>>

Host == Begin \/ ClearDirs \/ ClearFiles \/ Launch \/ LaunchFails \/ Cancel \/ Wait \/ Crash

-----------------------------------------------------------------------------
(* ffmpeg -f hls, event playlist                                           *)

W == pl.base + cnt   \* the segment being written
FFUnchanged == UNCHANGED <<job, serve, published, lock, th, done, errs>>

(* Without temp_file a segment grows under its name.                       *)
FFOpen ==
  /\ ff = "open"
  /\ ff' = "write"
  /\ raw' = IF fresh THEN raw ELSE [raw EXCEPT ![W] = "part"]
  /\ UNCHANGED <<cnt, pl, bad, err>> /\ FFUnchanged

FFClose ==
  /\ ff = "write"
  /\ ff' = "list"
  /\ \E b \in BOOLEAN :
       /\ b => errs + bad < MaxFaults
       /\ bad' = IF b THEN bad + 1 ELSE bad
       /\ raw' = [raw EXCEPT ![W] = IF b THEN "bad" ELSE "good"]
  /\ UNCHANGED <<cnt, pl, err>> /\ FFUnchanged

(* Without temp_file the playlist is truncated and written anew: a reader   *)
(* finds any beginning of it, maybe with a tag cut in two.                 *)
FFTruncate ==
  /\ ff = "list" /\ ~fresh
  /\ ff' = "rewrite"
  /\ \E n \in 0..cnt, s \in {"ok", "torn"} :
       pl' = [pl EXCEPT !.st = s, !.n = n, !.end = FALSE]
  /\ UNCHANGED <<cnt, raw, bad, err>> /\ FFUnchanged

(* The last segment is listed together with #EXT-X-ENDLIST.                *)
FFList ==
  /\ ff = IF fresh THEN "list" ELSE "rewrite"
  /\ cnt' = cnt + 1
  /\ \E e \in BOOLEAN :
       /\ W + 1 = N => e
       /\ pl' = [pl EXCEPT !.st = "ok", !.n = cnt + 1, !.end = e]
       /\ ff' = IF e THEN "end" ELSE "open"
  /\ UNCHANGED <<raw, bad, err>> /\ FFUnchanged

(* The goroutine that runs ffmpeg: ends, dies or is killed; ffmpegDone.     *)
FFExit ==
  /\ ff = "end"
  /\ ff' = "off"
  /\ err' = [err EXCEPT ![gen] = IF stopped THEN "ffmpeg" ELSE "none"]
  /\ UNCHANGED <<cnt, raw, pl, bad>> /\ FFUnchanged

FFDie ==
  /\ ff # "off"
  /\ ff' = "off"
  /\ err' = [err EXCEPT ![gen] = "ffmpeg"]
  /\ UNCHANGED <<cnt, raw, pl, bad>> /\ FFUnchanged

FFSteps == FFOpen \/ FFClose \/ FFTruncate \/ FFList \/ FFExit
FFmpeg  == FFSteps \/ FFDie

FFmpegDone(j) == j < gen \/ ff = "off"

-----------------------------------------------------------------------------
(* runContinuousSegmentAligner                                             *)

At(a, p)   == th[a].pc = p
Go(a, p)   == th' = [th EXCEPT ![a].pc = p]
IsFinal(a) == a[2] = "final"   \* the pass with jobDone
CtxDone(j) == j < gen \/ stopped \/ ~At(<<j, "final">>, "idle")

(* A tick; the select may choose one although the context has ended.        *)
Tick(a) ==
  /\ At(a, "idle") /\ ~IsFinal(a)
  /\ Go(a, "lock")
  /\ UNCHANGED <<job, proc, serve, published, lock, err, done, errs>>

TickReturn(a) ==
  /\ At(a, "idle") /\ ~IsFinal(a) /\ CtxDone(a[1])
  /\ th' = [th EXCEPT ![a] = Rest("out")]
  /\ UNCHANGED <<job, proc, serve, published, lock, err, done, errs>>

FinalPass(a) ==
  /\ At(a, "idle") /\ IsFinal(a) /\ FFmpegDone(a[1])
  /\ Go(a, "lock")
  /\ UNCHANGED <<job, proc, serve, published, lock, err, done, errs>>

(* NormalizeContinuousPlaylist leaves what is listed as it is.             *)
Normalize(a) ==
  /\ At(a, "normalize")
  /\ \/ UNCHANGED <<err, errs>>
     \/ /\ errs + bad < MaxFaults /\ errs' = errs + 1
        /\ err' = [err EXCEPT ![a[1]] = IF @ = "none" THEN "publish" ELSE @]
  /\ done' = done \cup {a[1]}
  /\ th' = [th EXCEPT ![a] = Rest("out")]
  /\ UNCHANGED <<job, proc, serve, published, lock>>

-----------------------------------------------------------------------------
(* publishContinuousReadySegments: one pass, under the directory's lock     *)

(* Mutant: an early return forgets the lock.                               *)
Leave_Locked(a, failed) ==
  /\ lock' = IF failed THEN lock ELSE Free
  /\ th' = [th EXCEPT ![a] = Rest(IF IsFinal(a) THEN "normalize" ELSE "idle")]
  /\ err' = IF failed /\ IsFinal(a) /\ err[a[1]] = "none"
              THEN [err EXCEPT ![a[1]] = "publish"] ELSE err
  /\ UNCHANGED done

(* The pass returns; the ticks drop its error, the final pass records it.   *)
Leave(a, failed) ==
  /\ lock' = Free
  /\ th' = [th EXCEPT ![a] = Rest(IF IsFinal(a) THEN "normalize" ELSE "idle")]
  /\ err' = IF failed /\ IsFinal(a) /\ err[a[1]] = "none"
              THEN [err EXCEPT ![a[1]] = "publish"] ELSE err
  /\ UNCHANGED done

(* A file operation of the pass fails.                                     *)
Failure(a) == /\ errs + bad < MaxFaults /\ errs' = errs + 1
              /\ Leave(a, TRUE)

(* Mutant: passes of one directory do not exclude each other.              *)
Parse_NoLock(a) ==
  /\ At(a, "lock")
  /\ IF pl.st = "ok"
       THEN /\ lock' = a
            /\ th' = [th EXCEPT ![a] = [pc |-> "scan", pl |-> pl, i |-> pl.base,
                                        changed |-> FALSE]]
            /\ UNCHANGED <<err, done, errs>>
       ELSE Leave(a, pl.st = "torn" /\ IsFinal(a)) /\ UNCHANGED errs
  /\ UNCHANGED <<job, proc, serve, published>>

(* The pass takes the lock and reads ffmpeg.m3u8.                          *)
Parse(a) ==
  /\ At(a, "lock") /\ lock = Free
  /\ IF pl.st = "ok"
       THEN /\ lock' = a
            /\ th' = [th EXCEPT ![a] = [pc |-> "scan", pl |-> pl, i |-> pl.base,
                                        changed |-> FALSE]]
            /\ UNCHANGED <<err, done, errs>>
       ELSE Leave(a, pl.st = "torn" /\ IsFinal(a)) /\ UNCHANGED errs
  /\ UNCHANGED <<job, proc, serve, published>>

K(a)       == th[a].i
InScan(a)  == At(a, "scan") /\ K(a) \in Listed(th[a].pl)
Known(a)   == K(a) \in published[a[1]]
Advance(a) == th' = [th EXCEPT ![a].pc = "scan", ![a].i = @ + 1]
Publish(a) == /\ published' = [published EXCEPT ![a[1]] = @ \cup {K(a)}]
              /\ th' = [th EXCEPT ![a].pc = "scan", ![a].i = @ + 1, ![a].changed = TRUE]

(* Known already, or the raw segment cannot be parsed (yet).               *)
Skip(a) ==
  /\ InScan(a)
  /\ Known(a) \/ (~InServeDir(K(a)) /\ raw[K(a)] # "good")
  /\ Advance(a)
  /\ UNCHANGED <<job, proc, serve, published, lock, err, done, errs>>

(* An earlier pass that did not get to its end, or an earlier generation.   *)
Adopt(a) ==
  /\ InScan(a) /\ ~Known(a) /\ InServeDir(K(a))
  /\ Publish(a)
  /\ UNCHANGED <<job, proc, serve, lock, err, done, errs>>

(* Mutant: a segment that could not be written is passed over as published. *)
AlignWrite_GoOn(a) ==
  /\ InScan(a) /\ ~Known(a) /\ ~InServeDir(K(a)) /\ raw[K(a)] = "good"
  /\ tmp' = tmp \cup {K(a)}
  /\ \/ Go(a, "rename") /\ UNCHANGED <<errs, published>>
     \/ Publish(a) /\ errs + bad < MaxFaults /\ errs' = errs + 1
  /\ UNCHANGED <<job, proc, seg, index, status, lock, err, done>>

(* alignContinuousSegmentInto, first the .align.tmp file.                  *)
AlignWrite(a) ==
  /\ InScan(a) /\ ~Known(a) /\ ~InServeDir(K(a)) /\ raw[K(a)] = "good"
  /\ \/ /\ tmp' = tmp \cup {K(a)}
        /\ Go(a, "rename")
        /\ UNCHANGED <<lock, err, done, errs>>
     \/ tmp' \in {tmp, tmp \cup {K(a)}} /\ Failure(a)
  /\ UNCHANGED <<job, proc, seg, index, status, published>>

AlignRename(a) ==
  /\ At(a, "rename")
  /\ \/ /\ K(a) \in tmp
        /\ seg' = [seg EXCEPT ![K(a)] = start[a[1]]]
        /\ tmp' = tmp \ {K(a)}
        /\ Go(a, "remove")
        /\ UNCHANGED <<lock, err, done, errs>>
     \/ /\ K(a) \notin tmp   \* seg/ was cleared meanwhile
        /\ Leave(a, TRUE)
        /\ UNCHANGED <<seg, tmp, errs>>
  /\ UNCHANGED <<job, proc, index, status, published>>

(* The published copy is the only one kept.                                *)
AlignRemove(a) ==
  /\ At(a, "remove")
  /\ \/ /\ raw[K(a)] # "none"
        /\ raw' = [raw EXCEPT ![K(a)] = "none"]
        /\ Publish(a)
        /\ UNCHANGED <<lock, err, done, errs>>
     \/ Failure(a) /\ UNCHANGED <<raw, published>>
     \/ raw[K(a)] = "none" /\ Leave(a, TRUE) /\ UNCHANGED <<raw, published, errs>>
  /\ UNCHANGED <<job, ff, cnt, pl, bad, serve>>

Scanned(a) == At(a, "scan") /\ K(a) \notin Listed(th[a].pl)

(* Nothing new: the artifacts are written by the final pass only.          *)
NothingNew(a) ==
  /\ Scanned(a) /\ ~th[a].changed /\ ~IsFinal(a)
  /\ Leave(a, FALSE)
  /\ UNCHANGED <<job, proc, serve, published, errs>>

(* writeContinuousServeArtifacts: the prefix of the list that is published. *)
Emitted(a) == {k \in Listed(th[a].pl) : th[a].pl.base..k \subseteq published[a[1]]}
Complete(a) == th[a].pl.end /\ Emitted(a) = Listed(th[a].pl) /\ Emitted(a) # {}
(* Mutant: the number of the segment after the last one.                   *)
LastOf_Next(S) == IF S = {} THEN None ELSE (CHOOSE k \in S : \A i \in S : i <= k) + 1

LastOf(S) == IF S = {} THEN None ELSE CHOOSE k \in S : \A i \in S : i <= k

(* Mutant: job.json is written although index.m3u8 was not.                *)
WriteIndex_GoOn(a) ==
  /\ Scanned(a) /\ (th[a].changed \/ IsFinal(a))
  /\ Go(a, "status")
  /\ \/ index' = [segs |-> Emitted(a), end |-> Complete(a)] /\ UNCHANGED errs
     \/ errs + bad < MaxFaults /\ errs' = errs + 1 /\ UNCHANGED index
  /\ UNCHANGED <<job, proc, seg, tmp, status, published, lock, err, done>>

(* Mutant: the final pass, too, writes them only for new segments.          *)
WriteIndex_IfChanged(a) ==
  /\ Scanned(a) /\ (th[a].changed \/ IsFinal(a))
  /\ IF th[a].changed
       THEN /\ index' = [segs |-> Emitted(a), end |-> Complete(a)]
            /\ Go(a, "status") /\ UNCHANGED <<lock, err, done>>
       ELSE Leave(a, FALSE) /\ UNCHANGED index
  /\ UNCHANGED <<job, proc, seg, tmp, status, published, errs>>

WriteIndex(a) ==
  /\ Scanned(a) /\ (th[a].changed \/ IsFinal(a))
  /\ \/ /\ index' = [segs |-> Emitted(a), end |-> Complete(a)]
        /\ Go(a, "status")
        /\ UNCHANGED <<lock, err, done, errs>>
     \/ Failure(a) /\ UNCHANGED index
  /\ UNCHANGED <<job, proc, seg, tmp, status, published>>

WriteStatus(a) ==
  /\ At(a, "status")
  /\ \/ /\ status' = [last |-> LastOf(Emitted(a)), complete |-> Complete(a)]
        /\ Leave(a, FALSE) /\ UNCHANGED errs
     \/ Failure(a) /\ UNCHANGED status
  /\ UNCHANGED <<job, proc, seg, tmp, index, published>>

Pass(a) ==
  \/ Parse(a) \/ Skip(a) \/ Adopt(a) \/ AlignWrite(a) \/ AlignRename(a)
  \/ AlignRemove(a) \/ NothingNew(a) \/ WriteIndex(a) \/ WriteStatus(a)

Goroutine(a) == Pass(a) \/ FinalPass(a) \/ Normalize(a)
Ticker(a)    == Tick(a) \/ TickReturn(a)

Step == Host \/ FFmpeg \/ \E a \in Actors : Goroutine(a) \/ Ticker(a)

(* Wait does not wait for the goroutine of the ticks, so that a pass of one  *)
(* generation may go on, or begin, in the directory of the next: with its    *)
(* own published map and its own startSec.  Until it has the lock it is      *)
(* harmless.                                                               *)
InPass(a)  == th[a].pc \notin {"out", "idle", "lock"}
Overtaken  == fresh /\ \E a \in Actors : a[1] < gen /\ InPass(a)

Next == Step /\ stray' = (stray \/ Overtaken')

Spec == Init /\ [][Next]_vars

(* ffmpeg goes on to its end, the host waits for its job, the goroutine     *)
(* that has the lock is scheduled, and a mutex hands over to one that has   *)
(* waited long: the final pass gets its turn among the ticks, none of which *)
(* has to be scheduled while it is outside.                                *)
Holder   == \E a \in Actors : lock = a /\ Pass(a)
Finisher == \E j \in Jobs : LET a == <<j, "final">>
                            IN FinalPass(a) \/ Parse(a) \/ Normalize(a)

LiveSpec == Spec /\ WF_code(FFSteps) /\ WF_code(Wait) /\ WF_code(Holder) /\ SF_code(Finisher)

-----------------------------------------------------------------------------
(* PROPERTIES                                                              *)

CodeOK ==
  /\ host \in {"idle", "clear", "clearFiles", "launch", "wait"}
  /\ gen \in 0..MaxGens /\ fresh \in Modes /\ stopped \in BOOLEAN
  /\ start \in [Jobs -> 0..MaxGens]
  /\ ff \in {"off", "open", "write", "list", "rewrite", "end"} /\ cnt \in 0..N
  /\ raw \in [Segs -> {"none", "part", "good", "bad"}] /\ bad \in 0..MaxFaults
  /\ pl \in [st : {"none", "ok", "torn"}, base : Segs, n : 0..N, end : BOOLEAN]
  /\ seg \in [Segs -> {None} \cup 0..MaxGens] /\ tmp \subseteq Segs
  /\ index \in [segs : SUBSET Segs, end : BOOLEAN]
  /\ status \in [last : {Missing, None} \cup Segs, complete : BOOLEAN]
  /\ published \in [Jobs -> SUBSET Segs] /\ lock \in {Free} \cup Actors
  /\ err \in [Jobs -> {"none", "ffmpeg", "publish"}] /\ done \subseteq Jobs /\ errs \in 0..MaxFaults
  /\ th \in [Actors -> [pc : {"out", "idle", "lock", "scan", "rename", "remove",
                              "status", "normalize"},
                        pl : [st : {"none", "ok", "torn"}, base : Segs, n : 0..N, end : BOOLEAN],
                        i : 0..N, changed : BOOLEAN]]

(* Type invariant: the phases of host, ffmpeg and passes, and the files.    *)
TypeOK == CodeOK /\ stray \in BOOLEAN

(* While a job runs, whatever index.m3u8 lists and job.json counts can be   *)
(* served and lies on the timeline of this job, although failed passes,     *)
(* earlier generations and crashes leave files of theirs in the directory. *)
ListedIsServable ==
  host = "wait" /\ ~stray =>
    \A k \in Segs : k \in index.segs \/ k = status.last =>
      InServeDir(k) /\ seg[k] = start[gen]

(* What clients were told stays true: no slower pass takes a segment, or    *)
(* the end of the stream, back out of index.m3u8.  A resume does so by      *)
(* design: it starts from a playlist that had its end, and truncates it.    *)
OnlyGrows ==
  [][host = "wait" /\ fresh /\ ~stray' => /\ index.segs \subseteq index'.segs
                                          /\ index.end => index'.end]_vars

(* With temp_file, job.json never promises what index.m3u8 does not list:   *)
(* the two are replaced one after the other, and either may fail.          *)
StatusFollows ==
  host = "wait" /\ fresh /\ ~stray =>
    /\ status.last \in index.segs \cup {None, Missing}
    /\ status.complete => index.end

(* When Wait returns without an error, or with ffmpeg's but no file         *)
(* operation failed, the playlist and the status cover every segment that   *)
(* ffmpeg has listed, up to one nobody can parse; the end is announced if   *)
(* there is none.                                                          *)
Whole == {k \in Listed(pl) : \A i \in pl.base..k : InServeDir(i) \/ raw[i] = "good"}
DoneMeansPublished ==
  host = "wait" /\ ~stray /\ gen \in done /\ pl.st = "ok" /\ (err[gen] = "none" \/ errs = 0) =>
    /\ index.segs = Whole /\ status.last = LastOf(Whole)
    /\ index.end = (pl.end /\ Whole = Listed(pl)) /\ status.complete = index.end

(* Both: the status never runs ahead of the playlist, and tells all of it   *)
(* when the job is over.                                                   *)
StatusIsTrue == StatusFollows /\ DoneMeansPublished

(* Liveness: Wait returns, whatever passes fail and whoever has the lock.   *)
JobEnds == host = "wait" ~> host # "wait"

-----------------------------------------------------------------------------
(* What the comments say and the code does not do; each is refuted by TLC.  *)

(* hls_continuous.go:64: "Published fMP4 segments are aligned on the         *)
(* full-file decode timeline (tfdt [about] StartSec + cumulative #EXTINF)". *)
OnOwnTimeline == host = "wait" => \A k \in Segs : seg[k] \in {None, start[gen]}

(* hls_continuous_align.go:44: "LastReadyIndex is the highest published   *)
(* segment index; -1 when nothing is."  At rest, and where nothing failed.  *)
LastReadyIsHighest ==
  host = "wait" /\ gen \in done /\ status # NoStatus /\ errs = 0 /\ bad = 0 =>
    status.last = LastOf({k \in Segs : InServeDir(k)})
=============================================================================
