----------------------------- MODULE EncodeHead -----------------------------
(***************************************************************************)
(* ops/hls_vod_session.go, refreshEncodeHead: every watcher and every      *)
(* client that decides refreshes the session's encode head.  The job is    *)
(* read under s.mu, the directory without it, and the head is stored under *)
(* s.mu again, so refreshes interleave with each other, with the end of    *)
(* the job and with the start of the next one.  HLSVODSession takes a      *)
(* refresh as one step; this module is about what happens inside it.       *)
(***************************************************************************)
EXTENDS Integers

CONSTANTS Threads,   \* goroutines that refresh the head
          N,         \* segments of the playlist
          Kinds,     \* the values of explicitCopy that are checked
          MaxJobs,   \* bound: jobs installed
          MaxUnlinks \* bound: segments unlinked (deferred unlinks, killed jobs)

ASSUME EncodeHeadAssumption ==
  /\ N \in Nat \ {0} /\ Kinds \subseteq BOOLEAN /\ MaxJobs \in Nat /\ MaxUnlinks \in Nat

Segs  == 0..(N - 1)
NoJob == 0

VARIABLES job, jobStart, head,   \* the session's fields
          explicitCopy,  \* the head comes from the CSV list, or from ready files
          last,      \* the job installed last, with its start and stop index
          done,      \* segments that are ready (or, explicit, listed in the CSV)
          w,         \* the segment ffmpeg writes
          opened,    \* the segment muxer has truncated the CSV of the last job
          unlinks,   \* segments unlinked so far
          seen,      \* history: segments that were done at some time in this job
          th         \* the refresh each thread is in, with its locals

env  == <<last, done, w, opened, unlinks, seen, explicitCopy>>
vars == <<job, jobStart, head, env, th>>

Out      == [pc |-> "out", job |-> NoJob, start |-> 0, stop |-> 0, h |-> 0]
FirstJob == [id |-> NoJob, start |-> 0, stop |-> 0]

(* hlsVODSegmentListHead: the first index from h on that is not done.       *)
Head(h, D) == CHOOSE i \in h..N : i \notin D /\ h..(i - 1) \subseteq D
Capped(h, start, stop) == IF stop > start /\ h > stop THEN stop ELSE h
(* Where a refresh of the present job would put the head.                  *)
Target == IF explicitCopy THEN Capped(Head(jobStart, done), jobStart, last.stop)
                          ELSE Head(head, done)

(* A directory may hold segments of an earlier run of the program.          *)
Init ==
  /\ job = NoJob /\ jobStart = 0 /\ head = 0 /\ explicitCopy \in Kinds
  /\ last = FirstJob
  /\ done \in SUBSET Segs /\ w = 0 /\ opened = FALSE /\ unlinks = 0
  /\ seen = {}
  /\ th = [t \in Threads |-> Out]

-----------------------------------------------------------------------------
(* The rest of the session and ffmpeg, which goes on for a while after the  *)
(* session has let go of its job.                                          *)

(* attachJob of a new job, with or without a hand-off bound.                *)
Attach ==
  /\ job = NoJob /\ last.id < MaxJobs
  /\ \E start \in Segs : \E stop \in {0} \cup (start + 1)..(N - 1) :
       /\ last' = [id |-> last.id + 1, start |-> start, stop |-> stop]
       /\ job' = last.id + 1 /\ jobStart' = start /\ head' = start
       /\ w' = start
  /\ opened' = FALSE
  /\ seen' = done
  /\ UNCHANGED <<done, unlinks, th, explicitCopy>>

(* performRestart registers a job again that has already ended.            *)
AttachAgain ==
  /\ job = NoJob /\ last.id # NoJob
  /\ job' = last.id /\ jobStart' = last.start /\ head' = last.start
  /\ UNCHANGED <<env, th>>

(* clearJobIf, jobView or performRestart lets go of the job.                *)
Forget ==
  /\ job # NoJob
  /\ job' = NoJob
  /\ UNCHANGED <<jobStart, head, env, th>>

Open ==
  /\ explicitCopy /\ last.id # NoJob /\ ~opened
  /\ opened' = TRUE
  /\ done' = {}
  /\ UNCHANGED <<job, jobStart, head, last, w, unlinks, seen, th, explicitCopy>>

Complete ==
  /\ last.id # NoJob /\ (explicitCopy => opened)
  /\ w < N /\ (last.stop > last.start => w < last.stop)
  /\ done' = done \cup {w} /\ seen' = seen \cup {w}
  /\ w' = w + 1
  /\ UNCHANGED <<job, jobStart, head, last, opened, unlinks, th, explicitCopy>>

Unlink ==
  /\ ~explicitCopy /\ unlinks < MaxUnlinks
  /\ \E k \in done : done' = done \ {k}
  /\ unlinks' = unlinks + 1
  /\ UNCHANGED <<job, jobStart, head, last, w, opened, seen, th, explicitCopy>>

-----------------------------------------------------------------------------
(* refreshEncodeHead, step by step, and the read of the head in jobView.    *)

At(t, p)     == th[t].pc = p
Go(t, p)     == th' = [th EXCEPT ![t].pc = p]
Become(t, r) == th' = [th EXCEPT ![t] = r]

Enter(t) ==
  /\ At(t, "out") /\ job # NoJob
  /\ Become(t, [pc |-> IF explicitCopy THEN "list" ELSE "read", job |-> job, start |-> jobStart,
                stop |-> last.stop, h |-> 0])
  /\ UNCHANGED <<job, jobStart, head, env>>

ReadList(t) ==
  /\ At(t, "list")
  /\ th' = [th EXCEPT ![t].pc = "storeList",
                      ![t].h = Capped(Head(th[t].start, done), th[t].start, th[t].stop)]
  /\ UNCHANGED <<job, jobStart, head, env>>

(* Mutant: stored whatever the session's job is by now.                    *)
StoreList_AnyJob(t) ==
  /\ At(t, "storeList")
  /\ head' = th[t].h
  /\ Go(t, "view")
  /\ UNCHANGED <<job, jobStart, env>>

StoreList(t) ==
  /\ At(t, "storeList")
  /\ head' = IF job = th[t].job THEN th[t].h ELSE head
  /\ Go(t, "view")
  /\ UNCHANGED <<job, jobStart, env>>

ReadHead(t) ==
  /\ At(t, "read")
  /\ th' = IF job = th[t].job THEN [th EXCEPT ![t].pc = "check", ![t].h = head]
                              ELSE [th EXCEPT ![t].pc = "view"]
  /\ UNCHANGED <<job, jobStart, head, env>>

(* Mutant: the segment after a ready one is taken to be ready too.         *)
CheckReady_Last(t) ==
  /\ At(t, "check")
  /\ Go(t, IF th[t].h \in done \/ th[t].h - 1 \in done THEN "store" ELSE "view")
  /\ UNCHANGED <<job, jobStart, head, env>>

CheckReady(t) ==
  /\ At(t, "check")
  /\ Go(t, IF th[t].h \in done THEN "store" ELSE "view")
  /\ UNCHANGED <<job, jobStart, head, env>>

(* Mutants: stored whatever the session's job is by now; never advanced.    *)
StoreHead_AnyJob(t) ==
  /\ At(t, "store")
  /\ head' = th[t].h + 1
  /\ Go(t, "read")
  /\ UNCHANGED <<job, jobStart, env>>
StoreHead_Same(t) ==
  /\ At(t, "store")
  /\ head' = IF job = th[t].job THEN th[t].h ELSE head
  /\ Go(t, "read")
  /\ UNCHANGED <<job, jobStart, env>>

StoreHead(t) ==
  /\ At(t, "store")
  /\ head' = IF job = th[t].job THEN th[t].h + 1 ELSE head
  /\ Go(t, "read")
  /\ UNCHANGED <<job, jobStart, env>>

(* The caller takes s.mu and reads the head.                               *)
View(t) ==
  /\ At(t, "view")
  /\ Become(t, Out)
  /\ UNCHANGED <<job, jobStart, head, env>>

Refresh(t) == \/ Enter(t) \/ ReadList(t) \/ StoreList(t) \/ ReadHead(t) \/ CheckReady(t)
              \/ StoreHead(t) \/ View(t)

Session == Attach \/ AttachAgain \/ Forget
FFmpeg  == Open \/ Complete \/ Unlink

Next == Session \/ FFmpeg \/ \E t \in Threads : Refresh(t)

Spec == Init /\ [][Next]_vars

(* Watchers tick as long as their job runs, and goroutines are scheduled.   *)
LiveSpec == Spec /\ \A t \in Threads : WF_vars(Refresh(t))

-----------------------------------------------------------------------------
(* PROPERTIES                                                              *)

(* Type invariant: the domains of the head, the job and the refreshes.      *)
TypeOK ==
  /\ job \in 0..MaxJobs /\ jobStart \in Segs /\ head \in 0..N
  /\ last \in [id : 0..MaxJobs, start : Segs, stop : Segs]
  /\ done \subseteq Segs /\ seen \subseteq Segs /\ w \in 0..N
  /\ opened \in BOOLEAN /\ unlinks \in 0..MaxUnlinks /\ explicitCopy \in Kinds
  /\ th \in [Threads -> [pc : {"out", "list", "storeList", "read", "check", "store", "view"},
                         job : 0..MaxJobs, start : Segs, stop : Segs, h : 0..N]]

(* However stale the refreshes in flight are, the head never leaves the     *)
(* segments of the session's own job: it starts at the job's first segment *)
(* and passes only segments that were done during the job.                 *)
HeadBacked == job # NoJob => head >= jobStart /\ jobStart..(head - 1) \subseteq seen

(* Liveness: a slow refresh may set the head back, but when ffmpeg and the   *)
(* session are quiet the refreshes bring it to the first segment that is   *)
(* not complete, and it stays there.                                       *)
HeadCatchesUp == <>[](job # NoJob => head = Target) \/ []<><<Session \/ FFmpeg>>_vars
=============================================================================
