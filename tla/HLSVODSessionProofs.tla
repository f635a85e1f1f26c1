------------------------- MODULE HLSVODSessionProofs -------------------------
(***************************************************************************)
(* For every number of clients, segments, jobs and crashes and both kinds  *)
(* of job: at most one ffmpeg runs in a session's directory, none is       *)
(* leaked, the session's job is watched and no deferred unlink is lost; a  *)
(* job that fills a gap stops at what is ready, and a client alone does    *)
(* not restart a job that made its segment.                                *)
(***************************************************************************)
EXTENDS HLSVODSession, NaturalsInduction, FiniteSetTheorems, TLAPS

(* The properties are not inductive one by one: that the old process is     *)
(* dead when a new one is started comes from where each client is in its    *)
(* restart (HandOffInv), which only restartMu keeps apart (OneRestart).     *)
Typed == TypeOK /\ WriterInPlaylist /\ InstallsJob

LEMMA Constants ==
  /\ N \in Nat /\ N > 0 /\ Gap \in Nat
  /\ Requests \subseteq Segs /\ Segs \subseteq Nat
  /\ Kinds \subseteq BOOLEAN /\ Clear \in BOOLEAN
  /\ MaxJobs \in Nat /\ MaxCrashes \in Nat /\ JobIds \subseteq Nat
  /\ NoJob \notin JobIds /\ NoPath \notin Nat
  BY SessionAssumption DEF Segs, JobIds, NoJob, NoPath

(* A nonempty set of naturals has a least member.                          *)
LEMMA LeastNatural ==
  ASSUME NEW S, S \subseteq Nat, S # {}
  PROVE  \E m \in S : \A n \in S : m <= n
  <1>1. PICK m \in S : \A n \in S : ~(<<n, m>> \in OpToRel(<, Nat))
      BY WFMin, NatLessThanWellFounded
  <1>2. ASSUME NEW n \in S PROVE m <= n
      <2>1. n \in Nat /\ m \in Nat OBVIOUS
      <2>2. n < m => <<n, m>> \in OpToRel(<, Nat) BY <2>1 DEF OpToRel
      <2>3. ~(n < m) BY <1>1, <2>2, Zenon
      <2> QED BY <2>1, <2>3
  <1> QED BY <1>2

(* The head stays between the session's first segment and one past the end. *)
LEMMA FirstListed ==
  ASSUME NEW h \in 0..(N + 1)
  PROVE  FirstFrom(h, Listed) \in h..(N + 1)
  <1> DEFINE S == {i \in h..(N + 1) : ~(i \in Segs /\ Listed(i))}
  <1>1. S \subseteq Nat /\ N + 1 \in S BY Constants DEF Segs
  <1>2. PICK m \in S : \A n \in S : m <= n BY <1>1, LeastNatural
  <1>3. \A n \in h..(m - 1) : Listed(n)
      BY <1>2, Constants
  <1>4. \E i \in h..(N + 1) : ~(i \in Segs /\ Listed(i)) /\ \A n \in h..(i - 1) : Listed(n)
      BY <1>2, <1>3
  <1> QED BY <1>4 DEF FirstFrom

LEMMA FirstNotReady ==
  ASSUME NEW h \in 0..(N + 1)
  PROVE  FirstFrom(h, ReadyAt) \in h..(N + 1)
  <1> DEFINE S == {i \in h..(N + 1) : ~(i \in Segs /\ ReadyAt(i))}
  <1>1. S \subseteq Nat /\ N + 1 \in S BY Constants DEF Segs
  <1>2. PICK m \in S : \A n \in S : m <= n BY <1>1, LeastNatural
  <1>3. \A n \in h..(m - 1) : ReadyAt(n)
      BY <1>2, Constants
  <1>4. \E i \in h..(N + 1) : ~(i \in Segs /\ ReadyAt(i)) /\ \A n \in h..(i - 1) : ReadyAt(n)
      BY <1>2, <1>3
  <1> QED BY <1>4 DEF FirstFrom

LEMMA HeadType ==
  ASSUME TypeOK
  PROVE  NewHead \in 0..(N + 1)
  <1>1. head \in 0..(N + 1) /\ jobStart \in Segs BY DEF TypeOK, SessionType
  <1>2. FirstFrom(head, ReadyAt) \in 0..(N + 1) BY <1>1, FirstNotReady, Constants
  <1>3. ASSUME job # NoJob PROVE CappedHead \in 0..(N + 1)
      <2>1. jobs[job].stop \in 0..(N + 1)
          <3>1. job \in JobIds BY <1>3 DEF TypeOK, SessionType
          <3>2. jobs[job].stop \in Segs BY <3>1 DEF TypeOK, JobType
          <3> QED BY <3>2, Constants DEF Segs
      <2>2. FirstFrom(jobStart, Listed) \in 0..(N + 1)
          BY <1>1, FirstListed, Constants DEF Segs
      <2> QED BY <2>1, <2>2 DEF CappedHead
  <1> QED BY <1>1, <1>2, <1>3 DEF NewHead

(* The index noted for the unlink of a killed job's partial segment.       *)
LEMMA PartialType ==
  ASSUME NEW h \in 0..(N + 1), NEW j
  PROVE  PartialOf(h, j) \in {NoPath} \cup 0..(N + 1)
  BY DEF PartialOf

(* clearStaleVODSegments: the bound of a job is a segment.                  *)
LEMMA BoundType ==
  ASSUME NEW k \in Segs
  PROVE  StaleBound(k) \in Segs
  <1> DEFINE ready == {i \in k..N : i > 0 /\ ReadyAt(i)}
  <1>1. CASE ready = {} BY <1>1, Constants DEF StaleBound, Segs
  <1>2. CASE ready # {}
      <2>1. ready \subseteq Nat BY Constants DEF Segs
      <2>2. \E i \in ready : \A m \in ready : i <= m BY <1>2, <2>1, LeastNatural
      <2>3. StaleBound(k) \in ready BY <1>2, <2>2 DEF StaleBound
      <2> QED BY <2>3, Constants DEF Segs
  <1> QED BY <1>1, <1>2

-----------------------------------------------------------------------------
(* Typing of the steps.                                                    *)

LEMMA FFTyped ==
  ASSUME Typed, NEW j \in JobIds, FFStep(j) \/ FFGrow(j) \/ FFCrash(j)
  PROVE  Typed'
  <1> USE Constants DEF Typed, TypeOK, fsVars, ffVars, sesVars
  <1>1. UNCHANGED <<sesVars, cl, restartMu, watching, explicitCopy>>
      BY DEF FFStep, FFOpen, FFBegin, FFGrow, FFPublish, FFClose, FFList, FFExit, FFKilled, FFCrash
  <1>2. SessionType' BY <1>1 DEF SessionType
  <1>3. DirType'
      <2>1. CASE FFBegin(j) BY <2>1 DEF FFBegin, DirType
      <2>2. CASE FFPublish(j) BY <2>2 DEF FFPublish, DirType
      <2>3. CASE FFClose(j) BY <2>3 DEF FFClose, DirType
      <2>4. CASE FFList(j) BY <2>4 DEF FFList, DirType, JobType
      <2>5. CASE FFOpen(j) BY <2>5 DEF FFOpen, DirType
      <2>6. CASE FFGrow(j) BY <2>6 DEF FFGrow, DirType
      <2>7. CASE FFExit(j) \/ FFKilled(j) \/ FFCrash(j)
          BY <2>7 DEF FFExit, FFKilled, FFCrash, DirType
      <2> QED BY <2>1, <2>2, <2>3, <2>4, <2>5, <2>6, <2>7 DEF FFStep
  <1>4. JobType' /\ WriterInPlaylist'
      <2> USE DEF JobType, WriterInPlaylist, SetJob
      <2>1. CASE FFOpen(j) BY <2>1 DEF FFOpen
      <2>2. CASE FFBegin(j) BY <2>2 DEF FFBegin, HasNext
      <2>3. CASE FFGrow(j) BY <2>3 DEF FFGrow
      <2>4. CASE FFPublish(j) BY <2>4 DEF FFPublish, Segs
      <2>5. CASE FFClose(j) BY <2>5 DEF FFClose
      <2>6. CASE FFList(j) BY <2>6 DEF FFList, Segs
      <2>7. CASE FFExit(j) BY <2>7 DEF FFExit
      <2>8. CASE FFKilled(j) BY <2>8 DEF FFKilled
      <2>9. CASE FFCrash(j) BY <2>9 DEF FFCrash
      <2> QED BY <2>1, <2>2, <2>3, <2>4, <2>5, <2>6, <2>7, <2>8, <2>9 DEF FFStep
  <1> QED BY <1>1, <1>2, <1>3, <1>4 DEF InstallsJob

LEMMA WatcherTyped ==
  ASSUME Typed, NEW w \in Watchers, WatchTick(w) \/ WatchEnd(w)
  PROVE  Typed'
  <1> USE Constants, HeadType DEF Typed, TypeOK, fsVars, ffVars, sesVars
  <1>1. UNCHANGED <<fsVars, ffVars, cl, restartMu, readers, pending, restarting, jobStart,
                    explicitCopy>>
      BY DEF WatchTick, WatchEnd
  <1>2. DirType' /\ JobType' /\ WriterInPlaylist' /\ InstallsJob'
      BY <1>1 DEF DirType, JobType, WriterInPlaylist, InstallsJob
  <1>3. SessionType'
      BY <1>1, PartialType DEF SessionType, WatchTick, WatchEnd, RefreshEncodeHead
  <1>4. watching' \subseteq Watchers
      BY DEF WatchTick, WatchEnd
  <1> QED BY <1>1, <1>2, <1>3, <1>4

(* A client's locals are replaced as a whole.                              *)
LEMMA BecomeTyped ==
  ASSUME Typed, NEW c \in Clients, NEW r \in Locals, Become(c, r),
         r.pc \in {"install", "ensure"} => r.new \in JobIds
  PROVE  cl' \in [Clients -> Locals] /\ InstallsJob'
  BY DEF Typed, TypeOK, InstallsJob, Become

LEMMA IdleType == Idle \in Locals /\ Idle.pc = "idle"
  BY Constants DEF Idle, Locals, PCs, Segs

(* The handle that StartJob returns, among the locals.                     *)
LEMMA LocalsUpdated ==
  ASSUME NEW l \in Locals, NEW p \in PCs, NEW j \in {NoJob} \cup JobIds
  PROVE  /\ [l EXCEPT !.pc = p, !.new = j] \in Locals
         /\ [l EXCEPT !.pc = p, !.new = j].new = j
  BY DEF Locals

(* What a step of a client may do to its own locals.                       *)
LEMMA LocalsTyped ==
  ASSUME Typed, NEW c \in Clients, ClientStep(c)
  PROVE  cl' \in [Clients -> Locals] /\ InstallsJob'
  <1>20. Become(c, Idle) => cl' \in [Clients -> Locals] /\ InstallsJob'
      BY BecomeTyped, IdleType
  <1>1. CASE Request(c)
      <2>1. PICK k \in Requests : Become(c, [Idle EXCEPT !.pc = "ctx", !.k = k])
          BY <1>1 DEF Request
      <2>2. [Idle EXCEPT !.pc = "ctx", !.k = k] \in Locals
          BY IdleType, Constants DEF Locals, PCs
      <2>3. [Idle EXCEPT !.pc = "ctx", !.k = k].pc = "ctx"
          BY DEF Idle
      <2> QED BY <2>1, <2>2, <2>3, BecomeTyped
  <1>2. CASE Cancelled(c) BY <1>2, <1>20 DEF Cancelled
  <1>4. CASE StartFails(c) BY <1>4, <1>20 DEF StartFails
  <1>10. CASE UnlinkRead(c) BY <1>10, <1>20 DEF UnlinkRead
  <1> USE Constants DEF Typed, TypeOK, InstallsJob, Locals, PCs, RestartPCs, HandOffPCs, At, Go
  <1>3. CASE ReleaseServePath(c)
      <2>1. CASE Go(c, "unlinkRead") BY <2>1
      <2> QED BY <1>3, <1>20, <2>1 DEF ReleaseServePath
  <1>5. CASE CheckActive(c) BY <1>5 DEF CheckActive
  <1>6. CASE CheckListed(c) BY <1>6 DEF CheckListed
  <1>7. CASE Open(c) BY <1>7 DEF Open, ReadyAt, DirType
  <1>8. CASE Decide(c) BY <1>8 DEF Decide
  <1>9. CASE AcquireServePath(c) BY <1>9 DEF AcquireServePath
  <1>11. CASE LockRestart(c) BY <1>11 DEF LockRestart
  <1>12. CASE Recheck(c) BY <1>12 DEF Recheck
  <1>13. CASE TakeJob(c)
      <2>1. job \in {NoJob} \cup JobIds /\ partial \in {NoPath} \cup 0..(N + 1)
          BY DEF SessionType
      <2> DEFINE r == [cl[c] EXCEPT !.pc = "wait", !.old = job, !.partial = partial]
      <2>2. r \in Locals /\ r.pc = "wait"
          <3>1. cl[c] \in Locals /\ "wait" \in PCs OBVIOUS
          <3> HIDE DEF Typed, TypeOK, InstallsJob, PCs, RestartPCs, HandOffPCs
          <3> QED BY <2>1, <3>1
      <2>3. Become(c, r) BY <1>13 DEF TakeJob, Become
      <2> HIDE DEF r
      <2> QED BY <2>2, <2>3, BecomeTyped
  <1>14. CASE WaitOld(c) BY <1>14 DEF WaitOld
  <1>15. CASE DeferUnlink(c) BY <1>15 DEF DeferUnlink
  <1>16. CASE UnlinkPartial(c) BY <1>16 DEF UnlinkPartial
  <1>17. CASE StartJob(c)
      <2>1. PICK j \in JobIds : cl' = [cl EXCEPT ![c].pc = "install", ![c].new = j]
          BY <1>17 DEF StartJob
      <2> DEFINE r == [cl[c] EXCEPT !.pc = "install", !.new = j]
      <2>2. r \in Locals /\ r.new \in JobIds
          <3>1. cl[c] \in Locals /\ "install" \in PCs OBVIOUS
          <3> HIDE DEF Typed, TypeOK, InstallsJob, Locals, PCs, RestartPCs, HandOffPCs
          <3> QED BY <2>1, <3>1, LocalsUpdated
      <2>3. Become(c, r) BY <2>1 DEF Become
      <2> HIDE DEF r
      <2> QED BY <2>2, <2>3, BecomeTyped
  <1>18. CASE Install(c) BY <1>18 DEF Install
  <1>19. CASE Ensure(c)
      <2> DEFINE r == [Idle EXCEPT !.pc = "ctx", !.k = cl[c].k, !.new = cl[c].new]
      <2>1. r \in Locals /\ r.pc = "ctx" BY IdleType
      <2>2. Become(c, r) BY <1>19 DEF Ensure, Become
      <2> HIDE DEF r
      <2> QED BY <2>1, <2>2, BecomeTyped
  <1> QED BY <1>1, <1>2, <1>3, <1>4, <1>5, <1>6, <1>7, <1>8, <1>9, <1>10, <1>11, <1>12,
             <1>13, <1>14, <1>15, <1>16, <1>17, <1>18, <1>19 DEF ClientStep, Waiting, Restarting

(* The readers of a segment are finitely many.                             *)
LEMMA ReadingFinite ==
  ASSUME NEW k
  PROVE  IsFiniteSet(Reading(k)) /\ Cardinality(Reading(k)) \in Nat
  <1>1. IsFiniteSet(Clients) BY SessionAssumption
  <1>2. Reading(k) \subseteq Clients BY DEF Reading
  <1> QED BY <1>1, <1>2, FS_Subset, FS_CardinalityType

LEMMA ClientTyped ==
  ASSUME Typed, ReadersCounted, NEW c \in Clients, ClientStep(c)
  PROVE  Typed'
  <1> USE Constants DEF Typed, TypeOK
  <1>1. cl' \in [Clients -> Locals] /\ InstallsJob' BY LocalsTyped
  <1>2. cl[c] \in Locals /\ cl[c].k \in Segs BY DEF Locals
  <1>3. restartMu' \subseteq Clients
      BY DEF ClientStep, Waiting, Restarting, Request, Cancelled, ReleaseServePath, StartFails,
             CheckActive, CheckListed, Open, Decide, AcquireServePath, UnlinkRead, LockRestart,
             Recheck, TakeJob, WaitOld, DeferUnlink, UnlinkPartial, StartJob, Install, Ensure
  <1>7. UNCHANGED explicitCopy
      BY DEF ClientStep, Waiting, Restarting, Request, Cancelled, ReleaseServePath, StartFails,
             CheckActive, CheckListed, Open, Decide, AcquireServePath, UnlinkRead, LockRestart,
             Recheck, TakeJob, WaitOld, DeferUnlink, UnlinkPartial, StartJob, Install, Ensure
  <1>4. DirType'
      <2>1. ASSUME NEW k, Unlink(k) PROVE DirType'
          BY <2>1 DEF Unlink, DirType
      <2>2. CASE UnlinkRead(c) BY <2>1, <2>2 DEF UnlinkRead
      <2>3. CASE UnlinkPartial(c) BY <2>1, <2>3 DEF UnlinkPartial
      <2>4. CASE StartJob(c) \/ StartFails(c)
          <3>1. PICK m \in 0..(N + 1) : Prepared(cl[c].k, m)
              <4>1. N + 1 \in 0..(N + 1) OBVIOUS
              <4> QED BY <2>4, <4>1 DEF StartJob, StartFails
          <3> QED BY <3>1 DEF Prepared, DirType
      <2>5. CASE UNCHANGED fsVars BY <2>5 DEF fsVars, DirType
      <2> QED BY <2>2, <2>3, <2>4, <2>5
            DEF ClientStep, Waiting, Restarting, Request, Cancelled, ReleaseServePath,
                CheckActive, CheckListed, Open, Decide, AcquireServePath, LockRestart,
                Recheck, TakeJob, WaitOld, DeferUnlink, Install, Ensure, fsVars
  <1>5. JobType' /\ WriterInPlaylist'
      <2>1. CASE TakeJob(c)
          <3>1. UNCHANGED crashes BY <2>1 DEF TakeJob
          <3>2. \/ UNCHANGED jobs
                \/ jobs' = [jobs EXCEPT ![job].st = "kill"]
              BY <2>1 DEF TakeJob
          <3> QED BY <3>1, <3>2 DEF JobType, WriterInPlaylist
      <2>2. CASE StartJob(c)
          <3>1. PICK j \in JobIds, b \in {0} \cup Segs :
                  jobs' = [jobs EXCEPT ![j] = [st |-> "run", start |-> cl[c].k, stop |-> b,
                                               w |-> cl[c].k, wr |-> "boot",
                                               over |-> ReadyAt(cl[c].k)]]
              BY <2>2, <1>2, BoundType DEF StartJob
          <3>2. {0} \cup Segs = Segs BY DEF Segs
          <3>3. UNCHANGED crashes BY <2>2 DEF StartJob
          <3>4. ReadyAt(cl[c].k) \in BOOLEAN BY <1>2 DEF ReadyAt, DirType
          <3> DEFINE started == [st |-> "run", start |-> cl[c].k, stop |-> b, w |-> cl[c].k,
                                 wr |-> "boot", over |-> ReadyAt(cl[c].k)]
          <3>5. started \in [st : {"none", "run", "kill", "done"}, start : Segs, stop : Segs,
                            w : Segs, wr : {"none", "boot", "idle", "open", "closed"},
                            over : BOOLEAN]
              BY <1>2, <3>2, <3>4
          <3>6. started.wr = "boot" /\ jobs' = [jobs EXCEPT ![j] = started] BY <3>1
          <3> HIDE DEF started
          <3> QED BY <3>3, <3>5, <3>6 DEF JobType, WriterInPlaylist
      <2>3. CASE UNCHANGED ffVars BY <2>3 DEF ffVars, JobType, WriterInPlaylist
      <2> QED BY <2>1, <2>2, <2>3
            DEF ClientStep, Waiting, Restarting, Request, Cancelled, ReleaseServePath, StartFails,
                CheckActive, CheckListed, Open, Decide, AcquireServePath, UnlinkRead, LockRestart,
                Recheck, WaitOld, DeferUnlink, UnlinkPartial, Install, Ensure, ffVars
  <1>6. SessionType' /\ watching' \subseteq Watchers
      <2>1. CASE AcquireServePath(c)
          <3>1. head' \in 0..(N + 1) /\ readers' = [readers EXCEPT ![cl[c].k] = @ + 1]
              BY <2>1, HeadType DEF AcquireServePath, RefreshEncodeHead
          <3>4. readers \in [Segs -> Nat] BY DEF SessionType
          <3>5. PICK k \in Segs : k = cl[c].k BY <1>2
          <3>6. readers[k] + 1 \in Nat BY <3>4
          <3>2. readers' \in [Segs -> Nat] BY <3>1, <3>4, <3>5, <3>6
          <3>3. UNCHANGED <<job, jobStart, partial, restarting, pending, watching>>
              BY <2>1 DEF AcquireServePath
          <3> QED BY <3>1, <3>2, <3>3 DEF SessionType
      <2>2. CASE ReleaseServePath(c)
          <3>1. c \in Reading(cl[c].k) BY <2>2 DEF ReleaseServePath, At, Reading
          <3> DEFINE k == cl[c].k
          <3>3. Reading(k) # {} BY <3>1
          <3>4. Cardinality(Reading(k)) # 0 BY <3>3, ReadingFinite, FS_EmptySet
          <3>5. readers[k] = Cardinality(Reading(k)) BY <1>2 DEF ReadersCounted
          <3>2. readers[k] - 1 \in Nat BY <3>4, <3>5, ReadingFinite
          <3> QED BY <1>2, <2>2, <3>2 DEF ReleaseServePath, SessionType
      <2>3. CASE Decide(c) \/ Recheck(c)
          BY <2>3, HeadType DEF Decide, Recheck, JobView, RefreshEncodeHead, SessionType
      <2>4. CASE TakeJob(c) BY <2>4 DEF TakeJob, SessionType
      <2>5. CASE WaitOld(c) \/ UnlinkPartial(c) BY <2>5 DEF WaitOld, UnlinkPartial, SessionType
      <2>6. CASE DeferUnlink(c) BY <2>6 DEF DeferUnlink, SessionType
      <2>7. ASSUME NEW i \in {1, 2}, Attach(cl[c].new, i), cl[c].new \in JobIds,
                   UNCHANGED <<restarting, readers, pending>>
            PROVE  SessionType' /\ watching' \subseteq Watchers
          <3>1. jobs[cl[c].new].start \in Segs BY <2>7 DEF JobType
          <3>2. jobs[cl[c].new].start \in 0..(N + 1) BY <3>1 DEF Segs
          <3> QED BY <2>7, <3>1, <3>2, PartialType DEF Attach, SessionType, Watchers
      <2>8. CASE Install(c)
          <3>1. Attach(cl[c].new, 1) /\ cl[c].new \in JobIds
              BY <2>8 DEF Install, InstallsJob, At
          <3> QED BY <2>7, <2>8, <3>1 DEF Install
      <2>9. CASE Ensure(c)
          <3>1. cl[c].new \in JobIds BY <2>9 DEF Ensure, InstallsJob, At
          <3> QED BY <2>7, <2>9, <3>1 DEF Ensure, SessionType
      <2>10. CASE UNCHANGED <<sesVars, watching>> BY <2>10 DEF sesVars, SessionType
      <2> QED BY <2>1, <2>2, <2>3, <2>4, <2>5, <2>6, <2>8, <2>9, <2>10
            DEF ClientStep, Waiting, Restarting, Request, Cancelled, StartFails,
                CheckActive, CheckListed, Open, UnlinkRead, LockRestart, StartJob, sesVars
  <1> QED BY <1>1, <1>3, <1>4, <1>5, <1>6, <1>7

-----------------------------------------------------------------------------
(* Who reads what.                                                         *)

(* A client changes its own locals only.                                   *)
LEMMA OthersKept ==
  ASSUME Typed, NEW c \in Clients, ClientStep(c)
  PROVE  \A d \in Clients \ {c} : cl'[d] = cl[d]
  BY DEF Typed, TypeOK, ClientStep, Waiting, Restarting, Request, Cancelled, ReleaseServePath,
         StartFails, CheckActive, CheckListed, Open, Decide, AcquireServePath, UnlinkRead,
         LockRestart, Recheck, TakeJob, WaitOld, DeferUnlink, UnlinkPartial, StartJob, Install,
         Ensure, Go, Become

(* Where a client goes when its locals are replaced.                       *)
LEMMA Replaced ==
  ASSUME Typed, NEW c \in Clients
  PROVE  /\ Request(c) \/ Ensure(c) => cl'[c].pc = "ctx"
         /\ Cancelled(c) \/ UnlinkRead(c) \/ StartFails(c) => cl'[c].pc = "idle"
         /\ ReleaseServePath(c) => cl'[c].pc \in {"idle", "unlinkRead"}
  <1>1. cl \in [Clients -> Locals] /\ cl[c] \in Locals BY DEF Typed, TypeOK
  <1>2. \A r : Become(c, r) => cl'[c] = r BY <1>1 DEF Become
  <1>3. \A q : Go(c, q) => cl'[c].pc = q BY <1>1 DEF Go, Locals
  <1>4. Idle.pc = "idle" /\ \A k : [Idle EXCEPT !.pc = "ctx", !.k = k].pc = "ctx" BY DEF Idle
  <1>5. ASSUME Request(c) PROVE cl'[c].pc = "ctx"
      BY <1>2, <1>4, <1>5, Zenon DEF Request
  <1>6. ASSUME Ensure(c) PROVE cl'[c].pc = "ctx"
      <2>1. cl'[c] = [Idle EXCEPT !.pc = "ctx", !.k = cl[c].k, !.new = cl[c].new]
          BY <1>1, <1>6 DEF Ensure
      <2> QED BY <2>1 DEF Idle
  <1>7. Cancelled(c) \/ UnlinkRead(c) \/ StartFails(c) => cl'[c].pc = "idle"
      BY <1>2, <1>4 DEF Cancelled, UnlinkRead, StartFails
  <1>8. ReleaseServePath(c) => cl'[c].pc \in {"idle", "unlinkRead"}
      <2>1. ReleaseServePath(c) => Go(c, "unlinkRead") \/ Become(c, Idle)
          BY DEF ReleaseServePath
      <2> QED BY <1>2, <1>3, <1>4, <2>1
  <1> QED BY <1>5, <1>6, <1>7, <1>8

(* Only AcquireServePath and ReleaseServePath make or end a reader.        *)
LEMMA NoReader ==
  ASSUME Typed, NEW c \in Clients, ClientStep(c), ~AcquireServePath(c), ~ReleaseServePath(c)
  PROVE  cl[c].pc # "reading" /\ cl'[c].pc # "reading"
  <1>1. cl[c] \in Locals /\ cl \in [Clients -> Locals] BY DEF Typed, TypeOK
  <1>2. Idle.pc = "idle" /\ Idle \in Locals BY IdleType
  <1> USE DEF At, Go, Become, Locals
  <1>3. CASE Request(c) BY <1>1, <1>3 DEF Request, Idle
  <1>4. CASE Cancelled(c) \/ StartFails(c) \/ UnlinkRead(c)
      BY <1>1, <1>2, <1>4 DEF Cancelled, StartFails, UnlinkRead
  <1>5. CASE CheckActive(c) \/ CheckListed(c) \/ Open(c) \/ Decide(c)
      BY <1>1, <1>5 DEF CheckActive, CheckListed, Open, Decide
  <1>6. CASE LockRestart(c) \/ Recheck(c) \/ TakeJob(c) \/ WaitOld(c)
      BY <1>1, <1>6 DEF LockRestart, Recheck, TakeJob, WaitOld
  <1>7. CASE DeferUnlink(c) \/ UnlinkPartial(c) \/ StartJob(c) \/ Install(c)
      BY <1>1, <1>7 DEF DeferUnlink, UnlinkPartial, StartJob, Install
  <1>8. CASE Ensure(c) BY <1>1, <1>8 DEF Ensure, Idle
  <1> QED BY <1>3, <1>4, <1>5, <1>6, <1>7, <1>8 DEF ClientStep, Waiting, Restarting

LEMMA ReadersKept ==
  ASSUME Typed, PendingHasReader, NEW c \in Clients, ClientStep(c)
  PROVE  PendingHasReader'
  <1>1. cl \in [Clients -> Locals] /\ cl[c] \in Locals /\ cl[c].k \in Segs
        /\ readers \in [Segs -> Nat] /\ pending \subseteq Segs
      BY DEF Typed, TypeOK, SessionType, Locals
  <1>2. \A d \in Clients \ {c} : cl'[d] = cl[d] BY OthersKept
  <1>3. DOMAIN cl' = Clients BY LocalsTyped
  <1>7. PICK k \in Segs : k = cl[c].k BY <1>1
  <1>4. CASE AcquireServePath(c)
      <2>1. cl'[c].pc = "reading" /\ cl'[c].k = k /\ cl[c].pc # "reading"
          BY <1>1, <1>4, <1>7 DEF AcquireServePath, Go, At, Locals
      <2>2. c \notin Reading(k) /\ Reading(k)' = Reading(k) \cup {c}
          BY <1>2, <1>7, <2>1 DEF Reading
      <2>3. \A i \in Segs \ {k} : Reading(i)' = Reading(i)
          BY <1>2, <1>7, <2>1 DEF Reading
      <2>4. Cardinality(Reading(k)') = Cardinality(Reading(k)) + 1
          BY <2>2, ReadingFinite, FS_AddElement
      <2>5. readers' = [readers EXCEPT ![k] = @ + 1] /\ pending' = pending
          BY <1>4, <1>7 DEF AcquireServePath
      <2>6. ReadersCounted'
          <3> SUFFICES ASSUME NEW i \in Segs PROVE readers'[i] = Cardinality(Reading(i)')
              BY DEF ReadersCounted
          <3>1. readers[i] = Cardinality(Reading(i)) BY DEF PendingHasReader, ReadersCounted
          <3>2. CASE i = k BY <1>1, <2>4, <2>5, <3>1, <3>2
          <3>3. CASE i # k BY <1>1, <2>3, <2>5, <3>1, <3>3
          <3> QED BY <3>2, <3>3
      <2>7. \A i \in pending' : Reading(i)' # {}
          BY <1>1, <2>2, <2>3, <2>5 DEF PendingHasReader
      <2> QED BY <2>6, <2>7 DEF PendingHasReader
  <1>5. CASE ReleaseServePath(c)
      <2>1. cl[c].pc = "reading" /\ cl'[c].pc # "reading"
          BY <1>1, <1>5, <1>7, IdleType DEF ReleaseServePath, Go, Become, At, Locals
      <2>2. c \in Reading(k) /\ Reading(k)' = Reading(k) \ {c}
          BY <1>2, <1>7, <2>1 DEF Reading
      <2>3. \A i \in Segs \ {k} : Reading(i)' = Reading(i)
          BY <1>2, <1>7, <2>1 DEF Reading
      <2>4. Cardinality(Reading(k)') = Cardinality(Reading(k)) - 1
          BY <2>2, ReadingFinite, FS_RemoveElement
      <2>5. /\ readers' = [readers EXCEPT ![k] = @ - 1]
            /\ pending' = IF readers[k] = 1 THEN pending \ {k} ELSE pending
          BY <1>5, <1>7 DEF ReleaseServePath
      <2>6. ReadersCounted'
          <3> SUFFICES ASSUME NEW i \in Segs PROVE readers'[i] = Cardinality(Reading(i)')
              BY DEF ReadersCounted
          <3>1. readers[i] = Cardinality(Reading(i)) BY DEF PendingHasReader, ReadersCounted
          <3>2. CASE i = k BY <1>1, <2>4, <2>5, <3>1, <3>2
          <3>3. CASE i # k BY <1>1, <2>3, <2>5, <3>1, <3>3
          <3> QED BY <3>2, <3>3
      <2>7. readers[k] # 1 => Reading(k)' # {}
          <3>1. Reading(k)' = {} => Cardinality(Reading(k)') = 0 BY FS_EmptySet
          <3>2. readers[k] = Cardinality(Reading(k)) BY <1>1 DEF PendingHasReader, ReadersCounted
          <3> QED BY <2>4, <3>1, <3>2, ReadingFinite
      <2>8. \A i \in pending' : Reading(i)' # {}
          BY <1>1, <2>3, <2>5, <2>7 DEF PendingHasReader
      <2> QED BY <2>6, <2>8 DEF PendingHasReader
  <1>6. CASE ~AcquireServePath(c) /\ ~ReleaseServePath(c)
      <2>1. cl[c].pc # "reading" /\ cl'[c].pc # "reading" BY <1>6, NoReader
      <2>2. \A i : Reading(i)' = Reading(i) BY <1>2, <1>7, <2>1 DEF Reading
      <2>3. UNCHANGED readers
          BY <1>6 DEF ClientStep, Waiting, Restarting, Request, Cancelled, StartFails, CheckActive,
                 CheckListed, Open, Decide, UnlinkRead, LockRestart, Recheck, TakeJob, WaitOld,
                 DeferUnlink, UnlinkPartial, StartJob, Install, Ensure, sesVars
      <2>4. \A i \in pending' : i \in pending \/ (i \in Segs /\ readers[i] > 0)
          BY <1>6 DEF ClientStep, Waiting, Restarting, Request, Cancelled, StartFails, CheckActive,
                 CheckListed, Open, Decide, UnlinkRead, LockRestart, Recheck, TakeJob, WaitOld,
                 DeferUnlink, UnlinkPartial, StartJob, Install, Ensure, sesVars
      <2>5. ASSUME NEW i \in Segs, readers[i] > 0 PROVE Reading(i) # {}
          <3>1. Cardinality(Reading(i)) # 0 BY <2>5 DEF PendingHasReader, ReadersCounted
          <3> QED BY <3>1, FS_EmptySet
      <2> QED BY <2>2, <2>3, <2>4, <2>5 DEF PendingHasReader, ReadersCounted
  <1> QED BY <1>4, <1>5, <1>6

-----------------------------------------------------------------------------
(* restartMu and the hand-off of the job.                                  *)

LEMMA OneRestartKept ==
  ASSUME Typed, OneRestart, NEW c \in Clients, ClientStep(c)
  PROVE  OneRestart'
  <1>1. cl \in [Clients -> Locals] /\ cl[c] \in Locals BY DEF Typed, TypeOK
  <1>2. \A d \in Clients \ {c} : cl'[d] = cl[d] BY OthersKept
  <1>3. Idle.pc = "idle" BY IdleType
  <1> USE DEF At, Go, Become, Locals, RestartPCs, HandOffPCs
  <1>4. CASE LockRestart(c) BY <1>1, <1>2, <1>4 DEF OneRestart, LockRestart
  <1>5. CASE Ensure(c) \/ StartFails(c)
      <2>1. restartMu = {c} /\ restartMu' = {} BY <1>5 DEF OneRestart, Ensure, StartFails
      <2>2. cl'[c].pc \in {"ctx", "idle"} BY <1>5, Replaced
      <2> QED BY <1>2, <2>1, <2>2 DEF OneRestart
  <1>6. CASE Recheck(c)
      <2>1. restartMu = {c} BY <1>6 DEF OneRestart, Recheck
      <2>2. \/ restartMu' = restartMu
            \/ restartMu' = {} /\ cl'[c].pc = "ctx"
          BY <1>1, <1>6 DEF Recheck
      <2> QED BY <1>2, <2>1, <2>2 DEF OneRestart
  <1>7. CASE UNCHANGED restartMu /\ (cl[c].pc \notin RestartPCs => cl'[c].pc \notin RestartPCs)
      BY <1>2, <1>7 DEF OneRestart
  <1>8. CASE Request(c) \/ Cancelled(c) \/ ReleaseServePath(c) \/ UnlinkRead(c)
      <2>1. UNCHANGED restartMu
          BY <1>8 DEF Request, Cancelled, ReleaseServePath, UnlinkRead
      <2>2. cl'[c].pc \in {"ctx", "idle", "unlinkRead"}
          BY <1>8, Replaced
      <2> QED BY <1>7, <2>1, <2>2
  <1>9. CASE CheckActive(c) \/ CheckListed(c) \/ Open(c) \/ Decide(c) \/ AcquireServePath(c)
      BY <1>1, <1>7, <1>9 DEF CheckActive, CheckListed, Open, Decide, AcquireServePath
  <1>10. CASE TakeJob(c) \/ WaitOld(c) \/ DeferUnlink(c) \/ UnlinkPartial(c) \/ StartJob(c)
              \/ Install(c)
      BY <1>1, <1>7, <1>10 DEF TakeJob, WaitOld, DeferUnlink, UnlinkPartial, StartJob, Install
  <1> QED BY <1>4, <1>5, <1>6, <1>8, <1>9, <1>10 DEF ClientStep, Waiting, Restarting

(* A step that starts no process, installs no job and moves no client into, *)
(* out of or within the hand-off.                                          *)
InvolvedPCs == HandOffPCs \cup {"ensure"}
Quiet ==
  /\ LiveJobs' \subseteq LiveJobs
  /\ job' = job \/ (job' = NoJob /\ ~Running(job))
  /\ \A d \in Clients : \/ cl'[d] = cl[d]
                        \/ cl[d].pc \notin InvolvedPCs /\ cl'[d].pc \notin InvolvedPCs

LEMMA QuietKeepsHandOff ==
  ASSUME HandOffInv, Quiet
  PROVE  HandOffInv'
  <1>1. SettledJob'
      <2> SUFFICES ASSUME \A d \in Clients : cl'[d].pc \notin HandOffPCs
                   PROVE  LiveJobs' \subseteq {job'}
          BY DEF SettledJob
      <2>1. \A d \in Clients : cl[d].pc \notin HandOffPCs BY DEF Quiet, InvolvedPCs
      <2>2. LiveJobs \subseteq {job} BY <2>1 DEF HandOffInv, SettledJob
      <2>3. CASE job' = job BY <2>2, <2>3 DEF Quiet
      <2>4. CASE job' = NoJob /\ ~Running(job)
          <3>1. job \notin LiveJobs BY <2>4, Constants DEF Running, LiveJobs
          <3> QED BY <2>2, <3>1 DEF Quiet
      <2> QED BY <2>3, <2>4 DEF Quiet
  <1>2. ASSUME NEW d \in Clients PROVE HandOff(d)'
      <2>1. HandOff(d) BY DEF HandOffInv
      <2>2. CASE cl'[d] = cl[d] BY <2>1, <2>2 DEF HandOff, Quiet
      <2>3. CASE cl'[d].pc \notin InvolvedPCs
          BY <2>3 DEF HandOff, InvolvedPCs, HandOffPCs
      <2> QED BY <2>2, <2>3 DEF Quiet
  <1> QED BY <1>1, <1>2 DEF HandOffInv

LEMMA HandOffKept ==
  ASSUME Typed, OneRestart, HandOffInv, NEW c \in Clients, ClientStep(c)
  PROVE  HandOffInv'
  <1>1. cl \in [Clients -> Locals] /\ cl[c] \in Locals /\ job \in {NoJob} \cup JobIds
      BY DEF Typed, TypeOK, SessionType
  <1>2. \A d \in Clients \ {c} : cl'[d] = cl[d] BY OthersKept
  <1>3. Idle.pc = "idle" BY IdleType
  <1>4. HandOff(c) BY DEF HandOffInv
  <1>5. ASSUME cl[c].pc \in RestartPCs
        PROVE  \A d \in Clients \ {c} : cl[d].pc \notin InvolvedPCs
      BY <1>5 DEF OneRestart, InvolvedPCs, RestartPCs
  <1>6. ASSUME cl[c].pc \in RestartPCs, HandOff(c)',
               cl'[c].pc \in HandOffPCs \/ LiveJobs' \subseteq {job'}
        PROVE  HandOffInv'
      <2>1. \A d \in Clients \ {c} : HandOff(d)'
          BY <1>2, <1>5, <1>6 DEF HandOff, InvolvedPCs, HandOffPCs
      <2> QED BY <1>6, <2>1 DEF HandOffInv, SettledJob
  <1> USE DEF At, Go, Locals, InvolvedPCs, RestartPCs, HandOffPCs
  <1>7. CASE Quiet BY <1>7, QuietKeepsHandOff
  <1>8. CASE UNCHANGED <<job, jobs>> /\ cl[c].pc \notin InvolvedPCs /\ cl'[c].pc \notin InvolvedPCs
      BY <1>2, <1>7, <1>8 DEF Quiet, LiveJobs, Alive
  <1>9. CASE Request(c) \/ Cancelled(c) \/ ReleaseServePath(c) \/ UnlinkRead(c)
      <2>1. cl'[c].pc \in {"ctx", "idle", "unlinkRead"}
          BY <1>9, Replaced
      <2> QED BY <1>8, <1>9, <2>1
            DEF Request, Cancelled, ReleaseServePath, UnlinkRead, sesVars, ffVars
  <1>10. CASE CheckActive(c) \/ CheckListed(c) \/ Open(c) \/ AcquireServePath(c) \/ LockRestart(c)
      BY <1>1, <1>8, <1>10 DEF CheckActive, CheckListed, Open, AcquireServePath, LockRestart,
                              sesVars, ffVars
  <1>11. CASE Decide(c) \/ Recheck(c)
      <2>1. cl[c].pc \notin InvolvedPCs /\ cl'[c].pc \notin InvolvedPCs
          BY <1>1, <1>11 DEF Decide, Recheck
      <2>2. LiveJobs' = LiveJobs
          BY <1>11 DEF Decide, Recheck, LiveJobs, Alive, ffVars
      <2>3. job' = job \/ (job' = NoJob /\ ~Running(job))
          BY <1>11 DEF Decide, Recheck, JobView
      <2> QED BY <1>2, <1>7, <2>1, <2>2, <2>3 DEF Quiet
  <1>12. CASE TakeJob(c)
      <2>1. cl'[c].pc = "wait" /\ cl'[c].old = job /\ job' = NoJob
          BY <1>1, <1>12 DEF TakeJob
      <2>2. \A d \in Clients : cl[d].pc \notin HandOffPCs
          BY <1>5, <1>12 DEF TakeJob
      <2>3. LiveJobs \subseteq {job} BY <2>2 DEF HandOffInv, SettledJob
      <2>4. LiveJobs' \subseteq LiveJobs
          BY <1>1, <1>12 DEF TakeJob, LiveJobs, Alive, Running
      <2>5. HandOff(c)' BY <2>1, <2>3, <2>4 DEF HandOff
      <2> QED BY <1>6, <1>12, <2>1, <2>5 DEF TakeJob
  <1>13. CASE WaitOld(c)
      <2>1. cl'[c].pc = "defer" /\ cl[c].pc = "wait" BY <1>1, <1>13 DEF WaitOld
      <2>2. LiveJobs = {}
          BY <1>4, <1>13, <2>1, Constants DEF HandOff, WaitOld, Running, LiveJobs
      <2>3. UNCHANGED <<job, LiveJobs>> BY <1>13 DEF WaitOld, LiveJobs, Alive, ffVars
      <2> QED BY <1>4, <1>6, <2>1, <2>2, <2>3 DEF HandOff
  <1>14. CASE DeferUnlink(c) \/ UnlinkPartial(c)
      <2>1. cl'[c].pc \in {"unlinkPartial", "start"} /\ cl[c].pc \in {"defer", "unlinkPartial"}
          BY <1>1, <1>14 DEF DeferUnlink, UnlinkPartial
      <2>2. UNCHANGED <<job, LiveJobs>>
          BY <1>14 DEF DeferUnlink, UnlinkPartial, LiveJobs, Alive, ffVars
      <2> QED BY <1>4, <1>6, <2>1, <2>2 DEF HandOff
  <1>15. CASE StartJob(c)
      <2>1. cl[c].pc = "start" /\ UNCHANGED job BY <1>15 DEF StartJob, sesVars
      <2>2. LiveJobs = {} /\ job = NoJob BY <1>4, <2>1 DEF HandOff
      <2>3. PICK j \in JobIds :
              /\ cl' = [cl EXCEPT ![c].pc = "install", ![c].new = j]
              /\ \E job1 : jobs' = [jobs EXCEPT ![j] = job1]
          BY <1>15 DEF StartJob
      <2>4. cl'[c].pc = "install" /\ cl'[c].new = j BY <1>1, <2>3
      <2>5. LiveJobs' \subseteq {j}
          BY <2>2, <2>3 DEF LiveJobs, Alive, Typed, TypeOK, JobType
      <2> QED BY <1>6, <2>1, <2>2, <2>4, <2>5 DEF HandOff
  <1>16. CASE StartFails(c)
      <2>1. cl[c].pc = "start" /\ cl'[c].pc = "idle"
          BY <1>1, <1>3, <1>16 DEF StartFails, Become
      <2>2. LiveJobs = {} BY <1>4, <2>1 DEF HandOff
      <2>3. UNCHANGED <<job, LiveJobs>> BY <1>16 DEF StartFails, sesVars, ffVars, LiveJobs, Alive
      <2>4. HandOff(c)' BY <2>1 DEF HandOff
      <2> QED BY <1>6, <2>1, <2>2, <2>3, <2>4
  <1>17. CASE Install(c)
      <2>1. cl[c].pc = "install" /\ cl'[c].pc = "ensure" /\ cl'[c].new = cl[c].new
          BY <1>1, <1>17 DEF Install
      <2>2. job' = cl[c].new BY <1>17 DEF Install, Attach
      <2>3. LiveJobs' = LiveJobs BY <1>17 DEF Install, ffVars, LiveJobs, Alive
      <2>4. LiveJobs \subseteq {cl[c].new} BY <1>4, <2>1 DEF HandOff
      <2>5. HandOff(c)' BY <2>1, <2>2, <2>3, <2>4 DEF HandOff
      <2> QED BY <1>6, <2>1, <2>2, <2>3, <2>4, <2>5
  <1>18. CASE Ensure(c)
      <2>1. cl[c].pc = "ensure" /\ cl'[c].pc = "ctx" BY <1>1, <1>18 DEF Ensure, Idle
      <2>2. job' = cl[c].new BY <1>18 DEF Ensure, Attach
      <2>3. LiveJobs' = LiveJobs BY <1>18 DEF Ensure, ffVars, LiveJobs, Alive
      <2>4. LiveJobs \subseteq {cl[c].new} BY <1>4, <2>1 DEF HandOff
      <2>5. HandOff(c)' BY <2>1 DEF HandOff
      <2> QED BY <1>6, <2>1, <2>2, <2>3, <2>4, <2>5
  <1> QED BY <1>9, <1>10, <1>11, <1>12, <1>13, <1>14, <1>15, <1>16, <1>17, <1>18
        DEF ClientStep, Waiting, Restarting

(* Whoever installs a job starts its watcher; whoever ends one forgets it.  *)
LEMMA WatchKept ==
  ASSUME Typed, JobIsWatched, Next
  PROVE  JobIsWatched'
  <1>1. ASSUME job' = NoJob PROVE JobIsWatched' BY <1>1 DEF JobIsWatched
  <1>2. ASSUME UNCHANGED job, watching \subseteq watching' PROVE JobIsWatched'
      BY <1>2 DEF JobIsWatched
  <1>3. ASSUME NEW j, NEW i \in {1, 2}, Attach(j, i) PROVE JobIsWatched'
      BY <1>3 DEF JobIsWatched, Attach
  <1>4. ASSUME NEW w \in Watchers, WatchTick(w) \/ WatchEnd(w) PROVE JobIsWatched'
      <2>1. CASE WatchTick(w) BY <1>2, <2>1 DEF WatchTick
      <2>2. CASE WatchEnd(w)
          <3>1. CASE job = w[1] BY <1>1, <2>2, <3>1 DEF WatchEnd
          <3>2. CASE job # w[1]
              <4>1. UNCHANGED job /\ watching' = watching \ {w} BY <2>2, <3>2 DEF WatchEnd
              <4>2. \A i : <<job, i>> # w BY <3>2
              <4> QED BY <4>1, <4>2 DEF JobIsWatched
          <3> QED BY <3>1, <3>2
      <2> QED BY <1>4, <2>1, <2>2
  <1>5. ASSUME NEW j \in JobIds, FFStep(j) \/ FFGrow(j) \/ FFCrash(j) PROVE JobIsWatched'
      BY <1>2, <1>5 DEF FFStep, FFOpen, FFBegin, FFGrow, FFPublish, FFClose, FFList, FFExit,
                        FFKilled, FFCrash, sesVars, ffVars
  <1>6. ASSUME NEW c \in Clients, ClientStep(c) PROVE JobIsWatched'
      <2>1. CASE Install(c) BY <1>3, <2>1 DEF Install
      <2>2. CASE Ensure(c) BY <1>2, <1>3, <2>2 DEF Ensure
      <2>3. CASE Decide(c) \/ Recheck(c) BY <1>1, <1>2, <2>3 DEF Decide, Recheck, JobView
      <2>4. CASE TakeJob(c) BY <1>1, <2>4 DEF TakeJob
      <2> QED BY <1>2, <1>6, <2>1, <2>2, <2>3, <2>4
            DEF ClientStep, Waiting, Restarting, Request, Cancelled, ReleaseServePath, StartFails,
                CheckActive, CheckListed, Open, AcquireServePath, UnlinkRead, LockRestart,
                WaitOld, DeferUnlink, UnlinkPartial, StartJob, sesVars
  <1> QED BY <1>4, <1>5, <1>6 DEF Next

-----------------------------------------------------------------------------
(* The inductive invariant and the theorems.                               *)

IInv == Typed /\ OneRestart /\ HandOffInv /\ JobIsWatched /\ PendingHasReader

LEMMA InitEstablishes ==
  ASSUME Init
  PROVE  IInv
  <1> USE Constants DEF Init
  <1>1. Idle \in Locals /\ Idle.pc = "idle" BY IdleType
  <1>2. \A c \in Clients : cl[c] = Idle OBVIOUS
  <1>3. NotStarted.st = "none" /\ NotStarted.wr = "none" BY DEF NotStarted
  <1>4. LiveJobs = {} BY <1>3 DEF LiveJobs, Alive
  <1>5. Typed
      <2>0. 0 \in Segs /\ 0 \in 0..(N + 1) BY DEF Segs
      <2>3. DirType BY SessionAssumption DEF DirType
      <2>4. SessionType BY <2>0 DEF SessionType
      <2>1. DirType /\ SessionType BY <2>3, <2>4
      <2>2. JobType BY DEF JobType, NotStarted, Segs
      <2>5. TypeOK BY <1>1, <2>1, <2>2 DEF TypeOK
      <2> QED BY <1>1, <1>2, <1>3, <2>5 DEF Typed, WriterInPlaylist, InstallsJob
  <1>6. OneRestart BY <1>1, <1>2 DEF OneRestart, RestartPCs, HandOffPCs
  <1>7. HandOffInv
      BY <1>1, <1>2, <1>4 DEF HandOffInv, SettledJob, HandOff, HandOffPCs
  <1>8. PendingHasReader
      <2>1. \A k : Reading(k) = {} BY <1>1, <1>2 DEF Reading
      <2> QED BY <2>1, FS_EmptySet DEF PendingHasReader, ReadersCounted
  <1> QED BY <1>5, <1>6, <1>7, <1>8 DEF IInv, JobIsWatched

(* A step of ffmpeg or of a watcher moves no client; ffmpeg only ever ends. *)
LEMMA EnvironmentKeeps ==
  ASSUME IInv, UNCHANGED <<cl, restartMu, readers, pending>>, LiveJobs' \subseteq LiveJobs,
         job' = job \/ (job' = NoJob /\ ~Running(job))
  PROVE  OneRestart' /\ HandOffInv' /\ PendingHasReader'
  <1>1. OneRestart' BY DEF IInv, OneRestart
  <1>2. HandOffInv' BY QuietKeepsHandOff DEF IInv, Quiet
  <1>3. PendingHasReader' BY DEF IInv, PendingHasReader, ReadersCounted, Reading
  <1> QED BY <1>1, <1>2, <1>3

LEMMA NextKeeps ==
  ASSUME IInv, [Next]_vars
  PROVE  IInv'
  <1>1. CASE UNCHANGED vars
      BY <1>1 DEF IInv, vars, fsVars, ffVars, sesVars, Typed, TypeOK, DirType, JobType, SessionType,
                  WriterInPlaylist, InstallsJob, OneRestart, HandOffInv, SettledJob, HandOff,
                  LiveJobs, Alive, JobIsWatched, PendingHasReader, ReadersCounted, Reading
  <1>2. CASE Next
      <2>1. JobIsWatched' BY <1>2, WatchKept DEF IInv
      <2>2. ASSUME NEW j \in JobIds, FFStep(j) \/ FFGrow(j) \/ FFCrash(j) PROVE IInv'
          <3>1. UNCHANGED <<cl, restartMu, readers, pending, job>>
              BY <2>2 DEF FFStep, FFOpen, FFBegin, FFGrow, FFPublish, FFClose, FFList, FFExit,
                          FFKilled, FFCrash, sesVars
          <3>2. LiveJobs' \subseteq LiveJobs
              <4>1. jobs \in [JobIds -> [st : {"none", "run", "kill", "done"}, start : Segs,
                      stop : Segs, w : Segs, wr : {"none", "boot", "idle", "open", "closed"},
                      over : BOOLEAN]]
                  BY DEF IInv, Typed, TypeOK, JobType
              <4> QED BY <2>2, <4>1
                    DEF FFStep, FFOpen, FFBegin, FFGrow, FFPublish, FFClose, FFList, FFExit,
                        FFKilled, FFCrash, SetJob, ffVars, LiveJobs, Alive
          <3>3. Typed' BY <2>2, FFTyped DEF IInv
          <3> QED BY <2>1, <3>1, <3>2, <3>3, EnvironmentKeeps DEF IInv
      <2>3. ASSUME NEW w \in Watchers, WatchTick(w) \/ WatchEnd(w) PROVE IInv'
          <3>1. UNCHANGED <<cl, restartMu, readers, pending, LiveJobs>>
              BY <2>3 DEF WatchTick, WatchEnd, ffVars, LiveJobs, Alive
          <3>2. job' = job \/ (job' = NoJob /\ ~Running(job))
              BY <2>3 DEF WatchTick, WatchEnd, Running
          <3>3. Typed' BY <2>3, WatcherTyped DEF IInv
          <3> QED BY <2>1, <3>1, <3>2, <3>3, EnvironmentKeeps DEF IInv
      <2>4. ASSUME NEW c \in Clients, ClientStep(c) PROVE IInv'
          <3>1. Typed' BY <2>4, ClientTyped DEF IInv, PendingHasReader
          <3>2. OneRestart' /\ HandOffInv' /\ PendingHasReader'
              BY <2>4, OneRestartKept, HandOffKept, ReadersKept DEF IInv
          <3> QED BY <2>1, <3>1, <3>2 DEF IInv
      <2> QED BY <1>2, <2>2, <2>3, <2>4 DEF Next
  <1> QED BY <1>1, <1>2

(* The strengthened invariant holds in every behaviour.                    *)
THEOREM StrongInvariant == Spec => []IInv
  <1>1. Init => IInv BY InitEstablishes
  <1>2. IInv /\ [Next]_vars => IInv' BY NextKeeps
  <1> QED BY <1>1, <1>2, PTL DEF Spec

(* The fields of the session, the jobs, the directory and the clients' locals *)
(* stay in their domains: the encode head never leaves 0..N+1, ffmpeg never *)
(* writes past the playlist, a reader count never goes negative.            *)
THEOREM TypeCorrect == Spec => []TypeOK
  <1>1. IInv => TypeOK BY DEF IInv, Typed
  <1> QED BY <1>1, StrongInvariant, PTL

(* No ffmpeg is leaked: a live process is the session's job, or a restart is *)
(* about to wait for its end or to install it.                             *)
THEOREM NoJobIsOrphaned == Spec => []NoOrphanJob
  <1>1. ASSUME IInv PROVE NoOrphanJob
      <2> SUFFICES ASSUME NEW j \in LiveJobs PROVE job = j \/ InHandOff(j)
          BY DEF NoOrphanJob
      <2>1. CASE \A c \in Clients : cl[c].pc \notin HandOffPCs
          BY <1>1, <2>1 DEF IInv, HandOffInv, SettledJob
      <2>2. CASE \E c \in Clients : cl[c].pc \in HandOffPCs
          <3>1. PICK c \in Clients : cl[c].pc \in HandOffPCs BY <2>2
          <3>2. HandOff(c) BY <1>1 DEF IInv, HandOffInv
          <3> QED BY <3>1, <3>2 DEF HandOff, HandOffPCs, InHandOff
      <2> QED BY <2>1, <2>2
  <1> QED BY <1>1, StrongInvariant, PTL

(* Where each client is in its hand-off tells whose the live process is.    *)
LEMMA OneAlive ==
  ASSUME IInv
  PROVE  OneActiveJob
  <1>1. CASE \A c \in Clients : cl[c].pc \notin HandOffPCs
      BY <1>1 DEF IInv, HandOffInv, SettledJob, OneActiveJob
  <1>2. CASE \E c \in Clients : cl[c].pc \in HandOffPCs
      <2>1. PICK c \in Clients : cl[c].pc \in HandOffPCs BY <1>2
      <2>2. HandOff(c) BY DEF IInv, HandOffInv
      <2> QED BY <2>1, <2>2 DEF HandOff, HandOffPCs, OneActiveJob
  <1> QED BY <1>1, <1>2

(* "One active job per file + transcode profile": two ffmpeg processes never *)
(* write the session's directory at the same time.                         *)
THEOREM AtMostOneActiveJob == Spec => []OneActiveJob
  <1>1. IInv => OneActiveJob BY OneAlive
  <1> QED BY <1>1, StrongInvariant, PTL

(* The session's job always has a watcher that will forget it.             *)
THEOREM InstalledJobIsWatched == Spec => []JobIsWatched
  <1>1. IInv => JobIsWatched BY DEF IInv
  <1> QED BY <1>1, StrongInvariant, PTL

(* The reader counts are exact and a deferred unlink always has a reader     *)
(* left to perform it.                                                     *)
THEOREM DeferredUnlinkHasReader == Spec => []PendingHasReader
  <1>1. IInv => PendingHasReader BY DEF IInv
  <1> QED BY <1>1, StrongInvariant, PTL

-----------------------------------------------------------------------------
(* A job fills a gap.                                                      *)

(* The segments of a job's range that it has not opened yet.               *)
Ahead(j, i) == /\ jobs[j].w < i \/ (jobs[j].w = i /\ jobs[j].wr \in {"boot", "idle"})
               /\ jobs[j].stop > jobs[j].start => i < jobs[j].stop

(* None of them is ready, unless the job started over a ready segment.     *)
GapAhead == \A j \in LiveJobs : jobs[j].over \/ \A i \in Segs : Ahead(j, i) => ~ReadyAt(i)

(* clearStaleVODSegments: below the bound, or without one, only the first   *)
(* segment may be ready.                                                   *)
LEMMA BelowBound ==
  ASSUME NEW k \in Segs, NEW i \in k..N, i > 0, StaleBound(k) = 0 \/ i < StaleBound(k)
  PROVE  ~ReadyAt(i)
  <1> DEFINE ready == {n \in k..N : n > 0 /\ ReadyAt(n)}
  <1>1. SUFFICES ASSUME i \in ready PROVE FALSE OBVIOUS
  <1>2. ready \subseteq Nat BY Constants DEF Segs
  <1>3. \E n \in ready : \A m \in ready : n <= m BY <1>1, <1>2, LeastNatural
  <1>4. StaleBound(k) \in ready /\ StaleBound(k) <= i
      BY <1>1, <1>3 DEF StaleBound
  <1> QED BY <1>1, <1>2, <1>4

(* The bound lies in the range that was searched.                          *)
LEMMA BoundRange ==
  ASSUME NEW k \in Segs
  PROVE  StaleBound(k) = 0 \/ (StaleBound(k) \in k..N /\ ReadyAt(StaleBound(k)))
  <1> DEFINE ready == {n \in k..N : n > 0 /\ ReadyAt(n)}
  <1>1. CASE ready = {} BY <1>1 DEF StaleBound
  <1>2. CASE ready # {}
      <2>1. ready \subseteq Nat BY Constants DEF Segs
      <2>2. \E i \in ready : \A m \in ready : i <= m BY <1>2, <2>1, LeastNatural
      <2>3. StaleBound(k) \in ready BY <1>2, <2>2 DEF StaleBound
      <2> QED BY <2>3
  <1> QED BY <1>1, <1>2

(* What a job finds that starts where nothing is ready.                    *)
LEMMA GapAtStart ==
  ASSUME Typed, LiveJobs = {}, Clear, NEW c \in Clients, StartJob(c)
  PROVE  GapAhead'
  <1> DEFINE k == cl[c].k
             b == StaleBound(k)
  <1>1. k \in Segs BY DEF Typed, TypeOK, Locals
  <1>2. PICK j \in JobIds :
          jobs' = [jobs EXCEPT ![j] = [st |-> "run", start |-> k, stop |-> IF b > k THEN b ELSE 0,
                                       w |-> k, wr |-> "boot", over |-> ReadyAt(k)]]
      BY DEF StartJob
  <1>3. /\ file' = [i \in Segs |-> IF i \in Stale(k) THEN "none" ELSE file[i]]
        /\ tmp' = [i \in Segs |-> FALSE]
      <2>1. Prepared(k, N + 1) BY DEF StartJob
      <2>2. \A i \in Segs : i < N + 1 BY Constants DEF Segs
      <2>3. \A i \in Segs : tmp[i] \in BOOLEAN BY DEF Typed, TypeOK, DirType
      <2> QED BY <2>1, <2>2, <2>3 DEF Prepared
  <1>4. jobs \in [JobIds -> [st : {"none", "run", "kill", "done"}, start : Segs, stop : Segs,
                             w : Segs, wr : {"none", "boot", "idle", "open", "closed"},
                             over : BOOLEAN]]
      BY DEF Typed, TypeOK, JobType
  <1>5. LiveJobs' \subseteq {j} BY <1>2, <1>4 DEF LiveJobs, Alive
  <1>6. /\ jobs'[j].start = k /\ jobs'[j].w = k /\ jobs'[j].over = ReadyAt(k)
        /\ jobs'[j].stop = IF b > k THEN b ELSE 0
      BY <1>2, <1>4
  <1> HIDE DEF b
  <1>7. SUFFICES ASSUME ~ReadyAt(k), NEW i \in Segs, Ahead(j, i)' PROVE ~ReadyAt(i)'
      BY <1>5, <1>6 DEF GapAhead
  <1>8. i \in k..N /\ (b > k => i < b)
      BY <1>1, <1>6, <1>7, Constants DEF Ahead, Segs
  <1>9. b = 0 \/ (b \in k..N /\ ReadyAt(b)) BY <1>1, BoundRange DEF b
  <1>10. b = 0 \/ b > k BY <1>1, <1>7, <1>9, Constants DEF Segs
  <1>11. ~ReadyAt(i)
      <2>1. CASE i > 0 BY <1>1, <1>8, <1>10, <2>1, BelowBound DEF b
      <2>2. CASE i = 0
          <3>1. k = 0 BY <1>1, <1>8, <2>2, Constants DEF Segs
          <3> QED BY <1>7, <2>2, <3>1
      <2> QED BY <2>1, <2>2, Constants DEF Segs
  <1>12. i \in Stale(k) BY <1>8, <1>10, <1>11, <1>9 DEF Stale, b
  <1> QED BY <1>3, <1>12 DEF ReadyAt

(* Who leaves the jobs alone and makes nothing ready keeps the gap.        *)
LEMMA GapUndisturbed ==
  ASSUME GapAhead, UNCHANGED jobs, \A i \in Segs : ReadyAt(i)' => ReadyAt(i)
  PROVE  GapAhead'
  BY DEF GapAhead, Ahead, LiveJobs, Alive

(* ffmpeg makes ready what it has opened, and nothing ahead.               *)
LEMMA GapShrinks ==
  ASSUME Typed, OneActiveJob, GapAhead, NEW j \in JobIds, FFStep(j) \/ FFGrow(j) \/ FFCrash(j)
  PROVE  GapAhead'
  <1>1. jobs \in [JobIds -> [st : {"none", "run", "kill", "done"}, start : Segs, stop : Segs,
                             w : Segs, wr : {"none", "boot", "idle", "open", "closed"},
                             over : BOOLEAN]]
        /\ DirType
      BY DEF Typed, TypeOK, JobType
  <1>2. Alive(j)
      BY DEF FFStep, FFOpen, FFBegin, FFGrow, FFPublish, FFClose, FFList, FFExit, FFKilled, FFCrash,
             Alive
  <1>3. \A m \in JobIds \ {j} : jobs'[m] = jobs[m]
      BY <1>1 DEF FFStep, FFOpen, FFBegin, FFGrow, FFPublish, FFClose, FFList, FFExit, FFKilled,
                  FFCrash, SetJob, ffVars
  <1>4. LiveJobs' \subseteq {j} BY <1>2, <1>3 DEF OneActiveJob, LiveJobs, Alive
  <1>5. SUFFICES ASSUME ~jobs'[j].over, NEW i \in Segs, Ahead(j, i)' PROVE ~ReadyAt(i)'
      BY <1>4 DEF GapAhead
  <1> USE Constants DEF Ahead, SetJob
  <1>6. /\ jobs'[j].over = jobs[j].over /\ jobs'[j].start = jobs[j].start
        /\ jobs'[j].stop = jobs[j].stop
      BY <1>1 DEF FFStep, FFOpen, FFBegin, FFGrow, FFPublish, FFClose, FFList, FFExit, FFKilled,
                  FFCrash, ffVars
  <1>7. j \in LiveJobs BY <1>2 DEF LiveJobs
  <1>8. Ahead(j, i) => ~ReadyAt(i) BY <1>5, <1>6, <1>7 DEF GapAhead
  <1>9. CASE FFOpen(j) BY <1>1, <1>5, <1>8, <1>9 DEF FFOpen, ReadyAt
  <1>10. CASE FFBegin(j)
      <2>1. jobs'[j].w = jobs[j].w /\ jobs'[j].wr = "open" BY <1>1, <1>10 DEF FFBegin
      <2>2. jobs[j].w < i BY <1>5, <2>1
      <2>3. ~ReadyAt(i) BY <1>5, <1>6, <1>8, <2>1
      <2>4. jobs[j].w \in Nat BY <1>1
      <2>5. file'[i] = file[i] /\ tmp'[i] = tmp[i] BY <1>1, <1>10, <2>2, <2>4 DEF FFBegin, DirType
      <2> QED BY <2>3, <2>5 DEF ReadyAt
  <1>11. CASE FFGrow(j) BY <1>1, <1>5, <1>8, <1>11 DEF FFGrow, ReadyAt, DirType, ffVars
  <1>12. CASE FFPublish(j) BY <1>1, <1>5, <1>8, <1>12 DEF FFPublish, ReadyAt, DirType, Segs
  <1>13. CASE FFClose(j) BY <1>1, <1>5, <1>8, <1>13 DEF FFClose, ReadyAt, DirType
  <1>14. CASE FFList(j) BY <1>1, <1>5, <1>8, <1>14 DEF FFList, ReadyAt, DirType, Segs
  <1>15. CASE FFExit(j) \/ FFKilled(j) \/ FFCrash(j)
      BY <1>1, <1>5, <1>8, <1>15 DEF FFExit, FFKilled, FFCrash, ReadyAt, fsVars
  <1> QED BY <1>9, <1>10, <1>11, <1>12, <1>13, <1>14, <1>15 DEF FFStep

LEMMA GapKept ==
  ASSUME IInv, Clear, GapAhead, [Next]_vars
  PROVE  GapAhead'
  <1>1. CASE UNCHANGED <<fsVars, jobs>>
      BY <1>1, GapUndisturbed DEF fsVars, ReadyAt
  <1>2. CASE UNCHANGED vars BY <1>1, <1>2 DEF vars, ffVars
  <1>3. ASSUME NEW j \in JobIds, FFStep(j) \/ FFGrow(j) \/ FFCrash(j) PROVE GapAhead'
      BY <1>3, GapShrinks, OneAlive DEF IInv
  <1>4. ASSUME NEW w \in Watchers, WatchTick(w) \/ WatchEnd(w) PROVE GapAhead'
      BY <1>1, <1>4 DEF WatchTick, WatchEnd, ffVars
  <1>5. ASSUME NEW c \in Clients, ClientStep(c) PROVE GapAhead'
      <2>1. CASE StartJob(c)
          <3>1. LiveJobs = {}
              BY <2>1 DEF IInv, HandOffInv, HandOff, StartJob, At
          <3> QED BY <2>1, <3>1, GapAtStart DEF IInv
      <2>2. CASE TakeJob(c)
          <3>1. \A j \in JobIds : /\ jobs'[j].w = jobs[j].w /\ jobs'[j].wr = jobs[j].wr
                                  /\ jobs'[j].start = jobs[j].start /\ jobs'[j].stop = jobs[j].stop
                                  /\ jobs'[j].over = jobs[j].over
                                  /\ Alive(j)' => Alive(j)
              BY <2>2 DEF TakeJob, Running, Alive, IInv, Typed, TypeOK, JobType
          <3>2. UNCHANGED fsVars BY <2>2 DEF TakeJob
          <3> QED BY <3>1, <3>2 DEF GapAhead, Ahead, LiveJobs, ReadyAt, fsVars
      <2>3. ASSUME NEW k, Unlink(k), UNCHANGED ffVars PROVE GapAhead'
          <3>1. DirType BY DEF IInv, Typed, TypeOK
          <3>2. \A i \in Segs : ReadyAt(i)' => ReadyAt(i)
              BY <2>3, <3>1 DEF Unlink, ReadyAt, DirType
          <3> QED BY <2>3, <3>2, GapUndisturbed DEF ffVars
      <2>4. CASE UnlinkRead(c) \/ UnlinkPartial(c)
          BY <2>3, <2>4 DEF UnlinkRead, UnlinkPartial
      <2>5. CASE StartFails(c)
          <3>1. LiveJobs = {}
              BY <2>5 DEF IInv, HandOffInv, HandOff, StartFails, At
          <3> QED BY <2>5, <3>1 DEF StartFails, ffVars, GapAhead, LiveJobs, Alive
      <2> QED BY <1>1, <1>5, <2>1, <2>2, <2>4, <2>5
            DEF ClientStep, Waiting, Restarting, Request, Cancelled, ReleaseServePath,
                CheckActive, CheckListed, Open, Decide, AcquireServePath, LockRestart, Recheck,
                WaitOld, DeferUnlink, Install, Ensure, ffVars
  <1> QED BY <1>2, <1>3, <1>4, <1>5 DEF Next

(* Whoever asked for a segment that was missing and got a job for it: the    *)
(* job fills the gap up to the first ready segment and never opens a ready   *)
(* one, unless the segment got ready before the job was started.            *)
THEOREM GapsAreFilled == ASSUME Clear PROVE Spec => GapIsFilled
  <1>1. Init => GapAhead
      <2>1. Init => LiveJobs = {} BY DEF Init, LiveJobs, Alive, NotStarted
      <2> QED BY <2>1 DEF GapAhead
  <1>2. IInv /\ GapAhead /\ [Next]_vars => GapAhead' BY GapKept
  <1>3. IInv /\ GapAhead =>
          \A j \in JobIds : FFBegin(j) /\ ReadyAt(jobs[j].w) => jobs[j].over
      <2> SUFFICES ASSUME IInv, GapAhead, NEW j \in JobIds, FFBegin(j), ReadyAt(jobs[j].w)
                   PROVE  jobs[j].over
          OBVIOUS
      <2>1. j \in LiveJobs /\ jobs[j].wr = "idle" /\ HasNext(j) BY DEF FFBegin, LiveJobs
      <2>2. jobs[j].w \in Segs BY DEF IInv, Typed, TypeOK, JobType
      <2>3. Ahead(j, jobs[j].w) BY <2>1 DEF Ahead, HasNext
      <2> QED BY <2>1, <2>2, <2>3 DEF GapAhead
  <1> QED BY <1>1, <1>2, <1>3, StrongInvariant, PTL DEF Spec, GapIsFilled

-----------------------------------------------------------------------------
(* A client alone does not restart a job that has made its segment.        *)

(* The program points from which a request may restart again.              *)
LoopPCs == {"ctx", "list", "open", "view", "lock"} \cup RestartPCs
InLoop(c) == cl[c].pc \in LoopPCs /\ cl[c].new # NoJob /\ cl[c].k < N

Written(k) == file[k] = "full" /\ ~tmp[k] /\ (explicitCopy => k \in csv)

(* How far the job of the request has come with the segment it was started  *)
(* for.                                                                    *)
Progress(j, k) ==
  /\ jobs[j].st # "none" /\ jobs[j].start = k /\ jobs[j].w >= k
  /\ jobs[j].wr = "boot" => jobs[j].w = k
  /\ jobs[j].w > k => Written(k)
  /\ Alive(j) /\ jobs[j].w = k /\ jobs[j].wr = "open" =>
       IF explicitCopy THEN file[k] # "none" ELSE tmp[k]
  /\ Alive(j) /\ jobs[j].w = k /\ jobs[j].wr = "closed" => explicitCopy /\ file[k] = "full"

(* A restart that gets as far as the hand-off has found the job dead; and    *)
(* the partial segment it removes is not the one that was asked for, if the  *)
(* job had finished that.                                                  *)
Loop(c) ==
  /\ LiveJobs \subseteq {cl[c].new}
  /\ job = cl[c].new => jobStart = cl[c].k
  /\ Progress(cl[c].new, cl[c].k)
  /\ cl[c].pc = "take" => job = NoJob
  /\ cl[c].pc \in {"wait", "defer", "unlinkPartial", "start"} => cl[c].old # cl[c].new
  /\ cl[c].pc = "unlinkPartial" /\ jobs[cl[c].new].w > cl[c].k => cl[c].partial # cl[c].k

HeadAhead == head >= jobStart
NoTmp == explicitCopy => \A i \in Segs : ~tmp[i]

LoopInv == HeadAhead /\ NoTmp /\ \A c \in Clients : InLoop(c) => Loop(c)

(* A refresh never moves the head before the session's first segment.      *)
LEMMA NewHeadAhead ==
  ASSUME Typed, HeadAhead
  PROVE  NewHead >= jobStart /\ NewHead \in Nat
  <1>1. head \in 0..(N + 1) /\ jobStart \in Segs /\ jobStart \in 0..(N + 1)
      BY Constants DEF Typed, TypeOK, SessionType, Segs
  <1>2. NewHead \in Nat BY HeadType, Constants DEF Typed
  <1>3. CASE job = NoJob BY <1>1, <1>2, <1>3 DEF NewHead, HeadAhead
  <1>4. CASE job # NoJob /\ ~explicitCopy
      <2>1. FirstFrom(head, ReadyAt) \in head..(N + 1) BY <1>1, FirstNotReady
      <2>2. NewHead = FirstFrom(head, ReadyAt) BY <1>4 DEF NewHead
      <2> QED BY <1>1, <1>2, <2>1, <2>2, Constants DEF HeadAhead
  <1>5. CASE job # NoJob /\ explicitCopy
      <2>1. FirstFrom(jobStart, Listed) \in jobStart..(N + 1) BY <1>1, FirstListed
      <2>2. jobs[job].stop \in Nat
          BY <1>5, Constants DEF Typed, TypeOK, SessionType, JobType
      <2>3. NewHead = CappedHead BY <1>5 DEF NewHead
      <2>4. CappedHead >= jobStart BY <1>1, <2>1, <2>2, Constants DEF CappedHead
      <2> QED BY <1>2, <2>3, <2>4
  <1> QED BY <1>3, <1>4, <1>5, Constants DEF Typed, TypeOK

(* While the job of the request runs and is the session's, the request       *)
(* waits for it.                                                           *)
LEMMA WaitsForItsJob ==
  ASSUME Typed, HeadAhead, NEW c \in Clients, InLoop(c), Loop(c), job = cl[c].new, Alive(job)
  PROVE  ~MustRestart(cl[c].k)
  <1>1. jobStart = cl[c].k BY DEF Loop
  <1>2. cl[c].k \in Nat /\ cl[c].k < N /\ job # NoJob
      BY Constants DEF Typed, TypeOK, Locals, InLoop
  <1>3. NewHead >= cl[c].k /\ NewHead \in Nat BY <1>1, NewHeadAhead
  <1> QED BY <1>1, <1>2, <1>3, Constants DEF MustRestart, Running

LEMMA HeadStaysAhead ==
  ASSUME IInv, HeadAhead, [Next]_vars
  PROVE  HeadAhead'
  <1> USE DEF HeadAhead
  <1>1. Typed /\ NewHead >= jobStart BY NewHeadAhead DEF IInv
  <1>2. CASE UNCHANGED <<head, jobStart>> BY <1>2
  <1>3. CASE UNCHANGED vars BY <1>2, <1>3 DEF vars, sesVars
  <1>4. ASSUME NEW j \in JobIds, FFStep(j) \/ FFGrow(j) \/ FFCrash(j) PROVE HeadAhead'
      BY <1>2, <1>4 DEF FFStep, FFOpen, FFBegin, FFGrow, FFPublish, FFClose, FFList, FFExit,
                        FFKilled, FFCrash, sesVars
  <1>5. ASSUME NEW w \in Watchers, WatchTick(w) \/ WatchEnd(w) PROVE HeadAhead'
      BY <1>1, <1>2, <1>5 DEF WatchTick, WatchEnd, RefreshEncodeHead
  <1>6. ASSUME NEW c \in Clients, ClientStep(c) PROVE HeadAhead'
      <2>1. CASE AcquireServePath(c) \/ Decide(c) \/ Recheck(c)
          BY <1>1, <2>1 DEF AcquireServePath, Decide, Recheck, JobView, RefreshEncodeHead
      <2>2. ASSUME NEW j \in JobIds, NEW i, Attach(j, i) PROVE HeadAhead'
          <3>1. jobs[j].start \in Nat BY <1>1, Constants DEF Typed, TypeOK, JobType
          <3> QED BY <2>2, <3>1 DEF Attach
      <2>3. CASE Install(c) \/ Ensure(c)
          <3>1. cl[c].new \in JobIds BY <1>1, <2>3 DEF Typed, InstallsJob, Install, Ensure, At
          <3> QED BY <1>2, <2>2, <2>3, <3>1 DEF Install, Ensure
      <2> QED BY <1>2, <1>6, <2>1, <2>3
            DEF ClientStep, Waiting, Restarting, Request, Cancelled, ReleaseServePath, StartFails,
                CheckActive, CheckListed, Open, UnlinkRead, LockRestart, TakeJob, WaitOld,
                DeferUnlink, UnlinkPartial, StartJob, sesVars
  <1> QED BY <1>3, <1>4, <1>5, <1>6 DEF Next

(* Jobs that write in place have no .tmp files.                            *)
LEMMA NoTmpKept ==
  ASSUME IInv, NoTmp, [Next]_vars
  PROVE  NoTmp'
  <1> USE DEF NoTmp
  <1>1. tmp \in [Segs -> BOOLEAN] BY DEF IInv, Typed, TypeOK, DirType
  <1>2. CASE UNCHANGED <<tmp, explicitCopy>> BY <1>2
  <1>3. CASE UNCHANGED vars BY <1>2, <1>3 DEF vars, fsVars
  <1>4. ASSUME NEW j \in JobIds, FFStep(j) \/ FFGrow(j) \/ FFCrash(j) PROVE NoTmp'
      BY <1>2, <1>4 DEF FFStep, FFOpen, FFBegin, FFGrow, FFPublish, FFClose, FFList, FFExit,
                        FFKilled, FFCrash, fsVars
  <1>5. ASSUME NEW w \in Watchers, WatchTick(w) \/ WatchEnd(w) PROVE NoTmp'
      BY <1>2, <1>5 DEF WatchTick, WatchEnd, fsVars
  <1>6. ASSUME NEW c \in Clients, ClientStep(c) PROVE NoTmp'
      <2>1. CASE UnlinkRead(c) \/ UnlinkPartial(c)
          BY <1>1, <2>1 DEF UnlinkRead, UnlinkPartial, Unlink
      <2>2. CASE StartJob(c) \/ StartFails(c)
          BY <1>1, <2>2 DEF StartJob, StartFails, Prepared
      <2> QED BY <1>2, <1>6, <2>1, <2>2
            DEF ClientStep, Waiting, Restarting, Request, Cancelled, ReleaseServePath,
                CheckActive, CheckListed, Open, Decide, AcquireServePath, LockRestart, Recheck,
                TakeJob, WaitOld, DeferUnlink, Install, Ensure, fsVars
  <1> QED BY <1>3, <1>4, <1>5, <1>6 DEF Next

(* ffmpeg makes the segment it was started for first, and no other process   *)
(* runs.                                                                   *)
LEMMA ProgressMade ==
  ASSUME Typed, NoTmp, NEW j \in JobIds, NEW k \in Segs, LiveJobs \subseteq {j}, Progress(j, k),
         NEW m \in JobIds, FFStep(m) \/ FFGrow(m) \/ FFCrash(m)
  PROVE  Progress(j, k)' /\ LiveJobs' \subseteq {j}
  <1>1. jobs \in [JobIds -> [st : {"none", "run", "kill", "done"}, start : Segs, stop : Segs,
                             w : Segs, wr : {"none", "boot", "idle", "open", "closed"},
                             over : BOOLEAN]]
        /\ DirType
      BY DEF Typed, TypeOK, JobType
  <1>2. m = j
      BY DEF FFStep, FFOpen, FFBegin, FFGrow, FFPublish, FFClose, FFList, FFExit, FFKilled, FFCrash,
             Alive, LiveJobs
  <1>3. \A i \in JobIds \ {j} : jobs'[i] = jobs[i]
      BY <1>1, <1>2 DEF FFStep, FFOpen, FFBegin, FFGrow, FFPublish, FFClose, FFList, FFExit,
                        FFKilled, FFCrash, SetJob, ffVars
  <1>4. LiveJobs' \subseteq {j} BY <1>3 DEF LiveJobs, Alive
  <1>5. jobs[j].w \in Nat /\ k \in Nat /\ jobs[j].w \in Segs BY <1>1, Constants
  <1>6. \A i \in Segs : explicitCopy => ~tmp[i] BY DEF NoTmp
  <1> USE DEF SetJob, Progress, Written
  <1>7. CASE FFOpen(j)
      <2>1. jobs[j].wr = "boot" BY <1>7 DEF FFOpen
      <2> QED BY <1>1, <1>4, <1>5, <1>7, <2>1 DEF FFOpen, Alive
  <1>8. CASE FFBegin(j) BY <1>1, <1>4, <1>5, <1>8 DEF FFBegin, DirType, Alive
  <1>9. CASE FFGrow(j) BY <1>1, <1>4, <1>5, <1>9 DEF FFGrow, DirType, Alive, ffVars
  <1>10. CASE FFPublish(j) BY <1>1, <1>4, <1>5, <1>10 DEF FFPublish, DirType, Alive
  <1>11. CASE FFClose(j) BY <1>1, <1>4, <1>5, <1>11 DEF FFClose, DirType, Alive
  <1>12. CASE FFList(j) BY <1>1, <1>4, <1>5, <1>6, <1>12 DEF FFList, DirType, Alive
  <1>13. CASE FFExit(j) \/ FFKilled(j) \/ FFCrash(j)
      BY <1>1, <1>4, <1>13 DEF FFExit, FFKilled, FFCrash, Alive, fsVars
  <1> QED BY <1>2, <1>7, <1>8, <1>9, <1>10, <1>11, <1>12, <1>13 DEF FFStep

(* What leaves the directory, the processes and the client's request alone. *)
LEMMA LoopUndisturbed ==
  ASSUME NEW c \in Clients, Loop(c), UNCHANGED <<fsVars, jobs, explicitCopy, jobStart>>,
         job' \in {job, NoJob}, NoJob # cl[c].new,
         cl'[c].k = cl[c].k, cl'[c].new = cl[c].new,
         \/ cl'[c].pc \notin {"take", "wait", "defer", "unlinkPartial", "start"}
         \/ cl'[c] = cl[c]
         \/ cl'[c].pc = "defer" /\ cl[c].pc = "wait" /\ cl'[c].old = cl[c].old
  PROVE  Loop(c)'
  BY DEF Loop, Progress, Written, LiveJobs, Alive, fsVars

(* The restarts of the one client.                                         *)
LEMMA LoopStep ==
  ASSUME IInv, HeadAhead, NoTmp, NEW c \in Clients, Clients = {c}, InLoop(c) => Loop(c),
         ClientStep(c), InLoop(c)'
  PROVE  Loop(c)'
  <1>1. /\ Typed /\ cl \in [Clients -> Locals] /\ cl[c] \in Locals
        /\ job \in {NoJob} \cup JobIds
      BY DEF IInv, Typed, TypeOK, SessionType
  <1>2. jobs \in [JobIds -> [st : {"none", "run", "kill", "done"}, start : Segs, stop : Segs,
                             w : Segs, wr : {"none", "boot", "idle", "open", "closed"},
                             over : BOOLEAN]]
        /\ DirType
      BY <1>1 DEF Typed, TypeOK, JobType
  <1>3. HandOff(c) /\ SettledJob BY DEF IInv, HandOffInv
  <1>4. cl[c].k \in Nat /\ cl[c].k \in Segs /\ cl[c].new \in {NoJob} \cup JobIds
      BY <1>1, Constants DEF Locals
  <1>5. cl'[c].pc \in LoopPCs /\ cl'[c].new # NoJob BY DEF InLoop
  <1> USE DEF At, Go, LoopPCs, RestartPCs, HandOffPCs
  <1>6. ~(Request(c) \/ Cancelled(c) \/ StartFails(c) \/ UnlinkRead(c) \/ ReleaseServePath(c)
            \/ AcquireServePath(c))
      <2>1. cl'[c].pc \notin {"idle", "unlinkRead", "reading"} BY <1>5
      <2>2. ~Request(c)
          <3>1. \A k : [Idle EXCEPT !.pc = "ctx", !.k = k].new = NoJob BY DEF Idle
          <3>2. Request(c) => cl'[c].new = NoJob BY <1>1, <3>1 DEF Request, Become
          <3> QED BY <1>5, <3>2
      <2>3. ~AcquireServePath(c) BY <1>1, <2>1 DEF AcquireServePath, Locals
      <2> QED BY <1>1, <2>1, <2>2, <2>3, Replaced
  <1>7. ASSUME cl'[c].k = cl[c].k, cl'[c].new = cl[c].new, cl[c].pc \in LoopPCs
        PROVE  InLoop(c) /\ Loop(c) /\ NoJob # cl[c].new /\ cl[c].new \in JobIds
      BY <1>4, <1>7 DEF InLoop
  <1>8. CASE CheckActive(c) \/ CheckListed(c) \/ Open(c) \/ LockRestart(c)
      <2>1. /\ cl'[c].k = cl[c].k /\ cl'[c].new = cl[c].new /\ cl[c].pc \in LoopPCs
            /\ cl'[c].pc \in {"ctx", "list", "open", "found", "view", "recheck"}
          BY <1>1, <1>8 DEF CheckActive, CheckListed, Open, LockRestart, Locals
      <2>2. UNCHANGED <<fsVars, jobs, explicitCopy, jobStart, job>>
          BY <1>8 DEF CheckActive, CheckListed, Open, LockRestart, ffVars, sesVars
      <2> QED BY <1>7, <2>1, <2>2, LoopUndisturbed
  <1>9. CASE Decide(c) \/ Recheck(c)
      <2>1. /\ cl'[c].k = cl[c].k /\ cl'[c].new = cl[c].new /\ cl[c].pc \in {"view", "recheck"}
            /\ cl'[c].pc \in {"ctx", "lock", "take"}
            /\ cl'[c].pc = "take" => MustRestart(cl[c].k)
          BY <1>1, <1>9 DEF Decide, Recheck, Locals
      <2>2. UNCHANGED <<fsVars, jobs, explicitCopy, jobStart>> /\ job' \in {job, NoJob}
          BY <1>9 DEF Decide, Recheck, JobView, ffVars
      <2>3. InLoop(c) /\ Loop(c) /\ NoJob # cl[c].new BY <1>7, <2>1
      <2>4. CASE cl'[c].pc # "take" BY <2>1, <2>2, <2>3, <2>4, LoopUndisturbed
      <2>5. CASE cl'[c].pc = "take"
          <3>1. ~(job = cl[c].new /\ Alive(job)) BY <1>1, <2>1, <2>3, <2>5, WaitsForItsJob
          <3>2. ~Running(job) BY <1>1, <2>3, <3>1 DEF Running, Loop, LiveJobs
          <3>3. job' = NoJob BY <1>9, <3>2 DEF Decide, Recheck, JobView
          <3> QED BY <2>1, <2>2, <2>3, <2>5, <3>3
                DEF Loop, Progress, Written, LiveJobs, Alive, fsVars
      <2> QED BY <2>4, <2>5
  <1>10. CASE TakeJob(c)
      <2>1. /\ cl'[c].k = cl[c].k /\ cl'[c].new = cl[c].new /\ cl[c].pc = "take"
            /\ cl'[c].pc = "wait" /\ cl'[c].old = job
          BY <1>1, <1>10 DEF TakeJob, Locals
      <2>2. Loop(c) /\ NoJob # cl[c].new BY <1>7, <2>1
      <2>3. job = NoJob BY <2>1, <2>2 DEF Loop
      <2>4. UNCHANGED <<fsVars, jobs, explicitCopy, jobStart, job>>
          BY <1>10, <2>3 DEF TakeJob, Running
      <2> QED BY <2>1, <2>2, <2>3, <2>4 DEF Loop, Progress, Written, LiveJobs, Alive, fsVars
  <1>11. CASE WaitOld(c)
      <2>1. /\ cl'[c].k = cl[c].k /\ cl'[c].new = cl[c].new /\ cl[c].pc = "wait"
            /\ cl'[c].pc = "defer" /\ cl'[c].old = cl[c].old
          BY <1>1, <1>11 DEF WaitOld, Locals
      <2>2. UNCHANGED <<fsVars, jobs, explicitCopy, jobStart, job>>
          BY <1>11 DEF WaitOld, ffVars
      <2> QED BY <1>7, <2>1, <2>2, LoopUndisturbed
  <1>12. CASE DeferUnlink(c)
      <2>1. /\ cl'[c].k = cl[c].k /\ cl'[c].new = cl[c].new /\ cl[c].pc = "defer"
            /\ cl'[c].old = cl[c].old /\ cl'[c].partial = cl[c].partial
            /\ \/ cl'[c].pc = "start"
               \/ cl'[c].pc = "unlinkPartial" /\ ~KeepPartial(cl[c].partial, cl[c].old)
          BY <1>1, <1>12 DEF DeferUnlink, Locals
      <2>2. UNCHANGED <<fsVars, jobs, explicitCopy, jobStart, job>>
          BY <1>12 DEF DeferUnlink, ffVars
      <2>3. Loop(c) /\ NoJob # cl[c].new BY <1>7, <2>1
      <2>4. Written(cl[c].k) => KeepPartial(cl[c].k, cl[c].old)
          BY <1>4 DEF Written, KeepPartial, ReadyAt
      <2>5. cl'[c].pc = "unlinkPartial" /\ jobs[cl[c].new].w > cl[c].k => cl[c].partial # cl[c].k
          BY <2>1, <2>3, <2>4 DEF Loop, Progress
      <2> QED BY <2>1, <2>2, <2>3, <2>5 DEF Loop, Progress, Written, LiveJobs, Alive, fsVars
  <1>13. CASE UnlinkPartial(c)
      <2>1. /\ cl'[c].k = cl[c].k /\ cl'[c].new = cl[c].new /\ cl[c].pc = "unlinkPartial"
            /\ cl'[c].pc = "start" /\ cl'[c].old = cl[c].old
          BY <1>1, <1>13 DEF UnlinkPartial, Locals
      <2>2. UNCHANGED <<csv, jobs, explicitCopy, jobStart, job>>
          BY <1>13 DEF UnlinkPartial, Unlink, ffVars
      <2>3. Loop(c) /\ NoJob # cl[c].new /\ cl[c].new \in JobIds BY <1>7, <2>1
      <2>4. LiveJobs = {} BY <1>3, <2>1 DEF HandOff
      <2>5. jobs[cl[c].new].w > cl[c].k => file'[cl[c].k] = file[cl[c].k] /\ tmp'[cl[c].k] = tmp[cl[c].k]
          <3>1. jobs[cl[c].new].w > cl[c].k => cl[c].partial # cl[c].k BY <2>1, <2>3 DEF Loop
          <3> QED BY <1>2, <1>4, <1>13, <3>1 DEF UnlinkPartial, Unlink, DirType
      <2>6. Progress(cl[c].new, cl[c].k)'
          BY <2>1, <2>2, <2>3, <2>4, <2>5 DEF Loop, Progress, Written, LiveJobs, Alive
      <2>7. UNCHANGED LiveJobs BY <2>2 DEF LiveJobs, Alive
      <2> QED BY <2>1, <2>2, <2>3, <2>6, <2>7 DEF Loop, Progress, Written, Alive
  <1>14. CASE StartJob(c)
      <2>1. cl[c].pc = "start" /\ LiveJobs = {} /\ job = NoJob /\ job' = job
          BY <1>3, <1>14 DEF StartJob, HandOff, sesVars
      <2>2. PICK j \in JobIds :
              /\ \E b : jobs' = [jobs EXCEPT ![j] = [st |-> "run", start |-> cl[c].k, stop |-> b,
                                                     w |-> cl[c].k, wr |-> "boot",
                                                     over |-> ReadyAt(cl[c].k)]]
              /\ cl' = [cl EXCEPT ![c].pc = "install", ![c].new = j]
          BY <1>14 DEF StartJob
      <2>3. cl'[c].k = cl[c].k /\ cl'[c].new = j /\ cl'[c].pc = "install"
          BY <1>1, <2>2 DEF Locals
      <2>4. /\ jobs'[j].st = "run" /\ jobs'[j].start = cl[c].k /\ jobs'[j].w = cl[c].k
            /\ jobs'[j].wr = "boot"
          BY <1>2, <2>2
      <2>5. LiveJobs' \subseteq {j} BY <1>2, <2>1, <2>2 DEF LiveJobs, Alive
      <2>6. Progress(j, cl[c].k)' BY <1>4, <2>3, <2>4 DEF Progress
      <2>7. job' # j BY <2>1, Constants
      <2> QED BY <2>3, <2>5, <2>6, <2>7 DEF Loop, Progress, Written, Alive
  <1>15. CASE Install(c) \/ Ensure(c)
      <2>1. /\ cl'[c].k = cl[c].k /\ cl'[c].new = cl[c].new /\ cl[c].pc \in {"install", "ensure"}
            /\ cl'[c].pc \in {"ensure", "ctx"}
          <3>1. CASE Install(c) BY <1>1, <3>1 DEF Install, Locals
          <3>2. CASE Ensure(c)
              <4>1. cl[c].pc = "ensure" BY <3>2 DEF Ensure
              <4>2. cl'[c] = [Idle EXCEPT !.pc = "ctx", !.k = cl[c].k, !.new = cl[c].new]
                  BY <1>1, <3>2 DEF Ensure
              <4> QED BY <4>1, <4>2 DEF Idle
          <3> QED BY <1>15, <3>1, <3>2
      <2>2. UNCHANGED <<fsVars, jobs, explicitCopy>> /\ UNCHANGED LiveJobs
          BY <1>15 DEF Install, Ensure, ffVars, LiveJobs, Alive
      <2>3. Loop(c) /\ NoJob # cl[c].new BY <1>7, <2>1
      <2>4. \/ UNCHANGED <<job, jobStart>>
            \/ jobStart' = jobs[cl[c].new].start
          BY <1>15 DEF Install, Ensure, Attach
      <2>5. job' = cl[c].new => jobStart' = cl[c].k BY <2>3, <2>4 DEF Loop, Progress
      <2> QED BY <2>1, <2>2, <2>3, <2>5 DEF Loop, Progress, Written, Alive, fsVars
  <1> QED BY <1>6, <1>8, <1>9, <1>10, <1>11, <1>12, <1>13, <1>14, <1>15
        DEF ClientStep, Waiting, Restarting

LEMMA LoopKept ==
  ASSUME NEW c, Clients = {c}, IInv, LoopInv, [Next]_vars
  PROVE  LoopInv'
  <1>1. HeadAhead' /\ NoTmp' BY HeadStaysAhead, NoTmpKept DEF LoopInv
  <1>2. SUFFICES ASSUME InLoop(c)' PROVE Loop(c)' BY <1>1 DEF LoopInv
  <1>3. c \in Clients /\ (InLoop(c) => Loop(c)) BY DEF LoopInv
  <1>4. ASSUME UNCHANGED cl
        PROVE  /\ InLoop(c) /\ Loop(c) /\ cl'[c] = cl[c]
               /\ cl[c].new \in JobIds /\ cl[c].new # NoJob /\ cl[c].k \in Segs
      BY <1>2, <1>3, <1>4 DEF InLoop, IInv, Typed, TypeOK, Locals
  <1>5. CASE UNCHANGED vars
      BY <1>3, <1>4, <1>5, LoopUndisturbed DEF vars, ffVars, sesVars
  <1>6. ASSUME NEW j \in JobIds, FFStep(j) \/ FFGrow(j) \/ FFCrash(j) PROVE Loop(c)'
      <2>1. UNCHANGED <<cl, job, jobStart>>
          BY <1>6 DEF FFStep, FFOpen, FFBegin, FFGrow, FFPublish, FFClose, FFList, FFExit,
                      FFKilled, FFCrash, sesVars
      <2> DEFINE n == cl[c].new
                 k == cl[c].k
      <2>2. Loop(c) /\ cl'[c] = cl[c] /\ n \in JobIds /\ k \in Segs BY <1>4, <2>1
      <2>3. LiveJobs \subseteq {n} /\ Progress(n, k) BY <2>2 DEF Loop
      <2>4. PICK m \in JobIds, i \in Segs : m = n /\ i = k BY <2>2
      <2>5. Progress(m, i)' /\ LiveJobs' \subseteq {m}
          BY <1>6, <2>3, <2>4, ProgressMade DEF IInv, LoopInv
      <2>6. Alive(j) /\ j \in LiveJobs
          BY <1>6 DEF FFStep, FFOpen, FFBegin, FFGrow, FFPublish, FFClose, FFList, FFExit, FFKilled,
                      FFCrash, Alive, LiveJobs
      <2>7. cl[c].pc # "unlinkPartial" BY <1>3, <2>6 DEF IInv, HandOffInv, HandOff
      <2> QED BY <2>1, <2>2, <2>4, <2>5, <2>7 DEF Loop, Progress, Written, Alive
  <1>7. ASSUME NEW w \in Watchers, WatchTick(w) \/ WatchEnd(w) PROVE Loop(c)'
      <2>1. UNCHANGED <<cl, fsVars, jobs, explicitCopy, jobStart>> /\ job' \in {job, NoJob}
          BY <1>7 DEF WatchTick, WatchEnd, ffVars
      <2> QED BY <1>3, <1>4, <2>1, LoopUndisturbed
  <1>8. ASSUME ClientStep(c) PROVE Loop(c)'
      BY <1>2, <1>3, <1>8, LoopStep DEF LoopInv
  <1> QED BY <1>5, <1>6, <1>7, <1>8 DEF Next

(* A client that is alone with the session starts ffmpeg a second time for   *)
(* one request only if the first one was interrupted, by a crash and not by  *)
(* the restart itself, or if the segment is ready by now: whatever the       *)
(* playlist, the gap, the bound of the job and what the directory held.     *)
THEOREM AloneNoRestartLoop == ASSUME NEW alone, Clients = {alone} PROVE Spec => NoRestartLoop
  <1>1. Init => LoopInv
      <2> SUFFICES ASSUME Init PROVE LoopInv OBVIOUS
      <2>1. \A c \in Clients : cl[c] = Idle BY DEF Init
      <2>2. \A c \in Clients : ~InLoop(c) BY <2>1 DEF InLoop, Idle
      <2>3. HeadAhead /\ NoTmp BY DEF Init, HeadAhead, NoTmp
      <2> QED BY <2>2, <2>3 DEF LoopInv
  <1>2. IInv /\ LoopInv /\ [Next]_vars => LoopInv' BY LoopKept
  <1>3. IInv /\ LoopInv =>
          \A c \in Clients : StartJob(c) /\ cl[c].k < N /\ cl[c].new # NoJob =>
            \/ Interrupted(cl[c].new) /\ cl[c].old # cl[c].new
            \/ ReadyAt(cl[c].k)
      <2> SUFFICES ASSUME IInv, LoopInv, NEW c \in Clients, StartJob(c), cl[c].k < N,
                          cl[c].new # NoJob,
                          ~(Interrupted(cl[c].new) /\ cl[c].old # cl[c].new)
                   PROVE  ReadyAt(cl[c].k)
          OBVIOUS
      <2> DEFINE n == cl[c].new
                 k == cl[c].k
      <2>1. cl[c].pc = "start" BY DEF StartJob, At
      <2>2. Loop(c) BY <2>1 DEF LoopInv, InLoop, LoopPCs, RestartPCs, HandOffPCs
      <2>3. n \in JobIds /\ k \in Nat
          BY Constants DEF IInv, Typed, TypeOK, Locals
      <2>4. LiveJobs = {} BY <2>1 DEF IInv, HandOffInv, HandOff
      <2>5. jobs[n].st = "done"
          <3>1. jobs[n].st \in {"none", "run", "kill", "done"}
              BY <2>3 DEF IInv, Typed, TypeOK, JobType
          <3>2. jobs[n].st # "none" BY <2>2 DEF Loop, Progress
          <3>3. jobs[n].st \notin {"run", "kill"} BY <2>3, <2>4 DEF LiveJobs, Alive
          <3> QED BY <3>1, <3>2, <3>3
      <2>6. ~HasNext(n) BY <2>1, <2>2, <2>5 DEF Loop, Interrupted
      <2>7. jobs[n].w >= k /\ jobs[n].start = k /\ jobs[n].w \in Nat /\ jobs[n].stop \in Nat
          BY <2>2, <2>3, Constants DEF Loop, Progress, IInv, Typed, TypeOK, JobType
      <2>8. jobs[n].w > k BY <2>3, <2>6, <2>7, Constants DEF HasNext
      <2> QED BY <2>2, <2>8 DEF Loop, Progress, Written, ReadyAt
  <1>4. Spec => []LoopInv BY <1>1, <1>2, StrongInvariant, PTL DEF Spec
  <1> QED BY <1>3, <1>4, StrongInvariant, PTL DEF NoRestartLoop
=============================================================================
