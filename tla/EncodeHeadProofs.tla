-------------------------- MODULE EncodeHeadProofs --------------------------
(***************************************************************************)
(* For every number of goroutines, segments and jobs and both kinds of     *)
(* job: however stale a refresh of the encode head is when it stores, the  *)
(* head stays within what the session's own job has behind it.             *)
(***************************************************************************)
EXTENDS EncodeHead, NaturalsInduction, WellFoundedInduction, TLAPS

(* An index that a refresh of the last job may take for the head.          *)
Backed(h) == h >= last.start /\ last.start..(h - 1) \subseteq seen

(* What a refresh in flight knows.  One of an earlier job knows nothing: it *)
(* is the comparison of s.job that keeps it from storing.                  *)
RefreshInv(t) ==
  th[t].pc # "out" =>
    /\ th[t].job # NoJob /\ th[t].job <= last.id
    /\ th[t].job = last.id =>
         /\ th[t].start = last.start /\ th[t].stop = last.stop
         /\ th[t].pc \in {"storeList", "check", "store"} => Backed(th[t].h)
         /\ th[t].pc = "store" => th[t].h \in seen

(* The session's job is the last one, and what is done was seen.           *)
JobInv ==
  /\ job # NoJob => job = last.id /\ jobStart = last.start /\ Backed(head)
  /\ last.id # NoJob => done \subseteq seen

IInv == /\ TypeOK /\ JobInv
        /\ \A t \in Threads : /\ RefreshInv(t)
                              /\ th[t].pc = "store" => th[t].h \in Segs

LEMMA Constants ==
  /\ N \in Nat /\ N > 0 /\ Kinds \subseteq BOOLEAN
  /\ MaxJobs \in Nat /\ MaxUnlinks \in Nat
  /\ Segs \subseteq Nat /\ NoJob = 0
  BY EncodeHeadAssumption DEF Segs, NoJob

(* A nonempty set of naturals has a least member.                          *)
LEMMA LeastNatural ==
  ASSUME NEW S, S \subseteq Nat, S # {}
  PROVE  \E m \in S : \A n \in S : m <= n
  <1>1. PICK m \in S : \A n \in S : ~(<<n, m>> \in OpToRel(<, Nat))
      BY WFMin, NatLessThanWellFounded
  <1>2. ASSUME NEW n \in S PROVE m <= n
      <2>1. n \in Nat /\ m \in Nat OBVIOUS
      <2>2. n < m => <<n, m>> \in OpToRel(<, Nat) BY <2>1 DEF OpToRel
      <2>3. ~(n < m) BY <1>1, <2>2, Zenon
      <2> QED BY <2>1, <2>3
  <1> QED BY <1>2

(* hlsVODSegmentListHead: everything from h to the head is done.            *)
LEMMA HeadIsFirst ==
  ASSUME NEW h \in 0..N, NEW D, D \subseteq Segs
  PROVE  Head(h, D) \in h..N /\ h..(Head(h, D) - 1) \subseteq D
  <1> DEFINE S == {i \in h..N : i \notin D}
  <1>1. S \subseteq Nat /\ N \in S BY Constants DEF Segs
  <1>2. PICK m \in S : \A n \in S : m <= n BY <1>1, LeastNatural
  <1>3. h..(m - 1) \subseteq D BY <1>2, Constants
  <1>4. \E i \in h..N : i \notin D /\ h..(i - 1) \subseteq D BY <1>2, <1>3
  <1> QED BY <1>4 DEF Head

(* The cap at the StopIndex only takes a head back.                        *)
LEMMA CappedIsDone ==
  ASSUME NEW start \in Segs, NEW stop \in Segs, NEW h \in start..N, NEW D,
         start..(h - 1) \subseteq D
  PROVE  Capped(h, start, stop) \in start..N /\ start..(Capped(h, start, stop) - 1) \subseteq D
  BY Constants DEF Capped

LEMMA InitIInv == ASSUME Init PROVE IInv
  <1>1. 0 \in Segs /\ 0 \in 0..N /\ 0 \in 0..MaxJobs /\ 0 \in 0..MaxUnlinks
      BY Constants DEF Segs
  <1>2. FirstJob \in [id : 0..MaxJobs, start : Segs, stop : Segs]
      BY <1>1, Constants DEF FirstJob
  <1>3. Out \in [pc : {"out", "list", "storeList", "read", "check", "store", "view"},
                 job : 0..MaxJobs, start : Segs, stop : Segs, h : 0..N]
      BY <1>1, Constants DEF Out
  <1>4. TypeOK BY <1>1, <1>2, <1>3, Constants DEF Init, TypeOK
  <1>5. JobInv BY Constants DEF Init, JobInv, FirstJob
  <1>6. \A t \in Threads : th[t].pc = "out" BY DEF Init, Out
  <1> QED BY <1>4, <1>5, <1>6 DEF IInv, RefreshInv

-----------------------------------------------------------------------------
(* Steps of the session and of ffmpeg: they move no refresh.               *)

LEMMA SessionStep ==
  ASSUME IInv, Session \/ FFmpeg
  PROVE  IInv'
  <1> USE Constants
  <1>1. TypeOK'
      <2> USE DEF IInv, TypeOK, Segs
      <2>1. CASE Attach
          <3>1. PICK start \in Segs : \E stop \in {0} \cup (start + 1)..(N - 1) :
                  /\ last' = [id |-> last.id + 1, start |-> start, stop |-> stop]
                  /\ job' = last.id + 1 /\ jobStart' = start /\ head' = start
                  /\ w' = start
              BY <2>1 DEF Attach
          <3>2. last' \in [id : 0..MaxJobs, start : Segs, stop : Segs]
                /\ job' \in 0..MaxJobs /\ jobStart' \in Segs /\ head' \in 0..N /\ w' \in 0..N
              BY <2>1, <3>1 DEF Attach
          <3> QED BY <2>1, <3>2 DEF Attach
      <2>2. CASE AttachAgain BY <2>2 DEF AttachAgain, env
      <2>3. CASE Forget BY <2>3 DEF Forget, env
      <2>4. CASE Open BY <2>4 DEF Open
      <2>5. CASE Complete BY <2>5 DEF Complete
      <2>6. CASE Unlink BY <2>6 DEF Unlink
      <2> QED BY <2>1, <2>2, <2>3, <2>4, <2>5, <2>6 DEF Session, FFmpeg
  <1>2. UNCHANGED th
      BY DEF Session, FFmpeg, Attach, AttachAgain, Forget, Open, Complete, Unlink
  <1>3. CASE Attach
      <2>1. last'.id = last.id + 1 /\ last'.start \in Segs /\ jobStart' = last'.start
            /\ head' = last'.start /\ job' = last'.id /\ done' = done /\ seen' = done
          BY <1>3 DEF Attach
      <2>2. last.id \in Nat BY DEF IInv, TypeOK
      <2>3. Backed(head)'
          <3>1. \A i \in Nat : i >= i /\ i..(i - 1) = {} OBVIOUS
          <3>2. last'.start \in Nat /\ head' = last'.start BY <2>1
          <3> QED BY <3>1, <3>2 DEF Backed
      <2>4. JobInv' BY <2>1, <2>3 DEF JobInv
      <2>5. \A t \in Threads : RefreshInv(t)'
          BY <1>2, <2>1, <2>2 DEF IInv, RefreshInv, TypeOK
      <2> QED BY <1>1, <1>2, <2>4, <2>5 DEF IInv
  <1>4. CASE ~Attach
      <2>1. UNCHANGED last /\ seen \subseteq seen'
          BY <1>4 DEF Session, FFmpeg, AttachAgain, Forget, Open, Complete, Unlink, env
      <2>2. \A h : Backed(h) => Backed(h)' BY <2>1 DEF Backed
      <2>3. \A t \in Threads : RefreshInv(t)'
          BY <1>2, <2>1, <2>2 DEF IInv, RefreshInv
      <2>4. JobInv'
          <3>1. CASE AttachAgain
              BY <2>1, <3>1 DEF AttachAgain, IInv, TypeOK, JobInv, Backed, env
          <3>2. CASE Forget BY <3>2 DEF Forget, IInv, JobInv, Backed, env
          <3>3. CASE Open BY <2>1, <2>2, <3>3 DEF Open, IInv, JobInv
          <3>4. CASE Complete BY <2>1, <2>2, <3>4 DEF Complete, IInv, JobInv
          <3>5. CASE Unlink BY <2>1, <2>2, <3>5 DEF Unlink, IInv, JobInv
          <3> QED BY <1>4, <3>1, <3>2, <3>3, <3>4, <3>5 DEF Session, FFmpeg
      <2> QED BY <1>1, <1>2, <2>3, <2>4 DEF IInv
  <1> QED BY <1>3, <1>4

-----------------------------------------------------------------------------
(* Steps of a refresh: they move the head only.                            *)

(* A refresh changes its own locals only.                                  *)
LEMMA OtherRefreshes ==
  ASSUME IInv, NEW t \in Threads, Refresh(t)
  PROVE  /\ UNCHANGED <<job, jobStart, env>>
         /\ \A u \in Threads \ {t} : th'[u] = th[u]
  BY DEF Refresh, Enter, ReadList, StoreList, ReadHead, CheckReady, StoreHead, View, Go, Become,
         IInv, TypeOK

(* What is to be shown of a refresh: its own locals, and the head.          *)
LEMMA RefreshStep ==
  ASSUME IInv, NEW t \in Threads, Refresh(t),
         head' \in 0..N,
         job # NoJob => Backed(head'),
         NEW r, th' = [th EXCEPT ![t] = r],
         r \in [pc : {"out", "list", "storeList", "read", "check", "store", "view"},
                job : 0..MaxJobs, start : Segs, stop : Segs, h : 0..N],
         r.pc = "store" => r.h \in Segs,
         RefreshInv(t)'
  PROVE  IInv'
  <1>1. UNCHANGED <<job, jobStart, env>> /\ \A u \in Threads \ {t} : th'[u] = th[u]
      BY OtherRefreshes
  <1>2. UNCHANGED <<last, done, w, opened, unlinks, seen, explicitCopy>> BY <1>1 DEF env
  <1>4. TypeOK' BY <1>1, <1>2 DEF IInv, TypeOK
  <1>5. JobInv' BY <1>1, <1>2 DEF IInv, JobInv, Backed
  <1>6. \A u \in Threads : RefreshInv(u)'
      <2>1. \A u \in Threads \ {t} : RefreshInv(u)'
          BY <1>1, <1>2 DEF IInv, RefreshInv, Backed
      <2> QED BY <2>1
  <1>7. \A u \in Threads : th'[u].pc = "store" => th'[u].h \in Segs
      BY <1>1 DEF IInv, TypeOK
  <1> QED BY <1>4, <1>5, <1>6, <1>7 DEF IInv

LEMMA RefreshKeeps ==
  ASSUME IInv, NEW t \in Threads, Refresh(t)
  PROVE  IInv'
  <1> USE Constants DEF At, Go, Become
  <1> DEFINE r == th'[t]
  <1>0. /\ th \in [Threads -> [pc : {"out", "list", "storeList", "read", "check", "store", "view"},
                               job : 0..MaxJobs, start : Segs, stop : Segs, h : 0..N]]
        /\ RefreshInv(t) /\ JobInv
        /\ th[t].pc = "store" => th[t].h \in Segs
        /\ job \in 0..MaxJobs /\ jobStart \in Segs /\ head \in 0..N
        /\ last.id \in 0..MaxJobs /\ last.start \in Segs /\ last.stop \in Segs
        /\ done \subseteq Segs /\ seen \subseteq Segs
      BY DEF IInv, TypeOK
  <1>1. CASE Enter(t)
      <2>1. /\ th' = [th EXCEPT ![t] = r] /\ head' = head /\ r.pc \in {"list", "read"}
            /\ r \in [pc : {"out", "list", "storeList", "read", "check", "store", "view"},
                      job : 0..MaxJobs, start : Segs, stop : Segs, h : 0..N]
            /\ r.job = job /\ r.start = jobStart /\ r.stop = last.stop /\ job # NoJob
            /\ UNCHANGED last
          BY <1>0, <1>1 DEF Enter, env
      <2>2. RefreshInv(t)' BY <1>0, <2>1 DEF RefreshInv, JobInv
      <2> QED BY <1>0, <1>1, <2>1, <2>2, RefreshStep DEF Refresh, JobInv
  <1>2. CASE ReadList(t)
      <2> DEFINE g == Head(th[t].start, done)
                 h == Capped(g, th[t].start, th[t].stop)
      <2>1. g \in th[t].start..N /\ th[t].start..(g - 1) \subseteq done
          <3>1. th[t].start \in 0..N /\ done \subseteq Segs BY <1>0 DEF Segs
          <3> QED BY <3>1, HeadIsFirst
      <2>2. h \in th[t].start..N /\ th[t].start..(h - 1) \subseteq done
          <3>1. th[t].start \in Segs /\ th[t].stop \in Segs BY <1>0
          <3> HIDE DEF g
          <3> QED BY <2>1, <3>1, CappedIsDone
      <2> HIDE DEF g, h
      <2>3. /\ th' = [th EXCEPT ![t] = r] /\ head' = head
            /\ r = [th[t] EXCEPT !.pc = "storeList", !.h = h] /\ th[t].pc = "list"
          BY <1>0, <1>2 DEF ReadList, h, g
      <2>4. r \in [pc : {"out", "list", "storeList", "read", "check", "store", "view"},
                   job : 0..MaxJobs, start : Segs, stop : Segs, h : 0..N]
          <3>1. h \in 0..N BY <1>0, <2>2 DEF Segs
          <3> QED BY <1>0, <2>3, <3>1
      <2>5. RefreshInv(t)'
          <3>1. UNCHANGED <<last, seen>> BY <1>2 DEF ReadList, env
          <3>2. th'[t] = [th[t] EXCEPT !.pc = "storeList", !.h = h] BY <2>3
          <3>3. last.id # NoJob => done \subseteq seen BY <1>0 DEF JobInv
          <3>4. th[t].job = last.id => th[t].start = last.start /\ last.id # NoJob
              BY <1>0, <2>3 DEF RefreshInv
          <3>5. th[t].job = last.id => last.start..(h - 1) \subseteq seen /\ h >= last.start
              <4>1. h >= th[t].start BY <1>0, <2>2
              <4> QED BY <2>2, <3>3, <3>4, <4>1
          <3>6. th'[t].h = h /\ th'[t].pc = "storeList" /\ th'[t].job = th[t].job
                /\ th'[t].start = th[t].start /\ th'[t].stop = th[t].stop
              BY <1>0, <3>2
          <3>7. th[t].job = last.id => Backed(th[t].h)' BY <3>1, <3>5, <3>6 DEF Backed
          <3> QED BY <1>0, <2>3, <3>1, <3>6, <3>7 DEF RefreshInv
      <2> QED BY <1>0, <1>2, <2>3, <2>4, <2>5, RefreshStep DEF Refresh, JobInv
  <1>3. CASE StoreList(t)
      <2>1. /\ th' = [th EXCEPT ![t] = r] /\ r = [th[t] EXCEPT !.pc = "view"]
            /\ UNCHANGED last
          BY <1>0, <1>3 DEF StoreList, env
      <2>2. head' \in 0..N /\ (job # NoJob => Backed(head'))
          BY <1>0, <1>3 DEF StoreList, RefreshInv, JobInv
      <2>3. RefreshInv(t)' BY <1>0, <1>3, <2>1 DEF RefreshInv, StoreList
      <2> QED BY <1>0, <1>3, <2>1, <2>2, <2>3, RefreshStep DEF Refresh
  <1>4. CASE ReadHead(t)
      <2>1. /\ th' = [th EXCEPT ![t] = r] /\ head' = head
            /\ \/ r = [th[t] EXCEPT !.pc = "view"]
               \/ r = [th[t] EXCEPT !.pc = "check", !.h = head] /\ job = th[t].job
            /\ UNCHANGED <<last, seen>> /\ th[t].pc = "read"
          BY <1>0, <1>4 DEF ReadHead, env
      <2>2. RefreshInv(t)' BY <1>0, <2>1 DEF RefreshInv, JobInv, Backed
      <2>3. r \in [pc : {"out", "list", "storeList", "read", "check", "store", "view"},
                   job : 0..MaxJobs, start : Segs, stop : Segs, h : 0..N]
            /\ r.pc \in {"view", "check"}
          BY <1>0, <2>1
      <2>4. job # NoJob => Backed(head') BY <1>0, <2>1 DEF JobInv
      <2> HIDE DEF r
      <2> QED BY <1>0, <1>4, <2>1, <2>2, <2>3, <2>4, RefreshStep DEF Refresh
  <1>5. CASE CheckReady(t)
      <2>1. /\ th' = [th EXCEPT ![t] = r] /\ head' = head
            /\ \/ r = [th[t] EXCEPT !.pc = "view"]
               \/ r = [th[t] EXCEPT !.pc = "store"] /\ th[t].h \in done
            /\ UNCHANGED <<last, seen>> /\ th[t].pc = "check"
          BY <1>0, <1>5 DEF CheckReady, env
      <2>2. RefreshInv(t)' BY <1>0, <2>1 DEF RefreshInv, JobInv, Backed
      <2> QED BY <1>0, <1>5, <2>1, <2>2, RefreshStep DEF Refresh, JobInv
  <1>6. CASE StoreHead(t)
      <2>1. /\ th' = [th EXCEPT ![t] = r] /\ r = [th[t] EXCEPT !.pc = "read"]
            /\ UNCHANGED last
          BY <1>0, <1>6 DEF StoreHead, env
      <2>2. head' \in 0..N /\ (job # NoJob => Backed(head'))
          BY <1>0, <1>6 DEF StoreHead, RefreshInv, JobInv, Backed, Segs
      <2>3. RefreshInv(t)' BY <1>0, <1>6, <2>1 DEF RefreshInv, StoreHead
      <2> QED BY <1>0, <1>6, <2>1, <2>2, <2>3, RefreshStep DEF Refresh
  <1>7. CASE View(t)
      <2>1. th' = [th EXCEPT ![t] = r] /\ r = Out /\ head' = head
          BY <1>0, <1>7 DEF View
      <2>2. RefreshInv(t)' BY <2>1 DEF RefreshInv, Out
      <2>3. Out \in [pc : {"out", "list", "storeList", "read", "check", "store", "view"},
                     job : 0..MaxJobs, start : Segs, stop : Segs, h : 0..N]
          BY DEF Out, Segs
      <2> QED BY <1>0, <1>7, <2>1, <2>2, <2>3, RefreshStep DEF Refresh, JobInv, Out
  <1> QED BY <1>1, <1>2, <1>3, <1>4, <1>5, <1>6, <1>7 DEF Refresh

(* The strengthened invariant holds in every reachable state.              *)
THEOREM StrongInvariant == Spec => []IInv
  <1>1. ASSUME IInv, [Next]_vars PROVE IInv'
      <2>1. CASE UNCHANGED vars
          BY <1>1, <2>1 DEF vars, env, IInv, TypeOK, JobInv, RefreshInv, Backed
      <2> QED BY <1>1, <2>1, SessionStep, RefreshKeeps DEF Next
  <1> QED BY <1>1, InitIInv, PTL DEF Spec

(* The head, the job and the locals of the refreshes keep their types; the  *)
(* head never passes the end of the playlist.                              *)
THEOREM TypeCorrect == Spec => []TypeOK
  <1>1. IInv => TypeOK BY DEF IInv
  <1> QED BY <1>1, StrongInvariant, PTL

(* However stale the refreshes are, the head is not before the job's first  *)
(* segment and has passed only segments that were done during the job.     *)
THEOREM HeadStaysBacked == Spec => []HeadBacked
  <1>1. IInv => HeadBacked BY DEF IInv, JobInv, Backed, HeadBacked
  <1> QED BY <1>1, StrongInvariant, PTL
=============================================================================
