---------------------- MODULE ContinuousPublisherProofs ----------------------
(***************************************************************************)
(* For every number of segments, generations and faults, fresh or resumed: *)
(* what the serve playlist and the status count is in seg/, whole and on   *)
(* the timeline of the job that runs; while a fresh job runs, what was     *)
(* listed stays listed; and job.json never says more than index.m3u8, and  *)
(* what both say after Wait is all that ffmpeg has made.  All of it holds  *)
(* until a fresh generation meets a pass of an earlier one (stray): passes *)
(* of earlier generations that run into a resume are within the proofs.    *)
(***************************************************************************)
EXTENDS ContinuousPublisher, WellFoundedInduction, TLAPS

PlSet == [st : {"none", "ok", "torn"}, base : Segs, n : 0..N, end : BOOLEAN]
ThSet == [pc : {"out", "idle", "lock", "scan", "rename", "remove", "status", "normalize"},
          pl : PlSet, i : 0..N, changed : BOOLEAN]

Preparing == host \in {"clear", "clearFiles", "launch"}

(* Playlists end within the media, and so do the passes over them; a resume *)
(* goes on with a playlist that starts at the head.                        *)
Bounds ==
  /\ pl.base + pl.n <= N
  /\ ff \in {"open", "write", "list", "rewrite"} => pl.base + cnt < N
  /\ \A a \in Actors : /\ th[a].pl.base + th[a].pl.n <= N
                       /\ th[a].pc \in {"rename", "remove"} => th[a].i \in Listed(th[a].pl)
  /\ gen = 0 \/ ~fresh => pl.base = 0

(* Who runs when: no goroutine of a generation that is not launched, of the *)
(* earlier ones the ticks only; ffmpeg while its job runs.                  *)
Phases ==
  /\ \A a \in Actors : a[1] > gen \/ (a[1] = gen /\ Preparing) => th[a].pc = "out"
  /\ \A a \in Actors : IsFinal(a) /\ (a[1] # gen \/ host = "idle" \/ gen \in done) => th[a].pc = "out"
  /\ \A a \in Actors : IsFinal(a) /\ th[a].pc \notin {"idle", "out"} => ff = "off"
  /\ \A a \in Actors : th[a].pc = "normalize" => IsFinal(a)
  /\ host # "wait" => ff = "off"
  /\ gen \in done => ff = "off"
  /\ Preparing => gen \notin done
  /\ host # "idle" => gen \in Jobs
  /\ host \in {"clear", "clearFiles"} => fresh

(* What holds in every state.                                              *)
TInv == CodeOK /\ Bounds /\ Phases

(* The segments in seg/ are those of the generation, from the moment its    *)
(* directory was cleared, or of resumes from the head of the file.          *)
Timeline ==
  /\ ~fresh => \A j \in Jobs : j <= gen => start[j] = 0
  /\ gen = 0 \/ ~fresh => \A k \in Segs : seg[k] \in {None, 0}
  /\ host \in {"clearFiles", "launch", "wait"} => \A k \in Segs : seg[k] \in {None, start[gen]}

(* What the aligner believes to be published is; so do those of the earlier *)
(* generations that a resume follows.                                      *)
Published ==
  /\ \A j \in Jobs : j > gen \/ (j = gen /\ Preparing) => published[j] = {}
  /\ \A j \in Jobs : j >= gen \/ ~fresh => \A k \in published[j] : InServeDir(k)
  /\ \A a \in Actors : th[a].pc = "remove" => InServeDir(th[a].i)

Counted == {k \in Segs : k \in index.segs \/ k = status.last}
Served  == host \in {"launch", "wait"} \/ (host = "idle" /\ (gen = 0 \/ ~fresh)) =>
             \A k \in Counted : InServeDir(k)

(* What holds until a pass is overtaken.                                   *)
IInv == TInv /\ Timeline /\ Published /\ Served /\ ~Overtaken
Safe == IInv /\ ~Overtaken'

-----------------------------------------------------------------------------

LEMMA Constants ==
  /\ N \in Nat /\ N > 0 /\ MaxGens \in Nat /\ MaxFaults \in Nat
  /\ Modes \subseteq BOOLEAN
  /\ Segs = 0..(N - 1) /\ Jobs = 1..MaxGens /\ None = -1 /\ Missing = -2
  BY PublisherAssumption DEF Segs, Jobs, None, Missing

LEMMA ActorShape ==
  /\ \A a \in Actors : a[1] \in Jobs /\ a[2] \in {"tick", "final"} /\ a = <<a[1], a[2]>>
  /\ \A j \in Jobs : <<j, "tick">> \in Actors /\ <<j, "final">> \in Actors
  BY DEF Actors

LEMMA Empties ==
  /\ NoList \in PlSet /\ NoList.n = 0 /\ NoList.base = 0
  /\ \A p \in {"out", "idle", "normalize"} : Rest(p) \in ThSet /\ Rest(p).pc = p /\ Rest(p).pl = NoList
  BY Constants DEF NoList, PlSet, Rest, ThSet

(* The type invariant, one part for each group of variables.               *)
TJob ==
  /\ host \in {"idle", "clear", "clearFiles", "launch", "wait"}
  /\ gen \in 0..MaxGens /\ fresh \in Modes /\ stopped \in BOOLEAN
  /\ start \in [Jobs -> 0..MaxGens]
TProc ==
  /\ ff \in {"off", "open", "write", "list", "rewrite", "end"} /\ cnt \in 0..N
  /\ raw \in [Segs -> {"none", "part", "good", "bad"}] /\ bad \in 0..MaxFaults
  /\ pl \in PlSet
TServe ==
  /\ seg \in [Segs -> {None} \cup 0..MaxGens] /\ tmp \subseteq Segs
  /\ index \in [segs : SUBSET Segs, end : BOOLEAN]
  /\ status \in [last : {Missing, None} \cup Segs, complete : BOOLEAN]
TAlign ==
  /\ published \in [Jobs -> SUBSET Segs] /\ lock \in {Free} \cup Actors
  /\ err \in [Jobs -> {"none", "ffmpeg", "publish"}] /\ done \subseteq Jobs /\ errs \in 0..MaxFaults
  /\ th \in [Actors -> ThSet]

LEMMA TypeParts ==
  /\ CodeOK <=> (TJob /\ TProc /\ TServe /\ TAlign)
  /\ CodeOK' <=> (TJob' /\ TProc' /\ TServe' /\ TAlign')
  BY Zenon DEF CodeOK, TJob, TProc, TServe, TAlign, PlSet, ThSet

(* A group that a step leaves alone keeps its types.                       *)
LEMMA FrameTypes ==
  /\ TJob /\ UNCHANGED job => TJob'
  /\ TProc /\ UNCHANGED proc => TProc'
  /\ TServe /\ UNCHANGED serve => TServe'
  /\ TAlign /\ UNCHANGED align => TAlign'
  BY DEF TJob, TProc, TServe, TAlign, job, proc, serve, align, PlSet, ThSet

LEMMA InitIInv == Init => IInv
  <1> SUFFICES ASSUME Init PROVE IInv
      OBVIOUS
  <1> USE Constants
  <1>1. CodeOK
      <2>1. NoIndex \in [segs : SUBSET Segs, end : BOOLEAN] BY DEF NoIndex
      <2>2. NoStatus \in [last : {Missing, None} \cup Segs, complete : BOOLEAN] BY DEF NoStatus
      <2>3. th \in [Actors -> ThSet] /\ pl \in PlSet BY Empties DEF Init
      <2>4. index \in [segs : SUBSET Segs, end : BOOLEAN] BY <2>1 DEF Init
      <2>5. status \in [last : {Missing, None} \cup Segs, complete : BOOLEAN] BY <2>2 DEF Init
      <2>6. published \in [Jobs -> SUBSET Segs] BY DEF Init
      <2>7. host \in {"idle", "clear", "clearFiles", "launch", "wait"}
            /\ fresh \in Modes /\ stopped \in BOOLEAN /\ lock \in {Free} \cup Actors
          BY DEF Init
      <2>8. /\ gen \in 0..MaxGens /\ start \in [Jobs -> 0..MaxGens] /\ ff = "off" /\ cnt \in 0..N
            /\ bad \in 0..MaxFaults /\ errs \in 0..MaxFaults
            /\ seg \in [Segs -> {None} \cup 0..MaxGens] /\ tmp \subseteq Segs
          BY DEF Init
      <2>9. /\ raw \in [Segs -> {"none", "part", "good", "bad"}]
            /\ err \in [Jobs -> {"none", "ffmpeg", "publish"}] /\ done \subseteq Jobs
          BY DEF Init
      <2> QED BY <2>3, <2>4, <2>5, <2>6, <2>7, <2>8, <2>9, TypeParts DEF TJob, TProc, TServe, TAlign
  <1>2. \A a \in Actors : th[a].pc = "out" /\ th[a].pl = NoList BY Empties DEF Init
  <1>3. Bounds BY <1>2, Empties DEF Init, Bounds
  <1>4. Phases BY <1>2 DEF Init, Phases, Preparing
  <1>5. Timeline BY <1>2, Empties DEF Init, Timeline
  <1>6. Published BY <1>2 DEF Init, Published
  <1>7. Served BY DEF Init, Served, Counted, NoIndex, NoStatus
  <1>8. ~Overtaken BY <1>2 DEF Overtaken, InPass
  <1> QED BY <1>1, <1>3, <1>4, <1>5, <1>6, <1>7, <1>8 DEF IInv, TInv

-----------------------------------------------------------------------------
(* What holds of a goroutine: its record, and whose it may be.              *)

LEMMA GoroutineFacts ==
  ASSUME TInv, NEW a \in Actors
  PROVE  /\ th[a] \in ThSet /\ th[a].pl \in PlSet /\ th[a].i \in 0..N
         /\ th[a].pl.base + th[a].pl.n <= N /\ Listed(th[a].pl) \subseteq Segs
         /\ th[a].pc # "out" => a[1] \in Jobs /\ gen \in Jobs /\ a[1] <= gen
         /\ IsFinal(a) /\ th[a].pc # "out" => a[1] = gen /\ host # "idle" /\ gen \notin done
         /\ IsFinal(a) /\ th[a].pc \notin {"idle", "out"} => ff = "off"
  <1> USE Constants
  <1>1. th[a] \in ThSet BY TypeParts DEF TInv, TAlign
  <1>2. th[a].pl \in PlSet /\ th[a].i \in 0..N BY <1>1 DEF ThSet
  <1>3. th[a].pl.base + th[a].pl.n <= N BY DEF TInv, Bounds
  <1>4. Listed(th[a].pl) \subseteq Segs BY <1>2, <1>3 DEF Listed, PlSet
  <1>5. gen \in 0..MaxGens BY DEF TInv, CodeOK
  <1>6. th[a].pc # "out" => a[1] \in Jobs /\ gen \in Jobs /\ a[1] <= gen
      <2>1. a[1] \in Jobs BY ActorShape
      <2>2. th[a].pc # "out" => ~(a[1] > gen) BY DEF TInv, Phases
      <2> QED BY <1>5, <2>1, <2>2
  <1>7. IsFinal(a) /\ th[a].pc # "out" => a[1] = gen /\ host # "idle" /\ gen \notin done
      BY DEF TInv, Phases
  <1>8. IsFinal(a) /\ th[a].pc \notin {"idle", "out"} => ff = "off"
      BY DEF TInv, Phases
  <1> QED BY <1>1, <1>2, <1>3, <1>4, <1>6, <1>7, <1>8

(* A goroutine in a pass is one of the generation, or the generation is a   *)
(* resume, which has the timeline of those before.                         *)
LEMMA InOrder ==
  ASSUME IInv, NEW a \in Actors, InPass(a)
  PROVE  /\ a[1] \in Jobs /\ gen \in Jobs /\ (a[1] = gen \/ ~fresh)
         /\ a[1] = gen => ~Preparing
         /\ start[a[1]] = start[gen] /\ start[gen] \in 0..MaxGens
         /\ \A k \in published[a[1]] : k \in Segs /\ InServeDir(k)
  <1> USE Constants
  <1>1. th[a].pc # "out" BY DEF InPass
  <1>2. a[1] \in Jobs /\ gen \in Jobs /\ a[1] <= gen BY <1>1, GoroutineFacts DEF IInv
  <1>3. a[1] = gen \/ ~fresh BY <1>2 DEF IInv, Overtaken
  <1>4. a[1] = gen => ~Preparing BY <1>1 DEF IInv, TInv, Phases
  <1>5. start[a[1]] = start[gen] BY <1>2, <1>3 DEF IInv, Timeline
  <1>6. start[gen] \in 0..MaxGens /\ published[a[1]] \subseteq Segs BY <1>2 DEF IInv, TInv, CodeOK
  <1>7. \A k \in published[a[1]] : InServeDir(k) BY <1>2, <1>3 DEF IInv, Published
  <1> QED BY <1>2, <1>3, <1>4, <1>5, <1>6, <1>7

-----------------------------------------------------------------------------
(* Steps of the host.                                                      *)

LEMMA BeginStep == ASSUME TInv, Begin PROVE TInv' /\ (Safe => IInv')
  <1> USE Constants
  <1>0. /\ fresh' \in Modes
        /\ gen > 0 /\ fresh => fresh'
      <2>1. PICK f \in Modes : (gen > 0 /\ fresh => f) /\ fresh' = f
          BY DEF Begin
      <2>2. fresh' \in Modes BY <2>1
      <2>3. gen > 0 /\ fresh => fresh' BY <2>1, Zenon
      <2> QED BY <2>2, <2>3
  <1>a. /\ UNCHANGED proc /\ UNCHANGED serve /\ UNCHANGED <<published, lock, th, errs>>
        /\ stopped' \in BOOLEAN /\ err' = [j \in Jobs |-> "none"] /\ done' = {}
      BY Zenon DEF Begin
  <1>b. /\ gen' = gen + 1 /\ gen < MaxGens /\ host = "idle"
        /\ start' = [start EXCEPT ![gen + 1] = IF fresh' THEN gen + 1 ELSE 0]
        /\ host' = IF fresh' THEN "clear" ELSE "launch"
      BY Zenon DEF Begin
  <1>c. gen \in 0..MaxGens BY DEF TInv, CodeOK
  <1>d. gen' \in Jobs /\ gen' \in 0..MaxGens /\ host' \in {"clear", "launch"} BY <1>b, <1>c
  <1>e. ~fresh' => gen = 0 \/ ~fresh BY <1>0, <1>c
  <1>1. (fresh' => host' = "clear") /\ (~fresh' => host' = "launch") BY <1>b
  <1>2. CodeOK'
      <2>1. start \in [Jobs -> 0..MaxGens] BY DEF TInv, CodeOK
      <2>2. start' \in [Jobs -> 0..MaxGens]
          <3>1. CASE fresh' BY <1>b, <1>c, <2>1, <3>1
          <3>2. CASE ~fresh' BY <1>b, <1>c, <2>1, <3>2
          <3> QED BY <3>1, <3>2
      <2>3. TJob' BY <1>0, <1>a, <1>d, <2>2, Zenon DEF TJob
      <2>4. TAlign' BY <1>a DEF TInv, CodeOK, TAlign, ThSet, PlSet
      <2> QED BY <1>a, <2>3, <2>4, FrameTypes, TypeParts, Zenon DEF TInv
  <1>3. Bounds' BY <1>a, <1>d, <1>e DEF TInv, Bounds, proc, Listed
  <1>4. Phases'
      <2>1. ff = "off"
          BY <1>b DEF TInv, Phases
      <2>2. ff' = ff /\ th' = th BY <1>a DEF proc
      <2>3. \A a \in Actors : a[1] >= gen' => th[a].pc = "out"
          BY <1>b, <1>c, ActorShape DEF TInv, Phases
      <2>4. \A a \in Actors : IsFinal(a) => th[a].pc = "out" BY <1>b DEF TInv, Phases
      <2>5. \A a \in Actors : th[a].pc = "normalize" => IsFinal(a) BY DEF TInv, Phases
      <2>6. \A a \in Actors : a[1] > gen' \/ a[1] = gen' => a[1] >= gen' BY <1>d, ActorShape
      <2> QED BY <1>a, <1>d, <1>1, <2>1, <2>2, <2>3, <2>4, <2>5, <2>6 DEF Phases, IsFinal
  <1>5. ASSUME Safe PROVE IInv'
      <2>0. IInv /\ ~Overtaken' BY <1>5 DEF Safe
      <2>1. Timeline'
          <3>1. \A j \in Jobs : j <= gen' => start'[j] = IF j = gen' THEN (IF fresh' THEN gen + 1 ELSE 0)
                                                                  ELSE start[j]
              BY <1>b, <1>c DEF TInv, CodeOK
          <3>2. ~fresh' => \A j \in Jobs : j <= gen => start[j] = 0
              BY <1>c, <1>e, <2>0 DEF IInv, Timeline
          <3>3. ~fresh' => \A k \in Segs : seg[k] \in {None, 0} BY <1>e, <2>0 DEF IInv, Timeline
          <3>4. ~fresh' => \A j \in Jobs : j <= gen' => start'[j] = 0
              BY <1>b, <1>c, <3>1, <3>2
          <3>5. seg' = seg BY <1>a DEF serve
          <3> QED BY <1>c, <1>b, <1>d, <1>1, <3>1, <3>3, <3>4, <3>5 DEF Timeline
      <2>2. Published'
          <3>1. \A j \in Jobs : j >= gen' => j > gen /\ published[j] = {}
              BY <1>b, <1>c, <2>0 DEF IInv, Published
          <3>2. \A j \in Jobs : ~fresh' => j >= gen \/ ~fresh BY <1>c, <1>e
          <3>3. \A j \in Jobs : j > gen' \/ j = gen' => j >= gen' BY <1>d
          <3> QED BY <1>a, <2>0, <3>1, <3>2, <3>3 DEF IInv, Published, serve, InServeDir
      <2>3. Served' BY <1>a, <1>b, <1>d, <1>1, <1>e, <2>0 DEF IInv, Served, Counted, serve, InServeDir
      <2>4. TInv' BY <1>2, <1>3, <1>4 DEF TInv
      <2> QED BY <2>0, <2>1, <2>2, <2>3, <2>4 DEF IInv
  <1> QED BY <1>2, <1>3, <1>4, <1>5 DEF TInv

LEMMA ClearStep == ASSUME TInv, ClearDirs \/ ClearFiles PROVE TInv' /\ (Safe => IInv')
  <1> USE Constants
  <1>1. /\ host \in {"clear", "clearFiles"} /\ host' \in {"clearFiles", "launch"} /\ gen \in Jobs
        /\ ff = "off" /\ fresh
        /\ UNCHANGED <<gen, fresh, start, stopped, ff, cnt, bad, align>>
      BY DEF ClearDirs, ClearFiles, TInv, Phases
  <1>2. TJob' BY <1>1 DEF TInv, CodeOK, TJob
  <1>3. TProc' BY Empties DEF ClearDirs, ClearFiles, TInv, CodeOK, TProc, PlSet
  <1>4. TServe'
      <2>1. CASE ClearDirs BY <2>1 DEF ClearDirs, TInv, CodeOK, TServe
      <2>2. CASE ClearFiles BY <2>2 DEF ClearFiles, TInv, CodeOK, TServe, NoIndex, NoStatus
      <2> QED BY <2>1, <2>2
  <1>5. CodeOK' BY <1>1, <1>2, <1>3, <1>4, FrameTypes, TypeParts DEF TInv
  <1>6. Bounds' BY <1>1, Empties DEF ClearDirs, ClearFiles, TInv, Bounds, Listed, align
  <1>7. Phases' BY <1>1 DEF TInv, Phases, Preparing, align, IsFinal
  <1>8. ASSUME Safe PROVE IInv'
      <2>0. IInv /\ ~Overtaken' BY <1>8 DEF Safe
      <2>1. Timeline'
          <3>1. CASE ClearDirs BY <1>1, <2>0, <3>1 DEF ClearDirs, IInv, Timeline
          <3>2. CASE ClearFiles BY <1>1, <2>0, <3>2 DEF ClearFiles, IInv, Timeline
          <3> QED BY <3>1, <3>2
      <2>2. Published'
          <3>1. \A a \in Actors : th[a].pc # "remove"
              BY <1>1, <2>0, InOrder DEF InPass, Preparing
          <3>2. \A j \in Jobs : j > gen \/ j = gen => published[j] = {}
              BY <1>1, <2>0 DEF IInv, Published, Preparing
          <3>3. \A j \in Jobs : j >= gen => published[j] = {} BY <1>1, <3>2
          <3> QED BY <1>1, <3>1, <3>2, <3>3 DEF Published, align
      <2>3. Served'
          <3>1. CASE ClearDirs BY <3>1 DEF ClearDirs, Served
          <3>2. CASE ClearFiles BY <3>2 DEF ClearFiles, Served, Counted, NoIndex, NoStatus
          <3> QED BY <3>1, <3>2
      <2>4. TInv' BY <1>5, <1>6, <1>7 DEF TInv
      <2> QED BY <2>0, <2>1, <2>2, <2>3, <2>4 DEF IInv
  <1> QED BY <1>5, <1>6, <1>7, <1>8 DEF TInv

LEMMA LaunchStep == ASSUME TInv, Launch PROVE TInv' /\ (Safe => IInv')
  <1> USE Constants
  <1>1. /\ host = "launch" /\ host' = "wait" /\ gen \in Jobs /\ pl.n < N
        /\ ff' = "open" /\ gen \notin done
        /\ \A a \in Actors : a[1] >= gen => th[a].pc = "out"
        /\ UNCHANGED <<gen, fresh, start, stopped, raw, bad, serve, published, lock, err, done, errs>>
      <2>1. \A a \in Actors : a[1] >= gen => a[1] > gen \/ a[1] = gen
          BY ActorShape DEF TInv, CodeOK
      <2> QED BY <2>1 DEF Launch, TInv, Phases, Preparing
  <1>2. th' = [a \in Actors |-> IF a[1] = gen THEN Rest("idle") ELSE th[a]] BY DEF Launch
  <1>3. \A a \in Actors : /\ th'[a] \in ThSet /\ th'[a].pl.base + th'[a].pl.n <= N
                          /\ IF a[1] = gen THEN th'[a].pc = "idle" ELSE th'[a] = th[a]
      BY <1>1, <1>2, Empties DEF TInv, CodeOK, Bounds, ThSet, PlSet
  <1>4. /\ pl' \in PlSet /\ cnt' \in 0..N
        /\ pl'.base + pl'.n <= N /\ pl'.base + cnt' < N
        /\ ~fresh => pl'.base = 0
      <2>1. CASE fresh
          <3>1. PICK b \in Segs : pl' = [NoList EXCEPT !.base = b] BY <2>1 DEF Launch
          <3>2. pl' = [st |-> "none", base |-> b, n |-> 0, end |-> FALSE] BY <3>1 DEF NoList
          <3>3. cnt' = 0 BY <2>1 DEF Launch
          <3> QED BY <2>1, <3>2, <3>3 DEF PlSet
      <2>2. CASE ~fresh
          <3>1. pl' = pl /\ cnt' = pl.n BY <2>2 DEF Launch
          <3> QED BY <1>1, <2>2, <3>1 DEF TInv, CodeOK, Bounds, PlSet
      <2> QED BY <2>1, <2>2
  <1>5. CodeOK'
      <2>1. TJob' BY <1>1 DEF TInv, CodeOK, TJob
      <2>2. TProc' BY <1>1, <1>4 DEF TInv, CodeOK, TProc
      <2>3. TAlign' BY <1>1, <1>2, <1>3 DEF TInv, CodeOK, TAlign
      <2> QED BY <1>1, <2>1, <2>2, <2>3, FrameTypes, TypeParts DEF TInv
  <1>6. Bounds'
      <2>1. \A a \in Actors : th'[a].pc \in {"rename", "remove"} => th'[a].i \in Listed(th'[a].pl)
          BY <1>3 DEF TInv, Bounds
      <2>2. (\A a \in Actors : th[a].pc \in {"rename", "remove"} => th[a].i \in Listed(th[a].pl))'
          BY <2>1 DEF Listed
      <2> QED BY <1>1, <1>3, <1>4, <2>2 DEF Bounds
  <1>7. Phases'
      <2>1. \A a \in Actors : /\ a[1] > gen => th'[a].pc = "out"
                              /\ IsFinal(a) => th'[a].pc = IF a[1] = gen THEN "idle" ELSE "out"
                              /\ th'[a].pc # "normalize" \/ IsFinal(a)
          BY <1>1, <1>3, ActorShape DEF TInv, Phases
      <2> QED BY <1>1, <2>1 DEF Phases, Preparing, IsFinal
  <1>8. ASSUME Safe PROVE IInv'
      <2>0. IInv /\ ~Overtaken' BY <1>8 DEF Safe
      <2>1. Timeline' BY <1>1, <2>0 DEF IInv, Timeline, serve
      <2>2. Published' BY <1>1, <1>3, <2>0 DEF IInv, Published, Preparing, serve, InServeDir
      <2>3. Served' BY <1>1, <2>0 DEF IInv, Served, Counted, serve, InServeDir
      <2>4. TInv' BY <1>5, <1>6, <1>7 DEF TInv
      <2> QED BY <2>0, <2>1, <2>2, <2>3, <2>4 DEF IInv
  <1> QED BY <1>5, <1>6, <1>7, <1>8 DEF TInv

LEMMA HostEnds == ASSUME TInv, LaunchFails \/ Cancel \/ Wait PROVE TInv' /\ (Safe => IInv')
  <1> USE Constants
  <1>1. /\ UNCHANGED <<gen, fresh, start>> /\ UNCHANGED proc /\ UNCHANGED serve /\ UNCHANGED align
        /\ stopped' \in BOOLEAN /\ gen \in Jobs
        /\ \/ host \in {"clearFiles", "launch"} /\ host' = "idle"
           \/ host = "wait" /\ host' = "wait"
           \/ host = "wait" /\ host' = "idle" /\ ff = "off" /\ gen \in done
      <2>1. CASE LaunchFails BY <2>1 DEF LaunchFails, TInv, Phases, CodeOK
      <2>2. CASE Cancel BY <2>2 DEF Cancel, TInv, Phases
      <2>3. CASE Wait BY <2>3 DEF Wait, TInv, Phases, CodeOK
      <2> QED BY <2>1, <2>2, <2>3
  <1>2. TJob' BY <1>1 DEF TInv, CodeOK, TJob
  <1>3. CodeOK' BY <1>1, <1>2, FrameTypes, TypeParts DEF TInv
  <1>4. Bounds' BY <1>1 DEF TInv, Bounds, Listed, proc, align
  <1>5. Phases'
      <2>1. UNCHANGED <<ff, th, done>> BY <1>1 DEF proc, align
      <2>2. host' = "idle" => \A a \in Actors : IsFinal(a) => th[a].pc = "out"
          BY <1>1 DEF TInv, Phases, Preparing
      <2>3. host' = "idle" => ff = "off" BY <1>1 DEF TInv, Phases
      <2> QED BY <1>1, <2>1, <2>2, <2>3 DEF TInv, Phases, Preparing, IsFinal
  <1>6. ASSUME Safe PROVE IInv'
      <2>0. IInv /\ ~Overtaken' BY <1>6 DEF Safe
      <2>1. Timeline' BY <1>1, <2>0 DEF IInv, Timeline, serve
      <2>2. Published' BY <1>1, <2>0 DEF IInv, Published, Preparing, InServeDir, serve, align
      <2>3. Served' BY <1>1, <2>0 DEF IInv, TInv, Phases, Served, Counted, InServeDir, serve
      <2>4. TInv' BY <1>3, <1>4, <1>5 DEF TInv
      <2> QED BY <2>0, <2>1, <2>2, <2>3, <2>4 DEF IInv
  <1> QED BY <1>3, <1>4, <1>5, <1>6 DEF TInv

LEMMA CrashStep == ASSUME TInv, Crash PROVE TInv' /\ (Safe => IInv')
  <1> USE Constants
  <1>1. /\ host # "idle" /\ host' = "idle" /\ ff' = "off" /\ gen \in Jobs
        /\ th' = [a \in Actors |-> Rest("out")] /\ lock' = Free
        /\ published' = [j \in Jobs |-> {}] /\ err' = [j \in Jobs |-> "none"] /\ done' = {}
        /\ UNCHANGED <<gen, fresh, start, stopped, cnt, raw, pl, bad, serve, errs>>
      BY DEF Crash, TInv, Phases
  <1>2. \A a \in Actors : th'[a] \in ThSet /\ th'[a].pc = "out" /\ th'[a].pl = NoList
      BY <1>1, Empties
  <1>3. CodeOK'
      <2>1. TJob' BY <1>1 DEF TInv, CodeOK, TJob
      <2>2. TProc' BY <1>1 DEF TInv, CodeOK, TProc, PlSet
      <2>3. TAlign' BY <1>1, <1>2 DEF TInv, CodeOK, TAlign
      <2> QED BY <1>1, <2>1, <2>2, <2>3, FrameTypes, TypeParts DEF TInv
  <1>4. Bounds' BY <1>1, <1>2, Empties DEF TInv, Bounds
  <1>5. Phases' BY <1>1, <1>2 DEF TInv, Phases, Preparing
  <1>6. ASSUME Safe PROVE IInv'
      <2>0. IInv /\ ~Overtaken' BY <1>6 DEF Safe
      <2>1. Timeline' BY <1>1, <2>0 DEF IInv, Timeline, serve
      <2>2. Published' BY <1>1, <1>2 DEF Published
      <2>3. Served' BY <1>1, <2>0 DEF IInv, TInv, CodeOK, Served, Counted, InServeDir, Phases, serve
      <2>4. TInv' BY <1>3, <1>4, <1>5 DEF TInv
      <2> QED BY <2>0, <2>1, <2>2, <2>3, <2>4 DEF IInv
  <1> QED BY <1>3, <1>4, <1>5, <1>6 DEF TInv

-----------------------------------------------------------------------------
(* Steps of ffmpeg: they touch raw/ and its playlist only.                 *)

LEMMA FFmpegStep == ASSUME TInv, FFmpeg PROVE TInv' /\ (Safe => IInv')
  <1> USE Constants
  <1>1. /\ ff # "off" /\ host = "wait" /\ gen \in Jobs
        /\ UNCHANGED job /\ UNCHANGED serve /\ UNCHANGED <<published, lock, th, done, errs>>
      BY DEF FFmpeg, FFSteps, FFOpen, FFClose, FFTruncate, FFList, FFExit, FFDie, FFUnchanged,
             TInv, Phases
  <1>2. ff \in {"open", "write", "list", "rewrite"} => W \in Segs /\ W = pl.base + cnt
      BY DEF TInv, CodeOK, Bounds, W
  <1>3. err' \in [Jobs -> {"none", "ffmpeg", "publish"}]
      BY <1>1 DEF FFmpeg, FFSteps, FFOpen, FFClose, FFTruncate, FFList, FFExit, FFDie, TInv, CodeOK
  <1>4. /\ raw' \in [Segs -> {"none", "part", "good", "bad"}] /\ bad' \in 0..MaxFaults
        /\ pl' \in PlSet /\ cnt' \in 0..N
        /\ ff' \in {"off", "open", "write", "list", "rewrite", "end"}
        /\ pl'.base = pl.base /\ pl'.base + pl'.n <= N
        /\ ff' \in {"open", "write", "list", "rewrite"} => pl'.base + cnt' < N
      <2> USE DEF TInv, CodeOK, Bounds
      <2>0. pl \in PlSet BY DEF PlSet
      <2>1. CASE FFOpen
          <3>1. W \in Segs BY <1>2, <2>1 DEF FFOpen
          <3>2. \/ raw' = raw
                \/ raw' = [raw EXCEPT ![W] = "part"]
              BY <2>1, Zenon DEF FFOpen
          <3> QED BY <1>2, <2>0, <2>1, <3>1, <3>2 DEF FFOpen
      <2>2. CASE FFClose
          <3>1. PICK b \in BOOLEAN :
                  /\ b => errs + bad < MaxFaults
                  /\ bad' = IF b THEN bad + 1 ELSE bad
                  /\ raw' = [raw EXCEPT ![W] = IF b THEN "bad" ELSE "good"]
              BY <2>2 DEF FFClose
          <3>2. W \in Segs BY <1>2, <2>2 DEF FFClose
          <3> QED BY <1>2, <2>0, <2>2, <3>1, <3>2 DEF FFClose
      <2>3. CASE FFTruncate
          <3>1. PICK n \in 0..cnt, t \in {"ok", "torn"} :
                  pl' = [pl EXCEPT !.st = t, !.n = n, !.end = FALSE]
              BY <2>3 DEF FFTruncate
          <3>2. pl' = [st |-> t, base |-> pl.base, n |-> n, end |-> FALSE] BY <2>0, <3>1 DEF PlSet
          <3>3. pl.base \in Nat /\ pl.base + cnt < N /\ n \in 0..N
              <4>1. ff = "list" /\ cnt \in 0..N /\ n \in 0..cnt BY <2>3 DEF FFTruncate
              <4>2. pl.base \in Nat BY <2>0 DEF PlSet
              <4>3. pl.base + cnt < N BY <4>1
              <4> HIDE DEF TInv, CodeOK, Bounds
              <4> QED BY <4>1, <4>2, <4>3
          <3>4. pl' \in PlSet /\ pl'.base = pl.base /\ pl'.base + pl'.n <= N
              <4> HIDE DEF TInv, CodeOK, Bounds
              <4>1. n \in Nat /\ n <= cnt /\ cnt \in Nat BY <1>2, <2>3 DEF FFTruncate, TInv, CodeOK
              <4> QED BY <2>0, <3>2, <3>3, <4>1 DEF PlSet
          <3>5. UNCHANGED <<cnt, raw, bad>> /\ ff' = "rewrite" BY <2>3 DEF FFTruncate
          <3> QED BY <3>3, <3>4, <3>5
      <2>4. CASE FFList
          <3>1. PICK e \in BOOLEAN :
                  /\ W + 1 = N => e
                  /\ pl' = [pl EXCEPT !.st = "ok", !.n = cnt + 1, !.end = e]
                  /\ ff' = IF e THEN "end" ELSE "open"
              BY <2>4 DEF FFList
          <3>2. pl' = [st |-> "ok", base |-> pl.base, n |-> cnt + 1, end |-> e]
              BY <2>0, <3>1 DEF PlSet
          <3>3. /\ cnt' = cnt + 1 /\ UNCHANGED <<raw, bad>>
                /\ ff \in {"list", "rewrite"}
              BY <2>4 DEF FFList
          <3>4. pl.base \in Nat /\ pl.base + cnt < N /\ W = pl.base + cnt
              BY <1>2, <2>0, <3>3 DEF PlSet
          <3>5. cnt \in Nat /\ cnt + 1 \in 0..N BY <3>4
          <3>6. pl' \in PlSet /\ pl'.base = pl.base /\ pl'.base + pl'.n <= N
              <4> HIDE DEF TInv, CodeOK, Bounds
              <4> QED BY <2>0, <3>2, <3>4, <3>5 DEF PlSet
          <3>7. ff' \in {"end", "open"} /\ (ff' = "open" => pl.base + cnt + 1 < N)
              <4> HIDE DEF TInv, CodeOK, Bounds
              <4> QED BY <3>1, <3>4, <3>5
          <3> QED BY <3>3, <3>4, <3>5, <3>6, <3>7
      <2>5. CASE FFExit BY <2>0, <2>5 DEF FFExit
      <2>6. CASE FFDie BY <2>0, <2>6 DEF FFDie
      <2> QED BY <2>1, <2>2, <2>3, <2>4, <2>5, <2>6 DEF FFmpeg, FFSteps
  <1>5. CodeOK'
      <2>1. TProc' BY <1>4 DEF TProc
      <2>2. TAlign' BY <1>1, <1>3 DEF TInv, CodeOK, TAlign, ThSet, PlSet
      <2> QED BY <1>1, <2>1, <2>2, FrameTypes, TypeParts DEF TInv
  <1>6. Bounds'
      <2>1. \A a \in Actors : /\ th'[a].pl.base + th'[a].pl.n <= N
                              /\ th'[a].pc \in {"rename", "remove"} => th'[a].i \in Listed(th[a].pl)
          BY <1>1 DEF TInv, Bounds
      <2>2. gen' = gen /\ fresh' = fresh BY <1>1 DEF job
      <2> QED BY <1>1, <1>4, <2>1, <2>2 DEF TInv, Bounds, Listed
  <1>7. Phases' BY <1>1 DEF TInv, Phases, Preparing, IsFinal, job
  <1>8. ASSUME Safe PROVE IInv'
      <2>0. IInv /\ ~Overtaken' BY <1>8 DEF Safe
      <2>1. Timeline' BY <1>1, <2>0 DEF IInv, Timeline, job, serve
      <2>2. Published' BY <1>1, <2>0 DEF IInv, Published, Preparing, InServeDir, job, serve
      <2>3. Served' BY <1>1, <2>0 DEF IInv, Served, Counted, InServeDir, job, serve
      <2>4. TInv' BY <1>5, <1>6, <1>7 DEF TInv
      <2> QED BY <2>0, <2>1, <2>2, <2>3, <2>4 DEF IInv
  <1> QED BY <1>5, <1>6, <1>7, <1>8 DEF TInv

-----------------------------------------------------------------------------
(* Steps of the aligner.  Goroutine c goes to r, and nothing that could be  *)
(* served before it cannot be served after it.                             *)

Moves(c, r) ==
  /\ th[c].pc # "out" /\ th' = [th EXCEPT ![c] = r]
  /\ r.pl.base + r.pl.n <= N /\ (r.pc \in {"rename", "remove"} => r.i \in Listed(r.pl))
  /\ (IsFinal(c) /\ r.pc \notin {"idle", "out"} => ff = "off")
  /\ (r.pc = "normalize" => IsFinal(c))
  /\ done' = done \/ (done' = done \cup {c[1]} /\ IsFinal(c) /\ r.pc = "out" /\ ff = "off")
  /\ UNCHANGED job /\ UNCHANGED <<ff, cnt, pl, bad>>
Typed ==
  /\ raw' \in [Segs -> {"none", "part", "good", "bad"}] /\ TServe'
  /\ published' \in [Jobs -> SUBSET Segs] /\ lock' \in {Free} \cup Actors
  /\ err' \in [Jobs -> {"none", "ffmpeg", "publish"}] /\ errs' \in 0..MaxFaults
Serves(c, r) ==
  /\ \A k \in Segs : seg'[k] \in {seg[k], start[gen]}
  /\ \A k \in Segs : InServeDir(k) => InServeDir(k)'
  /\ \A j \in Jobs : j # c[1] => published'[j] = published[j]
  /\ \A k \in published'[c[1]] : k \in published[c[1]] \/ InServeDir(k)'
  /\ r.pc = "remove" => seg'[r.i] # None /\ r.i \notin tmp'
  /\ \A k \in Counted' : k \in Counted \/ InServeDir(k)'

LEMMA MoveTypes ==
  ASSUME TInv, NEW c \in Actors, NEW r \in ThSet, Moves(c, r), Typed
  PROVE  TInv'
  <1> USE Constants
  <1>1. /\ th[c].pc # "out" /\ UNCHANGED job /\ UNCHANGED <<ff, cnt, pl, bad>>
        /\ done' = done \/ (done' = done \cup {c[1]} /\ IsFinal(c) /\ r.pc = "out" /\ ff = "off")
      BY DEF Moves
  <1>2. c[1] \in Jobs /\ gen \in Jobs /\ c[1] <= gen BY <1>1, GoroutineFacts
  <1>3. /\ th' \in [Actors -> ThSet] /\ th'[c] = r
        /\ \A b \in Actors : b # c => th'[b] = th[b]
      <2>1. th \in [Actors -> ThSet] BY TypeParts DEF TInv, TAlign
      <2> QED BY <2>1 DEF Moves
  <1>4. CodeOK'
      <2>1. TProc' BY <1>1 DEF TInv, CodeOK, TProc, PlSet, Typed
      <2>2. done' \subseteq Jobs BY <1>1, <1>2 DEF TInv, CodeOK
      <2>3. TAlign' BY <1>3, <2>2 DEF TAlign, Typed
      <2> QED BY <1>1, <2>1, <2>3, FrameTypes, TypeParts DEF TInv, Typed
  <1>5. Bounds'
      <2>1. \A b \in Actors : /\ th'[b].pl.base + th'[b].pl.n <= N
                              /\ th'[b].pc \in {"rename", "remove"} => th'[b].i \in Listed(th'[b].pl)
          BY <1>3 DEF TInv, Bounds, Moves
      <2>2. /\ pl.base + pl.n <= N /\ (ff \in {"open", "write", "list", "rewrite"} => pl.base + cnt < N)
            /\ gen = 0 \/ ~fresh => pl.base = 0
          BY DEF TInv, Bounds
      <2>3. UNCHANGED <<ff, cnt, pl, gen, fresh>> BY <1>1 DEF job
      <2>4. /\ pl'.base + pl'.n <= N
            /\ ff' \in {"open", "write", "list", "rewrite"} => pl'.base + cnt' < N
            /\ gen' = 0 \/ ~fresh' => pl'.base = 0
          BY <2>2, <2>3
      <2>5. (\A a \in Actors : th[a].pl.base + th[a].pl.n <= N)' BY <2>1
      <2>6. (\A a \in Actors : th[a].pc \in {"rename", "remove"} => th[a].i \in Listed(th[a].pl))'
          BY <2>1 DEF Listed
      <2>7. (pl.base + pl.n <= N)' BY <2>4
      <2> QED BY <2>4, <2>5, <2>6, <2>7 DEF Bounds
  <1>6. Phases'
      <2>1. UNCHANGED <<host, gen, fresh, ff>> BY <1>1 DEF job
      <2>2. (\A a \in Actors : a[1] > gen \/ (a[1] = gen /\ Preparing) => th[a].pc = "out")'
          <3>1. ~(c[1] > gen \/ (c[1] = gen /\ Preparing)) BY <1>1 DEF TInv, Phases
          <3> QED BY <1>3, <2>1, <3>1 DEF TInv, Phases, Preparing
      <2>3. IsFinal(c) => c[1] = gen /\ host = "wait" /\ gen \notin done
          <3>1. IsFinal(c) => c[1] = gen /\ host # "idle" /\ gen \notin done
              BY <1>1, GoroutineFacts
          <3>2. IsFinal(c) => ~Preparing BY <1>1, <3>1 DEF TInv, Phases
          <3> QED BY <3>1, <3>2 DEF Preparing, TInv, CodeOK
      <2>4. (\A a \in Actors : IsFinal(a) /\ (a[1] # gen \/ host = "idle" \/ gen \in done)
                                => th[a].pc = "out")'
          <3> SUFFICES ASSUME NEW a \in Actors, IsFinal(a), a[1] # gen \/ host = "idle" \/ gen \in done'
                       PROVE  th'[a].pc = "out"
              BY <2>1 DEF IsFinal
          <3>1. CASE a = c BY <1>1, <1>3, <2>3, <3>1
          <3>2. CASE a # c
              <4>1. th'[a] = th[a] BY <1>3, <3>2
              <4>2. CASE done' = done BY <4>1, <4>2 DEF TInv, Phases
              <4>3. CASE IsFinal(c)
                  <5>1. a[1] # gen BY <2>3, <3>2, <4>3, ActorShape DEF IsFinal
                  <5> QED BY <4>1, <5>1 DEF TInv, Phases
              <4> QED BY <1>1, <4>2, <4>3
          <3> QED BY <3>1, <3>2
      <2>5. (\A a \in Actors : IsFinal(a) /\ th[a].pc \notin {"idle", "out"} => ff = "off")'
          BY <1>3, <2>1 DEF TInv, Phases, Moves, IsFinal
      <2>6. (\A a \in Actors : th[a].pc = "normalize" => IsFinal(a))'
          BY <1>3 DEF TInv, Phases, Moves, IsFinal
      <2>7. /\ host' # "wait" => ff' = "off"
            /\ gen' \in done' => ff' = "off"
            /\ Preparing' => gen' \notin done'
            /\ host' # "idle" => gen' \in Jobs
            /\ host' \in {"clear", "clearFiles"} => fresh'
          BY <1>1, <1>2, <2>1, <2>3 DEF TInv, Phases, Preparing
      <2> QED BY <2>2, <2>4, <2>5, <2>6, <2>7 DEF Phases
  <1> QED BY <1>4, <1>5, <1>6 DEF TInv

LEMMA MoveStep ==
  ASSUME TInv, NEW c \in Actors, NEW r \in ThSet, Moves(c, r), Typed, Safe => Serves(c, r)
  PROVE  TInv' /\ (Safe => IInv')
  <1> USE Constants
  <1>0. TInv' BY MoveTypes
  <1> SUFFICES ASSUME Safe PROVE IInv'
      BY <1>0
  <1>1. IInv /\ ~Overtaken' /\ Serves(c, r) BY DEF Safe
  <1>2. /\ c[1] \in Jobs /\ gen \in Jobs /\ c[1] <= gen /\ ~(c[1] = gen /\ Preparing)
        /\ UNCHANGED <<host, gen, fresh, start>>
      BY GoroutineFacts DEF Moves, TInv, Phases, job
  <1>3. /\ th'[c] = r /\ \A b \in Actors : b # c => th'[b] = th[b]
      <2>1. th \in [Actors -> ThSet] BY TypeParts DEF TInv, TAlign
      <2> QED BY <2>1 DEF Moves
  <1>4. Timeline'
      <2>1. ~fresh => start[gen] = 0 BY <1>1, <1>2 DEF IInv, Timeline
      <2> QED BY <1>1, <1>2, <2>1 DEF IInv, Timeline, Serves
  <1>5. Published'
      <2>1. \A j \in Jobs : j > gen \/ (j = gen /\ Preparing) => published'[j] = {}
          BY <1>1, <1>2 DEF IInv, Published, Serves
      <2>2. ASSUME NEW j \in Jobs, j >= gen \/ ~fresh, NEW k \in published'[j]
            PROVE  InServeDir(k)'
          <3>1. \A i \in published[j] : i \in Segs /\ InServeDir(i)
              BY <1>1, <2>2 DEF IInv, TInv, CodeOK, Published
          <3>2. k \in published[j] \/ InServeDir(k)' BY <1>1, <2>2 DEF Serves
          <3> QED BY <1>1, <3>1, <3>2 DEF Serves
      <2>3. \A b \in Actors : th'[b].pc = "remove" => InServeDir(th[b].i)'
          <3> TAKE b \in Actors
          <3>1. CASE b = c BY <1>1, <1>3, <3>1 DEF Serves, InServeDir
          <3>2. CASE b # c
              <4> SUFFICES ASSUME th'[b].pc = "remove" PROVE InServeDir(th[b].i)'
                  OBVIOUS
              <4>1. th'[b] = th[b] /\ InServeDir(th[b].i) /\ th[b].i \in Listed(th[b].pl)
                  BY <1>1, <1>3, <3>2 DEF IInv, Published, TInv, Bounds
              <4>2. th[b].i \in Segs BY <4>1, GoroutineFacts
              <4> QED BY <1>1, <4>1, <4>2 DEF Serves, InServeDir
          <3> QED BY <3>1, <3>2
      <2> QED BY <1>2, <2>1, <2>2, <2>3 DEF Published, Preparing
  <1>6. Served'
      <2>1. \A k \in Counted : InServeDir(k) => InServeDir(k)' BY <1>1 DEF Counted, Serves
      <2> QED BY <1>1, <1>2, <2>1 DEF IInv, Served, Serves, InServeDir
  <1> QED BY <1>0, <1>1, <1>4, <1>5, <1>6 DEF IInv

(* The updates of th, as a record that goroutine a goes to.                *)
With(a, p, j, c) == [pc |-> p, pl |-> th[a].pl, i |-> j, changed |-> c]

LEMMA Fields ==
  ASSUME NEW r \in ThSet
  PROVE  /\ \A p : [r EXCEPT !.pc = p] = [pc |-> p, pl |-> r.pl, i |-> r.i, changed |-> r.changed]
         /\ \A j : [r EXCEPT !.i = j] = [pc |-> r.pc, pl |-> r.pl, i |-> j, changed |-> r.changed]
         /\ \A c : [r EXCEPT !.changed = c] = [pc |-> r.pc, pl |-> r.pl, i |-> r.i, changed |-> c]
  BY DEF ThSet

LEMMA Updates ==
  ASSUME TInv, NEW a \in Actors
  PROVE  /\ \A p : [th EXCEPT ![a].pc = p] = [th EXCEPT ![a] = With(a, p, th[a].i, th[a].changed)]
         /\ th[a].i + 1 \in 0..N =>
              /\ [th EXCEPT ![a].pc = "scan", ![a].i = @ + 1]
                   = [th EXCEPT ![a] = With(a, "scan", th[a].i + 1, th[a].changed)]
              /\ [th EXCEPT ![a].pc = "scan", ![a].i = @ + 1, ![a].changed = TRUE]
                   = [th EXCEPT ![a] = With(a, "scan", th[a].i + 1, TRUE)]
  <1> DEFINE j == th[a].i + 1
             r1 == With(a, "scan", th[a].i, th[a].changed)
             r2 == With(a, "scan", j, th[a].changed)
  <1>1. th[a] \in ThSet BY TypeParts DEF TInv, TAlign
  <1>2. \A p : [th[a] EXCEPT !.pc = p] = With(a, p, th[a].i, th[a].changed)
      BY <1>1, Fields DEF With
  <1>3. \A p : [th EXCEPT ![a].pc = p] = [th EXCEPT ![a] = [th[a] EXCEPT !.pc = p]]
      OBVIOUS
  <1>4. th \in [Actors -> ThSet] BY TypeParts DEF TInv, TAlign
  <1>5. r1 \in ThSet BY <1>1 DEF ThSet, With
  <1>6. [r1 EXCEPT !.i = j] = r2
      <2>1. r1.pc = "scan" /\ r1.pl = th[a].pl /\ r1.changed = th[a].changed BY DEF With
      <2> HIDE DEF j, r1
      <2> QED BY <1>5, <2>1, Fields DEF With
  <1>7. [th EXCEPT ![a].pc = "scan", ![a].i = @ + 1]
          = [th EXCEPT ![a] = [[th[a] EXCEPT !.pc = "scan"] EXCEPT !.i = j]]
      BY <1>4
  <1>8. [th EXCEPT ![a].pc = "scan", ![a].i = @ + 1, ![a].changed = TRUE]
          = [th EXCEPT ![a] = [[[th[a] EXCEPT !.pc = "scan"] EXCEPT !.i = j] EXCEPT !.changed = TRUE]]
      BY <1>4
  <1>9. j \in 0..N => [r2 EXCEPT !.changed = TRUE] = With(a, "scan", j, TRUE)
      <2>1. r2.pc = "scan" /\ r2.pl = th[a].pl /\ r2.i = j BY DEF With
      <2>2. j \in 0..N => r2 \in ThSet BY <1>1 DEF ThSet, With
      <2> HIDE DEF j, r2
      <2> QED BY <2>1, <2>2, Fields DEF With
  <1> HIDE DEF j, r1, r2
  <1> QED BY <1>2, <1>3, <1>6, <1>7, <1>8, <1>9 DEF j, r1, r2

LEMMA WithIn ==
  ASSUME TInv, NEW a \in Actors,
         NEW p \in {"lock", "scan", "rename", "remove", "status"},
         NEW j \in 0..N, NEW c \in BOOLEAN
  PROVE  With(a, p, j, c) \in ThSet
  BY GoroutineFacts DEF With, ThSet

(* A step that leaves the files of the aligner and its map alone.          *)
LEMMA QuietStep ==
  ASSUME TInv, NEW a \in Actors, NEW r \in ThSet, Moves(a, r), r.pc # "remove",
         UNCHANGED raw, UNCHANGED serve, UNCHANGED published,
         lock' \in {Free} \cup Actors, err' \in [Jobs -> {"none", "ffmpeg", "publish"}],
         errs' \in 0..MaxFaults
  PROVE  TInv' /\ (Safe => IInv')
  <1>1. Typed BY FrameTypes, TypeParts DEF Typed, TInv, CodeOK
  <1>2. Serves(a, r) BY DEF Serves, Counted, InServeDir, serve
  <1> QED BY <1>1, <1>2, MoveStep

Left(a) == Rest(IF IsFinal(a) THEN "normalize" ELSE "idle")

LEMMA LeaveMoves ==
  ASSUME TInv, NEW a \in Actors, th[a].pc \notin {"out", "idle"}, NEW f \in BOOLEAN, Leave(a, f),
         UNCHANGED job, UNCHANGED <<ff, cnt, pl, bad>>
  PROVE  /\ Left(a) \in ThSet /\ Left(a).pc \in {"normalize", "idle"} /\ Moves(a, Left(a))
         /\ lock' \in {Free} \cup Actors /\ err' \in [Jobs -> {"none", "ffmpeg", "publish"}]
  <1> USE Constants
  <1>1. /\ Left(a) \in ThSet /\ Left(a).pl = NoList
        /\ Left(a).pc = IF IsFinal(a) THEN "normalize" ELSE "idle"
      BY Empties DEF Left
  <1>2. lock' = Free /\ th' = [th EXCEPT ![a] = Left(a)] /\ done' = done
      BY DEF Leave, Left
  <1>3. err' \in [Jobs -> {"none", "ffmpeg", "publish"}]
      BY ActorShape DEF Leave, TInv, CodeOK
  <1>4. Moves(a, Left(a)) BY <1>1, <1>2, GoroutineFacts, Empties DEF Moves
  <1> QED BY <1>1, <1>2, <1>3, <1>4

(* A step that goes on in the pass, or into it, and writes nothing.        *)
LEMMA GoOn ==
  ASSUME TInv, NEW a \in Actors, NEW r \in ThSet, th' = [th EXCEPT ![a] = r],
         th[a].pc # "out", IsFinal(a) => ff = "off",
         r.pc \notin {"rename", "remove", "normalize"}, r.pl.base + r.pl.n <= N,
         UNCHANGED <<job, proc, serve, published, err, done, errs>>,
         lock' \in {Free} \cup Actors
  PROVE  TInv' /\ (Safe => IInv')
  <1>1. UNCHANGED job /\ UNCHANGED <<ff, cnt, pl, bad>> /\ UNCHANGED raw
      BY DEF proc
  <1>2. Moves(a, r) BY <1>1 DEF Moves
  <1>3. err' \in [Jobs -> {"none", "ffmpeg", "publish"}] /\ errs' \in 0..MaxFaults
      BY DEF TInv, CodeOK
  <1> QED BY <1>1, <1>2, <1>3, QuietStep

LEMMA LoopStep ==
  ASSUME TInv, NEW a \in Actors, Ticker(a) \/ FinalPass(a) \/ Skip(a)
  PROVE  TInv' /\ (Safe => IInv')
  <1> USE Constants
  <1>0. /\ th[a].changed \in BOOLEAN /\ th[a].i \in 0..N /\ lock \in {Free} \cup Actors
        /\ th[a].pl.base + th[a].pl.n <= N
      BY GoroutineFacts DEF ThSet, TInv, CodeOK
  <1>1. CASE Tick(a) \/ FinalPass(a)
      <2> DEFINE r == With(a, "lock", th[a].i, th[a].changed)
      <2>1. r \in ThSet /\ r.pc = "lock" /\ r.pl = th[a].pl BY <1>0, WithIn DEF With
      <2>2. th[a].pc = "idle" /\ (IsFinal(a) => FFmpegDone(a[1]))
          BY <1>1 DEF Tick, FinalPass, At
      <2>3. th' = [th EXCEPT ![a] = r] BY <1>1, Updates DEF Tick, FinalPass, Go
      <2>4. IsFinal(a) => ff = "off" BY <2>2, GoroutineFacts DEF FFmpegDone
      <2> HIDE DEF r
      <2> QED BY <1>0, <1>1, <2>1, <2>2, <2>3, <2>4, GoOn DEF Tick, FinalPass
  <1>2. CASE TickReturn(a)
      <2>1. Rest("out") \in ThSet /\ Rest("out").pc = "out" /\ Rest("out").pl = NoList BY Empties
      <2>2. /\ th[a].pc = "idle" /\ ~IsFinal(a) /\ th' = [th EXCEPT ![a] = Rest("out")]
            /\ UNCHANGED <<job, proc, serve, published, lock, err, done, errs>>
          BY <1>2 DEF TickReturn, At
      <2>3. Rest("out").pl.base + Rest("out").pl.n <= N BY <2>1, Empties
      <2> QED BY <1>0, <2>1, <2>2, <2>3, GoOn
  <1>3. CASE Skip(a)
      <2> DEFINE r == With(a, "scan", th[a].i + 1, th[a].changed)
      <2>1. th[a].pc = "scan" /\ th[a].i \in Segs BY <1>3, GoroutineFacts DEF Skip, InScan, At, K
      <2>2. th[a].i + 1 \in 0..N BY <2>1
      <2>3. th' = [th EXCEPT ![a] = r] BY <1>3, <2>2, Updates DEF Skip, Advance
      <2>4. r \in ThSet /\ r.pc = "scan" /\ r.pl = th[a].pl
          BY <1>0, <2>2, WithIn DEF With
      <2> HIDE DEF r
      <2> QED BY <1>0, <1>3, <2>1, <2>3, <2>4, GoroutineFacts, GoOn DEF Skip
  <1> QED BY <1>1, <1>2, <1>3 DEF Ticker

LEMMA ParseStep == ASSUME TInv, NEW a \in Actors, Parse(a) PROVE TInv' /\ (Safe => IInv')
  <1> USE Constants
  <1>1. th[a].pc = "lock" /\ UNCHANGED <<job, proc, serve, published>> /\ UNCHANGED errs
      BY DEF Parse, At
  <1>2. CASE pl.st = "ok"
      <2> DEFINE r == [pc |-> "scan", pl |-> pl, i |-> pl.base, changed |-> FALSE]
      <2>1. th' = [th EXCEPT ![a] = r] /\ lock' = a /\ UNCHANGED <<err, done>> BY <1>2 DEF Parse
      <2>2. r \in ThSet BY DEF TInv, CodeOK, ThSet, PlSet
      <2>3. r.pl.base + r.pl.n <= N /\ r.pc = "scan" BY DEF TInv, Bounds
      <2> HIDE DEF r
      <2> QED BY <1>1, <2>1, <2>2, <2>3, GoroutineFacts, GoOn
  <1>3. CASE pl.st # "ok"
      <2>1. Leave(a, pl.st = "torn" /\ IsFinal(a)) BY <1>3 DEF Parse
      <2>2. UNCHANGED job /\ UNCHANGED <<ff, cnt, pl, bad>> /\ UNCHANGED raw BY <1>1 DEF proc
      <2>3. (pl.st = "torn" /\ IsFinal(a)) \in BOOLEAN OBVIOUS
      <2>4. errs' \in 0..MaxFaults BY <1>1 DEF TInv, CodeOK
      <2> QED BY <1>1, <2>1, <2>2, <2>3, <2>4, LeaveMoves, QuietStep
  <1> QED BY <1>2, <1>3

LEMMA NormalizeStep == ASSUME TInv, NEW a \in Actors, Normalize(a) PROVE TInv' /\ (Safe => IInv')
  <1> USE Constants
  <1> DEFINE r == Rest("out")
  <1>1. r \in ThSet /\ r.pc = "out" /\ r.pl = NoList BY Empties
  <1>2. /\ th[a].pc = "normalize" /\ th' = [th EXCEPT ![a] = r] /\ done' = done \cup {a[1]}
        /\ UNCHANGED <<job, proc, serve, published, lock>>
      BY DEF Normalize, At
  <1>3. ff = "off" /\ IsFinal(a) BY <1>2 DEF TInv, Phases
  <1>4. errs' \in 0..MaxFaults BY DEF Normalize, TInv, CodeOK
  <1>5. err' \in [Jobs -> {"none", "ffmpeg", "publish"}]
      <2>1. \/ err' = err
            \/ err' = [err EXCEPT ![a[1]] = IF @ = "none" THEN "publish" ELSE @]
          BY DEF Normalize
      <2>2. err \in [Jobs -> {"none", "ffmpeg", "publish"}] /\ a[1] \in Jobs
          BY ActorShape DEF TInv, CodeOK
      <2> QED BY <2>1, <2>2
  <1>6. lock' \in {Free} \cup Actors BY <1>2 DEF TInv, CodeOK
  <1> HIDE DEF r
  <1>7. UNCHANGED job /\ UNCHANGED <<ff, cnt, pl, bad>> /\ UNCHANGED raw BY <1>2 DEF proc
  <1>8. Moves(a, r) BY <1>1, <1>2, <1>3, <1>7, Empties DEF Moves
  <1> QED BY <1>1, <1>2, <1>4, <1>5, <1>6, <1>7, <1>8, QuietStep

-----------------------------------------------------------------------------
(* The steps of a pass that write files.                                   *)

LEMMA LastOfIn == ASSUME NEW S \in SUBSET Segs
                  PROVE  IF S = {} THEN LastOf(S) = None ELSE LastOf(S) \in S
  <1> USE Constants
  <1>1. CASE S = {} BY <1>1 DEF LastOf
  <1>2. CASE S # {}
      <2> DEFINE T == {i \in Nat : N - i \in S}
      <2>1. \A k \in S : N - k \in T OBVIOUS
      <2>2. T \subseteq Nat /\ T # {} BY <1>2, <2>1
      <2>3. PICK m \in T : \A i \in T : ~(<<i, m>> \in OpToRel(<, Nat))
          <3> HIDE DEF T
          <3> QED BY <2>2, WFMin, NatLessThanWellFounded
      <2>4. \A i \in T : ~(i < m) BY <2>3, <2>2 DEF OpToRel
      <2>5. N - m \in S /\ m \in Nat OBVIOUS
      <2>6. ASSUME NEW i \in S PROVE i <= N - m
          <3>1. i \in Nat /\ N - i \in T /\ m \in Nat BY <2>1, <2>5
          <3>2. ~(N - i < m) BY <2>4, <3>1
          <3> HIDE DEF T
          <3> QED BY <3>1, <3>2
      <2> HIDE DEF T
      <2>7. \E k \in S : \A i \in S : i <= k BY <2>5, <2>6
      <2> QED BY <1>2, <2>7 DEF LastOf
  <1> QED BY <1>1, <1>2

(* What a pass lists it believes to be published, and so it is.            *)
LEMMA EmittedIn ==
  ASSUME TInv, NEW a \in Actors
  PROVE  Emitted(a) \subseteq Segs /\ Complete(a) \in BOOLEAN
  <1>1. Listed(th[a].pl) \subseteq Segs /\ th[a].pl.end \in BOOLEAN
      BY GoroutineFacts DEF PlSet
  <1> QED BY <1>1 DEF Emitted, Complete

LEMMA EmittedServed ==
  ASSUME IInv, NEW a \in Actors, InPass(a)
  PROVE  \A k \in Emitted(a) : InServeDir(k)
  <1> USE Constants
  <1>1. \A k \in Listed(th[a].pl) : k \in th[a].pl.base..k
      <2>1. th[a].pl.base \in Segs /\ Listed(th[a].pl) \subseteq Segs
          BY GoroutineFacts DEF PlSet, IInv
      <2> QED BY <2>1 DEF Listed
  <1>2. \A k \in Emitted(a) : k \in published[a[1]] BY <1>1 DEF Emitted
  <1> QED BY <1>2, InOrder

(* A pass that fails returns.                                              *)
LEMMA Fails ==
  ASSUME TInv, NEW a \in Actors, Failure(a), th[a].pc \notin {"out", "idle"},
         UNCHANGED job, UNCHANGED <<ff, cnt, pl, bad>>
  PROVE  /\ Left(a) \in ThSet /\ Left(a).pc \in {"normalize", "idle"} /\ Moves(a, Left(a))
         /\ lock' \in {Free} \cup Actors /\ err' \in [Jobs -> {"none", "ffmpeg", "publish"}]
         /\ errs' \in 0..MaxFaults
  <1> USE Constants
  <1>1. errs' \in 0..MaxFaults BY DEF Failure, TInv, CodeOK
  <1> QED BY <1>1, LeaveMoves DEF Failure

(* The scan is at a segment of the playlist.                               *)
LEMMA AtSegment ==
  ASSUME TInv, NEW a \in Actors, th[a].i \in Listed(th[a].pl)
  PROVE  /\ th[a].i \in Segs /\ th[a].i + 1 \in 0..N /\ a[1] \in Jobs
         /\ \A c \in BOOLEAN : With(a, "scan", th[a].i + 1, c) \in ThSet
  <1> USE Constants
  <1>1. th[a].i \in Segs /\ a[1] \in Jobs BY GoroutineFacts, ActorShape
  <1>2. th[a].i + 1 \in 0..N BY <1>1
  <1> QED BY <1>1, <1>2, WithIn

LEMMA AdoptStep == ASSUME TInv, NEW a \in Actors, Adopt(a) PROVE TInv' /\ (Safe => IInv')
  <1> USE Constants
  <1> DEFINE r == With(a, "scan", th[a].i + 1, TRUE)
  <1>1. /\ th[a].pc = "scan" /\ th[a].i \in Listed(th[a].pl) /\ InServeDir(th[a].i)
        /\ UNCHANGED <<job, proc, serve, lock, err, done, errs>>
      BY DEF Adopt, InScan, At, K
  <1>2. /\ th[a].i \in Segs /\ th[a].i + 1 \in 0..N /\ a[1] \in Jobs /\ r \in ThSet
      BY <1>1, AtSegment
  <1>3. /\ th' = [th EXCEPT ![a] = r] /\ published' = [published EXCEPT ![a[1]] = @ \cup {th[a].i}]
      BY <1>2, Updates DEF Adopt, Publish, K
  <1>4. r.pc = "scan" /\ r.pl = th[a].pl BY DEF With
  <1> HIDE DEF r
  <1>5. UNCHANGED job /\ UNCHANGED <<ff, cnt, pl, bad>> /\ UNCHANGED raw BY <1>1 DEF proc
  <1>6. Moves(a, r) BY <1>1, <1>3, <1>4, <1>5, GoroutineFacts DEF Moves
  <1>7. published \in [Jobs -> SUBSET Segs] BY DEF TInv, CodeOK
  <1>8. Typed
      <2>1. published' \in [Jobs -> SUBSET Segs] BY <1>2, <1>3, <1>7
      <2>2. TServe' BY <1>1, FrameTypes, TypeParts DEF TInv
      <2> QED BY <1>1, <1>5, <2>1, <2>2 DEF Typed, TInv, CodeOK
  <1>9. Serves(a, r)
      BY <1>1, <1>2, <1>3, <1>4, <1>7 DEF Serves, Counted, InServeDir, serve
  <1> QED BY <1>2, <1>6, <1>8, <1>9, MoveStep

LEMMA WriteStep == ASSUME TInv, NEW a \in Actors, AlignWrite(a) PROVE TInv' /\ (Safe => IInv')
  <1> USE Constants
  <1>1. /\ th[a].pc = "scan" /\ th[a].i \in Listed(th[a].pl) /\ ~InServeDir(th[a].i)
        /\ UNCHANGED <<job, proc, seg, index, status, published>>
        /\ tmp' \in {tmp, tmp \cup {th[a].i}}
      BY DEF AlignWrite, InScan, At, K
  <1>2. th[a].i \in Segs BY <1>1, AtSegment
  <1>3. UNCHANGED job /\ UNCHANGED <<ff, cnt, pl, bad>> /\ UNCHANGED raw BY <1>1 DEF proc
  <1>4. TServe' /\ \A k \in Segs : InServeDir(k) => InServeDir(k)'
      BY <1>1, <1>2 DEF TInv, CodeOK, TServe, InServeDir
  <1>5. \A r \in ThSet : r.pc # "remove" => Serves(a, r)
      BY <1>1, <1>4 DEF Serves, Counted
  <1>6. lock' \in {Free} \cup Actors /\ err' \in [Jobs -> {"none", "ffmpeg", "publish"}]
        /\ errs' \in 0..MaxFaults => Typed
      BY <1>1, <1>3, <1>4 DEF Typed, TInv, CodeOK
  <1>7. CASE Go(a, "rename") /\ UNCHANGED <<lock, err, done, errs>>
      <2> DEFINE r == With(a, "rename", th[a].i, th[a].changed)
      <2>1. r \in ThSet /\ r.pc = "rename" /\ r.pl = th[a].pl /\ r.i = th[a].i
          BY GoroutineFacts, WithIn DEF With, ThSet
      <2>2. th' = [th EXCEPT ![a] = r] BY <1>7, Updates DEF Go
      <2> HIDE DEF r
      <2>3. Moves(a, r) BY <1>1, <1>3, <1>7, <2>1, <2>2, GoroutineFacts DEF Moves
      <2>4. Typed BY <1>6, <1>7 DEF TInv, CodeOK
      <2> QED BY <1>5, <2>1, <2>3, <2>4, MoveStep
  <1>8. CASE Failure(a) BY <1>1, <1>3, <1>5, <1>6, <1>8, Fails, MoveStep
  <1> QED BY <1>7, <1>8 DEF AlignWrite

LEMMA RenameStep == ASSUME TInv, NEW a \in Actors, AlignRename(a) PROVE TInv' /\ (Safe => IInv')
  <1> USE Constants
  <1>1. th[a].pc = "rename" /\ UNCHANGED <<job, proc, index, status, published>>
      BY DEF AlignRename, At
  <1>2. /\ th[a].i \in Segs /\ th[a].i \in Listed(th[a].pl) /\ a[1] \in Jobs
      BY <1>1, AtSegment DEF TInv, Bounds
  <1>3. UNCHANGED job /\ UNCHANGED <<ff, cnt, pl, bad>> /\ UNCHANGED raw BY <1>1 DEF proc
  <1>4. CASE /\ seg' = [seg EXCEPT ![th[a].i] = start[a[1]]] /\ tmp' = tmp \ {th[a].i}
             /\ Go(a, "remove") /\ UNCHANGED <<lock, err, done, errs>>
      <2> DEFINE r == With(a, "remove", th[a].i, th[a].changed)
      <2>1. r \in ThSet /\ r.pc = "remove" /\ r.pl = th[a].pl /\ r.i = th[a].i
          BY GoroutineFacts, WithIn DEF With, ThSet
      <2>2. th' = [th EXCEPT ![a] = r] BY <1>4, Updates DEF Go
      <2> HIDE DEF r
      <2>3. Moves(a, r) BY <1>1, <1>2, <1>3, <1>4, <2>1, <2>2, GoroutineFacts DEF Moves
      <2>4. start[a[1]] \in 0..MaxGens /\ seg \in [Segs -> {None} \cup 0..MaxGens] /\ tmp \subseteq Segs
          BY <1>2 DEF TInv, CodeOK
      <2>5. TServe' BY <1>1, <1>2, <1>4, <2>4 DEF TServe, TInv, CodeOK
      <2>6. Typed BY <1>1, <1>3, <1>4, <2>5 DEF Typed, TInv, CodeOK
      <2>7. \A k \in Segs : InServeDir(k) \/ k = th[a].i => InServeDir(k)'
          BY <1>2, <1>4, <2>4 DEF InServeDir
      <2>8. \A k \in Segs : seg'[k] \in {seg[k], start[a[1]]} BY <1>2, <1>4, <2>4
      <2>9. seg'[r.i] # None /\ r.i \notin tmp' BY <1>2, <1>4, <2>1, <2>4, Constants
      <2>10. \A k \in Counted' : k \in Counted BY <1>1 DEF Counted
      <2>11. Safe => start[a[1]] = start[gen] BY <1>1, InOrder DEF Safe, InPass
      <2>12. Safe => Serves(a, r) BY <1>1, <2>7, <2>8, <2>9, <2>10, <2>11 DEF Serves
      <2> QED BY <2>1, <2>3, <2>6, <2>12, MoveStep
  <1>5. CASE Leave(a, TRUE) /\ UNCHANGED <<seg, tmp, errs>>
      <2>1. UNCHANGED serve /\ errs' \in 0..MaxFaults /\ UNCHANGED published
          BY <1>1, <1>5 DEF serve, TInv, CodeOK
      <2> QED BY <1>1, <1>3, <1>5, <2>1, LeaveMoves, QuietStep
  <1> QED BY <1>2, <1>4, <1>5 DEF AlignRename, K

LEMMA RemoveStep == ASSUME TInv, NEW a \in Actors, AlignRemove(a) PROVE TInv' /\ (Safe => IInv')
  <1> USE Constants
  <1>1. /\ th[a].pc = "remove" /\ UNCHANGED job /\ UNCHANGED <<ff, cnt, pl, bad>> /\ UNCHANGED serve
      BY DEF AlignRemove, At
  <1>2. /\ th[a].i \in Segs /\ th[a].i \in Listed(th[a].pl) /\ a[1] \in Jobs
        /\ th[a].i + 1 \in 0..N
        /\ Safe => InServeDir(th[a].i)
      BY <1>1, AtSegment DEF TInv, Bounds, Safe, IInv, Published
  <1>3. CASE /\ raw' = [raw EXCEPT ![th[a].i] = "none"] /\ Publish(a)
             /\ UNCHANGED <<lock, err, done, errs>>
      <2> DEFINE r == With(a, "scan", th[a].i + 1, TRUE)
      <2>1. r \in ThSet /\ r.pc = "scan" /\ r.pl = th[a].pl BY <1>2, WithIn DEF With
      <2>2. th' = [th EXCEPT ![a] = r] /\ published' = [published EXCEPT ![a[1]] = @ \cup {th[a].i}]
          BY <1>2, <1>3, Updates DEF Publish, K
      <2> HIDE DEF r
      <2>3. Moves(a, r) BY <1>1, <1>3, <2>1, <2>2, GoroutineFacts DEF Moves
      <2>4. /\ published \in [Jobs -> SUBSET Segs] /\ raw \in [Segs -> {"none", "part", "good", "bad"}]
            /\ lock \in {Free} \cup Actors /\ err \in [Jobs -> {"none", "ffmpeg", "publish"}]
            /\ errs \in 0..MaxFaults
          BY DEF TInv, CodeOK
      <2>5. TServe' BY <1>1, FrameTypes, TypeParts DEF TInv
      <2>6. Typed BY <1>2, <1>3, <2>2, <2>4, <2>5 DEF Typed
      <2>7. Safe => Serves(a, r) BY <1>1, <1>2, <2>1, <2>2, <2>4 DEF Serves, Counted, InServeDir, serve
      <2> QED BY <2>1, <2>3, <2>6, <2>7, MoveStep
  <1>4. CASE Failure(a) /\ UNCHANGED <<raw, published>>
      BY <1>1, <1>4, Fails, QuietStep
  <1>5. CASE Leave(a, TRUE) /\ UNCHANGED <<raw, published, errs>>
      <2>1. errs' \in 0..MaxFaults BY <1>5 DEF TInv, CodeOK
      <2> QED BY <1>1, <1>5, <2>1, LeaveMoves, QuietStep
  <1> QED BY <1>3, <1>4, <1>5 DEF AlignRemove, K

LEMMA ArtifactStep ==
  ASSUME TInv, NEW a \in Actors, NothingNew(a) \/ WriteIndex(a) \/ WriteStatus(a)
  PROVE  TInv' /\ (Safe => IInv')
  <1> USE Constants
  <1>1. /\ th[a].pc \in {"scan", "status"}
        /\ UNCHANGED <<job, proc, seg, tmp, published>>
      BY DEF NothingNew, WriteIndex, WriteStatus, Scanned, At, serve
  <1>2. UNCHANGED job /\ UNCHANGED <<ff, cnt, pl, bad>> /\ UNCHANGED raw BY <1>1 DEF proc
  <1>3. /\ lock \in {Free} \cup Actors /\ err \in [Jobs -> {"none", "ffmpeg", "publish"}]
        /\ errs \in 0..MaxFaults /\ TServe
      BY TypeParts DEF TInv, CodeOK
  <1>4. /\ Emitted(a) \subseteq Segs /\ Complete(a) \in BOOLEAN
        /\ Safe => \A k \in Emitted(a) : InServeDir(k)
      BY <1>1, EmittedIn, EmittedServed DEF Safe, InPass
  <1>5. CASE Failure(a) /\ UNCHANGED serve
      BY <1>1, <1>2, <1>5, Fails, QuietStep
  <1>6. CASE NothingNew(a)
      <2>1. Leave(a, FALSE) /\ UNCHANGED serve /\ errs' \in 0..MaxFaults
          BY <1>3, <1>6 DEF NothingNew
      <2> QED BY <1>1, <1>2, <2>1, LeaveMoves, QuietStep
  <1>7. CASE /\ index' = [segs |-> Emitted(a), end |-> Complete(a)] /\ Go(a, "status")
             /\ UNCHANGED <<lock, err, done, errs, status>>
      <2> DEFINE r == With(a, "status", th[a].i, th[a].changed)
      <2>1. r \in ThSet /\ r.pc = "status" /\ r.pl = th[a].pl
          BY GoroutineFacts, WithIn DEF With, ThSet
      <2>2. th' = [th EXCEPT ![a] = r] BY <1>7, Updates DEF Go
      <2> HIDE DEF r
      <2>3. Moves(a, r) BY <1>1, <1>2, <1>7, <2>1, <2>2, GoroutineFacts DEF Moves
      <2>4. TServe' BY <1>1, <1>3, <1>4, <1>7 DEF TServe
      <2>5. Typed BY <1>1, <1>2, <1>3, <1>7, <2>4 DEF Typed, TInv, CodeOK
      <2>6. Safe => \A k \in Counted' : k \in Counted \/ InServeDir(k)
          BY <1>4, <1>7 DEF Counted
      <2>7. Safe => Serves(a, r) BY <1>1, <2>1, <2>6 DEF Serves, InServeDir
      <2> QED BY <2>1, <2>3, <2>5, <2>7, MoveStep
  <1>8. CASE /\ status' = [last |-> LastOf(Emitted(a)), complete |-> Complete(a)]
             /\ Leave(a, FALSE) /\ UNCHANGED <<errs, index>>
      <2>1. LastOf(Emitted(a)) \in {None} \cup Emitted(a) BY <1>4, LastOfIn
      <2>2. TServe' BY <1>1, <1>3, <1>4, <1>8, <2>1 DEF TServe
      <2>3. /\ Left(a) \in ThSet /\ Left(a).pc # "remove" /\ Moves(a, Left(a))
            /\ lock' \in {Free} \cup Actors /\ err' \in [Jobs -> {"none", "ffmpeg", "publish"}]
          BY <1>1, <1>2, <1>8, LeaveMoves
      <2>4. Typed BY <1>1, <1>2, <1>3, <1>8, <2>2, <2>3 DEF Typed, TInv, CodeOK
      <2>5. Safe => \A k \in Counted' : k \in Counted \/ InServeDir(k)
          BY <1>4, <1>8, <2>1 DEF Counted
      <2>6. Safe => Serves(a, Left(a)) BY <1>1, <2>3, <2>5 DEF Serves, InServeDir
      <2> QED BY <2>3, <2>4, <2>6, MoveStep
  <1> QED BY <1>5, <1>6, <1>7, <1>8 DEF WriteIndex, WriteStatus, serve

-----------------------------------------------------------------------------

LEMMA Stutter == ASSUME TInv, UNCHANGED code PROVE TInv' /\ (Safe => IInv')
  <1>1. TJob' /\ TProc' /\ TServe' /\ TAlign' BY FrameTypes, TypeParts DEF TInv, code
  <1>2. Bounds' /\ Phases'
      BY DEF TInv, Bounds, Phases, Preparing, Listed, IsFinal, code, job, proc, align
  <1>3. ASSUME Safe PROVE Timeline' /\ Published' /\ Served' /\ ~Overtaken'
      BY <1>3 DEF Safe, IInv, Timeline, Published, Served, Counted, Preparing, InServeDir,
                  code, job, proc, serve, align
  <1> QED BY <1>1, <1>2, <1>3, TypeParts DEF TInv, IInv

LEMMA CodeStep == ASSUME TInv, Step \/ UNCHANGED code PROVE TInv' /\ (Safe => IInv')
  <1>1. CASE Host
      BY <1>1, BeginStep, ClearStep, LaunchStep, HostEnds, CrashStep DEF Host
  <1>2. CASE FFmpeg BY <1>2, FFmpegStep
  <1>3. ASSUME NEW a \in Actors, Goroutine(a) \/ Ticker(a) PROVE TInv' /\ (Safe => IInv')
      BY <1>3, LoopStep, ParseStep, NormalizeStep, AdoptStep, WriteStep, RenameStep, RemoveStep,
         ArtifactStep DEF Goroutine, Pass
  <1> QED BY <1>1, <1>2, <1>3, Stutter DEF Step

(* A step of Spec, and when it is one before which no pass was overtaken.  *)
LEMMA NextStep ==
  ASSUME [Next]_vars
  PROVE  /\ Step \/ UNCHANGED code
         /\ stray \in BOOLEAN => stray' \in BOOLEAN
         /\ ~stray' /\ ~Overtaken => ~stray /\ ~Overtaken'
  <1>1. CASE Next BY <1>1 DEF Next
  <1>2. CASE UNCHANGED vars
      <2>1. UNCHANGED code /\ UNCHANGED stray BY <1>2 DEF vars
      <2>2. Overtaken' <=> Overtaken BY <2>1 DEF Overtaken, InPass, code, job, align
      <2> QED BY <2>1, <2>2
  <1> QED BY <1>1, <1>2

(* TInv is inductive; so is IInv, as long as no pass was overtaken.         *)
Ordered == ~stray => IInv

LEMMA Inductive == Spec => []TypeOK /\ []Ordered
  <1> DEFINE AnyState == TInv /\ stray \in BOOLEAN
  <1>1. Init => AnyState /\ Ordered BY InitIInv DEF IInv, Init, Ordered
  <1>2. AnyState /\ [Next]_vars => AnyState' BY NextStep, CodeStep
  <1>3. Ordered /\ [Next]_vars => Ordered'
      <2> SUFFICES ASSUME Ordered, [Next]_vars, ~stray' PROVE IInv'
          BY DEF Ordered
      <2>1. ~stray BY Zenon DEF Next, vars
      <2>2. TInv /\ ~Overtaken /\ IInv BY <2>1 DEF IInv, Ordered
      <2>3. ~Overtaken' BY <2>2, NextStep
      <2> QED BY <2>2, <2>3, NextStep, CodeStep DEF Safe
  <1>4. AnyState => TypeOK BY DEF TInv, TypeOK
  <1> HIDE DEF AnyState
  <1> QED BY <1>1, <1>2, <1>3, <1>4, PTL DEF Spec

(* The phases of host, ffmpeg and passes, and the files on disk, for every  *)
(* number of segments, generations and faults, and whatever runs into what. *)
THEOREM TypeCorrect == Spec => []TypeOK
  BY Inductive, PTL

(* While a job runs, clients find in seg/, whole and on the timeline of this *)
(* job, every segment that index.m3u8 lists and the one job.json counts to:  *)
(* publishContinuousReadySegments and writeContinuousServeArtifacts, however *)
(* passes fail, generations follow one another and the program dies, and     *)
(* with the passes of earlier generations that run into a resume; until a    *)
(* fresh generation meets one (stray).                                      *)
THEOREM ListedIsServed == Spec => []ListedIsServable
  <1>1. Ordered => ListedIsServable
      <2> SUFFICES ASSUME IInv, host = "wait", NEW k \in Segs, k \in index.segs \/ k = status.last
                   PROVE  InServeDir(k) /\ seg[k] = start[gen]
          BY DEF ListedIsServable, Ordered
      <2>1. InServeDir(k) BY DEF IInv, Served, Counted
      <2>2. seg[k] \in {None, start[gen]} BY DEF IInv, Timeline
      <2> QED BY <2>1, <2>2 DEF InServeDir
  <1> QED BY <1>1, Inductive, PTL

-----------------------------------------------------------------------------
(* What was listed stays listed.  One pass at a time: each starts from a    *)
(* playlist that has all that was listed before, and believes to be         *)
(* published all that was; a playlist with an end does not change anymore.  *)

Scanning == {"scan", "rename", "remove", "status"}
Excludes == \A a \in Actors : th[a].pc \in Scanning => lock = a
Cleared  == host = "launch" /\ fresh => index = NoIndex
Grown ==
  host = "wait" /\ fresh =>
    /\ pl.n = cnt /\ (pl.end => ff \in {"end", "off"})
    /\ index.segs \subseteq Listed(pl)
    /\ \A k \in index.segs : pl.base..k \subseteq published[gen]
    /\ index.end => pl.end /\ index.segs = Listed(pl) /\ index.segs # {}
    /\ \A a \in Actors : th[a].pc \in Scanning =>
         /\ th[a].pl.base = pl.base /\ th[a].pl.n <= pl.n
         /\ index.segs \subseteq Listed(th[a].pl)
         /\ th[a].pl.end \/ index.end => th[a].pl = pl

GInv  == IInv /\ Excludes /\ Cleared /\ Grown
Grows == host = "wait" /\ fresh => index.segs \subseteq index'.segs /\ (index.end => index'.end)

(* While a fresh generation is prepared nobody is in a pass.               *)
LEMMA NobodyPasses ==
  ASSUME IInv, Preparing, fresh, NEW a \in Actors
  PROVE  th[a].pc \notin Scanning
  BY InOrder DEF InPass, Scanning

LEMMA GrowHost == ASSUME GInv, Host PROVE Excludes' /\ Cleared' /\ Grown' /\ Grows
  <1> USE Constants
  <1>1. CASE Begin \/ ClearDirs \/ LaunchFails \/ Wait
      <2>1. UNCHANGED <<index, lock, th>> /\ host' # "wait" /\ ~(host' = "launch" /\ fresh')
          BY <1>1 DEF Begin, ClearDirs, LaunchFails, Wait, serve, align
      <2> QED BY <2>1 DEF GInv, Excludes, Cleared, Grown, Grows
  <1>2. CASE ClearFiles
      BY <1>2 DEF ClearFiles, align, GInv, Excludes, Cleared, Grown, Grows
  <1>3. CASE Crash
      <2>1. host' = "idle" /\ index' = index /\ \A a \in Actors : th'[a].pc = "out"
          BY <1>3, Empties DEF Crash, serve
      <2> QED BY <2>1 DEF Excludes, Cleared, Grown, Grows, Scanning
  <1>4. CASE Cancel
      <2>1. UNCHANGED <<host, gen, fresh, ff, cnt, pl, index, published, lock, th>>
          BY <1>4 DEF Cancel, proc, serve, align
      <2> QED BY <2>1 DEF GInv, Excludes, Cleared, Grown, Grows, Listed
  <1>5. CASE Launch
      <2>1. /\ host = "launch" /\ UNCHANGED <<fresh, index, lock>> /\ ff' = "open"
            /\ \A a \in Actors : th'[a].pc = "idle" \/ th'[a] = th[a]
          BY <1>5, Empties DEF Launch, serve
      <2>2. ASSUME fresh PROVE pl'.n = cnt' /\ ~pl'.end
          <3>1. PICK b \in Segs : pl' = [NoList EXCEPT !.base = b] BY <1>5, <2>2 DEF Launch
          <3>2. pl' = [st |-> "none", base |-> b, n |-> 0, end |-> FALSE] BY <3>1 DEF NoList
          <3> QED BY <1>5, <2>2, <3>2 DEF Launch
      <2>3. fresh => index.segs = {} /\ ~index.end BY <2>1 DEF GInv, Cleared, NoIndex
      <2>4. fresh => \A a \in Actors : th'[a].pc \notin Scanning
          BY <2>1, NobodyPasses DEF GInv, Preparing, Scanning
      <2>5. Grown' BY <2>1, <2>2, <2>3, <2>4 DEF Grown
      <2>6. Excludes' BY <2>1 DEF GInv, Excludes, Scanning
      <2> QED BY <1>5, <2>1, <2>5, <2>6 DEF Launch, Cleared, Grows
  <1> QED BY <1>1, <1>2, <1>3, <1>4, <1>5 DEF Host

LEMMA GrowFFmpeg == ASSUME GInv, FFmpeg PROVE Excludes' /\ Cleared' /\ Grown' /\ Grows
  <1> USE Constants
  <1>1. /\ UNCHANGED job /\ UNCHANGED serve /\ UNCHANGED <<published, lock, th, done, errs>>
      BY DEF FFmpeg, FFSteps, FFOpen, FFClose, FFTruncate, FFList, FFExit, FFDie, FFUnchanged
  <1>2. UNCHANGED <<host, gen, fresh, index, published, lock, th>> BY <1>1 DEF job, serve
  <1>3. Excludes' /\ Cleared' /\ Grows BY <1>2 DEF GInv, Excludes, Cleared, Grows
  <1>4. Grown'
      <2> SUFFICES ASSUME host = "wait", fresh PROVE Grown'
          BY <1>2 DEF Grown
      <2>0. pl \in PlSet /\ cnt \in Nat /\ (\A a \in Actors : th[a].pl \in PlSet) /\ pl.base + pl.n <= N
          BY GoroutineFacts DEF GInv, IInv, TInv, CodeOK, Bounds, PlSet
      <2>1. CASE UNCHANGED <<cnt, pl>>
          <3>1. pl.end => ff' \in {"end", "off"}
              BY <2>1 DEF GInv, Grown, FFmpeg, FFSteps, FFOpen, FFClose, FFTruncate, FFList, FFExit, FFDie
          <3> QED BY <1>2, <2>1, <3>1 DEF GInv, Grown, Listed
      <2>2. CASE FFList
          <3>1. PICK e \in BOOLEAN : /\ pl' = [pl EXCEPT !.st = "ok", !.n = cnt + 1, !.end = e]
                                     /\ ff' = IF e THEN "end" ELSE "open"
              BY <2>2 DEF FFList
          <3>2. pl' = [st |-> "ok", base |-> pl.base, n |-> cnt + 1, end |-> e]
              BY <2>0, <3>1 DEF PlSet
          <3>3. ff = "list" /\ cnt' = cnt + 1 BY <2>2 DEF FFList
          <3>4. pl.n = cnt /\ ~pl.end /\ ~index.end BY <3>3 DEF GInv, Grown
          <3>5. Listed(pl) \subseteq Listed(pl)' BY <2>0, <3>2, <3>4 DEF Listed, PlSet
          <3>6. pl'.n = cnt' /\ pl'.base = pl.base /\ (pl'.end => ff' \in {"end", "off"})
              BY <3>1, <3>2, <3>3
          <3>7. \A a \in Actors : th[a].pc \in Scanning =>
                   /\ th[a].pl.base = pl.base /\ th[a].pl.n <= pl.n
                   /\ index.segs \subseteq Listed(th[a].pl)
                   /\ ~th[a].pl.end
              BY <3>4 DEF GInv, Grown
          <3>8. \A a \in Actors : th[a].pl.n <= pl.n => th[a].pl.n <= pl'.n
              BY <2>0, <3>2, <3>4 DEF PlSet
          <3>9. index.segs \subseteq Listed(pl) /\ \A k \in index.segs : pl.base..k \subseteq published[gen]
              BY DEF GInv, Grown
          <3> HIDE DEF GInv
          <3> QED BY <1>2, <3>4, <3>5, <3>6, <3>7, <3>8, <3>9 DEF Grown, Listed
      <2>3. UNCHANGED <<cnt, pl>> \/ FFList
          BY DEF FFmpeg, FFSteps, FFOpen, FFClose, FFTruncate, FFExit, FFDie
      <2> QED BY <2>1, <2>2, <2>3
  <1> QED BY <1>3, <1>4

(* Goroutine a goes to r: into a pass with the lock, on in it, out of it    *)
(* with the lock given back, or somewhere outside; a pass keeps the         *)
(* playlist it has parsed, and index.m3u8 changes in one step of it.        *)
Passes(a, r) ==
  /\ th[a].pc # "out" /\ th' = [th EXCEPT ![a] = r]
  /\ \/ th[a].pc \notin Scanning /\ r.pc \notin Scanning /\ lock' = lock
     \/ th[a].pc \in Scanning /\ r.pc \in Scanning /\ lock' = lock
     \/ th[a].pc \in Scanning /\ r.pc \notin Scanning /\ lock' = Free
     \/ lock = Free /\ lock' = a
  /\ r.pc \in Scanning => r.pl = pl \/ (th[a].pc \in Scanning /\ r.pl = th[a].pl)
  /\ \/ index' = index
     \/ /\ th[a].pc \in Scanning /\ r.pc \in Scanning /\ r.pl = th[a].pl
        /\ index' = [segs |-> Emitted(a), end |-> Complete(a)]
  /\ UNCHANGED job /\ UNCHANGED <<ff, cnt, pl>>
  /\ \A k \in published[gen] : k \in published'[gen]

LEMMA GrowMove ==
  ASSUME GInv, NEW c \in Actors, NEW r \in ThSet, Passes(c, r)
  PROVE  Excludes' /\ Cleared' /\ Grown' /\ Grows
  <1> USE Constants
  <1>1. /\ th[c].pc # "out" /\ UNCHANGED <<host, gen, fresh, ff, cnt, pl>>
        /\ \A k \in published[gen] : k \in published'[gen]
      BY DEF Passes, job
  <1>2. th'[c] = r /\ \A b \in Actors : b # c => th'[b] = th[b]
      <2>1. th \in [Actors -> ThSet] BY TypeParts DEF GInv, IInv, TInv, TAlign
      <2> QED BY <2>1 DEF Passes
  <1>3. /\ Free \notin Actors
        /\ th[c].pc \in Scanning /\ fresh => c[1] = gen /\ ~Preparing
      BY <1>1, ActorShape, InOrder DEF GInv, Free, InPass, Scanning
  <1>4. \A b \in Actors : th[b].pc \in Scanning => lock = b BY DEF GInv, Excludes
  <1>5. Excludes' BY <1>2, <1>3, <1>4 DEF Passes, Excludes
  <1>6. Cleared' BY <1>1, <1>3 DEF GInv, Cleared, Preparing, Passes
  <1>7. ASSUME host = "wait", fresh PROVE Grown' /\ Grows
      <2>1. /\ pl.n = cnt /\ (pl.end => ff \in {"end", "off"})
            /\ index.segs \subseteq Listed(pl)
            /\ \A k \in index.segs : pl.base..k \subseteq published[gen]
            /\ index.end => pl.end /\ index.segs = Listed(pl) /\ index.segs # {}
            /\ \A a \in Actors : th[a].pc \in Scanning =>
                 /\ th[a].pl.base = pl.base /\ th[a].pl.n <= pl.n
                 /\ index.segs \subseteq Listed(th[a].pl)
                 /\ th[a].pl.end \/ index.end => th[a].pl = pl
          BY <1>7 DEF GInv, Grown
      <2>2. pl \in PlSet /\ pl.n \in Nat BY DEF GInv, IInv, TInv, CodeOK, PlSet
      <2>3. CASE index' = index
          <3>1. r.pc \in Scanning => /\ r.pl.base = pl.base /\ r.pl.n <= pl.n
                                     /\ index.segs \subseteq Listed(r.pl)
                                     /\ r.pl.end \/ index.end => r.pl = pl
              BY <2>1, <2>2 DEF Passes
          <3>2. \A k \in index.segs : pl.base..k \subseteq published'[gen] BY <1>1, <2>1
          <3>3. \A a \in Actors : th'[a].pc \in Scanning =>
                 /\ th'[a].pl.base = pl.base /\ th'[a].pl.n <= pl.n
                 /\ index.segs \subseteq Listed(th'[a].pl)
                 /\ th'[a].pl.end \/ index.end => th'[a].pl = pl
              BY <1>2, <2>1, <3>1
          <3> HIDE DEF GInv
          <3> QED BY <1>1, <2>1, <2>3, <3>2, <3>3 DEF Grown, Grows, Listed
      <2>4. CASE /\ th[c].pc \in Scanning /\ r.pc \in Scanning /\ r.pl = th[c].pl
                 /\ index' = [segs |-> Emitted(c), end |-> Complete(c)]
          <3> DEFINE P == th[c].pl
          <3>1. /\ P.base = pl.base /\ P.n <= pl.n /\ index.segs \subseteq Listed(P)
                /\ P.end \/ index.end => P = pl
              BY <2>1, <2>4
          <3>2. P \in PlSet /\ P.n \in Nat /\ P.base \in Nat BY GoroutineFacts DEF GInv, IInv, PlSet
          <3>3. Listed(P) \subseteq Listed(pl) BY <2>2, <3>1, <3>2 DEF Listed, PlSet
          <3>4. /\ \A k \in Emitted(c) : k \in Listed(P) /\ pl.base..k \subseteq published[gen]
                /\ \A k \in Listed(P) : pl.base..k \subseteq published[gen] => k \in Emitted(c)
              BY <1>3, <1>7, <2>4, <3>1 DEF Emitted
          <3>5. index.segs \subseteq Emitted(c) BY <2>1, <3>1, <3>4
          <3>6. Complete(c) => pl.end /\ Emitted(c) = Listed(pl) /\ Emitted(c) # {} /\ P = pl
              BY <3>1 DEF Complete
          <3>7. index.end => Complete(c)
              <4> SUFFICES ASSUME index.end PROVE Complete(c)
                  OBVIOUS
              <4>1. P = pl /\ pl.end /\ index.segs = Listed(pl) /\ index.segs # {} BY <2>1, <3>1
              <4>2. Emitted(c) = Listed(P) BY <3>4, <3>5, <4>1
              <4> QED BY <3>5, <4>1, <4>2 DEF Complete
          <3>8. \A a \in Actors : th'[a].pc \in Scanning => a = c
              BY <1>2, <1>4, <2>4
          <3>9. index'.segs = Emitted(c) /\ index'.end = Complete(c) BY <2>4
          <3>10. Grows BY <3>5, <3>7, <3>9 DEF Grows
          <3>11. \A k \in Emitted(c) : pl.base..k \subseteq published'[gen] BY <1>1, <3>4
          <3>12. \A a \in Actors : th'[a].pc \in Scanning => th'[a].pl = P BY <1>2, <2>4, <3>8
          <3>13. P.end \/ Complete(c) => P = pl BY <3>1, <3>6
          <3>14. Emitted(c) \subseteq Listed(P) /\ Emitted(c) \subseteq Listed(pl) BY <3>3, <3>4
          <3>15. \A a \in Actors : th'[a].pc \in Scanning =>
                 /\ th'[a].pl.base = pl'.base /\ th'[a].pl.n <= pl'.n
                 /\ index'.segs \subseteq Listed(th'[a].pl)
                 /\ th'[a].pl.end \/ index'.end => th'[a].pl = pl'
              <4> HIDE DEF P, GInv
              <4> QED BY <1>1, <3>1, <3>9, <3>12, <3>13, <3>14
          <3> HIDE DEF P, GInv
          <3> QED BY <1>1, <2>1, <3>6, <3>9, <3>10, <3>11, <3>14, <3>15 DEF Grown, Listed
      <2> QED BY <2>3, <2>4 DEF Passes
  <1>8. ~(host = "wait" /\ fresh) => Grown' /\ Grows BY <1>1 DEF Grown, Grows
  <1> QED BY <1>5, <1>6, <1>7, <1>8

(* The pass returns.                                                       *)
LEMMA GrowLeave ==
  ASSUME GInv, NEW a \in Actors, th[a].pc \in Scanning, NEW f \in BOOLEAN, Leave(a, f),
         UNCHANGED job, UNCHANGED <<ff, cnt, pl>>, UNCHANGED <<index, published>>
  PROVE  Excludes' /\ Cleared' /\ Grown' /\ Grows
  <1>1. /\ Left(a) \in ThSet /\ Left(a).pc \in {"normalize", "idle"}
        /\ th' = [th EXCEPT ![a] = Left(a)] /\ lock' = Free
      BY Empties DEF Leave, Left
  <1>2. Passes(a, Left(a)) BY <1>1 DEF Passes, Scanning
  <1> QED BY <1>1, <1>2, GrowMove

(* The pass goes on with the playlist it has.                              *)
LEMMA GrowOn ==
  ASSUME GInv, NEW a \in Actors, NEW p \in Scanning, NEW j \in 0..N, NEW c \in BOOLEAN,
         th[a].pc \in Scanning, th' = [th EXCEPT ![a] = With(a, p, j, c)], lock' = lock,
         UNCHANGED job, UNCHANGED <<ff, cnt, pl>>,
         index' = index \/ index' = [segs |-> Emitted(a), end |-> Complete(a)],
         \A k \in published[gen] : k \in published'[gen]
  PROVE  Excludes' /\ Cleared' /\ Grown' /\ Grows
  <1> DEFINE r == With(a, p, j, c)
  <1>1. r \in ThSet BY WithIn DEF GInv, IInv, Scanning
  <1>2. r.pc = p /\ r.pl = th[a].pl BY DEF With
  <1> HIDE DEF r
  <1>3. Passes(a, r) BY <1>2 DEF Passes, Scanning, r
  <1> QED BY <1>1, <1>3, GrowMove

LEMMA GrowOutside ==
  ASSUME GInv, NEW a \in Actors, Ticker(a) \/ FinalPass(a) \/ Normalize(a) \/ Parse(a)
  PROVE  Excludes' /\ Cleared' /\ Grown' /\ Grows
  <1> USE Constants
  <1>0. TInv BY DEF GInv, IInv
  <1>1. /\ UNCHANGED job /\ UNCHANGED <<ff, cnt, pl>> /\ UNCHANGED <<index, published>>
      BY DEF Ticker, Tick, TickReturn, FinalPass, Normalize, Parse, proc, serve
  <1>2. th[a].changed \in BOOLEAN /\ th[a].i \in 0..N BY <1>0, GoroutineFacts DEF ThSet
  <1>3. CASE Tick(a) \/ FinalPass(a)
      <2> DEFINE r == With(a, "lock", th[a].i, th[a].changed)
      <2>1. r \in ThSet /\ r.pc = "lock" BY <1>0, <1>2, WithIn DEF With
      <2>2. th[a].pc = "idle" /\ th' = [th EXCEPT ![a] = r] /\ lock' = lock
          BY <1>0, <1>3, Updates DEF Tick, FinalPass, At, Go
      <2> HIDE DEF r
      <2>3. Passes(a, r) BY <1>1, <2>1, <2>2 DEF Passes, Scanning
      <2> QED BY <2>1, <2>3, GrowMove
  <1>4. CASE TickReturn(a) \/ Normalize(a)
      <2>1. /\ th[a].pc \in {"idle", "normalize"} /\ th' = [th EXCEPT ![a] = Rest("out")] /\ lock' = lock
          BY <1>4 DEF TickReturn, Normalize, At
      <2>2. Rest("out") \in ThSet /\ Rest("out").pc = "out" BY Empties
      <2>3. Passes(a, Rest("out")) BY <1>1, <2>1, <2>2 DEF Passes, Scanning
      <2> QED BY <2>2, <2>3, GrowMove
  <1>5. CASE Parse(a)
      <2>1. th[a].pc = "lock" /\ lock = Free BY <1>5 DEF Parse, At
      <2>2. CASE pl.st = "ok"
          <3> DEFINE r == [pc |-> "scan", pl |-> pl, i |-> pl.base, changed |-> FALSE]
          <3>1. th' = [th EXCEPT ![a] = r] /\ lock' = a BY <1>5, <2>2 DEF Parse
          <3>2. r \in ThSet /\ r.pc = "scan" /\ r.pl = pl BY <1>0 DEF TInv, CodeOK, ThSet, PlSet
          <3> HIDE DEF r
          <3>3. Passes(a, r) BY <1>1, <2>1, <3>1, <3>2 DEF Passes, Scanning
          <3> QED BY <3>2, <3>3, GrowMove
      <2>3. CASE pl.st # "ok"
          <3>1. /\ th' = [th EXCEPT ![a] = Left(a)] /\ lock' = lock
                /\ Left(a) \in ThSet /\ Left(a).pc \in {"normalize", "idle"}
              BY <1>5, <2>1, <2>3, Empties DEF Parse, Leave, Left
          <3>2. Passes(a, Left(a)) BY <1>1, <2>1, <3>1 DEF Passes, Scanning
          <3> QED BY <3>1, <3>2, GrowMove
      <2> QED BY <2>2, <2>3
  <1> QED BY <1>3, <1>4, <1>5 DEF Ticker

LEMMA GrowPass ==
  ASSUME GInv, NEW a \in Actors,
         \/ Skip(a) \/ Adopt(a) \/ AlignWrite(a) \/ AlignRename(a) \/ AlignRemove(a)
         \/ NothingNew(a) \/ WriteIndex(a) \/ WriteStatus(a)
  PROVE  Excludes' /\ Cleared' /\ Grown' /\ Grows
  <1> USE Constants
  <1>0. TInv BY DEF GInv, IInv
  <1>1. /\ th[a].pc \in Scanning /\ UNCHANGED job /\ UNCHANGED <<ff, cnt, pl>>
      BY DEF Skip, Adopt, AlignWrite, AlignRename, AlignRemove, NothingNew, WriteIndex,
             WriteStatus, InScan, Scanned, At, Scanning, proc
  <1>2. th[a].changed \in BOOLEAN /\ th[a].i \in 0..N BY <1>0, GoroutineFacts DEF ThSet
  <1>3. a[1] \in Jobs BY ActorShape
  <1>4. published \in [Jobs -> SUBSET Segs] BY <1>0 DEF TInv, CodeOK
  <1>5. ASSUME th[a].i \in Listed(th[a].pl) PROVE th[a].i + 1 \in 0..N
      BY <1>0, <1>5, AtSegment
  <1>6. CASE Failure(a) /\ UNCHANGED <<index, published>>
      BY <1>1, <1>6, GrowLeave DEF Failure, Scanning
  <1>7. CASE \E f \in BOOLEAN : Leave(a, f) /\ UNCHANGED <<index, published>>
      BY <1>1, <1>7, GrowLeave DEF Scanning
  <1>8. ASSUME NEW p \in Scanning, Go(a, p), lock' = lock, UNCHANGED published,
               index' = index \/ index' = [segs |-> Emitted(a), end |-> Complete(a)]
        PROVE  Excludes' /\ Cleared' /\ Grown' /\ Grows
      <2>1. th' = [th EXCEPT ![a] = With(a, p, th[a].i, th[a].changed)]
          BY <1>0, <1>8, Updates DEF Go
      <2> QED BY <1>1, <1>2, <1>8, <2>1, GrowOn
  <1>9. CASE Skip(a)
      <2>1. /\ th' = [th EXCEPT ![a] = With(a, "scan", th[a].i + 1, th[a].changed)]
            /\ th[a].i + 1 \in 0..N /\ lock' = lock /\ UNCHANGED <<index, published>>
          BY <1>0, <1>5, <1>9, Updates DEF Skip, Advance, InScan, K, serve
      <2> QED BY <1>1, <1>2, <2>1, GrowOn DEF Scanning
  <1>10. ASSUME Publish(a), th[a].i \in Listed(th[a].pl), lock' = lock, index' = index
         PROVE  Excludes' /\ Cleared' /\ Grown' /\ Grows
      <2>1. /\ th' = [th EXCEPT ![a] = With(a, "scan", th[a].i + 1, TRUE)] /\ th[a].i + 1 \in 0..N
            /\ published' = [published EXCEPT ![a[1]] = @ \cup {th[a].i}]
          BY <1>0, <1>3, <1>5, <1>10, Updates DEF Publish, K
      <2>2. \A k \in published[gen] : k \in published'[gen] BY <1>3, <1>4, <2>1
      <2> QED BY <1>1, <1>10, <2>1, <2>2, GrowOn DEF Scanning
  <1>11. CASE Adopt(a)
      BY <1>10, <1>11 DEF Adopt, InScan, K, serve
  <1>12. CASE AlignWrite(a)
      BY <1>6, <1>8, <1>12 DEF AlignWrite, Scanning, serve
  <1>13. CASE AlignRename(a)
      BY <1>7, <1>8, <1>13 DEF AlignRename, Scanning
  <1>14. CASE AlignRemove(a)
      <2>1. th[a].i \in Listed(th[a].pl) /\ index' = index
          BY <1>0, <1>14 DEF AlignRemove, At, TInv, Bounds, serve
      <2> QED BY <1>6, <1>7, <1>10, <1>14, <2>1 DEF AlignRemove
  <1>15. CASE NothingNew(a) BY <1>7, <1>15 DEF NothingNew, serve
  <1>16. CASE WriteIndex(a) BY <1>6, <1>8, <1>16 DEF WriteIndex, Scanning
  <1>17. CASE WriteStatus(a) BY <1>6, <1>7, <1>17 DEF WriteStatus
  <1> QED BY <1>9, <1>11, <1>12, <1>13, <1>14, <1>15, <1>16, <1>17

LEMMA GrowStep ==
  ASSUME GInv, Step \/ UNCHANGED code
  PROVE  Excludes' /\ Cleared' /\ Grown' /\ Grows
  <1>1. CASE UNCHANGED code
      <2>1. UNCHANGED <<host, gen, fresh, ff, cnt, pl, index, published, lock, th>>
          BY <1>1 DEF code, job, proc, serve, align
      <2> QED BY <2>1 DEF GInv, Excludes, Cleared, Grown, Grows, Listed
  <1>2. ASSUME NEW a \in Actors, Goroutine(a) \/ Ticker(a)
        PROVE  Excludes' /\ Cleared' /\ Grown' /\ Grows
      BY <1>2, GrowOutside, GrowPass DEF Goroutine, Pass
  <1> QED BY <1>1, <1>2, GrowHost, GrowFFmpeg DEF Step

ListingKept ==
  host = "wait" /\ fresh /\ ~stray' => /\ index.segs \subseteq index'.segs
                                       /\ index.end => index'.end

Growing == ~stray => Excludes /\ Cleared /\ Grown

(* A step before and after which no pass was overtaken.                    *)
LEMMA CalmStep ==
  ASSUME Ordered, Growing, [Next]_vars, ~stray'
  PROVE  ~stray /\ GInv /\ Safe /\ (Step \/ UNCHANGED code)
  <1>1. ~stray BY Zenon DEF Next, vars
  <1>2. GInv /\ IInv BY <1>1 DEF Ordered, Growing, GInv
  <1>3. ~Overtaken' /\ (Step \/ UNCHANGED code) BY <1>2, NextStep DEF IInv
  <1> QED BY <1>1, <1>2, <1>3 DEF Safe

LEMMA GrownInductive == Spec => []Growing
  <1>1. Init => Growing
      <2> SUFFICES ASSUME Init PROVE Excludes /\ Cleared /\ Grown
          BY DEF Growing
      <2>1. \A a \in Actors : th[a].pc = "out" BY Empties DEF Init
      <2> QED BY <2>1 DEF Init, Excludes, Cleared, Grown, Scanning
  <1>2. Ordered /\ Growing /\ [Next]_vars => Growing'
      <2> SUFFICES ASSUME Ordered, Growing, [Next]_vars, ~stray'
                   PROVE  Excludes' /\ Cleared' /\ Grown'
          BY DEF Growing
      <2> QED BY CalmStep, GrowStep
  <1> QED BY <1>1, <1>2, Inductive, PTL DEF Spec

(* What clients were told stays true while a job that started with temp_file *)
(* runs: neither a segment nor the end of the stream leaves index.m3u8,      *)
(* because continuousAlignLocks orders the passes of tick and final          *)
(* goroutine and each parses the playlist anew; until the job meets a pass   *)
(* of an earlier one (stray), which would list what it has read before.     *)
THEOREM ListedStaysListed == Spec => OnlyGrows
  <1>1. Ordered /\ Growing /\ [Next]_vars => [ListingKept]_vars
      <2> SUFFICES ASSUME Ordered, Growing, [Next]_vars PROVE ListingKept
          OBVIOUS
      <2>1. ~stray' => Grows BY CalmStep, GrowStep
      <2> QED BY <2>1 DEF Grows, ListingKept
  <1>2. Spec => [][ListingKept]_vars BY <1>1, Inductive, GrownInductive, PTL DEF Spec
  <1> QED BY <1>2 DEF OnlyGrows, ListingKept

-----------------------------------------------------------------------------
(* What job.json tells is true.  A pass writes it after index.m3u8 and from *)
(* the same map; what the final pass has gone past is published or nobody   *)
(* can parse it, and ffmpeg, which is gone by then, adds nothing to that:   *)
(* passes that come after it, of this generation or an earlier one that it  *)
(* resumes, write down the same.                                           *)

Final == <<gen, "final">>
SkippableBy(j, k) == k \in published[j] \/ (~InServeDir(k) /\ raw[k] # "good")
Clean    == pl.st = "ok" /\ (err[gen] = "none" \/ errs = 0)
Finished == gen \in done \/ th[Final].pc = "normalize"

Ended       == pl.end => pl.n > 0
NoStatusYet == host = "launch" /\ fresh => status = NoStatus
Written ==
  \A a \in Actors : th[a].pc = "status" =>
    index.segs = Emitted(a) /\ index.end = Complete(a)
Follows ==
  host = "wait" /\ fresh =>
    /\ status.last \in index.segs \cup {None, Missing}
    /\ status.complete => index.end

(* A pass, at segment i of the playlist that ffmpeg left.                  *)
Covers(a) ==
  /\ th[a].pl = pl /\ th[a].i >= pl.base
  /\ \A k \in Listed(pl) : k < th[a].i => SkippableBy(a[1], k)
  /\ th[a].pc = "status" => th[a].i \notin Listed(pl)

ScanSound ==
  /\ Covers(Final) /\ pl.st = "ok"
  /\ th[Final].pc \in {"rename", "remove"} => raw[th[Final].i] = "good"
  /\ th[Final].pc = "rename" => th[Final].i \in tmp
FinalScan ==
  host = "wait" => /\ gen \in done => th[Final].pc = "out"
                   /\ th[Final].pc \in Scanning => ScanSound

AllTold ==
  /\ index.segs = Whole /\ index.end = (pl.end /\ Whole = Listed(pl))
  /\ status.last = LastOf(Whole) /\ status.complete = index.end
  /\ \A k \in Listed(pl) : SkippableBy(gen, k)
  /\ \A a \in Actors : th[a].pc \in Scanning =>
       th[a].pc \in {"scan", "status"} /\ Covers(a)
Told == host = "wait" /\ Finished /\ Clean => AllTold

TellInv == Ended /\ NoStatusYet /\ Written /\ Follows /\ FinalScan /\ Told

LEMMA TellInit == Init => TellInv
  <1> SUFFICES ASSUME Init PROVE TellInv
      OBVIOUS
  <1>1. host = "idle" /\ ~pl.end BY DEF Init, NoList
  <1>2. \A a \in Actors : th[a].pc = "out" BY Empties DEF Init
  <1> QED BY <1>1, <1>2 DEF TellInv, Ended, NoStatusYet, Written, Follows, FinalScan, Told

LEMMA TellStutter ==
  ASSUME TellInv,
         UNCHANGED <<host, gen, fresh, pl, raw, seg, tmp, index, status, published, th, err, errs, done>>
  PROVE  TellInv'
  <1>1. Ended' /\ NoStatusYet' /\ Follows' BY DEF TellInv, Ended, NoStatusYet, Follows
  <1>2. Written' BY DEF TellInv, Written, Emitted, Complete, Listed
  <1>3. /\ \A j, k : SkippableBy(j, k)' <=> SkippableBy(j, k)
        /\ Final' = Final /\ Listed(pl)' = Listed(pl)
        /\ \A k : InServeDir(k)' <=> InServeDir(k)
      BY DEF SkippableBy, Final, Listed, InServeDir
  <1>4. \A a : Covers(a) => Covers(a)' BY <1>3 DEF Covers
  <1>5. FinalScan' BY <1>3, <1>4 DEF TellInv, FinalScan, ScanSound
  <1>6. Whole' = Whole BY <1>3 DEF Whole, Listed
  <1>7. AllTold => AllTold' BY <1>3, <1>4, <1>6 DEF AllTold
  <1>8. Told' BY <1>3, <1>7 DEF TellInv, Told, Finished, Clean
  <1> QED BY <1>1, <1>2, <1>5, <1>8 DEF TellInv

LEMMA TellHost == ASSUME GInv, TellInv, Host PROVE TellInv'
  <1> USE Constants
  <1>0. TInv BY DEF GInv, IInv
  <1>1. ASSUME host' # "wait", host' = "launch" /\ fresh' => status' = NoStatus, Ended', Written'
        PROVE  TellInv'
      BY <1>1 DEF TellInv, NoStatusYet, Follows, FinalScan, Told
  <1>2. ASSUME UNCHANGED <<index, published, th>> PROVE Written'
      BY <1>2 DEF TellInv, Written, Emitted, Complete, Listed
  <1>3. CASE Begin \/ ClearDirs \/ LaunchFails \/ Wait
      <2>1. host' # "wait" /\ ~(host' = "launch" /\ fresh') /\ pl' = pl
          BY <1>3 DEF Begin, ClearDirs, LaunchFails, Wait, proc
      <2>2. UNCHANGED <<index, published, th>>
          BY <1>3 DEF Begin, ClearDirs, LaunchFails, Wait, serve, align
      <2> QED BY <1>1, <1>2, <2>1, <2>2 DEF TellInv, Ended
  <1>4. CASE Crash
      <2>1. host' = "idle" /\ pl' = pl /\ \A a \in Actors : th'[a].pc = "out"
          BY <1>4, Empties DEF Crash
      <2> QED BY <1>1, <2>1 DEF TellInv, Ended, Written
  <1>5. CASE ClearFiles
      <2>1. host = "clearFiles" /\ th' = th BY <1>5 DEF ClearFiles, align
      <2>2. fresh BY <1>0, <2>1 DEF TInv, Phases
      <2>3. \A a \in Actors : th[a].pc \notin Scanning
          BY <2>1, <2>2, NobodyPasses DEF GInv, Preparing
      <2>4. Written' BY <2>1, <2>3 DEF Written, Scanning
      <2> QED BY <1>1, <1>5, <2>4 DEF ClearFiles, NoList, Ended
  <1>6. CASE Cancel
      <2>1. UNCHANGED <<host, gen, fresh, pl, raw, seg, tmp, index, status, published, th, err, errs, done>>
          BY <1>6 DEF Cancel, proc, serve, align
      <2> QED BY <2>1, TellStutter
  <1>7. CASE Launch
      <2>1. /\ host = "launch" /\ host' = "wait" /\ UNCHANGED <<gen, fresh, index, status, published, done>>
            /\ gen \notin done /\ gen \in Jobs
          BY <1>0, <1>7 DEF Launch, serve, TInv, Phases, Preparing
      <2>2. Ended'
          <3>1. CASE fresh
              <4>1. PICK b \in Segs : pl' = [NoList EXCEPT !.base = b] BY <1>7, <3>1 DEF Launch
              <4> QED BY <4>1 DEF NoList, Ended
          <3>2. CASE ~fresh BY <1>7, <3>2 DEF Launch, TellInv, Ended
          <3> QED BY <3>1, <3>2
      <2>3. Follows'
          BY <2>1 DEF TellInv, NoStatusYet, Follows, NoStatus
      <2>4. Final \in Actors /\ Final[1] = gen BY <2>1, ActorShape DEF Final
      <2>5. /\ th'[Final].pc = "idle"
            /\ \A a \in Actors : th'[a].pc = "idle" \/ th'[a] = th[a]
          BY <1>7, <2>4, Empties DEF Launch
      <2>6. FinalScan' /\ Told' BY <2>1, <2>5 DEF FinalScan, Told, Finished, Final, Scanning
      <2>7. NoStatusYet' BY <2>1 DEF NoStatusYet
      <2>8. Written'
          <3> SUFFICES ASSUME NEW a \in Actors, th'[a].pc = "status"
                       PROVE  index'.segs = Emitted(a)' /\ index'.end = Complete(a)'
              BY DEF Written
          <3>1. th'[a] = th[a] /\ th[a].pc = "status" BY <2>5
          <3> QED BY <2>1, <3>1 DEF TellInv, Written, Emitted, Complete, Listed
      <2> QED BY <2>2, <2>3, <2>6, <2>7, <2>8 DEF TellInv
  <1> QED BY <1>3, <1>4, <1>5, <1>6, <1>7 DEF Host

LEMMA TellFFmpeg == ASSUME GInv, TellInv, FFmpeg PROVE TellInv'
  <1> USE Constants
  <1>0. TInv BY DEF GInv, IInv
  <1>1. /\ ff # "off" /\ UNCHANGED job /\ UNCHANGED serve /\ UNCHANGED <<published, lock, th, done, errs>>
      BY DEF FFmpeg, FFSteps, FFOpen, FFClose, FFTruncate, FFList, FFExit, FFDie, FFUnchanged
  <1>2. UNCHANGED <<host, gen, fresh, index, status, published, th, done>> BY <1>1 DEF job, serve
  <1>3. NoStatusYet' /\ Written' /\ Follows'
      BY <1>2 DEF TellInv, NoStatusYet, Written, Follows, Emitted, Complete, Listed
  <1>4. Ended'
      <2>0. pl \in PlSet /\ cnt \in Nat BY <1>0 DEF TInv, CodeOK, PlSet
      <2>1. CASE pl' = pl BY <2>1 DEF TellInv, Ended
      <2>2. CASE FFTruncate
          <3>1. PICK n \in 0..cnt, t \in {"ok", "torn"} :
                  pl' = [pl EXCEPT !.st = t, !.n = n, !.end = FALSE]
              BY <2>2 DEF FFTruncate
          <3> QED BY <2>0, <3>1 DEF PlSet, Ended
      <2>3. CASE FFList
          <3>1. PICK e \in BOOLEAN : pl' = [pl EXCEPT !.st = "ok", !.n = cnt + 1, !.end = e]
              BY <2>3 DEF FFList
          <3> QED BY <2>0, <3>1 DEF PlSet, Ended
      <2> QED BY <2>1, <2>2, <2>3 DEF FFmpeg, FFSteps, FFOpen, FFClose, FFExit, FFDie
  <1>5. FinalScan' /\ Told'
      <2> SUFFICES ASSUME host = "wait" PROVE FinalScan' /\ Told'
          BY <1>2 DEF FinalScan, Told
      <2>1. Final \in Actors /\ IsFinal(Final)
          BY <1>0, ActorShape DEF TInv, Phases, Final, IsFinal
      <2>2. th[Final].pc \in {"idle", "out"} /\ gen \notin done
          BY <1>0, <1>1, <2>1 DEF TInv, Phases
      <2> QED BY <1>2, <2>2 DEF FinalScan, Told, Finished, Final, Scanning
  <1> QED BY <1>3, <1>4, <1>5 DEF TellInv

-----------------------------------------------------------------------------
(* What the steps of goroutine a do to th.                                 *)

Others(a) == \A b \in Actors : b # a => th'[b] = th[b]
Keeps(a)  == th'[a].pl = th[a].pl /\ Others(a)

LEMMA GoEffect ==
  ASSUME TInv, NEW a \in Actors, NEW p, Go(a, p)
  PROVE  th'[a].pc = p /\ th'[a].i = th[a].i /\ Keeps(a)
  <1>1. th' = [th EXCEPT ![a] = With(a, p, th[a].i, th[a].changed)] BY Updates DEF Go
  <1>2. th \in [Actors -> ThSet] BY TypeParts DEF TInv, TAlign
  <1> QED BY <1>1, <1>2 DEF With, Keeps, Others

LEMMA LeaveEffect ==
  ASSUME TInv, NEW a \in Actors, NEW f, Leave(a, f)
  PROVE  /\ th'[a].pc = (IF IsFinal(a) THEN "normalize" ELSE "idle") /\ Others(a)
         /\ lock' = Free /\ done' = done
         /\ ~IsFinal(a) => err' = err
         /\ IsFinal(a) /\ f => err'[a[1]] # "none"
  <1>1. th' = [th EXCEPT ![a] = Left(a)] /\ lock' = Free /\ done' = done BY DEF Leave, Left
  <1>2. th \in [Actors -> ThSet] BY TypeParts DEF TInv, TAlign
  <1>3. Left(a).pc = (IF IsFinal(a) THEN "normalize" ELSE "idle") BY Empties DEF Left
  <1>4. ~IsFinal(a) => err' = err BY DEF Leave
  <1>5. IsFinal(a) /\ f => err'[a[1]] # "none"
      <2>1. err \in [Jobs -> {"none", "ffmpeg", "publish"}] /\ a[1] \in Jobs
          BY ActorShape DEF TInv, CodeOK
      <2> QED BY <2>1 DEF Leave
  <1> QED BY <1>1, <1>2, <1>3, <1>4, <1>5 DEF Others

LEMMA ScanEffect ==
  ASSUME TInv, NEW a \in Actors, th[a].i \in Listed(th[a].pl)
  PROVE  /\ Advance(a) \/ Publish(a) => th'[a].pc = "scan" /\ th'[a].i = th[a].i + 1 /\ Keeps(a)
         /\ Publish(a) => /\ published' = [published EXCEPT ![a[1]] = @ \cup {th[a].i}]
                          /\ published'[a[1]] = published[a[1]] \cup {th[a].i}
                          /\ \A j \in Jobs : published[j] \subseteq published'[j]
  <1>1. th \in [Actors -> ThSet] /\ published \in [Jobs -> SUBSET Segs]
      BY TypeParts DEF TInv, TAlign
  <1>2. th[a].i + 1 \in 0..N /\ a[1] \in Jobs BY AtSegment
  <1>3. Advance(a) => th' = [th EXCEPT ![a] = With(a, "scan", th[a].i + 1, th[a].changed)]
      BY <1>2, Updates DEF Advance
  <1>4. Publish(a) => /\ th' = [th EXCEPT ![a] = With(a, "scan", th[a].i + 1, TRUE)]
                      /\ published' = [published EXCEPT ![a[1]] = @ \cup {th[a].i}]
      BY <1>2, Updates DEF Publish, K
  <1> QED BY <1>1, <1>2, <1>3, <1>4 DEF With, Keeps, Others

(* The lock: while a is in a pass nobody else is.                          *)
LEMMA Alone ==
  ASSUME GInv, NEW a \in Actors, NEW b \in Actors, th[a].pc \in Scanning, th[b].pc \in Scanning
  PROVE  a = b
  BY DEF GInv, Excludes

(* Of the final goroutines only that of the last generation is still there. *)
LEMMA TwoActors ==
  ASSUME TInv, NEW a \in Actors, th[a].pc # "out"
  PROVE  /\ gen \in Jobs /\ Final \in Actors /\ IsFinal(Final) /\ Final[1] = gen
         /\ IsFinal(a) <=> a = Final
  <1>1. gen \in Jobs /\ (IsFinal(a) => a[1] = gen) BY GoroutineFacts
  <1>2. a[2] \in {"tick", "final"} /\ a = <<a[1], a[2]>> BY ActorShape
  <1> QED BY <1>1, <1>2, ActorShape DEF Final, IsFinal

(* All but FinalScan and Told: a step that neither enters nor leaves the    *)
(* artifacts, or writes one of them.                                       *)
LEMMA TellFiles ==
  ASSUME GInv, TellInv, Grows, NEW a \in Actors, Others(a), UNCHANGED <<host, gen, fresh, pl>>,
         \/ UNCHANGED <<index, status>> /\ th'[a].pc # "status"
            /\ (published' = published \/ th[a].pc \in Scanning)
         \/ /\ th[a].pc = "scan" /\ th'[a].pl = th[a].pl
            /\ index' = [segs |-> Emitted(a), end |-> Complete(a)] /\ UNCHANGED <<status, published>>
         \/ /\ th[a].pc = "status" /\ th'[a].pc # "status" /\ UNCHANGED <<index, published>>
            /\ status' = [last |-> LastOf(Emitted(a)), complete |-> Complete(a)]
  PROVE  Ended' /\ NoStatusYet' /\ Written' /\ Follows'
  <1> USE Constants
  <1>a. TInv /\ IInv BY DEF GInv, IInv
  <1>0. Ended' BY DEF TellInv, Ended
  <1>1. NoStatusYet'
      <2> SUFFICES ASSUME host = "launch", fresh PROVE status' = NoStatus
          BY DEF NoStatusYet
      <2>1. th[a].pc \notin Scanning BY <1>a, NobodyPasses DEF Preparing
      <2> QED BY <2>1 DEF TellInv, NoStatusYet, Scanning
  <1>2. Written'
      <2> SUFFICES ASSUME NEW b \in Actors, th'[b].pc = "status"
                   PROVE  index'.segs = Emitted(b)' /\ index'.end = Complete(b)'
          BY DEF Written
      <2>1. \A c \in Actors : th'[c].pl = th[c].pl /\ published' = published
              => Emitted(c)' = Emitted(c) /\ Complete(c)' = Complete(c)
          BY DEF Emitted, Complete, Listed
      <2>2. CASE b = a
          <3>1. /\ th'[a].pl = th[a].pl /\ published' = published
                /\ index' = [segs |-> Emitted(a), end |-> Complete(a)]
              BY <2>2
          <3> QED BY <2>1, <2>2, <3>1
      <2>3. CASE b # a
          <3>1. th'[b] = th[b] /\ th[b].pc = "status" BY <2>3 DEF Others
          <3>2. th[a].pc \notin Scanning BY <2>3, <3>1, Alone DEF Scanning
          <3>3. UNCHANGED <<index, published>> BY <3>2 DEF Scanning
          <3> QED BY <2>1, <3>1, <3>3 DEF TellInv, Written
      <2> QED BY <2>2, <2>3
  <1>3. Follows'
      <2> SUFFICES ASSUME host = "wait", fresh
                   PROVE  /\ status'.last \in index'.segs \cup {None, Missing}
                          /\ status'.complete => index'.end
          BY DEF Follows
      <2>1. CASE status' = status BY <2>1 DEF TellInv, Follows, Grows
      <2>2. CASE /\ th[a].pc = "status" /\ UNCHANGED index
                 /\ status' = [last |-> LastOf(Emitted(a)), complete |-> Complete(a)]
          <3>1. index.segs = Emitted(a) /\ index.end = Complete(a)
              BY <2>2 DEF TellInv, Written
          <3>2. LastOf(Emitted(a)) \in Emitted(a) \cup {None}
              BY <1>a, EmittedIn, LastOfIn
          <3> QED BY <2>2, <3>1, <3>2
      <2> QED BY <2>1, <2>2
  <1> QED BY <1>0, <1>1, <1>2, <1>3

(* Where every segment of the list is published or cannot be, the prefix    *)
(* that is published is the one that could be.                             *)
LEMMA PrefixIsWhole ==
  ASSUME TInv, NEW j, \A k \in published[j] : InServeDir(k),
         \A k \in Listed(pl) : SkippableBy(j, k)
  PROVE  {k \in Listed(pl) : pl.base..k \subseteq published[j]} = Whole
  <1> USE Constants
  <1>1. pl.base \in Nat /\ pl.n \in Nat BY DEF TInv, CodeOK, PlSet
  <1>3. ASSUME NEW k \in Listed(pl)
        PROVE  pl.base..k \subseteq Listed(pl)
      BY <1>1 DEF Listed
  <1>4. ASSUME NEW k \in Listed(pl), pl.base..k \subseteq published[j]
        PROVE  k \in Whole
      BY <1>4 DEF Whole
  <1>5. ASSUME NEW k \in Whole
        PROVE  pl.base..k \subseteq published[j]
      <2> SUFFICES ASSUME NEW i \in pl.base..k PROVE i \in published[j]
          OBVIOUS
      <2>1. i \in Listed(pl) /\ (InServeDir(i) \/ raw[i] = "good") BY <1>3, <1>5 DEF Whole
      <2> QED BY <2>1 DEF SkippableBy
  <1> QED BY <1>4, <1>5 DEF Whole

(* What a pass that has gone through the list then writes down.             *)
LEMMA Emits ==
  ASSUME IInv, Ended, NEW a \in Actors, InPass(a), Covers(a), th[a].i \notin Listed(pl)
  PROVE  /\ \A k \in Listed(pl) : SkippableBy(a[1], k)
         /\ Emitted(a) = Whole /\ Complete(a) = (pl.end /\ Whole = Listed(pl))
  <1> USE Constants
  <1>0. TInv /\ th[a].pl = pl BY DEF IInv, Covers
  <1>1. pl.base \in Nat /\ pl.n \in Nat /\ pl.end \in BOOLEAN BY <1>0 DEF TInv, CodeOK, PlSet
  <1>2. \A k \in Listed(pl) : SkippableBy(a[1], k)
      <2>1. PICK i \in Nat : i = th[a].i BY <1>0, GoroutineFacts
      <2>2. i >= pl.base /\ i \notin Listed(pl) BY <2>1 DEF Covers
      <2>3. \A k \in Listed(pl) : k < i BY <1>1, <2>1, <2>2 DEF Listed
      <2> QED BY <2>1, <2>3 DEF Covers
  <1>3. Emitted(a) = {k \in Listed(pl) : pl.base..k \subseteq published[a[1]]}
      BY <1>0 DEF Emitted
  <1>4. \A k \in published[a[1]] : InServeDir(k) BY InOrder
  <1>5. Emitted(a) = Whole BY <1>0, <1>2, <1>3, <1>4, PrefixIsWhole
  <1>6. pl.end => pl.base \in Listed(pl) BY <1>1 DEF Ended, Listed
  <1>7. Complete(a) <=> pl.end /\ Whole = Listed(pl) BY <1>0, <1>5, <1>6 DEF Complete
  <1>8. Complete(a) \in BOOLEAN BY <1>0, <1>1 DEF Complete
  <1> QED BY <1>1, <1>2, <1>5, <1>7, <1>8

-----------------------------------------------------------------------------
(* The passes of ticks, of this generation and of earlier ones: they do     *)
(* nothing to what the final pass has found, and after a clean final pass   *)
(* they write down the same.                                               *)

LEMMA TellTick ==
  ASSUME GInv, TellInv, NEW a \in Actors, th[a].pc # "out", a # Final, Others(a),
         UNCHANGED <<host, gen, pl, done>>, Clean' => Clean,
         UNCHANGED <<seg, tmp, raw, published>> \/ th[a].pc \in Scanning,
         host = "wait" /\ AllTold => AllTold'
  PROVE  FinalScan' /\ Told'
  <1>0. TInv BY DEF GInv, IInv
  <1>1. Final \in Actors /\ th'[Final] = th[Final] /\ Final' = Final
      BY <1>0, TwoActors DEF Others, Final
  <1>2. Finished' <=> Finished BY <1>1 DEF Finished
  <1>3. Told' BY <1>2 DEF TellInv, Told
  <1>4. FinalScan'
      <2>1. CASE th[a].pc \in Scanning
          <3>1. th[Final].pc \notin Scanning BY <1>1, <2>1, Alone
          <3> QED BY <1>1, <3>1 DEF TellInv, FinalScan
      <2>2. CASE UNCHANGED <<seg, tmp, raw, published>>
          <3>1. /\ \A j, k : SkippableBy(j, k)' <=> SkippableBy(j, k)
                /\ Listed(pl)' = Listed(pl)
              BY <2>2 DEF SkippableBy, InServeDir, Listed
          <3>2. Covers(Final) => Covers(Final)' BY <1>1, <3>1 DEF Covers
          <3>3. ScanSound => ScanSound' BY <1>1, <2>2, <3>2 DEF ScanSound
          <3> QED BY <1>1, <3>3 DEF TellInv, FinalScan
      <2> QED BY <2>1, <2>2
  <1> QED BY <1>3, <1>4

(* Such a pass after the final one: what it may change.                    *)
LEMMA StaysTold ==
  ASSUME IInv, AllTold, NEW a \in Actors, Others(a),
         UNCHANGED <<gen, pl, seg, tmp, raw>>, gen \in Jobs,
         \A j \in Jobs : published[j] \subseteq published'[j],
         index' = index \/ index' = [segs |-> Whole, end |-> (pl.end /\ Whole = Listed(pl))],
         status' = status \/ status' = [last |-> LastOf(Whole), complete |-> index.end],
         status' = status \/ index' = index,
         th'[a].pc \in Scanning => th'[a].pc \in {"scan", "status"} /\ Covers(a)'
  PROVE  AllTold'
  <1>1. /\ \A j \in Jobs : \A k : SkippableBy(j, k) => SkippableBy(j, k)'
        /\ Listed(pl)' = Listed(pl) /\ Whole' = Whole
      BY DEF SkippableBy, InServeDir, Listed, Whole
  <1>2. ASSUME NEW b \in Actors, th'[b].pc \in Scanning
        PROVE  th'[b].pc \in {"scan", "status"} /\ Covers(b)'
      <2>1. CASE b = a BY <1>2, <2>1
      <2>2. CASE b # a
          <3>1. th'[b] = th[b] /\ b[1] \in Jobs BY <2>2, ActorShape DEF Others
          <3>2. th[b].pc \in {"scan", "status"} /\ Covers(b) BY <1>2, <3>1 DEF AllTold
          <3> QED BY <1>1, <3>1, <3>2 DEF Covers
      <2> QED BY <2>1, <2>2
  <1>3. \A k \in Listed(pl) : SkippableBy(gen, k) => SkippableBy(gen, k)' BY <1>1
  <1>4. index'.segs = Whole /\ index'.end = (pl.end /\ Whole = Listed(pl)) BY DEF AllTold
  <1>5. status'.last = LastOf(Whole) /\ status'.complete = index'.end BY DEF AllTold
  <1>6. LastOf(Whole)' = LastOf(Whole) BY <1>1 DEF LastOf
  <1> QED BY <1>1, <1>2, <1>3, <1>4, <1>5, <1>6 DEF AllTold

LEMMA TickParses ==
  ASSUME IInv, NEW a \in Actors, Parse(a), pl.st = "ok"
  PROVE  th'[a].pc = "scan" /\ Covers(a)' /\ Others(a)
  <1> USE Constants
  <1>1. th' = [th EXCEPT ![a] = [pc |-> "scan", pl |-> pl, i |-> pl.base, changed |-> FALSE]]
        /\ pl' = pl
      BY DEF Parse, proc
  <1>2. th \in [Actors -> ThSet] BY TypeParts DEF IInv, TInv, TAlign
  <1>3. th'[a] = [pc |-> "scan", pl |-> pl, i |-> pl.base, changed |-> FALSE] /\ Others(a)
      BY <1>1, <1>2 DEF Others
  <1>4. pl.base \in Nat /\ pl.n \in Nat BY DEF IInv, TInv, CodeOK, PlSet
  <1>5. \A k \in Listed(pl) : ~(k < pl.base) BY <1>4 DEF Listed
  <1>6. Covers(a)' BY <1>1, <1>3, <1>4, <1>5 DEF Covers, Listed
  <1> QED BY <1>3, <1>6

(* One segment further.                                                    *)
LEMMA CoversOn ==
  ASSUME IInv, NEW a \in Actors, Covers(a), th[a].i \in Listed(th[a].pl),
         UNCHANGED <<pl, seg, tmp, raw>>,
         \/ Advance(a) /\ UNCHANGED published /\ SkippableBy(a[1], th[a].i)
         \/ Publish(a)
  PROVE  /\ th'[a].pc = "scan" /\ Covers(a)' /\ Others(a)
         /\ \A j \in Jobs : published[j] \subseteq published'[j]
  <1> USE Constants
  <1>0. TInv /\ th[a].pl = pl BY DEF IInv, Covers
  <1>1. th'[a].pc = "scan" /\ th'[a].i = th[a].i + 1 /\ th'[a].pl = pl /\ Others(a)
      BY <1>0, ScanEffect DEF Keeps
  <1>2. \A j \in Jobs : published[j] \subseteq published'[j] BY <1>0, ScanEffect
  <1>3. a[1] \in Jobs BY ActorShape
  <1>4. PICK x \in Nat : x = th[a].i BY <1>0, GoroutineFacts
  <1>5. \A k : SkippableBy(a[1], k) => SkippableBy(a[1], k)'
      BY <1>2, <1>3 DEF SkippableBy, InServeDir
  <1>6. SkippableBy(a[1], x)'
      <2>1. CASE SkippableBy(a[1], th[a].i) BY <1>4, <1>5, <2>1
      <2>2. CASE Publish(a)
          <3>1. published'[a[1]] = published[a[1]] \cup {th[a].i} BY <1>0, <2>2, ScanEffect
          <3> QED BY <1>4, <3>1 DEF SkippableBy
      <2> QED BY <2>1, <2>2
  <1>7. pl.base \in Nat /\ \A k \in Listed(pl) : k \in Int BY <1>0 DEF TInv, CodeOK, PlSet, Listed
  <1>8. \A k \in Listed(pl) : k < x => SkippableBy(a[1], k) BY <1>4 DEF Covers
  <1>9. \A k \in Listed(pl) : k < x + 1 => SkippableBy(a[1], k)'
      <2> SUFFICES ASSUME NEW k \in Listed(pl), k < x + 1 PROVE SkippableBy(a[1], k)'
          OBVIOUS
      <2>1. k = x \/ k < x BY <1>7
      <2> QED BY <1>5, <1>6, <1>8, <2>1
  <1>10. x + 1 >= pl.base /\ th'[a].i = x + 1 BY <1>1, <1>4, <1>7 DEF Covers
  <1>11. Listed(pl)' = Listed(pl) BY DEF Listed
  <1>12. Covers(a)' BY <1>1, <1>9, <1>10, <1>11 DEF Covers
  <1> QED BY <1>1, <1>2, <1>12

(* Failed file operations are counted, and those of a tick only counted.    *)
LEMMA TickIsForgiven ==
  ASSUME TInv, NEW a \in Actors, ~IsFinal(a), UNCHANGED <<gen, pl>>,
         \/ UNCHANGED <<err, errs>>
         \/ Failure(a)
         \/ \E f \in BOOLEAN : Leave(a, f) /\ UNCHANGED errs
  PROVE  Clean' => Clean
  <1>1. errs \in Nat BY Constants DEF TInv, CodeOK
  <1>2. err' = err /\ (errs' = errs \/ errs' = errs + 1) BY LeaveEffect DEF Failure
  <1> QED BY <1>1, <1>2 DEF Clean

LEMMA TickTells ==
  ASSUME GInv, TellInv, NEW a \in Actors, a # Final, Goroutine(a) \/ Ticker(a)
  PROVE  FinalScan' /\ Told'
  <1> USE Constants
  <1>0. th[a].pc # "out" /\ UNCHANGED <<host, gen, pl>>
      BY DEF Goroutine, Ticker, Pass, Tick, TickReturn, FinalPass, Normalize, Parse, Skip, Adopt,
             AlignWrite, AlignRename, AlignRemove, NothingNew, WriteIndex, WriteStatus,
             InScan, Scanned, At, job, proc
  <1>1. TInv /\ IInv /\ ~IsFinal(a) /\ gen \in Jobs BY <1>0, TwoActors DEF GInv, IInv
  <1>2. th \in [Actors -> ThSet] /\ a[1] \in Jobs BY <1>1, TypeParts, ActorShape DEF TInv, TAlign
  <1>3. ASSUME UNCHANGED <<seg, tmp, raw, published, index, status>>, Others(a), done' = done,
               th'[a].pc \notin Scanning, Clean' => Clean
        PROVE  FinalScan' /\ Told'
      <2>1. AllTold => AllTold' BY <1>0, <1>1, <1>3, StaysTold
      <2> QED BY <1>0, <1>3, <2>1, TellTick
  <1>4. ASSUME UNCHANGED <<seg, tmp, raw, published, index, status>>, NEW f \in BOOLEAN, Leave(a, f),
               UNCHANGED errs \/ Failure(a)
        PROVE  FinalScan' /\ Told'
      <2>1. Others(a) /\ done' = done /\ th'[a].pc = "idle" BY <1>1, <1>4, LeaveEffect
      <2>2. Clean' => Clean BY <1>0, <1>1, <1>4, TickIsForgiven
      <2> QED BY <1>3, <1>4, <2>1, <2>2 DEF Scanning
  <1>5. CASE Tick(a)
      <2>1. Go(a, "lock") BY <1>5 DEF Tick
      <2>2. th'[a].pc = "lock" /\ Others(a) BY <1>1, <2>1, GoEffect DEF Keeps
      <2>3. UNCHANGED <<seg, tmp, raw, published, index, status, done>> /\ UNCHANGED <<err, errs>>
          BY <1>5 DEF Tick, proc, serve
      <2>4. Clean' => Clean BY <1>0, <1>1, <2>3, TickIsForgiven
      <2> QED BY <1>3, <2>2, <2>3, <2>4 DEF Scanning
  <1>6. CASE TickReturn(a)
      <2>1. th'[a].pc = "out" /\ Others(a) BY <1>2, <1>6, Empties DEF TickReturn, Others
      <2>2. UNCHANGED <<seg, tmp, raw, published, index, status, done>> /\ UNCHANGED <<err, errs>>
          BY <1>6 DEF TickReturn, proc, serve
      <2>3. Clean' => Clean BY <1>0, <1>1, <2>2, TickIsForgiven
      <2> QED BY <1>3, <2>1, <2>2, <2>3 DEF Scanning
  <1>7. CASE Parse(a)
      <2>1. UNCHANGED <<seg, tmp, raw, published, index, status>> BY <1>7 DEF Parse, proc, serve
      <2>2. CASE pl.st = "ok"
          <3>1. UNCHANGED done /\ UNCHANGED <<err, errs>> BY <1>7, <2>2 DEF Parse
          <3>2. th'[a].pc = "scan" /\ Covers(a)' /\ Others(a) BY <1>1, <1>7, <2>2, TickParses
          <3>3. Clean' => Clean BY <1>0, <1>1, <3>1, TickIsForgiven
          <3>4. AllTold => AllTold' BY <1>0, <1>1, <2>1, <3>2, StaysTold
          <3> QED BY <1>0, <2>1, <3>1, <3>2, <3>3, <3>4, TellTick
      <2>3. CASE pl.st # "ok"
          <3>1. Leave(a, pl.st = "torn" /\ IsFinal(a)) /\ UNCHANGED errs BY <1>7, <2>3 DEF Parse
          <3>2. (pl.st = "torn" /\ IsFinal(a)) \in BOOLEAN OBVIOUS
          <3> QED BY <1>4, <2>1, <3>1, <3>2
      <2> QED BY <2>2, <2>3
  <1>8. CASE NothingNew(a)
      <2>1. Leave(a, FALSE) /\ UNCHANGED <<seg, tmp, raw, published, index, status, errs>>
          BY <1>8 DEF NothingNew, proc, serve
      <2> QED BY <1>4, <2>1
  <1>9. ASSUME th[a].pc \in Scanning, Others(a), UNCHANGED done, Clean' => Clean, AllTold => AllTold'
        PROVE  FinalScan' /\ Told'
      BY <1>0, <1>9, TellTick
  <1>10. AllTold /\ th[a].pc \in Scanning => th[a].pc \in {"scan", "status"} /\ Covers(a)
      BY DEF AllTold
  <1>11. AllTold => \A k \in Listed(pl) : InServeDir(k) \/ raw[k] # "good"
      <2>1. \A k \in published[gen] : InServeDir(k) BY <1>1 DEF IInv, Published
      <2> QED BY <2>1 DEF AllTold, SkippableBy
  <1>12. CASE Skip(a) \/ Adopt(a)
      <2>1. /\ th[a].pc = "scan" /\ th[a].i \in Listed(th[a].pl)
            /\ UNCHANGED <<seg, tmp, raw, index, status, done>> /\ UNCHANGED <<err, errs>>
            /\ \/ Advance(a) /\ UNCHANGED published /\ SkippableBy(a[1], th[a].i)
               \/ Publish(a)
          BY <1>12 DEF Skip, Adopt, InScan, At, K, Known, proc, serve, SkippableBy
      <2>2. Others(a) BY <1>1, <2>1, ScanEffect DEF Keeps
      <2>3. Clean' => Clean BY <1>0, <1>1, <2>1, TickIsForgiven
      <2>4. ASSUME AllTold PROVE AllTold'
          <3>1. Covers(a) BY <1>10, <2>1, <2>4 DEF Scanning
          <3>2. /\ th'[a].pc = "scan" /\ Covers(a)'
                /\ \A j \in Jobs : published[j] \subseteq published'[j]
              BY <1>0, <1>1, <2>1, <3>1, CoversOn
          <3> QED BY <1>0, <1>1, <2>1, <2>2, <2>4, <3>2, StaysTold
      <2> QED BY <1>9, <2>1, <2>2, <2>3, <2>4 DEF Scanning
  <1>13. CASE AlignWrite(a) \/ AlignRename(a) \/ AlignRemove(a)
      <2>1. th[a].pc \in Scanning
          BY <1>13 DEF AlignWrite, AlignRename, AlignRemove, InScan, At, Scanning
      <2>2. ASSUME AllTold PROVE FALSE
          <3>1. th[a].pc \in {"scan", "status"} /\ th[a].pl = pl BY <1>10, <2>1, <2>2 DEF Covers
          <3>2. AlignWrite(a) BY <1>13, <3>1 DEF AlignRename, AlignRemove, At
          <3>3. th[a].i \in Listed(pl) /\ ~InServeDir(th[a].i) /\ raw[th[a].i] = "good"
              BY <3>1, <3>2 DEF AlignWrite, InScan, K
          <3> QED BY <1>11, <2>2, <3>3
      <2>3. ASSUME NEW p, Go(a, p) PROVE Others(a) BY <1>1, <2>3, GoEffect DEF Keeps
      <2>4. ASSUME NEW f \in BOOLEAN, Leave(a, f) PROVE Others(a) /\ done' = done
          BY <1>1, <2>4, LeaveEffect
      <2>5. /\ Others(a) /\ done' = done
            /\ \/ UNCHANGED <<err, errs>>
               \/ Failure(a)
               \/ \E f \in BOOLEAN : Leave(a, f) /\ UNCHANGED errs
          <3>1. CASE AlignWrite(a) BY <2>3, <2>4, <3>1 DEF AlignWrite, Failure
          <3>2. CASE AlignRename(a) BY <2>3, <2>4, <3>2 DEF AlignRename
          <3>3. CASE AlignRemove(a)
              <4>1. th[a].i \in Listed(th[a].pl) BY <1>1, <3>3 DEF AlignRemove, At, TInv, Bounds
              <4>2. Publish(a) => Others(a) BY <1>1, <4>1, ScanEffect DEF Keeps
              <4> QED BY <2>4, <3>3, <4>2 DEF AlignRemove, Failure
          <3> QED BY <1>13, <3>1, <3>2, <3>3
      <2>6. Clean' => Clean BY <1>0, <1>1, <2>5, TickIsForgiven
      <2> QED BY <1>9, <2>1, <2>2, <2>5, <2>6
  <1>14. CASE WriteIndex(a)
      <2>1. th[a].pc = "scan" /\ th[a].i \notin Listed(th[a].pl)
            /\ UNCHANGED <<seg, tmp, raw, published, status>>
          BY <1>14 DEF WriteIndex, Scanned, At, K, proc
      <2>2. CASE Failure(a) /\ UNCHANGED index
          <3>1. Leave(a, TRUE) BY <2>2 DEF Failure
          <3> QED BY <1>4, <2>1, <2>2, <3>1
      <2>3. CASE /\ index' = [segs |-> Emitted(a), end |-> Complete(a)]
                 /\ Go(a, "status") /\ UNCHANGED <<lock, err, done, errs>>
          <3>1. th'[a].pc = "status" /\ th'[a].i = th[a].i /\ th'[a].pl = th[a].pl /\ Others(a)
              BY <1>1, <2>3, GoEffect DEF Keeps
          <3>2. Clean' => Clean BY <1>0, <1>1, <2>3, TickIsForgiven
          <3>3. ASSUME AllTold PROVE AllTold'
              <4>1. Covers(a) BY <1>10, <2>1, <3>3 DEF Scanning
              <4>2. th[a].i \notin Listed(pl) /\ InPass(a) BY <2>1, <4>1 DEF Covers, InPass
              <4>3. Emitted(a) = Whole /\ Complete(a) = (pl.end /\ Whole = Listed(pl))
                  BY <1>1, <4>1, <4>2, Emits DEF TellInv
              <4>4. \A k : SkippableBy(a[1], k)' <=> SkippableBy(a[1], k)
                  BY <2>1 DEF SkippableBy, InServeDir
              <4>5. Covers(a)' BY <1>0, <3>1, <4>1, <4>2, <4>4 DEF Covers, Listed
              <4> QED BY <1>0, <1>1, <2>1, <2>3, <3>1, <3>3, <4>3, <4>5, StaysTold
          <3> QED BY <1>9, <2>1, <2>3, <3>1, <3>2, <3>3 DEF Scanning
      <2> QED BY <1>14, <2>2, <2>3 DEF WriteIndex
  <1>15. CASE WriteStatus(a)
      <2>1. th[a].pc = "status" /\ UNCHANGED <<seg, tmp, raw, published, index>>
          BY <1>15 DEF WriteStatus, At, proc
      <2>2. CASE Failure(a) /\ UNCHANGED status
          <3>1. Leave(a, TRUE) BY <2>2 DEF Failure
          <3> QED BY <1>4, <2>1, <2>2, <3>1
      <2>3. CASE /\ status' = [last |-> LastOf(Emitted(a)), complete |-> Complete(a)]
                 /\ Leave(a, FALSE) /\ UNCHANGED errs
          <3>1. th'[a].pc = "idle" /\ Others(a) /\ done' = done BY <1>1, <2>3, LeaveEffect
          <3>2. Clean' => Clean BY <1>0, <1>1, <2>3, TickIsForgiven
          <3>3. ASSUME AllTold PROVE AllTold'
              <4>1. index.segs = Emitted(a) /\ index.end = Complete(a)
                  BY <2>1 DEF TellInv, Written
              <4>2. Emitted(a) = Whole BY <3>3, <4>1 DEF AllTold
              <4> QED BY <1>0, <1>1, <2>1, <2>3, <3>1, <3>3, <4>1, <4>2, StaysTold DEF Scanning
          <3> QED BY <1>9, <2>1, <3>1, <3>2, <3>3 DEF Scanning
      <2> QED BY <1>15, <2>2, <2>3 DEF WriteStatus
  <1>16. ~FinalPass(a) /\ ~Normalize(a)
      BY <1>1 DEF FinalPass, Normalize, At, TInv, Phases
  <1> QED BY <1>5, <1>6, <1>7, <1>8, <1>12, <1>13, <1>14, <1>15, <1>16 DEF Goroutine, Ticker, Pass

-----------------------------------------------------------------------------
(* The final pass, from its start to its end.                              *)

(* It goes on: nothing is claimed of its end yet.                          *)
LEMMA FinalGoesOn ==
  ASSUME GInv, TellInv, th[Final].pc # "out", Final \in Actors,
         UNCHANGED <<host, gen, done>>, th'[Final].pc # "normalize",
         host = "wait" /\ th'[Final].pc \in Scanning => ScanSound'
  PROVE  FinalScan' /\ Told'
  <1>1. Final' = Final BY DEF Final
  <1>2. host = "wait" => gen \notin done BY DEF TellInv, FinalScan
  <1>3. FinalScan' BY <1>1, <1>2 DEF FinalScan
  <1>4. Told' BY <1>1, <1>2 DEF Told, Finished
  <1> QED BY <1>3, <1>4

(* It fails, or there is nothing to publish: no claim is made.              *)
LEMMA FinalFails ==
  ASSUME GInv, TellInv, th[Final].pc # "out", Final \in Actors, UNCHANGED <<host, gen, done>>,
         th'[Final].pc \notin Scanning, ~Clean'
  PROVE  FinalScan' /\ Told'
  <1>1. Final' = Final BY DEF Final
  <1>2. host = "wait" => gen \notin done BY DEF TellInv, FinalScan
  <1> QED BY <1>1, <1>2 DEF FinalScan, Told

LEMMA FailureIsCounted ==
  ASSUME TInv, Final \in Actors, th[Final].pc # "out", UNCHANGED <<gen, pl>>, Failure(Final)
  PROVE  ~Clean' /\ done' = done /\ th'[Final].pc = "normalize" /\ Others(Final)
  <1>1. IsFinal(Final) /\ Final[1] = gen BY TwoActors
  <1>2. errs \in Nat BY Constants DEF TInv, CodeOK
  <1>3. errs' = errs + 1 /\ Leave(Final, TRUE) BY DEF Failure
  <1>4. err'[gen] # "none" /\ done' = done /\ th'[Final].pc = "normalize" /\ Others(Final)
      BY <1>1, <1>3, LeaveEffect
  <1> QED BY <1>2, <1>3, <1>4 DEF Clean

LEMMA FinalStarts ==
  ASSUME GInv, TellInv, Final \in Actors,
         Tick(Final) \/ TickReturn(Final) \/ FinalPass(Final) \/ Parse(Final)
  PROVE  FinalScan' /\ Told'
  <1> USE Constants
  <1>0. /\ th[Final].pc # "out" /\ UNCHANGED <<host, gen, pl, seg, tmp, raw, published>>
        /\ TInv /\ IInv
      BY DEF Tick, TickReturn, FinalPass, Parse, At, job, proc, serve, GInv, IInv
  <1>1. IsFinal(Final) /\ Final[1] = gen /\ gen \in Jobs /\ Final' = Final
      BY <1>0, TwoActors DEF Final
  <1>2. CASE Tick(Final) \/ TickReturn(Final) BY <1>1, <1>2 DEF Tick, TickReturn
  <1>3. CASE FinalPass(Final)
      <2>1. Go(Final, "lock") /\ done' = done BY <1>3 DEF FinalPass
      <2>2. th'[Final].pc = "lock" BY <1>0, <2>1, GoEffect
      <2> QED BY <1>0, <2>1, <2>2, FinalGoesOn DEF Scanning
  <1>4. CASE Parse(Final)
      <2>1. CASE pl.st = "ok"
          <3>1. done' = done BY <1>4, <2>1 DEF Parse
          <3>2. th'[Final].pc = "scan" /\ Covers(Final)' BY <1>0, <1>1, <1>4, <2>1, TickParses
          <3>3. ScanSound' BY <1>0, <1>1, <2>1, <3>2 DEF ScanSound
          <3> QED BY <1>0, <3>1, <3>2, <3>3, FinalGoesOn
      <2>2. CASE pl.st # "ok"
          <3>1. Leave(Final, pl.st = "torn" /\ IsFinal(Final)) BY <1>4, <2>2 DEF Parse
          <3>2. done' = done /\ th'[Final].pc = "normalize" BY <1>0, <1>1, <3>1, LeaveEffect
          <3>3. ~Clean' BY <1>0, <2>2 DEF Clean
          <3> QED BY <1>0, <3>2, <3>3, FinalFails DEF Scanning
      <2> QED BY <2>1, <2>2
  <1> QED BY <1>2, <1>3, <1>4

(* One segment of the playlist.                                            *)
LEMMA FinalScans ==
  ASSUME GInv, TellInv, Final \in Actors,
         Skip(Final) \/ Adopt(Final) \/ AlignWrite(Final) \/ AlignRename(Final) \/ AlignRemove(Final)
  PROVE  FinalScan' /\ Told'
  <1> USE Constants
  <1>x. PICK x : x = th[Final].i OBVIOUS
  <1> USE <1>x
  <1>0. /\ th[Final].pc \in Scanning /\ UNCHANGED <<host, gen, pl>> /\ TInv /\ IInv
      BY DEF Skip, Adopt, AlignWrite, AlignRename, AlignRemove, InScan, At, Scanning,
             job, proc, GInv, IInv
  <1>1. th[Final].pc # "out" BY <1>0 DEF Scanning
  <1>2. IsFinal(Final) /\ Final[1] = gen /\ gen \in Jobs /\ Final' = Final
      BY <1>0, <1>1, TwoActors DEF Final
  <1>3. CASE host # "wait" BY <1>0, <1>3 DEF FinalScan, Told
  <1>4. CASE host = "wait"
      <2>1. ScanSound /\ Covers(Final) BY <1>0, <1>4 DEF TellInv, FinalScan, ScanSound
      <2>2. x \in Listed(th[Final].pl)
          BY <1>0 DEF Skip, Adopt, AlignWrite, AlignRename, AlignRemove, InScan, At, K, TInv, Bounds
      <2>3. x \in Listed(pl) /\ x \in Nat /\ x >= pl.base /\ pl.st = "ok" /\ th[Final].pl = pl
          BY <1>0, <2>1, <2>2, GoroutineFacts DEF ScanSound, Covers
      <2>4. /\ raw \in [Segs -> {"none", "part", "good", "bad"}]
            /\ seg \in [Segs -> {None} \cup 0..MaxGens] /\ tmp \subseteq Segs
            /\ published \in [Jobs -> SUBSET Segs]
          BY <1>0 DEF TInv, CodeOK
      <2>5. \A k \in Listed(pl) : k \in Int BY <1>0 DEF TInv, CodeOK, PlSet, Listed
      <2>6. Listed(pl)' = Listed(pl) BY <1>0 DEF Listed
      <2>7. ASSUME Failure(Final) PROVE FinalScan' /\ Told'
          BY <1>0, <1>1, <2>7, FailureIsCounted, FinalFails DEF Scanning
      <2>8. ASSUME \A k : k # x /\ SkippableBy(gen, k) => SkippableBy(gen, k)',
                   Go(Final, "rename") \/ Go(Final, "remove"), done' = done,
                   raw' = raw, raw[x] = "good", Go(Final, "rename") => x \in tmp'
            PROVE  FinalScan' /\ Told'
          <3>1. /\ th'[Final].pc \in {"rename", "remove"} /\ th'[Final].pl = pl /\ th'[Final].i = x
                /\ th'[Final].pc = "rename" => x \in tmp'
              <4>2. CASE Go(Final, "rename") BY <1>0, <2>3, <2>8, <4>2, GoEffect DEF Keeps
              <4>3. CASE Go(Final, "remove") BY <1>0, <2>3, <2>8, <4>3, GoEffect DEF Keeps
              <4> QED BY <2>8, <4>2, <4>3
          <3>2. \A k \in Listed(pl) : k < x => SkippableBy(gen, k)'
              BY <1>2, <2>1, <2>3, <2>8 DEF Covers
          <3>3. Covers(Final)' BY <1>0, <1>2, <2>3, <2>6, <3>1, <3>2 DEF Covers
          <3>4. ScanSound' BY <1>0, <1>2, <2>3, <2>8, <3>1, <3>3 DEF ScanSound
          <3> QED BY <1>0, <1>1, <2>8, <3>1, <3>4, FinalGoesOn
      <2>9. ASSUME \A k : k # x /\ SkippableBy(gen, k) => SkippableBy(gen, k)', SkippableBy(gen, x)',
                   Advance(Final) \/ Publish(Final), done' = done
            PROVE  FinalScan' /\ Told'
          <3>1. /\ th'[Final].pc = "scan" /\ th'[Final].pl = pl /\ th'[Final].i = x + 1
              BY <1>0, <2>2, <2>3, <2>9, ScanEffect DEF Keeps
          <3>2. \A k \in Listed(pl) : k < x => SkippableBy(gen, k)
              BY <1>2, <2>1 DEF Covers
          <3>3. \A k \in Listed(pl) : k < x + 1 => SkippableBy(gen, k)'
              <4> SUFFICES ASSUME NEW k \in Listed(pl), k < x + 1 PROVE SkippableBy(gen, k)'
                  BY <1>0
              <4>0. k \in Int /\ x \in Int BY <2>3, <2>5
              <4>1. k = x \/ k < x
                  <5> HIDE <1>x
                  <5> QED BY <4>0
              <4> QED BY <2>9, <3>2, <4>1
          <3>4. x + 1 >= pl.base BY <1>0, <2>3 DEF TInv, CodeOK, PlSet
          <3>5. Covers(Final)' BY <1>0, <1>2, <2>3, <2>6, <3>1, <3>3, <3>4 DEF Covers
          <3>6. ScanSound' BY <1>0, <1>2, <2>3, <3>1, <3>5 DEF ScanSound
          <3> QED BY <1>0, <1>1, <2>9, <3>1, <3>6, FinalGoesOn
      <2>10. CASE Skip(Final)
          <3>1. /\ Advance(Final) /\ UNCHANGED <<seg, tmp, raw, published, done>>
                /\ x \in published[gen] \/ (~InServeDir(x) /\ raw[x] # "good")
              BY <1>2, <2>10 DEF Skip, Known, K, proc, serve
          <3>2. \A k : SkippableBy(gen, k)' <=> SkippableBy(gen, k)
              BY <1>0, <3>1 DEF SkippableBy, InServeDir
          <3>3. SkippableBy(gen, x) BY <3>1 DEF SkippableBy
          <3> QED BY <2>9, <3>1, <3>2, <3>3
      <2>11. CASE Adopt(Final)
          <3>1. Publish(Final) /\ UNCHANGED <<seg, tmp, raw, done>> BY <2>11 DEF Adopt, proc, serve
          <3>2. published'[gen] = published[gen] \cup {x} BY <1>0, <1>2, <2>2, <3>1, ScanEffect
          <3>3. \A k : k # x /\ SkippableBy(gen, k) => SkippableBy(gen, k)'
              BY <1>0, <3>1, <3>2 DEF SkippableBy, InServeDir
          <3>4. SkippableBy(gen, x)' BY <1>0, <3>2 DEF SkippableBy
          <3> QED BY <2>9, <3>1, <3>3, <3>4
      <2>12. CASE AlignWrite(Final)
          <3>1. CASE /\ tmp' = tmp \cup {x} /\ Go(Final, "rename") /\ done' = done
              <4>1. UNCHANGED <<seg, raw, published>> /\ raw[x] = "good"
                  BY <2>12 DEF AlignWrite, proc, K
              <4>2. \A k : k # x /\ SkippableBy(gen, k) => SkippableBy(gen, k)'
                  BY <1>0, <3>1, <4>1 DEF SkippableBy, InServeDir
              <4> QED BY <2>8, <3>1, <4>1, <4>2
          <3> QED BY <2>7, <2>12, <3>1 DEF AlignWrite, K
      <2>13. CASE AlignRename(Final)
          <3>1. x \in tmp BY <2>1, <2>13 DEF AlignRename, At, ScanSound
          <3>2. /\ seg' = [seg EXCEPT ![x] = start[gen]] /\ tmp' = tmp \ {x}
                /\ Go(Final, "remove") /\ UNCHANGED <<raw, published, done>>
              BY <1>2, <2>13, <3>1 DEF AlignRename, K, proc
          <3>3. raw[x] = "good" BY <2>1, <2>13 DEF AlignRename, At, ScanSound
          <3>4. \A k : k # x => seg'[k] = seg[k] /\ (k \in tmp' <=> k \in tmp)
              BY <2>4, <3>2
          <3>5. \A k : k # x /\ SkippableBy(gen, k) => SkippableBy(gen, k)'
              BY <1>0, <3>2, <3>4 DEF SkippableBy, InServeDir
          <3>6. ~Go(Final, "rename") BY <1>0, <3>2, GoEffect
          <3> QED BY <2>8, <3>2, <3>3, <3>5, <3>6
      <2>14. CASE AlignRemove(Final)
          <3>1. raw[x] = "good" BY <2>1, <2>14 DEF AlignRemove, At, ScanSound
          <3>2. CASE raw' = [raw EXCEPT ![x] = "none"] /\ Publish(Final) /\ done' = done
              <4>1. UNCHANGED <<seg, tmp>> BY <2>14 DEF AlignRemove, serve
              <4>2. published'[gen] = published[gen] \cup {x} BY <1>0, <1>2, <2>2, <3>2, ScanEffect
              <4>3. \A k : k # x => raw'[k] = raw[k] BY <2>4, <3>2
              <4>4. \A k : k # x /\ SkippableBy(gen, k) => SkippableBy(gen, k)'
                  BY <1>0, <4>1, <4>2, <4>3 DEF SkippableBy, InServeDir
              <4>5. SkippableBy(gen, x)' BY <1>0, <4>2 DEF SkippableBy
              <4> QED BY <2>9, <3>2, <4>4, <4>5
          <3> QED BY <2>7, <2>14, <3>1, <3>2 DEF AlignRemove, K
      <2> QED BY <2>10, <2>11, <2>12, <2>13, <2>14
  <1> QED BY <1>3, <1>4

LEMMA FinalEnds ==
  ASSUME GInv, TellInv, Final \in Actors,
         \/ NothingNew(Final) \/ WriteIndex(Final) \/ WriteStatus(Final) \/ Normalize(Final)
  PROVE  FinalScan' /\ Told'
  <1> USE Constants
  <1>0. /\ th[Final].pc \in {"scan", "status", "normalize"} /\ TInv /\ IInv
        /\ UNCHANGED <<host, gen, pl, raw, seg, tmp, published>>
      BY DEF NothingNew, WriteIndex, WriteStatus, Normalize, Scanned, At, job, proc, serve,
             GInv, IInv
  <1>1. /\ IsFinal(Final) /\ Final[1] = gen /\ gen \in Jobs /\ Final' = Final /\ th[Final].pc # "out"
        /\ th \in [Actors -> ThSet]
      BY <1>0, TwoActors, TypeParts DEF Final, TInv, TAlign
  <1>2. CASE host # "wait" BY <1>0, <1>2 DEF FinalScan, Told
  <1>3. CASE host = "wait"
      <2>1. /\ \A j, k : SkippableBy(j, k)' <=> SkippableBy(j, k)
            /\ Listed(pl)' = Listed(pl) /\ Whole' = Whole
          BY <1>0 DEF SkippableBy, InServeDir, Whole, Listed
      <2>2. gen \notin done BY <1>1, <1>3 DEF TellInv, FinalScan
      <2>3. th[Final].pc # "normalize" => ScanSound /\ Covers(Final) /\ th[Final].pl = pl
          BY <1>0, <1>3 DEF TellInv, FinalScan, Scanning, ScanSound, Covers
      <2>4. ASSUME Failure(Final) PROVE FinalScan' /\ Told'
          BY <1>0, <1>1, <2>4, FailureIsCounted, FinalFails DEF Scanning
      <2>5. CASE NothingNew(Final) BY <1>1, <2>5 DEF NothingNew
      <2>6. CASE WriteIndex(Final)
          <3>1. CASE Go(Final, "status") /\ done' = done
              <4>1. th'[Final].pc = "status" /\ th'[Final].i = th[Final].i /\ th'[Final].pl = th[Final].pl
                  BY <1>0, <3>1, GoEffect DEF Keeps
              <4>2. th[Final].i \notin Listed(pl) /\ ScanSound /\ Covers(Final)
                  BY <2>3, <2>6 DEF WriteIndex, Scanned, At, K
              <4>3. Covers(Final)' BY <1>0, <1>1, <2>1, <4>1, <4>2 DEF Covers
              <4>4. ScanSound' BY <1>0, <1>1, <4>1, <4>2, <4>3 DEF ScanSound
              <4> QED BY <1>0, <1>1, <3>1, <4>1, <4>4, FinalGoesOn
          <3> QED BY <2>4, <2>6, <3>1 DEF WriteIndex
      <2>7. CASE WriteStatus(Final)
          <3>1. th[Final].pc = "status" /\ Covers(Final) /\ th[Final].i \notin Listed(pl)
              BY <2>3, <2>7 DEF WriteStatus, At, Covers
          <3>2. CASE /\ status' = [last |-> LastOf(Emitted(Final)), complete |-> Complete(Final)]
                     /\ Leave(Final, FALSE)
              <4>1. th'[Final].pc = "normalize" /\ Others(Final) /\ done' = done
                  BY <1>0, <1>1, <3>2, LeaveEffect
              <4>2. FinalScan' BY <1>1, <2>2, <4>1, <1>0 DEF FinalScan, Scanning
              <4>3. /\ \A k \in Listed(pl) : SkippableBy(gen, k)
                    /\ Emitted(Final) = Whole /\ Complete(Final) = (pl.end /\ Whole = Listed(pl))
                  BY <1>0, <1>1, <3>1, Emits DEF TellInv, InPass
              <4>4. index.segs = Emitted(Final) /\ index.end = Complete(Final)
                  BY <3>1 DEF TellInv, Written
              <4>5. \A a \in Actors : th'[a].pc \notin Scanning
                  <5> SUFFICES ASSUME NEW a \in Actors, th'[a].pc \in Scanning PROVE FALSE
                      OBVIOUS
                  <5>1. a # Final BY <4>1 DEF Scanning
                  <5>2. th[a].pc \in Scanning BY <4>1, <5>1 DEF Others
                  <5> QED BY <3>1, <5>1, <5>2, Alone DEF Scanning
              <4>6. index' = index BY <2>7 DEF WriteStatus
              <4>7. LastOf(Whole)' = LastOf(Whole) BY <2>1 DEF LastOf
              <4>8. AllTold' BY <1>0, <2>1, <3>2, <4>3, <4>4, <4>5, <4>6, <4>7 DEF AllTold
              <4> QED BY <4>2, <4>8 DEF Told
          <3> QED BY <2>4, <2>7, <3>2 DEF WriteStatus
      <2>8. CASE Normalize(Final)
          <3>1. /\ th' = [th EXCEPT ![Final] = Rest("out")] /\ done' = done \cup {gen}
                /\ th[Final].pc = "normalize" /\ UNCHANGED <<index, status>>
              BY <1>1, <2>8 DEF Normalize, At, serve
          <3>2. th'[Final].pc = "out" /\ Others(Final) BY <1>1, <3>1, Empties DEF Others
          <3>3. FinalScan' BY <1>0, <1>1, <3>2 DEF FinalScan, Scanning
          <3>4. CASE UNCHANGED <<err, errs>>
              <4>1. ASSUME Clean' PROVE AllTold'
                  <5>1. Clean BY <1>0, <3>4, <4>1 DEF Clean
                  <5>2. AllTold BY <1>3, <3>1, <5>1 DEF TellInv, Told, Finished
                  <5>3. \A j \in Jobs : published[j] \subseteq published'[j] BY <1>0
                  <5>4. th'[Final].pc \notin Scanning BY <3>2 DEF Scanning
                  <5> QED BY <1>0, <1>1, <3>1, <3>2, <5>2, <5>3, <5>4, StaysTold
              <4> QED BY <3>3, <4>1 DEF Told
          <3>5. CASE /\ errs' = errs + 1
                     /\ err' = [err EXCEPT ![gen] = IF @ = "none" THEN "publish" ELSE @]
              <4>1. err \in [Jobs -> {"none", "ffmpeg", "publish"}] /\ errs \in Nat
                  BY <1>0 DEF TInv, CodeOK
              <4>2. err'[gen] # "none" BY <1>1, <3>5, <4>1
              <4>3. ~Clean' BY <1>0, <3>5, <4>1, <4>2 DEF Clean
              <4> QED BY <3>3, <4>3 DEF Told
          <3> QED BY <1>1, <2>8, <3>4, <3>5 DEF Normalize
      <2> QED BY <2>5, <2>6, <2>7, <2>8
  <1> QED BY <1>2, <1>3

(* A goroutine's step and the artifacts.                                   *)
LEMMA TellWrites ==
  ASSUME GInv, TellInv, Grows, NEW a \in Actors, Goroutine(a) \/ Ticker(a)
  PROVE  Ended' /\ NoStatusYet' /\ Written' /\ Follows'
  <1> USE Constants
  <1>0. th[a].pc # "out" /\ UNCHANGED <<host, gen, fresh, pl>> /\ TInv
      BY DEF Goroutine, Ticker, Pass, Tick, TickReturn, FinalPass, Normalize, Parse, Skip, Adopt,
             AlignWrite, AlignRename, AlignRemove, NothingNew, WriteIndex, WriteStatus,
             InScan, Scanned, At, job, proc, GInv, IInv
  <1>1. th \in [Actors -> ThSet] BY <1>0, TypeParts DEF TInv, TAlign
  <1>2. ASSUME Others(a), UNCHANGED <<index, status>>, th'[a].pc # "status",
               published' = published \/ th[a].pc \in Scanning
        PROVE  Ended' /\ NoStatusYet' /\ Written' /\ Follows'
      BY <1>0, <1>2, TellFiles
  <1>3. ASSUME UNCHANGED <<index, status, published>>, NEW p, p # "status", Go(a, p)
        PROVE  Ended' /\ NoStatusYet' /\ Written' /\ Follows'
      <2>1. Others(a) /\ th'[a].pc = p BY <1>0, <1>3, GoEffect DEF Keeps
      <2> QED BY <1>2, <1>3, <2>1
  <1>4. ASSUME UNCHANGED <<index, status, published>>, NEW f \in BOOLEAN, Leave(a, f)
        PROVE  Ended' /\ NoStatusYet' /\ Written' /\ Follows'
      <2>1. Others(a) /\ th'[a].pc \in {"normalize", "idle"} BY <1>0, <1>4, LeaveEffect
      <2> QED BY <1>2, <1>4, <2>1
  <1>5. ASSUME UNCHANGED <<index, status>>, th[a].pc \in Scanning, th[a].i \in Listed(th[a].pl),
               Advance(a) \/ Publish(a)
        PROVE  Ended' /\ NoStatusYet' /\ Written' /\ Follows'
      <2>1. Others(a) /\ th'[a].pc = "scan" BY <1>0, <1>5, ScanEffect DEF Keeps
      <2> QED BY <1>2, <1>5, <2>1
  <1>6. CASE Tick(a) \/ FinalPass(a)
      <2>1. Go(a, "lock") /\ UNCHANGED <<index, status, published>>
          BY <1>6 DEF Tick, FinalPass, serve
      <2> QED BY <1>3, <2>1
  <1>7. CASE TickReturn(a) \/ Normalize(a)
      <2>1. th' = [th EXCEPT ![a] = Rest("out")] /\ UNCHANGED <<index, status, published>>
          BY <1>7 DEF TickReturn, Normalize, serve
      <2>2. Others(a) /\ th'[a].pc = "out" BY <1>1, <2>1, Empties DEF Others
      <2> QED BY <1>2, <2>1, <2>2
  <1>8. CASE Parse(a)
      <2>1. UNCHANGED <<index, status, published>> BY <1>8 DEF Parse, serve
      <2>2. CASE pl.st = "ok"
          <3>1. th' = [th EXCEPT ![a] = [pc |-> "scan", pl |-> pl, i |-> pl.base, changed |-> FALSE]]
              BY <1>8, <2>2 DEF Parse
          <3>2. Others(a) /\ th'[a].pc = "scan" BY <1>1, <3>1 DEF Others
          <3> QED BY <1>2, <2>1, <3>2
      <2>3. CASE pl.st # "ok"
          <3>1. Leave(a, pl.st = "torn" /\ IsFinal(a)) BY <1>8, <2>3 DEF Parse
          <3>2. (pl.st = "torn" /\ IsFinal(a)) \in BOOLEAN OBVIOUS
          <3> QED BY <1>4, <2>1, <3>1, <3>2
      <2> QED BY <2>2, <2>3
  <1>9. CASE Skip(a) \/ Adopt(a)
      <2>1. /\ UNCHANGED <<index, status>> /\ th[a].pc = "scan" /\ th[a].i \in Listed(th[a].pl)
            /\ Advance(a) \/ Publish(a)
          BY <1>9 DEF Skip, Adopt, InScan, At, K, serve
      <2> QED BY <1>5, <2>1 DEF Scanning
  <1>10. CASE AlignWrite(a) \/ AlignRename(a)
      <2>1. UNCHANGED <<index, status, published>> BY <1>10 DEF AlignWrite, AlignRename
      <2>2. Go(a, "rename") \/ Go(a, "remove") \/ Leave(a, TRUE)
          BY <1>10 DEF AlignWrite, AlignRename, Failure
      <2> QED BY <1>3, <1>4, <2>1, <2>2
  <1>11. CASE AlignRemove(a)
      <2>1. /\ UNCHANGED <<index, status>> /\ th[a].pc = "remove" /\ th[a].i \in Listed(th[a].pl)
            /\ Publish(a) \/ (Leave(a, TRUE) /\ UNCHANGED published)
          BY <1>0, <1>11 DEF AlignRemove, At, TInv, Bounds, serve, Failure
      <2> QED BY <1>4, <1>5, <2>1 DEF Scanning
  <1>12. CASE NothingNew(a)
      <2>1. Leave(a, FALSE) /\ UNCHANGED <<index, status, published>>
          BY <1>12 DEF NothingNew, serve
      <2> QED BY <1>4, <2>1
  <1>13. CASE WriteIndex(a)
      <2>1. CASE Failure(a) /\ UNCHANGED index
          <3>1. UNCHANGED <<index, status, published>> /\ Leave(a, TRUE)
              BY <1>13, <2>1 DEF WriteIndex, Failure
          <3> QED BY <1>4, <3>1
      <2>2. CASE index' = [segs |-> Emitted(a), end |-> Complete(a)] /\ Go(a, "status")
          <3>1. th[a].pc = "scan" /\ UNCHANGED <<status, published>>
              BY <1>13 DEF WriteIndex, Scanned, At
          <3>2. Others(a) /\ th'[a].pl = th[a].pl BY <1>0, <2>2, GoEffect DEF Keeps
          <3> QED BY <1>0, <2>2, <3>1, <3>2, TellFiles
      <2> QED BY <1>13, <2>1, <2>2 DEF WriteIndex
  <1>14. CASE WriteStatus(a)
      <2>1. CASE Failure(a) /\ UNCHANGED status
          <3>1. UNCHANGED <<index, status, published>> /\ Leave(a, TRUE)
              BY <1>14, <2>1 DEF WriteStatus, Failure
          <3> QED BY <1>4, <3>1
      <2>2. CASE /\ status' = [last |-> LastOf(Emitted(a)), complete |-> Complete(a)]
                 /\ Leave(a, FALSE)
          <3>1. th[a].pc = "status" /\ UNCHANGED <<index, published>> BY <1>14 DEF WriteStatus, At
          <3>2. Others(a) /\ th'[a].pc # "status" BY <1>0, <2>2, LeaveEffect
          <3> QED BY <1>0, <2>2, <3>1, <3>2, TellFiles
      <2> QED BY <1>14, <2>1, <2>2 DEF WriteStatus
  <1> QED BY <1>6, <1>7, <1>8, <1>9, <1>10, <1>11, <1>12, <1>13, <1>14 DEF Goroutine, Ticker, Pass

LEMMA TellStep == ASSUME GInv, TellInv, Step \/ UNCHANGED code PROVE TellInv'
  <1>1. Grows BY GrowStep
  <1>2. CASE UNCHANGED code
      <2>1. UNCHANGED <<host, gen, fresh, pl, raw, seg, tmp, index, status, published, th, err, errs, done>>
          BY <1>2 DEF code, job, proc, serve, align
      <2> QED BY <2>1, TellStutter
  <1>3. ASSUME NEW a \in Actors, Goroutine(a) \/ Ticker(a) PROVE TellInv'
      <2>1. Ended' /\ NoStatusYet' /\ Written' /\ Follows' BY <1>1, <1>3, TellWrites
      <2>2. CASE a # Final
          <3>1. FinalScan' /\ Told' BY <1>3, <2>2, TickTells
          <3> QED BY <2>1, <3>1 DEF TellInv
      <2>3. CASE a = Final
          <3>1. FinalScan' /\ Told'
              BY <1>3, <2>3, FinalStarts, FinalScans, FinalEnds DEF Goroutine, Ticker, Pass
          <3> QED BY <2>1, <3>1 DEF TellInv
      <2> QED BY <2>2, <2>3
  <1> QED BY <1>2, <1>3, TellHost, TellFFmpeg DEF Step

Telling == ~stray => TellInv

(* While a job that started with temp_file runs, job.json never counts a    *)
(* segment, or an end, that index.m3u8 does not list.  And when Wait can    *)
(* return without an error, or with ffmpeg's but no file operation failed,  *)
(* both say exactly what ffmpeg has listed up to the first segment that     *)
(* nobody can parse: whatever ticks failed before the final pass, and       *)
(* whatever passes come after it, those of the generations that a resume    *)
(* follows included; until a fresh generation meets one of an earlier       *)
(* generation (stray), which may write what it has read before.            *)
THEOREM StatusTellsTruth == Spec => []StatusIsTrue
  <1>1. Init => Telling BY TellInit DEF Telling
  <1>2. Ordered /\ Growing /\ Telling /\ [Next]_vars => Telling'
      <2> SUFFICES ASSUME Ordered, Growing, Telling, [Next]_vars, ~stray' PROVE TellInv'
          BY DEF Telling
      <2>1. ~stray /\ GInv /\ (Step \/ UNCHANGED code) BY CalmStep
      <2> QED BY <2>1, TellStep DEF Telling
  <1>3. Telling => StatusIsTrue
      <2> SUFFICES ASSUME ~stray => TellInv PROVE StatusIsTrue
          BY DEF Telling
      <2>1. StatusFollows BY DEF TellInv, Follows, StatusFollows
      <2>2. DoneMeansPublished BY DEF TellInv, Told, Finished, Clean, AllTold, DoneMeansPublished
      <2> QED BY <2>1, <2>2 DEF StatusIsTrue
  <1> QED BY <1>1, <1>2, <1>3, Inductive, GrownInductive, PTL DEF Spec
=============================================================================
