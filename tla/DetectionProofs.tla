--------------------------- MODULE DetectionProofs ---------------------------
(***************************************************************************)
(* For every set of goroutines: ensureDetected lets nobody through without *)
(* capabilities, hands nobody another caller's cancellation, and starts no *)
(* detection for a caller that came after an outcome was cached.           *)
(***************************************************************************)
EXTENDS Detection, FiniteSetTheorems, TLAPS

Places == {"idle", "fast", "lock", "recheck", "begin", "version", "populate", "publish", "record"}
CallType == [pc : Places, via : {"none", "ensure", "reload"}, cut : BOOLEAN, known : BOOLEAN,
             found : {"none", "whole", "cut"}, res : Results]

(* TypeOK without its cardinality, which CallInv's use of detectMu implies. *)
Types ==
  /\ caps \in {"none", "whole", "cut"}
  /\ tried \in BOOLEAN /\ err \in Results /\ runs \in 0..MaxRuns
  /\ detectMu \subseteq Threads
  /\ host \in {"good", "bad"}
  /\ th \in [Threads -> CallType]

Mutex == detectMu = {} \/ \E u \in Threads : detectMu = {u}

(* What every goroutine's call contributes to DetectionInv.                *)
OneCall(t) == /\ CallInv(t)
              /\ th[t].res = "ok" => Detected
              /\ th[t].res = "ctx" => th[t].cut

Cache == err # "ctx" /\ (err = "ok" => Detected)

IInv == Types /\ Mutex /\ Cache /\ \A t \in Threads : OneCall(t)

LEMMA IInvImplies == ASSUME IInv PROVE DetectionInv
  <1>1. Cardinality(detectMu) <= 1
      <2>1. CASE detectMu = {} BY <2>1, FS_EmptySet
      <2>2. CASE \E u \in Threads : detectMu = {u} BY <2>2, FS_Singleton
      <2> QED BY <2>1, <2>2 DEF IInv, Mutex
  <1>2. TypeOK BY <1>1 DEF IInv, Types, TypeOK, CallType, Places
  <1> QED BY <1>2 DEF IInv, OneCall, Cache, DetectionInv, OkMeansDetected, NoForeignCancel

LEMMA InitIInv == ASSUME Init PROVE IInv
  <1>1. Idle \in CallType BY DEF Idle, CallType, Places, Results
  <1>2. Types
      <2>1. 0 \in 0..MaxRuns BY DetectionAssumption
      <2>2. th \in [Threads -> CallType] BY <1>1 DEF Init
      <2> QED BY <2>1, <2>2 DEF Init, Types, Results
  <1>3. \A t \in Threads : OneCall(t)
      BY DEF Init, OneCall, CallInv, Holding, At, Idle, Detected
  <1> QED BY <1>2, <1>3 DEF Init, IInv, Mutex, Cache

(* A step of one goroutine keeps the other goroutines' part of the          *)
(* invariant if it only ever adds to the cache, and keeps the mutex unless *)
(* it holds it, or it is free.                                             *)
LEMMA OthersKept ==
  ASSUME IInv, NEW t \in Threads, NEW u \in Threads, u # t,
         th'[u] = th[u],
         Detected => Detected',
         tried => tried',
         tried' = tried \/ detectMu = {t},
         detectMu' = detectMu \/ detectMu = {t} \/ detectMu = {}
  PROVE  OneCall(u)'
  <1>1. OneCall(u) BY DEF IInv
  <1>2. Holding(u)' <=> Holding(u) BY DEF Holding, At
  <1>3. Holding(u) => detectMu = {u} BY <1>1 DEF OneCall, CallInv
  <1>4. Holding(u) => detectMu' = {u} /\ tried' = tried BY <1>3
  <1> QED BY <1>1, <1>2, <1>4 DEF OneCall, CallInv, At

LEMMA Quiet ==
  ASSUME IInv, HostChanges PROVE IInv'
  BY DEF IInv, Types, Mutex, Cache, OneCall, CallInv, Holding, At, Detected, HostChanges, service

(* A step that leaves cache and mutex alone and takes t's call to a good    *)
(* state: nine of the twelve actions, and the goroutine's part is all there *)
(* is to show.                                                             *)
LEMMA LocalStep ==
  ASSUME IInv, NEW t \in Threads, NEW c \in CallType,
         th' = [th EXCEPT ![t] = c],
         UNCHANGED <<caps, tried, err, detectMu, host>>,
         runs' \in 0..MaxRuns,
         OneCall(t)'
  PROVE  IInv'
  <1>1. Types' BY DEF IInv, Types
  <1>2. Mutex' /\ Cache' BY DEF IInv, Mutex, Cache, Detected
  <1>3. ASSUME NEW u \in Threads PROVE OneCall(u)'
      <2>1. CASE u = t BY <2>1
      <2>2. CASE u # t
          <3>1. th'[u] = th[u] BY <2>2 DEF IInv, Types
          <3> QED BY <2>2, <3>1, OthersKept DEF Detected
      <2> QED BY <2>1, <2>2
  <1> QED BY <1>1, <1>2, <1>3 DEF IInv

LEMMA StepIInv ==
  ASSUME IInv, [Next]_vars
  PROVE  IInv'
  <1> USE DEF At, Detected, Go, Return
  <1>1. CASE HostChanges BY <1>1, Quiet
  <1>2. CASE UNCHANGED vars
      BY <1>2 DEF IInv, Types, Mutex, Cache, OneCall, CallInv, Holding, vars, service
  <1>3. ASSUME NEW t \in Threads, Call(t) \/ Cut(t) \/ Lock(t) \/ Proceed(t)
        PROVE  IInv'
    <2> DEFINE c == th'[t]
    <2>0. /\ th \in [Threads -> CallType] /\ th[t] \in CallType /\ runs \in 0..MaxRuns
          /\ err \in Results /\ OneCall(t) /\ Mutex /\ Cache /\ MaxRuns \in Nat
        BY DetectionAssumption DEF IInv, Types
    <2>1. CASE CallEnsure(t)
        <3>1. c \in CallType /\ th' = [th EXCEPT ![t] = c]
            BY <2>0, <2>1 DEF CallEnsure, Idle, CallType, Places, Results
        <3>2. OneCall(t)'
            BY <2>0, <2>1 DEF CallEnsure, Idle, OneCall, CallInv, Holding, service
        <3> QED BY <2>0, <2>1, <3>1, <3>2, LocalStep DEF CallEnsure, service
    <2>2. CASE CallReload(t)
        <3>1. c \in CallType /\ th' = [th EXCEPT ![t] = c]
            BY <2>0, <2>2 DEF CallReload, Idle, CallType, Places, Results
        <3>2. OneCall(t)'
            BY <2>0, <2>2 DEF CallReload, Idle, OneCall, CallInv, Holding, service
        <3> QED BY <2>0, <2>2, <3>1, <3>2, LocalStep DEF CallReload, service
    <2>3. CASE Cut(t)
        <3>1. c \in CallType /\ th' = [th EXCEPT ![t] = c]
            BY <2>0, <2>3 DEF Cut, CallType
        <3>2. OneCall(t)'
            BY <2>0, <2>3 DEF Cut, OneCall, CallInv, Holding, service
        <3> QED BY <2>0, <2>3, <3>1, <3>2, LocalStep DEF Cut, service
    <2>4. CASE FastCheck(t)
        <3>1. c \in CallType /\ th' = [th EXCEPT ![t] = c]
            BY <2>0, <2>4 DEF FastCheck, CallType, Places, Results
        <3>2. OneCall(t)'
            BY <2>0, <2>4 DEF FastCheck, OneCall, CallInv, Holding, service, CallType
        <3> QED BY <2>0, <2>4, <3>1, <3>2, LocalStep DEF FastCheck, service
    <2>5. CASE Begin(t)
        <3>1. c \in CallType /\ th' = [th EXCEPT ![t] = c]
            BY <2>0, <2>5 DEF Begin, CallType, Places
        <3>2. OneCall(t)'
            BY <2>0, <2>5 DEF Begin, OneCall, CallInv, Holding, CallType
        <3>3. runs' \in 0..MaxRuns BY <2>0, <2>5 DEF Begin
        <3> QED BY <2>0, <2>5, <3>1, <3>2, <3>3, LocalStep DEF Begin
    <2>6. CASE Versions(t)
        <3>1. c \in CallType /\ th' = [th EXCEPT ![t] = c]
            BY <2>0, <2>6 DEF Versions, Finish, CallType, Places, Results
        <3>2. OneCall(t)'
            BY <2>0, <2>6 DEF Versions, Finish, OneCall, CallInv, Holding, service, CallType
        <3> QED BY <2>0, <2>6, <3>1, <3>2, LocalStep DEF Versions, service
    <2>7. CASE Populate(t)
        <3>1. c \in CallType /\ th' = [th EXCEPT ![t] = c]
            BY <2>0, <2>7 DEF Populate, Finish, CallType, Places, Results
        <3>2. OneCall(t)'
            BY <2>0, <2>7 DEF Populate, Finish, OneCall, CallInv, Holding, service, CallType
        <3> QED BY <2>0, <2>7, <3>1, <3>2, LocalStep DEF Populate, service
    <2>8. CASE Lock(t)
        <3>1. c \in CallType /\ th' = [th EXCEPT ![t] = c]
            BY <2>0, <2>8 DEF Lock, CallType, Places
        <3>2. Types' BY <2>0, <2>8, <3>1 DEF Lock, IInv, Types, service
        <3>3. Mutex' /\ Cache' BY <2>0, <2>8 DEF Lock, Mutex, Cache, service
        <3>4. OneCall(t)'
            BY <2>0, <2>8 DEF Lock, OneCall, CallInv, Holding, service, CallType
        <3>5. \A u \in Threads \ {t} : OneCall(u)'
            BY <2>0, <2>8, OthersKept DEF Lock, service
        <3> QED BY <3>2, <3>3, <3>4, <3>5 DEF IInv
    <2>9. CASE Recheck(t)
        <3>1. c \in CallType /\ th' = [th EXCEPT ![t] = c]
            BY <2>0, <2>9 DEF Recheck, CallType, Places, Results
        <3>2. detectMu = {t} BY <2>0, <2>9 DEF Recheck, OneCall, CallInv, Holding
        <3>3. detectMu' \in {detectMu, {}} BY <2>9 DEF Recheck
        <3>4. Types' BY <2>9, <3>1, <3>3 DEF Recheck, IInv, Types, service
        <3>5. Mutex' /\ Cache' BY <2>0, <2>9, <3>3 DEF Recheck, Mutex, Cache, service
        <3>6. OneCall(t)'
            BY <2>0, <2>9, <3>2 DEF Recheck, OneCall, CallInv, Holding, Cache, service, CallType
        <3>7. \A u \in Threads \ {t} : OneCall(u)'
            <4> SUFFICES ASSUME NEW u \in Threads \ {t} PROVE OneCall(u)'
                OBVIOUS
            <4>1. th'[u] = th[u] BY <2>0, <2>9 DEF Recheck
            <4>2. UNCHANGED <<caps, tried>> BY <2>9 DEF Recheck, service
            <4> QED BY <3>2, <4>1, <4>2, OthersKept
        <3> QED BY <3>4, <3>5, <3>6, <3>7 DEF IInv
    <2>10. CASE Publish(t)
        <3>1. c \in CallType /\ th' = [th EXCEPT ![t] = c]
            BY <2>0, <2>10 DEF Publish, Finish, CallType, Places, Results
        <3>2. Detected' /\ caps' \in {"none", "whole", "cut"}
            BY <2>0, <2>10 DEF Publish, CallType, OneCall, CallInv
        <3>3. Types' BY <2>10, <3>1, <3>2 DEF Publish, IInv, Types
        <3>4. Mutex' /\ Cache' BY <2>0, <2>10, <3>2 DEF Publish, Mutex, Cache
        <3>5. OneCall(t)'
            BY <2>0, <2>10, <3>2 DEF Publish, Finish, OneCall, CallInv, Holding, CallType
        <3>6. \A u \in Threads \ {t} : OneCall(u)'
            <4> SUFFICES ASSUME NEW u \in Threads \ {t} PROVE OneCall(u)'
                OBVIOUS
            <4>1. th'[u] = th[u] BY <2>0, <2>10 DEF Publish, Finish
            <4>2. UNCHANGED <<tried, detectMu>> BY <2>10 DEF Publish
            <4> QED BY <3>2, <4>1, <4>2, OthersKept
        <3> QED BY <3>3, <3>4, <3>5, <3>6 DEF IInv
    <2>11. CASE Record(t)
        <3>1. c \in CallType /\ th' = [th EXCEPT ![t] = c]
            BY <2>0, <2>11 DEF Record, CallType, Places
        <3>2. detectMu = {t} BY <2>0, <2>11 DEF Record, OneCall, CallInv, Holding
        <3>3. tried' \in BOOLEAN /\ err' \in Results /\ (tried => tried')
            BY <2>0, <2>11 DEF Record, CallType, IInv, Types
        <3>4. Types' BY <2>11, <3>1, <3>3 DEF Record, IInv, Types
        <3>5. Mutex' /\ Cache' BY <2>0, <2>11 DEF Record, Mutex, Cache, OneCall
        <3>6. OneCall(t)'
            BY <2>0, <2>11, <3>2 DEF Record, OneCall, CallInv, Holding, CallType
        <3>7. \A u \in Threads \ {t} : OneCall(u)'
            BY <2>0, <2>11, <3>2, <3>3, OthersKept DEF Record
        <3> QED BY <3>4, <3>5, <3>6, <3>7 DEF IInv
    <2> QED BY <1>3, <2>1, <2>2, <2>3, <2>4, <2>5, <2>6, <2>7, <2>8, <2>9, <2>10, <2>11
            DEF Call, Proceed
  <1> QED BY <1>1, <1>2, <1>3 DEF Next

(* The strengthened invariant holds in every reachable state.              *)
THEOREM StrongInvariant == Spec => []IInv
  <1> QED BY InitIInv, StepIInv, PTL DEF Spec

(* ensureDetected's cache and calls keep their types, and at most one       *)
(* goroutine is between the lock and the unlock of detectMu.               *)
THEOREM TypeCorrect == Spec => []TypeOK
  <1>1. IInv => TypeOK BY IInvImplies DEF DetectionInv
  <1> QED BY <1>1, StrongInvariant, PTL

(* An operation goes on past ensureDetected only with capabilities.        *)
THEOREM OperationsAreDetected == Spec => []OkMeansDetected
  <1>1. IInv => OkMeansDetected BY IInvImplies DEF DetectionInv
  <1> QED BY <1>1, StrongInvariant, PTL

(* A call that reports a cancellation was itself cancelled.                *)
THEOREM CancellationIsPrivate == Spec => []NoForeignCancel
  <1>1. IInv => NoForeignCancel BY IInvImplies DEF DetectionInv
  <1> QED BY <1>1, StrongInvariant, PTL

(* A caller of ensureDetected that came after an outcome was cached starts  *)
(* no detection, and a cached outcome is not cached over.                  *)
THEOREM DetectionRunsOnce == Spec => DetectsOnce
  <1> DEFINE Once == \A t \in Threads : th[t].via = "ensure" =>
                       /\ Begin(t) => ~th[t].known
                       /\ Record(t) /\ th[t].res # "ctx" => ~tried
  <1>1. ASSUME IInv PROVE Once
      BY <1>1 DEF IInv, OneCall, CallInv, Holding, At, Begin, Record
  <1>2. IInv /\ [Next]_vars => [Once]_vars BY <1>1
  <1>3. Spec => [][Once]_vars BY <1>2, StrongInvariant, PTL DEF Spec
  <1> QED BY <1>3 DEF DetectsOnce
=============================================================================
