------------------------------ MODULE Detection ------------------------------
(***************************************************************************)
(* service_process.go and service.go: lazy capability detection.  Every    *)
(* operation calls ensureDetected, which runs Reload once under detectMu   *)
(* and caches its outcome; the host application may call Reload at any     *)
(* time, without detectMu.  A detection runs under the context of the      *)
(* caller that happened to start it (and DetectTimeout), and many of its   *)
(* commands (PopulateEncoders, PopulateHWAccels, ...) drop their errors.   *)
(***************************************************************************)
EXTENDS Naturals, FiniteSets

CONSTANTS Threads,   \* goroutines that call the service
          HwOnly,    \* AllowSoftware = false with a device chain
          MaxRuns    \* bound: detections begun

ASSUME DetectionAssumption == /\ IsFiniteSet(Threads)
                              /\ HwOnly \in BOOLEAN /\ MaxRuns \in Nat

VARIABLES caps,       \* the published capabilities: "none", "whole", or "cut" if a
                      \* command of the detection was cut short by its context
          tried, err, runs,   \* detectTried, detectErr, detectRuns
          detectMu,   \* {} or the goroutine that holds it
          host,       \* whether ffmpeg works on this host ("good") or not
          th          \* the call each goroutine is in, and its last result

service == <<caps, tried, err, runs>>
vars    == <<service, detectMu, host, th>>

Idle   == [pc |-> "idle", via |-> "none", cut |-> FALSE, known |-> FALSE,
           found |-> "none", res |-> "none"]

Init ==
  /\ caps = "none" /\ tried = FALSE /\ err = "none" /\ runs = 0
  /\ detectMu = {}
  /\ host \in {"good", "bad"}
  /\ th = [t \in Threads |-> Idle]

Detected     == caps # "none"
At(t, p)     == th[t].pc = p
Go(t, p)     == th' = [th EXCEPT ![t].pc = p]
Return(t, r) == th' = [th EXCEPT ![t].pc = "idle", ![t].res = r]

-----------------------------------------------------------------------------
(* The environment: ffmpeg is repaired or broken, contexts end.            *)

HostChanges ==
  /\ host' = IF host = "good" THEN "bad" ELSE "good"
  /\ UNCHANGED <<service, detectMu, th>>

(* The caller's context is cancelled, or DetectTimeout expires.            *)
Cut(t) ==
  /\ ~At(t, "idle") /\ ~th[t].cut
  /\ th' = [th EXCEPT ![t].cut = TRUE]
  /\ UNCHANGED <<service, detectMu, host>>

-----------------------------------------------------------------------------
(* ensureDetected                                                          *)

(* MaxRuns: a call that may begin a detection is made only if there is room. *)
Room == runs + Cardinality({t \in Threads : th[t].pc \in {"fast", "lock", "recheck", "begin"}})
          < MaxRuns

(* known: what ensureDetected could know when it was called (history).     *)
CallEnsure(t) ==
  /\ At(t, "idle") /\ (Detected \/ tried \/ Room)
  /\ th' = [th EXCEPT ![t] = [Idle EXCEPT !.pc = "fast", !.via = "ensure",
                                          !.known = Detected \/ tried]]
  /\ UNCHANGED <<service, detectMu, host>>

(* Also New with DetectOnInit, whose Reload is the service's first.         *)
CallReload(t) ==
  /\ At(t, "idle") /\ Room
  /\ th' = [th EXCEPT ![t] = [Idle EXCEPT !.pc = "begin", !.via = "reload"]]
  /\ UNCHANGED <<service, detectMu, host>>

FastCheck(t) ==
  /\ At(t, "fast")
  /\ IF Detected THEN Return(t, "ok") ELSE Go(t, "lock")
  /\ UNCHANGED <<service, detectMu, host>>

(* Mutant: the detection is not serialised.                                *)
Lock_NoWait(t) ==
  /\ At(t, "lock")
  /\ detectMu' = detectMu \cup {t}
  /\ Go(t, "recheck")
  /\ UNCHANGED <<service, host>>

Lock(t) ==
  /\ At(t, "lock")
  /\ detectMu = {}
  /\ detectMu' = detectMu \cup {t}
  /\ Go(t, "recheck")
  /\ UNCHANGED <<service, host>>

(* Mutants: a caller that waited for the lock detects again; a failure that *)
(* was cached is not returned.                                             *)
Recheck_Skipped(t) ==
  /\ At(t, "recheck")
  /\ Go(t, "begin")
  /\ UNCHANGED <<service, detectMu, host>>
Recheck_NilErr(t) ==
  /\ At(t, "recheck")
  /\ IF Detected \/ tried THEN Return(t, "ok") /\ detectMu' = {}
                          ELSE Go(t, "begin") /\ UNCHANGED detectMu
  /\ UNCHANGED <<service, host>>

Recheck(t) ==
  /\ At(t, "recheck")
  /\ IF Detected \/ tried THEN Return(t, IF Detected THEN "ok" ELSE err) /\ detectMu' = {}
                          ELSE Go(t, "begin") /\ UNCHANGED detectMu
  /\ UNCHANGED <<service, host>>

-----------------------------------------------------------------------------
(* Reload: detectRuns is counted, Detect runs, the result is published.     *)

Begin(t) ==
  /\ At(t, "begin") /\ runs < MaxRuns
  /\ runs' = runs + 1
  /\ Go(t, "version")
  /\ UNCHANGED <<caps, tried, err, detectMu, host>>

(* Where a finished detection goes: Reload returns, ensureDetected records. *)
Finish(t, r) ==
  th' = [th EXCEPT ![t].res = r, ![t].pc = IF th[t].via = "ensure" THEN "record" ELSE "idle"]

(* buildDetectOptions, then ffmpeg -version and ffprobe -version: errors are *)
(* returned, the context's own if it is done.                              *)
Versions(t) ==
  /\ At(t, "version")
  /\ \/ th[t].cut /\ Finish(t, "ctx")
     \/ host = "bad" /\ Finish(t, "host")
     \/ ~th[t].cut /\ Go(t, "populate")
  /\ UNCHANGED <<service, detectMu, host>>

(* The Populate functions and smoke tests: a command whose context is done  *)
(* reads as "not compiled" or "not available", as a failed one does.        *)
(* Without a hardware encoder, ApplyDeviceSelection fails where software is *)
(* not allowed; a bad host may also fail it or checkMinVersion.            *)
Populate(t) ==
  /\ At(t, "populate")
  /\ \/ host = "bad" /\ Finish(t, "host")
     \/ th[t].cut /\ HwOnly /\ Finish(t, "cutNoHW")
     \/ \E found \in {"whole"} \cup (IF th[t].cut THEN {"cut"} ELSE {}) :
          th' = [th EXCEPT ![t].pc = "publish", ![t].found = found]
  /\ UNCHANGED <<service, detectMu, host>>

(* Capabilities and resolver are set together, under mu.                   *)
Publish(t) ==
  /\ At(t, "publish")
  /\ caps' = th[t].found
  /\ Finish(t, "ok")
  /\ UNCHANGED <<tried, err, runs, detectMu, host>>

(* Mutants: a cancellation is cached like any other error; a return that    *)
(* skips the unlock.                                                       *)
Record_CachesCtx(t) ==
  /\ At(t, "record")
  /\ tried' = TRUE /\ err' = th[t].res
  /\ Return(t, th[t].res)
  /\ detectMu' = {}
  /\ UNCHANGED <<caps, runs, host>>

Record_StaysLocked(t) ==
  /\ At(t, "record")
  /\ IF th[t].res = "ctx" THEN UNCHANGED <<tried, err, detectMu>>
                          ELSE tried' = TRUE /\ err' = th[t].res /\ detectMu' = {}
  /\ Return(t, th[t].res)
  /\ UNCHANGED <<caps, runs, host>>

(* shouldCacheDetectErr; then the deferred unlock.                         *)
Record(t) ==
  /\ At(t, "record")
  /\ IF th[t].res = "ctx" THEN UNCHANGED <<tried, err>> ELSE tried' = TRUE /\ err' = th[t].res
  /\ Return(t, th[t].res)
  /\ detectMu' = {}
  /\ UNCHANGED <<caps, runs, host>>

Proceed(t) == \/ FastCheck(t) \/ Recheck(t) \/ Begin(t) \/ Versions(t) \/ Populate(t)
              \/ Publish(t) \/ Record(t)

Call(t) == CallEnsure(t) \/ CallReload(t)

Next == HostChanges \/ \E t \in Threads : Call(t) \/ Cut(t) \/ Lock(t) \/ Proceed(t)

Spec == Init /\ [][Next]_vars

(* Commands end (DetectTimeout at the latest); a mutex that is released     *)
(* again and again is obtained.                                            *)
LiveSpec == Spec /\ \A t \in Threads : WF_vars(Proceed(t)) /\ SF_vars(Lock(t))

-----------------------------------------------------------------------------
(* PROPERTIES                                                              *)

Results == {"none", "ok", "ctx", "host", "cutNoHW"}

(* Type invariant: the domains of the service's cache and of the calls.     *)
TypeOK ==
  /\ caps \in {"none", "whole", "cut"}
  /\ tried \in BOOLEAN /\ err \in Results /\ runs \in 0..MaxRuns
  /\ detectMu \subseteq Threads /\ Cardinality(detectMu) <= 1
  /\ host \in {"good", "bad"}
  /\ th \in [Threads -> [pc : {"idle", "fast", "lock", "recheck", "begin", "version", "populate",
                               "publish", "record"},
                         via : {"none", "ensure", "reload"}, cut : BOOLEAN, known : BOOLEAN,
                         found : {"none", "whole", "cut"}, res : Results]]

(* An operation goes on past ensureDetected only with capabilities, however *)
(* many failures were cached and reloads ran in between.                   *)
OkMeansDetected == \A t \in Threads : th[t].res = "ok" => Detected

(* The detection is shared by its waiters, its context is not: a call that  *)
(* reports a cancellation was itself cancelled, or timed out.              *)
NoForeignCancel == \A t \in Threads : th[t].res = "ctx" => th[t].cut

(* TestEnsureDetectedRunsDetectionOnce and TestFailedDetectionIsCachedNot-  *)
(* Retried, in any interleaving: a call of ensureDetected made after an     *)
(* outcome was cached starts no detection, and an outcome is cached once.  *)
DetectsOnce ==
  [][\A t \in Threads : th[t].via = "ensure" =>
       /\ Begin(t) => ~th[t].known
       /\ Record(t) /\ th[t].res # "ctx" => ~tried]_vars

(* Liveness: a call returns, also through detectMu, which ignores contexts. *)
CallsReturn == \A t \in Threads : ~At(t, "idle") ~> At(t, "idle")

(* Inductive strengthening: whoever is between Lock and Record holds the     *)
(* mutex, nothing is cached while a detection of ensureDetected is under   *)
(* way, a cached success was published, and no cancellation is cached.     *)
Holding(t) == \/ At(t, "recheck")
              \/ th[t].via = "ensure" /\ th[t].pc \in {"begin", "version", "populate", "publish",
                                                      "record"}
CallInv(t) ==
  /\ th[t].pc \in {"fast", "lock", "recheck", "record"} => th[t].via = "ensure"
  /\ Holding(t) => detectMu = {t}
  /\ Holding(t) /\ ~At(t, "recheck") => ~tried /\ ~th[t].known
  /\ th[t].known => Detected \/ tried
  /\ At(t, "publish") => th[t].found # "none"
DetectionInv ==
  /\ TypeOK /\ OkMeansDetected /\ NoForeignCancel
  /\ err # "ctx" /\ (err = "ok" => Detected)
  /\ \A t \in Threads : CallInv(t)

(* service_process.go:46-48: cancellation and deadline expiry "are           *)
(* caller-side and must not stick until an explicit Reload".               *)
CancelDoesNotStick ==
  /\ \A t \in Threads : At(t, "record") /\ th[t].res = "ok" => th[t].found = "whole"
  /\ err # "cutNoHW"
=============================================================================
