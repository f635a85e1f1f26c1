---------------------------- MODULE ServiceCalls ----------------------------
(***************************************************************************)
(* The methods of Service (service.go, service_capture.go,                 *)
(* service_media.go): every one of them goes through the same stations -   *)
(* detection and the checks, perhaps a duration probe in a probe slot of   *)
(* its own, a slot of its class, one external process, the return - and    *)
(* differs in what the process writes to and in who waits for it.  This    *)
(* module follows several calls at once from the request to the last       *)
(* effect of each: the process, the goroutine that copies its output, the  *)
(* files it leaves and the slot it holds.                                  *)
(*                                                                         *)
(* The slots are abstract here, one pool per class; Limiter.tla models the *)
(* channels behind them and Detection.tla what ensureDetected does.        *)
(***************************************************************************)
EXTENDS Naturals, FiniteSets, TLC

CONSTANTS Calls,    \* the calls that are made, each at most once
          Methods,  \* the methods they may be calls of
          Capacity, \* [Classes -> Nat], Config.Concurrency
          Stuck     \* the calls whose writer accepts nothing any more

VARIABLES method,   \* the method of a call, NoMethod before it is made
          class,    \* the class of its main slot
          pc,       \* where the call is
          result,   \* what it returned
          ctxDone,  \* its context is cancelled or timed out
          proc,     \* its process, as the operating system sees it
          copier,   \* the goroutine copying the output to the writer
          holders,  \* [Classes -> SUBSET Calls], who holds a slot
          temps,    \* the calls with a temporary file on disk
          dest      \* what is at the path a call writes to

vars == <<method, class, pc, result, ctxDone, proc, copier, holders, temps, dest>>

Classes  == {"probe", "decode", "encode"}
NoMethod == "none"

(***************************************************************************)
(* How a method delivers.  "run": ffmpeg or ffprobe is run and waited for; *)
(* "frame": one frame is copied to the caller's writer; "file": the frame  *)
(* goes to a temporary file that is renamed; "shot": the frame is written  *)
(* to the path itself; "pipe": fMP4 is streamed to a writer; "list": run,  *)
(* with a temporary list file; "job": the process outlives the call.       *)
(***************************************************************************)
Delivery(via, slots, measures) == [via |-> via, slots |-> slots, measures |-> measures]

QueryMethods ==
  [m \in {"ProbeStream", "GetMediaDuration", "GetImageDimensions"} |->
     Delivery("run", {"probe"}, FALSE)]

ScreenshotMethods ==
  "Screenshot" :> Delivery("shot", {"decode"}, FALSE)

SheetMethods ==
  "SpriteSheet" :> Delivery("run", {"decode"}, FALSE)

PreviewMethods ==
  "VideoPreview" :> Delivery("frame", {"decode"}, TRUE)

CaptureMethods ==
  "CaptureFrame" :> Delivery("frame", {"decode"}, TRUE) @@
  "CaptureFrameFile" :> Delivery("file", {"decode"}, TRUE)

FileEncodeMethods ==
  [m \in {"Transcode", "SegmentRecord"} |-> Delivery("run", {"encode"}, FALSE)]

StreamMethods ==
  "FMP4StreamCopy" :> Delivery("pipe", {"decode"}, FALSE) @@
  "FMP4Transcode" :> Delivery("pipe", {"encode"}, FALSE)

\* hlsSlotClass: a remux or a video copy takes a decode slot.
SegmentMethods ==
  [m \in {"HLSSegment", "HLSInitAndSegment", "HLSSegmentMedia"} |->
     Delivery("pipe", {"decode", "encode"}, FALSE)]

JobMethods ==
  [m \in {"StartHLSVODSegmentJob", "StartHLSContinuous"} |->
     Delivery("job", {"decode", "encode"}, FALSE)]

TimingMethods ==
  [m \in {"ProbeVideoFPS", "ProbeVideoKeyframeTimesBounded",
          "ProbeVideoKeyframeTimes", "DetectSubtitles"} |->
     Delivery("run", {"probe"}, FALSE)]

ConversionMethods ==
  [m \in {"ExtractSubtitle", "ConvertHEIC"} |-> Delivery("run", {"decode"}, FALSE)] @@
  "TimelapseCompile" :> Delivery("run", {"encode"}, FALSE)

ConcatMethods ==
  "ConcatMedia" :> Delivery("list", {"encode"}, FALSE)

Table == QueryMethods @@ ScreenshotMethods @@ SheetMethods @@ PreviewMethods
           @@ CaptureMethods @@ FileEncodeMethods @@ StreamMethods @@ SegmentMethods
           @@ JobMethods @@ TimingMethods @@ ConversionMethods @@ ConcatMethods

ASSUME CallsAssumption == Calls # {} /\ Stuck \subseteq Calls
ASSUME MethodsAssumption == Methods \subseteq DOMAIN Table
ASSUME CapacityAssumption == Capacity \in [Classes -> Nat]

Via(c) == IF method[c] = NoMethod THEN NoMethod ELSE Table[method[c]].via

Copies(c)  == Via(c) \in {"frame", "file", "shot", "pipe"}
UsesTemp(c) == Via(c) \in {"file", "list"}
Exited(c)  == proc[c] \in {"ok", "failed"}
Over(c)    == pc[c] = "over"

Stations == {"idle", "gate", "wait_probe", "probe", "measuring",
             "wait", "start", "running", "rename", "over"}

TypeOK ==
  /\ method \in [Calls -> Methods \cup {NoMethod}]
  /\ class \in [Calls -> Classes]
  /\ pc \in [Calls -> Stations]
  /\ result \in [Calls -> {"none", "ok", "err"}]
  /\ ctxDone \in [Calls -> BOOLEAN]
  /\ proc \in [Calls -> {"none", "running", "killed", "ok", "failed"}]
  /\ copier \in [Calls -> {"none", "active", "done", "failed"}]
  /\ holders \in [Classes -> SUBSET Calls]
  /\ temps \subseteq Calls
  /\ dest \in [Calls -> {"old", "absent", "partial", "whole"}]

Init ==
  /\ method = [c \in Calls |-> NoMethod]
  /\ class = [c \in Calls |-> "probe"]
  /\ pc = [c \in Calls |-> "idle"]
  /\ result = [c \in Calls |-> "none"]
  /\ ctxDone = [c \in Calls |-> FALSE]
  /\ proc = [c \in Calls |-> "none"]
  /\ copier = [c \in Calls |-> "none"]
  /\ holders = [k \in Classes |-> {}]
  /\ temps = {}
  /\ dest = [c \in Calls |-> "old"]

-----------------------------------------------------------------------------
(* Moving a call along: to a station, or to its return with an outcome,    *)
(* which drops the slot (defer lease.Release) and the temporary file       *)
(* (defer os.Remove) it still has.                                         *)

Goto(c, station) == pc' = [pc EXCEPT ![c] = station]

Return(c, outcome) ==
  /\ pc' = [pc EXCEPT ![c] = "over"]
  /\ result' = [result EXCEPT ![c] = outcome]
  /\ holders' = [k \in Classes |-> holders[k] \ {c}]
  /\ temps' = temps \ {c}

Request(c, m, k) ==
  /\ pc[c] = "idle"
  /\ k \in Table[m].slots
  /\ method' = [method EXCEPT ![c] = m]
  /\ class' = [class EXCEPT ![c] = k]
  /\ Goto(c, "gate")
  /\ UNCHANGED <<result, ctxDone, proc, copier, holders, temps, dest>>

(* ensureDetected, require, the profile and option checks: any may refuse. *)
Refuse(c) ==
  /\ pc[c] = "gate"
  /\ Return(c, "err")
  /\ UNCHANGED <<method, class, ctxDone, proc, copier, dest>>

Admit(c) ==
  /\ pc[c] = "gate"
  /\ \/ Goto(c, "wait")
     \/ Table[method[c]].measures /\ Goto(c, "wait_probe")
  /\ UNCHANGED <<method, class, result, ctxDone, proc, copier, holders, temps, dest>>

(* limiter.Run and AcquireLease: wait for a slot or for the context. *)
Take(c, k) ==
  /\ Cardinality(holders[k]) < Capacity[k]
  /\ holders' = [holders EXCEPT ![k] = @ \cup {c}]

TakeProbeSlot(c) ==
  /\ pc[c] = "wait_probe"
  /\ Take(c, "probe")
  /\ Goto(c, "probe")
  /\ UNCHANGED <<method, class, result, ctxDone, proc, copier, temps, dest>>

TakeSlot(c) ==
  /\ pc[c] = "wait"
  /\ Take(c, class[c])
  /\ Goto(c, "start")
  /\ UNCHANGED <<method, class, result, ctxDone, proc, copier, temps, dest>>

GiveUpWaiting(c) ==
  /\ pc[c] \in {"wait_probe", "wait"}
  /\ ctxDone[c]
  /\ Return(c, "err")
  /\ UNCHANGED <<method, class, ctxDone, proc, copier, dest>>

-----------------------------------------------------------------------------
(* The duration probe: ffprobe under the probe slot, which is given back    *)
(* before the call queues for its main slot.                                *)

StartProbe(c) ==
  /\ pc[c] = "probe"
  /\ ~ctxDone[c]
  /\ proc' = [proc EXCEPT ![c] = "running"]
  /\ Goto(c, "measuring")
  /\ UNCHANGED <<method, class, result, ctxDone, copier, holders, temps, dest>>

(* Mutant: the probe slot is kept until the call returns. *)
FinishProbe_KeepsSlot(c) ==
  /\ pc[c] = "measuring"
  /\ proc[c] = "ok"
  /\ proc' = [proc EXCEPT ![c] = "none"]
  /\ Goto(c, "wait")
  /\ UNCHANGED <<method, class, result, ctxDone, copier, holders, temps, dest>>

FinishProbe(c) ==
  /\ pc[c] = "measuring"
  /\ proc[c] = "ok"
  /\ proc' = [proc EXCEPT ![c] = "none"]
  /\ holders' = [holders EXCEPT !["probe"] = @ \ {c}]
  /\ Goto(c, "wait")
  /\ UNCHANGED <<method, class, result, ctxDone, copier, temps, dest>>

FailProbe(c) ==
  /\ \/ pc[c] = "probe"
     \/ pc[c] = "measuring" /\ proc[c] = "failed"
  /\ Return(c, "err")
  /\ UNCHANGED <<method, class, ctxDone, proc, copier, dest>>

-----------------------------------------------------------------------------
(* The main process.  Opening the destination and creating the temporary    *)
(* precede it; exec refuses to start it once the context is done.           *)

Start(c) ==
  /\ pc[c] = "start"
  /\ ~ctxDone[c]
  /\ proc' = [proc EXCEPT ![c] = "running"]
  /\ copier' = [copier EXCEPT ![c] = IF Copies(c) THEN "active" ELSE "none"]
  /\ temps' = IF UsesTemp(c) THEN temps \cup {c} ELSE temps
  /\ dest' = [dest EXCEPT ![c] = IF Via(c) = "shot" THEN "partial" ELSE @]
  /\ Goto(c, "running")
  /\ UNCHANGED <<method, class, result, ctxDone, holders>>

(* A bad option, an argument the resolver refuses, a file that cannot be   *)
(* opened, a binary that cannot be run: captureFrameToPath removes the     *)
(* file it opened.                                                         *)
StartFails(c) ==
  /\ pc[c] = "start"
  /\ Return(c, "err")
  /\ \/ UNCHANGED dest
     \/ Via(c) = "shot" /\ dest' = [dest EXCEPT ![c] = "absent"]
  /\ UNCHANGED <<method, class, ctxDone, proc, copier>>

(* Mutant: the lease is released when the call that took it returns. *)
HandOver_Releases(c) ==
  /\ pc[c] = "running" /\ Via(c) = "job"
  /\ Return(c, "ok")
  /\ UNCHANGED <<method, class, ctxDone, proc, copier, dest>>

(* StartHLSVODSegmentJob and StartHLSContinuous return as soon as the       *)
(* process runs; a goroutine keeps the lease until job.Wait returns.        *)
HandOver(c) ==
  /\ pc[c] = "running" /\ Via(c) = "job"
  /\ Goto(c, "over")
  /\ result' = [result EXCEPT ![c] = "ok"]
  /\ UNCHANGED <<method, class, ctxDone, proc, copier, holders, temps, dest>>

(* Mutant: the lease of a job that failed or was killed is forgotten. *)
ReleaseJobLease_IfOk(c) ==
  /\ Over(c) /\ Via(c) = "job" /\ proc[c] = "ok"
  /\ c \in holders[class[c]]
  /\ holders' = [holders EXCEPT ![class[c]] = @ \ {c}]
  /\ UNCHANGED <<method, class, pc, result, ctxDone, proc, copier, temps, dest>>

ReleaseJobLease(c) ==
  /\ Over(c) /\ Via(c) = "job" /\ Exited(c)
  /\ c \in holders[class[c]]
  /\ holders' = [holders EXCEPT ![class[c]] = @ \ {c}]
  /\ UNCHANGED <<method, class, pc, result, ctxDone, proc, copier, temps, dest>>

(* Mutant: the status of the process is passed on as it is. *)
FinishRun_Raw(c) ==
  /\ pc[c] = "running" /\ Via(c) \in {"run", "list"} /\ Exited(c)
  /\ Return(c, proc[c])
  /\ UNCHANGED <<method, class, ctxDone, proc, copier, dest>>

(* runner.RunFFmpeg and RunFFprobe: the call waits for the process. *)
FinishRun(c) ==
  /\ pc[c] = "running" /\ Via(c) \in {"run", "list"} /\ Exited(c)
  /\ Return(c, IF proc[c] = "ok" THEN "ok" ELSE "err")
  /\ UNCHANGED <<method, class, ctxDone, proc, copier, dest>>

(* runFMP4ToWriter: the end of the process and of its output, or the        *)
(* context, whichever select sees first; on the context it kills and        *)
(* returns, and the copy into the writer goes on without it.                *)
FinishPipe(c) ==
  /\ pc[c] = "running" /\ Via(c) = "pipe"
  /\ Exited(c) /\ copier[c] # "active"
  /\ Return(c, IF proc[c] = "ok" /\ copier[c] = "done" THEN "ok" ELSE "err")
  /\ UNCHANGED <<method, class, ctxDone, proc, copier, dest>>

AbandonPipe(c) ==
  /\ pc[c] = "running" /\ Via(c) = "pipe" /\ ctxDone[c]
  /\ proc' = [proc EXCEPT ![c] = IF @ = "running" THEN "killed" ELSE @]
  /\ Return(c, "err")
  /\ UNCHANGED <<method, class, ctxDone, copier, dest>>

(* Mutant: a failed process is not waited on for its output. *)
FrameCaptured_NoDrain(c) ==
  /\ pc[c] = "running" /\ Via(c) \in {"frame", "file", "shot"}
  /\ Exited(c)
  /\ proc[c] = "ok" => copier[c] # "active"

(* runFrameCaptureToWriter: waits for the process and then for the copy,    *)
(* cancelled or not.  captureFrameToPath then renames or cleans up.         *)
FrameCaptured(c) ==
  /\ pc[c] = "running" /\ Via(c) \in {"frame", "file", "shot"}
  /\ Exited(c) /\ copier[c] # "active"

FrameOk(c) == proc[c] = "ok" /\ copier[c] = "done" /\ ~ctxDone[c]

FinishFrame(c) ==
  /\ FrameCaptured(c) /\ FrameOk(c) /\ Via(c) = "frame"
  /\ Return(c, "ok")
  /\ UNCHANGED <<method, class, ctxDone, proc, copier, dest>>

FinishShot(c) ==
  /\ FrameCaptured(c) /\ FrameOk(c) /\ Via(c) = "shot"
  /\ dest' = [dest EXCEPT ![c] = "whole"]
  /\ \E outcome \in {"ok", "err"} : Return(c, outcome)   \* f.Sync may fail
  /\ UNCHANGED <<method, class, ctxDone, proc, copier>>

FinishTemp(c) ==
  /\ FrameCaptured(c) /\ FrameOk(c) /\ Via(c) = "file"
  /\ Goto(c, "rename")
  /\ UNCHANGED <<method, class, result, ctxDone, proc, copier, holders, temps, dest>>

(* Mutant: the file of a failed screenshot is left where it is. *)
FailFrame_Leaves(c) ==
  /\ FrameCaptured(c) /\ ~FrameOk(c)
  /\ Return(c, "err")
  /\ UNCHANGED <<method, class, ctxDone, proc, copier, dest>>

FailFrame(c) ==
  /\ FrameCaptured(c) /\ ~FrameOk(c)
  /\ dest' = [dest EXCEPT ![c] = IF Via(c) = "shot" THEN "absent" ELSE @]
  /\ Return(c, "err")
  /\ UNCHANGED <<method, class, ctxDone, proc, copier>>

Rename(c) ==
  /\ pc[c] = "rename"
  /\ dest' = [dest EXCEPT ![c] = "whole"]
  /\ Return(c, "ok")
  /\ UNCHANGED <<method, class, ctxDone, proc, copier>>

RenameFails(c) ==   \* Chmod, Close or Rename
  /\ pc[c] = "rename"
  /\ Return(c, "err")
  /\ UNCHANGED <<method, class, ctxDone, proc, copier, dest>>

-----------------------------------------------------------------------------
(* The world: the caller's context, the process and the output copy.  The   *)
(* process dies of a done context (exec.CommandContext), and may end at any *)
(* time by itself; the copy ends when the process has and the writer has    *)
(* taken everything, or when a write fails.                                 *)

Cancel(c) ==
  /\ ~ctxDone[c]
  /\ pc[c] # "idle"
  /\ Over(c) => Via(c) = "job" /\ proc[c] = "running"
  /\ ctxDone' = [ctxDone EXCEPT ![c] = TRUE]
  /\ UNCHANGED <<method, class, pc, result, proc, copier, holders, temps, dest>>

ProcessEnds(c) ==
  /\ proc[c] = "running"
  /\ \E status \in {"ok", "failed"} : proc' = [proc EXCEPT ![c] = status]
  /\ UNCHANGED <<method, class, pc, result, ctxDone, copier, holders, temps, dest>>

Kill(c) ==
  /\ proc[c] = "running" /\ ctxDone[c]
  /\ proc' = [proc EXCEPT ![c] = "killed"]
  /\ UNCHANGED <<method, class, pc, result, ctxDone, copier, holders, temps, dest>>

Reap(c) ==
  /\ proc[c] = "killed"
  /\ proc' = [proc EXCEPT ![c] = "failed"]
  /\ UNCHANGED <<method, class, pc, result, ctxDone, copier, holders, temps, dest>>

CopyEnds(c) ==
  /\ copier[c] = "active" /\ Exited(c)
  /\ c \notin Stuck
  /\ copier' = [copier EXCEPT ![c] = "done"]
  /\ UNCHANGED <<method, class, pc, result, ctxDone, proc, holders, temps, dest>>

CopyFails(c) ==
  /\ copier[c] = "active"
  /\ c \notin Stuck
  /\ copier' = [copier EXCEPT ![c] = "failed"]
  /\ UNCHANGED <<method, class, pc, result, ctxDone, proc, holders, temps, dest>>

-----------------------------------------------------------------------------
Step(c) ==
  \/ Refuse(c) \/ Admit(c)
  \/ TakeProbeSlot(c) \/ TakeSlot(c) \/ GiveUpWaiting(c)
  \/ StartProbe(c) \/ FinishProbe(c) \/ FailProbe(c)
  \/ Start(c) \/ StartFails(c) \/ HandOver(c) \/ ReleaseJobLease(c)
  \/ FinishRun(c) \/ FinishPipe(c) \/ AbandonPipe(c)
  \/ FinishFrame(c) \/ FinishShot(c) \/ FinishTemp(c) \/ FailFrame(c)
  \/ Rename(c) \/ RenameFails(c)

World(c) ==
  \/ Cancel(c) \/ ProcessEnds(c) \/ Kill(c) \/ Reap(c) \/ CopyEnds(c) \/ CopyFails(c)

Next ==
  \E c \in Calls :
    \/ \E m \in Methods, k \in Classes : Request(c, m, k)
    \/ Step(c)
    \/ World(c)

(* The goroutines of a call run; a killed process dies and a writer that    *)
(* accepts data is drained.  A process need not end by itself, and nobody   *)
(* need cancel.                                                             *)
Fairness ==
  \A c \in Calls :
    WF_vars(Step(c)) /\ WF_vars(Kill(c) \/ Reap(c)) /\ WF_vars(CopyEnds(c))

Spec == Init /\ [][Next]_vars
FairSpec == Spec /\ Fairness

-----------------------------------------------------------------------------
(* A process of ffmpeg or ffprobe runs only while its call, returned or     *)
(* not, holds the slot that pays for it: the limits of Config.Concurrency   *)
(* bound the processes, through every error path, cancellation and          *)
(* background job (limiter.Run, the goroutines of StartHLSVODSegmentJob     *)
(* and StartHLSContinuous).                                                 *)
ProcessHasSlot ==
  \A c \in Calls : proc[c] = "running" =>
    c \in holders[IF pc[c] = "measuring" THEN "probe" ELSE class[c]]

(* A destination is never seen half written once its call is over; a file   *)
(* capture (CaptureFrameFile) never shows one at all, in any state a crash  *)
(* could freeze, and replaces the old frame exactly when it reports         *)
(* success; no call that is over leaves a temporary file.                   *)
FilesAreWhole ==
  \A c \in Calls :
    /\ Over(c) => dest[c] # "partial" /\ c \notin temps
    /\ Via(c) = "file" => dest[c] = (IF result[c] = "ok" THEN "whole" ELSE "old")
    /\ result[c] = "ok" /\ Via(c) = "shot" => dest[c] = "whole"

(* A capture has stopped writing to the caller's writer when it returns,    *)
(* cancelled or not (runFrameCaptureToWriter waits for the copy): the       *)
(* caller may reuse or close the writer.                                    *)
WriterLeftAlone ==
  \A c \in Calls : Over(c) /\ Via(c) # "pipe" => copier[c] # "active"

(* What a call promises the limiter, SlotPool: it holds at most one slot,   *)
(* takes none while it holds one and never more than there are.  A call     *)
(* that queued for a slot with another in hand could wait for itself.       *)
Pool == INSTANCE SlotPool WITH
          Ops <- Calls, Channels <- Classes, Cap <- Capacity,
          Shapes <- {{k} : k \in Classes},
          running <- [c \in Calls |-> {k \in Classes : c \in holders[k]}]

OneSlotAtATime == Pool!Spec

(* A call whose context ends comes back and gives its slot up, a returned   *)
(* job included, whatever the other calls do with the slots.                *)
CancelledCallsEnd ==
  \A c \in Calls : ctxDone[c] ~> Over(c) /\ \A k \in Classes : c \notin holders[k]
=============================================================================
